------------------------- MODULE ObservationProofs -------------------------
(* Proofs about what is observed of a stack and of its host, and about what *)
(* is done to the user's own programs, for any clients, callers, places of  *)
(* a proxy setting and bounds.                                              *)
EXTENDS Observations, TLAPS

-----------------------------------------------------------------------------
(* The statuses of the components (module Components).                     *)

AllComponents == ProxyClients \cup Cores

\* A sample: the core first, then everything; none of it is starting.
Samples == [step : {"none", "core", "ready"}, old : BOOLEAN,
            of : [{} -> {"none"}] \cup [Cores -> {"Stopped", "Running"}]
                 \cup [AllComponents -> {"Stopped", "Running"}]]
SampleFits(s) ==
    /\ samples[s].step = "core" => samples[s].of \in [Cores -> {"Stopped", "Running"}]
    /\ samples[s].step = "ready" => samples[s].of \in [AllComponents -> {"Stopped", "Running"}]

\* Between operations the core is what the phase says, unless it died.
CoreIsAsPhase ==
    doing = "idle" =>
        /\ stackIs = "running" => coreUp \/ died
        /\ stackIs \in {"stopped", "paused"} => ~coreUp

\* What the health task has read since the last operation is what the phase says.
SampleIsAsPhase ==
    doing = "idle" /\ samples["tick"].step # "none" /\ ~samples["tick"].old =>
        \A c \in Cores : /\ stackIs = "running" => died \/ samples["tick"].of[c] = "Running"
                         /\ stackIs \in {"stopped", "paused"} => samples["tick"].of[c] = "Stopped"

\* An operation reads the machine only when it is over, and without a core where it stops.
OperationReads ==
    /\ doing \in {"idle", "clients", "core"} => samples["operation"].step = "none"
    /\ doing \in {"cancelled", "stop", "pause"} /\ samples["operation"].step # "none" =>
           ~coreUp /\ \A c \in Cores : samples["operation"].of[c] = "Stopped"

\* Once the core starts, no client is shown as starting.
ClientsHaveStarted ==
    doing = "core" => \A c \in ProxyClients : status[c] # "Starting"

ComponentsInv ==
    /\ ComponentsInvariant
    /\ samples \in [Samplers -> Samples] /\ \A s \in Samplers : SampleFits(s)
    /\ CoreIsAsPhase /\ SampleIsAsPhase /\ OperationReads /\ ClientsHaveStarted

\* Statuses of two kinds beside each other.
LEMMA StatusesBeside ==
  ASSUME NEW S, NEW cs, NEW ks,
         \A c \in ProxyClients : cs[c] \in S, \A c \in Cores : ks[c] \in S
  PROVE  /\ Statuses(cs, ks) \in [AllComponents -> S]
         /\ \A c \in Cores : Statuses(cs, ks)[c] = ks[c]
         /\ \A c \in ProxyClients : Statuses(cs, ks)[c] = cs[c]
BY DEF Statuses, AllComponents, ProxyClients, Cores

LEMMA ComponentsStep == ComponentsInv /\ [ComponentsNext]_componentVars => ComponentsInv'
<1> SUFFICES ASSUME ComponentsInv, [ComponentsNext]_componentVars PROVE ComponentsInv'
  OBVIOUS
<1> DEFINE SF == samples \in [Samplers -> Samples] /\ \A s \in Samplers : SampleFits(s)
           Shown == {"Stopped", "Running"}
           Status == {"Stopped", "Starting", "Running"}
<1>0. /\ ComponentsTypeOK /\ NothingLeftStarting /\ CoreShownAsPhase /\ SF
      /\ CoreIsAsPhase /\ SampleIsAsPhase /\ OperationReads /\ ClientsHaveStarted
  BY DEF ComponentsInv, ComponentsInvariant
<1>1. /\ status \in [AllComponents -> Status] /\ coreUp \in BOOLEAN /\ polls \in BOOLEAN
      /\ clientUp \in [ProxyClients -> BOOLEAN] /\ late \in BOOLEAN /\ died \in BOOLEAN
      /\ stackIs \in {"stopped", "running", "paused", "error"} /\ doing \in StartPlaces
  BY <1>0 DEF ComponentsTypeOK, AllComponents
<1>2. /\ CoreHealth \in [Cores -> Shown]
      /\ \A c \in Cores : CoreHealth[c] = IF coreUp THEN "Running" ELSE "Stopped"
      /\ ClientHealth \in [ProxyClients -> Shown]
  BY DEF CoreHealth, ClientHealth, Found
<1>3. /\ Statuses(ClientHealth, Everywhere(Cores, "Starting")) \in [AllComponents -> Status]
      /\ \A c \in ProxyClients : Statuses(ClientHealth, Everywhere(Cores, "Starting"))[c] \in Shown
  <2>1. /\ \A c \in ProxyClients : ClientHealth[c] \in Status /\ ClientHealth[c] \in Shown
        /\ \A c \in Cores : Everywhere(Cores, "Starting")[c] \in Status
    BY <1>2 DEF Everywhere
  <2> HIDE DEF Shown, Status
  <2> QED
    BY <2>1, StatusesBeside
<1>4. \A k \in [AllComponents -> Status] :
         /\ Statuses(ClientHealth, k) \in [AllComponents -> Status]
         /\ \A c \in Cores : Statuses(ClientHealth, k)[c] = k[c]
         /\ \A c \in ProxyClients : Statuses(ClientHealth, k)[c] \in Shown
  <2> SUFFICES ASSUME NEW k \in [AllComponents -> Status]
               PROVE  /\ Statuses(ClientHealth, k) \in [AllComponents -> Status]
                      /\ \A c \in Cores : Statuses(ClientHealth, k)[c] = k[c]
                      /\ \A c \in ProxyClients : Statuses(ClientHealth, k)[c] \in Shown
    OBVIOUS
  <2>1. /\ \A c \in ProxyClients : ClientHealth[c] \in Status /\ ClientHealth[c] \in Shown
        /\ \A c \in Cores : k[c] \in Status
    BY <1>2 DEF AllComponents
  <2>2. /\ Statuses(ClientHealth, k) \in [AllComponents -> Status]
        /\ \A c \in Cores : Statuses(ClientHealth, k)[c] = k[c]
        /\ \A c \in ProxyClients : Statuses(ClientHealth, k)[c] = ClientHealth[c]
    <3> HIDE DEF Shown, Status
    <3> QED
      BY <2>1, StatusesBeside DEF AllComponents
  <2> QED
    BY <2>1, <2>2
<1>5. \A k \in [Cores -> Shown] : Statuses(ClientHealth, k) \in [AllComponents -> Shown]
                                  /\ \A c \in Cores : Statuses(ClientHealth, k)[c] = k[c]
  <2> SUFFICES ASSUME NEW k \in [Cores -> Shown]
               PROVE  Statuses(ClientHealth, k) \in [AllComponents -> Shown]
                      /\ \A c \in Cores : Statuses(ClientHealth, k)[c] = k[c]
    OBVIOUS
  <2>1. /\ \A c \in ProxyClients : ClientHealth[c] \in Shown
        /\ \A c \in Cores : k[c] \in Shown
    BY <1>2
  <2> HIDE DEF Shown
  <2> QED
    BY <2>1, StatusesBeside DEF AllComponents
<1>6. [AllComponents -> Shown] \subseteq [AllComponents -> Status]
  OBVIOUS
<1>7. CASE \E c \in ProxyClients : ClientChanges(c)
  BY <1>0, <1>7 DEF ClientChanges, ComponentsInv, ComponentsInvariant, ComponentsTypeOK,
     NothingLeftStarting, CoreShownAsPhase, SampleFits, CoreIsAsPhase, SampleIsAsPhase,
     OperationReads, ClientsHaveStarted
<1>8. CASE CoreDies
  BY <1>0, <1>8 DEF CoreDies, ComponentsInv, ComponentsInvariant, ComponentsTypeOK,
     NothingLeftStarting, CoreShownAsPhase, SampleFits, CoreIsAsPhase, SampleIsAsPhase,
     OperationReads, ClientsHaveStarted
\* A step that takes a sample further.
<1>9. ASSUME UNCHANGED <<stackIs, doing, status, clientUp, coreUp, polls, late, died>>,
             SF', SampleIsAsPhase', OperationReads'
      PROVE  ComponentsInv'
  BY <1>0, <1>9 DEF ComponentsInv, ComponentsInvariant, ComponentsTypeOK,
     NothingLeftStarting, CoreShownAsPhase, CoreIsAsPhase, ClientsHaveStarted
<1>10. CASE \E s \in Samplers : BeginSample(s)
  <2>1. PICK s \in Samplers : BeginSample(s)
    BY <1>10
  <2>2. samples' = [samples EXCEPT ![s] = [step |-> "core", old |-> FALSE, of |-> CoreHealth]]
        /\ MaySample(s) /\ samples[s].step = "none"
    BY <2>1 DEF BeginSample
  <2>3. [step |-> "core", old |-> FALSE, of |-> CoreHealth] \in Samples
    BY <1>2 DEF Samples
  <2>4. SF'
    BY <2>2, <2>3, <1>0, <1>2 DEF SampleFits
  <2>5. SampleIsAsPhase'
    BY <2>1, <2>2, <1>0, <1>1, <1>2 DEF BeginSample, SampleIsAsPhase, CoreIsAsPhase
  <2>6. OperationReads'
    BY <2>1, <2>2, <1>0, <1>1, <1>2 DEF BeginSample, MaySample, OperationReads
  <2> QED
    BY <1>9, <2>1, <2>4, <2>5, <2>6 DEF BeginSample
<1>11. CASE \E s \in Samplers : SampleClients(s)
  <2>1. PICK s \in Samplers : SampleClients(s)
    BY <1>11
  <2> DEFINE k == samples[s].of
  <2>3. k \in [Cores -> Shown] /\ samples[s].step = "core" /\ samples[s] \in Samples
    BY <2>1, <1>0 DEF SampleClients, SampleFits
  <2>4. Statuses(ClientHealth, k) \in [AllComponents -> Shown]
        /\ \A c \in Cores : Statuses(ClientHealth, k)[c] = k[c]
    BY <2>3, <1>5
  <2>5. samples' = [samples EXCEPT ![s] =
                      [step |-> "ready", old |-> samples[s].old, of |-> Statuses(ClientHealth, k)]]
    <3>1. /\ DOMAIN samples = Samplers /\ DOMAIN samples' = Samplers
          /\ \A t \in Samplers : t # s => samples'[t] = samples[t]
          /\ samples'[s] = [samples[s] EXCEPT !.step = "ready", !.of = Statuses(ClientHealth, k)]
      BY <2>1, <1>0 DEF SampleClients
    <3>2. samples'[s] = [step |-> "ready", old |-> samples[s].old, of |-> Statuses(ClientHealth, k)]
      BY <3>1, <2>3 DEF Samples
    <3>3. samples' = [t \in Samplers |-> samples'[t]]
      BY <2>1, <1>0 DEF SampleClients
    <3> QED
      BY <3>1, <3>2, <3>3
  <2>6. [step |-> "ready", old |-> samples[s].old, of |-> Statuses(ClientHealth, k)] \in Samples
    BY <2>3, <2>4 DEF Samples
  <2>7. SF'
    BY <2>4, <2>5, <2>6, <1>0 DEF SampleFits
  <2>10. /\ \A t \in Samplers : t # s => samples'[t] = samples[t]
         /\ samples'[s].step = "ready" /\ samples'[s].old = samples[s].old
         /\ \A c \in Cores : samples'[s].of[c] = samples[s].of[c]
         /\ UNCHANGED <<stackIs, doing, status, clientUp, coreUp, polls, late, died>>
    BY <2>1, <2>4, <2>5, <1>0 DEF SampleClients
  <2>8. SampleIsAsPhase'
    BY <2>3, <2>10, <1>0 DEF SampleIsAsPhase, Samplers
  <2>9. OperationReads'
    BY <2>3, <2>10, <1>0 DEF OperationReads, Samplers
  <2> QED
    BY <1>9, <2>1, <2>7, <2>8, <2>9 DEF SampleClients
<1>12. CASE TickPublishes
  <2>1. /\ samples["tick"].step = "ready" /\ status' = samples["tick"].of
        /\ samples' = [samples EXCEPT !["tick"] = NoSample] /\ late' = samples["tick"].old
        /\ UNCHANGED <<stackIs, doing, clientUp, coreUp, polls, died>>
    BY <1>12 DEF TickPublishes
  <2>2. status' \in [AllComponents -> Shown] /\ samples["tick"].old \in BOOLEAN
    BY <2>1, <1>0 DEF SampleFits, Samplers, Samples
  <2>3. ComponentsTypeOK' /\ NothingLeftStarting' /\ ClientsHaveStarted'
    BY <2>1, <2>2, <1>0, <1>1 DEF ComponentsTypeOK, NothingLeftStarting, ClientsHaveStarted, AllComponents
  <2>4. CoreShownAsPhase'
    BY <2>1, <2>2, <1>0 DEF CoreShownAsPhase, SampleIsAsPhase
  <2>5. NoSample \in Samples
    BY DEF NoSample, Samples
  <2>6. SF' /\ SampleIsAsPhase' /\ CoreIsAsPhase' /\ OperationReads'
    BY <2>1, <2>5, <1>0 DEF NoSample, SampleFits, SampleIsAsPhase, CoreIsAsPhase, OperationReads, Samplers
  <2> QED
    BY <2>3, <2>4, <2>6 DEF ComponentsInv, ComponentsInvariant
\* A step within an operation, or one that begins it, that leaves the samples alone.
<1>13. ASSUME doing' # "idle", doing' \in StartPlaces, UNCHANGED <<stackIs, samples, clientUp, polls, late>>,
              status' \in [AllComponents -> Status], coreUp' \in BOOLEAN, died' \in BOOLEAN,
              OperationReads', ClientsHaveStarted'
       PROVE  ComponentsInv'
  BY <1>0, <1>1, <1>13 DEF ComponentsInv, ComponentsInvariant, ComponentsTypeOK, AllComponents,
     NothingLeftStarting, CoreShownAsPhase, SampleFits, CoreIsAsPhase, SampleIsAsPhase
\* A status that is written beside the others.
<1>14. \A s \in Status : /\ Statuses(Everywhere(ProxyClients, s), status) \in [AllComponents -> Status]
  <2> SUFFICES ASSUME NEW s \in Status
               PROVE  Statuses(Everywhere(ProxyClients, s), status) \in [AllComponents -> Status]
    OBVIOUS
  <2>1. /\ \A c \in ProxyClients : Everywhere(ProxyClients, s)[c] \in Status
        /\ \A c \in Cores : status[c] \in Status
    BY <1>1 DEF Everywhere, AllComponents
  <2> HIDE DEF Status
  <2> QED
    BY <2>1, StatusesBeside DEF AllComponents
<1>15. \A k \in [Cores -> Status] : /\ Statuses(status, k) \in [AllComponents -> Status]
                                    /\ \A c \in ProxyClients : Statuses(status, k)[c] = status[c]
                                    /\ \A c \in Cores : Statuses(status, k)[c] = k[c]
  <2> SUFFICES ASSUME NEW k \in [Cores -> Status]
               PROVE  /\ Statuses(status, k) \in [AllComponents -> Status]
                      /\ \A c \in ProxyClients : Statuses(status, k)[c] = status[c]
                      /\ \A c \in Cores : Statuses(status, k)[c] = k[c]
    OBVIOUS
  <2>1. /\ \A c \in ProxyClients : status[c] \in Status
        /\ \A c \in Cores : k[c] \in Status
    BY <1>1 DEF AllComponents
  <2> HIDE DEF Status
  <2> QED
    BY <2>1, StatusesBeside DEF AllComponents
<1>16. CASE BeginStart
  BY <1>0, <1>1, <1>13, <1>14, <1>16 DEF BeginStart, OperationReads, ClientsHaveStarted, StartPlaces
<1>17. CASE PublishClientProgress
  BY <1>0, <1>1, <1>13, <1>4, <1>17 DEF PublishClientProgress, OperationReads, ClientsHaveStarted, StartPlaces
<1>18. CASE StartCore
  BY <1>0, <1>1, <1>13, <1>3, <1>18 DEF StartCore, OperationReads, ClientsHaveStarted, StartPlaces
<1>19. CASE CoreOpens
  BY <1>0, <1>1, <1>13, <1>19 DEF CoreOpens, OperationReads, ClientsHaveStarted, StartPlaces
<1>20. CASE PublishCoreProgress
  <2>1. [c \in Cores |-> PreserveStarting(status[c], ProgressHealth[c])] \in [Cores -> Status]
    BY <1>1 DEF PreserveStarting, ProgressHealth, Found, AllComponents
  <2> QED
    BY <2>1, <1>0, <1>1, <1>13, <1>15, <1>20 DEF PublishCoreProgress, OperationReads,
       ClientsHaveStarted, StartPlaces
<1>21. CASE \E as \in {"failed", "cancelled", "pause"} : StartEnds(as)
  BY <1>0, <1>1, <1>13, <1>21 DEF StartEnds, OperationReads, ClientsHaveStarted, StartPlaces
<1>22. CASE \E as \in {"stop", "pause"} : BeginStop(as)
  BY <1>0, <1>1, <1>13, <1>22 DEF BeginStop, OperationReads, ClientsHaveStarted, StartPlaces
<1>23. CASE StopCore
  BY <1>0, <1>1, <1>13, <1>23 DEF StopCore, OperationReads, ClientsHaveStarted, StartPlaces
\* An operation that ends.
<1>24. ASSUME NEW as \in {"stopped", "running", "paused", "error"}, Settles(as),
              UNCHANGED <<clientUp, coreUp, polls, died>>,
              status' \in [AllComponents -> Shown], CoreShownAsPhase', CoreIsAsPhase'
       PROVE  ComponentsInv'
  <2>1. /\ doing' = "idle" /\ stackIs' = as /\ late' = FALSE
        /\ samples' = [s \in Samplers |-> IF s = "operation" \/ samples[s].step = "none"
                                          THEN NoSample ELSE [samples[s] EXCEPT !.old = TRUE]]
    BY <1>24 DEF Settles
  <2>2. NoSample \in Samples /\ NoSample.step = "none"
    BY DEF NoSample, Samples
  <2>3. \A s \in Samplers : LET r == [samples[s] EXCEPT !.old = TRUE]
                            IN r \in Samples /\ r.step = samples[s].step /\ r.of = samples[s].of /\ r.old
    BY <1>0 DEF Samples
  <2>4. SF'
    BY <2>1, <2>2, <2>3, <1>0 DEF SampleFits
  <2>5. SampleIsAsPhase' /\ OperationReads'
    BY <2>1, <2>2, <2>3 DEF SampleIsAsPhase, OperationReads, Samplers
  <2>6. ComponentsTypeOK' /\ NothingLeftStarting' /\ ClientsHaveStarted'
    BY <2>1, <1>1, <1>24 DEF ComponentsTypeOK, NothingLeftStarting, ClientsHaveStarted, AllComponents,
       StartPlaces
  <2> QED
    BY <2>4, <2>5, <2>6, <1>24 DEF ComponentsInv, ComponentsInvariant
<1>25. CASE StartSucceeds
  <2>1. Everywhere(Cores, "Running") \in [Cores -> Status]
        /\ \A c \in Cores : Everywhere(Cores, "Running")[c] = "Running"
    BY DEF Everywhere
  <2>2. status' = Statuses(status, Everywhere(Cores, "Running")) /\ doing = "core" /\ coreUp
        /\ Settles("running") /\ UNCHANGED <<clientUp, coreUp, polls, died>>
    BY <1>25 DEF StartSucceeds
  <2>3. status' \in [AllComponents -> Status] /\ (\A c \in Cores : status'[c] = "Running")
        /\ \A c \in ProxyClients : status'[c] = status[c]
    BY <2>1, <2>2, <1>15
  <2>4. status' \in [AllComponents -> Shown]
    BY <2>2, <2>3, <1>0, <1>1 DEF ClientsHaveStarted, AllComponents
  <2>5. CoreShownAsPhase' /\ CoreIsAsPhase'
    BY <2>2, <2>3 DEF CoreShownAsPhase, CoreIsAsPhase, Settles
  <2> QED
    BY <1>24, <2>2, <2>4, <2>5
<1>26. ASSUME OperationHealth
       PROVE  samples["operation"].of \in [AllComponents -> Shown]
  BY <1>26, <1>0 DEF OperationHealth, SampleFits, Samplers
<1>27. CASE WorkerFails
  BY <1>24, <1>26, <1>27 DEF WorkerFails, CoreShownAsPhase, CoreIsAsPhase, Settles
<1>28. CASE SetStopped
  <2>1. ~coreUp /\ \A c \in Cores : samples["operation"].of[c] = "Stopped"
    BY <1>0, <1>28 DEF SetStopped, OperationReads, OperationHealth
  <2>2. CoreShownAsPhase' /\ CoreIsAsPhase'
    BY <2>1, <1>28 DEF SetStopped, CoreShownAsPhase, CoreIsAsPhase, Settles
  <2> QED
    BY <1>24, <1>26, <1>28, <2>2 DEF SetStopped
<1>29. CASE SetPaused
  <2>1. ~coreUp /\ samples["operation"].of \in [AllComponents -> Shown]
    BY <1>0, <1>26, <1>29 DEF SetPaused, OperationReads, OperationHealth
  <2>2. /\ \A c \in ProxyClients : samples["operation"].of[c] \in Shown
        /\ \A c \in Cores : Everywhere(Cores, "Stopped")[c] \in Shown
        /\ \A c \in Cores : Everywhere(Cores, "Stopped")[c] = "Stopped"
    BY <2>1 DEF Everywhere, AllComponents
  <2>3. status' = Statuses(samples["operation"].of, Everywhere(Cores, "Stopped"))
    BY <1>29 DEF SetPaused
  <2>4. status' \in [AllComponents -> Shown] /\ \A c \in Cores : status'[c] = "Stopped"
    <3>1. /\ Statuses(samples["operation"].of, Everywhere(Cores, "Stopped")) \in [AllComponents -> Shown]
          /\ \A c \in Cores : Statuses(samples["operation"].of, Everywhere(Cores, "Stopped"))[c]
                               = Everywhere(Cores, "Stopped")[c]
      <4> HIDE DEF Shown
      <4> QED
        BY <2>2, StatusesBeside DEF AllComponents
    <3> QED
      BY <3>1, <2>2, <2>3
  <2>5. CoreShownAsPhase' /\ CoreIsAsPhase'
    BY <2>1, <2>4, <1>29 DEF SetPaused, CoreShownAsPhase, CoreIsAsPhase, Settles
  <2> QED
    BY <1>24, <1>29, <2>4, <2>5 DEF SetPaused
<1>30. CASE UNCHANGED componentVars
  BY <1>0, <1>30 DEF componentVars, ComponentsInv, ComponentsInvariant, ComponentsTypeOK,
     NothingLeftStarting, CoreShownAsPhase, SampleFits, CoreIsAsPhase, SampleIsAsPhase,
     OperationReads, ClientsHaveStarted
<1> QED
  BY <1>7, <1>8, <1>10, <1>11, <1>12, <1>16, <1>17, <1>18, <1>19, <1>20, <1>21, <1>22, <1>23,
     <1>25, <1>27, <1>28, <1>29, <1>30 DEF ComponentsNext

(* However an operation ends and whatever is published meanwhile, nothing   *)
(* is left starting, and the core is shown as the phase has it.             *)
THEOREM ComponentsHold == ComponentsSpec => []ComponentsInvariant
<1>1. ComponentsInit => ComponentsInv
  <2> SUFFICES ASSUME ComponentsInit PROVE ComponentsInv
    OBVIOUS
  <2>1. /\ stackIs = "stopped" /\ doing = "idle" /\ coreUp = FALSE /\ late = FALSE /\ died = FALSE
        /\ polls \in BOOLEAN /\ clientUp \in [ProxyClients -> BOOLEAN]
        /\ status = Statuses(ClientHealth, CoreHealth) /\ samples = [s \in Samplers |-> NoSample]
    BY DEF ComponentsInit
  <2>2. /\ \A c \in ProxyClients : ClientHealth[c] \in {"Stopped", "Running"}
        /\ \A c \in Cores : CoreHealth[c] \in {"Stopped", "Running"} /\ CoreHealth[c] = "Stopped"
    BY <2>1 DEF ClientHealth, CoreHealth, Found
  <2>3. status \in [AllComponents -> {"Stopped", "Running"}] /\ \A c \in Cores : status[c] = "Stopped"
    BY <2>1, <2>2 DEF Statuses, AllComponents
  <2>4. NoSample \in Samples /\ NoSample.step = "none"
    BY DEF NoSample, Samples
  <2> QED
    BY <2>1, <2>3, <2>4 DEF ComponentsInv, ComponentsInvariant, ComponentsTypeOK, AllComponents,
       StartPlaces, NothingLeftStarting, CoreShownAsPhase, SampleFits, CoreIsAsPhase,
       SampleIsAsPhase, OperationReads, ClientsHaveStarted, Samplers
<1>2. ComponentsInv => ComponentsInvariant
  BY DEF ComponentsInv
<1> QED
  BY <1>1, <1>2, ComponentsStep, PTL DEF ComponentsSpec

-----------------------------------------------------------------------------
(* The traffic of a session (module Traffic).                              *)

\* What a sample would find now beside a baseline: the counter that was last
\* seen, when one was, and the connection of a proxy client and its bytes.
SameCounter(set, at) == set /\ total >= at
DeltaNow(set, at) == IF SameCounter(set, at) THEN total - at ELSE total
OverheadNow(set, at, id, bytes) ==
    Less(bypass.bytes, IF SameCounter(set, at) /\ id = bypass.id THEN bytes ELSE 0)

\* A baseline with what the session shows, and with what escaped it: a sample
\* would not show too much, and loses nothing as long as Mihomo has not stopped.
Fits(sent, set, at, id, bytes, esc) ==
    /\ sent <= apps + esc
    /\ live => sent + Less(DeltaNow(set, at), OverheadNow(set, at, id, bytes)) <= apps + esc
    /\ id = bypass.id /\ id # 0 => SameCounter(set, at) /\ bytes <= bypass.bytes
    /\ id <= starts /\ (id = 0 => bytes = 0)
    /\ ~stopped =>
          /\ set => total >= at
          /\ OverheadNow(set, at, id, bytes) <= DeltaNow(set, at)
          /\ apps <= sent + Less(DeltaNow(set, at), OverheadNow(set, at, id, bytes))
          /\ ~live => ~set /\ apps = 0 /\ total = 0

\* The open connection.
BypassFits ==
    /\ bypass \in [id : Nat, bytes : Nat] /\ bypass.id <= starts
    /\ bypass.id = 0 => bypass = None
    /\ ~live => bypass = None

Counts ==
    /\ total \in Nat /\ starts \in Nat /\ apps \in Nat
    /\ live \in BOOLEAN /\ stopped \in BOOLEAN /\ BypassFits

\* What the applications and the proxy clients do keeps every baseline.
LEMMA MovesKeepFits ==
  ASSUME NEW sent \in Nat, NEW set \in BOOLEAN, NEW at \in Nat, NEW id \in Nat, NEW bytes \in Nat,
         NEW esc \in Nat, Counts, Fits(sent, set, at, id, bytes, esc),
         MihomoStarts \/ ApplicationMoves \/ ClientOpens \/ ClientMoves
  PROVE  Fits(sent, set, at, id, bytes, esc)'
<1>1. CASE MihomoStarts
  BY <1>1 DEF MihomoStarts, Counts, BypassFits, None, Fits, DeltaNow, OverheadNow, SameCounter, Less
<1>2. CASE ApplicationMoves
  BY <1>2 DEF ApplicationMoves, Counts, BypassFits, None, Fits, DeltaNow, OverheadNow, SameCounter, Less
<1>3. CASE ClientOpens
  BY <1>3 DEF ClientOpens, Counts, BypassFits, None, Fits, DeltaNow, OverheadNow, SameCounter, Less
<1>4. CASE ClientMoves
  BY <1>4 DEF ClientMoves, Counts, BypassFits, None, Fits, DeltaNow, OverheadNow, SameCounter, Less
<1> QED
  BY <1>1, <1>2, <1>3, <1>4

\* A connection that closes takes with it what the baseline has not seen of it.
LEMMA ClosingKeepsFits ==
  ASSUME NEW sent \in Nat, NEW set \in BOOLEAN, NEW at \in Nat, NEW id \in Nat, NEW bytes \in Nat,
         NEW esc \in Nat, Counts, Fits(sent, set, at, id, bytes, esc), NEW after \in Nat,
         after = esc + Less(bypass.bytes, IF id = bypass.id THEN bytes ELSE 0),
         MihomoStops \/ ClientCloses
  PROVE  Fits(sent, set, at, id, bytes, after)'
<1>1. CASE MihomoStops
  BY <1>1 DEF MihomoStops, Counts, BypassFits, None, Fits, DeltaNow, OverheadNow, SameCounter, Less
<1>2. CASE ClientCloses
  BY <1>2 DEF ClientCloses, Counts, BypassFits, None, Fits, DeltaNow, OverheadNow, SameCounter, Less
<1> QED
  BY <1>1, <1>2

LEMMA CountsKept ==
  ASSUME Counts, [TrafficNext]_trafficVars, escaped \in Nat, store.seen \in [id : Nat, bytes : Nat]
  PROVE  Counts'
<1>1. CASE MihomoStarts BY <1>1 DEF MihomoStarts, Counts, BypassFits, None
<1>2. CASE MihomoStops
  <2>1. /\ live' = FALSE /\ stopped' = TRUE /\ bypass' = None
        /\ UNCHANGED <<total, starts, store, sampler, apps>>
    BY <1>2 DEF MihomoStops
  <2>2. BypassFits'
    BY <2>1 DEF Counts, BypassFits, None
  <2>3. live' \in BOOLEAN /\ stopped' \in BOOLEAN
    BY <2>1
  <2> QED
    BY <2>1, <2>2, <2>3 DEF Counts
<1>3. CASE ApplicationMoves BY <1>3 DEF ApplicationMoves, Counts, BypassFits, None
<1>4. CASE ClientOpens BY <1>4 DEF ClientOpens, Counts, BypassFits, None
<1>5. CASE ClientMoves BY <1>5 DEF ClientMoves, Counts, BypassFits, None
<1>6. CASE ClientCloses BY <1>6 DEF ClientCloses, Counts, BypassFits, None
<1>7. CASE \E w \in TrafficSamplers :
              BeginTrafficSample(w) \/ TakeSample(w) \/ DropBaseline(w) \/ Accumulate(w)
  BY <1>7 DEF BeginTrafficSample, TakeSample, DropBaseline, Accumulate, Counts, BypassFits, None
<1>8. CASE UNCHANGED trafficVars
  BY <1>8 DEF trafficVars, Counts, BypassFits
<1> QED
  BY <1>1, <1>2, <1>3, <1>4, <1>5, <1>6, <1>7, <1>8 DEF TrafficNext

\* What a connection that closes adds to what escaped.
Closed == Less(bypass.bytes, IF store.seen.id = bypass.id THEN store.seen.bytes ELSE 0)

Connections == [id : Nat, bytes : Nat]
Stores == [sent : Nat, last : [set : BOOLEAN, at : Nat], seen : Connections]

\* A sampler between its steps.
SamplerTypes ==
    {Idle} \cup [step : {"asks"}, live : BOOLEAN]
    \cup [step : {"answer"}, total : Nat, bypass : Connections]

\* What an answer adds to the session: the counter since the last sample, less
\* what the proxy client carried since it was seen.
SameAnswer(n) == store.last.set /\ n.total >= store.last.at
AnswerDelta(n) == IF SameAnswer(n) THEN n.total - store.last.at ELSE n.total
AnswerOverhead(n) ==
    Less(n.bypass.bytes, IF SameAnswer(n) /\ store.seen.id = n.bypass.id THEN store.seen.bytes ELSE 0)
AnswerAdds(n) == Less(AnswerDelta(n), AnswerOverhead(n))
AnswerEscapes(n) ==
    IF bypass.id = n.bypass.id THEN escaped ELSE Less(escaped, AnswerOverhead(n))

\* The baseline of the store, the one that goes, and the one that an answer makes.
StoreFits ==
    Fits(store.sent, store.last.set, store.last.at, store.seen.id, store.seen.bytes, escaped)
DroppedFits ==
    /\ Fits(store.sent, FALSE, 0, 0, 0, escaped)
    /\ store.seen.id = bypass.id => bypass.id = 0
AnswerFits(n) ==
    /\ Fits(store.sent + AnswerAdds(n), TRUE, n.total, n.bypass.id, n.bypass.bytes, AnswerEscapes(n))
    /\ bypass.id # n.bypass.id => escaped >= AnswerOverhead(n)
    /\ bypass.id \notin {0, n.bypass.id} => store.seen.id # bypass.id
    /\ n.bypass.id = store.seen.id /\ n.bypass.id # 0 =>
           SameAnswer(n) /\ store.seen.bytes <= n.bypass.bytes
    /\ store.seen.id <= starts

SamplersFit ==
    /\ sampler \in [TrafficSamplers -> SamplerTypes]
    /\ \A v, w \in TrafficSamplers : sampler[v] # Idle /\ sampler[w] # Idle => v = w
    /\ \A w \in TrafficSamplers :
          /\ sampler[w].step = "asks" /\ ~sampler[w].live => DroppedFits
          /\ sampler[w].step = "answer" => AnswerFits(sampler[w])

TrafficInv ==
    /\ TrafficTypeOK /\ BypassFits /\ store \in Stores
    /\ StoreFits /\ SamplersFit

\* What the machine does leaves the store and the samplers alone.
LEMMA WorldStep ==
  ASSUME TrafficInv, Counts,
         \/ MihomoStarts \/ ApplicationMoves \/ ClientOpens \/ ClientMoves
         \/ MihomoStops \/ ClientCloses
  PROVE  StoreFits' /\ SamplersFit'
<1>0. /\ store \in Stores /\ store' = store /\ sampler' = sampler /\ escaped \in Nat
      /\ StoreFits /\ SamplersFit /\ bypass \in Connections
      /\ store.sent \in Nat /\ store.last.set \in BOOLEAN /\ store.last.at \in Nat
      /\ store.seen.id \in Nat /\ store.seen.bytes \in Nat
  BY DEF TrafficInv, TrafficTypeOK, Stores, Connections, MihomoStarts, ApplicationMoves, ClientOpens,
     ClientMoves, MihomoStops, ClientCloses, Counts, BypassFits
<1>1. PICK s \in Stores : s = store
  BY <1>0
<1>2. PICK e \in Nat : e = escaped
  BY <1>0
<1>3. PICK z \in [TrafficSamplers -> SamplerTypes] : z = sampler
  BY <1>0 DEF SamplersFit
<1>4. /\ s.sent \in Nat /\ s.last.set \in BOOLEAN /\ s.last.at \in Nat
      /\ s.seen.id \in Nat /\ s.seen.bytes \in Nat /\ s.seen.id <= starts
      /\ s' = s /\ e' = e /\ z' = z
  BY <1>0, <1>1 DEF StoreFits, Fits
<1>5. CASE MihomoStarts \/ ApplicationMoves \/ ClientOpens \/ ClientMoves
  <2>0. /\ escaped' = escaped /\ Counts
        /\ bypass'.id \in {bypass.id, starts + 1} /\ starts' >= starts /\ starts' \in Nat
        /\ bypass.id # 0 => bypass'.id = bypass.id
    BY <1>5 DEF MihomoStarts, ApplicationMoves, ClientOpens, ClientMoves, Counts, BypassFits, None
  <2>1. StoreFits'
    <3>1. Fits(s.sent, s.last.set, s.last.at, s.seen.id, s.seen.bytes, e)
      BY <1>0, <1>1, <1>2 DEF StoreFits
    <3>2. Fits(s.sent, s.last.set, s.last.at, s.seen.id, s.seen.bytes, e)'
      BY <3>1, <1>4, <1>5, <2>0, MovesKeepFits
    <3> QED
      BY <3>2, <1>0, <1>1, <1>2, <2>0 DEF StoreFits
  <2>2. \A w \in TrafficSamplers : sampler'[w].step = "asks" /\ ~sampler'[w].live => DroppedFits'
    <3> SUFFICES ASSUME NEW w \in TrafficSamplers, sampler'[w].step = "asks", ~sampler'[w].live
                 PROVE  DroppedFits'
      OBVIOUS
    <3>1. DroppedFits
      BY <1>0 DEF SamplersFit
    <3>2. Fits(s.sent, FALSE, 0, 0, 0, e)
      BY <3>1, <1>1, <1>2 DEF DroppedFits
    <3>3. Fits(s.sent, FALSE, 0, 0, 0, e)'
      BY <3>2, <1>2, <1>4, <1>5, <2>0, MovesKeepFits
    <3>4. store'.seen.id = bypass'.id => bypass'.id = 0
      BY <3>1, <1>0, <1>1, <1>4, <2>0 DEF DroppedFits, Counts
    <3> QED
      BY <3>3, <3>4, <1>0, <1>1, <1>2, <2>0 DEF DroppedFits
  <2>3. \A w \in TrafficSamplers : sampler'[w].step = "answer" => AnswerFits(sampler[w])'
    <3> SUFFICES ASSUME NEW w \in TrafficSamplers, sampler[w].step = "answer"
                 PROVE  AnswerFits(sampler[w])'
      BY <1>0
    <3>1. PICK n \in [step : {"answer"}, total : Nat, bypass : Connections] : n = sampler[w]
      BY <1>0 DEF SamplersFit, SamplerTypes, Idle
    <3>2. /\ AnswerFits(n) /\ n' = n
      BY <3>1, <1>0 DEF SamplersFit
    <3>3. PICK adds \in Nat, o \in Nat : adds = AnswerAdds(n) /\ o = AnswerOverhead(n)
      BY <1>1, <1>4, <3>1 DEF AnswerAdds, AnswerOverhead, AnswerDelta, SameAnswer, Connections, Less
    <3>4. adds = AnswerAdds(n)' /\ o = AnswerOverhead(n)'
      BY <1>0, <3>3 DEF AnswerAdds, AnswerOverhead, AnswerDelta, SameAnswer
    <3>5. n.total \in Nat /\ n.bypass.id \in Nat /\ n.bypass.bytes \in Nat
      BY <3>1 DEF Connections
    <3>6. PICK x \in Nat : x = AnswerEscapes(n)
      BY <1>2, <3>3 DEF AnswerEscapes, Less
    <3>7. Fits(s.sent + adds, TRUE, n.total, n.bypass.id, n.bypass.bytes, x)
      BY <3>2, <3>3, <3>6, <1>1 DEF AnswerFits
    <3>8. s.sent + adds \in Nat
      BY <1>4
    <3>9. Fits(s.sent + adds, TRUE, n.total, n.bypass.id, n.bypass.bytes, x)'
      BY <3>5, <3>7, <3>8, <1>5, <2>0, MovesKeepFits
    <3>10. n.bypass.id <= starts /\ (n.bypass.id = 0 => n.bypass.bytes = 0)
      BY <3>7 DEF Fits
    <3>11. n.bypass.id = 0 => o = 0
      BY <3>3, <3>5, <3>10, <1>1, <1>4 DEF AnswerOverhead, Less
    <3>12. bypass.id \in Nat /\ bypass'.id \in Nat /\ starts \in Nat
      BY <1>0, <2>0 DEF Connections, Counts
    <3>13. /\ bypass.id # n.bypass.id => e >= o
           /\ bypass.id \notin {0, n.bypass.id} => s.seen.id # bypass.id
           /\ n.bypass.id = s.seen.id /\ n.bypass.id # 0 =>
                  SameAnswer(n) /\ s.seen.bytes <= n.bypass.bytes
      BY <3>2, <3>3, <1>1, <1>2 DEF AnswerFits
    <3>14. x = IF bypass.id = n.bypass.id THEN e ELSE Less(e, o)
      BY <3>3, <3>6, <1>2 DEF AnswerEscapes
    <3>15. AnswerEscapes(n)' = IF bypass'.id = n.bypass.id THEN e ELSE Less(e, o)
      BY <3>4, <1>2, <2>0 DEF AnswerEscapes
    <3>16. AnswerEscapes(n)' = x /\ (bypass'.id # n.bypass.id => e >= o)
           /\ (bypass'.id \notin {0, n.bypass.id} => s.seen.id # bypass'.id)
      BY <3>5, <3>10, <3>11, <3>12, <3>13, <3>14, <3>15, <2>0, <1>4 DEF Less
    <3>17. SameAnswer(n)' = SameAnswer(n) /\ s.seen.id <= starts'
      BY <1>0, <1>4, <3>12, <2>0 DEF SameAnswer
    <3>18. AnswerFits(n)'
      BY <3>4, <3>9, <3>13, <3>16, <3>17, <1>0, <1>1, <1>2, <1>4, <2>0 DEF AnswerFits
    <3>19. sampler'[w] = n
      BY <3>1, <1>0
    <3> QED
      BY <3>18, <3>19 DEF AnswerFits
  <2> QED
    BY <1>0, <2>1, <2>2, <2>3 DEF SamplersFit
<1>6. CASE MihomoStops \/ ClientCloses
  <2>1. /\ bypass.id \in Nat /\ bypass.bytes \in Nat /\ starts \in Nat
        /\ bypass.id = 0 => bypass.bytes = 0
    BY <1>0 DEF Connections, Counts, BypassFits, None
  <2>2. PICK k \in Nat : k = Less(bypass.bytes, IF s.seen.id = bypass.id THEN s.seen.bytes ELSE 0)
    BY <2>1, <1>4 DEF Less
  <2>0. /\ escaped' = e + k /\ Counts /\ bypass' = None /\ starts' = starts /\ None.id = 0
        /\ e + k \in Nat
    BY <1>1, <1>2, <1>6, <2>2 DEF MihomoStops, ClientCloses, Closes, None
  <2>3. StoreFits'
    <3>1. Fits(s.sent, s.last.set, s.last.at, s.seen.id, s.seen.bytes, e)
      BY <1>0, <1>1, <1>2 DEF StoreFits
    <3>2. Fits(s.sent, s.last.set, s.last.at, s.seen.id, s.seen.bytes, e + k)'
      BY <3>1, <1>4, <1>6, <2>0, <2>2, ClosingKeepsFits
    <3> QED
      BY <3>2, <1>0, <1>1, <1>2, <2>0 DEF StoreFits
  <2>4. \A w \in TrafficSamplers : sampler'[w].step = "asks" /\ ~sampler'[w].live => DroppedFits'
    <3> SUFFICES ASSUME NEW w \in TrafficSamplers, sampler'[w].step = "asks", ~sampler'[w].live
                 PROVE  DroppedFits'
      OBVIOUS
    <3>1. DroppedFits
      BY <1>0 DEF SamplersFit
    <3>2. Fits(s.sent, FALSE, 0, 0, 0, e)
      BY <3>1, <1>1, <1>2 DEF DroppedFits
    <3>3. e + k = e + Less(bypass.bytes, IF 0 = bypass.id THEN 0 ELSE 0)
      BY <3>1, <2>1, <2>2, <1>1, <1>4 DEF DroppedFits, Less
    <3>4. PICK y \in Nat : y = e + k
      BY <2>0
    <3>5. Fits(s.sent, FALSE, 0, 0, 0, y)'
      <4>1. PICK none \in Nat, unset \in BOOLEAN : none = 0 /\ unset = FALSE
        OBVIOUS
      <4>2. /\ y = e + Less(bypass.bytes, IF none = bypass.id THEN none ELSE 0)
            /\ Fits(s.sent, unset, none, none, none, e)
        BY <3>2, <3>3, <3>4, <4>1
      <4>3. Fits(s.sent, unset, none, none, none, y)'
        BY <3>4, <4>2, <1>4, <1>6, <2>0, ClosingKeepsFits
      <4> QED
        BY <4>1, <4>3
    <3> QED
      BY <3>4, <3>5, <1>0, <1>1, <2>0 DEF DroppedFits
  <2>5. \A w \in TrafficSamplers : sampler'[w].step = "answer" => AnswerFits(sampler[w])'
    <3> SUFFICES ASSUME NEW w \in TrafficSamplers, sampler[w].step = "answer"
                 PROVE  AnswerFits(sampler[w])'
      BY <1>0
    <3>1. PICK n \in [step : {"answer"}, total : Nat, bypass : Connections] : n = sampler[w]
      BY <1>0 DEF SamplersFit, SamplerTypes, Idle
    <3>2. /\ AnswerFits(n) /\ n' = n
      BY <3>1, <1>0 DEF SamplersFit
    <3>3. PICK adds \in Nat, o \in Nat : adds = AnswerAdds(n) /\ o = AnswerOverhead(n)
      BY <1>1, <1>4, <3>1 DEF AnswerAdds, AnswerOverhead, AnswerDelta, SameAnswer, Connections, Less
    <3>4. adds = AnswerAdds(n)' /\ o = AnswerOverhead(n)'
      BY <1>0, <3>3 DEF AnswerAdds, AnswerOverhead, AnswerDelta, SameAnswer
    <3>5. n.total \in Nat /\ n.bypass.id \in Nat /\ n.bypass.bytes \in Nat
      BY <3>1 DEF Connections
    <3>6. PICK x \in Nat : x = AnswerEscapes(n)
      BY <1>2, <3>3 DEF AnswerEscapes, Less
    <3>7. Fits(s.sent + adds, TRUE, n.total, n.bypass.id, n.bypass.bytes, x)
      BY <3>2, <3>3, <3>6, <1>1 DEF AnswerFits
    <3>8. s.sent + adds \in Nat
      BY <1>4
    <3>9. /\ n.bypass.id <= starts /\ (n.bypass.id = 0 => n.bypass.bytes = 0)
          /\ n.bypass.id = bypass.id /\ n.bypass.id # 0 => n.bypass.bytes <= bypass.bytes
      BY <3>7 DEF Fits
    <3>10. /\ bypass.id # n.bypass.id => e >= o
           /\ bypass.id \notin {0, n.bypass.id} => s.seen.id # bypass.id
           /\ n.bypass.id = s.seen.id /\ n.bypass.id # 0 =>
                  SameAnswer(n) /\ s.seen.bytes <= n.bypass.bytes
      BY <3>2, <3>3, <1>1, <1>2 DEF AnswerFits
    <3>11. x = IF bypass.id = n.bypass.id THEN e ELSE Less(e, o)
      BY <3>3, <3>6, <1>2 DEF AnswerEscapes
    <3>12. AnswerEscapes(n)' = IF 0 = n.bypass.id THEN e + k ELSE Less(e + k, o)
      BY <3>4, <2>0 DEF AnswerEscapes
    <3>13. /\ n.bypass.id = s.seen.id /\ n.bypass.id # 0 => o = n.bypass.bytes - s.seen.bytes
           /\ n.bypass.id # s.seen.id => o = n.bypass.bytes
           /\ n.bypass.id = 0 => o = 0
      BY <3>3, <3>5, <3>9, <3>10, <1>1, <1>4 DEF AnswerOverhead, Less
    <3>14. AnswerEscapes(n)' = x + Less(bypass.bytes, IF n.bypass.id = bypass.id THEN n.bypass.bytes ELSE 0)
      <4>1. CASE n.bypass.id = 0 /\ bypass.id = 0
        BY <4>1, <3>9, <3>11, <3>12, <2>1, <2>2, <1>4 DEF Less
      <4>2. CASE n.bypass.id = 0 /\ bypass.id # 0
        BY <4>2, <3>9, <3>10, <3>11, <3>12, <3>13, <2>1, <2>2, <1>4 DEF Less
      <4>3. CASE n.bypass.id # 0 /\ bypass.id = n.bypass.id
        BY <4>3, <3>5, <3>9, <3>10, <3>11, <3>12, <3>13, <2>1, <2>2, <1>4 DEF Less
      <4>4. CASE n.bypass.id # 0 /\ bypass.id # n.bypass.id
        BY <4>4, <3>5, <3>9, <3>10, <3>11, <3>12, <3>13, <2>1, <2>2, <1>4 DEF Less
      <4> QED
        BY <4>1, <4>2, <4>3, <4>4
    <3>15. AnswerEscapes(n)' \in Nat /\ (0 # n.bypass.id => e + k >= o)
      BY <3>5, <3>9, <3>10, <3>12, <3>13, <2>1, <2>2, <1>4 DEF Less
    <3>16. PICK y \in Nat : y = AnswerEscapes(n)'
      BY <3>15
    <3>17. y = x + Less(bypass.bytes, IF n.bypass.id = bypass.id THEN n.bypass.bytes ELSE 0)
      BY <3>14, <3>16
    <3>18. Fits(s.sent + adds, TRUE, n.total, n.bypass.id, n.bypass.bytes, y)'
      BY <3>5, <3>7, <3>8, <3>17, <1>6, <2>0, ClosingKeepsFits
    <3>19. SameAnswer(n)' = SameAnswer(n) /\ s.seen.id <= starts'
      BY <1>0, <1>4, <2>0 DEF SameAnswer
    <3>20. AnswerFits(n)'
      BY <3>4, <3>10, <3>15, <3>16, <3>18, <3>19, <1>0, <1>1, <1>4, <2>0 DEF AnswerFits
    <3>21. sampler'[w] = n
      BY <3>1, <1>0
    <3> QED
      BY <3>20, <3>21 DEF AnswerFits
  <2> QED
    BY <1>0, <2>3, <2>4, <2>5 DEF SamplersFit
<1> QED
  BY <1>5, <1>6

\* Only one sampler is between its steps, so one that is leaves the others idle.
LEMMA OthersIdle ==
  ASSUME SamplersFit, NEW w \in TrafficSamplers, sampler[w] # Idle,
         NEW v, v \in SamplerTypes, sampler' = [sampler EXCEPT ![w] = v]
  PROVE  /\ sampler' \in [TrafficSamplers -> SamplerTypes] /\ sampler'[w] = v
         /\ \A u \in TrafficSamplers : u # w => sampler'[u] = Idle
         /\ \A u, t \in TrafficSamplers : sampler'[u] # Idle /\ sampler'[t] # Idle => u = t
BY DEF SamplersFit

LEMMA SamplerStep ==
  ASSUME TrafficInv, Counts, NEW w \in TrafficSamplers,
         BeginTrafficSample(w) \/ TakeSample(w) \/ DropBaseline(w) \/ Accumulate(w)
  PROVE  StoreFits' /\ SamplersFit' /\ store' \in Stores /\ escaped' \in Nat
<1>0. /\ store \in Stores /\ escaped \in Nat /\ StoreFits /\ SamplersFit
      /\ bypass \in Connections /\ BypassFits
      /\ store.sent \in Nat /\ store.last.set \in BOOLEAN /\ store.last.at \in Nat
      /\ store.seen.id \in Nat /\ store.seen.bytes \in Nat
  BY DEF TrafficInv, TrafficTypeOK, Stores, Connections, BypassFits
<1>1. Idle \in SamplerTypes /\ Idle.step = "idle"
  BY DEF SamplerTypes, Idle
<1>2. ASSUME sampler[w] # Idle, sampler' = [sampler EXCEPT ![w] = Idle] PROVE SamplersFit'
  <2>1. /\ sampler' \in [TrafficSamplers -> SamplerTypes] /\ sampler'[w] = Idle
        /\ \A u \in TrafficSamplers : u # w => sampler'[u] = Idle
        /\ \A u, t \in TrafficSamplers : sampler'[u] # Idle /\ sampler'[t] # Idle => u = t
    BY <1>0, <1>1, <1>2, OthersIdle
  <2>2. \A u \in TrafficSamplers : sampler'[u].step = "idle"
    BY <2>1, <1>1
  <2> QED
    BY <2>1, <2>2 DEF SamplersFit
<1>3. CASE BeginTrafficSample(w)
  <2>1. /\ \A v \in TrafficSamplers : sampler[v] = Idle
        /\ sampler' = [sampler EXCEPT ![w] = [step |-> "asks", live |-> live]]
        /\ UNCHANGED <<live, total, bypass, starts, store, apps, escaped, stopped>>
    BY <1>3 DEF BeginTrafficSample, MayLock
  <2>2. [step |-> "asks", live |-> live] \in SamplerTypes
    BY DEF Counts, SamplerTypes
  <2>3. /\ sampler' \in [TrafficSamplers -> SamplerTypes]
        /\ sampler'[w] = [step |-> "asks", live |-> live]
        /\ \A u \in TrafficSamplers : u # w => sampler'[u] = Idle
    BY <2>1, <2>2, <1>0 DEF SamplersFit
  <2>4. ~live => DroppedFits
    BY <1>0 DEF DroppedFits, StoreFits, Fits, DeltaNow, OverheadNow, SameCounter, Less, Counts,
       BypassFits, None
  <2>5. ~live => DroppedFits'
    BY <2>1, <2>4 DEF DroppedFits, Fits, DeltaNow, OverheadNow, SameCounter
  <2>6. StoreFits'
    BY <2>1, <1>0 DEF StoreFits, Fits, DeltaNow, OverheadNow, SameCounter
  <2>7. /\ sampler'[w].step = "asks" /\ sampler'[w].live = live
        /\ \A u \in TrafficSamplers : u # w => sampler'[u].step = "idle"
    BY <2>3, <1>1
  <2> QED
    BY <2>1, <2>3, <2>5, <2>6, <2>7, <1>0 DEF SamplersFit
<1>4. CASE TakeSample(w)
  <2>1. /\ sampler[w] # Idle /\ UNCHANGED <<live, total, bypass, starts, store, apps, escaped, stopped>>
    BY <1>1, <1>4 DEF TakeSample
  <2>2. StoreFits'
    BY <2>1, <1>0 DEF StoreFits, Fits, DeltaNow, OverheadNow, SameCounter
  <2>3. CASE sampler' = [sampler EXCEPT ![w] = Idle]
    BY <2>1, <2>2, <2>3, <1>0, <1>2
  <2>4. CASE live /\ sampler' = [sampler EXCEPT ![w] = [step |-> "answer", total |-> total,
                                                        bypass |-> bypass]]
    <3> DEFINE n == [step |-> "answer", total |-> total, bypass |-> bypass]
    <3>1. n \in SamplerTypes
      BY <1>0 DEF Counts, SamplerTypes
    <3>2. /\ sampler' \in [TrafficSamplers -> SamplerTypes] /\ sampler'[w] = n
          /\ \A u \in TrafficSamplers : u # w => sampler'[u] = Idle
          /\ \A u, t \in TrafficSamplers : sampler'[u] # Idle /\ sampler'[t] # Idle => u = t
      <4> HIDE DEF n
      <4>1. sampler' = [sampler EXCEPT ![w] = n]
        BY <2>4 DEF n
      <4> QED
        BY <4>1, <3>1, <2>1, <1>0, OthersIdle
    <3>3. AnswerFits(n)
      BY <2>4, <1>0 DEF AnswerFits, AnswerAdds, AnswerDelta, AnswerOverhead, AnswerEscapes, SameAnswer,
         StoreFits, Fits, DeltaNow, OverheadNow, SameCounter, Less, Counts, BypassFits, None
    <3>4. AnswerFits(sampler[w])'
      <4>1. sampler'[w].total = total /\ sampler'[w].bypass = bypass
        BY <3>2
      <4> QED
        BY <2>1, <3>3, <4>1 DEF AnswerFits, AnswerAdds, AnswerDelta, AnswerOverhead, AnswerEscapes,
           SameAnswer, Fits, DeltaNow, OverheadNow, SameCounter
    <3>5. /\ sampler'[w].step = "answer"
          /\ \A u \in TrafficSamplers : u # w => sampler'[u].step = "idle"
      BY <3>2, <1>1
    <3> QED
      BY <2>1, <2>2, <3>2, <3>4, <3>5, <1>0 DEF SamplersFit
  <2> QED
    BY <2>3, <2>4, <1>4 DEF TakeSample
<1>5. CASE DropBaseline(w)
  <2>1. /\ sampler[w].step = "asks" /\ ~sampler[w].live /\ sampler' = [sampler EXCEPT ![w] = Idle]
        /\ store' = [store EXCEPT !.last = NoBaseline, !.seen = None]
        /\ UNCHANGED <<live, total, bypass, starts, apps, escaped, stopped>>
    BY <1>5 DEF DropBaseline
  <2>2. DroppedFits /\ sampler[w] # Idle
    BY <2>1, <1>0, <1>1 DEF SamplersFit
  <2>3. /\ store' \in Stores /\ store'.sent = store.sent /\ store'.last.set = FALSE
        /\ store'.last.at = 0 /\ store'.seen.id = 0 /\ store'.seen.bytes = 0
    BY <2>1, <1>0 DEF Stores, NoBaseline, None, Connections
  <2>4. StoreFits'
    BY <2>1, <2>2, <2>3 DEF StoreFits, DroppedFits, Fits, DeltaNow, OverheadNow, SameCounter
  <2> QED
    BY <2>1, <2>2, <2>3, <2>4, <1>0, <1>2
<1>6. CASE Accumulate(w)
  <2> DEFINE n == sampler[w]
  <2>1. /\ n.step = "answer" /\ sampler' = [sampler EXCEPT ![w] = Idle]
        /\ store' = [sent |-> store.sent + AnswerAdds(n),
                     last |-> [set |-> TRUE, at |-> n.total], seen |-> n.bypass]
        /\ escaped' = AnswerEscapes(n)
        /\ UNCHANGED <<live, total, bypass, starts, apps, stopped>>
    BY <1>6 DEF Accumulate, AnswerAdds, AnswerDelta, AnswerOverhead, AnswerEscapes, SameAnswer
  <2>2. AnswerFits(n) /\ n # Idle
    BY <2>1, <1>0, <1>1 DEF SamplersFit
  <2>3. n \in [step : {"answer"}, total : Nat, bypass : Connections]
    BY <2>1, <1>0 DEF SamplersFit, SamplerTypes, Idle
  <2>4. AnswerAdds(n) \in Nat /\ AnswerEscapes(n) \in Nat
    BY <2>3, <1>0 DEF AnswerAdds, AnswerDelta, AnswerOverhead, AnswerEscapes, SameAnswer, Less,
       Connections
  <2>5. store' \in Stores /\ escaped' \in Nat
    BY <2>1, <2>3, <2>4, <1>0 DEF Stores
  <2>6. StoreFits'
    <3>1. /\ store'.sent = store.sent + AnswerAdds(n) /\ store'.last.set = TRUE
          /\ store'.last.at = n.total /\ store'.seen = n.bypass
      BY <2>1
    <3> HIDE DEF n
    <3> QED
      BY <2>1, <2>2, <3>1 DEF StoreFits, AnswerFits, Fits, DeltaNow, OverheadNow, SameCounter
  <2> QED
    BY <2>1, <2>2, <2>5, <2>6, <1>2
<1> QED
  BY <1>3, <1>4, <1>5, <1>6

LEMMA TrafficStep == TrafficInv /\ [TrafficNext]_trafficVars => TrafficInv'
<1> SUFFICES ASSUME TrafficInv, [TrafficNext]_trafficVars PROVE TrafficInv'
  OBVIOUS
<1>0. /\ Counts /\ escaped \in Nat /\ store \in Stores /\ MaxBytes \in Nat /\ MaxStarts \in Nat
      /\ store.seen \in [id : Nat, bytes : Nat] /\ store.sent \in Nat
      /\ total \in 0..MaxBytes /\ starts \in 0..MaxStarts
  BY TrafficAssumption DEF TrafficInv, TrafficTypeOK, Counts, Stores, Connections
<1>1. Counts'
  BY <1>0, CountsKept
<1>2. total' \in 0..MaxBytes /\ starts' \in 0..MaxStarts
  BY <1>0 DEF TrafficNext, MihomoStarts, MihomoStops, ApplicationMoves, ClientOpens, ClientMoves,
     ClientCloses, BeginTrafficSample, TakeSample, DropBaseline, Accumulate, trafficVars
<1>3. CASE \/ MihomoStarts \/ ApplicationMoves \/ ClientOpens \/ ClientMoves
           \/ MihomoStops \/ ClientCloses
  <2>1. StoreFits' /\ SamplersFit'
    BY <1>0, <1>3, WorldStep
  <2>2. store' = store /\ escaped' \in Nat
    BY <1>0, <1>3 DEF MihomoStarts, MihomoStops, ApplicationMoves, ClientOpens, ClientMoves,
       ClientCloses, Closes, Less, Counts, BypassFits
  <2> QED
    BY <1>0, <1>1, <1>2, <2>1, <2>2 DEF TrafficInv, TrafficTypeOK, Counts
<1>4. CASE \E w \in TrafficSamplers :
              BeginTrafficSample(w) \/ TakeSample(w) \/ DropBaseline(w) \/ Accumulate(w)
  <2>1. StoreFits' /\ SamplersFit' /\ store' \in Stores /\ escaped' \in Nat
    BY <1>0, <1>4, SamplerStep
  <2> QED
    BY <1>1, <1>2, <2>1 DEF TrafficInv, TrafficTypeOK, Counts, Stores
<1>5. CASE UNCHANGED trafficVars
  BY <1>1, <1>5 DEF trafficVars, TrafficInv, TrafficTypeOK, BypassFits, StoreFits, SamplersFit,
     DroppedFits, AnswerFits, AnswerAdds, AnswerDelta, AnswerOverhead, AnswerEscapes, SameAnswer,
     Fits, DeltaNow, OverheadNow, SameCounter
<1> QED
  BY <1>3, <1>4, <1>5 DEF TrafficNext

(* The session never shows more than the applications and the connections   *)
(* that closed between two samples moved, and until Mihomo stops no less.   *)
THEOREM TrafficHolds == TrafficSpec => []TrafficInvariant
<1>1. TrafficInit => TrafficInv
  <2> SUFFICES ASSUME TrafficInit PROVE TrafficInv
    OBVIOUS
  <2>1. /\ live = FALSE /\ total = 0 /\ starts = 0 /\ apps = 0 /\ escaped = 0 /\ stopped = FALSE
        /\ bypass = [id |-> 0, bytes |-> 0] /\ sampler = [w \in TrafficSamplers |-> Idle]
        /\ store = [sent |-> 0, last |-> [set |-> FALSE, at |-> 0], seen |-> [id |-> 0, bytes |-> 0]]
    BY DEF TrafficInit, None, NoBaseline
  <2>2. StoreFits
    BY <2>1 DEF StoreFits, Fits, DeltaNow, OverheadNow, SameCounter, Less
  <2>3. SamplersFit
    <3>1. Idle \in SamplerTypes /\ Idle.step = "idle"
      BY DEF SamplerTypes, Idle
    <3> QED
      BY <2>1, <3>1 DEF SamplersFit
  <2>4. TrafficTypeOK
    <3>1. store.sent = 0 /\ live \in BOOLEAN /\ stopped \in BOOLEAN
      BY <2>1
    <3>2. 0 \in 0..MaxBytes /\ 0 \in 0..MaxStarts
      BY TrafficAssumption
    <3>3. total \in 0..MaxBytes /\ starts \in 0..MaxStarts /\ apps \in Nat /\ escaped \in Nat
      BY <2>1, <3>2
    <3> QED
      BY <3>1, <3>3 DEF TrafficTypeOK
  <2>5. BypassFits /\ store \in Stores
    BY <2>1 DEF BypassFits, Stores, Connections, None
  <2> QED
    BY <2>2, <2>3, <2>4, <2>5 DEF TrafficInv
<1>2. TrafficInv => TrafficInvariant
  BY DEF TrafficInv, TrafficInvariant, TrafficTypeOK, NeverTooMuch, NothingIsLost, StoreFits, Fits,
     DeltaNow, OverheadNow, SameCounter, Less, BypassFits, Stores, Connections
<1> QED
  BY <1>1, <1>2, TrafficStep, PTL DEF TrafficSpec

-----------------------------------------------------------------------------
(* The report on the host (module HostReport).                             *)

Probing == [step : {"probe"}, phase : Phases, old : BOOLEAN]
Collecting == [step : {"collect"}, phase : Phases, old : BOOLEAN, listened : BOOLEAN]
FindingNames == Leftovers \cup {"system_proxy_bypasses_split_routing", "port_conflict",
    "system_proxy_unknown_local_port", "system_proxy_not_local", "other_tunnel_adapter_up",
    "split_default_route", "other_vpn_process", "client_port_not_listening",
    "client_port_refused_on_loopback"}
Reports == [phase : Phases \cup {"none"}, old : BOOLEAN, findings : SUBSET FindingNames]

\* The kinds of a collection and of a report; what is not old was sampled of the
\* present machine and phase.
CollectionFits ==
    /\ collecting \in {NoCollection} \cup Probing \cup Collecting
    /\ collecting.step = "collect" => (collecting.old \/ collecting.listened = listens)
ReportFits ==
    /\ report \in Reports
    /\ (Reported) =>
          report.findings = Findings([phase |-> report.phase, old |-> FALSE, listened |-> listens])
ReportInv ==
    ReportTypeOK /\ PhaseIsDescribed /\ CollectionFits /\ ReportFits

\* What a report of the present machine finds.
LEMMA QuietAndFound ==
  ASSUME ReportInv PROVE OwnStackIsQuiet /\ LeftoversAreFound
<1> DEFINE ours == Findings([phase |-> report.phase, old |-> FALSE, listened |-> listens])
<1>1. Reported => report.findings = ours
  BY DEF ReportInv, ReportFits
<1>2. /\ pieces \subseteq {"adapter", "routes", "dns"} 
      /\ side \in BOOLEAN /\ listens \in BOOLEAN /\ config \in BOOLEAN
  BY DEF ReportInv, ReportTypeOK, Pieces
<1>3. OwnStackIsQuiet
  BY <1>1, <1>2 DEF OwnStackIsQuiet, Reported, Findings, ClientFindings, PortFindings,
     NetworkFindings, HostFindings, StateFindings, LoopbackFindings, Named, RunningFindings
<1>4. LeftoversAreFound
  BY <1>1, <1>2 DEF LeftoversAreFound, Leftovers, Reported, Findings, ClientFindings, PortFindings,
     NetworkFindings, HostFindings, StateFindings, LoopbackFindings, Named, RunningFindings,
     IdleFindings
<1> QED
  BY <1>3, <1>4

\* A context that has aged keeps its phase.
LEMMA AgedKeepsPhase ==
  /\ \A c \in Contexts : Aged(c) \in Contexts /\ Aged(c).phase = c.phase /\ Aged(c).old
  /\ Aged(NoCollection) = NoCollection
  /\ \A c \in Probing : Aged(c) \in Probing /\ Aged(c).phase = c.phase /\ Aged(c).old
  /\ \A c \in Collecting : Aged(c) \in Collecting /\ Aged(c).phase = c.phase /\ Aged(c).old
  /\ \A r \in Reports : [Aged(r) EXCEPT !.findings = {}] \in Reports
                        /\ [Aged(r) EXCEPT !.findings = {}].old = TRUE
BY DEF Aged, Contexts, NoCollection, Probing, Collecting, Reports

\* A finding is a name.
LEMMA FindingsAreNames == ASSUME NEW c PROVE Findings(c) \subseteq FindingNames
<1>1. IdleFindings \subseteq FindingNames
  BY DEF Named, FindingNames, Leftovers, IdleFindings
<1>2. RunningFindings \subseteq FindingNames
  BY DEF Named, FindingNames, Leftovers, RunningFindings
<1>3. StateFindings(c.phase) \subseteq FindingNames
  BY <1>1, <1>2 DEF StateFindings
<1>4. PortFindings \subseteq FindingNames
  BY DEF Named, FindingNames, Leftovers, PortFindings
<1>5. NetworkFindings \subseteq FindingNames
  BY DEF Named, FindingNames, Leftovers, NetworkFindings
<1>6. HostFindings \subseteq FindingNames /\ ClientFindings \subseteq FindingNames
  BY DEF Named, FindingNames, Leftovers, HostFindings, ClientFindings
<1>7. LoopbackFindings(c.listened) \subseteq FindingNames
  BY DEF Named, FindingNames, Leftovers, LoopbackFindings
<1> QED
  BY <1>3, <1>4, <1>5, <1>6, <1>7 DEF Findings

LEMMA ReportStep == ReportInv /\ [ReportNext]_reportVars => ReportInv'
<1> SUFFICES ASSUME ReportInv, [ReportNext]_reportVars PROVE ReportInv'
  OBVIOUS
<1>0. /\ ReportTypeOK /\ PhaseIsDescribed /\ CollectionFits /\ ReportFits
      /\ collecting \in {NoCollection} \cup Probing \cup Collecting
      /\ contexts \subseteq Contexts /\ report \in Reports
  BY DEF ReportInv, CollectionFits, ReportFits, ReportTypeOK
<1>1. ASSUME Ages, UNCHANGED config, told' \in {"owed", told},
             pieces' \subseteq Pieces, foreign' = foreign, systemProxy' = systemProxy,
             side' \in BOOLEAN, listens' \in BOOLEAN, waiting' \in BOOLEAN, stackPhase' \in Phases,
             waiting' \/ (stackPhase' = stackPhase /\ waiting' = waiting /\ told' = told)
             \/ stackPhase' = "busy"
      PROVE  ReportInv'
  <2>1. contexts' = {Aged(c) : c \in contexts} /\ collecting' = Aged(collecting)
        /\ report' = [Aged(report) EXCEPT !.findings = {}]
    BY <1>1 DEF Ages
  <2>2. contexts' \subseteq Contexts
    BY <2>1, <1>0, AgedKeepsPhase
  <2>3. /\ collecting' \in {NoCollection} \cup Probing \cup Collecting
        /\ collecting' = NoCollection \/ collecting'.old
        /\ collecting'.step \in {"none", "probe", "collect"}
    BY <2>1, <1>0, AgedKeepsPhase DEF Probing, Collecting, NoCollection
  <2>4. report' \in Reports /\ report'.old
    BY <2>1, <1>0, AgedKeepsPhase
  <2>5. ReportTypeOK'
    BY <1>0, <1>1, <2>2, <2>3 DEF ReportTypeOK
  <2>6. CollectionFits' /\ ReportFits'
    BY <2>3, <2>4 DEF CollectionFits, ReportFits, Reported, NoCollection
  <2>7. PhaseIsDescribed'
    <3> SUFFICES ASSUME stackPhase' # "busy", told' = "owed", ~waiting'
                 PROVE  \E c \in contexts' \cup {collecting'} :
                            "phase" \in DOMAIN c /\ c.phase = stackPhase'
      BY DEF PhaseIsDescribed
    <3>1. stackPhase' = stackPhase /\ told = "owed" /\ ~waiting
      BY <1>1
    <3>2. PICK c \in contexts \cup {collecting} : "phase" \in DOMAIN c /\ c.phase = stackPhase
      BY <3>1, <1>0 DEF PhaseIsDescribed
    <3>3. Aged(c) \in contexts' \cup {collecting'}
      BY <2>1, <3>2
    <3>4. "phase" \in DOMAIN Aged(c) /\ Aged(c).phase = stackPhase
      BY <3>2, <1>0, AgedKeepsPhase DEF Contexts, Probing, Collecting, NoCollection
    <3> QED
      BY <3>1, <3>3, <3>4
  <2> QED
    BY <2>5, <2>6, <2>7 DEF ReportInv
<1>2. CASE PhaseChanges
  BY <1>0, <1>1, <1>2 DEF PhaseChanges, ReportTypeOK, LeftBehind, Pieces, Phases
<1>3. CASE HostChanges
  BY <1>0, <1>1, <1>3 DEF HostChanges, ReportTypeOK
<1>4. CASE AsksForSnapshot
  BY <1>0, <1>4 DEF AsksForSnapshot, hostVars, ReportInv, ReportTypeOK, PhaseIsDescribed,
     CollectionFits, ReportFits, Reported, Findings, ClientFindings, PortFindings, NetworkFindings,
     HostFindings, StateFindings, LoopbackFindings, RunningFindings, IdleFindings
<1>5. ASSUME UNCHANGED <<stackPhase, hostVars, config>>, UNCHANGED report,
             ReportTypeOK', CollectionFits', PhaseIsDescribed'
      PROVE  ReportInv'
  BY <1>0, <1>5 DEF hostVars, ReportInv, ReportFits, Reported, Findings, ClientFindings,
     PortFindings, NetworkFindings, HostFindings, StateFindings, LoopbackFindings,
     RunningFindings, IdleFindings
<1>6. CASE SampleContext
  <2>1. [phase |-> stackPhase, old |-> FALSE] \in Contexts
    BY <1>0 DEF ReportTypeOK, Contexts
  <2>2. [phase |-> stackPhase, old |-> FALSE] \in contexts'
    BY <1>6 DEF SampleContext
  <2>3. PhaseIsDescribed'
    BY <1>6, <2>2 DEF SampleContext, PhaseIsDescribed
  <2>4. ReportTypeOK' /\ CollectionFits'
    BY <1>0, <1>6, <2>1 DEF SampleContext, ReportTypeOK, CollectionFits, hostVars
  <2> QED
    BY <1>5, <1>6, <2>3, <2>4 DEF SampleContext
<1>7. CASE \E c \in contexts : BeginCollect(c)
  <2>1. PICK c \in contexts : BeginCollect(c)
    BY <1>7
  <2>2. c \in Contexts
    BY <1>0
  <2>3. collecting' \in Probing /\ collecting'.phase = c.phase /\ collecting'.step = "probe"
        /\ "phase" \in DOMAIN collecting'
    BY <2>1, <2>2 DEF BeginCollect, Probing, Contexts
  <2>4. ReportTypeOK' /\ CollectionFits'
    BY <1>0, <2>1, <2>3 DEF BeginCollect, ReportTypeOK, CollectionFits, hostVars
  <2>5. PhaseIsDescribed'
    <3> SUFFICES ASSUME stackPhase # "busy", told = "owed", ~waiting
                 PROVE  \E d \in contexts' \cup {collecting'} :
                            "phase" \in DOMAIN d /\ d.phase = stackPhase
      BY <2>1 DEF BeginCollect, PhaseIsDescribed
    <3>1. PICK d \in contexts \cup {collecting} : "phase" \in DOMAIN d /\ d.phase = stackPhase
      BY <1>0 DEF PhaseIsDescribed
    <3>2. d # collecting
      BY <2>1, <1>0, <3>1 DEF BeginCollect, NoCollection, Probing, Collecting
    <3>3. CASE d = c BY <3>1, <3>3, <2>3
    <3>4. CASE d # c BY <3>1, <3>2, <3>4, <2>1 DEF BeginCollect
    <3> QED
      BY <3>3, <3>4
  <2> QED
    BY <1>5, <2>1, <2>4, <2>5 DEF BeginCollect
<1>8. CASE \E c \in contexts : SkipSnapshot(c)
  <2>1. PICK c \in contexts : SkipSnapshot(c)
    BY <1>8
  <2>2. PhaseIsDescribed'
    BY <2>1 DEF SkipSnapshot, PhaseIsDescribed
  <2>3. ReportTypeOK' /\ CollectionFits'
    BY <1>0, <2>1 DEF SkipSnapshot, ReportTypeOK, CollectionFits, hostVars
  <2> QED
    BY <1>5, <2>1, <2>2, <2>3 DEF SkipSnapshot
<1>9. CASE ProbeLoopback
  <2>1. collecting \in Probing
    BY <1>0, <1>9 DEF ProbeLoopback, NoCollection, Collecting
  <2>2. collecting' \in Collecting /\ collecting'.phase = collecting.phase
        /\ collecting'.step = "collect" /\ "phase" \in DOMAIN collecting'
        /\ collecting'.listened = listens
    BY <1>0, <1>9, <2>1 DEF ProbeLoopback, Probing, Collecting, ReportTypeOK
  <2>3. ReportTypeOK' /\ CollectionFits'
    BY <1>0, <1>9, <2>2 DEF ProbeLoopback, ReportTypeOK, CollectionFits, hostVars
  <2>4. PhaseIsDescribed'
    BY <1>0, <1>9, <2>2 DEF ProbeLoopback, PhaseIsDescribed
  <2> QED
    BY <1>5, <1>9, <2>3, <2>4 DEF ProbeLoopback
<1>10. CASE Collect
  <2>1. collecting \in Collecting
    BY <1>0, <1>10 DEF Collect, NoCollection, Probing
  <2>2. collecting' = NoCollection /\ collecting'.step = "none"
    BY <1>10 DEF Collect, NoCollection
  <2>3. ReportTypeOK' /\ CollectionFits'
    BY <1>0, <1>10, <2>2 DEF Collect, ReportTypeOK, CollectionFits, hostVars
  <2>4. PhaseIsDescribed'
    BY <1>0, <1>10 DEF Collect, PhaseIsDescribed
  <2>5. collecting.phase \in Phases /\ collecting.old \in BOOLEAN /\ collecting.step = "collect"
    BY <2>1 DEF Collecting
  <2>6. ReportFits'
    <3>1. Findings(collecting) \in SUBSET FindingNames
      BY FindingsAreNames
    <3>2. report' \in Reports /\ report'.phase = collecting.phase /\ report'.old = collecting.old
          /\ report'.findings = IF collecting.old THEN {} ELSE Findings(collecting)
      BY <1>10, <2>5, <3>1 DEF Collect, Reports
    <3>3. ~collecting.old => collecting.listened = listens
      BY <1>0, <2>5 DEF CollectionFits
    <3>4. ~collecting.old => Findings(collecting) =
             Findings([phase |-> report'.phase, old |-> FALSE, listened |-> listens])
      BY <3>2, <3>3 DEF Findings
    <3>5. Findings([phase |-> report.phase, old |-> FALSE, listened |-> listens])' =
             Findings([phase |-> report'.phase, old |-> FALSE, listened |-> listens])
      BY <1>10 DEF Collect, hostVars, Findings, ClientFindings, PortFindings, NetworkFindings,
         HostFindings, StateFindings, LoopbackFindings, RunningFindings, IdleFindings
    <3> QED
      BY <3>2, <3>4, <3>5 DEF ReportFits, Reported
  <2> QED
    BY <2>3, <2>4, <2>6 DEF ReportInv
<1>11. CASE UNCHANGED reportVars
  <2>1. ReportTypeOK' /\ CollectionFits' /\ PhaseIsDescribed'
    BY <1>0, <1>11 DEF reportVars, hostVars, ReportTypeOK, CollectionFits, PhaseIsDescribed
  <2> QED
    BY <1>5, <1>11, <2>1 DEF reportVars
<1> QED
  BY <1>2, <1>3, <1>4, <1>6, <1>7, <1>8, <1>9, <1>10, <1>11 DEF ReportNext

(* BiFlow's own stack is no finding, what a stack left behind is one, and a *)
(* stack at rest has a report of its phase or one is on its way.            *)
THEOREM ReportHolds == ReportSpec => []HostReportInvariant
<1>1. ReportInit => ReportInv
  <2> SUFFICES ASSUME ReportInit PROVE ReportInv
    OBVIOUS
  <2>1. ReportTypeOK /\ PhaseIsDescribed
    BY DEF ReportInit, ReportTypeOK, PhaseIsDescribed, NoCollection, LeftBehind, Pieces, Foreign,
           Phases, Proxies
  <2>2. CollectionFits /\ ReportFits
    BY DEF ReportInit, CollectionFits, ReportFits, NoReport, NoCollection, Reports, Reported
  <2> QED
    BY <2>1, <2>2 DEF ReportInv
<1>2. ReportInv => HostReportInvariant
  BY QuietAndFound DEF ReportInv, HostReportInvariant
<1> QED
  BY <1>1, <1>2, ReportStep, PTL DEF ReportSpec

-----------------------------------------------------------------------------
(* The debug log (module DebugLog).                                        *)

\* What brings a report into the log without a request: the file that is
\* followed, the watch and the clear that are on their way.
LogIsFollowed == recreated \/ watch # "sleeps" \/ deletion # "none" \/ replaced \/ missed

\* A closed handle is one of a file that is gone; a bare log is followed or
\* asked for, and with a report that is out but not kept none is there to replay.
DebugLogInv ==
    /\ DebugLogInvariant
    /\ handle = "closed" => (disk = "missing" \/ replaced)
    /\ (disk = "bare" /\ collection = "emitted") => (LogIsFollowed \/ ~lastReport)

LEMMA DebugLogStep == DebugLogInv /\ [DebugLogNext]_debugLogVars => DebugLogInv'
<1> SUFFICES ASSUME DebugLogInv, [DebugLogNext]_debugLogVars PROVE DebugLogInv'
  OBVIOUS
<1> USE DEF DebugLogInv, DebugLogInvariant, DebugLogTypeOK, EventsReachTheFile, HostIsDescribed,
            ReportIsOnItsWay, LogIsFollowed, fileVars, taskVars
<1>1. CASE TraceAction BY <1>1 DEF TraceAction, AppendEvent, Reopens
<1>2. CASE DeleteFile BY <1>2 DEF DeleteFile, Unlink
<1>3. CASE ReplaceFile BY <1>3 DEF ReplaceFile, Unlink
<1>4. CASE ClearLog BY <1>4 DEF ClearLog
<1>5. CASE LogCleared BY <1>5 DEF LogCleared, AppendEvent, Reopens
<1>6. CASE DescribeCleared BY <1>6 DEF DescribeCleared, Replay, AppendEvent, Reopens
<1>7. CASE ExportBundle BY <1>7 DEF ExportBundle, Replay, AppendEvent, Reopens
<1>8. CASE WatchTakes BY <1>8 DEF WatchTakes
<1>9. CASE WatchWarns BY <1>9 DEF WatchWarns, AppendEvent, Reopens
<1>10. CASE WatchReplays BY <1>10 DEF WatchReplays, Replay, AppendEvent, Reopens
<1>11. CASE EnvironmentTrigger BY <1>11 DEF EnvironmentTrigger
<1>12. CASE \E t \in asked : StartCollection(t) BY <1>12 DEF StartCollection
<1>13. CASE \E t \in asked : SkipCollection(t)
  <2>1. PICK t \in asked : SkipCollection(t)
    BY <1>13
  <2>2. /\ collection' = collection /\ lastReport' = lastReport /\ watch' = watch
        /\ deletion' = deletion /\ onWindows' = onWindows /\ replaced' = replaced
        /\ collection # "none" /\ asked' \subseteq asked
        /\ missed' = (missed \/ (collection = "emitted" /\ ~lastReport))
    BY <2>1 DEF SkipCollection
  <2>3. /\ handle' = (IF Reopens THEN "disk" ELSE handle)
        /\ disk' = (IF handle' = "disk" /\ disk = "missing" THEN "bare" ELSE disk)
        /\ recreated' = (recreated \/ disk = "missing")
    BY <2>1 DEF SkipCollection, AppendEvent, Reopens
  <2> QED
    BY <2>2, <2>3 DEF Reopens
<1>14. CASE EmitReport BY <1>14 DEF EmitReport, AppendEvent, Reopens
<1>15. CASE KeepReport BY <1>15 DEF KeepReport
<1>16. CASE UNCHANGED debugLogVars BY <1>16 DEF debugLogVars
<1> QED
  BY <1>1, <1>2, <1>3, <1>4, <1>5, <1>6, <1>7, <1>8, <1>9, <1>10, <1>11, <1>12, <1>13, <1>14,
     <1>15, <1>16 DEF DebugLogNext

(* A deleted log never swallows the later events, and a log without the     *)
(* host report is going to have one.                                        *)
THEOREM DebugLogHolds == DebugLogSpec => []DebugLogInvariant
<1>1. DebugLogInit => DebugLogInv
  BY DEF DebugLogInit, DebugLogInv, DebugLogInvariant, DebugLogTypeOK, EventsReachTheFile,
         HostIsDescribed, ReportIsOnItsWay, LogIsFollowed
<1>2. DebugLogInv => DebugLogInvariant
  BY DEF DebugLogInv
<1> QED
  BY <1>1, <1>2, DebugLogStep, PTL DEF DebugLogSpec

-----------------------------------------------------------------------------
(* The local proxies of a connect (module LocalProxies).                   *)

\* The clients that a connect has been at.
Passed(n) == {Clients[i] : i \in 1..(n - 1)}

\* A connect that no recovery crosses: each client it has been at is either
\* ready or has failed, and the required one is ready.
PassedAreExplained ==
    stage \in {"client", "launch"} =>
        /\ ready \subseteq Passed(next)
        /\ \A c \in Passed(next) : c \in ready <=> c \notin failed
        /\ required # "none" /\ next > 1 => required \in ready
AllAreExplained ==
    stage = "core" =>
        /\ attached = ready /\ \A c \in All : c \in ready <=> c \notin failed
        /\ required # "none" => required \in ready
\* At rest what a recovery still looks at has no handle, and there is one
\* recovery at most.
RestIsExplained ==
    AtRest =>
        /\ \A c \in All : c \in attached <=> c \notin failed
        /\ required # "none" => required \in attached /\ defaultExit
        /\ \A who \in Recoveries : recovery[who] \cap attached = {}
        /\ \A who, other \in Recoveries : recovery[who] # {} /\ recovery[other] # {} => who = other

Uncrossed ==
    /\ stage \in {"client", "launch", "core", "failed"} => ~Recovering
    /\ PassedAreExplained /\ AllAreExplained /\ RestIsExplained
ProxiesInv ==
    /\ ProxiesTypeOK /\ required \in {"none", Clients[1]}
    /\ stage \in {"client", "launch", "core", "failed"} => connection # "connected"
    /\ ~crossed => Uncrossed

\* The first client, and the clients passed by the next one.
LEMMA Clients1 ==
  /\ Len(Clients) \in Nat /\ Len(Clients) >= 1 /\ DOMAIN Clients = 1..Len(Clients)
  /\ 1 \in DOMAIN Clients
  /\ \A i \in DOMAIN Clients : Clients[i] \in All
<1>1. Len(Clients) \in Nat /\ DOMAIN Clients = 1..Len(Clients)
  BY ClientsAssumption
<1>2. PICK i \in DOMAIN Clients : Hiddify = Clients[i]
  BY ClientsAssumption DEF All
<1> QED
  BY <1>1, <1>2 DEF All

LEMMA PassedGrows ==
  ASSUME NEW n \in DOMAIN Clients
  PROVE  /\ Passed(1) = {} /\ Passed(n + 1) = Passed(n) \cup {Clients[n]}
         /\ n = Len(Clients) => Passed(n) \cup {Clients[n]} = All
         /\ Clients[n] \notin Passed(n)
         /\ n > 1 => Clients[1] \in Passed(n)
         /\ Passed(n) \subseteq All
<1>1. n \in 1..Len(Clients) /\ Len(Clients) \in Nat
  BY Clients1
<1>2. Passed(1) = {}
  BY DEF Passed
<1>3. Passed(n + 1) = Passed(n) \cup {Clients[n]}
  <2>1. 1..(n + 1 - 1) = (1..(n - 1)) \cup {n}
    BY <1>1
  <2> QED
    BY <2>1 DEF Passed
<1>4. ASSUME n = Len(Clients) PROVE Passed(n) \cup {Clients[n]} = All
  <2>1. 1..Len(Clients) = (1..(n - 1)) \cup {n}
    BY <1>1, <1>4
  <2> QED
    BY <2>1, Clients1 DEF Passed, All
<1>5. Clients[n] \notin Passed(n)
  <2>1. \A i \in 1..(n - 1) : i \in DOMAIN Clients /\ i # n
    BY <1>1, Clients1
  <2> QED
    BY <2>1, ClientsAssumption DEF Passed
<1>6. n > 1 => Clients[1] \in Passed(n)
  BY <1>1 DEF Passed
<1>7. Passed(n) \subseteq All
  <2>1. 1..(n - 1) \subseteq DOMAIN Clients
    BY <1>1, Clients1
  <2> QED
    BY <2>1 DEF Passed, All
<1> QED
  BY <1>2, <1>3, <1>4, <1>5, <1>6, <1>7

LEMMA ProxiesAtFirst == ProxiesInit => ProxiesInv
BY Clients1 DEF ProxiesInit, ProxiesInv, ProxiesTypeOK, Uncrossed, PassedAreExplained,
   AllAreExplained, RestIsExplained, AtRest, Recovering

\* A client that is up is passed with its handle.
LEMMA AttachKeeps ==
  ASSUME ProxiesInv, stage \in {"client", "launch"}, Attach(Current)
  PROVE  ProxiesInv'
<1>1. next \in DOMAIN Clients /\ Clients[next] \in All
  BY Clients1 DEF ProxiesInv, ProxiesTypeOK
<1>2. next' \in DOMAIN Clients /\ stage' \in {"client", "core"}
      /\ (stage' = "client" => next' = next + 1) /\ (stage' = "core" => next = Len(Clients))
  BY <1>1, Clients1 DEF Attach, NextClient
<1>3. ProxiesTypeOK' /\ required' = required
  BY <1>1, <1>2 DEF ProxiesInv, ProxiesTypeOK, Attach, Current, IsRequired
<1>4. ASSUME ~crossed PROVE Uncrossed'
  <2>1. Uncrossed /\ PassedAreExplained /\ ~Recovering
    BY <1>4 DEF ProxiesInv, Uncrossed
  <2>2. /\ ready' = ready \cup {Clients[next]} /\ failed' = failed \ {Clients[next]}
        /\ attached' = ready' /\ recovery' = recovery
    BY DEF Attach, Current
  <2>3. ready' \subseteq Passed(next) \cup {Clients[next]}
        /\ \A c \in Passed(next) \cup {Clients[next]} : c \in ready' <=> c \notin failed'
    BY <2>1, <2>2, <1>1, PassedGrows DEF PassedAreExplained
  <2>4. required # "none" => required \in ready'
    <3>1. required # "none" => required = Clients[1]
      BY DEF ProxiesInv
    <3>2. next = 1 \/ next > 1
      BY <1>1, Clients1
    <3> QED
      BY <3>1, <3>2, <2>1, <2>2 DEF PassedAreExplained
  <2>5. CASE stage' = "client"
    <3>1. Passed(next') = Passed(next) \cup {Clients[next]}
      BY <2>5, <1>1, <1>2, PassedGrows
    <3> QED
      BY <3>1, <2>1, <2>2, <2>3, <2>4, <2>5, <1>3
         DEF Uncrossed, PassedAreExplained, AllAreExplained, RestIsExplained, AtRest, Recovering
  <2>6. CASE stage' = "core"
    <3>1. Passed(next) \cup {Clients[next]} = All
      BY <2>6, <1>1, <1>2, PassedGrows
    <3> QED
      BY <3>1, <2>1, <2>2, <2>3, <2>4, <2>6, <1>3
         DEF Uncrossed, PassedAreExplained, AllAreExplained, RestIsExplained, AtRest, Recovering
  <2> QED
    BY <2>5, <2>6, <1>2
<1>5. crossed' = crossed /\ connection' = connection
  BY DEF Attach
<1> QED
  BY <1>2, <1>3, <1>4, <1>5 DEF ProxiesInv

\* A client that is not up is passed with its failure, or ends the connect.
LEMMA GiveUpKeeps ==
  ASSUME ProxiesInv, stage \in {"client", "launch"}, GiveUp(Current), launched' \in BOOLEAN
  PROVE  ProxiesInv'
<1>1. next \in DOMAIN Clients /\ Clients[next] \in All
  BY Clients1 DEF ProxiesInv, ProxiesTypeOK
<1>2. /\ next' \in DOMAIN Clients /\ stage' \in {"client", "core", "failed"}
      /\ stage' = "client" => next' = next + 1 /\ ~IsRequired(Clients[next])
      /\ stage' = "core" => next = Len(Clients) /\ ~IsRequired(Clients[next]) /\ attached' = ready
  BY <1>1, Clients1 DEF GiveUp, NextClient, Last, Current
<1>3. ProxiesTypeOK' /\ required' = required
  <2>1. attached' \in {attached, ready}
    BY DEF GiveUp, Last
  <2> QED
    BY <2>1, <1>1, <1>2 DEF ProxiesInv, ProxiesTypeOK, GiveUp, Current
<1>4. ASSUME ~crossed PROVE Uncrossed'
  <2>1. Uncrossed /\ PassedAreExplained /\ ~Recovering
    BY <1>4 DEF ProxiesInv, Uncrossed
  <2>2. ready' = ready /\ failed' = failed \cup {Clients[next]} /\ recovery' = recovery
    BY DEF GiveUp, Current
  <2>3. ready' \subseteq Passed(next) \cup {Clients[next]}
        /\ \A c \in Passed(next) \cup {Clients[next]} : c \in ready' <=> c \notin failed'
    BY <2>1, <2>2, <1>1, PassedGrows DEF PassedAreExplained
  <2>4. required # "none" /\ ~IsRequired(Clients[next]) => required \in ready'
    <3>1. required # "none" => required = Clients[1]
      BY DEF ProxiesInv
    <3>2. next = 1 \/ next > 1
      BY <1>1, Clients1
    <3> QED
      BY <3>1, <3>2, <2>1, <2>2 DEF PassedAreExplained, IsRequired
  <2>5. CASE stage' = "client"
    <3>1. Passed(next') = Passed(next) \cup {Clients[next]}
      BY <2>5, <1>1, <1>2, PassedGrows
    <3> QED
      BY <3>1, <1>2, <2>1, <2>2, <2>3, <2>4, <2>5, <1>3
         DEF Uncrossed, PassedAreExplained, AllAreExplained, RestIsExplained, AtRest, Recovering
  <2>6. CASE stage' = "core"
    <3>1. Passed(next) \cup {Clients[next]} = All
      BY <2>6, <1>1, <1>2, PassedGrows
    <3> QED
      BY <3>1, <1>2, <2>1, <2>2, <2>3, <2>4, <2>6, <1>3
         DEF Uncrossed, PassedAreExplained, AllAreExplained, RestIsExplained, AtRest, Recovering
  <2>7. CASE stage' = "failed"
    BY <2>1, <2>2, <2>7
       DEF Uncrossed, PassedAreExplained, AllAreExplained, RestIsExplained, AtRest, Recovering
  <2> QED
    BY <2>5, <2>6, <2>7, <1>2
<1>5. crossed' = crossed /\ connection' = connection
  BY DEF GiveUp
<1> QED
  BY <1>2, <1>3, <1>4, <1>5 DEF ProxiesInv

\* The actions that the recoveries take.
LEMMA RecoveryKeeps ==
  ASSUME ProxiesInv, NEW who \in Recoveries,
         BeginRecovery(who) \/ \E c \in All : RecoverClient(who, c)
  PROVE  ProxiesInv'
<1> USE DEF ProxiesInv
<1>1. CASE BeginRecovery(who)
  <2>1. recovery' = [recovery EXCEPT ![who] = All \ attached] /\ crossed' = (crossed \/ Recovering)
        /\ stage = "idle" /\ connection = "connected"
        /\ UNCHANGED <<required, program, attached, failed, exits, defaultExit, launched,
                       connection, stage, next, ready>>
    BY <1>1 DEF BeginRecovery, found, operation
  <2>2. ProxiesTypeOK'
    BY <2>1 DEF ProxiesTypeOK
  <2>3. ASSUME ~crossed' PROVE Uncrossed'
    <3>1. ~crossed /\ RestIsExplained /\ \A other \in Recoveries : recovery[other] = {}
      BY <2>1, <2>3 DEF Uncrossed, Recovering, ProxiesTypeOK
    <3>2. recovery'[who] = All \ attached /\ \A other \in Recoveries \ {who} : recovery'[other] = {}
      BY <3>1, <2>1 DEF ProxiesTypeOK
    <3> QED
      BY <3>1, <3>2, <2>1 DEF Uncrossed, PassedAreExplained, AllAreExplained, RestIsExplained, AtRest
  <2> QED
    BY <2>1, <2>2, <2>3
<1>2. ASSUME NEW c \in All, RecoverClient(who, c) PROVE ProxiesInv'
  <2>1. /\ c \in recovery[who] /\ recovery' = [recovery EXCEPT ![who] = @ \ {c}]
        /\ UNCHANGED <<required, program, launched, connection, stage, next, ready, crossed>>
    BY <1>2 DEF RecoverClient, operation
  <2>2. \/ /\ failed' = failed \ {c} /\ attached' = attached \cup {c}
           /\ defaultExit' = (defaultExit \/ IsRequired(c)) /\ exits' = exits \cup {c}
        \/ failed' = failed \cup {c} /\ UNCHANGED <<attached, defaultExit, exits>>
        \/ UNCHANGED <<attached, failed, defaultExit, exits>>
    BY <1>2 DEF RecoverClient, found
  <2>3. ProxiesTypeOK'
    BY <2>1, <2>2 DEF ProxiesTypeOK, IsRequired
  <2>4. ASSUME ~crossed PROVE Uncrossed'
    <3>1. Uncrossed /\ RestIsExplained /\ Recovering
      BY <2>1, <2>4 DEF Uncrossed, Recovering
    <3>2. stage \notin {"client", "launch", "core", "failed"}
      BY <3>1 DEF Uncrossed
    <3>3. ASSUME AtRest
          PROVE  /\ \A x \in All : x \in attached' <=> x \notin failed'
                 /\ required # "none" => required \in attached' /\ defaultExit'
                 /\ \A w \in Recoveries : recovery'[w] \cap attached' = {}
                 /\ \A w, o \in Recoveries : recovery'[w] # {} /\ recovery'[o] # {} => w = o
      <4>1. /\ \A x \in All : x \in attached <=> x \notin failed
            /\ required # "none" => required \in attached /\ defaultExit
            /\ \A w \in Recoveries : recovery[w] \cap attached = {}
            /\ \A w, o \in Recoveries : recovery[w] # {} /\ recovery[o] # {} => w = o
        BY <3>1, <3>3 DEF RestIsExplained
      <4>2. \A o \in Recoveries \ {who} : recovery[o] = {} /\ recovery'[o] = {}
        BY <4>1, <2>1 DEF ProxiesTypeOK
      <4>3. recovery'[who] = recovery[who] \ {c} /\ c \notin attached
        BY <4>1, <2>1 DEF ProxiesTypeOK
      <4> QED
        BY <4>1, <4>2, <4>3, <2>2
    <3> QED
      BY <3>2, <3>3, <2>1 DEF Uncrossed, PassedAreExplained, AllAreExplained, RestIsExplained, AtRest
  <2> QED
    BY <2>1, <2>3, <2>4
<1> QED
  BY <1>1, <1>2

\* The other steps.
LEMMA ProxiesStep == ProxiesInv /\ [ProxiesNext]_proxyVars => ProxiesInv'
<1> SUFFICES ASSUME ProxiesInv, [ProxiesNext]_proxyVars
             PROVE  ProxiesInv'
  OBVIOUS
<1>1. ASSUME NEW c \in All, ProgramChanges(c) PROVE ProxiesInv'
  BY <1>1 DEF ProgramChanges, found, operation, ProxiesInv, ProxiesTypeOK, Uncrossed,
     PassedAreExplained, AllAreExplained, RestIsExplained, AtRest, Recovering
<1>2. CASE BeginEnsure
  BY <1>2, Clients1, PassedGrows DEF BeginEnsure, ProxiesInv, ProxiesTypeOK, Uncrossed,
     PassedAreExplained, AllAreExplained, RestIsExplained, AtRest, Recovering
<1>3. CASE ReuseProbe
  BY <1>3, AttachKeeps DEF ReuseProbe
<1>4. CASE LaunchLocalProxy
  <2>1. stage = "client" /\ launched' \in BOOLEAN
    BY <1>4 DEF LaunchLocalProxy, ProxiesInv, ProxiesTypeOK
  <2>2. CASE GiveUp(Current)
    BY <2>1, <2>2, GiveUpKeeps
  <2>3. CASE /\ stage' = "launch"
             /\ UNCHANGED <<required, program, attached, found, connection, next, ready, recovery,
                            crossed>>
    BY <2>1, <2>3 DEF found, ProxiesInv, ProxiesTypeOK, Uncrossed,
       PassedAreExplained, AllAreExplained, RestIsExplained, AtRest, Recovering
  <2> QED
    BY <1>4, <2>2, <2>3 DEF LaunchLocalProxy
<1>5. CASE LaunchFails
  BY <1>5, GiveUpKeeps DEF LaunchFails, ProxiesInv, ProxiesTypeOK
<1>6. CASE ProbeEgress
  BY <1>6, AttachKeeps, GiveUpKeeps DEF ProbeEgress, ProxiesInv, ProxiesTypeOK
<1>7. CASE Connected
  BY <1>7 DEF Connected, Rest, found, ProxiesInv, ProxiesTypeOK, Uncrossed,
     PassedAreExplained, AllAreExplained, RestIsExplained, AtRest, Recovering
<1>8. CASE ConnectFails
  BY <1>8 DEF ConnectFails, Rest, found, ProxiesInv, ProxiesTypeOK, Uncrossed,
     PassedAreExplained, AllAreExplained, RestIsExplained, AtRest, Recovering
<1>9. CASE Cancelled
  BY <1>9 DEF Cancelled, Rest, found, ProxiesInv, ProxiesTypeOK, Uncrossed,
     PassedAreExplained, AllAreExplained, RestIsExplained, AtRest, Recovering
<1>10. CASE Pause
  BY <1>10 DEF Pause, Rest, found, ProxiesInv, ProxiesTypeOK, Uncrossed,
     PassedAreExplained, AllAreExplained, RestIsExplained, AtRest, Recovering
<1>11. CASE StopLaunched
  BY <1>11, ClientsAssumption DEF StopLaunched, found, ProxiesInv, ProxiesTypeOK, Uncrossed,
     PassedAreExplained, AllAreExplained, RestIsExplained, AtRest, Recovering
<1>12. CASE ForgetClientEgress
  BY <1>12 DEF ForgetClientEgress, ProxiesInv, ProxiesTypeOK, Uncrossed,
     PassedAreExplained, AllAreExplained, RestIsExplained, AtRest, Recovering
<1>13. CASE UNCHANGED proxyVars
  BY <1>13 DEF proxyVars, found, operation, ProxiesInv, ProxiesTypeOK, Uncrossed,
     PassedAreExplained, AllAreExplained, RestIsExplained, AtRest, Recovering
<1> QED
  BY <1>1, <1>2, <1>3, <1>4, <1>5, <1>6, <1>7, <1>8, <1>9, <1>10, <1>11, <1>12, <1>13,
     RecoveryKeeps DEF ProxiesNext

(* Where no two tasks crossed, a client of a connected stack is routed or   *)
(* has its failure, and the client of the default route is routed.          *)
THEOREM ProxiesHold == ProxiesSpec => []ProxiesInvariant
<1>1. ProxiesInv => ProxiesInvariant
  BY DEF ProxiesInv, ProxiesInvariant, EveryClientIsExplained, DefaultIsAttached, Uncrossed,
     RestIsExplained
<1> QED
  BY <1>1, ProxiesAtFirst, ProxiesStep, PTL DEF ProxiesSpec

-----------------------------------------------------------------------------
(* The proxy setting of the desktop (module SystemProxy).                  *)

\* What a call has read, and a call between its steps.
Views(H) == UNION {[D -> Values] : D \in SUBSET H}
Clears(H) == [step : {"idle", "read", "off", "done"}, at : {1, 2}, view : Views(H),
              left : SUBSET H, alone : BOOLEAN]

\* A call that has been alone: what it has read is still there or was turned
\* off, and the first endpoint is gone when it looks for the second.
AloneFits(c, s, R, H) ==
    /\ c.step = "read" =>
          /\ c.left \cup DOMAIN c.view = R
          /\ \A p \in DOMAIN c.view : s[p] \in {c.view[p], "off"}
    /\ c.step = "off" => \A p \in H \ c.left : s[p] = "off"
    /\ c.step \in {"read", "off"} /\ c.at = 2 => \A p \in R : s[p] # "first"
    /\ c.step = "done" => \A p \in R : s[p] \notin AtClient

SystemProxyInv ==
    /\ desktop \in DOMAIN ProxyPlaces /\ setting \in [Here -> Values]
    /\ saved \in {"none", "client", "mixed"} /\ everClient \in BOOLEAN
    /\ clearer \in [Clearers -> Clears(Here)]
    /\ \A w \in Clearers : clearer[w].alone => AloneFits(clearer[w], setting, Readable, Here)
    /\ ~everClient =>
          /\ saved = "none" /\ \A p \in Here : setting[p] \notin AtClient
          /\ \A w \in Clearers : /\ clearer[w].step # "off"
                                 /\ \A p \in DOMAIN clearer[w].view : clearer[w].view[p] \notin AtClient

\* A record of a call with some of its fields replaced.
LEMMA Replaced ==
  ASSUME NEW H, NEW c \in Clears(H), NEW s, NEW v, NEW l
  PROVE  /\ [c EXCEPT !.step = s, !.view = v, !.left = l]
               = [step |-> s, at |-> c.at, view |-> v, left |-> l, alone |-> c.alone]
         /\ [c EXCEPT !.view = v, !.left = l]
               = [step |-> c.step, at |-> c.at, view |-> v, left |-> l, alone |-> c.alone]
<1> DEFINE d == [c EXCEPT !.step = s, !.view = v, !.left = l]
           e == [c EXCEPT !.view = v, !.left = l]
           r == [step |-> s, at |-> c.at, view |-> v, left |-> l, alone |-> c.alone]
           t == [step |-> c.step, at |-> c.at, view |-> v, left |-> l, alone |-> c.alone]
<1>0. /\ DOMAIN c = {"step", "at", "view", "left", "alone"}
  BY DEF Clears
<1>1. /\ DOMAIN d = DOMAIN r /\ d.step = r.step /\ d.at = r.at /\ d.view = r.view
      /\ d.left = r.left /\ d.alone = r.alone
  BY <1>0
<1>2. /\ DOMAIN e = DOMAIN t /\ e.step = t.step /\ e.at = t.at /\ e.view = t.view
      /\ e.left = t.left /\ e.alone = t.alone
  BY <1>0
<1>3. /\ d = [x \in DOMAIN c |-> d[x]] /\ r = [x \in DOMAIN c |-> r[x]]
  BY <1>0
<1>4. /\ e = [x \in DOMAIN c |-> e[x]] /\ t = [x \in DOMAIN c |-> t[x]]
  BY <1>0
<1>5. d = r
  BY <1>0, <1>1, <1>3
<1>6. e = t
  BY <1>0, <1>2, <1>4
<1> QED
  BY <1>5, <1>6

\* A call whose state is replaced, where the setting stays: the others keep theirs.
LEMMA CallStep ==
  ASSUME SystemProxyInv, NEW w \in Clearers, NEW c \in Clears(Here),
         clearer' = [clearer EXCEPT ![w] = c], UNCHANGED <<desktop, setting, everClient>>,
         saved' \in {"none", "client", "mixed"},
         c.alone => AloneFits(c, setting, Readable, Here),
         ~everClient => /\ saved' = "none" /\ c.step # "off"
                        /\ \A p \in DOMAIN c.view : c.view[p] \notin AtClient
  PROVE  SystemProxyInv'
<1>1. Here' = Here /\ Readable' = Readable
  BY DEF Here, Readable
<1>2. clearer' \in [Clearers -> Clears(Here)]
  BY DEF SystemProxyInv
<1>3. clearer'[w] = c /\ \A v \in Clearers : v # w => clearer'[v] = clearer[v]
  BY DEF SystemProxyInv
<1>4. \A v \in Clearers : clearer'[v].alone => AloneFits(clearer'[v], setting, Readable, Here)
  <2> SUFFICES ASSUME NEW v \in Clearers, clearer'[v].alone
               PROVE AloneFits(clearer'[v], setting, Readable, Here)
    OBVIOUS
  <2>1. CASE v = w BY <1>3, <2>1
  <2>2. CASE v # w BY <1>3, <2>2 DEF SystemProxyInv
  <2> QED
    BY <2>1, <2>2
<1>5. ~everClient =>
          /\ saved' = "none" /\ \A p \in Here : setting[p] \notin AtClient
          /\ \A v \in Clearers :
                /\ clearer'[v].step # "off"
                /\ \A p \in DOMAIN clearer'[v].view : clearer'[v].view[p] \notin AtClient
  BY <1>3 DEF SystemProxyInv
<1> QED
  BY <1>1, <1>2, <1>4, <1>5 DEF SystemProxyInv, AloneFits

LEMMA ReadableIsHere == Readable \subseteq Here
BY DEF Readable

LEMMA RestingFits ==
  /\ \A H : Resting \in Clears(H)
  /\ Resting.step = "idle" /\ Resting.alone = FALSE /\ DOMAIN Resting.view = {}
<1>1. <<>> \in [{} -> Values] /\ DOMAIN <<>> = {}
  OBVIOUS
<1>2. \A H : <<>> \in Views(H)
  BY <1>1 DEF Views
<1>3. ASSUME NEW H PROVE Resting \in Clears(H)
  BY <1>2 DEF Resting, Clears
<1> QED
  BY <1>1, <1>3 DEF Resting

\* The next endpoint is looked for, or the call is over.
LEMMA NextFits ==
  ASSUME SystemProxyInv, NEW w \in Clearers, clearer[w].step \in {"read", "off"},
         clearer[w].alone => \A p \in Readable : setting[p] # Endpoints[clearer[w].at]
  PROVE  /\ NextEndpoint(w) \in Clears(Here)
         /\ NextEndpoint(w).alone => AloneFits(NextEndpoint(w), setting, Readable, Here)
         /\ NextEndpoint(w).step # "off" /\ DOMAIN NextEndpoint(w).view = {}
<1>0. clearer[w] \in Clears(Here) /\ Readable \subseteq Here
  BY ReadableIsHere DEF SystemProxyInv
<1>1. PICK c \in Clears(Here) : c = clearer[w]
  BY <1>0
<1>2. c.alone => AloneFits(c, setting, Readable, Here)
  BY <1>1 DEF SystemProxyInv
<1>3. Endpoints[1] = "first" /\ Endpoints[2] = "second"
  BY DEF Endpoints
<1>4. <<>> \in Views(Here) /\ DOMAIN <<>> = {}
  <2>1. <<>> \in [{} -> Values] /\ DOMAIN <<>> = {}
    OBVIOUS
  <2> QED
    BY <2>1 DEF Views
<1>5. CASE c.at = 2
  <2>1. NextEndpoint(w) = [step |-> "done", at |-> 1, view |-> <<>>, left |-> {}, alone |-> c.alone]
    BY <1>1, <1>5 DEF NextEndpoint, Resting
  <2>2. [step |-> "done", at |-> 1, view |-> <<>>, left |-> {}, alone |-> c.alone] \in Clears(Here)
    BY <1>1, <1>4 DEF Clears
  <2>3. c.alone => \A p \in Readable : setting[p] # "first" /\ setting[p] # "second"
    BY <1>1, <1>2, <1>3, <1>5 DEF AloneFits
  <2> QED
    BY <2>1, <2>2, <2>3, <1>4 DEF AloneFits, AtClient
<1>6. CASE c.at = 1
  <2>1. NextEndpoint(w) = [step |-> "read", at |-> 2, view |-> <<>>, left |-> Readable, alone |-> c.alone]
    <3>1. NextEndpoint(w) = [c EXCEPT !.step = "read", !.at = 2, !.view = <<>>, !.left = Readable]
      BY <1>1, <1>6 DEF NextEndpoint
    <3>2. c = [step |-> c.step, at |-> c.at, view |-> c.view, left |-> c.left, alone |-> c.alone]
      BY DEF Clears
    <3> QED
      BY <3>1, <3>2
  <2>2. [step |-> "read", at |-> 2, view |-> <<>>, left |-> Readable, alone |-> c.alone] \in Clears(Here)
    BY <1>0, <1>1, <1>4 DEF Clears
  <2>3. c.alone => \A p \in Readable : setting[p] # "first"
    BY <1>1, <1>3, <1>6
  <2> QED
    BY <2>1, <2>2, <2>3, <1>4 DEF AloneFits
<1> QED
  BY <1>1, <1>5, <1>6 DEF Clears

LEMMA SystemProxyStep == SystemProxyInv /\ [SystemProxyNext]_systemProxyVars => SystemProxyInv'
<1> SUFFICES ASSUME SystemProxyInv, [SystemProxyNext]_systemProxyVars PROVE SystemProxyInv'
  OBVIOUS
<1>0. /\ Readable \subseteq Here /\ setting \in [Here -> Values] /\ clearer \in [Clearers -> Clears(Here)]
      /\ saved \in {"none", "client", "mixed"} /\ everClient \in BOOLEAN
  BY ReadableIsHere DEF SystemProxyInv
<1>1. CASE \E p \in Here, v \in Values : Interferes(p, v)
  <2>1. PICK p \in Here, v \in Values : Interferes(p, v)
    BY <1>1
  <2>2. /\ desktop' = desktop /\ saved' = saved /\ setting' = [setting EXCEPT ![p] = v]
        /\ clearer' = [w \in Clearers |-> [clearer[w] EXCEPT !.alone = FALSE]]
        /\ everClient' = (everClient \/ v \in AtClient)
    BY <2>1 DEF Interferes
  <2>3. Here' = Here /\ setting' \in [Here -> Values]
    BY <2>2, <1>0 DEF Here
  <2>4. \A w \in Clearers : /\ clearer'[w] \in Clears(Here) /\ clearer'[w].alone = FALSE
                            /\ clearer'[w].step = clearer[w].step /\ clearer'[w].view = clearer[w].view
    BY <2>2, <1>0 DEF Clears
  <2>5. clearer' \in [Clearers -> Clears(Here)]
    BY <2>2, <2>4
  <2>6. ~everClient' => ~everClient /\ \A q \in Here : setting'[q] \notin AtClient
    BY <2>2, <1>0 DEF SystemProxyInv
  <2> QED
    BY <2>2, <2>3, <2>4, <2>5, <2>6 DEF SystemProxyInv
<1>2. ASSUME NEW w \in Clearers, BeginClear(w) PROVE SystemProxyInv'
  <2> DEFINE c == [step |-> "read", at |-> 1, view |-> <<>>, left |-> Readable, alone |-> TRUE]
  <2>1. clearer' = [clearer EXCEPT ![w] = c] /\ UNCHANGED <<desktop, setting, saved, everClient>>
    <3>1. [Resting EXCEPT !.step = "read", !.left = Readable, !.alone = TRUE] = c
      <4> DEFINE d == [Resting EXCEPT !.step = "read", !.left = Readable, !.alone = TRUE]
      <4>1. /\ DOMAIN d = DOMAIN c /\ d.step = c.step /\ d.at = c.at /\ d.view = c.view
            /\ d.left = c.left /\ d.alone = c.alone
        BY DEF Resting
      <4>2. /\ d = [x \in DOMAIN Resting |-> d[x]] /\ c = [x \in DOMAIN Resting |-> c[x]]
            /\ DOMAIN Resting = {"step", "at", "view", "left", "alone"}
        BY DEF Resting
      <4> QED
        BY <4>1, <4>2
    <3> QED
      BY <1>2, <3>1 DEF BeginClear
  <2>2. <<>> \in [{} -> Values] /\ DOMAIN <<>> = {}
    OBVIOUS
  <2>3. c \in Clears(Here)
    BY <2>2, <1>0 DEF Clears, Views
  <2>4. AloneFits(c, setting, Readable, Here)
    BY <2>2 DEF AloneFits
  <2>5. c.step # "off" /\ DOMAIN c.view = {}
    BY <2>2
  <2>6. saved' \in {"none", "client", "mixed"} /\ (~everClient => saved' = "none")
    BY <2>1, <1>0 DEF SystemProxyInv
  <2> HIDE DEF c
  <2> QED
    BY <2>1, <2>3, <2>4, <2>5, <2>6, CallStep
<1>3. ASSUME NEW w \in Clearers, NEW p \in Here, ReadCurrent(w, p) PROVE SystemProxyInv'
  <2>1. PICK c \in Clears(Here) : c = clearer[w]
    BY <1>0
  <2>2. /\ c.step = "read" /\ p \in c.left
        /\ UNCHANGED <<desktop, setting, saved, everClient>>
    BY <1>3, <2>1 DEF ReadCurrent
  <2> DEFINE d == [step |-> c.step, at |-> c.at, view |-> Seen(c.view, p), left |-> c.left \ {p},
                   alone |-> c.alone]
  <2>3. clearer' = [clearer EXCEPT ![w] = d]
    <3>1. c = [step |-> c.step, at |-> c.at, view |-> c.view, left |-> c.left, alone |-> c.alone]
      BY DEF Clears
    <3>2. clearer' = [clearer EXCEPT ![w].view = Seen(@, p), ![w].left = @ \ {p}]
      BY <1>3 DEF ReadCurrent
    <3>3. clearer' = [clearer EXCEPT ![w] = [c EXCEPT !.view = Seen(c.view, p), !.left = c.left \ {p}]]
      BY <3>2, <2>1, <1>0
    <3>4. [c EXCEPT !.view = Seen(c.view, p), !.left = c.left \ {p}] = d
      BY Replaced
    <3> QED
      BY <3>3, <3>4
  <2>4. /\ Seen(c.view, p) \in Views(Here) /\ DOMAIN Seen(c.view, p) = DOMAIN c.view \cup {p}
        /\ \A q \in DOMAIN c.view \cup {p} :
               Seen(c.view, p)[q] = IF q = p THEN setting[p] ELSE c.view[q]
    <3>1. PICK D \in SUBSET Here : c.view \in [D -> Values]
      BY DEF Clears, Views
    <3>2. Seen(c.view, p) \in [D \cup {p} -> Values]
      BY <3>1, <1>0 DEF Seen
    <3> QED
      BY <3>1, <3>2 DEF Seen, Views
  <2>5. d \in Clears(Here)
    BY <2>4 DEF Clears
  <2>6. c.alone => AloneFits(c, setting, Readable, Here)
    BY <2>1 DEF SystemProxyInv
  <2>7. d.alone => AloneFits(d, setting, Readable, Here)
    BY <2>2, <2>4, <2>6 DEF AloneFits
  <2>8. ~everClient => /\ saved' = "none" /\ d.step # "off"
                       /\ \A q \in DOMAIN d.view : d.view[q] \notin AtClient
    BY <2>1, <2>2, <2>4 DEF SystemProxyInv
  <2>9. saved' \in {"none", "client", "mixed"}
    BY <2>2, <1>0
  <2> HIDE DEF d
  <2> QED
    BY <2>2, <2>3, <2>5, <2>7, <2>8, <2>9, CallStep
<1>4. ASSUME NEW w \in Clearers, ClearIfHiddify(w) PROVE SystemProxyInv'
  <2>1. PICK c \in Clears(Here) : c = clearer[w]
    BY <1>0
  <2>2. /\ c.step = "read" /\ c.left = {} /\ UNCHANGED <<desktop, setting, everClient>>
    BY <1>4, <2>1 DEF ClearIfHiddify
  <2>3. c.alone => AloneFits(c, setting, Readable, Here)
    BY <2>1 DEF SystemProxyInv
  <2>4. CASE PointsAt(c.view, Endpoints[c.at])
    <3> DEFINE d == [step |-> "off", at |-> c.at, view |-> <<>>, left |-> Here, alone |-> c.alone]
    <3>1. clearer' = [clearer EXCEPT ![w] = d] /\ saved' \in {"none", "client", "mixed"}
      <4>1. c = [step |-> c.step, at |-> c.at, view |-> c.view, left |-> c.left, alone |-> c.alone]
        BY DEF Clears
      <4>2. clearer' = [clearer EXCEPT ![w].step = "off", ![w].view = <<>>, ![w].left = Here]
            /\ saved' \in {"none", "client", "mixed"}
        BY <1>4, <2>1, <2>4 DEF ClearIfHiddify, TurnsOff
      <4>3. clearer' = [clearer EXCEPT ![w] = [c EXCEPT !.step = "off", !.view = <<>>, !.left = Here]]
        BY <4>2, <2>1, <1>0
      <4>4. [c EXCEPT !.step = "off", !.view = <<>>, !.left = Here] = d
        <5> DEFINE e == [c EXCEPT !.step = "off", !.view = <<>>, !.left = Here]
        <5>1. /\ DOMAIN e = DOMAIN d /\ e.step = d.step /\ e.at = d.at /\ e.view = d.view
              /\ e.left = d.left /\ e.alone = d.alone
          BY DEF Clears
        <5>2. /\ e = [x \in DOMAIN c |-> e[x]] /\ d = [x \in DOMAIN c |-> d[x]]
              /\ DOMAIN c = {"step", "at", "view", "left", "alone"}
          BY DEF Clears
        <5> QED
          BY <5>1, <5>2
      <4> QED
        BY <4>2, <4>3, <4>4
    <3>2. d \in Clears(Here)
      <4>1. <<>> \in [{} -> Values]
        OBVIOUS
      <4> QED
        BY <4>1 DEF Clears, Views
    <3>3. d.alone => AloneFits(d, setting, Readable, Here)
      BY <2>2, <2>3 DEF AloneFits
    <3>4. Endpoints[c.at] \in AtClient
      BY DEF Clears, Endpoints, AtClient
    <3>5. everClient
      BY <2>1, <2>4, <3>4 DEF PointsAt, SystemProxyInv
    <3> HIDE DEF d
    <3> QED
      BY <2>2, <3>1, <3>2, <3>3, <3>5, CallStep
  <2>5. CASE ~PointsAt(c.view, Endpoints[c.at])
    <3>1. clearer' = [clearer EXCEPT ![w] = NextEndpoint(w)] /\ saved' = saved
      BY <1>4, <2>1, <2>5 DEF ClearIfHiddify
    <3>2. c.alone => \A p \in Readable : setting[p] # Endpoints[c.at]
      <4>1. Endpoints[c.at] \in AtClient
        BY DEF Clears, Endpoints, AtClient
      <4> QED
        BY <2>2, <2>3, <2>5, <4>1 DEF AloneFits, PointsAt, AtClient
    <3>3. /\ NextEndpoint(w) \in Clears(Here)
          /\ NextEndpoint(w).alone => AloneFits(NextEndpoint(w), setting, Readable, Here)
          /\ NextEndpoint(w).step # "off" /\ DOMAIN NextEndpoint(w).view = {}
      BY <2>1, <2>2, <3>2, NextFits
    <3>4. saved' \in {"none", "client", "mixed"} /\ (~everClient => saved' = "none")
      BY <3>1, <1>0 DEF SystemProxyInv
    <3> QED
      BY <2>2, <3>1, <3>3, <3>4, CallStep
  <2> QED
    BY <2>4, <2>5
<1>5. ASSUME NEW w \in Clearers, NEW p \in Here, ApplyDisabled(w, p) PROVE SystemProxyInv'
  <2>1. PICK c \in Clears(Here) : c = clearer[w]
    BY <1>0
  <2>2. /\ c.step = "off" /\ p \in c.left /\ setting' = [setting EXCEPT ![p] = "off"]
        /\ UNCHANGED <<desktop, saved, everClient>>
    BY <1>5, <2>1 DEF ApplyDisabled
  <2> DEFINE d == [step |-> c.step, at |-> c.at, view |-> c.view, left |-> c.left \ {p},
                   alone |-> c.alone]
  <2>3. clearer' = [clearer EXCEPT ![w] = d]
    <3>1. c = [step |-> c.step, at |-> c.at, view |-> c.view, left |-> c.left, alone |-> c.alone]
      BY DEF Clears
    <3>2. clearer' = [clearer EXCEPT ![w].left = @ \ {p}]
      BY <1>5 DEF ApplyDisabled
    <3>3. clearer' = [clearer EXCEPT ![w] = [c EXCEPT !.left = c.left \ {p}]]
      BY <3>2, <2>1, <1>0
    <3>4. [c EXCEPT !.left = c.left \ {p}] = d
      BY <3>1
    <3> QED
      BY <3>3, <3>4
  <2>4. d \in Clears(Here)
    BY DEF Clears
  <2>5. /\ clearer' \in [Clearers -> Clears(Here)] /\ clearer'[w] = d
        /\ \A v \in Clearers : v # w => clearer'[v] = clearer[v]
    BY <2>3, <2>4, <1>0
  <2>6. /\ Here' = Here /\ Readable' = Readable /\ setting' \in [Here -> Values]
        /\ \A q \in Here : setting'[q] = IF q = p THEN "off" ELSE setting[q]
    BY <2>2, <1>0 DEF Here, Readable, Values
  <2>7. \A v \in Clearers : clearer'[v].alone => AloneFits(clearer'[v], setting', Readable, Here)
    <3> SUFFICES ASSUME NEW v \in Clearers, clearer'[v].alone
                 PROVE  AloneFits(clearer'[v], setting', Readable, Here)
      OBVIOUS
    <3>1. "off" \notin AtClient /\ "off" # "first"
      BY DEF AtClient
    <3>2. CASE v = w
      <4>1. AloneFits(c, setting, Readable, Here)
        BY <2>1, <2>5, <3>2 DEF SystemProxyInv
      <4>2. AloneFits(d, setting', Readable, Here)
        BY <4>1, <3>1, <2>2, <2>6, <1>0 DEF AloneFits
      <4> QED
        BY <4>2, <3>2, <2>5
    <3>3. CASE v # w
      <4>1. PICK b \in Clears(Here) : b = clearer[v]
        BY <1>0
      <4>2. AloneFits(b, setting, Readable, Here)
        BY <2>5, <3>3, <4>1 DEF SystemProxyInv
      <4>3. DOMAIN b.view \subseteq Here
        BY DEF Clears, Views
      <4>4. AloneFits(b, setting', Readable, Here)
        BY <4>2, <4>3, <3>1, <2>6, <1>0 DEF AloneFits
      <4> QED
        BY <4>1, <4>4, <3>3, <2>5
    <3> QED
      BY <3>2, <3>3
  <2>8. everClient
    BY <2>1, <2>2 DEF SystemProxyInv
  <2> QED
    BY <2>2, <2>5, <2>6, <2>7, <2>8, <1>0 DEF SystemProxyInv
<1>6. ASSUME NEW w \in Clearers, Cleared(w) PROVE SystemProxyInv'
  <2>1. PICK c \in Clears(Here) : c = clearer[w]
    BY <1>0
  <2>2. /\ c.step = "off" /\ c.left = {} /\ UNCHANGED <<desktop, setting, saved, everClient>>
        /\ clearer' = [clearer EXCEPT ![w] = NextEndpoint(w)]
    BY <1>6, <2>1 DEF Cleared
  <2>3. c.alone => AloneFits(c, setting, Readable, Here)
    BY <2>1 DEF SystemProxyInv
  <2>4. c.alone => \A p \in Readable : setting[p] # Endpoints[c.at]
    <3>1. Endpoints[c.at] \in AtClient
      BY DEF Clears, Endpoints, AtClient
    <3> QED
      BY <2>2, <2>3, <3>1, <1>0 DEF AloneFits, AtClient
  <2>5. /\ NextEndpoint(w) \in Clears(Here)
        /\ NextEndpoint(w).alone => AloneFits(NextEndpoint(w), setting, Readable, Here)
        /\ NextEndpoint(w).step # "off" /\ DOMAIN NextEndpoint(w).view = {}
    BY <2>1, <2>2, <2>4, NextFits
  <2>6. saved' \in {"none", "client", "mixed"} /\ (~everClient => saved' = "none")
    BY <2>2, <1>0 DEF SystemProxyInv
  <2> QED
    BY <2>2, <2>5, <2>6, CallStep
<1>7. ASSUME NEW w \in Clearers, ClearFails(w) PROVE SystemProxyInv'
  <2>1. clearer' = [clearer EXCEPT ![w] = Resting] /\ UNCHANGED <<desktop, setting, saved, everClient>>
    BY <1>7 DEF ClearFails
  <2>2. saved' \in {"none", "client", "mixed"} /\ (~everClient => saved' = "none")
    BY <2>1, <1>0 DEF SystemProxyInv
  <2> QED
    BY <2>1, <2>2, RestingFits, CallStep
<1>8. CASE UNCHANGED systemProxyVars
  BY <1>8 DEF systemProxyVars, SystemProxyInv, Here, Readable, AloneFits
<1> QED
  BY <1>1, <1>2, <1>3, <1>4, <1>5, <1>6, <1>7, <1>8 DEF SystemProxyNext

(* A clear that was alone leaves no place at a client, and a setting that   *)
(* never pointed at one is neither saved nor turned off.                    *)
THEOREM SystemProxyHolds == SystemProxySpec => []SystemProxyInvariant
<1>1. SystemProxyInit => SystemProxyInv
  <2> SUFFICES ASSUME SystemProxyInit PROVE SystemProxyInv
    OBVIOUS
  <2>1. clearer \in [Clearers -> Clears(Here)] /\ \A w \in Clearers : clearer[w] = Resting
    BY RestingFits DEF SystemProxyInit
  <2>2. everClient \in BOOLEAN /\ (~everClient => \A p \in Here : setting[p] \notin AtClient)
    BY DEF SystemProxyInit
  <2> QED
    BY <2>1, <2>2, RestingFits DEF SystemProxyInit, SystemProxyInv
<1>2. SystemProxyInv => SystemProxyInvariant
  <2> SUFFICES ASSUME SystemProxyInv PROVE SystemProxyInvariant
    OBVIOUS
  <2>1. \A w \in Clearers : clearer[w].step \in {"idle", "read", "off", "done"}
    BY DEF SystemProxyInv, Clears
  <2>2. SystemProxyTypeOK
    BY <2>1 DEF SystemProxyInv, SystemProxyTypeOK
  <2>3. NoPlaceAtClient /\ OthersUntouched
    BY DEF SystemProxyInv, NoPlaceAtClient, OthersUntouched, AloneFits
  <2> QED
    BY <2>2, <2>3 DEF SystemProxyInvariant
<1> QED
  BY <1>1, <1>2, SystemProxyStep, PTL DEF SystemProxySpec

-----------------------------------------------------------------------------
(* The files of Hiddify (module FreshStart).                               *)

Times == 0..MaxTime
Calls ==
    [step : {"ready", "stopped"}] \cup [step : {"moving"}, at : Times, left : SUBSET Entries]
    \cup [step : {"copied"}, at : Times, left : SUBSET Entries, entry : Entries]
Moves(k) == k.step \in {"moving", "copied"}

\* What a call has not moved: the rest is not old, a copy is what was copied,
\* and the backup has nothing of it.
CallFits(k) ==
    Moves(k) =>
        /\ \A e \in Entries \ k.left : folder[e] # "old"
        /\ k.step = "copied" =>
              k.entry \in k.left /\ (folder[k.entry] = "old" => backups[k.at][k.entry] = "old")
        /\ ~collided => \A e \in k.left : (k.step = "copied" /\ k.entry = e) \/ backups[k.at][e] = "none"

FreshInv ==
    /\ FreshTypeOK /\ NothingIsDestroyed
    /\ backups \in [Times -> [Entries -> {"none", "old", "new"}]]
    /\ call \in [Callers -> Calls]
    /\ \A c \in Callers : CallFits(call[c])
    /\ ~collided => \A c, d \in Callers :
           c # d /\ Moves(call[c]) /\ Moves(call[d]) => call[c].at # call[d].at

\* What is put into a backup and taken from the folder is kept.
LEMMA SaveKeeps ==
  ASSUME FreshInv, NEW t \in Times, NEW e \in Entries,
         ~collided => backups[t][e] = "none",
         backups' = [backups EXCEPT ![t][e] = folder[e]],
         folder' \in {folder, [folder EXCEPT ![e] = "none"]}, UNCHANGED <<had, collided>>
  PROVE  /\ NothingIsDestroyed'
         /\ backups' \in [Times -> [Entries -> {"none", "old", "new"}]]
         /\ folder' \in [Entries -> {"none", "old", "new"}]
         /\ backups'[t][e] = folder[e]
         /\ \A u \in Times, f \in Entries : u # t \/ f # e => backups'[u][f] = backups[u][f]
         /\ \A f \in Entries : folder'[f] = folder[f] \/ (f = e /\ folder'[f] = "none")
<1>0. /\ folder \in [Entries -> {"none", "old", "new"}] /\ had \subseteq Entries
      /\ backups \in [Times -> [Entries -> {"none", "old", "new"}]]
  BY DEF FreshInv, FreshTypeOK
<1>1. /\ backups' \in [Times -> [Entries -> {"none", "old", "new"}]]
      /\ folder' \in [Entries -> {"none", "old", "new"}]
      /\ backups'[t][e] = folder[e]
      /\ \A u \in Times, f \in Entries : u # t \/ f # e => backups'[u][f] = backups[u][f]
      /\ \A f \in Entries : folder'[f] = folder[f] \/ (f = e /\ folder'[f] = "none")
  BY <1>0
<1>2. NothingIsDestroyed'
  <2> SUFFICES ASSUME ~collided, NEW f \in had PROVE Kept(f)'
    BY DEF NothingIsDestroyed
  <2>1. f \in Entries /\ Kept(f)
    BY <1>0 DEF FreshInv, NothingIsDestroyed
  <2>2. CASE folder[f] = "old"
    BY <2>1, <2>2, <1>1 DEF Kept, Times
  <2>3. CASE \E u \in Times : backups[u][f] = "old"
    BY <2>1, <2>3, <1>1 DEF Kept, Times
  <2> QED
    BY <2>1, <2>2, <2>3 DEF Kept, Times
<1> QED
  BY <1>1, <1>2

LEMMA FreshStep == FreshInv /\ [FreshNext]_freshVars => FreshInv'
<1> SUFFICES ASSUME FreshInv, [FreshNext]_freshVars PROVE FreshInv'
  OBVIOUS
<1>0. /\ FreshTypeOK /\ NothingIsDestroyed
      /\ folder \in [Entries -> {"none", "old", "new"}]
      /\ backups \in [Times -> [Entries -> {"none", "old", "new"}]]
      /\ call \in [Callers -> Calls] /\ now \in Times /\ had \subseteq Entries /\ collided \in BOOLEAN
      /\ \A c \in Callers : CallFits(call[c])
      /\ ~collided => \A c, d \in Callers :
           c # d /\ Moves(call[c]) /\ Moves(call[d]) => call[c].at # call[d].at
  BY DEF FreshInv, FreshTypeOK, Times
\* A step that leaves the calls and the backups alone, and makes nothing old.
<1>1. ASSUME UNCHANGED <<backups, call, had, collided>>, folder' \in [Entries -> {"none", "old", "new"}],
             \A e \in Entries : folder'[e] = folder[e] \/ (folder[e] # "old" /\ folder'[e] # "old"),
             hiddify' \in {"off", "runs"}, now' \in Times
      PROVE  FreshInv'
  <2>1. NothingIsDestroyed'
    BY <1>0, <1>1 DEF NothingIsDestroyed, Kept
  <2>2. ASSUME NEW c \in Callers PROVE CallFits(call[c])'
    <3>1. PICK k \in Calls : k = call[c]
      BY <1>0
    <3>2. CallFits(k) /\ call'[c] = k
      BY <1>0, <1>1, <3>1
    <3>3. Moves(k) => k.left \subseteq Entries /\ k.at \in Times /\ (k.step = "copied" => k.entry \in Entries)
      BY DEF Calls, Moves
    <3>4. CallFits(k)'
      BY <3>2, <3>3, <1>1 DEF CallFits, Moves
    <3> QED
      BY <3>2, <3>4 DEF CallFits, Moves
  <2> QED
    BY <1>0, <1>1, <2>1, <2>2 DEF FreshInv, FreshTypeOK, Times, CallFits, Moves
<1>2. CASE \E e \in Entries : ProgramWrites(e)
  BY <1>0, <1>1, <1>2 DEF ProgramWrites, FreshTypeOK
<1>3. CASE ProgramEnds
  BY <1>0, <1>1, <1>3 DEF ProgramEnds, FreshTypeOK
<1>4. CASE SecondPasses
  BY <1>0, <1>1, <1>4, TimeAssumption DEF SecondPasses, FreshTypeOK, Times
\* A call that goes on without a change of the files.
<1>5. ASSUME NEW c \in Callers, NEW k \in Calls, call' = [call EXCEPT ![c] = k], CallFits(k)',
             UNCHANGED <<folder, backups, now, had>>, hiddify' \in {"off", "runs"},
             collided' \in BOOLEAN, collided => collided',
             ~collided' /\ Moves(k) => \A d \in Callers \ {c} : Moves(call[d]) => call[d].at # k.at
      PROVE  FreshInv'
  <2>1. /\ call' \in [Callers -> Calls] /\ call'[c] = k
        /\ \A d \in Callers \ {c} : call'[d] = call[d]
    BY <1>0, <1>5
  <2>2. NothingIsDestroyed'
    BY <1>0, <1>5 DEF NothingIsDestroyed, Kept
  <2>3. \A d \in Callers : CallFits(call[d])'
    <3>1. ASSUME NEW d \in Callers \ {c} PROVE CallFits(call[d])'
      BY <1>0, <1>5, <2>1 DEF CallFits, Moves
    <3>2. CallFits(call[c])'
      BY <1>5, <2>1 DEF CallFits, Moves
    <3> QED
      BY <3>1, <3>2
  <2> QED
    BY <1>0, <1>5, <2>1, <2>2, <2>3 DEF FreshInv, FreshTypeOK, Times, CallFits, Moves
<1>6. NotCalled \in Calls /\ [step |-> "stopped"] \in Calls /\ NotCalled.step = "ready"
  BY DEF NotCalled, Calls
<1>7. ASSUME NEW c \in Callers, StopHiddify(c) PROVE FreshInv'
  <2>1. /\ call' = [call EXCEPT ![c] = [step |-> "stopped"]] /\ hiddify' \in {"off", "runs"}
        /\ UNCHANGED <<folder, backups, now, had, collided>>
    BY <1>0, <1>7 DEF StopHiddify, CallBecomes, FreshTypeOK
  <2>2. CallFits([step |-> "stopped"])' /\ ~Moves([step |-> "stopped"])
    BY DEF CallFits, Moves
  <2> QED
    BY <1>0, <1>5, <1>6, <2>1, <2>2
<1>8. ASSUME NEW c \in Callers, PlanEntries(c) PROVE FreshInv'
  <2> DEFINE k == [step |-> "moving", at |-> now, left |-> Listed]
  <2>1. /\ call' = [call EXCEPT ![c] = k] /\ collided' = (collided \/ SharesSecond(c))
        /\ UNCHANGED <<folder, backups, hiddify, now, had>>
    BY <1>8 DEF PlanEntries, CallBecomes
  <2>2. k \in Calls
    BY <1>0 DEF Calls, Listed
  <2>3. collided' \in BOOLEAN /\ (collided => collided')
    BY <1>0, <2>1
  <2>4. ~collided' => /\ \A e \in Entries : backups[now][e] = "none"
                      /\ \A d \in Callers \ {c} : Moves(call[d]) => call[d].at # now
    BY <2>1 DEF SharesSecond, Moves
  <2>5. PICK m \in Calls : m = k
    BY <2>2
  <2>6. m.step = "moving" /\ m.at = now /\ m.left = Listed
    BY <2>5
  <2>7. CallFits(m)'
    BY <2>1, <2>4, <2>6 DEF CallFits, Moves, Listed
  <2>8. hiddify' \in {"off", "runs"} /\ call' = [call EXCEPT ![c] = m]
    BY <2>1, <2>5, <1>0 DEF FreshTypeOK
  <2> HIDE DEF k
  <2> QED
    BY <1>5, <2>1, <2>3, <2>4, <2>6, <2>7, <2>8
<1>9. ASSUME NEW c \in Callers, FreshStartFails(c) \/ StartHiddify(c) PROVE FreshInv'
  <2>1. /\ call' = [call EXCEPT ![c] = NotCalled] /\ hiddify' \in {"off", "runs"}
        /\ UNCHANGED <<folder, backups, now, had, collided>>
    BY <1>0, <1>9 DEF FreshStartFails, StartHiddify, CallBecomes, FreshTypeOK
  <2>2. CallFits(NotCalled)' /\ ~Moves(NotCalled)
    BY <1>6 DEF CallFits, Moves
  <2> QED
    BY <1>0, <1>5, <1>6, <2>1, <2>2
\* A call that moves, or begins to move, an entry: the others have backups of
\* other seconds.
<1>10. ASSUME NEW c \in Callers, NEW e \in Entries, NEW t \in Times, NEW k \in Calls, Moves(call[c]),
              call[c].at = t, k.at = t, Moves(k), e \in call[c].left,
              ~collided => backups[t][e] = "none",
              backups' = [backups EXCEPT ![t][e] = folder[e]],
              folder' \in {folder, [folder EXCEPT ![e] = "none"]},
              call' = [call EXCEPT ![c] = k], UNCHANGED <<hiddify, now, had, collided>>,
              \/ k.step = "copied" /\ k.left = call[c].left /\ k.entry = e
              \/ k.step = "moving" /\ k.left = call[c].left \ {e} /\ folder'[e] = "none",
              call[c].step = "moving"
       PROVE  FreshInv'
  <2>1. /\ NothingIsDestroyed'
        /\ backups' \in [Times -> [Entries -> {"none", "old", "new"}]]
        /\ folder' \in [Entries -> {"none", "old", "new"}]
        /\ backups'[t][e] = folder[e]
        /\ \A u \in Times, f \in Entries : u # t \/ f # e => backups'[u][f] = backups[u][f]
        /\ \A f \in Entries : folder'[f] = folder[f] \/ (f = e /\ folder'[f] = "none")
    BY <1>10, SaveKeeps
  <2>2. /\ call' \in [Callers -> Calls] /\ call'[c] = k
        /\ \A d \in Callers \ {c} : call'[d] = call[d]
    BY <1>0, <1>10
  <2>3. ASSUME NEW d \in Callers PROVE CallFits(call[d])'
    <3>1. CASE d = c
      <4>1. PICK b \in Calls : b = call[c]
        BY <1>0
      <4>2. CallFits(b) /\ b.left \subseteq Entries /\ b.step = "moving" /\ b.at = t
        BY <1>0, <1>10, <4>1 DEF Calls, Moves
      <4>3. CallFits(k)'
        BY <4>1, <4>2, <2>1, <1>10 DEF CallFits, Moves
      <4> QED
        BY <3>1, <4>3, <2>2 DEF CallFits, Moves
    <3>2. CASE d # c
      <4>1. PICK b \in Calls : b = call[d]
        BY <1>0
      <4>2. CallFits(b) /\ call'[d] = b
        BY <1>0, <2>2, <3>2, <4>1
      <4>3. Moves(b) => /\ b.left \subseteq Entries /\ b.at \in Times
                        /\ b.step = "copied" => b.entry \in Entries
                        /\ ~collided => b.at # t
        BY <1>0, <1>10, <3>2, <4>1 DEF Calls, Moves
      <4>4. CallFits(b)'
        BY <4>2, <4>3, <2>1, <1>10 DEF CallFits, Moves
      <4> QED
        BY <4>2, <4>4 DEF CallFits, Moves
    <3> QED
      BY <3>1, <3>2
  <2>4. ~collided' => \A a, d \in Callers :
           a # d /\ Moves(call'[a]) /\ Moves(call'[d]) => call'[a].at # call'[d].at
    BY <1>0, <1>10, <2>2
  <2> QED
    BY <1>0, <1>10, <2>1, <2>2, <2>3, <2>4 DEF FreshInv, FreshTypeOK, Times, Moves
<1>11. ASSUME NEW c \in Callers, NEW e \in Entries, RenameEntry(c, e) \/ CopyEntry(c, e) PROVE FreshInv'
  <2>1. PICK b \in [step : {"moving"}, at : Times, left : SUBSET Entries] : b = call[c]
    BY <1>0, <1>11 DEF RenameEntry, CopyEntry, Calls
  <2>2. PICK t \in Times : t = b.at
    OBVIOUS
  <2>3. /\ Moves(call[c]) /\ call[c].at = t /\ e \in call[c].left /\ call[c].step = "moving"
        /\ backups' = [backups EXCEPT ![t][e] = folder[e]]
        /\ UNCHANGED <<hiddify, now, had, collided>>
    BY <1>11, <2>1, <2>2 DEF RenameEntry, CopyEntry, Save, Moves
  <2>4. ~collided => backups[t][e] = "none"
    BY <1>0, <2>3 DEF CallFits
  <2>5. CASE RenameEntry(c, e)
    <3>1. PICK k \in Calls : k = [step |-> "moving", at |-> t, left |-> b.left \ {e}]
      BY DEF Calls
    <3>2. k.step = "moving" /\ k.at = t /\ k.left = call[c].left \ {e} /\ Moves(k)
      BY <3>1, <2>1 DEF Moves
    <3>3. [b EXCEPT !.left = b.left \ {e}] = k
      BY <3>1, <2>2
    <3>4. call' = [call EXCEPT ![c] = k] /\ folder' = [folder EXCEPT ![e] = "none"]
      BY <2>1, <2>5, <3>3 DEF RenameEntry, CallBecomes
    <3>5. folder'[e] = "none"
      BY <3>4, <1>0
    <3> QED
      BY <1>10, <2>3, <2>4, <3>2, <3>4, <3>5
  <2>6. CASE CopyEntry(c, e)
    <3>1. PICK k \in Calls : k = [step |-> "copied", at |-> t, left |-> b.left, entry |-> e]
      BY DEF Calls
    <3>2. k.step = "copied" /\ k.at = t /\ k.left = call[c].left /\ k.entry = e /\ Moves(k)
      BY <3>1, <2>1 DEF Moves
    <3>3. call' = [call EXCEPT ![c] = k] /\ folder' = folder
      BY <2>1, <2>2, <2>6, <3>1 DEF CopyEntry, CallBecomes
    <3> QED
      BY <1>10, <2>3, <2>4, <3>2, <3>3
  <2> QED
    BY <1>11, <2>5, <2>6
<1>12. ASSUME NEW c \in Callers, RemoveEntry(c) PROVE FreshInv'
  <2>1. PICK b \in [step : {"copied"}, at : Times, left : SUBSET Entries, entry : Entries] : b = call[c]
    BY <1>0, <1>12 DEF RemoveEntry, Calls
  <2>2. PICK k \in Calls : k = [step |-> "moving", at |-> b.at, left |-> b.left \ {b.entry}]
    BY DEF Calls
  <2>3. /\ folder' = [folder EXCEPT ![b.entry] = "none"] /\ call' = [call EXCEPT ![c] = k]
        /\ UNCHANGED <<backups, hiddify, now, had, collided>>
    BY <1>12, <2>1, <2>2 DEF RemoveEntry, CallBecomes
  <2>4. k.step = "moving" /\ k.at = b.at /\ k.left = b.left \ {b.entry} /\ Moves(k) /\ Moves(b)
    BY <2>2 DEF Moves
  <2>5. CallFits(b)
    BY <1>0, <2>1
  <2>6. /\ folder' \in [Entries -> {"none", "old", "new"}]
        /\ \A f \in Entries : folder'[f] = IF f = b.entry THEN "none" ELSE folder[f]
    BY <1>0, <2>3
  <2>7. /\ call' \in [Callers -> Calls] /\ call'[c] = k
        /\ \A d \in Callers \ {c} : call'[d] = call[d]
    BY <1>0, <2>3
  <2>8. NothingIsDestroyed'
    <3> SUFFICES ASSUME ~collided, NEW f \in had PROVE Kept(f)'
      BY <2>3 DEF NothingIsDestroyed
    <3>1. f \in Entries /\ Kept(f)
      BY <1>0 DEF NothingIsDestroyed
    <3>2. folder[b.entry] = "old" => backups[b.at][b.entry] = "old"
      BY <2>1, <2>4, <2>5 DEF CallFits
    <3> QED
      BY <3>1, <3>2, <2>3, <2>6 DEF Kept, Times
  <2>9. ASSUME NEW d \in Callers PROVE CallFits(call[d])'
    <3>1. CASE d = c
      <4>1. CallFits(k)'
        BY <2>1, <2>3, <2>4, <2>5, <2>6 DEF CallFits, Moves
      <4> QED
        BY <3>1, <4>1, <2>7 DEF CallFits, Moves
    <3>2. CASE d # c
      <4>1. PICK a \in Calls : a = call[d]
        BY <1>0
      <4>2. CallFits(a) /\ call'[d] = a
        BY <1>0, <2>7, <3>2, <4>1
      <4>3. Moves(a) => a.left \subseteq Entries /\ a.at \in Times /\ (a.step = "copied" => a.entry \in Entries)
        BY DEF Calls, Moves
      <4>4. CallFits(a)'
        BY <4>2, <4>3, <2>3, <2>6 DEF CallFits, Moves
      <4> QED
        BY <4>2, <4>4 DEF CallFits, Moves
    <3> QED
      BY <3>1, <3>2
  <2>10. ~collided' => \A a, d \in Callers :
           a # d /\ Moves(call'[a]) /\ Moves(call'[d]) => call'[a].at # call'[d].at
    BY <1>0, <2>1, <2>3, <2>4, <2>7
  <2> QED
    BY <1>0, <2>3, <2>6, <2>7, <2>8, <2>9, <2>10 DEF FreshInv, FreshTypeOK, Times, Moves
<1>14. CASE UNCHANGED freshVars
  BY <1>0, <1>1, <1>14 DEF freshVars, FreshTypeOK
<1> QED
  BY <1>2, <1>3, <1>4, <1>7, <1>8, <1>9, <1>11, <1>12, <1>14 DEF FreshNext

(* What was in the folder stays there or in a backup while no two calls     *)
(* share one, and Hiddify is started again with nothing of it.              *)
THEOREM FreshHolds == FreshSpec => []FreshStartInvariant
<1>1. FreshInit => FreshInv
  <2> SUFFICES ASSUME FreshInit PROVE FreshInv
    OBVIOUS
  <2>1. /\ folder \in [Entries -> {"none", "old"}] /\ hiddify \in {"off", "runs"} /\ now = 0
        /\ backups = [t \in Times |-> [e \in Entries |-> "none"]] /\ collided = FALSE
        /\ call = [c \in Callers |-> NotCalled] /\ had = {e \in Entries : folder[e] = "old"}
    BY DEF FreshInit, Times
  <2>2. NotCalled \in Calls /\ ~Moves(NotCalled)
    BY DEF NotCalled, Calls, Moves
  <2>3. FreshTypeOK
    <3>1. 0 \in 0..MaxTime
      BY TimeAssumption
    <3>2. folder \in [Entries -> {"none", "old", "new"}] /\ had \subseteq Entries
      BY <2>1
    <3> QED
      BY <2>1, <3>1, <3>2 DEF FreshTypeOK
  <2>4. NothingIsDestroyed
    BY <2>1 DEF NothingIsDestroyed, Kept
  <2> QED
    BY <2>1, <2>2, <2>3, <2>4 DEF FreshInv, CallFits
<1>2. FreshInv => FreshStartInvariant
  BY DEF FreshInv, FreshStartInvariant, StartsClean, CallFits, Moves
<1> QED
  BY <1>1, <1>2, FreshStep, PTL DEF FreshSpec

-----------------------------------------------------------------------------
(* Together.                                                               *)

(* What the user is told of a stack and of its host is true to it: the      *)
(* statuses, the traffic, the reports and the log.                          *)
THEOREM ObservationInvariantHolds == ObservationSpec => []ObservationInvariant
<1>1. ComponentsInvariant /\ TrafficInvariant /\ HostReportInvariant /\ DebugLogInvariant
      <=> ObservationInvariant
  BY DEF ObservationInvariant
<1> QED
  BY <1>1, ComponentsHold, TrafficHolds, ReportHolds, DebugLogHolds, PTL DEF ObservationSpec

(* What BiFlow does to the user's own programs keeps its word: the clients  *)
(* it leaves out are explained, no setting of another is taken away, and no *)
(* file of Hiddify is lost.                                                 *)
THEOREM ProgramsInvariantHolds == ProgramsSpec => []ProgramsInvariant
<1>1. ProxiesInvariant /\ SystemProxyInvariant /\ FreshStartInvariant <=> ProgramsInvariant
  BY DEF ProgramsInvariant
<1> QED
  BY <1>1, ProxiesHold, SystemProxyHolds, FreshHolds, PTL DEF ProgramsSpec
=============================================================================
