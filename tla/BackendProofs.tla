---------------------------- MODULE BackendProofs ----------------------------
(* Theorems about Backend, on every platform: it implements StackContract,   *)
(* and Mihomo runs nothing that mihomo -t would refuse; and about Provision: *)
(* what an installation of the helper and a prepared connect promise.        *)
EXTENDS Backend, Provision, TLAPS

StartPlaces == {"proxy", "launch", "probe", "dialing", "prepare", "validate", "core", "ready"}
UndoPlaces == {"stopCore", "stopProxy", "cleanup", "clearing"}

\* What the lock holder is at, as far as the phase follows from it.
LockTypes ==
    /\ default \in Defaults
    /\ stack \in Contract!Settled \union {"working"}
    /\ at \in StartPlaces \union UndoPlaces \union {"idle", "recover"}

\* Without a lock holder the phase is settled, and the next holder starts anew.
IdleIsSettled == at = "idle" => stack # "working" /\ op = "stop" /\ ends = "stopped"

\* A start, a resume, a stop and a pause are shown; an apply is not.
WorkIsShown == at # "idle" /\ op # "apply" => stack = "working"
ApplyIsLive == op = "apply" => stack = "connected" /\ at \in {"recover", "prepare", "validate", "core", "ready"}

\* A start that fails is not shown as stopped, unless it is undone.
StartEndsBadly == at \in StartPlaces /\ op # "apply" => ends \in {"error", "paused"}
UndoEnds == at \in UndoPlaces => ends \in {"stopped", "error", "paused"}
RecoverIsApply == at = "recover" => op = "apply"

\* Nothing runs while the phase is Stopped, and what is validated is a config.
StoppedIsDown == stack = "stopped" => core = NoGeneration
GenerationIsPrepared == at \in {"validate", "core"} => prepared # NoGeneration

LockInv ==
    /\ LockTypes /\ IdleIsSettled /\ WorkIsShown /\ ApplyIsLive /\ StartEndsBadly /\ UndoEnds
    /\ RecoverIsApply /\ StoppedIsDown /\ GenerationIsPrepared

LEMMA MatchIsSome ==
    ASSUME default \in Defaults, NEW ready
    PROVE  MatchOf(ready) # "none"
BY DEF MatchOf, Defaults, Egresses

LEMMA InitLockInv == BackendInit => LockInv
BY DEF BackendInit, LockInv, LockTypes, IdleIsSettled, WorkIsShown, ApplyIsLive, StartEndsBadly, UndoEnds,
   RecoverIsApply, StoppedIsDown, GenerationIsPrepared, StartPlaces, UndoPlaces, Contract!Settled

LEMMA LockInvStep ==
    ASSUME LockInv, [BackendNext]_backendVars
    PROVE  LockInv'
<1> USE DEF LockInv, LockTypes, IdleIsSettled, WorkIsShown, ApplyIsLive, StartEndsBadly, UndoEnds,
            RecoverIsApply, StoppedIsDown, GenerationIsPrepared, StartPlaces, UndoPlaces, Contract!Settled,
            world, egress, generations, lock, tasks
<1>1. CASE BeginStart
    BY <1>1 DEF BeginStart
<1>2. CASE BeginApply
    BY <1>2 DEF BeginApply
<1>3. CASE BeginStop
    BY <1>3 DEF BeginStop
<1>4. CASE Cancel
    BY <1>4 DEF Cancel
<1>5. CASE ReuseCachedEgress
    BY <1>5 DEF ReuseCachedEgress, Publishes, Goes
<1>6. CASE FindListening
    BY <1>6 DEF FindListening, Moves, Goes
<1>7. CASE SpawnLocalProxy
    BY <1>7 DEF SpawnLocalProxy, Moves, Goes, Skips, StartFails, Ends
<1>8. CASE LaunchTimesOut
    BY <1>8 DEF LaunchTimesOut, Skips, StartFails, Moves, Goes, Ends
<1>9. CASE LaunchOpens
    BY <1>9 DEF LaunchOpens, Moves, Goes
<1>10. CASE ProbeFlows
    BY <1>10 DEF ProbeFlows, Publishes, Goes
<1>11. CASE ProbeFails
    BY <1>11 DEF ProbeFails, Skips, StartFails, Moves, Goes, Ends
<1>12. CASE TunnelStarts
    BY <1>12 DEF TunnelStarts, Publishes, Goes
<1>13. CASE TunnelFails
    BY <1>13 DEF TunnelFails, StartFails, Moves, Goes, Ends
<1>14. CASE PrepareRuntime
  <2>1. MatchOf(Ready) # "none"
    BY MatchIsSome
  <2>2. prepared' # NoGeneration
    BY <1>14, <2>1 DEF PrepareRuntime, NoGeneration
  <2> QED
    BY <1>14, <2>2 DEF PrepareRuntime, Goes
<1>15. CASE ValidateRuntime
    BY <1>15 DEF ValidateRuntime, Moves, Goes
<1>16. CASE ValidationFails
    BY <1>16 DEF ValidationFails, ApplyFails, StartFails, Moves, Goes, Ends
<1>17. CASE StartCore
    BY <1>17 DEF StartCore, ApplyFails, StartFails, Moves, Goes, Ends
<1>18. CASE ReloadCore
    BY <1>18 DEF ReloadCore, ApplyFails, Moves, Goes, Ends
<1>19. CASE CheckReadiness
    BY <1>19 DEF CheckReadiness, StartFails, Moves, Goes, Ends
<1>20. CASE StopCore
    BY <1>20 DEF StopCore, Moves, Goes
<1>21. CASE StopUserProxy
    BY <1>21 DEF StopUserProxy, Moves, Goes
<1>22. CASE BeginCleanup
    BY <1>22 DEF BeginCleanup, Moves, Goes
<1>23. CASE CleanupOwnedState
    BY <1>23 DEF CleanupOwnedState, Ends, Forget
<1>24. CASE CleanupFails
    BY <1>24 DEF CleanupFails, Ends
<1>25. CASE ApplyProbes
    BY <1>25 DEF ApplyProbes
<1>26. CASE RecoverStep("apply")
    BY <1>26 DEF RecoverStep, Recovered, NotRecovered, Continues, Moves, Goes
<1>27. CASE ApplyRecovered
    BY <1>27 DEF ApplyRecovered, Moves, Goes
<1>28. CASE ApplyTimesOut
    BY <1>28 DEF ApplyTimesOut, ApplyFails, Ends
<1>29. CASE AskRecover
    BY <1>29 DEF AskRecover
<1>30. CASE TickProbes
    BY <1>30 DEF TickProbes
<1>31. CASE RecoverStep("health")
    BY <1>31 DEF RecoverStep, Recovered, NotRecovered, Continues
<1>32. CASE CommandStep
    BY <1>32 DEF CommandStep, AskCommand, ConnectSideTunnel, SideTunnelStarts, SideTunnelFails, PublishSideTunnel, AskDisconnect, DisconnectSideTunnel, ForgetSideTunnel
<1>33. CASE AbandonedStartEnds
    BY <1>33 DEF AbandonedStartEnds
<1>34. CASE ProxyChanges
    BY <1>34 DEF ProxyChanges
<1>35. CASE TunnelDies
    BY <1>35 DEF TunnelDies
<1>36. CASE CoreDies
    BY <1>36 DEF CoreDies
<1>37. CASE UNCHANGED backendVars
    BY <1>37 DEF backendVars
<1> QED
    BY <1>1, <1>2, <1>3, <1>4, <1>5, <1>6, <1>7, <1>8, <1>9, <1>10, <1>11, <1>12,
       <1>13, <1>14, <1>15, <1>16, <1>17, <1>18, <1>19, <1>20, <1>21, <1>22, <1>23, <1>24,
       <1>25, <1>26, <1>27, <1>28, <1>29, <1>30, <1>31, <1>32, <1>33, <1>34, <1>35, <1>36,
       <1>37
    DEF BackendNext, LockStep, EnsureStep, CoreStep, StopStep

\* Every step of the backend is one of the contract or shows nothing.
LEMMA StepRefines ==
    ASSUME LockInv, [BackendNext]_backendVars
    PROVE  [Contract!ContractNext]_Contract!contractVars
<1> USE DEF LockInv, LockTypes, IdleIsSettled, WorkIsShown, ApplyIsLive, StartEndsBadly, UndoEnds,
            RecoverIsApply, StoppedIsDown, GenerationIsPrepared, StartPlaces, UndoPlaces, Contract!Settled,
            Contract!ContractNext, Contract!Begin, Contract!Capture, Contract!Release, Contract!Connect, Contract!Stop,
            Contract!Fail, Contract!contractVars, world, egress, generations, lock, tasks
<1>1. CASE BeginStart
    BY <1>1 DEF BeginStart
<1>2. CASE BeginApply
    BY <1>2 DEF BeginApply
<1>3. CASE BeginStop
    BY <1>3 DEF BeginStop
<1>4. CASE Cancel
    BY <1>4 DEF Cancel
<1>5. CASE ReuseCachedEgress
    BY <1>5 DEF ReuseCachedEgress, Publishes, Goes
<1>6. CASE FindListening
    BY <1>6 DEF FindListening, Moves, Goes
<1>7. CASE SpawnLocalProxy
    BY <1>7 DEF SpawnLocalProxy, Moves, Goes, Skips, StartFails, Ends
<1>8. CASE LaunchTimesOut
    BY <1>8 DEF LaunchTimesOut, Skips, StartFails, Moves, Goes, Ends
<1>9. CASE LaunchOpens
    BY <1>9 DEF LaunchOpens, Moves, Goes
<1>10. CASE ProbeFlows
    BY <1>10 DEF ProbeFlows, Publishes, Goes
<1>11. CASE ProbeFails
    BY <1>11 DEF ProbeFails, Skips, StartFails, Moves, Goes, Ends
<1>12. CASE TunnelStarts
    BY <1>12 DEF TunnelStarts, Publishes, Goes
<1>13. CASE TunnelFails
    BY <1>13 DEF TunnelFails, StartFails, Moves, Goes, Ends
<1>14. CASE PrepareRuntime
    BY <1>14 DEF PrepareRuntime, Goes
<1>15. CASE ValidateRuntime
    BY <1>15 DEF ValidateRuntime, Moves, Goes
<1>16. CASE ValidationFails
    BY <1>16 DEF ValidationFails, ApplyFails, StartFails, Moves, Goes, Ends
<1>17. CASE StartCore
    BY <1>17 DEF StartCore, ApplyFails, StartFails, Moves, Goes, Ends
<1>18. CASE ReloadCore
    BY <1>18 DEF ReloadCore, ApplyFails, Moves, Goes, Ends
<1>19. CASE CheckReadiness
    BY <1>19 DEF CheckReadiness, StartFails, Moves, Goes, Ends
<1>20. CASE StopCore
    BY <1>20 DEF StopCore, Moves, Goes
<1>21. CASE StopUserProxy
    BY <1>21 DEF StopUserProxy, Moves, Goes
<1>22. CASE BeginCleanup
    BY <1>22 DEF BeginCleanup, Moves, Goes
<1>23. CASE CleanupOwnedState
    BY <1>23 DEF CleanupOwnedState, Ends, Forget
<1>24. CASE CleanupFails
    BY <1>24 DEF CleanupFails, Ends
<1>25. CASE ApplyProbes
    BY <1>25 DEF ApplyProbes
<1>26. CASE RecoverStep("apply")
    BY <1>26 DEF RecoverStep, Recovered, NotRecovered, Continues, Moves, Goes
<1>27. CASE ApplyRecovered
    BY <1>27 DEF ApplyRecovered, Moves, Goes
<1>28. CASE ApplyTimesOut
    BY <1>28 DEF ApplyTimesOut, ApplyFails, Ends
<1>29. CASE AskRecover
    BY <1>29 DEF AskRecover
<1>30. CASE TickProbes
    BY <1>30 DEF TickProbes
<1>31. CASE RecoverStep("health")
    BY <1>31 DEF RecoverStep, Recovered, NotRecovered, Continues
<1>32. CASE CommandStep
    BY <1>32 DEF CommandStep, AskCommand, ConnectSideTunnel, SideTunnelStarts, SideTunnelFails, PublishSideTunnel, AskDisconnect, DisconnectSideTunnel, ForgetSideTunnel
<1>33. CASE AbandonedStartEnds
    BY <1>33 DEF AbandonedStartEnds
<1>34. CASE ProxyChanges
    BY <1>34 DEF ProxyChanges
<1>35. CASE TunnelDies
    BY <1>35 DEF TunnelDies
<1>36. CASE CoreDies
    BY <1>36 DEF CoreDies
<1>37. CASE UNCHANGED backendVars
    BY <1>37 DEF backendVars
<1> QED
    BY <1>1, <1>2, <1>3, <1>4, <1>5, <1>6, <1>7, <1>8, <1>9, <1>10, <1>11, <1>12,
       <1>13, <1>14, <1>15, <1>16, <1>17, <1>18, <1>19, <1>20, <1>21, <1>22, <1>23, <1>24,
       <1>25, <1>26, <1>27, <1>28, <1>29, <1>30, <1>31, <1>32, <1>33, <1>34, <1>35, <1>36,
       <1>37
    DEF BackendNext, LockStep, EnsureStep, CoreStep, StopStep

LEMMA InitRefines == BackendInit => Contract!ContractInit
BY DEF BackendInit, Contract!ContractInit

\* Theorem: on every platform the backend implements StackContract.
THEOREM BackendImplementsContract == BackendSpec => KeepsStackContract
<1>1. LockInv /\ [BackendNext]_backendVars => LockInv'
    BY LockInvStep
<1>2. LockInv /\ [BackendNext]_backendVars => [Contract!ContractNext]_Contract!contractVars
    BY StepRefines
<1> QED
    BY InitLockInv, InitRefines, <1>1, <1>2, PTL
    DEF BackendSpec, KeepsStackContract, Contract!ContractSpec

\* What is staged between mihomo -t and the start has passed it.
ValidInv == core.unique /\ validated.unique /\ (at = "core" => prepared.unique)

LEMMA InitValidInv == BackendInit => ValidInv
BY DEF BackendInit, ValidInv, NoGeneration

LEMMA ValidInvStep ==
    ASSUME ValidInv, [BackendNext]_backendVars
    PROVE  ValidInv'
<1> USE DEF ValidInv, NoGeneration, world, egress, generations, lock, tasks
<1>1. CASE BeginStart
    BY <1>1 DEF BeginStart
<1>2. CASE BeginApply
    BY <1>2 DEF BeginApply
<1>3. CASE BeginStop
    BY <1>3 DEF BeginStop
<1>4. CASE Cancel
    BY <1>4 DEF Cancel
<1>5. CASE ReuseCachedEgress
    BY <1>5 DEF ReuseCachedEgress, Publishes, Goes
<1>6. CASE FindListening
    BY <1>6 DEF FindListening, Moves, Goes
<1>7. CASE SpawnLocalProxy
    BY <1>7 DEF SpawnLocalProxy, Moves, Goes, Skips, StartFails, Ends
<1>8. CASE LaunchTimesOut
    BY <1>8 DEF LaunchTimesOut, Skips, StartFails, Moves, Goes, Ends
<1>9. CASE LaunchOpens
    BY <1>9 DEF LaunchOpens, Moves, Goes
<1>10. CASE ProbeFlows
    BY <1>10 DEF ProbeFlows, Publishes, Goes
<1>11. CASE ProbeFails
    BY <1>11 DEF ProbeFails, Skips, StartFails, Moves, Goes, Ends
<1>12. CASE TunnelStarts
    BY <1>12 DEF TunnelStarts, Publishes, Goes
<1>13. CASE TunnelFails
    BY <1>13 DEF TunnelFails, StartFails, Moves, Goes, Ends
<1>14. CASE PrepareRuntime
    BY <1>14 DEF PrepareRuntime, Goes
<1>15. CASE ValidateRuntime
    BY <1>15 DEF ValidateRuntime, Moves, Goes
<1>16. CASE ValidationFails
    BY <1>16 DEF ValidationFails, ApplyFails, StartFails, Moves, Goes, Ends
<1>17. CASE StartCore
    BY <1>17 DEF StartCore, ApplyFails, StartFails, Moves, Goes, Ends
<1>18. CASE ReloadCore
    BY <1>18 DEF ReloadCore, ApplyFails, Moves, Goes, Ends
<1>19. CASE CheckReadiness
    BY <1>19 DEF CheckReadiness, StartFails, Moves, Goes, Ends
<1>20. CASE StopCore
    BY <1>20 DEF StopCore, Moves, Goes
<1>21. CASE StopUserProxy
    BY <1>21 DEF StopUserProxy, Moves, Goes
<1>22. CASE BeginCleanup
    BY <1>22 DEF BeginCleanup, Moves, Goes
<1>23. CASE CleanupOwnedState
    BY <1>23 DEF CleanupOwnedState, Ends, Forget
<1>24. CASE CleanupFails
    BY <1>24 DEF CleanupFails, Ends
<1>25. CASE ApplyProbes
    BY <1>25 DEF ApplyProbes
<1>26. CASE RecoverStep("apply")
    BY <1>26 DEF RecoverStep, Recovered, NotRecovered, Continues, Moves, Goes
<1>27. CASE ApplyRecovered
    BY <1>27 DEF ApplyRecovered, Moves, Goes
<1>28. CASE ApplyTimesOut
    BY <1>28 DEF ApplyTimesOut, ApplyFails, Ends
<1>29. CASE AskRecover
    BY <1>29 DEF AskRecover
<1>30. CASE TickProbes
    BY <1>30 DEF TickProbes
<1>31. CASE RecoverStep("health")
    BY <1>31 DEF RecoverStep, Recovered, NotRecovered, Continues
<1>32. CASE CommandStep
    BY <1>32 DEF CommandStep, AskCommand, ConnectSideTunnel, SideTunnelStarts, SideTunnelFails, PublishSideTunnel, AskDisconnect, DisconnectSideTunnel, ForgetSideTunnel
<1>33. CASE AbandonedStartEnds
    BY <1>33 DEF AbandonedStartEnds
<1>34. CASE ProxyChanges
    BY <1>34 DEF ProxyChanges
<1>35. CASE TunnelDies
    BY <1>35 DEF TunnelDies
<1>36. CASE CoreDies
    BY <1>36 DEF CoreDies
<1>37. CASE UNCHANGED backendVars
    BY <1>37 DEF backendVars
<1> QED
    BY <1>1, <1>2, <1>3, <1>4, <1>5, <1>6, <1>7, <1>8, <1>9, <1>10, <1>11, <1>12,
       <1>13, <1>14, <1>15, <1>16, <1>17, <1>18, <1>19, <1>20, <1>21, <1>22, <1>23, <1>24,
       <1>25, <1>26, <1>27, <1>28, <1>29, <1>30, <1>31, <1>32, <1>33, <1>34, <1>35, <1>36,
       <1>37
    DEF BackendNext, LockStep, EnsureStep, CoreStep, StopStep

\* Theorem: Mihomo never runs a generation that mihomo -t would refuse.
THEOREM CoreValid == BackendSpec => []CoreRunsValidConfig
<1>1. ValidInv /\ [BackendNext]_backendVars => ValidInv'
    BY ValidInvStep
<1>2. ValidInv => CoreRunsValidConfig
    BY DEF ValidInv, CoreRunsValidConfig
<1> QED
    BY InitValidInv, <1>1, <1>2, PTL DEF BackendSpec

-----------------------------------------------------------------------------
(* What the handles promise.                                                *)

\* The types of all variables; an undo is no start.
TypeInv ==
    /\ default \in Defaults /\ port \in {"off", "open", "flows"} /\ tunnel \in {"off", "up", "dead"}
    /\ core \in Configs /\ prepared \in Configs /\ validated \in Configs
    /\ handles \in [Egresses -> 0..MaxHandles] /\ fresh \in SUBSET Egresses
    /\ op \in {"start", "resume", "apply", "stop", "pause"} /\ ends \in {"stopped", "error", "paused"}
    /\ at \in StartPlaces => op \in {"start", "resume", "apply"}
    /\ command \in {"none", "asked", "dialing", "up", "detaching", "detached"}
    /\ recovering \in [Recoverers -> {"no", "asked", "probing"}]

Flags == /\ proved \in BOOLEAN /\ exit \in BOOLEAN /\ auth \in BOOLEAN
         /\ abandoned \in BOOLEAN /\ raced \in BOOLEAN

\* A start that has come to one of the places.
Starting(places) == op \in {"start", "resume"} /\ at \in places
PastTunnel == {"prepare", "validate", "core", "ready"}
PastProxy == {"dialing"} \union PastTunnel

\* The handles of this connect: those that are published so far.
FreshSoFar ==
    /\ at = "idle" \/ Starting({"proxy", "launch", "probe"}) => fresh = {}
    /\ Starting({"dialing"}) => fresh \subseteq {"proxy"}
    /\ Starting(PastProxy) /\ default = "proxy" => "proxy" \in fresh

\* A default proxy keeps its handle and its probe from the moment it was found,
\* through every apply, recovery and command.
ProxyIsHeld ==
    default = "proxy" /\ (stack = "connected" \/ Starting(PastProxy)) =>
        exit /\ handles["proxy"] > 0

\* So it is the default of what is generated, and of what Mihomo runs.
ProxyIsPrepared ==
    default = "proxy" =>
        /\ at \in {"validate", "core", "ready"} => prepared.match = "proxy"
        /\ (stack = "connected" \/ Starting({"ready"})) /\ core # NoGeneration => core.match = "proxy"

\* The history records all that can bring a tunnel up or down beside the lock.
RacesAreSeen == command # "none" \/ abandoned => raced
TunnelIsBacked ==
    handles["tunnel"] > 0 /\ ~raced /\ (stack = "connected" \/ Starting(PastTunnel)) =>
        tunnel # "off" /\ auth
StoppedIsOff == stack = "stopped" => tunnel = "off" \/ raced

HandleInv ==
    /\ LockInv /\ TypeInv /\ FreshSoFar /\ ProxyIsHeld /\ ProxyIsPrepared /\ RacesAreSeen
    /\ TunnelIsBacked /\ StoppedIsOff

\* The initial states.
LEMMA InitHandleInv == BackendInit => HandleInv /\ Flags
<1> SUFFICES ASSUME BackendInit PROVE HandleInv /\ Flags
    OBVIOUS
<1>1. LockInv
    BY InitLockInv
<1>2. TypeInv
    BY DEF BackendInit, TypeInv, Configs, NoGeneration, MaxHandles, StartPlaces
<1>3. FreshSoFar /\ ProxyIsHeld /\ ProxyIsPrepared /\ RacesAreSeen /\ TunnelIsBacked /\ StoppedIsOff
    BY DEF BackendInit, FreshSoFar, ProxyIsHeld, ProxyIsPrepared, RacesAreSeen, TunnelIsBacked,
       StoppedIsOff, Starting, PastProxy, PastTunnel
<1>4. Flags
    BY DEF BackendInit, Flags
<1> QED
    BY <1>1, <1>2, <1>3, <1>4 DEF HandleInv

\* A generation is one of the configurations.
LEMMA PreparedIsConfig ==
    ASSUME default \in Defaults, NEW u \in BOOLEAN
    PROVE  [match |-> MatchOf(Ready), unique |-> u] \in Configs
BY DEF MatchOf, Configs, Defaults, Egresses

\* One more handle, as far as they are told apart.
LEMMA PushHandles ==
    ASSUME handles \in [Egresses -> 0..MaxHandles], NEW c \in Egresses
    PROVE  /\ Push(c) \in [Egresses -> 0..MaxHandles] /\ Push(c)[c] > 0
           /\ \A e \in Egresses : e # c => Push(c)[e] = handles[e]
BY DEF Push, AtMost, MaxHandles

\* Every step keeps the types.
LEMMA TypeStep ==
    ASSUME LockInv, TypeInv, [BackendNext]_backendVars
    PROVE  TypeInv'
<1> USE DEF LockInv, RecoverIsApply, ApplyIsLive, TypeInv, StartPlaces, MaxHandles, world, egress, generations, lock, tasks
<1>a. NoGeneration \in Configs /\ "tunnel" \in Egresses /\ "proxy" \in Egresses
    BY DEF NoGeneration, Configs, Egresses
<1>1. CASE BeginStart
    BY <1>a, <1>1 DEF BeginStart
<1>2. CASE BeginApply
    BY <1>a, <1>2 DEF BeginApply
<1>3. CASE BeginStop
    BY <1>a, <1>3 DEF BeginStop
<1>4. CASE Cancel
    BY <1>a, <1>4 DEF Cancel
<1>5. CASE ReuseCachedEgress
    BY <1>a, <1>5 DEF ReuseCachedEgress, Publishes, Goes, Only
<1>6. CASE FindListening
    BY <1>a, <1>6 DEF FindListening, Moves, Goes
<1>7. CASE SpawnLocalProxy
    BY <1>a, <1>7 DEF SpawnLocalProxy, Moves, Goes, Skips, StartFails, Ends
<1>8. CASE LaunchTimesOut
    BY <1>a, <1>8 DEF LaunchTimesOut, Skips, StartFails, Moves, Goes, Ends
<1>9. CASE LaunchOpens
    BY <1>a, <1>9 DEF LaunchOpens, Moves, Goes
<1>10. CASE ProbeFlows
    BY <1>a, <1>10 DEF ProbeFlows, Publishes, Goes, Only
<1>11. CASE ProbeFails
    BY <1>a, <1>11 DEF ProbeFails, Skips, StartFails, Moves, Goes, Ends
<1>12. CASE TunnelStarts
    BY <1>a, <1>12 DEF TunnelStarts, Publishes, Goes, Only
<1>13. CASE TunnelFails
    BY <1>a, <1>13 DEF TunnelFails, StartFails, Moves, Goes, Ends, Only
<1>14. CASE PrepareRuntime
  <2>1. PICK u \in BOOLEAN : u = (\A c \in Egresses : handles[c] <= 1)
    OBVIOUS
  <2>2. prepared' = [match |-> MatchOf(Ready), unique |-> u]
    BY <1>14, <2>1 DEF PrepareRuntime
  <2>3. prepared' \in Configs
    BY <2>2, PreparedIsConfig
  <2> QED
    BY <1>14, <2>3 DEF PrepareRuntime, Goes
<1>15. CASE ValidateRuntime
    BY <1>a, <1>15 DEF ValidateRuntime, Moves, Goes
<1>16. CASE ValidationFails
    BY <1>a, <1>16 DEF ValidationFails, ApplyFails, StartFails, Moves, Goes, Ends
<1>17. CASE StartCore
    BY <1>a, <1>17 DEF StartCore, ApplyFails, StartFails, Moves, Goes, Ends
<1>18. CASE ReloadCore
    BY <1>a, <1>18 DEF ReloadCore, ApplyFails, Moves, Goes, Ends
<1>19. CASE CheckReadiness
    BY <1>a, <1>19 DEF CheckReadiness, StartFails, Moves, Goes, Ends
<1>20. CASE StopCore
    BY <1>a, <1>20 DEF StopCore, Moves, Goes
<1>21. CASE StopUserProxy
    BY <1>a, <1>21 DEF StopUserProxy, Moves, Goes
<1>22. CASE BeginCleanup
    BY <1>a, <1>22 DEF BeginCleanup, Moves, Goes
<1>23. CASE CleanupOwnedState
    BY <1>a, <1>23 DEF CleanupOwnedState, Ends, Forget, Only
<1>24. CASE CleanupFails
    BY <1>a, <1>24 DEF CleanupFails, Ends
<1>25. CASE ApplyProbes
    BY <1>a, <1>25 DEF ApplyProbes
<1>26. CASE RecoverStep("apply")
    BY <1>a, <1>26 DEF RecoverStep, Recovered, NotRecovered, Continues, Moves, Goes, Push, AtMost
<1>27. CASE ApplyRecovered
    BY <1>a, <1>27 DEF ApplyRecovered, Moves, Goes
<1>28. CASE ApplyTimesOut
    BY <1>a, <1>28 DEF ApplyTimesOut, ApplyFails, Ends
<1>29. CASE AskRecover
    BY <1>a, <1>29 DEF AskRecover
<1>30. CASE TickProbes
    BY <1>a, <1>30 DEF TickProbes
<1>31. CASE RecoverStep("health")
    BY <1>a, <1>31 DEF RecoverStep, Recovered, NotRecovered, Continues, Push, AtMost
<1>32. CASE CommandStep
  <2>1. Push("tunnel") \in [Egresses -> 0..MaxHandles]
    BY <1>a, PushHandles
  <2>2. CASE PublishSideTunnel
    BY <2>1, <2>2 DEF PublishSideTunnel
  <2>3. CASE ConnectSideTunnel
    BY <1>a, <2>3 DEF ConnectSideTunnel
  <2>4. CASE ForgetSideTunnel
    BY <1>a, <2>4 DEF ForgetSideTunnel
  <2>5. CASE AskCommand \/ SideTunnelStarts \/ SideTunnelFails \/ AskDisconnect \/ DisconnectSideTunnel
    BY <2>5 DEF AskCommand, SideTunnelStarts, SideTunnelFails, AskDisconnect, DisconnectSideTunnel
  <2> QED
    BY <1>32, <2>2, <2>3, <2>4, <2>5 DEF CommandStep
<1>33. CASE AbandonedStartEnds
    BY <1>a, <1>33 DEF AbandonedStartEnds
<1>34. CASE ProxyChanges
    BY <1>a, <1>34 DEF ProxyChanges
<1>35. CASE TunnelDies
    BY <1>a, <1>35 DEF TunnelDies
<1>36. CASE CoreDies
    BY <1>a, <1>36 DEF CoreDies
<1>37. CASE UNCHANGED backendVars
    BY <1>a, <1>37 DEF backendVars
<1> QED
    BY <1>1, <1>2, <1>3, <1>4, <1>5, <1>6, <1>7, <1>8, <1>9, <1>10, <1>11, <1>12,
       <1>13, <1>14, <1>15, <1>16, <1>17, <1>18, <1>19, <1>20, <1>21, <1>22, <1>23, <1>24,
       <1>25, <1>26, <1>27, <1>28, <1>29, <1>30, <1>31, <1>32, <1>33, <1>34, <1>35, <1>36,
       <1>37
    DEF BackendNext, LockStep, EnsureStep, CoreStep, StopStep

\* Every step keeps the promises.
LEMMA HandleStep ==
    ASSUME HandleInv, [BackendNext]_backendVars
    PROVE  FreshSoFar' /\ ProxyIsHeld' /\ ProxyIsPrepared' /\ RacesAreSeen' /\ TunnelIsBacked' /\ StoppedIsOff'
<1> USE DEF HandleInv, LockInv, LockTypes, IdleIsSettled, WorkIsShown, ApplyIsLive, StartEndsBadly, UndoEnds,
            RecoverIsApply, StartPlaces, UndoPlaces, Contract!Settled, TypeInv, FreshSoFar, ProxyIsHeld,
            ProxyIsPrepared, RacesAreSeen, TunnelIsBacked, StoppedIsOff, Starting, PastProxy, PastTunnel,
            Egresses, MaxHandles, world, egress, generations, lock, tasks
<1>1. CASE BeginStart
    BY <1>1 DEF BeginStart
<1>2. CASE BeginApply
    BY <1>2 DEF BeginApply
<1>3. CASE BeginStop
    BY <1>3 DEF BeginStop
<1>4. CASE Cancel
    BY <1>4 DEF Cancel
<1>5. CASE ReuseCachedEgress
  <2>1. default = "proxy" => exit'
    BY <1>5 DEF ReuseCachedEgress, Required
  <2> QED
    BY <1>5, <2>1 DEF ReuseCachedEgress, Publishes, Goes, Only
<1>6. CASE FindListening
    BY <1>6 DEF FindListening, Moves, Goes
<1>7. CASE SpawnLocalProxy
    BY <1>7 DEF SpawnLocalProxy, Moves, Goes, Skips, StartFails, Ends, Required
<1>8. CASE LaunchTimesOut
    BY <1>8 DEF LaunchTimesOut, Skips, StartFails, Moves, Goes, Ends, Required
<1>9. CASE LaunchOpens
    BY <1>9 DEF LaunchOpens, Moves, Goes
<1>10. CASE ProbeFlows
  <2>1. default = "proxy" => exit'
    BY <1>10 DEF ProbeFlows, Required
  <2> QED
    BY <1>10, <2>1 DEF ProbeFlows, Publishes, Goes, Only
<1>11. CASE ProbeFails
    BY <1>11 DEF ProbeFails, Skips, StartFails, Moves, Goes, Ends, Required
<1>12. CASE TunnelStarts
    BY <1>12 DEF TunnelStarts, Publishes, Goes, Only
<1>13. CASE TunnelFails
    BY <1>13 DEF TunnelFails, StartFails, Moves, Goes, Ends, Only, Required
<1>14. CASE PrepareRuntime
    BY <1>14 DEF PrepareRuntime, Goes, MatchOf, Ready
<1>15. CASE ValidateRuntime
    BY <1>15 DEF ValidateRuntime, Moves, Goes
<1>16. CASE ValidationFails
    BY <1>16 DEF ValidationFails, ApplyFails, StartFails, Moves, Goes, Ends
<1>17. CASE StartCore
    BY <1>17 DEF StartCore, ApplyFails, StartFails, Moves, Goes, Ends
<1>18. CASE ReloadCore
    BY <1>18 DEF ReloadCore, ApplyFails, Moves, Goes, Ends
<1>19. CASE CheckReadiness
    BY <1>19 DEF CheckReadiness, StartFails, Moves, Goes, Ends, Required
<1>20. CASE StopCore
    BY <1>20 DEF StopCore, Moves, Goes
<1>21. CASE StopUserProxy
    BY <1>21 DEF StopUserProxy, Moves, Goes
<1>22. CASE BeginCleanup
    BY <1>22 DEF BeginCleanup, Moves, Goes
<1>23. CASE CleanupOwnedState
    BY <1>23 DEF CleanupOwnedState, Ends, Forget, Only
<1>24. CASE CleanupFails
    BY <1>24 DEF CleanupFails, Ends
<1>25. CASE ApplyProbes
    BY <1>25 DEF ApplyProbes
<1>26. CASE RecoverStep("apply")
  <2>1. CASE NotRecovered("apply")
    BY <2>1 DEF NotRecovered, Continues, Moves, Goes
  <2>2. CASE Recovered("apply")
    <3>1. default = "proxy" => exit'
      BY <2>2 DEF Recovered, Required
    <3>2. handles'["proxy"] > 0 /\ handles'["tunnel"] = handles["tunnel"]
      BY <2>2, PushHandles DEF Recovered
    <3> QED
      BY <2>2, <3>1, <3>2 DEF Recovered, Continues, Moves, Goes
  <2> QED
    BY <1>26, <2>1, <2>2 DEF RecoverStep
<1>27. CASE ApplyRecovered
    BY <1>27 DEF ApplyRecovered, Moves, Goes
<1>28. CASE ApplyTimesOut
    BY <1>28 DEF ApplyTimesOut, ApplyFails, Ends
<1>29. CASE AskRecover
    BY <1>29 DEF AskRecover
<1>30. CASE TickProbes
    BY <1>30 DEF TickProbes
<1>31. CASE RecoverStep("health")
  <2>1. CASE NotRecovered("health")
    BY <2>1 DEF NotRecovered, Continues
  <2>2. CASE Recovered("health")
    <3>1. default = "proxy" => exit'
      BY <2>2 DEF Recovered, Required
    <3>2. handles'["proxy"] > 0 /\ handles'["tunnel"] = handles["tunnel"]
      BY <2>2, PushHandles DEF Recovered
    <3> QED
      BY <2>2, <3>1, <3>2 DEF Recovered, Continues
  <2> QED
    BY <1>31, <2>1, <2>2 DEF RecoverStep
<1>32. CASE CommandStep
    BY <1>32 DEF CommandStep, AskCommand, ConnectSideTunnel, SideTunnelStarts, SideTunnelFails, PublishSideTunnel, AskDisconnect, DisconnectSideTunnel, ForgetSideTunnel, Push, AtMost
<1>33. CASE AbandonedStartEnds
    BY <1>33 DEF AbandonedStartEnds
<1>34. CASE ProxyChanges
    BY <1>34 DEF ProxyChanges
<1>35. CASE TunnelDies
    BY <1>35 DEF TunnelDies
<1>36. CASE CoreDies
    BY <1>36 DEF CoreDies
<1>37. CASE UNCHANGED backendVars
    BY <1>37 DEF backendVars
<1> QED
    BY <1>1, <1>2, <1>3, <1>4, <1>5, <1>6, <1>7, <1>8, <1>9, <1>10, <1>11, <1>12,
       <1>13, <1>14, <1>15, <1>16, <1>17, <1>18, <1>19, <1>20, <1>21, <1>22, <1>23, <1>24,
       <1>25, <1>26, <1>27, <1>28, <1>29, <1>30, <1>31, <1>32, <1>33, <1>34, <1>35, <1>36,
       <1>37
    DEF BackendNext, LockStep, EnsureStep, CoreStep, StopStep

\* Every step keeps the flags.
LEMMA FlagsStep ==
    ASSUME Flags, [BackendNext]_backendVars
    PROVE  Flags'
<1> USE DEF world, egress, generations, lock, tasks
<1>a. (exit \/ Required("proxy")) \in BOOLEAN /\ (command # "none" \/ abandoned) \in BOOLEAN
      /\ (abandoned \/ at = "dialing") \in BOOLEAN /\ (raced \/ at = "dialing") \in BOOLEAN
    OBVIOUS
<1>1. CASE BeginStart
    BY <1>a, <1>1 DEF Flags, BeginStart
<1>2. CASE BeginApply
    BY <1>a, <1>2 DEF Flags, BeginApply
<1>3. CASE BeginStop
    BY <1>a, <1>3 DEF Flags, BeginStop
<1>4. CASE Cancel
    BY <1>a, <1>4 DEF Flags, Cancel
<1>5. CASE ReuseCachedEgress
    BY <1>a, <1>5 DEF Flags, ReuseCachedEgress, Publishes, Goes, Only
<1>6. CASE FindListening
    BY <1>a, <1>6 DEF Flags, FindListening, Moves, Goes
<1>7. CASE SpawnLocalProxy
    BY <1>a, <1>7 DEF Flags, SpawnLocalProxy, Moves, Goes, Skips, StartFails, Ends
<1>8. CASE LaunchTimesOut
    BY <1>a, <1>8 DEF Flags, LaunchTimesOut, Skips, StartFails, Moves, Goes, Ends
<1>9. CASE LaunchOpens
    BY <1>a, <1>9 DEF Flags, LaunchOpens, Moves, Goes
<1>10. CASE ProbeFlows
    BY <1>a, <1>10 DEF Flags, ProbeFlows, Publishes, Goes, Only
<1>11. CASE ProbeFails
    BY <1>a, <1>11 DEF Flags, ProbeFails, Skips, StartFails, Moves, Goes, Ends
<1>12. CASE TunnelStarts
    BY <1>a, <1>12 DEF Flags, TunnelStarts, Publishes, Goes, Only
<1>13. CASE TunnelFails
    BY <1>a, <1>13 DEF Flags, TunnelFails, StartFails, Moves, Goes, Ends, Only
<1>14. CASE PrepareRuntime
    BY <1>a, <1>14 DEF Flags, PrepareRuntime, Goes
<1>15. CASE ValidateRuntime
    BY <1>a, <1>15 DEF Flags, ValidateRuntime, Moves, Goes
<1>16. CASE ValidationFails
    BY <1>a, <1>16 DEF Flags, ValidationFails, ApplyFails, StartFails, Moves, Goes, Ends
<1>17. CASE StartCore
    BY <1>a, <1>17 DEF Flags, StartCore, ApplyFails, StartFails, Moves, Goes, Ends
<1>18. CASE ReloadCore
    BY <1>a, <1>18 DEF Flags, ReloadCore, ApplyFails, Moves, Goes, Ends
<1>19. CASE CheckReadiness
    BY <1>a, <1>19 DEF Flags, CheckReadiness, StartFails, Moves, Goes, Ends
<1>20. CASE StopCore
    BY <1>a, <1>20 DEF Flags, StopCore, Moves, Goes
<1>21. CASE StopUserProxy
    BY <1>a, <1>21 DEF Flags, StopUserProxy, Moves, Goes
<1>22. CASE BeginCleanup
    BY <1>a, <1>22 DEF Flags, BeginCleanup, Moves, Goes
<1>23. CASE CleanupOwnedState
    BY <1>a, <1>23 DEF Flags, CleanupOwnedState, Ends, Forget, Only
<1>24. CASE CleanupFails
    BY <1>a, <1>24 DEF Flags, CleanupFails, Ends
<1>25. CASE ApplyProbes
    BY <1>a, <1>25 DEF Flags, ApplyProbes
<1>26. CASE RecoverStep("apply")
    BY <1>a, <1>26 DEF Flags, RecoverStep, Recovered, NotRecovered, Continues, Moves, Goes, Push, AtMost
<1>27. CASE ApplyRecovered
    BY <1>a, <1>27 DEF Flags, ApplyRecovered, Moves, Goes
<1>28. CASE ApplyTimesOut
    BY <1>a, <1>28 DEF Flags, ApplyTimesOut, ApplyFails, Ends
<1>29. CASE AskRecover
    BY <1>a, <1>29 DEF Flags, AskRecover
<1>30. CASE TickProbes
    BY <1>a, <1>30 DEF Flags, TickProbes
<1>31. CASE RecoverStep("health")
    BY <1>a, <1>31 DEF Flags, RecoverStep, Recovered, NotRecovered, Continues, Push, AtMost
<1>32. CASE CommandStep
    BY <1>a, <1>32 DEF Flags, CommandStep, AskCommand, ConnectSideTunnel, SideTunnelStarts, SideTunnelFails, PublishSideTunnel, AskDisconnect, DisconnectSideTunnel, ForgetSideTunnel, Push, AtMost
<1>33. CASE AbandonedStartEnds
    BY <1>a, <1>33 DEF Flags, AbandonedStartEnds
<1>34. CASE ProxyChanges
    BY <1>a, <1>34 DEF Flags, ProxyChanges
<1>35. CASE TunnelDies
    BY <1>a, <1>35 DEF Flags, TunnelDies
<1>36. CASE CoreDies
    BY <1>a, <1>36 DEF Flags, CoreDies
<1>37. CASE UNCHANGED backendVars
    BY <1>a, <1>37 DEF Flags, backendVars
<1> QED
    BY <1>1, <1>2, <1>3, <1>4, <1>5, <1>6, <1>7, <1>8, <1>9, <1>10, <1>11, <1>12,
       <1>13, <1>14, <1>15, <1>16, <1>17, <1>18, <1>19, <1>20, <1>21, <1>22, <1>23, <1>24,
       <1>25, <1>26, <1>27, <1>28, <1>29, <1>30, <1>31, <1>32, <1>33, <1>34, <1>35, <1>36,
       <1>37
    DEF BackendNext, LockStep, EnsureStep, CoreStep, StopStep

\* What the run checks follows.
LEMMA HandleInvIsEnough ==
    ASSUME HandleInv, Flags
    PROVE  BackendInvariant
<1>1. /\ LockTypes /\ GenerationIsPrepared /\ TypeInv /\ StoppedIsDown /\ TunnelIsBacked
      /\ ProxyIsHeld /\ ProxyIsPrepared /\ StoppedIsOff
    BY DEF HandleInv, LockInv
<1>2. {proved, exit, auth, abandoned, raced} \subseteq BOOLEAN
    BY DEF Flags
<1>3. BackendTypeOK
    BY <1>1, <1>2 DEF LockTypes, GenerationIsPrepared, TypeInv, BackendTypeOK, StartPlaces, UndoPlaces,
       Places, Contract!Settled
<1>4. HandlesAreBacked
    BY <1>1 DEF TunnelIsBacked, HandlesAreBacked
<1>5. StoppedStackIsDown
    BY <1>1 DEF StoppedIsDown, StoppedIsOff, StoppedStackIsDown
<1>6. DefaultProxyStaysRouted
    BY <1>1 DEF ProxyIsHeld, ProxyIsPrepared, DefaultProxyStaysRouted
<1> QED
    BY <1>3, <1>4, <1>5, <1>6 DEF BackendInvariant

\* On every platform, through every interleaving of the operations with the
\* health task and a command: unmatched traffic keeps going to the default proxy
\* while the stack is connected, a tunnel's handle has its process and its
\* credentials, and nothing of a stopped stack runs, but for the races that the
\* history records.
THEOREM BackendInvariantHolds == BackendSpec => []BackendInvariant
<1>1. HandleInv /\ [BackendNext]_backendVars => HandleInv'
    BY LockInvStep, TypeStep, HandleStep DEF HandleInv
<1>2. Flags /\ [BackendNext]_backendVars => Flags'
    BY FlagsStep
<1>3. HandleInv /\ Flags => BackendInvariant
    BY HandleInvIsEnough
<1> QED
    BY InitHandleInv, <1>1, <1>2, <1>3, PTL DEF BackendSpec

-----------------------------------------------------------------------------
(* Provision.                                                              *)

AllSteps == DesktopSteps \union ElevatedSteps \union {"none"}

\* The steps of an installation are those of its kind.
StepsFit(i) ==
    /\ Linux => step[i] # "stop"
    /\ ~Linux => step[i] \notin {"verifySource", "verifyInstalled"}
    /\ kind = "deb" => step[i] \notin {"installHelper", "installMihomo"}
    /\ kind = "macos" /\ Busy(i) => i \in staging
    /\ step[i] = "wait" => i \in waiting
    /\ i \in waiting => Busy(i)
ReleasesFit ==
    /\ current <= packaged
    /\ kind # "deb" => current = packaged /\ ~unpacked
    /\ kind = "deb" => root.helper = packaged /\ root.mihomo = packaged
    /\ kind \in {"deb", "windows"} => staging = {}
    /\ Busy("setup") => kind = "windows"
    /\ "connect" \in waiting => connect = "prepares" /\ needs # <<>> /\ Head(needs) = "helper"
Base == ProvisionTypeOK /\ ReleasesFit /\ \A i \in Installers : StepsFit(i)

\* Of the copies and of what is installed, no helper is older than the package.
Fresh == payload.helper \in {Missing, Torn, packaged}
Installed == root.helper \in {Torn, packaged}
Renewed ==
    /\ service.helper \in {Missing} \union current..packaged
    /\ kind = "macos" => Fresh /\ Installed
    /\ kind = "windows" => root.helper = packaged
NeedsHelper == needs \notin {<<>>, <<"mihomo">>}

\* A connect goes on with a helper that has been renewed since the application
\* started, or was not older.
ConnectRenews ==
    "connect" \in waiting =>
        /\ kind = "macos" /\ step["connect"] # "clear" => Fresh
        /\ kind = "macos" /\ step["connect"] \in {"installMihomo", "writeToml", "stop"} => Installed
        /\ kind = "windows" /\ step["connect"] \in {"installMihomo", "writeToml", "restart"} => Renewed
        /\ kind = "macos" /\ step["connect"] = "restart" => Renewed
        /\ step["connect"] = "wait" => Renewed
Placed ==
    /\ kind = "windows" /\ service # NoHelper => service.helper = root.helper
    /\ kind = "macos" =>
          /\ {root.helper, service.helper, payload.helper} \subseteq {Missing, Torn} \union 1..packaged
          /\ root.helper = packaged => Fresh
          /\ service.helper = packaged => Fresh /\ Installed
Promised ==
    /\ seen = current => Renewed
    /\ connect = "prepared" => Renewed
    /\ connect = "prepares" /\ ~NeedsHelper => Renewed
    /\ ConnectRenews
HelpersFit == Placed /\ (kind # "appimage" => Promised)

\* The digest that the helper is given is that of the Mihomo beside it.
DigestFits ==
    root.toml # Missing /\ (unpacked \/ (root.toml = root.mihomo /\ root.mihomo \in Whole))
Serves == unpacked \/ service = NoHelper \/ service.digest = root.mihomo
FilesFit(i) ==
    /\ i \in staging /\ step[i] \in {"verifyCopies", "prompt", "verifySource", "installHelper", "installMihomo"}
          => payload.mihomo # Torn
    /\ kind = "macos" /\ step[i] \in {"prompt", "installHelper", "installMihomo", "writeToml"}
          => payload.toml = payload.mihomo /\ payload.mihomo \in Whole
    /\ kind = "macos" /\ step[i] = "writeToml" => root.mihomo = payload.mihomo
    /\ Linux /\ Busy(i) => originals[i].mihomo \in Whole
    /\ kind = "windows" /\ step[i] = "writeToml" => root.mihomo \in Whole
    /\ step[i] = "verifyInstalled" =>
          root.toml # Missing /\ (unpacked \/ root.toml \in {originals[i].mihomo, root.mihomo})
    /\ step[i] \in {"restart", "wait"} \/ (kind = "macos" /\ step[i] = "stop") => DigestFits
    /\ step[i] = "wait" => Serves
Alone == \A i, j \in Installers : Busy(i) /\ Busy(j) => i = j
RootFits ==
    /\ root.mihomo # Torn
    /\ root.script \/ kind = "deb" => root.mihomo \in Whole
    /\ done # {} => DigestFits /\ Serves
Undisturbed == Alone /\ RootFits /\ \A i \in Installers : FilesFit(i)

ProvisionInv == Base /\ HelpersFit /\ (~disturbed => Undisturbed)

LEMMA Versions ==
    /\ LastVersion \in Nat /\ Missing = 0 /\ Torn = LastVersion + 1 /\ Torn \in Nat
    /\ Missing \notin Whole /\ Torn \notin Whole /\ Missing # Torn
    /\ \A v \in Whole : v \in Nat /\ v # Missing /\ v # Torn
    /\ \A v \in Contents : v \in Nat /\ (v \in Whole \/ v = Missing \/ v = Torn)
BY LastVersionAssumption DEF Missing, Torn, Whole, Contents

LEMMA Installing ==
  ASSUME NEW i \in Installers, NEW s \in AllSteps \ {"none"}, Base, step[i] = s, Proceeds(i)
  PROVE  /\ step'[i] = After(i, s) /\ step' \in [Installers -> AllSteps]
         /\ \A j \in Installers \ {i} : step'[j] = step[j]
<1>1. After(i, s) \in AllSteps
  BY DEF After, Straight, AllSteps, DesktopSteps, ElevatedSteps
<1> QED
  BY <1>1 DEF Proceeds, Base, ProvisionTypeOK, AllSteps

LEMMA ProvisionAtFirst == ProvisionInit => ProvisionInv
<1> SUFFICES ASSUME ProvisionInit PROVE ProvisionInv
  OBVIOUS
<1>1. /\ 1 \in Whole /\ Missing \in Contents /\ 1 \in Contents
  BY LastVersionAssumption DEF Whole, Contents
<1>2. /\ step \in [Installers -> {"none", "stop"}] /\ (kind # "windows" => step = NoStep)
      /\ step["button"] = "none" /\ step["connect"] = "none"
  BY DEF ProvisionInit, SetupInstalls, NoStep, Installers
<1>3. ProvisionTypeOK
  BY <1>1, <1>2 DEF ProvisionInit, ProvisionTypeOK, NoPayload, NoHelper, NoOriginals, DesktopSteps, ElevatedSteps
<1>4. Base
  <2>1. ReleasesFit
    <3>1. kind # "deb" => ~unpacked
      BY Zenon DEF ProvisionInit
    <3>2. kind = "deb" => root.helper = 1 /\ root.mihomo = 1
      BY DEF ProvisionInit
    <3>3. Busy("setup") => kind = "windows"
      BY <1>2 DEF Busy, NoStep, Installers
    <3> QED
      BY <3>1, <3>2, <3>3 DEF ReleasesFit, ProvisionInit
  <2>2. ASSUME NEW i \in Installers PROVE StepsFit(i)
    <3>1. step[i] \in {"none", "stop"} /\ (kind # "windows" => step[i] = "none") /\ waiting = {}
      BY <1>2 DEF NoStep, ProvisionInit
    <3> QED
      BY <3>1 DEF StepsFit, Busy, Linux
  <2> QED
    BY <1>3, <2>1, <2>2 DEF Base
<1>5. HelpersFit
  BY <1>1, <1>3, Versions DEF HelpersFit, Placed, Promised, ConnectRenews, Renewed, Fresh, Installed, ProvisionInit,
     NoHelper, NoPayload
<1>6. Undisturbed
  BY <1>1, <1>2, Versions DEF Undisturbed, Alone, RootFits, FilesFit, ProvisionInit, Busy, Linux, Installers, NoStep, Kinds
<1> QED
  BY <1>4, <1>5, <1>6 DEF ProvisionInv

LEMMA SourceType ==
  ASSUME ProvisionTypeOK, NEW i \in Installers
  PROVE  Source(i).helper \in Contents /\ Source(i).mihomo \in Contents
BY DEF ProvisionTypeOK, Source, Payload, Contents

\* A step of an installation that goes on.
LEMMA GoesOn ==
  ASSUME Base, ProvisionTypeOK', NEW i \in Installers, NEW s \in AllSteps \ {"none", "wait"},
         Doing(i, s), Proceeds(i),
         UNCHANGED <<releaseVars, waiting, staging, connect, needs>>,
         kind = "deb" => root'.helper = root.helper /\ root'.mihomo = root.mihomo
  PROVE  Base'
<1>1. /\ step'[i] = After(i, s) /\ \A j \in Installers \ {i} : step'[j] = step[j]
      /\ step[i] = s /\ StepsFit(i)
  BY Installing DEF Base, Doing
<1>2. UNCHANGED <<kind, current, packaged, unpacked>>
  BY DEF releaseVars
<1>3. StepsFit(i)'
  BY <1>1, <1>2 DEF Base, ReleasesFit, StepsFit, After, Straight, AllSteps, DesktopSteps, ElevatedSteps,
     Linux, Busy, ProvisionTypeOK, Kinds
<1>4. \A j \in Installers \ {i} : StepsFit(j)'
  BY <1>1, <1>2 DEF Base, StepsFit, Linux, Busy
<1>5. ReleasesFit'
  BY <1>1, <1>2 DEF Base, ReleasesFit, Busy, Installers, AllSteps
<1> QED
  BY <1>3, <1>4, <1>5 DEF Base

Needs == {<<>>, <<"helper">>, <<"mihomo">>, <<"helper", "mihomo">>, <<"mihomo", "helper">>}

LEMMA NeedsTails ==
    /\ ProvisionTypeOK <=> ProvisionTypeOK /\ needs \in Needs
    /\ {<<>>} \union {<<a>> : a \in {"helper", "mihomo"}} \union {<<"helper", "mihomo">>, <<"mihomo", "helper">>} = Needs
    /\ Tail(<<"helper">>) = <<>> /\ Tail(<<"mihomo">>) = <<>>
    /\ Tail(<<"helper", "mihomo">>) = <<"mihomo">> /\ Tail(<<"mihomo", "helper">>) = <<"helper">>
    /\ \A n \in Needs : n # <<>> => Tail(n) \in Needs
<1>1. {<<>>} \union {<<a>> : a \in {"helper", "mihomo"}} \union {<<"helper", "mihomo">>, <<"mihomo", "helper">>} = Needs
  BY DEF Needs
<1>2. /\ Tail(<<"helper">>) = <<>> /\ Tail(<<"mihomo">>) = <<>>
      /\ Tail(<<"helper", "mihomo">>) = <<"mihomo">> /\ Tail(<<"mihomo", "helper">>) = <<"helper">>
  OBVIOUS
<1>3. \A n \in Needs : n # <<>> => Tail(n) \in Needs
  BY <1>2 DEF Needs
<1> QED
  BY <1>1, <1>2, <1>3 DEF ProvisionTypeOK

\* Two requirements in a row.
LEMMA Pair ==
  ASSUME NEW x, NEW y PROVE <<x>> \o <<y>> = <<x, y>>
<1> DEFINE t == <<x>> \o <<y>>  u == <<x, y>>
<1>1. t \in Seq({x, y}) /\ Len(t) = 2 /\ t[1] = x /\ t[2] = y
  OBVIOUS
<1>2. u \in Seq({x, y}) /\ Len(u) = 2 /\ u[1] = x /\ u[2] = y
  OBVIOUS
<1> HIDE DEF t, u
<1>3. DOMAIN t = 1..2 /\ DOMAIN u = 1..2 
  BY <1>1, <1>2
<1>4. t = [i \in DOMAIN t |-> t[i]] /\ u = [i \in DOMAIN u |-> u[i]]
  BY <1>1, <1>2
<1>5. t = u
  <2>1. \A i \in 1..2 : i = 1 \/ i = 2
    OBVIOUS
  <2>2. \A i \in 1..2 : t[i] = u[i]
    BY <1>1, <1>2, <2>1
  <2> QED
    BY <1>3, <1>4, <2>2, Zenon
<1> QED
  BY <1>5 DEF t, u

LEMMA RequirementsAre ==
    /\ Requirements \in Needs
    /\ Requirements \in {<<>>, <<"mihomo">>} => seen = current
<1> DEFINE a == IF seen = Missing THEN <<"helper">> ELSE <<>>
           b == IF ~mihomo THEN <<"mihomo">> ELSE <<>>
           c == IF seen \notin {Missing, current} THEN <<"helper">> ELSE <<>>
<1>1. seen = Missing => a \o b \in {<<"helper">>, <<"helper", "mihomo">>} /\ c = <<>>
  <2>1. <<"helper">> \o <<"mihomo">> = <<"helper", "mihomo">> /\ <<"helper">> \o <<>> = <<"helper">>
    BY Pair
  <2> QED
    BY <2>1
<1>2. seen # Missing => a \o b \in {<<>>, <<"mihomo">>}
  OBVIOUS
<1>3. \A n \in Needs : n \o <<>> = n
  BY DEF Needs
<1>4. <<>> \o <<"helper">> = <<"helper">> /\ <<"mihomo">> \o <<"helper">> = <<"mihomo", "helper">>
  BY Pair
<1>5. CASE seen = Missing
  BY <1>1, <1>3, <1>5 DEF Requirements, Needs
<1>6. CASE seen # Missing /\ seen = current
  BY <1>2, <1>3, <1>6 DEF Requirements, Needs
<1>7. CASE seen # Missing /\ seen # current
  <2>1. c = <<"helper">>
    BY <1>7
  <2>2. Requirements \in {<<"helper">>, <<"mihomo", "helper">>}
    BY <1>2, <1>4, <1>7, <2>1 DEF Requirements
  <2> QED
    BY <2>2 DEF Needs
<1> QED
  BY <1>5, <1>6, <1>7

\* The steps that are left when the application ends.
LEMMA Leaving ==
  ASSUME ProvisionTypeOK
  PROVE  /\ LeftElevated \in [Installers -> AllSteps] /\ SetupInstalls(LeftElevated) \in [Installers -> AllSteps]
         /\ \A i \in Installers : /\ LeftElevated[i] \in {step[i], "none"} /\ LeftElevated[i] # "wait"
                                  /\ LeftElevated[i] # "none" => Elevated(i)
         /\ SetupInstalls(LeftElevated)["setup"] = "stop"
         /\ \A i \in Installers \ {"setup"} : SetupInstalls(LeftElevated)[i] = LeftElevated[i]
<1>1. "setup" \in Installers /\ "stop" \in AllSteps
  BY DEF Installers, AllSteps, ElevatedSteps
<1>2. LeftElevated \in [Installers -> AllSteps]
  BY DEF LeftElevated, ProvisionTypeOK, AllSteps
<1> QED
  BY <1>1, <1>2 DEF LeftElevated, SetupInstalls

LEMMA BaseKept == Base /\ [ProvisionNext]_provisionVars => Base'
<1> SUFFICES ASSUME Base, [ProvisionNext]_provisionVars PROVE Base'
  OBVIOUS
<1> USE Versions
<1>0. ProvisionTypeOK /\ ReleasesFit /\ \A i \in Installers : StepsFit(i)
  BY DEF Base
<1>1. ASSUME NEW i \in {"button", "connect"}, Begins(i), UNCHANGED <<needs, connect>>,
             i = "connect" => connect = "prepares" /\ needs # <<>> /\ Head(needs) = "helper"
      PROVE  Base'
  <2>1. /\ UNCHANGED <<kind, current, packaged, unpacked, payload, root, service, seen, mihomo>>
        /\ step' = [step EXCEPT ![i] = FirstStep] /\ waiting' = waiting \union {i}
        /\ staging' = (IF Copies THEN staging \union {i} ELSE staging \ {i}) /\ i \in Installers
    BY <1>1 DEF Begins, releaseVars, filesVars, Installers
  <2>2. FirstStep \in {"clear", "prompt"}
    BY DEF FirstStep
  <2>3. /\ step' \in [Installers -> AllSteps] /\ step'[i] = FirstStep
        /\ \A j \in Installers \ {i} : step'[j] = step[j]
    BY <1>0, <2>1, <2>2 DEF ProvisionTypeOK, AllSteps, DesktopSteps
  <2>4. originals' \in [Installers -> [helper : Contents, mihomo : Contents]]
    BY <1>0, <1>1, <2>1 DEF Begins, ProvisionTypeOK, Payload, Contents
  <2>5. done' \subseteq Installers /\ disturbed' \in BOOLEAN
    BY <1>0, <1>1 DEF Begins, ProvisionTypeOK
  <2>6. ProvisionTypeOK'
    BY <1>0, <1>1, <2>1, <2>3, <2>4, <2>5 DEF ProvisionTypeOK, AllSteps
  <2>7. kind = "macos" => i \in staging'
    BY <2>1 DEF Copies, RunsInPlace
  <2>8. kind \in {"deb", "windows"} => staging' = {}
    BY <1>0, <2>1 DEF ReleasesFit, Copies, RunsInPlace
  <2>9. ReleasesFit'
    BY <1>0, <1>1, <2>1, <2>3, <2>8 DEF ReleasesFit, Busy, Installers
  <2>10. ASSUME NEW j \in Installers PROVE StepsFit(j)'
    BY <1>0, <2>1, <2>2, <2>3, <2>7 DEF StepsFit, Linux, Busy
  <2> QED
    BY <2>6, <2>9, <2>10 DEF Base
<1>2. CASE InstallHelper
  BY <1>2, <1>1 DEF InstallHelper
<1>3. CASE PrepareInstallsHelper
  BY <1>3, <1>1 DEF PrepareInstallsHelper
<1>4. ASSUME NEW i \in Installers, ClearPayload(i) \/ CopyStarts(i) \/ CopyEnds(i) \/ VerifyCopies(i) \/ Prompt(i)
      PROVE  Base'
  <2>1. PICK s \in {"clear", "copyHelper", "endHelper", "copyMihomo", "endMihomo", "verifyCopies", "prompt"} :
           Stages(i, s)
    BY <1>4 DEF ClearPayload, CopyStarts, CopyEnds, VerifyCopies, Prompt
  <2>2. packaged \in Contents /\ Torn \in Contents /\ Missing \in Contents
    BY <1>0 DEF ProvisionTypeOK, Contents
  <2>3. payload' \in [there : BOOLEAN, helper : Contents, mihomo : Contents, toml : Contents]
    <3>1. payload \in [there : BOOLEAN, helper : Contents, mihomo : Contents, toml : Contents]
      BY <1>0 DEF ProvisionTypeOK
    <3>2. CASE ClearPayload(i)
      BY <2>2, <3>2 DEF ClearPayload, NoPayload
    <3>3. CASE CopyStarts(i)
      BY <2>2, <3>1, <3>3 DEF CopyStarts
    <3>4. CASE CopyEnds(i)
      BY <2>2, <3>1, <3>4 DEF CopyEnds, Filled
    <3>5. CASE VerifyCopies(i)
      BY <3>1, <3>5 DEF VerifyCopies
    <3>6. CASE Prompt(i)
      BY <3>1, <3>6 DEF Prompt
    <3> QED
      BY <1>4, <3>2, <3>3, <3>4, <3>5, <3>6
  <2>4. step' \in [Installers -> AllSteps] /\ s \in AllSteps \ {"none", "wait"}
    BY <2>1, Installing DEF Stages, Doing, AllSteps, DesktopSteps
  <2>5. ProvisionTypeOK'
    BY <1>0, <2>1, <2>3, <2>4 DEF ProvisionTypeOK, Stages, releaseVars, prepareVars, AllSteps
  <2> QED
    BY <2>1, <2>4, <2>5, GoesOn DEF Stages, prepareVars
<1>5. ASSUME NEW i \in Installers, VerifySource(i) \/ InstallFile(i) \/ WriteToml(i) \/ VerifyInstalled(i) \/ StopHelper(i)
      PROVE  Base'
  <2>1. PICK s \in {"verifySource", "installHelper", "installMihomo", "writeToml", "verifyInstalled", "stop"} :
           /\ Elevates(i, s)
           /\ s \notin {"installHelper", "installMihomo"} => root'.helper = root.helper /\ root'.mihomo = root.mihomo
    BY <1>0, <1>5 DEF VerifySource, InstallFile, WriteToml, VerifyInstalled, StopHelper, filesVars, ProvisionTypeOK
  <2>2. root' \in [helper : Contents, mihomo : Contents, script : BOOLEAN, toml : Contents]
    BY <1>0, <1>5, SourceType DEF VerifySource, InstallFile, WriteToml, VerifyInstalled, StopHelper, filesVars, ProvisionTypeOK
  <2>3. payload' = payload /\ service' \in {service, NoHelper}
    BY <1>5 DEF VerifySource, InstallFile, WriteToml, VerifyInstalled, StopHelper, filesVars
  <2>4. NoHelper \in [helper : Contents, digest : Contents]
    BY DEF NoHelper, Contents
  <2>5. step' \in [Installers -> AllSteps] /\ s \in AllSteps \ {"none", "wait"}
    BY <2>1, Installing DEF Elevates, Doing, AllSteps, ElevatedSteps
  <2>6. ProvisionTypeOK'
    BY <1>0, <2>1, <2>2, <2>3, <2>4, <2>5 DEF ProvisionTypeOK, Elevates, releaseVars, prepareVars, AllSteps
  <2>7. kind = "deb" => root'.helper = root.helper /\ root'.mihomo = root.mihomo
    BY <1>0, <2>1 DEF StepsFit, Elevates, Doing
  <2> QED
    BY <2>1, <2>5, <2>6, <2>7, GoesOn DEF Elevates, prepareVars
<1>6. ASSUME NEW i \in Installers, RestartHelper(i) PROVE Base'
  <2>1. "restart" \in AllSteps \ {"none", "wait"}
    BY DEF AllSteps, ElevatedSteps
  <2>2. step' \in [Installers -> AllSteps]
    BY <1>6, <2>1, Installing DEF RestartHelper, Doing
  <2>3. service' \in [helper : Contents, digest : Contents]
    BY <1>0, <1>6 DEF RestartHelper, Boots, NoHelper, ProvisionTypeOK, Contents
  <2>4. payload' \in [there : BOOLEAN, helper : Contents, mihomo : Contents, toml : Contents]
    BY <1>0, <1>6 DEF RestartHelper, NoPayload, ProvisionTypeOK, Contents
  <2>5. done' = {} /\ disturbed' \in BOOLEAN
    BY <1>0, <1>6 DEF RestartHelper, ProvisionTypeOK
  <2>6. ProvisionTypeOK'
    BY <1>0, <1>6, <2>2, <2>3, <2>4, <2>5 DEF ProvisionTypeOK, RestartHelper, releaseVars, prepareVars, AllSteps
  <2> QED
    BY <1>6, <2>1, <2>6, GoesOn DEF RestartHelper, prepareVars
<1>7. ASSUME NEW i \in Installers, WaitForHelper(i) PROVE Base'
  <2>1. /\ step' = [step EXCEPT ![i] = "none"] /\ waiting' = waiting \ {i} /\ done' = done \union {i}
        /\ seen' = service.helper /\ needs' = (IF i = "connect" THEN Tail(needs) ELSE needs)
        /\ UNCHANGED <<kind, current, packaged, unpacked, payload, root, service, staging, originals, disturbed,
                       connect, mihomo>>
    BY <1>7 DEF WaitForHelper, Doing, Proceeds, After, Straight, releaseVars, filesVars
  <2>2. i = "connect" => needs # <<>>
    BY <1>0, <1>7 DEF WaitForHelper, Doing, StepsFit, ReleasesFit
  <2>3. needs' \in Needs
    BY <1>0, <2>1, <2>2, NeedsTails
  <2>4. ProvisionTypeOK'
    BY <1>0, <2>1, <2>3, NeedsTails DEF ProvisionTypeOK
  <2>5. /\ step'[i] = "none" /\ \A j \in Installers \ {i} : step'[j] = step[j]
    BY <1>0, <2>1 DEF ProvisionTypeOK
  <2>6. ReleasesFit'
    BY <1>0, <2>1, <2>5 DEF ReleasesFit, Busy, Installers
  <2>7. ASSUME NEW j \in Installers PROVE StepsFit(j)'
    BY <1>0, <2>1, <2>5 DEF StepsFit, Linux, Busy
  <2> QED
    BY <2>4, <2>6, <2>7 DEF Base
<1>8. ASSUME NEW i \in Installers, InstallFails(i) PROVE Base'
  <2>1. /\ step' = [step EXCEPT ![i] = "none"] /\ waiting' = waiting \ {i} /\ payload' \in {payload, NoPayload}
        /\ \/ i = "connect" /\ connect' = "no" /\ needs' = <<>>
           \/ i # "connect" /\ UNCHANGED <<connect, needs>>
        /\ UNCHANGED <<kind, current, packaged, unpacked, root, service, staging, originals, done, disturbed,
                       seen, mihomo>>
    BY <1>8 DEF InstallFails, Discarded, releaseVars
  <2>2. NoPayload \in [there : BOOLEAN, helper : Contents, mihomo : Contents, toml : Contents]
    BY DEF NoPayload, Contents
  <2>3. ProvisionTypeOK'
    BY <1>0, <2>1, <2>2 DEF ProvisionTypeOK
  <2>4. /\ step'[i] = "none" /\ \A j \in Installers \ {i} : step'[j] = step[j]
    BY <1>0, <2>1 DEF ProvisionTypeOK
  <2>5. ReleasesFit'
    BY <1>0, <2>1, <2>4 DEF ReleasesFit, Busy, Installers
  <2>6. ASSUME NEW j \in Installers PROVE StepsFit(j)'
    BY <1>0, <2>1, <2>4 DEF StepsFit, Linux, Busy
  <2> QED
    BY <2>3, <2>5, <2>6 DEF Base
<1>9. CASE PrepareStackStart
  <2>1. needs' \in Needs
    BY <1>9, RequirementsAre DEF PrepareStackStart
  <2>2. ProvisionTypeOK'
    BY <1>0, <1>9, <2>1, NeedsTails DEF PrepareStackStart, ProvisionTypeOK, releaseVars, filesVars, installVars
  <2> QED
    BY <1>0, <1>9, <2>2 DEF PrepareStackStart, Base, ReleasesFit, StepsFit, Busy, Linux, Installers,
       releaseVars, filesVars, installVars
<1>10. CASE PrepareHasMihomo
  <2>1. needs' \in Needs
    BY <1>0, <1>10, NeedsTails DEF PrepareHasMihomo
  <2>2. ProvisionTypeOK'
    BY <1>0, <1>10, <2>1, NeedsTails DEF PrepareHasMihomo, ProvisionTypeOK, releaseVars, filesVars, installVars
  <2> QED
    BY <1>0, <1>10, <2>2 DEF PrepareHasMihomo, Base, ReleasesFit, StepsFit, Busy, Linux, Installers,
       releaseVars, filesVars, installVars
<1>11. CASE WriteMihomo
  BY <1>0, <1>11 DEF WriteMihomo, Base, ProvisionTypeOK, ReleasesFit, StepsFit, Busy, Linux,
     releaseVars, filesVars, installVars
<1>12. CASE Prepared
  BY <1>0, <1>12 DEF Prepared, Base, ProvisionTypeOK, ReleasesFit, StepsFit, Busy, Linux,
     releaseVars, filesVars, installVars
<1>13. CASE RefreshHealth
  BY <1>0, <1>13 DEF RefreshHealth, Base, ProvisionTypeOK, ReleasesFit, StepsFit, Busy, Linux,
     releaseVars, filesVars, installVars
<1>14. CASE HelperDies \/ HelperStarts
  <2>1. service' \in [helper : Contents, digest : Contents]
    BY <1>0, <1>14 DEF HelperDies, HelperStarts, Boots, NoHelper, ProvisionTypeOK, Contents
  <2>2. UNCHANGED <<kind, current, packaged, unpacked, payload, root, step, waiting, staging, originals, done,
                    disturbed, seen, needs, connect, mihomo>>
    BY <1>14 DEF HelperDies, HelperStarts, releaseVars, installVars, prepareVars
  <2>3. ProvisionTypeOK'
    BY <1>0, <2>1, <2>2 DEF ProvisionTypeOK
  <2> QED
    BY <1>0, <2>2, <2>3 DEF Base, ReleasesFit, StepsFit, Busy, Linux
<1>15. CASE AppRestarts
  <2>1. /\ step' = LeftElevated /\ waiting' = {} /\ current' = packaged /\ seen' = Missing /\ needs' = <<>>
        /\ connect' = "no"
        /\ UNCHANGED <<kind, packaged, unpacked, payload, root, service, staging, originals, done, disturbed, mihomo>>
    BY <1>15 DEF AppRestarts, Restarts, filesVars
  <2>2. ProvisionTypeOK'
    BY <1>0, <2>1, Leaving DEF ProvisionTypeOK, AllSteps, Contents
  <2>3. ReleasesFit'
    BY <1>0, <2>1, Leaving DEF ProvisionTypeOK, ReleasesFit, Busy, Installers, Whole
  <2>4. ASSUME NEW j \in Installers PROVE StepsFit(j)'
    BY <1>0, <2>1, Leaving DEF StepsFit, Linux, Busy
  <2> QED
    BY <2>2, <2>3, <2>4 DEF Base
<1>16. CASE Updates
  <2>1. /\ packaged' = packaged + 1 /\ packaged' \in Whole /\ done' = {} /\ UNCHANGED <<payload, service, kind>>
        /\ packaged' \in Contents /\ ~unpacked
    BY <1>0, <1>16, LastVersionAssumption DEF Updates, ProvisionTypeOK, Whole, Contents, Restarts
  <2>2. CASE kind = "deb"
    <3>1. /\ unpacked' = TRUE /\ root' = [root EXCEPT !.helper = packaged', !.mihomo = packaged']
          /\ UNCHANGED <<current, step, waiting, staging, originals, disturbed, seen, needs, connect, mihomo>>
      BY <1>16, <2>2 DEF Updates, prepareVars
    <3>2. /\ root' \in [helper : Contents, mihomo : Contents, script : BOOLEAN, toml : Contents]
          /\ root'.helper = packaged' /\ root'.mihomo = packaged'
      BY <1>0, <2>1, <3>1 DEF ProvisionTypeOK
    <3>3. ProvisionTypeOK'
      BY <1>0, <2>1, <3>1, <3>2 DEF ProvisionTypeOK
    <3>4. ReleasesFit'
      <4>1. current \in Nat /\ packaged \in Nat /\ current <= packaged
        BY <1>0, LastVersionAssumption DEF ProvisionTypeOK, ReleasesFit, Whole
      <4>2. current' <= packaged'
        BY <2>1, <3>1, <4>1
      <4>3. kind' = "deb"
        BY <2>1, <2>2
      <4>4. /\ staging' = {}
            /\ Busy("setup")' => kind' = "windows"
            /\ "connect" \in waiting'
               => connect' = "prepares" /\ needs' # <<>> /\ Head(needs') = "helper"
        BY <1>0, <2>1, <2>2, <3>1 DEF ReleasesFit, Busy
      <4> QED
        BY <3>2, <4>2, <4>3, <4>4 DEF ReleasesFit
    <3> QED
      BY <1>0, <2>1, <3>1, <3>3, <3>4 DEF Base, StepsFit, Linux, Busy
  <2>3. CASE kind # "deb"
    <3>1. /\ step' \in {LeftElevated, SetupInstalls(LeftElevated)} /\ (kind # "windows" => step' = LeftElevated)
          /\ waiting' = {} /\ current' = packaged' /\ seen' = Missing /\ needs' = <<>> /\ connect' = "no"
          /\ disturbed' \in BOOLEAN /\ UNCHANGED <<unpacked, root, staging, originals, mihomo>>
      BY <1>0, <1>16, <2>3 DEF Updates, Restarts, ProvisionTypeOK
    <3>2. ProvisionTypeOK'
      BY <1>0, <2>1, <3>1, Leaving DEF ProvisionTypeOK, AllSteps, Contents
    <3>3. ReleasesFit'
      <4>1. packaged' \in Nat /\ current' <= packaged'
        BY <2>1, <3>1, LastVersionAssumption DEF Whole
      <4>2. kind' # "deb" /\ current' = packaged' /\ ~unpacked'
        BY <2>1, <2>3, <3>1
      <4>3. kind' \in {"deb", "windows"} => staging' = {}
        BY <1>0, <2>1, <3>1 DEF ReleasesFit
      <4>4. Busy("setup")' => kind' = "windows"
        <5>1. CASE kind = "windows"
          BY <2>1, <5>1
        <5>2. CASE kind # "windows"
          <6>1. step["setup"] = "none" /\ step' = LeftElevated /\ "setup" \in Installers
            BY <1>0, <3>1, <5>2 DEF ReleasesFit, Busy, Installers
          <6>2. step'["setup"] = "none"
            BY <1>0, <6>1, Leaving
          <6> QED
            BY <6>2 DEF Busy
        <5> QED
          BY <5>1, <5>2
      <4> QED
        BY <3>1, <4>1, <4>2, <4>3, <4>4 DEF ReleasesFit
    <3>4. ASSUME NEW j \in Installers PROVE StepsFit(j)'
      BY <1>0, <2>1, <3>1, Leaving DEF StepsFit, Linux, Busy, ReleasesFit
    <3> QED
      BY <3>2, <3>3, <3>4 DEF Base
  <2> QED
    BY <2>2, <2>3
<1>17. CASE Postinst
  <2>1. /\ UNCHANGED <<kind, current, packaged, payload, step, waiting, staging, originals, disturbed, seen, needs,
                       connect, mihomo>>
        /\ unpacked /\ done' = {} /\ unpacked' \in BOOLEAN
        /\ root' \in {root, [root EXCEPT !.toml = root.mihomo]}
        /\ service' \in {service, NoHelper, [helper |-> root.helper, digest |-> root.mihomo]}
    BY <1>0, <1>17 DEF Postinst, prepareVars, ProvisionTypeOK
  <2>2. /\ root' \in [helper : Contents, mihomo : Contents, script : BOOLEAN, toml : Contents]
        /\ service' \in [helper : Contents, digest : Contents]
        /\ root'.helper = root.helper /\ root'.mihomo = root.mihomo
    BY <1>0, <2>1 DEF ProvisionTypeOK, NoHelper, Contents
  <2>3. kind = "deb"
    BY <1>0, <2>1 DEF ReleasesFit
  <2> QED
    BY <1>0, <2>1, <2>2, <2>3 DEF Base, ProvisionTypeOK, ReleasesFit, StepsFit, Linux, Busy
<1>18. CASE UNCHANGED provisionVars
  BY <1>0, <1>18 DEF provisionVars, releaseVars, filesVars, installVars, prepareVars, Base, ProvisionTypeOK,
     ReleasesFit, StepsFit, Linux, Busy
<1> QED
  BY <1>2, <1>3, <1>4, <1>5, <1>6, <1>7, <1>8, <1>9, <1>10, <1>11, <1>12, <1>13, <1>14, <1>15, <1>16, <1>17, <1>18
     DEF ProvisionNext

\* What an action other than an installation of the file does to the helpers.
HelpersMove ==
    /\ UNCHANGED <<kind, current, packaged>> /\ root'.helper = root.helper
    /\ payload'.helper \in {payload.helper, Missing, Torn, packaged}
    /\ service' = NoHelper \/ service' = service \/ (service'.helper = root.helper /\ root.helper \in Whole)
LEMMA Moved ==
  ASSUME Base, Placed, HelpersMove
  PROVE  /\ Placed' /\ (Fresh => Fresh') /\ (Installed => Installed')
         /\ kind # "appimage" /\ Renewed => Renewed'
<1> USE Versions
<1>1. /\ current \in Whole /\ packaged \in Whole /\ current <= packaged /\ current \in Nat /\ packaged \in Nat
      /\ kind # "deb" => current = packaged
      /\ kind = "deb" => root.helper = packaged
      /\ kind \in {"deb", "appimage", "macos", "windows"}
      /\ root.helper \in Contents /\ service.helper \in Contents /\ payload.helper \in Contents
  BY DEF Base, ProvisionTypeOK, ReleasesFit, Kinds
<1>2. NoHelper.helper = Missing
  BY DEF NoHelper
<1>3. (Fresh => Fresh') /\ (Installed => Installed')
  BY DEF HelpersMove, Fresh, Installed
<1>4. service'.helper \in {Missing, service.helper, root.helper}
      /\ (service'.helper \in {Missing, service.helper} \/ (service'.helper = root.helper /\ root.helper \in Whole))
  BY <1>2 DEF HelpersMove
<1>5. kind = "windows" /\ service' # NoHelper => service'.helper = root'.helper
  BY DEF HelpersMove, Placed
<1>6. ASSUME kind = "macos"
      PROVE  /\ {root'.helper, service'.helper, payload'.helper} \subseteq {Missing, Torn} \union 1..packaged'
             /\ root'.helper = packaged' => Fresh'
             /\ service'.helper = packaged' => Fresh' /\ Installed'
  <2>1. /\ {root.helper, service.helper, payload.helper} \subseteq {Missing, Torn} \union 1..packaged
        /\ root.helper = packaged => Fresh
        /\ service.helper = packaged => Fresh /\ Installed
    BY <1>6 DEF Placed
  <2>2. packaged \in 1..packaged
    BY <1>1 DEF Whole
  <2>3. {root'.helper, service'.helper, payload'.helper} \subseteq {Missing, Torn} \union 1..packaged'
    BY <1>4, <2>1, <2>2 DEF HelpersMove
  <2>4. service'.helper = packaged => Fresh /\ Installed
    BY <1>1, <1>4, <2>1 DEF Installed
  <2> QED
    BY <1>3, <2>1, <2>3, <2>4 DEF HelpersMove
<1>7. ASSUME kind # "appimage", Renewed PROVE Renewed'
  <2>1. root.helper \in Whole => root.helper = packaged
    BY <1>1, <1>7 DEF Renewed, Installed
  <2>2. packaged \in current..packaged
    BY <1>1
  <2>3. service'.helper \in {Missing} \union current..packaged
    BY <1>4, <1>7, <2>1, <2>2 DEF Renewed
  <2> QED
    BY <1>3, <1>7, <2>3 DEF Renewed, HelpersMove
<1> QED
  BY <1>3, <1>5, <1>6, <1>7 DEF Placed, HelpersMove

\* A helper that the application sees in its own version is renewed.
LEMMA SeenIsRenewed ==
  ASSUME Base, Placed, kind # "appimage", service.helper = current
  PROVE  Renewed
<1> USE Versions
<1>1. /\ current \in Whole /\ packaged \in Whole /\ current <= packaged /\ current \in Nat /\ packaged \in Nat
      /\ kind # "deb" => current = packaged
  BY DEF Base, ProvisionTypeOK, ReleasesFit
<1>2. service # NoHelper /\ current \in current..packaged
  BY <1>1 DEF NoHelper
<1> QED
  BY <1>1, <1>2 DEF Renewed, Placed

\* A step of an installation that moves the helpers so, where a connect only
\* comes to a place whose promise it has.
LEMMA PromisesKept ==
  ASSUME Base, HelpersFit, HelpersMove, NEW i \in Installers,
         UNCHANGED <<seen, connect, needs, waiting>>, \A j \in Installers \ {i} : step'[j] = step[j],
         i = "connect" /\ kind # "appimage" /\ Promised => ConnectRenews'
  PROVE  HelpersFit'
<1>1. /\ Placed' /\ (Fresh => Fresh') /\ (Installed => Installed')
      /\ kind # "appimage" /\ Renewed => Renewed'
  BY Moved DEF HelpersFit
<1>2. UNCHANGED <<kind, current>>
  BY DEF HelpersMove
<1>3. ASSUME kind # "appimage" PROVE Promised'
  <2>1. Promised
    BY <1>3 DEF HelpersFit
  <2>2. CASE i = "connect"
    BY <1>1, <1>2, <1>3, <2>1, <2>2 DEF Promised, NeedsHelper
  <2>3. CASE i # "connect"
    <3>1. step'["connect"] = step["connect"]
      BY <2>3 DEF Installers
    <3> QED
      BY <1>1, <1>2, <1>3, <2>1, <3>1 DEF Promised, NeedsHelper, ConnectRenews
  <2> QED
    BY <2>2, <2>3
<1> QED
  BY <1>1, <1>2, <1>3 DEF HelpersFit

LEMMA HelpersKept == Base /\ Base' /\ HelpersFit /\ [ProvisionNext]_provisionVars => HelpersFit'
<1> SUFFICES ASSUME Base, Base', HelpersFit, [ProvisionNext]_provisionVars PROVE HelpersFit'
  OBVIOUS
<1> USE Versions
<1>0. /\ ProvisionTypeOK /\ ReleasesFit /\ \A i \in Installers : StepsFit(i)
      /\ Placed /\ (kind # "appimage" => Promised) /\ "connect" \in Installers
      /\ kind \in {"deb", "appimage", "macos", "windows"}
  BY DEF Base, HelpersFit, Installers, ProvisionTypeOK, Kinds
<1>1. ASSUME NEW i \in {"button", "connect"}, Begins(i), UNCHANGED <<needs, connect>>
      PROVE  HelpersFit'
  <2>1. /\ UNCHANGED <<kind, current, packaged, unpacked, payload, root, service, seen, mihomo>>
        /\ step' = [step EXCEPT ![i] = FirstStep] /\ waiting' = waiting \union {i}
    BY <1>1 DEF Begins, releaseVars, filesVars
  <2>2. /\ kind = "macos" => FirstStep = "clear"
        /\ FirstStep \in {"clear", "prompt"}
    BY DEF FirstStep, Copies, RunsInPlace
  <2>3. UNCHANGED <<Placed, Fresh, Installed, Renewed, NeedsHelper>>
    BY <2>1, <1>1 DEF Placed, Fresh, Installed, Renewed, NeedsHelper
  <2>4. CASE i = "connect"
    <3>1. step'["connect"] = FirstStep
      BY <1>0, <2>1, <2>4 DEF ProvisionTypeOK
    <3> QED
      BY <1>0, <1>1, <2>1, <2>2, <2>3, <3>1 DEF HelpersFit, Promised, ConnectRenews
  <2>5. CASE i = "button"
    <3>1. step'["connect"] = step["connect"] /\ ("connect" \in waiting' <=> "connect" \in waiting)
      BY <1>0, <2>1, <2>5 DEF ProvisionTypeOK
    <3> QED
      BY <1>0, <1>1, <2>1, <2>3, <3>1 DEF HelpersFit, Promised, ConnectRenews
  <2> QED
    BY <2>4, <2>5
<1>2. CASE InstallHelper
  BY <1>2, <1>1 DEF InstallHelper
<1>3. CASE PrepareInstallsHelper
  BY <1>3, <1>1 DEF PrepareInstallsHelper
<1>4. ASSUME NEW i \in Installers, ClearPayload(i) \/ CopyStarts(i) \/ CopyEnds(i) \/ VerifyCopies(i) \/ Prompt(i)
      PROVE  HelpersFit'
  <2>1. PICK s \in {"clear", "copyHelper", "endHelper", "copyMihomo", "endMihomo", "verifyCopies", "prompt"} :
           Stages(i, s) /\ (s = "clear" => payload'.helper = Missing)
    BY <1>4 DEF ClearPayload, CopyStarts, CopyEnds, VerifyCopies, Prompt, NoPayload
  <2>2. payload'.helper \in {payload.helper, Missing, Torn, packaged}
    <3>1. payload \in [there : BOOLEAN, helper : Contents, mihomo : Contents, toml : Contents]
      BY <1>0 DEF ProvisionTypeOK
    <3>2. CASE ClearPayload(i)
      BY <3>2 DEF ClearPayload, NoPayload
    <3>3. CASE CopyStarts(i)
      BY <3>1, <3>3 DEF CopyStarts
    <3>4. CASE CopyEnds(i)
      BY <3>1, <3>4 DEF CopyEnds, Filled
    <3>5. CASE VerifyCopies(i)
      BY <3>1, <3>5 DEF VerifyCopies
    <3>6. CASE Prompt(i)
      BY <3>1, <3>6 DEF Prompt
    <3> QED
      BY <1>4, <3>2, <3>3, <3>4, <3>5, <3>6
  <2>3. HelpersMove
    BY <2>1, <2>2 DEF HelpersMove, Stages, releaseVars
  <2>4. s \in AllSteps \ {"none"} /\ step[i] = s
    BY <2>1 DEF AllSteps, DesktopSteps, Stages, Doing
  <2>5. step'[i] = After(i, s) /\ \A j \in Installers \ {i} : step'[j] = step[j]
    BY <2>1, <2>4, Installing DEF Stages
  <2>6. ASSUME i = "connect", Promised PROVE ConnectRenews'
    <3>1. "connect" \in waiting' => "connect" \in waiting
      BY <2>1 DEF Stages
    <3>2. Fresh => Fresh'
      BY <1>0, <2>3, Moved
    <3>3. s = "clear" => Fresh'
      BY <2>1 DEF Fresh
    <3>4. /\ kind = "macos" => step'[i] \notin {"installMihomo", "writeToml", "stop", "restart", "wait"}
          /\ kind = "windows" => step'[i] \notin {"installMihomo", "writeToml", "restart", "wait"}
          /\ step'[i] # "wait"
      BY <1>0, <2>1, <2>5 DEF After, Straight, Linux
    <3>5. kind' = kind
      BY <2>3 DEF HelpersMove
    <3> QED
      BY <2>4, <2>6, <3>1, <3>2, <3>3, <3>4, <3>5 DEF Promised, ConnectRenews
  <2> QED
    BY <2>1, <2>3, <2>5, <2>6, PromisesKept DEF Stages, prepareVars
<1>5. ASSUME NEW i \in Installers, NEW s \in {"verifySource", "installMihomo", "writeToml", "verifyInstalled", "stop"},
             Elevates(i, s), s = "stop" /\ kind = "macos" => service' = NoHelper,
             root'.helper = root.helper, payload' = payload, service' \in {service, NoHelper}
      PROVE  HelpersFit'
  <2>1. /\ Elevates(i, s) /\ (s = "stop" /\ kind = "macos" => service' = NoHelper)
        /\ root'.helper = root.helper /\ payload' = payload /\ service' \in {service, NoHelper}
    BY <1>5
  <2>3. HelpersMove
    BY <2>1 DEF HelpersMove, Elevates, releaseVars
  <2>4. s \in AllSteps \ {"none"} /\ step[i] = s
    BY <2>1 DEF AllSteps, ElevatedSteps, Elevates, Doing
  <2>5. step'[i] = After(i, s) /\ \A j \in Installers \ {i} : step'[j] = step[j]
    BY <2>1, <2>4, Installing DEF Elevates
  <2>6. ASSUME i = "connect", kind # "appimage", Promised PROVE ConnectRenews'
    <3>1. ("connect" \in waiting' => "connect" \in waiting) /\ UNCHANGED <<kind, current, packaged>>
      BY <2>1, <2>3 DEF Elevates, HelpersMove
    <3>2. (Fresh => Fresh') /\ (Installed => Installed') /\ (Renewed => Renewed')
      BY <1>0, <2>3, <2>6, Moved
    <3>3. /\ kind = "macos" => <<s, step'[i]>> \in {<<"installMihomo", "writeToml">>, <<"writeToml", "stop">>, <<"stop", "restart">>}
          /\ kind = "windows" => <<s, step'[i]>> \in {<<"installMihomo", "writeToml">>, <<"writeToml", "restart">>, <<"stop", "installHelper">>}
          /\ kind = "deb" => step'[i] # "wait"
      BY <1>0, <2>1, <2>4, <2>5 DEF After, Straight, Linux, StepsFit
    <3>4. ASSUME kind = "macos", Fresh', Installed', service' = NoHelper PROVE Renewed'
      BY <3>1, <3>4 DEF Renewed, NoHelper
    <3>5. CASE kind = "macos"
      BY <2>1, <2>4, <2>6, <3>1, <3>2, <3>3, <3>4, <3>5 DEF Promised, ConnectRenews
    <3>6. CASE kind = "windows"
      BY <2>4, <2>6, <3>1, <3>2, <3>3, <3>6 DEF Promised, ConnectRenews
    <3>7. CASE kind = "deb"
      BY <3>1, <3>3, <3>7, <2>6 DEF ConnectRenews
    <3> QED
      BY <1>0, <2>6, <3>5, <3>6, <3>7
  <2> QED
    BY <2>1, <2>3, <2>5, <2>6, PromisesKept DEF Elevates, prepareVars
<1>6. ASSUME NEW i \in Installers, Elevates(i, "installHelper"), InstallFile(i)
      PROVE  HelpersFit'
  <2>1. /\ UNCHANGED <<kind, current, packaged, seen, connect, needs, waiting, payload, service>>
        /\ step[i] = "installHelper" /\ Proceeds(i)
    BY <1>6 DEF Elevates, InstallFile, releaseVars, prepareVars, Doing
  <2>2. /\ root' = [root EXCEPT !.helper = Source(i).helper] /\ Source(i).helper # Missing
        /\ kind = "windows" /\ service # NoHelper => root.helper = Source(i).helper
    BY <1>6 DEF InstallFile, Elevates, Doing
  <2>3. root'.helper = Source(i).helper
    BY <1>0, <2>2 DEF ProvisionTypeOK
  <2>4. step'[i] = "installMihomo" /\ \A j \in Installers \ {i} : step'[j] = step[j]
    BY <2>1, Installing DEF After, Straight, AllSteps, ElevatedSteps
  <2>5. kind # "deb"
    BY <1>0, <2>1 DEF StepsFit
  <2>6. CASE kind = "appimage"
    BY <1>0, <2>1, <2>6 DEF HelpersFit, Placed
  <2>7. CASE kind = "windows"
    <3>1. Source(i).helper = packaged
      BY <1>0, <2>7 DEF ReleasesFit, Source, Payload
    <3>2. Placed'
      BY <1>0, <2>1, <2>2, <2>3, <2>7 DEF Placed
    <3>3. (Renewed => Renewed') /\ (NeedsHelper' <=> NeedsHelper)
      BY <2>1, <2>3, <2>7, <3>1 DEF Renewed, NeedsHelper
    <3>4. Renewed'
      <4>1. current \in Whole /\ packaged \in Whole /\ current = packaged
        BY <1>0, <2>7 DEF ProvisionTypeOK, ReleasesFit
      <4>2. service # NoHelper => service.helper = packaged
        BY <1>0, <2>2, <2>7, <3>1 DEF Placed
      <4>3. packaged \in current..packaged
        BY <4>1
      <4> QED
        BY <2>1, <2>3, <2>7, <3>1, <4>2, <4>3 DEF Renewed, NoHelper
    <3> QED
      BY <2>1, <2>4, <2>7, <3>2, <3>4 DEF HelpersFit, Promised, ConnectRenews
  <2>8. CASE kind = "macos"
    <3>1. Source(i) = payload
      BY <1>0, <2>1, <2>8 DEF StepsFit, Busy, Source
    <3>2. UNCHANGED Fresh /\ (NeedsHelper' <=> NeedsHelper)
      BY <2>1 DEF Fresh, NeedsHelper
    <3>3. (Fresh => Installed') /\ root'.helper = payload.helper
      BY <2>1, <2>2, <2>3, <3>1 DEF Fresh, Installed
    <3>4. /\ {root.helper, service.helper, payload.helper} \subseteq {Missing, Torn} \union 1..packaged
          /\ root.helper = packaged => Fresh
          /\ service.helper = packaged => Fresh /\ Installed
      BY <1>0, <2>8 DEF Placed
    <3>5. Placed'
      <4>1. root'.helper = packaged => Fresh
        BY <3>3 DEF Fresh
      <4> QED
        BY <2>1, <2>8, <3>2, <3>3, <3>4, <4>1 DEF Placed
    <3>6. Renewed => Renewed'
      BY <2>1, <2>8, <3>2, <3>3 DEF Renewed
    <3>7. Promised
      BY <1>0, <2>8
    <3>8. CASE i = "connect"
      BY <2>1, <2>4, <2>8, <3>2, <3>3, <3>5, <3>6, <3>7, <3>8 DEF HelpersFit, Promised, ConnectRenews
    <3>9. CASE i # "connect"
      <4>1. step'["connect"] = step["connect"]
        BY <1>0, <2>4, <3>9
      <4> QED
        BY <2>1, <2>8, <3>2, <3>3, <3>5, <3>6, <3>7, <4>1 DEF HelpersFit, Promised, ConnectRenews
    <3> QED
      BY <3>8, <3>9
  <2> QED
    BY <1>0, <2>5, <2>6, <2>7, <2>8
<1>7. ASSUME NEW i \in Installers, RestartHelper(i) PROVE HelpersFit'
  <2>1. /\ UNCHANGED <<kind, current, packaged, root, seen, connect, needs, waiting>>
        /\ step[i] = "restart" /\ Proceeds(i) /\ service' # NoHelper
        /\ payload' \in {payload, NoPayload}
        /\ service' = service \/ service' = Boots
    BY <1>7 DEF RestartHelper, releaseVars, prepareVars, Doing
  <2>2. service' = service \/ (service'.helper = root.helper /\ root.helper \in Whole)
    BY <2>1 DEF Boots
  <2>3. HelpersMove
    BY <2>1, <2>2 DEF HelpersMove, NoPayload
  <2>4. step'[i] = After(i, "restart") /\ \A j \in Installers \ {i} : step'[j] = step[j]
    BY <2>1, Installing DEF AllSteps, ElevatedSteps
  <2>5. step'[i] \in {"wait", "none"}
    BY <2>4 DEF After
  <2>6. ASSUME i = "connect", kind # "appimage", Promised PROVE ConnectRenews'
    <3>1. kind = "macos" => (Fresh => Fresh')
      BY <1>0, <2>3, Moved
    <3>2. Renewed => Renewed'
      BY <1>0, <2>3, <2>6, Moved
    <3>3. ASSUME kind = "deb" PROVE Renewed'
      <4>1. /\ current \in Whole /\ packaged \in Whole /\ current <= packaged /\ root.helper = packaged
        BY <1>0, <3>3 DEF ProvisionTypeOK, ReleasesFit
      <4>2. service'.helper = packaged
        BY <1>7, <2>1, <3>3, <4>1 DEF RestartHelper, Boots
      <4>3. packaged \in current..packaged
        BY <4>1
      <4> QED
        BY <2>1, <3>3, <4>2, <4>3 DEF Renewed
    <3> QED
      BY <1>0, <2>1, <2>5, <2>6, <3>1, <3>2, <3>3 DEF Promised, ConnectRenews
  <2> QED
    BY <2>1, <2>3, <2>4, <2>6, PromisesKept
<1>8. ASSUME NEW i \in Installers, WaitForHelper(i) PROVE HelpersFit'
  <2>1. /\ step' = [step EXCEPT ![i] = "none"] /\ waiting' = waiting \ {i} /\ step[i] = "wait"
        /\ seen' = service.helper /\ needs' = (IF i = "connect" THEN Tail(needs) ELSE needs)
        /\ UNCHANGED <<kind, current, packaged, payload, root, service, connect>>
    BY <1>8 DEF WaitForHelper, Doing, Proceeds, After, Straight, releaseVars, filesVars
  <2>2. UNCHANGED <<Placed, Fresh, Installed, Renewed>>
    BY <2>1 DEF Placed, Fresh, Installed, Renewed
  <2>3. ASSUME kind # "appimage" PROVE Promised'
    <3>1. Promised
      BY <1>0, <2>3
    <3>2. seen' = current => Renewed
      BY <1>0, <2>1, <2>3, SeenIsRenewed
    <3>3. CASE i = "connect"
      <4>1. Renewed
        BY <1>0, <2>1, <3>1, <3>3 DEF StepsFit, Promised, ConnectRenews
      <4> QED
        BY <2>1, <2>2, <3>3, <4>1 DEF Promised, ConnectRenews
    <3>4. CASE i # "connect"
      <4>1. step'["connect"] = step["connect"] /\ ("connect" \in waiting' <=> "connect" \in waiting)
        BY <1>0, <2>1, <3>4 DEF ProvisionTypeOK
      <4>2. NeedsHelper' <=> NeedsHelper
        BY <2>1, <3>4 DEF NeedsHelper
      <4> QED
        BY <2>1, <2>2, <3>1, <3>2, <4>1, <4>2 DEF Promised, ConnectRenews
    <3> QED
      BY <3>3, <3>4
  <2> QED
    BY <1>0, <2>1, <2>2, <2>3 DEF HelpersFit
<1>9. ASSUME NEW i \in Installers, InstallFails(i) PROVE HelpersFit'
  <2>1. /\ step' = [step EXCEPT ![i] = "none"] /\ waiting' = waiting \ {i} /\ payload' \in {payload, NoPayload}
        /\ \/ i = "connect" /\ connect' = "no" /\ needs' = <<>>
           \/ i # "connect" /\ UNCHANGED <<connect, needs>>
        /\ UNCHANGED <<kind, current, packaged, root, service, seen>>
    BY <1>9 DEF InstallFails, Discarded, releaseVars
  <2>2. HelpersMove
    BY <2>1 DEF HelpersMove, NoPayload
  <2>3. /\ Placed' /\ (Fresh => Fresh') /\ (Installed => Installed')
        /\ kind # "appimage" /\ Renewed => Renewed'
    BY <1>0, <2>2, Moved
  <2>4. CASE i = "connect"
    BY <1>0, <2>1, <2>3, <2>4 DEF HelpersFit, Promised, ConnectRenews
  <2>5. CASE i # "connect"
    <3>1. step'["connect"] = step["connect"] /\ ("connect" \in waiting' <=> "connect" \in waiting)
      BY <1>0, <2>1, <2>5 DEF ProvisionTypeOK
    <3>2. NeedsHelper' <=> NeedsHelper
      BY <2>1, <2>5 DEF NeedsHelper
    <3> QED
      BY <1>0, <2>1, <2>3, <2>5, <3>1, <3>2 DEF HelpersFit, Promised, ConnectRenews
  <2> QED
    BY <2>4, <2>5
<1>10. ASSUME UNCHANGED <<kind, current, packaged, payload, root, service, step, waiting>>
       PROVE  UNCHANGED <<Placed, Fresh, Installed, Renewed, ConnectRenews>>
  <2>1. UNCHANGED <<Placed, Fresh, Installed, Renewed>>
    BY <1>10 DEF Placed, Fresh, Installed, Renewed
  <2>2. UNCHANGED ConnectRenews
    BY <1>10, <2>1 DEF ConnectRenews
  <2> QED
    BY <2>1, <2>2
<1>11. CASE PrepareStackStart
  <2>1. /\ UNCHANGED <<kind, current, packaged, payload, root, service, step, waiting, seen>>
        /\ connect' = "prepares" /\ needs' = Requirements
    BY <1>11 DEF PrepareStackStart, releaseVars, filesVars, installVars
  <2>2. ~NeedsHelper' => seen = current
    BY <2>1, RequirementsAre DEF NeedsHelper
  <2> QED
    BY <1>0, <1>10, <2>1, <2>2 DEF HelpersFit, Promised
<1>12. CASE PrepareHasMihomo
  <2>1. /\ UNCHANGED <<kind, current, packaged, payload, root, service, step, waiting, seen, connect>>
        /\ connect = "prepares" /\ needs # <<>> /\ Head(needs) = "mihomo" /\ needs' = Tail(needs)
    BY <1>12 DEF PrepareHasMihomo, releaseVars, filesVars, installVars
  <2>2. needs \in {<<"mihomo">>, <<"mihomo", "helper">>}
    BY <1>0, <2>1, NeedsTails DEF Needs
  <2>3. needs = <<"mihomo", "helper">> => NeedsHelper'
    BY <2>1, NeedsTails DEF NeedsHelper
  <2>4. needs = <<"mihomo">> => ~NeedsHelper
    BY DEF NeedsHelper
  <2> QED
    BY <1>0, <1>10, <2>1, <2>2, <2>3, <2>4 DEF HelpersFit, Promised
<1>13. CASE WriteMihomo
  <2>1. UNCHANGED <<kind, current, packaged, payload, root, service, step, waiting, seen, connect, needs>>
    BY <1>13 DEF WriteMihomo, releaseVars, filesVars, installVars
  <2> QED
    BY <1>0, <1>10, <2>1 DEF HelpersFit, Promised, NeedsHelper
<1>14. CASE Prepared
  <2>1. /\ UNCHANGED <<kind, current, packaged, payload, root, service, step, waiting, needs>>
        /\ connect = "prepares" /\ needs = <<>> /\ connect' = "prepared" /\ seen' = service.helper
    BY <1>14 DEF Prepared, releaseVars, filesVars, installVars
  <2>2. ~NeedsHelper
    BY <2>1 DEF NeedsHelper
  <2> QED
    BY <1>0, <1>10, <2>1, <2>2, SeenIsRenewed DEF HelpersFit, Promised
<1>15. CASE RefreshHealth
  <2>1. /\ UNCHANGED <<kind, current, packaged, payload, root, service, step, waiting, needs, connect>>
        /\ seen' = service.helper
    BY <1>15 DEF RefreshHealth, releaseVars, filesVars, installVars
  <2>2. NeedsHelper' <=> NeedsHelper
    BY <2>1 DEF NeedsHelper
  <2> QED
    BY <1>0, <1>10, <2>1, <2>2, SeenIsRenewed DEF HelpersFit, Promised
<1>16. ASSUME UNCHANGED <<kind, current, packaged, step, waiting, seen, needs, connect>>, HelpersMove
       PROVE  HelpersFit'
  <2>1. "button" \in Installers
    BY DEF Installers
  <2> QED
    BY <1>16, <2>1, PromisesKept
<1>17. CASE HelperDies \/ HelperStarts
  <2>1. UNCHANGED <<kind, current, packaged, step, waiting, seen, needs, connect, payload, root>>
    BY <1>17 DEF HelperDies, HelperStarts, releaseVars, installVars, prepareVars
  <2>2. service' = NoHelper \/ (service'.helper = root.helper /\ root.helper \in Whole)
    BY <1>17 DEF HelperDies, HelperStarts, Boots
  <2>3. HelpersMove
    BY <2>1, <2>2 DEF HelpersMove
  <2> QED
    BY <1>16, <2>1, <2>3
<1>18. CASE Postinst
  <2>1. /\ UNCHANGED <<kind, current, packaged, payload, step, waiting, seen, needs, connect>> /\ unpacked
        /\ root' \in {root, [root EXCEPT !.toml = root.mihomo]}
        /\ service' \in {service, NoHelper, [helper |-> root.helper, digest |-> root.mihomo]}
    BY <1>18 DEF Postinst, prepareVars
  <2>2. root'.helper = root.helper /\ root.helper \in Whole
    BY <1>0, <2>1 DEF ProvisionTypeOK, ReleasesFit
  <2>3. HelpersMove
    BY <2>1, <2>2 DEF HelpersMove
  <2> QED
    BY <1>16, <2>1, <2>3
<1>19. CASE AppRestarts
  <2>1. /\ waiting' = {} /\ current' = packaged /\ seen' = Missing /\ connect' = "no"
        /\ UNCHANGED <<kind, packaged, payload, root, service>>
    BY <1>19 DEF AppRestarts, Restarts, filesVars
  <2>2. Placed'
    BY <1>0, <2>1 DEF Placed, Fresh, Installed
  <2>3. current' # Missing
    BY <1>0, <2>1 DEF ProvisionTypeOK
  <2> QED
    BY <2>1, <2>2, <2>3 DEF HelpersFit, Promised, ConnectRenews
<1>20. CASE Updates
  <2>1. /\ packaged' = packaged + 1 /\ packaged' \in Whole /\ UNCHANGED <<payload, service, kind>>
        /\ packaged \in Nat /\ current \in Nat
    <3>1. packaged \in Whole /\ current \in Whole
      BY <1>0 DEF ProvisionTypeOK
    <3>2. packaged < LastVersion /\ packaged' = packaged + 1 /\ UNCHANGED <<payload, service, kind>>
      BY <1>20 DEF Updates, Restarts
    <3> QED
      BY <3>1, <3>2, LastVersionAssumption DEF Whole
  <2>2. CASE kind = "deb"
    <3>1. UNCHANGED <<current, step, waiting, seen, needs, connect>>
      BY <1>20, <2>2 DEF Updates, prepareVars
    <3>2. Renewed => Renewed'
      BY <2>1, <2>2, <3>1 DEF Renewed
    <3> QED
      BY <1>0, <2>1, <2>2, <3>1, <3>2 DEF HelpersFit, Promised, ConnectRenews, Placed, NeedsHelper
  <2>3. CASE kind # "deb"
    <3>1. /\ waiting' = {} /\ current' = packaged' /\ seen' = Missing /\ connect' = "no" /\ root' = root
      BY <1>20, <2>3 DEF Updates, Restarts
    <3>2. kind = "macos" => /\ {root.helper, service.helper, payload.helper} \subseteq {Missing, Torn} \union 1..packaged'
                            /\ root.helper # packaged' /\ service.helper # packaged'
      <4>1. \A v \in {Missing, Torn} \union 1..packaged : v # packaged' /\ v \in {Missing, Torn} \union 1..packaged'
        BY <2>1
      <4> QED
        BY <1>0, <4>1 DEF Placed
    <3>3. Placed'
      BY <1>0, <2>1, <3>1, <3>2 DEF Placed
    <3>4. current' # Missing
      BY <2>1, <3>1
    <3> QED
      BY <3>1, <3>3, <3>4 DEF HelpersFit, Promised, ConnectRenews
  <2> QED
    BY <2>2, <2>3
<1>21. CASE UNCHANGED provisionVars
  BY <1>16, <1>21 DEF provisionVars, releaseVars, filesVars, installVars, prepareVars, HelpersMove
<1>22. ASSUME NEW i \in Installers, VerifySource(i) \/ InstallFile(i) \/ WriteToml(i) \/ VerifyInstalled(i) \/ StopHelper(i)
       PROVE  HelpersFit'
  <2>1. CASE Elevates(i, "installHelper") /\ InstallFile(i)
    BY <1>6, <2>1
  <2>2. CASE ~(Elevates(i, "installHelper") /\ InstallFile(i))
    <3>1. PICK s \in {"verifySource", "installMihomo", "writeToml", "verifyInstalled", "stop"} :
           /\ Elevates(i, s) /\ (s = "stop" /\ kind = "macos" => service' = NoHelper)
           /\ root'.helper = root.helper /\ payload' = payload /\ service' \in {service, NoHelper}
      BY <1>0, <1>22, <2>2 DEF VerifySource, InstallFile, WriteToml, VerifyInstalled, StopHelper, filesVars,
         ProvisionTypeOK, Elevates, Doing
    <3> QED
      BY <1>5, <3>1
  <2> QED
    BY <2>1, <2>2
<1>23. ASSUME NEW i \in Installers,
              \/ ClearPayload(i) \/ CopyStarts(i) \/ CopyEnds(i) \/ VerifyCopies(i) \/ Prompt(i) \/ InstallFails(i)
              \/ VerifySource(i) \/ InstallFile(i) \/ WriteToml(i) \/ VerifyInstalled(i) \/ StopHelper(i)
              \/ RestartHelper(i) \/ WaitForHelper(i)
       PROVE  HelpersFit'
  <2>1. CASE ClearPayload(i) \/ CopyStarts(i) \/ CopyEnds(i) \/ VerifyCopies(i) \/ Prompt(i)
    BY <1>4, <2>1
  <2>2. CASE VerifySource(i) \/ InstallFile(i) \/ WriteToml(i) \/ VerifyInstalled(i) \/ StopHelper(i)
    BY <1>22, <2>2
  <2> QED
    BY <1>7, <1>8, <1>9, <1>23, <2>1, <2>2, Zenon
<1> QED
  BY <1>2, <1>3, <1>11, <1>12, <1>13, <1>14, <1>15, <1>17, <1>18, <1>19, <1>20, <1>21, <1>23 DEF ProvisionNext

\* An installation that is alone leaves the other two idle.
LEMMA OthersRest ==
  ASSUME NEW i \in Installers, Alone, Busy(i), \A j \in Installers \ {i} : step'[j] = step[j]
  PROVE  Alone' /\ \A j \in Installers \ {i} : FilesFit(j)'
<1>1. \A j \in Installers \ {i} : step'[j] = "none"
  BY DEF Alone, Busy
<1>2. Alone'
  BY <1>1 DEF Alone, Busy
<1>3. ASSUME NEW j \in Installers \ {i} PROVE FilesFit(j)'
  BY <1>1, <1>3 DEF FilesFit, Busy
<1> QED
  BY <1>2, <1>3

\* An installation for which the files stay as they are, or that ends.
LEMMA FilesStay ==
  ASSUME NEW j \in Installers, FilesFit(j), step'[j] \in {step[j], "none"},
         UNCHANGED <<kind, unpacked, root, originals, staging>>,
         payload' = payload \/ step'[j] = "none",
         DigestFits /\ Serves => Serves'
  PROVE  FilesFit(j)'
<1>1. CASE step'[j] = "none"
  BY <1>1 DEF FilesFit, Busy
<1>2. CASE step'[j] = step[j] /\ payload' = payload
  <2>1. UNCHANGED DigestFits
    BY DEF DigestFits
  <2> QED
    BY <1>2, <2>1 DEF FilesFit, Busy, Linux
<1> QED
  BY <1>1, <1>2

LEMMA UndisturbedKept ==
  ASSUME Base, Base', Undisturbed, ~disturbed', [ProvisionNext]_provisionVars
  PROVE  Undisturbed'
<1> USE Versions
<1>0. /\ ProvisionTypeOK /\ ReleasesFit /\ \A i \in Installers : StepsFit(i)
      /\ Alone /\ RootFits /\ \A i \in Installers : FilesFit(i)
      /\ kind \in {"deb", "appimage", "macos", "windows"}
  BY DEF Base, Undisturbed, ProvisionTypeOK, Kinds
<1>1. ASSUME NEW i \in {"button", "connect"}, Begins(i) PROVE Undisturbed'
  <2>1. /\ UNCHANGED <<kind, unpacked, payload, root, service>> /\ i \in Installers
        /\ step' = [step EXCEPT ![i] = FirstStep] /\ done' = done \ {i}
        /\ staging' = (IF Copies THEN staging \union {i} ELSE staging \ {i})
        /\ \A j \in Installers : j # i => ~Busy(j)
    BY <1>1 DEF Begins, releaseVars, filesVars, Installers
  <2>2. /\ step'[i] = FirstStep /\ \A j \in Installers \ {i} : step'[j] = "none"
        /\ FirstStep = "clear" \/ (FirstStep = "prompt" /\ ~Copies)
        /\ kind = "macos" => Copies
    BY <1>0, <2>1 DEF ProvisionTypeOK, FirstStep, Busy, Copies, RunsInPlace
  <2>3. originals'[i].mihomo \in Whole \/ ~Linux
    <3>1. originals'[i].mihomo = IF RunsInPlace THEN root.mihomo ELSE packaged
      BY <1>0, <1>1, <2>1 DEF Begins, ProvisionTypeOK, Payload
    <3> QED
      BY <1>0, <3>1 DEF RunsInPlace, RootFits, ProvisionTypeOK, Linux
  <2>4. RootFits'
    BY <1>0, <2>1 DEF RootFits, DigestFits, Serves
  <2>5. FilesFit(i)'
    BY <2>1, <2>2, <2>3 DEF FilesFit, Busy, Linux
  <2>6. Alone' /\ \A j \in Installers \ {i} : FilesFit(j)'
    BY <2>2 DEF Alone, FilesFit, Busy
  <2> QED
    BY <2>4, <2>5, <2>6 DEF Undisturbed
<1>2. ASSUME NEW i \in Installers, ClearPayload(i) \/ CopyStarts(i) \/ CopyEnds(i) \/ VerifyCopies(i) \/ Prompt(i)
      PROVE  Undisturbed'
  <2>1. PICK s \in DesktopSteps : Stages(i, s)
    BY <1>2 DEF ClearPayload, CopyStarts, CopyEnds, VerifyCopies, Prompt, DesktopSteps
  <2>2. /\ UNCHANGED <<kind, unpacked, packaged, root, service, staging, originals, done>> /\ step[i] = s
        /\ s \in AllSteps \ {"none"}
    BY <2>1 DEF Stages, Doing, releaseVars, AllSteps, DesktopSteps
  <2>3. step'[i] = After(i, s) /\ \A j \in Installers \ {i} : step'[j] = step[j]
    BY <2>1, <2>2, Installing DEF Stages
  <2>4. RootFits'
    BY <1>0, <2>2 DEF RootFits, DigestFits, Serves
  <2>5. payload \in [there : BOOLEAN, helper : Contents, mihomo : Contents, toml : Contents] /\ packaged \in Whole
    BY <1>0 DEF ProvisionTypeOK
  <2>6. Linux => originals'[i].mihomo \in Whole
    BY <1>0, <2>2 DEF FilesFit, Busy
  <2>7. FilesFit(i)'
    <3>1. CASE s \in {"clear", "copyHelper", "endHelper", "copyMihomo"}
      <4>1. step'[i] \in {"copyHelper", "endHelper", "copyMihomo", "endMihomo"}
        BY <2>3, <3>1 DEF After, Straight
      <4> QED
        BY <2>2, <2>6, <4>1 DEF FilesFit, Linux
    <3>2. CASE s = "endMihomo"
      <4>1. CopyEnds(i) /\ payload' = [payload EXCEPT !.mihomo = Filled(@)]
        BY <1>2, <2>2, <3>2 DEF ClearPayload, CopyStarts, CopyEnds, VerifyCopies, Prompt, Stages, Doing
      <4>2. payload'.mihomo # Torn
        BY <2>5, <4>1 DEF Filled
      <4>3. step'[i] = "verifyCopies"
        BY <2>3, <3>2 DEF After, Straight
      <4> QED
        BY <2>2, <2>6, <4>2, <4>3 DEF FilesFit, Linux
    <3>3. CASE s = "verifyCopies"
      <4>1. VerifyCopies(i)
        BY <1>2, <2>2, <3>3 DEF ClearPayload, CopyStarts, CopyEnds, VerifyCopies, Prompt, Stages, Doing
      <4>2. step'[i] = "prompt"
        BY <2>3, <3>3 DEF After, Straight
      <4>3. i \in staging => payload.mihomo # Torn
        BY <1>0, <2>2, <3>3 DEF FilesFit
      <4>4. CASE kind = "appimage"
        BY <2>2, <2>6, <4>1, <4>2, <4>3, <4>4 DEF FilesFit, Linux, VerifyCopies
      <4>5. CASE kind = "macos"
        <5>1. payload.mihomo # Missing /\ payload' = [payload EXCEPT !.toml = payload.mihomo] /\ i \in staging
          BY <1>0, <2>2, <3>3, <4>1, <4>5 DEF VerifyCopies, StepsFit, Busy
        <5>2. payload'.toml = payload.mihomo /\ payload'.mihomo = payload.mihomo /\ payload.mihomo \in Whole
          BY <2>5, <4>3, <5>1
        <5> QED
          BY <2>2, <2>6, <4>2, <5>2 DEF FilesFit, Linux
      <4> QED
        BY <4>1, <4>4, <4>5 DEF VerifyCopies
    <3>4. CASE s = "prompt"
      <4>1. payload' = payload
        BY <1>2, <2>2, <3>4 DEF ClearPayload, CopyStarts, CopyEnds, VerifyCopies, Prompt, Stages, Doing
      <4>2. step'[i] = IF Linux THEN "verifySource" ELSE IF kind = "macos" THEN "installHelper" ELSE "stop"
        BY <2>3, <3>4 DEF After
      <4> QED
        BY <1>0, <2>2, <2>6, <3>4, <4>1, <4>2 DEF FilesFit, Linux
    <3> QED
      BY <3>1, <3>2, <3>3, <3>4 DEF DesktopSteps
  <2>8. Alone' /\ \A j \in Installers \ {i} : FilesFit(j)'
    BY <1>0, <2>2, <2>3, OthersRest DEF Busy
  <2> QED
    BY <2>4, <2>7, <2>8 DEF Undisturbed
<1>3. ASSUME NEW i \in Installers, VerifySource(i) \/ InstallFile(i) \/ WriteToml(i) \/ VerifyInstalled(i) \/ StopHelper(i)
      PROVE  Undisturbed'
  <2>1. PICK s \in ElevatedSteps : Elevates(i, s)
    BY <1>3 DEF VerifySource, InstallFile, WriteToml, VerifyInstalled, StopHelper, ElevatedSteps
  <2>2. /\ UNCHANGED <<kind, unpacked, packaged, staging, originals>> /\ step[i] = s /\ done' = {}
        /\ s \in AllSteps \ {"none"}
    BY <2>1 DEF Elevates, Doing, releaseVars, AllSteps, ElevatedSteps
  <2>3. step'[i] = After(i, s) /\ \A j \in Installers \ {i} : step'[j] = step[j]
    BY <2>1, <2>2, Installing DEF Elevates
  <2>4. payload' = payload
    BY <1>3 DEF VerifySource, InstallFile, WriteToml, VerifyInstalled, StopHelper, filesVars
  <2>5. /\ root \in [helper : Contents, mihomo : Contents, script : BOOLEAN, toml : Contents] /\ packaged \in Whole
        /\ FilesFit(i) /\ StepsFit(i)
    BY <1>0 DEF ProvisionTypeOK
  <2>6. Linux => originals'[i].mihomo = originals[i].mihomo /\ originals[i].mihomo \in Whole
    BY <2>2, <2>5 DEF FilesFit, Busy
  <2>7. Alone' /\ \A j \in Installers \ {i} : FilesFit(j)'
    BY <1>0, <2>2, <2>3, OthersRest DEF Busy
  <2>8. ASSUME UNCHANGED <<root.mihomo, root.script>> PROVE RootFits'
    BY <1>0, <2>2, <2>8 DEF RootFits
  <2>9. CASE VerifySource(i)
    <3>1. s = "verifySource" /\ root' = root /\ step'[i] \in {"installHelper", "writeToml"} /\ Linux
      BY <1>0, <2>2, <2>3, <2>5, <2>9 DEF VerifySource, Elevates, Doing, filesVars, After, StepsFit, Linux
    <3>2. FilesFit(i)'
      BY <2>2, <2>4, <2>5, <2>6, <3>1 DEF FilesFit, Linux
    <3> QED
      BY <2>7, <2>8, <3>1, <3>2 DEF Undisturbed
  <2>10. CASE InstallFile(i) /\ s = "installHelper"
    <3>1. root'.mihomo = root.mihomo /\ root'.script = root.script /\ step'[i] = "installMihomo"
      BY <2>2, <2>3, <2>5, <2>10 DEF InstallFile, Elevates, Doing, After, Straight
    <3>2. FilesFit(i)'
      BY <2>2, <2>4, <2>5, <2>6, <2>10, <3>1 DEF FilesFit, Linux
    <3> QED
      BY <2>7, <2>8, <3>1, <3>2 DEF Undisturbed
  <2>11. CASE InstallFile(i) /\ s = "installMihomo"
    <3>1. /\ root' = [root EXCEPT !.mihomo = Source(i).mihomo, !.script = (kind = "appimage")]
          /\ Source(i).mihomo # Missing
      BY <2>2, <2>11 DEF InstallFile, Elevates, Doing
    <3>2. step'[i] = "writeToml"
      BY <2>3, <2>11 DEF After, Straight
    <3>3. Source(i).mihomo # Torn
      BY <1>0, <2>2, <2>5, <2>11 DEF Source, Payload, FilesFit, RootFits
    <3>4. root'.mihomo \in Whole /\ root'.mihomo = Source(i).mihomo
      BY <1>0, <2>5, <3>1, <3>3, SourceType
    <3>5. kind = "macos" => Source(i) = payload
      BY <2>2, <2>5, <2>11 DEF StepsFit, Busy, Source
    <3>6. RootFits'
      BY <2>2, <3>4 DEF RootFits
    <3>7. FilesFit(i)'
      BY <2>2, <2>4, <2>5, <2>6, <2>11, <3>2, <3>4, <3>5 DEF FilesFit, Linux
    <3> QED
      BY <2>7, <3>6, <3>7 DEF Undisturbed
  <2>12. CASE WriteToml(i)
    <3>1. s = "writeToml" /\ root'.mihomo = root.mihomo /\ root'.script = root.script
      BY <2>2, <2>5, <2>12 DEF WriteToml, Elevates, Doing
    <3>2. CASE Linux
      <4>1. root'.toml = originals[i].mihomo /\ step'[i] = "verifyInstalled"
        BY <2>2, <2>3, <2>5, <2>12, <3>1, <3>2 DEF WriteToml, Linux, After
      <4> QED
        BY <2>2, <2>6, <2>7, <2>8, <3>1, <3>2, <4>1 DEF FilesFit, Linux, Undisturbed
    <3>3. CASE kind = "macos"
      <4>1. root'.toml = payload.toml /\ step'[i] = "stop"
        BY <2>3, <2>5, <2>12, <3>1, <3>3 DEF WriteToml, Linux, After
      <4>2. payload.toml = root.mihomo /\ root.mihomo \in Whole
        BY <2>2, <2>5, <3>1, <3>3 DEF FilesFit
      <4>3. DigestFits'
        BY <3>1, <4>1, <4>2 DEF DigestFits
      <4> QED
        BY <2>2, <2>7, <2>8, <3>1, <3>3, <4>1, <4>3 DEF FilesFit, Linux, Undisturbed
    <3>4. CASE kind = "windows"
      <4>1. root'.toml = root.mihomo /\ step'[i] = "restart"
        BY <2>3, <2>5, <2>12, <3>1, <3>4 DEF WriteToml, Linux, After
      <4>2. root.mihomo \in Whole
        BY <2>2, <2>5, <3>1, <3>4 DEF FilesFit
      <4>3. DigestFits'
        BY <3>1, <4>1, <4>2 DEF DigestFits
      <4> QED
        BY <2>2, <2>7, <2>8, <3>1, <3>4, <4>1, <4>3 DEF FilesFit, Linux, Undisturbed
    <3> QED
      BY <1>0, <3>2, <3>3, <3>4 DEF Linux
  <2>13. CASE VerifyInstalled(i)
    <3>1. /\ s = "verifyInstalled" /\ root' = root /\ step'[i] = "restart" /\ root.mihomo = originals[i].mihomo
          /\ Linux
      BY <1>0, <2>2, <2>3, <2>5, <2>13 DEF VerifyInstalled, Elevates, Doing, filesVars, After, Straight, StepsFit, Linux
    <3>2. DigestFits'
      BY <2>2, <2>5, <2>6, <3>1 DEF FilesFit, DigestFits
    <3>3. FilesFit(i)'
      BY <2>2, <2>6, <3>1, <3>2 DEF FilesFit, Linux
    <3> QED
      BY <2>7, <2>8, <3>1, <3>3 DEF Undisturbed
  <2>14. CASE StopHelper(i)
    <3>1. s = "stop" /\ root' = root /\ ~Linux
      BY <1>0, <2>2, <2>5, <2>14 DEF StopHelper, Elevates, Doing, StepsFit
    <3>2. step'[i] = IF kind = "macos" THEN "restart" ELSE "installHelper"
      BY <2>3, <3>1 DEF After
    <3>3. kind = "macos" => DigestFits'
      BY <2>2, <2>5, <3>1 DEF FilesFit, DigestFits
    <3>4. kind = "windows" => staging' = {}
      BY <1>0, <2>2 DEF ReleasesFit
    <3>5. FilesFit(i)'
      BY <1>0, <2>2, <3>1, <3>2, <3>3, <3>4 DEF FilesFit, Linux
    <3> QED
      BY <2>7, <2>8, <3>1, <3>5 DEF Undisturbed
  <2>15. InstallFile(i) => s \in {"installHelper", "installMihomo"}
    BY <2>2 DEF InstallFile, Elevates, Doing
  <2> QED
    BY <1>3, <2>9, <2>10, <2>11, <2>12, <2>13, <2>14, <2>15
<1>4. ASSUME NEW i \in Installers, RestartHelper(i) PROVE Undisturbed'
  <2>1. /\ UNCHANGED <<kind, unpacked, root, staging, originals>> /\ done' = {}
        /\ service' = Boots /\ service' # NoHelper /\ step[i] = "restart" /\ Proceeds(i)
    BY <1>4 DEF RestartHelper, releaseVars, Doing
  <2>2. step'[i] = After(i, "restart") /\ \A j \in Installers \ {i} : step'[j] = step[j]
    BY <2>1, Installing DEF AllSteps, ElevatedSteps
  <2>3. step'[i] \in {"wait", "none"}
    BY <2>2 DEF After
  <2>4. DigestFits /\ (Linux => originals[i].mihomo \in Whole)
    BY <1>0, <2>1 DEF FilesFit, Busy
  <2>5. DigestFits' /\ Serves'
    BY <2>1, <2>4 DEF DigestFits, Serves, Boots
  <2>6. RootFits'
    BY <1>0, <2>1 DEF RootFits
  <2>7. FilesFit(i)'
    BY <2>1, <2>3, <2>4, <2>5 DEF FilesFit, Linux
  <2>8. Alone' /\ \A j \in Installers \ {i} : FilesFit(j)'
    BY <1>0, <2>1, <2>2, OthersRest DEF Busy
  <2> QED
    BY <2>6, <2>7, <2>8 DEF Undisturbed
<1>5. ASSUME NEW i \in Installers, WaitForHelper(i) PROVE Undisturbed'
  <2>1. /\ UNCHANGED <<kind, unpacked, root, payload, service, staging, originals>> /\ done' = done \union {i}
        /\ step[i] = "wait" /\ step' = [step EXCEPT ![i] = "none"]
    BY <1>5 DEF WaitForHelper, releaseVars, filesVars, Doing, Proceeds, After, Straight
  <2>2. step'[i] = "none" /\ \A j \in Installers \ {i} : step'[j] = step[j]
    BY <1>0, <2>1 DEF ProvisionTypeOK
  <2>3. DigestFits /\ Serves
    BY <1>0, <2>1 DEF FilesFit
  <2>4. RootFits'
    BY <1>0, <2>1, <2>3 DEF RootFits, DigestFits, Serves
  <2>5. FilesFit(i)'
    BY <2>2 DEF FilesFit, Busy
  <2>6. Alone' /\ \A j \in Installers \ {i} : FilesFit(j)'
    BY <1>0, <2>1, <2>2, OthersRest DEF Busy
  <2> QED
    BY <2>4, <2>5, <2>6 DEF Undisturbed
<1>6. ASSUME UNCHANGED <<kind, unpacked, root, originals, staging>>, DigestFits /\ Serves => Serves', done' \subseteq done,
             \A j \in Installers : step'[j] \in {step[j], "none"} /\ (payload' = payload \/ step'[j] = "none")
      PROVE  Undisturbed'
  <2>1. Alone'
    BY <1>0, <1>6 DEF Alone, Busy
  <2>2. RootFits'
    BY <1>0, <1>6 DEF RootFits, DigestFits
  <2>3. \A j \in Installers : FilesFit(j)'
    BY <1>0, <1>6, FilesStay
  <2> QED
    BY <2>1, <2>2, <2>3 DEF Undisturbed
<1>7. ASSUME NEW i \in Installers, InstallFails(i) PROVE Undisturbed'
  <2>1. /\ UNCHANGED <<kind, unpacked, root, service, originals, staging, done>> /\ step[i] # "none"
        /\ step' = [step EXCEPT ![i] = "none"]
    BY <1>7 DEF InstallFails, Busy, releaseVars
  <2>2. step'[i] = "none" /\ \A j \in Installers \ {i} : step'[j] = step[j] /\ step'[j] = "none"
    BY <1>0, <2>1 DEF ProvisionTypeOK, Alone, Busy
  <2>3. UNCHANGED Serves
    BY <2>1 DEF Serves
  <2> QED
    BY <1>6, <2>1, <2>2, <2>3
<1>8. CASE PrepareStackStart \/ WriteMihomo \/ PrepareHasMihomo \/ Prepared \/ RefreshHealth \/ UNCHANGED provisionVars
  <2>1. UNCHANGED <<kind, unpacked, root, service, originals, staging, done, step, payload>>
    BY <1>8 DEF PrepareStackStart, WriteMihomo, PrepareHasMihomo, Prepared, RefreshHealth, provisionVars,
       releaseVars, filesVars, installVars
  <2>2. UNCHANGED Serves
    BY <2>1 DEF Serves
  <2> QED
    BY <1>6, <2>1, <2>2
<1>9. CASE HelperDies \/ HelperStarts
  <2>1. UNCHANGED <<kind, unpacked, root, originals, staging, done, step, payload>>
    BY <1>9 DEF HelperDies, HelperStarts, releaseVars, installVars
  <2>2. service' \in {NoHelper, Boots}
    BY <1>9 DEF HelperDies, HelperStarts
  <2>3. DigestFits => Serves'
    BY <2>1, <2>2 DEF DigestFits, Serves, Boots
  <2> QED
    BY <1>6, <2>1, <2>3
<1>10. CASE AppRestarts
  <2>1. UNCHANGED <<kind, unpacked, root, service, payload, originals, staging, done>> /\ step' = LeftElevated
    BY <1>10 DEF AppRestarts, Restarts, filesVars
  <2>2. UNCHANGED Serves
    BY <2>1 DEF Serves
  <2> QED
    BY <1>0, <1>6, <2>1, <2>2, Leaving
<1>11. CASE Updates
  <2>1. UNCHANGED <<payload, service, kind, staging, originals>> /\ done' = {} /\ packaged' = packaged + 1
    BY <1>11 DEF Updates, Restarts
  <2>2. CASE kind = "deb"
    <3>1. unpacked' /\ UNCHANGED step /\ root' = [root EXCEPT !.helper = packaged', !.mihomo = packaged']
      BY <1>11, <2>2 DEF Updates
    <3>2. root'.mihomo = packaged' /\ root'.toml = root.toml /\ packaged' \in Whole
      <4>1. root'.mihomo = packaged' /\ root'.toml = root.toml
        BY <1>0, <3>1 DEF ProvisionTypeOK
      <4> QED
        BY <4>1 DEF Base, ProvisionTypeOK
    <3>3. RootFits' /\ (DigestFits => DigestFits') /\ Serves' /\ Alone'
      BY <1>0, <2>1, <2>2, <3>1, <3>2 DEF RootFits, DigestFits, Serves, Alone, Busy
    <3>4. staging = {}
      BY <1>0, <2>2 DEF ReleasesFit
    <3>5. ASSUME NEW j \in Installers PROVE FilesFit(j)'
      <4>1. FilesFit(j)
        BY <1>0
      <4> QED
        BY <2>1, <2>2, <3>1, <3>2, <3>3, <3>4, <4>1 DEF FilesFit, Linux, Busy
    <3> QED
      BY <3>3, <3>5 DEF Undisturbed
  <2>3. CASE kind \in {"appimage", "macos"}
    <3>1. UNCHANGED <<unpacked, root>> /\ step' = LeftElevated
      BY <1>11, <2>3 DEF Updates
    <3>2. UNCHANGED Serves
      BY <2>1, <3>1 DEF Serves
    <3> QED
      BY <1>0, <1>6, <2>1, <3>1, <3>2, Leaving
  <2>4. CASE kind = "windows"
    <3>1. /\ UNCHANGED <<unpacked, root>> /\ step' = SetupInstalls(LeftElevated)
          /\ \A i \in Installers : ~Elevated(i)
      BY <1>11, <2>4 DEF Updates
    <3>2. \A i \in Installers : step'[i] = IF i = "setup" THEN "stop" ELSE "none"
      BY <1>0, <3>1, Leaving
    <3>3. staging = {}
      BY <1>0, <2>4 DEF ReleasesFit
    <3>4. RootFits'
      BY <1>0, <2>1, <2>4, <3>1 DEF RootFits
    <3>5. Alone'
      BY <3>2 DEF Alone, Busy
    <3>6. ASSUME NEW j \in Installers PROVE FilesFit(j)'
      BY <2>1, <2>4, <3>2, <3>3 DEF FilesFit, Linux, Busy
    <3> QED
      BY <3>4, <3>5, <3>6 DEF Undisturbed
  <2> QED
    BY <1>0, <2>2, <2>3, <2>4
<1>12. CASE Postinst
  <2>1. /\ UNCHANGED <<kind, payload, step, staging, originals>> /\ done' = {} /\ unpacked
    BY <1>12 DEF Postinst
  <2>2. kind = "deb" /\ root.mihomo \in Whole /\ staging = {}
    BY <1>0, <2>1 DEF ReleasesFit, RootFits
  <2>3. CASE root.toml = Missing /\ unpacked' = FALSE /\ UNCHANGED <<root, service>>
    <3>1. RootFits' /\ Alone'
      BY <1>0, <2>1, <2>3 DEF RootFits, Alone, Busy
    <3>2. ASSUME NEW j \in Installers PROVE FilesFit(j)'
      <4>1. FilesFit(j) /\ ~DigestFits
        BY <1>0, <2>3 DEF DigestFits
      <4> QED
        BY <2>1, <2>2, <2>3, <4>1 DEF FilesFit, Linux, Busy
    <3> QED
      BY <3>1, <3>2 DEF Undisturbed
  <2>4. CASE /\ root' = [root EXCEPT !.toml = root.mihomo]
             /\ \/ unpacked' = FALSE /\ service' = [helper |-> root.helper, digest |-> root.mihomo]
                \/ UNCHANGED unpacked /\ service' \in {service, NoHelper}
    <3>1. root'.mihomo = root.mihomo /\ root'.toml = root.mihomo /\ root'.script = root.script
      BY <1>0, <2>4 DEF ProvisionTypeOK
    <3>2. unpacked' \/ service' = [helper |-> root.helper, digest |-> root.mihomo]
      BY <2>1, <2>4, Zenon
    <3>3. DigestFits'
      BY <2>2, <3>1 DEF DigestFits
    <3>4. Serves'
      BY <3>1, <3>2 DEF Serves
    <3>5. RootFits' /\ Alone'
      BY <1>0, <2>1, <3>1 DEF RootFits, Alone, Busy
    <3>6. ASSUME NEW j \in Installers PROVE FilesFit(j)'
      <4>1. FilesFit(j)
        BY <1>0
      <4> QED
        BY <2>1, <2>2, <3>1, <3>3, <3>4, <4>1 DEF FilesFit, Linux, Busy
    <3> QED
      BY <3>5, <3>6 DEF Undisturbed
  <2> QED
    BY <1>12, <2>3, <2>4 DEF Postinst
<1>13. ASSUME NEW i \in Installers,
              \/ ClearPayload(i) \/ CopyStarts(i) \/ CopyEnds(i) \/ VerifyCopies(i) \/ Prompt(i) \/ InstallFails(i)
              \/ VerifySource(i) \/ InstallFile(i) \/ WriteToml(i) \/ VerifyInstalled(i) \/ StopHelper(i)
              \/ RestartHelper(i) \/ WaitForHelper(i)
       PROVE  Undisturbed'
  <2>1. CASE ClearPayload(i) \/ CopyStarts(i) \/ CopyEnds(i) \/ VerifyCopies(i) \/ Prompt(i)
    BY <1>2, <2>1
  <2>2. CASE VerifySource(i) \/ InstallFile(i) \/ WriteToml(i) \/ VerifyInstalled(i) \/ StopHelper(i)
    BY <1>3, <2>2
  <2> QED
    BY <1>4, <1>5, <1>7, <1>13, <2>1, <2>2, Zenon
<1>14. CASE InstallHelper \/ PrepareInstallsHelper
  BY <1>1, <1>14 DEF InstallHelper, PrepareInstallsHelper
<1> QED
  BY <1>8, <1>9, <1>10, <1>11, <1>12, <1>13, <1>14 DEF ProvisionNext

\* Two installations that were at once are not undone.
LEMMA StaysDisturbed == Base /\ disturbed /\ [ProvisionNext]_provisionVars => disturbed'
<1> SUFFICES ASSUME Base, disturbed, [ProvisionNext]_provisionVars PROVE disturbed'
  OBVIOUS
<1>1. CASE \E i \in Installers : \/ ClearPayload(i) \/ CopyStarts(i) \/ CopyEnds(i) \/ VerifyCopies(i) \/ Prompt(i)
                                \/ InstallFails(i)
  BY <1>1 DEF ClearPayload, CopyStarts, CopyEnds, VerifyCopies, Prompt, InstallFails, Stages
<1>2. CASE \E i \in Installers : \/ VerifySource(i) \/ InstallFile(i) \/ WriteToml(i) \/ VerifyInstalled(i)
                                \/ StopHelper(i) \/ RestartHelper(i) \/ WaitForHelper(i)
  BY <1>2 DEF VerifySource, InstallFile, WriteToml, VerifyInstalled, StopHelper, RestartHelper, WaitForHelper, Elevates
<1>3. CASE InstallHelper \/ PrepareInstallsHelper
  BY <1>3 DEF InstallHelper, PrepareInstallsHelper, Begins
<1>4. CASE \/ PrepareStackStart \/ WriteMihomo \/ PrepareHasMihomo \/ Prepared \/ RefreshHealth
           \/ HelperDies \/ HelperStarts \/ AppRestarts \/ Updates \/ Postinst \/ UNCHANGED provisionVars
  BY <1>4 DEF PrepareStackStart, WriteMihomo, PrepareHasMihomo, Prepared, RefreshHealth, HelperDies, HelperStarts,
     AppRestarts, Updates, Postinst, provisionVars, installVars
<1> QED
  BY <1>1, <1>2, <1>3, <1>4 DEF ProvisionNext

\* What a reader is promised follows.
LEMMA ProvisionFollows == ProvisionInv => ProvisionInvariant
<1> SUFFICES ASSUME ProvisionInv PROVE ProvisionInvariant
  OBVIOUS
<1>1. ProvisionTypeOK
  BY DEF ProvisionInv, Base
<1>2. SuccessfulInstallServes
  BY DEF ProvisionInv, Undisturbed, RootFits, DigestFits, Serves, SuccessfulInstallServes, Startable
<1>3. PreparedHelperMatches
  BY DEF ProvisionInv, HelpersFit, Promised, Renewed, PreparedHelperMatches
<1> QED
  BY <1>1, <1>2, <1>3 DEF ProvisionInvariant

\* A successful installation leaves a helper that serves what is installed,
\* and a connect that was prepared meets no helper of an older release
\* (helper_install.rs, prepare_stack_start), however the application was
\* installed, updated and restarted, for any number of releases.
THEOREM ProvisionInvariantHolds == ProvisionSpec => []ProvisionInvariant
<1>1. ProvisionInv /\ [ProvisionNext]_provisionVars => ProvisionInv'
  <2> SUFFICES ASSUME ProvisionInv, [ProvisionNext]_provisionVars PROVE ProvisionInv'
    OBVIOUS
  <2>1. Base' /\ HelpersFit'
    BY BaseKept, HelpersKept DEF ProvisionInv
  <2>2. disturbed \in BOOLEAN /\ disturbed' \in BOOLEAN
    BY <2>1 DEF ProvisionInv, Base, ProvisionTypeOK
  <2>3. CASE ~disturbed'
    BY <2>1, <2>2, <2>3, StaysDisturbed, UndisturbedKept DEF ProvisionInv
  <2> QED
    BY <2>1, <2>3 DEF ProvisionInv
<1> QED
  BY <1>1, ProvisionAtFirst, ProvisionFollows, PTL DEF ProvisionSpec
=============================================================================
