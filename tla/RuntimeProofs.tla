--------------------------- MODULE RuntimeProofs ---------------------------
(***************************************************************************)
(* Proofs about what runs beside the engine: the health task, for any      *)
(* number of connects, any threshold and any number of attempts; and the   *)
(* side tunnels of the helper, for any connections and any clients.        *)
(***************************************************************************)
EXTENDS HealthLoop, SideTunnels, TLAPS

-----------------------------------------------------------------------------
(* The health task.                                                        *)

\* What the health task is about to publish is what it sampled of the MATCH rule.
HealthInv == HealthInvariant /\ (at = "publish" => seen \in Matches)

\* What is counted up to a bound stays within it.
LEMMA AtMostBounds ==
  ASSUME NEW bound \in Nat, NEW n \in 0..bound
  PROVE  /\ AtMost(n + 1, bound) \in 0..bound
         /\ n + 1 >= bound => AtMost(n + 1, bound) >= bound
BY DEF AtMost

\* Every step of the health task, of the worker and of the world beside them
\* keeps the types and the reason of a degradation.
LEMMA HealthStep == HealthInv /\ [HealthNext]_healthVars => HealthInv'
<1> SUFFICES ASSUME HealthInv, [HealthNext]_healthVars PROVE HealthInv'
  OBVIOUS
<1>0. MaxRuns \in Nat /\ Threshold \in Nat /\ Attempts \in Nat
  BY HealthAssumption
<1> DEFINE FlagsFit == pending' \in BOOLEAN /\ flag' \in BOOLEAN
           MachineFits == up' \in BOOLEAN /\ proxy' \in BOOLEAN
           PlacesFit ==
              /\ phase' \in Settled \union {"Working"} /\ busy' \in {"None", "Op", "Apply"}
              /\ shown' \in Matches /\ match' \in Matches
              /\ client' \in ClientStates /\ egress' \in Egresses
              /\ at' \in TickPlaces /\ seen' \in Matches \union Egresses /\ run' \in 0..MaxRuns
           CountsFit == attempts' \in 0..Attempts /\ failures' \in 0..Threshold
           ReasonsFit == /\ at' = "degrade" => failures' >= Threshold
                         /\ at' = "publish" => seen' \in Matches
<1> USE <1>0
        DEF HealthInv, HealthInvariant, HealthTypeOK, DegradedByOutage, snapshot, machine, flags, Settled,
            TickPlaces, ClientStates, Matches, Egresses, TickGoes, KeepsFlags, SetsPending, Live
<1>1. CASE Reserve
  BY <1>1 DEF Reserve
<1>2. CASE Announce
  BY <1>2 DEF Announce
<1>3. CASE Connected
  BY <1>3 DEF Connected
<1>4. CASE Disconnected
  <2>1. up' \in BOOLEAN
    BY <1>4 DEF Disconnected
  <2>2. phase' \in Settled /\ client' \in ClientStates /\ match' \in Matches
    BY <1>4 DEF Disconnected
  <2>3. UNCHANGED <<pending, flag, proxy, attempts, failures, at, run, seen, shown, egress>>
    BY <1>4 DEF Disconnected
  <2>4. busy' = "None"
    BY <1>4 DEF Disconnected
  <2> QED
    BY <2>1, <2>2, <2>3, <2>4
<1>5. CASE ClientServes
  BY <1>5 DEF ClientServes
<1>6. CASE EgressChanges
  BY <1>6 DEF EgressChanges
<1>7. CASE HiddifySetsProxy
  BY <1>7 DEF HiddifySetsProxy
<1>8. CASE TickBegins
  BY <1>8 DEF TickBegins
<1>9. CASE RuntimeHealth
  BY <1>9 DEF RuntimeHealth
<1>10. CASE PublishHealth
  BY <1>10 DEF PublishHealth
<1>11. CASE ClearSystemProxy
  <2>1. FlagsFit
    BY <1>11 DEF ClearSystemProxy
  <2>2. MachineFits
    BY <1>11 DEF ClearSystemProxy
  <2>3. PlacesFit
    BY <1>11 DEF ClearSystemProxy
  <2>4. CountsFit
    BY <1>11 DEF ClearSystemProxy
  <2>5. ReasonsFit
    BY <1>11 DEF ClearSystemProxy
  <2> QED
    BY <2>1, <2>2, <2>3, <2>4, <2>5
<1>12. CASE RecoverClients
  <2>1. FlagsFit
    BY <1>12 DEF RecoverClients
  <2>2. MachineFits
    BY <1>12 DEF RecoverClients
  <2>3. PlacesFit
    BY <1>12 DEF RecoverClients
  <2>4. CountsFit
    BY <1>12 DEF RecoverClients
  <2>5. ReasonsFit
    BY <1>12 DEF RecoverClients
  <2> QED
    BY <2>1, <2>2, <2>3, <2>4, <2>5
<1>13. CASE ProbePrimaryEgress
  BY <1>13 DEF ProbePrimaryEgress
<1>14. CASE ProbeFailed
  <2>1. FlagsFit
    BY <1>14 DEF ProbeFailed
  <2>2. MachineFits
    BY <1>14 DEF ProbeFailed
  <2>3. PlacesFit
    BY <1>14 DEF ProbeFailed
  <2>4. CountsFit
    BY <1>14, AtMostBounds DEF ProbeFailed
  <2>5. ReasonsFit
    BY <1>14, AtMostBounds DEF ProbeFailed
  <2> QED
    BY <2>1, <2>2, <2>3, <2>4, <2>5
<1>15. CASE ProbeSucceeded
  <2>1. FlagsFit
    BY <1>15 DEF ProbeSucceeded
  <2>2. MachineFits
    BY <1>15 DEF ProbeSucceeded
  <2>3. PlacesFit
    BY <1>15 DEF ProbeSucceeded
  <2>4. CountsFit
    BY <1>15 DEF ProbeSucceeded
  <2>5. ReasonsFit
    BY <1>15 DEF ProbeSucceeded
  <2> QED
    BY <2>1, <2>2, <2>3, <2>4, <2>5
<1>16. CASE NothingToProbe
  <2>1. FlagsFit
    BY <1>16 DEF NothingToProbe
  <2>2. MachineFits
    BY <1>16 DEF NothingToProbe
  <2>3. PlacesFit
    BY <1>16 DEF NothingToProbe
  <2>4. CountsFit
    BY <1>16 DEF NothingToProbe
  <2>5. ReasonsFit
    BY <1>16 DEF NothingToProbe
  <2> QED
    BY <2>1, <2>2, <2>3, <2>4, <2>5
<1>17. CASE PublishDegraded
  BY <1>17 DEF PublishDegraded
<1>18. CASE PublishRecovered
  BY <1>18 DEF PublishRecovered
<1>19. CASE BackendRecovers
  <2>1. FlagsFit
    BY <1>19 DEF BackendRecovers
  <2>2. MachineFits
    BY <1>19 DEF BackendRecovers
  <2>3. PlacesFit
    BY <1>19 DEF BackendRecovers
  <2>4. CountsFit
    BY <1>19 DEF BackendRecovers
  <2>5. ReasonsFit
    BY <1>19 DEF BackendRecovers
  <2> QED
    BY <2>1, <2>2, <2>3, <2>4, <2>5
<1>20. CASE ReconcileMatch
  <2>1. FlagsFit
    BY <1>20 DEF ReconcileMatch
  <2>2. MachineFits
    BY <1>20 DEF ReconcileMatch
  <2>3. PlacesFit
    BY <1>20 DEF ReconcileMatch
  <2>4. CountsFit
    BY <1>20, AtMostBounds DEF ReconcileMatch
  <2>5. ReasonsFit
    BY <1>20, AtMostBounds DEF ReconcileMatch
  <2> QED
    BY <2>1, <2>2, <2>3, <2>4, <2>5
<1>21. CASE ApplySkipped
  <2>1. FlagsFit
    BY <1>21 DEF ApplySkipped
  <2>2. MachineFits
    BY <1>21 DEF ApplySkipped
  <2>3. PlacesFit
    BY <1>21 DEF ApplySkipped
  <2>4. CountsFit
    BY <1>21 DEF ApplySkipped
  <2>5. ReasonsFit
    BY <1>21 DEF ApplySkipped
  <2> QED
    BY <2>1, <2>2, <2>3, <2>4, <2>5
<1>22. CASE ApplyRefused
  BY <1>22 DEF ApplyRefused
<1>23. CASE ApplyBegins
  BY <1>23 DEF ApplyBegins
<1>24. CASE ApplySucceeds
  <2>1. FlagsFit
    BY <1>24 DEF ApplySucceeds
  <2>2. MachineFits
    BY <1>24 DEF ApplySucceeds
  <2>3. PlacesFit
    BY <1>24 DEF ApplySucceeds
  <2>4. CountsFit
    BY <1>24 DEF ApplySucceeds
  <2>5. ReasonsFit
    BY <1>24 DEF ApplySucceeds
  <2> QED
    BY <2>1, <2>2, <2>3, <2>4, <2>5
<1>25. CASE ApplyFails
  BY <1>25 DEF ApplyFails
<1>26. CASE UNCHANGED healthVars
  BY <1>26 DEF healthVars
<1> QED
  BY <1>1, <1>2, <1>3, <1>4, <1>5, <1>6, <1>7, <1>8, <1>9, <1>10, <1>11, <1>12, <1>13,
     <1>14, <1>15, <1>16, <1>17, <1>18, <1>19, <1>20, <1>21, <1>22, <1>23, <1>24, <1>25, <1>26
     DEF HealthNext, WorkerEnds, TickStep

\* The egress watchdog degrades the stack only after Threshold probes have failed
\* since the last answer, whatever operations do between a probe and its verdict.
THEOREM HealthInvariantHolds == HealthSpec => []HealthInvariant
<1>1. HealthInit => HealthInv
  <2> SUFFICES ASSUME HealthInit PROVE HealthInv
    OBVIOUS
  <2> USE DEF HealthInit, HealthInv, HealthInvariant, HealthTypeOK, DegradedByOutage, Settled,
              TickPlaces, ClientStates, Matches, Egresses
  <2>1. /\ up \in BOOLEAN /\ proxy \in BOOLEAN /\ pending \in BOOLEAN /\ flag \in BOOLEAN
    OBVIOUS
  <2>2. attempts \in 0..Attempts /\ failures \in 0..Threshold /\ run \in 0..MaxRuns
    BY HealthAssumption
  <2> QED
    BY <2>1, <2>2
<1>2. HealthInv => HealthInvariant
  BY DEF HealthInv
<1> QED
  BY <1>1, <1>2, HealthStep, PTL DEF HealthSpec

-----------------------------------------------------------------------------
(* The side tunnels.  The inductive invariant: who holds which process.     *)

HoldingPlaces == {"unscope", "unrule", "unroute", "kill", "wait", "scope", "rerule", "reroute",
                  "route", "rule", "insert", "fail"}
StartPlaces == {"stage", "spawn", "wait", "scope", "rerule", "reroute", "route", "rule",
                "insert", "fail"}

\* A command holds a process exactly where it has one to end or to record, and
\* only one of its own client.
TaskFits(e) ==
    /\ e \in SideTasks
    /\ e.at \in HoldingPlaces <=> e.pid # NoPid
    /\ e.pid # NoPid => e.pid[1] = e.client
    /\ e.at # "idle" => e.client \in Clients
    /\ e.at \in StartPlaces => e.name = "Start"
    /\ e.at = "done" => e.name = "StopAll" /\ e.left = {}
TasksFit == \A t \in Tasks : TaskFits(task[t])

\* Records and adapters are of processes of their client.
RecordsFit ==
    \A c \in Clients : /\ tunnels[c] # NoPid => tunnels[c][1] = c
                       /\ device[c] # NoPid => device[c][1] = c

\* No process is held twice.
OneHolder ==
    /\ \A t, u \in Tasks : t # u /\ task[t].pid = task[u].pid => task[t].pid = NoPid
    /\ \A t \in Tasks, c \in Clients : task[t].pid = tunnels[c] => tunnels[c] = NoPid

RoutingPlaces == {"wait", "scope", "rerule", "reroute", "route", "fail"}
RulePlaces == {"insert", "unscope", "unrule"}

\* An on-link TAP adapter belongs to a start that has not routed it yet.
TapWatched ==
    /\ os = "linux" => tap = {}
    /\ \A c \in tap :
          /\ device[c] # NoPid
          /\ adapter[c] = "onlink" =>
                \E t \in Tasks : task[t].pid = device[c] /\ task[t].at \in RoutingPlaces

SideInv ==
    /\ SideTypeOK /\ TasksFit /\ RecordsFit /\ OneHolder /\ TapWatched
    /\ TunnelsAccounted /\ RuleAccounted

\* What a command knows that nobody ran beside: a stop of all tunnels, which
\* tunnels are left; a start, that the table is its own, and the rule is there.
StopsTheRest(t) ==
    task[t].name = "StopAll" =>
    \A c \in Clients : tunnels[c] # NoPid =>
       c \in task[t].left \/ (At(t, "remove") /\ c = Client(t))
RoutesItself(t) ==
    os = "linux" /\ task[t].at \in {"rule", "insert"} /\ device[Client(t)] # NoPid =>
    table = Client(t) /\ (At(t, "insert") => rule)
LoneInv ==
    \A t \in Tasks : task[t].alone /\ Busy(t) =>
       (\A u \in Tasks \ {t} : ~Busy(u)) /\ StopsTheRest(t) /\ RoutesItself(t)

\* A process is a pair of its client and a number, and never the absent one.
LEMMA PidsArePairs ==
  /\ \A c \in Clients, n \in 1..Runs :
        <<c, n>> \in Pids /\ <<c, n>> # NoPid /\ <<c, n>>[1] = c
  /\ NoPid \notin Pids
BY DEF Pids, NoPid

OneMoves(t) == task' = [task EXCEPT ![t] = task'[t]]

\* Going to another place changes nothing else.
LEMMA GoesFits ==
  ASSUME SideInv, NEW t \in Tasks, NEW place \in Places, Goes(t, place), Busy(t),
         place \notin {"idle", "done"},
         place \in HoldingPlaces <=> task[t].at \in HoldingPlaces,
         place \in StartPlaces => task[t].name = "Start"
  PROVE  /\ OneMoves(t) /\ TaskFits(task'[t])
         /\ task'[t].at = place /\ task'[t].pid = task[t].pid
         /\ task'[t].client = task[t].client /\ task'[t].name = task[t].name
         /\ task'[t].left = task[t].left /\ task'[t].alone = task[t].alone
<1>1. task \in [Tasks -> SideTasks] /\ TaskFits(task[t])
  BY DEF SideInv, SideTypeOK, TasksFit
<1>2. task'[t] = [task[t] EXCEPT !.at = place]
  BY <1>1 DEF Goes
<1>3. task' = [task EXCEPT ![t] = [task[t] EXCEPT !.at = place]]
  BY <1>1 DEF Goes
<1>4. task'[t] \in SideTasks
  BY <1>1, <1>2 DEF SideTasks
<1> QED
  BY <1>1, <1>2, <1>3, <1>4 DEF OneMoves, TaskFits, Busy, At, SideTasks

\* A command that ends holds nothing.
LEMMA EndsFits ==
  ASSUME SideInv, NEW t \in Tasks, Ends(t), Busy(t), task[t].name = "StopAll" => task[t].left = {}
  PROVE  /\ OneMoves(t) /\ TaskFits(task'[t]) /\ task'[t].pid = NoPid
         /\ task'[t].at \in {"idle", "done"}
         /\ task'[t].at = "done" => /\ task'[t].name = "StopAll" /\ task'[t].left = {}
                                    /\ task'[t].alone = task[t].alone
                                    /\ task[t].left = {}
<1>1. task \in [Tasks -> SideTasks] /\ TaskFits(task[t])
  BY DEF SideInv, SideTypeOK, TasksFit
<1>2. CASE task[t].name # "StopAll"
  <2>1. task'[t] = IdleTask /\ OneMoves(t)
    BY <1>1, <1>2 DEF Ends, OneMoves
  <2>2. TaskFits(IdleTask)
    BY DEF TaskFits, IdleTask, SideTasks, HoldingPlaces, StartPlaces, Names, Places
  <2> QED
    BY <2>1, <2>2 DEF IdleTask
<1>3. CASE task[t].name = "StopAll"
  <2>1. task'[t] = [task[t] EXCEPT !.at = "done", !.pid = NoPid] /\ OneMoves(t)
    BY <1>1, <1>3 DEF Ends, OneMoves
  <2>2. task'[t] \in SideTasks
    BY <1>1, <2>1 DEF SideTasks, TaskFits, Places
  <2> QED
    BY <1>1, <1>3, <2>1, <2>2 DEF TaskFits, SideTasks, HoldingPlaces, StartPlaces, Busy, At
<1> QED
  BY <1>2, <1>3

\* Taking the next of all tunnels makes a command again.
LEMMA NextOfAll ==
  ASSUME NEW e \in SideTasks, NEW c \in Clients
  PROVE  [e EXCEPT !.at = "remove", !.client = c, !.left = e.left \ {c}, !.pid = NoPid] \in SideTasks
<1>1. [e EXCEPT !.at = "remove"] \in SideTasks
  BY DEF SideTasks, Places
<1>2. \A f \in SideTasks : [f EXCEPT !.client = c] \in SideTasks
  BY DEF SideTasks
<1>3. \A f \in SideTasks : [f EXCEPT !.pid = NoPid] \in SideTasks
  BY DEF SideTasks
<1>4. \A f \in SideTasks : [f EXCEPT !.left = e.left \ {c}] \in SideTasks
  BY DEF SideTasks
<1>5. [e EXCEPT !.at = "remove", !.client = c, !.left = e.left \ {c}, !.pid = NoPid]
        = [[[[e EXCEPT !.at = "remove"] EXCEPT !.client = c] EXCEPT !.left = e.left \ {c}]
             EXCEPT !.pid = NoPid]
  OBVIOUS
<1> QED
  BY <1>1, <1>2, <1>3, <1>4, <1>5

\* After a stop, the command goes on to its start, to the next tunnel, or ends.
LEMMA AfterStopFits ==
  ASSUME SideInv, NEW t \in Tasks, NEW ok \in BOOLEAN, AfterStop(t, ok),
         task[t].at \in {"remove", "kill"}
  PROVE  /\ OneMoves(t) /\ TaskFits(task'[t]) /\ task'[t].pid = NoPid
         /\ task'[t].at \in {"stage", "remove", "idle", "done"}
         /\ task'[t].at \in {"remove", "done"} =>
               /\ task'[t].alone = task[t].alone /\ task'[t].name = "StopAll"
               /\ task[t].left \subseteq task'[t].left \union
                     (IF task'[t].at = "remove" THEN {task'[t].client} ELSE {})
         /\ task'[t].at = "stage" => task'[t].name = "Start" /\ task'[t].alone = task[t].alone
<1>1. task \in [Tasks -> SideTasks] /\ TaskFits(task[t]) /\ Busy(t)
  BY DEF SideInv, SideTypeOK, TasksFit, Busy, At
<1>2. CASE task[t].name = "Start" /\ ok
  <2>1. task' = [task EXCEPT ![t].at = "stage", ![t].pid = NoPid]
    BY <1>2 DEF AfterStop
  <2>2. task'[t] = [task[t] EXCEPT !.at = "stage", !.pid = NoPid] /\ OneMoves(t)
    BY <1>1, <2>1 DEF OneMoves
  <2>3. task'[t] \in SideTasks
    BY <1>1, <2>2 DEF SideTasks, Places
  <2>4. /\ task'[t].at = "stage" /\ task'[t].pid = NoPid /\ task'[t].name = task[t].name
        /\ task'[t].client = task[t].client /\ task'[t].alone = task[t].alone
    BY <1>1, <2>2 DEF SideTasks
  <2>5. TaskFits(task'[t])
    BY <1>1, <1>2, <2>3, <2>4 DEF TaskFits, HoldingPlaces, StartPlaces, Busy, At
  <2> QED
    BY <1>2, <2>2, <2>4, <2>5
<1>3. CASE task[t].name = "StopAll" /\ task[t].left # {}
  <2>1. PICK c \in task[t].left :
           task' = [task EXCEPT ![t].at = "remove", ![t].client = c,
                                ![t].left = @ \ {c}, ![t].pid = NoPid]
    BY <1>3 DEF AfterStop
  <2>2. task'[t] = [task[t] EXCEPT !.at = "remove", !.client = c,
                       !.left = task[t].left \ {c}, !.pid = NoPid] /\ OneMoves(t)
    BY <1>1, <2>1 DEF OneMoves
  <2>3. c \in Clients /\ task[t].left \ {c} \in SUBSET Clients /\ "remove" \in Places
    BY <1>1 DEF SideTasks, Places
  <2>4. task'[t] \in SideTasks
    <3>1. task[t] \in SideTasks
      BY <1>1
    <3>2. [task[t] EXCEPT !.at = "remove", !.client = c,
                          !.left = task[t].left \ {c}, !.pid = NoPid] \in SideTasks
      BY <2>3, <3>1, NextOfAll, Zenon
    <3> QED
      BY <2>2, <3>2
  <2>a. DOMAIN task[t] = {"name", "at", "client", "pid", "left", "retry", "gw", "alone"}
    BY <1>1 DEF SideTasks
  <2>5. /\ task'[t].at = "remove" /\ task'[t].pid = NoPid /\ task'[t].name = task[t].name
        /\ task'[t].client = c /\ task'[t].alone = task[t].alone
        /\ task'[t].left = task[t].left \ {c}
    BY <2>2, <2>a
  <2>6. TaskFits(task'[t])
    BY <1>1, <1>3, <2>3, <2>4, <2>5 DEF TaskFits, HoldingPlaces, StartPlaces, Busy, At
  <2> QED
    BY <1>3, <2>2, <2>5, <2>6
<1>4. CASE ~(task[t].name = "Start" /\ ok) /\ ~(task[t].name = "StopAll" /\ task[t].left # {})
  <2>1. Ends(t)
    BY <1>4 DEF AfterStop
  <2>2. task[t].name = "StopAll" => task[t].left = {}
    BY <1>4
  <2>3. /\ OneMoves(t) /\ TaskFits(task'[t]) /\ task'[t].pid = NoPid
        /\ task'[t].at \in {"idle", "done"}
        /\ task'[t].at = "done" => /\ task'[t].name = "StopAll" /\ task'[t].left = {}
                                   /\ task'[t].alone = task[t].alone /\ task[t].left = {}
    BY <1>1, <2>1, <2>2, EndsFits
  <2> QED
    BY <2>3
<1> QED
  BY <1>2, <1>3, <1>4

\* What ends, with the adapters of what ends, leaves the rest as it was.
LEMMA GoneFits ==
  ASSUME SideInv, NEW gone, DevicesGo(gone)
  PROVE  /\ device' \in [Clients -> Pids \union {NoPid}] /\ tap' \subseteq tap
         /\ table' \in Clients \union {NoClient} /\ adapter' \in [Clients -> Routes]
         /\ \A c \in Clients : device'[c] \in {device[c], NoPid}
         /\ \A c \in tap' : c \notin gone /\ device'[c] = device[c] /\ adapter'[c] = adapter[c]
BY DEF DevicesGo, SideInv, SideTypeOK, Routes

KernelTypeOK ==
    /\ running \subseteq Pids /\ device \in [Clients -> Pids \union {NoPid}]
    /\ rule \in BOOLEAN /\ leaked \in BOOLEAN
    /\ table \in Clients \union {NoClient} /\ adapter \in [Clients -> Routes]

\* A step of one command that adds no process and no adapter keeps everything,
\* when it lets go of a process only with that process gone, stays to route an
\* on-link adapter and does not leave the rule alone.
LEMMA MoveFits ==
  ASSUME SideInv, NEW t \in Tasks, OneMoves(t), TaskFits(task'[t]),
         UNCHANGED <<os, tunnels>>, KernelTypeOK', running' \subseteq running,
         \A c \in Clients : device'[c] \in {device[c], NoPid},
         tap' \subseteq tap,
         \A c \in tap' : device'[c] = device[c] /\ adapter'[c] \in {adapter[c], "none", "gateway"},
         \/ task'[t].pid = task[t].pid
         \/ task'[t].pid = NoPid /\ task[t].pid \notin running',
         task[t].at \in RoutingPlaces =>
            \/ task'[t].pid = task[t].pid /\ task'[t].at \in RoutingPlaces
            \/ \A c \in tap' : device'[c] # task[t].pid \/ adapter'[c] # "onlink",
         rule' /\ ~leaked' => \/ task'[t].at \in RulePlaces
                              \/ rule /\ ~leaked /\ task[t].at \notin RulePlaces
  PROVE  SideInv'
<1>1. /\ task \in [Tasks -> SideTasks] /\ task' \in [Tasks -> SideTasks]
      /\ \A u \in Tasks : u # t => task'[u] = task[u]
  BY DEF SideInv, SideTypeOK, OneMoves, TaskFits
<1>2. TasksFit'
  <2>1. ASSUME NEW u \in Tasks PROVE TaskFits(task'[u])
    BY <1>1 DEF SideInv, TasksFit
  <2> QED
    BY <2>1 DEF TasksFit
<1>3. SideTypeOK'
  BY <1>1 DEF SideInv, SideTypeOK, KernelTypeOK
<1>4. RecordsFit'
  BY DEF SideInv, RecordsFit
<1>5. OneHolder'
  BY <1>1 DEF SideInv, OneHolder
<1>6. TapWatched'
  <2>1. os' = "linux" => tap' = {}
    BY DEF SideInv, TapWatched
  <2>2. ASSUME NEW c \in tap' PROVE device'[c] # NoPid
    BY <2>2 DEF SideInv, TapWatched
  <2>3. ASSUME NEW c \in tap', adapter'[c] = "onlink"
        PROVE  \E u \in Tasks : task'[u].pid = device'[c] /\ task'[u].at \in RoutingPlaces
    <3>1. PICK u \in Tasks : task[u].pid = device[c] /\ task[u].at \in RoutingPlaces
      BY <2>3 DEF SideInv, TapWatched
    <3>2. CASE u = t
      BY <2>3, <3>1, <3>2
    <3>3. CASE u # t
      BY <1>1, <2>3, <3>1, <3>3
    <3> QED
      BY <3>2, <3>3
  <2> QED
    BY <2>1, <2>2, <2>3 DEF TapWatched
<1>7. TunnelsAccounted'
  BY <1>1 DEF SideInv, TunnelsAccounted
<1>8. RuleAccounted'
  BY <1>1 DEF SideInv, RuleAccounted, RulePlaces
<1> QED
  BY <1>2, <1>3, <1>4, <1>5, <1>6, <1>7, <1>8 DEF SideInv

\* A command that arrives only ends that the others run alone.
LEMMA ReceiveKeeps ==
  ASSUME SideInv, NEW t \in Tasks, NEW name \in Names, NEW c \in Clients,
         NEW left \in SUBSET Clients, Receive(t, name, c, left)
  PROVE  SideInv'
<1> DEFINE solo == \A v \in Tasks \ {t} : ~Busy(v)
           arrived == NewTask(name, c, left, solo)
           beside(u) == [task[u] EXCEPT !.alone = task[u].alone /\ ~Busy(u)]
<1>0. /\ os' = os /\ running' = running /\ device' = device /\ tap' = tap /\ rule' = rule
      /\ table' = table /\ adapter' = adapter /\ leaked' = leaked /\ tunnels' = tunnels
  BY DEF Receive, kernelVars
<1>1. /\ task \in [Tasks -> SideTasks] /\ At(t, "idle")
      /\ task' = [u \in Tasks |-> IF u = t THEN arrived ELSE beside(u)]
  BY DEF SideInv, SideTypeOK, Receive
<1>a. solo \in BOOLEAN
  OBVIOUS
<1> HIDE DEF solo
<1>2. arrived = NewTask(name, c, left, solo)
  OBVIOUS
<1>3. TaskFits(arrived) /\ arrived.pid = NoPid
  BY <1>a, <1>2 DEF NewTask, TaskFits, SideTasks, Places, Names, HoldingPlaces, StartPlaces
<1>4. ASSUME NEW u \in Tasks
      PROVE  /\ beside(u) \in SideTasks /\ beside(u).pid = task[u].pid /\ beside(u).at = task[u].at
             /\ beside(u).client = task[u].client /\ beside(u).name = task[u].name
             /\ beside(u).left = task[u].left
  <2>1. task[u] \in SideTasks /\ (task[u].alone /\ ~Busy(u)) \in BOOLEAN
    BY <1>1 DEF SideTasks
  <2> HIDE DEF beside
  <2>2. beside(u) = [task[u] EXCEPT !.alone = task[u].alone /\ ~Busy(u)]
    BY DEF beside
  <2> QED
    BY <2>1, <2>2 DEF SideTasks
<1> HIDE DEF arrived, beside
<1>5. ASSUME NEW u \in Tasks PROVE TaskFits(beside(u))
  BY <1>4 DEF SideInv, TasksFit, TaskFits
<1>6. task[t].pid = NoPid /\ task[t].at \notin RoutingPlaces /\ task[t].at \notin RulePlaces
  BY DEF SideInv, TasksFit, TaskFits, Receive, At, HoldingPlaces, RoutingPlaces, RulePlaces
<1>7. \A u \in Tasks :
         task'[u].pid = task[u].pid /\ (u # t => task'[u].at = task[u].at) /\ TaskFits(task'[u])
  BY <1>1, <1>3, <1>4, <1>5, <1>6
<1>8. SideTypeOK'
  <2>1. task' \in [Tasks -> SideTasks]
    BY <1>1, <1>3, <1>5 DEF TaskFits
  <2> QED
    BY <1>0, <2>1 DEF SideInv, SideTypeOK
<1>9. TasksFit' /\ RecordsFit'
  BY <1>0, <1>7 DEF SideInv, TasksFit, RecordsFit
<1>10. OneHolder'
  BY <1>0, <1>7 DEF SideInv, OneHolder
<1>11. TapWatched'
  BY <1>0, <1>6, <1>7 DEF SideInv, TapWatched
<1>12. TunnelsAccounted' /\ RuleAccounted'
  BY <1>0, <1>6, <1>7 DEF SideInv, TunnelsAccounted, RuleAccounted, RulePlaces
<1> QED
  BY <1>8, <1>9, <1>10, <1>11, <1>12 DEF SideInv

\* A stop begins: the record becomes the command's own.
LEMMA RemoveKeeps == ASSUME SideInv, NEW t \in Tasks, Remove(t) PROVE SideInv'
<1>1. /\ task \in [Tasks -> SideTasks] /\ TaskFits(task[t]) /\ Busy(t) /\ Client(t) \in Clients
      /\ task[t].at = "remove" /\ task[t].pid = NoPid /\ KernelTypeOK
      /\ tunnels \in [Clients -> Pids \union {NoPid}]
  BY DEF SideInv, SideTypeOK, TasksFit, TaskFits, Busy, At, Remove, Client, HoldingPlaces, KernelTypeOK
<1>2. tunnels' = [tunnels EXCEPT ![Client(t)] = NoPid]
  BY DEF Remove
<1>0. /\ os' = os /\ running' = running /\ device' = device /\ tap' = tap /\ rule' = rule
      /\ table' = table /\ adapter' = adapter /\ leaked' = leaked
  BY DEF Remove, kernelVars
<1>3. CASE tunnels[Client(t)] = NoPid
  <2>1. AfterStop(t, TRUE)
    BY <1>3 DEF Remove
  <2>2. UNCHANGED tunnels
    BY <1>0, <1>1, <1>2, <1>3
  <2>3. OneMoves(t) /\ TaskFits(task'[t]) /\ task'[t].pid = NoPid
    BY <1>1, <2>1, AfterStopFits
  <2>4. KernelTypeOK' /\ task[t].at \notin RoutingPlaces /\ task[t].at \notin RulePlaces
    BY <1>0, <1>1, <1>2 DEF KernelTypeOK, RoutingPlaces, RulePlaces
  <2> QED
    BY <1>0, <1>1, <1>2, <2>2, <2>3, <2>4, MoveFits
<1>4. CASE tunnels[Client(t)] # NoPid
  <2> DEFINE c == Client(t)
             p == tunnels[c]
  <2>1. task' = [task EXCEPT ![t].at = "unscope", ![t].pid = p]
    BY <1>4 DEF Remove
  <2>2. task'[t] = [task[t] EXCEPT !.at = "unscope", !.pid = p]
    BY <1>1, <2>1
  <2>3. \A u \in Tasks : u # t => task'[u] = task[u]
    BY <1>1, <2>1
  <2>4. p \in Pids /\ p[1] = c
    BY <1>1, <1>4 DEF SideInv, RecordsFit
  <2>5. /\ task'[t] \in SideTasks /\ task'[t].at = "unscope" /\ task'[t].pid = p
        /\ task'[t].client = c /\ task'[t].name = task[t].name
    BY <1>1, <2>2, <2>4 DEF SideTasks, Places, Client
  <2>6. TaskFits(task'[t])
    BY <1>1, <1>4, <2>4, <2>5 DEF TaskFits, HoldingPlaces, StartPlaces
  <2>7. SideTypeOK'
    <3>1. task' \in [Tasks -> SideTasks]
      BY <1>1, <2>1, <2>5
    <3> QED
      BY <1>0, <1>1, <1>2, <3>1 DEF SideInv, SideTypeOK
  <2>8. TasksFit'
    BY <2>3, <2>6 DEF SideInv, TasksFit
  <2>9. RecordsFit'
    BY <1>0, <1>1, <1>2 DEF SideInv, RecordsFit
  <2>10. OneHolder'
    <3>1. ASSUME NEW u \in Tasks, NEW w \in Tasks, u # w, task'[u].pid = task'[w].pid
          PROVE  task'[u].pid = NoPid
      BY <1>1, <2>3, <2>5, <3>1 DEF SideInv, OneHolder
    <3>2. ASSUME NEW u \in Tasks, NEW d \in Clients, task'[u].pid = tunnels'[d]
          PROVE  tunnels'[d] = NoPid
      <4>1. CASE d = c
        BY <1>1, <1>2, <4>1
      <4>2. CASE d # c /\ u # t
        BY <1>1, <1>2, <2>3, <3>2, <4>2 DEF SideInv, OneHolder
      <4>3. CASE d # c /\ u = t
        <5>1. tunnels'[d] = tunnels[d] /\ tunnels[d] = p
          BY <1>1, <1>2, <2>5, <3>2, <4>3
        <5> QED
          BY <2>4, <4>3, <5>1 DEF SideInv, RecordsFit
      <4> QED
        BY <4>1, <4>2, <4>3
    <3> QED
      BY <3>1, <3>2 DEF OneHolder
  <2>11. TapWatched'
    BY <1>0, <1>1, <1>2, <2>3, <2>5 DEF SideInv, TapWatched, RoutingPlaces
  <2>12. TunnelsAccounted' /\ RuleAccounted'
    BY <1>0, <1>1, <1>2, <2>3, <2>5 DEF SideInv, TunnelsAccounted, RuleAccounted
  <2> QED
    BY <2>7, <2>8, <2>9, <2>10, <2>11, <2>12 DEF SideInv
<1> QED
  BY <1>3, <1>4

\* What every command can rely on.
LEMMA TaskKnown ==
  ASSUME SideInv, NEW t \in Tasks
  PROVE  /\ task \in [Tasks -> SideTasks] /\ TaskFits(task[t]) /\ KernelTypeOK
         /\ tap \subseteq Clients
         /\ Busy(t) => Client(t) \in Clients
BY DEF SideInv, SideTypeOK, TasksFit, TaskFits, KernelTypeOK, Busy, At, Client

\* Ending processes takes their adapters away and leaves the rule.
LEMMA EndFits ==
  ASSUME SideInv, NEW ended, ProcessesEnd(ended)
  PROVE  /\ running' = running \ ended /\ rule' = rule /\ leaked' = leaked /\ KernelTypeOK'
         /\ \A c \in Clients : device'[c] \in {device[c], NoPid}
         /\ tap' \subseteq tap
         /\ \A c \in tap' : device'[c] = device[c] /\ adapter'[c] = adapter[c] /\ device[c] \notin ended
<1> DEFINE gone == {c \in Clients : device[c] \in ended}
<1>1. DevicesGo(gone) /\ running' = running \ ended /\ rule' = rule /\ leaked' = leaked
  BY DEF ProcessesEnd
<1>2. KernelTypeOK /\ tap \subseteq Clients
  BY DEF SideInv, SideTypeOK, KernelTypeOK
<1> HIDE DEF gone
<1>3. /\ device' \in [Clients -> Pids \union {NoPid}] /\ tap' \subseteq tap
      /\ table' \in Clients \union {NoClient} /\ adapter' \in [Clients -> Routes]
      /\ \A c \in Clients : device'[c] \in {device[c], NoPid}
      /\ \A c \in tap' : c \notin gone /\ device'[c] = device[c] /\ adapter'[c] = adapter[c]
  BY <1>1, GoneFits
<1>4. KernelTypeOK'
  BY <1>1, <1>2, <1>3 DEF KernelTypeOK
<1>5. \A c \in tap' : device[c] \notin ended
  BY <1>2, <1>3 DEF gone
<1> QED
  BY <1>1, <1>3, <1>4, <1>5

\* Commands that only go on, or end, and leave the kernel alone.
LEMMA QuietStepsKeep ==
  ASSUME SideInv, NEW t \in Tasks,
         StageProfile(t) \/ DeviceUp(t) \/ InstallScopedRoutes(t) \/ Reply(t)
  PROVE  SideInv'
<1>1. /\ os' = os /\ running' = running /\ device' = device /\ tap' = tap /\ rule' = rule
      /\ table' = table /\ adapter' = adapter /\ leaked' = leaked /\ tunnels' = tunnels
  BY DEF StageProfile, DeviceUp, InstallScopedRoutes, Reply, kernelVars
<1>2. /\ task \in [Tasks -> SideTasks] /\ TaskFits(task[t]) /\ KernelTypeOK /\ tap \subseteq Clients
  BY TaskKnown
<1>3. KernelTypeOK'
  BY <1>1, <1>2 DEF KernelTypeOK
<1>4. \A c \in Clients : device'[c] \in {device[c], NoPid}
  BY <1>1
<1> DEFINE kept == OneMoves(t) /\ TaskFits(task'[t])
           pidKept == task'[t].pid = task[t].pid
           placed == task[t].at \in RoutingPlaces => task'[t].at \in RoutingPlaces
           ruled == task[t].at \notin RulePlaces
<1>5. kept /\ pidKept /\ placed /\ ruled
  <2> USE DEF RoutingPlaces, RulePlaces, HoldingPlaces, StartPlaces, Places, Busy, At
  <2>1. CASE Reply(t)
    <3>1. task[t].at = "done" /\ task' = [task EXCEPT ![t] = IdleTask]
      BY <2>1 DEF Reply
    <3>2. task'[t] = IdleTask /\ OneMoves(t)
      BY <1>2, <3>1 DEF OneMoves
    <3>3. TaskFits(IdleTask) /\ IdleTask.pid = NoPid
      BY DEF IdleTask, TaskFits, SideTasks, Names
    <3> QED
      BY <1>2, <3>1, <3>2, <3>3 DEF TaskFits
  <2>2. CASE task[t].at = "stage" /\ Ends(t)
    <3>1. task[t].name = "Start" /\ task[t].pid = NoPid
      BY <1>2, <2>2 DEF TaskFits
    <3> QED
      BY <2>2, <3>1, EndsFits
  <2>3. CASE task[t].at = "stage" /\ Goes(t, "spawn")
    <3>1. task[t].name = "Start" /\ task[t].pid = NoPid
      BY <1>2, <2>3 DEF TaskFits
    <3> QED
      BY <2>3, <3>1, GoesFits
  <2>4. CASE task[t].at = "wait" /\ Goes(t, "scope")
    <3>1. task[t].name = "Start"
      BY <1>2, <2>4 DEF TaskFits
    <3> QED
      BY <2>4, <3>1, GoesFits
  <2>5. CASE task[t].at = "scope" /\ (Goes(t, "rerule") \/ Goes(t, "fail"))
    <3>1. task[t].name = "Start"
      BY <1>2, <2>5 DEF TaskFits
    <3> QED
      BY <2>5, <3>1, GoesFits
  <2> QED
    BY <2>1, <2>2, <2>3, <2>4, <2>5 DEF StageProfile, DeviceUp, InstallScopedRoutes
<1> QED
  BY <1>1, <1>3, <1>4, <1>5, MoveFits

\* A stop takes away what the kernel keeps for the tunnel, part by part.
LEMMA RevertsKeep ==
  ASSUME SideInv, NEW t \in Tasks, RevertScopedRoutes(t) \/ RevertRule(t) \/ FlushTable(t)
  PROVE  SideInv'
<1>1. /\ task \in [Tasks -> SideTasks] /\ TaskFits(task[t]) /\ KernelTypeOK /\ tap \subseteq Clients
  BY TaskKnown
<1> USE DEF HoldingPlaces, StartPlaces, Places, Busy, At
<1>2. CASE RevertScopedRoutes(t)
  <2>1. /\ task[t].at = "unscope" /\ Goes(t, "unrule")
        /\ os' = os /\ running' = running /\ rule' = rule /\ leaked' = leaked /\ tunnels' = tunnels
    BY <1>2 DEF RevertScopedRoutes
  <2>2. OneMoves(t) /\ TaskFits(task'[t]) /\ task'[t].at = "unrule" /\ task'[t].pid = task[t].pid
    BY <2>1, GoesFits
  <2> DEFINE gone == {Client(t)} \intersect {c \in Clients : device[c] # NoPid}
  <2>3. /\ device' \in [Clients -> Pids \union {NoPid}] /\ tap' \subseteq tap
        /\ table' \in Clients \union {NoClient} /\ adapter' \in [Clients -> Routes]
        /\ \A c \in Clients : device'[c] \in {device[c], NoPid}
        /\ \A c \in tap' : device'[c] = device[c] /\ adapter'[c] = adapter[c]
    <3>1. CASE DevicesGo(gone)
      BY <3>1, GoneFits
    <3>2. CASE UNCHANGED <<device, tap, table, adapter>>
      BY <1>1, <3>2 DEF KernelTypeOK
    <3> QED
      BY <1>2, <3>1, <3>2 DEF RevertScopedRoutes
  <2> HIDE DEF gone
  <2>4. KernelTypeOK'
    BY <1>1, <2>1, <2>3 DEF KernelTypeOK
  <2>5. task[t].at \notin RoutingPlaces /\ task'[t].at \in RulePlaces
    BY <2>1, <2>2 DEF RoutingPlaces, RulePlaces
  <2> QED
    BY <2>1, <2>2, <2>3, <2>4, <2>5, MoveFits
<1>3. CASE RevertRule(t)
  <2>1. /\ os' = os /\ running' = running /\ device' = device /\ tap' = tap /\ table' = table
        /\ adapter' = adapter /\ tunnels' = tunnels
    BY <1>3 DEF RevertRule
  <2>a. \/ rule' = FALSE /\ leaked' = FALSE
        \/ rule' = rule /\ leaked' = rule
    BY <1>3 DEF RevertRule
  <2>b. ~(rule' /\ ~leaked')
    BY <2>a
  <2>c. rule' \in BOOLEAN /\ leaked' \in BOOLEAN
    <3>1. rule \in BOOLEAN
      BY <1>1 DEF KernelTypeOK
    <3> QED
      BY <2>a, <3>1
  <2>2. KernelTypeOK' /\ \A c \in Clients : device'[c] \in {device[c], NoPid}
    BY <1>1, <2>1, <2>c DEF KernelTypeOK
  <2>3. /\ OneMoves(t) /\ TaskFits(task'[t]) /\ task'[t].pid = task[t].pid
        /\ task[t].at \in RoutingPlaces => task'[t].at \in RoutingPlaces
    <3>1. CASE task[t].at = "unrule" /\ Goes(t, "unroute")
      BY <3>1, GoesFits DEF RoutingPlaces
    <3>2. CASE task[t].at = "rerule" /\ Goes(t, "reroute")
      <4>1. task[t].name = "Start"
        BY <1>1, <3>2 DEF TaskFits
      <4> QED
        BY <3>2, <4>1, GoesFits DEF RoutingPlaces
    <3> QED
      BY <1>3, <3>1, <3>2 DEF RevertRule
  <2> QED
    BY <2>1, <2>2, <2>3, <2>b, MoveFits
<1>4. CASE FlushTable(t)
  <2>1. /\ os' = os /\ running' = running /\ device' = device /\ tap' = tap /\ rule' = rule
        /\ adapter' = adapter /\ leaked' = leaked /\ tunnels' = tunnels
        /\ table' \in {NoClient, table}
    BY <1>4 DEF FlushTable
  <2>2. KernelTypeOK' /\ \A c \in Clients : device'[c] \in {device[c], NoPid}
    BY <1>1, <2>1 DEF KernelTypeOK
  <2>3. /\ OneMoves(t) /\ TaskFits(task'[t]) /\ task'[t].pid = task[t].pid
        /\ task[t].at \in RoutingPlaces => task'[t].at \in RoutingPlaces
        /\ task[t].at \notin RulePlaces
    <3>1. CASE task[t].at = "unroute" /\ Goes(t, "kill")
      BY <3>1, GoesFits DEF RoutingPlaces, RulePlaces
    <3>2. CASE task[t].at = "reroute" /\ Goes(t, "route")
      <4>1. task[t].name = "Start"
        BY <1>1, <3>2 DEF TaskFits
      <4> QED
        BY <3>2, <4>1, GoesFits DEF RoutingPlaces, RulePlaces
    <3> QED
      BY <1>4, <3>1, <3>2 DEF FlushTable
  <2> QED
    BY <2>1, <2>2, <2>3, MoveFits
<1> QED
  BY <1>2, <1>3, <1>4

\* Whoever ends its own process, in a stop or a failed start, lets go of it.
LEMMA EndsOwnKeep ==
  ASSUME SideInv, NEW t \in Tasks, Terminate(t) \/ NoDevice(t) \/ StartFails(t)
  PROVE  SideInv'
<1>1. /\ task \in [Tasks -> SideTasks] /\ TaskFits(task[t]) /\ KernelTypeOK /\ tap \subseteq Clients
  BY TaskKnown
<1>2. ProcessesEnd({task[t].pid}) /\ os' = os /\ tunnels' = tunnels
  BY DEF Terminate, NoDevice, StartFails
<1>3. /\ running' = running \ {task[t].pid} /\ rule' = rule /\ leaked' = leaked /\ KernelTypeOK'
      /\ \A c \in Clients : device'[c] \in {device[c], NoPid}
      /\ tap' \subseteq tap
      /\ \A c \in tap' : /\ device'[c] = device[c] /\ adapter'[c] = adapter[c]
                          /\ device[c] \notin {task[t].pid}
  BY <1>2, EndFits
<1>4. task[t].at \notin RulePlaces
  BY DEF Terminate, NoDevice, StartFails, At, RulePlaces
<1>5. OneMoves(t) /\ TaskFits(task'[t]) /\ task'[t].pid = NoPid
  <2> USE DEF HoldingPlaces, StartPlaces, Places, Busy, At
  <2>1. CASE Terminate(t)
    BY <2>1, AfterStopFits DEF Terminate
  <2>2. CASE Ends(t) /\ task[t].at \in {"wait", "fail"}
    <3>1. task[t].name = "Start"
      BY <1>1, <2>2 DEF TaskFits
    <3> QED
      BY <2>2, <3>1, EndsFits
  <2>3. CASE /\ task[t].at = "wait"
             /\ task' = [task EXCEPT ![t].at = "spawn", ![t].retry = TRUE, ![t].pid = NoPid]
    <3>1. task[t].name = "Start"
      BY <1>1, <2>3 DEF TaskFits
    <3>2. task'[t] = [task[t] EXCEPT !.at = "spawn", !.retry = TRUE, !.pid = NoPid] /\ OneMoves(t)
      BY <1>1, <2>3 DEF OneMoves
    <3>3. task'[t] \in SideTasks
      BY <1>1, <3>2 DEF SideTasks
    <3>4. /\ task'[t].at = "spawn" /\ task'[t].pid = NoPid /\ task'[t].name = task[t].name
          /\ task'[t].client = task[t].client
      BY <1>1, <3>2 DEF SideTasks
    <3>5. TaskFits(task'[t])
      BY <1>1, <2>3, <3>1, <3>3, <3>4 DEF TaskFits
    <3> QED
      BY <3>2, <3>4, <3>5
  <2> QED
    BY <2>1, <2>2, <2>3 DEF NoDevice, StartFails
<1> QED
  BY <1>1, <1>2, <1>3, <1>4, <1>5, MoveFits

\* A process that nobody knows becomes the command's own, and runs.
LEMMA SpawnKeeps == ASSUME SideInv, NEW t \in Tasks, SpawnOpenvpn(t) PROVE SideInv'
<1>1. /\ task \in [Tasks -> SideTasks] /\ TaskFits(task[t]) /\ KernelTypeOK /\ tap \subseteq Clients
  BY TaskKnown
<1>2. /\ os' = os /\ device' = device /\ tap' = tap /\ rule' = rule /\ table' = table
      /\ adapter' = adapter /\ leaked' = leaked /\ tunnels' = tunnels
      /\ task[t].at = "spawn" /\ task[t].name = "Start" /\ task[t].pid = NoPid
      /\ Client(t) \in Clients /\ task[t].client = Client(t)
  BY <1>1 DEF SpawnOpenvpn, At, TaskFits, HoldingPlaces, StartPlaces, Client
<1>3. CASE Ends(t) /\ running' = running
  <2>1. OneMoves(t) /\ TaskFits(task'[t]) /\ task'[t].pid = NoPid
    BY <1>2, <1>3, EndsFits DEF Busy, At
  <2>2. KernelTypeOK' /\ \A c \in Clients : device'[c] \in {device[c], NoPid}
    BY <1>1, <1>2, <1>3 DEF KernelTypeOK
  <2>3. task[t].at \notin RoutingPlaces /\ task[t].at \notin RulePlaces
    BY <1>2 DEF RoutingPlaces, RulePlaces
  <2> QED
    BY <1>1, <1>2, <1>3, <2>1, <2>2, <2>3, MoveFits
<1>4. ASSUME NEW n \in 1..Runs, ~Known(<<Client(t), n>>),
             running' = running \union {<<Client(t), n>>},
             task' = [task EXCEPT ![t].at = "wait", ![t].pid = <<Client(t), n>>]
      PROVE  SideInv'
  <2> DEFINE p == <<Client(t), n>>
  <2>1. p \in Pids /\ p # NoPid /\ p[1] = Client(t)
    BY <1>2, PidsArePairs
  <2>2. /\ \A c \in Clients : tunnels[c] # p
        /\ \A u \in Tasks : task[u].pid # p
    BY <1>4 DEF Known
  <2> HIDE DEF p
  <2>3. /\ task'[t] = [task[t] EXCEPT !.at = "wait", !.pid = p] /\ OneMoves(t)
        /\ \A u \in Tasks : u # t => task'[u] = task[u]
    BY <1>1, <1>4 DEF OneMoves, p
  <2>a. \A u \in Tasks : u # t => task'[u] = task[u]
    BY <2>3
  <2>4. task'[t] \in SideTasks
    BY <1>1, <2>1, <2>3 DEF SideTasks, Places
  <2>5. /\ task'[t].at = "wait" /\ task'[t].pid = p /\ task'[t].name = "Start"
        /\ task'[t].client = Client(t)
    BY <1>1, <1>2, <2>3 DEF SideTasks
  <2>6. TaskFits(task'[t])
    BY <1>1, <1>2, <2>1, <2>4, <2>5 DEF TaskFits, HoldingPlaces, StartPlaces
  <2>7. SideTypeOK'
    <3>1. task' \in [Tasks -> SideTasks]
      BY <1>1, <2>3, <2>4 DEF OneMoves
    <3>2. running' \subseteq Pids
      BY <1>1, <1>4, <2>1 DEF KernelTypeOK, p
    <3> QED
      BY <1>2, <3>1, <3>2 DEF SideInv, SideTypeOK
  <2>8. TasksFit' /\ RecordsFit'
    BY <1>2, <2>a, <2>6 DEF SideInv, TasksFit, RecordsFit
  <2>9. OneHolder'
    <3>1. /\ \A u, w \in Tasks : u # w /\ task[u].pid = task[w].pid => task[u].pid = NoPid
          /\ \A u \in Tasks, c \in Clients : task[u].pid = tunnels[c] => tunnels[c] = NoPid
      BY DEF SideInv, OneHolder
    <3>2. \A u, w \in Tasks : u # w /\ task'[u].pid = task'[w].pid => task'[u].pid = NoPid
      BY <2>2, <2>a, <2>5, <3>1
    <3>3. \A u \in Tasks, c \in Clients : task'[u].pid = tunnels'[c] => tunnels'[c] = NoPid
      BY <1>2, <2>2, <2>a, <2>5, <3>1
    <3> QED
      BY <3>2, <3>3 DEF OneHolder
  <2>10. TapWatched'
    <3>1. task[t].at \notin RoutingPlaces
      BY <1>2 DEF RoutingPlaces
    <3> QED
      BY <1>2, <2>a, <3>1 DEF SideInv, TapWatched
  <2>11. TunnelsAccounted'
    <3>1. running' = running \union {p} /\ running \subseteq Pids
      BY <1>1, <1>4 DEF KernelTypeOK, p
    <3>2. ASSUME NEW q \in running
          PROVE  (\E c \in Clients : tunnels[c] = q) \/ (\E u \in Tasks : u # t /\ task[u].pid = q)
      BY <1>2, <3>1, <3>2, PidsArePairs DEF SideInv, TunnelsAccounted
    <3> QED
      BY <1>2, <2>a, <2>5, <3>1, <3>2 DEF TunnelsAccounted
  <2>12. RuleAccounted'
    BY <1>2, <2>a DEF SideInv, RuleAccounted
  <2> QED
    BY <2>7, <2>8, <2>9, <2>10, <2>11, <2>12 DEF SideInv
<1> QED
  BY <1>3, <1>4 DEF SpawnOpenvpn

\* The adapter that a process opens is watched by the command that waits for it.
LEMMA OpensKeeps == ASSUME SideInv, NEW t \in Tasks, Opens(t) PROVE SideInv'
<1> DEFINE c == Client(t)
           p == task[t].pid
<1>1. /\ task \in [Tasks -> SideTasks] /\ TaskFits(task[t]) /\ KernelTypeOK /\ tap \subseteq Clients
  BY TaskKnown
<1>2. /\ task[t].at = "wait" /\ c \in Clients /\ p \in Pids /\ p # NoPid /\ p[1] = c
      /\ device[c] = NoPid
  BY <1>1 DEF Opens, At, TaskFits, HoldingPlaces, SideTasks, Client
<1>3. /\ os' = os /\ running' = running /\ rule' = rule /\ table' = table /\ leaked' = leaked
      /\ tunnels' = tunnels /\ device' = [device EXCEPT ![c] = p]
  BY DEF Opens
<1>4. PICK layer2 \in BOOLEAN, known \in BOOLEAN :
         /\ tap' = (IF os = "windows" /\ layer2 THEN tap \union {c} ELSE tap)
         /\ adapter' = [adapter EXCEPT ![c] = IF os = "windows" /\ layer2 THEN "onlink" ELSE "none"]
         /\ task' = [task EXCEPT ![t].gw = known]
  BY DEF Opens
<1>5. task'[t] = [task[t] EXCEPT !.gw = known] /\ OneMoves(t)
  BY <1>1, <1>4 DEF OneMoves
<1>6. \A u \in Tasks : u # t => task'[u] = task[u]
  BY <1>1, <1>4
<1>7. /\ task'[t] \in SideTasks /\ task'[t].at = "wait" /\ task'[t].pid = p
      /\ task'[t].client = task[t].client /\ task'[t].name = task[t].name
      /\ task'[t].left = task[t].left
  BY <1>1, <1>2, <1>5 DEF SideTasks
<1>8. TaskFits(task'[t])
  BY <1>1, <1>2, <1>7 DEF TaskFits
<1> HIDE DEF c, p
<1>9. SideTypeOK'
  <2>1. task' \in [Tasks -> SideTasks]
    BY <1>1, <1>5, <1>7 DEF OneMoves
  <2>2. device' \in [Clients -> Pids \union {NoPid}] /\ adapter' \in [Clients -> Routes]
    BY <1>1, <1>2, <1>3, <1>4 DEF KernelTypeOK, Routes
  <2>3. tap' \subseteq Clients
    BY <1>1, <1>2, <1>4
  <2> QED
    BY <1>3, <2>1, <2>2, <2>3 DEF SideInv, SideTypeOK
<1>10. TasksFit' /\ RecordsFit'
  <2>1. TasksFit'
    BY <1>6, <1>8 DEF SideInv, TasksFit
  <2>2. RecordsFit'
    BY <1>1, <1>2, <1>3 DEF SideInv, RecordsFit, KernelTypeOK
  <2> QED
    BY <2>1, <2>2
<1>11. \A u \in Tasks : task'[u].pid = task[u].pid /\ task'[u].at = task[u].at
  BY <1>2, <1>6, <1>7 DEF p
<1>12. OneHolder'
  BY <1>3, <1>11 DEF SideInv, OneHolder
<1>13. TapWatched'
  <2>1. os' = "linux" => tap' = {}
    BY <1>3, <1>4 DEF SideInv, TapWatched
  <2>2. ASSUME NEW d \in tap', d # c
        PROVE  d \in tap /\ device'[d] = device[d] /\ adapter'[d] = adapter[d]
    BY <1>1, <1>3, <1>4, <2>2 DEF KernelTypeOK
  <2>3. ASSUME NEW d \in tap' PROVE device'[d] # NoPid
    <3>1. CASE d = c
      BY <1>1, <1>2, <1>3, <3>1 DEF KernelTypeOK
    <3>2. CASE d # c
      BY <2>2, <3>2 DEF SideInv, TapWatched
    <3> QED
      BY <3>1, <3>2
  <2>4. ASSUME NEW d \in tap', adapter'[d] = "onlink"
        PROVE  \E u \in Tasks : task'[u].pid = device'[d] /\ task'[u].at \in RoutingPlaces
    <3>1. CASE d = c
      <4>1. device'[d] = p
        BY <1>1, <1>2, <1>3, <3>1 DEF KernelTypeOK
      <4> QED
        BY <1>7, <4>1 DEF RoutingPlaces
    <3>2. CASE d # c
      BY <1>11, <2>2, <2>4, <3>2 DEF SideInv, TapWatched
    <3> QED
      BY <3>1, <3>2
  <2> QED
    BY <2>1, <2>3, <2>4 DEF TapWatched
<1>14. TunnelsAccounted' /\ RuleAccounted'
  BY <1>3, <1>11 DEF SideInv, TunnelsAccounted, RuleAccounted
<1> QED
  BY <1>9, <1>10, <1>12, <1>13, <1>14 DEF SideInv

\* A start routes the mark to its tunnel, or gives up.
LEMMA RoutesKeep ==
  ASSUME SideInv, NEW t \in Tasks, ReplaceTable(t) \/ AddRule(t) \/ RouteAdapter(t)
  PROVE  SideInv'
<1>1. /\ task \in [Tasks -> SideTasks] /\ TaskFits(task[t]) /\ KernelTypeOK /\ tap \subseteq Clients
  BY TaskKnown
<1>2. /\ task[t].at \in {"route", "rule"} /\ task[t].name = "Start" /\ Busy(t) /\ Client(t) \in Clients
      /\ task[t].client = Client(t) /\ task[t].pid # NoPid /\ task[t].pid[1] = Client(t)
  BY <1>1 DEF ReplaceTable, AddRule, RouteAdapter, At, Busy, TaskFits, HoldingPlaces, StartPlaces, Client
<1>3. /\ os' = os /\ running' = running /\ device' = device /\ tap' = tap
      /\ leaked' = leaked /\ tunnels' = tunnels
  BY DEF ReplaceTable, AddRule, RouteAdapter
<1>4. \A c \in Clients : device'[c] \in {device[c], NoPid}
  BY <1>3
<1>5. ASSUME NEW place \in {"rule", "insert", "fail"}, Goes(t, place)
      PROVE  OneMoves(t) /\ TaskFits(task'[t]) /\ task'[t].at = place /\ task'[t].pid = task[t].pid
  BY <1>2, <1>5, GoesFits DEF HoldingPlaces, StartPlaces, Places
<1> USE DEF RoutingPlaces, RulePlaces
<1>6. CASE Goes(t, "fail") /\ UNCHANGED <<rule, table, adapter>>
  <2>1. OneMoves(t) /\ TaskFits(task'[t]) /\ task'[t].at = "fail" /\ task'[t].pid = task[t].pid
    BY <1>5, <1>6
  <2>2. KernelTypeOK'
    BY <1>1, <1>3, <1>6 DEF KernelTypeOK
  <2> QED
    BY <1>2, <1>3, <1>4, <1>6, <2>1, <2>2, MoveFits
<1>7. CASE ReplaceTable(t) /\ table' = Client(t) /\ Goes(t, "rule")
  <2>1. OneMoves(t) /\ TaskFits(task'[t]) /\ task'[t].at = "rule" /\ task'[t].pid = task[t].pid
    BY <1>5, <1>7
  <2>2. rule' = rule /\ adapter' = adapter /\ os = "linux" /\ task[t].at = "route"
    BY <1>7 DEF ReplaceTable, At
  <2>3. KernelTypeOK'
    BY <1>1, <1>2, <1>3, <1>7, <2>2 DEF KernelTypeOK
  <2>4. tap' = {}
    BY <1>3, <2>2 DEF SideInv, TapWatched
  <2> QED
    BY <1>2, <1>3, <1>4, <2>1, <2>2, <2>3, <2>4, MoveFits
<1>8. CASE AddRule(t) /\ rule' = TRUE /\ Goes(t, "insert")
  <2>1. OneMoves(t) /\ TaskFits(task'[t]) /\ task'[t].at = "insert" /\ task'[t].pid = task[t].pid
    BY <1>5, <1>8
  <2>2. table' = table /\ adapter' = adapter /\ task[t].at = "rule"
    BY <1>8 DEF AddRule, At
  <2>3. KernelTypeOK'
    <3>1. rule' \in BOOLEAN
      BY <1>8
    <3> QED
      BY <1>1, <1>3, <2>2, <3>1 DEF KernelTypeOK
  <2> QED
    BY <1>3, <1>4, <2>1, <2>2, <2>3, MoveFits
<1>9. ASSUME NEW r \in Routes, RouteAdapter(t), Client(t) \in tap => r # "onlink",
             adapter' = [adapter EXCEPT ![Client(t)] = r], Goes(t, "insert")
      PROVE  SideInv'
  <2>1. OneMoves(t) /\ TaskFits(task'[t]) /\ task'[t].at = "insert" /\ task'[t].pid = task[t].pid
    BY <1>5, <1>9
  <2>2. rule' = rule /\ table' = table /\ task[t].at = "route"
    BY <1>9 DEF RouteAdapter, At
  <2>3. KernelTypeOK'
    BY <1>1, <1>2, <1>3, <1>9, <2>2 DEF KernelTypeOK
  <2>4. \A c \in tap' : /\ device'[c] = device[c]
                        /\ adapter'[c] \in {adapter[c], "none", "gateway"}
    BY <1>1, <1>2, <1>3, <1>9 DEF KernelTypeOK, Routes
  <2>5. ASSUME NEW c \in tap' PROVE device'[c] # task[t].pid \/ adapter'[c] # "onlink"
    <3>1. CASE c = Client(t)
      BY <1>1, <1>2, <1>3, <1>9, <3>1 DEF KernelTypeOK
    <3>2. CASE c # Client(t)
      BY <1>1, <1>2, <1>3, <3>2 DEF SideInv, RecordsFit
    <3> QED
      BY <3>1, <3>2
  <2> QED
    BY <1>3, <1>4, <2>1, <2>2, <2>3, <2>4, <2>5, MoveFits
<1> QED
  BY <1>6, <1>7, <1>8, <1>9 DEF ReplaceTable, AddRule, RouteAdapter

\* A process that exits by itself takes only its own adapter away.
LEMMA ExitKeeps == ASSUME SideInv, NEW p \in Pids, OpenvpnExits(p) PROVE SideInv'
<1>1. ProcessesEnd({p}) /\ os' = os /\ tunnels' = tunnels /\ task' = task
  BY DEF OpenvpnExits
<1>2. /\ running' = running \ {p} /\ rule' = rule /\ leaked' = leaked /\ KernelTypeOK'
      /\ \A c \in Clients : device'[c] \in {device[c], NoPid}
      /\ tap' \subseteq tap
      /\ \A c \in tap' : device'[c] = device[c] /\ adapter'[c] = adapter[c]
  BY <1>1, EndFits
<1>3. SideTypeOK' /\ TasksFit'
  BY <1>1, <1>2 DEF SideInv, SideTypeOK, KernelTypeOK, TasksFit
<1>4. RecordsFit' /\ OneHolder'
  BY <1>1, <1>2 DEF SideInv, RecordsFit, OneHolder
<1>5. TapWatched'
  BY <1>1, <1>2 DEF SideInv, TapWatched
<1>6. TunnelsAccounted' /\ RuleAccounted'
  BY <1>1, <1>2 DEF SideInv, TunnelsAccounted, RuleAccounted
<1> QED
  BY <1>3, <1>4, <1>5, <1>6 DEF SideInv

\* A start that succeeds hands its process over to the map, and the process that
\* it finds there ends.
LEMMA InsertKeeps == ASSUME SideInv, NEW t \in Tasks, Insert(t) PROVE SideInv'
<1> DEFINE c == Client(t)
           p == task[t].pid
<1>1. /\ task \in [Tasks -> SideTasks] /\ TaskFits(task[t]) /\ KernelTypeOK /\ tap \subseteq Clients
      /\ tunnels \in [Clients -> Pids \union {NoPid}]
  BY TaskKnown DEF SideInv, SideTypeOK
<1>2. /\ task[t].at = "insert" /\ c \in Clients /\ p \in Pids /\ p # NoPid /\ p[1] = c
      /\ task[t].name = "Start" /\ Ends(t) /\ os' = os /\ ProcessesEnd({tunnels[c]})
      /\ tunnels' = [tunnels EXCEPT ![c] = p]
  BY <1>1 DEF Insert, At, TaskFits, HoldingPlaces, StartPlaces, SideTasks, Client
<1>3. /\ running' = running \ {tunnels[c]} /\ rule' = rule /\ leaked' = leaked /\ KernelTypeOK'
      /\ \A d \in Clients : device'[d] \in {device[d], NoPid}
      /\ tap' \subseteq tap
      /\ \A d \in tap' : device'[d] = device[d] /\ adapter'[d] = adapter[d]
  BY <1>2, EndFits
<1>4. OneMoves(t) /\ TaskFits(task'[t]) /\ task'[t].pid = NoPid
  BY <1>2, EndsFits DEF Busy, At
<1>5. \A u \in Tasks : u # t => task'[u] = task[u]
  BY <1>1, <1>4 DEF OneMoves
<1>6. tunnels'[c] = p /\ \A d \in Clients : d # c => tunnels'[d] = tunnels[d]
  BY <1>1, <1>2
<1> HIDE DEF c
<1>7. SideTypeOK'
  <2>1. task' \in [Tasks -> SideTasks]
    BY <1>1, <1>4 DEF OneMoves, TaskFits
  <2> QED
    BY <1>1, <1>2, <1>3, <2>1 DEF SideInv, SideTypeOK, KernelTypeOK
<1>8. TasksFit'
  BY <1>4, <1>5 DEF SideInv, TasksFit
<1>9. RecordsFit'
  BY <1>2, <1>3, <1>6 DEF SideInv, RecordsFit
<1>10. OneHolder'
  <2>1. /\ \A u, w \in Tasks : u # w /\ task[u].pid = task[w].pid => task[u].pid = NoPid
        /\ \A u \in Tasks, d \in Clients : task[u].pid = tunnels[d] => tunnels[d] = NoPid
    BY DEF SideInv, OneHolder
  <2>2. \A u, w \in Tasks : u # w /\ task'[u].pid = task'[w].pid => task'[u].pid = NoPid
    BY <1>4, <1>5, <2>1
  <2>3. ASSUME NEW u \in Tasks, NEW d \in Clients, task'[u].pid = tunnels'[d]
        PROVE  tunnels'[d] = NoPid
    <3>1. CASE u = t
      BY <1>4, <2>3, <3>1
    <3>2. CASE u # t /\ d = c
      BY <1>2, <1>5, <1>6, <2>1, <2>3, <3>2
    <3>3. CASE u # t /\ d # c
      BY <1>5, <1>6, <2>1, <2>3, <3>3
    <3> QED
      BY <3>1, <3>2, <3>3
  <2> QED
    BY <2>2, <2>3 DEF OneHolder
<1>11. TapWatched'
  <2>1. task[t].at \notin RoutingPlaces
    BY <1>2 DEF RoutingPlaces
  <2> QED
    BY <1>2, <1>3, <1>5, <2>1 DEF SideInv, TapWatched
<1>12. TunnelsAccounted'
  <2>1. ASSUME NEW q \in running'
        PROVE  (\E d \in Clients : tunnels'[d] = q) \/ (\E u \in Tasks : task'[u].pid = q)
    <3>1. q \in running /\ q # tunnels[c]
      BY <1>3
    <3>2. CASE \E d \in Clients : tunnels[d] = q
      BY <1>6, <3>1, <3>2
    <3>3. CASE \E u \in Tasks : task[u].pid = q
      BY <1>2, <1>5, <1>6, <3>3
    <3> QED
      BY <3>1, <3>2, <3>3 DEF SideInv, TunnelsAccounted
  <2> QED
    BY <2>1 DEF TunnelsAccounted
<1>13. RuleAccounted'
  BY <1>2, <1>6 DEF RuleAccounted
<1> QED
  BY <1>7, <1>8, <1>9, <1>10, <1>11, <1>12, <1>13 DEF SideInv

\* With the helper everything it started ends.
LEMMA HelperDiesKeeps == ASSUME SideInv, HelperDies PROVE SideInv'
<1>1. /\ running' = {} /\ DevicesGo(Clients) /\ leaked' = rule /\ rule' = rule /\ os' = os
      /\ tunnels' = [c \in Clients |-> NoPid] /\ task' = [t \in Tasks |-> IdleTask]
  BY DEF HelperDies
<1>2. TaskFits(IdleTask) /\ IdleTask.pid = NoPid
  BY DEF TaskFits, IdleTask, SideTasks, HoldingPlaces, StartPlaces, Names, Places
<1>3. /\ device' \in [Clients -> Pids \union {NoPid}] /\ tap' = {}
      /\ table' \in Clients \union {NoClient} /\ adapter' \in [Clients -> Routes]
      /\ \A c \in Clients : device'[c] = NoPid
  BY <1>1, GoneFits DEF DevicesGo, SideInv, SideTypeOK
<1>4. SideTypeOK'
  <2>1. rule' \in BOOLEAN /\ leaked' \in BOOLEAN
    BY <1>1 DEF SideInv, SideTypeOK
  <2>2. task' \in [Tasks -> SideTasks]
    BY <1>1, <1>2 DEF TaskFits
  <2>3. os' \in Systems
    BY <1>1 DEF SideInv, SideTypeOK
  <2> QED
    BY <1>1, <1>3, <2>1, <2>2, <2>3 DEF SideTypeOK
<1>5. TasksFit' /\ RecordsFit' /\ OneHolder'
  BY <1>1, <1>2, <1>3 DEF TasksFit, RecordsFit, OneHolder
<1>6. TapWatched' /\ TunnelsAccounted'
  BY <1>1, <1>3 DEF TapWatched, TunnelsAccounted
<1>7. RuleAccounted'
  <2>1. ~(rule' /\ ~leaked')
    BY <1>1
  <2> QED
    BY <2>1 DEF RuleAccounted
<1> QED
  BY <1>4, <1>5, <1>6, <1>7 DEF SideInv

\* Every step of every command, of a process and of the helper keeps the invariant.
LEMMA SideStep == SideInv /\ [SideNext]_sideVars => SideInv'
<1> SUFFICES ASSUME SideInv, [SideNext]_sideVars PROVE SideInv'
  OBVIOUS
<1>1. ASSUME NEW t \in Tasks, StartSideTunnel(t) \/ StopSideTunnel(t) \/ StopAllSideTunnels(t)
      PROVE  SideInv'
  <2>1. PICK name \in Names, c \in Clients, left \in SUBSET Clients : Receive(t, name, c, left)
    <3>1. CASE StopAllSideTunnels(t)
      <4> DEFINE known == {c \in Clients : tunnels[c] # NoPid}
      <4>1. PICK c \in known : Receive(t, "StopAll", c, known \ {c})
        BY <3>1 DEF StopAllSideTunnels
      <4>2. c \in Clients /\ known \ {c} \in SUBSET Clients /\ "StopAll" \in Names
        BY DEF Names
      <4> HIDE DEF known
      <4> QED
        BY <4>1, <4>2
    <3>2. CASE StartSideTunnel(t) \/ StopSideTunnel(t)
      BY <3>2 DEF StartSideTunnel, StopSideTunnel, Names
    <3> QED
      BY <1>1, <3>1, <3>2
  <2> QED
    BY <2>1, ReceiveKeeps
<1>2. ASSUME NEW t \in Tasks, StopStep(t) PROVE SideInv'
  BY <1>2, RemoveKeeps, RevertsKeep, EndsOwnKeep DEF StopStep
<1>3. ASSUME NEW t \in Tasks, StartStep(t) PROVE SideInv'
  BY <1>3, QuietStepsKeep, SpawnKeeps, OpensKeeps, EndsOwnKeep, RoutesKeep, InsertKeeps DEF StartStep
<1>4. ASSUME NEW t \in Tasks, Reply(t) PROVE SideInv'
  BY <1>4, QuietStepsKeep
<1>5. CASE UNCHANGED sideVars
  <2>1. /\ os' = os /\ running' = running /\ device' = device /\ tap' = tap /\ rule' = rule
        /\ table' = table /\ adapter' = adapter /\ leaked' = leaked /\ tunnels' = tunnels
        /\ task' = task
    BY <1>5 DEF sideVars, kernelVars
  <2>2. SideTypeOK' /\ TasksFit' /\ RecordsFit' /\ OneHolder'
    BY <2>1 DEF SideInv, SideTypeOK, TasksFit, RecordsFit, OneHolder
  <2>3. TapWatched' /\ TunnelsAccounted' /\ RuleAccounted'
    BY <2>1 DEF SideInv, TapWatched, TunnelsAccounted, RuleAccounted
  <2> QED
    BY <2>2, <2>3 DEF SideInv
<1> QED
  BY <1>1, <1>2, <1>3, <1>4, <1>5, ExitKeeps, HelperDiesKeeps DEF SideNext

\* Before the first command nothing runs and nothing is recorded.
LEMMA SideStarts == SideInit => SideInv
<1> SUFFICES ASSUME SideInit PROVE SideInv
  OBVIOUS
<1>1. TaskFits(IdleTask) /\ IdleTask.pid = NoPid /\ IdleTask.at = "idle"
  BY DEF TaskFits, IdleTask, SideTasks, HoldingPlaces, StartPlaces, Names, Places
<1>2. SideTypeOK
  <2>1. task \in [Tasks -> SideTasks]
    BY <1>1 DEF SideInit, TaskFits
  <2>2. rule \in BOOLEAN /\ leaked \in BOOLEAN
    BY DEF SideInit
  <2> QED
    BY <2>1, <2>2 DEF SideInit, SideTypeOK, Routes
<1>3. TasksFit /\ RecordsFit /\ OneHolder /\ TapWatched
  BY <1>1 DEF SideInit, TasksFit, RecordsFit, OneHolder, TapWatched
<1>4. TunnelsAccounted /\ RuleAccounted
  BY DEF SideInit, TunnelsAccounted, RuleAccounted
<1> QED
  BY <1>2, <1>3, <1>4 DEF SideInv

\* A recorded process is held by no command, so its adapter has been routed.
LEMMA SideInvShows == SideInv => TunnelsInvariant
<1> SUFFICES ASSUME SideInv PROVE TapNeverOnLink
  BY DEF SideInv, TunnelsInvariant
<1>1. tap \subseteq Clients
  BY DEF SideInv, SideTypeOK
<1> QED
  BY <1>1 DEF SideInv, TapNeverOnLink, TapWatched, OneHolder

\* Whatever the connections send, in whatever order their commands interleave and
\* whichever commands fail: every OpenVPN process has an owner that can end it, the
\* rule is removed with the last tunnel or is known to be left, and no recorded TAP
\* adapter black-holes what is sent to it.
THEOREM TunnelsInvariantHolds == SideSpec => []TunnelsInvariant
BY SideStarts, SideStep, SideInvShows, PTL DEF SideSpec

\* Where one command moves, the others that are alone are idle.
LEMMA LoneMove ==
  ASSUME SideInv, LoneInv, NEW t \in Tasks, Busy(t), OneMoves(t),
         task[t].alone /\ task'[t].at # "idle" => StopsTheRest(t)' /\ RoutesItself(t)',
         task'[t].at # "idle" => task'[t].alone = task[t].alone
  PROVE  LoneInv'
<1>1. task \in [Tasks -> SideTasks]
  BY DEF SideInv, SideTypeOK
<1>2. \A u \in Tasks : u # t => task'[u] = task[u]
  BY <1>1 DEF OneMoves
<1>3. ASSUME NEW u \in Tasks, task'[u].alone, task'[u].at # "idle"
      PROVE  /\ \A w \in Tasks \ {u} : task'[w].at = "idle"
             /\ StopsTheRest(u)' /\ RoutesItself(u)'
  <2>1. u = t
    BY <1>2, <1>3 DEF LoneInv, Busy, At
  <2>2. task[t].alone
    BY <1>3, <2>1
  <2>3. \A w \in Tasks \ {t} : task[w].at = "idle"
    BY <2>2 DEF LoneInv, Busy, At
  <2> QED
    BY <1>2, <1>3, <2>1, <2>2, <2>3
<1> QED
  BY <1>3 DEF LoneInv, Busy, At

\* A command that arrives beside another leaves neither of them alone.
LEMMA ReceiveLone ==
  ASSUME SideInv, LoneInv, NEW t \in Tasks, NEW name \in Names, NEW c \in Clients,
         NEW left \in SUBSET Clients, Receive(t, name, c, left),
         name = "StopAll" => \A d \in Clients : tunnels[d] # NoPid => d \in left \union {c}
  PROVE  LoneInv'
<1> DEFINE solo == \A v \in Tasks \ {t} : ~Busy(v)
<1>1. /\ task \in [Tasks -> SideTasks] /\ tunnels' = tunnels
      /\ task' = [u \in Tasks |-> IF u = t THEN NewTask(name, c, left, solo)
                                   ELSE [task[u] EXCEPT !.alone = task[u].alone /\ ~Busy(u)]]
  BY DEF SideInv, SideTypeOK, Receive
<1> HIDE DEF solo
<1>2. /\ task'[t].at = "remove" /\ task'[t].name = name /\ task'[t].client = c
      /\ task'[t].left = left /\ task'[t].alone = solo
  BY <1>1 DEF NewTask
<1>3. ASSUME NEW u \in Tasks, u # t
      PROVE  task'[u].at = task[u].at /\ task'[u].alone = (task[u].alone /\ ~Busy(u))
  <2>1. task'[u] = [task[u] EXCEPT !.alone = task[u].alone /\ ~Busy(u)] /\ task[u] \in SideTasks
    BY <1>1, <1>3
  <2> QED
    BY <2>1 DEF SideTasks
<1>4. ASSUME NEW u \in Tasks, task'[u].alone, task'[u].at # "idle"
      PROVE  /\ \A w \in Tasks \ {u} : task'[w].at = "idle"
             /\ StopsTheRest(u)' /\ RoutesItself(u)'
  <2>1. u = t
    BY <1>3, <1>4 DEF Busy, At
  <2>2. \A w \in Tasks \ {t} : task[w].at = "idle"
    BY <1>2, <1>4, <2>1 DEF solo, Busy, At
  <2>3. StopsTheRest(t)'
    BY <1>1, <1>2 DEF StopsTheRest, At, Client
  <2>4. RoutesItself(t)'
    BY <1>2 DEF RoutesItself
  <2> QED
    BY <1>3, <2>1, <2>2, <2>3, <2>4
<1> QED
  BY <1>4 DEF LoneInv, Busy, At

\* A stop of all tunnels leaves behind only those that it still has to stop.
LEMMA StopLone == ASSUME SideInv, LoneInv, NEW t \in Tasks, StopStep(t) PROVE LoneInv'
<1>1. /\ task \in [Tasks -> SideTasks] /\ TaskFits(task[t]) /\ Busy(t) /\ Client(t) \in Clients
      /\ tunnels \in [Clients -> Pids \union {NoPid}]
  BY TaskKnown DEF SideInv, SideTypeOK, StopStep, Remove, RevertScopedRoutes, RevertRule, FlushTable,
                   Terminate, Busy, At
<1>2. \A c \in Clients : tunnels'[c] # NoPid => tunnels[c] # NoPid
  BY <1>1 DEF StopStep, Remove, RevertScopedRoutes, RevertRule, FlushTable, Terminate
<1>3. ASSUME NEW ok \in BOOLEAN, AfterStop(t, ok), task[t].at \in {"remove", "kill"},
             task[t].at = "remove" => tunnels'[Client(t)] = NoPid
      PROVE  LoneInv'
  <2>1. /\ OneMoves(t) /\ task'[t].at \in {"stage", "remove", "idle", "done"}
        /\ task'[t].at \in {"remove", "done"} =>
              /\ task'[t].alone = task[t].alone /\ task'[t].name = "StopAll"
              /\ task[t].left \subseteq task'[t].left \union
                    (IF task'[t].at = "remove" THEN {task'[t].client} ELSE {})
        /\ task'[t].at = "stage" => task'[t].name = "Start" /\ task'[t].alone = task[t].alone
    BY <1>3, AfterStopFits
  <2>2. ASSUME task[t].alone, task'[t].at # "idle"
        PROVE  StopsTheRest(t)' /\ RoutesItself(t)'
    <3>1. task'[t].at = "stage" => StopsTheRest(t)'
      BY <2>1 DEF StopsTheRest
    <3>2. task'[t].at \in {"remove", "done"} => task[t].name = "StopAll"
      <4> SUFFICES ASSUME task[t].name # "StopAll" PROVE task'[t].at \in {"stage", "idle"}
        OBVIOUS
      <4>1. CASE task[t].name = "Start" /\ ok
        <5>1. task' = [task EXCEPT ![t].at = "stage", ![t].pid = NoPid]
          BY <1>3, <4>1 DEF AfterStop
        <5>2. task'[t] = [task[t] EXCEPT !.at = "stage", !.pid = NoPid]
          BY <1>1, <5>1
        <5> QED
          BY <1>1, <5>2 DEF SideTasks
      <4>2. CASE ~(task[t].name = "Start" /\ ok)
        <5>1. task' = [task EXCEPT ![t] = IdleTask]
          BY <1>1, <1>3, <4>2 DEF AfterStop, Ends
        <5> QED
          BY <1>1, <5>1 DEF IdleTask
      <4> QED
        BY <4>1, <4>2
    <3>3. task'[t].at \in {"remove", "done"} => StopsTheRest(t)'
      <4> SUFFICES ASSUME task'[t].at \in {"remove", "done"}, NEW c \in Clients, tunnels'[c] # NoPid
                   PROVE  c \in task'[t].left \/ (task'[t].at = "remove" /\ c = task'[t].client)
        BY DEF StopsTheRest, At, Client
      <4>1. StopsTheRest(t) /\ task[t].name = "StopAll" /\ tunnels[c] # NoPid
        BY <1>1, <1>2, <2>2, <3>2 DEF LoneInv
      <4>2. c \in task[t].left
        BY <1>3, <4>1 DEF StopsTheRest, At
      <4> QED
        BY <2>1, <4>2
    <3>4. RoutesItself(t)'
      BY <2>1 DEF RoutesItself
    <3> QED
      BY <2>1, <2>2, <3>1, <3>3, <3>4
  <2> QED
    BY <1>1, <2>1, <2>2, LoneMove
<1>4. ASSUME OneMoves(t), task'[t].at \notin {"remove", "rule", "insert"},
             task'[t].name = task[t].name, task'[t].left = task[t].left, task'[t].alone = task[t].alone,
             task[t].at = "remove" => tunnels'[Client(t)] = NoPid
      PROVE  LoneInv'
  <2>1. ASSUME task[t].alone PROVE StopsTheRest(t)'
    BY <1>1, <1>2, <1>4, <2>1 DEF LoneInv, StopsTheRest, At, Client
  <2>2. RoutesItself(t)'
    BY <1>4 DEF RoutesItself
  <2> QED
    BY <1>1, <1>4, <2>1, <2>2, LoneMove
<1>5. CASE Remove(t)
  <2>1. task[t].at = "remove" /\ tunnels'[Client(t)] = NoPid
    BY <1>1, <1>5 DEF Remove, At
  <2>2. CASE tunnels[Client(t)] = NoPid
    BY <1>3, <1>5, <2>1, <2>2 DEF Remove
  <2>3. CASE tunnels[Client(t)] # NoPid
    <3>1. task' = [task EXCEPT ![t].at = "unscope", ![t].pid = tunnels[Client(t)]]
      BY <1>5, <2>3 DEF Remove
    <3>2. task'[t] = [task[t] EXCEPT !.at = "unscope", !.pid = tunnels[Client(t)]] /\ OneMoves(t)
      BY <1>1, <3>1 DEF OneMoves
    <3>3. /\ task'[t].at = "unscope" /\ task'[t].name = task[t].name
          /\ task'[t].left = task[t].left /\ task'[t].alone = task[t].alone
      BY <1>1, <3>2 DEF SideTasks
    <3> QED
      BY <1>4, <2>1, <3>2, <3>3
  <2> QED
    BY <2>2, <2>3
<1>6. CASE Terminate(t)
  BY <1>3, <1>6 DEF Terminate, At
<1>7. CASE \E place \in {"unrule", "unroute", "reroute", "kill", "route"} : Goes(t, place)
  <2>1. PICK place \in {"unrule", "unroute", "reroute", "kill", "route"} : Goes(t, place)
    BY <1>7
  <2>2. task'[t] = [task[t] EXCEPT !.at = place] /\ OneMoves(t)
    BY <1>1, <2>1 DEF Goes, OneMoves
  <2>3. /\ task'[t].at = place /\ task'[t].name = task[t].name
        /\ task'[t].left = task[t].left /\ task'[t].alone = task[t].alone
    BY <1>1, <2>2 DEF SideTasks
  <2>4. CASE task[t].at # "remove"
    BY <1>4, <2>1, <2>2, <2>3, <2>4
  <2>5. CASE task[t].at = "remove"
    BY <1>5, <2>5 DEF StopStep, RevertScopedRoutes, RevertRule, FlushTable, Terminate, At
  <2> QED
    BY <2>4, <2>5
<1> QED
  BY <1>5, <1>6, <1>7 DEF StopStep, RevertScopedRoutes, RevertRule, FlushTable

\* A start that nobody runs beside routes the table and the mark to itself.
LEMMA StartLone == ASSUME SideInv, LoneInv, NEW t \in Tasks, StartStep(t) PROVE LoneInv'
<1>1. /\ task \in [Tasks -> SideTasks] /\ TaskFits(task[t]) /\ Busy(t) /\ Client(t) \in Clients
      /\ task[t].name = "Start" /\ os' = os
  BY TaskKnown DEF SideInv, SideTypeOK, StartStep, StageProfile, SpawnOpenvpn, Opens, DeviceUp, NoDevice,
                   InstallScopedRoutes, ReplaceTable, AddRule, RouteAdapter, Insert, StartFails,
                   Busy, At, TaskFits, StartPlaces
<1>2. CASE Ends(t)
  <2>1. task'[t] = IdleTask /\ OneMoves(t)
    BY <1>1, <1>2 DEF Ends, OneMoves
  <2>2. task'[t].at = "idle"
    BY <2>1 DEF IdleTask
  <2> QED
    BY <1>1, <2>1, <2>2, LoneMove
<1>3. ASSUME OneMoves(t), task'[t].name = "Start", task'[t].alone = task[t].alone,
             task[t].alone => RoutesItself(t)'
      PROVE  LoneInv'
  BY <1>1, <1>3, LoneMove DEF StopsTheRest
<1>4. ASSUME NEW place, Goes(t, place), place # "idle"
      PROVE  /\ OneMoves(t) /\ task'[t].name = "Start" /\ task'[t].alone = task[t].alone
             /\ task'[t].at = place /\ task'[t].client = task[t].client
  <2>1. task'[t] = [task[t] EXCEPT !.at = place] /\ OneMoves(t)
    BY <1>1, <1>4 DEF Goes, OneMoves
  <2> QED
    BY <1>1, <2>1 DEF SideTasks
<1>5. CASE \E place \in {"spawn", "scope", "rerule", "fail"} : Goes(t, place)
  BY <1>3, <1>4, <1>5 DEF RoutesItself
<1>6. CASE SpawnOpenvpn(t) /\ ~Ends(t)
  <2>1. PICK n \in 1..Runs :
           task' = [task EXCEPT ![t].at = "wait", ![t].pid = <<Client(t), n>>]
    BY <1>6 DEF SpawnOpenvpn
  <2>2. task'[t] = [task[t] EXCEPT !.at = "wait", !.pid = <<Client(t), n>>] /\ OneMoves(t)
    BY <1>1, <2>1 DEF OneMoves
  <2>3. task'[t].at = "wait" /\ task'[t].name = "Start" /\ task'[t].alone = task[t].alone
    BY <1>1, <2>2 DEF SideTasks
  <2> QED
    BY <1>3, <2>2, <2>3 DEF RoutesItself
<1>7. CASE Opens(t)
  <2>1. PICK known \in BOOLEAN : task' = [task EXCEPT ![t].gw = known]
    BY <1>7 DEF Opens
  <2>2. task'[t] = [task[t] EXCEPT !.gw = known] /\ OneMoves(t)
    BY <1>1, <2>1 DEF OneMoves
  <2>3. task'[t].at = "wait" /\ task'[t].name = "Start" /\ task'[t].alone = task[t].alone
    BY <1>1, <1>7, <2>2 DEF SideTasks, Opens, At
  <2> QED
    BY <1>3, <2>2, <2>3 DEF RoutesItself
<1>8. CASE NoDevice(t) /\ ~Ends(t)
  <2>1. task' = [task EXCEPT ![t].at = "spawn", ![t].retry = TRUE, ![t].pid = NoPid]
    BY <1>8 DEF NoDevice
  <2>2. task'[t] = [task[t] EXCEPT !.at = "spawn", !.retry = TRUE, !.pid = NoPid] /\ OneMoves(t)
    BY <1>1, <2>1 DEF OneMoves
  <2>3. task'[t].at = "spawn" /\ task'[t].name = "Start" /\ task'[t].alone = task[t].alone
    BY <1>1, <2>2 DEF SideTasks
  <2> QED
    BY <1>3, <2>2, <2>3 DEF RoutesItself
<1>9. CASE ReplaceTable(t) /\ Goes(t, "rule")
  <2>1. /\ OneMoves(t) /\ task'[t].name = "Start" /\ task'[t].alone = task[t].alone
        /\ task'[t].at = "rule" /\ task'[t].client = task[t].client
    BY <1>4, <1>9
  <2>2. table' = Client(t)
    <3>1. task[t].at = "route" /\ task'[t].at # "fail"
      BY <1>9, <2>1 DEF ReplaceTable, At
    <3>2. ~Goes(t, "fail")
      BY <1>4, <3>1
    <3> QED
      BY <1>9, <3>2 DEF ReplaceTable
  <2>3. RoutesItself(t)'
    BY <2>1, <2>2 DEF RoutesItself, Client, At
  <2> QED
    BY <1>3, <2>1, <2>3
<1>10. CASE AddRule(t) /\ Goes(t, "insert")
  <2>1. /\ OneMoves(t) /\ task'[t].name = "Start" /\ task'[t].alone = task[t].alone
        /\ task'[t].at = "insert" /\ task'[t].client = task[t].client
    BY <1>4, <1>10
  <2>2. rule' /\ task[t].at = "rule" /\ device' = device /\ table' = table
    <3>1. ~Goes(t, "fail")
      BY <1>4, <2>1
    <3> QED
      BY <1>10, <3>1 DEF AddRule, At
  <2>3. task[t].alone => RoutesItself(t)'
    BY <1>1, <2>1, <2>2 DEF LoneInv, RoutesItself, Client, At
  <2> QED
    BY <1>3, <2>1, <2>3
<1>11. CASE RouteAdapter(t) /\ Goes(t, "insert")
  <2>1. OneMoves(t) /\ task'[t].name = "Start" /\ task'[t].alone = task[t].alone
    BY <1>4, <1>11
  <2>2. RoutesItself(t)'
    BY <1>1, <1>11 DEF RouteAdapter, RoutesItself
  <2> QED
    BY <1>3, <2>1, <2>2
<1> QED
  BY <1>2, <1>5, <1>6, <1>7, <1>8, <1>9, <1>10, <1>11
     DEF StartStep, StageProfile, DeviceUp, InstallScopedRoutes, ReplaceTable, AddRule, RouteAdapter,
         Insert, StartFails

\* Every step keeps what a lone command knows.
LEMMA LoneStep == SideInv /\ LoneInv /\ [SideNext]_sideVars => LoneInv'
<1> SUFFICES ASSUME SideInv, LoneInv, [SideNext]_sideVars PROVE LoneInv'
  OBVIOUS
<1>1. ASSUME NEW t \in Tasks, StartSideTunnel(t) \/ StopSideTunnel(t) PROVE LoneInv'
  <2>1. PICK name \in {"Start", "Stop"}, c \in Clients : Receive(t, name, c, {})
    BY <1>1 DEF StartSideTunnel, StopSideTunnel
  <2>2. name \in Names /\ {} \in SUBSET Clients /\ name # "StopAll"
    BY DEF Names
  <2> QED
    BY <2>1, <2>2, ReceiveLone
<1>2. ASSUME NEW t \in Tasks, StopAllSideTunnels(t) PROVE LoneInv'
  <2> DEFINE known == {c \in Clients : tunnels[c] # NoPid}
  <2>1. PICK c \in known : Receive(t, "StopAll", c, known \ {c})
    BY <1>2 DEF StopAllSideTunnels
  <2>2. /\ c \in Clients /\ known \ {c} \in SUBSET Clients /\ "StopAll" \in Names
        /\ \A d \in Clients : tunnels[d] # NoPid => d \in (known \ {c}) \union {c}
    BY DEF Names
  <2> HIDE DEF known
  <2> QED
    BY <2>1, <2>2, ReceiveLone
<1>3. ASSUME NEW t \in Tasks, Reply(t) PROVE LoneInv'
  <2>1. task \in [Tasks -> SideTasks] /\ Busy(t)
    BY <1>3 DEF SideInv, SideTypeOK, Reply, Busy, At
  <2>2. task'[t].at = "idle" /\ OneMoves(t)
    BY <1>3, <2>1 DEF Reply, IdleTask, OneMoves
  <2> QED
    BY <2>1, <2>2, LoneMove
<1>4. ASSUME NEW p \in Pids, OpenvpnExits(p) PROVE LoneInv'
  <2>1. /\ task' = task /\ tunnels' = tunnels /\ os' = os /\ rule' = rule
        /\ DevicesGo({c \in Clients : device[c] \in {p}})
    BY <1>4 DEF OpenvpnExits, ProcessesEnd
  <2>2. \A c \in Clients : device'[c] # NoPid => device[c] # NoPid /\ (table = c => table' = c)
    BY <2>1 DEF DevicesGo
  <2>3. ASSUME NEW t \in Tasks, Busy(t), task[t].alone PROVE StopsTheRest(t)' /\ RoutesItself(t)'
    <3>1. Client(t) \in Clients /\ StopsTheRest(t) /\ RoutesItself(t)
      BY <2>3, TaskKnown DEF LoneInv
    <3>2. StopsTheRest(t)'
      BY <2>1, <3>1 DEF StopsTheRest, At, Client
    <3>3. RoutesItself(t)'
      BY <2>1, <2>2, <3>1 DEF RoutesItself, At, Client
    <3> QED
      BY <3>2, <3>3
  <2> QED
    BY <2>1, <2>3 DEF LoneInv, Busy, At
<1>5. CASE HelperDies
  BY <1>5 DEF HelperDies, LoneInv, Busy, At, IdleTask
<1>6. CASE UNCHANGED sideVars
  BY <1>6 DEF sideVars, kernelVars, LoneInv, StopsTheRest, RoutesItself, Busy, At, Client
<1> QED
  BY <1>1, <1>2, <1>3, <1>4, <1>5, <1>6, StopLone, StartLone DEF SideNext

\* A stop of all tunnels that nothing ran beside ends every OpenVPN process, whatever
\* failed on its way; and a start that nothing ran beside has the mark routed to its
\* own device when it reports success, for any connections and clients.
THEOREM LoneCommandsKeepTheirWordAlways == SideSpec => []LoneCommandsKeepTheirWord
<1>1. SideInit => LoneInv
  BY DEF SideInit, LoneInv, Busy, At, IdleTask
<1>2. SideInv /\ LoneInv => LoneCommandsKeepTheirWord
  <2> SUFFICES ASSUME SideInv, LoneInv PROVE LoneCommandsKeepTheirWord
    OBVIOUS
  <2>1. ASSUME NEW t \in Tasks, At(t, "done"), task[t].alone PROVE running = {}
    <3>1. /\ task[t].name = "StopAll" /\ task[t].left = {} /\ task[t].pid = NoPid /\ Busy(t)
      BY <2>1, TaskKnown DEF TaskFits, HoldingPlaces, At, Busy
    <3>2. \A c \in Clients : tunnels[c] = NoPid
      BY <2>1, <3>1 DEF LoneInv, StopsTheRest, At
    <3>3. \A u \in Tasks : task[u].pid = NoPid
      BY <2>1, <3>1, TaskKnown DEF LoneInv, Busy, At, TaskFits, HoldingPlaces
    <3>4. NoPid \notin running
      BY PidsArePairs DEF SideInv, SideTypeOK
    <3> QED
      BY <3>2, <3>3, <3>4 DEF SideInv, TunnelsAccounted
  <2>2. StartRoutesItsTunnel
    BY DEF LoneInv, RoutesItself, StartRoutesItsTunnel, At, Busy
  <2> QED
    BY <2>1, <2>2 DEF LoneCommandsKeepTheirWord, StopAllEndsTunnels
<1> QED
  BY <1>1, <1>2, SideStarts, SideStep, LoneStep, PTL DEF SideSpec
=============================================================================
