-------------------------- MODULE SupervisorProofs --------------------------
(* Proofs about the takeover of the system DNS (module MacosDns), for any   *)
(* handlers, services and user lists, and about the supervisor beside it    *)
(* (module Supervisor), for any number of connections and generations.      *)
EXTENDS Supervisor, TLAPS

-----------------------------------------------------------------------------
(* The shape of a procedure: no file in hand holds 127.0.0.1, and restore  *)
(* gives back what the file holds.                                         *)

Shaped(p) ==
    /\ \A s \in Services : Loopback \notin p.saved[s]
    /\ p.at \in {"rewrite", "give"} => p.todo \subseteq Saved(p.saved)
Shapes == {p \in Procs : Shaped(p)}
DnsShapeOK == DnsTypeOK /\ proc \in [Handlers -> Shapes]

\* The clean copy of a recovery file is a recovery file of the same services.
LEMMA CleanCopy ==
    ASSUME NEW file \in Snapshots
    PROVE  /\ WithoutLoopbackSnapshot(file) \in Snapshots
           /\ Saved(WithoutLoopbackSnapshot(file)) = Saved(file)
           /\ \A s \in Services : Loopback \notin WithoutLoopbackSnapshot(file)[s]
BY DEF Snapshots, WithoutLoopbackSnapshot, WithoutLoopback, Saved, Missing,
       Lists, Servers, Loopback, Gateway

LEMMA ShapeIsProc ==
    ASSUME NEW f \in [Handlers -> Shapes] PROVE f \in [Handlers -> Procs]
BY DEF Shapes

\* The record of a procedure that is between two commands with nothing in hand.
LEMMA AtPlaceType ==
    ASSUME NEW place \in Places \ {"rewrite", "give"}
    PROVE  AtPlace(place) \in Shapes
BY DEF AtPlace, Procs, NoSnapshot, Snapshots, Shapes, Shaped, Missing, Loopback

LEMMA BecomeType ==
    ASSUME DnsShapeOK, NEW h \in Handlers, NEW r \in Shapes, Become(h, r)
    PROVE  proc' \in [Handlers -> Shapes]
BY DEF DnsShapeOK, Become

LEMMA FinishType ==
    ASSUME DnsShapeOK, NEW h \in Handlers, NEW outcome \in {"ok", "err"},
           Finish(h, outcome)
    PROVE  proc' \in [Handlers -> Shapes]
<1>1. AtPlace(IF proc[h].rollback THEN "err" ELSE outcome) \in Shapes
  BY AtPlaceType DEF Places
<1>2. QED
  BY <1>1, BecomeType DEF Finish

LEMMA GoType ==
    ASSUME DnsShapeOK, NEW h \in Handlers,
           NEW place \in Places \ {"rewrite", "give"}, Go(h, place)
    PROVE  proc' \in [Handlers -> Shapes]
<1>1. [proc[h] EXCEPT !.at = place] \in Shapes
  BY DEF DnsShapeOK, Procs, Shapes, Shaped
<1>2. QED
  BY <1>1, BecomeType DEF Go

LEMMA SetDnsType ==
    ASSUME DnsShapeOK, NEW s \in Services, NEW list \in Lists, NEW succeeds,
           SetDnsServers(s, list, succeeds)
    PROVE  dns' \in [Services -> Lists]
BY DEF DnsShapeOK, DnsTypeOK, SetDnsServers

LEMMA WriteType ==
    ASSUME DnsShapeOK, NEW h \in Handlers, NEW r \in Shapes, WriteSnapshot(h, r)
    PROVE  proc' \in [Handlers -> Shapes] /\ snapshot' \in Snapshots
<1>1. proc[h].saved \in Snapshots
  BY DEF DnsShapeOK, Procs, Shapes, Shaped
<1>2. QED
  BY <1>1, BecomeType, FinishType DEF WriteSnapshot, DnsShapeOK, DnsTypeOK

\* Every step of a procedure keeps the types.
LEMMA StepType ==
    ASSUME DnsShapeOK, NEW h \in Handlers, DnsStep(h)
    PROVE  DnsShapeOK'
<1>t. DnsTypeOK /\ proc \in [Handlers -> Shapes]
  BY DEF DnsShapeOK
<1>p. proc[h] \in Shapes /\ proc[h] \in Procs /\ Shaped(proc[h])
  BY <1>t DEF Shapes
<1>f. /\ proc[h].saved \in Snapshots /\ proc[h].listed \in SUBSET Services
      /\ proc[h].todo \in SUBSET Services
  BY <1>p DEF Procs
<1>c. /\ snapshot \in Snapshots
      /\ WithoutLoopbackSnapshot(snapshot) \in Snapshots
      /\ Saved(WithoutLoopbackSnapshot(snapshot)) \in SUBSET Services
      /\ Saved(proc[h].saved) \in SUBSET Services
      /\ \A s \in Services :
            Loopback \notin WithoutLoopbackSnapshot(snapshot)[s]
  BY <1>t, CleanCopy DEF Saved, DnsTypeOK
<1>l. \A s \in Services : /\ WithoutLoopback(dns[s]) \in Lists
                           /\ Loopback \notin WithoutLoopback(dns[s])
  BY <1>t DEF Lists, WithoutLoopback, DnsTypeOK
<1>e. {Loopback} \in Lists /\ {Gateway} \in Lists
  BY DEF Lists, Servers
<1>s. SUFFICES /\ dns' \in [Services -> Lists]
               /\ snapshot' \in Snapshots
               /\ proc' \in [Handlers -> Shapes]
               /\ owed' \in [Services -> Lists] \union {Unknown}
  BY ShapeIsProc DEF DnsShapeOK, DnsTypeOK
<1> USE <1>t DEF DnsTypeOK
<1>1. CASE ApplyReads(h)
  <2>1. ASSUME NEW listed \in SUBSET Services \ {{}},
               Become(h, [proc[h] EXCEPT !.at = "capture",
                            !.saved = WithoutLoopbackSnapshot(snapshot),
                            !.listed = listed,
                            !.todo = listed \ Saved(WithoutLoopbackSnapshot(snapshot))])
        PROVE  proc' \in [Handlers -> Shapes]
    <3>1. [proc[h] EXCEPT !.at = "capture",
             !.saved = WithoutLoopbackSnapshot(snapshot), !.listed = listed,
             !.todo = listed \ Saved(WithoutLoopbackSnapshot(snapshot))] \in Shapes
      BY <1>p, <1>c DEF Procs, Shapes, Shaped, Places
    <3>2. QED
      BY <2>1, <3>1, BecomeType
  <2>2. QED
    BY <1>1, <2>1, FinishType DEF ApplyReads
<1>2. CASE ApplyCaptures(h)
  <2>1. ASSUME NEW s \in proc[h].todo,
               Become(h, [proc[h] EXCEPT !.saved[s] = WithoutLoopback(dns[s]),
                                         !.todo = @ \ {s}])
        PROVE  proc' \in [Handlers -> Shapes]
    <3>1. [proc[h] EXCEPT !.saved[s] = WithoutLoopback(dns[s]),
                          !.todo = @ \ {s}] \in Shapes
      <4>1. [proc[h].saved EXCEPT ![s] = WithoutLoopback(dns[s])] \in Snapshots
        BY <1>f, <1>l DEF Snapshots
      <4>2. \A t \in Services :
              Loopback \notin [proc[h].saved EXCEPT ![s] = WithoutLoopback(dns[s])][t]
        BY <1>f, <1>l, <1>p DEF Snapshots, Shaped
      <4>3. proc[h].at = "capture"
        BY <1>2, <2>1, <1>f DEF ApplyCaptures, Doing
      <4>4. QED
        BY <4>1, <4>2, <4>3, <1>p, <1>f DEF Procs, Shapes, Shaped
    <3>2. QED
      BY <2>1, <3>1, BecomeType
  <2>2. QED
    BY <1>2, <2>1, FinishType, GoType DEF ApplyCaptures, Places
<1>3. CASE ApplySaves(h)
  <2>1. [proc[h] EXCEPT !.at = "take", !.todo = proc[h].listed] \in Shapes
    BY <1>p, <1>f DEF Procs, Shapes, Shaped, Places
  <2>2. QED
    BY <1>3, <2>1, WriteType DEF ApplySaves
<1>4. CASE ApplyTakes(h)
  <2>1. \A s \in proc[h].todo : [proc[h] EXCEPT !.todo = @ \ {s}] \in Shapes
    BY <1>p, <1>f DEF Procs, Shapes, Shaped
  <2>2. [AtPlace("restore") EXCEPT !.rollback = TRUE] \in Shapes
    <3>1. AtPlace("restore") \in Shapes /\ AtPlace("restore").at = "restore"
      BY AtPlaceType DEF Places, AtPlace
    <3>2. QED
      BY <3>1 DEF Procs, Shapes, Shaped
  <2>3. QED
    BY <1>4, <2>1, <2>2, <1>f, <1>e, BecomeType, SetDnsType, FinishType
       DEF ApplyTakes
<1>5. CASE RestoreReads(h)
  <2>1. [proc[h] EXCEPT !.saved = WithoutLoopbackSnapshot(snapshot),
           !.todo = Saved(WithoutLoopbackSnapshot(snapshot)),
           !.at = IF WithoutLoopbackSnapshot(snapshot) = snapshot
                  THEN "give" ELSE "rewrite"] \in Shapes
    <3> DEFINE clean == WithoutLoopbackSnapshot(snapshot)
    <3>1. \A place \in {"give", "rewrite"} :
             [proc[h] EXCEPT !.saved = clean, !.todo = Saved(clean),
                             !.at = place] \in Shapes
      <4> HIDE DEF clean
      <4>1. /\ clean \in Snapshots /\ Saved(clean) \in SUBSET Services
            /\ \A s \in Services : Loopback \notin clean[s]
        BY <1>c DEF clean
      <4>2. QED
        BY <4>1, <1>p DEF Procs, Shapes, Shaped, Places
    <3>2. QED
      BY <3>1
  <2>2. QED
    BY <1>5, <2>1, BecomeType, FinishType DEF RestoreReads
<1>6. CASE RestoreRewrites(h)
  <2>1. [proc[h] EXCEPT !.at = "give"] \in Shapes
    BY <1>6, <1>p DEF Procs, Shapes, Shaped, Places, RestoreRewrites, Doing
  <2>2. QED
    BY <1>6, <2>1, WriteType DEF RestoreRewrites
<1>7. CASE RestoreGives(h)
  <2>1. ASSUME NEW s \in proc[h].todo, NEW succeeds \in BOOLEAN,
               SetDnsServers(s, proc[h].saved[s], succeeds),
               Become(h, [proc[h] EXCEPT !.todo = @ \ {s},
                                         !.failed = @ \/ ~succeeds])
        PROVE  dns' \in [Services -> Lists] /\ proc' \in [Handlers -> Shapes]
    <3>1. [proc[h] EXCEPT !.todo = @ \ {s}, !.failed = @ \/ ~succeeds] \in Shapes
      BY <1>p, <1>f DEF Procs, Shapes, Shaped
    <3>2. proc[h].saved[s] \in Lists
      BY <1>7, <2>1, <1>p, <1>f DEF RestoreGives, Doing, Shaped, Saved, Snapshots
    <3>3. QED
      BY <2>1, <3>1, <3>2, BecomeType, SetDnsType, <1>f
  <2>2. [proc[h] EXCEPT !.at = "check", !.todo = Saved(proc[h].saved)] \in Shapes
    BY <1>p, <1>c DEF Procs, Shapes, Shaped, Places
  <2>3. QED
    BY <1>7, <2>1, <2>2, BecomeType, FinishType DEF RestoreGives
<1>8. CASE RestoreChecks(h)
  <2>1. \A s \in proc[h].todo : [proc[h] EXCEPT !.todo = @ \ {s}] \in Shapes
    BY <1>p, <1>f DEF Procs, Shapes, Shaped
  <2>2. StillLoopback(h) => proc' \in [Handlers -> Shapes]
    BY FinishType, GoType DEF StillLoopback, Places
  <2>3. QED
    BY <1>8, <2>1, <2>2, BecomeType, FinishType, GoType DEF RestoreChecks, Places
<1>9. CASE RestoreFindsGateway(h)
  <2>1. [proc[h] EXCEPT !.at = "route", !.fellBack = TRUE,
                        !.todo = Saved(proc[h].saved)] \in Shapes
    BY <1>p, <1>c DEF Procs, Shapes, Shaped, Places
  <2>2. QED
    BY <1>9, <2>1, BecomeType, FinishType DEF RestoreFindsGateway
<1>10. CASE RestoreRoutes(h)
  <2>1. \A s \in proc[h].todo : [proc[h] EXCEPT !.todo = @ \ {s}] \in Shapes
    BY <1>p, <1>f DEF Procs, Shapes, Shaped
  <2>2. [proc[h] EXCEPT !.at = "check", !.todo = Saved(proc[h].saved)] \in Shapes
    BY <1>p, <1>c DEF Procs, Shapes, Shaped, Places
  <2>3. QED
    BY <1>10, <2>1, <2>2, <1>f, <1>e, BecomeType, SetDnsType, FinishType
       DEF RestoreRoutes
<1>11. CASE RestoreRemoves(h)
  <2>1. NoSnapshot \in Snapshots
    BY DEF NoSnapshot, Snapshots
  <2>2. QED
    BY <1>11, <2>1, FinishType DEF RestoreRemoves
<1>12. QED
  BY <1>1, <1>2, <1>3, <1>4, <1>5, <1>6, <1>7, <1>8, <1>9, <1>10, <1>11 DEF DnsStep

\* Beginning, returning and dying keep the types.
LEMMA NextType == DnsShapeOK /\ [DnsNext]_dnsVars => DnsShapeOK'
<1> SUFFICES ASSUME DnsShapeOK, [DnsNext]_dnsVars PROVE DnsShapeOK'
  OBVIOUS
<1>t. DnsTypeOK /\ proc \in [Handlers -> Shapes]
  BY DEF DnsShapeOK
<1>s. ASSUME DnsTypeOK, dns' = dns, snapshot' = snapshot,
             owed' \in {owed, Unknown}, proc' \in [Handlers -> Shapes]
      PROVE  DnsShapeOK'
  BY <1>s, ShapeIsProc DEF DnsShapeOK, DnsTypeOK
<1>1. ASSUME NEW h \in Handlers, NEW place \in {"apply", "restore"},
             Begin(h, place)
      PROVE  DnsShapeOK'
  BY <1>1, <1>t, <1>s, AtPlaceType, BecomeType DEF Begin, Places
<1>2. ASSUME NEW h \in Handlers, DnsReturns(h) PROVE DnsShapeOK'
  BY <1>2, <1>t, <1>s, AtPlaceType, BecomeType DEF DnsReturns, Places
<1>3. CASE DnsCrash
  <2>1. AtPlace("idle") \in Shapes
    BY AtPlaceType DEF Places
  <2>2. QED
    BY <1>3, <2>1, <1>t, <1>s DEF DnsCrash
<1>4. CASE UNCHANGED dnsVars
  BY <1>4, <1>t, <1>s DEF dnsVars
<1>5. QED
  BY <1>1, <1>2, <1>3, <1>4, StepType DEF DnsNext, BeginApply, BeginRestore

LEMMA InitType == DnsInit => DnsShapeOK
<1> SUFFICES ASSUME DnsInit PROVE DnsShapeOK
  OBVIOUS
<1>1. AtPlace("idle") \in Shapes
  BY AtPlaceType DEF Places
<1>2. proc \in [Handlers -> Shapes]
  BY <1>1 DEF DnsInit
<1>3. owed \in [Services -> Lists] /\ {Loopback} \in Lists
  BY UserListsAssumption DEF DnsInit, Lists, Servers
<1>4. snapshot \in Snapshots /\ dns \in [Services -> Lists]
  BY <1>3 DEF DnsInit, Snapshots
<1>5. QED
  BY <1>2, <1>3, <1>4, ShapeIsProc DEF DnsShapeOK, DnsTypeOK

\* Every variable of the takeover keeps its type.
THEOREM DnsTypeCorrect == DnsSpec => []DnsTypeOK
<1>1. QED
  BY InitType, NextType, PTL DEF DnsSpec, DnsShapeOK

-----------------------------------------------------------------------------
(* A restore gives back clean lists or the gateway, so 127.0.0.1 enters a  *)
(* service's list only while a takeover is under way.                      *)

\* A command that sets a list without 127.0.0.1 does not bring it in.
LEMMA SetDnsClean ==
    ASSUME DnsTypeOK, NEW s \in Services, NEW list \in Lists,
           Loopback \notin list, NEW succeeds, SetDnsServers(s, list, succeeds),
           NEW t \in Services, Loopback \in dns'[t]
    PROVE  Loopback \in dns[t]
BY DEF DnsTypeOK, SetDnsServers

LEMMA StepTakeover ==
    ASSUME DnsShapeOK, [DnsNext]_dnsVars, NEW s \in Services,
           Loopback \in dns'[s], Loopback \notin dns[s]
    PROVE  \E h \in Handlers : Doing(h, "take")
<1>t. DnsTypeOK /\ proc \in [Handlers -> Shapes]
  BY DEF DnsShapeOK
<1>1. dns' # dns
  OBVIOUS
<1>2. PICK h \in Handlers : ApplyTakes(h) \/ RestoreGives(h) \/ RestoreRoutes(h)
  BY <1>1 DEF DnsNext, dnsVars, BeginApply, BeginRestore, Begin, DnsReturns,
     DnsCrash, DnsStep, ApplyReads, ApplyCaptures, ApplySaves, RestoreReads,
     RestoreRewrites, RestoreChecks, RestoreFindsGateway, RestoreRemoves
<1>p. /\ proc[h] \in Procs /\ Shaped(proc[h])
      /\ proc[h].todo \in SUBSET Services /\ proc[h].saved \in Snapshots
  BY <1>t DEF Shapes, Procs
<1>3. ASSUME RestoreGives(h) PROVE FALSE
  <2>1. PICK t \in proc[h].todo, succeeds \in BOOLEAN :
           SetDnsServers(t, proc[h].saved[t], succeeds)
    BY <1>1, <1>3 DEF RestoreGives
  <2>2. proc[h].saved[t] \in Lists /\ Loopback \notin proc[h].saved[t]
    BY <1>3, <1>p DEF RestoreGives, Doing, Shaped, Saved, Snapshots
  <2>3. QED
    BY <2>1, <2>2, <1>p, <1>t, SetDnsClean
<1>4. ASSUME RestoreRoutes(h) PROVE FALSE
  <2>1. PICK t \in proc[h].todo, succeeds \in BOOLEAN :
           SetDnsServers(t, {Gateway}, succeeds)
    BY <1>1, <1>4 DEF RestoreRoutes
  <2>2. {Gateway} \in Lists /\ Loopback \notin {Gateway}
    BY DEF Lists, Servers, Gateway, Loopback
  <2>3. QED
    BY <2>1, <2>2, <1>p, <1>t, SetDnsClean
<1>5. QED
  BY <1>2, <1>3, <1>4 DEF ApplyTakes

\* Only a takeover points a service at 127.0.0.1, whatever the recovery file
\* held, whatever failed and however procedures overlap.
THEOREM OnlyTakeoverCaptures == DnsSpec => LoopbackOnlyByTakeover
<1>1. DnsShapeOK /\ [DnsNext]_dnsVars
         => [\A s \in Services :
               Loopback \in dns'[s] /\ Loopback \notin dns[s]
                  => \E h \in Handlers : Doing(h, "take")]_dnsVars
  BY StepTakeover
<1>2. QED
  BY InitType, NextType, <1>1, PTL DEF DnsSpec, LoopbackOnlyByTakeover

-----------------------------------------------------------------------------
(* The recovery file.  While no two procedures have overlapped, the one    *)
(* that runs carries the lists the machine is owed, touches only services  *)
(* the file holds, and reaches the removal of the file only with each of   *)
(* them settled and found free of 127.0.0.1.                               *)

Restoring == {"rewrite", "give", "check", "gateway", "route", "remove"}
Carrying == {"capture", "save", "take"} \union Restoring
Settles(list, due) ==
    list \in {WithoutLoopback(due), {Gateway}} \/ Loopback \in list

Alone == \A g, h \in Handlers : Busy(g) /\ Busy(h) => g = h
Carries(p, due) ==
    p.at \in Carrying =>
        \A s \in Saved(p.saved) : p.saved[s] = WithoutLoopback(due[s])
Captures(p, file) ==
    /\ p.at \in {"capture", "save"} => Saved(file) \subseteq Saved(p.saved)
    /\ p.at = "capture" => /\ p.todo \intersect Saved(file) = {}
                           /\ p.listed \subseteq p.todo \union Saved(p.saved)
    /\ p.at = "save" => p.listed \subseteq Saved(p.saved)
    /\ p.at = "take" => p.todo \subseteq Saved(file)
Restores(p, file, machine, due) ==
    /\ p.at \in Restoring => /\ Saved(p.saved) = Saved(file)
                             /\ p.todo \subseteq Saved(file)
    /\ p.at = "rewrite" => p.todo = Saved(file)
    /\ p.at = "give" /\ ~p.failed =>
          \A s \in Saved(file) \ p.todo : Settles(machine[s], due[s])
    /\ p.at \in {"check", "gateway", "route", "remove"} =>
          \A s \in Saved(file) : Settles(machine[s], due[s])
    /\ p.at = "check" =>
          \A s \in Saved(file) \ p.todo : Loopback \notin machine[s]
    /\ p.at = "remove" => \A s \in Saved(file) : Loopback \notin machine[s]
InHand(p, file, machine, due) ==
    Carries(p, due) /\ Captures(p, file) /\ Restores(p, file, machine, due)

Recoverable(file, machine, due) ==
    \A s \in Services :
        IF file[s] = Missing THEN machine[s] = due[s]
        ELSE WithoutLoopback(file[s]) = WithoutLoopback(due[s])
AllInHand == \A h \in Handlers : InHand(proc[h], snapshot, dns, owed)
DnsSound ==
    owed # Unknown =>
        Alone /\ Recoverable(snapshot, dns, owed) /\ AllInHand

\* A procedure that holds nothing constrains nothing.
LEMMA NothingInHand ==
    ASSUME NEW p, p.at \notin Carrying, NEW file, NEW machine, NEW due
    PROVE  InHand(p, file, machine, due)
BY DEF InHand, Carries, Captures, Restores, Carrying, Restoring

\* A step of the one procedure that runs leaves the others as they are.
LEMMA OneSteps ==
    ASSUME DnsShapeOK, Alone, NEW h \in Handlers, Busy(h), NEW r, Become(h, r),
           InHand(r, snapshot', dns', owed')
    PROVE  Alone' /\ AllInHand'
<1>1. \A g \in Handlers \ {h} : proc'[g] = proc[g] /\ ~Busy(g)
  BY DEF Become, Alone, DnsShapeOK
<1>2. proc'[h] = r
  BY DEF Become, DnsShapeOK
<1>3. ASSUME NEW g \in Handlers \ {h}
      PROVE  InHand(proc'[g], snapshot', dns', owed')
  <2>1. proc'[g].at \notin Carrying
    BY <1>1 DEF Busy, Doing, Carrying, Restoring
  <2>2. QED
    BY <2>1, NothingInHand
<1>4. AllInHand'
  BY <1>2, <1>3 DEF AllInHand
<1>5. Alone'
  BY <1>1 DEF Alone, Busy, Doing
<1>6. QED
  BY <1>4, <1>5

LEMMA OneFinishes ==
    ASSUME DnsShapeOK, Alone, NEW h \in Handlers, Busy(h), NEW outcome,
           outcome \in {"ok", "err"}, Finish(h, outcome)
    PROVE  Alone' /\ AllInHand'
<1> DEFINE r == AtPlace(IF proc[h].rollback THEN "err" ELSE outcome)
<1>1. r.at \notin Carrying
  BY DEF AtPlace, Carrying, Restoring
<1>2. InHand(r, snapshot', dns', owed')
  BY <1>1, NothingInHand
<1>3. QED
  BY <1>2, OneSteps DEF Finish

\* The servers of a service the file holds may be set.
LEMMA SetRecoverable ==
    ASSUME DnsTypeOK, Recoverable(snapshot, dns, owed), NEW s \in Saved(snapshot),
           NEW list, NEW succeeds, SetDnsServers(s, list, succeeds),
           UNCHANGED <<snapshot, owed>>
    PROVE  Recoverable(snapshot', dns', owed')
BY DEF DnsTypeOK, Recoverable, SetDnsServers, Saved

\* A file that holds the lists in hand, of no fewer services, may be written.
LEMMA WriteRecoverable ==
    ASSUME DnsShapeOK, Recoverable(snapshot, dns, owed), NEW h \in Handlers,
           Carries(proc[h], owed), proc[h].at \in Carrying,
           Saved(snapshot) \subseteq Saved(proc[h].saved),
           snapshot' \in {snapshot, proc[h].saved}, UNCHANGED <<dns, owed>>
    PROVE  Recoverable(snapshot', dns', owed')
BY DEF Recoverable, Carries, Saved, WithoutLoopback

Kept == Alone /\ Recoverable(snapshot, dns, owed) /\ AllInHand

\* The steps that leave the settings, the file and the debt alone need only
\* the procedure's own part.
LEMMA OneStepsInside ==
    ASSUME DnsShapeOK, Kept, NEW h \in Handlers, Busy(h), NEW r, Become(h, r),
           InHand(r, snapshot, dns, owed), UNCHANGED <<dns, snapshot, owed>>
    PROVE  Kept'
BY OneSteps DEF Kept

LEMMA OneFinishesInside ==
    ASSUME DnsShapeOK, Kept, NEW h \in Handlers, Busy(h), NEW outcome,
           outcome \in {"ok", "err"}, Finish(h, outcome),
           UNCHANGED <<dns, snapshot, owed>>
    PROVE  Kept'
BY OneFinishes DEF Kept

\* The steps of apply.
LEMMA ApplyKeeps ==
    ASSUME DnsShapeOK, Kept, NEW h \in Handlers,
           \/ ApplyReads(h) \/ ApplyCaptures(h) \/ ApplySaves(h) \/ ApplyTakes(h)
    PROVE  Kept'
<1>t. /\ DnsTypeOK /\ proc[h] \in Procs /\ Shaped(proc[h])
      /\ proc[h].saved \in Snapshots /\ proc[h].todo \in SUBSET Services
  BY DEF DnsShapeOK, Shapes, Procs
<1>k. /\ Carries(proc[h], owed) /\ Captures(proc[h], snapshot)
      /\ Restores(proc[h], snapshot, dns, owed)
  BY DEF Kept, AllInHand, InHand
<1>b. Busy(h)
  BY DEF ApplyReads, ApplyCaptures, ApplySaves, ApplyTakes, Busy, Doing
<1>1. CASE ApplyReads(h)
  <2>1. ASSUME NEW listed \in SUBSET Services,
               Become(h, [proc[h] EXCEPT !.at = "capture",
                            !.saved = WithoutLoopbackSnapshot(snapshot),
                            !.listed = listed,
                            !.todo = listed \ Saved(WithoutLoopbackSnapshot(snapshot))])
        PROVE  Kept'
    <3> DEFINE clean == WithoutLoopbackSnapshot(snapshot)
               r == [proc[h] EXCEPT !.at = "capture", !.saved = clean,
                       !.listed = listed, !.todo = listed \ Saved(clean)]
    <3>1. /\ Saved(clean) = Saved(snapshot)
          /\ \A s \in Saved(clean) : clean[s] = WithoutLoopback(owed[s])
      BY <1>t, CleanCopy DEF DnsTypeOK, Kept, Recoverable, Saved,
         WithoutLoopbackSnapshot
    <3>2. /\ r.at = "capture" /\ r.saved = clean /\ r.listed = listed
          /\ r.todo = listed \ Saved(clean)
      BY <1>t DEF Procs
    <3> HIDE DEF clean, r
    <3>3. Carries(r, owed) /\ Captures(r, snapshot)
      BY <3>1, <3>2 DEF Carries, Captures
    <3>4. Restores(r, snapshot, dns, owed)
      BY <3>2 DEF Restores, Restoring
    <3>5. QED
      BY <2>1, <1>1, <1>b, <3>3, <3>4, OneStepsInside DEF InHand, ApplyReads, r, clean
  <2>2. QED
    BY <1>1, <2>1, <1>b, OneFinishesInside DEF ApplyReads
<1>2. CASE ApplyCaptures(h)
  <2>a. proc[h].at = "capture"
    BY <1>2 DEF ApplyCaptures, Doing
  <2>1. ASSUME NEW s \in proc[h].todo,
               Become(h, [proc[h] EXCEPT !.saved[s] = WithoutLoopback(dns[s]),
                                         !.todo = @ \ {s}])
        PROVE  Kept'
    <3> DEFINE file == [proc[h].saved EXCEPT ![s] = WithoutLoopback(dns[s])]
               r == [proc[h] EXCEPT !.saved[s] = WithoutLoopback(dns[s]),
                                    !.todo = @ \ {s}]
    <3>1. snapshot[s] = Missing /\ dns[s] = owed[s]
      BY <2>a, <1>k, <1>t DEF Captures, Saved, Kept, Recoverable
    <3>2. /\ r.at = "capture" /\ r.saved = file /\ r.listed = proc[h].listed
          /\ r.todo = proc[h].todo \ {s}
      BY <1>t, <2>a DEF Procs
    <3>3. WithoutLoopback(dns[s]) # Missing
      BY <1>t DEF WithoutLoopback, Missing, DnsTypeOK, Lists, Servers, Loopback, Gateway
    <3>4. /\ Saved(file) = Saved(proc[h].saved) \union {s}
          /\ file[s] = WithoutLoopback(owed[s])
          /\ \A t \in Services \ {s} : file[t] = proc[h].saved[t]
      BY <1>t, <3>1, <3>3 DEF Saved, Snapshots
    <3> HIDE DEF file, r
    <3>5. Carries(r, owed)
      BY <1>k, <2>a, <3>2, <3>4 DEF Carries, Carrying, Saved
    <3>6. Captures(r, snapshot)
      BY <1>k, <2>a, <3>2, <3>4 DEF Captures
    <3>7. Restores(r, snapshot, dns, owed)
      BY <3>2 DEF Restores, Restoring
    <3>8. QED
      BY <2>1, <1>2, <1>b, <3>5, <3>6, <3>7, OneStepsInside
         DEF InHand, ApplyCaptures, r
  <2>2. ASSUME proc[h].todo = {}, Go(h, "save") PROVE Kept'
    <3> DEFINE r == [proc[h] EXCEPT !.at = "save"]
    <3>1. /\ r.at = "save" /\ r.saved = proc[h].saved /\ r.listed = proc[h].listed
      BY <1>t DEF Procs
    <3> HIDE DEF r
    <3>2. Carries(r, owed) /\ Captures(r, snapshot)
      BY <1>k, <2>a, <2>2, <3>1 DEF Carries, Carrying, Captures
    <3>3. Restores(r, snapshot, dns, owed)
      BY <3>1 DEF Restores, Restoring
    <3>4. QED
      BY <2>2, <1>2, <1>b, <3>2, <3>3, OneStepsInside
         DEF InHand, ApplyCaptures, Go, r
  <2>3. QED
    BY <1>2, <2>1, <2>2, <1>b, OneFinishesInside DEF ApplyCaptures
<1>3. CASE ApplySaves(h)
  <2>a. proc[h].at = "save"
    BY <1>3 DEF ApplySaves, Doing
  <2>1. /\ snapshot' \in {snapshot, proc[h].saved} /\ UNCHANGED <<dns, owed>>
        /\ \/ /\ snapshot' = proc[h].saved
              /\ Become(h, [proc[h] EXCEPT !.at = "take", !.todo = proc[h].listed])
           \/ Finish(h, "err")
    BY <1>3 DEF ApplySaves, WriteSnapshot
  <2>2. Recoverable(snapshot', dns', owed')
    BY <1>k, <2>a, <2>1, WriteRecoverable DEF Carrying, Captures, Kept
  <2>3. ASSUME snapshot' = proc[h].saved,
               Become(h, [proc[h] EXCEPT !.at = "take", !.todo = proc[h].listed])
        PROVE  Alone' /\ AllInHand'
    <3> DEFINE r == [proc[h] EXCEPT !.at = "take", !.todo = proc[h].listed]
    <3>1. r.at = "take" /\ r.saved = proc[h].saved /\ r.todo = proc[h].listed
      BY <1>t DEF Procs
    <3> HIDE DEF r
    <3>2. Carries(r, owed') /\ Captures(r, snapshot')
      BY <1>k, <2>a, <2>1, <2>3, <3>1 DEF Carries, Carrying, Captures
    <3>3. Restores(r, snapshot', dns', owed')
      BY <3>1 DEF Restores, Restoring
    <3>4. QED
      BY <2>3, <1>b, <3>2, <3>3, OneSteps DEF InHand, Kept, r
  <2>4. QED
    BY <2>1, <2>2, <2>3, <1>b, OneFinishes DEF Kept
<1>4. CASE ApplyTakes(h)
  <2>a. proc[h].at = "take" /\ UNCHANGED <<snapshot, owed>>
    BY <1>4 DEF ApplyTakes, Doing
  <2>s. \A s \in proc[h].todo : s \in Saved(snapshot)
    BY <1>k, <2>a DEF Captures
  <2>1. ASSUME NEW s \in proc[h].todo, SetDnsServers(s, {Loopback}, TRUE),
               Become(h, [proc[h] EXCEPT !.todo = @ \ {s}])
        PROVE  Kept'
    <3> DEFINE r == [proc[h] EXCEPT !.todo = @ \ {s}]
    <3>1. /\ r.at = "take" /\ r.saved = proc[h].saved
          /\ r.todo = proc[h].todo \ {s}
      BY <1>t, <2>a DEF Procs
    <3> HIDE DEF r
    <3>2. Carries(r, owed') /\ Captures(r, snapshot')
      BY <1>k, <2>a, <3>1 DEF Carries, Carrying, Captures
    <3>3. Restores(r, snapshot', dns', owed')
      BY <3>1 DEF Restores, Restoring
    <3>4. Alone' /\ AllInHand'
      BY <2>1, <1>b, <3>2, <3>3, OneSteps DEF InHand, Kept, r
    <3>5. QED
      BY <2>1, <2>s, <2>a, <1>t, <3>4, SetRecoverable DEF Kept
  <2>2. ASSUME NEW s \in proc[h].todo, SetDnsServers(s, {Loopback}, FALSE),
               Become(h, [AtPlace("restore") EXCEPT !.rollback = TRUE])
        PROVE  Kept'
    <3> DEFINE r == [AtPlace("restore") EXCEPT !.rollback = TRUE]
    <3>1. r.at = "restore"
      BY DEF AtPlace
    <3> HIDE DEF r
    <3>2. InHand(r, snapshot', dns', owed')
      BY <3>1, NothingInHand DEF Carrying, Restoring
    <3>3. Alone' /\ AllInHand'
      BY <2>2, <1>b, <3>2, OneSteps DEF Kept, r
    <3>4. QED
      BY <2>2, <2>s, <2>a, <1>t, <3>3, SetRecoverable DEF Kept
  <2>3. QED
    BY <1>4, <2>1, <2>2, <2>a, <1>b, OneFinishesInside DEF ApplyTakes
<1>5. QED
  BY <1>1, <1>2, <1>3, <1>4

\* Setting a service to what it is owed, or to the gateway, settles it; a
\* command that changes nothing and succeeds has left 127.0.0.1.
LEMMA SetSettles ==
    ASSUME DnsTypeOK, NEW s \in Services, NEW list, NEW succeeds \in BOOLEAN,
           SetDnsServers(s, list, succeeds),
           list \in {WithoutLoopback(owed[s]), {Gateway}}
    PROVE  /\ succeeds => Settles(dns'[s], owed[s])
           /\ Settles(dns[s], owed[s]) => Settles(dns'[s], owed[s])
           /\ \A t \in Services \ {s} : dns'[t] = dns[t]
BY DEF DnsTypeOK, SetDnsServers, Settles

\* The reading, rewriting and giving of restore.
LEMMA GivingKeeps ==
    ASSUME DnsShapeOK, Kept, NEW h \in Handlers,
           RestoreReads(h) \/ RestoreRewrites(h) \/ RestoreGives(h)
    PROVE  Kept'
<1>t. /\ DnsTypeOK /\ proc[h] \in Procs /\ Shaped(proc[h])
      /\ proc[h].saved \in Snapshots /\ proc[h].todo \in SUBSET Services
      /\ proc[h].failed \in BOOLEAN
  BY DEF DnsShapeOK, Shapes, Procs
<1>k. /\ Carries(proc[h], owed) /\ Captures(proc[h], snapshot)
      /\ Restores(proc[h], snapshot, dns, owed)
  BY DEF Kept, AllInHand, InHand
<1>b. Busy(h)
  BY DEF RestoreReads, RestoreRewrites, RestoreGives, Busy, Doing
<1>1. CASE RestoreReads(h)
  <2> DEFINE clean == WithoutLoopbackSnapshot(snapshot)
             r == [proc[h] EXCEPT !.saved = clean, !.todo = Saved(clean),
                     !.at = IF clean = snapshot THEN "give" ELSE "rewrite"]
  <2>1. ASSUME Become(h, r) PROVE Kept'
    <3>1. /\ Saved(clean) = Saved(snapshot)
          /\ \A s \in Saved(clean) : clean[s] = WithoutLoopback(owed[s])
      BY <1>t, CleanCopy DEF DnsTypeOK, Kept, Recoverable, Saved,
         WithoutLoopbackSnapshot
    <3>2. /\ r.at \in {"give", "rewrite"} /\ r.saved = clean
          /\ r.todo = Saved(clean)
      BY <1>t DEF Procs
    <3> HIDE DEF clean, r
    <3>3. Carries(r, owed) /\ Captures(r, snapshot)
      BY <3>1, <3>2 DEF Carries, Captures
    <3>4. Restores(r, snapshot, dns, owed)
      BY <3>1, <3>2 DEF Restores
    <3>5. QED
      BY <2>1, <1>1, <1>b, <3>3, <3>4, OneStepsInside DEF InHand, RestoreReads
  <2>2. QED
    BY <1>1, <2>1, <1>b, OneFinishesInside DEF RestoreReads
<1>2. CASE RestoreRewrites(h)
  <2> DEFINE r == [proc[h] EXCEPT !.at = "give"]
  <2>a. proc[h].at = "rewrite" /\ Saved(proc[h].saved) = Saved(snapshot)
    BY <1>2, <1>k DEF RestoreRewrites, Doing, Restores, Restoring
  <2>1. /\ snapshot' \in {snapshot, proc[h].saved} /\ UNCHANGED <<dns, owed>>
        /\ (snapshot' = proc[h].saved /\ Become(h, r)) \/ Finish(h, "err")
    BY <1>2 DEF RestoreRewrites, WriteSnapshot
  <2>2. Recoverable(snapshot', dns', owed')
    BY <1>k, <2>a, <2>1, WriteRecoverable DEF Carrying, Restoring, Kept
  <2>3. ASSUME snapshot' = proc[h].saved, Become(h, r)
        PROVE  Alone' /\ AllInHand'
    <3>1. /\ r.at = "give" /\ r.saved = proc[h].saved /\ r.todo = proc[h].todo
          /\ r.failed = proc[h].failed
      BY <1>t DEF Procs
    <3> HIDE DEF r
    <3>2. Carries(r, owed') /\ Captures(r, snapshot')
      BY <1>k, <2>a, <2>1, <3>1 DEF Carries, Carrying, Restoring, Captures
    <3>3. Restores(r, snapshot', dns', owed')
      BY <1>k, <2>a, <2>3, <3>1 DEF Restores, Restoring
    <3>4. QED
      BY <2>3, <1>b, <3>2, <3>3, OneSteps DEF InHand, Kept
  <2>4. QED
    BY <2>1, <2>2, <2>3, <1>b, OneFinishes DEF Kept
<1>3. CASE RestoreGives(h)
  <2>a. /\ proc[h].at = "give" /\ UNCHANGED <<snapshot, owed>>
        /\ Saved(proc[h].saved) = Saved(snapshot)
        /\ proc[h].todo \subseteq Saved(snapshot)
    BY <1>3, <1>k DEF RestoreGives, Doing, Restores, Restoring
  <2>1. ASSUME NEW s \in proc[h].todo, NEW succeeds \in BOOLEAN,
               SetDnsServers(s, proc[h].saved[s], succeeds),
               Become(h, [proc[h] EXCEPT !.todo = @ \ {s},
                                         !.failed = @ \/ ~succeeds])
        PROVE  Kept'
    <3> DEFINE r == [proc[h] EXCEPT !.todo = @ \ {s}, !.failed = @ \/ ~succeeds]
    <3>1. /\ r.at = "give" /\ r.saved = proc[h].saved
          /\ r.todo = proc[h].todo \ {s}
          /\ ~r.failed => ~proc[h].failed /\ succeeds
      BY <1>t, <2>a DEF Procs
    <3> HIDE DEF r
    <3>s. s \in Services /\ s \in Saved(snapshot)
      BY <2>a, <1>t
    <3>2. /\ succeeds => Settles(dns'[s], owed[s])
          /\ \A t \in Services \ {s} : dns'[t] = dns[t]
      <4>1. proc[h].saved[s] = WithoutLoopback(owed[s])
        BY <1>k, <2>a, <3>s DEF Carries, Carrying, Restoring
      <4>2. QED
        BY <4>1, <2>1, <3>s, <1>t, SetSettles
    <3>3. Carries(r, owed') /\ Captures(r, snapshot')
      BY <1>k, <2>a, <3>1 DEF Carries, Carrying, Restoring, Captures
    <3>4. Restores(r, snapshot', dns', owed')
      <4>1. ~r.failed =>
               \A t \in Saved(snapshot) \ r.todo : Settles(dns'[t], owed[t])
        BY <1>k, <2>a, <3>1, <3>2 DEF Restores, Saved
      <4>2. QED
        BY <4>1, <2>a, <3>1 DEF Restores, Restoring
    <3>5. Alone' /\ AllInHand'
      BY <2>1, <1>b, <3>3, <3>4, OneSteps DEF InHand, Kept, r
    <3>6. QED
      BY <2>1, <3>s, <2>a, <1>t, <3>5, SetRecoverable DEF Kept
  <2>2. ASSUME proc[h].todo = {}, ~proc[h].failed, UNCHANGED dns,
               Become(h, [proc[h] EXCEPT !.at = "check",
                                         !.todo = Saved(proc[h].saved)])
        PROVE  Kept'
    <3> DEFINE r == [proc[h] EXCEPT !.at = "check", !.todo = Saved(proc[h].saved)]
    <3>1. /\ r.at = "check" /\ r.saved = proc[h].saved
          /\ r.todo = Saved(proc[h].saved)
      BY <1>t DEF Procs
    <3> HIDE DEF r
    <3>2. Carries(r, owed) /\ Captures(r, snapshot)
      BY <1>k, <2>a, <3>1 DEF Carries, Carrying, Restoring, Captures
    <3>3. Restores(r, snapshot, dns, owed)
      BY <1>k, <2>a, <2>2, <3>1 DEF Restores, Restoring
    <3>4. QED
      BY <2>2, <2>a, <1>b, <3>2, <3>3, OneStepsInside DEF InHand, r
  <2>3. QED
    BY <1>3, <2>1, <2>2, <2>a, <1>b, OneFinishesInside DEF RestoreGives
<1>4. QED
  BY <1>1, <1>2, <1>3

\* The check, the detour by the gateway and the removal.
LEMMA CheckingKeeps ==
    ASSUME DnsShapeOK, Kept, NEW h \in Handlers,
           \/ RestoreChecks(h) \/ RestoreFindsGateway(h) \/ RestoreRoutes(h)
           \/ RestoreRemoves(h),
           owed' # Unknown
    PROVE  Kept'
<1>t. /\ DnsTypeOK /\ proc[h] \in Procs /\ Shaped(proc[h])
      /\ proc[h].saved \in Snapshots /\ proc[h].todo \in SUBSET Services
  BY DEF DnsShapeOK, Shapes, Procs
<1>k. /\ Carries(proc[h], owed) /\ Captures(proc[h], snapshot)
      /\ Restores(proc[h], snapshot, dns, owed)
  BY DEF Kept, AllInHand, InHand
<1>b. Busy(h)
  BY DEF RestoreChecks, RestoreFindsGateway, RestoreRoutes, RestoreRemoves,
     Busy, Doing
<1>a. /\ proc[h].at \in {"check", "gateway", "route", "remove"}
      /\ Saved(proc[h].saved) = Saved(snapshot)
      /\ proc[h].todo \subseteq Saved(snapshot)
      /\ \A s \in Saved(snapshot) : Settles(dns[s], owed[s])
  BY <1>k DEF RestoreChecks, RestoreFindsGateway, RestoreRoutes, RestoreRemoves,
     Doing, Restores, Restoring
\* The record after a step, where dns has changed at most to settled lists.
<1>r. ASSUME NEW r, r.at \in {"check", "gateway", "route", "remove"},
             r.saved = proc[h].saved, r.todo \subseteq Saved(snapshot),
             UNCHANGED <<snapshot, owed>>,
             \A s \in Saved(snapshot) : Settles(dns'[s], owed[s]),
             r.at = "check" =>
                \A s \in Saved(snapshot) \ r.todo : Loopback \notin dns'[s],
             r.at = "remove" =>
                \A s \in Saved(snapshot) : Loopback \notin dns'[s]
      PROVE  InHand(r, snapshot', dns', owed')
  <2>1. Carries(r, owed')
    BY <1>r, <1>k, <1>a DEF Carries, Carrying, Restoring
  <2>2. Captures(r, snapshot')
    BY <1>r DEF Captures
  <2>3. Restores(r, snapshot', dns', owed')
    BY <1>r, <1>a DEF Restores, Restoring
  <2>4. QED
    BY <2>1, <2>2, <2>3 DEF InHand
<1>1. CASE RestoreChecks(h)
  <2>a. proc[h].at = "check" /\ UNCHANGED <<dns, snapshot, owed>>
    BY <1>1 DEF RestoreChecks, Doing
  <2>c. \A s \in Saved(snapshot) \ proc[h].todo : Loopback \notin dns[s]
    BY <1>k, <2>a DEF Restores
  <2>1. ASSUME NEW place \in {"gateway", "remove"}, Go(h, place),
               place = "remove" => proc[h].todo = {}
        PROVE  Kept'
    <3> DEFINE r == [proc[h] EXCEPT !.at = place]
    <3>1. /\ r.at = place /\ r.saved = proc[h].saved /\ r.todo = proc[h].todo
      BY <1>t DEF Procs
    <3> HIDE DEF r
    <3>2. InHand(r, snapshot', dns', owed')
      BY <1>r, <1>a, <2>a, <2>c, <2>1, <3>1
    <3>3. QED
      BY <2>1, <2>a, <1>b, <3>2, OneStepsInside DEF Go, r
  <2>2. ASSUME NEW s \in proc[h].todo, Loopback \notin dns[s],
               Become(h, [proc[h] EXCEPT !.todo = @ \ {s}])
        PROVE  Kept'
    <3> DEFINE r == [proc[h] EXCEPT !.todo = @ \ {s}]
    <3>1. /\ r.at = "check" /\ r.saved = proc[h].saved
          /\ r.todo = proc[h].todo \ {s}
      BY <1>t, <2>a DEF Procs
    <3> HIDE DEF r
    <3>2. InHand(r, snapshot', dns', owed')
      BY <1>r, <1>a, <2>a, <2>c, <2>2, <3>1
    <3>3. QED
      BY <2>2, <2>a, <1>b, <3>2, OneStepsInside DEF r
  <2>3. StillLoopback(h) => Kept'
    BY <2>1, <2>a, <1>b, OneFinishesInside DEF StillLoopback
  <2>4. QED
    BY <1>1, <2>1, <2>2, <2>3, <2>a, <1>b, OneFinishesInside DEF RestoreChecks
<1>2. CASE RestoreFindsGateway(h)
  <2>a. UNCHANGED <<dns, snapshot, owed>>
    BY <1>2 DEF RestoreFindsGateway
  <2>1. ASSUME Become(h, [proc[h] EXCEPT !.at = "route", !.fellBack = TRUE,
                                         !.todo = Saved(proc[h].saved)])
        PROVE  Kept'
    <3> DEFINE r == [proc[h] EXCEPT !.at = "route", !.fellBack = TRUE,
                                    !.todo = Saved(proc[h].saved)]
    <3>1. /\ r.at = "route" /\ r.saved = proc[h].saved
          /\ r.todo = Saved(proc[h].saved)
      BY <1>t DEF Procs
    <3> HIDE DEF r
    <3>2. InHand(r, snapshot', dns', owed')
      BY <1>r, <1>a, <2>a, <3>1
    <3>3. QED
      BY <2>1, <2>a, <1>b, <3>2, OneStepsInside DEF r
  <2>2. QED
    BY <1>2, <2>1, <2>a, <1>b, OneFinishesInside DEF RestoreFindsGateway
<1>3. CASE RestoreRoutes(h)
  <2>a. proc[h].at = "route" /\ UNCHANGED <<snapshot, owed>>
    BY <1>3 DEF RestoreRoutes, Doing
  <2>1. ASSUME NEW s \in proc[h].todo, NEW succeeds \in BOOLEAN,
               SetDnsServers(s, {Gateway}, succeeds)
        PROVE  /\ Recoverable(snapshot', dns', owed')
               /\ \A t \in Saved(snapshot) : Settles(dns'[t], owed[t])
    <3>1. s \in Services /\ s \in Saved(snapshot)
      BY <1>a, <1>t
    <3>2. /\ Settles(dns[s], owed[s]) => Settles(dns'[s], owed[s])
          /\ \A t \in Services \ {s} : dns'[t] = dns[t]
      BY <2>1, <3>1, <1>t, SetSettles
    <3>3. QED
      BY <2>1, <2>a, <3>1, <3>2, <1>a, <1>t, SetRecoverable DEF Kept, Saved
  <2>2. ASSUME NEW s \in proc[h].todo, SetDnsServers(s, {Gateway}, TRUE),
               Become(h, [proc[h] EXCEPT !.todo = @ \ {s}])
        PROVE  Kept'
    <3> DEFINE r == [proc[h] EXCEPT !.todo = @ \ {s}]
    <3>1. /\ r.at = "route" /\ r.saved = proc[h].saved
          /\ r.todo = proc[h].todo \ {s}
      BY <1>t, <2>a DEF Procs
    <3> HIDE DEF r
    <3>2. /\ Recoverable(snapshot', dns', owed')
          /\ \A t \in Saved(snapshot) : Settles(dns'[t], owed[t])
      BY <2>1, <2>2
    <3>3. r.todo \subseteq Saved(snapshot)
      BY <1>a, <3>1
    <3>4. InHand(r, snapshot', dns', owed')
      BY <1>r, <2>a, <3>1, <3>2, <3>3
    <3>5. QED
      BY <2>2, <1>b, <3>2, <3>4, OneSteps DEF Kept, r
  <2>3. ASSUME NEW s \in proc[h].todo, SetDnsServers(s, {Gateway}, FALSE),
               Finish(h, "err")
        PROVE  Kept'
    BY <2>1, <2>3, <1>b, OneFinishes DEF Kept
  <2>4. ASSUME UNCHANGED dns,
               Become(h, [proc[h] EXCEPT !.at = "check",
                                         !.todo = Saved(proc[h].saved)])
        PROVE  Kept'
    <3> DEFINE r == [proc[h] EXCEPT !.at = "check", !.todo = Saved(proc[h].saved)]
    <3>1. /\ r.at = "check" /\ r.saved = proc[h].saved
          /\ r.todo = Saved(proc[h].saved)
      BY <1>t DEF Procs
    <3> HIDE DEF r
    <3>2. InHand(r, snapshot', dns', owed')
      BY <1>r, <1>a, <2>a, <2>4, <3>1
    <3>3. QED
      BY <2>4, <2>a, <1>b, <3>2, OneStepsInside DEF r
  <2>5. QED
    BY <1>3, <2>2, <2>3, <2>4 DEF RestoreRoutes
<1>4. CASE RestoreRemoves(h)
  <2>1. CASE UNCHANGED <<dns, snapshot, owed>> /\ Finish(h, "err")
    BY <2>1, <1>b, OneFinishesInside
  <2>2. ASSUME snapshot' = NoSnapshot, owed' # Unknown, owed' \in {Unknown, dns},
               UNCHANGED dns, Finish(h, "ok") \/ Finish(h, "err")
        PROVE  Kept'
    <3>1. Recoverable(snapshot', dns', owed')
      BY <2>2 DEF Recoverable, NoSnapshot
    <3>2. Alone' /\ AllInHand'
      BY <2>2, <1>b, OneFinishes DEF Kept
    <3>3. QED
      BY <3>1, <3>2 DEF Kept
  <2>3. QED
    BY <1>4, <2>1, <2>2 DEF RestoreRemoves
<1>5. QED
  BY <1>1, <1>2, <1>3, <1>4

\* Beginning and returning.  A second procedure ends the obligation.
LEMMA BoundaryKeeps ==
    ASSUME DnsShapeOK, Kept, NEW h \in Handlers, owed' # Unknown,
           BeginApply(h) \/ BeginRestore(h) \/ DnsReturns(h)
    PROVE  Kept'
<1>1. PICK place \in {"apply", "restore", "idle"} :
         /\ Become(h, AtPlace(place)) /\ UNCHANGED <<dns, snapshot, owed>>
         /\ place = "idle" \/ \A g \in Handlers \ {h} : ~Busy(g)
  BY DEF BeginApply, BeginRestore, Begin, DnsReturns
<1>2. /\ proc'[h].at = place
      /\ \A g \in Handlers \ {h} : proc'[g] = proc[g]
  BY <1>1 DEF Become, AtPlace, DnsShapeOK
<1>3. InHand(proc'[h], snapshot', dns', owed')
  BY <1>2, NothingInHand DEF Carrying, Restoring
<1>4. AllInHand'
  BY <1>1, <1>2, <1>3 DEF AllInHand, Kept
<1>5. Alone'
  BY <1>1, <1>2 DEF Alone, Kept, Busy, Doing
<1>6. QED
  BY <1>1, <1>4, <1>5 DEF Kept

LEMMA CrashKeeps ==
    ASSUME Kept, DnsCrash PROVE Kept'
<1>1. \A h \in Handlers : proc'[h].at = "idle"
  BY DEF DnsCrash, AtPlace
<1>2. Alone'
  BY <1>1 DEF Alone, Busy, Doing
<1>3. AllInHand'
  BY <1>1, NothingInHand DEF AllInHand, Carrying, Restoring
<1>4. QED
  BY <1>2, <1>3 DEF Kept, DnsCrash

LEMMA NextKeeps ==
    DnsShapeOK /\ DnsSound /\ [DnsNext]_dnsVars => DnsSound'
<1> SUFFICES ASSUME DnsShapeOK, DnsSound, [DnsNext]_dnsVars, owed' # Unknown
             PROVE  Kept'
  BY DEF DnsSound, Kept
<1>1. owed # Unknown
  BY DEF DnsNext, dnsVars, BeginApply, BeginRestore, Begin, DnsReturns,
     DnsCrash, DnsStep, ApplyReads, ApplyCaptures, ApplySaves, ApplyTakes,
     RestoreReads, RestoreRewrites, RestoreGives, RestoreChecks,
     RestoreFindsGateway, RestoreRoutes, RestoreRemoves
<1>2. Kept
  BY <1>1 DEF DnsSound, Kept
<1>3. CASE UNCHANGED dnsVars
  BY <1>2, <1>3 DEF dnsVars, Kept, Alone, AllInHand, Busy, Doing
<1>4. ASSUME NEW h \in Handlers, DnsStep(h) PROVE Kept'
  BY <1>2, <1>4, ApplyKeeps, GivingKeeps, CheckingKeeps DEF DnsStep
<1>5. QED
  BY <1>2, <1>3, <1>4, BoundaryKeeps, CrashKeeps DEF DnsNext

LEMMA InitKept == DnsInit => DnsSound
<1> SUFFICES ASSUME DnsInit PROVE Kept
  BY DEF DnsSound, Kept
<1>1. \A h \in Handlers : proc[h].at = "idle"
  BY DEF DnsInit, AtPlace
<1>2. Alone
  BY <1>1 DEF Alone, Busy, Doing
<1>3. AllInHand
  BY <1>1, NothingInHand DEF AllInHand, Carrying, Restoring
<1>4. \A s \in Services : owed[s] # Missing
  BY UserListsAssumption
     DEF DnsInit, Lists, Servers, Missing, Loopback, Gateway
<1>5. Recoverable(snapshot, dns, owed)
  BY <1>4 DEF DnsInit, Recoverable
<1>6. QED
  BY <1>2, <1>3, <1>5 DEF Kept

LEMMA DnsSoundAlways == DnsSpec => [](DnsShapeOK /\ DnsSound)
<1>1. QED
  BY InitType, NextType, InitKept, NextKeeps, PTL DEF DnsSpec

\* Wherever the helper dies, the lists a user had are in the settings or in
\* the recovery file, while no two procedures have overlapped.
THEOREM UserDnsKept == DnsSpec => []UserDnsRecoverable
<1>1. DnsSound => UserDnsRecoverable
  BY DEF DnsSound, UserDnsRecoverable, Recoverable
<1>2. QED
  BY <1>1, DnsSoundAlways, PTL

\* The recovery file goes only when every service it holds was given back.
THEOREM RecoveryKept == DnsSpec => RecoveryKeptUntilRestored
<1>1. ASSUME DnsShapeOK, DnsSound, [DnsNext]_dnsVars,
             snapshot # NoSnapshot, snapshot' = NoSnapshot, owed # Unknown
      PROVE  GivenBack
  <2>1. Kept
    BY <1>1 DEF DnsSound, Kept
  <2>2. PICK h \in Handlers : RestoreRemoves(h) \/ ApplySaves(h) \/ RestoreRewrites(h)
    BY <1>1 DEF DnsNext, dnsVars, BeginApply, BeginRestore, Begin, DnsReturns,
       DnsCrash, DnsStep, ApplyReads, ApplyCaptures, ApplyTakes, RestoreReads,
       RestoreGives, RestoreChecks, RestoreFindsGateway, RestoreRoutes
  <2>k. Captures(proc[h], snapshot) /\ Restores(proc[h], snapshot, dns, owed)
    BY <2>1 DEF Kept, AllInHand, InHand
  <2>3. CASE RestoreRemoves(h)
    <3>1. \A s \in Saved(snapshot) :
             Settles(dns[s], owed[s]) /\ Loopback \notin dns[s]
      BY <2>3, <2>k DEF RestoreRemoves, Doing, Restores
    <3>2. QED
      BY <3>1 DEF GivenBack, Settles
  <2>4. CASE ApplySaves(h) \/ RestoreRewrites(h)
    <3>1. Saved(snapshot) \subseteq Saved(proc[h].saved)
      BY <2>4, <2>k DEF ApplySaves, RestoreRewrites, Doing, Captures, Restores,
         Restoring
    <3>2. snapshot' \in {snapshot, proc[h].saved}
      BY <2>4 DEF ApplySaves, RestoreRewrites, WriteSnapshot
    <3>3. Saved(snapshot) = {}
      BY <1>1, <3>1, <3>2 DEF Saved, NoSnapshot
    <3>4. QED
      BY <3>3 DEF GivenBack
  <2>5. QED
    BY <2>2, <2>3, <2>4
<1>2. DnsShapeOK /\ DnsSound /\ [DnsNext]_dnsVars
         => [snapshot # NoSnapshot /\ snapshot' = NoSnapshot /\ owed # Unknown
                => GivenBack]_dnsVars
  BY <1>1
<1>3. QED
  BY <1>2, DnsSoundAlways, PTL DEF DnsSpec, RecoveryKeptUntilRestored

-----------------------------------------------------------------------------
(* The helper runs apply and restore as module MacosDns describes them.    *)

LEMMA HelperStepIsDnsStep == [HelperNext]_helperVars => [DnsNext]_dnsVars
<1> SUFFICES ASSUME [HelperNext]_helperVars PROVE [DnsNext]_dnsVars
  OBVIOUS
<1> USE DEF NoDns
<1>m. Main \in Handlers /\ Connections \subseteq Handlers
  BY HandlersAssumption
<1>1. ASSUME NEW c \in Connections, Receive(c) \/ Reply(c)
      PROVE  UNCHANGED dnsVars
  BY <1>1 DEF Receive, Reply
<1>2. ASSUME NEW h \in Handlers, CommandStep(h)
      PROVE  \/ UNCHANGED dnsVars
             \/ BeginApply(h) \/ BeginRestore(h) \/ DnsReturns(h)
  BY <1>2 DEF CommandStep, Status, StartChecks, StartLocks, StartCleansOrphans,
     StartSpawns, StartSettles, StartAppliesDns, StartReturns, StopStopsChild,
     StopSweepsOrphans, StopReleasesDns, StopReturns, CleanupDeletesTun,
     CleanupRestoresDns, CleanupReturns
<1>3. ASSUME NEW h \in Handlers, DnsRuns(h) PROVE DnsStep(h)
  BY <1>3 DEF DnsRuns
<1>4. ASSUME WatchStep
      PROVE  UNCHANGED dnsVars \/ BeginRestore(Main) \/ DnsReturns(Main)
  BY <1>4 DEF WatchStep, Boots, Listens, WatchReads, WatchLooks, WatchEnds
<1>5. ASSUME Environment PROVE UNCHANGED dnsVars \/ DnsCrash
  BY <1>5 DEF Environment, ContactAges, TunComesUp, MihomoExits, HelperDies
<1>6. CASE UNCHANGED helperVars
  BY <1>6 DEF helperVars
<1>7. QED
  BY <1>1, <1>2, <1>3, <1>4, <1>5, <1>6, <1>m DEF HelperNext, DnsNext

\* Every behaviour of the helper is one of the DNS takeover, so what holds of
\* the takeover holds of the helper, whatever commands, watch and crashes do.
THEOREM HelperImplementsDns == HelperSpec => DnsSpec
<1>1. HelperInit => DnsInit
  BY DEF HelperInit
<1>2. QED
  BY <1>1, HelperStepIsDnsStep, PTL DEF HelperSpec, DnsSpec

-----------------------------------------------------------------------------
(* The types of the helper's own variables, and the stages of a command.   *)

StopStages == {"stop", "sweep", "release", "releasing"}
CleanupStages ==
    StopStages \union {"tun", "restore", "restoring", "after", "ok", "err"}
Fits(name, stage) ==
    /\ stage \in Stages
    /\ stage \in StopStages => name \in {"Stop", "Restart", "Cleanup", "Watch"}
    /\ name = "Cleanup" => stage \in CleanupStages
    /\ stage = "look" => name = "Watch"
FitCmds == {k \in Cmds : Fits(k.name, k.at)}
SupTypeOK ==
    /\ child \in Gens \union {NoGen} /\ childAlive \in BOOLEAN
    /\ strays \in Nat /\ tun \in BOOLEAN
    /\ holder \in SUBSET Handlers
    /\ contact \in {"fresh", "stale"}
    /\ cmd \in [Handlers -> FitCmds]

LEMMA IdleFits ==
    /\ IdleCmd \in FitCmds /\ IdleCmd.name = "Watch"
    /\ \A stage \in {"boot", "look"} :
          [IdleCmd EXCEPT !.at = stage] \in FitCmds
BY DEF IdleCmd, FitCmds, Cmds, Fits, Stages, StopStages

LEMMA FitsIsCmd ==
    ASSUME SupTypeOK, NEW h \in Handlers
    PROVE  /\ cmd[h] \in Cmds /\ cmd[h] \in FitCmds
           /\ Fits(cmd[h].name, cmd[h].at)
           /\ cmd[h].gen \in Gens \union {NoGen}
BY DEF SupTypeOK, FitCmds, Cmds

LEMMA GoesType ==
    ASSUME SupTypeOK, NEW h \in Handlers, NEW stage, Fits(cmd[h].name, stage),
           Goes(h, stage)
    PROVE  cmd' \in [Handlers -> FitCmds]
<1>1. [cmd[h] EXCEPT !.at = stage] \in FitCmds
  BY FitsIsCmd DEF FitCmds, Cmds, Fits
<1>2. QED
  BY <1>1 DEF SupTypeOK, Goes

LEMMA CountType ==
    ASSUME SupTypeOK PROVE MihomoCount \in Nat
BY DEF SupTypeOK, MihomoCount

LEMMA CommandType ==
    ASSUME SupTypeOK, NEW h \in Handlers, CommandStep(h) PROVE SupTypeOK'
<1>f. /\ cmd[h] \in Cmds /\ Fits(cmd[h].name, cmd[h].at)
      /\ cmd[h].gen \in Gens \union {NoGen}
  BY FitsIsCmd
<1>g. ASSUME NEW stage, Fits(cmd[h].name, stage), Goes(h, stage)
      PROVE  cmd' \in [Handlers -> FitCmds]
  BY <1>g, GoesType
<1> USE DEF NoProcess, Locks, Unlocks, StopsChild, KeepsChild, TunFollows,
            Fits, Stages, StopStages, CleanupStages, At
<1>1. CASE Status(h)
  BY <1>1, <1>f, <1>g DEF SupTypeOK, Status
<1>2. CASE StartChecks(h)
  BY <1>2, <1>f, <1>g DEF SupTypeOK, StartChecks
<1>3. CASE StartLocks(h)
  BY <1>3, <1>f, <1>g DEF SupTypeOK, StartLocks
<1>4. CASE StartCleansOrphans(h)
  BY <1>4, <1>f, <1>g DEF SupTypeOK, StartCleansOrphans
<1>5. CASE StartSpawns(h)
  BY <1>5, <1>f, <1>g DEF SupTypeOK, StartSpawns
<1>6. CASE StartSettles(h)
  <2>1. strays' \in Nat
    BY <1>6 DEF SupTypeOK, StartSettles
  <2>2. child' \in Gens \union {NoGen} /\ childAlive' \in BOOLEAN
    BY <1>6, <1>f DEF SupTypeOK, StartSettles
  <2>3. cmd' \in [Handlers -> FitCmds]
    BY <1>6, <1>f, <1>g DEF StartSettles
  <2>4. QED
    BY <1>6, <2>1, <2>2, <2>3 DEF SupTypeOK, StartSettles
<1>7. CASE StartAppliesDns(h)
  BY <1>7, <1>f, <1>g DEF SupTypeOK, StartAppliesDns
<1>8. CASE StartReturns(h)
  BY <1>8, <1>f, <1>g DEF SupTypeOK, StartReturns
<1>9. CASE StopStopsChild(h)
  BY <1>9, <1>f, <1>g DEF SupTypeOK, StopStopsChild, Fails
<1>10. CASE StopSweepsOrphans(h)
  <2>1. [cmd EXCEPT ![h].at = "release", ![h].swept = FALSE]
           \in [Handlers -> FitCmds]
    <3>1. [cmd[h] EXCEPT !.at = "release", !.swept = FALSE] \in FitCmds
      BY <1>10, <1>f DEF FitCmds, Cmds, StopSweepsOrphans
    <3>2. QED
      BY <3>1 DEF SupTypeOK
  <2>2. QED
    <3>1. strays' \in Nat
      BY <1>10 DEF SupTypeOK, StopSweepsOrphans
    <3>2. cmd' \in [Handlers -> FitCmds]
      BY <1>10, <2>1, <1>f, <1>g DEF StopSweepsOrphans
    <3>3. QED
      BY <1>10, <3>1, <3>2 DEF SupTypeOK, StopSweepsOrphans
<1>11. CASE StopReleasesDns(h)
  BY <1>11, <1>f, <1>g DEF SupTypeOK, StopReleasesDns
<1>12. CASE StopReturns(h)
  <2>1. Fits(cmd[h].name, AfterStop(h))
    BY <1>12, <1>f DEF AfterStop, StopReturns
  <2>2. QED
    BY <1>12, <2>1, <1>g DEF SupTypeOK, StopReturns
<1>13. CASE CleanupDeletesTun(h)
  <2>1. ASSUME cmd' = [cmd EXCEPT ![h].at = "restore",
                                  ![h].swept = IF tun' THEN FALSE ELSE @]
        PROVE  cmd' \in [Handlers -> FitCmds]
    <3>1. \A b \in BOOLEAN :
             [cmd[h] EXCEPT !.at = "restore", !.swept = b] \in FitCmds
      BY <1>13, <1>f DEF FitCmds, Cmds, CleanupDeletesTun
    <3>2. /\ cmd[h].swept \in BOOLEAN
          /\ \A b : [cmd EXCEPT ![h].at = "restore", ![h].swept = b]
                    = [cmd EXCEPT ![h] = [cmd[h] EXCEPT !.at = "restore",
                                                         !.swept = b]]
      BY <1>f DEF SupTypeOK, Cmds
    <3>3. \A b \in BOOLEAN :
             [cmd EXCEPT ![h].at = "restore", ![h].swept = b]
                \in [Handlers -> FitCmds]
      BY <3>1, <3>2 DEF SupTypeOK
    <3>4. \/ cmd' = [cmd EXCEPT ![h].at = "restore", ![h].swept = FALSE]
          \/ cmd' = [cmd EXCEPT ![h].at = "restore", ![h].swept = cmd[h].swept]
      <4>1. CASE tun'
        BY <2>1, <4>1
      <4>2. CASE ~tun'
        BY <2>1, <4>2 DEF SupTypeOK
      <4>3. QED
        BY <4>1, <4>2
    <3>5. QED
      BY <3>2, <3>3, <3>4
  <2>2. QED
    BY <1>13, <2>1, <1>f, <1>g DEF SupTypeOK, CleanupDeletesTun, Fails
<1>14. CASE CleanupRestoresDns(h)
  BY <1>14, <1>f, <1>g DEF SupTypeOK, CleanupRestoresDns
<1>15. CASE CleanupReturns(h)
  BY <1>15, <1>f, <1>g DEF SupTypeOK, CleanupReturns, Fails
<1>16. QED
  BY <1>1, <1>2, <1>3, <1>4, <1>5, <1>6, <1>7, <1>8, <1>9, <1>10, <1>11, <1>12,
     <1>13, <1>14, <1>15 DEF CommandStep

LEMMA HelperInitType == HelperInit => SupTypeOK
<1> SUFFICES ASSUME HelperInit PROVE SupTypeOK
  OBVIOUS
<1>1. cmd \in [Handlers -> FitCmds]
  BY IdleFits DEF HelperInit
<1>2. strays \in Nat
  BY DEF HelperInit
<1>3. QED
  BY <1>1, <1>2 DEF HelperInit, SupTypeOK

LEMMA ReceiveType ==
    ASSUME SupTypeOK, NEW c \in Connections, Receive(c) PROVE SupTypeOK'
<1>1. PICK name \in Commands, g \in Gens \union {NoGen} :
         cmd' = [h \in Handlers |->
                   IF h = c
                   THEN [name |-> name, at |-> FirstStage(name), gen |-> g,
                         alone |-> \A o \in Handlers \ {c} : At(o, "idle"),
                         swept |-> TRUE]
                   ELSE IF h = Main \/ At(h, "idle") THEN cmd[h]
                   ELSE [cmd[h] EXCEPT !.alone = FALSE]]
  BY DEF Receive
<1>2. Fits(name, FirstStage(name))
  BY DEF Commands, Fits, FirstStage, Stages, StopStages, CleanupStages
<1>3. [name |-> name, at |-> FirstStage(name), gen |-> g,
       alone |-> \A o \in Handlers \ {c} : At(o, "idle"), swept |-> TRUE]
         \in FitCmds
  BY <1>2 DEF FitCmds, Cmds, Fits
<1>4. \A h \in Handlers : [cmd[h] EXCEPT !.alone = FALSE] \in FitCmds
  BY FitsIsCmd DEF FitCmds, Cmds
<1>5. cmd' \in [Handlers -> FitCmds]
  BY <1>1, <1>3, <1>4, FitsIsCmd
<1>6. QED
  BY <1>5 DEF SupTypeOK, Receive, NoProcess

LEMMA HelperNextType == SupTypeOK /\ [HelperNext]_helperVars => SupTypeOK'
<1> SUFFICES ASSUME SupTypeOK, [HelperNext]_helperVars PROVE SupTypeOK'
  OBVIOUS
<1>m. Main \in Handlers /\ Connections \subseteq Handlers
  BY HandlersAssumption
<1>1. ASSUME NEW c \in Connections, Reply(c) PROVE SupTypeOK'
  <2>1. cmd' \in [Handlers -> FitCmds]
    BY <1>1, IdleFits DEF Reply, SupTypeOK
  <2>2. QED
    BY <1>1, <2>1 DEF Reply, SupTypeOK, NoProcess
<1>2. ASSUME NEW h \in Handlers, DnsRuns(h) PROVE SupTypeOK'
  BY <1>2 DEF DnsRuns, supVars, SupTypeOK
<1>3. CASE WatchStep
  <2> USE DEF NoProcess, Captured
  <2>f. cmd[Main].name # "Cleanup" \/ cmd[Main].at \in CleanupStages
    BY <1>m, FitsIsCmd DEF Fits
  <2>g. ASSUME NEW stage \in {"booting", "idle"}, Goes(Main, stage),
               cmd[Main].at \notin CleanupStages
        PROVE  cmd' \in [Handlers -> FitCmds]
    BY <2>g, <2>f, <1>m, GoesType DEF Fits, Stages, StopStages
  <2>1. CASE Boots
    BY <2>1, <2>g DEF Boots, SupTypeOK, At, CleanupStages, StopStages
  <2>2. CASE Listens
    BY <2>2, <2>g DEF Listens, SupTypeOK, At, CleanupStages, StopStages
  <2>3. CASE WatchReads
    BY <2>3, IdleFits DEF WatchReads, SupTypeOK
  <2>4. CASE WatchLooks
    <3>1. cmd[Main].name = "Watch"
      BY <2>4, <1>m, FitsIsCmd DEF WatchLooks, At, Fits
    <3>2. cmd' \in [Handlers -> FitCmds]
      BY <2>4, <3>1, <1>m, GoesType DEF WatchLooks, Fits, Stages, StopStages
    <3>3. QED
      BY <2>4, <3>2 DEF WatchLooks, SupTypeOK
  <2>5. CASE WatchEnds
    BY <2>5, IdleFits DEF WatchEnds, SupTypeOK
  <2>6. QED
    BY <1>3, <2>1, <2>2, <2>3, <2>4, <2>5 DEF WatchStep
<1>4. CASE Environment
  <2> USE DEF NoProcess, TunFollows
  <2>1. CASE ContactAges
    BY <2>1 DEF ContactAges, SupTypeOK
  <2>2. CASE TunComesUp
    BY <2>2 DEF TunComesUp, SupTypeOK
  <2>3. CASE MihomoExits
    <3>1. strays' \in Nat
      BY <2>3 DEF MihomoExits, SupTypeOK
    <3>2. childAlive' \in BOOLEAN
      BY <2>3 DEF MihomoExits, SupTypeOK
    <3>3. QED
      BY <2>3, <3>1, <3>2 DEF MihomoExits, SupTypeOK
  <2>4. CASE HelperDies
    <3>1. cmd' \in [Handlers -> FitCmds]
      BY <2>4, IdleFits DEF HelperDies
    <3>2. QED
      BY <2>4, <3>1, CountType DEF HelperDies, SupTypeOK
  <2>5. QED
    BY <1>4, <2>1, <2>2, <2>3, <2>4 DEF Environment
<1>5. CASE UNCHANGED helperVars
  BY <1>5 DEF helperVars, supVars, SupTypeOK
<1>6. QED
  BY <1>1, <1>2, <1>3, <1>4, <1>5, CommandType, ReceiveType DEF HelperNext

LEMMA HelperAlwaysTyped == HelperSpec => [](DnsShapeOK /\ SupTypeOK)
<1>1. HelperSpec => []SupTypeOK
  BY HelperInitType, HelperNextType, PTL DEF HelperSpec
<1>2. DnsSpec => []DnsShapeOK
  BY InitType, NextType, PTL DEF DnsSpec
<1>3. QED
  BY <1>1, <1>2, HelperImplementsDns, PTL

\* Every variable of the helper keeps its type.
THEOREM HelperTypeCorrect == HelperSpec => []HelperTypeOK
<1>1. DnsShapeOK /\ SupTypeOK => HelperTypeOK
  <2>1. SupTypeOK => cmd \in [Handlers -> Cmds]
    BY DEF SupTypeOK, FitCmds
  <2>2. QED
    BY <2>1 DEF DnsShapeOK, SupTypeOK, HelperTypeOK
<1>2. QED
  BY <1>1, HelperAlwaysTyped, PTL

-----------------------------------------------------------------------------
(* One Mihomo.  From the kill of the orphans to the record of the child the*)
(* mutex is held, so that the process about to be spawned is the only one. *)

Lone ==
    /\ \A h \in Handlers :
          /\ cmd[h].at \in {"orphans", "spawn", "settle", "sweep"} => holder = {h}
          /\ cmd[h].at \in {"orphans", "spawn", "settle"} => ~childAlive
          /\ cmd[h].at \in {"spawn", "settle"} => strays = 0
    /\ strays <= 1 /\ (childAlive => strays = 0)

LEMMA GoesOnly ==
    ASSUME SupTypeOK, NEW h \in Handlers, NEW stage, Goes(h, stage)
    PROVE  /\ cmd'[h].at = stage /\ cmd'[h].name = cmd[h].name
           /\ cmd'[h].alone = cmd[h].alone /\ cmd'[h].swept = cmd[h].swept
           /\ \A o \in Handlers \ {h} : cmd'[o] = cmd[o]
BY FitsIsCmd DEF SupTypeOK, Goes, Cmds

\* The two steps that also record what the cleanup could not do.
LEMMA SweptOnly ==
    ASSUME SupTypeOK, NEW h \in Handlers, NEW stage, NEW b,
           cmd' = [cmd EXCEPT ![h].at = stage, ![h].swept = b]
    PROVE  /\ cmd'[h].at = stage /\ cmd'[h].name = cmd[h].name
           /\ cmd'[h].alone = cmd[h].alone /\ cmd'[h].swept = b
           /\ \A o \in Handlers \ {h} : cmd'[o] = cmd[o]
BY FitsIsCmd DEF SupTypeOK, Cmds

\* The mutex serves: a task that waits for it finds no one between the kill
\* of the orphans and the record of the child.
LEMMA FreeLone ==
    ASSUME Lone, holder = {}, NEW h \in Handlers
    PROVE  cmd[h].at \notin {"orphans", "spawn", "settle", "sweep"}
BY DEF Lone

LEMMA FewerLone ==
    ASSUME SupTypeOK, Lone, strays' \in 0..strays, childAlive' => childAlive
    PROVE  strays' <= 1 /\ (childAlive' => strays' = 0)
<1>1. strays \in Nat /\ strays <= 1 /\ strays' \in Nat /\ strays' <= strays
  BY DEF SupTypeOK, Lone
<1>2. QED
  BY <1>1 DEF Lone

\* A child that stop_managed_child ends or fails to end.
LEMMA ChildEnds ==
    ASSUME StopsChild \/ KeepsChild PROVE childAlive' => childAlive
<1>1. CASE childAlive' = FALSE
  BY <1>1
<1>2. CASE childAlive' = childAlive
  BY <1>2
<1>3. QED
  BY <1>1, <1>2 DEF StopsChild, KeepsChild

LEMMA LoneCount == SupTypeOK /\ Lone => MihomoCount <= 1
<1> SUFFICES ASSUME SupTypeOK, Lone PROVE MihomoCount <= 1
  OBVIOUS
<1>1. CASE Spawning
  <2>1. strays = 0 /\ ~childAlive
    BY <1>1 DEF Spawning, Lone, At
  <2>2. QED
    BY <2>1 DEF MihomoCount
<1>2. CASE ~Spawning
  BY <1>2 DEF MihomoCount, Lone, SupTypeOK
<1>3. QED
  BY <1>1, <1>2

LEMMA StartLone ==
    ASSUME SupTypeOK, Lone, NEW h \in Handlers,
           \/ StartChecks(h) \/ StartLocks(h) \/ StartCleansOrphans(h)
           \/ StartSpawns(h) \/ StartSettles(h) \/ StartAppliesDns(h)
           \/ StartReturns(h)
    PROVE  Lone'
<1>t. strays \in Nat /\ childAlive \in BOOLEAN
  BY DEF SupTypeOK
<1> USE DEF NoProcess
<1>1. CASE StartChecks(h)
  BY <1>1, GoesOnly DEF StartChecks, Lone
<1>2. CASE StartLocks(h)
  <2>1. \A o \in Handlers : cmd[o].at \notin {"orphans", "spawn", "settle", "sweep"}
    BY <1>2, FreeLone DEF StartLocks
  <2>2. CASE Goes(h, "orphans") /\ childAlive' = FALSE /\ Locks(h) /\ UNCHANGED strays
    BY <2>1, <2>2, <1>t, GoesOnly DEF Lone, Locks
  <2>3. CASE /\ Goes(h, "ok") \/ Goes(h, "err")
             /\ UNCHANGED <<holder, strays>>
             /\ childAlive' => childAlive
    <3>1. strays' <= 1 /\ (childAlive' => strays' = 0)
      BY <2>3, <1>t, FewerLone
    <3>2. QED
      BY <2>1, <2>3, <3>1, GoesOnly DEF Lone
  <2>4. QED
    <3>1. CASE Goes(h, "ok") /\ NoProcess /\ UNCHANGED holder
      BY <2>3, <3>1
    <3>2. CASE StopsChild /\ UNCHANGED strays /\ Locks(h) /\ Goes(h, "orphans")
      BY <2>2, <3>2 DEF StopsChild
    <3>3. CASE KeepsChild /\ UNCHANGED <<strays, holder>> /\ Goes(h, "err")
      BY <2>3, <3>3, ChildEnds
    <3>4. QED
      BY <1>2, <3>1, <3>2, <3>3 DEF StartLocks
<1>3. CASE StartCleansOrphans(h)
  <2>1. /\ cmd[h].at = "orphans" /\ holder = {h} /\ ~childAlive
        /\ childAlive' = childAlive
    BY <1>3 DEF StartCleansOrphans, At, Lone
  <2>o. \A o \in Handlers \ {h} :
           cmd[o].at \notin {"orphans", "spawn", "settle", "sweep"}
    BY <2>1 DEF Lone
  <2>2. CASE strays' = 0 /\ Goes(h, "spawn") /\ UNCHANGED holder
    BY <2>1, <2>2, <2>o, GoesOnly DEF Lone
  <2>3. CASE strays' \in 0..strays /\ Goes(h, "err") /\ Unlocks(h)
    BY <2>1, <2>3, <2>o, <1>t, GoesOnly DEF Lone
  <2>4. QED
    BY <1>3, <2>2, <2>3 DEF StartCleansOrphans
<1>4. CASE StartSpawns(h)
  <2>1. /\ cmd[h].at = "spawn" /\ holder = {h} /\ ~childAlive /\ strays = 0
        /\ UNCHANGED <<childAlive, strays>>
    BY <1>4 DEF StartSpawns, At, Lone
  <2>o. \A o \in Handlers \ {h} :
           cmd[o].at \notin {"orphans", "spawn", "settle", "sweep"}
    BY <2>1 DEF Lone
  <2>2. CASE Goes(h, "settle") /\ UNCHANGED holder
    BY <2>1, <2>2, <2>o, GoesOnly DEF Lone
  <2>3. CASE Goes(h, "err") /\ Unlocks(h)
    BY <2>1, <2>3, <2>o, GoesOnly DEF Lone
  <2>4. QED
    BY <1>4, <2>2, <2>3 DEF StartSpawns
<1>5. CASE StartSettles(h)
  <2>1. cmd[h].at = "settle" /\ holder = {h} /\ ~childAlive /\ strays = 0
    BY <1>5 DEF StartSettles, At, Lone
  <2>o. \A o \in Handlers \ {h} :
           cmd[o].at \notin {"orphans", "spawn", "settle", "sweep"}
    BY <2>1 DEF Lone
  <2>2. /\ Goes(h, "apply") \/ Goes(h, "err")
        /\ \/ childAlive' = TRUE /\ strays' = 0
           \/ childAlive' = childAlive /\ strays' \in {0, 1}
    BY <1>5, <2>1 DEF StartSettles
  <2>3. QED
    BY <2>1, <2>2, <2>o, GoesOnly DEF Lone
<1>6. CASE StartAppliesDns(h)
  BY <1>6, GoesOnly DEF StartAppliesDns, Lone
<1>7. CASE StartReturns(h)
  BY <1>7, GoesOnly DEF StartReturns, Lone
<1>8. QED
  BY <1>1, <1>2, <1>3, <1>4, <1>5, <1>6, <1>7

LEMMA StopLone ==
    ASSUME SupTypeOK, Lone, NEW h \in Handlers,
           \/ Status(h) \/ StopStopsChild(h) \/ StopSweepsOrphans(h)
           \/ StopReleasesDns(h) \/ StopReturns(h) \/ CleanupDeletesTun(h)
           \/ CleanupRestoresDns(h) \/ CleanupReturns(h)
    PROVE  Lone'
<1>t. strays \in Nat /\ childAlive \in BOOLEAN
  BY DEF SupTypeOK
<1> USE DEF NoProcess, Fails
<1>1. CASE Status(h)
  BY <1>1, GoesOnly DEF Status, Lone
<1>2. CASE StopStopsChild(h)
  <2>1. \A o \in Handlers : cmd[o].at \notin {"orphans", "spawn", "settle", "sweep"}
    BY <1>2, FreeLone DEF StopStopsChild
  <2>2. /\ (childAlive' => childAlive) /\ strays' = strays
        /\ \/ Goes(h, "sweep") /\ Locks(h)
           \/ Goes(h, "after") /\ UNCHANGED holder
           \/ Goes(h, "err") /\ UNCHANGED holder
    BY <1>2, ChildEnds DEF StopStopsChild
  <2>3. strays' <= 1 /\ (childAlive' => strays' = 0)
    BY <2>2, <1>t, FewerLone
  <2>4. QED
    BY <2>1, <2>2, <2>3, GoesOnly DEF Lone, Locks
<1>3. CASE StopSweepsOrphans(h)
  <2>1. cmd[h].at = "sweep" /\ holder = {h} /\ childAlive' = childAlive
    BY <1>3 DEF StopSweepsOrphans, At, Unlocks
  <2>o. \A o \in Handlers \ {h} :
           cmd[o].at \notin {"orphans", "spawn", "settle", "sweep"}
    BY <2>1 DEF Lone
  <2>2. /\ cmd'[h].at = "release"
        /\ \A o \in Handlers \ {h} : cmd'[o] = cmd[o]
    BY <1>3, GoesOnly, SweptOnly DEF StopSweepsOrphans
  <2>3. strays' \in 0..strays
    BY <1>3, <1>t DEF StopSweepsOrphans
  <2>4. strays' <= 1 /\ (childAlive' => strays' = 0)
    BY <2>1, <2>3, FewerLone
  <2>5. QED
    BY <2>1, <2>o, <2>2, <2>4 DEF Lone
<1>4. CASE StopReleasesDns(h)
  BY <1>4, GoesOnly DEF StopReleasesDns, Lone
<1>5. CASE StopReturns(h)
  <2>1. AfterStop(h) \in {"ok", "check", "tun"}
    BY <1>5, FitsIsCmd DEF StopReturns, At, Fits, StopStages, AfterStop
  <2>2. QED
    BY <1>5, <2>1, GoesOnly DEF StopReturns, Lone
<1>6. CASE CleanupDeletesTun(h)
  <2>1. /\ cmd'[h].at \in {"restore", "after", "err"}
        /\ \A o \in Handlers \ {h} : cmd'[o] = cmd[o]
    <3>1. CASE Goes(h, "after") \/ Goes(h, "err")
      BY <3>1, GoesOnly
    <3>2. CASE cmd' = [cmd EXCEPT ![h].at = "restore",
                                  ![h].swept = IF tun' THEN FALSE ELSE @]
      BY <3>2, FitsIsCmd DEF SupTypeOK, Cmds
    <3>3. QED
      BY <1>6, <3>1, <3>2 DEF CleanupDeletesTun
  <2>2. UNCHANGED <<childAlive, strays, holder>>
    BY <1>6 DEF CleanupDeletesTun
  <2>3. QED
    BY <2>1, <2>2 DEF Lone
<1>7. CASE CleanupRestoresDns(h)
  BY <1>7, GoesOnly DEF CleanupRestoresDns, Lone
<1>8. CASE CleanupReturns(h)
  BY <1>8, GoesOnly DEF CleanupReturns, Lone
<1>9. QED
  BY <1>1, <1>2, <1>3, <1>4, <1>5, <1>6, <1>7, <1>8

\* A command that arrives changes stages only from idle to a first stage.
LEMMA ReceiveOnly ==
    ASSUME SupTypeOK, NEW c \in Connections, Receive(c)
    PROVE  /\ cmd'[c].at \in {"status", "check", "stop"} /\ At(c, "idle")
           /\ cmd'[c].alone => \A o \in Handlers \ {c} : At(o, "idle")
           /\ cmd'[c].swept
           /\ \A o \in Handlers \ {c} :
                 /\ cmd'[o].at = cmd[o].at /\ cmd'[o].name = cmd[o].name
                 /\ cmd'[o].swept = cmd[o].swept
                 /\ cmd'[o].alone => cmd[o].alone
                 /\ o # Main /\ ~At(o, "idle") => ~cmd'[o].alone
<1>1. PICK name \in Commands, g \in Gens \union {NoGen} :
         cmd' = [h \in Handlers |->
                   IF h = c
                   THEN [name |-> name, at |-> FirstStage(name), gen |-> g,
                         alone |-> \A o \in Handlers \ {c} : At(o, "idle"),
                         swept |-> TRUE]
                   ELSE IF h = Main \/ At(h, "idle") THEN cmd[h]
                   ELSE [cmd[h] EXCEPT !.alone = FALSE]]
  BY DEF Receive
<1>2. FirstStage(name) \in {"status", "check", "stop"}
  BY DEF Commands, FirstStage
<1>3. c \in Handlers /\ At(c, "idle")
  BY HandlersAssumption DEF Receive
<1>4. /\ cmd'[c].at = FirstStage(name) /\ cmd'[c].swept
      /\ cmd'[c].alone => \A o \in Handlers \ {c} : At(o, "idle")
  BY <1>1, <1>3
<1>5. ASSUME NEW o \in Handlers \ {c}
      PROVE  /\ cmd'[o].at = cmd[o].at /\ cmd'[o].name = cmd[o].name
             /\ cmd'[o].swept = cmd[o].swept
             /\ cmd'[o].alone => cmd[o].alone
             /\ o # Main /\ ~At(o, "idle") => ~cmd'[o].alone
  <2>1. cmd[o] \in Cmds
    BY FitsIsCmd
  <2>2. cmd'[o] = IF o = Main \/ At(o, "idle") THEN cmd[o]
                  ELSE [cmd[o] EXCEPT !.alone = FALSE]
    BY <1>1
  <2>3. QED
    BY <2>1, <2>2 DEF Cmds
<1>6. QED
  BY <1>2, <1>3, <1>4, <1>5

\* What a new process of the helper starts from.
LEMMA DiesOnly ==
    ASSUME HelperDies, NEW h \in Handlers
    PROVE  cmd'[h].at = (IF h = Main THEN "boot" ELSE "idle")
BY DEF HelperDies, IdleCmd

LEMMA NextLone == SupTypeOK /\ Lone /\ [HelperNext]_helperVars => Lone'
<1> SUFFICES ASSUME SupTypeOK, Lone, [HelperNext]_helperVars PROVE Lone'
  OBVIOUS
<1>t. strays \in Nat /\ childAlive \in BOOLEAN
  BY DEF SupTypeOK
<1>m. Main \in Handlers /\ Connections \subseteq Handlers
  BY HandlersAssumption
<1> USE DEF NoProcess
<1>1. ASSUME NEW c \in Connections, Receive(c) PROVE Lone'
  BY <1>1, ReceiveOnly DEF Receive, Lone
<1>2. ASSUME NEW c \in Connections, Reply(c) PROVE Lone'
  BY <1>2 DEF Reply, Lone, IdleCmd, SupTypeOK
<1>3. ASSUME NEW h \in Handlers, DnsRuns(h) PROVE Lone'
  BY <1>3 DEF DnsRuns, supVars, Lone
<1>4. CASE WatchStep
  <2>1. /\ cmd'[Main].at \in {"booting", "idle", "look", "stop"}
        /\ \A o \in Handlers \ {Main} : cmd'[o] = cmd[o]
    BY <1>4, <1>m, GoesOnly DEF WatchStep, Boots, Listens, WatchReads,
       WatchLooks, WatchEnds, SupTypeOK, IdleCmd
  <2>2. UNCHANGED <<childAlive, strays, holder>>
    BY <1>4 DEF WatchStep, Boots, Listens, WatchReads, WatchLooks, WatchEnds
  <2>3. QED
    BY <2>1, <2>2 DEF Lone
<1>5. CASE Environment
  <2>1. CASE ContactAges \/ TunComesUp
    BY <2>1 DEF ContactAges, TunComesUp, Lone
  <2>2. CASE MihomoExits
    <3>1. /\ UNCHANGED <<cmd, holder>>
          /\ \/ childAlive /\ childAlive' = FALSE /\ strays' = strays
             \/ strays > 0 /\ strays' = strays - 1 /\ childAlive' = childAlive
      BY <2>2 DEF MihomoExits
    <3>2. QED
      BY <3>1, <1>t DEF Lone
  <2>3. CASE HelperDies
    <3>1. \A h \in Handlers : cmd'[h].at \in {"boot", "idle"}
      BY <2>3, DiesOnly
    <3>2. strays' <= 1 /\ strays' \in Nat /\ childAlive' = FALSE
      BY <2>3, LoneCount, CountType DEF HelperDies
    <3>3. QED
      BY <3>1, <3>2 DEF Lone
  <2>4. QED
    BY <1>5, <2>1, <2>2, <2>3 DEF Environment
<1>6. CASE UNCHANGED helperVars
  BY <1>6 DEF helperVars, supVars, Lone
<1>7. QED
  BY <1>1, <1>2, <1>3, <1>4, <1>5, <1>6, StartLone, StopLone
     DEF HelperNext, CommandStep

\* At most one Mihomo of this helper runs, however often the helper dies,
\* whatever kill fails and however commands and the watch interleave.
THEOREM HelperOneMihomo == HelperSpec => []OneMihomo
<1>1. HelperInit => Lone
  BY DEF HelperInit, Lone, IdleCmd
<1>2. SupTypeOK /\ Lone => OneMihomo
  BY LoneCount DEF OneMihomo
<1>3. QED
  BY <1>1, <1>2, HelperAlwaysTyped, NextLone, PTL DEF HelperSpec

-----------------------------------------------------------------------------
(* A cleanup alone: no other task runs a command, and what it has done     *)
(* stays done until it replies.                                            *)

Quiet ==
    \A c \in Connections : cmd[c].alone /\ ~At(c, "idle") =>
        \A o \in Handlers \ {c} : At(o, "idle")
DnsBelongs ==
    \A h \in Handlers :
        /\ ~Doing(h, "idle") =>
              cmd[h].at \in {"booting", "applying", "releasing", "restoring"}
        /\ cmd[h].at = "restoring" =>
              proc[h].at \in Restoring \union {"restore", "ok", "err"}
CleanSoFar(c) ==
    cmd[c].name = "Cleanup" /\ cmd[c].alone /\ cmd[c].swept =>
        /\ cmd[c].at \in CleanupStages \ {"stop", "after", "err"} => ~childAlive
        /\ cmd[c].at \in CleanupStages \ {"stop", "sweep", "after", "err"} =>
              strays = 0
        /\ cmd[c].at \in {"restore", "restoring", "ok"} => ~tun
        /\ At(c, "restoring") /\ Doing(c, "ok") => snapshot = NoSnapshot
        /\ At(c, "ok") => snapshot = NoSnapshot
CleanSound == Quiet /\ DnsBelongs /\ \A c \in Connections : CleanSoFar(c)

\* The DNS procedures: one step, of one task, that is not idle.
LEMMA DnsStepOnly ==
    ASSUME DnsShapeOK, NEW h \in Handlers, DnsStep(h)
    PROVE  /\ proc[h].at \notin {"idle", "ok", "err"}
           /\ \A o \in Handlers \ {h} : proc'[o] = proc[o]
BY DEF DnsShapeOK, DnsStep, ApplyReads, ApplyCaptures, ApplySaves, ApplyTakes,
   RestoreReads, RestoreRewrites, RestoreGives, RestoreChecks,
   RestoreFindsGateway, RestoreRoutes, RestoreRemoves, WriteSnapshot,
   StillLoopback, Finish, Go, Become, Doing

\* A restore that ends well has found no recovery file or removed it.
LEMMA RestoreEmpties ==
    ASSUME DnsShapeOK, NEW h \in Handlers, DnsStep(h),
           proc[h].at \in Restoring \union {"restore"}
    PROVE  /\ proc'[h].at \in Restoring \union {"restore", "ok", "err"}
           /\ proc'[h].at = "ok" => snapshot' = NoSnapshot
<1>t. proc[h] \in Procs /\ proc \in [Handlers -> Shapes]
  BY DEF DnsShapeOK, Shapes
<1>b. ASSUME NEW r, Become(h, r) PROVE proc'[h] = r
  BY <1>b, <1>t DEF Become
<1>f. ASSUME NEW outcome, Finish(h, outcome)
      PROVE  proc'[h].at \in {"err", outcome}
  BY <1>f, <1>b DEF Finish, AtPlace
<1>g. ASSUME NEW place, Go(h, place) PROVE proc'[h].at = place
  BY <1>g, <1>b, <1>t DEF Go, Procs
<1> USE DEF Restoring
<1>1. CASE RestoreReads(h)
  <2>1. CASE Finish(h, "err")
    BY <2>1, <1>f
  <2>2. CASE snapshot = NoSnapshot /\ Finish(h, "ok")
    BY <1>1, <2>2, <1>f DEF RestoreReads
  <2>3. ASSUME NEW saved, NEW todo,
               Become(h, [proc[h] EXCEPT !.saved = saved, !.todo = todo,
                            !.at = IF saved = snapshot THEN "give" ELSE "rewrite"])
        PROVE  proc'[h].at \in {"give", "rewrite"}
    BY <2>3, <1>t DEF Procs, Become
  <2>4. QED
    BY <1>1, <2>1, <2>2, <2>3 DEF RestoreReads
<1>2. CASE RestoreRewrites(h)
  <2>1. ASSUME Become(h, [proc[h] EXCEPT !.at = "give"])
        PROVE  proc'[h].at = "give"
    BY <2>1, <1>t DEF Procs, Become
  <2>2. QED
    BY <1>2, <2>1, <1>f DEF RestoreRewrites, WriteSnapshot
<1>3. CASE RestoreGives(h)
  <2>a. proc[h].at = "give"
    BY <1>3 DEF RestoreGives, Doing
  <2>1. CASE Finish(h, "err")
    BY <2>1, <1>f
  <2>2. CASE Become(h, [proc[h] EXCEPT !.at = "check",
                                       !.todo = Saved(proc[h].saved)])
    BY <2>2, <1>t DEF Procs, Become
  <2>3. ASSUME NEW s \in proc[h].todo, NEW succeeds \in BOOLEAN,
               Become(h, [proc[h] EXCEPT !.todo = @ \ {s},
                                         !.failed = @ \/ ~succeeds])
        PROVE  proc'[h].at = "give"
    BY <2>3, <2>a, <1>t DEF Procs, Become
  <2>4. QED
    BY <1>3, <2>1, <2>2, <2>3 DEF RestoreGives
<1>4. CASE RestoreChecks(h)
  <2>a. proc[h].at = "check"
    BY <1>4 DEF RestoreChecks, Doing
  <2>1. CASE Finish(h, "err") \/ StillLoopback(h) \/ Go(h, "remove")
    BY <2>1, <1>f, <1>g DEF StillLoopback
  <2>2. ASSUME NEW s \in proc[h].todo, Become(h, [proc[h] EXCEPT !.todo = @ \ {s}])
        PROVE  proc'[h].at = "check"
    BY <2>2, <2>a, <1>t DEF Procs, Become
  <2>3. QED
    BY <1>4, <2>1, <2>2 DEF RestoreChecks
<1>5. CASE RestoreFindsGateway(h)
  <2>1. CASE Finish(h, "err")
    BY <2>1, <1>f
  <2>2. CASE Become(h, [proc[h] EXCEPT !.at = "route", !.fellBack = TRUE,
                                       !.todo = Saved(proc[h].saved)])
    BY <2>2, <1>t DEF Procs, Become
  <2>3. QED
    BY <1>5, <2>1, <2>2 DEF RestoreFindsGateway
<1>6. CASE RestoreRoutes(h)
  <2>a. proc[h].at = "route"
    BY <1>6 DEF RestoreRoutes, Doing
  <2>1. CASE Finish(h, "err")
    BY <2>1, <1>f
  <2>2. CASE Become(h, [proc[h] EXCEPT !.at = "check",
                                       !.todo = Saved(proc[h].saved)])
    BY <2>2, <1>t DEF Procs, Become
  <2>3. ASSUME NEW s \in proc[h].todo, Become(h, [proc[h] EXCEPT !.todo = @ \ {s}])
        PROVE  proc'[h].at = "route"
    BY <2>3, <2>a, <1>t DEF Procs, Become
  <2>4. QED
    BY <1>6, <2>1, <2>2, <2>3 DEF RestoreRoutes
<1>7. CASE RestoreRemoves(h)
  BY <1>7, <1>f DEF RestoreRemoves
<1>8. QED
  BY <1>1, <1>2, <1>3, <1>4, <1>5, <1>6, <1>7 DEF DnsStep, ApplyReads,
     ApplyCaptures, ApplySaves, ApplyTakes, Doing

\* A step of a command is taken by a task that has one; it changes that
\* task's record alone, and neither its name nor whether it is alone.
LEMMA CommandOnly ==
    ASSUME SupTypeOK, NEW h \in Handlers, CommandStep(h)
    PROVE  /\ ~At(h, "idle")
           /\ cmd'[h].name = cmd[h].name /\ cmd'[h].alone = cmd[h].alone
           /\ cmd'[h].swept => cmd[h].swept
           /\ \A o \in Handlers \ {h} : cmd'[o] = cmd[o]
<1>1. CASE CleanupDeletesTun(h)
  <2>1. ASSUME cmd' = [cmd EXCEPT ![h].at = "restore",
                                  ![h].swept = IF tun' THEN FALSE ELSE @]
        PROVE  /\ cmd'[h].name = cmd[h].name /\ cmd'[h].alone = cmd[h].alone
               /\ cmd'[h].swept => cmd[h].swept
               /\ \A o \in Handlers \ {h} : cmd'[o] = cmd[o]
    BY <2>1, FitsIsCmd DEF SupTypeOK, Cmds
  <2>2. QED
    BY <1>1, <2>1, GoesOnly DEF CleanupDeletesTun, Fails, At
<1>2. CASE StopSweepsOrphans(h)
  BY <1>2, GoesOnly, SweptOnly DEF StopSweepsOrphans, At
<1>3. ASSUME NEW stage, Goes(h, stage)
      PROVE  /\ cmd'[h].name = cmd[h].name /\ cmd'[h].alone = cmd[h].alone
             /\ cmd'[h].swept => cmd[h].swept
             /\ \A o \in Handlers \ {h} : cmd'[o] = cmd[o]
  BY <1>3, GoesOnly
<1>4. CASE \/ Status(h) \/ StartChecks(h) \/ StartLocks(h)
           \/ StartCleansOrphans(h) \/ StartSpawns(h) \/ StartSettles(h)
           \/ StartAppliesDns(h) \/ StartReturns(h)
  BY <1>4, <1>3 DEF Status, StartChecks, StartLocks, StartCleansOrphans,
     StartSpawns, StartSettles, StartAppliesDns, StartReturns, At
<1>5. CASE \/ StopStopsChild(h) \/ StopReleasesDns(h) \/ StopReturns(h)
           \/ CleanupRestoresDns(h) \/ CleanupReturns(h)
  BY <1>5, <1>3 DEF StopStopsChild, StopReleasesDns, StopReturns,
     CleanupRestoresDns, CleanupReturns, Fails, At
<1>6. QED
  BY <1>1, <1>2, <1>4, <1>5 DEF CommandStep

\* Who has a command and changes only its own record keeps the others' quiet.
LEMMA StepQuiet ==
    ASSUME Quiet, NEW h \in Handlers, ~At(h, "idle"),
           cmd'[h].alone = cmd[h].alone,
           \A o \in Handlers \ {h} : cmd'[o] = cmd[o]
    PROVE  Quiet'
<1> SUFFICES ASSUME NEW c \in Connections, cmd'[c].alone, cmd'[c].at # "idle",
                    NEW o \in Handlers \ {c}
             PROVE  cmd'[o].at = "idle"
  BY DEF Quiet, At
<1>m. c \in Handlers
  BY HandlersAssumption
<1>1. CASE c = h
  BY <1>1, <1>m DEF Quiet, At
<1>2. CASE c # h
  BY <1>2, <1>m DEF Quiet, At
<1>3. QED
  BY <1>1, <1>2

LEMMA NextQuiet == SupTypeOK /\ Quiet /\ [HelperNext]_helperVars => Quiet'
<1> SUFFICES ASSUME SupTypeOK, Quiet, [HelperNext]_helperVars PROVE Quiet'
  OBVIOUS
<1>m. Main \in Handlers /\ Connections \subseteq Handlers /\ Main \notin Connections
  BY HandlersAssumption
<1>1. ASSUME NEW c \in Connections, Receive(c) PROVE Quiet'
  <2> SUFFICES ASSUME NEW d \in Connections, cmd'[d].alone, cmd'[d].at # "idle",
                      NEW o \in Handlers \ {d}
               PROVE  cmd'[o].at = "idle"
    BY DEF Quiet, At
  <2>1. d = c
    BY <1>1, <1>m, ReceiveOnly DEF At
  <2>2. QED
    BY <1>1, <2>1, ReceiveOnly DEF At
<1>2. ASSUME NEW c \in Connections, Reply(c) PROVE Quiet'
  BY <1>2, <1>m DEF Reply, Quiet, At, IdleCmd, SupTypeOK
<1>3. ASSUME NEW h \in Handlers, CommandStep(h) PROVE Quiet'
  BY <1>3, CommandOnly, StepQuiet
<1>4. ASSUME NEW h \in Handlers, DnsRuns(h) PROVE Quiet'
  BY <1>4 DEF DnsRuns, supVars, Quiet, At
<1>5. CASE WatchStep
  <2>1. CASE WatchReads
    BY <2>1, <1>m DEF WatchReads, InFlight, Quiet, At, SupTypeOK
  <2>2. CASE WatchEnds
    <3>1. \A o \in Handlers \ {Main} : cmd'[o] = cmd[o]
      BY <2>2, <1>m DEF WatchEnds, SupTypeOK
    <3>2. cmd'[Main].at = "idle" /\ ~At(Main, "idle")
      BY <2>2, <1>m DEF WatchEnds, SupTypeOK, IdleCmd, At
    <3>3. QED
      BY <3>1, <3>2, <1>m DEF Quiet, At
  <2>3. CASE Boots \/ Listens \/ WatchLooks
    <3>1. /\ ~At(Main, "idle") /\ cmd'[Main].alone = cmd[Main].alone
          /\ \A o \in Handlers \ {Main} : cmd'[o] = cmd[o]
      BY <2>3, <1>m, GoesOnly DEF Boots, Listens, WatchLooks, At
    <3>2. QED
      BY <3>1, <1>m, StepQuiet
  <2>4. QED
    BY <1>5, <2>1, <2>2, <2>3 DEF WatchStep
<1>6. CASE Environment
  <2>1. CASE HelperDies
    BY <2>1, <1>m, DiesOnly DEF Quiet, At
  <2>2. CASE ContactAges \/ TunComesUp \/ MihomoExits
    BY <2>2 DEF ContactAges, TunComesUp, MihomoExits, Quiet, At
  <2>3. QED
    BY <1>6, <2>1, <2>2 DEF Environment
<1>7. CASE UNCHANGED helperVars
  BY <1>7 DEF helperVars, supVars, Quiet, At
<1>8. QED
  BY <1>1, <1>2, <1>3, <1>4, <1>5, <1>6, <1>7 DEF HelperNext

\* The DNS procedure of a task belongs to the stage its command is in.
LEMMA BeginBelongs ==
    ASSUME DnsShapeOK, SupTypeOK, DnsBelongs, NEW h \in Handlers, NEW stage,
           Goes(h, stage),
           \/ BeginApply(h) /\ stage = "applying"
           \/ BeginRestore(h) /\ stage \in {"booting", "releasing", "restoring"}
           \/ DnsReturns(h) /\ stage \notin {"restoring"}
    PROVE  DnsBelongs'
<1>1. /\ \A o \in Handlers \ {h} : proc'[o] = proc[o]
      /\ \/ proc'[h].at = "idle" /\ stage # "restoring"
         \/ proc'[h].at = "apply" /\ stage = "applying"
         \/ /\ proc'[h].at = "restore"
            /\ stage \in {"booting", "releasing", "restoring"}
  BY DEF DnsShapeOK, BeginApply, BeginRestore, Begin, DnsReturns, Become, AtPlace
<1>2. QED
  BY <1>1, GoesOnly DEF DnsBelongs, Doing

LEMMA CommandBelongs ==
    ASSUME DnsShapeOK, SupTypeOK, DnsBelongs, NEW h \in Handlers, CommandStep(h)
    PROVE  DnsBelongs'
<1>1. CASE StartAppliesDns(h)
  BY <1>1, BeginBelongs DEF StartAppliesDns
<1>2. CASE StartReturns(h)
  BY <1>2, BeginBelongs DEF StartReturns
<1>3. CASE StopReleasesDns(h)
  BY <1>3, BeginBelongs DEF StopReleasesDns
<1>4. CASE StopReturns(h)
  <2>1. AfterStop(h) \in {"ok", "check", "tun"}
    BY <1>4, FitsIsCmd DEF StopReturns, At, Fits, StopStages, AfterStop
  <2>2. QED
    BY <1>4, <2>1, BeginBelongs DEF StopReturns
<1>5. CASE CleanupRestoresDns(h)
  BY <1>5, BeginBelongs DEF CleanupRestoresDns
<1>6. CASE CleanupReturns(h)
  BY <1>6, BeginBelongs DEF CleanupReturns, Fails
<1>7. CASE \/ Status(h) \/ StartChecks(h) \/ StartLocks(h)
           \/ StartCleansOrphans(h) \/ StartSpawns(h) \/ StartSettles(h)
           \/ StopStopsChild(h) \/ StopSweepsOrphans(h) \/ CleanupDeletesTun(h)
  <2>1. UNCHANGED proc
    BY <1>7 DEF Status, StartChecks, StartLocks, StartCleansOrphans, StartSpawns,
       StartSettles, StopStopsChild, StopSweepsOrphans, CleanupDeletesTun, NoDns,
       dnsVars
  <2>2. cmd[h].at \notin {"booting", "applying", "releasing", "restoring"}
    BY <1>7 DEF Status, StartChecks, StartLocks, StartCleansOrphans, StartSpawns,
       StartSettles, StopStopsChild, StopSweepsOrphans, CleanupDeletesTun, At
  <2>3. cmd'[h].at # "restoring"
    <3>1. CASE CleanupDeletesTun(h)
      <4>1. ASSUME cmd' = [cmd EXCEPT ![h].at = "restore",
                                      ![h].swept = IF tun' THEN FALSE ELSE @]
            PROVE  cmd'[h].at = "restore"
        BY <4>1, FitsIsCmd DEF SupTypeOK, Cmds
      <4>2. CASE Goes(h, "after") \/ Goes(h, "err")
        BY <4>2, GoesOnly
      <4>3. QED
        BY <3>1, <4>1, <4>2 DEF CleanupDeletesTun, Fails
    <3>2. CASE StopSweepsOrphans(h)
      BY <3>2, GoesOnly, SweptOnly DEF StopSweepsOrphans
    <3>3. QED
      BY <1>7, <3>1, <3>2, GoesOnly DEF Status, StartChecks, StartLocks,
         StartCleansOrphans, StartSpawns, StartSettles, StopStopsChild, Fails
  <2>4. \A o \in Handlers \ {h} : cmd'[o] = cmd[o]
    BY CommandOnly
  <2>5. QED
    BY <2>1, <2>2, <2>3, <2>4 DEF DnsBelongs, Doing
<1>8. QED
  BY <1>1, <1>2, <1>3, <1>4, <1>5, <1>6, <1>7 DEF CommandStep

LEMMA NextBelongs ==
    DnsShapeOK /\ SupTypeOK /\ DnsBelongs /\ [HelperNext]_helperVars => DnsBelongs'
<1> SUFFICES ASSUME DnsShapeOK, SupTypeOK, DnsBelongs, [HelperNext]_helperVars
             PROVE  DnsBelongs'
  OBVIOUS
<1>m. Main \in Handlers /\ Connections \subseteq Handlers
  BY HandlersAssumption
<1> USE DEF NoDns, dnsVars
<1>1. ASSUME NEW c \in Connections, Receive(c) PROVE DnsBelongs'
  <2>1. UNCHANGED proc
    BY <1>1 DEF Receive
  <2>2. /\ \A o \in Handlers \ {c} : cmd'[o].at = cmd[o].at
        /\ cmd[c].at = "idle" /\ cmd'[c].at # "restoring"
    BY <1>1, ReceiveOnly DEF At
  <2>3. QED
    BY <2>1, <2>2, <1>m DEF DnsBelongs, Doing
<1>2. ASSUME NEW c \in Connections, Reply(c) PROVE DnsBelongs'
  BY <1>2, <1>m DEF Reply, DnsBelongs, Doing, At, IdleCmd, SupTypeOK
<1>3. ASSUME NEW h \in Handlers, DnsRuns(h) PROVE DnsBelongs'
  <2>1. UNCHANGED cmd /\ DnsStep(h)
    BY <1>3 DEF DnsRuns, supVars
  <2>2. /\ proc[h].at \notin {"idle", "ok", "err"}
        /\ \A o \in Handlers \ {h} : proc'[o] = proc[o]
    BY <2>1, DnsStepOnly
  <2>3. cmd[h].at = "restoring" => proc[h].at \in Restoring \union {"restore"}
    BY <2>2 DEF DnsBelongs
  <2>4. cmd[h].at = "restoring"
           => proc'[h].at \in Restoring \union {"restore", "ok", "err"}
    BY <2>1, <2>3, RestoreEmpties
  <2>5. QED
    BY <2>1, <2>2, <2>4 DEF DnsBelongs, Doing
<1>4. CASE WatchStep
  <2>1. CASE Boots
    BY <2>1, <1>m, BeginBelongs DEF Boots
  <2>2. CASE Listens
    BY <2>2, <1>m, BeginBelongs DEF Listens
  <2>3. CASE WatchReads \/ WatchLooks \/ WatchEnds
    <3>1. /\ cmd[Main].at \in {"idle", "look", "after"}
          /\ cmd'[Main].at \in {"idle", "look", "stop"}
          /\ \A o \in Handlers \ {Main} : cmd'[o] = cmd[o]
      BY <2>3, <1>m, GoesOnly DEF WatchReads, WatchLooks, WatchEnds, At, IdleCmd,
         SupTypeOK
    <3>2. UNCHANGED proc
      BY <2>3 DEF WatchReads, WatchLooks, WatchEnds
    <3>3. QED
      BY <3>1, <3>2, <1>m DEF DnsBelongs, Doing
  <2>4. QED
    BY <1>4, <2>1, <2>2, <2>3 DEF WatchStep
<1>5. CASE Environment
  <2>1. CASE HelperDies
    <3>1. \A h \in Handlers : proc'[h].at = "idle" /\ cmd'[h].at \in {"boot", "idle"}
      BY <2>1, DiesOnly DEF HelperDies, DnsCrash, AtPlace
    <3>2. QED
      BY <3>1 DEF DnsBelongs, Doing
  <2>2. CASE ContactAges \/ TunComesUp \/ MihomoExits
    BY <2>2 DEF ContactAges, TunComesUp, MihomoExits, DnsBelongs, Doing
  <2>3. QED
    BY <1>5, <2>1, <2>2 DEF Environment
<1>6. CASE UNCHANGED helperVars
  BY <1>6 DEF helperVars, supVars, DnsBelongs, Doing
<1>7. QED
  BY <1>1, <1>2, <1>3, <1>4, <1>5, <1>6, CommandBelongs DEF HelperNext

\* The steps of the cleanup itself.
LEMMA OwnClean ==
    ASSUME DnsShapeOK, SupTypeOK, DnsBelongs, NEW c \in Connections,
           CleanSoFar(c), CommandStep(c)
    PROVE  CleanSoFar(c)'
<1>m. c \in Handlers /\ c # Main
  BY HandlersAssumption
<1>o. /\ cmd'[c].name = cmd[c].name /\ cmd'[c].alone = cmd[c].alone
      /\ cmd'[c].swept => cmd[c].swept
  BY <1>m, CommandOnly
<1> SUFFICES ASSUME cmd'[c].name = "Cleanup", cmd'[c].alone, cmd'[c].swept
             PROVE  CleanSoFar(c)'
  BY DEF CleanSoFar
<1>a. cmd[c].name = "Cleanup" /\ cmd[c].alone /\ cmd[c].swept
  BY <1>o
<1>f. cmd[c].at \in CleanupStages
  BY <1>a, <1>m, FitsIsCmd DEF Fits
<1> USE DEF CleanupStages, StopStages, NoProcess, NoDns, dnsVars
<1>1. CASE StopStopsChild(c)
  <2>1. \/ cmd'[c].at = "sweep" /\ ~childAlive'
        \/ cmd'[c].at \in {"err", "after"}
    BY <1>1, <1>m, GoesOnly DEF StopStopsChild, StopsChild, Fails
  <2>2. QED
    BY <2>1 DEF CleanSoFar, At
<1>2. CASE StopSweepsOrphans(c)
  <2>1. cmd'[c].at = "release" /\ ~childAlive' /\ strays' = 0
    <3>1. ~childAlive /\ UNCHANGED childAlive
      BY <1>2, <1>a DEF StopSweepsOrphans, CleanSoFar, At
    <3>2. CASE strays' = 0 /\ Goes(c, "release")
      BY <3>1, <3>2, <1>m, GoesOnly
    <3>3. CASE cmd' = [cmd EXCEPT ![c].at = "release", ![c].swept = FALSE]
      BY <3>3, <1>m, SweptOnly
    <3>4. QED
      BY <1>2, <3>2, <3>3 DEF StopSweepsOrphans
  <2>2. QED
    BY <2>1 DEF CleanSoFar, At
<1>3. CASE StopReleasesDns(c) \/ StopReturns(c)
  <2>1. /\ ~childAlive /\ strays = 0 /\ UNCHANGED <<childAlive, strays>>
    BY <1>3, <1>a DEF StopReleasesDns, StopReturns, CleanSoFar, At
  <2>2. cmd'[c].at \in {"releasing", "tun"}
    BY <1>3, <1>a, <1>m, GoesOnly DEF StopReleasesDns, StopReturns, AfterStop
  <2>3. QED
    BY <2>1, <2>2 DEF CleanSoFar, At
<1>4. CASE CleanupDeletesTun(c)
  <2>1. ~childAlive /\ strays = 0 /\ UNCHANGED <<childAlive, strays>>
    BY <1>4, <1>a DEF CleanupDeletesTun, CleanSoFar, At
  <2>2. cmd'[c].at \in {"err", "after"} \/ (cmd'[c].at = "restore" /\ ~tun')
    <3>1. CASE Fails(c)
      BY <3>1, <1>m, GoesOnly DEF Fails
    <3>2. CASE cmd' = [cmd EXCEPT ![c].at = "restore",
                                  ![c].swept = IF tun' THEN FALSE ELSE @]
      <4>1. CASE tun'
        <5>1. cmd' = [cmd EXCEPT ![c].at = "restore", ![c].swept = FALSE]
          BY <3>2, <4>1
        <5>2. QED
          BY <5>1, <1>m, SweptOnly
      <4>2. CASE ~tun'
        BY <3>2, <4>2, <1>m, FitsIsCmd DEF SupTypeOK, Cmds
      <4>3. QED
        BY <4>1, <4>2
    <3>3. QED
      BY <1>4, <3>1, <3>2 DEF CleanupDeletesTun
  <2>3. QED
    BY <2>1, <2>2 DEF CleanSoFar, At
<1>5. CASE CleanupRestoresDns(c)
  <2>1. /\ ~childAlive /\ strays = 0 /\ ~tun
        /\ UNCHANGED <<childAlive, strays, tun>>
    BY <1>5, <1>a DEF CleanupRestoresDns, CleanSoFar, At
  <2>2. cmd'[c].at = "restoring" /\ proc'[c].at = "restore"
    BY <1>5, <1>m, GoesOnly DEF CleanupRestoresDns, BeginRestore, Begin, Become,
       AtPlace, DnsShapeOK
  <2>3. QED
    BY <2>1, <2>2 DEF CleanSoFar, At, Doing
<1>6. CASE CleanupReturns(c)
  <2>1. /\ ~childAlive /\ strays = 0 /\ ~tun
        /\ UNCHANGED <<childAlive, strays, tun, snapshot>>
        /\ Doing(c, "ok") => snapshot = NoSnapshot
    BY <1>6, <1>a DEF CleanupReturns, DnsReturns, CleanSoFar, At
  <2>2. \/ cmd'[c].at \in {"err", "after"}
        \/ cmd'[c].at = "ok" /\ Doing(c, "ok")
    BY <1>6, <1>m, GoesOnly DEF CleanupReturns, Fails
  <2>3. QED
    BY <2>1, <2>2 DEF CleanSoFar, At
<1>7. QED
  BY <1>1, <1>2, <1>3, <1>4, <1>5, <1>6, <1>f DEF CommandStep, Status, StartChecks,
     StartLocks, StartCleansOrphans, StartSpawns, StartSettles, StartAppliesDns,
     StartReturns, At

\* A cleanup whose record, and what it has established, no one touches.
LEMMA SameClean ==
    ASSUME NEW c \in Connections, CleanSoFar(c), cmd'[c] = cmd[c],
           proc'[c] = proc[c],
           UNCHANGED snapshot, ~childAlive => ~childAlive',
           strays = 0 => strays' = 0, ~tun => ~tun'
    PROVE  CleanSoFar(c)'
BY DEF CleanSoFar, At, Doing

\* While a cleanup is alone nobody else steps, and no Mihomo can bring the
\* interface up again.
LEMMA NextClean ==
    ASSUME DnsShapeOK, SupTypeOK, Quiet, DnsBelongs, [HelperNext]_helperVars,
           NEW c \in Connections, CleanSoFar(c)
    PROVE  CleanSoFar(c)'
<1>m. Main \in Handlers /\ Connections \subseteq Handlers /\ Main \notin Connections
  BY HandlersAssumption
<1>v. ASSUME cmd'[c].at \notin CleanupStages \/ cmd'[c].name # "Cleanup"
                \/ ~cmd'[c].alone
      PROVE  CleanSoFar(c)'
  BY <1>v DEF CleanSoFar, CleanupStages, StopStages, At
<1>u. ASSUME UNCHANGED <<cmd, proc, snapshot, childAlive, strays, tun>>
      PROVE  CleanSoFar(c)'
  BY <1>u DEF CleanSoFar, At, Doing
<1>n. ASSUME cmd[c].at \notin CleanupStages \/ cmd[c].name # "Cleanup"
                \/ ~cmd[c].alone,
             cmd'[c] = cmd[c]
      PROVE  CleanSoFar(c)'
  BY <1>n, <1>v
<1>q. ASSUME cmd[c].at \in CleanupStages, cmd[c].alone
      PROVE  \A o \in Handlers \ {c} : At(o, "idle") /\ Doing(o, "idle")
  <2>1. ~At(c, "idle")
    BY <1>q DEF At, CleanupStages, StopStages
  <2>2. QED
    BY <1>q, <2>1 DEF Quiet, DnsBelongs, At
<1> USE DEF NoProcess, NoDns, dnsVars
<1>1. ASSUME NEW d \in Connections, Receive(d) PROVE CleanSoFar(c)'
  <2>1. UNCHANGED <<proc, snapshot, childAlive, strays, tun>>
    BY <1>1 DEF Receive
  <2>2. CASE d = c
    <3>1. cmd'[c].at \in {"status", "check", "stop"}
      BY <1>1, <2>2, ReceiveOnly
    <3>2. QED
      BY <3>1 DEF CleanSoFar, CleanupStages, StopStages, At
  <2>3. CASE d # c
    <3>1. /\ cmd'[c].at = cmd[c].at /\ c # Main
          /\ ~At(c, "idle") => ~cmd'[c].alone
      BY <1>1, <2>3, <1>m, ReceiveOnly
    <3>2. QED
      BY <3>1, <1>v DEF At, CleanupStages, StopStages
  <2>4. QED
    BY <2>2, <2>3
<1>2. ASSUME NEW d \in Connections, Reply(d) PROVE CleanSoFar(c)'
  <2>1. CASE d = c
    BY <1>2, <2>1, <1>m, <1>v DEF Reply, IdleCmd, SupTypeOK
  <2>2. CASE d # c
    <3>1. cmd'[c] = cmd[c]
      BY <1>2, <2>2, <1>m DEF Reply, SupTypeOK
    <3>2. QED
      BY <1>2, <3>1, SameClean DEF Reply
  <2>3. QED
    BY <2>1, <2>2
<1>3. ASSUME NEW h \in Handlers, CommandStep(h) PROVE CleanSoFar(c)'
  <2>1. CASE h = c
    BY <1>3, <2>1, OwnClean
  <2>2. CASE h # c
    BY <1>3, <2>2, <1>m, <1>q, <1>n, CommandOnly
  <2>3. QED
    BY <2>1, <2>2
<1>4. ASSUME NEW h \in Handlers, DnsRuns(h) PROVE CleanSoFar(c)'
  <2>1. DnsStep(h) /\ UNCHANGED <<cmd, childAlive, strays, tun>>
    BY <1>4 DEF DnsRuns, supVars
  <2>2. proc[h].at \notin {"idle", "ok", "err"}
    BY <2>1, DnsStepOnly
  <2>3. CASE h # c
    BY <2>1, <2>2, <2>3, <1>q, <1>n DEF Doing
  <2>4. CASE h = c
    <3>1. cmd[c].at # "ok"
      BY <2>2, <2>4, <1>m DEF DnsBelongs, Doing
    <3>2. cmd[c].at = "restoring" /\ proc'[c].at = "ok" => snapshot' = NoSnapshot
      BY <2>1, <2>2, <2>4, <1>m, RestoreEmpties DEF DnsBelongs
    <3>3. QED
      BY <2>1, <3>1, <3>2 DEF CleanSoFar, At, Doing
  <2>5. QED
    BY <2>3, <2>4
<1>5. CASE WatchStep
  <2>1. cmd'[c] = cmd[c]
    BY <1>5, <1>m, GoesOnly DEF WatchStep, Boots, Listens, WatchReads, WatchLooks,
       WatchEnds, SupTypeOK
  <2>2. CASE Boots \/ Listens \/ WatchLooks \/ WatchEnds
    <3>1. ~At(Main, "idle")
      BY <2>2 DEF Boots, Listens, WatchLooks, WatchEnds, At
    <3>2. QED
      BY <2>1, <3>1, <1>m, <1>q, <1>n
  <2>3. CASE WatchReads
    <3>1. At(c, "idle")
      BY <2>3 DEF WatchReads, InFlight
    <3>2. QED
      BY <2>1, <3>1, <1>n DEF At, CleanupStages, StopStages
  <2>4. QED
    BY <1>5, <2>2, <2>3 DEF WatchStep
<1>6. CASE Environment
  <2>1. CASE ContactAges
    BY <2>1, <1>u DEF ContactAges
  <2>2. CASE TunComesUp
    <3>1. UNCHANGED <<cmd, proc, snapshot, childAlive, strays>> /\ MihomoCount > 0
      BY <2>2 DEF TunComesUp
    <3>2. ASSUME cmd[c].name = "Cleanup", cmd[c].alone, cmd[c].swept,
                 cmd[c].at \in {"restore", "restoring", "ok"}
          PROVE  FALSE
      <4>1. strays = 0 /\ ~childAlive
        BY <3>2 DEF CleanSoFar, CleanupStages, StopStages
      <4>2. ~Spawning
        BY <3>2, <1>q DEF Spawning, At, CleanupStages, StopStages
      <4>3. MihomoCount = 0
        BY <4>1, <4>2 DEF MihomoCount
      <4>4. QED
        BY <3>1, <4>3
    <3>3. QED
      BY <3>1, <3>2 DEF CleanSoFar, At, Doing
  <2>3. CASE MihomoExits
    <3>1. ~childAlive => ~childAlive'
      BY <2>3 DEF MihomoExits
    <3>2. strays = 0 => strays' = 0
      BY <2>3 DEF MihomoExits
    <3>3. ~tun => ~tun'
      BY <2>3 DEF MihomoExits, TunFollows
    <3>4. QED
      BY <2>3, <3>1, <3>2, <3>3, SameClean DEF MihomoExits
  <2>4. CASE HelperDies
    BY <2>4, <1>m, <1>v, DiesOnly DEF CleanupStages, StopStages
  <2>5. QED
    BY <1>6, <2>1, <2>2, <2>3, <2>4 DEF Environment
<1>7. CASE UNCHANGED helperVars
  BY <1>7, <1>u DEF helperVars, supVars
<1>8. QED
  BY <1>1, <1>2, <1>3, <1>4, <1>5, <1>6, <1>7 DEF HelperNext

\* A cleanup that no command overlapped and that reports success without a
\* warning has left no Mihomo, no interface and no recovery file, for any
\* number of connections and wherever the watch and the helper's death fall.
THEOREM CleanReport == HelperSpec => []CleanReportIsTrue
<1>1. HelperInit => CleanSound
  <2> SUFFICES ASSUME HelperInit PROVE CleanSound
    OBVIOUS
  <2>1. \A h \in Handlers : /\ cmd[h].at = (IF h = Main THEN "boot" ELSE "idle")
                            /\ proc[h].at = "idle"
    BY DEF HelperInit, DnsInit, IdleCmd, AtPlace
  <2>2. \A c \in Connections : c \in Handlers /\ c # Main
    BY HandlersAssumption
  <2>3. QED
    BY <2>1, <2>2 DEF CleanSound, Quiet, DnsBelongs, CleanSoFar, CleanupStages,
       StopStages, At, Doing
<1>2. DnsShapeOK /\ SupTypeOK /\ CleanSound /\ [HelperNext]_helperVars
         => CleanSound'
  BY NextQuiet, NextBelongs, NextClean DEF CleanSound
<1>3. SupTypeOK /\ CleanSound => CleanReportIsTrue
  <2> SUFFICES ASSUME SupTypeOK, CleanSound, NEW c \in Connections,
                      At(c, "ok"), cmd[c].name = "Cleanup", cmd[c].alone,
                      cmd[c].swept
               PROVE  MihomoCount = 0 /\ ~tun /\ snapshot = NoSnapshot
    BY DEF CleanReportIsTrue
  <2>1. ~childAlive /\ strays = 0 /\ ~tun /\ snapshot = NoSnapshot
    BY DEF CleanSound, CleanSoFar, CleanupStages, StopStages, At
  <2>2. ~Spawning
    BY DEF CleanSound, Quiet, Spawning, At
  <2>3. MihomoCount = 0
    BY <2>1, <2>2 DEF MihomoCount
  <2>4. QED
    BY <2>1, <2>3
<1>4. QED
  BY <1>1, <1>2, <1>3, HelperAlwaysTyped, PTL DEF HelperSpec
=============================================================================
