------------------------------ MODULE MacosDns ------------------------------
(* The DNS takeover of the macOS helper                                    *)
(* (crates/iran-split-helper/src/macos_dns.rs): before it points the       *)
(* network services at Mihomo's listener on 127.0.0.1, apply writes their  *)
(* servers to a recovery file; restore writes them back and removes the    *)
(* file.  The file and the settings survive the helper's process.  Every   *)
(* command and file operation is a step of its own and may fail.           *)
(*                                                                         *)
(* A server list is a set: nothing depends on the order of servers.  The   *)
(* services are visited in any order, which includes the code's.           *)
EXTENDS FiniteSets

CONSTANTS
    Handlers,   \* the tasks that run apply and restore
    Services,   \* network services of the machine
    UserLists   \* the server lists a user may have configured

Loopback == "127.0.0.1"
Gateway == "gateway"
Servers == {"own", Loopback, Gateway}
Lists == SUBSET Servers             \* {} is what networksetup calls Empty

ASSUME UserListsAssumption == UserLists \subseteq Lists

Missing == {"missing"}              \* a service the recovery file lacks
Snapshots == [Services -> Lists \union {Missing}]
NoSnapshot == [s \in Services |-> Missing]
Unknown == NoSnapshot
Saved(file) == {s \in Services : file[s] # Missing}

\* Where a procedure is: between two commands or file operations.
Places == {"idle", "apply", "capture", "save", "take",
           "restore", "rewrite", "give", "check", "gateway", "route",
           "remove", "ok", "err"}

VARIABLES
    dns,         \* the servers configured for each service
    snapshot,    \* the recovery file system-dns.toml
    proc,        \* each handler's procedure
    owed         \* history: the lists the machine had before the takeover;
                 \* unknown once two procedures have run at the same time

dnsVars == <<dns, snapshot, proc, owed>>

Procs == [at : Places, saved : Snapshots, listed : SUBSET Services,
          todo : SUBSET Services, failed : BOOLEAN, fellBack : BOOLEAN,
          rollback : BOOLEAN]
AtPlace(place) ==
    [at |-> place, saved |-> NoSnapshot, listed |-> {}, todo |-> {},
     failed |-> FALSE, fellBack |-> FALSE, rollback |-> FALSE]

\* The helper starts on an untouched machine, or on one an earlier helper
\* left captured; an early version saved 127.0.0.1 as it found it.
DnsInit ==
    /\ owed \in [Services -> UserLists]
    /\ \E captured \in SUBSET Services :
          /\ snapshot = [s \in Services |->
                            IF s \in captured THEN owed[s] ELSE Missing]
          /\ dns = [s \in Services |->
                       IF s \in captured THEN {Loopback} ELSE owed[s]]
    /\ proc = [h \in Handlers |-> AtPlace("idle")]

-----------------------------------------------------------------------------
(* Operators of the code.                                                  *)

WithoutLoopback(list) == list \ {Loopback}
\* Mutation of WithoutLoopbackSnapshot: the file is taken as it is.
AsSaved(file) == file

WithoutLoopbackSnapshot(file) ==
    [s \in Services |->
        IF file[s] = Missing THEN Missing ELSE WithoutLoopback(file[s])]

Doing(h, place) == proc[h].at = place
Busy(h) == ~Doing(h, "idle") /\ ~Doing(h, "ok") /\ ~Doing(h, "err")
Become(h, record) == proc' = [proc EXCEPT ![h] = record]
Go(h, place) == Become(h, [proc[h] EXCEPT !.at = place])
\* An apply that rolled back fails whatever the rollback returned.
Finish(h, outcome) ==
    Become(h, AtPlace(IF proc[h].rollback THEN "err" ELSE outcome))

\* networksetup -setdnsservers.  A command that fails may have taken effect
\* or not; one that succeeds may leave a service stuck on 127.0.0.1.
SetDnsServers(s, list, succeeds) ==
    \/ dns' = [dns EXCEPT ![s] = list]
    \/ (succeeds => Loopback \in dns[s]) /\ UNCHANGED dns

\* write_snapshot persists the file atomically and syncs; it may fail
\* before or after the file is in place.
WriteSnapshot(h, after) ==
    \/ snapshot' = proc[h].saved /\ Become(h, after)
    \/ snapshot' \in {snapshot, proc[h].saved} /\ Finish(h, "err")

Begin(h, place) ==
    /\ Doing(h, "idle")
    /\ Become(h, AtPlace(place))
    /\ owed' = (IF \E other \in Handlers \ {h} : Busy(other) THEN Unknown
                ELSE owed)
    /\ UNCHANGED <<dns, snapshot>>
BeginApply(h) == Begin(h, "apply")
BeginRestore(h) == Begin(h, "restore")

\* The caller takes the result.
DnsReturns(h) ==
    /\ Doing(h, "ok") \/ Doing(h, "err")
    /\ Become(h, AtPlace("idle"))
    /\ UNCHANGED <<dns, snapshot, owed>>

\* The helper's process dies: its tasks are gone, file and settings stay.
DnsCrash ==
    /\ proc' = [h \in Handlers |-> AtPlace("idle")]
    /\ UNCHANGED <<dns, snapshot, owed>>

-----------------------------------------------------------------------------
(* apply_with.                                                             *)

\* Mutation of ApplyReads: a repeated start captures every service afresh.
ApplyReadsAfresh(h) ==
    /\ Doing(h, "apply")
    /\ \/ \E listed \in SUBSET Services \ {{}} :
             Become(h, [proc[h] EXCEPT !.at = "capture", !.listed = listed,
                                       !.todo = listed])
       \/ Finish(h, "err")
    /\ UNCHANGED <<dns, snapshot, owed>>

\* Lists the active services and reads the recovery file.
ApplyReads(h) ==
    /\ Doing(h, "apply")
    /\ \/ \E listed \in SUBSET Services \ {{}} :
             LET saved == WithoutLoopbackSnapshot(snapshot) IN
             Become(h, [proc[h] EXCEPT !.at = "capture", !.saved = saved,
                          !.listed = listed, !.todo = listed \ Saved(saved)])
       \/ Finish(h, "err")
    /\ UNCHANGED <<dns, snapshot, owed>>

\* networksetup -getdnsservers of a service the file lacks.
ApplyCaptures(h) ==
    /\ Doing(h, "capture")
    /\ \/ \E s \in proc[h].todo :
             Become(h, [proc[h] EXCEPT !.saved[s] = WithoutLoopback(dns[s]),
                                       !.todo = @ \ {s}])
       \/ proc[h].todo # {} /\ Finish(h, "err")
       \/ proc[h].todo = {} /\ Go(h, "save")
    /\ UNCHANGED <<dns, snapshot, owed>>

ApplySaves(h) ==
    /\ Doing(h, "save")
    /\ WriteSnapshot(h, [proc[h] EXCEPT !.at = "take", !.todo = proc[h].listed])
    /\ UNCHANGED <<dns, owed>>

\* Points a service at 127.0.0.1; the first failure restores every service.
ApplyTakes(h) ==
    /\ Doing(h, "take")
    /\ \/ \E s \in proc[h].todo :
             \/ /\ SetDnsServers(s, {Loopback}, TRUE)
                /\ Become(h, [proc[h] EXCEPT !.todo = @ \ {s}])
             \/ /\ SetDnsServers(s, {Loopback}, FALSE)
                /\ Become(h, [AtPlace("restore") EXCEPT !.rollback = TRUE])
       \/ proc[h].todo = {} /\ Finish(h, "ok") /\ UNCHANGED dns
    /\ UNCHANGED <<snapshot, owed>>

-----------------------------------------------------------------------------
(* restore_with.                                                           *)

RestoreReads(h) ==
    /\ Doing(h, "restore")
    /\ LET clean == WithoutLoopbackSnapshot(snapshot) IN
       \/ snapshot = NoSnapshot /\ Finish(h, "ok")
       \/ /\ snapshot # NoSnapshot
          /\ Become(h, [proc[h] EXCEPT !.saved = clean, !.todo = Saved(clean),
                          !.at = IF clean = snapshot THEN "give" ELSE "rewrite"])
       \/ Finish(h, "err")
    /\ UNCHANGED <<dns, snapshot, owed>>

RestoreRewrites(h) ==
    /\ Doing(h, "rewrite")
    /\ WriteSnapshot(h, [proc[h] EXCEPT !.at = "give"])
    /\ UNCHANGED <<dns, owed>>

\* Gives every service its servers back, past the ones that fail.
RestoreGives(h) ==
    /\ Doing(h, "give")
    /\ \/ \E s \in proc[h].todo, succeeds \in BOOLEAN :
             /\ SetDnsServers(s, proc[h].saved[s], succeeds)
             /\ Become(h, [proc[h] EXCEPT !.todo = @ \ {s},
                                          !.failed = @ \/ ~succeeds])
       \/ /\ proc[h].todo = {} /\ UNCHANGED dns
          /\ IF proc[h].failed THEN Finish(h, "err")
             ELSE Become(h, [proc[h] EXCEPT !.at = "check",
                                            !.todo = Saved(proc[h].saved)])
    /\ UNCHANGED <<snapshot, owed>>

\* A resolver is still 127.0.0.1: the gateway is tried once.
StillLoopback(h) ==
    IF proc[h].fellBack THEN Finish(h, "err") ELSE Go(h, "gateway")

\* Mutation of RestoreChecks: asks the live resolver only.
RestoreChecksLive(h) ==
    /\ Doing(h, "check")
    /\ StillLoopback(h) \/ Finish(h, "err") \/ Go(h, "remove")
    /\ UNCHANGED <<dns, snapshot, owed>>

\* still_loopback: the live resolver, which is whatever scutil says, then
\* the setting of each saved service.
RestoreChecks(h) ==
    /\ Doing(h, "check")
    /\ \/ proc[h].todo = Saved(proc[h].saved) /\ StillLoopback(h)
       \/ \E s \in proc[h].todo :
             IF Loopback \in dns[s] THEN StillLoopback(h)
             ELSE Become(h, [proc[h] EXCEPT !.todo = @ \ {s}])
       \/ Finish(h, "err")
       \/ proc[h].todo = {} /\ Go(h, "remove")
    /\ UNCHANGED <<dns, snapshot, owed>>

\* The default gateway, where it is a private address.
RestoreFindsGateway(h) ==
    /\ Doing(h, "gateway")
    /\ \/ Become(h, [proc[h] EXCEPT !.at = "route", !.fellBack = TRUE,
                                    !.todo = Saved(proc[h].saved)])
       \/ Finish(h, "err")
    /\ UNCHANGED <<dns, snapshot, owed>>

\* Points every saved service at the gateway, up to the first failure.
RestoreRoutes(h) ==
    /\ Doing(h, "route")
    /\ \/ \E s \in proc[h].todo :
             \/ /\ SetDnsServers(s, {Gateway}, TRUE)
                /\ Become(h, [proc[h] EXCEPT !.todo = @ \ {s}])
             \/ SetDnsServers(s, {Gateway}, FALSE) /\ Finish(h, "err")
       \/ /\ proc[h].todo = {} /\ UNCHANGED dns
          /\ Become(h, [proc[h] EXCEPT !.at = "check",
                                       !.todo = Saved(proc[h].saved)])
    /\ UNCHANGED <<snapshot, owed>>

\* Removes the file, and syncs the directory.  From here on the machine is
\* owed what it has.
RestoreRemoves(h) ==
    /\ Doing(h, "remove")
    /\ \/ /\ snapshot # NoSnapshot
          /\ snapshot' = NoSnapshot
          /\ owed' = (IF owed = Unknown THEN Unknown ELSE dns)
          /\ Finish(h, "ok") \/ Finish(h, "err")
       \/ Finish(h, "err") /\ UNCHANGED <<snapshot, owed>>
    /\ UNCHANGED dns

-----------------------------------------------------------------------------

DnsStep(h) ==
    \/ ApplyReads(h) \/ ApplyCaptures(h) \/ ApplySaves(h) \/ ApplyTakes(h)
    \/ RestoreReads(h) \/ RestoreRewrites(h) \/ RestoreGives(h)
    \/ RestoreChecks(h) \/ RestoreFindsGateway(h) \/ RestoreRoutes(h)
    \/ RestoreRemoves(h)

DnsNext ==
    \/ \E h \in Handlers :
          BeginApply(h) \/ BeginRestore(h) \/ DnsStep(h) \/ DnsReturns(h)
    \/ DnsCrash

DnsSpec == DnsInit /\ [][DnsNext]_dnsVars

-----------------------------------------------------------------------------
(* Properties.                                                             *)

DnsTypeOK ==
    /\ dns \in [Services -> Lists]
    /\ snapshot \in Snapshots
    /\ proc \in [Handlers -> Procs]
    /\ owed \in [Services -> Lists] \union {Unknown}

\* While procedures do not overlap, and wherever the helper dies, a service
\* the recovery file lacks has the servers it had, and the file holds the
\* others' servers, whatever is configured at the moment.
UserDnsRecoverable ==
    owed # Unknown =>
        \A s \in Services :
            IF snapshot[s] = Missing THEN dns[s] = owed[s]
            ELSE WithoutLoopback(snapshot[s]) = WithoutLoopback(owed[s])

\* The recovery file goes only when every service it holds has its servers
\* back, or the gateway in their place; never 127.0.0.1.
GivenBack ==
    \A s \in Saved(snapshot) :
        dns[s] \in {WithoutLoopback(owed[s]), {Gateway}}
RecoveryKeptUntilRestored ==
    [][snapshot # NoSnapshot /\ snapshot' = NoSnapshot /\ owed # Unknown
          => GivenBack]_dnsVars

\* Only a takeover points a service at 127.0.0.1: no restore writes the
\* tunnel's resolver back, however old its recovery file is and whatever
\* runs at the same time.
LoopbackOnlyByTakeover ==
    [][\A s \in Services :
          Loopback \in dns'[s] /\ Loopback \notin dns[s]
             => \E h \in Handlers : Doing(h, "take")]_dnsVars
=============================================================================
