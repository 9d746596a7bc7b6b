---------------------------- MODULE ServicesProofs ----------------------------
(* Theorems about UpdateFlow, HotReload, Settings, RuleStore and Routing,    *)
(* for any number of releases, of generations, of clients, ports and saves, *)
(* of hosts, lists and commands, and of names and pins.                     *)
EXTENDS UpdateFlow, HotReload, Settings, RuleStore, Routing, FiniteSetTheorems, TLAPS

-----------------------------------------------------------------------------
(* UpdateFlow.                                                              *)

\* The installation has resolved its package and not yet handed it over.
Resolved == {"downloading", "guarding", "pausing", "waiting", "applying"}

\* A process that is down has no job: the next one takes over its version only.
DownIsIdle == process = "down" => job = "idle"

\* From the resolved package on, what is offered is the target, and is newer.
TargetIsOffered == job \in Resolved => target = offered /\ target > self

\* A document that went is gone, and the guard that saw it is kept.
LostIsGone == lost => guardFile = "present" /\ ~pinsFile

\* From the moment the pause was settled until the process has left, the stack
\* is live only when somebody else made it so.
PauseHolds ==
    (job = "applying" /\ InPlace) \/ process = "leaving" => updateStack # "live" \/ touched

\* The types, one variable at a time.
Types ==
    /\ installKind \in InstallKinds
    /\ release \in Versions /\ manifest \in Versions /\ manifest <= release
    /\ installed \in Versions /\ self \in Versions /\ target \in Versions
    /\ script \in Versions /\ remembered \in Versions /\ offered \in Versions
    /\ process \in {"up", "leaving", "down"} /\ job \in Jobs
    /\ cancelled \in BOOLEAN /\ touched \in BOOLEAN /\ pinsFile \in BOOLEAN /\ lost \in BOOLEAN
    /\ shown \in {"idle", "checking", "available", "current", "downloading", "installing",
                  "installed", "downloaded", "restarting", "failed"}
    /\ updateStack \in {"live", "working", "paused", "stopped"}
    /\ guardFile \in {"none", "present", "absent"}

\* The inductive invariant.
Parts == DownIsIdle /\ TargetIsOffered /\ LostIsGone /\ PauseHolds
UpdateIInv == Types /\ Parts

LEMMA TypesAreTypeOK == Types <=> UpdateTypeOK
BY DEF Types, UpdateTypeOK

-----------------------------------------------------------------------------
(* The invariant is inductive.                                             *)

LEMMA InitIInv == UpdateInit => UpdateIInv
<1> SUFFICES ASSUME UpdateInit PROVE UpdateIInv
    OBVIOUS
<1>1. NoVersion \in Versions /\ NoVersion <= NoVersion
    BY ReleasesAssumption DEF NoVersion, Versions
<1>2. Types
    BY <1>1 DEF UpdateInit, Types, Jobs
<1>3. Parts
    BY DEF UpdateInit, Parts, DownIsIdle, TargetIsOffered, LostIsGone, PauseHolds, Resolved
<1> QED
    BY <1>2, <1>3 DEF UpdateIInv

LEMMA TypesStep ==
    ASSUME Types, [UpdateNext]_updateVars
    PROVE  Types'
<1>0. NoVersion \in Versions
    BY ReleasesAssumption DEF NoVersion, Versions
<1> USE <1>0 DEF Types, Jobs, JobAt, JobGoes, JobEnds, versionVars, jobVars, stackVars, guardVars
<1>1. CASE CheckForUpdate
    BY <1>1 DEF CheckForUpdate, TryBegin
<1>2. CASE InstallUpdate
    BY <1>2 DEF InstallUpdate, TryBegin
<1>3. CASE RequestCancel
    BY <1>3 DEF RequestCancel
<1>4. CASE CheckFinds
    BY <1>4 DEF CheckFinds, FoundRelease
<1>5. CASE CheckFails
    BY <1>5 DEF CheckFails
<1>6. CASE ApplySidecars
    BY <1>6 DEF ApplySidecars
<1>7. CASE SidecarFails
    BY <1>7 DEF SidecarFails
<1>8. CASE ResolveGithubPackage
    BY <1>8 DEF ResolveGithubPackage, FoundRelease
<1>9. CASE ResolveFails
    BY <1>9 DEF ResolveFails
<1>10. CASE Download
    BY <1>10 DEF Download, ValidSigned, InPlace
<1>11. CASE DownloadFails
    BY <1>11 DEF DownloadFails
<1>12. CASE RecordGuard
    BY <1>12 DEF RecordGuard, Verified
<1>13. CASE GuardFails
    BY <1>13 DEF GuardFails, Verified
<1>14. CASE PauseStack
    BY <1>14 DEF PauseStack
<1>15. CASE WaitsForPaused
    BY <1>15 DEF WaitsForPaused
<1>16. CASE PauseFails
    BY <1>16 DEF PauseFails
<1>17. CASE PauseEnds
    BY <1>17 DEF PauseEnds
<1>18. CASE UserActs
    BY <1>18 DEF UserActs
<1>19. CASE RestoreStack
    BY <1>19 DEF RestoreStack, InPlace
<1>20. CASE InstallDeb
    BY <1>20 DEF InstallDeb
<1>21. CASE OpenDiskImage
    BY <1>21 DEF OpenDiskImage
<1>22. CASE LaunchScript
    BY <1>22 DEF LaunchScript
<1>23. CASE PackageFails
    BY <1>23 DEF PackageFails
<1>24. CASE Exits
    BY <1>24 DEF Exits
<1>25. CASE RunScript
    BY <1>25 DEF RunScript
<1>26. CASE LosePins
    <2>1. lost' \in BOOLEAN /\ pinsFile' \in BOOLEAN
        BY <1>26, Zenon DEF LosePins
    <2>2. UNCHANGED <<versionVars, process, script, jobVars, stackVars, guardFile>>
        BY <1>26 DEF LosePins
    <2> QED
        BY <2>1, <2>2
<1>27. CASE PinsAreWritten
    <2>1. lost' \in BOOLEAN /\ pinsFile' \in BOOLEAN
        BY <1>27, Zenon DEF PinsAreWritten
    <2>2. UNCHANGED <<versionVars, process, script, jobVars, stackVars, guardFile>>
        BY <1>27 DEF PinsAreWritten
    <2> QED
        BY <2>1, <2>2
<1>28. CASE Starts
    BY <1>28 DEF Starts, Verified
<1>29. CASE PublishRelease
    <2>1. release' \in Versions /\ manifest' \in Versions /\ manifest' <= release'
        BY <1>29, ReleasesAssumption DEF PublishRelease, Versions
    <2>2. UNCHANGED <<installKind, installed, self, process, script, jobVars, stackVars, guardVars>>
        BY <1>29 DEF PublishRelease
    <2> QED
        BY <2>1, <2>2
<1>30. CASE UNCHANGED updateVars
    BY <1>30 DEF updateVars
<1> QED
    BY <1>1, <1>2, <1>3, <1>4, <1>5, <1>6, <1>7, <1>8, <1>9, <1>10, <1>11, <1>12,
       <1>13, <1>14, <1>15, <1>16, <1>17, <1>18, <1>19, <1>20, <1>21, <1>22, <1>23, <1>24,
       <1>25, <1>26, <1>27, <1>28, <1>29, <1>30 DEF UpdateNext

LEMMA PartsStep ==
    ASSUME Types, Parts, [UpdateNext]_updateVars
    PROVE  Parts'
<1> USE DEF Types, Parts, DownIsIdle, TargetIsOffered, Resolved, LostIsGone, PauseHolds, InPlace,
            JobAt, JobGoes, JobEnds, versionVars, jobVars, stackVars, guardVars
<1>1. CASE CheckForUpdate
    BY <1>1 DEF CheckForUpdate, TryBegin
<1>2. CASE InstallUpdate
    BY <1>2 DEF InstallUpdate, TryBegin
<1>3. CASE RequestCancel
    BY <1>3 DEF RequestCancel
<1>4. CASE CheckFinds
    BY <1>4 DEF CheckFinds, FoundRelease
<1>5. CASE CheckFails
    BY <1>5 DEF CheckFails
<1>6. CASE ApplySidecars
    BY <1>6 DEF ApplySidecars
<1>7. CASE SidecarFails
    BY <1>7 DEF SidecarFails
<1>8. CASE ResolveGithubPackage
    BY <1>8 DEF ResolveGithubPackage, FoundRelease
<1>9. CASE ResolveFails
    BY <1>9 DEF ResolveFails
<1>10. CASE Download
    BY <1>10 DEF Download, ValidSigned
<1>11. CASE DownloadFails
    BY <1>11 DEF DownloadFails
<1>12. CASE RecordGuard
    BY <1>12 DEF RecordGuard, Verified
<1>13. CASE GuardFails
    BY <1>13 DEF GuardFails, Verified
<1>14. CASE PauseStack
    BY <1>14 DEF PauseStack
<1>15. CASE WaitsForPaused
    BY <1>15 DEF WaitsForPaused
<1>16. CASE PauseFails
    BY <1>16 DEF PauseFails
<1>17. CASE PauseEnds
    BY <1>17 DEF PauseEnds
<1>18. CASE UserActs
    BY <1>18 DEF UserActs
<1>19. CASE RestoreStack
    BY <1>19 DEF RestoreStack
<1>20. CASE InstallDeb
    BY <1>20 DEF InstallDeb
<1>21. CASE OpenDiskImage
    BY <1>21 DEF OpenDiskImage
<1>22. CASE LaunchScript
    BY <1>22 DEF LaunchScript
<1>23. CASE PackageFails
    BY <1>23 DEF PackageFails
<1>24. CASE Exits
    BY <1>24 DEF Exits
<1>25. CASE RunScript
    BY <1>25 DEF RunScript
<1>26. CASE LosePins
    BY <1>26 DEF LosePins
<1>27. CASE PinsAreWritten
    BY <1>27 DEF PinsAreWritten
<1>28. CASE Starts
    BY <1>28 DEF Starts, Verified
<1>29. CASE PublishRelease
    BY <1>29 DEF PublishRelease
<1>30. CASE UNCHANGED updateVars
    BY <1>30 DEF updateVars
<1> QED
    BY <1>1, <1>2, <1>3, <1>4, <1>5, <1>6, <1>7, <1>8, <1>9, <1>10, <1>11, <1>12,
       <1>13, <1>14, <1>15, <1>16, <1>17, <1>18, <1>19, <1>20, <1>21, <1>22, <1>23, <1>24,
       <1>25, <1>26, <1>27, <1>28, <1>29, <1>30 DEF UpdateNext

LEMMA UpdateIInvHolds == UpdateSpec => []UpdateIInv
<1>1. UpdateIInv /\ [UpdateNext]_updateVars => UpdateIInv'
    BY TypesStep, PartsStep DEF UpdateIInv
<1> QED
    BY InitIInv, <1>1, PTL DEF UpdateSpec

-----------------------------------------------------------------------------
(* What it implies.                                                        *)

\* Whatever the number of releases, no step of an update leaves the types.
THEOREM UpdateTypeCorrect == UpdateSpec => []UpdateTypeOK
<1>1. UpdateIInv => UpdateTypeOK
    BY TypesAreTypeOK DEF UpdateIInv
<1> QED
    BY UpdateIInvHolds, <1>1, PTL

\* A document of pins that an installer lost is reported by every process that
\* follows (verify_direct_rules_after_upgrade), and an installer that replaces
\* the process finds a stack that was paused, unless somebody else acted on it
\* (pause_stack_for_update, schedule_update_exit).
THEOREM UpdateInvariantHolds == UpdateSpec => []UpdateInvariant
<1>1. UpdateIInv => UpdateInvariant
    BY TypesAreTypeOK
    DEF UpdateIInv, Parts, LostIsGone, PauseHolds, UpdateInvariant, LossIsReported, InstallerFindsPausedStack
<1> QED
    BY UpdateIInvHolds, <1>1, PTL

\* However releases, their signed manifests and the remembered package follow
\* each other, what reaches the installer is the version that was offered, and
\* is newer than the running one (resolve_github_package, validate_signed_metadata).
THEOREM InstallsOffered == UpdateSpec => []InstallsWhatWasOffered
<1>1. UpdateIInv => InstallsWhatWasOffered
    BY DEF UpdateIInv, Parts, TargetIsOffered, Resolved, InstallsWhatWasOffered
<1> QED
    BY UpdateIInvHolds, <1>1, PTL

-----------------------------------------------------------------------------
(* HotReload.                                                               *)

\* What is asked of the helper, one request at a time, when n is prepared.
RequestSet == [kind : {"register", "overlay", "spawn", "stop"}, of : 0..MaxGenerations,
               at : {"asked", "rules", "config", "spawning"}, mine : BOOLEAN]
RequestsFit(R, n) ==
    /\ \A r \in R :
          /\ r \in RequestSet
          /\ r.kind # "stop" => r.of \in Generations /\ r.of <= n
          /\ r.at \in {"rules", "config"} => r.kind = "overlay"
          /\ r.at = "spawning" => r.kind = "spawn"
    /\ \A r, q \in R : r.at # "asked" /\ q.at # "asked" => r = q

\* An overlay goes to the directory of a Mihomo that is still the helper's.
HasTarget(R, c) == \A r \in R : r.at \in {"rules", "config"} => c # NoGeneration

\* The desktop waits for one request, that of the place where it is.
Unawaited(R) == \A r \in R : ~r.mine
OneAwaited(R, at, n) ==
    /\ \A r \in R : r.mine => r.kind = at /\ (r.kind # "stop" => r.of = n)
    /\ \A r, q \in R : r.mine /\ q.mine => r = q
OnePut(P, at) ==
    /\ \A p \in P : p.mine => at = "put"
    /\ \A p, q \in P : p.mine /\ q.mine => p = q

AfterStaging == {"register", "overlay", "spawn", "send", "put", "match", "close", "ready"}
ProcessFits ==
    /\ child <= newest /\ HasTarget(requests, child)
    /\ task.at \in AfterStaging => newest # 0
    /\ mihomo # NoMihomo => mihomo.home \in Generations /\ mihomo.config \in Generations
    /\ task.at \in {"send", "put"} => task.file \in Generations

\* What holds while nothing of an earlier operation is in progress.
Prepared == [config |-> newest, rules |-> newest]
Shown == task.at = "ready" \/ (task.at = "idle" /\ outcome = "running")
Alone == (\A r \in requests : r.mine) /\ (\A p \in puts : p.mine /\ p.config = newest)
FilesFollow ==
    /\ task.at \in {"register", "overlay"} => child < newest
    /\ task.at \in {"overlay", "spawn"} => homes[newest] = Prepared
    /\ task.at \in {"send", "put"} =>
           homes[task.file] = Prepared /\ (mihomo = NoMihomo \/ mihomo.home = task.file)
OverlayFollows ==
    \A r \in requests :
        /\ r.at \in {"rules", "config"} => mihomo = NoMihomo \/ mihomo.home = child
        /\ r.at = "config" => homes[child].rules = newest
MihomoFollows ==
    /\ task.at \in {"match", "close"} \/ Shown =>
           mihomo = NoMihomo \/ (mihomo.config = newest /\ mihomo.rules = newest)
    /\ Shown => connections \ stale \subseteq {newest}
Undisturbed == ~disturbed => Alone /\ FilesFollow /\ OverlayFollows /\ MihomoFollows

Asked == RequestsFit(requests, newest) /\ OneAwaited(requests, task.at, newest)
           /\ OnePut(puts, task.at)
ReloadInv == ReloadTypeOK /\ Asked /\ ProcessFits /\ Undisturbed

-----------------------------------------------------------------------------
LEMMA RequestIs ==
    ASSUME NEW kind \in {"register", "overlay", "spawn", "stop"}, NEW g \in 0..MaxGenerations
    PROVE  /\ Request(kind, g) \in RequestSet
           /\ Request(kind, g).kind = kind /\ Request(kind, g).of = g
           /\ Request(kind, g).at = "asked" /\ Request(kind, g).mine = TRUE
BY DEF Request, RequestSet

LEMMA NewRequest ==
    ASSUME NEW kind, NEW g
    PROVE  Request(kind, g).mine /\ Request(kind, g).at = "asked"
BY DEF Request

\* What a request joins keeps its places.
LEMMA AskedIsNew ==
    ASSUME NEW R, NEW kind, NEW g, NEW r \in R \union {Request(kind, g)}
    PROVE  r \in R \/ r.at = "asked"
<1>1. Request(kind, g).at = "asked"
    BY DEF Request
<1> QED
    BY <1>1, Zenon

\* Whom nobody waits for may be followed by a request that somebody waits for.
LEMMA AskFits ==
    ASSUME NEW R, NEW n \in 0..MaxGenerations, RequestsFit(R, n), Unawaited(R),
           NEW kind \in {"register", "overlay", "spawn", "stop"}, NEW g \in 0..MaxGenerations,
           kind # "stop" => g = n /\ n # 0
    PROVE  /\ RequestsFit(R \union {Request(kind, g)}, n)
           /\ OneAwaited(R \union {Request(kind, g)}, kind, n)
<1>0. PICK q \in RequestSet : q = Request(kind, g) /\ q.kind = kind /\ q.of = g
                               /\ q.at = "asked" /\ q.mine
    BY RequestIs
<1>1. RequestsFit(R \union {q}, n)
    BY <1>0, ReloadAssumption DEF RequestsFit, Generations
<1>2. OneAwaited(R \union {q}, kind, n)
    BY <1>0 DEF OneAwaited, Unawaited
<1> QED
    BY <1>0, <1>1, <1>2

\* A failure leads to the stop or to the end, and awaits nothing else.
LEMMA FailFits ==
    ASSUME ReloadTypeOK, NEW R, RequestsFit(R, newest), Unawaited(R), Fails(R)
    PROVE  /\ task' \in [op : {"none", "start", "apply", "stop"}, file : 0..MaxGenerations,
                         at : {"stop", "idle"}]
           /\ outcome' \in {"none", "running", "unapplied", "failed", "stopped"}
           /\ task'.at = "idle" => outcome' # "running"
           /\ RequestsFit(requests', newest) /\ OneAwaited(requests', task'.at, newest)
           /\ \A r \in requests' : r \in R \/ r.at = "asked"
           /\ (\A r \in R : r.mine) => \A r \in requests' : r.mine /\ r.at = "asked"
           /\ task.at # "put" /\ OnePut(puts, task.at) => \A p \in puts : ~p.mine
<1>0. task \in [op : {"none", "start", "apply", "stop"}, file : 0..MaxGenerations,
                at : {"idle", "prepare", "register", "overlay", "spawn", "send", "put", "match",
                      "close", "ready", "stop"}]
      /\ newest \in 0..MaxGenerations /\ 0 \in 0..MaxGenerations
      /\ outcome \in {"none", "running", "unapplied", "failed", "stopped"}
    BY ReloadAssumption DEF ReloadTypeOK
<1>1. CASE task.op = "start" /\ task.at # "stop"
    <2>1. task' = [task EXCEPT !.at = "stop"] /\ outcome' = outcome
          /\ requests' = R \union {Request("stop", 0)}
        BY <1>1 DEF Fails, Moves
    <2>2. RequestsFit(requests', newest) /\ OneAwaited(requests', "stop", newest)
        BY <1>0, <2>1, AskFits
    <2>3. (\A r \in R : r.mine) => \A r \in requests' : r.mine /\ r.at = "asked"
        <3> SUFFICES ASSUME \A r \in R : r.mine, NEW r \in requests'
                     PROVE  r.mine /\ r.at = "asked"
            OBVIOUS
        <3>1. r = Request("stop", 0)
            BY <2>1 DEF Unawaited
        <3> QED
            BY <1>0, <3>1, RequestIs
    <2>4. \A r \in requests' : r \in R \/ r.at = "asked"
        BY <2>1, AskedIsNew, Zenon
    <2> QED
        BY <1>0, <2>1, <2>2, <2>3, <2>4 DEF OnePut
<1>2. CASE ~(task.op = "start" /\ task.at # "stop")
    <2>1. task' = IdleTask /\ outcome' \in {"unapplied", "failed"} /\ requests' = R
        BY <1>2 DEF Fails, Ends
    <2>2. OneAwaited(requests', "idle", newest)
        BY <2>1 DEF OneAwaited, Unawaited
    <2> QED
        BY <1>0, <2>1, <2>2 DEF OnePut, IdleTask, NoGeneration, Unawaited
<1> QED
    BY <1>1, <1>2
\* What is left when a request is answered.
LEMMA OthersFit ==
    ASSUME Asked, NEW r \in requests
    PROVE  /\ RequestsFit(Others(r), newest) /\ OneAwaited(Others(r), task.at, newest)
           /\ r.mine => Unawaited(Others(r))
BY DEF Asked, Others, RequestsFit, OneAwaited, Unawaited

\* Where the desktop waits for nothing, nothing waits for it.
LEMMA NobodyAwaited ==
    ASSUME Asked, task.at \notin {"register", "overlay", "spawn", "stop"}
    PROVE  Unawaited(requests)
BY DEF Asked, OneAwaited, RequestsFit, RequestSet, Unawaited

-----------------------------------------------------------------------------
(* The desktop's steps.                                                     *)

LEMMA BeginKeeps ==
    ASSUME ReloadInv, BeginStart \/ BeginApply \/ BeginStop
    PROVE  ReloadInv'
<1>1. /\ task' \in [op : {"none", "start", "apply", "stop"}, file : 0..MaxGenerations,
                    at : {"prepare", "stop"}]
      /\ task.at = "idle" /\ outcome' = "none"
      /\ disturbed' = (requests # {} \/ puts # {})
      /\ UNCHANGED <<platform, newest, puts, registered, homes, child, mihomo, connections, stale>>
    <2>1. 0 \in 0..MaxGenerations
        BY ReloadAssumption
    <2> QED
        BY <2>1 DEF BeginStart, BeginApply, BeginStop, Begin, IdleTask, NoGeneration, world, live
<1>2. \/ task'.at = "prepare" /\ requests' = requests
      \/ task'.at = "stop" /\ requests' = requests \union {Request("stop", 0)}
    BY DEF BeginStart, BeginApply, BeginStop, Begin, IdleTask, world
<1>3. Unawaited(requests) /\ newest \in 0..MaxGenerations /\ 0 \in 0..MaxGenerations
    BY <1>1, NobodyAwaited, ReloadAssumption DEF ReloadInv, ReloadTypeOK
<1>4. RequestsFit(requests', newest) /\ OneAwaited(requests', task'.at, newest)
    <2>1. CASE requests' = requests
        BY <1>3, <2>1 DEF ReloadInv, Asked, OneAwaited, Unawaited
    <2>2. CASE task'.at = "stop" /\ requests' = requests \union {Request("stop", 0)}
        BY <1>3, <2>2, AskFits DEF ReloadInv, Asked
    <2> QED
        BY <1>2, <2>1, <2>2
<1>5. Asked'
    BY <1>1, <1>4 DEF ReloadInv, Asked, OnePut
<1>6. ReloadTypeOK'
    <2>1. requests' \subseteq RequestSet
        BY <1>4 DEF RequestsFit
    <2>2. disturbed' \in BOOLEAN
        BY <1>1
    <2> QED
        BY <1>1, <2>1, <2>2 DEF ReloadInv, ReloadTypeOK, RequestSet
<1>7. ProcessFits'
    <2>1. \A r \in requests' : r \in requests \/ r.at = "asked"
        BY <1>2, AskedIsNew, Zenon
    <2> QED
        BY <1>1, <2>1 DEF ReloadInv, ProcessFits, AfterStaging, HasTarget
<1>8. Undisturbed'
    <2> SUFFICES ASSUME ~disturbed' PROVE (Alone /\ FilesFollow /\ OverlayFollows /\ MihomoFollows)'
        BY DEF Undisturbed
    <2>1. requests = {} /\ puts = {}
        BY <1>1
    <2>2. \A r \in requests' : r = Request("stop", 0)
        BY <1>2, <2>1
    <2>3. Request("stop", 0).mine /\ Request("stop", 0).at = "asked"
        BY <1>3, RequestIs
    <2>4. \A r \in requests' : r.mine /\ r.at = "asked"
        BY <2>2, <2>3, Zenon
    <2> QED
        BY <1>1, <2>1, <2>4 DEF Alone, FilesFollow, OverlayFollows, MihomoFollows, Shown
<1> QED
    BY <1>5, <1>6, <1>7, <1>8 DEF ReloadInv

\* A step of the desktop that fails leaves the world alone.
LEMMA DesktopFailKeeps ==
    ASSUME ReloadInv, Fails(requests), task.at \notin {"register", "overlay", "spawn", "stop", "put"},
           UNCHANGED <<platform, newest, puts, registered, homes, child, mihomo, connections, stale,
                       disturbed>>
    PROVE  ReloadInv'
<1>1. Unawaited(requests) /\ RequestsFit(requests, newest)
    BY NobodyAwaited DEF ReloadInv, Asked
<1>2. /\ task' \in [op : {"none", "start", "apply", "stop"}, file : 0..MaxGenerations,
                    at : {"stop", "idle"}]
      /\ outcome' \in {"none", "running", "unapplied", "failed", "stopped"}
      /\ task'.at = "idle" => outcome' # "running"
      /\ RequestsFit(requests', newest) /\ OneAwaited(requests', task'.at, newest)
      /\ \A r \in requests' : r \in requests \/ r.at = "asked"
      /\ (\A r \in requests : r.mine) => \A r \in requests' : r.mine /\ r.at = "asked"
      /\ \A p \in puts : ~p.mine
    BY <1>1, FailFits DEF ReloadInv, Asked
<1>3. Asked'
    BY <1>2 DEF Asked, OnePut
<1>4. ReloadTypeOK'
    <2>1. requests' \subseteq RequestSet
        BY <1>2 DEF RequestsFit
    <2> QED
        BY <1>2, <2>1 DEF ReloadInv, ReloadTypeOK, RequestSet
<1>5. ProcessFits'
    BY <1>2 DEF ReloadInv, ProcessFits, AfterStaging, HasTarget
<1>6. Undisturbed'
    <2> SUFFICES ASSUME ~disturbed' PROVE (Alone /\ FilesFollow /\ OverlayFollows /\ MihomoFollows)'
        BY DEF Undisturbed
    <2>1. Alone
        BY DEF ReloadInv, Undisturbed
    <2>2. Alone'
        BY <1>2, <2>1 DEF Alone
    <2> QED
        BY <1>2, <2>1, <2>2 DEF Alone, FilesFollow, OverlayFollows, MihomoFollows, Shown
<1> QED
    BY <1>3, <1>4, <1>5, <1>6 DEF ReloadInv

LEMMA PrepareKeeps ==
    ASSUME ReloadInv, PrepareAndValidate
    PROVE  ReloadInv'
<1>1. /\ task.at = "prepare"
      /\ UNCHANGED <<platform, puts, registered, homes, child, mihomo, connections, stale, disturbed>>
    BY DEF PrepareAndValidate, world, live
<1>2. CASE Fails(requests) /\ UNCHANGED newest
    BY <1>1, <1>2, DesktopFailKeeps
<1>3. CASE /\ Stages /\ Moves("register") /\ requests' = requests \union {Request("register", newest')}
    <2>1. newest' = newest + 1 /\ newest \in 0..MaxGenerations /\ newest' \in 0..MaxGenerations
          /\ newest' # 0
        BY <1>3, ReloadAssumption DEF Stages, ReloadInv, ReloadTypeOK
    <2>2. task' = [task EXCEPT !.at = "register"] /\ UNCHANGED outcome
        BY <1>3 DEF Moves
    <2>3. task' \in [op : {"none", "start", "apply", "stop"}, file : 0..MaxGenerations,
                     at : {"register"}]
        BY <2>2 DEF ReloadInv, ReloadTypeOK
    <2>4. Unawaited(requests)
        BY <1>1, NobodyAwaited DEF ReloadInv
    <2>5. RequestsFit(requests, newest')
        BY <2>1, ReloadAssumption DEF ReloadInv, Asked, RequestsFit, Generations
    <2>6. RequestsFit(requests', newest') /\ OneAwaited(requests', "register", newest')
        BY <1>3, <2>1, <2>4, <2>5, AskFits
    <2>7. Asked'
        BY <1>1, <2>3, <2>6 DEF ReloadInv, Asked, OnePut
    <2>8. ReloadTypeOK'
        <3>1. requests' \subseteq RequestSet
            BY <2>6 DEF RequestsFit
        <3> QED
            BY <1>1, <2>1, <2>2, <2>3, <3>1 DEF ReloadInv, ReloadTypeOK, RequestSet
    <2>9. ProcessFits' /\ child < newest'
        <3>1. \A r \in requests' : r \in requests \/ r.at = "asked"
            BY <1>3, AskedIsNew, Zenon
        <3> QED
            BY <1>1, <2>1, <2>3, <3>1, ReloadAssumption DEF ReloadInv, ReloadTypeOK, ProcessFits, HasTarget
    <2>10. Undisturbed'
        <3> SUFFICES ASSUME ~disturbed' PROVE (Alone /\ FilesFollow /\ OverlayFollows /\ MihomoFollows)'
            BY DEF Undisturbed
        <3>1. Alone
            BY <1>1 DEF ReloadInv, Undisturbed
        <3>2. requests = {} /\ puts = {}
            BY <1>1, <2>4, <3>1 DEF Alone, Unawaited, ReloadInv, Asked, OnePut
        <3>3. \A r \in requests' : r = Request("register", newest')
            BY <1>3, <3>2
        <3>4. Request("register", newest').mine /\ Request("register", newest').at = "asked"
            BY <2>1, RequestIs
        <3>5. \A r \in requests' : r.mine /\ r.at = "asked"
            BY <3>3, <3>4, Zenon
        <3> QED
            BY <1>1, <2>3, <2>9, <3>2, <3>5 DEF Alone, FilesFollow, OverlayFollows, MihomoFollows, Shown
    <2> QED
        BY <2>7, <2>8, <2>9, <2>10 DEF ReloadInv
<1> QED
    BY <1>2, <1>3 DEF PrepareAndValidate
LEMMA SendKeeps ==
    ASSUME ReloadInv, SendPut
    PROVE  ReloadInv'
<1> DEFINE body == [config |-> Body, to |-> mihomo.home, mine |-> TRUE]
<1>1. /\ task.at = "send" /\ task' = [task EXCEPT !.at = "put"] /\ outcome' = outcome
      /\ puts' = puts \union {body}
      /\ UNCHANGED <<platform, newest, requests, registered, homes, child, mihomo, connections, stale,
                     disturbed>>
    BY DEF SendPut, Moves, world, live
<1>2. Body \in 0..MaxGenerations /\ (homes[task.file] = Prepared => Body = newest)
    BY <1>1 DEF ReloadInv, ReloadTypeOK, ProcessFits, Body, Files, Prepared
<1>3. /\ body \in [config : 0..MaxGenerations, to : 0..MaxGenerations, mine : BOOLEAN]
      /\ body.config = Body /\ body.mine = TRUE
    BY <1>2 DEF ReloadInv, ReloadTypeOK
<1> HIDE DEF body
<1>4. task' \in [op : {"none", "start", "apply", "stop"}, file : 0..MaxGenerations, at : {"put"}]
      /\ task'.file = task.file
    BY <1>1 DEF ReloadInv, ReloadTypeOK
<1>5. Unawaited(requests)
    BY <1>1, NobodyAwaited DEF ReloadInv
<1>6. \A p \in puts : ~p.mine
    BY <1>1 DEF ReloadInv, Asked, OnePut
<1>7. Asked'
    <2>1. OneAwaited(requests, "put", newest)
        BY <1>5 DEF OneAwaited, Unawaited
    <2>2. OnePut(puts', "put")
        BY <1>1, <1>3, <1>6 DEF OnePut
    <2> QED
        BY <1>1, <1>4, <2>1, <2>2 DEF ReloadInv, Asked
<1>8. ReloadTypeOK'
    BY <1>1, <1>3, <1>4 DEF ReloadInv, ReloadTypeOK
<1>9. ProcessFits'
    BY <1>1, <1>4 DEF ReloadInv, ProcessFits, AfterStaging
<1>10. Undisturbed'
    <2> SUFFICES ASSUME ~disturbed' PROVE (Alone /\ FilesFollow /\ OverlayFollows /\ MihomoFollows)'
        BY DEF Undisturbed
    <2>1. Alone /\ FilesFollow /\ OverlayFollows
        BY <1>1 DEF ReloadInv, Undisturbed
    <2>2. homes[task.file] = Prepared /\ (mihomo = NoMihomo \/ mihomo.home = task.file)
        BY <1>1, <2>1 DEF FilesFollow
    <2>3. Alone'
        BY <1>1, <1>2, <1>3, <2>1, <2>2 DEF Alone
    <2>4. FilesFollow'
        BY <1>1, <1>4, <2>2 DEF FilesFollow, Prepared
    <2> QED
        BY <1>1, <1>4, <2>1, <2>3, <2>4 DEF OverlayFollows, MihomoFollows, Shown
<1> QED
    BY <1>7, <1>8, <1>9, <1>10 DEF ReloadInv

\* A step between two places where nothing is awaited, with an applied configuration.
LEMMA MoveKeeps ==
    ASSUME ReloadInv, NEW from \in {"match", "close"}, task.at = from,
           NEW to \in {"close", "ready"}, task' = [task EXCEPT !.at = to],
           connections' \in SUBSET connections, stale' \subseteq connections',
           to = "ready" => stale' = connections',
           UNCHANGED <<platform, newest, requests, puts, registered, homes, child, mihomo,
                       outcome, disturbed>>
    PROVE  ReloadInv'
<1>1. task' \in [op : {"none", "start", "apply", "stop"}, file : 0..MaxGenerations,
                 at : {"close", "ready"}] /\ task'.at = to
    BY DEF ReloadInv, ReloadTypeOK
<1>2. Unawaited(requests)
    BY NobodyAwaited DEF ReloadInv
<1>3. Asked'
    BY <1>1, <1>2 DEF ReloadInv, Asked, OneAwaited, Unawaited, OnePut
<1>4. ReloadTypeOK'
    BY <1>1 DEF ReloadInv, ReloadTypeOK
<1>5. ProcessFits'
    BY <1>1 DEF ReloadInv, ProcessFits, AfterStaging
<1>6. Undisturbed'
    BY <1>1 DEF ReloadInv, Undisturbed, Alone, FilesFollow, OverlayFollows, MihomoFollows, Shown
<1> QED
    BY <1>3, <1>4, <1>5, <1>6 DEF ReloadInv

LEMMA MatchKeeps ==
    ASSUME ReloadInv, CheckLiveMatch
    PROVE  ReloadInv'
<1>1. task.at = "match"
      /\ UNCHANGED <<platform, newest, puts, registered, homes, child, mihomo, connections, stale,
                     disturbed>>
    BY DEF CheckLiveMatch, world, live
<1>2. CASE Moves("close") /\ UNCHANGED requests
    <2>1. stale \subseteq connections
        BY DEF ReloadInv, ReloadTypeOK
    <2> QED
        BY <1>1, <1>2, <2>1, MoveKeeps DEF Moves
<1>3. CASE Fails(requests)
    BY <1>1, <1>3, DesktopFailKeeps
<1> QED
    BY <1>2, <1>3 DEF CheckLiveMatch

LEMMA CloseKeeps ==
    ASSUME ReloadInv, CloseConnections
    PROVE  ReloadInv'
BY MoveKeeps DEF CloseConnections, Moves

LEMMA ReadyKeeps ==
    ASSUME ReloadInv, CheckReady
    PROVE  ReloadInv'
<1>1. task.at = "ready"
      /\ UNCHANGED <<platform, newest, puts, registered, homes, child, mihomo, connections, stale,
                     disturbed>>
    BY DEF CheckReady, world, live
<1>2. CASE Fails(requests)
    BY <1>1, <1>2, DesktopFailKeeps
<1>3. CASE Ends("running") /\ UNCHANGED requests
    <2>1. task' = IdleTask /\ outcome' = "running" /\ task'.at = "idle"
          /\ task' \in [op : {"none"}, file : 0..MaxGenerations, at : {"idle"}]
        BY <1>3, ReloadAssumption DEF Ends, IdleTask, NoGeneration
    <2>2. Unawaited(requests)
        BY <1>1, NobodyAwaited DEF ReloadInv
    <2>3. Asked'
        BY <1>1, <1>3, <2>1, <2>2 DEF ReloadInv, Asked, OneAwaited, Unawaited, OnePut
    <2>4. ReloadTypeOK'
        BY <1>1, <1>3, <2>1 DEF ReloadInv, ReloadTypeOK
    <2>5. ProcessFits'
        BY <1>1, <1>3, <2>1 DEF ReloadInv, ProcessFits, AfterStaging
    <2>6. Undisturbed'
        BY <1>1, <1>3, <2>1
           DEF ReloadInv, Undisturbed, Alone, FilesFollow, OverlayFollows, MihomoFollows, Shown
    <2> QED
        BY <2>3, <2>4, <2>5, <2>6 DEF ReloadInv
<1> QED
    BY <1>2, <1>3 DEF CheckReady
-----------------------------------------------------------------------------
(* The helper's steps: what they do to the files and to Mihomo, and what     *)
(* becomes of the request.                                                  *)

WorldFits ==
    /\ registered \subseteq Generations /\ homes \in [Generations -> Files]
    /\ child \in 0..MaxGenerations /\ child <= newest
    /\ mihomo \in [home : 0..MaxGenerations, config : 0..MaxGenerations, rules : 0..MaxGenerations]
    /\ mihomo # NoMihomo => mihomo.home \in Generations /\ mihomo.config \in Generations
    /\ connections \subseteq Generations /\ stale \subseteq connections

LEMMA Fitting == ReloadInv => WorldFits
BY DEF ReloadInv, ReloadTypeOK, ProcessFits, WorldFits

LEMMA Assembled ==
    ASSUME ReloadInv, WorldFits', UNCHANGED <<platform, newest, puts, disturbed>>,
           RequestsFit(requests', newest), OneAwaited(requests', task'.at, newest),
           task' \in [op : {"none", "start", "apply", "stop"}, file : 0..MaxGenerations,
                at : {"idle", "prepare", "register", "overlay", "spawn", "send", "put", "match",
                      "close", "ready", "stop"}],
           outcome' \in {"none", "running", "unapplied", "failed", "stopped"},
           OnePut(puts, task'.at), Undisturbed', HasTarget(requests', child'),
           task'.at \in AfterStaging => newest # 0,
           task'.at \in {"send", "put"} => task'.file \in Generations
    PROVE  ReloadInv'
<1>1. requests' \subseteq RequestSet
    BY DEF RequestsFit
<1>2. ReloadTypeOK'
    BY <1>1 DEF ReloadInv, ReloadTypeOK, RequestSet, WorldFits
<1>3. Asked' /\ ProcessFits'
    BY DEF Asked, ProcessFits, WorldFits
<1> QED
    BY <1>2, <1>3 DEF ReloadInv

\* An undisturbed operation has one request or one put, and waits for it.
LEMMA Single ==
    ASSUME ReloadInv, ~disturbed, NEW r \in requests
    PROVE  /\ r.mine /\ r.kind = task.at /\ (r.kind # "stop" => r.of = newest)
           /\ Others(r) = {} /\ puts = {}
<1>1. r.mine /\ (\A q \in requests : q.mine) /\ \A p \in puts : p.mine
    BY DEF ReloadInv, Undisturbed, Alone
<1>2. r.kind = task.at /\ (r.kind # "stop" => r.of = newest)
    BY <1>1 DEF ReloadInv, Asked, OneAwaited
<1>3. Others(r) = {}
    BY <1>1 DEF ReloadInv, Asked, OneAwaited, Others
<1>4. r.kind # "put"
    BY DEF ReloadInv, Asked, RequestsFit, RequestSet
<1>5. puts = {}
    BY <1>1, <1>2, <1>4 DEF ReloadInv, Asked, OnePut
<1> QED
    BY <1>1, <1>2, <1>3, <1>5

\* Nobody hears of it: the operation that asked has given up.
LEMMA UnheardKeeps ==
    ASSUME ReloadInv, NEW r \in requests, Unheard(r), WorldFits', HasTarget(Others(r), child'),
           UNCHANGED <<platform, newest, puts, disturbed>>
    PROVE  ReloadInv'
<1>1. ~r.mine /\ requests' = Others(r) /\ task' = task /\ outcome' = outcome
    BY DEF Unheard
<1>2. disturbed /\ Undisturbed'
    BY <1>1 DEF ReloadInv, Undisturbed, Alone
<1>3. RequestsFit(requests', newest) /\ OneAwaited(requests', task.at, newest)
    BY <1>1, OthersFit DEF ReloadInv
<1> QED
    BY <1>1, <1>2, <1>3, Assembled DEF ReloadInv, ReloadTypeOK, Asked, ProcessFits

\* A refusal ends the operation, or nobody hears of it.
LEMMA RefusedKeeps ==
    ASSUME ReloadInv, NEW r \in requests, Refused(r), WorldFits', HasTarget(Others(r), child'),
           UNCHANGED <<platform, newest, puts, disturbed>>
    PROVE  ReloadInv'
<1>1. CASE ~r.mine
    BY <1>1, UnheardKeeps DEF Refused, Unheard
<1>2. CASE r.mine
    <2>1. Fails(Others(r)) /\ RequestsFit(Others(r), newest) /\ Unawaited(Others(r))
        BY <1>2, OthersFit DEF Refused, ReloadInv
    <2>2. task.at # "put"
        BY <1>2 DEF ReloadInv, Asked, OneAwaited, RequestsFit, RequestSet
    <2>3. /\ task' \in [op : {"none", "start", "apply", "stop"}, file : 0..MaxGenerations,
                        at : {"stop", "idle"}]
          /\ outcome' \in {"none", "running", "unapplied", "failed", "stopped"}
          /\ task'.at = "idle" => outcome' # "running"
          /\ RequestsFit(requests', newest) /\ OneAwaited(requests', task'.at, newest)
          /\ \A q \in requests' : q \in Others(r) \/ q.at = "asked"
          /\ (\A q \in Others(r) : q.mine) => \A q \in requests' : q.mine /\ q.at = "asked"
          /\ \A p \in puts : ~p.mine
        BY <2>1, <2>2, FailFits DEF ReloadInv, Asked
    <2>4. OnePut(puts, task'.at)
        BY <2>3 DEF OnePut
    <2>5. Undisturbed'
        <3> SUFFICES ASSUME ~disturbed' PROVE (Alone /\ FilesFollow /\ OverlayFollows /\ MihomoFollows)'
            BY DEF Undisturbed
        <3>1. Others(r) = {} /\ puts = {}
            BY Single
        <3>2. \A q \in requests' : q.mine /\ q.at = "asked"
            BY <2>3, <3>1
        <3> QED
            BY <2>3, <3>1, <3>2 DEF Alone, FilesFollow, OverlayFollows, MihomoFollows, Shown
    <2> QED
        BY <2>3, <2>4, <2>5, Assembled DEF AfterStaging, HasTarget
<1> QED
    BY <1>1, <1>2

\* The answer is followed by the next request.
LEMMA AsksKeeps ==
    ASSUME ReloadInv, NEW r \in requests, r.mine, r.kind # "stop", WorldFits',
           HasTarget(Others(r), child'),
           NEW kind \in {"overlay", "spawn"}, Asks(r, kind), Undisturbed',
           UNCHANGED <<platform, newest, puts, disturbed>>
    PROVE  ReloadInv'
<1>1. task' = [task EXCEPT !.at = kind] /\ outcome' = outcome
      /\ requests' = Others(r) \union {Request(kind, newest)}
    BY DEF Asks, Moves
<1>2. task' \in [op : {"none", "start", "apply", "stop"}, file : 0..MaxGenerations,
                 at : {"overlay", "spawn"}] /\ task'.at = kind
    BY <1>1 DEF ReloadInv, ReloadTypeOK
<1>3. RequestsFit(Others(r), newest) /\ Unawaited(Others(r))
    BY OthersFit DEF ReloadInv
<1>4. newest \in 0..MaxGenerations /\ newest # 0 /\ task.at # "put"
    BY ReloadAssumption
       DEF ReloadInv, ReloadTypeOK, Asked, OneAwaited, RequestsFit, RequestSet, Generations
<1>5. RequestsFit(requests', newest) /\ OneAwaited(requests', kind, newest)
    BY <1>1, <1>3, <1>4, AskFits
<1>6. OnePut(puts, task'.at)
    BY <1>4 DEF ReloadInv, Asked, OnePut
<1>7. outcome' \in {"none", "running", "unapplied", "failed", "stopped"}
    BY <1>1 DEF ReloadInv, ReloadTypeOK
<1>8. HasTarget(requests', child')
    <2>1. \A q \in requests' : q \in Others(r) \/ q.at = "asked"
        BY <1>1, AskedIsNew, Zenon
    <2> QED
        BY <2>1 DEF HasTarget
<1> QED
    BY <1>2, <1>4, <1>5, <1>6, <1>7, <1>8, Assembled

\* The helper goes on with a request.
LEMMA AdvanceKeeps ==
    ASSUME ReloadInv, NEW r \in requests, NEW at \in {"rules", "config", "spawning"}, Advances(r, at),
           r.kind = (IF at = "spawning" THEN "spawn" ELSE "overlay"), WorldFits',
           r.at # "asked" \/ ~Locked, HasTarget(Others(r), child'), at # "spawning" => child' # NoGeneration,
           UNCHANGED <<platform, newest, puts, disturbed>>,
           ~disturbed /\ requests' = {[r EXCEPT !.at = at]} /\ r.of = newest
             /\ task.at = r.kind /\ (r.mine = TRUE)
             => (FilesFollow /\ OverlayFollows)'
    PROVE  ReloadInv'
<1>1. requests' = Others(r) \union {[r EXCEPT !.at = at]} /\ task' = task /\ outcome' = outcome
    BY DEF Advances
<1>2. r \in RequestSet /\ r.of \in Generations /\ r.of <= newest
    BY DEF ReloadInv, Asked, RequestsFit
<1>3. PICK q \in RequestSet :
        q = [r EXCEPT !.at = at] /\ q.kind = r.kind /\ q.of = r.of /\ q.at = at /\ (q.mine <=> r.mine)
    <2>1. [r EXCEPT !.at = at] \in RequestSet
        BY <1>2 DEF RequestSet
    <2>2. /\ [r EXCEPT !.at = at].kind = r.kind /\ [r EXCEPT !.at = at].of = r.of
          /\ [r EXCEPT !.at = at].at = at
        BY <1>2 DEF RequestSet
    <2>3. [r EXCEPT !.at = at].mine = r.mine
        BY <1>2 DEF RequestSet
    <2> QED
        BY <2>1, <2>2, <2>3, Zenon
<1>4. RequestsFit(Others(r), newest) /\ OneAwaited(Others(r), task.at, newest)
      /\ (r.mine => Unawaited(Others(r)))
    BY OthersFit DEF ReloadInv
<1>5. RequestsFit(requests', newest)
    <2>1. \A p \in Others(r) : p.at = "asked"
        BY DEF Locked, Others, ReloadInv, Asked, RequestsFit
    <2> QED
        BY <1>1, <1>2, <1>3, <1>4, <2>1 DEF RequestsFit
<1>6. OneAwaited(requests', task'.at, newest)
    <2>1. r.mine => r.kind = task.at /\ (r.kind # "stop" => r.of = newest)
        BY DEF ReloadInv, Asked, OneAwaited
    <2> QED
        BY <1>1, <1>3, <1>4, <2>1 DEF OneAwaited, Unawaited
<1>7. Undisturbed'
    <2> SUFFICES ASSUME ~disturbed' PROVE (Alone /\ FilesFollow /\ OverlayFollows /\ MihomoFollows)'
        BY DEF Undisturbed
    <2>1. r.mine /\ Others(r) = {} /\ puts = {} /\ r.kind = task.at /\ r.of = newest
        BY Single
    <2>2. Alone'
        BY <1>1, <1>3, <2>1 DEF Alone
    <2>3. r.mine = TRUE
        BY <1>2, <2>1 DEF RequestSet
    <2>4. (FilesFollow /\ OverlayFollows)'
        BY <1>1, <2>1, <2>3
    <2>5. MihomoFollows'
        BY <1>1, <2>1 DEF MihomoFollows, Shown
    <2> QED
        BY <2>2, <2>4, <2>5
<1>8. HasTarget(requests', child')
    BY <1>1, <1>3 DEF HasTarget
<1> QED
    BY <1>1, <1>5, <1>6, <1>7, <1>8, Assembled DEF ReloadInv, ReloadTypeOK, Asked, ProcessFits
LEMMA RegisterKeeps ==
    ASSUME ReloadInv, NEW r \in requests, RegisterGeneration(r)
    PROVE  ReloadInv'
<1>1. r.kind = "register" /\ r.of \in Generations /\ r.of <= newest
      /\ UNCHANGED <<platform, newest, puts, disturbed, child, mihomo, connections, stale>>
    BY DEF RegisterGeneration, HelperKeeps, live, ReloadInv, Asked, RequestsFit
<1>2. WorldFits /\ HasTarget(Others(r), child')
    BY <1>1, Fitting DEF ReloadInv, ProcessFits, HasTarget, Others
<1>3. CASE Refused(r) /\ UNCHANGED <<homes, registered>>
    <2>1. WorldFits'
        BY <1>1, <1>2, <1>3 DEF WorldFits
    <2> QED
        BY <1>1, <1>2, <1>3, <2>1, RefusedKeeps
<1>4. CASE /\ homes' = [homes EXCEPT ![r.of] = [config |-> r.of, rules |-> r.of]]
           /\ registered' = registered \union {r.of}
    <2>1. homes' \in [Generations -> Files] /\ homes'[r.of] = [config |-> r.of, rules |-> r.of]
        BY <1>1, <1>2, <1>4 DEF WorldFits, Files, Generations
    <2>2. WorldFits'
        BY <1>1, <1>2, <1>4, <2>1 DEF WorldFits
    <2>3. CASE Unheard(r)
        BY <1>1, <1>2, <2>2, <2>3, UnheardKeeps
    <2>4. ASSUME NEW kind \in {"overlay", "spawn"}, r.mine, Asks(r, kind) PROVE ReloadInv'
        <3>1. task' = [task EXCEPT !.at = kind] /\ task'.at = kind
              /\ requests' = Others(r) \union {Request(kind, newest)}
            BY <2>4 DEF Asks, Moves, ReloadInv, ReloadTypeOK
        <3>2. Undisturbed'
            <4> SUFFICES ASSUME ~disturbed'
                         PROVE  (Alone /\ FilesFollow /\ OverlayFollows /\ MihomoFollows)'
                BY DEF Undisturbed
            <4>1. Others(r) = {} /\ puts = {} /\ task.at = "register" /\ r.of = newest
                BY <1>1, Single
            <4>2. \A q \in requests' : q = Request(kind, newest)
                BY <3>1, <4>1
            <4>3. Request(kind, newest).mine /\ Request(kind, newest).at = "asked"
                BY NewRequest
            <4>4. \A q \in requests' : q.mine /\ q.at = "asked"
                BY <4>2, <4>3, Zenon
            <4>5. child < newest
                BY <1>1, <4>1 DEF ReloadInv, Undisturbed, FilesFollow
            <4>6. FilesFollow'
                BY <1>1, <2>1, <3>1, <4>1, <4>5 DEF FilesFollow, Prepared
            <4> QED
                BY <1>1, <3>1, <4>1, <4>4, <4>6 DEF Alone, OverlayFollows, MihomoFollows, Shown
        <3> QED
            BY <1>1, <1>2, <2>2, <2>4, <3>2, AsksKeeps
    <2> QED
        BY <1>1, <1>2, <1>3, <1>4, <2>2, <2>3, <2>4, RefusedKeeps DEF RegisterGeneration
<1> QED
    BY <1>3, <1>4 DEF RegisterGeneration

LEMMA FindsNothingKeeps ==
    ASSUME ReloadInv, NEW r \in requests, OverlayFindsNothing(r)
    PROVE  ReloadInv'
<1>1. r.kind = "overlay" /\ child' = NoGeneration
      /\ UNCHANGED <<platform, newest, puts, disturbed, registered, homes, mihomo, connections, stale>>
    BY DEF OverlayFindsNothing, HelperKeeps, live
<1>2. WorldFits' /\ HasTarget(Others(r), child')
    <2>1. \A q \in Others(r) : q.at = "asked"
        BY DEF OverlayFindsNothing, Locked, Others
    <2> QED
        BY <1>1, <2>1, Fitting, ReloadAssumption
           DEF WorldFits, HasTarget, NoGeneration, ReloadInv, ReloadTypeOK
<1>3. CASE Unheard(r)
    BY <1>1, <1>2, <1>3, UnheardKeeps
<1>4. CASE r.mine /\ Asks(r, "spawn")
    <2>1. task' = [task EXCEPT !.at = "spawn"] /\ task'.at = "spawn"
          /\ requests' = Others(r) \union {Request("spawn", newest)}
        BY <1>4 DEF Asks, Moves, ReloadInv, ReloadTypeOK
    <2>2. Undisturbed'
        <3> SUFFICES ASSUME ~disturbed'
                     PROVE  (Alone /\ FilesFollow /\ OverlayFollows /\ MihomoFollows)'
            BY DEF Undisturbed
        <3>1. Others(r) = {} /\ puts = {} /\ task.at = "overlay" /\ r.of = newest
            BY <1>1, Single
        <3>2. \A q \in requests' : q = Request("spawn", newest)
            BY <2>1, <3>1
        <3>3. Request("spawn", newest).mine /\ Request("spawn", newest).at = "asked"
            BY RequestIs DEF ReloadInv, ReloadTypeOK
        <3>4. \A q \in requests' : q.mine /\ q.at = "asked"
            BY <3>2, <3>3, Zenon
        <3>5. homes[newest] = Prepared
            BY <1>1, <3>1 DEF ReloadInv, Undisturbed, FilesFollow
        <3> QED
            BY <1>1, <2>1, <3>1, <3>4, <3>5
               DEF Alone, FilesFollow, Prepared, OverlayFollows, MihomoFollows, Shown
    <2> QED
        BY <1>1, <1>2, <1>4, <2>2, AsksKeeps
<1> QED
    BY <1>3, <1>4 DEF OverlayFindsNothing

LEMMA OverlayRulesKeeps ==
    ASSUME ReloadInv, NEW r \in requests, OverlayRules(r)
    PROVE  ReloadInv'
<1>1. r.kind = "overlay" /\ Advances(r, "rules") /\ Alive
      /\ homes' = [homes EXCEPT ![child].rules = NoGeneration]
      /\ UNCHANGED <<platform, newest, puts, disturbed, registered, child, mihomo, connections, stale>>
    BY DEF OverlayRules, HelperKeeps, live
<1>2. child \in Generations /\ mihomo.home = child
    BY <1>1 DEF Alive, ReloadInv, ReloadTypeOK, NoGeneration, Generations
<1>3. WorldFits
    BY Fitting
<1>4. homes' \in [Generations -> Files] /\ \A g \in Generations \ {child} : homes'[g] = homes[g]
    BY <1>1, <1>2, <1>3, ReloadAssumption DEF WorldFits, Files, NoGeneration
<1>5. WorldFits'
    BY <1>1, <1>3, <1>4 DEF WorldFits
<1>6. ASSUME ~disturbed, requests' = {[r EXCEPT !.at = "rules"]}, r.of = newest, task.at = r.kind
      PROVE  (FilesFollow /\ OverlayFollows)'
    <2>1. r \in RequestSet /\ newest \in Generations
        BY <1>1, <1>6 DEF ReloadInv, Asked, RequestsFit
    <2>2. \A q \in requests' : q.at = "rules"
        BY <1>6, <2>1 DEF RequestSet
    <2>3. child < newest /\ homes[newest] = Prepared
        BY <1>1, <1>6 DEF ReloadInv, Undisturbed, FilesFollow
    <2>4. homes'[newest] = Prepared
        BY <1>2, <1>4, <2>1, <2>3 DEF Generations
    <2>5. task' = task
        BY <1>1 DEF Advances
    <2> QED
        BY <1>1, <1>2, <1>6, <2>2, <2>3, <2>4, <2>5
           DEF FilesFollow, OverlayFollows, Prepared, NoGeneration, Generations
<1>7. ~Locked /\ HasTarget(Others(r), child') /\ child' # NoGeneration
    BY <1>1, <1>2 DEF OverlayRules, HasTarget, Generations, NoGeneration
<1> QED
    BY <1>1, <1>5, <1>6, <1>7, AdvanceKeeps

LEMMA OverlayConfigKeeps ==
    ASSUME ReloadInv, NEW r \in requests, OverlayConfig(r)
    PROVE  ReloadInv'
<1>1. r.at = "rules" /\ Advances(r, "config")
      /\ homes' = [homes EXCEPT ![child] = [config |-> NoGeneration, rules |-> r.of]]
      /\ UNCHANGED <<platform, newest, puts, disturbed, registered, child, mihomo, connections, stale>>
    BY DEF OverlayConfig, HelperKeeps, live
<1>2. r.kind = "overlay" /\ r \in RequestSet /\ r.of \in Generations
    BY <1>1 DEF ReloadInv, Asked, RequestsFit
<1>3. WorldFits
    BY Fitting
<1>4. /\ homes' \in [Generations -> Files]
      /\ \A g \in Generations \ {child} : homes'[g] = homes[g]
      /\ child \in Generations => homes'[child].rules = r.of
    <2>1. [config |-> NoGeneration, rules |-> r.of] \in Files
        BY <1>2, ReloadAssumption DEF Files, NoGeneration, Generations
    <2>2. homes' \in [Generations -> Files] /\ \A g \in Generations \ {child} : homes'[g] = homes[g]
        BY <1>1, <1>3, <2>1 DEF WorldFits
    <2>3. child \in Generations => homes'[child] = [config |-> NoGeneration, rules |-> r.of]
        BY <1>1, <1>3 DEF WorldFits
    <2> QED
        BY <2>2, <2>3
<1>5. WorldFits'
    BY <1>1, <1>3, <1>4 DEF WorldFits
<1>6. child # NoGeneration /\ HasTarget(Others(r), child')
    BY <1>1 DEF ReloadInv, ProcessFits, HasTarget, Others
<1>7. ASSUME ~disturbed, requests' = {[r EXCEPT !.at = "config"]}, r.of = newest, task.at = r.kind
      PROVE  (FilesFollow /\ OverlayFollows)'
    <2>1. \A q \in requests' : q.at = "config"
        BY <1>2, <1>7 DEF RequestSet
    <2>2. child < newest /\ homes[newest] = Prepared /\ child # NoGeneration
          /\ (mihomo = NoMihomo \/ mihomo.home = child)
        BY <1>1, <1>2, <1>6, <1>7 DEF ReloadInv, Undisturbed, FilesFollow, OverlayFollows
    <2>3. newest \in Generations /\ child \in Generations
        BY <1>2, <1>3, <1>7, <2>2 DEF WorldFits, Generations, NoGeneration
    <2>4. homes'[newest] = Prepared /\ homes'[child].rules = newest
        BY <1>4, <1>7, <2>2, <2>3 DEF Generations
    <2>5. task' = task
        BY <1>1 DEF Advances
    <2> QED
        BY <1>1, <1>2, <1>7, <2>1, <2>2, <2>4, <2>5 DEF FilesFollow, OverlayFollows, Prepared
<1> QED
    BY <1>1, <1>2, <1>5, <1>6, <1>7, AdvanceKeeps
LEMMA OverlayEndsKeeps ==
    ASSUME ReloadInv, NEW r \in requests, OverlayEnds(r)
    PROVE  ReloadInv'
<1>1. r.at = "config" /\ homes' = [homes EXCEPT ![child].config = r.of]
      /\ UNCHANGED <<platform, newest, puts, disturbed, registered, child, mihomo, connections, stale>>
    BY DEF OverlayEnds, HelperKeeps, live
<1>2. r.kind = "overlay" /\ r \in RequestSet /\ r.of \in Generations
    BY <1>1 DEF ReloadInv, Asked, RequestsFit
<1>3. WorldFits
    BY Fitting
<1>4. child \in Generations /\ HasTarget(Others(r), child')
    BY <1>1, <1>3 DEF WorldFits, ReloadInv, ProcessFits, HasTarget, Others, Generations, NoGeneration
<1>5. homes' \in [Generations -> Files]
      /\ homes'[child] = [config |-> r.of, rules |-> homes[child].rules]
    <2>1. homes[child] \in Files /\ [config |-> r.of, rules |-> homes[child].rules] \in Files
          /\ [homes[child] EXCEPT !.config = r.of] = [config |-> r.of, rules |-> homes[child].rules]
        BY <1>2, <1>3, <1>4 DEF WorldFits, Files, Generations
    <2>2. homes' = [homes EXCEPT ![child] = [homes[child] EXCEPT !.config = r.of]]
        BY <1>1
    <2> QED
        BY <1>3, <1>4, <2>1, <2>2 DEF WorldFits
<1>6. WorldFits'
    BY <1>1, <1>3, <1>5 DEF WorldFits
<1>7. CASE Unheard(r)
    BY <1>1, <1>4, <1>6, <1>7, UnheardKeeps
<1>8. CASE /\ r.mine /\ requests' = Others(r) /\ UNCHANGED outcome
           /\ task' = [task EXCEPT !.at = "send", !.file = child]
    <2>1. task.at = "overlay" /\ newest # 0
        BY <1>2, <1>8
           DEF ReloadInv, ReloadTypeOK, Asked, OneAwaited, RequestsFit, ProcessFits, AfterStaging
    <2>2. /\ task' \in [op : {"none", "start", "apply", "stop"}, file : 0..MaxGenerations, at : {"send"}]
          /\ task'.file = child /\ task'.at = "send"
        BY <1>3, <1>8 DEF ReloadInv, ReloadTypeOK, WorldFits
    <2>3. RequestsFit(requests', newest) /\ Unawaited(requests')
        BY <1>8, OthersFit DEF ReloadInv
    <2>4. OneAwaited(requests', task'.at, newest)
        BY <2>3 DEF OneAwaited, Unawaited
    <2>5. OnePut(puts, task'.at)
        BY <2>1 DEF ReloadInv, Asked, OnePut
    <2>6. Undisturbed'
        <3> SUFFICES ASSUME ~disturbed'
                     PROVE  (Alone /\ FilesFollow /\ OverlayFollows /\ MihomoFollows)'
            BY DEF Undisturbed
        <3>1. Others(r) = {} /\ puts = {} /\ r.of = newest
            BY <1>1, <1>2, Single
        <3>2. (mihomo = NoMihomo \/ mihomo.home = child) /\ homes[child].rules = newest
            BY <1>1 DEF ReloadInv, Undisturbed, OverlayFollows
        <3>3. homes'[child] = [config |-> newest, rules |-> newest]
            BY <1>5, <3>1, <3>2
        <3>4. FilesFollow'
            BY <1>1, <2>2, <3>2, <3>3 DEF FilesFollow, Prepared
        <3> QED
            BY <1>1, <1>8, <2>2, <3>1, <3>4 DEF Alone, OverlayFollows, MihomoFollows, Shown
    <2> QED
        BY <1>1, <1>4, <1>6, <1>8, <2>1, <2>2, <2>3, <2>4, <2>5, <2>6, Assembled
           DEF ReloadInv, ReloadTypeOK
<1> QED
    BY <1>1, <1>7, <1>8 DEF OverlayEnds

LEMMA OverlayFailsKeeps ==
    ASSUME ReloadInv, NEW r \in requests, OverlayFails(r)
    PROVE  ReloadInv'
<1>1. Refused(r) /\ UNCHANGED <<platform, newest, puts, disturbed, registered, homes, child, mihomo,
                               connections, stale>>
    BY DEF OverlayFails, HelperKeeps, world, live
<1>2. WorldFits' /\ HasTarget(Others(r), child')
    BY <1>1, Fitting DEF WorldFits, ReloadInv, ProcessFits, HasTarget, Others
<1> QED
    BY <1>1, <1>2, RefusedKeeps

\* A Mihomo that is gone leaves no connection.
LEMMA EndedFits ==
    ASSUME ReloadInv, Ended \/ UNCHANGED live, registered' \in SUBSET Generations,
           child' \in {child, NoGeneration}, UNCHANGED <<newest, homes>>
    PROVE  WorldFits'
<1>1. NoMihomo \in [home : 0..MaxGenerations, config : 0..MaxGenerations, rules : 0..MaxGenerations]
    BY ReloadAssumption DEF NoMihomo
<1>2. NoGeneration \in 0..MaxGenerations /\ newest \in 0..MaxGenerations
    BY ReloadAssumption DEF NoGeneration, ReloadInv, ReloadTypeOK
<1> QED
    BY <1>1, <1>2, Fitting DEF WorldFits, Ended, live, NoGeneration

LEMMA SpawnStopsKeeps ==
    ASSUME ReloadInv, NEW r \in requests, SpawnStopsChild(r)
    PROVE  ReloadInv'
<1>1. r.kind = "spawn" /\ ~Locked /\ child' = NoGeneration /\ (Ended \/ UNCHANGED live)
      /\ Advances(r, "spawning") /\ UNCHANGED <<platform, newest, puts, disturbed, registered, homes>>
    BY DEF SpawnStopsChild, HelperKeeps
<1>2. WorldFits'
    BY <1>1, EndedFits DEF ReloadInv, ReloadTypeOK
<1>3. HasTarget(Others(r), child')
    BY <1>1 DEF HasTarget, Locked, Others
<1>4. ASSUME ~disturbed, requests' = {[r EXCEPT !.at = "spawning"]}, r.of = newest, task.at = r.kind
      PROVE  (FilesFollow /\ OverlayFollows)'
    <2>1. r \in RequestSet
        BY DEF ReloadInv, Asked, RequestsFit
    <2>2. \A q \in requests' : q.at = "spawning"
        BY <1>4, <2>1 DEF RequestSet
    <2>3. homes[newest] = Prepared
        BY <1>1, <1>4 DEF ReloadInv, Undisturbed, FilesFollow
    <2>4. task' = task
        BY <1>1 DEF Advances
    <2> QED
        BY <1>1, <1>4, <2>2, <2>3, <2>4 DEF FilesFollow, OverlayFollows, Prepared
<1> QED
    BY <1>1, <1>2, <1>3, <1>4, AdvanceKeeps
LEMMA SpawnKeeps ==
    ASSUME ReloadInv, NEW r \in requests, SpawnMihomo(r)
    PROVE  ReloadInv'
<1>1. /\ r.at = "spawning" /\ homes[r.of].config = r.of /\ child' = r.of
      /\ mihomo' = [home |-> r.of, config |-> r.of, rules |-> homes[r.of].rules]
      /\ connections' = {} /\ stale' = {}
      /\ UNCHANGED <<platform, newest, puts, disturbed, registered, homes>>
    BY DEF SpawnMihomo, HelperKeeps
<1>2. r.kind = "spawn" /\ r \in RequestSet /\ r.of \in Generations /\ r.of <= newest
    BY <1>1 DEF ReloadInv, Asked, RequestsFit
<1>3. WorldFits' /\ HasTarget(Others(r), child')
    <2>1. homes[r.of] \in Files
        BY <1>2, Fitting DEF WorldFits
    <2>2. mihomo'.home = r.of /\ mihomo'.config = r.of
          /\ mihomo' \in [home : 0..MaxGenerations, config : 0..MaxGenerations, rules : 0..MaxGenerations]
        BY <1>1, <1>2, <2>1 DEF Files, Generations
    <2> QED
        BY <1>1, <1>2, <2>2, Fitting DEF WorldFits, HasTarget, Generations, NoGeneration
<1>4. CASE Unheard(r)
    BY <1>1, <1>3, <1>4, UnheardKeeps
<1>5. CASE r.mine /\ requests' = Others(r) /\ Moves("ready")
    <2>1. task' = [task EXCEPT !.at = "ready"] /\ outcome' = outcome
        BY <1>5 DEF Moves
    <2>2. /\ task' \in [op : {"none", "start", "apply", "stop"}, file : 0..MaxGenerations, at : {"ready"}]
          /\ task'.at = "ready"
        BY <2>1 DEF ReloadInv, ReloadTypeOK
    <2>3. task.at = "spawn" /\ newest # 0
        BY <1>2, <1>5
           DEF ReloadInv, ReloadTypeOK, Asked, OneAwaited, RequestsFit, ProcessFits, AfterStaging
    <2>4. RequestsFit(requests', newest) /\ Unawaited(requests')
        BY <1>5, OthersFit DEF ReloadInv
    <2>5. OneAwaited(requests', task'.at, newest)
        BY <2>4 DEF OneAwaited, Unawaited
    <2>6. OnePut(puts, task'.at)
        BY <2>3 DEF ReloadInv, Asked, OnePut
    <2>7. Undisturbed'
        <3> SUFFICES ASSUME ~disturbed'
                     PROVE  (Alone /\ FilesFollow /\ OverlayFollows /\ MihomoFollows)'
            BY DEF Undisturbed
        <3>1. Others(r) = {} /\ puts = {} /\ r.of = newest
            BY <1>1, <1>2, Single
        <3>2. homes[newest] = Prepared
            BY <1>1, <2>3 DEF ReloadInv, Undisturbed, FilesFollow
        <3>3. mihomo'.config = newest /\ mihomo'.rules = newest
            BY <1>1, <3>1, <3>2 DEF Prepared
        <3> QED
            BY <1>1, <1>5, <2>2, <3>1, <3>3
               DEF Alone, FilesFollow, OverlayFollows, MihomoFollows, Shown
    <2> QED
        BY <1>1, <1>3, <1>5, <2>1, <2>2, <2>3, <2>4, <2>5, <2>6, <2>7, Assembled
           DEF ReloadInv, ReloadTypeOK
<1> QED
    BY <1>4, <1>5 DEF SpawnMihomo

LEMMA SpawnFailsKeeps ==
    ASSUME ReloadInv, NEW r \in requests, SpawnFails(r)
    PROVE  ReloadInv'
<1>1. Refused(r) /\ (Ended \/ UNCHANGED live)
      /\ UNCHANGED <<platform, newest, puts, disturbed, registered, homes, child>>
    BY DEF SpawnFails, HelperKeeps, MayEnd
<1>2. WorldFits'
    BY <1>1, EndedFits DEF ReloadInv, ReloadTypeOK
<1>3. HasTarget(Others(r), child')
    BY <1>1 DEF ReloadInv, ProcessFits, HasTarget, Others
<1> QED
    BY <1>1, <1>2, <1>3, RefusedKeeps

LEMMA StopKeeps ==
    ASSUME ReloadInv, NEW r \in requests, StopMihomo(r)
    PROVE  ReloadInv'
<1>1. r.kind = "stop" /\ UNCHANGED <<platform, newest, puts, disturbed, registered, homes>>
      /\ (Ended \/ UNCHANGED live) /\ child' \in {child, NoGeneration}
    BY DEF StopMihomo, HelperKeeps, MayEnd, live
<1>2. WorldFits'
    BY <1>1, EndedFits DEF ReloadInv, ReloadTypeOK
<1>3. HasTarget(Others(r), child')
    BY DEF StopMihomo, Locked, HasTarget, Others
<1>4. CASE Refused(r)
    BY <1>1, <1>2, <1>3, <1>4, RefusedKeeps
<1>5. CASE Unheard(r)
    BY <1>1, <1>2, <1>3, <1>5, UnheardKeeps
<1>6. ASSUME r.mine, requests' = Others(r), NEW result \in {"stopped", "failed"}, Ends(result)
      PROVE  ReloadInv'
    <2>1. task' = IdleTask /\ outcome' = result /\ task'.at = "idle"
          /\ task' \in [op : {"none"}, file : 0..MaxGenerations, at : {"idle"}]
        BY <1>6, ReloadAssumption DEF Ends, IdleTask, NoGeneration
    <2>2. task.at = "stop"
        BY <1>1, <1>6 DEF ReloadInv, Asked, OneAwaited
    <2>3. RequestsFit(requests', newest) /\ Unawaited(requests')
        BY <1>6, OthersFit DEF ReloadInv
    <2>4. OneAwaited(requests', task'.at, newest)
        BY <2>3 DEF OneAwaited, Unawaited
    <2>5. OnePut(puts, task'.at)
        BY <2>2 DEF ReloadInv, Asked, OnePut
    <2>6. Undisturbed'
        <3> SUFFICES ASSUME ~disturbed'
                     PROVE  (Alone /\ FilesFollow /\ OverlayFollows /\ MihomoFollows)'
            BY DEF Undisturbed
        <3>1. Others(r) = {} /\ puts = {}
            BY <1>1, Single
        <3> QED
            BY <1>1, <1>6, <2>1, <3>1 DEF Alone, FilesFollow, OverlayFollows, MihomoFollows, Shown
    <2> QED
        BY <1>1, <1>2, <1>3, <1>6, <2>1, <2>3, <2>4, <2>5, <2>6, Assembled DEF AfterStaging
<1> QED
    BY <1>4, <1>5, <1>6 DEF StopMihomo

\* With the helper its requests are gone.
LEMMA HelperDiesKeeps ==
    ASSUME ReloadInv, HelperDies
    PROVE  ReloadInv'
<1>1. /\ child' = NoGeneration /\ registered' = {}
      /\ UNCHANGED <<platform, newest, puts, disturbed, homes, mihomo, connections, stale>>
    BY DEF HelperDies, HelperKeeps, live
<1>2. WorldFits'
    BY <1>1, EndedFits DEF live
<1>3. RequestsFit({}, newest) /\ Unawaited({}) /\ OneAwaited({}, task.at, newest) /\ OneAwaited({}, "idle", newest)
    BY DEF RequestsFit, Unawaited, OneAwaited
<1>4. ASSUME NEW r \in requests, r.mine, Fails({}) PROVE ReloadInv'
    <2>1. task.at # "put"
        BY <1>4 DEF ReloadInv, Asked, OneAwaited, RequestsFit, RequestSet
    <2>2. /\ task' \in [op : {"none", "start", "apply", "stop"}, file : 0..MaxGenerations,
                        at : {"stop", "idle"}]
          /\ outcome' \in {"none", "running", "unapplied", "failed", "stopped"}
          /\ task'.at = "idle" => outcome' # "running"
          /\ RequestsFit(requests', newest) /\ OneAwaited(requests', task'.at, newest)
          /\ \A q \in requests' : q.mine /\ q.at = "asked"
          /\ \A p \in puts : ~p.mine
        BY <1>3, <1>4, <2>1, FailFits DEF ReloadInv, Asked
    <2>3. OnePut(puts, task'.at) /\ HasTarget(requests', child')
        BY <2>2 DEF OnePut, HasTarget
    <2>4. Undisturbed'
        <3> SUFFICES ASSUME ~disturbed'
                     PROVE  (Alone /\ FilesFollow /\ OverlayFollows /\ MihomoFollows)'
            BY DEF Undisturbed
        <3>1. puts = {}
            BY <1>1, Single
        <3> QED
            BY <1>1, <2>2, <3>1 DEF Alone, FilesFollow, OverlayFollows, MihomoFollows, Shown
    <2> QED
        BY <1>1, <1>2, <2>2, <2>3, <2>4, Assembled DEF AfterStaging
<1>5. CASE requests' = {} /\ UNCHANGED <<task, outcome>>
    <2>1. OnePut(puts, task'.at) /\ HasTarget(requests', child')
        BY <1>5 DEF ReloadInv, Asked, HasTarget
    <2>2. Undisturbed'
        <3> SUFFICES ASSUME ~disturbed'
                     PROVE  (Alone /\ FilesFollow /\ OverlayFollows /\ MihomoFollows)'
            BY DEF Undisturbed
        <3>1. Alone /\ FilesFollow /\ OverlayFollows /\ MihomoFollows
            BY <1>1 DEF ReloadInv, Undisturbed
        <3>2. task.at \in {"register", "overlay"} => NoGeneration < newest
            BY ReloadAssumption DEF ReloadInv, ReloadTypeOK, ProcessFits, AfterStaging, NoGeneration
        <3> QED
            BY <1>1, <1>5, <3>1, <3>2
               DEF Alone, FilesFollow, Prepared, OverlayFollows, MihomoFollows, Shown
    <2> QED
        BY <1>1, <1>2, <1>3, <1>5, <2>1, <2>2, Assembled DEF ReloadInv, ReloadTypeOK, ProcessFits
<1> QED
    BY <1>4, <1>5 DEF HelperDies
\* Whoever gives up leaves its request and its put behind, for nobody.
LEMMA GiveUpKeeps ==
    ASSUME ReloadInv, GiveUp
    PROVE  ReloadInv'
<1> DEFINE left == {[r EXCEPT !.mine = FALSE] : r \in requests}
<1>1. /\ disturbed' = TRUE /\ Fails(left) /\ puts' = {[p EXCEPT !.mine = FALSE] : p \in puts}
      /\ UNCHANGED <<platform, newest, registered, homes, child, mihomo, connections, stale>>
    BY DEF GiveUp, world, live
<1>2. ASSUME NEW r \in requests
      PROVE  LET q == [r EXCEPT !.mine = FALSE] IN
             q \in RequestSet /\ q.kind = r.kind /\ q.of = r.of /\ q.at = r.at /\ q.mine = FALSE
    <2>1. r \in RequestSet
        BY DEF ReloadInv, Asked, RequestsFit
    <2>2. [r EXCEPT !.mine = FALSE] \in RequestSet
        BY <2>1 DEF RequestSet
    <2>3. /\ [r EXCEPT !.mine = FALSE].kind = r.kind /\ [r EXCEPT !.mine = FALSE].of = r.of
          /\ [r EXCEPT !.mine = FALSE].at = r.at
        BY <2>1 DEF RequestSet
    <2>4. [r EXCEPT !.mine = FALSE].mine = FALSE
        BY <2>1 DEF RequestSet
    <2> QED
        BY <2>2, <2>3, <2>4
<1>3. \A q \in left : \E r \in requests :
          /\ q = [r EXCEPT !.mine = FALSE]
          /\ q \in RequestSet /\ q.kind = r.kind /\ q.of = r.of /\ q.at = r.at /\ q.mine = FALSE
    BY <1>2, Zenon
<1>4. Unawaited(left)
    BY <1>3 DEF Unawaited
<1> HIDE DEF left
<1>5. RequestsFit(left, newest)
    <2>1. ASSUME NEW q \in left
          PROVE  /\ q \in RequestSet
                 /\ q.kind # "stop" => q.of \in Generations /\ q.of <= newest
                 /\ q.at \in {"rules", "config"} => q.kind = "overlay"
                 /\ q.at = "spawning" => q.kind = "spawn"
        BY <1>3 DEF ReloadInv, Asked, RequestsFit
    <2>2. ASSUME NEW p \in left, NEW q \in left, p.at # "asked", q.at # "asked" PROVE p = q
        <3>1. PICK a \in requests : p = [a EXCEPT !.mine = FALSE] /\ p.at = a.at
            BY <1>3
        <3>2. PICK b \in requests : q = [b EXCEPT !.mine = FALSE] /\ q.at = b.at
            BY <1>3
        <3>3. a.at # "asked" /\ b.at # "asked"
            BY <2>2, <3>1, <3>2
        <3>4. a = b
            BY <3>3 DEF ReloadInv, Asked, RequestsFit
        <3> QED
            BY <3>1, <3>2, <3>4
    <2> QED
        BY <2>1, <2>2 DEF RequestsFit
<1>6. /\ task' \in [op : {"none", "start", "apply", "stop"}, file : 0..MaxGenerations,
                    at : {"stop", "idle"}]
      /\ outcome' \in {"none", "running", "unapplied", "failed", "stopped"}
      /\ RequestsFit(requests', newest) /\ OneAwaited(requests', task'.at, newest)
      /\ \A q \in requests' : q \in left \/ q.at = "asked"
    BY <1>1, <1>4, <1>5, FailFits DEF ReloadInv
<1>7. puts' \subseteq [config : 0..MaxGenerations, to : 0..MaxGenerations, mine : BOOLEAN]
      /\ \A p \in puts' : ~p.mine
    <2>1. ASSUME NEW p \in puts
          PROVE  /\ [p EXCEPT !.mine = FALSE] \in
                       [config : 0..MaxGenerations, to : 0..MaxGenerations, mine : BOOLEAN]
                 /\ [p EXCEPT !.mine = FALSE].mine = FALSE
        <3>1. p \in [config : 0..MaxGenerations, to : 0..MaxGenerations, mine : BOOLEAN]
            BY DEF ReloadInv, ReloadTypeOK
        <3> QED
            BY <3>1
    <2>2. \A p \in puts' : p \in [config : 0..MaxGenerations, to : 0..MaxGenerations, mine : BOOLEAN]
                            /\ p.mine = FALSE
        BY <1>1, <2>1, Zenon
    <2> QED
        BY <2>2
<1>8. Asked'
    BY <1>1, <1>6, <1>7 DEF Asked, OnePut
<1>9. ReloadTypeOK'
    <2>1. requests' \subseteq RequestSet
        BY <1>6 DEF RequestsFit
    <2> QED
        BY <1>1, <1>6, <1>7, <2>1 DEF ReloadInv, ReloadTypeOK, RequestSet
<1>10. ProcessFits'
    <2>1. HasTarget(requests', child)
        BY <1>3, <1>6 DEF ReloadInv, ProcessFits, HasTarget
    <2> QED
        BY <1>1, <1>6, <2>1 DEF ReloadInv, ProcessFits, AfterStaging
<1>11. Undisturbed'
    BY <1>1 DEF Undisturbed
<1> QED
    BY <1>8, <1>9, <1>10, <1>11 DEF ReloadInv

-----------------------------------------------------------------------------
(* Mihomo's steps.                                                          *)

LEMMA LoadsKeeps ==
    ASSUME ReloadInv, NEW p \in puts, LoadsConfig(p)
    PROVE  ReloadInv'
<1>1. /\ p.config # NoGeneration /\ mihomo # NoMihomo /\ p.to = mihomo.home /\ puts' = puts \ {p}
      /\ mihomo' = [mihomo EXCEPT !.config = p.config, !.rules = homes[mihomo.home].rules]
      /\ UNCHANGED <<platform, newest, requests, registered, homes, child, connections, stale, disturbed>>
    BY DEF LoadsConfig
<1>2. mihomo.home \in Generations /\ homes[mihomo.home] \in Files /\ p.config \in 0..MaxGenerations
      /\ mihomo \in [home : 0..MaxGenerations, config : 0..MaxGenerations, rules : 0..MaxGenerations]
    BY <1>1 DEF ReloadInv, ReloadTypeOK, ProcessFits
<1>3. /\ mihomo' \in [home : 0..MaxGenerations, config : 0..MaxGenerations, rules : 0..MaxGenerations]
      /\ mihomo'.home = mihomo.home /\ mihomo'.config = p.config
      /\ mihomo'.rules = homes[mihomo.home].rules
    BY <1>1, <1>2 DEF Files
<1>4. p.config \in Generations
    BY <1>1, <1>2 DEF Generations, NoGeneration
<1>5. CASE p.mine
    <2>1. task' = [task EXCEPT !.at = "match"] /\ outcome' = outcome /\ task.at = "put"
        BY <1>5 DEF LoadsConfig, Moves, ReloadInv, Asked, OnePut
    <2>2. /\ task' \in [op : {"none", "start", "apply", "stop"}, file : 0..MaxGenerations, at : {"match"}]
          /\ task'.at = "match"
        BY <2>1 DEF ReloadInv, ReloadTypeOK
    <2>3. \A q \in puts' : ~q.mine
        BY <1>1, <1>5 DEF ReloadInv, Asked, OnePut
    <2>4. Unawaited(requests)
        BY <2>1, NobodyAwaited DEF ReloadInv
    <2>5. Asked'
        BY <1>1, <2>2, <2>3, <2>4 DEF ReloadInv, Asked, OnePut, OneAwaited, Unawaited
    <2>6. ReloadTypeOK'
        BY <1>1, <1>3, <2>1, <2>2 DEF ReloadInv, ReloadTypeOK
    <2>7. ProcessFits'
        BY <1>1, <1>2, <1>3, <1>4, <2>1, <2>2 DEF ReloadInv, ProcessFits, AfterStaging
    <2>8. Undisturbed'
        <3> SUFFICES ASSUME ~disturbed'
                     PROVE  (Alone /\ FilesFollow /\ OverlayFollows /\ MihomoFollows)'
            BY DEF Undisturbed
        <3>1. Alone /\ FilesFollow
            BY <1>1 DEF ReloadInv, Undisturbed
        <3>2. homes[mihomo.home] = Prepared /\ p.config = newest
            BY <1>1, <2>1, <3>1 DEF FilesFollow, Alone
        <3>3. mihomo'.config = newest /\ mihomo'.rules = newest
            BY <1>3, <3>2 DEF Prepared
        <3>4. Alone' /\ requests = {}
            BY <1>1, <2>4, <3>1 DEF Alone, Unawaited
        <3> QED
            BY <1>1, <2>2, <3>3, <3>4 DEF FilesFollow, OverlayFollows, MihomoFollows, Shown
    <2> QED
        BY <2>5, <2>6, <2>7, <2>8 DEF ReloadInv
<1>6. CASE ~p.mine
    <2>1. task' = task /\ outcome' = outcome
        BY <1>6 DEF LoadsConfig
    <2>2. Asked'
        BY <1>1, <2>1 DEF ReloadInv, Asked, OnePut
    <2>3. ReloadTypeOK'
        BY <1>1, <1>3, <2>1 DEF ReloadInv, ReloadTypeOK
    <2>4. ProcessFits'
        BY <1>1, <1>2, <1>3, <1>4, <2>1 DEF ReloadInv, ProcessFits
    <2>5. Undisturbed'
        BY <1>1, <1>6 DEF ReloadInv, Undisturbed, Alone
    <2> QED
        BY <2>2, <2>3, <2>4, <2>5 DEF ReloadInv
<1> QED
    BY <1>5, <1>6

LEMMA OpensKeeps ==
    ASSUME ReloadInv, ConnectionOpens
    PROVE  ReloadInv'
<1>1. /\ mihomo # NoMihomo /\ connections' = connections \union {mihomo.config}
      /\ UNCHANGED <<platform, task, newest, requests, puts, registered, homes, child, mihomo, stale,
                     outcome, disturbed>>
    BY DEF ConnectionOpens
<1>2. ReloadTypeOK'
    BY <1>1 DEF ReloadInv, ReloadTypeOK, ProcessFits
<1>3. Asked' /\ ProcessFits'
    BY <1>1 DEF ReloadInv, Asked, ProcessFits
<1>4. Undisturbed'
    BY <1>1 DEF ReloadInv, Undisturbed, Alone, FilesFollow, Prepared, OverlayFollows, MihomoFollows, Shown
<1> QED
    BY <1>2, <1>3, <1>4 DEF ReloadInv

\* The controller's answer, and Mihomo's end, take the puts away.
LEMMA PutEndsKeeps ==
    ASSUME ReloadInv, Ended \/ UNCHANGED live, puts' \in SUBSET puts,
           UNCHANGED <<platform, newest, registered, homes, child, disturbed>>,
           \/ task.at = "put" /\ Fails(requests) /\ \A q \in puts' : ~q.mine
           \/ UNCHANGED <<task, outcome, requests>>
    PROVE  ReloadInv'
<1>1. WorldFits'
    BY EndedFits DEF ReloadInv, ReloadTypeOK
<1>2. CASE task.at = "put" /\ Fails(requests) /\ \A q \in puts' : ~q.mine
    <2>1. Unawaited(requests) /\ RequestsFit(requests, newest)
        BY <1>2, NobodyAwaited DEF ReloadInv, Asked
    <2>2. /\ task' \in [op : {"none", "start", "apply", "stop"}, file : 0..MaxGenerations,
                        at : {"stop", "idle"}]
          /\ outcome' \in {"none", "running", "unapplied", "failed", "stopped"}
          /\ task'.at = "idle" => outcome' # "running"
          /\ RequestsFit(requests', newest) /\ OneAwaited(requests', task'.at, newest)
          /\ \A q \in requests' : q \in requests \/ q.at = "asked"
          /\ (\A q \in requests : q.mine) => \A q \in requests' : q.mine /\ q.at = "asked"
        BY <1>2, <2>1, FailFits DEF ReloadInv
    <2>3. Asked'
        BY <1>2, <2>2 DEF Asked, OnePut
    <2>4. ReloadTypeOK'
        <3>1. requests' \subseteq RequestSet
            BY <2>2 DEF RequestsFit
        <3> QED
            BY <1>1, <2>2, <3>1 DEF ReloadInv, ReloadTypeOK, RequestSet, WorldFits
    <2>5. ProcessFits'
        BY <1>1, <2>2 DEF ReloadInv, ProcessFits, AfterStaging, HasTarget, WorldFits
    <2>6. Undisturbed'
        <3> SUFFICES ASSUME ~disturbed'
                     PROVE  (Alone /\ FilesFollow /\ OverlayFollows /\ MihomoFollows)'
            BY DEF Undisturbed
        <3>1. Alone
            BY DEF ReloadInv, Undisturbed
        <3>2. Alone'
            BY <2>2, <3>1 DEF Alone
        <3> QED
            BY <2>2, <3>1, <3>2 DEF Alone, FilesFollow, OverlayFollows, MihomoFollows, Shown
    <2> QED
        BY <2>3, <2>4, <2>5, <2>6 DEF ReloadInv
<1>3. CASE UNCHANGED <<task, outcome, requests>>
    <2>1. Asked'
        BY <1>3 DEF ReloadInv, Asked, OnePut
    <2>2. ReloadTypeOK'
        BY <1>1, <1>3 DEF ReloadInv, ReloadTypeOK, WorldFits
    <2>3. ProcessFits'
        BY <1>1, <1>3 DEF ReloadInv, ProcessFits, WorldFits
    <2>4. Undisturbed'
        BY <1>3 DEF ReloadInv, Undisturbed, Alone, FilesFollow, Prepared, OverlayFollows, MihomoFollows,
                    Shown, Ended, live
    <2> QED
        BY <2>1, <2>2, <2>3, <2>4 DEF ReloadInv
<1> QED
    BY <1>2, <1>3

LEMMA RejectsKeeps ==
    ASSUME ReloadInv, NEW p \in puts, RejectsConfig(p)
    PROVE  ReloadInv'
<1>1. UNCHANGED live /\ puts' \in SUBSET puts
      /\ UNCHANGED <<platform, newest, registered, homes, child, disturbed>>
    BY DEF RejectsConfig, world, live
<1>2. p.mine => task.at = "put" /\ \A q \in puts' : ~q.mine
    BY DEF RejectsConfig, ReloadInv, Asked, OnePut
<1> QED
    BY <1>1, <1>2, PutEndsKeeps DEF RejectsConfig

LEMMA MihomoDiesKeeps ==
    ASSUME ReloadInv, MihomoDies
    PROVE  ReloadInv'
BY PutEndsKeeps DEF MihomoDies

-----------------------------------------------------------------------------
LEMMA ReloadInitHolds == ReloadInit => ReloadInv
<1> SUFFICES ASSUME ReloadInit PROVE ReloadInv
    OBVIOUS
<1>1. 0 \in 0..MaxGenerations /\ NoMihomo = [home |-> 0, config |-> 0, rules |-> 0]
    BY ReloadAssumption DEF NoMihomo
<1>2. ReloadTypeOK
    BY <1>1 DEF ReloadInit, ReloadTypeOK, IdleTask, NoGeneration, Files, Generations
<1>3. Asked /\ ProcessFits
    BY DEF ReloadInit, Asked, ProcessFits, RequestsFit, OneAwaited, OnePut, HasTarget, IdleTask,
           NoGeneration, AfterStaging
<1>4. Undisturbed
    BY DEF ReloadInit, Undisturbed, Alone, FilesFollow, OverlayFollows, MihomoFollows, Shown, IdleTask
<1> QED
    BY <1>2, <1>3, <1>4 DEF ReloadInv

LEMMA HelperStepKeeps ==
    ASSUME ReloadInv, NEW r \in requests, HelperStep(r)
    PROVE  ReloadInv'
BY RegisterKeeps, FindsNothingKeeps, OverlayRulesKeeps, OverlayConfigKeeps, OverlayEndsKeeps,
   OverlayFailsKeeps, SpawnStopsKeeps, SpawnKeeps, SpawnFailsKeeps, StopKeeps
   DEF HelperStep

LEMMA ReloadStep == ReloadInv /\ [ReloadNext]_reloadVars => ReloadInv'
<1> SUFFICES ASSUME ReloadInv, [ReloadNext]_reloadVars PROVE ReloadInv'
    OBVIOUS
<1>1. CASE ReloadNext
    BY <1>1, BeginKeeps, PrepareKeeps, SendKeeps, MatchKeeps, CloseKeeps, ReadyKeeps, GiveUpKeeps,
       HelperStepKeeps, HelperDiesKeeps, LoadsKeeps, RejectsKeeps, OpensKeeps, MihomoDiesKeeps
       DEF ReloadNext
<1>2. CASE UNCHANGED reloadVars
    <2>1. ReloadTypeOK'
        BY <1>2 DEF ReloadInv, ReloadTypeOK, reloadVars, live
    <2>2. Asked' /\ ProcessFits'
        BY <1>2 DEF ReloadInv, Asked, ProcessFits, reloadVars, live
    <2>3. Undisturbed'
        BY <1>2 DEF ReloadInv, Undisturbed, Alone, FilesFollow, Prepared, OverlayFollows, MihomoFollows,
                    Shown, reloadVars, live
    <2> QED
        BY <2>1, <2>2, <2>3 DEF ReloadInv
<1> QED
    BY <1>1, <1>2

LEMMA ReloadInvIsEnough == ReloadInv => ReloadInvariant
BY DEF ReloadInv, ReloadInvariant, AppliedIsLive, Undisturbed, MihomoFollows, Shown

\* For any number of generations: what an operation reports as running is what
\* Mihomo runs, with the rule files of the same generation, unless a request of
\* an earlier operation was still in progress.
THEOREM ReloadInvariantHolds == ReloadSpec => []ReloadInvariant
BY ReloadInitHolds, ReloadStep, ReloadInvIsEnough, PTL DEF ReloadSpec

-----------------------------------------------------------------------------
(* Settings.                                                                *)

\* The clients that stand with the mark in place of their secret.
Marks(clients) == {i \in DOMAIN clients : clients[i].secret = Echo}
EnabledDefault(c) ==
    c.default # NoClient => c.default \in DOMAIN c.clients /\ c.clients[c.default].enabled

\* What passed the check of the save is valid, and so is the stored document.
CheckedDrafts ==
    \A s \in Saves : save[s].at \in {"write", "update", "return"} =>
        ValidSettings(save[s].draft) /\ EnabledDefault(save[s].draft)
StoredIsValid == (profile = "production" => Loads(file)) /\ EnabledDefault(file)

\* Without a departure: the window and the drafts are not ahead of the document,
\* who is at its revision has its clients, and who wrote it is alone.
WindowFollows ==
    /\ window.revision <= file.revision
    /\ window.revision = file.revision => DOMAIN window.clients = DOMAIN file.clients
Waiting(s) == save[s].at \in {"read", "write"}
DraftFollows(s) ==
    /\ Waiting(s) => save[s].expects <= file.revision
    /\ save[s].at = "read" /\ save[s].expects = file.revision =>
           Marks(save[s].draft.clients) \subseteq DOMAIN file.clients
    /\ save[s].at = "write" /\ save[s].expects = file.revision => Marks(save[s].draft.clients) = {}
Written(s) == save[s].at \in {"update", "return"}
WriterIsLast(s) ==
    Written(s) =>
        /\ save[s].expects + 1 = file.revision /\ window.revision < file.revision
        /\ Isolated(Saved(s)) = Isolated(file)
        /\ \A u \in Saves : Waiting(u) => save[u].expects < file.revision
        /\ \A u \in Saves : Written(u) => u = s
BackendFollows ==
    (\A s \in Saves : save[s].at # "update") => Isolated(backendHas) = Isolated(file)
Follows ==
    /\ Marks(file.clients) = {} /\ WindowFollows /\ BackendFollows
    /\ \A s \in Saves : DraftFollows(s) /\ WriterIsLast(s)
SettingsInv ==
    SettingsTypeOK /\ CheckedDrafts /\ StoredIsValid /\ (~departed => Follows)

-----------------------------------------------------------------------------
(* What the operations on documents keep.                                  *)

LEMMA MapElements ==
    ASSUME NEW f \in ClientMaps
    PROVE  DOMAIN f \subseteq ClientIds /\ f \in [DOMAIN f -> ClientRecords]
BY DEF ClientMaps

LEMMA MapMade ==
    ASSUME NEW D \in SUBSET ClientIds, NEW f \in [D -> ClientRecords]
    PROVE  f \in ClientMaps /\ DOMAIN f = D
BY DEF ClientMaps

LEMMA SecretSet ==
    ASSUME NEW c \in ClientRecords, NEW secret \in Secrets
    PROVE  /\ [c EXCEPT !.secret = secret] \in ClientRecords
           /\ [c EXCEPT !.secret = secret].secret = secret
BY DEF ClientRecords

LEMMA NewClientFits ==
    ASSUME NEW secret \in Secrets, NEW port \in Ports
    PROVE  NewClient(secret, port) \in ClientRecords
           /\ NewClient(secret, port).secret = secret /\ NewClient(secret, port).enabled
BY DEF NewClient, ClientRecords

LEMMA NoneFits == NoClients \in ClientMaps /\ DOMAIN NoClients = {} /\ NoSettings \in Documents
                  /\ NoSave \in SaveRecords /\ NoSave.at = "idle"
<1>1. NoClients \in ClientMaps /\ DOMAIN NoClients = {}
    <2>1. NoClients \in [{} -> ClientRecords]
        BY DEF NoClients
    <2> QED
        BY <2>1, MapMade
<1>2. NoSettings \in Documents
    BY <1>1, SettingsAssumption DEF NoSettings, Documents
<1> QED
    BY <1>1, <1>2, SettingsAssumption DEF NoSave, SaveRecords

LEMMA IsolatedFits ==
    ASSUME NEW c \in Documents
    PROVE  /\ Isolated(c) \in Documents
           /\ Isolated(c).clients = c.clients /\ Isolated(c).default = c.default
           /\ Isolated(c).revision = c.revision
           /\ Isolated(Isolated(c)) = Isolated(c)
BY SettingsAssumption DEF Isolated, Documents

LEMMA MarkedFits ==
    ASSUME NEW f \in ClientMaps
    PROVE  Marked(f) \in ClientMaps /\ DOMAIN Marked(f) = DOMAIN f
<1>1. \A i \in DOMAIN f : [f[i] EXCEPT !.secret = Echo] \in ClientRecords
    BY MapElements, SecretSet DEF Secrets
<1>2. Marked(f) \in [DOMAIN f -> ClientRecords]
    BY <1>1 DEF Marked
<1> QED
    BY <1>2, MapElements, MapMade

LEMMA RedactedFits ==
    ASSUME NEW c \in Documents
    PROVE  /\ Redacted(c) \in Documents /\ Redacted(c).revision = c.revision
           /\ DOMAIN Redacted(c).clients = DOMAIN c.clients
<1>1. Marked(c.clients) \in ClientMaps /\ DOMAIN Marked(c.clients) = DOMAIN c.clients
    BY MarkedFits DEF Documents
<1> QED
    BY <1>1 DEF Redacted, Documents

\* Marks that stand for a stored secret go, and no other comes.
LEMMA UnmarkedFits ==
    ASSUME NEW g \in ClientMaps, NEW f \in ClientMaps
    PROVE  /\ Unmarked(g, f) \in ClientMaps /\ DOMAIN Unmarked(g, f) = DOMAIN f
           /\ Marks(g) = {} /\ Marks(f) \subseteq DOMAIN g => Marks(Unmarked(g, f)) = {}
<1> DEFINE put(i) == IF i \in DOMAIN g /\ f[i].secret = Echo
                     THEN [f[i] EXCEPT !.secret = g[i].secret] ELSE f[i]
<1>1. ASSUME NEW i \in DOMAIN f
      PROVE  /\ put(i) \in ClientRecords
             /\ i \in DOMAIN g /\ f[i].secret = Echo => put(i).secret = g[i].secret
             /\ ~(i \in DOMAIN g /\ f[i].secret = Echo) => put(i) = f[i]
    <2>1. f[i] \in ClientRecords
        BY MapElements
    <2>2. CASE i \in DOMAIN g /\ f[i].secret = Echo
        <3>1. g[i] \in ClientRecords /\ g[i].secret \in Secrets
            BY <2>2, MapElements DEF ClientRecords
        <3>2. put(i) = [f[i] EXCEPT !.secret = g[i].secret]
            BY <2>2
        <3> QED
            BY <2>1, <2>2, <3>1, <3>2, SecretSet
    <2> QED
        BY <2>1, <2>2
<1>2. Unmarked(g, f) = [i \in DOMAIN f |-> put(i)]
    BY DEF Unmarked
<1> HIDE DEF put
<1>3. Unmarked(g, f) \in [DOMAIN f -> ClientRecords] /\ \A i \in DOMAIN f : Unmarked(g, f)[i] = put(i)
    BY <1>1, <1>2
<1>4. Unmarked(g, f) \in ClientMaps /\ DOMAIN Unmarked(g, f) = DOMAIN f
    BY <1>3, MapElements, MapMade
<1>5. ASSUME Marks(g) = {}, Marks(f) \subseteq DOMAIN g, NEW i \in DOMAIN f
      PROVE  Unmarked(g, f)[i].secret # Echo
    BY <1>1, <1>3, <1>5 DEF Marks
<1> QED
    BY <1>4, <1>5 DEF Marks

LEMMA RestoreFits ==
    ASSUME NEW c \in Documents, NEW draft \in Documents
    PROVE  LET d == RestoreRedacted(c, draft) IN
           /\ d \in Documents /\ DOMAIN d.clients = DOMAIN draft.clients
           /\ Marks(c.clients) = {} /\ Marks(draft.clients) \subseteq DOMAIN c.clients =>
                  Marks(d.clients) = {}
<1> DEFINE u == Unmarked(c.clients, draft.clients)
<1>1. /\ u \in ClientMaps /\ DOMAIN u = DOMAIN draft.clients
      /\ Marks(c.clients) = {} /\ Marks(draft.clients) \subseteq DOMAIN c.clients => Marks(u) = {}
    BY UnmarkedFits DEF Documents
<1>2. RestoreRedacted(c, draft) = [draft EXCEPT !.clients = u]
    BY DEF RestoreRedacted
<1> HIDE DEF u
<1>3. RestoreRedacted(c, draft) \in Documents /\ RestoreRedacted(c, draft).clients = u
    BY <1>1, <1>2 DEF Documents
<1> QED
    BY <1>1, <1>3

LEMMA SanitizeFits ==
    ASSUME NEW c \in Documents
    PROVE  /\ SanitizeDefaultRoute(c) \in Documents /\ EnabledDefault(SanitizeDefaultRoute(c))
           /\ SanitizeDefaultRoute(c).clients = c.clients
BY DEF SanitizeDefaultRoute, Documents, EnabledDefault

LEMMA WithClientsFits ==
    ASSUME window \in Documents, NEW f \in ClientMaps
    PROVE  WithClients(f) \in Documents /\ WithClients(f).clients = f
BY DEF WithClients, Documents

LEMMA WithoutFits ==
    ASSUME NEW f \in ClientMaps, NEW id
    PROVE  /\ WithoutClient(f, id) \in ClientMaps
           /\ Marks(WithoutClient(f, id)) \subseteq DOMAIN f
<1>1. DOMAIN f \ {id} \in SUBSET ClientIds /\ \A i \in DOMAIN f : f[i] \in ClientRecords
    BY MapElements
<1>2. WithoutClient(f, id) \in [DOMAIN f \ {id} -> ClientRecords]
    BY <1>1 DEF WithoutClient
<1>3. WithoutClient(f, id) \in ClientMaps /\ DOMAIN WithoutClient(f, id) = DOMAIN f \ {id}
    BY <1>1, <1>2, MapMade
<1> QED
    BY <1>3 DEF Marks

LEMMA WithFits ==
    ASSUME NEW f \in ClientMaps, NEW id \in ClientIds, NEW client \in ClientRecords, client.secret # Echo
    PROVE  /\ WithClient(f, id, client) \in ClientMaps
           /\ Marks(WithClient(f, id, client)) \subseteq DOMAIN f
<1>1. DOMAIN f \union {id} \in SUBSET ClientIds /\ \A i \in DOMAIN f : f[i] \in ClientRecords
    BY MapElements
<1>2. WithClient(f, id, client) \in [DOMAIN f \union {id} -> ClientRecords]
    BY <1>1 DEF WithClient
<1>3. WithClient(f, id, client) \in ClientMaps
    BY <1>1, <1>2, MapMade
<1>4. \A i \in DOMAIN f \union {id} : i \notin DOMAIN f => WithClient(f, id, client)[i] = client
    BY DEF WithClient
<1> QED
    BY <1>2, <1>3, <1>4 DEF Marks

\* One client is changed in place.
LEMMA ChangedFits ==
    ASSUME NEW f \in ClientMaps, NEW id \in DOMAIN f, NEW client \in ClientRecords
    PROVE  [f EXCEPT ![id] = client] \in ClientMaps /\ DOMAIN [f EXCEPT ![id] = client] = DOMAIN f
<1>1. [f EXCEPT ![id] = client] \in [DOMAIN f -> ClientRecords] /\ DOMAIN f \in SUBSET ClientIds
    BY MapElements
<1> QED
    BY <1>1, MapMade

\* What the window sends has no mark of a client that it does not show.
LEMMA DraftsFit ==
    ASSUME window \in Documents, NEW draft \in Drafts
    PROVE  draft \in Documents /\ Marks(draft.clients) \subseteq DOMAIN window.clients
<1> DEFINE known == window.clients
<1>0. known \in ClientMaps
    BY DEF Documents
<1>1. ASSUME NEW f \in ClientMaps, Marks(f) \subseteq DOMAIN known, draft = WithClients(f)
      PROVE  draft \in Documents /\ Marks(draft.clients) \subseteq DOMAIN window.clients
    BY <1>1, WithClientsFits
<1>2. ASSUME NEW id \in ClientIds, NEW port \in Ports,
             draft = WithClients(WithClient(known, id, NewClient("none", port)))
      PROVE  draft \in Documents /\ Marks(draft.clients) \subseteq DOMAIN window.clients
    <2>1. NewClient("none", port) \in ClientRecords /\ NewClient("none", port).secret # Echo
        BY NewClientFits DEF Secrets, Echo
    <2> QED
        BY <1>0, <1>1, <1>2, <2>1, WithFits
<1>3. ASSUME NEW id \in DOMAIN known, NEW client \in ClientRecords,
             draft = WithClients([known EXCEPT ![id] = client])
      PROVE  draft \in Documents /\ Marks(draft.clients) \subseteq DOMAIN window.clients
    <2>1. [known EXCEPT ![id] = client] \in ClientMaps
          /\ DOMAIN [known EXCEPT ![id] = client] = DOMAIN known
        BY <1>0, ChangedFits
    <2>2. Marks([known EXCEPT ![id] = client]) \subseteq DOMAIN known
        BY <2>1 DEF Marks
    <2> QED
        BY <1>1, <1>3, <2>1, <2>2
<1>4. ASSUME NEW id \in DOMAIN known, draft = WithClients([known EXCEPT ![id].secret = "own"])
      PROVE  draft \in Documents /\ Marks(draft.clients) \subseteq DOMAIN window.clients
    <2>1. [known[id] EXCEPT !.secret = "own"] \in ClientRecords
        BY <1>0, MapElements, SecretSet DEF Secrets
    <2> QED
        BY <1>3, <1>4, <2>1
<1>5. ASSUME NEW id \in DOMAIN known,
             draft = WithClients([known EXCEPT ![id].enabled = ~known[id].enabled])
      PROVE  draft \in Documents /\ Marks(draft.clients) \subseteq DOMAIN window.clients
    <2>1. known[id] \in ClientRecords
        BY <1>0, MapElements
    <2>2. \A b \in BOOLEAN : [known[id] EXCEPT !.enabled = b] \in ClientRecords
        BY <2>1 DEF ClientRecords
    <2>3. [known[id] EXCEPT !.enabled = ~known[id].enabled] \in ClientRecords
        BY <2>2
    <2> QED
        BY <1>3, <1>5, <2>3
<1>6. ASSUME NEW id \in DOMAIN known \union {NoClient}, draft = [window EXCEPT !.default = id]
      PROVE  draft \in Documents /\ Marks(draft.clients) \subseteq DOMAIN window.clients
    BY <1>0, <1>6, MapElements DEF Documents, Marks
<1>7. ASSUME NEW port \in Ports, draft = [window EXCEPT !.mixed = port]
      PROVE  draft \in Documents /\ Marks(draft.clients) \subseteq DOMAIN window.clients
    BY <1>7 DEF Documents, Marks
<1> DEFINE
      added == {WithClients(WithClient(window.clients, id, NewClient("none", port))) :
                    id \in ClientIds \ DOMAIN window.clients, port \in Ports}
      entered == {WithClients([window.clients EXCEPT ![id].secret = "own"]) : id \in DOMAIN window.clients}
      switched == {WithClients([window.clients EXCEPT ![id].enabled = ~@]) : id \in DOMAIN window.clients}
      chosen == {[window EXCEPT !.default = id] : id \in DOMAIN window.clients \union {NoClient}}
      moved == {[window EXCEPT !.mixed = port] : port \in Ports}
<1>8. draft \in added \union entered \union switched \union chosen \union moved
    <2>1. draft \in Drafts
        OBVIOUS
    <2>2. Drafts = added \union entered \union switched \union chosen \union moved
        BY DEF Drafts
    <2> HIDE DEF added, entered, switched, chosen, moved
    <2> QED
        BY <2>1, <2>2
<1>9. CASE draft \in added
    BY <1>2, <1>9
<1>10. CASE draft \in entered
    BY <1>4, <1>10
<1>11. CASE draft \in switched
    BY <1>5, <1>11
<1>12. CASE draft \in chosen
    BY <1>6, <1>12
<1>13. CASE draft \in moved
    BY <1>7, <1>13
<1> HIDE DEF added, entered, switched, chosen, moved
<1> QED
    BY <1>8, <1>9, <1>10, <1>11, <1>12, <1>13
-----------------------------------------------------------------------------
(* The steps.                                                              *)

Purposes == {"edit", "removal", "revert"}

\* A draft goes out at the revision of the window.
LEMMA SendsKeeps ==
    ASSUME SettingsInv, NEW s \in Saves, save[s].at \in {"idle", "pins"},
           NEW purpose \in Purposes, NEW draft \in Documents, Sends(s, purpose, draft),
           departed' \in BOOLEAN,
           ~departed' => ~departed /\ (window.revision = file.revision =>
                                           Marks(draft.clients) \subseteq DOMAIN file.clients)
    PROVE  SettingsInv'
<1> DEFINE sent == [at |-> "read", purpose |-> purpose, draft |-> draft, expects |-> window.revision,
                    before |-> IF purpose = "removal" THEN window.clients ELSE NoClients]
<1>1. save' = [save EXCEPT ![s] = sent] /\ window.revision < MaxSaved
      /\ UNCHANGED <<profile, file, backendHas, window, previous>>
    BY DEF Sends
<1>2. /\ sent \in SaveRecords /\ sent.at = "read" /\ sent.draft = draft
      /\ sent.expects = window.revision
    <2>1. window.revision \in 0..MaxSaved /\ window.clients \in ClientMaps
        BY <1>1, SettingsAssumption DEF SettingsInv, SettingsTypeOK, Documents
    <2>2. (IF purpose = "removal" THEN window.clients ELSE NoClients) \in ClientMaps
        BY <2>1, NoneFits
    <2> QED
        BY <2>1, <2>2 DEF SaveRecords, Purposes
<1> HIDE DEF sent
<1>3. /\ save' \in [Saves -> SaveRecords] /\ save'[s] = sent
      /\ \A u \in Saves \ {s} : save'[u] = save[u]
    BY <1>1, <1>2 DEF SettingsInv, SettingsTypeOK
<1>4. SettingsTypeOK'
    BY <1>1, <1>3 DEF SettingsInv, SettingsTypeOK
<1>5. CheckedDrafts'
    BY <1>1, <1>2, <1>3 DEF SettingsInv, CheckedDrafts, ValidSettings
<1>6. StoredIsValid'
    BY <1>1 DEF SettingsInv, StoredIsValid, EnabledDefault, Loads, Isolated, ValidSettings
<1>7. ASSUME ~departed' PROVE Follows'
    <2>0. Follows
        BY <1>7 DEF SettingsInv
    <2>1. Marks(file'.clients) = {} /\ WindowFollows'
        BY <1>1, <2>0 DEF Follows, WindowFollows
    <2>2. BackendFollows'
        BY <1>1, <1>2, <1>3, <2>0 DEF Follows, BackendFollows, Isolated
    <2>3. DraftFollows(s)'
        BY <1>1, <1>2, <1>3, <1>7, <2>0 DEF Follows, WindowFollows, DraftFollows, Waiting
    <2>4. \A u \in Saves \ {s} : DraftFollows(u)'
        BY <1>1, <1>3, <2>0 DEF Follows, DraftFollows, Waiting
    <2>5. ASSUME NEW u \in Saves, Written(u)' PROVE WriterIsLast(u)'
        <3>1. u # s /\ save'[u] = save[u] /\ Written(u)
            BY <1>2, <1>3, <2>5 DEF Written
        <3>2. /\ save[u].expects + 1 = file.revision /\ window.revision < file.revision
              /\ Isolated(Saved(u)) = Isolated(file)
              /\ \A v \in Saves : Waiting(v) => save[v].expects < file.revision
              /\ \A v \in Saves : Written(v) => v = u
            BY <2>0, <3>1 DEF Follows, WriterIsLast
        <3>3. \A v \in Saves : Waiting(v)' => save'[v].expects < file'.revision
            BY <1>1, <1>2, <1>3, <3>2 DEF Waiting
        <3>4. \A v \in Saves : Written(v)' => v = u
            BY <1>2, <1>3, <3>2 DEF Written
        <3>5. Isolated(Saved(u))' = Isolated(file)'
            BY <1>1, <3>1, <3>2 DEF Isolated, Saved
        <3> QED
            BY <1>1, <3>1, <3>2, <3>3, <3>4, <3>5 DEF WriterIsLast
    <2>6. \A u \in Saves : WriterIsLast(u)'
        BY <2>5 DEF WriterIsLast
    <2> QED
        BY <2>1, <2>2, <2>3, <2>4, <2>6 DEF Follows
<1> QED
    BY <1>4, <1>5, <1>6, <1>7 DEF SettingsInv

LEMMA EditKeeps ==
    ASSUME SettingsInv, NEW s \in Saves, EditSettings(s)
    PROVE  SettingsInv'
<1>1. PICK draft \in Drafts : Sends(s, "edit", draft)
    BY DEF EditSettings
<1>2. draft \in Documents /\ Marks(draft.clients) \subseteq DOMAIN window.clients
    BY DraftsFit DEF SettingsInv, SettingsTypeOK
<1>3. departed' = departed /\ departed \in BOOLEAN /\ save[s].at = "idle"
    BY DEF EditSettings, SaveAt, SettingsInv, SettingsTypeOK
<1>4. ~departed => (window.revision = file.revision => Marks(draft.clients) \subseteq DOMAIN file.clients)
    BY <1>2 DEF SettingsInv, Follows, WindowFollows
<1> QED
    BY <1>1, <1>2, <1>3, <1>4, SendsKeeps DEF Purposes

LEMMA DeleteKeeps ==
    ASSUME SettingsInv, NEW s \in Saves, DeleteClient(s)
    PROVE  SettingsInv'
<1>1. PICK id \in DOMAIN window.clients : Sends(s, "removal", WithClients(WithoutClient(window.clients, id)))
    BY DEF DeleteClient
<1> DEFINE draft == WithClients(WithoutClient(window.clients, id))
<1>2. draft \in Documents /\ Marks(draft.clients) \subseteq DOMAIN window.clients
    BY WithoutFits, WithClientsFits DEF SettingsInv, SettingsTypeOK, Documents
<1> HIDE DEF draft
<1>3. departed' = departed /\ departed \in BOOLEAN /\ save[s].at = "idle"
    BY DEF DeleteClient, SaveAt, SettingsInv, SettingsTypeOK
<1>4. ~departed => (window.revision = file.revision => Marks(draft.clients) \subseteq DOMAIN file.clients)
    BY <1>2 DEF SettingsInv, Follows, WindowFollows
<1>5. Sends(s, "removal", draft)
    BY <1>1 DEF draft
<1> QED
    BY <1>2, <1>3, <1>4, <1>5, SendsKeeps DEF Purposes

LEMMA RevertKeeps ==
    ASSUME SettingsInv, NEW s \in Saves, RevertPendingSettings(s)
    PROVE  SettingsInv'
<1>1. Sends(s, "revert", previous) /\ previous \in Documents /\ save[s].at = "idle"
    BY DEF RevertPendingSettings, SaveAt, SettingsInv, SettingsTypeOK
<1>2. departed' \in BOOLEAN
      /\ (~departed' => ~departed /\ DOMAIN previous.clients \subseteq DOMAIN file.clients)
    BY DEF RevertPendingSettings
<1>3. Marks(previous.clients) \subseteq DOMAIN previous.clients
    BY DEF Marks
<1> QED
    BY <1>1, <1>2, <1>3, SendsKeeps DEF Purposes

LEMMA RestoreKeeps ==
    ASSUME SettingsInv, NEW s \in Saves, RestoreClient(s)
    PROVE  SettingsInv'
<1>1. Sends(s, "edit", WithClients(save[s].before)) /\ departed' = TRUE /\ save[s].at = "pins"
    BY DEF RestoreClient, SaveAt
<1>2. save[s].before \in ClientMaps
    BY DEF SettingsInv, SettingsTypeOK, SaveRecords
<1>3. WithClients(save[s].before) \in Documents
    BY <1>2, WithClientsFits DEF SettingsInv, SettingsTypeOK
<1> QED
    BY <1>1, <1>3, SendsKeeps DEF Purposes
LEMMA SavedFits ==
    ASSUME SettingsTypeOK, NEW s \in Saves
    PROVE  /\ Saved(s) \in Documents /\ Saved(s).revision = save[s].expects + 1
           /\ Saved(s).clients = save[s].draft.clients /\ Saved(s).default = save[s].draft.default
           /\ Saved(s).mixed = save[s].draft.mixed
<1>1. save[s].draft \in Documents /\ save[s].expects + 1 \in 0..(MaxSaved + 1)
    BY SettingsAssumption DEF SettingsTypeOK, SaveRecords
<1> QED
    BY <1>1 DEF Saved, Documents

LEMMA GoesFits ==
    ASSUME SettingsTypeOK, NEW s \in Saves,
           NEW place \in {"idle", "read", "write", "update", "return", "pins"}, SaveGoes(s, place)
    PROVE  /\ save' \in [Saves -> SaveRecords] /\ save'[s].at = place
           /\ \A u \in Saves \ {s} : save'[u] = save[u]
           /\ place # "idle" => save'[s].draft = save[s].draft /\ save'[s].expects = save[s].expects
           /\ place = "idle" => save' = [save EXCEPT ![s] = NoSave]
<1>1. CASE place = "idle"
    <2>1. save' = [save EXCEPT ![s] = NoSave]
        BY <1>1 DEF SaveGoes
    <2> QED
        BY <1>1, <2>1, NoneFits DEF SettingsTypeOK
<1>2. CASE place # "idle"
    <2> DEFINE rec == [save[s] EXCEPT !.at = place]
    <2>1. save' = [save EXCEPT ![s] = rec]
        BY <1>2 DEF SaveGoes
    <2>2. rec \in SaveRecords /\ rec.at = place /\ rec.draft = save[s].draft /\ rec.expects = save[s].expects
        BY DEF SettingsTypeOK, SaveRecords
    <2> HIDE DEF rec
    <2> QED
        BY <1>2, <2>1, <2>2 DEF SettingsTypeOK
<1> QED
    BY <1>1, <1>2

\* Moving the ports of a document that loads changes nothing that is kept of it.
LEMMA IsolatedKeeps ==
    ASSUME file \in Documents, StoredIsValid, file' = file \/ file' = Isolated(file), profile' = profile
    PROVE  /\ StoredIsValid' /\ file' \in Documents /\ file'.clients = file.clients
           /\ file'.revision = file.revision
           /\ Isolated(file)' = Isolated(file)
<1>1. /\ Isolated(file) \in Documents /\ Isolated(file).clients = file.clients
      /\ Isolated(file).default = file.default /\ Isolated(file).revision = file.revision
      /\ Isolated(Isolated(file)) = Isolated(file)
    BY IsolatedFits
<1>2. /\ file' \in Documents /\ file'.clients = file.clients /\ file'.default = file.default
      /\ file'.revision = file.revision /\ Isolated(file') = Isolated(file)
    BY <1>1
<1>3. Isolated(file)' = Isolated(file')
    BY DEF Isolated
<1>4. StoredIsValid'
    <2>1. EnabledDefault(file')
        BY <1>2 DEF StoredIsValid, EnabledDefault
    <2>2. Loads(file)' <=> Loads(file)
        BY <1>2, <1>3 DEF Loads, ValidSettings, PortsOf
    <2> QED
        BY <2>1, <2>2 DEF StoredIsValid, EnabledDefault
<1> QED
    BY <1>2, <1>3, <1>4

\* A save that is checked, or leaves, while nothing else changes.
LEMMA CheckedKeeps ==
    ASSUME SettingsInv, NEW s \in Saves, save[s].at \in {"read", "write", "pins"},
           NEW rec \in SaveRecords, save' = [save EXCEPT ![s] = rec],
           \/ rec.at = "idle"
           \/ /\ rec.at = "write" /\ save[s].at = "read" /\ rec.expects = save[s].expects
              /\ ValidSettings(rec.draft) /\ EnabledDefault(rec.draft)
              /\ ~departed => (rec.expects = file.revision => Marks(rec.draft.clients) = {}),
           file' = file \/ file' = Isolated(file),
           UNCHANGED <<profile, backendHas, window, previous, departed>>
    PROVE  SettingsInv'
<1>1. /\ save' \in [Saves -> SaveRecords] /\ save'[s] = rec
      /\ \A u \in Saves \ {s} : save'[u] = save[u]
    BY DEF SettingsInv, SettingsTypeOK
<1>2. /\ StoredIsValid' /\ file' \in Documents /\ file'.clients = file.clients
      /\ file'.revision = file.revision
      /\ Isolated(file)' = Isolated(file)
    BY IsolatedKeeps DEF SettingsInv, SettingsTypeOK
<1>3. SettingsTypeOK'
    BY <1>1, <1>2 DEF SettingsInv, SettingsTypeOK
<1>4. CheckedDrafts'
    BY <1>1 DEF SettingsInv, CheckedDrafts, ValidSettings
<1>5. ASSUME ~departed' PROVE Follows'
    <2>0. Follows /\ ~departed
        BY <1>5 DEF SettingsInv
    <2>1. Marks(file'.clients) = {} /\ WindowFollows'
        BY <1>2, <2>0 DEF Follows, WindowFollows
    <2>2. BackendFollows'
        <3>1. Isolated(backendHas)' = Isolated(backendHas)
            BY DEF Isolated
        <3> QED
            BY <1>1, <1>2, <2>0, <3>1 DEF Follows, BackendFollows
    <2>3. DraftFollows(s)'
        BY <1>1, <1>2, <2>0 DEF Follows, DraftFollows, Waiting
    <2>4. \A u \in Saves \ {s} : DraftFollows(u)'
        BY <1>1, <1>2, <2>0 DEF Follows, DraftFollows, Waiting
    <2>5. ASSUME NEW u \in Saves, Written(u)' PROVE WriterIsLast(u)'
        <3>1. u # s /\ save'[u] = save[u] /\ Written(u)
            BY <1>1, <2>5 DEF Written
        <3>2. /\ save[u].expects + 1 = file.revision /\ window.revision < file.revision
              /\ Isolated(Saved(u)) = Isolated(file)
              /\ \A v \in Saves : Waiting(v) => save[v].expects < file.revision
              /\ \A v \in Saves : Written(v) => v = u
            BY <2>0, <3>1 DEF Follows, WriterIsLast
        <3>3. \A v \in Saves : Waiting(v)' => save'[v].expects < file'.revision
            BY <1>1, <1>2, <3>2 DEF Waiting
        <3>4. \A v \in Saves : Written(v)' => v = u
            BY <1>1, <3>2 DEF Written
        <3>5. Isolated(Saved(u))' = Isolated(Saved(u))
            BY <3>1 DEF Isolated, Saved
        <3> QED
            BY <1>2, <3>1, <3>2, <3>3, <3>4, <3>5 DEF WriterIsLast
    <2>6. \A u \in Saves : WriterIsLast(u)'
        BY <2>5 DEF WriterIsLast
    <2> QED
        BY <2>1, <2>2, <2>3, <2>4, <2>6 DEF Follows
<1> QED
    BY <1>2, <1>3, <1>4, <1>5 DEF SettingsInv

LEMMA SaveRefusedKeeps ==
    ASSUME SettingsInv, NEW s \in Saves, SaveFails(s) \/ PinsFollow(s)
    PROVE  SettingsInv'
<1>1. save[s].at \in {"read", "write", "pins"} /\ SaveRefused(s)
    BY DEF SaveFails, PinsFollow, SaveAt
<1>2. save' = [save EXCEPT ![s] = NoSave]
    BY <1>1, GoesFits DEF SaveRefused, SettingsInv
<1> QED
    BY <1>1, <1>2, NoneFits, CheckedKeeps DEF SaveRefused

LEMMA ChecksKeeps ==
    ASSUME SettingsInv, NEW s \in Saves, SaveChecks(s)
    PROVE  SettingsInv'
<1> DEFINE draft == SanitizeDefaultRoute(RestoreRedacted(file', save[s].draft))
<1>1. /\ save[s].at = "read" /\ file' = Isolated(file)
      /\ UNCHANGED <<profile, backendHas, window, previous, departed>>
    BY DEF SaveChecks, SaveAt
<1>2. file' \in Documents /\ file'.clients = file.clients /\ save[s] \in SaveRecords
      /\ save[s].draft \in Documents
    BY <1>1, IsolatedFits DEF SettingsInv, SettingsTypeOK, SaveRecords
<1>3. /\ draft \in Documents /\ EnabledDefault(draft)
      /\ Marks(file.clients) = {} /\ Marks(save[s].draft.clients) \subseteq DOMAIN file.clients =>
             Marks(draft.clients) = {}
    BY <1>2, RestoreFits, SanitizeFits
<1>4. \/ file.revision = save[s].expects /\ ValidSettings(draft)
         /\ save' = [save EXCEPT ![s].at = "write", ![s].draft = draft]
      \/ SaveGoes(s, "idle")
    BY DEF SaveChecks
<1> HIDE DEF draft
<1>5. CASE SaveGoes(s, "idle")
    <2>1. save' = [save EXCEPT ![s] = NoSave]
        BY <1>5, GoesFits DEF SettingsInv
    <2> QED
        BY <1>1, <2>1, NoneFits, CheckedKeeps
<1>6. CASE file.revision = save[s].expects /\ ValidSettings(draft)
           /\ save' = [save EXCEPT ![s].at = "write", ![s].draft = draft]
    <2> DEFINE rec == [[save[s] EXCEPT !.at = "write"] EXCEPT !.draft = draft]
    <2>1. save' = [save EXCEPT ![s] = rec]
        BY <1>6 DEF SettingsInv, SettingsTypeOK
    <2>2. rec \in SaveRecords /\ rec.at = "write" /\ rec.draft = draft /\ rec.expects = save[s].expects
        BY <1>2, <1>3 DEF SaveRecords
    <2> HIDE DEF rec
    <2>3. ~departed => Marks(draft.clients) = {}
        BY <1>1, <1>3, <1>6 DEF SettingsInv, Follows, DraftFollows
    <2> QED
        BY <1>1, <1>3, <1>6, <2>1, <2>2, <2>3, CheckedKeeps
<1> QED
    BY <1>4, <1>5, <1>6
LEMMA WritesKeeps ==
    ASSUME SettingsInv, NEW s \in Saves, SaveWrites(s)
    PROVE  SettingsInv'
<1>1. /\ save[s].at = "write" /\ file' = Saved(s)
      /\ departed' = (departed \/ file.revision # save[s].expects) /\ SaveGoes(s, "update")
      /\ UNCHANGED <<profile, backendHas, window, previous>>
    BY DEF SaveWrites, SaveAt, Saved
<1>2. /\ save' \in [Saves -> SaveRecords] /\ save'[s].at = "update"
      /\ save'[s].draft = save[s].draft /\ save'[s].expects = save[s].expects
      /\ \A u \in Saves \ {s} : save'[u] = save[u]
    BY <1>1, GoesFits DEF SettingsInv
<1>3. /\ Saved(s) \in Documents /\ Saved(s).revision = save[s].expects + 1
      /\ Saved(s).clients = save[s].draft.clients /\ Saved(s).default = save[s].draft.default
      /\ Saved(s).mixed = save[s].draft.mixed
    BY SavedFits DEF SettingsInv
<1>4. SettingsTypeOK'
    BY <1>1, <1>2, <1>3 DEF SettingsInv, SettingsTypeOK
<1>5. CheckedDrafts'
    BY <1>1, <1>2 DEF SettingsInv, CheckedDrafts, ValidSettings
<1>6. StoredIsValid'
    <2>1. ValidSettings(save[s].draft) /\ EnabledDefault(save[s].draft)
        BY <1>1 DEF SettingsInv, CheckedDrafts
    <2>2. ValidSettings(Saved(s)) /\ EnabledDefault(Saved(s))
        BY <1>3, <2>1 DEF ValidSettings, PortsOf, EnabledDefault
    <2>3. EnabledDefault(file')
        BY <1>1, <2>2
    <2>4. profile' = "production" => Isolated(file)' = Saved(s)
        BY <1>1 DEF Isolated
    <2>5. profile' = "production" => Loads(file)'
        BY <2>2, <2>4 DEF Loads, ValidSettings, PortsOf
    <2> QED
        BY <2>3, <2>5 DEF StoredIsValid, EnabledDefault
<1>7. ASSUME ~departed' PROVE Follows'
    <2>0. Follows /\ file.revision = save[s].expects
        BY <1>1, <1>7 DEF SettingsInv
    <2>1. \A u \in Saves : ~Written(u)
        <3>1. file.revision \in Nat /\ Waiting(s)
            BY <1>1, SettingsAssumption DEF SettingsInv, SettingsTypeOK, Documents, Waiting
        <3>2. \A u \in Saves : Written(u) => save[s].expects < file.revision
            BY <2>0, <3>1 DEF Follows, WriterIsLast
        <3> QED
            BY <2>0, <3>1, <3>2
    <2>2. file.revision \in Nat /\ window.revision \in Nat /\ file'.revision = file.revision + 1
          /\ \A u \in Saves : save[u].expects \in Nat
        BY <1>1, <1>3, <2>0, SettingsAssumption
           DEF SettingsInv, SettingsTypeOK, Documents, SaveRecords
    <2>3. Marks(file'.clients) = {}
        BY <1>1, <1>3, <2>0 DEF Follows, DraftFollows
    <2>4. WindowFollows' /\ window'.revision < file'.revision
        BY <1>1, <2>0, <2>2 DEF Follows, WindowFollows
    <2>5. BackendFollows'
        BY <1>2 DEF BackendFollows
    <2>6. \A u \in Saves : save'[u].expects = save[u].expects
        BY <1>2
    <2>7. \A u \in Saves : Waiting(u)' => Waiting(u)
        BY <1>1, <1>2 DEF Waiting
    <2>8. \A u \in Saves : Waiting(u)' => save'[u].expects < file'.revision
        BY <2>0, <2>2, <2>6, <2>7 DEF Follows, DraftFollows
    <2>9. \A u \in Saves : DraftFollows(u)'
        <3> SUFFICES ASSUME NEW u \in Saves PROVE DraftFollows(u)'
            OBVIOUS
        <3>1. Waiting(u)' => save'[u].expects <= file'.revision /\ save'[u].expects # file'.revision
            BY <2>2, <2>6, <2>8
        <3> QED
            BY <3>1 DEF DraftFollows, Waiting
    <2>10. \A u \in Saves : Written(u)' => u = s
        BY <1>2, <2>1 DEF Written
    <2>11. Saved(s)' = Saved(s) /\ Isolated(Saved(s))' = Isolated(file)'
        BY <1>1, <1>2 DEF Saved, Isolated
    <2>12. \A u \in Saves : WriterIsLast(u)'
        BY <1>2, <2>0, <2>2, <2>4, <2>6, <2>8, <2>10, <2>11 DEF WriterIsLast
    <2> QED
        BY <2>3, <2>4, <2>5, <2>9, <2>12 DEF Follows
<1> QED
    BY <1>4, <1>5, <1>6, <1>7 DEF SettingsInv

LEMMA UpdateKeeps ==
    ASSUME SettingsInv, NEW s \in Saves, UpdateConfig(s)
    PROVE  SettingsInv'
<1>1. /\ save[s].at = "update" /\ backendHas' = Saved(s) /\ SaveGoes(s, "return")
      /\ UNCHANGED <<profile, file, window, previous, departed>>
    BY DEF UpdateConfig, SaveAt
<1>2. /\ save' \in [Saves -> SaveRecords] /\ save'[s].at = "return"
      /\ save'[s].draft = save[s].draft /\ save'[s].expects = save[s].expects
      /\ \A u \in Saves \ {s} : save'[u] = save[u]
    BY <1>1, GoesFits DEF SettingsInv
<1>3. SettingsTypeOK'
    BY <1>1, <1>2, SavedFits DEF SettingsInv, SettingsTypeOK
<1>4. CheckedDrafts'
    BY <1>1, <1>2 DEF SettingsInv, CheckedDrafts, ValidSettings
<1>5. StoredIsValid'
    BY <1>1 DEF SettingsInv, StoredIsValid, EnabledDefault, Loads, Isolated, ValidSettings
<1>6. ASSUME ~departed' PROVE Follows'
    <2>0. Follows /\ Written(s)
        BY <1>1, <1>6 DEF SettingsInv, Written
    <2>1. Marks(file'.clients) = {} /\ WindowFollows'
        BY <1>1, <2>0 DEF Follows, WindowFollows
    <2>2. \A u \in Saves : Saved(u)' = Saved(u) /\ save'[u].expects = save[u].expects
                           /\ (Waiting(u)' <=> Waiting(u)) /\ (Written(u)' <=> Written(u))
        BY <1>1, <1>2 DEF Saved, Waiting, Written
    <2>3. BackendFollows'
        BY <1>1, <2>0 DEF BackendFollows, Follows, WriterIsLast, Isolated
    <2>4. \A u \in Saves : DraftFollows(u)'
        BY <1>1, <1>2, <2>0 DEF Follows, DraftFollows, Waiting
    <2>5. \A u \in Saves : Isolated(Saved(u))' = Isolated(Saved(u))
        BY <1>1, <2>2 DEF Isolated
    <2>6. Isolated(file)' = Isolated(file)
        BY <1>1 DEF Isolated
    <2>7. \A u \in Saves : WriterIsLast(u)'
        BY <1>1, <2>0, <2>2, <2>5, <2>6 DEF Follows, WriterIsLast
    <2> QED
        BY <2>1, <2>3, <2>4, <2>7 DEF Follows
<1> QED
    BY <1>3, <1>4, <1>5, <1>6 DEF SettingsInv

LEMMA ReturnsKeeps ==
    ASSUME SettingsInv, NEW s \in Saves, SaveReturns(s)
    PROVE  SettingsInv'
<1>1. /\ save[s].at = "return" /\ window' = Redacted(Saved(s))
      /\ previous' \in {NoSettings, previous, window}
      /\ UNCHANGED <<profile, file, backendHas, departed>>
    BY DEF SaveReturns, SaveAt
<1>2. PICK place \in {"pins", "idle"} : SaveGoes(s, place)
    BY DEF SaveReturns
<1>3. /\ save' \in [Saves -> SaveRecords] /\ save'[s].at \in {"pins", "idle"}
      /\ \A u \in Saves \ {s} : save'[u] = save[u]
    BY <1>2, GoesFits DEF SettingsInv
<1>4. /\ Saved(s) \in Documents /\ Saved(s).revision = save[s].expects + 1
    BY SavedFits DEF SettingsInv
<1>5. window' \in Documents /\ window'.revision = save[s].expects + 1
      /\ DOMAIN window'.clients = DOMAIN Saved(s).clients
    BY <1>1, <1>4, RedactedFits
<1>6. SettingsTypeOK'
    BY <1>1, <1>3, <1>5, NoneFits DEF SettingsInv, SettingsTypeOK
<1>7. CheckedDrafts'
    BY <1>1, <1>3 DEF SettingsInv, CheckedDrafts, ValidSettings
<1>8. StoredIsValid'
    BY <1>1 DEF SettingsInv, StoredIsValid, EnabledDefault, Loads, Isolated, ValidSettings
<1>9. ASSUME ~departed' PROVE Follows'
    <2>0. Follows /\ Written(s)
        BY <1>1, <1>9 DEF SettingsInv, Written
    <2>1. /\ save[s].expects + 1 = file.revision /\ Isolated(Saved(s)) = Isolated(file)
          /\ \A u \in Saves : Written(u) => u = s
        BY <2>0 DEF Follows, WriterIsLast
    <2>2. file.clients = Saved(s).clients
        BY <1>4, <2>1, IsolatedFits DEF SettingsInv, SettingsTypeOK
    <2>3. WindowFollows'
        <3>1. file.revision \in Nat
            BY SettingsAssumption DEF SettingsInv, SettingsTypeOK, Documents
        <3> QED
            BY <1>1, <1>5, <2>1, <2>2, <3>1 DEF WindowFollows
    <2>4. BackendFollows'
        <3>1. \A u \in Saves : save[u].at # "update"
            BY <1>1, <2>1 DEF Written
        <3> QED
            BY <1>1, <2>0, <3>1 DEF Follows, BackendFollows, Isolated
    <2>5. \A u \in Saves : DraftFollows(u)'
        BY <1>1, <1>3, <2>0 DEF Follows, DraftFollows, Waiting
    <2>6. \A u \in Saves : ~Written(u)'
        BY <1>3, <2>1 DEF Written
    <2> QED
        BY <1>1, <2>0, <2>3, <2>4, <2>5, <2>6 DEF Follows, WriterIsLast
<1> QED
    BY <1>6, <1>7, <1>8, <1>9 DEF SettingsInv

LEMMA DismissKeeps ==
    ASSUME SettingsInv, DismissNotice
    PROVE  SettingsInv'
<1>1. previous' = NoSettings /\ UNCHANGED <<profile, file, backendHas, window, save, departed>>
    BY DEF DismissNotice
<1>2. SettingsTypeOK'
    BY <1>1, NoneFits DEF SettingsInv, SettingsTypeOK
<1>3. CheckedDrafts' /\ StoredIsValid'
    BY <1>1 DEF SettingsInv, CheckedDrafts, StoredIsValid, EnabledDefault, Loads, Isolated, ValidSettings
<1>4. Follows => Follows'
    BY <1>1 DEF Follows, WindowFollows, BackendFollows, DraftFollows, WriterIsLast, Waiting, Written,
                Isolated, Saved
<1> QED
    BY <1>1, <1>2, <1>3, <1>4 DEF SettingsInv

LEMMA RestartKeeps ==
    ASSUME SettingsInv, SettingsRestart
    PROVE  SettingsInv'
<1>1. /\ Loads(file) /\ file' = Isolated(file) /\ backendHas' = Isolated(file)
      /\ window' = Redacted(Isolated(file)) /\ previous' = NoSettings
      /\ save' = [s \in Saves |-> NoSave] /\ UNCHANGED <<profile, departed>>
    BY DEF SettingsRestart
<1>2. /\ StoredIsValid' /\ file' \in Documents /\ file'.clients = file.clients
      /\ file'.revision = file.revision
      /\ Isolated(file)' = Isolated(file)
    BY <1>1, IsolatedKeeps DEF SettingsInv, SettingsTypeOK
<1>3. /\ window' \in Documents /\ window'.revision = file'.revision
      /\ DOMAIN window'.clients = DOMAIN file'.clients
    BY <1>1, <1>2, RedactedFits
<1>4. save' \in [Saves -> SaveRecords] /\ \A s \in Saves : save'[s].at = "idle"
    BY <1>1, NoneFits
<1>5. SettingsTypeOK'
    BY <1>1, <1>2, <1>3, <1>4, NoneFits DEF SettingsInv, SettingsTypeOK
<1>6. CheckedDrafts'
    BY <1>4 DEF CheckedDrafts
<1>7. \A s \in Saves : DraftFollows(s)' /\ WriterIsLast(s)'
    BY <1>4 DEF DraftFollows, WriterIsLast, Waiting, Written
<1>8. WindowFollows' /\ BackendFollows'
    BY <1>1, <1>2, <1>3, SettingsAssumption DEF WindowFollows, BackendFollows, Documents
<1>9. ~departed' => Marks(file'.clients) = {}
    BY <1>1, <1>2 DEF SettingsInv, Follows
<1> QED
    BY <1>2, <1>5, <1>6, <1>7, <1>8, <1>9 DEF SettingsInv, Follows

LEMMA SettingsInitHolds == SettingsInit => SettingsInv
<1> SUFFICES ASSUME SettingsInit PROVE SettingsInv
    OBVIOUS
<1>0. PICK ids \in SUBSET ClientIds : \E port \in [ids -> Ports] : \E first \in ids :
        file = Migrated([i \in ids |-> NewClient("own", port[i])], first)
    BY DEF SettingsInit
<1>1. PICK port \in [ids -> Ports], first \in ids :
        file = Migrated([i \in ids |-> NewClient("own", port[i])], first)
    BY <1>0
<1> DEFINE f == [i \in ids |-> NewClient("own", port[i])]
<1>2. f \in [ids -> ClientRecords] /\ \A i \in ids : f[i].secret = "own" /\ f[i].enabled
    BY NewClientFits DEF Secrets
<1>3. f \in ClientMaps /\ DOMAIN f = ids
    BY <1>2, MapMade
<1> HIDE DEF f
<1>4. file.clients = f /\ file.default = first /\ file \in Documents
    BY <1>1, <1>3, SettingsAssumption DEF Migrated, Documents, f
<1>5. Marks(file.clients) = {} /\ EnabledDefault(file)
    BY <1>2, <1>3, <1>4 DEF Marks, EnabledDefault, Echo
<1>6. /\ backendHas \in Documents /\ backendHas.clients = file.clients
      /\ backendHas.revision = file.revision /\ Isolated(backendHas) = Isolated(file)
    BY <1>4, IsolatedFits DEF SettingsInit
<1>7. /\ window \in Documents /\ window.revision = file.revision
      /\ DOMAIN window.clients = DOMAIN file.clients
    BY <1>4, <1>6, IsolatedFits, RedactedFits DEF SettingsInit
<1>8. save \in [Saves -> SaveRecords] /\ \A s \in Saves : save[s].at = "idle"
    BY NoneFits DEF SettingsInit
<1>9. SettingsTypeOK
    BY <1>4, <1>6, <1>7, <1>8, NoneFits DEF SettingsInit, SettingsTypeOK
<1>10. CheckedDrafts /\ StoredIsValid
    BY <1>5, <1>8 DEF SettingsInit, CheckedDrafts, StoredIsValid
<1>11. \A s \in Saves : DraftFollows(s) /\ WriterIsLast(s)
    BY <1>8 DEF DraftFollows, WriterIsLast, Waiting, Written
<1>12. WindowFollows /\ BackendFollows
    BY <1>4, <1>6, <1>7, SettingsAssumption DEF WindowFollows, BackendFollows, Documents
<1> QED
    BY <1>5, <1>9, <1>10, <1>11, <1>12 DEF SettingsInv, Follows

LEMMA SettingsStep == SettingsInv /\ [SettingsNext]_settingsVars => SettingsInv'
<1> SUFFICES ASSUME SettingsInv, [SettingsNext]_settingsVars PROVE SettingsInv'
    OBVIOUS
<1>1. ASSUME NEW s \in Saves, SaveStep(s) PROVE SettingsInv'
    BY <1>1, EditKeeps, DeleteKeeps, RevertKeeps, ChecksKeeps, SaveRefusedKeeps, WritesKeeps, UpdateKeeps,
       ReturnsKeeps, RestoreKeeps DEF SaveStep
<1>2. CASE UNCHANGED settingsVars
    <2>1. SettingsTypeOK'
        BY <1>2 DEF SettingsInv, SettingsTypeOK, settingsVars
    <2>2. CheckedDrafts' /\ StoredIsValid'
        BY <1>2 DEF SettingsInv, CheckedDrafts, StoredIsValid, EnabledDefault, Loads, Isolated,
                    ValidSettings, settingsVars
    <2>3. Follows => Follows'
        BY <1>2 DEF Follows, WindowFollows, BackendFollows, DraftFollows, WriterIsLast, Waiting, Written,
                    Isolated, Saved, settingsVars
    <2> QED
        BY <1>2, <2>1, <2>2, <2>3 DEF SettingsInv, settingsVars
<1> QED
    BY <1>1, <1>2, RestartKeeps, DismissKeeps DEF SettingsNext

LEMMA SettingsInvIsEnough == SettingsInv => SettingsInvariant
<1> SUFFICES ASSUME SettingsInv PROVE SettingsInvariant
    OBVIOUS
<1>1. SettingsTypeOK /\ StoredSettingsLoad
    BY DEF SettingsInv, StoredIsValid, StoredSettingsLoad
<1>2. DefaultIsEnabled
    BY DEF SettingsInv, StoredIsValid, EnabledDefault, DefaultIsEnabled
<1>3. SecretsKept
    BY DEF SettingsInv, Follows, Marks, SecretsKept
<1>4. BackendHasStored
    BY DEF SettingsInv, Follows, BackendFollows, BackendHasStored, SaveAt
<1> QED
    BY <1>1, <1>2, <1>3, <1>4 DEF SettingsInvariant

\* For any clients, ports and number of saves at once: the stored document
\* loads, its default is enabled, no secret is lost to the mark and the backend
\* works with what is stored, but for the departures that the history records.
THEOREM SettingsInvariantHolds == SettingsSpec => []SettingsInvariant
BY SettingsInitHolds, SettingsStep, SettingsInvIsEnough, PTL DEF SettingsSpec

-----------------------------------------------------------------------------
(* RuleStore: what a document is made of.                                   *)

\* A set of natural numbers that is not empty has a least element.
LEMMA NatsAreOrdered ==
    \A U \in SUBSET Nat : U # {} => \E x \in U : \A y \in U : x <= y
<1>1. IsWellFoundedOn({ss \in Nat \X Nat : ss[1] < ss[2]}, Nat)
    BY NatLessThanWellFounded DEF OpToRel
<1> SUFFICES ASSUME NEW U \in SUBSET Nat, U # {}
             PROVE  \E x \in U : \A y \in U : x <= y
    OBVIOUS
<1>2. PICK x \in U : \A y \in U : ~ (<<y, x>> \in {ss \in Nat \X Nat : ss[1] < ss[2]})
    BY <1>1, WFMin
<1>3. \A y \in U : ~(y < x)
    BY <1>2
<1> QED
    BY <1>3

\* Pins, lists and documents of any size.
PinRecords == [host : Hosts, to : Outbounds, list : Nat]
ListMaps == UNION {[ids -> Outbounds] : ids \in SUBSET Nat}
Docs == [revision : Nat, pins : SUBSET PinRecords, lists : ListMaps]

\* No host has two pins.
OnePin(d) == \A p, q \in d.pins : p.host = q.host => p = q

\* A document whose lists have numbers up to n.
Fits(d, n) ==
    /\ d \in Docs /\ OnePin(d)
    /\ DOMAIN d.lists \subseteq 1..n /\ \A p \in d.pins : p.list <= n

\* What an edit makes of a document, when n is the number of the last list.
Made(d, e, n) ==
    /\ \E m \in Nat : n <= m /\ Fits(e, m) /\ m \in DOMAIN e.lists \union {n}
    /\ PinsMatchTheirList(d) => PinsMatchTheirList(e)
    /\ e = d \/ e.revision = d.revision + 1

\* The largest number of a set, and the smallest.
LEMMA MaxIs ==
    ASSUME NEW S \in SUBSET Nat, NEW m \in S, \A y \in S : y <= m
    PROVE  Max(S) = m
<1>1. Max(S) \in S /\ \A y \in S : Max(S) >= y
    BY DEF Max
<1>2. Max(S) \in Nat /\ m \in Nat /\ Max(S) >= m /\ Max(S) <= m
    BY <1>1
<1> HIDE DEF Max
<1> QED
    BY <1>2

LEMMA MinIsIn ==
    ASSUME NEW S \in SUBSET Nat, S # {}
    PROVE  Min(S) \in S
BY NatsAreOrdered DEF Min

LEMMA MapsAreMaps ==
    ASSUME NEW d \in Docs
    PROVE  d.lists \in [DOMAIN d.lists -> Outbounds] /\ DOMAIN d.lists \subseteq Nat
BY DEF Docs, ListMaps

\* What is made of a document has its last list last.
LEMMA MadeIsNumbered ==
    ASSUME created \in Nat, NEW d, NEW e, Made(d, e, created)
    PROVE  LastList(e) \in Nat /\ created <= LastList(e) /\ Fits(e, LastList(e))
<1>1. PICK m \in Nat : created <= m /\ Fits(e, m) /\ m \in DOMAIN e.lists \union {created}
    BY DEF Made
<1>2. LastList(e) = m
    <2> DEFINE S == DOMAIN e.lists \union {created}
    <2>1. S \in SUBSET Nat /\ m \in S /\ \A y \in S : y <= m
        BY <1>1 DEF Fits
    <2> HIDE DEF S
    <2>2. Max(S) = m
        BY <2>1, MaxIs
    <2> QED
        BY <2>2 DEF LastList, S
<1> QED
    BY <1>1, <1>2

\* A document without new lists leaves the last number as it is.
LEMMA LastListIsCreated ==
    ASSUME created \in Nat, NEW d, Fits(d, created)
    PROVE  LastList(d) = created
<1> DEFINE S == DOMAIN d.lists \union {created}
<1>1. S \in SUBSET Nat /\ created \in S /\ \A y \in S : y <= created
    BY DEF Fits
<1> HIDE DEF S
<1>2. Max(S) = created
    BY <1>1, MaxIs
<1> QED
    BY <1>2 DEF LastList, S

\* A document that fits is one of RuleTypeOK.
LEMMA FitsIsDocument ==
    ASSUME created \in Nat, NEW d, Fits(d, created), d.revision <= MaxRevision + 1
    PROVE  IsDocument(d)
<1>1. d \in Docs /\ MaxRevision \in Nat
    BY RuleAssumption DEF Fits
<1>2. DOMAIN d = {"revision", "pins", "lists"} /\ d.revision \in 0..(MaxRevision + 1)
    BY <1>1 DEF Docs
<1>3. d.pins \subseteq Pins
    <2> SUFFICES ASSUME NEW p \in d.pins PROVE p \in Pins
        OBVIOUS
    <2>1. p \in PinRecords /\ p.list <= created
        BY <1>1 DEF Fits, Docs
    <2>2. p = Pin(p.host, p.to, p.list) /\ p.list \in Lists \union {NoList}
        BY <2>1 DEF PinRecords, Pin, Lists, NoList
    <2> QED
        BY <2>1, <2>2 DEF Pins, PinRecords
<1> QED
    BY <1>1, <1>2, <1>3, MapsAreMaps DEF IsDocument, Fits, Lists

\* A larger number of the last list takes nothing away.
LEMMA FitsGrows ==
    ASSUME NEW d, NEW n \in Nat, NEW m \in Nat, n <= m, Fits(d, n)
    PROVE  Fits(d, m)
<1>1. \A p \in d.pins : p.list \in Nat
    BY DEF Fits, Docs, PinRecords
<1> QED
    BY <1>1 DEF Fits

\* The next revision of a document.
LEMMA Bumped ==
    ASSUME NEW d \in Docs
    PROVE  /\ Bump(d) \in Docs /\ Bump(d).revision = d.revision + 1
           /\ Bump(d).pins = d.pins /\ Bump(d).lists = d.lists
BY DEF Bump, Docs

-----------------------------------------------------------------------------
(* The edits.                                                               *)

\* pin and pin_to_list: the pins of the host, and those that come with it.
LEMMA PinnedInto ==
    ASSUME NEW n \in Nat, NEW d, Fits(d, n), NEW host \in Hosts, NEW to \in Outbounds,
           NEW list \in 0..n
    PROVE  LET e == PinInto(d, host, to, list)
           IN  /\ Fits(e, n) /\ e.lists = d.lists
               /\ PinsMatchTheirList(d) /\ list \in DOMAIN d.lists /\ d.lists[list] = to
                     => PinsMatchTheirList(e)
               /\ \/ e = d /\ Pin(host, to, list) \in d.pins
                  \/ e.revision = d.revision + 1
<1> DEFINE new == Pin(host, to, list)
           friends == Companions(d, host, to, list)
           pins == (d.pins \ PinOf(d, host)) \union {new} \union friends
           e == PinInto(d, host, to, list)
<1>1. d \in Docs /\ OnePin(d)
    BY DEF Fits
<1>2. new \in PinRecords /\ new.host = host /\ new.to = to /\ new.list = list
    BY DEF Pin, PinRecords
<1>3. \A p \in friends : /\ p \in PinRecords /\ p.to = to /\ p.list = list /\ p.host # host
                         /\ \A q \in d.pins : q.host # p.host
    BY DEF Companions, Pin, PinRecords, PinOf
<1>4. \A p, q \in friends : p.host = q.host => p = q
    BY DEF Companions, Pin
<1>5. \A p \in d.pins \ PinOf(d, host) : p \in PinRecords /\ p.host # host /\ p.list <= n
    BY DEF PinOf, Fits, Docs
<1>6. \A p, q \in pins : p.host = q.host => p = q
    <2> HIDE DEF new, friends
    <2> QED
        BY <1>1, <1>2, <1>3, <1>4, <1>5 DEF OnePin
<1>7. pins \subseteq PinRecords /\ \A p \in pins : p.list <= n
    <2> HIDE DEF new, friends
    <2> QED
        BY <1>2, <1>3, <1>5
<1>8. CASE pins = d.pins
    <2>1. e = d
        BY <1>8 DEF PinInto
    <2>2. new \in d.pins
        BY <1>8
    <2> QED
        BY <2>1, <2>2
<1>9. CASE pins # d.pins
    <2>1. e = Bump([d EXCEPT !.pins = pins])
        BY <1>9 DEF PinInto
    <2> HIDE DEF e, pins
    <2>2. e \in Docs /\ e.pins = pins /\ e.lists = d.lists /\ e.revision = d.revision + 1
        <3> DEFINE c == [d EXCEPT !.pins = pins]
        <3>1. c \in Docs /\ c.pins = pins /\ c.lists = d.lists /\ c.revision = d.revision
            BY <1>1, <1>7 DEF Docs
        <3> HIDE DEF c
        <3> QED
            BY <2>1, <3>1, Bumped DEF c
    <2>3. Fits(e, n)
        BY <1>6, <1>7, <2>2 DEF Fits, OnePin
    <2>4. ASSUME PinsMatchTheirList(d), list \in DOMAIN d.lists, d.lists[list] = to
          PROVE  PinsMatchTheirList(e)
        <3> SUFFICES ASSUME NEW p \in pins PROVE p.list \in DOMAIN d.lists /\ d.lists[p.list] = p.to
            BY <2>2 DEF PinsMatchTheirList
        <3> HIDE DEF new, friends
        <3>1. CASE p \in d.pins
            BY <2>4, <3>1 DEF PinsMatchTheirList
        <3>2. CASE p = new \/ p \in friends
            BY <1>2, <1>3, <2>4, <3>2
        <3> QED
            BY <3>1, <3>2 DEF pins
    <2> HIDE DEF Fits, PinsMatchTheirList
    <2> QED
        BY <2>2, <2>3, <2>4 DEF e
<1> QED
    BY <1>8, <1>9

\* A list of its own for an outbound that has none.
LEMMA Listed ==
    ASSUME created \in Nat, NEW d, Fits(d, created), NEW to \in Outbounds
    PROVE  LET e == WithList(d, to)
           IN  /\ Fits(e, created + 1) /\ created + 1 \in DOMAIN e.lists
               /\ e.lists[created + 1] = to /\ e.pins = d.pins /\ e.revision = d.revision
               /\ (PinsMatchTheirList(d) => PinsMatchTheirList(e))
<1> DEFINE new == created + 1
           e == WithList(d, to)
           lists == [l \in DOMAIN d.lists \union {new} |-> IF l = new THEN to ELSE d.lists[l]]
<1>1. d \in Docs /\ OnePin(d) /\ DOMAIN d.lists \subseteq 1..created
    BY DEF Fits
<1>2. e = [d EXCEPT !.lists = lists]
    BY LastListIsCreated DEF WithList
<1>3. lists \in ListMaps
    <2>1. lists \in [DOMAIN d.lists \union {new} -> Outbounds]
        BY <1>1, MapsAreMaps
    <2>2. DOMAIN d.lists \union {new} \in SUBSET Nat
        BY <1>1
    <2> QED
        BY <2>1, <2>2 DEF ListMaps
<1>4. /\ DOMAIN lists = DOMAIN d.lists \union {new} /\ lists[new] = to
      /\ \A l \in DOMAIN d.lists : lists[l] = d.lists[l]
    BY <1>1
<1> HIDE DEF lists, e
<1>5. e \in Docs /\ e.pins = d.pins /\ e.lists = lists /\ e.revision = d.revision
    BY <1>1, <1>2, <1>3 DEF Docs
<1>6. Fits(e, new)
    <2>1. \A p \in d.pins : p.list \in Nat /\ p.list <= created
        BY <1>1 DEF Fits, Docs, PinRecords
    <2>2. DOMAIN lists \subseteq 1..new /\ \A p \in d.pins : p.list <= new
        BY <1>1, <1>4, <2>1
    <2> QED
        BY <1>1, <1>5, <2>2 DEF Fits, OnePin
<1>7. PinsMatchTheirList(d) => PinsMatchTheirList(e)
    BY <1>4, <1>5 DEF PinsMatchTheirList
<1> QED
    BY <1>4, <1>5, <1>6, <1>7 DEF e

\* pin_route, which makes the list that it needs.
LEMMA PinRouteMakes ==
    ASSUME created \in Nat, NEW d, Fits(d, created), NEW host \in Hosts, NEW to \in Outbounds
    PROVE  Made(d, PinRoute(d, host, to), created)
<1> DEFINE listed == WithDefaultList(d, to)
           list == DefaultList(listed, to)
           e == PinRoute(d, host, to)
<1>1. e = PinInto(listed, host, to, list)
    BY DEF PinRoute
<1>2. CASE ListsOf(d, to) # {}
    <2>1. listed = d
        BY <1>2 DEF WithDefaultList
    <2>2. ListsOf(d, to) \in SUBSET Nat
        BY DEF ListsOf, Fits
    <2>3. list \in ListsOf(d, to)
        BY <1>2, <2>1, <2>2, MinIsIn DEF DefaultList
    <2>4. list \in DOMAIN d.lists /\ d.lists[list] = to /\ list \in 0..created
        BY <2>3 DEF ListsOf, Fits
    <2> HIDE DEF list, listed, e
    <2>5. /\ Fits(e, created) /\ (PinsMatchTheirList(d) => PinsMatchTheirList(e))
          /\ e = d \/ e.revision = d.revision + 1
        BY <1>1, <2>1, <2>4, PinnedInto
    <2> QED
        BY <2>5 DEF Made, e
<1>3. CASE ListsOf(d, to) = {}
    <2>1. listed = WithList(d, to)
        BY <1>3 DEF WithDefaultList
    <2> HIDE DEF listed
    <2>2. /\ Fits(listed, created + 1) /\ created + 1 \in DOMAIN listed.lists
          /\ listed.lists[created + 1] = to /\ listed.pins = d.pins /\ listed.revision = d.revision
          /\ (PinsMatchTheirList(d) => PinsMatchTheirList(listed))
        BY <2>1, Listed
    <2>3. ListsOf(listed, to) = {created + 1}
        <3>1. \A l \in DOMAIN listed.lists : l = created + 1 \/ (l \in DOMAIN d.lists /\ listed.lists[l] = d.lists[l])
            BY <2>1, LastListIsCreated DEF WithList, Fits, Docs
        <3> QED
            BY <1>3, <2>2, <3>1 DEF ListsOf
    <2>4. list = created + 1
        BY <2>3, MinIsIn DEF DefaultList
    <2> HIDE DEF list, e
    <2>5. /\ Fits(e, created + 1) /\ e.lists = listed.lists
          /\ (PinsMatchTheirList(listed) => PinsMatchTheirList(e))
          /\ \/ e = listed /\ Pin(host, to, list) \in listed.pins
             \/ e.revision = listed.revision + 1
        <3>1. list \in 0..(created + 1) /\ list \in DOMAIN listed.lists /\ listed.lists[list] = to
            BY <2>2, <2>4
        <3> QED
            BY <1>1, <2>2, <3>1, PinnedInto
    <2>6. Pin(host, to, list) \notin d.pins
        BY <2>4 DEF Fits, Pin
    <2>7. e.revision = d.revision + 1
        BY <2>2, <2>5, <2>6
    <2> QED
        BY <2>2, <2>5, <2>7 DEF Made, e
<1> QED
    BY <1>2, <1>3

\* What takes pins and lists away, or moves pins to other outbounds, numbers
\* no list.
LEMMA KeepsNumbers ==
    ASSUME NEW n \in Nat, NEW d, Fits(d, n), NEW e \in Docs,
           OnePin(e), DOMAIN e.lists \subseteq DOMAIN d.lists,
           \A p \in e.pins : p.list <= n,
           PinsMatchTheirList(d) => PinsMatchTheirList(e),
           e = d \/ e.revision = d.revision + 1
    PROVE  Made(d, e, n)
<1>1. Fits(e, n)
    BY DEF Fits
<1> QED
    BY <1>1 DEF Made

\* rename_list and refresh.
LEMMA BumpMakes ==
    ASSUME NEW n \in Nat, NEW d, Fits(d, n)
    PROVE  Made(d, Bump(d), n)
<1>1. d \in Docs
    BY DEF Fits
<1> QED
    BY <1>1, Bumped, KeepsNumbers DEF Fits, OnePin, PinsMatchTheirList

\* unpin.
LEMMA UnpinMakes ==
    ASSUME NEW n \in Nat, NEW d, Fits(d, n), NEW host
    PROVE  Made(d, Unpin(d, host), n)
<1> DEFINE c == [d EXCEPT !.pins = @ \ PinOf(d, host)]
<1>1. d \in Docs
    BY DEF Fits
<1>2. c \in Docs /\ c.pins = d.pins \ PinOf(d, host) /\ c.lists = d.lists /\ c.revision = d.revision
    BY <1>1 DEF Docs
<1>3. Unpin(d, host) = d \/ Unpin(d, host) = Bump(c)
    BY DEF Unpin
<1>4. Made(d, d, n)
    BY <1>1, KeepsNumbers DEF Fits
<1> HIDE DEF c
<1>5. Made(d, Bump(c), n)
    BY <1>2, Bumped, KeepsNumbers DEF Fits, OnePin, PinsMatchTheirList
<1> QED
    BY <1>3, <1>4, <1>5

\* delete_list.
LEMMA DeleteListMakes ==
    ASSUME NEW n \in Nat, NEW d, Fits(d, n), NEW list
    PROVE  Made(d, DeleteList(d, list), n)
<1> DEFINE lists == Without(d.lists, {list})
           c == [d EXCEPT !.lists = lists, !.pins = {p \in @ : p.list # list}]
<1>1. d \in Docs
    BY DEF Fits
<1>2. lists \in ListMaps /\ DOMAIN lists = DOMAIN d.lists \ {list}
      /\ \A l \in DOMAIN lists : lists[l] = d.lists[l]
    <2>1. lists \in [DOMAIN d.lists \ {list} -> Outbounds]
        BY <1>1, MapsAreMaps DEF Without
    <2>2. DOMAIN d.lists \ {list} \in SUBSET Nat
        BY <1>1, MapsAreMaps
    <2> QED
        BY <2>1, <2>2 DEF ListMaps, Without
<1>3. DeleteList(d, list) = Bump(c)
    BY DEF DeleteList
<1> HIDE DEF lists
<1>4. /\ c \in Docs /\ c.pins = {p \in d.pins : p.list # list} /\ c.lists = lists
      /\ c.revision = d.revision
    BY <1>1, <1>2 DEF Docs
<1> HIDE DEF c
<1> QED
    BY <1>1, <1>2, <1>3, <1>4, Bumped, KeepsNumbers DEF Fits, OnePin, PinsMatchTheirList

\* Each pin changed on its own, but for its host.
RewrittenBy(f, d, pins, n) ==
    /\ \A q \in d.pins : f[q] \in PinRecords /\ f[q].host = q.host /\ f[q].list <= n
    /\ \A p \in pins : \E q \in d.pins : p = f[q]

PinSets(n) == {pins \in SUBSET PinRecords :
                 /\ \A p \in pins : p.list <= n
                 /\ \A p, q \in pins : p.host = q.host => p = q}

LEMMA Rewritten ==
    ASSUME NEW n \in Nat, NEW d, Fits(d, n), NEW f, NEW pins, RewrittenBy(f, d, pins, n)
    PROVE  pins \in PinSets(n)
<1>1. /\ \A p \in pins : \E q \in d.pins : p = f[q]
      /\ \A q \in d.pins : f[q] \in PinRecords /\ f[q].host = q.host /\ f[q].list <= n
    BY DEF RewrittenBy
<1>2. \A p, q \in pins : p.host = q.host => p = q
    <2> SUFFICES ASSUME NEW p \in pins, NEW q \in pins, p.host = q.host PROVE p = q
        OBVIOUS
    <2>1. PICK p1 \in d.pins : p = f[p1]
        BY <1>1
    <2>2. PICK q1 \in d.pins : q = f[q1]
        BY <1>1
    <2>3. p1 = q1
        BY <1>1, <2>1, <2>2 DEF Fits, OnePin
    <2> QED
        BY <2>1, <2>2, <2>3
<1>3. pins \in SUBSET PinRecords /\ \A p \in pins : p.list <= n
    BY <1>1
<1> QED
    BY <1>2, <1>3 DEF PinSets

\* set_list_outbound.
LEMMA SetListOutboundMakes ==
    ASSUME NEW n \in Nat, NEW d, Fits(d, n), NEW list \in DOMAIN d.lists, NEW to \in Outbounds
    PROVE  Made(d, SetListOutbound(d, list, to), n)
<1> DEFINE f == [p \in d.pins |-> IF p.list = list THEN [p EXCEPT !.to = to] ELSE p]
           pins == {f[p] : p \in d.pins}
           lists == [d.lists EXCEPT ![list] = to]
           c == [d EXCEPT !.lists = lists, !.pins = pins]
<1>1. d \in Docs /\ \A q \in d.pins : q \in PinRecords /\ q.list <= n
    BY DEF Fits, Docs
<1>2. SetListOutbound(d, list, to) = Bump(c)
    <2>1. pins = {IF p.list = list THEN [p EXCEPT !.to = to] ELSE p : p \in d.pins}
        OBVIOUS
    <2> HIDE DEF pins
    <2> QED
        BY <2>1 DEF SetListOutbound
<1>3. lists \in ListMaps /\ DOMAIN lists = DOMAIN d.lists /\ lists[list] = to
      /\ \A l \in DOMAIN lists \ {list} : lists[l] = d.lists[l]
    <2>1. lists \in [DOMAIN d.lists -> Outbounds]
        BY <1>1, MapsAreMaps
    <2> QED
        BY <1>1, <2>1, MapsAreMaps DEF ListMaps
<1>4. \A q \in d.pins : /\ f[q] \in PinRecords /\ f[q].host = q.host /\ f[q].list <= n
                        /\ f[q].list = q.list
                        /\ f[q].to = IF q.list = list THEN to ELSE q.to
    BY <1>1 DEF PinRecords
<1>5. \A p \in pins : \E q \in d.pins : p = f[q]
    OBVIOUS
<1> HIDE DEF f, pins, lists
<1>6. /\ pins \in SUBSET PinRecords /\ \A p \in pins : p.list <= n
      /\ \A p, q \in pins : p.host = q.host => p = q
    <2>1. RewrittenBy(f, d, pins, n)
        BY <1>4, <1>5 DEF RewrittenBy
    <2>2. pins \in PinSets(n)
        BY <2>1, Rewritten
    <2> QED
        BY <2>2 DEF PinSets
<1>7. c \in Docs /\ c.pins = pins /\ c.lists = lists /\ c.revision = d.revision
    BY <1>1, <1>3, <1>6 DEF Docs
<1>8. ASSUME PinsMatchTheirList(d) PROVE PinsMatchTheirList(c)
    <2> SUFFICES ASSUME NEW p \in pins PROVE p.list \in DOMAIN lists /\ lists[p.list] = p.to
        BY <1>7 DEF PinsMatchTheirList
    <2>1. PICK q \in d.pins : p = f[q]
        BY <1>5
    <2>2. q.list \in DOMAIN d.lists /\ d.lists[q.list] = q.to
        BY <1>8 DEF PinsMatchTheirList
    <2>3. p.list = q.list /\ p.to = IF q.list = list THEN to ELSE q.to
        BY <1>4, <2>1
    <2> QED
        BY <1>3, <2>2, <2>3
<1> HIDE DEF c
<1>9. /\ Bump(c) \in Docs /\ OnePin(Bump(c)) /\ DOMAIN Bump(c).lists \subseteq DOMAIN d.lists
      /\ (\A p \in Bump(c).pins : p.list <= n) /\ Bump(c).revision = d.revision + 1
      /\ (PinsMatchTheirList(d) => PinsMatchTheirList(Bump(c)))
    BY <1>3, <1>6, <1>7, <1>8, Bumped DEF OnePin, PinsMatchTheirList
<1> QED
    BY <1>2, <1>9, KeepsNumbers

\* create_list.
LEMMA ListedMakes ==
    ASSUME created \in Nat, NEW d, Fits(d, created), NEW to \in Outbounds
    PROVE  Made(d, Bump(WithList(d, to)), created)
<1> DEFINE c == WithList(d, to)
<1>1. /\ Fits(c, created + 1) /\ created + 1 \in DOMAIN c.lists /\ c.revision = d.revision
      /\ (PinsMatchTheirList(d) => PinsMatchTheirList(c))
    BY Listed
<1> HIDE DEF c
<1>2. c \in Docs
    BY <1>1 DEF Fits
<1>3. /\ Fits(Bump(c), created + 1) /\ created + 1 \in DOMAIN Bump(c).lists
      /\ Bump(c).revision = d.revision + 1
      /\ (PinsMatchTheirList(d) => PinsMatchTheirList(Bump(c)))
    BY <1>1, <1>2, Bumped DEF Fits, OnePin, PinsMatchTheirList
<1> QED
    BY <1>3 DEF Made, c

\* discard_client_pins.
LEMMA DeleteClientPinsMakes ==
    ASSUME NEW n \in Nat, NEW d, Fits(d, n), NEW client
    PROVE  Made(d, DeleteClientPins(d, client), n)
<1> DEFINE lists == Without(d.lists, ListsOf(d, client))
           c == [d EXCEPT !.pins = {p \in @ : p.to # client}, !.lists = lists]
<1>1. d \in Docs
    BY DEF Fits
<1>2. /\ lists \in ListMaps /\ DOMAIN lists = DOMAIN d.lists \ ListsOf(d, client)
      /\ \A l \in DOMAIN lists : lists[l] = d.lists[l]
    <2>1. lists \in [DOMAIN d.lists \ ListsOf(d, client) -> Outbounds]
        BY <1>1, MapsAreMaps DEF Without
    <2>2. DOMAIN d.lists \ ListsOf(d, client) \in SUBSET Nat
        BY <1>1, MapsAreMaps
    <2> QED
        BY <2>1, <2>2 DEF ListMaps, Without
<1>3. DeleteClientPins(d, client) = d \/ DeleteClientPins(d, client) = Bump(c)
    BY DEF DeleteClientPins
<1> HIDE DEF lists
<1>4. /\ c \in Docs /\ c.pins = {p \in d.pins : p.to # client} /\ c.lists = lists
      /\ c.revision = d.revision
    BY <1>1, <1>2 DEF Docs
<1>5. PinsMatchTheirList(d) => PinsMatchTheirList(c)
    BY <1>2, <1>4 DEF PinsMatchTheirList, ListsOf
<1> HIDE DEF c
<1>6. /\ Bump(c) \in Docs /\ OnePin(Bump(c)) /\ DOMAIN Bump(c).lists \subseteq DOMAIN d.lists
      /\ (\A p \in Bump(c).pins : p.list <= n) /\ Bump(c).revision = d.revision + 1
      /\ (PinsMatchTheirList(d) => PinsMatchTheirList(Bump(c)))
    BY <1>2, <1>4, <1>5, Bumped DEF Fits, OnePin, PinsMatchTheirList
<1>7. Made(d, d, n)
    BY <1>1, KeepsNumbers DEF Fits
<1> QED
    BY <1>3, <1>6, <1>7, KeepsNumbers

-----------------------------------------------------------------------------
(* The migration.                                                           *)

Missing(d) == {p.to : p \in {q \in d.pins : ListsOf(d, q.to) = {}}}

\* What a document becomes when the lists up to m are added to those up to n.
Grown(d, e, n, m) ==
    /\ m \in Nat /\ n <= m /\ Fits(e, m) /\ m \in DOMAIN e.lists \union {n}
    /\ e.revision = d.revision

\* The outbounds that have pins and no list.
LEMMA MissingAreFinite ==
    ASSUME NEW d \in Docs
    PROVE  Missing(d) \subseteq Outbounds /\ IsFiniteSet(Missing(d))
<1>1. Missing(d) \in SUBSET Outbounds
    BY DEF Missing, Docs, PinRecords
<1>2. IsFiniteSet(Outbounds)
    <2>1. IsFiniteSet(PinClients) /\ IsFiniteSet({"direct"})
        BY RuleAssumption, FS_Singleton
    <2> QED
        BY <2>1, FS_Union DEF Outbounds
<1> QED
    BY <1>1, <1>2, FS_Subset

\* They get one list each, and every pin has a list of its outbound to go to.
LEMMA MissingListed ==
    ASSUME NEW n \in Nat, NEW d, Fits(d, n)
    PROVE  LET e == WithMissingLists(d, n)
           IN  /\ \E m \in Nat : Grown(d, e, n, m)
               /\ e.pins = d.pins
               /\ \A p \in d.pins : ListsOf(e, p.to) # {}
<1> DEFINE k == Cardinality(Missing(d))
           order == CHOOSE f \in Bijection(1..k, Missing(d)) : TRUE
           ids == DOMAIN d.lists \union {n + i : i \in DOMAIN order}
           lists == [l \in ids |-> IF l \in DOMAIN d.lists THEN d.lists[l] ELSE order[l - n]]
           e == WithMissingLists(d, n)
<1>1. d \in Docs /\ DOMAIN d.lists \subseteq 1..n /\ OnePin(d) /\ d.lists \in [DOMAIN d.lists -> Outbounds]
    BY MapsAreMaps DEF Fits
<1>2. k \in Nat /\ Bijection(1..k, Missing(d)) # {}
    BY <1>1, MissingAreFinite, FS_CardinalityType DEF ExistsBijection
<1>3. order \in Bijection(1..k, Missing(d))
    BY <1>2
<1>4. e = [d EXCEPT !.lists = lists]
    BY DEF WithMissingLists, Missing
<1> HIDE DEF order, e, k
<1>5. /\ DOMAIN order = 1..k /\ order \in [1..k -> Missing(d)]
      /\ \A to \in Missing(d) : \E i \in 1..k : order[i] = to
    BY <1>3 DEF Bijection, Injection, Surjection
<1>6. lists \in [ids -> Outbounds] /\ ids \in SUBSET Nat /\ DOMAIN lists = ids
    <2>1. \A l \in ids : lists[l] \in Outbounds
        <3> SUFFICES ASSUME NEW l \in ids PROVE lists[l] \in Outbounds
            OBVIOUS
        <3>1. CASE l \in DOMAIN d.lists
            BY <1>1, <3>1
        <3>2. CASE l \notin DOMAIN d.lists
            <4>1. PICK i \in 1..k : l = n + i
                BY <1>5, <3>2
            <4>2. l - n = i /\ lists[l] = order[i]
                BY <1>2, <3>2, <4>1
            <4> QED
                BY <1>1, <1>5, <4>2, MissingAreFinite
        <3> QED
            BY <3>1, <3>2
    <2>2. ids \in SUBSET Nat
        BY <1>1, <1>2, <1>5
    <2> QED
        BY <2>1, <2>2
<1>7. lists \in ListMaps
    BY <1>6 DEF ListMaps
<1>8. /\ \A l \in DOMAIN d.lists : l \in ids /\ lists[l] = d.lists[l]
      /\ \A i \in 1..k : n + i \in ids /\ lists[n + i] = order[i]
    <2>1. \A i \in 1..k : n + i \in ids /\ n + i \notin DOMAIN d.lists /\ (n + i) - n = i
        BY <1>1, <1>2, <1>5
    <2> QED
        BY <2>1
<1>9. ids \subseteq 1..(n + k) /\ n + k \in ids \union {n}
    <2>1. ids \subseteq 1..(n + k)
        BY <1>1, <1>2, <1>5
    <2>2. k = 0 => n + k = n
        BY <1>2
    <2>3. k # 0 => k \in 1..k
        BY <1>2
    <2> QED
        BY <1>5, <2>1, <2>2, <2>3
<1> HIDE DEF lists, ids
<1>10. e \in Docs /\ e.lists = lists /\ e.pins = d.pins /\ e.revision = d.revision
    BY <1>1, <1>4, <1>7 DEF Docs
<1>11. Grown(d, e, n, n + k)
    <2>1. \A p \in d.pins : p.list \in Nat /\ p.list <= n
        BY <1>1 DEF Fits, Docs, PinRecords
    <2>2. \A p \in d.pins : p.list <= n + k
        BY <1>2, <2>1
    <2>3. Fits(e, n + k)
        BY <1>1, <1>6, <1>9, <1>10, <2>2 DEF Fits, OnePin
    <2>4. n + k \in Nat /\ n <= n + k
        BY <1>2
    <2> QED
        BY <1>6, <1>9, <1>10, <2>3, <2>4 DEF Grown
<1>12. \A p \in d.pins : ListsOf(e, p.to) # {}
    <2> SUFFICES ASSUME NEW p \in d.pins PROVE ListsOf(e, p.to) # {}
        OBVIOUS
    <2>1. CASE ListsOf(d, p.to) # {}
        BY <1>6, <1>8, <1>10, <2>1 DEF ListsOf
    <2>2. CASE ListsOf(d, p.to) = {}
        <3>1. p.to \in Missing(d)
            BY <2>2 DEF Missing
        <3> QED
            BY <1>5, <1>6, <1>8, <1>10, <3>1 DEF ListsOf
    <2> QED
        BY <2>1, <2>2
<1> QED
    BY <1>2, <1>10, <1>11, <1>12 DEF e

\* ensure_list_membership: every pin is in a list of its outbound.
LEMMA Ensured ==
    ASSUME NEW n \in Nat, NEW d, Fits(d, n)
    PROVE  LET e == EnsureListMembership(d, n)
           IN  PinsMatchTheirList(e) /\ \E m \in Nat : Grown(d, e, n, m)
<1> DEFINE listed == WithMissingLists(d, n)
           Valid(p) == p.list \in DOMAIN listed.lists /\ listed.lists[p.list] = p.to
           f == [p \in d.pins |->
                   IF Valid(p) THEN p ELSE [p EXCEPT !.list = DefaultList(listed, p.to)]]
           pins == {f[p] : p \in d.pins}
           e == EnsureListMembership(d, n)
<1>1. /\ \E m \in Nat : Grown(d, listed, n, m)
      /\ listed.pins = d.pins /\ \A p \in d.pins : ListsOf(listed, p.to) # {}
    BY MissingListed
<1>2. e = [listed EXCEPT !.pins = pins]
    <2>1. pins = {IF Valid(p) THEN p ELSE [p EXCEPT !.list = DefaultList(listed, p.to)] : p \in listed.pins}
        BY <1>1
    <2> HIDE DEF pins
    <2> QED
        BY <2>1 DEF EnsureListMembership
<1>3. PICK m \in Nat : Grown(d, listed, n, m)
    BY <1>1
<1> HIDE DEF listed, e
<1>4. /\ listed \in Docs /\ Fits(listed, m) /\ DOMAIN listed.lists \subseteq 1..m
      /\ \A p \in d.pins : p \in PinRecords /\ p.list <= m
    BY <1>1, <1>3 DEF Grown, Fits, Docs
<1>5. \A p \in d.pins : /\ DefaultList(listed, p.to) \in DOMAIN listed.lists
                        /\ listed.lists[DefaultList(listed, p.to)] = p.to
    <2> SUFFICES ASSUME NEW p \in d.pins
                 PROVE  DefaultList(listed, p.to) \in ListsOf(listed, p.to)
        BY DEF ListsOf
    <2>1. ListsOf(listed, p.to) \in SUBSET Nat /\ ListsOf(listed, p.to) # {}
        BY <1>1, <1>4 DEF ListsOf
    <2> QED
        BY <2>1, MinIsIn DEF DefaultList
<1>6. \A p \in d.pins : /\ f[p] \in PinRecords /\ f[p].host = p.host /\ f[p].list <= m
                        /\ f[p].list \in DOMAIN listed.lists /\ listed.lists[f[p].list] = f[p].to
    <2> SUFFICES ASSUME NEW p \in d.pins
                 PROVE  /\ f[p] \in PinRecords /\ f[p].host = p.host /\ f[p].list <= m
                        /\ f[p].list \in DOMAIN listed.lists /\ listed.lists[f[p].list] = f[p].to
        OBVIOUS
    <2>1. CASE Valid(p)
        BY <1>4, <2>1
    <2>2. CASE ~Valid(p)
        <3>1. PICK l : l = DefaultList(listed, p.to)
            OBVIOUS
        <3>2. f[p] = [p EXCEPT !.list = l]
            BY <2>2, <3>1
        <3>3. l \in DOMAIN listed.lists /\ listed.lists[l] = p.to /\ l \in Nat /\ l <= m
            BY <1>3, <1>4, <1>5, <3>1
        <3>4. p \in PinRecords
            BY <1>4
        <3> HIDE DEF f, Valid
        <3> QED
            BY <3>2, <3>3, <3>4 DEF PinRecords
    <2> QED
        BY <2>1, <2>2
<1>7. \A p \in pins : \E q \in d.pins : p = f[q]
    OBVIOUS
<1> HIDE DEF f, pins
<1>8. pins \in PinSets(m)
    <2>1. Fits(d, m)
        BY <1>3, FitsGrows DEF Grown
    <2>2. RewrittenBy(f, d, pins, m)
        BY <1>6, <1>7 DEF RewrittenBy
    <2> QED
        BY <2>1, <2>2, Rewritten
<1>9. /\ e \in Docs /\ e.pins = pins /\ e.lists = listed.lists
      /\ e.revision = listed.revision
    BY <1>2, <1>4, <1>8 DEF Docs, PinSets
<1>10. PinsMatchTheirList(e)
    BY <1>6, <1>7, <1>9 DEF PinsMatchTheirList
<1>11. Grown(d, e, n, m)
    BY <1>3, <1>4, <1>8, <1>9 DEF Grown, Fits, OnePin, PinSets
<1> QED
    BY <1>10, <1>11 DEF e

\* The companions of a search pin are in its list.
LEMMA Filled ==
    ASSUME NEW n \in Nat, NEW d, Fits(d, n), PinsMatchTheirList(d)
    PROVE  LET e == FillSearchCompanions(d)
           IN  /\ Fits(e, n) /\ PinsMatchTheirList(e) /\ e.lists = d.lists
               /\ e.revision = d.revision
<1> DEFINE search == {p \in PinOf(d, Search) : p.to # "direct"}
           e == FillSearchCompanions(d)
<1>1. d \in Docs /\ OnePin(d) /\ \A p \in d.pins : p \in PinRecords /\ p.list <= n
    BY DEF Fits, Docs
<1>2. CASE search = {}
    BY <1>2 DEF FillSearchCompanions
<1>3. CASE search # {}
    <2> DEFINE chosen == CHOOSE p \in search : TRUE
               friends == Companions(d, Search, chosen.to, chosen.list)
    <2>1. chosen \in d.pins
        BY <1>3 DEF PinOf
    <2>2. e = [d EXCEPT !.pins = @ \union friends]
        BY <1>3 DEF FillSearchCompanions
    <2> HIDE DEF chosen, e
    <2>3. \A p \in friends : /\ p \in PinRecords /\ p.to = chosen.to /\ p.list = chosen.list
                             /\ \A q \in d.pins : q.host # p.host
        BY <1>1, <2>1 DEF Companions, Pin, PinRecords, PinOf
    <2>4. \A p, q \in friends : p.host = q.host => p = q
        BY DEF Companions, Pin
    <2> HIDE DEF friends
    <2>5. /\ e \in Docs /\ e.pins = d.pins \union friends /\ e.lists = d.lists
          /\ e.revision = d.revision
        BY <1>1, <2>2, <2>3 DEF Docs
    <2>6. OnePin(e)
        BY <1>1, <2>3, <2>4, <2>5 DEF OnePin
    <2>7. \A p \in e.pins : p.list <= n
        BY <1>1, <2>1, <2>3, <2>5
    <2>8. PinsMatchTheirList(e)
        BY <2>1, <2>3, <2>5 DEF PinsMatchTheirList
    <2>9. Fits(e, n)
        BY <2>5, <2>6, <2>7 DEF Fits
    <2> QED
        BY <2>5, <2>8, <2>9 DEF e
<1> QED
    BY <1>2, <1>3

\* canonicalize_document.
LEMMA CanonicalMade ==
    ASSUME NEW n \in Nat, NEW d, Fits(d, n)
    PROVE  LET e == CanonicalizeDocument(d, n)
           IN  PinsMatchTheirList(e) /\ Made(d, e, n)
<1> DEFINE listed == EnsureListMembership(d, n)
           c == FillSearchCompanions(listed)
           e == CanonicalizeDocument(d, n)
<1>1. PICK m \in Nat : Grown(d, listed, n, m) /\ PinsMatchTheirList(listed)
    BY Ensured
<1>2. e = IF c = d THEN d ELSE Bump(c)
    BY DEF CanonicalizeDocument
<1> HIDE DEF listed, e
<1>3. /\ Fits(c, m) /\ PinsMatchTheirList(c) /\ c.lists = listed.lists
      /\ c.revision = listed.revision
    <2>1. Fits(listed, m)
        BY <1>1 DEF Grown
    <2> QED
        BY <1>1, <2>1, Filled
<1> HIDE DEF c
<1>4. n <= m /\ m \in DOMAIN c.lists \union {n} /\ c.revision = d.revision
    BY <1>1, <1>3 DEF Grown
<1>5. CASE c = d
    BY <1>2, <1>3, <1>4, <1>5 DEF Made, e
<1>6. CASE c # d
    <2>1. /\ e \in Docs /\ e.revision = c.revision + 1 /\ e.pins = c.pins /\ e.lists = c.lists
        BY <1>2, <1>3, <1>6, Bumped DEF Fits
    <2>2. Fits(e, m) /\ PinsMatchTheirList(e)
        BY <1>3, <2>1 DEF Fits, OnePin, PinsMatchTheirList
    <2> QED
        BY <1>4, <2>1, <2>2 DEF Made, e
<1> QED
    BY <1>5, <1>6

\* reassign_client_pins.
LEMMA MoveClientPinsMakes ==
    ASSUME created \in Nat, NEW d, Fits(d, created), NEW client, NEW to \in Outbounds
    PROVE  Made(d, MoveClientPins(d, client, to), created)
<1> DEFINE f == [p \in d.pins |-> IF p.to = client THEN [p EXCEPT !.to = to] ELSE p]
           pins == {f[p] : p \in d.pins}
           lists == [l \in DOMAIN d.lists |-> IF d.lists[l] = client THEN to ELSE d.lists[l]]
           c == [d EXCEPT !.pins = pins, !.lists = lists]
           moved == EnsureListMembership(c, created)
           e == MoveClientPins(d, client, to)
<1>1. d \in Docs /\ \A q \in d.pins : q \in PinRecords /\ q.list <= created
    BY DEF Fits, Docs
<1>2. e = d \/ e = Bump(moved)
    <2>1. pins = {IF p.to = client THEN [p EXCEPT !.to = to] ELSE p : p \in d.pins}
        OBVIOUS
    <2>2. LastList(d) = created
        BY LastListIsCreated
    <2> HIDE DEF pins
    <2> QED
        BY <2>1, <2>2 DEF MoveClientPins
<1>3. lists \in ListMaps /\ DOMAIN lists = DOMAIN d.lists
    <2>1. lists \in [DOMAIN d.lists -> Outbounds]
        BY <1>1, MapsAreMaps
    <2> QED
        BY <1>1, <2>1, MapsAreMaps DEF ListMaps
<1>4. \A q \in d.pins : f[q] \in PinRecords /\ f[q].host = q.host /\ f[q].list <= created
    BY <1>1 DEF PinRecords
<1>5. \A p \in pins : \E q \in d.pins : p = f[q]
    OBVIOUS
<1> HIDE DEF f, pins, lists, e
<1>6. pins \in PinSets(created)
    <2>1. RewrittenBy(f, d, pins, created)
        BY <1>4, <1>5 DEF RewrittenBy
    <2> QED
        BY <2>1, Rewritten
<1>7. c \in Docs /\ c.pins = pins /\ c.lists = lists /\ c.revision = d.revision
    BY <1>1, <1>3, <1>6 DEF Docs, PinSets
<1>8. Fits(c, created)
    BY <1>3, <1>6, <1>7 DEF Fits, PinSets, OnePin
<1> HIDE DEF c
<1>9. PICK m \in Nat : Grown(c, moved, created, m) /\ PinsMatchTheirList(moved)
    BY <1>8, Ensured
<1> HIDE DEF moved
<1>10. CASE e = d
    BY <1>1, <1>10, KeepsNumbers DEF Fits, e
<1>11. CASE e = Bump(moved)
    <2>1. moved \in Docs /\ moved.revision = d.revision /\ Fits(moved, m)
        BY <1>7, <1>9 DEF Grown, Fits
    <2>2. /\ e \in Docs /\ e.revision = d.revision + 1 /\ e.pins = moved.pins
          /\ e.lists = moved.lists
        BY <1>11, <2>1, Bumped
    <2>3. Fits(e, m) /\ PinsMatchTheirList(e)
        BY <1>9, <2>1, <2>2 DEF Fits, OnePin, PinsMatchTheirList
    <2>4. created <= m /\ m \in DOMAIN e.lists \union {created}
        BY <1>9, <2>2 DEF Grown
    <2> QED
        BY <2>2, <2>3, <2>4 DEF Made, e
<1> QED
    BY <1>2, <1>10, <1>11

-----------------------------------------------------------------------------
(* The inductive invariant.                                                 *)

CallerStates == [at : {"idle", "edit", "write", "apply", "restore"}, keeps : Docs, alone : BOOLEAN]

\* A document that the file can hold next to the others of this process.
Sound(d) == Fits(d, created) /\ d.revision <= MaxRevision + 1

RuleTyped == created \in Nat /\ forked \in BOOLEAN /\ caller \in [Callers -> CallerStates]
AllSound == Sound(document) /\ \A c \in Callers : Sound(caller[c].keeps)

\* The edit of a command that is alone starts from the document it has read ...
EditsAreCurrent == \A c \in Callers : At(c, "edit") /\ caller[c].alone => document = caller[c].keeps
\* ... its copy is the next document ...
CopiesAreNext ==
    ~forked => \A c \in Callers : At(c, "write") /\ caller[c].alone =>
        PinsMatchTheirList(caller[c].keeps) /\ caller[c].keeps.revision = document.revision + 1
\* ... and it takes back one edit.
EditsAreNext ==
    \A c \in Callers : At(c, "apply") /\ caller[c].alone /\ document # caller[c].keeps =>
        document.revision = caller[c].keeps.revision + 1
\* A revision stands for one document until one is replaced out of order.
RevisionsAreDocuments ==
    ~forked => \A c \in Callers : At(c, "edit") =>
        /\ caller[c].keeps.revision <= document.revision
        /\ caller[c].keeps.revision = document.revision => caller[c].keeps = document

RuleInv == /\ RuleTyped /\ AllSound /\ ListsAgree /\ EditsAreCurrent /\ CopiesAreNext
           /\ EditsAreNext /\ RevisionsAreDocuments

\* The document of a command that reads none.
LEMMA EmptyFits ==
    ASSUME NEW n \in Nat
    PROVE  Fits(Empty, n) /\ Empty.revision = 0 /\ PinsMatchTheirList(Empty)
<1>1. Empty.lists \in [{} -> Outbounds] /\ DOMAIN Empty.lists = {}
    BY DEF Empty
<1>2. Empty.lists \in ListMaps
    BY <1>1 DEF ListMaps
<1>3. Empty \in Docs
    BY <1>2 DEF Empty, Docs
<1> QED
    BY <1>1, <1>3 DEF Empty, Fits, OnePin, PinsMatchTheirList

LEMMA IdleIsSound ==
    ASSUME NEW n \in Nat
    PROVE  /\ Idle \in CallerStates /\ Idle.at = "idle" /\ Fits(Idle.keeps, n)
           /\ Idle.keeps.revision <= MaxRevision + 1
<1>1. Fits(Empty, n) /\ Empty.revision = 0 /\ Empty \in Docs
    BY EmptyFits DEF Fits
<1>2. Idle.keeps = Empty /\ Idle.at = "idle" /\ Idle \in CallerStates
    BY <1>1 DEF Idle, CallerStates
<1> QED
    BY <1>1, <1>2, RuleAssumption

\* publish_and_replace: what a command may publish.
LEMMA Published ==
    ASSUME RuleInv, NEW next, NEW c \in Callers, NEW state \in CallerStates,
           Publish(next, c, state), forked' \in BOOLEAN, forked => forked',
           NEW m \in Nat, m = LastList(next), created <= m, Fits(next, m),
           next.revision <= MaxRevision + 1,
           ~forked' => /\ PinsMatchTheirList(next)
                       /\ next = document \/ next.revision = document.revision + 1,
           Fits(state.keeps, created), state.keeps.revision <= MaxRevision + 1,
           state.at \in {"idle", "apply"},
           state.at = "apply" /\ state.alone /\ next # state.keeps =>
               next.revision = state.keeps.revision + 1
    PROVE  RuleInv'
<1>1. RuleTyped /\ AllSound /\ EditsAreCurrent /\ CopiesAreNext /\ EditsAreNext /\ RevisionsAreDocuments
    BY DEF RuleInv
<1>2. document' = next /\ created' = m /\ created \in Nat
    BY <1>1 DEF Publish, RuleTyped
<1>3. caller' \in [Callers -> CallerStates] /\ caller'[c] = state
    <2>1. \A o \in Callers \ {c} :
              [caller[o] EXCEPT !.alone = @ /\ (next = document \/ caller[o].at = "idle")] \in CallerStates
        <3> SUFFICES ASSUME NEW o \in Callers
                     PROVE  [caller[o] EXCEPT !.alone = @ /\ (next = document \/ caller[o].at = "idle")]
                                \in CallerStates
            OBVIOUS
        <3>1. PICK b \in BOOLEAN : b = (caller[o].alone /\ (next = document \/ caller[o].at = "idle"))
            OBVIOUS
        <3>2. [caller[o] EXCEPT !.alone = @ /\ (next = document \/ caller[o].at = "idle")]
                  = [caller[o] EXCEPT !.alone = b]
            BY <3>1
        <3>3. [caller[o] EXCEPT !.alone = b] \in CallerStates
            BY <1>1 DEF RuleTyped, CallerStates
        <3> QED
            BY <3>2, <3>3
    <2> QED
        BY <2>1 DEF Publish
<1>4. \A o \in Callers : o # c =>
          /\ caller'[o].at = caller[o].at /\ caller'[o].keeps = caller[o].keeps
          /\ caller'[o].alone /\ caller[o].at # "idle" => caller[o].alone /\ next = document
    BY <1>1 DEF Publish, RuleTyped, CallerStates
<1>5. \A o \in Callers : At(o, "idle") => ~At(o, "edit") /\ ~At(o, "write") /\ ~At(o, "apply")
    BY DEF At
<1>6. RuleTyped'
    BY <1>2, <1>3 DEF RuleTyped
<1>7. AllSound'
    <2>1. Sound(document)'
        BY <1>2 DEF Sound
    <2>2. \A o \in Callers : Fits(caller[o].keeps, m) /\ caller[o].keeps.revision <= MaxRevision + 1
        BY <1>1, <1>2, FitsGrows DEF AllSound, Sound
    <2>3. Fits(state.keeps, m)
        BY <1>2, FitsGrows
    <2>4. \A o \in Callers : caller'[o].keeps = IF o = c THEN state.keeps ELSE caller[o].keeps
        BY <1>3, <1>4
    <2>5. \A o \in Callers : Fits(caller'[o].keeps, m) /\ caller'[o].keeps.revision <= MaxRevision + 1
        BY <2>2, <2>3, <2>4
    <2> QED
        BY <1>2, <2>1, <2>5 DEF AllSound, Sound
<1>8. ListsAgree'
    BY <1>2 DEF ListsAgree
<1>9. EditsAreCurrent'
    BY <1>1, <1>2, <1>3, <1>4 DEF EditsAreCurrent, At
<1>10. CopiesAreNext'
    BY <1>1, <1>2, <1>3, <1>4 DEF CopiesAreNext, At
<1>11. EditsAreNext'
    BY <1>1, <1>2, <1>3, <1>4 DEF EditsAreNext, At
<1>12. RevisionsAreDocuments'
    <2> SUFFICES ASSUME ~forked', NEW o \in Callers, At(o, "edit")'
                 PROVE  /\ caller'[o].keeps.revision <= document'.revision
                        /\ caller'[o].keeps.revision = document'.revision => caller'[o].keeps = document'
        BY DEF RevisionsAreDocuments
    <2>1. o # c /\ caller'[o].keeps = caller[o].keeps /\ caller[o].at = "edit"
        BY <1>3, <1>4 DEF At
    <2>2. /\ caller[o].keeps.revision <= document.revision
          /\ caller[o].keeps.revision = document.revision => caller[o].keeps = document
        BY <1>1, <2>1 DEF RevisionsAreDocuments, At
    <2>3. caller[o].keeps.revision \in Nat /\ document.revision \in Nat
        BY <1>1 DEF AllSound, Sound, Fits, Docs
    <2>4. next = document \/ next.revision = document.revision + 1
        OBVIOUS
    <2> QED
        BY <1>2, <2>1, <2>2, <2>3, <2>4
<1> QED
    BY <1>6, <1>7, <1>8, <1>9, <1>10, <1>11, <1>12 DEF RuleInv

\* What a publication needs of a document that is made from the current one.
LEMMA MadeIsPublished ==
    ASSUME RuleInv, NEW next, Made(document, next, created), InBounds(document)
    PROVE  \E m \in Nat :
             /\ m = LastList(next) /\ created <= m /\ Fits(next, m)
             /\ next.revision <= MaxRevision + 1 /\ next \in Docs
             /\ ~forked => PinsMatchTheirList(next)
             /\ next = document \/ next.revision = document.revision + 1
<1>1. created \in Nat /\ document.revision \in Nat /\ document.revision <= MaxRevision /\ MaxRevision \in Nat
    BY RuleAssumption DEF RuleInv, RuleTyped, AllSound, Sound, Fits, Docs, InBounds
<1>2. LastList(next) \in Nat /\ created <= LastList(next) /\ Fits(next, LastList(next))
    BY <1>1, MadeIsNumbered
<1>3. next = document \/ next.revision = document.revision + 1
    BY DEF Made
<1>4. next.revision <= MaxRevision + 1
    BY <1>1, <1>3
<1>5. ~forked => PinsMatchTheirList(next)
    BY DEF Made, RuleInv, ListsAgree
<1> QED
    BY <1>2, <1>3, <1>4, <1>5 DEF Fits

\* Every edit that is applied makes its document of the current one.
LEMMA EditMakes ==
    ASSUME created \in Nat, Fits(document, created), NEW next \in Edits(document)
    PROVE  Made(document, next, created)
BY PinRouteMakes, UnpinMakes, DeleteListMakes, SetListOutboundMakes DEF Edits

\* An edit of the document that its command has read and will apply.
LEMMA EditedKeeps ==
    ASSUME RuleInv, NEW c \in Callers, At(c, "edit"), Current(c),
           NEW next, Edited(c, next), NEW m \in Nat, m = LastList(next), created <= m, Fits(next, m),
           next.revision <= MaxRevision + 1, ~forked => PinsMatchTheirList(next),
           next = document \/ next.revision = document.revision + 1
    PROVE  RuleInv'
<1> DEFINE state == [caller[c] EXCEPT !.at = "apply"]
<1>1. caller[c] \in CallerStates /\ caller[c].at = "edit" /\ forked \in BOOLEAN
    BY DEF RuleInv, RuleTyped, At
<1>2. state \in CallerStates /\ state.at = "apply" /\ state.keeps = caller[c].keeps /\ (state.alone <=> caller[c].alone)
    BY <1>1 DEF CallerStates
<1>3. Publish(next, c, state) /\ forked' = forked
    BY DEF Edited
<1> HIDE DEF state
<1>4. Fits(state.keeps, created) /\ state.keeps.revision <= MaxRevision + 1
    BY <1>2 DEF RuleInv, AllSound, Sound
<1>5. state.alone /\ next # state.keeps => next.revision = state.keeps.revision + 1
    BY <1>1, <1>2 DEF RuleInv, EditsAreCurrent, At
<1> QED
    BY <1>1, <1>2, <1>3, <1>4, <1>5, Published

LEMMA EditDocumentKeeps ==
    ASSUME RuleInv, NEW c \in Callers, Edit(c)
    PROVE  RuleInv'
<1>1. At(c, "edit") /\ Current(c) /\ InBounds(document)
    BY DEF Edit, Current
<1>2. PICK next \in Edits(document) : Edited(c, next)
    BY DEF Edit
<1>3. Made(document, next, created)
    BY EditMakes DEF RuleInv, RuleTyped, AllSound, Sound
<1>4. PICK m \in Nat : /\ m = LastList(next) /\ created <= m /\ Fits(next, m)
                       /\ next.revision <= MaxRevision + 1 /\ next \in Docs
                       /\ ~forked => PinsMatchTheirList(next)
                       /\ next = document \/ next.revision = document.revision + 1
    BY <1>1, <1>3, MadeIsPublished
<1> QED
    BY <1>1, <1>2, <1>4, EditedKeeps

\* The list that the command has read is one of the document's, with the same
\* outbound, unless the document was replaced out of order.
LEMMA PinToListKeeps ==
    ASSUME RuleInv, NEW c \in Callers, PinToList(c)
    PROVE  RuleInv'
<1>1. At(c, "edit") /\ Current(c) /\ InBounds(document)
    BY DEF PinToList, Current
<1>2. PICK h \in Hosts, l \in DOMAIN caller[c].keeps.lists :
          Edited(c, PinInto(document, h, caller[c].keeps.lists[l], l))
    BY DEF PinToList
<1>3. PICK to : to = caller[c].keeps.lists[l]
    OBVIOUS
<1>4. PICK next : next = PinInto(document, h, to, l)
    OBVIOUS
<1>5. Edited(c, next)
    BY <1>2, <1>3, <1>4
<1>6. /\ created \in Nat /\ Fits(document, created) /\ Fits(caller[c].keeps, created)
      /\ document.revision \in Nat /\ document.revision <= MaxRevision /\ MaxRevision \in Nat
    BY <1>1, RuleAssumption DEF RuleInv, RuleTyped, AllSound, Sound, InBounds, Fits, Docs
<1>7. l \in 0..created /\ to \in Outbounds
    <2>1. caller[c].keeps \in Docs /\ DOMAIN caller[c].keeps.lists \subseteq 1..created
        BY <1>6 DEF Fits
    <2> QED
        BY <1>2, <1>3, <1>6, <2>1, MapsAreMaps
<1>8. ~forked => caller[c].keeps = document
    BY <1>1 DEF RuleInv, RevisionsAreDocuments, Current
<1>9. /\ Fits(next, created) /\ next.lists = document.lists
      /\ PinsMatchTheirList(document) /\ l \in DOMAIN document.lists /\ document.lists[l] = to
            => PinsMatchTheirList(next)
      /\ next = document \/ next.revision = document.revision + 1
    <2> HIDE DEF Fits
    <2> QED
        BY <1>4, <1>6, <1>7, PinnedInto
<1>10. ~forked => PinsMatchTheirList(next)
    BY <1>2, <1>3, <1>8, <1>9 DEF RuleInv, ListsAgree
<1>11. created = LastList(next)
    BY <1>6, <1>9, LastListIsCreated
<1>12. next.revision <= MaxRevision + 1
    BY <1>6, <1>9
<1> QED
    BY <1>1, <1>5, <1>6, <1>9, <1>10, <1>11, <1>12, EditedKeeps

\* The commands that are done when the document is written.
LEMMA EndedKeeps ==
    ASSUME RuleInv, NEW c \in Callers, NEW next, Made(document, next, created),
           InBounds(document), Publish(next, c, Idle), forked' = forked
    PROVE  RuleInv'
<1>1. PICK m \in Nat : /\ m = LastList(next) /\ created <= m /\ Fits(next, m)
                       /\ next.revision <= MaxRevision + 1 /\ next \in Docs
                       /\ ~forked => PinsMatchTheirList(next)
                       /\ next = document \/ next.revision = document.revision + 1
    BY MadeIsPublished
<1>2. forked \in BOOLEAN /\ created \in Nat
    BY DEF RuleInv, RuleTyped
<1>3. /\ Idle \in CallerStates /\ Idle.at = "idle" /\ Fits(Idle.keeps, created)
      /\ Idle.keeps.revision <= MaxRevision + 1
    BY <1>2, IdleIsSound
<1> QED
    BY <1>1, <1>2, <1>3, Published

LEMMA EditListsKeeps ==
    ASSUME RuleInv, NEW c \in Callers, EditLists(c)
    PROVE  RuleInv'
<1>1. InBounds(document) /\ forked' = forked
    BY DEF EditLists
<1>2. created \in Nat /\ Fits(document, created)
    BY DEF RuleInv, RuleTyped, AllSound, Sound
<1>3. PICK next : Made(document, next, created) /\ Publish(next, c, Idle)
    BY <1>2, BumpMakes, ListedMakes DEF EditLists
<1> QED
    BY <1>1, <1>3, EndedKeeps

LEMMA RefreshKeeps ==
    ASSUME RuleInv, NEW c \in Callers, Refresh(c)
    PROVE  RuleInv'
<1>1. created \in Nat /\ Fits(document, created)
    BY DEF RuleInv, RuleTyped, AllSound, Sound
<1>2. Made(document, Bump(document), created)
    BY <1>1, BumpMakes
<1> QED
    BY <1>2, EndedKeeps DEF Refresh

\* A document that was sound stays so and numbers no list.
LEMMA KeptKeeps ==
    ASSUME RuleInv, NEW c \in Callers, Publish(caller[c].keeps, c, Idle), forked' \in BOOLEAN,
           forked => forked',
           ~forked' => /\ PinsMatchTheirList(caller[c].keeps)
                       /\ caller[c].keeps.revision = document.revision + 1
    PROVE  RuleInv'
<1>1. created \in Nat /\ Sound(caller[c].keeps)
    BY DEF RuleInv, RuleTyped, AllSound
<1>2. created = LastList(caller[c].keeps)
    BY <1>1, LastListIsCreated DEF Sound
<1>3. /\ Idle \in CallerStates /\ Idle.at = "idle" /\ Fits(Idle.keeps, created)
      /\ Idle.keeps.revision <= MaxRevision + 1
    BY <1>1, IdleIsSound
<1> QED
    BY <1>1, <1>2, <1>3, Published DEF Sound

LEMMA RestoreDocumentKeeps ==
    ASSUME RuleInv, NEW c \in Callers, Restore(c)
    PROVE  RuleInv'
BY KeptKeeps DEF Restore

LEMMA WriteCopyKeeps ==
    ASSUME RuleInv, NEW c \in Callers, WriteCopy(c)
    PROVE  RuleInv'
<1>1. PICK b \in BOOLEAN : b = (forked \/ ~caller[c].alone)
    OBVIOUS
<1>2. forked' = b /\ Publish(caller[c].keeps, c, Idle) /\ At(c, "write")
    BY <1>1 DEF WriteCopy
<1>3. (forked => b) /\ (~b => ~forked /\ caller[c].alone)
    BY <1>1
<1>4. ~b => /\ PinsMatchTheirList(caller[c].keeps)
            /\ caller[c].keeps.revision = document.revision + 1
    BY <1>2, <1>3 DEF RuleInv, CopiesAreNext
<1> QED
    BY <1>2, <1>3, <1>4, KeptKeeps

\* A step of one command that leaves the document alone.
LEMMA CallerMoves ==
    ASSUME RuleInv, NEW c \in Callers, NEW state \in CallerStates,
           caller' = [caller EXCEPT ![c] = state], document' = document, forked' = forked,
           created' \in Nat, created <= created',
           Fits(state.keeps, created'), state.keeps.revision <= MaxRevision + 1,
           \/ state.at \in {"idle", "restore"}
           \/ state.at = "edit" /\ state.keeps = document
           \/ /\ state.at = "write" /\ state.keeps.revision = document.revision + 1
              /\ ~forked => PinsMatchTheirList(state.keeps)
    PROVE  RuleInv'
<1>1. RuleTyped /\ AllSound /\ EditsAreCurrent /\ CopiesAreNext /\ EditsAreNext /\ RevisionsAreDocuments
    BY DEF RuleInv
<1>2. caller' \in [Callers -> CallerStates] /\ caller'[c] = state /\ created \in Nat
      /\ \A o \in Callers : o # c => caller'[o] = caller[o]
    BY <1>1 DEF RuleTyped
<1>3. RuleTyped'
    BY <1>1, <1>2 DEF RuleTyped
<1>4. AllSound'
    <2>1. \A d : Fits(d, created) => Fits(d, created')
        BY <1>2, FitsGrows
    <2> QED
        BY <1>1, <1>2, <2>1 DEF AllSound, Sound
<1>5. ListsAgree'
    BY DEF RuleInv, ListsAgree
<1>6. EditsAreCurrent' /\ CopiesAreNext' /\ EditsAreNext'
    BY <1>1, <1>2 DEF EditsAreCurrent, CopiesAreNext, EditsAreNext, At
<1>7. RevisionsAreDocuments'
    <2>1. document.revision \in Nat
        BY <1>1 DEF AllSound, Sound, Fits, Docs
    <2> QED
        BY <1>1, <1>2, <2>1 DEF RevisionsAreDocuments, At
<1> QED
    BY <1>3, <1>4, <1>5, <1>6, <1>7 DEF RuleInv

LEMMA InvokeKeeps ==
    ASSUME RuleInv, NEW c \in Callers, Invoke(c)
    PROVE  RuleInv'
<1> DEFINE state == [at |-> "edit", keeps |-> document, alone |-> TRUE]
<1>1. created \in Nat /\ Fits(document, created) /\ document.revision <= MaxRevision + 1
    BY DEF RuleInv, RuleTyped, AllSound, Sound
<1>2. state \in CallerStates /\ state.at = "edit" /\ state.keeps = document
    BY <1>1 DEF CallerStates, Fits
<1>3. caller' = [caller EXCEPT ![c] = state] /\ document' = document /\ forked' = forked /\ created' = created
    BY DEF Invoke
<1> HIDE DEF state
<1> QED
    <2>1. created' \in Nat /\ created <= created' /\ Fits(state.keeps, created') /\ state.keeps.revision <= MaxRevision + 1
        BY <1>1, <1>2, <1>3
    <2>2. \/ state.at \in {"idle", "restore"}
          \/ state.at = "edit" /\ state.keeps = document
          \/ /\ state.at = "write" /\ state.keeps.revision = document.revision + 1
             /\ ~forked => PinsMatchTheirList(state.keeps)
        BY <1>2
    <2> QED
        BY <1>2, <1>3, <2>1, <2>2, CallerMoves

LEMMA CallEndsKeeps ==
    ASSUME RuleInv, NEW c \in Callers, CallEnds(c), UNCHANGED <<document, created, forked>>
    PROVE  RuleInv'
<1>1. created \in Nat
    BY DEF RuleInv, RuleTyped
<1>2. /\ Idle \in CallerStates /\ Idle.at = "idle" /\ Fits(Idle.keeps, created)
      /\ Idle.keeps.revision <= MaxRevision + 1
    BY <1>1, IdleIsSound
<1> QED
    <2>1. created' \in Nat /\ created <= created' /\ Fits(Idle.keeps, created')
        BY <1>1, <1>2
    <2>2. caller' = [caller EXCEPT ![c] = Idle] /\ document' = document /\ forked' = forked
        BY DEF CallEnds
    <2>3. \/ Idle.at \in {"idle", "restore"}
          \/ Idle.at = "edit" /\ Idle.keeps = document
          \/ /\ Idle.at = "write" /\ Idle.keeps.revision = document.revision + 1
             /\ ~forked => PinsMatchTheirList(Idle.keeps)
        BY <1>2
    <2> QED
        BY <1>2, <2>1, <2>2, <2>3, CallerMoves

LEMMA ApplyFailedKeeps ==
    ASSUME RuleInv, NEW c \in Callers, ApplyFailed(c)
    PROVE  RuleInv'
<1> DEFINE state == [caller[c] EXCEPT !.at = "restore"]
<1>1. /\ created \in Nat /\ caller[c] \in CallerStates /\ caller \in [Callers -> CallerStates]
      /\ Fits(caller[c].keeps, created) /\ caller[c].keeps.revision <= MaxRevision + 1
    BY DEF RuleInv, RuleTyped, AllSound, Sound
<1>2. state \in CallerStates /\ state.at = "restore" /\ state.keeps = caller[c].keeps
    BY <1>1 DEF CallerStates
<1>3. caller' = [caller EXCEPT ![c] = state] /\ document' = document /\ forked' = forked /\ created' = created
    BY <1>1 DEF ApplyFailed, CallGoes
<1> HIDE DEF state
<1> QED
    <2>1. created' \in Nat /\ created <= created' /\ Fits(state.keeps, created') /\ state.keeps.revision <= MaxRevision + 1
        BY <1>1, <1>2, <1>3
    <2>2. \/ state.at \in {"idle", "restore"}
          \/ state.at = "edit" /\ state.keeps = document
          \/ /\ state.at = "write" /\ state.keeps.revision = document.revision + 1
             /\ ~forked => PinsMatchTheirList(state.keeps)
        BY <1>2
    <2> QED
        BY <1>2, <1>3, <2>1, <2>2, CallerMoves

LEMMA CopyDocumentKeeps ==
    ASSUME RuleInv, NEW c \in Callers, CopyDocument(c)
    PROVE  RuleInv'
<1>1. created \in Nat /\ Fits(document, created) /\ InBounds(document) /\ "direct" \in Outbounds
    BY DEF RuleInv, RuleTyped, AllSound, Sound, CopyDocument, Outbounds
<1>2. PICK client \in PinClients :
          \E next : /\ next = DeleteClientPins(document, client) \/ next = MoveClientPins(document, client, "direct")
                    /\ next # document /\ created' = LastList(next)
                    /\ caller' = [caller EXCEPT ![c] = [at |-> "write", keeps |-> next, alone |-> TRUE]]
    BY DEF CopyDocument
<1>3. PICK next : /\ next = DeleteClientPins(document, client) \/ next = MoveClientPins(document, client, "direct")
                  /\ next # document /\ created' = LastList(next)
                  /\ caller' = [caller EXCEPT ![c] = [at |-> "write", keeps |-> next, alone |-> TRUE]]
    BY <1>2
<1>4. Made(document, next, created)
    BY <1>1, <1>3, DeleteClientPinsMakes, MoveClientPinsMakes
<1>5. PICK m \in Nat : /\ m = LastList(next) /\ created <= m /\ Fits(next, m)
                       /\ next.revision <= MaxRevision + 1 /\ next \in Docs
                       /\ ~forked => PinsMatchTheirList(next)
                       /\ next = document \/ next.revision = document.revision + 1
    BY <1>1, <1>4, MadeIsPublished
<1> DEFINE state == [at |-> "write", keeps |-> next, alone |-> TRUE]
<1>6. state \in CallerStates /\ state.at = "write" /\ state.keeps = next
    BY <1>5 DEF CallerStates
<1>7. caller' = [caller EXCEPT ![c] = state] /\ UNCHANGED <<document, forked>>
    BY <1>3 DEF CopyDocument
<1> HIDE DEF state
<1> QED
    BY <1>3, <1>5, <1>6, <1>7, CallerMoves

\* A bounded set of numbers has a last one.
LEMMA LastOf ==
    ASSUME NEW n \in Nat, NEW S \in SUBSET (0..n), S # {}
    PROVE  Max(S) \in S /\ \A y \in S : y <= Max(S)
<1> DEFINE U == {i \in Nat : n - i \in S}
<1>1. U \in SUBSET Nat /\ U # {}
    <2>1. PICK x \in S : TRUE
        OBVIOUS
    <2>2. n - x \in Nat /\ n - (n - x) = x
        OBVIOUS
    <2> QED
        BY <2>1, <2>2
<1> HIDE DEF U
<1>2. PICK i \in U : \A y \in U : i <= y
    BY <1>1, NatsAreOrdered
<1>3. i \in Nat /\ n - i \in S
    BY <1>2 DEF U
<1>4. \A y \in S : y <= n - i
    <2> SUFFICES ASSUME NEW y \in S PROVE y <= n - i
        OBVIOUS
    <2>1. n - y \in Nat /\ n - (n - y) = y /\ y \in Nat
        OBVIOUS
    <2>2. n - y \in U
        BY <2>1 DEF U
    <2>3. i <= n - y
        BY <1>2, <2>2
    <2> QED
        BY <1>3, <2>1, <2>3
<1>5. S \in SUBSET Nat
    OBVIOUS
<1>6. Max(S) = n - i
    BY <1>3, <1>4, <1>5, MaxIs
<1> QED
    BY <1>3, <1>4, <1>6

\* What load makes of a document, in a process that has no command yet.
LEMMA Loaded ==
    ASSUME NEW n \in Nat, NEW d, Fits(d, n), NEW e, e = CanonicalizeDocument(d, n),
           d.revision <= MaxRevision, NEW last, last = Max(DOMAIN e.lists \union {0})
    PROVE  last \in Nat /\ Fits(e, last) /\ e.revision <= MaxRevision + 1 /\ PinsMatchTheirList(e)
<1>1. PinsMatchTheirList(e) /\ Made(d, e, n)
    BY CanonicalMade
<1>2. PICK m \in Nat : Fits(e, m)
    BY <1>1 DEF Made
<1>3. DOMAIN e.lists \union {0} \in SUBSET (0..m)
    BY <1>2 DEF Fits
<1>4. last \in Nat /\ \A l \in DOMAIN e.lists : l <= last
    <2>1. PICK S : S = DOMAIN e.lists \union {0}
        OBVIOUS
    <2>2. Max(S) \in S /\ \A y \in S : y <= Max(S)
        BY <1>3, <2>1, LastOf
    <2> QED
        BY <1>3, <2>1, <2>2
<1>5. Fits(e, last)
    <2>1. \A l \in DOMAIN e.lists : l \in 1..last
        <3>1. \A l \in DOMAIN e.lists : l \in Nat /\ 1 <= l
            BY <1>2 DEF Fits
        <3> QED
            BY <1>4, <3>1
    <2>2. \A p \in e.pins : p.list <= last
        BY <1>1, <1>4 DEF PinsMatchTheirList
    <2> QED
        BY <1>2, <2>1, <2>2 DEF Fits
<1>6. e.revision <= MaxRevision + 1
    <2>1. d.revision \in Nat /\ MaxRevision \in Nat
        BY RuleAssumption DEF Fits, Docs
    <2>2. e = d \/ e.revision = d.revision + 1
        BY <1>1 DEF Made
    <2> QED
        BY <2>1, <2>2
<1> QED
    BY <1>1, <1>4, <1>5, <1>6

LEMMA RestartDocumentKeeps ==
    ASSUME RuleInv, Restart
    PROVE  RuleInv'
<1>1. created \in Nat /\ Fits(document, created) /\ document.revision <= MaxRevision
    BY DEF RuleInv, RuleTyped, AllSound, Sound, Restart, InBounds
<1>2. LastList(document) = created
    BY <1>1, LastListIsCreated
<1>3. PICK e : e = CanonicalizeDocument(document, created)
    OBVIOUS
<1>4. PICK last : last = Max(DOMAIN e.lists \union {0})
    OBVIOUS
<1>5. /\ document' = e /\ created' = last
      /\ caller' = [c \in Callers |-> Idle] /\ forked' = FALSE
    BY <1>2, <1>3, <1>4 DEF Restart
<1>6. last \in Nat /\ Fits(e, last) /\ e.revision <= MaxRevision + 1 /\ PinsMatchTheirList(e)
    BY <1>1, <1>3, <1>4, Loaded
<1>7. /\ Idle \in CallerStates /\ Idle.at = "idle" /\ Fits(Idle.keeps, last)
      /\ Idle.keeps.revision <= MaxRevision + 1
    BY <1>6, IdleIsSound
<1>8. RuleTyped' /\ ListsAgree'
    BY <1>5, <1>6, <1>7 DEF RuleTyped, ListsAgree
<1>9. AllSound'
    BY <1>5, <1>6, <1>7 DEF AllSound, Sound
<1>10. EditsAreCurrent' /\ CopiesAreNext' /\ EditsAreNext' /\ RevisionsAreDocuments'
    BY <1>5, <1>7 DEF EditsAreCurrent, CopiesAreNext, EditsAreNext, RevisionsAreDocuments, At
<1> QED
    BY <1>8, <1>9, <1>10 DEF RuleInv

\* The initial states, the steps, and what the invariant says.
LEMMA RuleStarts ==
    ASSUME RuleInit
    PROVE  RuleInv
<1>1. PICK pins \in LegacyPins : document = CanonicalizeDocument([Empty EXCEPT !.pins = pins], 0)
    BY DEF RuleInit
<1> DEFINE d == [Empty EXCEPT !.pins = pins]
<1>2. Fits(d, 0) /\ d.revision = 0
    <2>1. Empty \in Docs /\ Empty.revision = 0 /\ DOMAIN Empty.lists \subseteq 1..0
        BY EmptyFits DEF Fits
    <2>2. pins \subseteq PinRecords /\ \A p \in pins : p.list = 0
        BY DEF LegacyPins, Pin, PinRecords, NoList
    <2>3. d \in Docs /\ d.pins = pins /\ d.lists = Empty.lists /\ d.revision = 0
        BY <2>1, <2>2 DEF Docs
    <2>4. \A p, q \in pins : p.host = q.host => p = q
        BY DEF LegacyPins
    <2> HIDE DEF d
    <2> QED
        BY <2>1, <2>2, <2>3, <2>4 DEF Fits, OnePin
<1> HIDE DEF d
<1>3. document = CanonicalizeDocument(d, 0) /\ d.revision <= MaxRevision
    BY <1>1, <1>2, RuleAssumption DEF d
<1>4. /\ created \in Nat /\ Fits(document, created) /\ document.revision <= MaxRevision + 1
      /\ PinsMatchTheirList(document)
    <2>1. created = Max(DOMAIN document.lists \union {0})
        BY DEF RuleInit
    <2>2. 0 \in Nat
        OBVIOUS
    <2> QED
        BY <1>2, <1>3, <2>1, <2>2, Loaded
<1>5. /\ Idle \in CallerStates /\ Idle.at = "idle" /\ Fits(Idle.keeps, created)
      /\ Idle.keeps.revision <= MaxRevision + 1
    BY <1>4, IdleIsSound
<1>6. caller = [c \in Callers |-> Idle] /\ forked = FALSE
    BY DEF RuleInit
<1>7. RuleTyped /\ ListsAgree
    BY <1>4, <1>5, <1>6 DEF RuleTyped, ListsAgree
<1>8. AllSound
    BY <1>4, <1>5, <1>6 DEF AllSound, Sound
<1>9. EditsAreCurrent /\ CopiesAreNext /\ EditsAreNext /\ RevisionsAreDocuments
    BY <1>5, <1>6 DEF EditsAreCurrent, CopiesAreNext, EditsAreNext, RevisionsAreDocuments, At
<1> QED
    BY <1>7, <1>8, <1>9 DEF RuleInv

LEMMA RuleStutters ==
    ASSUME RuleInv, UNCHANGED ruleVars
    PROVE  RuleInv'
BY DEF RuleInv, RuleTyped, AllSound, Sound, ListsAgree, EditsAreCurrent, CopiesAreNext,
       EditsAreNext, RevisionsAreDocuments, At, ruleVars

LEMMA RuleStepKeeps ==
    RuleInv /\ [RuleNext]_ruleVars => RuleInv'
<1> SUFFICES ASSUME RuleInv, [RuleNext]_ruleVars PROVE RuleInv'
    OBVIOUS
<1>1. CASE Restart
    BY <1>1, RestartDocumentKeeps
<1>2. ASSUME NEW c \in Callers, Invoke(c) PROVE RuleInv'
    BY <1>2, InvokeKeeps
<1>3. ASSUME NEW c \in Callers, Edit(c) PROVE RuleInv'
    BY <1>3, EditDocumentKeeps
<1>4. ASSUME NEW c \in Callers, PinToList(c) PROVE RuleInv'
    BY <1>4, PinToListKeeps
<1>5. ASSUME NEW c \in Callers, EditLists(c) PROVE RuleInv'
    BY <1>5, EditListsKeeps
<1>6. ASSUME NEW c \in Callers, Refuse(c) \/ Applied(c) PROVE RuleInv'
    BY <1>6, CallEndsKeeps DEF Refuse, Applied
<1>7. ASSUME NEW c \in Callers, ApplyFailed(c) PROVE RuleInv'
    BY <1>7, ApplyFailedKeeps
<1>8. ASSUME NEW c \in Callers, Restore(c) PROVE RuleInv'
    BY <1>8, RestoreDocumentKeeps
<1>9. ASSUME NEW c \in Callers, CopyDocument(c) PROVE RuleInv'
    BY <1>9, CopyDocumentKeeps
<1>10. ASSUME NEW c \in Callers, WriteCopy(c) PROVE RuleInv'
    BY <1>10, WriteCopyKeeps
<1>11. ASSUME NEW c \in Callers, Refresh(c) PROVE RuleInv'
    BY <1>11, RefreshKeeps
<1>12. CASE UNCHANGED ruleVars
    BY <1>12, RuleStutters
<1> QED
    BY <1>1, <1>2, <1>3, <1>4, <1>5, <1>6, <1>7, <1>8, <1>9, <1>10, <1>11, <1>12 DEF RuleNext

LEMMA RuleInvSays ==
    ASSUME RuleInv
    PROVE  DocumentInvariant
<1>1. RuleTyped /\ AllSound /\ ListsAgree /\ EditsAreNext
    BY DEF RuleInv
<1>2. created \in Nat /\ IsDocument(document) /\ \A c \in Callers : IsDocument(caller[c].keeps)
    BY <1>1, FitsIsDocument DEF RuleTyped, AllSound, Sound
<1>3. \A c \in Callers : /\ DOMAIN caller[c] = {"at", "keeps", "alone"}
                         /\ caller[c].at \in {"idle", "edit", "write", "apply", "restore"}
                         /\ caller[c].alone \in BOOLEAN
    BY <1>1 DEF RuleTyped, CallerStates
<1>4. \A c \in Callers : At(c, "apply") /\ caller[c].alone /\ document # caller[c].keeps =>
          document.revision = caller[c].keeps.revision + 1
    BY <1>1 DEF EditsAreNext
<1>5. RuleTypeOK
    BY <1>1, <1>2, <1>3, <1>4 DEF RuleTypeOK, RuleTyped
<1>6. OnePinPerHost
    BY <1>1 DEF AllSound, Sound, Fits, OnePin, OnePinPerHost
<1> QED
    BY <1>1, <1>5, <1>6 DEF DocumentInvariant

\* The document of route pins of RuleManager: through every interleaving of the
\* edits, copies, rollbacks and restarts of any number of commands, each host is
\* pinned to one outbound, and as long as no document was replaced by one that
\* was not made from it, every pin is in a list of its own outbound.
THEOREM DocumentInvariantHolds == RuleSpec => []DocumentInvariant
<1>1. RuleSpec => []RuleInv
    BY RuleStarts, RuleStepKeeps, PTL DEF RuleSpec
<1>2. RuleInv => DocumentInvariant
    BY RuleInvSays
<1> QED
    BY <1>1, <1>2, PTL

-----------------------------------------------------------------------------
(* Routing: what the first rule that covers a destination is.               *)

\* What a rule may name, and the rules that Mihomo accepts.
Targets == Routed \union {Direct, Reject}
RuleRecords == [covers : SUBSET Destinations, target : Targets]

\* Where Mihomo looks in a part of the rules, and what it finds there.
Covering(rules, d) == {i \in 1..Len(rules) : d \in rules[i].covers}
Passes(rules, d) == Covering(rules, d) = {}
LeadsTo(rules, d, goal) ==
    \E i \in Covering(rules, d) :
        rules[i].target = goal /\ \A j \in Covering(rules, d) : i <= j

\* The first rule decides.
LEMMA SentIsRouted ==
    ASSUME NEW d, NEW goal, config.rules \in Seq(RuleRecords), LeadsTo(config.rules, d, goal)
    PROVE  Route(d) = goal
<1> DEFINE C == Covering(config.rules, d)
<1>1. PICK i \in C : config.rules[i].target = goal /\ \A j \in C : i <= j
    BY DEF LeadsTo
<1>2. C \in SUBSET Nat
    BY DEF Covering
<1>3. Min(C) \in C /\ \A j \in C : Min(C) <= j
    BY <1>1 DEF Min
<1>4. Min(C) = i
    <2> HIDE DEF C
    <2>1. Min(C) <= i /\ i <= Min(C) /\ Min(C) \in Nat /\ i \in Nat
        BY <1>1, <1>2, <1>3
    <2> QED
        BY <2>1
<1>5. Route(d) = config.rules[Min(C)].target
    BY DEF Route, Covering
<1> QED
    BY <1>1, <1>4, <1>5

\* Two parts, one after the other.
LEMMA JoinedParts ==
    ASSUME NEW s \in Seq(RuleRecords), NEW t \in Seq(RuleRecords), NEW d
    PROVE  /\ s \o t \in Seq(RuleRecords)
           /\ Covering(s \o t, d) = Covering(s, d) \union {Len(s) + i : i \in Covering(t, d)}
<1>1. Len(s \o t) = Len(s) + Len(t) /\ Len(s) \in Nat /\ Len(t) \in Nat
    OBVIOUS
<1>2. \A i \in 1..Len(s) : (s \o t)[i] = s[i]
    OBVIOUS
<1>3. \A i \in 1..Len(t) : (s \o t)[Len(s) + i] = t[i]
    OBVIOUS
<1>4. \A j \in 1..(Len(s) + Len(t)) : j \in 1..Len(s) \/ \E i \in 1..Len(t) : j = Len(s) + i
    <2> SUFFICES ASSUME NEW j \in 1..(Len(s) + Len(t)), j \notin 1..Len(s)
                 PROVE  \E i \in 1..Len(t) : j = Len(s) + i
        OBVIOUS
    <2>1. j - Len(s) \in 1..Len(t) /\ j = Len(s) + (j - Len(s))
        BY <1>1
    <2> QED
        BY <2>1
<1>5. Covering(s \o t, d) = Covering(s, d) \union {Len(s) + i : i \in Covering(t, d)}
    <2>1. ASSUME NEW j \in Covering(s \o t, d)
          PROVE  j \in Covering(s, d) \union {Len(s) + i : i \in Covering(t, d)}
        <3>1. j \in 1..(Len(s) + Len(t)) /\ d \in (s \o t)[j].covers
            BY <1>1 DEF Covering
        <3>2. CASE j \in 1..Len(s)
            BY <1>2, <3>1, <3>2 DEF Covering
        <3>3. CASE j \notin 1..Len(s)
            <4>1. PICK i \in 1..Len(t) : j = Len(s) + i
                BY <1>4, <3>1, <3>3
            <4>2. (s \o t)[j] = t[i]
                BY <1>3, <4>1
            <4>3. i \in Covering(t, d)
                BY <3>1, <4>2 DEF Covering
            <4> QED
                BY <4>1, <4>3
        <3> QED
            BY <3>2, <3>3
    <2>2. ASSUME NEW j \in Covering(s, d) PROVE j \in Covering(s \o t, d)
        BY <1>1, <1>2 DEF Covering
    <2>3. ASSUME NEW i \in Covering(t, d) PROVE Len(s) + i \in Covering(s \o t, d)
        BY <1>1, <1>3 DEF Covering
    <2> QED
        BY <2>1, <2>2, <2>3
<1> QED
    BY <1>5

LEMMA FirstPartSends ==
    ASSUME NEW s \in Seq(RuleRecords), NEW t \in Seq(RuleRecords), NEW d, NEW goal,
           LeadsTo(s, d, goal)
    PROVE  LeadsTo(s \o t, d, goal)
<1>1. PICK i \in Covering(s, d) : s[i].target = goal /\ \A j \in Covering(s, d) : i <= j
    BY DEF LeadsTo
<1>2. i \in 1..Len(s) /\ Len(s) \in Nat /\ Covering(t, d) \subseteq 1..Len(t) /\ Len(t) \in Nat
    BY DEF Covering
<1>3. i \in Covering(s \o t, d) /\ (s \o t)[i] = s[i]
    <2>1. Covering(s \o t, d) = Covering(s, d) \union {Len(s) + k : k \in Covering(t, d)}
        BY JoinedParts
    <2>2. (s \o t)[i] = s[i]
        BY <1>2
    <2> QED
        BY <2>1, <2>2
<1>4. ASSUME NEW j \in Covering(s \o t, d) PROVE i <= j
    <2>1. j \in Covering(s, d) \/ \E k \in Covering(t, d) : j = Len(s) + k
        BY JoinedParts
    <2>2. ASSUME NEW k \in Covering(t, d), j = Len(s) + k PROVE i <= j
        BY <1>2, <2>2
    <2> QED
        BY <1>1, <2>1, <2>2
<1> QED
    BY <1>1, <1>3, <1>4 DEF LeadsTo

LEMMA SecondPartSends ==
    ASSUME NEW s \in Seq(RuleRecords), NEW t \in Seq(RuleRecords), NEW d, NEW goal,
           Passes(s, d), LeadsTo(t, d, goal)
    PROVE  LeadsTo(s \o t, d, goal)
<1>1. PICK i \in Covering(t, d) : t[i].target = goal /\ \A j \in Covering(t, d) : i <= j
    BY DEF LeadsTo
<1>2. Len(s) \in Nat /\ Covering(t, d) \subseteq Nat
    BY DEF Covering
<1>3. Len(s) + i \in Covering(s \o t, d) /\ (s \o t)[Len(s) + i] = t[i]
    <2>1. Covering(s \o t, d) = Covering(s, d) \union {Len(s) + k : k \in Covering(t, d)}
        BY JoinedParts
    <2>2. i \in 1..Len(t)
        BY DEF Covering
    <2>3. (s \o t)[Len(s) + i] = t[i]
        BY <2>2
    <2> QED
        BY <2>1, <2>3
<1>4. ASSUME NEW j \in Covering(s \o t, d) PROVE Len(s) + i <= j
    <2>1. PICK k \in Covering(t, d) : j = Len(s) + k
        BY JoinedParts DEF Passes
    <2>2. i <= k /\ i \in Nat /\ k \in Nat
        BY <1>1, <1>2
    <2> QED
        BY <1>2, <2>1, <2>2
<1> QED
    BY <1>1, <1>3, <1>4 DEF LeadsTo

LEMMA BothPartsPass ==
    ASSUME NEW s \in Seq(RuleRecords), NEW t \in Seq(RuleRecords), NEW d,
           Passes(s, d), Passes(t, d)
    PROVE  Passes(s \o t, d)
BY JoinedParts DEF Passes

\* A part that is one rule.
LEMMA OneRule ==
    ASSUME NEW S \in SUBSET Destinations, NEW goal \in Targets, NEW d
    PROVE  /\ <<Rule(S, goal)>> \in Seq(RuleRecords)
           /\ d \in S => LeadsTo(<<Rule(S, goal)>>, d, goal)
           /\ d \notin S => Passes(<<Rule(S, goal)>>, d)
<1> DEFINE r == Rule(S, goal)
<1>1. r \in RuleRecords /\ r.covers = S /\ r.target = goal
    BY DEF Rule, RuleRecords
<1> HIDE DEF r
<1>2. <<r>> \in Seq(RuleRecords) /\ Len(<<r>>) = 1 /\ <<r>>[1] = r
    BY <1>1
<1>3. Covering(<<r>>, d) = IF d \in S THEN {1} ELSE {}
    BY <1>1, <1>2 DEF Covering
<1>4. d \in S => LeadsTo(<<r>>, d, goal)
    BY <1>1, <1>2, <1>3 DEF LeadsTo
<1> QED
    BY <1>2, <1>3, <1>4 DEF Passes, r

-----------------------------------------------------------------------------
(* The parts of the generated rules.                                        *)

\* What a generation starts from.
AppTypeOK ==
    /\ app \in [enabled : SUBSET Clients, default : Clients \union {Direct},
                failClosed : BOOLEAN, allowDirect : SUBSET Clients, pins : PinMaps]
    /\ readyClients \in SUBSET Clients

PinAt == app.pins
Emitted == app.enabled \union {Direct}

\* The pins of names that cover a name, and those of them that are written.
EmittedOver(d) == {n \in Names : PinAt[n] \in Emitted /\ n <= d}

LEMMA AppTypes ==
    ASSUME AppTypeOK
    PROVE  /\ app.enabled \in SUBSET Clients /\ app.default \in Clients \union {Direct}
           /\ Live \in SUBSET Clients /\ Routed \in SUBSET Clients /\ app.enabled \subseteq Routed
           /\ Live \subseteq Routed
           /\ PinAt \in [Destinations -> Clients \union {Direct, NoPin}]
           /\ \A d \in Addresses : PinAt[d] \in PinnableTo(d) \union {Direct, NoPin}
           /\ \A c \in Clients : ClientRuleTarget(c) \in {c, Direct}
BY DEF AppTypeOK, PinMaps, Live, Routed, PinAt, ClientRuleTarget

\* An address is no name.
LEMMA NamesAreNoAddresses ==
    /\ Names \subseteq Destinations /\ Addresses \subseteq Destinations
    /\ \A d \in Names : d \notin Addresses /\ d \in Nat
    /\ \A d \in Addresses : d \notin Names
BY DestinationsAssumption, LabelsAssumption DEF Destinations, Names

\* The rules of the pinned names: the longest written pin decides.
LEMMA DomainPinsDecide ==
    ASSUME AppTypeOK, NEW d \in Destinations
    PROVE  /\ DomainPinRules \in Seq(RuleRecords)
           /\ d \notin Names \/ EmittedOver(d) = {} => Passes(DomainPinRules, d)
           /\ d \in Names /\ EmittedOver(d) # {} =>
                /\ Max(EmittedOver(d)) \in EmittedOver(d)
                /\ \A n \in EmittedOver(d) : n <= Max(EmittedOver(d))
                /\ LeadsTo(DomainPinRules, d, PinTarget(Max(EmittedOver(d))))
<1> DEFINE PinRule(n) == IF PinAt[n] \in Emitted THEN Rule(Covered(n), PinTarget(n)) ELSE NotWritten
<1>1. Labels \in Nat /\ Names = 1..Labels /\ Names \subseteq Destinations
    BY LabelsAssumption, NamesAreNoAddresses DEF Names
<1>2. \A n \in Names : PinRule(n) \in RuleRecords
    <2> SUFFICES ASSUME NEW n \in Names PROVE PinRule(n) \in RuleRecords
        OBVIOUS
    <2>1. PinAt[n] \in Clients \union {Direct, NoPin} /\ app.enabled \subseteq Clients
        BY AppTypes, <1>1
    <2>2. PinAt[n] \in Emitted => PinTarget(n) \in Targets
        BY <2>1, AppTypes DEF PinTarget, Targets, Emitted, PinAt
    <2>3. Covered(n) \in SUBSET Destinations
        BY <1>1 DEF Covered
    <2> QED
        BY <2>2, <2>3 DEF Rule, RuleRecords, NotWritten, Targets
<1>3. DomainPinRules = [i \in 1..Labels |-> PinRule(Labels + 1 - i)]
    BY DEF DomainPinRules, Emitted, PinAt
<1>4. \A i \in 1..Labels : Labels + 1 - i \in Names
    BY <1>1
<1>5. \A n \in Names : PinRule(n).covers = IF PinAt[n] \in Emitted THEN Covered(n) ELSE {}
    BY DEF Rule, NotWritten
<1>6. \A n \in Names : PinAt[n] \in Emitted => PinRule(n).target = PinTarget(n)
    BY DEF Rule
<1> HIDE DEF PinRule
<1>7. DomainPinRules \in Seq(RuleRecords) /\ Len(DomainPinRules) = Labels
    BY <1>1, <1>2, <1>3, <1>4
<1>8. Covering(DomainPinRules, d) = {i \in 1..Labels : Labels + 1 - i \in EmittedOver(d) /\ d \in Names}
    <2>1. \A i \in 1..Labels : d \in DomainPinRules[i].covers <=>
                Labels + 1 - i \in EmittedOver(d) /\ d \in Names
        <3> SUFFICES ASSUME NEW i \in 1..Labels
                     PROVE  d \in DomainPinRules[i].covers <=>
                                Labels + 1 - i \in EmittedOver(d) /\ d \in Names
            OBVIOUS
        <3> DEFINE n == Labels + 1 - i
        <3>1. n \in Names /\ DomainPinRules[i] = PinRule(n)
            BY <1>3, <1>4
        <3> HIDE DEF n
        <3>2. d \in DomainPinRules[i].covers <=> PinAt[n] \in Emitted /\ d \in Covered(n)
            BY <1>5, <3>1
        <3>3. d \in Covered(n) <=> d \in Names /\ n <= d
            <4>1. CASE d \in Names
                <5>1. d \in Nat /\ n \in Nat
                    BY <4>1, <3>1, <1>1
                <5> QED
                    BY <4>1, <5>1 DEF Covered
            <4> QED
                BY <4>1 DEF Covered
        <3> QED
            BY <3>1, <3>2, <3>3 DEF EmittedOver, n
    <2> QED
        BY <2>1, <1>7 DEF Covering
<1>9. d \notin Names \/ EmittedOver(d) = {} => Passes(DomainPinRules, d)
    BY <1>8 DEF Passes
<1>10. ASSUME d \in Names, EmittedOver(d) # {}
      PROVE  /\ Max(EmittedOver(d)) \in EmittedOver(d)
             /\ \A n \in EmittedOver(d) : n <= Max(EmittedOver(d))
             /\ LeadsTo(DomainPinRules, d, PinTarget(Max(EmittedOver(d))))
    <2> DEFINE C == Covering(DomainPinRules, d)
    <2>1. C \in SUBSET Nat /\ C \subseteq 1..Labels
        BY <1>1, <1>8
    <2>2. PICK w \in EmittedOver(d) : TRUE
        BY <1>10
    <2>3. w \in 1..Labels /\ Labels + 1 - w \in 1..Labels /\ Labels + 1 - (Labels + 1 - w) = w
        BY <1>1, <2>2 DEF EmittedOver
    <2>4. Labels + 1 - w \in C
        BY <1>8, <1>10, <2>2, <2>3
    <2>5. PICK i \in C : \A j \in C : i <= j
        BY <2>1, <2>4, NatsAreOrdered
    <2> DEFINE m == Labels + 1 - i
    <2>6. m \in EmittedOver(d) /\ m \in Nat /\ i \in 1..Labels
        BY <1>8, <2>1, <2>5, <1>1 DEF EmittedOver
    <2>7. \A n \in EmittedOver(d) : n <= m
        <3> SUFFICES ASSUME NEW n \in EmittedOver(d) PROVE n <= m
            OBVIOUS
        <3>1. n \in 1..Labels /\ Labels + 1 - n \in 1..Labels /\ Labels + 1 - (Labels + 1 - n) = n
            BY <1>1 DEF EmittedOver
        <3>2. Labels + 1 - n \in C
            BY <1>8, <1>10, <3>1
        <3>3. i <= Labels + 1 - n
            BY <2>5, <3>2
        <3> QED
            BY <3>1, <3>3, <2>6, <1>1
    <2>8. EmittedOver(d) \in SUBSET Nat
        BY <1>1 DEF EmittedOver
    <2>9. Max(EmittedOver(d)) = m
        <3> HIDE DEF m
        <3> QED
            BY <2>6, <2>7, <2>8, MaxIs
    <2>10. m \in Names /\ PinAt[m] \in Emitted
        BY <2>6 DEF EmittedOver
    <2>11. DomainPinRules[i] = PinRule(m)
        BY <1>3, <2>6
    <2>12. DomainPinRules[i].target = PinTarget(m)
        BY <2>10, <2>11, <1>6
    <2>13. LeadsTo(DomainPinRules, d, PinTarget(m))
        BY <2>5, <2>12 DEF LeadsTo
    <2> QED
        BY <2>6, <2>7, <2>9, <2>13
<1> QED
    BY <1>7, <1>9, <1>10

\* The rules of the pinned addresses of one kind of client.
LEMMA ClientIpsDecide ==
    ASSUME AppTypeOK, NEW d \in Destinations, NEW kind \in SUBSET Clients
    PROVE  /\ ClientIpRules(kind) \in Seq(RuleRecords)
           /\ d \in Addresses /\ PinAt[d] \in app.enabled \intersect kind =>
                LeadsTo(ClientIpRules(kind), d, ClientRuleTarget(PinAt[d]))
           /\ d \notin Addresses \/ PinAt[d] \notin app.enabled \intersect kind =>
                Passes(ClientIpRules(kind), d)
<1> DEFINE IpRule(c) == IF c \in app.enabled \intersect kind
                        THEN Rule({a \in Addresses : PinAt[a] = c}, ClientRuleTarget(c))
                        ELSE NotWritten
           rules == ClientIpRules(kind)
<1>1. Registry \in Seq(Clients) /\ Len(Registry) \in Nat
    BY RegistryAssumption
<1>2. \A c \in Clients : IpRule(c) \in RuleRecords
    <2> SUFFICES ASSUME NEW c \in Clients PROVE IpRule(c) \in RuleRecords
        OBVIOUS
    <2>1. c \in app.enabled => ClientRuleTarget(c) \in Targets
        BY AppTypes DEF Targets
    <2>2. {a \in Addresses : PinAt[a] = c} \in SUBSET Destinations
        BY DEF Destinations
    <2> QED
        BY <2>1, <2>2 DEF Rule, RuleRecords, NotWritten, Targets
<1>3. rules = [i \in 1..Len(Registry) |-> IpRule(Registry[i])]
    BY DEF ClientIpRules, PinAt
<1>4. \A c \in Clients : d \in IpRule(c).covers <=>
            d \in Addresses /\ PinAt[d] = c /\ c \in app.enabled \intersect kind
    BY DEF Rule, NotWritten
<1>5. \A c \in Clients : c \in app.enabled \intersect kind => IpRule(c).target = ClientRuleTarget(c)
    BY DEF Rule
<1> HIDE DEF IpRule
<1>6. rules \in Seq(RuleRecords) /\ Len(rules) = Len(Registry)
    BY <1>1, <1>2, <1>3
<1>7. \A i \in 1..Len(rules) : Registry[i] \in Clients /\ rules[i] = IpRule(Registry[i])
    BY <1>1, <1>3, <1>6
<1> HIDE DEF rules
<1>8. ASSUME NEW i \in Covering(rules, d)
      PROVE  /\ d \in Addresses /\ PinAt[d] \in app.enabled \intersect kind
             /\ rules[i].target = ClientRuleTarget(PinAt[d])
    <2>1. i \in 1..Len(rules) /\ d \in rules[i].covers
        BY DEF Covering
    <2> QED
        BY <2>1, <1>4, <1>5, <1>7
<1>9. d \notin Addresses \/ PinAt[d] \notin app.enabled \intersect kind => Passes(rules, d)
    BY <1>8 DEF Passes
<1>10. ASSUME d \in Addresses, PinAt[d] \in app.enabled \intersect kind
       PROVE  LeadsTo(rules, d, ClientRuleTarget(PinAt[d]))
    <2>1. PICK i \in 1..Len(Registry) : Registry[i] = PinAt[d]
        BY <1>10, RegistryAssumption, AppTypes
    <2>2. i \in Covering(rules, d)
        BY <2>1, <1>4, <1>6, <1>7, <1>10 DEF Covering
    <2>3. Covering(rules, d) \in SUBSET Nat
        BY DEF Covering
    <2>4. PICK k \in Covering(rules, d) : \A j \in Covering(rules, d) : k <= j
        BY <2>2, <2>3, NatsAreOrdered
    <2> QED
        BY <1>8, <2>4 DEF LeadsTo
<1> QED
    BY <1>6, <1>9, <1>10 DEF rules

\* The rules that come last.
LastRules ==
    <<Rule({a \in Addresses : app.pins[a] = Direct}, Direct),
      Rule(Covered(IranLabels), Direct), Rule({Iran}, Direct),
      Rule(Destinations, MatchGroup(Live))>>

\* Known without a client: a bundled list or a direct pin has it.
KnownDirect(d) ==
    \/ d \in Addresses /\ PinAt[d] = Direct
    \/ d \in Covered(IranLabels)
    \/ d = Iran

LEMMA MatchIsDeclared ==
    ASSUME AppTypeOK
    PROVE  MatchGroup(Live) \in Targets
BY AppTypes DEF MatchGroup, Targets

LEMMA LastRulesDecide ==
    ASSUME AppTypeOK, NEW d \in Destinations
    PROVE  /\ LastRules \in Seq(RuleRecords)
           /\ LeadsTo(LastRules, d, IF KnownDirect(d) THEN Direct ELSE MatchGroup(Live))
<1> DEFINE S1 == {a \in Addresses : app.pins[a] = Direct}
           S2 == Covered(IranLabels)
           match == MatchGroup(Live)
<1>1. S1 \in SUBSET Destinations /\ S2 \in SUBSET Destinations /\ {Iran} \in SUBSET Destinations
    BY DEF Destinations, Addresses, Covered
<1>2. Direct \in Targets /\ match \in Targets
    BY MatchIsDeclared DEF Targets
<1>3. LastRules = <<Rule(S1, Direct), Rule(S2, Direct), Rule({Iran}, Direct), Rule(Destinations, match)>>
    BY DEF LastRules
<1>4. KnownDirect(d) <=> d \in S1 \/ d \in S2 \/ d \in {Iran}
    BY DEF KnownDirect, PinAt
<1> HIDE DEF S1, S2, match
<1>5. /\ LastRules \in Seq(RuleRecords) /\ Len(LastRules) = 4
      /\ LastRules[1] = Rule(S1, Direct) /\ LastRules[2] = Rule(S2, Direct)
      /\ LastRules[3] = Rule({Iran}, Direct) /\ LastRules[4] = Rule(Destinations, match)
    BY <1>1, <1>2, <1>3 DEF Rule, RuleRecords
<1>6. /\ LastRules[1].covers = S1 /\ LastRules[2].covers = S2
      /\ LastRules[3].covers = {Iran} /\ LastRules[4].covers = Destinations
      /\ LastRules[1].target = Direct /\ LastRules[2].target = Direct
      /\ LastRules[3].target = Direct /\ LastRules[4].target = match
    BY <1>5 DEF Rule
<1> DEFINE C == Covering(LastRules, d)
<1>7. C \in SUBSET (1..4) /\ \A i \in 1..4 : i \in C <=> d \in LastRules[i].covers
    BY <1>5 DEF Covering
<1> HIDE DEF C
<1>8. 4 \in C /\ (1 \in C <=> d \in S1) /\ (2 \in C <=> d \in S2) /\ (3 \in C <=> d \in {Iran})
    BY <1>6, <1>7
<1>9. C \in SUBSET Nat
    BY <1>7
<1>10. PICK i \in C : \A j \in C : i <= j
    BY <1>8, <1>9, NatsAreOrdered
<1>11. i \in {1, 2, 3, 4}
    BY <1>7
<1>12. LastRules[i].target = IF KnownDirect(d) THEN Direct ELSE match
    <2>1. CASE KnownDirect(d)
        <3>1. i # 4
            <4>1. 1 \in C \/ 2 \in C \/ 3 \in C
                BY <1>4, <1>8, <2>1
            <4> QED
                BY <4>1, <1>10
        <3> QED
            BY <3>1, <1>6, <1>11, <2>1
    <2>2. CASE ~KnownDirect(d)
        <3>1. i = 4
            BY <1>4, <1>8, <1>11, <2>2
        <3> QED
            BY <3>1, <1>6, <2>2
    <2> QED
        BY <2>1, <2>2
<1>13. LeadsTo(LastRules, d, IF KnownDirect(d) THEN Direct ELSE match)
    BY <1>10, <1>12 DEF LeadsTo, C
<1> QED
    BY <1>5, <1>13 DEF match

\* Where the generated configuration sends a destination.
Destined(d) ==
    IF d \in Names /\ EmittedOver(d) # {} THEN PinTarget(Max(EmittedOver(d)))
    ELSE IF d = Loopback THEN Direct
    ELSE IF d \in Addresses /\ PinAt[d] \in app.enabled \intersect Tunnels THEN ClientRuleTarget(PinAt[d])
    ELSE IF d = Private THEN Direct
    ELSE IF d \in Addresses /\ PinAt[d] \in app.enabled \intersect Proxies THEN ClientRuleTarget(PinAt[d])
    ELSE IF KnownDirect(d) THEN Direct ELSE MatchGroup(Live)

\* The rules, read from the first to the last.
LEMMA RulesDecide ==
    ASSUME AppTypeOK, NEW d \in Destinations
    PROVE  GeneratedRules \in Seq(RuleRecords) /\ LeadsTo(GeneratedRules, d, Destined(d))
<1> DEFINE p1 == <<Rule({Loopback}, Direct)>>
           p2 == p1 \o DomainPinRules
           p3 == p2 \o ClientIpRules(Tunnels)
           lan == <<Rule({Loopback, Private}, Direct)>>
           p4 == p3 \o lan
           p5 == p4 \o ClientIpRules(Proxies)
           p6 == p5 \o LastRules
           pin == d \in Names /\ EmittedOver(d) # {}
           tunnelled == d \in Addresses /\ PinAt[d] \in app.enabled \intersect Tunnels
           proxied == d \in Addresses /\ PinAt[d] \in app.enabled \intersect Proxies
<1>1. GeneratedRules = p6
    BY DEF GeneratedRules, LastRules
<1>2. {Loopback} \in SUBSET Destinations /\ {Loopback, Private} \in SUBSET Destinations
    BY DEF Destinations, Addresses
<1>3. Direct \in Targets
    BY DEF Targets
<1>4. /\ p1 \in Seq(RuleRecords) /\ (d = Loopback => LeadsTo(p1, d, Direct))
      /\ (d # Loopback => Passes(p1, d))
    <2>1. /\ p1 \in Seq(RuleRecords) /\ (d \in {Loopback} => LeadsTo(p1, d, Direct))
          /\ (d \notin {Loopback} => Passes(p1, d))
        BY <1>2, <1>3, OneRule
    <2> HIDE DEF p1
    <2> QED
        BY <2>1
<1>5. /\ lan \in Seq(RuleRecords) /\ (d \in {Loopback, Private} => LeadsTo(lan, d, Direct))
      /\ (d \notin {Loopback, Private} => Passes(lan, d))
    BY <1>2, <1>3, OneRule
<1>6. /\ DomainPinRules \in Seq(RuleRecords) /\ (~pin => Passes(DomainPinRules, d))
      /\ (pin => LeadsTo(DomainPinRules, d, PinTarget(Max(EmittedOver(d)))))
    BY DomainPinsDecide
<1>7. Tunnels \in SUBSET Clients /\ Proxies \in SUBSET Clients
    BY DEF Clients
<1>8. /\ ClientIpRules(Tunnels) \in Seq(RuleRecords)
      /\ (tunnelled => LeadsTo(ClientIpRules(Tunnels), d, ClientRuleTarget(PinAt[d])))
      /\ (~tunnelled => Passes(ClientIpRules(Tunnels), d))
    BY <1>7, ClientIpsDecide
<1>9. /\ ClientIpRules(Proxies) \in Seq(RuleRecords)
      /\ (proxied => LeadsTo(ClientIpRules(Proxies), d, ClientRuleTarget(PinAt[d])))
      /\ (~proxied => Passes(ClientIpRules(Proxies), d))
    BY <1>7, ClientIpsDecide
<1>10. /\ LastRules \in Seq(RuleRecords)
       /\ LeadsTo(LastRules, d, IF KnownDirect(d) THEN Direct ELSE MatchGroup(Live))
    BY LastRulesDecide
<1>11. d \in Names => d \notin {Loopback, Private, Iran}
    BY NamesAreNoAddresses DEF Addresses
<1>12. Destined(d) = IF pin THEN PinTarget(Max(EmittedOver(d)))
                     ELSE IF d = Loopback THEN Direct
                     ELSE IF tunnelled THEN ClientRuleTarget(PinAt[d])
                     ELSE IF d = Private THEN Direct
                     ELSE IF proxied THEN ClientRuleTarget(PinAt[d])
                     ELSE IF KnownDirect(d) THEN Direct ELSE MatchGroup(Live)
    BY DEF Destined
<1>14. pin => d # Loopback
    BY <1>11
<1> HIDE DEF p1, lan, pin, tunnelled, proxied
<1>15. /\ p2 \in Seq(RuleRecords)
       /\ d = Loopback => LeadsTo(p2, d, Direct)
       /\ pin => LeadsTo(p2, d, PinTarget(Max(EmittedOver(d))))
       /\ d # Loopback /\ ~pin => Passes(p2, d)
    <2>1. p2 \in Seq(RuleRecords)
        BY <1>4, <1>6
    <2>2. d = Loopback => LeadsTo(p2, d, Direct)
        BY <1>4, <1>6, FirstPartSends
    <2>3. pin => LeadsTo(p2, d, PinTarget(Max(EmittedOver(d))))
        BY <1>4, <1>6, <1>14, SecondPartSends
    <2>4. d # Loopback /\ ~pin => Passes(p2, d)
        BY <1>4, <1>6, BothPartsPass
    <2> QED
        BY <2>1, <2>2, <2>3, <2>4
<1> HIDE DEF p2
<1> DEFINE early == d = Loopback \/ pin
           first == IF pin THEN PinTarget(Max(EmittedOver(d))) ELSE Direct
<1>16. (early => LeadsTo(p2, d, first)) /\ (~early => Passes(p2, d))
    BY <1>15
<1>17. Destined(d) = IF early THEN first
                     ELSE IF tunnelled THEN ClientRuleTarget(PinAt[d])
                     ELSE IF d = Private THEN Direct
                     ELSE IF proxied THEN ClientRuleTarget(PinAt[d])
                     ELSE IF KnownDirect(d) THEN Direct ELSE MatchGroup(Live)
    BY <1>12
<1> HIDE DEF early, first
<1>18. /\ p3 \in Seq(RuleRecords)
       /\ early => LeadsTo(p3, d, first)
       /\ ~early /\ tunnelled => LeadsTo(p3, d, ClientRuleTarget(PinAt[d]))
       /\ ~early /\ ~tunnelled => Passes(p3, d)
    <2>1. p3 \in Seq(RuleRecords)
        BY <1>8, <1>15
    <2>2. early => LeadsTo(p3, d, first)
        BY <1>8, <1>15, <1>16, FirstPartSends
    <2>3. ~early /\ tunnelled => LeadsTo(p3, d, ClientRuleTarget(PinAt[d]))
        BY <1>8, <1>15, <1>16, SecondPartSends
    <2>4. ~early /\ ~tunnelled => Passes(p3, d)
        BY <1>8, <1>15, <1>16, BothPartsPass
    <2> QED
        BY <2>1, <2>2, <2>3, <2>4
<1> HIDE DEF p3
<1> DEFINE soon == early \/ tunnelled
           second == IF early THEN first ELSE ClientRuleTarget(PinAt[d])
<1>19. (soon => LeadsTo(p3, d, second)) /\ (~soon => Passes(p3, d))
    BY <1>18
<1>20. Destined(d) = IF soon THEN second
                     ELSE IF d = Private THEN Direct
                     ELSE IF proxied THEN ClientRuleTarget(PinAt[d])
                     ELSE IF KnownDirect(d) THEN Direct ELSE MatchGroup(Live)
    BY <1>17
<1>21. ~soon => d # Loopback
    BY DEF early
<1> HIDE DEF soon, second
<1>22. /\ p4 \in Seq(RuleRecords)
       /\ soon => LeadsTo(p4, d, second)
       /\ ~soon /\ d = Private => LeadsTo(p4, d, Direct)
       /\ ~soon /\ d # Private => Passes(p4, d)
    <2>1. p4 \in Seq(RuleRecords)
        BY <1>5, <1>18
    <2>2. soon => LeadsTo(p4, d, second)
        BY <1>5, <1>18, <1>19, FirstPartSends
    <2>3. ~soon /\ d = Private => LeadsTo(p4, d, Direct)
        BY <1>5, <1>18, <1>19, SecondPartSends
    <2>4. ~soon /\ d # Private => Passes(p4, d)
        BY <1>5, <1>18, <1>19, <1>21, BothPartsPass
    <2> QED
        BY <2>1, <2>2, <2>3, <2>4
<1> HIDE DEF p4
<1> DEFINE decided == soon \/ d = Private
           third == IF soon THEN second ELSE Direct
<1>23. (decided => LeadsTo(p4, d, third)) /\ (~decided => Passes(p4, d))
    BY <1>22
<1>24. Destined(d) = IF decided THEN third
                     ELSE IF proxied THEN ClientRuleTarget(PinAt[d])
                     ELSE IF KnownDirect(d) THEN Direct ELSE MatchGroup(Live)
    BY <1>20
<1> HIDE DEF decided, third
<1>25. /\ p5 \in Seq(RuleRecords)
       /\ decided => LeadsTo(p5, d, third)
       /\ ~decided /\ proxied => LeadsTo(p5, d, ClientRuleTarget(PinAt[d]))
       /\ ~decided /\ ~proxied => Passes(p5, d)
    <2>1. p5 \in Seq(RuleRecords)
        BY <1>9, <1>22
    <2>2. decided => LeadsTo(p5, d, third)
        BY <1>9, <1>22, <1>23, FirstPartSends
    <2>3. ~decided /\ proxied => LeadsTo(p5, d, ClientRuleTarget(PinAt[d]))
        BY <1>9, <1>22, <1>23, SecondPartSends
    <2>4. ~decided /\ ~proxied => Passes(p5, d)
        BY <1>9, <1>22, <1>23, BothPartsPass
    <2> QED
        BY <2>1, <2>2, <2>3, <2>4
<1> HIDE DEF p5
<1>26. /\ p6 \in Seq(RuleRecords)
       /\ decided => LeadsTo(p6, d, third)
       /\ ~decided /\ proxied => LeadsTo(p6, d, ClientRuleTarget(PinAt[d]))
       /\ ~decided /\ ~proxied => LeadsTo(p6, d, IF KnownDirect(d) THEN Direct ELSE MatchGroup(Live))
    <2>1. p6 \in Seq(RuleRecords)
        BY <1>10, <1>25
    <2>2. decided => LeadsTo(p6, d, third)
        BY <1>10, <1>25, FirstPartSends
    <2>3. ~decided /\ proxied => LeadsTo(p6, d, ClientRuleTarget(PinAt[d]))
        BY <1>10, <1>25, FirstPartSends
    <2>4. ~decided /\ ~proxied => LeadsTo(p6, d, IF KnownDirect(d) THEN Direct ELSE MatchGroup(Live))
        BY <1>10, <1>25, SecondPartSends
    <2> QED
        BY <2>1, <2>2, <2>3, <2>4
<1> HIDE DEF p6
<1> QED
    BY <1>1, <1>24, <1>26

-----------------------------------------------------------------------------
(* The configuration that is generated.                                     *)

ConfigFits ==
    config # NotGenerated =>
        config = [match |-> MatchGroup(Live), groups |-> Routed, rules |-> GeneratedRules]
RoutingInv == AppTypeOK /\ ConfigFits

LEMMA RoutingStep ==
    RoutingInv /\ [RoutingNext]_routingVars => RoutingInv'
<1> SUFFICES ASSUME RoutingInv, [RoutingNext]_routingVars PROVE RoutingInv'
    OBVIOUS
<1>1. app' = app /\ readyClients' = readyClients
    BY DEF RoutingNext, Generate, routingVars
<1>2. AppTypeOK'
    BY <1>1 DEF RoutingInv, AppTypeOK
<1>3. \/ config' = config
      \/ config' = [match |-> MatchGroup(Live), groups |-> Routed, rules |-> GeneratedRules]
    BY DEF RoutingNext, Generate, routingVars
<1>4. Live' = Live
    BY <1>1 DEF Live
<1>5. Routed' = Routed
    BY <1>1, <1>4 DEF Routed
<1>6. MatchGroup(Live)' = MatchGroup(Live)
    BY <1>1, <1>4 DEF MatchGroup, FailsClosed
<1>7. GeneratedRules' = GeneratedRules
    BY <1>1, <1>4, <1>6 DEF GeneratedRules, DomainPinRules, ClientIpRules, PinTarget,
       ClientRuleTarget, FailsClosed, MatchGroup
<1>8. ConfigFits'
    BY <1>3, <1>5, <1>6, <1>7 DEF RoutingInv, ConfigFits
<1> QED
    BY <1>2, <1>8 DEF RoutingInv

\* What Mihomo does with a destination.
LEMMA RouteIsDestined ==
    ASSUME RoutingInv, Generated, NEW d \in Destinations
    PROVE  Route(d) = Destined(d)
<1>1. config.rules = GeneratedRules
    BY DEF RoutingInv, ConfigFits, Generated
<1>2. GeneratedRules \in Seq(RuleRecords) /\ LeadsTo(GeneratedRules, d, Destined(d))
    BY RulesDecide DEF RoutingInv
<1> QED
    BY <1>1, <1>2, SentIsRouted

LEMMA TargetsAreDeclared == RoutingInv => EveryTargetIsDeclared
<1> SUFFICES ASSUME RoutingInv, Generated, NEW i \in 1..Len(config.rules)
             PROVE  config.rules[i].target \in config.groups \union {Direct, Reject}
    BY DEF EveryTargetIsDeclared
<1>1. config.rules = GeneratedRules /\ config.groups = Routed
    BY DEF RoutingInv, ConfigFits, Generated
<1>2. Loopback \in Destinations
    BY DEF Destinations, Addresses
<1>3. GeneratedRules \in Seq(RuleRecords)
    BY <1>2, RulesDecide DEF RoutingInv
<1>4. GeneratedRules[i] \in RuleRecords
    BY <1>1, <1>3
<1> QED
    BY <1>1, <1>4 DEF RuleRecords, Targets

\* The longest written pin of a name that is pinned itself is its own.
LEMMA OwnPinDecides ==
    ASSUME AppTypeOK, NEW d \in Names, PinAt[d] \in Emitted
    PROVE  EmittedOver(d) # {} /\ Max(EmittedOver(d)) = d
<1>1. d \in Nat /\ EmittedOver(d) \in SUBSET Nat
    BY NamesAreNoAddresses DEF EmittedOver
<1>2. d \in EmittedOver(d) /\ \A n \in EmittedOver(d) : n <= d
    BY <1>1 DEF EmittedOver
<1> QED
    BY <1>1, <1>2, MaxIs

LEMMA PinsFailClosed == RoutingInv => PinFailsClosed
<1> SUFFICES ASSUME RoutingInv, Generated, NEW d \in Destinations,
                    PinAt[d] \in app.enabled, FailsClosed(PinAt[d])
             PROVE  Route(d) = PinAt[d]
    BY DEF PinFailsClosed, PinAt
<1>1. AppTypeOK
    BY DEF RoutingInv
<1>2. Route(d) = Destined(d)
    BY RouteIsDestined
<1>3. PinAt[d] \in Clients /\ PinAt[d] \notin {Direct, Reject, NoPin}
    BY <1>1, AppTypes, DestinationsAssumption
<1>4. ClientRuleTarget(PinAt[d]) = PinAt[d]
    BY DEF ClientRuleTarget
<1>5. CASE d \in Names
    <2>1. EmittedOver(d) # {} /\ Max(EmittedOver(d)) = d
        BY <1>1, <1>5, OwnPinDecides DEF Emitted
    <2>2. PinTarget(d) = PinAt[d]
        BY <1>3, <1>4 DEF PinTarget, PinAt
    <2> QED
        BY <1>2, <1>5, <2>1, <2>2 DEF Destined
<1>6. CASE d \in Addresses
    <2>1. d \notin Names
        BY <1>6, NamesAreNoAddresses
    <2>2. PinAt[d] \in PinnableTo(d)
        BY <1>1, <1>3, <1>6, AppTypes
    <2>3. d # Loopback /\ (d = Private => PinAt[d] \notin Proxies)
        BY <2>2 DEF PinnableTo, Clients
    <2>4. PinAt[d] \in Tunnels \/ PinAt[d] \in Proxies
        BY <1>3 DEF Clients
    <2> QED
        BY <1>2, <1>4, <1>6, <2>1, <2>3, <2>4 DEF Destined
<1> QED
    BY <1>5, <1>6 DEF Destinations

\* The route test, in the terms of the rules.
LEMMA DecideIs ==
    ASSUME AppTypeOK, NEW d \in Destinations
    PROVE  /\ d \in Names => Decide(d) = IF EmittedOver(d) # {} THEN PinAt[Max(EmittedOver(d))]
                                         ELSE IF d \in Covered(IranLabels) THEN Direct ELSE app.default
           /\ d \in Addresses => Decide(d) = DecideIp(d)
<1>1. d \in Addresses => Decide(d) = DecideIp(d)
    BY DEF Decide
<1>2. ASSUME d \in Names
      PROVE Decide(d) = IF EmittedOver(d) # {} THEN PinAt[Max(EmittedOver(d))]
                        ELSE IF d \in Covered(IranLabels) THEN Direct ELSE app.default
    <2>1. d \notin Addresses /\ d \in Nat /\ Names \subseteq Nat
        BY <1>2, NamesAreNoAddresses
    <2>2. {n \in PinnedNames(app.enabled \union {Direct}) : d \in Covered(n)} = EmittedOver(d)
        BY <1>2, <2>1 DEF PinnedNames, Covered, EmittedOver, Emitted, PinAt
    <2>3. BestPin(d) = IF EmittedOver(d) = {} THEN NoPin ELSE PinAt[Max(EmittedOver(d))]
        BY <2>2 DEF BestPin, PinAt
    <2>4. EmittedOver(d) # {} => PinAt[Max(EmittedOver(d))] # NoPin
        <3>1. EmittedOver(d) # {} => Max(EmittedOver(d)) \in EmittedOver(d)
            BY <1>2, DomainPinsDecide
        <3>2. \A n \in EmittedOver(d) : PinAt[n] \in Clients \union {Direct}
            BY AppTypes DEF EmittedOver, Emitted
        <3> QED
            BY <3>1, <3>2, DestinationsAssumption DEF Direct, NoPin
    <2> QED
        BY <2>1, <2>3, <2>4 DEF Decide
<1> QED
    BY <1>1, <1>2

LEMMA MatchIs ==
    ASSUME AppTypeOK
    PROVE  /\ MatchGroup(Live) = app.default \/ (app.default \notin Live /\ MatchGroup(Live) \in {Direct, Reject})
           /\ app.default # Direct /\ FailsClosed(app.default) => MatchGroup(Live) # Direct
<1>1. app.default = Direct \/ app.default \in Live => MatchGroup(Live) = app.default
    BY DEF MatchGroup
<1>2. ~(app.default = Direct \/ app.default \in Live) =>
        MatchGroup(Live) = IF FailsClosed(app.default) THEN Reject ELSE Direct
    BY DEF MatchGroup, FailsClosed
<1>3. Reject # Direct
    BY DEF Direct, Reject
<1> QED
    BY <1>1, <1>2, <1>3 DEF FailsClosed

LEMMA DefaultsFailClosed == RoutingInv => DefaultFailsClosed
<1> SUFFICES ASSUME RoutingInv, Generated, app.default # Direct, FailsClosed(app.default),
                    NEW d \in Destinations, Decide(d) = app.default
             PROVE  Route(d) # Direct
    BY DEF DefaultFailsClosed
<1>1. AppTypeOK
    BY DEF RoutingInv
<1>2. Route(d) = Destined(d)
    BY RouteIsDestined
<1>3. MatchGroup(Live) # Direct
    BY <1>1, MatchIs
<1>4. app.default \in Clients /\ app.default \notin {Direct, Reject, NoPin}
    BY <1>1, AppTypes, DestinationsAssumption
<1>5. ClientRuleTarget(app.default) = app.default
    BY DEF ClientRuleTarget
<1>6. CASE d \in Names
    <2>1. d \notin Addresses /\ d \notin {Loopback, Private, Iran}
        BY <1>6, NamesAreNoAddresses DEF Addresses
    <2>2. CASE EmittedOver(d) # {}
        <3>1. PinAt[Max(EmittedOver(d))] = app.default
            BY <1>1, <1>6, <2>2, DecideIs
        <3>2. PinTarget(Max(EmittedOver(d))) = app.default
            BY <1>4, <1>5, <3>1 DEF PinTarget, PinAt
        <3> QED
            BY <1>2, <1>4, <1>6, <2>2, <3>2 DEF Destined
    <2>3. CASE EmittedOver(d) = {}
        <3>1. d \notin Covered(IranLabels)
            BY <1>1, <1>4, <1>6, <2>3, DecideIs
        <3>2. Destined(d) = MatchGroup(Live)
            BY <2>1, <2>3, <3>1 DEF Destined, KnownDirect
        <3> QED
            BY <1>2, <1>3, <3>2
    <2> QED
        BY <2>2, <2>3
<1>7. CASE d \in Addresses
    <2>1. d \notin Names /\ d \notin Covered(IranLabels)
        BY <1>7, NamesAreNoAddresses DEF Covered
    <2>2. DecideIp(d) = app.default
        BY <1>1, <1>7, DecideIs
    <2>3. d \notin {Loopback, Private}
        BY <1>4, <2>2 DEF DecideIp
    <2>4. CASE PinAt[d] \in app.enabled
        <3>1. PinAt[d] = app.default
            BY <2>2, <2>3, <2>4 DEF DecideIp, PinAt
        <3>2. PinAt[d] \in Tunnels \/ PinAt[d] \in Proxies
            BY <1>4, <3>1 DEF Clients
        <3>3. Destined(d) = app.default
            BY <1>5, <1>7, <2>1, <2>3, <2>4, <3>1, <3>2 DEF Destined
        <3> QED
            BY <1>2, <1>4, <3>3
    <2>5. CASE PinAt[d] \notin app.enabled
        <3>1. PinAt[d] # Direct
            BY <1>4, <2>2, <2>3 DEF DecideIp, PinAt
        <3>2. d # Iran
            BY <1>4, <2>2, <2>3, <2>5, <3>1 DEF DecideIp, PinAt
        <3>3. Destined(d) = MatchGroup(Live)
            BY <2>1, <2>3, <2>5, <3>1, <3>2 DEF Destined, KnownDirect
        <3> QED
            BY <1>2, <1>3, <3>3
    <2> QED
        BY <2>4, <2>5
<1> QED
    BY <1>6, <1>7 DEF Destinations

LEMMA RouteTestsAgree == RoutingInv => RouteTestAgrees
<1> SUFFICES ASSUME RoutingInv, Generated, NEW d \in Destinations
             PROVE  \/ Route(d) = Decide(d)
                    \/ Decide(d) \notin Live /\ Route(d) \in {Direct, Reject}
                    \/ d = Private /\ PinAt[d] \in Tunnels
    BY DEF RouteTestAgrees, PinAt
<1>1. AppTypeOK
    BY DEF RoutingInv
<1>2. Route(d) = Destined(d)
    BY RouteIsDestined
<1>3. MatchGroup(Live) = app.default \/ (app.default \notin Live /\ MatchGroup(Live) \in {Direct, Reject})
    BY <1>1, MatchIs
<1>4. ASSUME NEW c PROVE ClientRuleTarget(c) = c \/ (c \notin Live /\ ClientRuleTarget(c) = Direct)
    <2>1. CASE c \in Live \/ FailsClosed(c)
        BY <2>1 DEF ClientRuleTarget, FailsClosed
    <2>2. CASE ~(c \in Live \/ FailsClosed(c))
        BY <2>2 DEF ClientRuleTarget, FailsClosed
    <2> QED
        BY <2>1, <2>2
<1>5. CASE d \in Names
    <2>1. d \notin Addresses /\ d \notin {Loopback, Private, Iran}
        BY <1>5, NamesAreNoAddresses DEF Addresses
    <2>2. CASE EmittedOver(d) # {}
        <3> DEFINE n == Max(EmittedOver(d))
        <3>1. Decide(d) = PinAt[n] /\ Destined(d) = PinTarget(n)
            BY <1>1, <1>5, <2>2, DecideIs DEF Destined
        <3> HIDE DEF n
        <3>2. PinTarget(n) = PinAt[n] \/ (PinAt[n] \notin Live /\ PinTarget(n) = Direct)
            BY <1>4 DEF PinTarget, PinAt
        <3> QED
            BY <1>2, <3>1, <3>2
    <2>3. CASE EmittedOver(d) = {}
        <3>1. Destined(d) = IF d \in Covered(IranLabels) THEN Direct ELSE MatchGroup(Live)
            BY <2>1, <2>3 DEF Destined, KnownDirect
        <3>2. Decide(d) = IF d \in Covered(IranLabels) THEN Direct ELSE app.default
            BY <1>1, <1>5, <2>3, DecideIs
        <3> QED
            BY <1>2, <1>3, <3>1, <3>2
    <2> QED
        BY <2>2, <2>3
<1>6. CASE d \in Addresses
    <2>1. d \notin Names /\ d \notin Covered(IranLabels)
        BY <1>6, NamesAreNoAddresses DEF Covered
    <2>2. Decide(d) = DecideIp(d)
        BY <1>1, <1>6, DecideIs
    <2>3. Private # Loopback
        BY DestinationsAssumption
    <2>4. CASE d = Loopback
        BY <1>2, <2>1, <2>2, <2>4 DEF Destined, DecideIp
    <2>5. CASE d = Private
        BY <1>2, <2>1, <2>2, <2>3, <2>5 DEF Destined, DecideIp
    <2>6. CASE d \notin {Loopback, Private}
        <3>1. DecideIp(d) = IF PinAt[d] \in app.enabled \union {Direct} THEN PinAt[d]
                            ELSE IF d = Iran THEN Direct ELSE app.default
            BY <2>6 DEF DecideIp, PinAt
        <3>2. CASE PinAt[d] \in app.enabled
            <4>1. PinAt[d] \in Tunnels \/ PinAt[d] \in Proxies
                BY <1>1, <3>2, AppTypes DEF Clients
            <4>2. Destined(d) = ClientRuleTarget(PinAt[d])
                BY <1>6, <2>1, <2>6, <3>2, <4>1 DEF Destined
            <4> QED
                BY <1>2, <1>4, <2>2, <3>1, <3>2, <4>2
        <3>3. CASE PinAt[d] \notin app.enabled
            <4>1. Destined(d) = IF PinAt[d] = Direct \/ d = Iran THEN Direct ELSE MatchGroup(Live)
                BY <1>6, <2>1, <2>6, <3>3 DEF Destined, KnownDirect
            <4> QED
                BY <1>2, <1>3, <2>2, <3>1, <3>3, <4>1
        <3> QED
            BY <3>2, <3>3
    <2> QED
        BY <2>4, <2>5, <2>6
<1> QED
    BY <1>5, <1>6 DEF Destinations

\* Every configuration that is generated, for any clients, names, pins and
\* handles (generate_config_with_handles, RuleSet::decide): Mihomo accepts it,
\* no client that is down opens the way past it, and the route test agrees.
THEOREM RoutingInvariantHolds == RoutingSpec => []RoutingInvariant
<1>1. RoutingInit => RoutingInv
    BY DEF RoutingInit, RoutingInv, AppTypeOK, ConfigFits
<1>2. RoutingInv => RoutingInvariant
    BY TargetsAreDeclared, PinsFailClosed, DefaultsFailClosed, RouteTestsAgree
       DEF RoutingInvariant, DownClientsFailClosed
<1> QED
    BY <1>1, <1>2, RoutingStep, PTL DEF RoutingSpec
=============================================================================
