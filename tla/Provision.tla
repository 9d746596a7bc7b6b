------------------------------ MODULE Provision ------------------------------
(* The installation of the privileged helper, by the button of the window,  *)
(* by a connect that misses something and by the setup program of Windows:  *)
(* the first two share one directory of staged copies, and nothing locks.   *)
(* The elevated half is a script on Linux and macOS and the packaged helper *)
(* on Windows.  A version stands for the bytes, and the digest, of the      *)
(* files of that release.                                                   *)
EXTENDS Naturals, Sequences

CONSTANTS
    LastVersion,  \* bound: the number of the last version of the application
    Overlaps      \* bound: an installation may begin while the other is under way

ASSUME LastVersionAssumption == LastVersion \in Nat \ {0} /\ Overlaps \in BOOLEAN

Missing == 0                     \* no such file
Torn == LastVersion + 1          \* a file that is being written, or was left half written
Whole == 1..LastVersion
Contents == {Missing, Torn} \union Whole
Installers == {"button", "connect", "setup"}
Kinds == {"deb", "appimage", "macos", "windows"}

VARIABLES
    kind,       \* how the application was installed
    current,    \* the version of the running application
    packaged,   \* the version of the payload that it carries
    unpacked,   \* dpkg has unpacked a package and not yet run postinst
    payload,    \* the copies that the elevated half reads: [there, helper, mihomo, toml]
    root,       \* what is installed: [helper, mihomo, script, toml]; toml: its digest
    service,    \* the helper that serves: [helper, digest]
    seen,       \* the version of the helper in the engine's snapshot
    step,       \* the next step of each installation, or "none"
    waiting,    \* the installations that the application waits for
    staging,    \* the installations that copy what they install first
    originals,  \* the digests each installation took: [helper, mihomo]
    done,       \* history: the installations that succeeded, until something changes the files
    disturbed,  \* history: two installations were under way at once, or a helper outlived an installation
    needs,      \* what the connect still has to install
    connect,    \* the preparation of a connect: "no", "prepares", "prepared"
    mihomo      \* there is a data/bin/mihomo, that the desktop validates with

filesVars == <<payload, root, service>>
installVars == <<step, waiting, staging, originals, done, disturbed>>
prepareVars == <<seen, needs, connect, mihomo>>
releaseVars == <<kind, current, packaged, unpacked>>
provisionVars == <<releaseVars, filesVars, installVars, prepareVars>>

NoPayload == [there |-> FALSE, helper |-> Missing, mihomo |-> Missing, toml |-> Missing]
NoHelper == [helper |-> Missing, digest |-> Missing]
NoOriginals == [helper |-> Missing, mihomo |-> Missing]
NoStep == [i \in Installers |-> "none"]

\* The candidates of Linux begin with /usr/lib/biflow: where a script is
\* installed it is run in place, on the files beside it.
RunsInPlace == kind = "deb" \/ (kind = "appimage" /\ root.script)

Copies == kind \in {"appimage", "macos"} /\ ~RunsInPlace
Linux == kind \in {"deb", "appimage"}

DesktopSteps == {"clear", "copyHelper", "endHelper", "copyMihomo", "endMihomo", "verifyCopies", "prompt"}
ElevatedSteps == {"verifySource", "installHelper", "installMihomo", "writeToml", "verifyInstalled",
                  "stop", "restart", "wait"}
FirstStep == IF Copies THEN "clear" ELSE "prompt"
Straight ==
    [clear |-> "copyHelper", copyHelper |-> "endHelper", endHelper |-> "copyMihomo",
     copyMihomo |-> "endMihomo", endMihomo |-> "verifyCopies", verifyCopies |-> "prompt",
     installHelper |-> "installMihomo", installMihomo |-> "writeToml", verifyInstalled |-> "restart",
     wait |-> "none"]
After(i, s) ==
    CASE s = "prompt" -> IF Linux THEN "verifySource" ELSE IF kind = "macos" THEN "installHelper" ELSE "stop"
      [] s = "verifySource" -> IF i \in staging THEN "installHelper" ELSE "writeToml"
      [] s = "writeToml" -> IF Linux THEN "verifyInstalled" ELSE IF kind = "macos" THEN "stop" ELSE "restart"
      [] s = "stop" -> IF kind = "macos" THEN "restart" ELSE "installHelper"
      [] s = "restart" -> IF i \in waiting THEN "wait" ELSE "none"
      [] OTHER -> Straight[s]
\* The setup program of Windows: nobody is asked, and nobody waits.
SetupInstalls(steps) == [steps EXCEPT !["setup"] = "stop"]

Busy(i) == step[i] # "none"
Doing(i, s) == step[i] = s
Elevated(i) == step[i] \in ElevatedSteps
Proceeds(i) == step' = [step EXCEPT ![i] = After(i, @)]
Payload == [helper |-> packaged, mihomo |-> packaged]
Source(i) == IF i \in staging THEN payload ELSE IF kind = "windows" THEN Payload ELSE root

ProvisionTypeOK ==
    /\ kind \in Kinds /\ current \in Whole /\ packaged \in Whole /\ unpacked \in BOOLEAN
    /\ payload \in [there : BOOLEAN, helper : Contents, mihomo : Contents, toml : Contents]
    /\ root \in [helper : Contents, mihomo : Contents, script : BOOLEAN, toml : Contents]
    /\ service \in [helper : Contents, digest : Contents] /\ seen \in Contents
    /\ step \in [Installers -> DesktopSteps \union ElevatedSteps \union {"none"}]
    /\ originals \in [Installers -> [helper : Contents, mihomo : Contents]]
    /\ waiting \union staging \union done \subseteq Installers /\ disturbed \in BOOLEAN
    /\ needs \in {<<>>} \union {<<a>> : a \in {"helper", "mihomo"}} \union {<<"helper", "mihomo">>, <<"mihomo", "helper">>}
    /\ connect \in {"no", "prepares", "prepared"} /\ mihomo \in BOOLEAN

\* An application that starts for the first time; a package of Debian has
\* unpacked the files of the helper, the setup of Windows installs them.
ProvisionInit ==
    /\ kind \in Kinds /\ current = 1 /\ packaged = 1 /\ unpacked = (kind = "deb")
    /\ payload = NoPayload
    /\ root = IF kind = "deb" THEN [helper |-> 1, mihomo |-> 1, script |-> TRUE, toml |-> Missing]
                              ELSE [helper |-> Missing, mihomo |-> Missing, script |-> FALSE, toml |-> Missing]
    /\ service = NoHelper /\ seen = Missing
    /\ step = (IF kind = "windows" THEN SetupInstalls(NoStep) ELSE NoStep)
    /\ waiting = {} /\ staging = {} /\ originals = [i \in Installers |-> NoOriginals]
    /\ done = {} /\ disturbed = FALSE
    /\ needs = <<>> /\ connect = "no" /\ mihomo = FALSE

-----------------------------------------------------------------------------
(* The desktop's half.  A development run is refused before anything.      *)

Begins(i) ==
    /\ ~Busy(i) /\ (Overlaps \/ \A j \in Installers : ~Busy(j))
    /\ step' = [step EXCEPT ![i] = FirstStep] /\ waiting' = waiting \union {i}
    /\ staging' = (IF Copies THEN staging \union {i} ELSE staging \ {i})
    /\ originals' = [originals EXCEPT ![i] =
          IF RunsInPlace THEN [helper |-> root.helper, mihomo |-> root.mihomo] ELSE Payload]
    /\ done' = done \ {i} /\ disturbed' = (disturbed \/ \E j \in Installers : j # i /\ Busy(j))
    /\ UNCHANGED <<releaseVars, filesVars, seen, mihomo>>

InstallHelper == Begins("button") /\ UNCHANGED <<needs, connect>>

Stages(i, s) ==
    /\ Doing(i, s) /\ Proceeds(i)
    /\ UNCHANGED <<releaseVars, root, service, waiting, staging, originals, done, disturbed, prepareVars>>

ClearPayload(i) == Stages(i, "clear") /\ payload' = [NoPayload EXCEPT !.there = TRUE]

\* fs::copy creates the file, and fills it: the directory may go in between.
CopyStarts(i) ==
    /\ payload.there
    /\ \/ Stages(i, "copyHelper") /\ payload' = [payload EXCEPT !.helper = Torn]
       \/ Stages(i, "copyMihomo") /\ payload' = [payload EXCEPT !.mihomo = Torn]
Filled(content) == IF content = Torn THEN packaged ELSE content
CopyEnds(i) ==
    \/ Stages(i, "endHelper") /\ payload' = [payload EXCEPT !.helper = Filled(@)]
    \/ Stages(i, "endMihomo") /\ payload' = [payload EXCEPT !.mihomo = Filled(@)]

\* Linux compares the copies with the originals; macOS writes a helper.toml
\* with the digest of the copy.
VerifyCopies(i) ==
    /\ payload.there /\ Stages(i, "verifyCopies")
    /\ \/ /\ kind = "appimage" /\ UNCHANGED payload
          /\ payload.helper = originals[i].helper /\ payload.mihomo = originals[i].mihomo
       \/ kind = "macos" /\ payload.mihomo # Missing /\ payload' = [payload EXCEPT !.toml = payload.mihomo]

Prompt(i) == Stages(i, "prompt") /\ UNCHANGED payload

\* Whatever fails ends the installation; the copies are discarded when the
\* elevated half was asked for, or when the copies did not verify.
Discarded(i) ==
    IF /\ i \in staging /\ ~Doing(i, "wait")
       /\ Elevated(i) \/ Doing(i, "prompt") \/ (Doing(i, "verifyCopies") /\ kind = "appimage")
    THEN NoPayload ELSE payload

InstallFails(i) ==
    /\ Busy(i) /\ step' = [step EXCEPT ![i] = "none"] /\ waiting' = waiting \ {i}
    /\ payload' = Discarded(i)
    /\ IF i = "connect" THEN connect' = "no" /\ needs' = <<>> ELSE UNCHANGED <<connect, needs>>
    /\ UNCHANGED <<releaseVars, root, service, staging, originals, done, disturbed, seen, mihomo>>

-----------------------------------------------------------------------------
(* The elevated half.                                                      *)

Elevates(i, s) ==
    /\ Doing(i, s) /\ Proceeds(i) /\ done' = {}
    /\ UNCHANGED <<releaseVars, waiting, staging, originals, disturbed, prepareVars>>

VerifySource(i) ==
    /\ Elevates(i, "verifySource") /\ UNCHANGED filesVars
    /\ Source(i).helper = originals[i].helper /\ Source(i).mihomo = originals[i].mihomo

\* A helper that runs holds its image on Windows, unless the bytes are the same.
InstallFile(i) ==
    /\ UNCHANGED <<payload, service>>
    /\ \/ /\ Elevates(i, "installHelper") /\ Source(i).helper # Missing
          /\ kind = "windows" /\ service # NoHelper => root.helper = Source(i).helper
          /\ root' = [root EXCEPT !.helper = Source(i).helper]
       \/ /\ Elevates(i, "installMihomo") /\ Source(i).mihomo # Missing
          /\ root' = [root EXCEPT !.mihomo = Source(i).mihomo, !.script = (kind = "appimage")]

\* Linux writes the digest it was given, macOS the staged file, and Windows
\* the digest of what it has installed.
WriteToml(i) ==
    /\ Elevates(i, "writeToml") /\ UNCHANGED <<payload, service>>
    /\ \/ kind \in {"deb", "appimage"} /\ root' = [root EXCEPT !.toml = originals[i].mihomo]
       \/ kind = "macos" /\ payload.toml # Missing /\ root' = [root EXCEPT !.toml = payload.toml]
       \/ kind = "windows" /\ root' = [root EXCEPT !.toml = root.mihomo]

\* Mutation of VerifyInstalled: what was copied is what is there.
TrustInstalled(i) == Elevates(i, "verifyInstalled") /\ UNCHANGED filesVars

VerifyInstalled(i) ==
    /\ Elevates(i, "verifyInstalled") /\ UNCHANGED filesVars
    /\ root.helper = originals[i].helper /\ root.mihomo = originals[i].mihomo

\* launchctl bootout; schtasks /End may take longer than it is waited for.
StopHelper(i) ==
    /\ Elevates(i, "stop") /\ UNCHANGED <<payload, root>>
    /\ \/ service' = NoHelper
       \/ kind = "windows" /\ UNCHANGED service

Boots == IF root.helper \in Whole /\ root.toml # Missing
         THEN [helper |-> root.helper, digest |-> root.toml] ELSE NoHelper

\* A task that still runs is not started again on Windows.  The copies go.
RestartHelper(i) ==
    /\ Doing(i, "restart") /\ Proceeds(i) /\ done' = {}
    /\ \/ ~(kind = "windows" /\ service # NoHelper) /\ service' = Boots /\ UNCHANGED disturbed
       \/ kind = "windows" /\ service # NoHelper /\ disturbed' = TRUE /\ UNCHANGED service
    /\ service' # NoHelper
    /\ payload' = (IF i \in staging THEN NoPayload ELSE payload)
    /\ UNCHANGED <<releaseVars, root, waiting, staging, originals, prepareVars>>

\* Any helper that answers will do.
WaitForHelper(i) ==
    /\ Doing(i, "wait") /\ service # NoHelper /\ Proceeds(i)
    /\ waiting' = waiting \ {i} /\ done' = done \union {i} /\ seen' = service.helper
    /\ needs' = (IF i = "connect" THEN Tail(needs) ELSE needs)
    /\ UNCHANGED <<releaseVars, filesVars, staging, originals, disturbed, connect, mihomo>>

-----------------------------------------------------------------------------
(* The preparation of a connect.                                           *)

\* Mutation of Requirements: a helper is a helper.
AnyHelper ==
    (IF seen = Missing THEN <<"helper">> ELSE <<>>) \o (IF ~mihomo THEN <<"mihomo">> ELSE <<>>)

\* What is missing, and then a helper of another version.
Requirements ==
    (IF seen = Missing THEN <<"helper">> ELSE <<>>) \o (IF ~mihomo THEN <<"mihomo">> ELSE <<>>)
    \o (IF seen \notin {Missing, current} THEN <<"helper">> ELSE <<>>)

PrepareStackStart ==
    /\ connect # "prepares" /\ ~Busy("connect") /\ connect' = "prepares" /\ needs' = Requirements
    /\ UNCHANGED <<releaseVars, filesVars, installVars, seen, mihomo>>

PrepareInstallsHelper ==
    /\ connect = "prepares" /\ needs # <<>> /\ Head(needs) = "helper"
    /\ Begins("connect") /\ UNCHANGED <<needs, connect>>

\* The bytes are verified before the file is written: that there is a file
\* is all that counts later.
WriteMihomo ==
    /\ ~mihomo /\ mihomo' = TRUE
    /\ UNCHANGED <<releaseVars, filesVars, installVars, seen, needs, connect>>

PrepareHasMihomo ==
    /\ connect = "prepares" /\ needs # <<>> /\ Head(needs) = "mihomo" /\ mihomo
    /\ needs' = Tail(needs)
    /\ UNCHANGED <<releaseVars, filesVars, installVars, seen, connect, mihomo>>

Prepared ==
    /\ connect = "prepares" /\ needs = <<>> /\ connect' = "prepared" /\ seen' = service.helper
    /\ UNCHANGED <<releaseVars, filesVars, installVars, needs, mihomo>>

RefreshHealth ==
    /\ seen' = service.helper
    /\ UNCHANGED <<releaseVars, filesVars, installVars, needs, connect, mihomo>>

-----------------------------------------------------------------------------
(* The machine and the releases.                                           *)

HelperDies ==
    /\ service' = NoHelper /\ UNCHANGED <<releaseVars, payload, root, installVars, prepareVars>>
HelperStarts ==
    /\ service = NoHelper /\ service' = Boots
    /\ UNCHANGED <<releaseVars, payload, root, installVars, prepareVars>>

\* The process ends: what is elevated goes on, and nobody waits for it.
Restarts(version) ==
    /\ current' = version /\ seen' = Missing /\ needs' = <<>> /\ connect' = "no" /\ waiting' = {}
    /\ UNCHANGED <<kind, staging, originals, mihomo>>
LeftElevated ==
    [i \in Installers |-> IF Elevated(i) /\ step[i] # "wait" THEN step[i] ELSE "none"]

AppRestarts ==
    /\ Restarts(packaged) /\ step' = LeftElevated
    /\ UNCHANGED <<packaged, unpacked, filesVars, done, disturbed>>

\* A release is installed: dpkg replaces the files of the helper, the setup of
\* Windows runs the new helper with --install, elsewhere only the application
\* is replaced.
Updates ==
    /\ packaged < LastVersion /\ ~unpacked /\ packaged' = packaged + 1 /\ done' = {}
    /\ UNCHANGED <<payload, service>>
    /\ \/ /\ kind = "deb" /\ unpacked' = TRUE
          /\ root' = [root EXCEPT !.helper = packaged', !.mihomo = packaged']
          /\ UNCHANGED <<kind, current, step, waiting, staging, originals, disturbed, prepareVars>>
       \/ /\ kind \in {"appimage", "macos"} /\ Restarts(packaged')
          /\ step' = LeftElevated /\ UNCHANGED <<unpacked, root, disturbed>>
       \/ /\ kind = "windows" /\ Restarts(packaged')
          /\ \A i \in Installers : Elevated(i) => Overlaps
          /\ step' = SetupInstalls(LeftElevated)
          /\ disturbed' = (disturbed \/ \E i \in Installers : Elevated(i)) /\ UNCHANGED <<unpacked, root>>

\* postinst keeps the identity that is configured and renews the digest, or
\* installs for the user of sudo, if there is one; when it fails the package
\* stays unpacked.
Postinst ==
    /\ unpacked /\ done' = {}
    /\ \/ root.toml = Missing /\ unpacked' = FALSE /\ UNCHANGED <<root, service>>
       \/ /\ root' = [root EXCEPT !.toml = root.mihomo]
          /\ \/ unpacked' = FALSE /\ service' = [helper |-> root.helper, digest |-> root.mihomo]
             \/ UNCHANGED unpacked /\ service' \in {service, NoHelper}
    /\ UNCHANGED <<kind, current, packaged, payload, step, waiting, staging, originals, disturbed,
                   prepareVars>>

ProvisionNext ==
    \/ InstallHelper \/ PrepareStackStart \/ PrepareInstallsHelper \/ WriteMihomo \/ PrepareHasMihomo
    \/ Prepared \/ RefreshHealth \/ HelperDies \/ HelperStarts \/ AppRestarts \/ Updates \/ Postinst
    \/ \E i \in Installers :
          \/ ClearPayload(i) \/ CopyStarts(i) \/ CopyEnds(i) \/ VerifyCopies(i) \/ Prompt(i) \/ InstallFails(i)
          \/ VerifySource(i) \/ InstallFile(i) \/ WriteToml(i) \/ VerifyInstalled(i) \/ StopHelper(i)
          \/ RestartHelper(i) \/ WaitForHelper(i)

ProvisionSpec == ProvisionInit /\ [][ProvisionNext]_provisionVars

-----------------------------------------------------------------------------
Startable == service.digest = root.mihomo /\ root.mihomo \in Whole

\* install_helper returned: the helper that serves, if one does, will not
\* refuse the Mihomo that is installed (verify_binary), until something else
\* changes the files.  Not so when two installations were under way at once.
SuccessfulInstallServes ==
    done # {} /\ ~unpacked /\ ~disturbed => service = NoHelper \/ Startable

\* prepare_stack_start reinstalls the helper of another release: a connect that
\* was prepared meets only a helper of the application's release or of a
\* package unpacked since.  Not so for an AppImage, which installs what is
\* installed.
PreparedHelperMatches ==
    connect = "prepared" /\ kind # "appimage" => service.helper \in {Missing} \union current..packaged

\* The types, what a successful installation promises, and a prepared connect.
ProvisionInvariant == ProvisionTypeOK /\ SuccessfulInstallServes /\ PreparedHelperMatches
=============================================================================
