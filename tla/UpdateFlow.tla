----------------------------- MODULE UpdateFlow -----------------------------
(* The application's update: the check, the download of the signed package, *)
(* the pause of the stack, the installer, the exit that keeps the network   *)
(* paused, and the guard that tells the next process whether the document   *)
(* of route pins survived.  Releases are published, the user acts on the    *)
(* stack and cancels, and the process may die at any step.                  *)
EXTENDS Naturals

CONSTANT Releases  \* bound: the number of the last release
ASSUME ReleasesAssumption == Releases \in Nat

NoVersion == 0          \* the version that no release has; the first process runs it

VARIABLES
    installKind,   \* how this installation was made
    release,       \* the latest release on GitHub
    manifest,      \* the version of the signed manifest, published after it
    installed,     \* the version on disk
    self,          \* the version of the running process
    process,       \* "up", "leaving" (for an update), "down"
    script,        \* the version that a waiting helper script will install
    job,           \* where the check or the installation is
    target,        \* the version the installation is about
    cancelled,     \* UpdateCoordinator::cancel
    remembered,    \* pending_package, as its version
    offered,       \* the version that the window shows
    shown,         \* the phase that the window shows
    updateStack,   \* the phase of the stack: "live", "working", "paused", "stopped"
    touched,       \* history: somebody else acted on the stack since the job began
    guardFile,     \* direct-rules.upgrade-guard: "none", "present", "absent"
    pinsFile,      \* direct-rules.json is there
    lost           \* history: the document went while an installer ran

versionVars == <<installKind, release, manifest, installed, self>>
jobVars == <<job, target, cancelled, remembered, offered, shown>>
stackVars == <<updateStack, touched>>
guardVars == <<guardFile, pinsFile, lost>>
updateVars == <<versionVars, process, script, jobVars, stackVars, guardVars>>

InstallKinds == {"deb", "appimage", "nsis", "dmg"}
InPlace == installKind # "dmg"
Jobs == {"idle", "checking", "sidecars", "resolving", "downloading", "guarding", "pausing",
         "waiting", "applying", "restoring"}
Versions == 0..Releases

UpdateTypeOK ==
    /\ installKind \in InstallKinds
    /\ {release, manifest, installed, self, target, script, remembered, offered} \subseteq Versions
    /\ manifest <= release /\ process \in {"up", "leaving", "down"} /\ job \in Jobs
    /\ cancelled \in BOOLEAN /\ touched \in BOOLEAN /\ pinsFile \in BOOLEAN /\ lost \in BOOLEAN
    /\ shown \in {"idle", "checking", "available", "current", "downloading", "installing",
                  "installed", "downloaded", "restarting", "failed"}
    /\ updateStack \in {"live", "working", "paused", "stopped"}
    /\ guardFile \in {"none", "present", "absent"}

UpdateInit ==
    /\ installKind \in InstallKinds
    /\ release = NoVersion /\ manifest = NoVersion /\ installed = NoVersion /\ self = NoVersion
    /\ process = "up" /\ script = NoVersion
    /\ job = "idle" /\ target = NoVersion /\ cancelled = FALSE /\ remembered = NoVersion
    /\ offered = NoVersion /\ shown = "idle"
    /\ updateStack = "stopped" /\ touched = FALSE
    /\ guardFile = "none" /\ pinsFile \in BOOLEAN /\ lost = FALSE

JobAt(place) == job = place /\ process # "down"
JobGoes(place) == job' = place

\* The command returns: what the window shows is all that is left of it.
JobEnds(phase) ==
    /\ JobGoes("idle") /\ shown' = phase
    /\ UNCHANGED <<versionVars, process, script, stackVars, guardVars>>

-----------------------------------------------------------------------------
(* One check or installation at a time.                                    *)

\* Only the holder of the lock clears the cancellation.
TryBegin(place, phase) ==
    /\ JobAt("idle") /\ process = "up"
    /\ JobGoes(place) /\ cancelled' = FALSE /\ shown' = phase /\ target' = NoVersion /\ touched' = FALSE
    /\ UNCHANGED <<versionVars, process, script, remembered, offered, updateStack, guardVars>>

CheckForUpdate == TryBegin("checking", "checking")
InstallUpdate == TryBegin("sidecars", "downloading")

\* cancel_operation is sent for any operation, the stack's included.
RequestCancel ==
    /\ process = "up" /\ cancelled' = TRUE
    /\ UNCHANGED <<versionVars, process, script, job, target, remembered, offered, shown,
                   stackVars, guardVars>>

\* Found, or an error: no answer after the retries, no package for this
\* platform, or cancelled between two attempts.
FoundRelease == remembered' = release

CheckFinds ==
    /\ JobAt("checking") /\ FoundRelease /\ offered' = release
    /\ JobEnds(IF release > self THEN "available" ELSE "current")
    /\ UNCHANGED <<target, cancelled>>

CheckFails ==
    /\ JobAt("checking") /\ JobEnds("failed") /\ UNCHANGED <<target, cancelled, remembered, offered>>

\* Rules are synchronised on a best-effort basis; a Mihomo that is missing and
\* cannot be installed ends the installation.
ApplySidecars ==
    /\ JobAt("sidecars") /\ JobGoes("resolving") /\ shown' = "installing"
    /\ UNCHANGED <<versionVars, process, script, target, cancelled, remembered, offered,
                   stackVars, guardVars>>

SidecarFails ==
    /\ JobAt("sidecars") /\ JobEnds("installing")
    /\ UNCHANGED <<target, cancelled, remembered, offered>>

\* The package of an earlier check is taken as it is.
ResolveGithubPackage ==
    /\ JobAt("resolving")
    /\ IF remembered = NoVersion THEN FoundRelease ELSE UNCHANGED remembered
    /\ IF remembered' > self
       THEN /\ JobGoes("downloading") /\ shown' = "downloading" /\ target' = remembered'
            /\ offered' = remembered'
            /\ UNCHANGED <<versionVars, process, script, cancelled, stackVars, guardVars>>
       ELSE JobEnds("current") /\ UNCHANGED <<target, cancelled, offered>>

ResolveFails ==
    /\ JobAt("resolving") /\ remembered = NoVersion
    /\ JobEnds(shown) /\ UNCHANGED <<target, cancelled, remembered, offered>>

\* Mutation of ValidSigned: any newer package will do.
AnySigned(version) == manifest > self

\* validate_signed_metadata: the manifest names the package of this release.
ValidSigned(version) == manifest > self /\ version = manifest

\* The bytes are those of the manifest, whatever the release is called.
Download ==
    /\ JobAt("downloading") /\ ValidSigned(target)
    /\ target' = manifest /\ JobGoes(IF InPlace THEN "guarding" ELSE "applying")
    /\ UNCHANGED <<versionVars, process, script, cancelled, remembered, offered, shown,
                   stackVars, guardVars>>

DownloadFails ==
    /\ JobAt("downloading") /\ JobEnds("failed") /\ UNCHANGED <<target, cancelled, remembered, offered>>

-----------------------------------------------------------------------------
(* The guard of the pins.                                                  *)

Verified == guardFile = "none" \/ guardFile = "absent" \/ pinsFile

\* Mutation of RecordGuard: the new guard replaces the last one.
RecordGuardAnew ==
    /\ JobAt("guarding")
    /\ guardFile' = (IF pinsFile THEN "present" ELSE "absent")
    /\ JobGoes("pausing")
    /\ UNCHANGED <<versionVars, process, script, target, cancelled, remembered, offered, shown,
                   stackVars, pinsFile, lost>>

\* The last guard is verified and removed before this one is written.
RecordGuard ==
    /\ JobAt("guarding") /\ Verified
    /\ guardFile' = (IF pinsFile THEN "present" ELSE "absent")
    /\ lost' = FALSE /\ JobGoes("pausing")
    /\ UNCHANGED <<versionVars, process, script, target, cancelled, remembered, offered, shown,
                   stackVars, pinsFile>>

GuardFails ==
    /\ JobAt("guarding") /\ JobGoes("idle") /\ guardFile' \in {guardFile, IF Verified THEN "none" ELSE guardFile}
    /\ lost' = (lost /\ ~Verified)
    /\ UNCHANGED <<versionVars, process, script, target, cancelled, remembered, offered, shown,
                   stackVars, pinsFile>>

-----------------------------------------------------------------------------
(* The stack.                                                              *)

\* Only a live stack is paused: one that is still starting is not.
PauseStack ==
    /\ JobAt("pausing")
    /\ \/ updateStack = "live" /\ updateStack' = "working" /\ JobGoes("waiting")
       \/ updateStack # "live" /\ UNCHANGED updateStack /\ JobGoes("applying")
    /\ shown' = (IF job' = "applying" THEN "installing" ELSE shown)
    /\ UNCHANGED <<versionVars, process, script, target, cancelled, remembered, offered,
                   touched, guardVars>>

WaitsForPaused ==
    /\ JobAt("waiting") /\ updateStack = "paused" /\ JobGoes("applying") /\ shown' = "installing"
    /\ UNCHANGED <<versionVars, process, script, target, cancelled, remembered, offered,
                   stackVars, guardVars>>

\* The call is refused, the phase is Error, or 25 seconds go by: the command
\* returns, and the pause that it asked for goes on.
PauseFails ==
    /\ \/ JobAt("pausing") /\ updateStack = "live"
       \/ JobAt("waiting")
    /\ JobGoes("idle")
    /\ UNCHANGED <<versionVars, process, script, target, cancelled, remembered, offered, shown,
                   stackVars, guardVars>>

\* The engine ends the pause the update asked for, or fails to.
PauseEnds ==
    /\ updateStack = "working" /\ updateStack' \in {"paused", "stopped", "live"}
    /\ touched' = (touched \/ updateStack' # "paused")
    /\ UNCHANGED <<versionVars, process, script, jobVars, guardVars>>

\* Connects, resumes, pauses and disconnects of the user.
UserActs ==
    /\ process = "up" /\ updateStack # "working"
    /\ updateStack' = "working" /\ touched' = TRUE
    /\ UNCHANGED <<versionVars, process, script, jobVars, guardVars>>

\* A failed installer has its pause taken back; a pause of the user's as well.
RestoreStack ==
    /\ JobAt("restoring") /\ shown' = "failed" /\ JobGoes("idle")
    /\ \/ InPlace /\ updateStack = "paused" /\ updateStack' = "working" /\ touched' = TRUE
       \/ UNCHANGED stackVars
    /\ UNCHANGED <<versionVars, process, script, target, cancelled, remembered, offered, guardVars>>

-----------------------------------------------------------------------------
(* The installers.                                                         *)

\* apt-get replaces the files under the running process.
InstallDeb ==
    /\ JobAt("applying") /\ installKind = "deb"
    /\ installed' = target /\ JobGoes("idle") /\ shown' = "installed"
    /\ UNCHANGED <<installKind, release, manifest, self, process, script, target, cancelled,
                   remembered, offered, stackVars, guardVars>>

OpenDiskImage ==
    /\ JobAt("applying") /\ installKind = "dmg" /\ JobGoes("idle") /\ shown' = "downloaded"
    /\ UNCHANGED <<versionVars, process, script, target, cancelled, remembered, offered,
                   stackVars, guardVars>>

\* The script waits for the process, which is scheduled to exit.
LaunchScript ==
    /\ JobAt("applying") /\ installKind \in {"appimage", "nsis"}
    /\ script' = target /\ process' = "leaving" /\ JobGoes("idle") /\ shown' = "restarting"
    /\ UNCHANGED <<versionVars, target, cancelled, remembered, offered, stackVars, guardVars>>

PackageFails ==
    /\ JobAt("applying") /\ JobGoes("restoring")
    /\ UNCHANGED <<versionVars, process, script, target, cancelled, remembered, offered, shown,
                   stackVars, guardVars>>

\* The exit of an update does not release the network; the user's own quit
\* does, and an end of the process that nobody asked for releases nothing.
Exits ==
    /\ process \in {"up", "leaving"} /\ process' = "down" /\ JobGoes("idle")
    /\ updateStack' \in (IF process = "up" THEN {"stopped", updateStack} ELSE {updateStack})
    /\ shown' = "idle" /\ remembered' = NoVersion /\ offered' = NoVersion /\ cancelled' = FALSE /\ target' = NoVersion
    /\ UNCHANGED <<versionVars, script, touched, guardVars>>

\* The script installs its version, or fails and changes nothing.
RunScript ==
    /\ process = "down" /\ script # NoVersion /\ script' = NoVersion
    /\ installed' \in {installed, script}
    /\ UNCHANGED <<installKind, release, manifest, self, process, jobVars, stackVars, guardVars>>

\* An installer may lose the document of pins, which is not its own.
LosePins ==
    /\ pinsFile /\ (JobAt("applying") \/ (process = "down" /\ script # NoVersion))
    /\ pinsFile' = FALSE /\ lost' = (guardFile = "present")
    /\ UNCHANGED <<versionVars, process, script, jobVars, stackVars, guardFile>>

PinsAreWritten ==
    /\ process = "up" /\ ~pinsFile /\ pinsFile' = TRUE /\ lost' = FALSE
    /\ UNCHANGED <<versionVars, process, script, jobVars, stackVars, guardFile>>

\* bootstrap_app verifies the guard; the engine's reconciliation is its own.
Starts ==
    /\ process = "down" /\ script = NoVersion
    /\ process' = "up" /\ self' = installed
    /\ guardFile' = (IF Verified THEN "none" ELSE guardFile)
    /\ shown' = (IF Verified THEN "idle" ELSE "failed")
    /\ UNCHANGED <<installKind, release, manifest, installed, script, job, target, cancelled,
                   remembered, offered, stackVars, pinsFile, lost>>

\* A release is published, and then its signed manifest.
PublishRelease ==
    /\ \/ release < Releases /\ release' = release + 1 /\ UNCHANGED manifest
       \/ manifest < release /\ manifest' = release /\ UNCHANGED release
    /\ UNCHANGED <<installKind, installed, self, process, script, jobVars, stackVars, guardVars>>

UpdateNext ==
    \/ CheckForUpdate \/ InstallUpdate \/ RequestCancel \/ CheckFinds \/ CheckFails
    \/ ApplySidecars \/ SidecarFails \/ ResolveGithubPackage \/ ResolveFails
    \/ Download \/ DownloadFails \/ RecordGuard \/ GuardFails
    \/ PauseStack \/ WaitsForPaused \/ PauseFails \/ PauseEnds \/ UserActs \/ RestoreStack
    \/ InstallDeb \/ OpenDiskImage \/ LaunchScript \/ PackageFails
    \/ Exits \/ RunScript \/ LosePins \/ PinsAreWritten \/ Starts \/ PublishRelease

UpdateSpec == UpdateInit /\ [][UpdateNext]_updateVars

-----------------------------------------------------------------------------
\* A document of pins that went while an installer ran is reported by every
\* process until there is a document again: no later update forgets it.
LossIsReported == lost => guardFile = "present"

\* An installer that will replace the process finds the stack paused or down,
\* unless somebody acted on the stack after the update had begun.
InstallerFindsPausedStack == process = "leaving" => updateStack # "live" \/ touched

\* What is installed is what the window offered, although the release, the
\* signed manifest and the package that was remembered change apart.
InstallsWhatWasOffered == job = "applying" => target = offered /\ target > self

\* The guard of the pins and the pause of the stack hold through every order
\* of installers, deaths, restarts and actions of the user.
UpdateInvariant ==
    UpdateTypeOK /\ LossIsReported /\ InstallerFindsPausedStack
=============================================================================
