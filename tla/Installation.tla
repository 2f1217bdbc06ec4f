---------------------------- MODULE Installation ----------------------------
(***************************************************************************)
(* cmd/cli/setup: installing piri as a managed systemd service, the        *)
(* updater its timer starts, and uninstalling it.  Under /opt/piri there   *)
(* is a directory of the binary and one of the unit files per version, and *)
(* a "current" symlink to each; systemd runs the binary the first names,   *)
(* with the unit files the second names.                                   *)
(*                                                                         *)
(* One administrator (install, uninstall, stop) and one updater work at    *)
(* the same time; the machine may lose power between any two steps.        *)
(***************************************************************************)
EXTENDS Integers

CONSTANTS
    Versions,     \* releases, numbered in semver order
    MinorOf,      \* their major.minor
    BadVersions,  \* those whose server exits soon after it starts
    MaxTrouble    \* bound: power losses, refused calls and forced installs

ASSUME InstallationAssumption ==
    /\ Versions \subseteq Nat \ {0}
    /\ BadVersions \subseteq Versions
    /\ MaxTrouble \in Nat

None == 0         \* a symlink that is not there, a service that does not run

VARIABLES
    bin,          \* bin/<version>/piri: "none", "part" (being written), "good" or
                  \* "other" (not the release's)
    units,        \* versions whose unit files are written
    link,         \* the two "current" symlinks
    etc,          \* which of conf, services, sudoers, cli, tools exist: the files
                  \* outside the versioned directories; "tools" are the other
                  \* programs of /usr/local/bin
    enabled,      \* units systemd starts at boot, of piri and timer
    active,       \* what runs: piri's version, and whether the timer does
    latest,       \* the newest release published
    solo,         \* on a machine with a standalone binary instead, its version
                  \* and that of its .old backup
    upd, adm,     \* the updater and the administrator's command
    trouble,      \* how many disturbances there have been
    forced        \* whether one was an install --force over existing files

instVars == <<bin, units, link, etc, enabled, active, latest, solo, upd, adm, trouble, forced>>
files == <<bin, units, link, etc>>
services == <<enabled, active>>

Idle_ == [at |-> "idle"]
UpdaterIdle == upd.at = "idle"
AdminIdle == adm.at = "idle"

Disturb == trouble < MaxTrouble /\ trouble' = trouble + 1 /\ UNCHANGED forced
Calm == UNCHANGED <<trouble, forced>>

----------------------------------------------------------------------------
(* systemd, the release page and the filesystem *)

\* The unit starts: its files resolve through both symlinks and the binary runs.
Loads == /\ "services" \in etc
         /\ link.units \in units
         /\ link.bin # None /\ bin[link.bin] = "good"

\* NewPlatformChecker and Prerequisites.Validate: root on Linux with systemd is
\* assumed; no service may run, and without --force no file may exist.
Validate(force) ==
    /\ active.piri = None /\ ~active.timer
    /\ force \/ etc \cap {"conf", "services"} = {}

\* The proof set's row and the chain's epoch: whether it is initialized, when
\* the next challenge is due (0 for never) and for how long it may be answered,
\* whether its request is still unanswered, and whether a prove task runs.
Schedules == [ready : BOOLEAN, next : {0, 2}, window : {0, 2}, epoch : 1..5,
              requested : BOOLEAN, proving : BOOLEAN]

\* The window is [next, next+window); the epoch at its end is neither in it nor
\* a fault.
setChallengeStatus(c) ==
    LET due == c.next > 0 /\ c.window > 0
        inWindow == due /\ c.epoch \in c.next..(c.next + c.window - 1)
    IN  [window |-> inWindow, proven |-> inWindow /\ ~c.requested,
         fault |-> due /\ c.epoch > c.next + c.window, proving |-> c.proving]

GetProofSetState(c) ==
    IF c.ready THEN setChallengeStatus(c)
    ELSE [window |-> FALSE, proven |-> FALSE, fault |-> FALSE, proving |-> FALSE]

ProofSetStates == {GetProofSetState(c) : c \in Schedules}

calculateUpgradeSafety(s) == ~s.fault /\ ~s.proving /\ (s.window => s.proven)

\* GetNodeStatus asks the running node; one that does not answer is not safe.
GetNodeStatus(s) == active.piri \notin BadVersions \cup {None} /\ calculateUpgradeSafety(s)

\* checkForUpdate compares with the version of the binary that asks.
checkForUpdate(me, patchOnly) ==
    /\ latest > me
    /\ patchOnly => MinorOf[latest] = MinorOf[me]

SetBin(v, s) == bin' = [bin EXCEPT ![v] = s]
SetLink(which, v) == link' = [link EXCEPT ![which] = v]

\* StopAllServices: stop and disable each; failures are only collected.
StopAllServices(svcs) ==
    /\ enabled' = enabled \ svcs
    /\ active' = [piri |-> IF "piri" \in svcs THEN None ELSE active.piri,
                  timer |-> active.timer /\ "timer" \notin svcs]

----------------------------------------------------------------------------
(* The updater: doUpdateInternal and applyManagedUpdate *)

\* A symlink of the updater is replaced in two steps, remove and create.
Unlink(which, next) ==
    /\ SetLink(which, None)
    /\ upd' = [upd EXCEPT !.at = next, !.old = [@ EXCEPT ![which] = link[which]]]

\* doUpdateInternal up to applyManagedUpdate: the timer starts the current
\* binary, which asks the node and the release page.  A version already linked
\* ends the update; one present and not linked is removed and fetched again.
doUpdateInternal ==
    /\ UpdaterIdle /\ active.timer
    /\ link.bin # None /\ bin[link.bin] = "good"
    /\ \E s \in ProofSetStates : GetNodeStatus(s)
    /\ checkForUpdate(link.bin, TRUE)
    /\ upd' = [at |-> "directory", v |-> latest, old |-> link]
    /\ UNCHANGED <<files, services, latest, solo, adm, trouble, forced>>

applyManagedUpdate ==
    /\ upd.at = "directory"
    /\ IF bin[upd.v] # "none" /\ link.bin = upd.v
       THEN upd' = Idle_ /\ UNCHANGED bin
       ELSE upd' = [upd EXCEPT !.at = "download"] /\ SetBin(upd.v, "none")
    /\ UNCHANGED <<units, link, etc, services, latest, solo, adm, trouble, forced>>

\* What the release page offers for this platform: an asset or none, a line of
\* checksums.txt that matches what was fetched, does not, or is not there, and
\* an archive with or without a piri binary.
Offers == [asset : BOOLEAN, checksum : {"match", "mismatch", "none"}, binary : BOOLEAN]

findAssetURL(o) == o.asset
getAssetChecksum(o) == o.checksum # "none"


ChecksumEqual(o) == o.checksum = "match"
extractBinaryFromTarGz(o) == o.binary

\* downloadAndVerifyBinary compares the checksum before it looks for the binary.
downloadAndVerifyBinary(o) == ChecksumEqual(o) /\ extractBinaryFromTarGz(o)

\* downloadAndApplyUpdate fetches: on an error the version's directory is
\* removed.
FetchUpdate ==
    /\ upd.at = "download"
    /\ \E o \in Offers :
         IF findAssetURL(o) /\ getAssetChecksum(o) /\ downloadAndVerifyBinary(o)
         THEN /\ upd' = [upd EXCEPT !.at = IF o.checksum = "match" THEN "write" ELSE "writeOther"]
              /\ SetBin(upd.v, "part")
         ELSE upd' = Idle_ /\ SetBin(upd.v, "none")
    /\ UNCHANGED <<units, link, etc, services, latest, solo, adm, trouble, forced>>

\* downloadAndApplyUpdate then writes the binary in place, whatever it is; a
\* failed write is removed, a failed change of ownership is not.
downloadAndApplyUpdate ==
    /\ upd.at \in {"write", "writeOther"}
    /\ LET written == IF upd.at = "write" THEN "good" ELSE "other"
       IN  \/ upd' = [upd EXCEPT !.at = "unlink"] /\ SetBin(upd.v, written)
           \/ upd' = Idle_ /\ SetBin(upd.v, "none")
           \/ upd' = Idle_ /\ SetBin(upd.v, written)
    /\ UNCHANGED <<units, link, etc, services, latest, solo, adm, trouble, forced>>

\* UpdateSymlinkAtomic of bin/current: if the new link cannot be made the old
\* one is put back.
UpdateSymlinkAtomic ==
    /\ \/ upd.at = "unlink" /\ Unlink("bin", "relink")
       \/ upd.at = "relink" /\ SetLink("bin", upd.v) /\ upd' = [upd EXCEPT !.at = "units"]
       \/ upd.at = "relink" /\ SetLink("bin", upd.old.bin) /\ upd' = Idle_
    /\ UNCHANGED <<bin, units, etc, services, latest, solo, adm, trouble, forced>>

\* The unit files of the new version; an error here returns with the binary
\* already switched.
WriteUnits ==
    /\ upd.at = "units"
    /\ units' = units \cup {upd.v}
    /\ upd' = [upd EXCEPT !.at = "unlinkUnits"]
    /\ UNCHANGED <<bin, link, etc, services, latest, solo, adm, trouble, forced>>

WriteUnitsFails ==
    /\ upd.at = "units"
    /\ upd' = Idle_
    /\ Disturb
    /\ UNCHANGED <<files, services, latest, solo, adm>>

\* systemd/current; a failure takes the binary's link back too.
SwitchUnits ==
    /\ \/ upd.at = "unlinkUnits" /\ Unlink("units", "relinkUnits")
       \/ /\ upd.at = "relinkUnits"
          /\ SetLink("units", upd.v) /\ upd' = [upd EXCEPT !.at = "restart"]
       \/ upd.at = "relinkUnits" /\ link' = upd.old /\ upd' = Idle_
    /\ UNCHANGED <<bin, units, etc, services, latest, solo, adm, trouble, forced>>

\* VerifyServiceRestart: restarts the service and polls it.  A version that exits
\* soon may still be seen active; one that never loads is not.
VerifyServiceRestart(onOk, onError) ==
    \/ Loads /\ active' = [active EXCEPT !.piri = link.bin] /\ upd' = onOk /\ Calm
    \/ /\ ~Loads \/ link.bin \in BadVersions
       /\ active' = [active EXCEPT !.piri = None] /\ upd' = onError /\ Calm
    \/ UNCHANGED active /\ upd' = onError /\ Disturb    \* systemctl refuses

RestartNew ==
    /\ upd.at = "restart"
    /\ VerifyServiceRestart(Idle_, [upd EXCEPT !.at = "rollback"])
    /\ UNCHANGED <<files, enabled, latest, solo, adm>>

\* rollbackFunc restores both links; a daemon-reload that fails ends the update
\* before the old version is restarted.
rollbackFunc ==
    /\ upd.at = "rollback"
    /\ link' = upd.old
    /\ \/ upd' = [upd EXCEPT !.at = "restartOld"] /\ Calm
       \/ upd' = Idle_ /\ Disturb
    /\ UNCHANGED <<bin, units, etc, services, latest, solo, adm>>

RestartOld ==
    /\ upd.at = "restartOld"
    /\ VerifyServiceRestart(Idle_, Idle_)
    /\ UNCHANGED <<files, enabled, latest, solo, adm>>

\* doUpdate, the manual update of a standalone binary; selfupdate replaces it
\* and keeps the old one beside it.
doUpdate ==
    /\ solo.v # None
    /\ checkForUpdate(solo.v, FALSE)
    /\ \E force \in BOOLEAN, s \in ProofSetStates : force \/ calculateUpgradeSafety(s)
    /\ solo' = [v |-> latest, old |-> solo.v]
    /\ UNCHANGED <<files, services, latest, upd, adm, trouble, forced>>

----------------------------------------------------------------------------
(* The administrator: install and uninstall *)

Step(next) == adm' = [adm EXCEPT !.at = next]

\* "made" are the directories and files the FileSystemManager believes it
\* created; the version's two directories are among them.
CreatePiriDirectoryStructure(v, auto) ==
    adm' = [at |-> "copy", v |-> v, auto |-> auto, made |-> {"conf"}]

\* runInstall and parseInstallFlags.
runInstall ==
    /\ AdminIdle /\ solo.v = None
    /\ \E v \in Versions, auto, force \in BOOLEAN :
          /\ v <= latest
          /\ Validate(force)
          /\ IF force THEN trouble < MaxTrouble /\ trouble' = trouble + 1 /\ forced' = TRUE
                      ELSE Calm
          /\ CreatePiriDirectoryStructure(v, auto)
    /\ UNCHANGED <<files, services, latest, solo, upd>>

\* InstallBinary: CopyFile, in two steps ...
InstallBinary ==
    /\ \/ adm.at = "copy" /\ SetBin(adm.v, "part") /\ Step("copied")
       \/ adm.at = "copied" /\ SetBin(adm.v, "good") /\ Step("unlink")
    /\ UNCHANGED <<units, link, etc, services, latest, solo, upd, trouble, forced>>

\* ... then FileSystemManager.CreateSymlink removes and creates bin/current.
LinkBinary ==
    /\ \/ adm.at = "unlink" /\ SetLink("bin", None) /\ Step("link")
       \/ adm.at = "link" /\ SetLink("bin", adm.v) /\ Step("conf")
    /\ UNCHANGED <<bin, units, etc, services, latest, solo, upd, trouble, forced>>

InstallConfiguration ==
    /\ adm.at = "conf"
    /\ etc' = etc \cup {"conf"}
    /\ Step("units")
    /\ UNCHANGED <<bin, units, link, services, latest, solo, upd, trouble, forced>>

\* InstallSystemdServices: the versioned unit files and systemd/current, then
\* the links from /etc/systemd/system and a reload.
InstallSystemdServices ==
    /\ \/ /\ adm.at = "units" /\ Step("services")
          /\ units' = units \cup {adm.v} /\ SetLink("units", adm.v) /\ UNCHANGED etc
       \/ /\ adm.at = "services" /\ Step("sudoers")
          /\ etc' = etc \cup {"services"} /\ UNCHANGED <<units, link>>
    /\ UNCHANGED <<bin, services, latest, solo, upd, trouble, forced>>

CreateSudoersEntry ==
    /\ adm.at = "sudoers"
    /\ etc' = etc \cup {"sudoers"}
    /\ adm' = [adm EXCEPT !.at = "cli", !.made = @ \cup {"sudoers"}]
    /\ UNCHANGED <<bin, units, link, services, latest, solo, upd, trouble, forced>>

\* The CLI symlink: its directory, /usr/local/bin, is recorded as created.  A
\* link that cannot be made is only a warning.
CreateSymlink ==
    /\ adm.at = "cli"
    /\ etc' \in {etc, etc \cup {"cli"}}
    /\ adm' = [adm EXCEPT !.at = "enable", !.made = @ \cup {"cli", "tools"}]
    /\ UNCHANGED <<bin, units, link, services, latest, solo, upd, trouble, forced>>

\* EnableAndStartServices: piri, then the timer if automatic updates are asked
\* for.  A start returns before the server has failed.
EnableAndStartServices ==
    /\ adm.at = "enable" /\ Loads
    /\ enabled' = enabled \cup (IF adm.auto THEN {"piri", "timer"} ELSE {"piri"})
    /\ active' = [piri |-> link.bin, timer |-> active.timer \/ adm.auto]
    /\ adm' = Idle_
    /\ UNCHANGED <<files, latest, solo, upd, trouble, forced>>

\* Rollback removes what CreateDirectory and WriteFile recorded, whether or not
\* it was there before.
FSRollback ==
    /\ SetBin(adm.v, "none")
    /\ units' = units \ {adm.v}
    /\ etc' = etc \ adm.made

\* Cleanup stops the services first.  The symlinks stay.
Cleanup ==
    /\ StopAllServices(IF adm.auto THEN {"piri", "timer"} ELSE {"piri"})
    /\ FSRollback

\* doInstall after an error at any step.
doInstallFails ==
    /\ adm.at \notin {"idle", "stop", "remove"}
    /\ Disturb
    /\ Cleanup
    /\ adm' = Idle_
    /\ UNCHANGED <<link, latest, solo, upd>>

\* systemctl stop, by hand.
StopByHand ==
    /\ AdminIdle /\ active # [piri |-> None, timer |-> FALSE]
    /\ Disturb
    /\ active' = [piri |-> None, timer |-> FALSE]
    /\ UNCHANGED <<files, enabled, latest, solo, upd, adm>>

\* runUninstall: every failure is only a warning; /opt/piri is preserved.
runUninstall ==
    /\ AdminIdle /\ "services" \in etc
    /\ adm' = [at |-> "stop"]
    /\ UNCHANGED <<files, services, latest, solo, upd, trouble, forced>>

Uninstall ==
    /\ \/ /\ adm.at = "stop" /\ Step("remove") /\ UNCHANGED etc
          /\ StopAllServices({"piri", "timer"})
       \/ /\ adm.at = "remove" /\ adm' = Idle_ /\ UNCHANGED services
          /\ etc' = etc \ {"services", "cli", "sudoers"}
    /\ UNCHANGED <<bin, units, link, latest, solo, upd, trouble, forced>>

----------------------------------------------------------------------------
(* The world *)

Release ==
    /\ \E v \in Versions : v = latest + 1 /\ latest' = v
    /\ UNCHANGED <<files, services, solo, upd, adm, trouble, forced>>

\* The power goes: both commands end where they are, and systemd starts what is
\* enabled and loads.
PowerLoss ==
    /\ Disturb
    /\ upd' = Idle_ /\ adm' = Idle_
    /\ active' = [piri |-> IF "piri" \in enabled /\ Loads THEN link.bin ELSE None,
                  timer |-> "timer" \in enabled /\ "services" \in etc]
    /\ UNCHANGED <<files, enabled, latest, solo>>

InstInit ==
    /\ bin = [v \in Versions |-> "none"] /\ units = {}
    /\ link = [bin |-> None, units |-> None] /\ etc = {"tools"}
    /\ enabled = {} /\ active = [piri |-> None, timer |-> FALSE]
    /\ latest = 1 /\ solo \in {[v |-> v, old |-> None] : v \in {None, 1}}
    /\ upd = Idle_ /\ adm = Idle_ /\ trouble = 0 /\ forced = FALSE

Updating ==
    \/ doUpdateInternal \/ applyManagedUpdate
    \/ FetchUpdate \/ downloadAndApplyUpdate \/ UpdateSymlinkAtomic
    \/ WriteUnits \/ WriteUnitsFails \/ SwitchUnits
    \/ RestartNew \/ rollbackFunc \/ RestartOld

Installing ==
    \/ runInstall \/ InstallBinary \/ LinkBinary \/ InstallConfiguration \/ InstallSystemdServices
    \/ CreateSudoersEntry \/ CreateSymlink \/ EnableAndStartServices \/ doInstallFails
    \/ StopByHand \/ runUninstall \/ Uninstall

InstNext == Updating \/ Installing \/ doUpdate \/ Release \/ PowerLoss
InstSpec == InstInit /\ [][InstNext]_instVars

----------------------------------------------------------------------------
(* Properties *)

\* While the service is enabled and nobody has forced an install over it, the
\* binary that bin/current names is complete: the updater writes a version's
\* binary before it links it, removes only versions that are not linked, and a
\* power loss at any of its steps leaves at worst no link.
\* (applyManagedUpdate, UpdateSymlinkAtomic and the rollback.)
CurrentIsWhole ==
    "piri" \in enabled /\ ~forced /\ link.bin # None => bin[link.bin] = "good"

\* Undisturbed, whatever releases appear and whether or not they start, when no
\* command is in progress the enabled service runs, it runs the version that
\* bin/current names, and with that version's unit files: a release that does
\* not start has been taken back and the old version restarted.
\* (doUpdateInternal, VerifyServiceRestart, rollbackFunc.)
LinkedVersionRuns ==
    trouble = 0 /\ UpdaterIdle /\ AdminIdle /\ "piri" \in enabled
        => active.piri # None /\ active.piri = link.bin /\ active.piri = link.units

\* Unless an install is forced over it while it works, the updater moves the
\* links only forward, to a patch release of the version
\* it replaces, or back to what they were when it took them away.
\* (checkForUpdate with patchOnly, and the rollback.)
UpdateIsPatch ==
    \A w \in {"bin", "units"} :
        upd # Idle_ /\ adm' = adm /\ ~forced /\ link'[w] # link[w] /\ link'[w] # None
           => \/ link'[w] = upd.old[w]
              \/ upd.old[w] # None => MinorOf[link'[w]] = MinorOf[upd.old[w]]
                                      /\ link'[w] > upd.old[w]

=============================================================================
