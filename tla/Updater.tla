------------------------------ MODULE Updater ------------------------------
(***************************************************************************)
(* The updater (openpilot/system/updated/updated.py) and the launch script *)
(* (launch_chffrplus.sh) that installs what the updater has prepared.  The *)
(* updater downloads a release into an overlay over the installation,      *)
(* copies the result to FINALIZED and marks the copy consistent; the next  *)
(* boot moves the installation away and the copy in its place.  The two    *)
(* never run at once, so one program counter serves both.                  *)
(*                                                                         *)
(* A release is its commit.  Files are volatile until os.sync: a power cut *)
(* leaves each of the two facts about FINALIZED at its synced or its       *)
(* current value, and a tree that was not synced incomplete.  Renames and  *)
(* the other small files are taken to be journaled in order.               *)
(***************************************************************************)
EXTENDS Naturals

CONSTANTS
  Versions,    \* the releases
  Systems,     \* the versions of the operating system, AGNOS
  Needs,       \* the AGNOS version each release asks for
  Metered,     \* the values NetworkMetered may have
  Partial,     \* a tree, or the other boot slot, in an unusable state
  None,
  MaxFaults,   \* bound on power cuts, kills and failed commands
  MaxEvents    \* bound on the user's and the publisher's doings

ASSUME NeedsAssumption ==
  /\ Needs \in [Versions -> Systems]
  /\ Metered \subseteq BOOLEAN
  /\ Partial \notin Versions \cup Systems
  /\ None \notin Versions \cup {Partial}
  /\ MaxFaults \in Nat /\ MaxEvents \in Nat

VARIABLES
  dir,          \* the installation at BASEDIR
  old,          \* safe_staging/old_openpilot
  overlayInit,  \* BASEDIR/.overlay_init exists
  modified,     \* something in BASEDIR/.git is newer than .overlay_init
  fs,           \* safe_staging/finalized as processes see it: tree and marker
  disk,         \* the same as of the last os.sync
  mounted,      \* OVERLAY_MERGED is a mount point
  merged,       \* the tree seen in OVERLAY_MERGED
  lower,        \* the installation the overlay was created on
  from,         \* the installation the finalized tree was made from
  os,           \* AGNOS on the slot that booted
  slot,         \* AGNOS on the other slot, as verify_agnos_update finds it
  remote,       \* the head of the target branch
  known,        \* Updater.branches[target_branch]
  recent,       \* UpdaterLastFetchTime is less than three days ago
  metered,      \* NetworkMetered
  request,      \* WaitTimeHelper.user_request
  first,        \* first_run
  available,    \* the parameter UpdateAvailable
  pc, sync,     \* control, and how far set_consistent_flag has come
  faults, events

install == <<dir, old, overlayInit, modified>>
overlay == <<mounted, merged, lower, from>>
agnos == <<os, slot>>
process == <<known, request, first>>
world == <<remote, metered, recent>>
bounds == <<faults, events>>
vars == <<install, fs, disk, overlay, agnos, process, world, available, pc,
          sync, bounds>>

Trees == Versions \cup {Partial, None}
Finalized == [tree: Trees, marker: BOOLEAN]

(* What the code between line 436 and line 475 can raise from.             *)
Tries == {"init", "wipe", "remove", "removing", "mount", "params", "check",
          "fetch", "download", "checkout", "agnos", "noslot", "flash",
          "flashing", "finalize", "copy", "copying", "mark"}
Updating == Tries \cup {"start", "fetched", "report", "reset", "sleep"}
Launching == {"boot", "swap", "agnos_init"}

Init ==
  /\ dir \in Versions /\ old = None /\ overlayInit = FALSE /\ modified = FALSE
  /\ fs = [tree |-> None, marker |-> FALSE] /\ disk = fs
  /\ mounted = FALSE /\ merged = None /\ lower = None /\ from = None
  /\ os = Needs[dir] /\ slot = Partial
  /\ remote \in Versions /\ metered \in Metered /\ recent = FALSE
  /\ known = None /\ request = "none" /\ first = TRUE
  /\ available = FALSE /\ pc = "boot" /\ sync = 0
  /\ faults = 0 /\ events = 0

-----------------------------------------------------------------------------
(* launch() of launch_chffrplus.sh *)

(* The conditions under which the script installs the finalized tree.      *)
Installs == overlayInit /\ ~modified /\ fs.marker /\ old = None

(* Mutant: the installation is removed instead of moved.                   *)
RemoveFirst ==
  /\ pc = "boot" /\ Installs
  /\ dir' = None /\ overlayInit' = FALSE /\ pc' = "swap"
  /\ UNCHANGED <<old, modified, fs, disk, overlay, agnos, process, world,
                 available, sync, bounds>>

(* mv $DIR old_openpilot; .overlay_init goes with it.                      *)
MoveAway ==
  /\ pc = "boot" /\ Installs
  /\ old' = dir /\ dir' = None /\ overlayInit' = FALSE /\ pc' = "swap"
  /\ UNCHANGED <<modified, fs, disk, overlay, agnos, process, world, available,
                 sync, bounds>>

(* mv finalized $DIR, then the script starts again from the new tree.      *)
MoveIn ==
  /\ pc = "swap"
  /\ dir' = fs.tree /\ fs' = [tree |-> None, marker |-> FALSE] /\ disk' = fs'
  /\ modified' = FALSE /\ pc' = "boot"
  /\ UNCHANGED <<old, overlayInit, overlay, agnos, process, world, available,
                 sync, bounds>>

NotInstalling ==
  /\ pc = "boot" /\ dir # None /\ ~Installs
  /\ pc' = "agnos_init"
  /\ UNCHANGED <<install, fs, disk, overlay, agnos, process, world, available,
                 sync, bounds>>

(* The other slot verifies: it is made the active one, its hashes cleared, *)
(* and the device reboots.                                                 *)
SwapSlot ==
  /\ pc = "agnos_init" /\ os # Needs[dir] /\ slot = Needs[dir]
  /\ os' = slot /\ slot' = Partial /\ pc' = "boot"
  /\ UNCHANGED <<install, fs, disk, overlay, process, world, available, sync,
                 bounds>>

(* Otherwise the updater screen downloads the system before anything runs. *)
FlashAtBoot ==
  /\ pc = "agnos_init" /\ os # Needs[dir] /\ slot # Needs[dir]
  /\ slot' = Needs[dir]
  /\ UNCHANGED <<install, fs, disk, overlay, os, process, world, available, pc,
                 sync, bounds>>

(* The manager clears UpdateAvailable and starts the updater.              *)
StartManager ==
  /\ pc = "agnos_init" /\ os = Needs[dir]
  /\ available' = FALSE /\ pc' = "start"
  /\ UNCHANGED <<install, fs, disk, overlay, agnos, process, world, sync, bounds>>

-----------------------------------------------------------------------------
(* The updater *)

Goto(next) == pc' = next /\ sync' = 0

(* Mutant: the flag is written without syncing first.                      *)
UnsyncedSetConsistent(at, consistent, next) ==
  /\ pc = at
  /\ \/ sync = 0 /\ sync' = 1 /\ UNCHANGED <<fs, disk, pc>>
     \/ sync = 1 /\ fs' = [fs EXCEPT !.marker = consistent] /\ sync' = 2
        /\ UNCHANGED <<disk, pc>>
     \/ sync = 2 /\ disk' = fs /\ Goto(next) /\ UNCHANGED fs
  /\ UNCHANGED <<install, overlay, agnos, process, world, available, bounds>>

(* os.sync(), touch or unlink, os.sync().                                  *)
SetConsistent(at, consistent, next) ==
  /\ pc = at
  /\ \/ sync = 0 /\ disk' = fs /\ sync' = 1 /\ UNCHANGED <<fs, pc>>
     \/ sync = 1 /\ fs' = [fs EXCEPT !.marker = consistent] /\ sync' = 2
        /\ UNCHANGED <<disk, pc>>
     \/ sync = 2 /\ disk' = fs /\ Goto(next) /\ UNCHANGED fs
  /\ UNCHANGED <<install, overlay, agnos, process, world, available, bounds>>

(* A valid overlay already exists.                                         *)
KeepOverlay ==
  /\ pc = "init" /\ overlayInit /\ mounted /\ ~modified
  /\ Goto("params")
  /\ UNCHANGED <<install, fs, disk, overlay, agnos, process, world, available,
                 bounds>>

(* Mutant: the overlay is mounted anew without emptying the staging area.  *)
RecreateInPlace ==
  /\ pc = "init" /\ ~(overlayInit /\ mounted /\ ~modified)
  /\ available' = FALSE /\ Goto("mount")
  /\ UNCHANGED <<install, fs, disk, overlay, agnos, process, world, bounds>>

RecreateOverlay ==
  /\ pc = "init" /\ ~(overlayInit /\ mounted /\ ~modified)
  /\ available' = FALSE /\ Goto("wipe")
  /\ UNCHANGED <<install, fs, disk, overlay, agnos, process, world, bounds>>

(* dismount_overlay and rm -rf STAGING_ROOT, during which a tree in it is  *)
(* incomplete.                                                             *)
StartRemoving ==
  /\ pc = "remove"
  /\ fs' = [fs EXCEPT !.tree = IF @ = None THEN None ELSE Partial]
  /\ mounted' = FALSE /\ merged' = None /\ Goto("removing")
  /\ UNCHANGED <<install, disk, lower, from, agnos, process, world, available,
                 bounds>>

(* Mutant: only the staging directories are removed, not the backup.       *)
RemoveStaging ==
  /\ pc = "removing"
  /\ fs' = [tree |-> None, marker |-> FALSE] /\ Goto("mount")
  /\ UNCHANGED <<install, disk, overlay, agnos, process, world, available, bounds>>

Remove ==
  /\ pc = "removing"
  /\ fs' = [tree |-> None, marker |-> FALSE] /\ old' = None /\ Goto("mount")
  /\ UNCHANGED <<dir, overlayInit, modified, disk, overlay, agnos, process,
                 world, available, bounds>>

(* Touch .overlay_init, os.sync, mount the overlay over the installation.  *)
Mount ==
  /\ pc = "mount"
  /\ overlayInit' = TRUE /\ modified' = FALSE /\ disk' = fs
  /\ mounted' = TRUE /\ merged' = dir /\ lower' = dir /\ Goto("params")
  /\ UNCHANGED <<dir, old, fs, from, agnos, process, world, available, bounds>>

(* Updater.update_ready.                                                   *)
UpdateReady == fs.marker /\ dir # known

(* The first set_params; the first run only prepares, and so does one      *)
(* before the clock is set.                                                *)
SetParams ==
  /\ pc = "params"
  /\ available' = UpdateReady /\ first' = FALSE
  /\ \/ Goto(IF first THEN "sleep" ELSE "check") /\ UNCHANGED faults
     \/ /\ faults < MaxFaults /\ faults' = faults + 1
        /\ Goto("sleep")
  /\ UNCHANGED <<install, fs, disk, overlay, agnos, known, request, world, events>>

(* check_for_update, then the choice between skipping and fetching.        *)
Check ==
  /\ pc = "check"
  /\ known' = remote
  /\ Goto(IF metered /\ recent /\ request # "fetch" THEN "report"
          ELSE IF request = "check" THEN "report" ELSE "fetch")
  /\ UNCHANGED <<install, fs, disk, overlay, agnos, request, first, world,
                 available, bounds>>

(* fetch_update has removed the marker; now the parameter goes.            *)
Withdraw ==
  /\ pc = "download"
  /\ available' = FALSE /\ merged' = Partial /\ Goto("checkout")
  /\ UNCHANGED <<install, fs, disk, mounted, lower, from, agnos, process, world,
                 bounds>>

Checkout ==
  /\ pc = "checkout"
  /\ merged' = remote /\ Goto("agnos")
  /\ UNCHANGED <<install, fs, disk, mounted, lower, from, agnos, process, world,
                 available, bounds>>

(* handle_agnos_update: only a different system is downloaded.             *)
CompareAgnos ==
  /\ pc = "agnos"
  /\ Goto(IF Needs[merged] = os THEN "finalize" ELSE "noslot")
  /\ UNCHANGED <<install, fs, disk, overlay, agnos, process, world, available,
                 bounds>>

(* Mutant: a system that could not be written does not stop the update.    *)
FlashOrContinue ==
  /\ \/ pc = "flash" /\ slot' = Partial /\ Goto("flashing")
     \/ pc = "flashing" /\ slot' \in {Partial, Needs[merged]} /\ Goto("finalize")
  /\ UNCHANGED <<install, fs, disk, overlay, os, process, world, available, bounds>>

(* flash_agnos_update makes the other slot unbootable and then writes it.  *)
Flash ==
  /\ \/ pc = "flash" /\ slot' = Partial /\ Goto("flashing")
     \/ pc = "flashing" /\ slot' = Needs[merged] /\ Goto("finalize")
  /\ UNCHANGED <<install, fs, disk, overlay, os, process, world, available, bounds>>

(* finalize_update has removed the marker; rmtree and copytree.            *)
Copy ==
  /\ \/ pc = "copy" /\ fs' = [fs EXCEPT !.tree = Partial] /\ Goto("copying")
        /\ UNCHANGED from
     \/ pc = "copying" /\ fs' = [fs EXCEPT !.tree = merged] /\ from' = lower
        /\ Goto("mark")
  /\ UNCHANGED <<install, disk, mounted, merged, lower, agnos, process, world,
                 available, bounds>>

Fetched ==
  /\ pc = "fetched" /\ recent' = TRUE /\ Goto("report")
  /\ UNCHANGED <<install, fs, disk, overlay, agnos, process, remote, metered,
                 available, bounds>>

(* A command or any other step of the iteration raises, but       *)
(* set_consistent_flag, once begun, does not.                              *)
Fail ==
  /\ pc \in Tries /\ sync = 0 /\ faults < MaxFaults
  /\ faults' = faults + 1
  /\ overlayInit' = FALSE /\ Goto("report")
  /\ UNCHANGED <<dir, old, modified, fs, disk, overlay, agnos, process, world,
                 available, events>>

(* The second set_params.                                                  *)
Report ==
  /\ pc = "report" /\ available' = UpdateReady /\ Goto("reset")
  /\ UNCHANGED <<install, fs, disk, overlay, agnos, process, world, bounds>>

(* Mutant: the request is kept.                                            *)
KeepRequest ==
  /\ pc = "reset" /\ Goto("sleep")
  /\ UNCHANGED <<install, fs, disk, overlay, agnos, process, world, available,
                 bounds>>

ResetRequest ==
  /\ pc = "reset" /\ request' = "none" /\ Goto("sleep")
  /\ UNCHANGED <<install, fs, disk, overlay, agnos, known, first, world,
                 available, bounds>>

(* The sleep times out, or a signal ends it.                               *)
Wake ==
  /\ pc = "sleep" /\ Goto("init")
  /\ UNCHANGED <<install, fs, disk, overlay, agnos, process, world, available,
                 bounds>>

SetConsistentSteps ==
  \/ SetConsistent("start", FALSE, "init")
  \/ SetConsistent("wipe", FALSE, "remove")
  \/ SetConsistent("fetch", FALSE, "download")
  \/ SetConsistent("noslot", FALSE, "flash")
  \/ SetConsistent("finalize", FALSE, "copy")
  \/ SetConsistent("mark", TRUE, "fetched")

-----------------------------------------------------------------------------
(* Everything around the two programs *)

(* SIGHUP asks for a download, SIGUSR1 for a check.                        *)
Signal(r) ==
  /\ pc \in Updating /\ events < MaxEvents
  /\ request' = r /\ events' = events + 1
  /\ UNCHANGED <<install, fs, disk, overlay, agnos, known, first, world,
                 available, pc, sync, faults>>

Publish(v) ==
  /\ v # remote /\ events < MaxEvents
  /\ remote' = v /\ events' = events + 1
  /\ UNCHANGED <<install, fs, disk, overlay, agnos, process, metered, recent,
                 available, pc, sync, faults>>

(* The user checks out another release in BASEDIR.                         *)
Edit(v) ==
  /\ pc \in Updating /\ events < MaxEvents
  /\ dir' = v /\ modified' = TRUE /\ events' = events + 1
  /\ UNCHANGED <<old, overlayInit, fs, disk, overlay, agnos, process, world,
                 available, pc, sync, faults>>

Expire ==
  /\ recent /\ events < MaxEvents
  /\ recent' = FALSE /\ events' = events + 1
  /\ UNCHANGED <<install, fs, disk, overlay, agnos, process, remote, metered,
                 available, pc, sync, faults>>

Restarted == known' = None /\ request' = "none" /\ first' = TRUE /\ sync' = 0

(* Driving kills the updater, clears UpdateAvailable and starts it again   *)
(* afterwards; the overlay stays mounted.                                  *)
Drive ==
  /\ pc \in Updating /\ faults < MaxFaults
  /\ faults' = faults + 1
  /\ Restarted /\ available' = FALSE /\ pc' = "start"
  /\ UNCHANGED <<install, fs, disk, overlay, agnos, world, events>>

(* What a power cut may leave of FINALIZED.                                *)
Survivors ==
  [tree: IF fs.tree = disk.tree THEN {fs.tree} ELSE {fs.tree, disk.tree, Partial},
   marker: {fs.marker, disk.marker}]

Reboot ==
  /\ Restarted /\ pc' = "boot"
  /\ mounted' = FALSE /\ merged' = None /\ disk' = fs'
  /\ UNCHANGED <<install, lower, from, agnos, world, available>>

CleanReboot ==
  /\ pc \in Updating /\ events < MaxEvents
  /\ events' = events + 1 /\ fs' = fs /\ Reboot
  /\ UNCHANGED faults

PowerCut ==
  /\ faults < MaxFaults
  /\ faults' = faults + 1 /\ fs' \in Survivors /\ Reboot
  /\ UNCHANGED events

-----------------------------------------------------------------------------
Launcher ==
  \/ MoveAway \/ MoveIn \/ NotInstalling \/ SwapSlot \/ FlashAtBoot
  \/ StartManager

Iteration ==
  \/ SetConsistentSteps \/ KeepOverlay \/ RecreateOverlay \/ StartRemoving
  \/ Remove \/ Mount \/ SetParams \/ Check \/ Withdraw \/ Checkout
  \/ CompareAgnos \/ Flash \/ Copy \/ Fetched \/ Report \/ ResetRequest \/ Wake

Next ==
  \/ Launcher \/ Iteration \/ Fail
  \/ \E r \in {"fetch", "check"} : Signal(r)
  \/ \E v \in Versions : Publish(v) \/ Edit(v)
  \/ Expire \/ Drive \/ CleanReboot \/ PowerCut

Spec == Init /\ [][Next]_vars /\ WF_vars(Launcher \/ Iteration)

-----------------------------------------------------------------------------
TypeOK ==
  /\ dir \in Trees /\ old \in Trees
  /\ overlayInit \in BOOLEAN /\ modified \in BOOLEAN
  /\ fs \in Finalized /\ disk \in Finalized
  /\ mounted \in BOOLEAN /\ merged \in Trees /\ lower \in Trees /\ from \in Trees
  /\ os \in Systems /\ slot \in Systems \cup {Partial}
  /\ remote \in Versions /\ known \in Versions \cup {None}
  /\ recent \in BOOLEAN /\ metered \in BOOLEAN
  /\ request \in {"none", "check", "fetch"} /\ first \in BOOLEAN
  /\ available \in BOOLEAN /\ pc \in Updating \cup Launching /\ sync \in 0..2
  /\ faults \in 0..MaxFaults /\ events \in 0..MaxEvents

(* What is installed is never a tree that was still being copied or        *)
(* removed, whenever the power was cut.                                    *)
InstalledIsComplete == dir # Partial

(* The installation is never lost: it is in place, or the backup and the   *)
(* complete new tree are both there.  (In the second case nothing puts     *)
(* either back.)                                                           *)
InstallationSurvives == dir # None \/ (old \in Versions /\ fs.tree \in Versions)

(* What the launch script would install was made from the installation it  *)
(* would replace.                                                          *)
BuiltOnInstallation == Installs => from = dir

(* The script's refusal because of a leftover backup never meets an update *)
(* that is otherwise ready.                                                *)
BackupNeverBlocks == overlayInit => old = None

(* The system a release needs is running or complete on the other slot     *)
(* when the release is moved in, so that no boot has to download it.       *)
AgnosReady ==
  [][dir = None /\ dir' # None => Needs[dir'] \in {os, slot}]_vars

(* Whatever fails, once faults and changes end the head of the branch ends *)
(* up downloaded and marked, again and again -- unless the power was cut   *)
(* between the two renames, or a metered network puts the download off.    *)
Converges ==
  []<>(dir = None \/ (metered /\ recent) \/ (fs.marker /\ fs.tree = remote))

=============================================================================
