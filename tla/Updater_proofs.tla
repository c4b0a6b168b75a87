-------------------------- MODULE Updater_proofs --------------------------
(***************************************************************************)
(* Theorems about Updater, for every set of releases and systems and every *)
(* number of faults and events.                                            *)
(***************************************************************************)
EXTENDS Updater, TLAPS

(* The points at which set_consistent_flag(False) is called.               *)
Unmarking == {"start", "wipe", "fetch", "noslot", "finalize"}

(* A marker that is seen, or that a power cut may bring back, stands for   *)
(* the complete tree that is there.                                        *)
Consistent ==
  /\ fs.marker \/ disk.marker => fs.tree = disk.tree /\ fs.tree \in Versions
  /\ sync # 0 => pc \in Unmarking \cup {"mark"} /\ fs.tree = disk.tree
  /\ sync = 2 => (fs.marker <=> pc = "mark")
  /\ pc \in Launching => fs = disk

(* From the download to the new marker, and while the staging area is      *)
(* emptied and mounted anew, there is no marker to come back.              *)
Unmarked ==
  \/ pc \in {"remove", "removing", "mount", "download", "checkout", "agnos",
             "noslot", "flash", "flashing", "finalize", "copy", "copying"}
  \/ pc = "mark" /\ sync = 0
  => ~fs.marker /\ ~disk.marker

Downloaded ==
  /\ pc \in {"agnos", "noslot", "flash", "flashing", "finalize", "copy",
             "copying"} => merged \in Versions
  /\ pc = "mark" => fs.tree \in Versions

Installation ==
  /\ dir # Partial
  /\ dir = None => /\ pc \in {"swap", "boot"} /\ fs.marker
                   /\ old \in Versions /\ ~overlayInit
  /\ pc = "swap" => dir = None
  /\ pc = "mount" => old = None
  /\ overlayInit => old = None

IInv == TypeOK /\ Consistent /\ Unmarked /\ Downloaded /\ Installation

-----------------------------------------------------------------------------

(* The Boolean variables, apart from those in fs and disk. *)
Flags ==
  /\ overlayInit \in BOOLEAN /\ modified \in BOOLEAN /\ mounted \in BOOLEAN
  /\ recent \in BOOLEAN /\ metered \in BOOLEAN /\ first \in BOOLEAN
  /\ available \in BOOLEAN

LEMMA InitInv == Init => IInv
<1> SUFFICES ASSUME Init PROVE IInv  OBVIOUS
<1>1. dir \in Versions /\ os = Needs[dir] /\ os \in Systems  BY NeedsAssumption DEF Init
<1>2. Flags  BY NeedsAssumption, Zenon DEF Init, Flags
<1>3. fs \in Finalized /\ disk \in Finalized  BY DEF Init, Finalized, Trees
<1>4. TypeOK  BY <1>1, <1>2, <1>3, NeedsAssumption DEF Init, TypeOK, Flags, Trees, Launching, Updating
<1>5. Consistent /\ Unmarked /\ Downloaded
  BY DEF Init, Consistent, Unmarked, Downloaded, Launching
<1>6. Installation  BY <1>1, NeedsAssumption DEF Init, Installation
<1> QED  BY <1>4, <1>5, <1>6 DEF IInv

(* Steps of the launch script. *)
LEMMA LauncherStep ==
  ASSUME IInv, MoveAway \/ MoveIn \/ NotInstalling \/ SwapSlot \/ FlashAtBoot \/ StartManager
  PROVE  IInv'
<1> USE NeedsAssumption DEF IInv, TypeOK, Consistent, Unmarked, Downloaded, Installation,
  Trees, Finalized, Updating, Launching, Unmarking, install, overlay, agnos,
  process, world, bounds
<1>1. CASE MoveAway
  <2>1. Flags'  BY <1>1, Zenon DEF MoveAway, Flags, Installs
  <2> QED  BY <1>1, <2>1 DEF MoveAway, Flags, Installs
<1>2. CASE MoveIn
  <2>1. Flags'  BY <1>2, Zenon DEF MoveIn, Flags
  <2> QED  BY <1>2, <2>1 DEF MoveIn, Flags
<1>3. CASE NotInstalling  BY <1>3 DEF NotInstalling
<1>4. CASE SwapSlot  BY <1>4 DEF SwapSlot
<1>5. CASE FlashAtBoot  BY <1>5 DEF FlashAtBoot
<1>6. CASE StartManager
  <2>1. Flags'  BY <1>6, Zenon DEF StartManager, Flags, Tries
  <2> QED  BY <1>6, <2>1 DEF StartManager, Flags, Tries
<1> QED  BY <1>1, <1>2, <1>3, <1>4, <1>5, <1>6

(* Steps of preparing the overlay. *)
LEMMA OverlayStep ==
  ASSUME IInv, KeepOverlay \/ RecreateOverlay \/ StartRemoving \/ Remove \/ Mount
  PROVE  IInv'
<1> USE NeedsAssumption DEF IInv, TypeOK, Consistent, Unmarked, Downloaded, Installation,
  Trees, Finalized, Updating, Launching, Unmarking, install, overlay, agnos,
  process, world, bounds
<1>1. CASE KeepOverlay  BY <1>1 DEF KeepOverlay, Goto, Tries
<1>2. CASE RecreateOverlay
  <2>1. Flags'  BY <1>2, Zenon DEF RecreateOverlay, Flags, Goto, Tries
  <2> QED  BY <1>2, <2>1 DEF RecreateOverlay, Flags, Goto, Tries
<1>3. CASE StartRemoving
  <2>1. Flags'  BY <1>3, Zenon DEF StartRemoving, Flags, Goto, Tries
  <2> QED  BY <1>3, <2>1 DEF StartRemoving, Flags, Goto, Tries
<1>4. CASE Remove  BY <1>4 DEF Remove, Goto, Tries
<1>5. CASE Mount
  <2>1. Flags'  BY <1>5, Zenon DEF Mount, Flags, Goto, Tries
  <2> QED  BY <1>5, <2>1 DEF Mount, Flags, Goto, Tries
<1> QED  BY <1>1, <1>2, <1>3, <1>4, <1>5

(* Steps of an iteration. *)
LEMMA FetchStep ==
  ASSUME IInv, SetParams \/ Check \/ Withdraw \/ Checkout \/ CompareAgnos \/ Flash \/ Copy \/ Fetched \/ Report \/ ResetRequest \/ Wake \/ Fail
  PROVE  IInv'
<1> USE NeedsAssumption DEF IInv, TypeOK, Consistent, Unmarked, Downloaded, Installation,
  Trees, Finalized, Updating, Launching, Unmarking, install, overlay, agnos,
  process, world, bounds
<1>1. CASE SetParams
  <2>1. Flags'  BY <1>1, Zenon DEF SetParams, Flags, UpdateReady
  <2>2. faults' \in 0..MaxFaults  BY <1>1 DEF SetParams
  <2>3. pc' \in {"sleep", "check"} /\ sync' = 0  BY <1>1 DEF SetParams, Goto
  <2>4. UNCHANGED <<install, fs, disk, overlay, agnos, known, request, world, events>>
    BY <1>1 DEF SetParams
  <2>5. first' \in BOOLEAN /\ available' \in BOOLEAN  BY <2>1, Zenon DEF Flags
  <2>6. TypeOK'  BY <2>2, <2>3, <2>4, <2>5 DEF Tries
  <2>7. pc = "params" /\ sync = 0  BY <1>1 DEF SetParams
  <2>8. Consistent' /\ Unmarked' /\ Downloaded' /\ Installation'  BY <2>3, <2>4, <2>7
  <2> QED  BY <2>6, <2>8
<1>2. CASE Check  BY <1>2 DEF Check, Goto, Tries
<1>3. CASE Withdraw
  <2>1. Flags'  BY <1>3, Zenon DEF Withdraw, Flags, Goto, Tries
  <2> QED  BY <1>3, <2>1 DEF Withdraw, Flags, Goto, Tries
<1>4. CASE Checkout  BY <1>4 DEF Checkout, Goto, Tries
<1>5. CASE CompareAgnos  BY <1>5 DEF CompareAgnos, Goto, Tries
<1>6. CASE Flash  BY <1>6 DEF Flash, Goto, Tries
<1>7. CASE Copy  BY <1>7 DEF Copy, Goto, Tries
<1>8. CASE Fetched  BY <1>8 DEF Fetched, Goto, Tries
<1>9. CASE Report  BY <1>9 DEF Report, Goto, UpdateReady
<1>10. CASE ResetRequest  BY <1>10 DEF ResetRequest, Goto, Tries
<1>11. CASE Wake  BY <1>11 DEF Wake, Goto, Tries
<1>12. CASE Fail
  <2>1. Flags'  BY <1>12, Zenon DEF Fail, Flags, Goto, Tries
  <2> QED  BY <1>12, <2>1 DEF Fail, Flags, Goto, Tries
<1> QED  BY <1>1, <1>2, <1>3, <1>4, <1>5, <1>6, <1>7, <1>8, <1>9, <1>10, <1>11, <1>12

(* Steps of the world. *)
LEMMA WorldStep ==
  ASSUME IInv, Expire \/ Drive \/ CleanReboot \/ PowerCut
  PROVE  IInv'
<1> USE NeedsAssumption DEF IInv, TypeOK, Consistent, Unmarked, Downloaded, Installation,
  Trees, Finalized, Updating, Launching, Unmarking, install, overlay, agnos,
  process, world, bounds
<1>1. CASE Expire
  <2>1. Flags'  BY <1>1, Zenon DEF Expire, Flags, Tries
  <2> QED  BY <1>1, <2>1 DEF Expire, Flags, Tries
<1>2. CASE Drive
  <2>1. Flags'  BY <1>2, Zenon DEF Drive, Flags, Restarted, Tries
  <2> QED  BY <1>2, <2>1 DEF Drive, Flags, Restarted, Tries
<1>3. CASE CleanReboot
  <2>1. Flags'  BY <1>3, Zenon DEF CleanReboot, Flags, Reboot, Restarted, Tries
  <2> QED  BY <1>3, <2>1 DEF CleanReboot, Flags, Reboot, Restarted, Tries
<1>4. CASE PowerCut
  <2>1. Flags'  BY <1>4, Zenon DEF PowerCut, Flags, Reboot, Restarted, Survivors
  <2> QED  BY <1>4, <2>1 DEF PowerCut, Flags, Reboot, Restarted, Survivors
<1> QED  BY <1>1, <1>2, <1>3, <1>4

(* set_consistent_flag: the marker appears only between two syncs of a    *)
(* complete tree, and is gone from the disk before anything else happens.  *)
LEMMA UnmarkStep ==
  ASSUME IInv, NEW at \in Unmarking, NEW next \in Tries \ {"mark", "copying",
           "agnos", "noslot", "flashing", "finalize", "mount"},
         at = "start" => next = "init", at = "wipe" => next = "remove",
         at = "fetch" => next = "download", at = "noslot" => next = "flash",
         at = "finalize" => next = "copy",
         SetConsistent(at, FALSE, next)
  PROVE  IInv'
<1> USE NeedsAssumption DEF IInv, TypeOK, Consistent, Unmarked, Downloaded, Installation,
  Trees, Finalized, Updating, Launching, Unmarking, install, overlay, agnos,
  process, world, bounds, Tries
<1>1. pc = at /\ UNCHANGED <<install, overlay, agnos, process, world, available, bounds>>
  BY DEF SetConsistent
<1>2. CASE sync = 0 /\ disk' = fs /\ sync' = 1 /\ UNCHANGED <<fs, pc>>
  BY <1>1, <1>2
<1>3. CASE sync = 1 /\ fs' = [fs EXCEPT !.marker = FALSE] /\ sync' = 2 /\ UNCHANGED <<disk, pc>>
  <2>1. fs' \in Finalized /\ fs'.tree = fs.tree /\ fs'.marker = FALSE  BY <1>3
  <2> HIDE DEF Finalized
  <2> QED  BY <1>1, <1>3, <2>1
<1>4. CASE sync = 2 /\ disk' = fs /\ Goto(next) /\ UNCHANGED fs
  BY <1>1, <1>4 DEF Goto
<1> QED  BY <1>2, <1>3, <1>4 DEF SetConsistent

LEMMA MarkStep ==
  ASSUME IInv, SetConsistent("mark", TRUE, "fetched")
  PROVE  IInv'
<1> USE NeedsAssumption DEF IInv, TypeOK, Consistent, Unmarked, Downloaded, Installation,
  Trees, Finalized, Updating, Launching, Unmarking, install, overlay, agnos,
  process, world, bounds, Tries
<1>1. pc = "mark" /\ UNCHANGED <<install, overlay, agnos, process, world, available, bounds>>
  BY DEF SetConsistent
<1>2. CASE sync = 0 /\ disk' = fs /\ sync' = 1 /\ UNCHANGED <<fs, pc>>
  BY <1>1, <1>2
<1>3. CASE sync = 1 /\ fs' = [fs EXCEPT !.marker = TRUE] /\ sync' = 2 /\ UNCHANGED <<disk, pc>>
  <2>1. fs' \in Finalized /\ fs'.tree = fs.tree /\ fs'.marker = TRUE  BY <1>3
  <2> HIDE DEF Finalized
  <2> QED  BY <1>1, <1>3, <2>1
<1>4. CASE sync = 2 /\ disk' = fs /\ Goto("fetched") /\ UNCHANGED fs
  BY <1>1, <1>4 DEF Goto
<1> QED  BY <1>2, <1>3, <1>4 DEF SetConsistent

(* The user and the publisher. *)
LEMMA EventStep ==
  ASSUME IInv, \/ \E r \in {"fetch", "check"} : Signal(r)
               \/ \E v \in Versions : Publish(v) \/ Edit(v)
  PROVE  IInv'
<1> USE NeedsAssumption DEF IInv, TypeOK, Consistent, Unmarked, Downloaded, Installation,
  Trees, Finalized, Updating, Launching, Unmarking, install, overlay, agnos,
  process, world, bounds, Tries
<1>1. CASE \E r \in {"fetch", "check"} : Signal(r)  BY <1>1 DEF Signal
<1>2. CASE \E v \in Versions : Publish(v)  BY <1>2 DEF Publish
<1>3. ASSUME NEW v \in Versions, Edit(v) PROVE IInv'
  <2>1. Flags'  BY <1>3, Zenon DEF Edit, Flags
  <2> QED  BY <1>3, <2>1 DEF Edit, Flags
<1> QED  BY <1>1, <1>2, <1>3

LEMMA Step == IInv /\ [Next]_vars => IInv'
<1> SUFFICES ASSUME IInv, [Next]_vars PROVE IInv'  OBVIOUS
<1>1. CASE Launcher  BY <1>1, LauncherStep DEF Launcher
<1>2. CASE SetConsistentSteps
  BY <1>2, UnmarkStep, MarkStep DEF SetConsistentSteps, Unmarking, Tries
<1>3. CASE Iteration /\ ~SetConsistentSteps
  BY <1>3, OverlayStep, FetchStep DEF Iteration
<1>4. CASE \E r \in {"fetch", "check"} : Signal(r)  BY <1>4, EventStep
<1>5. CASE \E v \in Versions : Publish(v) \/ Edit(v)  BY <1>5, EventStep
<1>6. CASE Fail \/ Expire \/ Drive \/ CleanReboot \/ PowerCut
  BY <1>6, FetchStep, WorldStep
<1>7. CASE UNCHANGED vars
  BY <1>7 DEF vars, IInv, TypeOK, Consistent, Unmarked, Downloaded, Installation,
     install, overlay, agnos, process, world, bounds
<1> QED  BY <1>1, <1>2, <1>3, <1>4, <1>5, <1>6, <1>7 DEF Next

THEOREM Invariance == Spec => []IInv
<1> QED  BY InitInv, Step, PTL DEF Spec

(* Every variable keeps its type. *)
THEOREM TypeCorrect == Spec => []TypeOK
<1>1. IInv => TypeOK  BY DEF IInv
<1> QED  BY Invariance, <1>1, PTL

(* Whenever the power is cut, the launch script never installs a tree that *)
(* was still being copied or removed.                                      *)
THEOREM NeverPartial == Spec => []InstalledIsComplete
<1>1. IInv => InstalledIsComplete  BY DEF IInv, Installation, InstalledIsComplete
<1> QED  BY Invariance, <1>1, PTL

(* A cut between the two renames leaves the backup and the new tree whole. *)
THEOREM NeverLost == Spec => []InstallationSurvives
<1>1. IInv => InstallationSurvives
  BY DEF IInv, Installation, Consistent, InstallationSurvives
<1> QED  BY Invariance, <1>1, PTL

(* The backup the script would refuse over is gone before .overlay_init is *)
(* there.                                                                  *)
THEOREM BackupIsGone == Spec => []BackupNeverBlocks
<1>1. IInv => BackupNeverBlocks  BY DEF IInv, Installation, BackupNeverBlocks
<1> QED  BY Invariance, <1>1, PTL
-----------------------------------------------------------------------------
(* What the launch script installs, and on which system. *)

(* An overlay that still counts as the installation's own was mounted over *)
(* that installation, and so was the one a marked tree was copied from.    *)
Origin ==
  /\ overlayInit /\ ~modified => lower = dir
  /\ overlayInit /\ ~modified /\ (fs.marker \/ disk.marker \/ pc = "mark")
       => from = dir

(* The system a tree asks for is running or on the other slot when the     *)
(* tree is copied, marked and moved in: a tree that could be installed is  *)
(* installed before the launch script may swap the slots.                  *)
Ready ==
  /\ pc \in {"finalize", "copy", "copying"} => Needs[merged] \in {os, slot}
  /\ pc = "mark" \/ dir = None => Needs[fs.tree] \in {os, slot}
  /\ overlayInit /\ ~modified /\ (fs.marker \/ disk.marker)
       => Needs[fs.tree] \in {os, slot}
  /\ pc = "agnos_init" => ~(overlayInit /\ ~modified /\ fs.marker)

(* Steps that only move control on. *)
LEMMA ControlStep ==
  ASSUME IInv, Origin, Ready,
         UNCHANGED <<install, fs, disk, overlay, agnos>>,
         pc' \in {"mark", "finalize", "copy", "copying", "agnos_init"} => pc' = pc
  PROVE  Origin' /\ Ready'
BY DEF Origin, Ready, install, overlay, agnos

LEMMA ReadyLauncherStep ==
  ASSUME IInv, Origin, Ready, Launcher
  PROVE  Origin' /\ Ready'
<1>1. CASE MoveAway
  BY <1>1 DEF MoveAway, Installs, overlay, agnos, IInv, Consistent, Origin, Ready
<1>2. CASE MoveIn
  <2>1. ~overlayInit /\ pc' = "boot" /\ UNCHANGED <<overlayInit, agnos>>
    BY <1>2 DEF MoveIn, IInv, Installation
  <2>2. dir' # None
    BY <1>2, NeedsAssumption DEF MoveIn, IInv, Installation, Consistent
  <2> QED BY <2>1, <2>2 DEF Origin, Ready
<1>3. CASE NotInstalling
  BY <1>3 DEF NotInstalling, Installs, install, overlay, agnos, IInv, Installation,
              Origin, Ready
<1>4. CASE SwapSlot \/ FlashAtBoot
  BY <1>4 DEF SwapSlot, FlashAtBoot, install, overlay, IInv, Installation, Consistent,
              Launching, Origin, Ready
<1>5. CASE StartManager
  BY <1>5, ControlStep DEF StartManager
<1> QED BY <1>1, <1>2, <1>3, <1>4, <1>5 DEF Launcher

(* set_consistent_flag marks the tree that was just copied, and only that. *)
LEMMA ReadyMarkStep ==
  ASSUME IInv, Origin, Ready, NEW at, NEW consistent \in BOOLEAN, NEW next,
         consistent => at = "mark",
         next \in {"copying", "agnos_init", "mark", "finalize"} => FALSE,
         next = "copy" => at = "finalize",
         SetConsistent(at, consistent, next)
  PROVE  Origin' /\ Ready'
<1>1. pc = at /\ UNCHANGED <<install, overlay, agnos>>
  BY DEF SetConsistent
<1>2. CASE disk' = fs /\ UNCHANGED <<fs, pc>>
  BY <1>1, <1>2 DEF install, overlay, agnos, Origin, Ready
<1>3. CASE fs' = [fs EXCEPT !.marker = consistent] /\ UNCHANGED <<disk, pc>>
  <2>1. fs'.tree = fs.tree /\ fs'.marker = consistent
    BY <1>3 DEF IInv, TypeOK, Finalized
  <2> QED BY <1>1, <1>3, <2>1 DEF install, overlay, agnos, Origin, Ready
<1>4. CASE disk' = fs /\ Goto(next) /\ UNCHANGED fs
  BY <1>1, <1>4 DEF Goto, install, overlay, agnos, Origin, Ready
<1> QED BY <1>2, <1>3, <1>4 DEF SetConsistent

LEMMA ReadyIterationStep ==
  ASSUME IInv, Origin, Ready, Iteration
  PROVE  Origin' /\ Ready'
<1>1. CASE SetConsistentSteps
  BY <1>1, ReadyMarkStep DEF SetConsistentSteps
<1>2. CASE KeepOverlay \/ RecreateOverlay \/ SetParams \/ Check \/ Fetched \/ Report
           \/ ResetRequest \/ Wake
  BY <1>2, ControlStep DEF KeepOverlay, RecreateOverlay, SetParams, Check, Fetched,
     Report, ResetRequest, Wake, Goto
<1>3. CASE StartRemoving
  <2>1. fs'.marker = fs.marker
    BY <1>3 DEF StartRemoving, IInv, TypeOK, Finalized
  <2> QED BY <1>3, <2>1 DEF StartRemoving, Goto, install, agnos, IInv, Unmarked,
             Installation, Origin, Ready
<1>4. CASE Remove
  BY <1>4 DEF Remove, Goto, overlay, agnos, IInv, Unmarked, Installation, Origin, Ready
<1>5. CASE Mount
  BY <1>5 DEF Mount, Goto, agnos, IInv, Unmarked, Installation, Origin, Ready
<1>6. CASE Withdraw \/ Checkout
  BY <1>6 DEF Withdraw, Checkout, Goto, install, agnos, Origin, Ready
<1>7. CASE CompareAgnos
  BY <1>7 DEF CompareAgnos, Goto, install, overlay, agnos, Origin, Ready
<1>8. CASE Flash
  BY <1>8 DEF Flash, Goto, install, overlay, IInv, Unmarked, Installation, Origin, Ready
<1>9. CASE Copy
  <2>1. fs'.marker = fs.marker
    BY <1>9 DEF Copy, IInv, TypeOK, Finalized
  <2>2. pc = "copying" => fs'.tree = merged
    BY <1>9 DEF Copy, IInv, TypeOK, Finalized
  <2> QED BY <1>9, <2>1, <2>2 DEF Copy, Goto, install, agnos, IInv, Unmarked,
             Installation, Origin, Ready
<1> QED BY <1>1, <1>2, <1>3, <1>4, <1>5, <1>6, <1>7, <1>8, <1>9 DEF Iteration

LEMMA ReadyWorldStep ==
  ASSUME IInv, Origin, Ready,
         \/ Fail \/ Expire \/ Drive \/ CleanReboot \/ PowerCut
         \/ \E r \in {"fetch", "check"} : Signal(r)
         \/ \E v \in Versions : Publish(v) \/ Edit(v)
  PROVE  Origin' /\ Ready'
<1>1. CASE Fail
  BY <1>1 DEF Fail, Goto, overlay, agnos, Tries, IInv, Installation, Origin, Ready
<1>2. CASE Expire \/ Drive \/ \E r \in {"fetch", "check"} : Signal(r)
  BY <1>2, ControlStep DEF Expire, Drive, Signal
<1>3. CASE \E v \in Versions : Publish(v)
  BY <1>3, ControlStep DEF Publish
<1>4. CASE \E v \in Versions : Edit(v)
  BY <1>4, NeedsAssumption DEF Edit, overlay, agnos, Updating, Tries, IInv, Installation,
     Origin, Ready
<1>5. CASE CleanReboot
  BY <1>5 DEF CleanReboot, Reboot, Restarted, install, agnos, Updating, Tries, IInv,
     Installation, Origin, Ready
<1>6. CASE PowerCut
  <2>1. /\ fs'.marker \/ disk'.marker => fs.marker \/ disk.marker
        /\ fs.marker \/ disk.marker => fs'.tree = fs.tree
    BY <1>6 DEF PowerCut, Survivors, Reboot, IInv, Consistent
  <2>2. dir = None => fs'.tree = fs.tree
    BY <2>1 DEF IInv, Installation
  <2> QED BY <1>6, <2>1, <2>2 DEF PowerCut, Reboot, Restarted, install, agnos, Origin, Ready
<1> QED BY <1>1, <1>2, <1>3, <1>4, <1>5, <1>6

LEMMA ReadyInvariance == Spec => [](IInv /\ Origin /\ Ready)
<1>1. Init => Origin /\ Ready
  BY NeedsAssumption DEF Init, Origin, Ready
<1>2. IInv /\ Origin /\ Ready /\ [Next]_vars => Origin' /\ Ready'
  <2> SUFFICES ASSUME IInv, Origin, Ready, [Next]_vars PROVE Origin' /\ Ready'
    OBVIOUS
  <2>1. CASE Launcher  BY <2>1, ReadyLauncherStep
  <2>2. CASE Iteration  BY <2>2, ReadyIterationStep
  <2>3. CASE Next /\ ~Launcher /\ ~Iteration
    BY <2>3, ReadyWorldStep DEF Next
  <2>4. CASE UNCHANGED vars
    BY <2>4, ControlStep DEF vars
  <2> QED BY <2>1, <2>2, <2>3, <2>4
<1> QED BY <1>1, <1>2, Invariance, PTL DEF Spec

(* Whatever the user checks out meanwhile, and whenever the power is cut,  *)
(* the launch script only ever replaces the installation a tree was built  *)
(* on.                                                                     *)
THEOREM InstallsItsOwn == Spec => []BuiltOnInstallation
<1>1. Origin => BuiltOnInstallation
  BY DEF Origin, Installs, BuiltOnInstallation
<1> QED BY <1>1, ReadyInvariance, PTL

(* A release is never moved in before the system it needs is complete.     *)
THEOREM SystemIsReady == Spec => AgnosReady
<1>1. IInv /\ Origin /\ Ready /\ [Next]_vars
        => [dir = None /\ dir' # None => Needs[dir'] \in {os, slot}]_vars
  <2> SUFFICES ASSUME IInv, Ready, Next, dir = None, dir' # None
               PROVE  Needs[dir'] \in {os, slot}
    OBVIOUS
  <2>1. pc \in {"swap", "boot"}
    BY DEF IInv, Installation
  <2>2. CASE MoveIn
    BY <2>2 DEF MoveIn, Ready
  <2>3. CASE ~MoveIn
    <3>1. ASSUME NEW v \in Versions PROVE ~Edit(v)
      BY <2>1 DEF Edit, Updating, Tries
    <3>2. UNCHANGED dir
      BY <2>3, <3>1 DEF Next, Launcher, Iteration, MoveAway, NotInstalling, SwapSlot,
         FlashAtBoot, StartManager, SetConsistentSteps, SetConsistent, KeepOverlay,
         RecreateOverlay, StartRemoving, Remove, Mount, SetParams, Check, Withdraw,
         Checkout, CompareAgnos, Flash, Copy, Fetched, Report, ResetRequest, Wake, Fail,
         Signal, Publish, Expire, Drive, CleanReboot, PowerCut, Reboot, install
    <3> QED BY <3>2
  <2> QED BY <2>2, <2>3
<1> QED BY <1>1, ReadyInvariance, PTL DEF AgnosReady, Spec
=============================================================================
