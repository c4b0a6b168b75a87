----------------------------- MODULE LogStorage -----------------------------
(***************************************************************************)
(* The recorded segments on the device: loggerd makes, locks and marks     *)
(* them, the uploader sends and tags them, and the deleter frees space.    *)
(* The three processes share nothing but directories, lock files and       *)
(* extended attributes; deleter and uploader each remember the attributes  *)
(* they have read (xattr_cache.py).                                        *)
(*                                                                         *)
(* Segments are numbered in the order of their creation, which is the      *)
(* order of their names.                                                   *)
(***************************************************************************)
EXTENDS Naturals, FiniteSets

CONSTANTS
  PreserveCount,   \* PRESERVE_COUNT
  Capacity,        \* the segments that fit before the device is out of space
  MaxSegments,     \* bound: segments ever recorded
  MaxMarks,        \* bound: bookmarks
  MaxFaults,       \* bound: deaths of loggerd and segments that cannot be removed
  MaxStarts,       \* bound: how often the uploader is started
  MaxRoutes,       \* bound: routes to be recorded
  Recorded         \* segments of earlier routes that are on the disk at first

ASSUME LogStorageAssumption ==
  /\ {PreserveCount, Capacity, MaxSegments, MaxMarks, MaxFaults, MaxStarts, MaxRoutes}
       \subseteq Nat
  /\ MaxMarks > 0 /\ Recorded \in 1..MaxSegments

VARIABLES
  dirs,        \* the segments on the disk
  filled,      \* those with log files
  locks,       \* those with a lock file
  marked,      \* segments with the attribute user.preserve
  uploaded,    \* segments with the attribute user.upload
  stuck,       \* segments rmtree fails on
  newest,      \* the last segment made, 0 before the first
  starts,      \* the segments a route begins with
  logger,      \* "off", "made" (in next(), before the lock) or "logging"
  noted,       \* handle_preserve_segment: prev_segment is the current one
  faults,      \* how often loggerd has died or a segment become undeletable
  looked,      \* the segments whose mark the deleter has read
  found,       \* those it has found marked
  plan,        \* the segments the deleter still has to try in this round
  preserved,   \* those it wants to keep in this round
  removing,    \* it has found its candidate unlocked
  kept,        \* history: the latest marked segments when the round began
  late,        \* history: segments marked after the deleter had read the mark
  uploader,    \* "off", "idle" or "sending"
  item,        \* the segment being sent, 0 if none
  pending,     \* the segments the uploader remembers as not uploaded
  launches     \* how often the uploader was started

disk == <<dirs, filled, locks, marked, uploaded, stuck>>
loggerd == <<newest, starts, logger, noted, faults, late>>
deleter == <<looked, found, plan, preserved, removing, kept>>
uploading == <<uploader, item, pending, launches>>
vars == <<disk, loggerd, deleter, uploading>>

Segments == 1..MaxSegments

TypeOK ==
  /\ dirs \subseteq Segments /\ filled \subseteq Segments /\ locks \subseteq Segments
  /\ marked \subseteq Segments /\ uploaded \subseteq Segments /\ stuck \subseteq Segments
  /\ newest \in 0..MaxSegments /\ starts \subseteq Segments
  /\ logger \in {"off", "made", "logging"}
  /\ noted \in BOOLEAN /\ faults \in 0..MaxFaults
  /\ looked \subseteq Segments /\ found \subseteq looked
  /\ plan \subseteq Segments /\ preserved \subseteq Segments /\ removing \in BOOLEAN
  /\ kept \subseteq Segments /\ late \subseteq Segments
  /\ uploader \in {"off", "idle", "sending"} /\ item \in 0..MaxSegments
  /\ pending \subseteq Segments /\ launches \in 0..MaxStarts

(* Earlier routes are on the disk and uploaded, apart from the last segment*)
(* of one in which loggerd has died.                                       *)
Init ==
  /\ dirs = 1..Recorded /\ filled = dirs /\ stuck = {}
  /\ locks \in {L \in SUBSET {1} : Cardinality(L) <= MaxFaults}
  /\ uploaded = dirs \ locks
  /\ marked \in {M \in SUBSET dirs : Cardinality(M) < MaxMarks}
  /\ newest = Recorded /\ logger = "off" /\ noted = FALSE /\ late = {}
  /\ starts = {s \in dirs : s = 1 \/ s - 1 \in locks} /\ faults = Cardinality(locks)
  /\ looked = {} /\ found = {} /\ plan = {} /\ preserved = {} /\ removing = FALSE
  /\ kept = {}
  /\ uploader = "off" /\ item = 0 /\ pending = {} /\ launches = 0

Earliest(S) == CHOOSE d \in S : \A e \in S : d <= e

-----------------------------------------------------------------------------
(* loggerd.                                                                *)

(* LoggerState::next makes the directory of the next segment.              *)
Make ==
  /\ newest < MaxSegments
  /\ newest' = newest + 1
  /\ dirs' = dirs \cup {newest + 1}
  /\ logger' = "made"
  /\ noted' = FALSE

(* loggerd is started: a new route.                                        *)
StartRoute ==
  /\ logger = "off" /\ Cardinality(starts \ 1..Recorded) < MaxRoutes
  /\ Make
  /\ starts' = starts \cup {newest + 1}
  /\ UNCHANGED <<filled, locks, marked, uploaded, stuck, faults, late, deleter,
                 uploading>>

(* logger_rotate: the lock of the last segment goes before the next one is *)
(* made.                                                                   *)
Rotate ==
  /\ logger = "logging"
  /\ Make
  /\ locks' = locks \ {newest}
  /\ UNCHANGED <<filled, marked, uploaded, stuck, starts, faults, late, deleter,
                 uploading>>

(* loggerd is gone; what it has locked stays locked.                       *)
Gone ==
  /\ logger' = "off" /\ noted' = FALSE
  /\ UNCHANGED <<newest, starts, late>>

(* The rest of next(): lock and log files; without the directory the       *)
(* assertion of ZstdFileWriter fails.                                      *)
Enter ==
  /\ logger = "made"
  /\ IF newest \in dirs
       THEN /\ locks' = locks \cup {newest}
            /\ filled' = filled \cup {newest}
            /\ logger' = "logging"
            /\ UNCHANGED <<newest, starts, noted, late>>
       ELSE Gone /\ UNCHANGED <<filled, locks>>
  /\ UNCHANGED <<dirs, marked, uploaded, stuck, faults, deleter, uploading>>

(* handle_preserve_segment: a bookmark marks the segment being recorded,   *)
(* once.                                                                   *)
Mark ==
  /\ logger = "logging" /\ ~noted
  /\ Cardinality(marked) < MaxMarks
  /\ marked' = IF newest \in dirs THEN marked \cup {newest} ELSE marked
  /\ noted' = TRUE
  /\ late' = IF newest \in looked THEN late \cup {newest} ELSE late
  /\ UNCHANGED <<dirs, filled, locks, uploaded, stuck, newest, starts, logger,
                 faults, deleter, uploading>>

(* loggerd is told to stop: the destructors unlock.                        *)
Stop ==
  /\ logger = "logging"
  /\ Gone
  /\ locks' = locks \ {newest}
  /\ UNCHANGED <<dirs, filled, marked, uploaded, stuck, faults, deleter, uploading>>

Die ==
  /\ logger # "off" /\ faults < MaxFaults
  /\ faults' = faults + 1
  /\ Gone
  /\ UNCHANGED <<disk, deleter, uploading>>

-----------------------------------------------------------------------------
(* uploader.                                                               *)

(* main: clear_locks removes every lock, and nothing is remembered.        *)
StartUploader ==
  /\ uploader = "off" /\ launches < MaxStarts
  /\ launches' = launches + 1
  /\ locks' = {}
  /\ uploader' = "idle" /\ pending' = {}
  /\ UNCHANGED <<dirs, filled, marked, uploaded, stuck, item, loggerd, deleter>>

(* It dies, or manager stops it.                                           *)
StopUploader ==
  /\ uploader # "off"
  /\ uploader' = "off" /\ item' = 0
  /\ UNCHANGED <<disk, loggerd, deleter, pending, launches>>

(* list_upload_files skips what is locked and asks for the tag of the rest,*)
(* as remembered if it has asked before.                                   *)
ToUpload == {d \in dirs \cap filled : d \notin locks /\ (d \in pending \/ d \notin uploaded)}

(* step: next_file_to_upload, the earliest of them.                        *)
Select ==
  /\ uploader = "idle" /\ ToUpload # {}
  /\ pending' = pending \cup ToUpload
  /\ item' = Earliest(ToUpload)
  /\ uploader' = "sending"
  /\ UNCHANGED <<disk, loggerd, deleter, launches>>

(* Mutant: setxattr keeps the remembered value.                            *)
UploadStale ==
  /\ uploader = "sending"
  /\ uploaded' = IF item \in dirs THEN uploaded \cup {item} ELSE uploaded
  /\ uploader' = "idle" /\ item' = 0
  /\ UNCHANGED <<dirs, filled, locks, marked, stuck, loggerd, deleter, launches, pending>>

(* upload: the server has taken it; setxattr tags it, forgetting the       *)
(* remembered value, unless it has been deleted meanwhile.                 *)
Upload ==
  /\ uploader = "sending"
  /\ pending' = pending \ {item}
  /\ uploaded' = IF item \in dirs THEN uploaded \cup {item} ELSE uploaded
  /\ uploader' = "idle" /\ item' = 0
  /\ UNCHANGED <<dirs, filled, locks, marked, stuck, loggerd, deleter, launches>>

(* It was not taken, or has been deleted before it was read.               *)
UploadFails ==
  /\ uploader = "sending"
  /\ uploader' = "idle" /\ item' = 0
  /\ UNCHANGED <<disk, loggerd, deleter, pending, launches>>

-----------------------------------------------------------------------------
(* deleter.                                                                *)

(* has_preserve_xattr, with the cache of getxattr.                         *)
HasMark(d) == IF d \in looked THEN d \in found ELSE d \in marked

Later(S, d) == {e \in S : e > d}

(* The latest of a set of marked segments.                                 *)
LatestOf(S) == {d \in S : Cardinality(Later(S, d)) < PreserveCount}

SameRoute(d, e) == ~\E s \in starts : d < s /\ s <= e

(* A segment and the two prior ones of its route, for each of a set.       *)
WithPrior(S) == {d \in Segments : \E e \in S : d <= e /\ e <= d + 2 /\ SameRoute(d, e)}

(* The marked segments, and those whose mark is asked for: from the newest *)
(* on, until one more is found than is preserved.                          *)
Marks == {d \in dirs : HasMark(d)}
Asked == {d \in dirs : Cardinality(Later(Marks, d)) <= PreserveCount}

(* Mutant: the earliest marked segments are preserved.                     *)
EarliestPreserved == WithPrior({d \in Marks : Cardinality({e \in Marks : e < d}) < PreserveCount})

(* get_preserved_segments.                                                 *)
Preserved == WithPrior(LatestOf(Marks))

(* The device is out of space: a round begins with the directories as they *)
(* are now.                                                                *)
List ==
  /\ plan = {} /\ Cardinality(dirs) > Capacity
  /\ plan' = dirs
  /\ preserved' = Preserved
  /\ looked' = looked \cup Asked
  /\ found' = found \cup (Marks \cap Asked)
  /\ kept' = LatestOf(marked)
  /\ removing' = FALSE
  /\ UNCHANGED <<disk, loggerd, uploading>>

(* Mutant: the latest first.                                               *)
LastCandidate == CHOOSE d \in plan : \A e \in plan : e <= d

(* The earliest that is not preserved, then the earliest.                  *)
Candidate == IF plan \subseteq preserved THEN Earliest(plan) ELSE Earliest(plan \ preserved)

Skip ==
  /\ plan # {} /\ ~removing /\ Candidate \in locks
  /\ plan' = plan \ {Candidate}
  /\ UNCHANGED <<disk, loggerd, uploading, looked, found, preserved, removing, kept>>

Unlocked ==
  /\ plan # {} /\ ~removing /\ Candidate \notin locks
  /\ removing' = TRUE
  /\ UNCHANGED <<disk, loggerd, uploading, looked, found, preserved, plan, kept>>

(* rmtree succeeds and the round is over.  Names are not used again, so    *)
(* what deleter and uploader remember of the segment is dropped.           *)
Remove ==
  /\ removing /\ Candidate \notin stuck
  /\ dirs' = dirs \ {Candidate}
  /\ locks' = locks \ {Candidate}
  /\ filled' = filled \ {Candidate} /\ marked' = marked \ {Candidate}
  /\ uploaded' = uploaded \ {Candidate} /\ pending' = pending \ {Candidate}
  /\ looked' = looked \ {Candidate} /\ found' = found \ {Candidate}
  /\ late' = late \ {Candidate}
  /\ plan' = {} /\ preserved' = {} /\ removing' = FALSE /\ kept' = {}
  /\ UNCHANGED <<stuck, newest, starts, logger, noted, faults, uploader, item, launches>>

(* Mutant: a failure ends the round.                                       *)
GiveUp ==
  /\ removing /\ Candidate \in stuck
  /\ plan' = {} /\ removing' = FALSE
  /\ UNCHANGED <<disk, loggerd, uploading, looked, found, preserved, kept>>

(* rmtree fails: the next one is tried.                                    *)
TryNext ==
  /\ removing /\ Candidate \in stuck
  /\ plan' = plan \ {Candidate} /\ removing' = FALSE
  /\ UNCHANGED <<disk, loggerd, uploading, looked, found, preserved, kept>>

(* A segment becomes undeletable.                                          *)
Break(d) ==
  /\ d \in dirs \ stuck /\ faults < MaxFaults
  /\ faults' = faults + 1
  /\ stuck' = stuck \cup {d}
  /\ UNCHANGED <<dirs, filled, locks, marked, uploaded, newest, starts, logger, noted,
                 late, deleter, uploading>>

Deleter == List \/ Skip \/ Unlocked \/ Remove \/ TryNext

Next ==
  \/ StartRoute \/ Rotate \/ Enter \/ Mark \/ Stop \/ Die
  \/ StartUploader \/ StopUploader \/ Select \/ Upload \/ UploadFails
  \/ List \/ Skip \/ Unlocked \/ Remove \/ TryNext
  \/ \E d \in Segments : Break(d)

Spec == Init /\ [][Next]_vars

(* The deleter and the uploader loop, and the server takes a file in the   *)
(* end.                                                                    *)
FairSpec == Spec /\ WF_vars(Deleter) /\ WF_vars(Select) /\ SF_vars(Upload)

-----------------------------------------------------------------------------
(* Properties.                                                             *)

(* What loggerd writes to stays on the disk, although the deleter looks at *)
(* the locks at one time and removes at another, and the uploader removes  *)
(* locks it has not set: it is not among the earliest.                     *)
RecordingKept ==
  logger # "off" => newest \in dirs

(* A segment of these, or one of the two prior ones, is not removed while  *)
(* one that is not preserved is still to be tried.                         *)
Outlasts(S) ==
  \A d \in dirs \ dirs' : d \in WithPrior(S) => plan \subseteq WithPrior(S)

(* The latest bookmarked segments go last, if the bookmark was there when  *)
(* the deleter read it (get_preserved_segments and the order of deletion). *)
PreservedLast == [][Outlasts(kept \ late)]_vars

(* The latest bookmarked segments go last (deleter.py: "skip deleting most *)
(* recent N preserved segments").                                          *)
BookmarksPreserved == [][Outlasts(kept)]_vars

(* Locked, undeletable and preserved segments do not keep the deleter from *)
(* freeing space.                                                          *)
SpaceRecovers == []<>(Cardinality(dirs) <= Capacity)

(* A complete segment is uploaded, unless it is deleted, it is locked by a *)
(* writer that died, or the uploader does not run.                         *)
UploadsSettle ==
  \A d \in Recorded + 1..MaxSegments :
    (d \in dirs \cap filled /\ (d # newest \/ logger = "off") /\ d \notin locks)
      ~> (d \in uploaded \/ d \notin dirs \/ uploader = "off")

=============================================================================
