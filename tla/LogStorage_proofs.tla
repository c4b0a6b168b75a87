-------------------------- MODULE LogStorage_proofs -------------------------
(***************************************************************************)
(* A theorem about LogStorage: bookmarks the deleter can know of are       *)
(* honoured, for any number of segments and of preserved ones.             *)
(***************************************************************************)
EXTENDS LogStorage, FiniteSetTheorems, WellFoundedInduction, TLAPS

(* The part of TypeOK the argument needs.                                  *)
Typed ==
  /\ newest \in 0..MaxSegments
  /\ dirs \subseteq 1..newest /\ marked \subseteq dirs
  /\ plan \subseteq Segments /\ starts \subseteq Segments
  /\ logger \in {"off", "made", "logging"} /\ noted \in BOOLEAN

(* The segment being recorded is not marked before handle_preserve_segment *)
(* takes note of it.                                                       *)
MarkedOnce == (logger = "made" \/ (logger = "logging" /\ ~noted)) => newest \notin marked

(* The deleter knows the marks, except those that came after its look.     *)
CacheInv ==
  /\ found = (looked \cap marked) \ late
  /\ late \subseteq looked

(* The latest known marks count as preserved in this round; what else does *)
(* is older than they are.                                                 *)
RoundInv ==
  /\ kept \subseteq marked
  /\ plan # {} => WithPrior(kept \ late) \subseteq preserved
  /\ plan # {} => \A x \in preserved : x \in WithPrior(kept \ late) \/ \A m \in kept : x < m

IInv == Typed /\ MarkedOnce /\ CacheInv /\ RoundInv

-----------------------------------------------------------------------------
(* The latest of a larger set that are in a smaller one are the latest of  *)
(* that.                                                                   *)
LEMMA LatestOfSubset ==
  ASSUME NEW T, NEW S, S \subseteq T, T \subseteq Nat, IsFiniteSet(T), NEW m \in S,
         m \in LatestOf(T)
  PROVE  m \in LatestOf(S)
<1>1. Later(S, m) \subseteq Later(T, m)  BY DEF Later
<1>2. IsFiniteSet(Later(T, m)) /\ IsFiniteSet(Later(S, m))  BY FS_Subset DEF Later
<1>3. Cardinality(Later(S, m)) <= Cardinality(Later(T, m))  BY <1>1, <1>2, FS_Subset
<1>4. Cardinality(Later(S, m)) \in Nat /\ Cardinality(Later(T, m)) \in Nat
  BY <1>2, FS_CardinalityType
<1>5. Cardinality(Later(T, m)) < PreserveCount  BY DEF LatestOf
<1> QED  BY <1>3, <1>4, <1>5, LogStorageAssumption DEF LatestOf

(* What is later than one of the latest is one of the latest.              *)
LEMMA LatestUpward ==
  ASSUME NEW T, T \subseteq Nat, IsFiniteSet(T), NEW m \in LatestOf(T), NEW e \in T, m <= e
  PROVE  e \in LatestOf(T)
<1>0. m \in Nat /\ e \in Nat /\ m \in T  BY DEF LatestOf
<1>1. ASSUME NEW x \in Later(T, e) PROVE x \in Later(T, m)
  <2>1. x \in Nat /\ x \in T /\ x > e  BY <1>1 DEF Later
  <2> QED  BY <1>0, <2>1 DEF Later
<1>2. IsFiniteSet(Later(T, m)) /\ IsFiniteSet(Later(T, e))  BY FS_Subset DEF Later
<1>3. Cardinality(Later(T, e)) <= Cardinality(Later(T, m))
  <2>1. Later(T, e) \subseteq Later(T, m)  BY <1>1
  <2> QED  BY <2>1, <1>2, FS_Subset
<1>4. Cardinality(Later(T, e)) \in Nat /\ Cardinality(Later(T, m)) \in Nat
  BY <1>2, FS_CardinalityType
<1>5. Cardinality(Later(T, m)) < PreserveCount  BY DEF LatestOf
<1> QED  BY <1>3, <1>4, <1>5, LogStorageAssumption DEF LatestOf

LEMMA MarkedFinite == Typed => IsFiniteSet(marked) /\ marked \subseteq Nat
<1> SUFFICES ASSUME Typed PROVE IsFiniteSet(marked) /\ marked \subseteq Nat  OBVIOUS
<1>1. newest \in Nat /\ marked \subseteq 1..newest  BY LogStorageAssumption DEF Typed
<1>2. IsFiniteSet(1..newest)  BY <1>1, FS_Interval
<1>3. IsFiniteSet(marked)  BY <1>1, <1>2, FS_Subset
<1>4. 1..newest \subseteq Nat  BY <1>1
<1> QED  BY <1>1, <1>3, <1>4

(* What the deleter takes for the marked segments.                         *)
LEMMA MarksKnown == Typed /\ CacheInv => Marks = marked \ late
  BY DEF Typed, CacheInv, Marks, HasMark

(* New routes begin after all segments there are.                          *)
LEMMA SameRoutes ==
  ASSUME Typed, starts' \subseteq starts \cup {newest + 1}, starts \subseteq starts',
         NEW d \in Segments, NEW e \in 1..newest
  PROVE  SameRoute(d, e)' <=> SameRoute(d, e)
<1>1. newest \in Nat  BY LogStorageAssumption DEF Typed
<1> QED  BY <1>1 DEF SameRoute

-----------------------------------------------------------------------------
(* A new round: whatever the deleter does not know of, it preserves the    *)
(* latest marked segments it knows, and of the others only older ones.     *)
LEMMA ListRound ==
  ASSUME Typed, CacheInv, List
  PROVE  RoundInv'
<1> DEFINE K == LatestOf(marked)
           P == LatestOf(marked \ late)
<1>1. IsFiniteSet(marked) /\ marked \subseteq Nat  BY MarkedFinite
<1>2. kept' = K /\ preserved' = WithPrior(P)
  BY MarksKnown DEF List, Preserved
<1>3. UNCHANGED <<marked, late, starts>>  BY DEF List, disk, loggerd
<1>4. K \ late \subseteq P
  <2> SUFFICES ASSUME NEW m \in K \ late PROVE m \in P  OBVIOUS
  <2>1. m \in marked \ late  BY DEF LatestOf
  <2> QED  BY <1>1, <2>1, LatestOfSubset
<1>5. ASSUME NEW e \in P, e \notin K, NEW m \in K PROVE e < m
  <2>1. e \in marked /\ e \in Nat /\ m \in Nat  BY <1>1 DEF LatestOf
  <2>2. ~(m <= e)  BY <1>1, <1>5, <2>1, LatestUpward
  <2> QED  BY <2>1, <2>2
<1>6. WithPrior(K \ late) \subseteq WithPrior(P)  BY <1>4 DEF WithPrior
<1>7. ASSUME NEW x \in WithPrior(P)
      PROVE  x \in WithPrior(K \ late) \/ \A m \in K : x < m
  <2>1. PICK e \in P : x <= e /\ e <= x + 2 /\ SameRoute(x, e)  BY <1>7 DEF WithPrior
  <2>2. x \in Segments /\ K \subseteq Nat /\ e \in Nat /\ e \notin late
    BY <1>1, <1>7 DEF WithPrior, LatestOf
  <2>5. x \in Nat  BY <2>2 DEF Segments
  <2>3. CASE e \in K  BY <2>1, <2>2, <2>3 DEF WithPrior
  <2>4. CASE e \notin K
    <3>1. \A m \in K : e < m  BY <1>5, <2>4
    <3> QED  BY <2>1, <2>2, <2>5, <3>1
  <2> QED  BY <2>3, <2>4
<1>8. WithPrior(kept \ late)' = WithPrior(K \ late)
  BY <1>2, <1>3 DEF WithPrior, SameRoute
<1>9. kept' \subseteq marked'  BY <1>2, <1>3 DEF LatestOf
<1> QED  BY <1>2, <1>6, <1>7, <1>8, <1>9 DEF RoundInv

(* What the other steps do to a round: some segments are done with, new    *)
(* ones and new routes appear, and marks on segments that had none.        *)
LEMMA RoundStep ==
  ASSUME Typed, RoundInv, starts' \subseteq starts \cup {newest + 1},
         starts \subseteq starts', UNCHANGED <<kept, preserved>>, kept \subseteq marked',
         kept' \ late' = kept \ late, plan' # {} => plan # {}
  PROVE  RoundInv'
<1>1. kept \ late \subseteq 1..newest  BY DEF Typed, RoundInv
<1>2. WithPrior(kept \ late)' = WithPrior(kept \ late)
  <2>1. WithPrior(kept \ late)' =
          {d \in Segments : \E e \in kept \ late : d <= e /\ e <= d + 2 /\ SameRoute(d, e)'}
    BY DEF WithPrior, SameRoute
  <2>2. \A d \in Segments, e \in kept \ late : SameRoute(d, e)' <=> SameRoute(d, e)
    BY <1>1, SameRoutes
  <2> QED  BY <2>1, <2>2 DEF WithPrior
<1> QED  BY <1>2 DEF RoundInv

-----------------------------------------------------------------------------
LEMMA IInvInit == Init => IInv
<1> SUFFICES ASSUME Init PROVE IInv  OBVIOUS
<1>1. Typed
  <2>1. marked \subseteq dirs  BY DEF Init
  <2>2. MaxSegments \in Nat /\ Recorded \in 1..MaxSegments  BY LogStorageAssumption
  <2>3. newest = Recorded /\ dirs = 1..newest  BY DEF Init
  <2>4. newest \in 0..MaxSegments /\ dirs \subseteq 1..newest  BY <2>2, <2>3
  <2>5. plan \subseteq Segments /\ logger = "off" /\ noted = FALSE  BY DEF Init
  <2>6. starts \subseteq dirs  BY DEF Init
  <2>7. starts \subseteq Segments  BY <2>2, <2>3, <2>4, <2>6 DEF Segments
  <2> QED  BY <2>1, <2>4, <2>5, <2>7 DEF Typed
<1>2. MarkedOnce /\ CacheInv /\ RoundInv  BY DEF Init, MarkedOnce, CacheInv, RoundInv
<1> QED  BY <1>1, <1>2 DEF IInv

(* loggerd makes a segment, in an old or a new route.                      *)
LEMMA MakeStep ==
  ASSUME IInv, Make, starts' \subseteq starts \cup {newest + 1}, starts \subseteq starts',
         UNCHANGED <<marked, late, deleter>>
  PROVE  IInv'
<1>1. newest \in Nat /\ MaxSegments \in Nat  BY LogStorageAssumption DEF IInv, Typed
<1>2. Typed'
  <2>1. newest < MaxSegments /\ newest' = newest + 1 /\ dirs' = dirs \cup {newest + 1}
    BY DEF Make
  <2>2. dirs \subseteq 1..newest /\ marked' = marked /\ marked \subseteq dirs
    BY DEF IInv, Typed
  <2>5. newest' \in 0..MaxSegments  BY <1>1, <2>1
  <2>3. dirs' \subseteq 1..newest' /\ marked' \subseteq dirs'  BY <1>1, <2>1, <2>2
  <2>4. plan' \subseteq Segments /\ logger' = "made" /\ noted' = FALSE
    BY DEF IInv, Typed, Make, deleter
  <2>6. starts' \subseteq Segments  BY <1>1, <2>1 DEF IInv, Typed, Segments
  <2> QED  BY <2>3, <2>4, <2>5, <2>6 DEF Typed
<1>3. MarkedOnce'  BY <1>1 DEF IInv, Typed, MarkedOnce, Make
<1>4. CacheInv'  BY DEF IInv, CacheInv, deleter
<1>5. RoundInv'  BY RoundStep DEF IInv, RoundInv, deleter
<1> QED  BY <1>2, <1>3, <1>4, <1>5 DEF IInv

(* Steps that change neither the marks nor what the deleter knows of them. *)
LEMMA OtherStep ==
  ASSUME IInv, UNCHANGED <<newest, dirs, starts, marked, late, looked, found, preserved, kept>>,
         plan' \subseteq plan, logger' \in {"off", "made", "logging"}, noted' \in BOOLEAN,
         logger' = "off" \/ UNCHANGED noted, logger' \in {"off", logger} \/ logger = "made",
         logger' # "made" \/ logger = "made"
  PROVE  IInv'
<1>1. Typed'  BY DEF IInv, Typed
<1>2. MarkedOnce'  BY DEF IInv, Typed, MarkedOnce
<1>3. CacheInv'  BY DEF IInv, CacheInv
<1>4. RoundInv'  BY RoundStep DEF IInv, RoundInv
<1> QED  BY <1>1, <1>2, <1>3, <1>4 DEF IInv

(* The deleter begins a round: the marks it asks for become known.         *)
LEMMA ListStep == IInv /\ List => IInv'
<1> SUFFICES ASSUME IInv, List PROVE IInv'  OBVIOUS
<1> USE DEF IInv
<1>0. UNCHANGED <<newest, dirs, marked, logger, noted, late, starts>>
  BY DEF List, disk, loggerd
<1>1. Typed'
  <2>1. MaxSegments \in Nat /\ dirs \subseteq 1..newest /\ newest \in 0..MaxSegments
    BY LogStorageAssumption DEF Typed
  <2>2. dirs \subseteq Segments  BY <2>1 DEF Segments
  <2>3. plan' \subseteq Segments  BY <2>2 DEF List
  <2> QED  BY <1>0, <2>3 DEF Typed
<1>2. MarkedOnce'  BY <1>0 DEF MarkedOnce
<1>3. CacheInv'
  <2>1. Marks = marked \ late  BY MarksKnown
  <2>2. looked' = looked \cup Asked /\ found' = found \cup (Marks \cap Asked)  BY DEF List
  <2> QED  BY <1>0, <2>1, <2>2 DEF CacheInv
<1>4. RoundInv'  BY ListRound
<1> QED  BY <1>1, <1>2, <1>3, <1>4

(* A bookmark comes.                                                       *)
LEMMA MarkStep == IInv /\ Mark => IInv'
<1> SUFFICES ASSUME IInv, Mark PROVE IInv'  OBVIOUS
<1> USE DEF IInv
<1>0. /\ newest \notin marked /\ noted' = TRUE
      /\ UNCHANGED <<newest, dirs, logger, starts, deleter>>
      /\ marked' = IF newest \in dirs THEN marked \cup {newest} ELSE marked
      /\ late' = IF newest \in looked THEN late \cup {newest} ELSE late
  BY DEF Mark, MarkedOnce
<1>1. Typed'  BY <1>0 DEF Typed, deleter
<1>2. MarkedOnce'
  <2>1. logger' = "logging"  BY <1>0 DEF Mark
  <2> QED  BY <1>0, <2>1 DEF MarkedOnce
<1>3. CacheInv'
  <2>1. looked' = looked /\ found' = found  BY <1>0 DEF deleter
  <2> QED  BY <1>0, <2>1 DEF CacheInv
<1>4. RoundInv'
  <2>1. UNCHANGED <<kept, preserved, plan>>  BY <1>0 DEF deleter
  <2>2. kept \subseteq marked' /\ newest \notin kept  BY <1>0 DEF RoundInv
  <2>3. kept' \ late' = kept \ late  BY <1>0, <2>1, <2>2
  <2>4. starts' \subseteq starts \cup {newest + 1} /\ starts \subseteq starts'  BY <1>0
  <2> QED  BY <2>1, <2>2, <2>3, <2>4, RoundStep
<1> QED  BY <1>1, <1>2, <1>3, <1>4

(* A segment is removed and the round is over.                             *)
LEMMA RemoveStep == IInv /\ Remove => IInv'
<1> SUFFICES ASSUME IInv, Remove PROVE IInv'  OBVIOUS
<1> USE DEF IInv
<1>0. /\ dirs' = dirs \ {Candidate} /\ marked' = marked \ {Candidate}
      /\ looked' = looked \ {Candidate} /\ found' = found \ {Candidate}
      /\ late' = late \ {Candidate} /\ plan' = {} /\ kept' = {}
      /\ UNCHANGED <<newest, starts, logger, noted>>
  BY DEF Remove
<1>1. Typed'  BY <1>0 DEF Typed
<1>2. MarkedOnce'  BY <1>0 DEF MarkedOnce
<1>3. CacheInv'  BY <1>0 DEF CacheInv
<1>4. RoundInv'  BY <1>0 DEF RoundInv
<1> QED  BY <1>1, <1>2, <1>3, <1>4

LEMMA IInvNext == IInv /\ [Next]_vars => IInv'
<1> SUFFICES ASSUME IInv, [Next]_vars PROVE IInv'  OBVIOUS
<1>0. logger \in {"off", "made", "logging"} /\ noted \in BOOLEAN  BY DEF IInv, Typed
<1>1. CASE StartRoute  BY <1>1, MakeStep DEF StartRoute
<1>2. CASE Rotate  BY <1>2, MakeStep DEF Rotate
<1>3. CASE Enter
  <2>1. CASE newest \in dirs  BY <1>0, <1>3, <2>1, OtherStep DEF Enter, deleter
  <2>2. CASE newest \notin dirs  BY <1>0, <1>3, <2>2, OtherStep DEF Enter, Gone, deleter
  <2> QED  BY <2>1, <2>2
<1>4. CASE Mark  BY <1>4, MarkStep
<1>5. CASE Stop  BY <1>0, <1>5, OtherStep DEF Stop, Gone, deleter
<1>6. CASE Die  BY <1>0, <1>6, OtherStep DEF Die, Gone, disk, deleter
<1>7. CASE StartUploader  BY <1>0, <1>7, OtherStep DEF StartUploader, loggerd, deleter
<1>8. CASE StopUploader  BY <1>0, <1>8, OtherStep DEF StopUploader, disk, loggerd, deleter
<1>9. CASE Select  BY <1>0, <1>9, OtherStep DEF Select, disk, loggerd, deleter
<1>10. CASE Upload  BY <1>0, <1>10, OtherStep DEF Upload, loggerd, deleter
<1>11. CASE UploadFails  BY <1>0, <1>11, OtherStep DEF UploadFails, disk, loggerd, deleter
<1>12. CASE List  BY <1>12, ListStep
<1>13. CASE Skip  BY <1>0, <1>13, OtherStep DEF Skip, disk, loggerd
<1>14. CASE Unlocked  BY <1>0, <1>14, OtherStep DEF Unlocked, disk, loggerd
<1>15. CASE Remove  BY <1>15, RemoveStep
<1>16. CASE TryNext  BY <1>0, <1>16, OtherStep DEF TryNext, disk, loggerd
<1>17. CASE \E d \in Segments : Break(d)  BY <1>0, <1>17, OtherStep DEF Break, deleter
<1>18. CASE UNCHANGED vars
  BY <1>0, <1>18, OtherStep DEF vars, disk, loggerd, deleter
<1> QED
  BY <1>1, <1>2, <1>3, <1>4, <1>5, <1>6, <1>7, <1>8, <1>9, <1>10, <1>11, <1>12, <1>13,
     <1>14, <1>15, <1>16, <1>17, <1>18 DEF Next

-----------------------------------------------------------------------------
(* The earliest of a set of numbers.                                       *)
LEMMA EarliestIs ==
  ASSUME NEW S, S \subseteq Nat, S # {}
  PROVE  Earliest(S) \in S /\ \A e \in S : Earliest(S) <= e
<1>1. \E d \in S : \A e \in S : ~(<<e, d>> \in OpToRel(<, Nat))
  BY NatLessThanWellFounded, WFMin
<1>2. PICK d \in S : \A e \in S : ~(<<e, d>> \in OpToRel(<, Nat))  BY <1>1
<1>3. \A e \in S : ~(e < d)  BY <1>2 DEF OpToRel
<1>4. \A e \in S : d <= e  BY <1>3
<1> QED  BY <1>4 DEF Earliest

(* A segment that is preserved is removed only when all that are left are, *)
(* and then the earliest of them is: the latest bookmarks go last.         *)
LEMMA RemovedLast == IInv /\ [Next]_vars => Outlasts(kept \ late)
<1> SUFFICES ASSUME IInv, [Next]_vars, NEW d \in dirs \ dirs', d \in WithPrior(kept \ late),
                    NEW x \in plan
             PROVE  x \in WithPrior(kept \ late)
  BY DEF Outlasts
<1> DEFINE W == WithPrior(kept \ late)
<1> USE DEF IInv
<1>1. d = Candidate
  <2>1. Remove  BY DEF Next, vars, disk, StartRoute, Rotate, Make, Enter, Mark, Stop, Die,
    StartUploader, StopUploader, Select, Upload, UploadFails, List, Skip, Unlocked, TryNext, Break
  <2> QED  BY <2>1 DEF Remove
<1>2. plan \subseteq Nat /\ plan \subseteq Segments  BY DEF Typed, Segments
<1>3. plan \subseteq preserved
  <2> SUFFICES ASSUME ~(plan \subseteq preserved) PROVE FALSE  OBVIOUS
  <2>1. Candidate = Earliest(plan \ preserved)  BY DEF Candidate
  <2>2. d \notin preserved  BY <1>1, <1>2, <2>1, EarliestIs
  <2> QED  BY <2>2 DEF RoundInv
<1>4. d \in plan /\ d <= x  BY <1>1, <1>2, <1>3, EarliestIs DEF Candidate
<1>5. x \in W \/ \A m \in kept : x < m  BY <1>3 DEF RoundInv
<1>6. CASE \A m \in kept : x < m
  <2>1. PICK e \in kept \ late : d <= e /\ e <= d + 2 /\ SameRoute(d, e)  BY DEF WithPrior
  <2>2. e \in Nat /\ d \in Nat /\ x \in Nat /\ x < e
    BY <1>2, <1>4, <1>6, <2>1, MarkedFinite DEF RoundInv
  <2>3. x <= e /\ e <= x + 2  BY <1>4, <2>1, <2>2
  <2>4. SameRoute(x, e)
    <3> SUFFICES ASSUME NEW s \in starts, x < s, s <= e PROVE FALSE  BY DEF SameRoute
    <3>1. s \in Nat  BY DEF Typed, Segments
    <3>2. d < s  BY <1>4, <2>2, <3>1
    <3> QED  BY <2>1, <3>2 DEF SameRoute
  <2> QED  BY <1>2, <2>1, <2>3, <2>4 DEF WithPrior
<1> QED  BY <1>5, <1>6

(* The latest bookmarked segments known to the deleter go last             *)
(* (get_preserved_segments and deleter_step), for any PRESERVE_COUNT and   *)
(* any number of segments, routes, bookmarks and faults.                   *)
THEOREM PreservedGoLast == Spec => PreservedLast
<1>1. IInv /\ [Next]_vars => [Outlasts(kept \ late)]_vars  BY RemovedLast
<1> QED  BY <1>1, IInvInit, IInvNext, PTL DEF Spec, PreservedLast

-----------------------------------------------------------------------------
(* Types.                                                                  *)

LEMMA TypeInit == Init => TypeOK
<1> SUFFICES ASSUME Init PROVE TypeOK  OBVIOUS
<1>1. MaxSegments \in Nat /\ MaxFaults \in Nat /\ MaxStarts \in Nat /\ Recorded \in 1..MaxSegments
  BY LogStorageAssumption
<1>2. dirs \subseteq Segments /\ newest \in 0..MaxSegments  BY <1>1 DEF Init, Segments
<1>3. marked \subseteq Segments /\ starts \subseteq Segments  BY <1>2 DEF Init
<1>4. locks \subseteq Segments /\ faults \in 0..MaxFaults
  <2>1. locks \subseteq {1} /\ Cardinality(locks) <= MaxFaults  BY DEF Init
  <2>2. IsFiniteSet(locks)  BY <2>1, FS_Singleton, FS_Subset
  <2>3. Cardinality(locks) \in Nat  BY <2>2, FS_CardinalityType
  <2> QED  BY <1>1, <2>1, <2>3 DEF Init, Segments
<1>5. 0 \in 0..MaxSegments /\ 0 \in 0..MaxStarts  BY <1>1
<1> QED  BY <1>2, <1>3, <1>4, <1>5 DEF Init, TypeOK

LEMMA TypeStep == TypeOK /\ [Next]_vars => TypeOK'
<1> SUFFICES ASSUME TypeOK, [Next]_vars PROVE TypeOK'  OBVIOUS
<1>0. MaxSegments \in Nat /\ MaxFaults \in Nat /\ MaxStarts \in Nat  BY LogStorageAssumption
<1> USE <1>0 DEF TypeOK
<1>a. ASSUME Make PROVE newest' \in 0..MaxSegments /\ newest + 1 \in Segments
  BY <1>a DEF Make, Segments
<1>b. ASSUME newest \in dirs PROVE newest \in Segments  BY <1>b
<1>1. CASE StartRoute  BY <1>1, <1>a DEF StartRoute, Make, deleter, uploading
<1>2. CASE Rotate  BY <1>2, <1>a DEF Rotate, Make, deleter, uploading
<1>3. CASE Enter  BY <1>3 DEF Enter, Gone, deleter, uploading
<1>4. CASE Mark
  <2>1. marked' \subseteq Segments /\ late' \subseteq Segments  BY <1>4 DEF Mark
  <2> QED  BY <1>4, <2>1 DEF Mark, deleter, uploading
<1>5. CASE Stop  BY <1>5 DEF Stop, Gone, deleter, uploading
<1>6. CASE Die
  <2>1. faults' \in 0..MaxFaults /\ logger' = "off" /\ noted' = FALSE  BY <1>6 DEF Die, Gone
  <2>2. UNCHANGED <<disk, newest, starts, late, deleter, uploading>>  BY <1>6 DEF Die, Gone
  <2> QED  BY <2>1, <2>2 DEF disk, deleter, uploading
<1>7. CASE StartUploader  BY <1>7 DEF StartUploader, loggerd, deleter
<1>8. CASE StopUploader
  <2>1. item' \in 0..MaxSegments /\ uploader' \in {"off", "idle", "sending"}
    BY <1>8 DEF StopUploader
  <2> QED  BY <1>8, <2>1 DEF StopUploader, disk, loggerd, deleter
<1>9. CASE Select
  <2>5. ToUpload \subseteq Segments  BY DEF ToUpload
  <2>6. Segments \subseteq Nat  BY DEF Segments
  <2>1. ToUpload \subseteq Segments /\ ToUpload \subseteq Nat  BY <2>5, <2>6
  <2>4. ToUpload # {} /\ item' = Earliest(ToUpload)  BY <1>9 DEF Select
  <2>2. item' \in Segments  BY <2>1, <2>4, EarliestIs
  <2>3. item' \in 0..MaxSegments  BY <2>2 DEF Segments
  <2> QED  BY <1>9, <2>1, <2>3 DEF Select, disk, loggerd, deleter
<1>10. CASE Upload
  <2>1. uploaded' \subseteq Segments  BY <1>10 DEF Upload
  <2> QED  BY <1>10, <2>1 DEF Upload, loggerd, deleter
<1>11. CASE UploadFails  BY <1>11 DEF UploadFails, disk, loggerd, deleter
<1>12. CASE List
  <2>1. Asked \subseteq Segments /\ Marks \cap Asked \subseteq Asked  BY DEF Asked
  <2>2. LatestOf(marked) \subseteq Segments /\ Preserved \subseteq Segments
    BY DEF LatestOf, Preserved, WithPrior
  <2> QED  BY <1>12, <2>1, <2>2 DEF List, disk, loggerd, uploading
<1>13. CASE Skip  BY <1>13 DEF Skip, disk, loggerd, uploading
<1>14. CASE Unlocked  BY <1>14 DEF Unlocked, disk, loggerd, uploading
<1>15. CASE Remove  BY <1>15 DEF Remove
<1>16. CASE TryNext  BY <1>16 DEF TryNext, disk, loggerd, uploading
<1>17. ASSUME NEW d \in Segments, Break(d) PROVE TypeOK'
  BY <1>17 DEF Break, deleter, uploading
<1>18. CASE UNCHANGED vars  BY <1>18 DEF vars, disk, loggerd, deleter, uploading
<1> QED
  BY <1>1, <1>2, <1>3, <1>4, <1>5, <1>6, <1>7, <1>8, <1>9, <1>10, <1>11, <1>12, <1>13,
     <1>14, <1>15, <1>16, <1>17, <1>18 DEF Next

(* Every variable keeps its type; what the deleter has found marked it has *)
(* looked at.                                                              *)
THEOREM TypeCorrect == Spec => []TypeOK
<1> QED  BY TypeInit, TypeStep, PTL DEF Spec

-----------------------------------------------------------------------------
(* What is recorded is not deleted.                                        *)

(* In D are segments a fault has happened to: those locked by a loggerd    *)
(* that has died and those that cannot be removed.  While the segment being*)
(* recorded is still to be tried, only such segments have been passed over.*)
Tried(D) ==
  /\ Cardinality(D) <= faults /\ stuck \subseteq D
  /\ \A d \in locks \ D : d = newest /\ logger = "logging"
  /\ newest \in plan => dirs \ plan \subseteq D

KeepInv ==
  /\ \E D \in SUBSET Segments : Tried(D)
  /\ plan \subseteq 1..newest
  /\ removing => plan # {}
  /\ newest \in plan => Cardinality(dirs) > Capacity
  /\ Cardinality(preserved) <= 3 * PreserveCount
  /\ RecordingKept

(* More fits on the device than can be passed over in a round: the segments*)
(* faults have happened to and the preserved ones.                         *)
Roomy == Capacity > 3 * PreserveCount + MaxFaults

LEMMA SegmentsFinite ==
  \A S \in SUBSET Segments : IsFiniteSet(S) /\ S \subseteq Nat /\ Cardinality(S) \in Nat
<1>1. IsFiniteSet(Segments)  BY LogStorageAssumption, FS_Interval DEF Segments
<1>2. Segments \subseteq Nat  BY DEF Segments
<1> QED  BY <1>1, <1>2, FS_Subset, FS_CardinalityType

LEMMA UnionIsFewer ==
  ASSUME NEW S, NEW T, IsFiniteSet(S), IsFiniteSet(T)
  PROVE  IsFiniteSet(S \cup T) /\ Cardinality(S \cup T) <= Cardinality(S) + Cardinality(T)
<1>1. IsFiniteSet(S \cup T)
      /\ Cardinality(S \cup T) = Cardinality(S) + Cardinality(T) - Cardinality(S \cap T)
  BY FS_Union
<1>2. Cardinality(S) \in Nat /\ Cardinality(T) \in Nat /\ Cardinality(S \cap T) \in Nat
  BY FS_Intersection, FS_CardinalityType
<1> QED  BY <1>1, <1>2

(* The preserved marks are no more than PRESERVE_COUNT.                    *)
LEMMA LatestAreFew ==
  ASSUME NEW S \in SUBSET Segments
  PROVE  Cardinality(LatestOf(S)) <= PreserveCount
<1> DEFINE L == LatestOf(S)
<1>1. L \in SUBSET Segments /\ L \subseteq S  BY DEF LatestOf
<1>2. IsFiniteSet(L) /\ L \subseteq Nat /\ Cardinality(L) \in Nat  BY <1>1, SegmentsFinite
<1>3. PreserveCount \in Nat  BY LogStorageAssumption
<1>4. CASE L = {}  BY <1>3, <1>4, FS_EmptySet
<1>5. CASE L # {}
  <2> DEFINE m == Earliest(L)
  <2>1. m \in L /\ \A e \in L : m <= e  BY <1>2, <1>5, EarliestIs
  <2>2. Later(S, m) \in SUBSET Segments  BY DEF Later
  <2>3. IsFiniteSet(Later(S, m)) /\ Cardinality(Later(S, m)) \in Nat  BY <2>2, SegmentsFinite
  <2>4. Cardinality(Later(S, m)) < PreserveCount  BY <2>1 DEF LatestOf
  <2> HIDE DEF m, L
  <2>5. L \ {m} \subseteq Later(S, m)
    <3> SUFFICES ASSUME NEW e \in L, e # m  PROVE e \in Later(S, m)  OBVIOUS
    <3>1. e \in Nat /\ m \in Nat /\ m <= e  BY <1>2, <2>1
    <3> QED  BY <1>1, <3>1 DEF Later
  <2>6. Cardinality(L \ {m}) <= Cardinality(Later(S, m))  BY <2>3, <2>5, FS_Subset
  <2>7. Cardinality(L \ {m}) = Cardinality(L) - 1  BY <1>2, <2>1, FS_RemoveElement
  <2>8. Cardinality(L) <= PreserveCount  BY <1>2, <1>3, <2>3, <2>4, <2>6, <2>7
  <2> QED  BY <2>8 DEF L
<1> QED  BY <1>4, <1>5

(* As many segments as in S are k before one of S, or fewer.               *)
LEMMA ShiftedAreFew ==
  ASSUME NEW S \in SUBSET Segments, NEW k \in Nat
  PROVE  Cardinality({d \in Segments : d + k \in S}) <= Cardinality(S)
<1> DEFINE T == {d \in Segments : d + k \in S}
           f == [d \in T |-> d + k]
<1>1. T \subseteq Nat  BY DEF Segments
<1>2. f \in [T -> S]  OBVIOUS
<1>3. ASSUME NEW a \in T, NEW b \in T, f[a] = f[b]  PROVE a = b
  <2>1. a \in Nat /\ b \in Nat /\ a + k = b + k  BY <1>1, <1>3
  <2> QED  BY <2>1
<1>4. f \in Injection(T, S)  BY <1>2, <1>3 DEF Injection, IsInjective
<1>5. IsFiniteSet(S)  BY SegmentsFinite
<1> HIDE DEF f, T
<1>6. Cardinality(T) <= Cardinality(S)  BY <1>4, <1>5, FS_Injection
<1> QED  BY <1>6 DEF T

(* With each preserved mark, the two prior segments are preserved.         *)
LEMMA PriorAreFew ==
  ASSUME NEW S \in SUBSET Segments
  PROVE  Cardinality(WithPrior(S)) <= 3 * Cardinality(S)
<1> DEFINE T(k) == {d \in Segments : d + k \in S}
<1>1. /\ T(0) \in SUBSET Segments /\ T(1) \in SUBSET Segments /\ T(2) \in SUBSET Segments
      /\ WithPrior(S) \in SUBSET Segments
  BY DEF WithPrior
<1>2. WithPrior(S) \subseteq T(0) \cup T(1) \cup T(2)
  <2> SUFFICES ASSUME NEW d \in WithPrior(S)  PROVE d \in T(0) \cup T(1) \cup T(2)  OBVIOUS
  <2>1. PICK e \in S : d <= e /\ e <= d + 2  BY DEF WithPrior
  <2>2. d \in Segments /\ d \in Nat /\ e \in Nat  BY SegmentsFinite DEF WithPrior, Segments
  <2>3. e = d + 0 \/ e = d + 1 \/ e = d + 2  BY <2>1, <2>2
  <2> QED  BY <2>1, <2>2, <2>3
<1>3. /\ Cardinality(T(0)) <= Cardinality(S) /\ Cardinality(T(1)) <= Cardinality(S)
      /\ Cardinality(T(2)) <= Cardinality(S)
  BY ShiftedAreFew
<1> HIDE DEF T
<1>4. IsFiniteSet(T(0)) /\ IsFiniteSet(T(1)) /\ IsFiniteSet(T(2))  BY <1>1, SegmentsFinite
<1>5. /\ Cardinality(T(0)) \in Nat /\ Cardinality(T(1)) \in Nat /\ Cardinality(T(2)) \in Nat
      /\ Cardinality(S) \in Nat /\ Cardinality(WithPrior(S)) \in Nat
  BY <1>1, SegmentsFinite
<1> DEFINE U == T(0) \cup T(1)
<1>6. IsFiniteSet(U) /\ Cardinality(U) <= Cardinality(T(0)) + Cardinality(T(1))
  BY <1>4, <1>5, UnionIsFewer
<1>7. /\ IsFiniteSet(U \cup T(2))
      /\ Cardinality(U \cup T(2)) <= Cardinality(U) + Cardinality(T(2))
  BY <1>4, <1>6, UnionIsFewer
<1>8. Cardinality(WithPrior(S)) <= Cardinality(U \cup T(2))  BY <1>2, <1>7, FS_Subset
<1>9. Cardinality(U) \in Nat /\ Cardinality(U \cup T(2)) \in Nat
  BY <1>6, <1>7, FS_CardinalityType
<1> QED  BY <1>3, <1>5, <1>6, <1>7, <1>8, <1>9

(* The segment being recorded is no candidate: those passed over and the   *)
(* preserved ones would be all there is.                                   *)
LEMMA NeverTheNewest ==
  ASSUME Roomy, TypeOK, KeepInv, plan # {}
  PROVE  Candidate # newest
<1> SUFFICES ASSUME Candidate = newest  PROVE FALSE
  OBVIOUS
<1>1. plan \in SUBSET Segments /\ dirs \in SUBSET Segments /\ preserved \in SUBSET Segments
      /\ plan \subseteq Nat /\ plan \ preserved \subseteq Nat
  BY DEF TypeOK, Segments
<1>2. newest \in plan /\ plan \subseteq preserved \cup {newest}
  <2> SUFFICES ASSUME NEW d \in plan, newest \in plan  PROVE d \in preserved \/ d = newest
    BY <1>1, EarliestIs DEF Candidate
  <2>1. CASE plan \subseteq preserved  BY <2>1
  <2>2. CASE ~(plan \subseteq preserved)
    <3>1. newest \in plan \ preserved /\ \A e \in plan \ preserved : newest <= e
      BY <1>1, <2>2, EarliestIs DEF Candidate
    <3>2. d <= newest /\ d \in Nat /\ newest \in Nat
      BY <1>1, LogStorageAssumption DEF KeepInv, TypeOK
    <3> QED  BY <3>1, <3>2
  <2> QED  BY <2>1, <2>2
<1>3. PICK D \in SUBSET Segments : Tried(D)  BY DEF KeepInv
<1>4. dirs \subseteq (D \cup preserved) \cup {newest}  BY <1>2, <1>3 DEF Tried
<1>5. /\ IsFiniteSet(D) /\ IsFiniteSet(preserved)
      /\ Cardinality(D) \in Nat /\ Cardinality(preserved) \in Nat /\ Cardinality(dirs) \in Nat
  BY <1>1, SegmentsFinite
<1> DEFINE U == D \cup preserved
<1>6. IsFiniteSet(U) /\ Cardinality(U) <= Cardinality(D) + Cardinality(preserved)
  BY <1>5, UnionIsFewer
<1>7. Cardinality(U) \in Nat  BY <1>6, FS_CardinalityType
<1>8. IsFiniteSet(U \cup {newest}) /\ Cardinality(U \cup {newest}) <= Cardinality(U) + 1
  BY <1>6, <1>7, FS_AddElement
<1>9. Cardinality(dirs) <= Cardinality(U \cup {newest})  BY <1>4, <1>8, FS_Subset
<1>10. Cardinality(U \cup {newest}) \in Nat  BY <1>8, FS_CardinalityType
<1>11. Cardinality(D) <= MaxFaults
  <2>1. Cardinality(D) <= faults /\ faults \in 0..MaxFaults  BY <1>3 DEF Tried, TypeOK
  <2> QED  BY <1>5, <2>1, LogStorageAssumption
<1>12. Cardinality(dirs) > Capacity /\ Cardinality(preserved) <= 3 * PreserveCount
  BY <1>2 DEF KeepInv
<1>13. Capacity \in Nat /\ MaxFaults \in Nat /\ PreserveCount \in Nat
       /\ Capacity > 3 * PreserveCount + MaxFaults
  BY LogStorageAssumption DEF Roomy
<1> HIDE DEF U
<1> QED  BY <1>5, <1>6, <1>7, <1>8, <1>9, <1>10, <1>11, <1>12, <1>13

(* Steps that begin no round and make no segment.                          *)
LEMMA KeepStep ==
  ASSUME KeepInv, RecordingKept', plan' \subseteq plan, newest' = newest,
         newest \in plan' => dirs' = dirs, preserved' \in {preserved, {}},
         removing' => plan' # {}, NEW D \in SUBSET Segments, Tried(D)'
  PROVE  KeepInv'
<1>1. Cardinality(preserved') <= 3 * PreserveCount
  <2>1. CASE preserved' = preserved  BY <2>1 DEF KeepInv
  <2>2. CASE preserved' = {}
    <3>1. Cardinality(preserved') = 0  BY <2>2, FS_EmptySet
    <3>2. PreserveCount \in Nat  BY LogStorageAssumption
    <3> QED  BY <3>1, <3>2
  <2> QED  BY <2>1, <2>2
<1>2. \E E \in SUBSET Segments : Tried(E)'  OBVIOUS
<1>3. plan' \subseteq 1..newest' /\ (newest' \in plan' => Cardinality(dirs') > Capacity)
  BY DEF KeepInv
<1>4. Segments' = Segments  BY DEF Segments
<1> QED  BY <1>1, <1>2, <1>3, <1>4 DEF KeepInv

(* Those that change nothing Tried speaks of but the set of locks.         *)
LEMMA UntouchedStep ==
  ASSUME KeepInv, UNCHANGED <<newest, dirs, stuck, faults, plan, preserved, removing>>,
         \/ locks' \subseteq locks /\ UNCHANGED logger
         \/ locks' \subseteq locks \ {newest} /\ logger' = "off"
         \/ locks' \subseteq locks \cup {newest} /\ logger' = "logging" /\ newest \in dirs
         \/ UNCHANGED locks /\ logger = "made" /\ logger' = "off"
  PROVE  KeepInv'
<1>1. PICK D \in SUBSET Segments : Tried(D)  BY DEF KeepInv
<1>2. Tried(D)'  BY <1>1 DEF Tried
<1>3. RecordingKept'  BY DEF KeepInv, RecordingKept
<1>4. removing' => plan' # {}  BY DEF KeepInv
<1> QED  BY <1>1, <1>2, <1>3, <1>4, KeepStep

(* loggerd makes a segment: it is not in the round under way.              *)
LEMMA KeepMake ==
  ASSUME TypeOK, KeepInv, Make, UNCHANGED <<stuck, faults, deleter>>,
         \/ logger = "off" /\ locks' = locks
         \/ logger = "logging" /\ locks' = locks \ {newest}
  PROVE  KeepInv'
<1>1. newest \in Nat /\ newest' = newest + 1 /\ dirs' = dirs \cup {newest + 1} /\ logger' = "made"
  BY LogStorageAssumption DEF TypeOK, Make
<1>2. PICK D \in SUBSET Segments : Tried(D)  BY DEF KeepInv
<1>3. plan' = plan /\ preserved' = preserved /\ removing' = removing  BY DEF deleter
<1>4. plan \subseteq 1..newest  BY DEF KeepInv
<1>5. newest' \notin plan' /\ plan' \subseteq 1..newest'  BY <1>1, <1>3, <1>4
<1>6. Tried(D)'
  <2>1. \A d \in locks' : d \in D  BY <1>2 DEF Tried
  <2> QED  BY <1>2, <1>5, <2>1 DEF Tried
<1>7. RecordingKept'  BY <1>1 DEF RecordingKept
<1>8. \E E \in SUBSET Segments : Tried(E)'  BY <1>6
<1>9. Segments' = Segments  BY DEF Segments
<1> QED  BY <1>3, <1>5, <1>7, <1>8, <1>9 DEF KeepInv

(* A fault happens to segment d.                                           *)
LEMMA KeepFault ==
  ASSUME TypeOK, KeepInv, NEW d \in Segments, faults' = faults + 1,
         UNCHANGED <<newest, dirs, locks, deleter>>,
         \/ stuck' = stuck \cup {d} /\ UNCHANGED logger
         \/ stuck' = stuck /\ d = newest /\ logger' = "off"
  PROVE  KeepInv'
<1>1. PICK D \in SUBSET Segments : Tried(D)  BY DEF KeepInv
<1>2. IsFiniteSet(D) /\ Cardinality(D) \in Nat  BY SegmentsFinite
<1>3. Cardinality(D \cup {d}) <= Cardinality(D) + 1  BY <1>2, FS_AddElement
<1>4. IsFiniteSet(D \cup {d}) /\ Cardinality(D \cup {d}) \in Nat
  BY <1>2, FS_AddElement, FS_CardinalityType
<1>5. faults \in Nat /\ Cardinality(D) <= faults
  BY <1>1, LogStorageAssumption DEF TypeOK, Tried
<1>6. Cardinality(D \cup {d}) <= faults'  BY <1>2, <1>3, <1>4, <1>5
<1>7. plan' = plan /\ preserved' = preserved /\ removing' = removing  BY DEF deleter
<1>8. Tried(D \cup {d})'  BY <1>1, <1>6, <1>7 DEF Tried
<1>9. RecordingKept' /\ (removing' => plan' # {})  BY <1>7 DEF KeepInv, RecordingKept
<1> QED  BY <1>7, <1>8, <1>9, KeepStep

(* The deleter begins a round.                                             *)
LEMMA KeepList ==
  ASSUME IInv, TypeOK, KeepInv, List
  PROVE  KeepInv'
<1>1. /\ plan' = dirs /\ preserved' = Preserved /\ removing' = FALSE
      /\ Cardinality(dirs) > Capacity
      /\ UNCHANGED <<newest, dirs, locks, stuck, faults, logger>>
  BY DEF List, disk, loggerd
<1>2. PICK D \in SUBSET Segments : Tried(D)  BY DEF KeepInv
<1>3. Tried(D)'  BY <1>1, <1>2 DEF Tried
<1>4. Cardinality(Preserved) <= 3 * PreserveCount
  <2>1. Marks \in SUBSET Segments  BY DEF Marks, TypeOK
  <2>2. LatestOf(Marks) \in SUBSET Segments  BY <2>1 DEF LatestOf
  <2>3. WithPrior(LatestOf(Marks)) \in SUBSET Segments  BY DEF WithPrior
  <2>4. Cardinality(LatestOf(Marks)) <= PreserveCount  BY <2>1, LatestAreFew
  <2>5. Cardinality(WithPrior(LatestOf(Marks))) <= 3 * Cardinality(LatestOf(Marks))
    BY <2>2, PriorAreFew
  <2>6. Cardinality(LatestOf(Marks)) \in Nat /\ Cardinality(WithPrior(LatestOf(Marks))) \in Nat
    BY <2>2, <2>3, SegmentsFinite
  <2>7. PreserveCount \in Nat  BY LogStorageAssumption
  <2> QED  BY <2>4, <2>5, <2>6, <2>7 DEF Preserved
<1>5. dirs \subseteq 1..newest  BY DEF IInv, Typed
<1>6. RecordingKept'  BY <1>1 DEF KeepInv, RecordingKept
<1>7. \E E \in SUBSET Segments : Tried(E)'  BY <1>3
<1>8. Segments' = Segments  BY DEF Segments
<1> QED  BY <1>1, <1>4, <1>5, <1>6, <1>7, <1>8 DEF KeepInv

(* It passes over a segment that is locked or cannot be removed.           *)
LEMMA KeepPass ==
  ASSUME TypeOK, KeepInv, plan # {}, Candidate \in locks \/ Candidate \in stuck,
         plan' = plan \ {Candidate}, ~removing',
         UNCHANGED <<disk, loggerd, preserved>>
  PROVE  KeepInv'
<1>1. PICK D \in SUBSET Segments : Tried(D)  BY DEF KeepInv
<1>2. UNCHANGED <<newest, dirs, locks, stuck, faults, logger>>  BY DEF disk, loggerd
<1>3. newest \in plan' => Candidate \in D  BY <1>1 DEF Tried
<1>4. Tried(D)'  BY <1>1, <1>2, <1>3 DEF Tried
<1>5. RecordingKept'  BY <1>2 DEF KeepInv, RecordingKept
<1> QED  BY <1>1, <1>2, <1>4, <1>5, KeepStep

LEMMA KeepRemove ==
  ASSUME Roomy, TypeOK, KeepInv, Remove
  PROVE  KeepInv'
<1>1. /\ dirs' = dirs \ {Candidate} /\ locks' = locks \ {Candidate} /\ removing
      /\ plan' = {} /\ preserved' = {} /\ removing' = FALSE
      /\ UNCHANGED <<newest, stuck, faults, logger>>
  BY DEF Remove
<1>2. PICK D \in SUBSET Segments : Tried(D)  BY DEF KeepInv
<1>3. Tried(D)'  BY <1>1, <1>2 DEF Tried
<1>4. Candidate # newest  BY <1>1, NeverTheNewest DEF KeepInv
<1>5. RecordingKept'  BY <1>1, <1>4 DEF KeepInv, RecordingKept
<1> QED  BY <1>1, <1>2, <1>3, <1>5, KeepStep

LEMMA KeepNext ==
  ASSUME Roomy, IInv, TypeOK, KeepInv, [Next]_vars
  PROVE  KeepInv'
<1>1. CASE StartRoute  BY <1>1, KeepMake DEF StartRoute
<1>2. CASE Rotate  BY <1>2, KeepMake DEF Rotate
<1>3. CASE Enter
  <2>1. CASE newest \in dirs  BY <1>3, <2>1, UntouchedStep DEF Enter, deleter
  <2>2. CASE newest \notin dirs  BY <1>3, <2>2, UntouchedStep DEF Enter, Gone, deleter
  <2> QED  BY <2>1, <2>2
<1>4. CASE Mark  BY <1>4, UntouchedStep DEF Mark, deleter
<1>5. CASE Stop  BY <1>5, UntouchedStep DEF Stop, Gone, deleter
<1>6. CASE Die
  <2>1. newest \in Segments
    BY <1>6 DEF Die, KeepInv, RecordingKept, TypeOK
  <2> QED  BY <1>6, <2>1, KeepFault DEF Die, Gone, disk
<1>7. CASE StartUploader  BY <1>7, UntouchedStep DEF StartUploader, loggerd, deleter
<1>8. CASE StopUploader  BY <1>8, UntouchedStep DEF StopUploader, disk, loggerd, deleter
<1>9. CASE Select  BY <1>9, UntouchedStep DEF Select, disk, loggerd, deleter
<1>10. CASE Upload  BY <1>10, UntouchedStep DEF Upload, loggerd, deleter
<1>11. CASE UploadFails  BY <1>11, UntouchedStep DEF UploadFails, disk, loggerd, deleter
<1>12. CASE List  BY <1>12, KeepList
<1>13. CASE Skip  BY <1>13, KeepPass DEF Skip
<1>14. CASE Unlocked
  <2>1. PICK D \in SUBSET Segments : Tried(D)  BY DEF KeepInv
  <2>2. UNCHANGED <<newest, dirs, locks, stuck, faults, logger, plan, preserved>> /\ plan # {}
    BY <1>14 DEF Unlocked, disk, loggerd
  <2>3. Tried(D)' /\ RecordingKept'  BY <2>1, <2>2 DEF Tried, KeepInv, RecordingKept
  <2> QED  BY <2>1, <2>2, <2>3, KeepStep
<1>15. CASE Remove  BY <1>15, KeepRemove
<1>16. CASE TryNext  BY <1>16, KeepPass DEF TryNext, KeepInv
<1>17. CASE \E d \in Segments : Break(d)  BY <1>17, KeepFault DEF Break
<1>18. CASE UNCHANGED vars  BY <1>18, UntouchedStep DEF vars, disk, loggerd, deleter
<1> QED
  BY <1>1, <1>2, <1>3, <1>4, <1>5, <1>6, <1>7, <1>8, <1>9, <1>10, <1>11, <1>12, <1>13,
     <1>14, <1>15, <1>16, <1>17, <1>18 DEF Next

(* The segment loggerd writes to is never deleted, although its lock does  *)
(* not protect it (clear_locks of the uploader; deleter_step looks and     *)
(* removes later), if the device holds more segments than can be preserved *)
(* and passed over, for any number of segments, bookmarks and faults.  With*)
(* room for one less it can be deleted.                                    *)
THEOREM RecordingIsKept == Roomy => (Spec => []RecordingKept)
<1> SUFFICES ASSUME Roomy  PROVE Spec => []RecordingKept
  OBVIOUS
<1>1. Init => KeepInv
  <2> SUFFICES ASSUME Init  PROVE KeepInv
    OBVIOUS
  <2>1. /\ locks \in SUBSET Segments /\ faults = Cardinality(locks) /\ stuck = {}
        /\ plan = {} /\ preserved = {} /\ removing = FALSE /\ logger = "off"
    <3>1. locks \in SUBSET Segments  BY TypeInit DEF TypeOK
    <3> QED  BY <3>1 DEF Init
  <2>2. Cardinality(locks) \in Nat  BY <2>1, SegmentsFinite
  <2>3. Tried(locks)  BY <2>1, <2>2 DEF Tried
  <2>4. Cardinality(preserved) <= 3 * PreserveCount  BY <2>1, FS_EmptySet, LogStorageAssumption
  <2> QED  BY <2>1, <2>3, <2>4 DEF KeepInv, RecordingKept
<1>2. Init => IInv /\ TypeOK /\ KeepInv  BY <1>1, IInvInit, TypeInit
<1>3. IInv /\ TypeOK /\ KeepInv /\ [Next]_vars => (IInv /\ TypeOK /\ KeepInv)'
  BY IInvNext, TypeStep, KeepNext
<1>4. KeepInv => RecordingKept  BY DEF KeepInv
<1> QED  BY <1>2, <1>3, <1>4, PTL DEF Spec

=============================================================================
