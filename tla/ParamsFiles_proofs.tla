------------------------- MODULE ParamsFiles_proofs -------------------------
(***************************************************************************)
(* Theorems about ParamsFiles, for every set of processes and keys and     *)
(* every bound.                                                            *)
(***************************************************************************)
EXTENDS ParamsFiles, TLAPS

(* The steps at which a thread holds the lock. *)
Critical == {"rename", "unlink", "clearing", "reading", "sync"}

LockInv == \A t \in Threads : pc[t] \in Critical => lock = t

(* What is about to be renamed is complete; a remove knows its key.        *)
JobInv == \A t \in Threads :
  /\ pc[t] \in {"put", "rename"} => job[t] \in Job /\ job[t].file \in Complete
  /\ pc[t] \in {"remove", "unlink"} => job[t] \in Job

TodoInv == \A p \in Procs : pc[Main(p)] = "read" => todo[Main(p)] = Keys

IInv == /\ TypeOK /\ LockInv /\ JobInv /\ TodoInv
        /\ AcknowledgedIsDurable /\ SnapshotIsConsistent

-----------------------------------------------------------------------------
LEMMA ThreadsFacts ==
  /\ \A p \in Procs : Main(p) \in Threads /\ Writer(p) \in Threads
  /\ \A p, q \in Procs : Main(p) # Writer(q) /\ (Main(p) = Main(q) => p = q)
  /\ None \notin Threads
BY ParamsAssumption DEF Threads, Main, Writer

LEMMA FilesFacts ==
  /\ None \notin Complete /\ Complete \subseteq File
  /\ \A f \in Complete \cup {None} : AfterLoss(f) = f
<1>1. Complete \subseteq File  BY DEF Complete, File
<1>2. None \notin File  BY ParamsAssumption
<1>3. \A f \in Complete \cup {None} : AfterLoss(f) = f  BY DEF AfterLoss, Complete
<1> QED  BY <1>1, <1>2, <1>3

LEMMA StartFacts ==
  ASSUME TypeOK, NEW p \in Procs, Start(p)
  PROVE  /\ ops' \in 0..MaxOps /\ pc[Main(p)] = "idle"
         /\ \A q \in BOOLEAN : Written(p, q) \in Value
<1>1. ops \in Nat /\ ops < MaxOps /\ ops' = ops + 1  BY ParamsAssumption DEF TypeOK, Start
<1>2. ops + 1 \in 1..MaxOps  BY <1>1, ParamsAssumption
<1> QED  BY <1>1, <1>2, ParamsAssumption DEF Start, Written, Value

(* The temporary file of a put is complete or was unlinked. *)
LEMMA WriteTmpFacts ==
  ASSUME NEW t \in Threads, NEW k \in Keys, NEW v \in Value, TypeOK, WriteTmp(t, k, v)
  PROVE  /\ \/ job' = [job EXCEPT ![t] = None] /\ pc' = [pc EXCEPT ![t] = Return(t)]
            \/ \E f \in Complete : /\ job' = [job EXCEPT ![t] = [key |-> k, file |-> f]]
                                   /\ pc' = [pc EXCEPT ![t] = "put"]
         /\ UNCHANGED <<todo, snapshot>>
<1>1. [content |-> v, synced |-> TRUE] \in Complete  BY DEF Complete
<1>2. None \notin Complete  BY FilesFacts
<1> QED  BY <1>1, <1>2 DEF WriteTmp, TmpFiles

LEMMA WriteTmpTypes ==
  ASSUME NEW t \in Threads, NEW k \in Keys, NEW v \in Value, TypeOK, WriteTmp(t, k, v)
  PROVE  /\ pc' \in [Threads -> Steps] /\ job' \in [Threads -> Job \cup {None}]
         /\ UNCHANGED <<todo, snapshot>>
<1>1. \A f \in Complete : [key |-> k, file |-> f] \in Job  BY FilesFacts DEF Job
<1>2. Return(t) \in Steps /\ "put" \in Steps  BY DEF Return, Steps
<1>3. UNCHANGED <<todo, snapshot>>  BY DEF WriteTmp
<1>4. \A s \in Steps : [pc EXCEPT ![t] = s] \in [Threads -> Steps]  BY DEF TypeOK
<1>5. \A j \in Job \cup {None} : [job EXCEPT ![t] = j] \in [Threads -> Job \cup {None}]
  BY DEF TypeOK
<1>6. CASE job' = [job EXCEPT ![t] = None] /\ pc' = [pc EXCEPT ![t] = Return(t)]
  BY <1>2, <1>3, <1>4, <1>5, <1>6
<1>7. ASSUME NEW f \in Complete, job' = [job EXCEPT ![t] = [key |-> k, file |-> f]],
             pc' = [pc EXCEPT ![t] = "put"]
      PROVE  pc' \in [Threads -> Steps] /\ job' \in [Threads -> Job \cup {None}]
  BY <1>1, <1>2, <1>4, <1>5, <1>7
<1> QED  BY <1>3, <1>6, <1>7, WriteTmpFacts

LEMMA TypeInit == Init => TypeOK
BY ParamsAssumption DEF Init, TypeOK, Threads, Steps

(* Every step preserves the types; a rename needs its file to be complete. *)
LEMMA Typing ==
  ASSUME TypeOK, JobInv, [Next]_vars
  PROVE  TypeOK'
<1> USE ThreadsFacts, FilesFacts DEF TypeOK
<1>1. ASSUME NEW p \in Procs, Put(p)  PROVE TypeOK'
  <2>1. PICK k \in Keys : WriteTmp(Main(p), k, Written(p, FALSE))  BY <1>1 DEF Put
  <2>2. Written(p, FALSE) \in Value /\ ops' \in 0..MaxOps  BY <1>1, StartFacts DEF Put
  <2>3. /\ pc' \in [Threads -> Steps] /\ job' \in [Threads -> Job \cup {None}]
        /\ UNCHANGED <<todo, snapshot>>
    BY <2>1, <2>2, WriteTmpTypes
  <2> QED  BY <1>1, <2>2, <2>3 DEF Put, Start, handleVars, storeVars
<1>2. ASSUME NEW p \in Procs, Push(p)  PROVE TypeOK'
  <2>1. Written(p, TRUE) \in Value /\ ops' \in 0..MaxOps  BY <1>2, StartFacts DEF Push
  <2>2. queue' \in [Procs -> Seq(Entry)]
    <3>1. PICK k \in Keys :
            queue' = [queue EXCEPT ![p] = Append(@, [key |-> k, val |-> Written(p, TRUE)])]
      BY <1>2 DEF Push
    <3>2. [key |-> k, val |-> Written(p, TRUE)] \in Entry  BY <2>1 DEF Entry
    <3> QED  BY <3>1, <3>2
  <2> QED  BY <1>2, <2>1, <2>2 DEF Push, Start, storeVars, Steps
<1>3. ASSUME NEW p \in Procs, Remove(p)  PROVE TypeOK'
  BY <1>3, StartFacts DEF Remove, Start, handleVars, storeVars, Steps, Job
<1>4. ASSUME NEW p \in Procs, ClearAll(p) \/ ReadAll(p)  PROVE TypeOK'
  <2>1. Start(p)  BY <1>4 DEF ClearAll, ReadAll
  <2>2. \E K \in SUBSET Keys : todo' = [todo EXCEPT ![Main(p)] = K]
    BY <1>4, ParamsAssumption DEF ClearAll, ReadAll
  <2>3. \E s \in Steps : pc' = [pc EXCEPT ![Main(p)] = s]
    BY <1>4 DEF ClearAll, ReadAll, Steps
  <2> QED  BY <1>4, <2>1, <2>2, <2>3, StartFacts
           DEF ClearAll, ReadAll, Start, handleVars, storeVars
<1>5. ASSUME NEW p \in Procs, Destroy(p) \/ CheckFuture(p) \/ PopNothing(p) \/ Exit(p)
      PROVE TypeOK'
  <2>1. UNCHANGED <<live, disk, lock, job, todo, snapshot, queue, ops, faults, settled>>
    BY <1>5 DEF Destroy, CheckFuture, PopNothing, Exit, handleVars, storeVars
  <2>2. {"gone", "idle", "pop", "exit", "off"} \subseteq Steps  BY DEF Steps
  <2>3. pc' \in [Threads -> Steps]
    <3>1. CASE CheckFuture(p)  BY <2>2, <3>1 DEF CheckFuture
    <3>2. CASE \E t \in Threads, s \in Steps : pc' = [pc EXCEPT ![t] = s]  BY <3>2
    <3> QED  BY <1>5, <2>2, <3>1, <3>2 DEF Destroy, PopNothing, Exit
  <2>4. future' \in [Procs -> {"invalid", "running", "ready"}]
    BY <1>5 DEF Destroy, CheckFuture, PopNothing, Exit, handleVars
  <2> QED  BY <2>1, <2>3, <2>4
<1>6. ASSUME NEW p \in Procs, Pop(p)  PROVE TypeOK'
  <2>1. Head(queue[p]) \in Entry /\ Tail(queue[p]) \in Seq(Entry)  BY <1>6 DEF Pop
  <2>2. WriteTmp(Writer(p), Head(queue[p]).key, Head(queue[p]).val)  BY <1>6 DEF Pop
  <2>3. Head(queue[p]).key \in Keys /\ Head(queue[p]).val \in Value  BY <2>1 DEF Entry
  <2>4. /\ pc' \in [Threads -> Steps] /\ job' \in [Threads -> Job \cup {None}]
        /\ UNCHANGED <<todo, snapshot>>
    BY <2>2, <2>3, WriteTmpTypes
  <2> QED  BY <1>6, <2>1, <2>4 DEF Pop, storeVars
<1>7. ASSUME NEW t \in Threads, Acquire(t)  PROVE TypeOK'
  BY <1>7 DEF Acquire, Locked, handleVars, storeVars, Steps
<1>8. ASSUME NEW t \in Threads, Rename(t)  PROVE TypeOK'
  BY <1>8 DEF Rename, JobInv, Install, Finish, Return, handleVars, storeVars, Steps, Job
<1>9. ASSUME NEW t \in Threads, Unlink(t)  PROVE TypeOK'
  BY <1>9 DEF Unlink, JobInv, Install, Finish, Return, handleVars, storeVars, Steps, Job
<1>10. ASSUME NEW t \in Threads, Clear(t)  PROVE TypeOK'
  <2>1. CASE todo[t] = {}
    BY <1>10, <2>1 DEF Clear, handleVars, storeVars, Steps
  <2>2. CASE todo[t] # {}
    <3>1. PICK k \in todo[t] : /\ Install(t, k, None) \/ UNCHANGED storeVars
                               /\ todo' = [todo EXCEPT ![t] = @ \ {k}]
      BY <1>10, <2>2 DEF Clear
    <3>2. /\ live' \in [Keys -> Complete \cup {None}]
          /\ todo' \in [Threads -> SUBSET Keys] /\ settled' \subseteq Keys
      BY <3>1 DEF Install, storeVars
    <3> QED  BY <1>10, <2>2, <3>1, <3>2 DEF Clear, Install, handleVars, storeVars
  <2> QED  BY <2>1, <2>2
<1>11. ASSUME NEW t \in Threads, Sync(t)  PROVE TypeOK'
  BY <1>11 DEF Sync, Finish, Return, handleVars, storeVars, Steps, Job
<1>12. ASSUME NEW p \in Procs, Read(p)  PROVE TypeOK'
  <2>1. CASE todo[Main(p)] = {}
    <3>1. Finish(Main(p)) /\ snapshot' = [snapshot EXCEPT ![p] = [k \in Keys |-> None]]
      BY <1>12, <2>1 DEF Read
    <3>2. snapshot' \in [Procs -> [Keys -> File \cup {None}]]  BY <3>1
    <3> QED  BY <1>12, <2>1, <3>1, <3>2 DEF Read, Finish, Return, handleVars, storeVars, Steps
  <2>2. CASE todo[Main(p)] # {}
    <3>1. PICK k \in todo[Main(p)] : /\ snapshot' = [snapshot EXCEPT ![p][k] = live[k]]
                                     /\ todo' = [todo EXCEPT ![Main(p)] = @ \ {k}]
      BY <1>12, <2>2 DEF Read
    <3>2. k \in Keys /\ live[k] \in File \cup {None}  OBVIOUS
    <3>3. /\ snapshot' \in [Procs -> [Keys -> File \cup {None}]]
          /\ todo' \in [Threads -> SUBSET Keys]
      BY <3>1, <3>2
    <3> QED  BY <1>12, <2>2, <3>3 DEF Read, handleVars, storeVars
  <2> QED  BY <2>1, <2>2
<1>13. ASSUME NEW k \in Keys, WriteBack(k)  PROVE TypeOK'
  BY <1>13 DEF WriteBack, threadVars, handleVars
<1>14. ASSUME NEW P \in SUBSET Procs, Restart(P)
       PROVE  /\ lock' \in Threads \cup {None} /\ pc' \in [Threads -> Steps]
              /\ job' \in [Threads -> Job \cup {None}] /\ todo' \in [Threads -> SUBSET Keys]
              /\ snapshot' \in [Procs -> [Keys -> File \cup {None}]]
              /\ queue' \in [Procs -> Seq(Entry)]
              /\ future' \in [Procs -> {"invalid", "running", "ready"}]
              /\ ops' \in 0..MaxOps /\ faults' \in 0..MaxFaults
  BY <1>14, ParamsAssumption DEF Restart, Steps
<1>15. ASSUME NEW p \in Procs, Kill(p)  PROVE TypeOK'
  BY <1>15, <1>14 DEF Kill, storeVars
<1>16. ASSUME PowerLoss  PROVE TypeOK'
  BY <1>16, <1>14 DEF PowerLoss
<1>17. CASE UNCHANGED vars
  BY <1>17 DEF vars, storeVars, threadVars, handleVars
<1> QED
  BY <1>1, <1>2, <1>3, <1>4, <1>5, <1>6, <1>7, <1>8, <1>9, <1>10, <1>11, <1>12, <1>13,
     <1>15, <1>16, <1>17
  DEF Next, Operation, AsyncWriteThread, Locking, Machine

-----------------------------------------------------------------------------
(* Only Acquire takes a thread to a step under the lock, and a thread that *)
(* leaves those steps releases it.                                         *)
LEMMA LockStep ==
  ASSUME TypeOK, LockInv, [Next]_vars
  PROVE  LockInv'
<1> USE ThreadsFacts DEF TypeOK, LockInv, Critical
<1>1. ASSUME NEW p \in Procs, Put(p)  PROVE LockInv'
  <2>1. PICK k \in Keys : WriteTmp(Main(p), k, Written(p, FALSE))  BY <1>1 DEF Put
  <2>2. \E s \in {"idle", "put"} : pc' = [pc EXCEPT ![Main(p)] = s]
    BY <2>1 DEF WriteTmp, Return, Main
  <2> QED  BY <1>1, <2>2 DEF Put, Start
<1>2. ASSUME NEW p \in Procs, Push(p) \/ Remove(p) \/ ClearAll(p) \/ ReadAll(p)  PROVE LockInv'
  <2>1. \E s \in Steps \ Critical : pc' = [pc EXCEPT ![Main(p)] = s]
    BY <1>2 DEF Push, Remove, ClearAll, ReadAll, Steps
  <2> QED  BY <1>2, <2>1 DEF Push, Remove, ClearAll, ReadAll, Start
<1>3. ASSUME NEW p \in Procs, Destroy(p) \/ CheckFuture(p) \/ PopNothing(p) \/ Exit(p)
      PROVE LockInv'
  BY <1>3 DEF Destroy, CheckFuture, PopNothing, Exit
<1>4. ASSUME NEW p \in Procs, Pop(p)  PROVE LockInv'
  <2>1. \E s \in {"pop", "put"} : pc' = [pc EXCEPT ![Writer(p)] = s]
    BY <1>4 DEF Pop, WriteTmp, Return, Writer
  <2> QED  BY <1>4, <2>1 DEF Pop
<1>5. ASSUME NEW t \in Threads, Acquire(t)  PROVE LockInv'
  BY <1>5 DEF Acquire
<1>6. ASSUME NEW t \in Threads, Locking(t)  PROVE LockInv'
  BY <1>6 DEF Locking, Rename, Unlink, Clear, Sync, Finish, Return
<1>7. ASSUME NEW p \in Procs, Read(p)  PROVE LockInv'
  BY <1>7 DEF Read, Finish, Return
<1>8. ASSUME NEW P \in SUBSET Procs, Restart(P)  PROVE LockInv'
  <2> SUFFICES ASSUME NEW t \in Threads, pc'[t] \in Critical  PROVE lock' = t
    OBVIOUS
  <2>1. t[1] \notin P /\ pc'[t] = pc[t]  BY <1>8 DEF Restart
  <2> QED  BY <1>8, <2>1 DEF Restart
<1>9. CASE UNCHANGED vars \/ \E k \in Keys : WriteBack(k)
  BY <1>9 DEF vars, threadVars, WriteBack
<1> QED
  BY <1>1, <1>2, <1>3, <1>4, <1>5, <1>6, <1>7, <1>8, <1>9
  DEF Next, Operation, AsyncWriteThread, Machine, Kill, PowerLoss

(* The temporary file reaches the rename as put left it. *)
LEMMA JobStep ==
  ASSUME TypeOK, JobInv, [Next]_vars
  PROVE  JobInv'
<1> USE ThreadsFacts DEF TypeOK, JobInv
<1>1. ASSUME NEW t \in Threads, NEW k \in Keys, NEW v \in Value, WriteTmp(t, k, v)
      PROVE  JobInv'
  <2>1. \A f \in Complete : LET j == [key |-> k, file |-> f] IN j \in Job /\ j.file \in Complete
    BY FilesFacts DEF Job
  <2>2. Return(t) \notin {"put", "rename", "remove", "unlink"}  BY DEF Return
  <2>3. CASE job' = [job EXCEPT ![t] = None] /\ pc' = [pc EXCEPT ![t] = Return(t)]
    BY <2>2, <2>3
  <2>4. ASSUME NEW f \in Complete, job' = [job EXCEPT ![t] = [key |-> k, file |-> f]],
               pc' = [pc EXCEPT ![t] = "put"]
        PROVE JobInv'
    BY <2>1, <2>4
  <2> QED  BY <1>1, <2>3, <2>4, WriteTmpFacts
<1>2. ASSUME NEW p \in Procs, Put(p)  PROVE JobInv'
  BY <1>1, <1>2, StartFacts DEF Put
<1>3. ASSUME NEW p \in Procs, Pop(p)  PROVE JobInv'
  <2>1. Head(queue[p]) \in Entry  BY <1>3 DEF Pop
  <2>2. Head(queue[p]).key \in Keys /\ Head(queue[p]).val \in Value  BY <2>1 DEF Entry
  <2> QED  BY <1>1, <1>3, <2>2 DEF Pop
<1>4. ASSUME NEW p \in Procs, Remove(p)  PROVE JobInv'
  BY <1>4 DEF Remove, Job
<1>5. ASSUME NEW p \in Procs, Push(p) \/ ClearAll(p) \/ ReadAll(p) \/ Destroy(p)
                               \/ CheckFuture(p) \/ PopNothing(p) \/ Exit(p)
      PROVE JobInv'
  BY <1>5 DEF Push, ClearAll, ReadAll, Destroy, CheckFuture, PopNothing, Exit
<1>6. ASSUME NEW t \in Threads, Acquire(t)  PROVE JobInv'
  BY <1>6 DEF Acquire, Locked
<1>7. ASSUME NEW t \in Threads, Locking(t)  PROVE JobInv'
  BY <1>7 DEF Locking, Rename, Unlink, Clear, Sync, Finish, Return
<1>8. ASSUME NEW p \in Procs, Read(p)  PROVE JobInv'
  BY <1>8 DEF Read, Finish, Return
<1>9. ASSUME NEW P \in SUBSET Procs, Restart(P)  PROVE JobInv'
  BY <1>9 DEF Restart
<1>10. CASE UNCHANGED vars \/ \E k \in Keys : WriteBack(k)
  BY <1>10 DEF vars, threadVars, WriteBack
<1> QED
  BY <1>2, <1>3, <1>4, <1>5, <1>6, <1>7, <1>8, <1>9, <1>10
  DEF Next, Operation, AsyncWriteThread, Machine, Kill, PowerLoss

LEMMA TodoStep ==
  ASSUME TypeOK, TodoInv, [Next]_vars
  PROVE  TodoInv'
<1> USE ThreadsFacts DEF TypeOK, TodoInv
<1>1. ASSUME NEW t \in Threads, NEW k \in Keys, NEW v \in Value, WriteTmp(t, k, v)
      PROVE  TodoInv'
  <2>1. \E s \in {"idle", "pop", "put"} : pc' = [pc EXCEPT ![t] = s]
    BY <1>1 DEF WriteTmp, Return
  <2> QED  BY <1>1, <2>1 DEF WriteTmp
<1>2. ASSUME NEW p \in Procs, Put(p)  PROVE TodoInv'
  BY <1>1, <1>2, StartFacts DEF Put
<1>3. ASSUME NEW p \in Procs, Pop(p)  PROVE TodoInv'
  <2>1. Head(queue[p]) \in Entry  BY <1>3 DEF Pop
  <2>2. Head(queue[p]).key \in Keys /\ Head(queue[p]).val \in Value  BY <2>1 DEF Entry
  <2> QED  BY <1>1, <1>3, <2>2 DEF Pop
<1>4. ASSUME NEW p \in Procs, Push(p) \/ Remove(p) \/ ClearAll(p) \/ ReadAll(p) \/ Destroy(p)
                               \/ CheckFuture(p) \/ PopNothing(p) \/ Exit(p)
      PROVE TodoInv'
  BY <1>4 DEF Push, Remove, ClearAll, ReadAll, Destroy, CheckFuture, PopNothing, Exit
<1>5. ASSUME NEW t \in Threads, Acquire(t) \/ Rename(t) \/ Unlink(t) \/ Sync(t)  PROVE TodoInv'
  BY <1>5 DEF Acquire, Locked, Rename, Unlink, Sync, Finish, Return
<1>6. ASSUME NEW t \in Threads, Clear(t)  PROVE TodoInv'
  BY <1>6 DEF Clear
<1>7. ASSUME NEW p \in Procs, Read(p)  PROVE TodoInv'
  BY <1>7 DEF Read, Finish, Return
<1>8. ASSUME NEW P \in SUBSET Procs, Restart(P)  PROVE TodoInv'
  BY <1>8 DEF Restart
<1>9. CASE UNCHANGED vars \/ \E k \in Keys : WriteBack(k)
  BY <1>9 DEF vars, threadVars, WriteBack
<1> QED
  BY <1>2, <1>3, <1>4, <1>5, <1>6, <1>7, <1>8, <1>9
  DEF Next, Operation, Locking, AsyncWriteThread, Machine, Kill, PowerLoss

-----------------------------------------------------------------------------
(* What a step does to the files.  Every change of the directory happens   *)
(* under the lock, except that a power loss rolls it back to the disk.     *)
LEMMA StoreSteps ==
  ASSUME TypeOK, JobInv, LockInv, [Next]_vars
  PROVE  \/ UNCHANGED <<live, disk, settled>>
         \/ \E t \in Threads, k \in Keys, f \in Complete \cup {None} :
              lock = t /\ pc[t] \in Critical \ {"reading"} /\ Install(t, k, f)
                /\ UNCHANGED snapshot
         \/ disk' = live /\ UNCHANGED live
         \/ \E k \in Keys : WriteBack(k)
         \/ PowerLoss /\ live' = disk /\ disk' = disk /\ UNCHANGED settled
<1>1. ASSUME NEW t \in Threads, Rename(t) \/ Unlink(t)
      PROVE  \/ UNCHANGED storeVars
             \/ \E k \in Keys, f \in Complete \cup {None} :
                  pc[t] \in {"rename", "unlink"} /\ Install(t, k, f) /\ UNCHANGED snapshot
  BY <1>1 DEF Rename, Unlink, JobInv, Job
<1>2. ASSUME NEW t \in Threads, Clear(t)
      PROVE  \/ UNCHANGED storeVars
             \/ \E k \in Keys : pc[t] = "clearing" /\ Install(t, k, None) /\ UNCHANGED snapshot
  BY <1>2 DEF Clear, TypeOK
<1>3. ASSUME NEW t \in Threads, Sync(t)
      PROVE  UNCHANGED storeVars \/ (disk' = live /\ UNCHANGED live)
  BY <1>3 DEF Sync, storeVars
<1>4. ASSUME PowerLoss  PROVE live' = disk /\ disk' = disk /\ UNCHANGED settled
  <2>1. \A k \in Keys : AfterLoss(disk[k]) = disk[k]  BY FilesFacts DEF TypeOK
  <2> QED  BY <1>4, <2>1 DEF PowerLoss, TypeOK
<1>5. ASSUME NEW p \in Procs, Operation(p) \/ CheckFuture(p) \/ AsyncWriteThread(p) \/ Read(p)
                               \/ Kill(p)
      PROVE  UNCHANGED storeVars
  BY <1>5 DEF Operation, Put, Push, Remove, ClearAll, ReadAll, Destroy, CheckFuture,
     AsyncWriteThread, Pop, PopNothing, Exit, Read, Kill, Start
<1>6. ASSUME NEW t \in Threads, Acquire(t)  PROVE UNCHANGED storeVars
  BY <1>6 DEF Acquire
<1>7. CASE UNCHANGED vars
  BY <1>7 DEF vars, storeVars
<1> QED
  BY <1>1, <1>2, <1>3, <1>4, <1>5, <1>6, <1>7
  DEF Next, Locking, Machine, storeVars, LockInv, Critical

LEMMA DurableStep ==
  ASSUME TypeOK, TypeOK', JobInv, LockInv, AcknowledgedIsDurable, [Next]_vars
  PROVE  AcknowledgedIsDurable'
<1> SUFFICES ASSUME NEW k \in settled'  PROVE disk'[k] = live'[k] /\ AfterLoss(live'[k]) = live'[k]
  BY DEF AcknowledgedIsDurable
<1>1. k \in Keys /\ AfterLoss(live'[k]) = live'[k]  BY FilesFacts DEF TypeOK
<1>2. ASSUME NEW t \in Threads, NEW l \in Keys, NEW f \in Complete \cup {None}, Install(t, l, f)
      PROVE  disk'[k] = live'[k]
  BY <1>1, <1>2 DEF Install, AcknowledgedIsDurable, TypeOK
<1>3. ASSUME NEW l \in Keys, WriteBack(l)  PROVE disk'[k] = live'[k]
  BY <1>1, <1>3 DEF WriteBack, AcknowledgedIsDurable, TypeOK
<1> QED  BY <1>1, <1>2, <1>3, StoreSteps DEF AcknowledgedIsDurable

(* While a readAll runs it holds the lock, so nobody changes the files.    *)
LEMMA SnapshotStep ==
  ASSUME TypeOK, LockInv, TodoInv, SnapshotIsConsistent, [Next]_vars
  PROVE  SnapshotIsConsistent'
<1> USE ThreadsFacts DEF TypeOK
<1> SUFFICES ASSUME NEW p \in Procs, pc'[Main(p)] = "reading",
                    NEW k \in Keys, k \notin todo'[Main(p)]
             PROVE  snapshot'[p][k] = live'[k]
  BY DEF SnapshotIsConsistent
<1>1. ASSUME pc[Main(p)] = "reading", UNCHANGED <<live, snapshot>>,
             todo'[Main(p)] = todo[Main(p)]
      PROVE  snapshot'[p][k] = live'[k]
  BY <1>1 DEF SnapshotIsConsistent
<1>2. ASSUME NEW t \in Threads, Locking(t)  PROVE FALSE
  <2>1. pc'[Main(p)] = pc[Main(p)] \/ (t = Main(p) /\ pc'[t] # "reading")
    BY <1>2 DEF Locking, Rename, Unlink, Clear, Sync, Finish, Return
  <2>2. lock = t /\ pc[t] # "reading"
    BY <1>2 DEF Locking, Rename, Unlink, Clear, Sync, LockInv, Critical
  <2> QED  BY <2>1, <2>2 DEF LockInv, Critical
<1>3. ASSUME NEW t \in Threads, Acquire(t)  PROVE snapshot'[p][k] = live'[k]
  <2>1. pc[Main(p)] = "reading"
    BY <1>3 DEF Acquire, Locked, TodoInv
  <2> QED  BY <1>1, <1>3, <2>1 DEF Acquire, storeVars
<1>4. ASSUME NEW q \in Procs, Put(q) \/ Push(q) \/ Remove(q) \/ ClearAll(q) \/ ReadAll(q)
      PROVE  snapshot'[p][k] = live'[k]
  <2>1. pc[Main(q)] = "idle" /\ UNCHANGED <<live, snapshot>>
    BY <1>4 DEF Put, Push, Remove, ClearAll, ReadAll, Start, storeVars, WriteTmp
  <2>2. \E s \in Steps \ {"reading"} : pc' = [pc EXCEPT ![Main(q)] = s]
    BY <1>4 DEF Put, Push, Remove, ClearAll, ReadAll, WriteTmp, Return, Steps
  <2>3. pc[Main(p)] = "reading" /\ p # q  BY <2>1, <2>2
  <2>4. todo'[Main(p)] = todo[Main(p)]
    BY <1>4, <2>3 DEF Put, Push, Remove, ClearAll, ReadAll, WriteTmp
  <2> QED  BY <1>1, <2>1, <2>3, <2>4
<1>5. ASSUME NEW q \in Procs, Destroy(q) \/ CheckFuture(q) \/ PopNothing(q) \/ Exit(q)
      PROVE  snapshot'[p][k] = live'[k]
  BY <1>1, <1>5 DEF Destroy, CheckFuture, PopNothing, Exit, storeVars
<1>6. ASSUME NEW q \in Procs, Pop(q)  PROVE snapshot'[p][k] = live'[k]
  <2>1. pc'[Main(p)] = pc[Main(p)] /\ UNCHANGED <<live, snapshot, todo>>
    BY <1>6 DEF Pop, WriteTmp, storeVars
  <2> QED  BY <1>1, <2>1
<1>7. ASSUME NEW q \in Procs, Read(q)  PROVE snapshot'[p][k] = live'[k]
  <2>1. CASE p = q
    <3>1. todo[Main(p)] # {}  BY <1>7, <2>1 DEF Read, Finish, Return, Main
    <3>2. PICK l \in todo[Main(p)] : /\ snapshot' = [snapshot EXCEPT ![p][l] = live[l]]
                                     /\ todo' = [todo EXCEPT ![Main(p)] = @ \ {l}]
      BY <1>7, <2>1, <3>1 DEF Read
    <3>3. live' = live /\ pc[Main(p)] = "reading"  BY <1>7, <2>1 DEF Read, storeVars
    <3>4. CASE k = l  BY <3>2, <3>3, <3>4
    <3>5. CASE k # l  BY <3>2, <3>3, <3>5 DEF SnapshotIsConsistent
    <3> QED  BY <3>4, <3>5
  <2>2. CASE p # q
    BY <1>7, <2>2 DEF Read, Finish, SnapshotIsConsistent, storeVars
  <2> QED  BY <2>1, <2>2
<1>8. ASSUME NEW q \in Procs, Kill(q)  PROVE snapshot'[p][k] = live'[k]
  BY <1>8 DEF Kill, Restart, Main, SnapshotIsConsistent, storeVars
<1>9. ASSUME PowerLoss  PROVE FALSE
  BY <1>9 DEF PowerLoss, Restart, Main
<1>10. CASE UNCHANGED vars \/ \E l \in Keys : WriteBack(l)
  BY <1>1, <1>10 DEF vars, threadVars, storeVars, WriteBack
<1> QED
  BY <1>2, <1>3, <1>4, <1>5, <1>6, <1>7, <1>8, <1>9, <1>10
  DEF Next, Operation, AsyncWriteThread, Machine

-----------------------------------------------------------------------------
THEOREM Inductive == Spec => []IInv
<1>1. Init => IInv
  <2> SUFFICES ASSUME Init  PROVE IInv
    OBVIOUS
  <2>1. TypeOK  BY TypeInit
  <2>2. \A t \in Threads : pc[t] \in {"idle", "off"}  BY DEF Init
  <2>3. LockInv /\ JobInv /\ TodoInv /\ SnapshotIsConsistent
    BY <2>2, ThreadsFacts DEF LockInv, JobInv, TodoInv, SnapshotIsConsistent, Critical
  <2>4. AcknowledgedIsDurable  BY DEF Init, AcknowledgedIsDurable, AfterLoss
  <2> QED  BY <2>1, <2>3, <2>4 DEF IInv
<1>2. IInv /\ [Next]_vars => IInv'
  BY Typing, LockStep, JobStep, TodoStep, DurableStep, SnapshotStep DEF IInv
<1> QED  BY <1>1, <1>2, PTL DEF Spec

(* Every file in the directory, on the disk too, is a complete one at any  *)
(* time, whatever is killed and whenever the power fails.                  *)
THEOREM TypeCorrect == Spec => []TypeOK
<1>1. IInv => TypeOK  BY DEF IInv
<1> QED  BY <1>1, Inductive, PTL

(* A put or remove that returned 0 survives power losses and kills.        *)
THEOREM AcknowledgedWritesAreDurable == Spec => []AcknowledgedIsDurable
<1>1. IInv => AcknowledgedIsDurable  BY DEF IInv
<1> QED  BY <1>1, Inductive, PTL

(* readAll returns the store as it is at one moment.                       *)
THEOREM SnapshotsAreConsistent == Spec => []SnapshotIsConsistent
<1>1. IInv => SnapshotIsConsistent  BY DEF IInv
<1> QED  BY <1>1, Inductive, PTL

(* The files, the lock and the write queue implement a register per key:   *)
(* each step changes one register to a complete value, makes some durable, *)
(* or rolls all back to their durable values.                              *)
THEOREM Refinement == Spec => StoreSpec
<1> DEFINE value == [k \in Keys |-> Content(live[k])]
           durable == [k \in Keys |-> Content(AfterLoss(disk[k]))]
<1>1. Init => Store!Init
  BY DEF Init, Store!Init, Content, AfterLoss
<1>2. IInv /\ IInv' /\ [Next]_vars => [Store!Next]_(Store!storeVars)
  <2> SUFFICES ASSUME IInv, IInv', [Next]_vars  PROVE [Store!Next]_(Store!storeVars)
    OBVIOUS
  <2> USE DEF IInv
  <2>1. \A k \in Keys : AfterLoss(disk[k]) = disk[k] /\ AfterLoss(live[k]) = live[k]
    BY FilesFacts DEF TypeOK
  <2>2. \A k \in Keys : AfterLoss(disk'[k]) = disk'[k]
    BY FilesFacts DEF TypeOK
  <2>3. CASE UNCHANGED <<live, disk, settled>>
    BY <2>3 DEF Store!storeVars
  <2>4. ASSUME NEW t \in Threads, NEW k \in Keys, NEW f \in Complete \cup {None}, Install(t, k, f)
        PROVE  Store!Write(k)
    <3>1. Content(f) \in Value \cup {None}  BY DEF Content, Complete
    <3>2. value' = [value EXCEPT ![k] = Content(f)]  BY <2>4 DEF Install, TypeOK
    <3>3. durable' = durable  BY <2>4 DEF Install
    <3> QED  BY <3>1, <3>2, <3>3 DEF Store!Write
  <2>5. ASSUME disk' = live, UNCHANGED live  PROVE Store!PersistAll
    BY <2>1, <2>5 DEF Store!PersistAll
  <2>6. ASSUME NEW k \in Keys, WriteBack(k)  PROVE Store!Persist(k)
    <3>1. durable' = [durable EXCEPT ![k] = value[k]]
      BY <2>1, <2>6 DEF WriteBack, TypeOK
    <3> QED  BY <2>6, <3>1 DEF Store!Persist, WriteBack
  <2>7. ASSUME live' = disk, disk' = disk  PROVE Store!PowerLoss
    BY <2>1, <2>7 DEF Store!PowerLoss
  <2> QED  BY <2>3, <2>4, <2>5, <2>6, <2>7, StoreSteps DEF Store!Next
<1> QED  BY <1>1, <1>2, Inductive, PTL DEF Spec, StoreSpec, Store!Spec
-----------------------------------------------------------------------------
(* The order of the asynchronous writes. *)

(* The queue of p holds p's own writes, oldest first. *)
QueueInOrder(p) ==
  /\ \A i \in DOMAIN queue[p] :
       LET v == queue[p][i].val IN v.by = p /\ v.queued /\ v.seq <= ops
  /\ \A i, j \in DOMAIN queue[p] : i < j => queue[p][i].val.seq < queue[p][j].val.seq

(* The writer of p is about to install what it has popped. *)
Writing(p) == pc[Writer(p)] \in {"put", "rename"}

(* What it has in hand is older than what is still queued. *)
InHandFirst(p) ==
  Writing(p) =>
    LET v == job[Writer(p)].file.content
    IN  /\ v.by = p /\ v.queued /\ v.seq <= ops
        /\ \A i \in DOMAIN queue[p] : v.seq < queue[p][i].val.seq

(* A blocking put of p is not taken for one of its asynchronous writes.    *)
ByHand(p) ==
  pc[Main(p)] \in {"put", "rename"} => ~job[Main(p)].file.content.queued

(* The asynchronous writes of p in a file are older than those to come.    *)
Behind(p, f) ==
  Queued(f) /\ f.content.by = p =>
    /\ f.content.seq <= ops
    /\ \A i \in DOMAIN queue[p] : f.content.seq < queue[p][i].val.seq
    /\ Writing(p) => f.content.seq < job[Writer(p)].file.content.seq

OrderInv == \A p \in Procs :
  /\ QueueInOrder(p) /\ InHandFirst(p) /\ ByHand(p)
  /\ \A k \in Keys : Behind(p, live[k]) /\ Behind(p, disk[k])

LEMMA ContentTyped ==
  /\ \A f \in Complete : f.content \in Value /\ f.content.seq \in Nat
  /\ \A v \in Value : v # Torn /\ v.seq \in Nat
<1>1. \A v \in Value : v.seq \in Nat  BY ParamsAssumption DEF Value
<1>2. Torn \notin Value  BY ParamsAssumption
<1>3. \A f \in Complete : f.content \in Value  BY DEF Complete
<1> QED  BY <1>1, <1>2, <1>3

LEMMA QueueTyped ==
  ASSUME TypeOK, NEW p \in Procs
  PROVE  \A i \in DOMAIN queue[p] : queue[p][i].val \in Value /\ queue[p][i].val.seq \in Nat
<1>1. \A i \in DOMAIN queue[p] : queue[p][i] \in Entry  BY DEF TypeOK
<1> QED  BY <1>1, ContentTyped DEF Entry

LEMMA HandTyped ==
  ASSUME JobInv, NEW p \in Procs, Writing(p)
  PROVE  /\ job[Writer(p)].file \in Complete
         /\ job[Writer(p)].file.content.seq \in Nat
BY ThreadsFacts, ContentTyped DEF JobInv, Writing

(* A put works on the value it was given. *)
LEMMA WriteTmpContent ==
  ASSUME TypeOK, NEW t \in Threads, NEW k \in Keys, NEW v \in Value, WriteTmp(t, k, v)
  PROVE  /\ \A u \in Threads \ {t} : pc'[u] = pc[u] /\ job'[u] = job[u]
         /\ pc'[t] \in {"put", "rename"} => job'[t].file.content = v
<1>1. PICK f \in TmpFiles(v) :
        /\ job' = [job EXCEPT ![t] = IF f = None THEN None ELSE [key |-> k, file |-> f]]
        /\ pc' = [pc EXCEPT ![t] = IF f = None THEN Return(t) ELSE "put"]
  BY DEF WriteTmp
<1>2. CASE f = None
  BY <1>1, <1>2 DEF Return, TypeOK
<1>3. CASE f # None
  <2>1. f.content = v  BY <1>3 DEF TmpFiles
  <2> QED  BY <1>1, <1>3, <2>1 DEF TypeOK
<1> QED  BY <1>2, <1>3

(* Another process's doings, and p's own that neither queue nor pop, leave *)
(* the order as it is.                                                     *)
LEMMA OrderKept ==
  ASSUME TypeOK, JobInv, NEW p \in Procs, QueueInOrder(p), InHandFirst(p),
         ops' \in Nat, ops <= ops', queue'[p] = queue[p],
         Writing(p)' => Writing(p) /\ job'[Writer(p)] = job[Writer(p)]
  PROVE  /\ QueueInOrder(p)' /\ InHandFirst(p)'
         /\ \A f \in Complete \cup {None} : Behind(p, f) => Behind(p, f)'
<1>1. ops \in Nat  BY ParamsAssumption DEF TypeOK
<1>2. \A i \in DOMAIN queue[p] : queue[p][i].val.seq \in Nat  BY QueueTyped
<1>3. QueueInOrder(p)'
  BY <1>1, <1>2 DEF QueueInOrder
<1>4. InHandFirst(p)'
  <2> SUFFICES ASSUME Writing(p)'  PROVE InHandFirst(p)'
    BY DEF InHandFirst
  <2> DEFINE v == job[Writer(p)].file.content
  <2>1. v.by = p /\ v.queued /\ v.seq <= ops
    BY DEF InHandFirst
  <2>2. v.seq \in Nat  BY HandTyped
  <2>3. v.seq <= ops'  BY <1>1, <2>1, <2>2
  <2> QED  BY <2>1, <2>3 DEF InHandFirst
<1>5. ASSUME NEW f \in Complete \cup {None}, Behind(p, f)  PROVE Behind(p, f)'
  <2> SUFFICES ASSUME Queued(f), f.content.by = p  PROVE Behind(p, f)'
    BY DEF Behind
  <2>1. f.content.seq \in Nat  BY ContentTyped DEF Queued
  <2>2. f.content.seq <= ops'  BY <1>1, <1>5, <2>1 DEF Behind
  <2> QED  BY <1>5, <2>2 DEF Behind
<1> QED  BY <1>3, <1>4, <1>5

(* What a step does to the order of p's writes, the files as they were.    *)
LEMMA QueueStep ==
  ASSUME IInv, OrderInv, [Next]_vars, NEW p \in Procs
  PROVE  /\ QueueInOrder(p)' /\ InHandFirst(p)' /\ ByHand(p)'
         /\ \A f \in Complete \cup {None} : Behind(p, f) => Behind(p, f)'
<1> DEFINE Kept == /\ QueueInOrder(p)' /\ InHandFirst(p)' /\ ByHand(p)'
                   /\ \A f \in Complete \cup {None} : Behind(p, f) => Behind(p, f)'
<1> USE ThreadsFacts DEF IInv
<1>1. QueueInOrder(p) /\ InHandFirst(p) /\ ByHand(p) /\ ops \in Nat
  BY ParamsAssumption DEF OrderInv, TypeOK
<1>2. ASSUME ops' = ops \/ ops' = ops + 1, queue'[p] = queue[p],
             Writing(p)' => Writing(p) /\ job'[Writer(p)] = job[Writer(p)], ByHand(p)'
      PROVE  Kept
  <2>1. ops' \in Nat /\ ops <= ops'  BY <1>1, <1>2
  <2> QED  BY <1>1, <1>2, <2>1, OrderKept
<1> HIDE DEF Kept
<1>3. ASSUME NEW q \in Procs, Put(q)  PROVE Kept
  <2>1. PICK k \in Keys : WriteTmp(Main(q), k, Written(q, FALSE))  BY <1>3 DEF Put
  <2>2. Written(q, FALSE) \in Value /\ ~Written(q, FALSE).queued
    BY <1>3, StartFacts DEF Put, Written
  <2>3. /\ \A u \in Threads \ {Main(q)} : pc'[u] = pc[u] /\ job'[u] = job[u]
        /\ pc'[Main(q)] \in {"put", "rename"} => job'[Main(q)].file.content = Written(q, FALSE)
    BY <2>1, <2>2, WriteTmpContent
  <2>4. ByHand(p)'  BY <1>1, <2>2, <2>3 DEF ByHand
  <2> QED  BY <1>2, <1>3, <2>3, <2>4 DEF Put, Start, handleVars, Writing
<1>4. ASSUME NEW q \in Procs, Push(q), p # q  PROVE Kept
  BY <1>1, <1>2, <1>4 DEF Push, Start, Writing, ByHand, TypeOK
<1>5. ASSUME Push(p)  PROVE Kept
  <2>1. PICK k \in Keys :
          queue' = [queue EXCEPT ![p] = Append(@, [key |-> k, val |-> Written(p, TRUE)])]
    BY <1>5 DEF Push
  <2> DEFINE n == Len(queue[p])
             e == [key |-> k, val |-> Written(p, TRUE)]
  <2>2. /\ n \in Nat /\ DOMAIN queue[p] = 1..n /\ DOMAIN queue'[p] = 1..n+1
        /\ \A i \in 1..n : queue'[p][i] = queue[p][i]
        /\ queue'[p][n+1] = e
    BY <2>1 DEF TypeOK
  <2>3. e.val.by = p /\ e.val.queued /\ e.val.seq = ops + 1  BY DEF Written
  <2>4. ops' = ops + 1 /\ UNCHANGED job /\ pc' = [pc EXCEPT ![Main(p)] = "check"]
    BY <1>5 DEF Push, Start
  <2>5. Writing(p)' <=> Writing(p)  BY <2>4 DEF Writing, TypeOK
  <2>6. \A i \in 1..n : queue[p][i].val.seq \in Nat /\ queue[p][i].val.seq <= ops
    BY <1>1, <2>2, QueueTyped DEF QueueInOrder
  <2> HIDE DEF n, e
  <2>7. QueueInOrder(p)'
    <3>1. \A i \in 1..n+1 : LET v == queue'[p][i].val IN v.by = p /\ v.queued /\ v.seq <= ops'
      BY <1>1, <2>2, <2>3, <2>4, <2>6 DEF QueueInOrder
    <3>2. ASSUME NEW i \in 1..n+1, NEW j \in 1..n+1, i < j
          PROVE  queue'[p][i].val.seq < queue'[p][j].val.seq
      <4>1. i \in 1..n  BY <2>2, <3>2
      <4>2. CASE j \in 1..n  BY <1>1, <2>2, <3>2, <4>1, <4>2 DEF QueueInOrder
      <4>3. CASE j = n+1
        <5>1. queue'[p][i] = queue[p][i] /\ queue'[p][j].val.seq = ops + 1
          BY <2>2, <2>3, <4>1, <4>3
        <5>2. queue[p][i].val.seq \in Nat /\ queue[p][i].val.seq <= ops  BY <2>6, <4>1
        <5> QED  BY <1>1, <5>1, <5>2
      <4> QED  BY <2>2, <4>2, <4>3
    <3> QED  BY <2>2, <3>1, <3>2 DEF QueueInOrder
  <2>8. InHandFirst(p)'
    <3> SUFFICES ASSUME Writing(p)  PROVE InHandFirst(p)'
      BY <2>5 DEF InHandFirst
    <3> DEFINE v == job[Writer(p)].file.content
    <3>1. v.seq \in Nat  BY HandTyped
    <3>2. /\ v.by = p /\ v.queued /\ v.seq <= ops
          /\ \A i \in 1..n : v.seq < queue[p][i].val.seq
      BY <1>1, <2>2 DEF InHandFirst
    <3>3. UNCHANGED v  BY <2>4
    <3> HIDE DEF v
    <3>4. v.seq <= ops' /\ v.seq < ops + 1  BY <1>1, <2>4, <3>1, <3>2
    <3>5. ASSUME NEW i \in 1..n+1  PROVE v.seq < queue'[p][i].val.seq
      <4>1. CASE i \in 1..n  BY <2>2, <3>2, <4>1
      <4>2. CASE i = n+1  BY <2>2, <2>3, <3>4, <4>2
      <4> QED  BY <2>2, <4>1, <4>2
    <3> QED  BY <2>2, <3>2, <3>3, <3>4, <3>5 DEF InHandFirst, v
  <2>9. ByHand(p)'  BY <2>4 DEF ByHand, TypeOK
  <2>10. ASSUME NEW f \in Complete \cup {None}, Behind(p, f)  PROVE Behind(p, f)'
    <3> SUFFICES ASSUME Queued(f), f.content.by = p  PROVE Behind(p, f)'
      BY DEF Behind
    <3>1. f.content.seq \in Nat /\ f.content.seq <= ops
      BY <2>10, ContentTyped DEF Queued, Behind
    <3> QED  BY <1>1, <2>2, <2>3, <2>4, <2>5, <2>10, <3>1 DEF Behind
  <2> QED  BY <2>7, <2>8, <2>9, <2>10 DEF Kept
<1>6. ASSUME NEW q \in Procs, Pop(q), p # q  PROVE Kept
  <2>1. Head(queue[q]) \in Entry  BY <1>6 DEF Pop, TypeOK
  <2>2. Head(queue[q]).key \in Keys /\ Head(queue[q]).val \in Value  BY <2>1 DEF Entry
  <2>3. \A u \in Threads \ {Writer(q)} : pc'[u] = pc[u] /\ job'[u] = job[u]
    BY <1>6, <2>2, WriteTmpContent DEF Pop
  <2>4. ByHand(p)'  BY <1>1, <2>3 DEF ByHand
  <2>5. Writer(p) # Writer(q)  BY <1>6 DEF Writer
  <2>6. Writing(p)' => Writing(p) /\ job'[Writer(p)] = job[Writer(p)]
    BY <2>3, <2>5 DEF Writing
  <2> QED  BY <1>2, <1>6, <2>4, <2>6 DEF Pop, TypeOK
<1>7. ASSUME Pop(p)  PROVE Kept
  <2> DEFINE n == Len(queue[p])
             v == Head(queue[p]).val
  <2>1. /\ n \in Nat /\ n >= 1 /\ DOMAIN queue[p] = 1..n /\ DOMAIN queue'[p] = 1..n-1
        /\ \A i \in 1..n-1 : queue'[p][i] = queue[p][i+1]
        /\ v = queue[p][1].val /\ Head(queue[p]) \in Entry
    BY <1>7 DEF Pop, TypeOK
  <2>2. v \in Value /\ v.seq \in Nat /\ v.by = p /\ v.queued /\ v.seq <= ops
    BY <1>1, <2>1, QueueTyped DEF QueueInOrder
  <2>3. /\ \A u \in Threads \ {Writer(p)} : pc'[u] = pc[u] /\ job'[u] = job[u]
        /\ pc'[Writer(p)] \in {"put", "rename"} => job'[Writer(p)].file.content = v
    <3>1. Head(queue[p]).key \in Keys  BY <2>1 DEF Entry
    <3> QED  BY <1>7, <2>2, <3>1, WriteTmpContent DEF Pop
  <2>4. ops' = ops /\ pc[Writer(p)] = "pop"  BY <1>7 DEF Pop
  <2> HIDE DEF n, v
  <2>5. ASSUME NEW i \in 1..n-1  PROVE v.seq < queue'[p][i].val.seq
    <3>1. 1 \in 1..n /\ i+1 \in 1..n /\ 1 < i+1  BY <2>1
    <3>2. queue[p][1].val.seq < queue[p][i+1].val.seq  BY <1>1, <2>1, <3>1 DEF QueueInOrder
    <3> QED  BY <2>1, <3>2
  <2>6. QueueInOrder(p)'
    <3>1. ASSUME NEW i \in 1..n-1
          PROVE  LET w == queue'[p][i].val IN w.by = p /\ w.queued /\ w.seq <= ops'
      <4>1. i+1 \in 1..n /\ queue'[p][i] = queue[p][i+1]  BY <2>1
      <4>2. LET w == queue[p][i+1].val IN w.by = p /\ w.queued /\ w.seq <= ops
        BY <1>1, <2>1, <4>1 DEF QueueInOrder
      <4> QED  BY <2>4, <4>1, <4>2
    <3>2. ASSUME NEW i \in 1..n-1, NEW j \in 1..n-1, i < j
          PROVE  queue'[p][i].val.seq < queue'[p][j].val.seq
      <4>1. i+1 \in 1..n /\ j+1 \in 1..n /\ i+1 < j+1  BY <2>1, <3>2
      <4>2. queue[p][i+1].val.seq < queue[p][j+1].val.seq
        BY <1>1, <2>1, <4>1 DEF QueueInOrder
      <4> QED  BY <2>1, <4>2
    <3> QED  BY <2>1, <3>1, <3>2 DEF QueueInOrder
  <2>7. InHandFirst(p)'  BY <2>1, <2>2, <2>3, <2>4, <2>5 DEF InHandFirst, Writing
  <2>8. ByHand(p)'  BY <1>1, <2>3 DEF ByHand
  <2>9. ASSUME NEW f \in Complete \cup {None}, Behind(p, f)  PROVE Behind(p, f)'
    <3> SUFFICES ASSUME Queued(f), f.content.by = p  PROVE Behind(p, f)'
      BY DEF Behind
    <3>1. f.content.seq <= ops /\ \A i \in 1..n : f.content.seq < queue[p][i].val.seq
      BY <2>1, <2>9 DEF Behind
    <3>2. f.content.seq < v.seq  BY <2>1, <3>1
    <3>3. ASSUME NEW i \in 1..n-1  PROVE f.content.seq < queue'[p][i].val.seq
      <4>1. i+1 \in 1..n /\ queue'[p][i] = queue[p][i+1]  BY <2>1
      <4> QED  BY <3>1, <4>1
    <3> QED  BY <2>1, <2>3, <2>4, <3>1, <3>2, <3>3 DEF Behind, Writing
  <2> QED  BY <2>6, <2>7, <2>8, <2>9 DEF Kept
<1>8. ASSUME NEW q \in Procs, \/ Remove(q) \/ ClearAll(q) \/ ReadAll(q) \/ Destroy(q)
                               \/ CheckFuture(q) \/ PopNothing(q) \/ Exit(q)
      PROVE  Kept
  <2>1. ops' = ops \/ ops' = ops + 1
    BY <1>8 DEF Remove, ClearAll, ReadAll, Destroy, CheckFuture, PopNothing, Exit, Start
  <2>2. UNCHANGED queue
    BY <1>8 DEF Remove, ClearAll, ReadAll, Destroy, CheckFuture, PopNothing, Exit, handleVars
  <2>3. \A t \in Threads : pc'[t] \in {"put", "rename"}
                           => pc[t] \in {"put", "rename"} /\ job'[t] = job[t]
    BY <1>8 DEF Remove, ClearAll, ReadAll, Destroy, CheckFuture, PopNothing, Exit, TypeOK
  <2> QED  BY <1>1, <1>2, <2>1, <2>2, <2>3 DEF Writing, ByHand
<1>9. ASSUME NEW t \in Threads, Acquire(t) \/ Locking(t)  PROVE Kept
  <2>1. UNCHANGED <<ops, queue>>
    BY <1>9 DEF Acquire, Locking, Rename, Unlink, Clear, Sync, handleVars
  <2>2. \A u \in Threads : pc'[u] \in {"put", "rename"}
                           => pc[u] \in {"put", "rename"} /\ job'[u] = job[u]
    BY <1>9 DEF Acquire, Locked, Locking, Rename, Unlink, Clear, Sync, Finish, Return, TypeOK
  <2> QED  BY <1>1, <1>2, <2>1, <2>2 DEF Writing, ByHand
<1>10. ASSUME NEW q \in Procs, Read(q)  PROVE Kept
  <2>1. UNCHANGED <<ops, queue>>  BY <1>10 DEF Read, handleVars
  <2>2. \A u \in Threads : pc'[u] \in {"put", "rename"}
                           => pc[u] \in {"put", "rename"} /\ job'[u] = job[u]
    BY <1>10 DEF Read, Finish, Return, TypeOK
  <2> QED  BY <1>1, <1>2, <2>1, <2>2 DEF Writing, ByHand
<1>11. ASSUME NEW P \in SUBSET Procs, Restart(P)  PROVE Kept
  <2>1. CASE p \in P
    <3>1. /\ queue'[p] = <<>> /\ UNCHANGED ops
          /\ pc'[Writer(p)] = "off" /\ pc'[Main(p)] = "idle"
      BY <1>11, <2>1 DEF Restart, Main, Writer
    <3>2. QueueInOrder(p)' /\ InHandFirst(p)' /\ ByHand(p)'
      BY <3>1 DEF QueueInOrder, InHandFirst, ByHand, Writing
    <3>3. \A f \in Complete \cup {None} : Behind(p, f) => Behind(p, f)'
      BY <3>1 DEF Behind, Writing
    <3> QED  BY <3>2, <3>3 DEF Kept
  <2>2. CASE p \notin P
    <3>1. /\ queue'[p] = queue[p] /\ UNCHANGED ops
          /\ pc'[Writer(p)] = pc[Writer(p)] /\ job'[Writer(p)] = job[Writer(p)]
          /\ pc'[Main(p)] = pc[Main(p)] /\ job'[Main(p)] = job[Main(p)]
      BY <1>11, <2>2 DEF Restart, Main, Writer
    <3> QED  BY <1>1, <1>2, <3>1 DEF Writing, ByHand
  <2> QED  BY <2>1, <2>2
<1>12. CASE UNCHANGED vars \/ \E k \in Keys : WriteBack(k)
  <2>1. UNCHANGED <<ops, queue, pc, job>>
    BY <1>12 DEF vars, threadVars, handleVars, WriteBack
  <2>2. Writing(p)' <=> Writing(p)  BY <2>1 DEF Writing
  <2>3. ByHand(p)'  BY <1>1, <2>1 DEF ByHand
  <2>4. Kept  BY <1>2, <2>1, <2>2, <2>3
  <2> QED  BY <2>4 DEF Kept
<1> QED
  BY <1>3, <1>4, <1>5, <1>6, <1>7, <1>8, <1>9, <1>10, <1>11, <1>12
  DEF Kept, Next, Operation, AsyncWriteThread, Machine, Kill, PowerLoss

(* Only a rename brings something new into the directory.                  *)
Renames(t, k) == /\ pc[t] = "rename" /\ pc' = [pc EXCEPT ![t] = "sync"]
                 /\ live'[k] = job[t].file /\ UNCHANGED <<job, queue, ops>>

LEMMA LiveStep ==
  ASSUME TypeOK, JobInv, [Next]_vars, NEW k \in Keys
  PROVE  \/ live'[k] \in {live[k], None}
         \/ live'[k] = disk[k] /\ faults' # faults
         \/ \E t \in Threads : Renames(t, k)
<1>1. ASSUME NEW t \in Threads, Rename(t)
      PROVE  live'[k] = live[k] \/ Renames(t, k)
  BY <1>1 DEF Rename, Install, Renames, TypeOK, handleVars, storeVars
<1>2. ASSUME NEW t \in Threads, Unlink(t) \/ Clear(t) \/ Sync(t)
      PROVE  live'[k] \in {live[k], None}
  BY <1>2 DEF Unlink, Clear, Sync, Install, TypeOK, storeVars
<1>3. ASSUME NEW p \in Procs, Operation(p) \/ CheckFuture(p) \/ AsyncWriteThread(p) \/ Read(p)
                               \/ Kill(p)
      PROVE  UNCHANGED live
  BY <1>3
  DEF Operation, Put, Push, Remove, ClearAll, ReadAll, Destroy, Start, CheckFuture,
      AsyncWriteThread, Pop, PopNothing, Exit, Read, Kill, storeVars
<1>4. ASSUME PowerLoss  PROVE live'[k] = disk[k] /\ faults' # faults
  <2>1. disk[k] \in Complete \cup {None}  BY DEF TypeOK
  <2>2. live'[k] = disk[k]  BY <1>4, <2>1, FilesFacts DEF PowerLoss
  <2>3. faults \in Nat /\ faults' = faults + 1
    BY <1>4, ParamsAssumption DEF PowerLoss, Restart, TypeOK
  <2> QED  BY <2>2, <2>3
<1>5. ASSUME NEW t \in Threads, Acquire(t)  PROVE UNCHANGED live
  BY <1>5 DEF Acquire, storeVars
<1>6. ASSUME NEW l \in Keys, WriteBack(l)  PROVE UNCHANGED live
  BY <1>6 DEF WriteBack
<1>7. CASE UNCHANGED vars
  BY <1>7 DEF vars, storeVars
<1> QED
  BY <1>1, <1>2, <1>3, <1>4, <1>5, <1>6, <1>7 DEF Next, Locking, Machine

(* The asynchronous write about to be installed is its process's oldest.   *)
LEMMA RenamedInHand ==
  ASSUME IInv, OrderInv, NEW t \in Threads, pc[t] = "rename", Queued(job[t].file),
         NEW p \in Procs, job[t].file.content.by = p
  PROVE  t = Writer(p) /\ Writing(p)
<1>1. \E q \in Procs : t = Main(q) \/ t = Writer(q)  BY DEF Threads, Main, Writer
<1>2. \A q \in Procs : t # Main(q)  BY DEF OrderInv, ByHand, Queued
<1>3. \A q \in Procs : t = Writer(q) => q = p  BY DEF OrderInv, InHandFirst, Writing
<1>4. t = Writer(p)  BY <1>1, <1>2, <1>3
<1> QED  BY <1>4 DEF Writing

LEMMA FilesStep ==
  ASSUME IInv, OrderInv, [Next]_vars, NEW p \in Procs, NEW k \in Keys
  PROVE  Behind(p, live[k])' /\ Behind(p, disk[k])'
<1>1. \A f \in Complete \cup {None} : Behind(p, f) => Behind(p, f)'  BY QueueStep
<1>2. /\ live[k] \in Complete \cup {None} /\ disk[k] \in Complete \cup {None}
      /\ Behind(p, live[k]) /\ Behind(p, disk[k])
  BY DEF IInv, TypeOK, OrderInv
<1>3. Behind(p, live[k])' /\ Behind(p, disk[k])'
      <=> (\A f \in {live'[k], disk'[k]} : Behind(p, f)')
  BY DEF Behind
<1>4. disk'[k] \in {disk[k], live[k]}
  BY StoreSteps DEF IInv, Install, WriteBack, TypeOK
<1>5. ASSUME NEW t \in Threads, Renames(t, k)  PROVE \A f \in {live'[k]} : Behind(p, f)'
  <2> DEFINE f == job[t].file
  <2> SUFFICES ASSUME Queued(f), f.content.by = p  PROVE Behind(p, f)'
    BY <1>5 DEF Renames, Behind
  <2>1. t = Writer(p) /\ Writing(p)  BY <1>5, RenamedInHand DEF Renames
  <2>2. ~Writing(p)'  BY <1>5, <2>1 DEF Renames, Writing, IInv, TypeOK
  <2>3. InHandFirst(p) /\ queue' = queue /\ ops' = ops  BY <1>5 DEF OrderInv, Renames
  <2> QED  BY <1>5, <2>1, <2>2, <2>3 DEF Behind, InHandFirst, Renames
<1>6. \A f \in {live'[k]} : Behind(p, f)'
  <2>1. CASE live'[k] = None  BY <2>1 DEF Behind, Queued
  <2>2. CASE live'[k] \in {live[k], disk[k]}  BY <1>1, <1>2, <2>2
  <2> QED  BY <1>5, <2>1, <2>2, LiveStep DEF IInv
<1> QED  BY <1>1, <1>2, <1>3, <1>4, <1>6

(* The asynchronous writes of one process reach a key in the order of the  *)
(* calls: the queue, what the thread has popped and the files stay sorted. *)
THEOREM AsyncWritesInOrder == Spec => AsyncInOrder
<1>1. Init => OrderInv
  <2> SUFFICES ASSUME Init, NEW p \in Procs
               PROVE  /\ QueueInOrder(p) /\ InHandFirst(p) /\ ByHand(p)
                      /\ \A k \in Keys : Behind(p, live[k]) /\ Behind(p, disk[k])
    BY DEF OrderInv
  <2>1. queue[p] = <<>> /\ pc[Main(p)] = "idle" /\ pc[Writer(p)] = "off"
    BY ThreadsFacts DEF Init, Main, Writer
  <2>2. \A k \in Keys : live[k] = None /\ disk[k] = None  BY DEF Init
  <2> QED  BY <2>1, <2>2 DEF QueueInOrder, InHandFirst, ByHand, Behind, Writing, Queued
<1>2. IInv /\ OrderInv /\ [Next]_vars => OrderInv'
  BY QueueStep, FilesStep DEF OrderInv
<1>3. ASSUME IInv, OrderInv, [Next]_vars, faults' = faults, NEW k \in Keys,
             Queued(live[k]), Queued(live'[k]), live[k].content.by = live'[k].content.by
      PROVE  live[k].content.seq <= live'[k].content.seq
  <2>1. live[k] \in Complete  BY <1>3 DEF IInv, TypeOK, Queued
  <2>2. PICK p \in Procs : live[k].content.by = p  BY <2>1, ContentTyped DEF Value
  <2>3. live[k].content.seq \in Nat  BY <2>1, ContentTyped
  <2>4. CASE live'[k] = live[k]  BY <2>3, <2>4
  <2>5. ASSUME NEW t \in Threads, Renames(t, k)
        PROVE  live[k].content.seq <= live'[k].content.seq
    <3>1. pc[t] = "rename" /\ live'[k] = job[t].file  BY <2>5 DEF Renames
    <3>2. t = Writer(p) /\ Writing(p)  BY <1>3, <2>2, <3>1, RenamedInHand
    <3>3. live[k].content.seq < live'[k].content.seq
      BY <1>3, <2>2, <3>1, <3>2 DEF OrderInv, Behind
    <3>4. live'[k].content.seq \in Nat  BY <1>3, <3>1, <3>2, HandTyped DEF IInv
    <3> QED  BY <2>3, <3>3, <3>4
  <2> QED  BY <1>3, <2>4, <2>5, LiveStep DEF IInv, Queued
<1>4. IInv /\ OrderInv /\ [Next]_vars =>
        [faults' = faults => \A k \in Keys :
           Queued(live[k]) /\ Queued(live'[k]) /\ live[k].content.by = live'[k].content.by
             => live[k].content.seq <= live'[k].content.seq]_vars
  BY <1>3
<1> QED  BY <1>1, <1>2, <1>4, Inductive, PTL DEF Spec, AsyncInOrder
=============================================================================
