---------------------------- MODULE ParamsFiles ----------------------------
(***************************************************************************)
(* common/params.cc: the settings store.  One file per key in a directory  *)
(* shared by all processes, a lock file, and in each process a queue of    *)
(* asynchronous writes with a thread that is started on demand.            *)
(*                                                                         *)
(* A process has one Params handle, used by one thread ("main"); "writer"  *)
(* is the thread that std::async starts.  Both run the same put.           *)
(***************************************************************************)
EXTENDS Naturals, Sequences

CONSTANTS
  Procs,
  Keys,
  Flagged,    \* keys that clearAll removes: flagged, or not in the key table
  None,       \* no file, no job, nobody
  Torn,       \* what is left of data that had not reached the disk
  MaxOps,     \* bound: operations started, by all processes together
  MaxFaults   \* bound: kills and power losses

Threads == Procs \X {"main", "writer"}
Main(p) == <<p, "main">>
Writer(p) == <<p, "writer">>

(* A value is identified by the operation that writes it. *)
Value == [by: Procs, seq: 1..MaxOps, queued: BOOLEAN]
File == [content: Value \cup {Torn}, synced: BOOLEAN]
Complete == [content: Value, synced: {TRUE}]
Job == [key: Keys, file: File \cup {None}]

ASSUME ParamsAssumption ==
  /\ Flagged \subseteq Keys
  /\ MaxOps \in Nat /\ MaxFaults \in Nat
  /\ None \notin File \cup Value \cup Job \cup Threads
  /\ Torn \notin Value \cup {None}

VARIABLES
  live,     \* the directory as running programs see it
  disk,     \* the directory as the disk holds it
  lock,     \* who holds the flock on .lock
  pc,       \* where each thread is
  job,      \* the key and the temporary file of its put or remove
  todo,     \* the keys its clearAll or readAll has yet to visit
  snapshot, \* what the running readAll of a process has collected
  queue,    \* the asynchronous writes of a process
  future,   \* the future of a process: no thread yet, running, ready
  ops,      \* operations started
  faults,   \* kills and power losses
  settled   \* history: keys nobody touched since their last change returned 0

storeVars == <<live, disk, settled>>
threadVars == <<pc, job, todo, snapshot>>
handleVars == <<queue, future>>
vars == <<storeVars, lock, threadVars, handleVars, ops, faults>>

Init ==
  /\ live = [k \in Keys |-> None] /\ disk = live /\ settled = Keys
  /\ lock = None
  /\ pc = [t \in Threads |-> IF t[2] = "main" THEN "idle" ELSE "off"]
  /\ job = [t \in Threads |-> None]
  /\ todo = [t \in Threads |-> {}]
  /\ snapshot = [p \in Procs |-> [k \in Keys |-> None]]
  /\ queue = [p \in Procs |-> <<>>]
  /\ future = [p \in Procs |-> "invalid"]
  /\ ops = 0 /\ faults = 0

-----------------------------------------------------------------------------
(* put: the temporary file.  It is private to the thread until the rename. *)

(* Mutant: the fsync is left out. *)
TmpFilesUnsynced(v) == {[content |-> v, synced |-> FALSE], None}

(* What mkstemp, write and fsync leave: a complete file on the disk, or,   *)
(* when one of them fails, nothing, since the file is then unlinked.       *)
TmpFiles(v) == {[content |-> v, synced |-> TRUE], None}

(* Where a thread goes when its operation returns. *)
Return(t) == IF t[2] = "main" THEN "idle" ELSE "pop"

WriteTmp(t, k, v) == \E f \in TmpFiles(v) :
  /\ job' = [job EXCEPT ![t] = IF f = None THEN None ELSE [key |-> k, file |-> f]]
  /\ pc' = [pc EXCEPT ![t] = IF f = None THEN Return(t) ELSE "put"]
  /\ UNCHANGED <<todo, snapshot>>

-----------------------------------------------------------------------------
(* The operations of main, up to the first step others can see.            *)

Start(p) ==
  /\ pc[Main(p)] = "idle" /\ ops < MaxOps
  /\ ops' = ops + 1
  /\ UNCHANGED <<storeVars, lock, faults>>

Written(p, q) == [by |-> p, seq |-> ops + 1, queued |-> q]

Put(p) == /\ Start(p)
          /\ \E k \in Keys : WriteTmp(Main(p), k, Written(p, FALSE))
          /\ UNCHANGED handleVars

(* putNonBlocking, line 230 *)
Push(p) == /\ Start(p)
           /\ \E k \in Keys :
                queue' = [queue EXCEPT ![p] = Append(@, [key |-> k, val |-> Written(p, TRUE)])]
           /\ pc' = [pc EXCEPT ![Main(p)] = "check"]
           /\ UNCHANGED <<future, job, todo, snapshot>>

Remove(p) == /\ Start(p)
             /\ \E k \in Keys :
                  job' = [job EXCEPT ![Main(p)] = [key |-> k, file |-> None]]
             /\ pc' = [pc EXCEPT ![Main(p)] = "remove"]
             /\ UNCHANGED <<handleVars, todo, snapshot>>

ClearAll(p) == /\ Start(p)
               /\ pc' = [pc EXCEPT ![Main(p)] = "clear"]
               /\ todo' = [todo EXCEPT ![Main(p)] = Flagged]
               /\ UNCHANGED <<handleVars, job, snapshot>>

ReadAll(p) == /\ Start(p)
              /\ pc' = [pc EXCEPT ![Main(p)] = "read"]
              /\ todo' = [todo EXCEPT ![Main(p)] = Keys]
              /\ UNCHANGED <<handleVars, job, snapshot>>

(* ~Params: waits for the writer thread, if there ever was one. *)
Destroy(p) == /\ pc[Main(p)] = "idle" /\ future[p] # "running"
              /\ pc' = [pc EXCEPT ![Main(p)] = "gone"]
              /\ UNCHANGED <<storeVars, lock, job, todo, snapshot, handleVars, ops, faults>>

-----------------------------------------------------------------------------
(* putNonBlocking and asyncWriteThread *)

(* Line 232: a thread is started if there was none, or its future is ready. *)
CheckFuture(p) ==
  /\ pc[Main(p)] = "check"
  /\ IF future[p] = "running"
     THEN pc' = [pc EXCEPT ![Main(p)] = "idle"] /\ UNCHANGED future
     ELSE /\ future' = [future EXCEPT ![p] = "running"]
          /\ pc' = [pc EXCEPT ![Main(p)] = "idle", ![Writer(p)] = "pop"]
  /\ UNCHANGED <<storeVars, lock, job, todo, snapshot, queue, ops, faults>>

(* Mutant: the latest entry first. *)
PopLatest(p) == /\ pc[Writer(p)] = "pop" /\ queue[p] # <<>>
                /\ LET q == queue[p] IN
                     /\ WriteTmp(Writer(p), q[Len(q)].key, q[Len(q)].val)
                     /\ queue' = [queue EXCEPT ![p] = SubSeq(@, 1, Len(q) - 1)]
                /\ UNCHANGED <<storeVars, lock, future, ops, faults>>

(* try_pop, and the put of what it returned *)
Pop(p) == /\ pc[Writer(p)] = "pop" /\ queue[p] # <<>>
          /\ WriteTmp(Writer(p), Head(queue[p]).key, Head(queue[p]).val)
          /\ queue' = [queue EXCEPT ![p] = Tail(@)]
          /\ UNCHANGED <<storeVars, lock, future, ops, faults>>

(* try_pop finds the queue empty; the future becomes ready only later.     *)
PopNothing(p) == /\ pc[Writer(p)] = "pop" /\ queue[p] = <<>>
                 /\ pc' = [pc EXCEPT ![Writer(p)] = "exit"]
                 /\ UNCHANGED <<storeVars, lock, job, todo, snapshot, handleVars, ops, faults>>

Exit(p) == /\ pc[Writer(p)] = "exit"
           /\ pc' = [pc EXCEPT ![Writer(p)] = "off"]
           /\ future' = [future EXCEPT ![p] = "ready"]
           /\ UNCHANGED <<storeVars, lock, job, todo, snapshot, queue, ops, faults>>

-----------------------------------------------------------------------------
(* Under the lock *)

Locked == [put |-> "rename", remove |-> "unlink", clear |-> "clearing", read |-> "reading"]

(* Mutant: put takes no lock. *)
AcquireExceptPut(t) ==
  /\ pc[t] \in DOMAIN Locked /\ (lock = None \/ pc[t] = "put")
  /\ lock' = IF pc[t] = "put" THEN lock ELSE t
  /\ pc' = [pc EXCEPT ![t] = Locked[@]]
  /\ UNCHANGED <<storeVars, job, todo, snapshot, handleVars, ops, faults>>

(* FileLock: flock blocks while another thread, of any process, holds it.  *)
Acquire(t) == /\ pc[t] \in DOMAIN Locked /\ lock = None
              /\ lock' = t
              /\ pc' = [pc EXCEPT ![t] = Locked[@]]
              /\ UNCHANGED <<storeVars, job, todo, snapshot, handleVars, ops, faults>>

(* The operation returns, and the FileLock on its stack is destroyed.      *)
Finish(t) == /\ lock' = IF lock = t THEN None ELSE lock
             /\ pc' = [pc EXCEPT ![t] = Return(t)]
             /\ job' = [job EXCEPT ![t] = None]

Install(t, k, f) == /\ live' = [live EXCEPT ![k] = f]
                    /\ settled' = settled \ {k}
                    /\ UNCHANGED disk

Rename(t) == /\ pc[t] = "rename"
             /\ \/ /\ Install(t, job[t].key, job[t].file)
                   /\ pc' = [pc EXCEPT ![t] = "sync"]
                   /\ UNCHANGED <<lock, job>>
                \/ Finish(t) /\ UNCHANGED storeVars   \* rename fails
             /\ UNCHANGED <<todo, snapshot, handleVars, ops, faults>>

Unlink(t) == /\ pc[t] = "unlink"
             /\ \/ /\ live[job[t].key] # None
                   /\ Install(t, job[t].key, None)
                   /\ pc' = [pc EXCEPT ![t] = "sync"]
                   /\ UNCHANGED <<lock, job>>
                \/ Finish(t) /\ UNCHANGED storeVars   \* no such file, or unlink fails
             /\ UNCHANGED <<todo, snapshot, handleVars, ops, faults>>

Clear(t) == /\ pc[t] = "clearing"
            /\ IF todo[t] = {}
               THEN pc' = [pc EXCEPT ![t] = "sync"] /\ UNCHANGED <<storeVars, todo>>
               ELSE \E k \in todo[t] : /\ Install(t, k, None) \/ UNCHANGED storeVars
                                       /\ todo' = [todo EXCEPT ![t] = @ \ {k}]
                                       /\ UNCHANGED pc
            /\ UNCHANGED <<lock, job, snapshot, handleVars, ops, faults>>

(* Mutant: the fsync of the directory is left out. *)
SyncNothing(t) == /\ pc[t] = "sync"
                  /\ settled' = IF job[t] = None THEN settled ELSE settled \cup {job[t].key}
                  /\ Finish(t)
                  /\ UNCHANGED <<live, disk, todo, snapshot, handleVars, ops, faults>>

(* fsync of the directory, and return.  put and remove hand on its result; *)
(* clearAll (which has no job) ignores it.                                 *)
Sync(t) == /\ pc[t] = "sync"
           /\ \/ /\ disk' = live
                 /\ settled' = IF job[t] = None THEN settled ELSE settled \cup {job[t].key}
              \/ UNCHANGED <<disk, settled>>          \* fsync fails
           /\ Finish(t)
           /\ UNCHANGED <<live, todo, snapshot, handleVars, ops, faults>>

Read(p) == /\ pc[Main(p)] = "reading"
           /\ IF todo[Main(p)] = {}
              THEN /\ Finish(Main(p))
                   /\ snapshot' = [snapshot EXCEPT ![p] = [k \in Keys |-> None]]
                   /\ UNCHANGED todo
              ELSE /\ \E k \in todo[Main(p)] :
                        /\ snapshot' = [snapshot EXCEPT ![p][k] = live[k]]
                        /\ todo' = [todo EXCEPT ![Main(p)] = @ \ {k}]
                   /\ UNCHANGED <<lock, pc, job>>
           /\ UNCHANGED <<storeVars, handleVars, ops, faults>>

-----------------------------------------------------------------------------
(* The machine *)

(* The operating system writes a directory entry back. *)
WriteBack(k) == /\ disk[k] # live[k]
                /\ disk' = [disk EXCEPT ![k] = live[k]]
                /\ UNCHANGED <<live, settled, lock, threadVars, handleVars, ops, faults>>

(* The threads of the processes in P die: their queues and locks go too, a *)
(* temporary file stays behind unused, and the manager starts them again.  *)
Restart(P) ==
  /\ lock' = IF lock # None /\ lock[1] \in P THEN None ELSE lock
  /\ pc' = [t \in Threads |-> IF t[1] \notin P THEN pc[t]
                              ELSE IF t[2] = "main" THEN "idle" ELSE "off"]
  /\ job' = [t \in Threads |-> IF t[1] \in P THEN None ELSE job[t]]
  /\ todo' = [t \in Threads |-> IF t[1] \in P THEN {} ELSE todo[t]]
  /\ snapshot' = [p \in Procs |-> IF p \in P THEN [k \in Keys |-> None] ELSE snapshot[p]]
  /\ queue' = [p \in Procs |-> IF p \in P THEN <<>> ELSE queue[p]]
  /\ future' = [p \in Procs |-> IF p \in P THEN "invalid" ELSE future[p]]
  /\ faults < MaxFaults /\ faults' = faults + 1
  /\ UNCHANGED ops

Kill(p) == Restart({p}) /\ UNCHANGED storeVars

AfterLoss(f) == IF f = None \/ f.synced THEN f ELSE [content |-> Torn, synced |-> TRUE]

PowerLoss == /\ Restart(Procs)
             /\ live' = [k \in Keys |-> AfterLoss(disk[k])]
             /\ disk' = live'
             /\ UNCHANGED settled

-----------------------------------------------------------------------------
Operation(p) == Put(p) \/ Push(p) \/ Remove(p) \/ ClearAll(p) \/ ReadAll(p) \/ Destroy(p)
Locking(t) == Rename(t) \/ Unlink(t) \/ Clear(t) \/ Sync(t)
AsyncWriteThread(p) == Pop(p) \/ PopNothing(p) \/ Exit(p)
Machine == PowerLoss \/ (\E p \in Procs : Kill(p)) \/ (\E k \in Keys : WriteBack(k))

Next == \/ \E p \in Procs : Operation(p) \/ CheckFuture(p) \/ AsyncWriteThread(p) \/ Read(p)
        \/ \E t \in Threads : Acquire(t) \/ Locking(t)
        \/ Machine

Spec == Init /\ [][Next]_vars

-----------------------------------------------------------------------------
Steps == {"idle", "off", "check", "pop", "exit", "gone", "put", "rename", "sync", "remove",
          "unlink", "clear", "clearing", "read", "reading"}
Entry == [key: Keys, val: Value]

(* What is in the directory is complete; temporary files need not be.      *)
TypeOK ==
  /\ live \in [Keys -> Complete \cup {None}]
  /\ disk \in [Keys -> Complete \cup {None}]
  /\ lock \in Threads \cup {None}
  /\ pc \in [Threads -> Steps]
  /\ job \in [Threads -> Job \cup {None}]
  /\ todo \in [Threads -> SUBSET Keys]
  /\ snapshot \in [Procs -> [Keys -> File \cup {None}]]
  /\ queue \in [Procs -> Seq(Entry)]
  /\ future \in [Procs -> {"invalid", "running", "ready"}]
  /\ ops \in 0..MaxOps
  /\ faults \in 0..MaxFaults
  /\ settled \subseteq Keys

(* Once put or remove has returned 0, neither a power loss nor the death   *)
(* of any process changes what the key holds, until someone writes it      *)
(* again ("block=True waits until it is persisted to disk").               *)
AcknowledgedIsDurable == \A k \in settled : disk[k] = live[k] /\ AfterLoss(live[k]) = live[k]

(* readAll returns the store as it is at one moment: while it collects,    *)
(* no put, remove or clearAll changes what it has already collected.       *)
SnapshotIsConsistent ==
  \A p \in Procs : pc[Main(p)] = "reading" =>
    \A k \in Keys \ todo[Main(p)] : snapshot[p][k] = live[k]

(* The asynchronous writes of one process reach a key in the order of the  *)
(* calls, across failures of single writes, kills and restarts.            *)
Queued(f) == f # None /\ f.content # Torn /\ f.content.queued
AsyncInOrder ==
  [][faults' = faults => \A k \in Keys :
       Queued(live[k]) /\ Queued(live'[k]) /\ live[k].content.by = live'[k].content.by
         => live[k].content.seq <= live'[k].content.seq]_vars

(* The files implement the registers of ParamsStore.                       *)
Content(f) == IF f = None THEN None ELSE f.content
Store == INSTANCE ParamsStore WITH
  Values <- Value, Absent <- None,
  value <- [k \in Keys |-> Content(live[k])],
  durable <- [k \in Keys |-> Content(AfterLoss(disk[k]))]
StoreSpec == Store!Spec
=============================================================================
