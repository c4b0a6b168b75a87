--------------------------- MODULE AthenaUploads ---------------------------
(***************************************************************************)
(* The upload queue of openpilot/system/athena/athenad.py: the threads     *)
(* that serve the remote calls uploadFilesToUrls and cancelUpload, the     *)
(* upload_handler threads that take items from upload_queue, and the copy  *)
(* of the queue in the parameter AthenadUploadQueue, from which the next   *)
(* process starts.  Nothing but the queue itself is locked.                *)
(*                                                                         *)
(* An item stands for one request; its id is fresh, its url may be that of *)
(* another request.  Priorities are left out: a worker may take any item   *)
(* that waits.  How a transfer ends, expiry of an item and whether it may  *)
(* use the present network are chosen.                                     *)
(***************************************************************************)
EXTENDS Naturals

CONSTANTS
  Items, Urls, UrlOf,  \* requests and what they upload to
  Workers, Rpcs,       \* upload_handler and jsonrpc_handler threads
  MaxRetry,            \* MAX_RETRY_COUNT
  None,
  MaxFaults            \* bound on what goes wrong around the queue

ASSUME UploadsAssumption ==
  /\ UrlOf \in [Items -> Urls]
  /\ Workers \cap Rpcs = {} /\ None \notin Items
  /\ MaxRetry \in Nat /\ MaxFaults \in Nat

Threads == Workers \cup Rpcs

VARIABLES
  queue,      \* upload_queue
  retries,    \* the retry_count of each item
  current,    \* cur_upload_items
  cancelled,  \* cancelled_uploads
  cached,     \* AthenadUploadQueue: items with their retry count
  snapshot,   \* what a thread in UploadQueueCache.cache is about to store
  item,       \* the item a thread works on
  pc,
  online,     \* end_event is not set
  outcome,    \* what became of each request
  faults

local == <<snapshot, item, pc>>
vars == <<queue, retries, current, cancelled, cached, local, online, outcome,
          faults>>

(* An accepted request has not come to its end yet; a dropped one has      *)
(* expired, failed, used up its retries or been lost with its process.     *)
Ends == {"uploaded", "cancelled", "dropped"}
Outcomes == {"new", "accepted"} \cup Ends

Init ==
  /\ queue = {} /\ retries = [i \in Items |-> 0]
  /\ current = [w \in Workers |-> None] /\ cancelled = {} /\ cached = {}
  /\ snapshot = [t \in Threads |-> {}] /\ item = [t \in Threads |-> None]
  /\ pc = [t \in Threads |-> "top"]
  /\ online = TRUE /\ outcome = [i \in Items |-> "new"] /\ faults = 0

Goto(t, next) == pc' = [pc EXCEPT ![t] = next]

(* An item that is gone has no retry count either.                         *)
End(i, how) ==
  /\ outcome' = [outcome EXCEPT ![i] = how]
  /\ retries' = [retries EXCEPT ![i] = 0]

-----------------------------------------------------------------------------
(* UploadQueueCache.cache: list the queue, then put the parameter.         *)

Waiting == {i \in queue : i \notin cancelled}

Snapshot(t, at, put) ==
  /\ pc[t] = at
  /\ snapshot' = [snapshot EXCEPT ![t] = {<<i, retries[i]>> : i \in Waiting}]
  /\ Goto(t, put)
  /\ UNCHANGED <<queue, retries, current, cancelled, cached, item, online,
                 outcome, faults>>

Store(t) == cached' = snapshot[t] /\ snapshot' = [snapshot EXCEPT ![t] = {}]

(* A worker at the top of its loop has forgotten its item.                 *)
Forget(t) == [w \in Workers |-> IF w = t THEN None ELSE current[w]]

(* The cache at the end of an upload and of uploadFilesToUrls.             *)
Cache(t) ==
  \/ Snapshot(t, "cache", "store")
  \/ /\ pc[t] = "store" /\ Store(t) /\ Goto(t, "top") /\ current' = Forget(t)
     /\ UNCHANGED <<queue, retries, cancelled, item, online, outcome, faults>>

-----------------------------------------------------------------------------
(* upload_handler *)

Get(w) ==
  /\ pc[w] = "top" /\ online
  /\ \E i \in queue :
       queue' = queue \ {i} /\ item' = [item EXCEPT ![w] = i]
  /\ Goto(w, "got")
  /\ UNCHANGED <<retries, current, cancelled, cached, snapshot, online, outcome,
                 faults>>

(* The worker is done with its item, which met this end.                   *)
Drop(w, how) ==
  /\ End(item[w], how) /\ item' = [item EXCEPT ![w] = None]
  /\ Goto(w, "top") /\ current' = Forget(w)

SkipCancelled(w) ==
  /\ pc[w] = "got" /\ item[w] \in cancelled
  /\ cancelled' = cancelled \ {item[w]} /\ Drop(w, "cancelled")
  /\ UNCHANGED <<queue, cached, snapshot, online, faults>>

DropExpired(w) ==
  /\ pc[w] = "got" /\ item[w] \notin cancelled /\ faults < MaxFaults
  /\ Drop(w, "dropped") /\ faults' = faults + 1
  /\ UNCHANGED <<queue, cancelled, cached, snapshot, online>>

(* Mutant: whether the item is cancelled is not looked up.                 *)
StartAnyway(w) ==
  /\ pc[w] = "got"
  /\ current' = [current EXCEPT ![w] = item[w]] /\ Goto(w, "upload")
  /\ UNCHANGED <<queue, retries, cancelled, cached, snapshot, item,
                 online, outcome, faults>>

(* cur_upload_items shows the item only some time after it left the queue. *)
Start(w) ==
  /\ pc[w] = "got" /\ item[w] \notin cancelled
  /\ current' = [current EXCEPT ![w] = item[w]] /\ Goto(w, "upload")
  /\ UNCHANGED <<queue, retries, cancelled, cached, snapshot, item,
                 online, outcome, faults>>

(* Mutant: the retry count is not increased.                               *)
RetryForever(w, increase, retry, limit) ==
  /\ queue' = queue \cup {item[w]} /\ item' = [item EXCEPT ![w] = None]
  /\ Goto(w, retry) /\ UNCHANGED <<retries, current, outcome>>

(* Mutant: only failures are put back, not aborted transfers.              *)
RetryFailures(w, increase, retry, limit) ==
  /\ item' = [item EXCEPT ![w] = None]
  /\ IF increase /\ retries[item[w]] < MaxRetry
     THEN /\ queue' = queue \cup {item[w]}
          /\ retries' = [retries EXCEPT ![item[w]] = @ + 1]
          /\ Goto(w, retry) /\ UNCHANGED current
     ELSE Goto(w, limit) /\ UNCHANGED <<queue, retries, current>>
  /\ UNCHANGED outcome

(* retry_upload up to its cache: the item goes back to the queue, or, its  *)
(* count exhausted, it is left out.                                        *)
Retry(w, increase, retry, limit) ==
  LET i == item[w] IN
  /\ item' = [item EXCEPT ![w] = None]
  /\ IF retries[i] < MaxRetry
     THEN /\ queue' = queue \cup {i}
          /\ retries' = IF increase THEN [retries EXCEPT ![i] = @ + 1] ELSE retries
          /\ Goto(w, retry) /\ UNCHANGED <<outcome, current>>
     ELSE /\ End(i, "dropped") /\ Goto(w, limit)
          /\ current' = IF limit = "top" THEN Forget(w) ELSE current
          /\ UNCHANGED queue

(* The network is metered and the item must not use it: before the upload, *)
(* or during it, when cb aborts the transfer.                              *)
Postpone(w) ==
  /\ (pc[w] = "got" /\ item[w] \notin cancelled) \/ pc[w] = "upload"
  /\ faults < MaxFaults
  /\ faults' = faults + 1 /\ Retry(w, FALSE, "retry", "top")
  /\ UNCHANGED <<cancelled, cached, snapshot, online>>

Succeed(w) ==
  /\ pc[w] = "upload"
  /\ End(item[w], "uploaded") /\ item' = [item EXCEPT ![w] = None]
  /\ Goto(w, "cache")
  /\ UNCHANGED <<queue, current, cancelled, cached, snapshot, online,
                 faults>>

(* The server refuses (the item is cached once more), the transfer times   *)
(* out, or cb aborts it because the process is going offline.              *)
Repeat(w) ==
  /\ pc[w] = "upload"
  /\ \/ Retry(w, TRUE, "refused", "cache")
     \/ Retry(w, TRUE, "retry", "top")
     \/ ~online /\ Retry(w, FALSE, "retry", "top")
  /\ UNCHANGED <<cancelled, cached, snapshot, online, faults>>

(* Any other exception, such as that of a file the deleter has removed.    *)
Fail(w) ==
  /\ pc[w] = "upload" /\ faults < MaxFaults
  /\ Drop(w, "dropped") /\ faults' = faults + 1
  /\ UNCHANGED <<queue, cancelled, cached, snapshot, online>>

(* The rest of retry_upload.                                               *)
FinishRetry(w) ==
  \/ Snapshot(w, "retry", "retry_store")
  \/ Snapshot(w, "refused", "refused_store")
  \/ /\ pc[w] \in {"retry_store", "refused_store"}
     /\ Store(w) /\ current' = Forget(w)
     /\ Goto(w, IF pc[w] = "refused_store" THEN "cache" ELSE "top")
     /\ UNCHANGED <<queue, retries, cancelled, item, online, outcome, faults>>

WorkerStep(w) ==
  \/ Get(w) \/ SkipCancelled(w) \/ Start(w) \/ Succeed(w)
  \/ Repeat(w) \/ FinishRetry(w) \/ Cache(w)

Interference(w) == DropExpired(w) \/ Postpone(w) \/ Fail(w)

-----------------------------------------------------------------------------
(* The remote calls *)

(* listUploadQueue. *)
Listed ==
  {i \in queue \cup {current[w] : w \in Workers} : i # None /\ i \notin cancelled}

Call(r, i, first) ==
  /\ pc[r] = "top" /\ online
  /\ item' = [item EXCEPT ![r] = i] /\ Goto(r, first)
  /\ UNCHANGED <<queue, retries, current, cancelled, cached, snapshot, online,
                 faults>>

UploadFilesToUrls(r, i) ==
  /\ outcome[i] = "new" /\ \A s \in Rpcs : item[s] # i
  /\ Call(r, i, "dup") /\ UNCHANGED outcome

(* Skip the item if its url is already listed, and go on to the cache.     *)
LookUp(r) ==
  /\ pc[r] = "dup"
  /\ IF \E j \in Listed : UrlOf[j] = UrlOf[item[r]]
     THEN Goto(r, "cache") /\ item' = [item EXCEPT ![r] = None]
     ELSE Goto(r, "enqueue") /\ UNCHANGED item
  /\ UNCHANGED <<queue, retries, current, cancelled, cached, snapshot, online,
                 outcome, faults>>

Enqueue(r) ==
  /\ pc[r] = "enqueue"
  /\ queue' = queue \cup {item[r]} /\ End(item[r], "accepted")
  /\ item' = [item EXCEPT ![r] = None] /\ Goto(r, "cache")
  /\ UNCHANGED <<current, cancelled, cached, snapshot, online, faults>>

(* cancelUpload finds only what waits in the queue (a second call for the  *)
(* same item changes nothing).                                             *)
CancelUpload(r, i) ==
  /\ i \in Waiting /\ Call(r, i, "cancel") /\ UNCHANGED outcome

(* The request counts as cancelled if the item still waits.                *)
MarkCancelled(r) ==
  /\ pc[r] = "cancel"
  /\ cancelled' = cancelled \cup {item[r]}
  /\ outcome' = IF item[r] \in queue THEN [outcome EXCEPT ![item[r]] = "cancelled"]
                ELSE outcome
  /\ item' = [item EXCEPT ![r] = None] /\ Goto(r, "top")
  /\ UNCHANGED <<queue, retries, current, cached, snapshot, online, faults>>

RpcStep(r) == LookUp(r) \/ Enqueue(r) \/ MarkCancelled(r) \/ Cache(r)

-----------------------------------------------------------------------------
(* The connection and the process *)

Disconnect ==
  /\ online /\ faults < MaxFaults
  /\ online' = FALSE /\ faults' = faults + 1
  /\ UNCHANGED <<queue, retries, current, cancelled, cached, local, outcome>>

(* handle_long_poll joins the threads; main connects anew and clears       *)
(* cur_upload_items.                                                       *)
Reconnect ==
  /\ ~online /\ \A t \in Threads : pc[t] = "top"
  /\ online' = TRUE /\ current' = [w \in Workers |-> None]
  /\ UNCHANGED <<queue, retries, cancelled, cached, local, outcome, faults>>

(* The process dies; the next one starts with what was cached.             *)
Crash ==
  /\ faults < MaxFaults /\ faults' = faults + 1
  /\ queue' = {c[1] : c \in cached}
  /\ retries' = [i \in Items |-> IF \E c \in cached : c[1] = i
                                 THEN (CHOOSE c \in cached : c[1] = i)[2] ELSE 0]
  /\ outcome' = [i \in Items |-> IF i \in queue' THEN "accepted"
                                 ELSE IF outcome[i] = "accepted" THEN "dropped"
                                 ELSE outcome[i]]
  /\ cancelled' = {} /\ current' = [w \in Workers |-> None]
  /\ snapshot' = [t \in Threads |-> {}] /\ item' = [t \in Threads |-> None]
  /\ pc' = [t \in Threads |-> "top"] /\ online' = TRUE
  /\ UNCHANGED cached

Next ==
  \/ \E w \in Workers : WorkerStep(w) \/ Interference(w)
  \/ \E r \in Rpcs : \/ RpcStep(r)
                     \/ \E i \in Items : UploadFilesToUrls(r, i) \/ CancelUpload(r, i)
  \/ Disconnect \/ Reconnect \/ Crash

Spec ==
  /\ Init /\ [][Next]_vars
  /\ \A w \in Workers : WF_vars(WorkerStep(w))
  /\ \A r \in Rpcs : WF_vars(RpcStep(r))
  /\ WF_vars(Reconnect)

-----------------------------------------------------------------------------
Steps == {"top", "got", "upload", "retry", "retry_store", "refused",
          "refused_store", "cache", "store", "dup", "enqueue", "cancel"}

TypeOK ==
  /\ queue \subseteq Items /\ retries \in [Items -> 0..MaxRetry]
  /\ current \in [Workers -> Items \cup {None}] /\ cancelled \subseteq Items
  /\ cached \subseteq Items \X (0..MaxRetry)
  /\ snapshot \in [Threads -> SUBSET (Items \X (0..MaxRetry))]
  /\ item \in [Threads -> Items \cup {None}] /\ pc \in [Threads -> Steps]
  /\ online \in BOOLEAN /\ outcome \in [Items -> Outcomes]
  /\ faults \in 0..MaxFaults

(* No request is forgotten by a live process: it waits, or one worker has  *)
(* it and it does not wait.                                                *)
AcceptedIsTracked ==
  \A i \in Items : outcome[i] = "accepted" =>
    i \in queue \/ \E w \in Workers : item[w] = i

(* Whatever retries, disconnections and restarts happen, no item is        *)
(* transferred by two threads, or queued while it is being transferred.    *)
OneHolder ==
  \A w \in Workers : item[w] # None =>
    item[w] \notin queue /\ \A v \in Workers \ {w} : item[v] # item[w]

(* A request cancelled while it waited is neither uploaded nor counted     *)
(* otherwise any more; only the next process may find it in its cache.     *)
CancelledStaysCancelled ==
  [][\A i \in Items : outcome[i] = "cancelled" =>
       outcome'[i] \in {"cancelled", "accepted"}]_vars

(* Every accepted request comes to an end, also one that the process finds *)
(* in its cache: the transfers end or the retries run out.                 *)
AcceptedSettles == <>[](\A i \in Items : outcome[i] # "accepted")
=============================================================================
