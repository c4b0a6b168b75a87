------------------------ MODULE AthenaUploads_proofs ------------------------
(***************************************************************************)
(* Theorems about AthenaUploads, for any number of threads and requests.   *)
(***************************************************************************)
EXTENDS AthenaUploads, TLAPS

(* Who has an item in hand, by the point a thread has reached.             *)
HandInv ==
  /\ \A w \in Workers : item[w] # None <=> pc[w] \in {"got", "upload"}
  /\ \A r \in Rpcs : item[r] # None <=> pc[r] \in {"dup", "enqueue", "cancel"}

(* A request that was never accepted is nowhere but with its call.         *)
FreshInv ==
  /\ \A i \in Items : outcome[i] = "new" =>
       i \notin queue /\ \A w \in Workers : item[w] # i
  /\ \A r \in Rpcs : pc[r] \in {"dup", "enqueue"} =>
       outcome[item[r]] = "new" /\ \A s \in Rpcs \ {r} : item[s] # item[r]

(* A cancelled request that is still around is marked, and not yet in      *)
(* transfer.                                                               *)
MarkedInv ==
  \A i \in Items : outcome[i] = "cancelled" =>
    /\ i \in queue => i \in cancelled
    /\ \A w \in Workers : item[w] = i => i \in cancelled /\ pc[w] = "got"

Inv == HandInv /\ FreshInv /\ MarkedInv /\ AcceptedIsTracked /\ OneHolder
IInv == TypeOK /\ Inv

-----------------------------------------------------------------------------
LEMMA InitInv == Init => IInv
<1> SUFFICES ASSUME Init PROVE IInv  OBVIOUS
<1> USE UploadsAssumption DEF Init, Threads
<1>1. online \in BOOLEAN  BY Zenon
<1>2. TypeOK  BY <1>1 DEF TypeOK, Steps, Outcomes
<1>3. Inv  BY DEF Inv, HandInv, FreshInv, MarkedInv, AcceptedIsTracked, OneHolder
<1> QED  BY <1>2, <1>3 DEF IInv

LEMMA TypeStep == TypeOK /\ HandInv /\ [Next]_vars => TypeOK'
<1> SUFFICES ASSUME TypeOK, HandInv, [Next]_vars PROVE TypeOK'  OBVIOUS
<1> USE UploadsAssumption DEF TypeOK, HandInv, Threads, Steps, Outcomes, Ends, local
<1>1. ASSUME NEW w \in Workers, Get(w) PROVE TypeOK'
  BY <1>1 DEF Get, Goto
<1>2. ASSUME NEW w \in Workers, SkipCancelled(w) PROVE TypeOK'
  BY <1>2 DEF SkipCancelled, Drop, End, Forget, Goto
<1>3. ASSUME NEW w \in Workers, DropExpired(w) PROVE TypeOK'
  BY <1>3 DEF DropExpired, Drop, End, Forget, Goto
<1>4. ASSUME NEW w \in Workers, Start(w) PROVE TypeOK'
  BY <1>4 DEF Start, Goto
<1>5. ASSUME NEW w \in Workers, Postpone(w) PROVE TypeOK'
  BY <1>5 DEF Postpone, Retry, End, Forget, Goto
<1>6. ASSUME NEW w \in Workers, Succeed(w) PROVE TypeOK'
  BY <1>6 DEF Succeed, End, Goto
<1>7. ASSUME NEW w \in Workers, Repeat(w) PROVE TypeOK'
  BY <1>7 DEF Repeat, Retry, End, Forget, Goto
<1>8. ASSUME NEW w \in Workers, Fail(w) PROVE TypeOK'
  BY <1>8 DEF Fail, Drop, End, Forget, Goto
<1>9. ASSUME NEW w \in Workers, FinishRetry(w) PROVE TypeOK'
  BY <1>9 DEF FinishRetry, Snapshot, Store, Forget, Goto, Waiting
<1>10. ASSUME NEW t \in Threads, Cache(t) PROVE TypeOK'
  BY <1>10 DEF Cache, Snapshot, Store, Forget, Goto, Waiting
<1>11. ASSUME NEW r \in Rpcs, LookUp(r) PROVE TypeOK'
  BY <1>11 DEF LookUp, Goto
<1>12. ASSUME NEW r \in Rpcs, Enqueue(r) PROVE TypeOK'
  BY <1>12 DEF Enqueue, End, Goto
<1>13. ASSUME NEW r \in Rpcs, MarkCancelled(r) PROVE TypeOK'
  BY <1>13 DEF MarkCancelled, Goto
<1>14. ASSUME NEW r \in Rpcs, NEW i \in Items, UploadFilesToUrls(r, i) PROVE TypeOK'
  BY <1>14 DEF UploadFilesToUrls, Call, Goto
<1>15. ASSUME NEW r \in Rpcs, NEW i \in Items, CancelUpload(r, i) PROVE TypeOK'
  BY <1>15 DEF CancelUpload, Call, Waiting, Goto
<1>16. CASE Disconnect
  <2>1. online' \in BOOLEAN  BY <1>16, Zenon DEF Disconnect
  <2>2. faults' \in 0..MaxFaults  BY <1>16 DEF Disconnect
  <2>3. UNCHANGED <<queue, retries, current, cancelled, cached, local, outcome>>
    BY <1>16, Zenon DEF Disconnect
  <2> QED  BY <2>1, <2>2, <2>3
<1>17. CASE Reconnect  BY <1>17 DEF Reconnect
<1>18. CASE Crash  BY <1>18 DEF Crash
<1>19. CASE UNCHANGED vars  BY <1>19 DEF vars
<1> QED
  BY <1>1, <1>2, <1>3, <1>4, <1>5, <1>6, <1>7, <1>8, <1>9, <1>10,
     <1>11, <1>12, <1>13, <1>14, <1>15, <1>16, <1>17, <1>18, <1>19
  DEF Next, WorkerStep, Interference, RpcStep, Threads

LEMMA InvStep == IInv /\ [Next]_vars => Inv'
<1> SUFFICES ASSUME IInv, [Next]_vars PROVE Inv'  OBVIOUS
<1> USE UploadsAssumption DEF IInv, Inv, TypeOK, HandInv, FreshInv, MarkedInv, AcceptedIsTracked,
  OneHolder, Threads, local
<1>1. ASSUME NEW w \in Workers, Get(w) PROVE Inv'
  BY <1>1 DEF Get, Goto
<1>2. ASSUME NEW w \in Workers, SkipCancelled(w) PROVE Inv'
  BY <1>2 DEF SkipCancelled, Drop, End, Forget, Goto
<1>3. ASSUME NEW w \in Workers, DropExpired(w) PROVE Inv'
  BY <1>3 DEF DropExpired, Drop, End, Forget, Goto
<1>4. ASSUME NEW w \in Workers, Start(w) PROVE Inv'
  BY <1>4 DEF Start, Goto
<1>5. ASSUME NEW w \in Workers, Postpone(w) PROVE Inv'
  BY <1>5 DEF Postpone, Retry, End, Forget, Goto
<1>6. ASSUME NEW w \in Workers, Succeed(w) PROVE Inv'
  BY <1>6 DEF Succeed, End, Goto
<1>7. ASSUME NEW w \in Workers, Repeat(w) PROVE Inv'
  BY <1>7 DEF Repeat, Retry, End, Forget, Goto
<1>8. ASSUME NEW w \in Workers, Fail(w) PROVE Inv'
  BY <1>8 DEF Fail, Drop, End, Forget, Goto
<1>9. ASSUME NEW w \in Workers, FinishRetry(w) PROVE Inv'
  BY <1>9 DEF FinishRetry, Snapshot, Store, Forget, Goto, Waiting
<1>10. ASSUME NEW t \in Threads, Cache(t) PROVE Inv'
  BY <1>10 DEF Cache, Snapshot, Store, Forget, Goto, Waiting
<1>11. ASSUME NEW r \in Rpcs, LookUp(r) PROVE Inv'
  BY <1>11 DEF LookUp, Goto
<1>12. ASSUME NEW r \in Rpcs, Enqueue(r) PROVE Inv'
  BY <1>12 DEF Enqueue, End, Goto
<1>13. ASSUME NEW r \in Rpcs, MarkCancelled(r) PROVE Inv'
  BY <1>13 DEF MarkCancelled, Goto
<1>14. ASSUME NEW r \in Rpcs, NEW i \in Items, UploadFilesToUrls(r, i) PROVE Inv'
  BY <1>14 DEF UploadFilesToUrls, Call, Goto
<1>15. ASSUME NEW r \in Rpcs, NEW i \in Items, CancelUpload(r, i) PROVE Inv'
  BY <1>15 DEF CancelUpload, Call, Waiting, Goto
<1>16. CASE Disconnect  BY <1>16 DEF Disconnect
<1>17. CASE Reconnect  BY <1>17 DEF Reconnect
<1>18. CASE Crash  BY <1>18 DEF Crash
<1>19. CASE UNCHANGED vars  BY <1>19 DEF vars
<1> QED
  BY <1>1, <1>2, <1>3, <1>4, <1>5, <1>6, <1>7, <1>8, <1>9, <1>10,
     <1>11, <1>12, <1>13, <1>14, <1>15, <1>16, <1>17, <1>18, <1>19
  DEF Next, WorkerStep, Interference, RpcStep, Threads

LEMMA Invariance == Spec => []IInv
<1>1. IInv /\ [Next]_vars => IInv'  BY TypeStep, InvStep DEF IInv, Inv
<1> QED  BY <1>1, InitInv, PTL DEF Spec

-----------------------------------------------------------------------------
(* Every variable keeps its type; no retry count exceeds the limit, also   *)
(* that of an item the next process has found in its cache.                *)
THEOREM TypeCorrect == Spec => []TypeOK
<1>1. IInv => TypeOK  BY DEF IInv
<1> QED  BY <1>1, Invariance, PTL

(* No request is forgotten while the process lives.                        *)
THEOREM NothingForgotten == Spec => []AcceptedIsTracked
<1>1. IInv => AcceptedIsTracked  BY DEF IInv, Inv
<1> QED  BY <1>1, Invariance, PTL

(* No item is transferred twice at a time.                                 *)
THEOREM OneAtATime == Spec => []OneHolder
<1>1. IInv => OneHolder  BY DEF IInv, Inv
<1> QED  BY <1>1, Invariance, PTL

LEMMA CancelledSteps ==
  ASSUME IInv, [Next]_vars, NEW i \in Items, outcome[i] = "cancelled"
  PROVE  outcome'[i] \in {"cancelled", "accepted"}
<1> USE UploadsAssumption DEF IInv, Inv, TypeOK, HandInv, FreshInv, MarkedInv, Threads
<1>1. ASSUME NEW w \in Workers, SkipCancelled(w) PROVE outcome'[i] = "cancelled"
  BY <1>1 DEF SkipCancelled, Drop, End
<1>2. ASSUME NEW w \in Workers, DropExpired(w) \/ Postpone(w) PROVE outcome'[i] = "cancelled"
  BY <1>2 DEF DropExpired, Drop, Postpone, Retry, End
<1>3. ASSUME NEW w \in Workers, Succeed(w) \/ Repeat(w) \/ Fail(w) PROVE outcome'[i] = "cancelled"
  BY <1>3 DEF Succeed, Repeat, Fail, Drop, Retry, End
<1>4. ASSUME NEW r \in Rpcs, Enqueue(r) PROVE outcome'[i] = "cancelled"
  BY <1>4 DEF Enqueue, End
<1>5. ASSUME NEW r \in Rpcs, MarkCancelled(r) PROVE outcome'[i] = "cancelled"
  BY <1>5 DEF MarkCancelled
<1>6. CASE Crash  BY <1>6 DEF Crash
<1>7. CASE UNCHANGED outcome  BY <1>7
<1> QED
  BY <1>1, <1>2, <1>3, <1>4, <1>5, <1>6, <1>7
  DEF Next, WorkerStep, Interference, RpcStep, vars, Get, Start, FinishRetry, Cache, Snapshot,
      LookUp, UploadFilesToUrls, CancelUpload, Disconnect, Reconnect

(* A cancelled request stays cancelled as long as the process lives.       *)
THEOREM CancelledForGood == Spec => CancelledStaysCancelled
<1>1. IInv /\ [Next]_vars =>
        [\A i \in Items : outcome[i] = "cancelled" =>
           outcome'[i] \in {"cancelled", "accepted"}]_vars
  BY CancelledSteps
<1> QED  BY <1>1, Invariance, PTL DEF Spec, CancelledStaysCancelled
=============================================================================
