------------------------- MODULE LogRotation_proofs -------------------------
(***************************************************************************)
(* Theorems about LogRotation, for any number of encoders and any lengths: *)
(* no segment grows long, frames land in their segments, and nothing is    *)
(* lost while every encoder works and lags no more than loggerd allows.    *)
(***************************************************************************)
EXTENDS LogRotation, FiniteSetTheorems, SequenceTheorems, TLAPS

(* The numbers the clock works on. *)
Clock == now \in Nat /\ last_rotate \in Nat /\ polled \in BOOLEAN

LEMMA ClockInit == Init => Clock /\ LengthBounded
  BY LogRotationAssumption DEF Init, Clock, LengthBounded

(* A look at the clock leaves a segment no longer than the limit.          *)
LEMMA RotationBounds ==
  ASSUME Clock, LengthBounded, NEW ready, NEW waiting, NEW seen,
         RotateIfNeeded(ready, waiting, seen), UNCHANGED now
  PROVE  last_rotate' \in Nat /\ now - last_rotate' <= Length + Slack
<1> USE LogRotationAssumption DEF Clock, LengthBounded
<1>1. CASE AllReady(ready, waiting) \/ TimedOut(seen)
  <2>1. last_rotate' = now  BY <1>1 DEF RotateIfNeeded
  <2> QED  BY <2>1
<1>2. CASE ~(AllReady(ready, waiting) \/ TimedOut(seen))
  <2>1. last_rotate' = last_rotate  BY <1>2 DEF RotateIfNeeded
  <2>2. ~(now - last_rotate > Length + Slack)  BY <1>2 DEF TimedOut
  <2> QED  BY <2>1, <2>2
<1> QED  BY <1>1, <1>2

LEMMA ClockStep == Clock /\ LengthBounded /\ [Next]_vars => Clock' /\ LengthBounded'
<1> SUFFICES ASSUME Clock, LengthBounded, [Next]_vars PROVE Clock' /\ LengthBounded'
  OBVIOUS
<1>1. CASE Frame
  <2>1. now' = now + 1 /\ polled /\ ~polled' /\ polled' \in BOOLEAN  BY <1>1, Zenon DEF Frame
  <2>2. last_rotate' = last_rotate  BY <1>1 DEF Frame, rotation
  <2> QED  BY <2>1, <2>2, LogRotationAssumption DEF Clock, LengthBounded
<1>2. ASSUME UNCHANGED now, polled' = TRUE, NEW ready, NEW waiting, NEW seen,
             RotateIfNeeded(ready, waiting, seen)
      PROVE  Clock' /\ LengthBounded'
  <2>1. last_rotate' \in Nat /\ now - last_rotate' <= Length + Slack  BY <1>2, RotationBounds
  <2> QED  BY <1>2, <2>1, LogRotationAssumption DEF Clock, LengthBounded
<1>3. ASSUME NEW e \in Encoders, Receive(e) PROVE Clock' /\ LengthBounded'
  <2>1. UNCHANGED now /\ polled' = TRUE  BY <1>3 DEF Receive, encoderd
  <2>2. PICK ready, waiting : RotateIfNeeded(ready, waiting, now)  BY <1>3 DEF Receive
  <2> QED  BY <1>2, <2>1, <2>2
<1>4. CASE OtherMessage
  <2>1. UNCHANGED now /\ polled' = TRUE  BY <1>4 DEF OtherMessage, encoderd
  <2>2. RotateIfNeeded(ready_to_rotate, max_waiting, last_camera_seen)
    BY <1>4 DEF OtherMessage
  <2> QED  BY <1>2, <2>1, <2>2
<1>5. CASE UNCHANGED <<now, last_rotate, polled>>
  BY <1>5, LogRotationAssumption DEF Clock, LengthBounded
<1> QED
  BY <1>1, <1>3, <1>4, <1>5
  DEF Next, Encode, Stall, Resume, vars, encoderd, rotation

(* The fallback keeps its promise, for any number of encoders.             *)
THEOREM SegmentsAreBounded == Spec => []LengthBounded
<1> QED  BY ClockInit, ClockStep, PTL DEF Spec
-----------------------------------------------------------------------------
(* Types, and the limit of the queues.                                     *)

Remote == [seen : BOOLEAN, inTime : BOOLEAN, offset : Int, current : Int, q : Seq(Packet),
           recording : BOOLEAN, marked : BOOLEAN]

LEMMA TypeInit == Init => TypeOK
<1> SUFFICES ASSUME Init PROVE TypeOK  OBVIOUS
<1> USE LogRotationAssumption DEF Init
<1>1. now \in 0..MaxTime /\ stalls \in 0..MaxStalls /\ last_camera_seen \in Int  OBVIOUS
<1>2. last \in [Encoders -> -1..MaxTime]
  <2>1. -1..0 \subseteq -1..MaxTime  OBVIOUS
  <2> QED  BY <2>1
<1>3. FreshRemote \in Remote /\ Len(FreshRemote.q) = 0  BY DEF FreshRemote, Remote
<1>4. remote \in [Encoders -> Remote] /\ \A e \in Encoders : Len(remote[e].q) <= MaxQueue + 1
  BY <1>3
<1>5. socket \in [Encoders -> Seq(Packet)] /\ cur_seg \in [Encoders -> Nat]  OBVIOUS
<1> QED  BY <1>1, <1>2, <1>4, <1>5 DEF TypeOK, Remote

(* An encoder sends a packet p, of a frame that has not been encoded.      *)
Sends(e, p) ==
  /\ last[e] < p.frame /\ p.frame <= now
  /\ now - last[e] <= MaxLag => p.frame = last[e] + 1
  /\ \/ p.seg = cur_seg[e] /\ p.frame < (cur_seg[e] + 1) * Length
     \/ p.seg = cur_seg[e] + 1 /\ p.frame >= p.seg * Length /\ p.key
  /\ last' = [last EXCEPT ![e] = p.frame]
  /\ cur_seg' = [cur_seg EXCEPT ![e] = p.seg]
  /\ socket' = [socket EXCEPT ![e] = Append(@, p)]
  /\ skipped' = (skipped \/ p.frame >= (p.seg + 1) * Length)
  /\ UNCHANGED <<now, stalled, stalls, rotation, polled, received>>

LEMMA EncodeSends ==
  ASSUME TypeOK, NEW e \in Encoders, Encode(e)
  PROVE  \E p \in Packet : Sends(e, p)
<1> USE LogRotationAssumption
<1>1. now \in Nat /\ last[e] \in Int /\ last[e] >= -1 /\ last[e] < now
      /\ cur_seg[e] \in Nat /\ MaxLag \in Nat /\ MaxLag >= 1 /\ Length \in Nat
  BY DEF TypeOK, Encode
<1> DEFINE f == IF now - last[e] < MaxLag THEN last[e] + 1 ELSE now - MaxLag + 1
           rolls == f >= (cur_seg[e] + 1) * Length
           n == cur_seg[e] + (IF rolls THEN 1 ELSE 0)
           p == [frame |-> f, seg |-> n, key |-> rolls \/ f % Gop = 0]
<1>2. f \in Nat /\ last[e] < f /\ f <= now /\ (now - last[e] <= MaxLag => f = last[e] + 1)
  BY <1>1
<1>3. n \in Nat /\ \/ n = cur_seg[e] /\ f < (cur_seg[e] + 1) * Length
                   \/ n = cur_seg[e] + 1 /\ f >= n * Length /\ rolls
  <2> HIDE DEF f
  <2>1. (cur_seg[e] + 1) * Length \in Int  BY <1>1
  <2> QED  BY <1>1, <1>2, <2>1
<1>4. (rolls \/ f % Gop = 0) \in BOOLEAN
  <2> HIDE DEF rolls, f
  <2> QED  BY Zenon
<1>5. /\ last' = [last EXCEPT ![e] = f]
      /\ cur_seg' = [cur_seg EXCEPT ![e] = p.seg]
      /\ socket' = [socket EXCEPT ![e] = Append(@, p)]
      /\ skipped' = (skipped \/ f >= (p.seg + 1) * Length)
      /\ UNCHANGED <<now, stalled, stalls, rotation, polled, received>>
  BY DEF Encode
<1>6. p.frame = f /\ p.seg = n /\ (rolls => p.key)  OBVIOUS
<1>7. p \in Packet
  <2> HIDE DEF rolls, f, n
  <2> QED  BY <1>2, <1>3, <1>4 DEF Packet
<1> HIDE DEF p, n, rolls, f
<1>8. Sends(e, p)  BY <1>2, <1>3, <1>5, <1>6 DEF Sends
<1> QED  BY <1>7, <1>8

LEMMA EncodeTypes ==
  ASSUME TypeOK, NEW e \in Encoders, Encode(e)
  PROVE  TypeOK'
<1>1. PICK p \in Packet : Sends(e, p)  BY EncodeSends
<1>2. p.frame \in Nat /\ p.seg \in Nat  BY DEF Packet
<1>3. now \in Nat /\ now <= MaxTime  BY LogRotationAssumption DEF TypeOK
<1>4. p.frame \in -1..MaxTime  BY <1>1, <1>2, <1>3, LogRotationAssumption DEF Sends
<1>5. last' \in [Encoders -> -1..MaxTime]  BY <1>1, <1>4 DEF TypeOK, Sends
<1>6. cur_seg' \in [Encoders -> Nat]  BY <1>1, <1>2 DEF TypeOK, Sends
<1>7. socket' \in [Encoders -> Seq(Packet)]
  <2>1. Append(socket[e], p) \in Seq(Packet)  BY DEF TypeOK
  <2> QED  BY <1>1, <2>1 DEF TypeOK, Sends
<1>8. skipped' \in BOOLEAN  BY <1>1, Zenon DEF Sends
<1> QED  BY <1>1, <1>5, <1>6, <1>7, <1>8 DEF TypeOK, Sends, rotation, received

(* What a look at the counters and the clock leaves.                       *)
LEMMA RotationTypes ==
  ASSUME TypeOK, NEW ready \in Nat, NEW waiting, NEW seen, RotateIfNeeded(ready, waiting, seen)
  PROVE  segment' \in Nat /\ ready_to_rotate' \in Nat /\ last_rotate' \in Nat
         /\ fallback' \in BOOLEAN
<1>1. CASE AllReady(ready, waiting) \/ TimedOut(seen)
  <2>1. segment' = segment + 1 /\ ready_to_rotate' = 0 /\ last_rotate' = now
        /\ fallback' = (fallback \/ ~AllReady(ready, waiting))
    BY <1>1 DEF RotateIfNeeded
  <2> QED  BY <2>1, LogRotationAssumption DEF TypeOK
<1>2. CASE ~(AllReady(ready, waiting) \/ TimedOut(seen))
  <2>1. ready_to_rotate' = ready /\ UNCHANGED <<segment, last_rotate, fallback>>
    BY <1>2 DEF RotateIfNeeded
  <2> QED  BY <2>1 DEF TypeOK
<1> QED  BY <1>1, <1>2

(* What loggerd does with a packet keeps its record of the encoder typed   *)
(* and the queue within its limit.                                         *)
LEMMA WriteTypes ==
  ASSUME TypeOK, NEW e \in Encoders, NEW r \in Remote, NEW p \in Packet, Write(e, r, p)
  PROVE  remote' \in [Encoders -> Remote] /\ Len(remote'[e].q) <= MaxQueue + 1
         /\ recorded' \in [Encoders -> SUBSET (Nat \X Nat)] /\ lost' \in BOOLEAN
         /\ \A d \in Encoders \ {e} : remote'[d] = remote[d]
<1> DEFINE ps == Append(r.q, p)
           written == FromKey(ps, Entered(r).recording)
           new == [Entered(r) EXCEPT !.q = <<>>, !.recording = @ \/ written # {}]
<1>1. r.q \in Seq(Packet)  BY DEF Remote
<1>2. ps \in Seq(Packet)  BY <1>1
<1>3. written \subseteq Packet
  <2>1. \A j \in DOMAIN ps : ps[j] \in Packet  BY <1>2
  <2> HIDE DEF ps
  <2> QED  BY <2>1 DEF FromKey
<1>4. Entered(r) \in Remote
  <2>1. segment \in Int  BY DEF TypeOK
  <2>2. [r EXCEPT !.current = segment, !.recording = FALSE, !.marked = FALSE] \in Remote
    BY <2>1 DEF Remote
  <2> QED  BY <2>2 DEF Entered
<1> HIDE DEF written
<1>5. new \in Remote /\ new.q = <<>>
  <2>1. (Entered(r).recording \/ written # {}) \in BOOLEAN  BY Zenon
  <2>2. <<>> \in Seq(Packet)  OBVIOUS
  <2>3. \A a \in Remote, b \in BOOLEAN :
          LET c == [a EXCEPT !.q = <<>>, !.recording = b] IN c \in Remote /\ c.q = <<>>
    BY <2>2 DEF Remote
  <2> QED  BY <1>4, <2>1, <2>3
<1>6. remote' = [remote EXCEPT ![e] = new]
  BY DEF Write, written
<1>7. recorded' = [recorded EXCEPT ![e] = @ \cup {<<w.frame \div Length, segment>> : w \in written}]
  BY DEF Write, written
<1>8. lost' \in BOOLEAN  BY Zenon DEF Write
<1>9. \A w \in written : w.frame \div Length \in Nat
  BY <1>3, LogRotationAssumption DEF Packet
<1> HIDE DEF new
<1>10. remote \in [Encoders -> Remote] /\ segment \in Nat /\ recorded[e] \subseteq Nat \X Nat
  BY DEF TypeOK, Remote
<1>11. remote' \in [Encoders -> Remote] /\ remote'[e] = new
       /\ \A d \in Encoders \ {e} : remote'[d] = remote[d]
  BY <1>5, <1>6, <1>10
<1>12. recorded \in [Encoders -> SUBSET (Nat \X Nat)]  BY DEF TypeOK
<1>13. recorded' \in [Encoders -> SUBSET (Nat \X Nat)]
  <2>1. {<<w.frame \div Length, segment>> : w \in written} \subseteq Nat \X Nat
    BY <1>9, <1>10
  <2> QED  BY <1>7, <1>12, <2>1
<1> QED  BY <1>5, <1>8, <1>11, <1>13, LogRotationAssumption

LEMMA KeepTypes ==
  ASSUME TypeOK, NEW e \in Encoders, NEW r \in Remote, Len(r.q) <= MaxQueue + 1,
         NEW p \in Packet, Keep(e, r, p)
  PROVE  remote' \in [Encoders -> Remote] /\ Len(remote'[e].q) <= MaxQueue + 1
         /\ UNCHANGED recorded /\ lost' \in BOOLEAN
         /\ \A d \in Encoders \ {e} : remote'[d] = remote[d]
<1> DEFINE q == IF Len(r.q) > MaxQueue THEN r.q ELSE Append(r.q, p)
           new == [r EXCEPT !.marked = TRUE, !.q = q]
<1>1. r.q \in Seq(Packet) /\ MaxQueue \in Nat  BY LogRotationAssumption DEF Remote
<1>2. q \in Seq(Packet) /\ Len(q) <= MaxQueue + 1
  <2>1. CASE Len(r.q) > MaxQueue  BY <1>1, <2>1
  <2>2. CASE ~(Len(r.q) > MaxQueue)  BY <1>1, <2>2
  <2> QED  BY <2>1, <2>2
<1>3. remote' = [remote EXCEPT ![e] = new] /\ UNCHANGED recorded
      /\ lost' = (lost \/ Len(r.q) > MaxQueue)
  BY DEF Keep
<1> HIDE DEF q
<1>4. new \in Remote /\ new.q = q  BY <1>2 DEF Remote
<1> HIDE DEF new
<1> QED  BY <1>2, <1>3, <1>4 DEF TypeOK, Remote

LEMMA ReceiveTypes ==
  ASSUME TypeOK, NEW e \in Encoders, Receive(e)
  PROVE  TypeOK'
<1> DEFINE p == Head(socket[e])
           r == IF remote[e].seen THEN remote[e]
                ELSE [remote[e] EXCEPT !.seen = TRUE, !.inTime = (p.seg + segment = 0),
                                       !.offset = p.seg]
           seg == p.seg - r.offset
           waiting == max_waiting + (IF remote[e].seen THEN 0 ELSE 1)
           ready == ready_to_rotate + (IF seg > segment /\ ~r.marked THEN 1 ELSE 0)
<1>1. /\ CASE seg = segment -> Write(e, r, p)
            [] seg > segment -> Keep(e, r, p)
            [] seg < segment -> Discard(e, r)
      /\ max_waiting' = waiting
      /\ RotateIfNeeded(ready, waiting, now)
  BY DEF Receive
<1>2. last_camera_seen' = now /\ socket' = [socket EXCEPT ![e] = Tail(@)] /\ polled' = TRUE
      /\ UNCHANGED encoderd /\ socket[e] # <<>>
  BY DEF Receive
<1>3. p \in Packet /\ Tail(socket[e]) \in Seq(Packet)  BY <1>2 DEF TypeOK
<1>4. remote \in [Encoders -> Remote] /\ segment \in Nat /\ max_waiting \in Nat
      /\ ready_to_rotate \in Nat
  BY DEF TypeOK, Remote
<1>5. r \in Remote /\ r.q = remote[e].q
  <2>1. remote[e] \in Remote /\ p.seg \in Int  BY <1>3, <1>4 DEF Packet
  <2>2. \A a \in Remote, b \in BOOLEAN, c \in Int :
          LET d == [a EXCEPT !.seen = TRUE, !.inTime = b, !.offset = c]
          IN  d \in Remote /\ d.q = a.q
    BY DEF Remote
  <2> HIDE DEF p
  <2> QED  BY <2>1, <2>2
<1>6. r.offset \in Int /\ p.seg \in Nat /\ Len(r.q) <= MaxQueue + 1
  BY <1>3, <1>5 DEF Remote, Packet, TypeOK
<1>7. seg = segment \/ seg > segment \/ seg < segment
  <2> HIDE DEF p, r
  <2> QED  BY <1>4, <1>6
<1> HIDE DEF p, r
<1>8. ready \in Nat /\ waiting \in Nat  BY <1>4
<1> HIDE DEF seg, ready, waiting
<1>9. \/ Write(e, r, p) \/ Keep(e, r, p) \/ Discard(e, r)  BY <1>1, <1>7
<1>10. remote' \in [Encoders -> Remote] /\ Len(remote'[e].q) <= MaxQueue + 1
       /\ recorded' \in [Encoders -> SUBSET (Nat \X Nat)] /\ lost' \in BOOLEAN
       /\ \A d \in Encoders \ {e} : remote'[d] = remote[d]
  <2>1. CASE Write(e, r, p)  BY <1>3, <1>5, <2>1, WriteTypes
  <2>2. CASE Keep(e, r, p)
    <3>1. UNCHANGED recorded  BY <2>2 DEF Keep
    <3> QED  BY <1>3, <1>5, <1>6, <2>2, <3>1, KeepTypes DEF TypeOK
  <2>3. CASE Discard(e, r)
    <3> DEFINE new == [r EXCEPT !.offset = -segment]
    <3>1. new \in Remote /\ new.q = r.q
      <4>1. -segment \in Int  BY <1>4
      <4> QED  BY <1>5, <4>1 DEF Remote
    <3>2. remote' = [remote EXCEPT ![e] = new] /\ lost' = TRUE /\ UNCHANGED recorded
      BY <2>3 DEF Discard
    <3> HIDE DEF new
    <3> QED  BY <1>4, <1>6, <3>1, <3>2 DEF TypeOK
  <2> QED  BY <1>9, <2>1, <2>2, <2>3
<1>11. segment' \in Nat /\ ready_to_rotate' \in Nat /\ last_rotate' \in Nat /\ fallback' \in BOOLEAN
  BY <1>1, <1>8, RotationTypes
<1>12. \A d \in Encoders : Len(remote'[d].q) <= MaxQueue + 1  BY <1>10 DEF TypeOK
<1>13. socket' \in [Encoders -> Seq(Packet)]  BY <1>2, <1>3 DEF TypeOK
<1>14. now' \in 0..MaxTime /\ last' \in [Encoders -> -1..MaxTime] /\ cur_seg' \in [Encoders -> Nat]
       /\ stalled' \subseteq Encoders /\ stalls' \in 0..MaxStalls /\ skipped' \in BOOLEAN
       /\ last_camera_seen' \in Int /\ max_waiting' \in Nat /\ polled' \in BOOLEAN
  <2>1. UNCHANGED <<now, last, cur_seg, stalled, stalls, skipped>>  BY <1>2 DEF encoderd
  <2>2. now \in Int  BY LogRotationAssumption DEF TypeOK
  <2>3. last_camera_seen' \in Int  BY <1>2, <2>2
  <2>4. max_waiting' \in Nat /\ polled' \in BOOLEAN  BY <1>1, <1>2, <1>8
  <2> QED  BY <2>1, <2>3, <2>4 DEF TypeOK
<1> QED  BY <1>10, <1>11, <1>12, <1>13, <1>14 DEF TypeOK, Remote

LEMMA TypeStep == TypeOK /\ [Next]_vars => TypeOK'
<1> SUFFICES ASSUME TypeOK, [Next]_vars PROVE TypeOK'  OBVIOUS
<1> USE LogRotationAssumption
<1>1. CASE Frame
  <2>1. now' \in 0..MaxTime /\ polled' = FALSE  BY <1>1 DEF Frame, TypeOK
  <2>2. UNCHANGED <<last, cur_seg, stalled, stalls, skipped, socket, rotation, received>>
    BY <1>1 DEF Frame
  <2> QED  BY <2>1, <2>2 DEF TypeOK, rotation, received
<1>2. CASE OtherMessage
  <2>1. segment' \in Nat /\ ready_to_rotate' \in Nat /\ last_rotate' \in Nat /\ fallback' \in BOOLEAN
    BY <1>2, RotationTypes DEF OtherMessage, TypeOK
  <2>2. UNCHANGED <<encoderd, socket, received>> /\ polled' = TRUE  BY <1>2 DEF OtherMessage
  <2> QED  BY <2>1, <2>2 DEF TypeOK, encoderd, received
<1>3. ASSUME NEW e \in Encoders, Encode(e) PROVE TypeOK'  BY <1>3, EncodeTypes
<1>4. ASSUME NEW e \in Encoders, Stall(e) PROVE TypeOK'
  <2>1. stalled' \subseteq Encoders  BY <1>4 DEF Stall, TypeOK
  <2>2. stalls' \in 0..MaxStalls
    <3>1. stalls \in 0..MaxStalls /\ stalls < MaxStalls /\ stalls' = stalls + 1
      BY <1>4 DEF Stall, TypeOK
    <3> QED  BY <3>1
  <2>3. UNCHANGED <<now, last, cur_seg, skipped, socket, rotation, polled, received>>  BY <1>4 DEF Stall
  <2> QED  BY <2>1, <2>2, <2>3 DEF TypeOK, rotation, received
<1>5. ASSUME NEW e \in Encoders, Resume(e) PROVE TypeOK'
  <2>1. stalled' \subseteq Encoders  BY <1>5 DEF Resume, TypeOK
  <2>2. UNCHANGED <<now, last, cur_seg, stalls, skipped, socket, rotation, polled, received>>
    BY <1>5 DEF Resume
  <2> QED  BY <2>1, <2>2 DEF TypeOK, rotation, received
<1>6. ASSUME NEW e \in Encoders, Receive(e) PROVE TypeOK'  BY <1>6, ReceiveTypes
<1>7. CASE UNCHANGED vars  BY <1>7 DEF TypeOK, vars, encoderd, rotation
<1> QED  BY <1>1, <1>2, <1>3, <1>4, <1>5, <1>6, <1>7 DEF Next

(* Every variable keeps its type, and no queue of early packets exceeds    *)
(* its limit by more than one (handle_encoder_msg), for any number of      *)
(* encoders, however long one of them makes the others wait.               *)
THEOREM TypeCorrect == Spec => []TypeOK
<1> QED  BY TypeInit, TypeStep, PTL DEF Spec
-----------------------------------------------------------------------------
(* The streams of packets.                                                 *)

LEMMA Appended ==
  ASSUME NEW s \in Seq(Packet), NEW p \in Packet
  PROVE  /\ Append(s, p) \in Seq(Packet) /\ Len(s) \in Nat /\ Len(Append(s, p)) = Len(s) + 1
         /\ DOMAIN s = 1..Len(s) /\ DOMAIN Append(s, p) = 1..Len(s) + 1
         /\ \A i \in DOMAIN s : Append(s, p)[i] = s[i]
         /\ Append(s, p)[Len(s) + 1] = p
OBVIOUS

LEMMA Taken ==
  ASSUME NEW s \in Seq(Packet), s # <<>>
  PROVE  /\ Head(s) \in Packet /\ Head(s) = s[1] /\ 1 \in DOMAIN s
         /\ Tail(s) \in Seq(Packet) /\ Len(s) \in Nat /\ Len(Tail(s)) = Len(s) - 1
         /\ \A i \in DOMAIN Tail(s) : i \in Nat \ {0} /\ i + 1 \in DOMAIN s /\ Tail(s)[i] = s[i + 1]
OBVIOUS

(* What Receive works with: the packet, loggerd's record of the encoder,   *)
(* the packet's segment in the log, and the counters.                      *)
InHand(e) == Head(socket[e])
Known(e) == IF remote[e].seen THEN remote[e]
            ELSE [remote[e] EXCEPT !.seen = TRUE, !.inTime = (InHand(e).seg + segment = 0),
                                   !.offset = InHand(e).seg]
SegOf(e) == InHand(e).seg - Known(e).offset
WaitingThen(e) == max_waiting + (IF remote[e].seen THEN 0 ELSE 1)
ReadyThen(e) == ready_to_rotate + (IF SegOf(e) > segment /\ ~Known(e).marked THEN 1 ELSE 0)

LEMMA KnownIs ==
  ASSUME TypeOK, NEW e \in Encoders, socket[e] # <<>>
  PROVE  /\ Known(e) \in Remote /\ Known(e).seen
         /\ Known(e).q = remote[e].q /\ Known(e).marked = remote[e].marked
         /\ Known(e).current = remote[e].current /\ Known(e).recording = remote[e].recording
         /\ remote[e].seen => Known(e) = remote[e]
         /\ ~remote[e].seen => /\ Known(e).offset = InHand(e).seg
                              /\ Known(e).inTime = (InHand(e).seg + segment = 0)
<1>1. remote[e] \in Remote  BY DEF TypeOK, Remote
<1>2. InHand(e).seg \in Int  BY Taken DEF TypeOK, InHand, Packet
<1>3. CASE remote[e].seen
  <2>1. Known(e) = remote[e]  BY <1>3 DEF Known
  <2> QED  BY <1>1, <1>3, <2>1
<1>4. CASE ~remote[e].seen
  <2> DEFINE b == (InHand(e).seg + segment = 0)
             c == InHand(e).seg
             d == [remote[e] EXCEPT !.seen = TRUE, !.inTime = b, !.offset = c]
  <2>1. Known(e) = d  BY <1>4, Zenon DEF Known
  <2>2. b \in BOOLEAN /\ c \in Int  BY <1>2
  <2> HIDE DEF b, c
  <2>3. /\ d \in Remote /\ d.seen /\ d.inTime = b /\ d.offset = c /\ d.q = remote[e].q
        /\ d.marked = remote[e].marked /\ d.current = remote[e].current
        /\ d.recording = remote[e].recording
    BY <1>1, <2>2 DEF Remote
  <2> HIDE DEF d
  <2>4. /\ d.offset = InHand(e).seg /\ d.inTime = (InHand(e).seg + segment = 0)
    BY <2>3 DEF b, c
  <2> QED  BY <1>4, <2>1, <2>3, <2>4
<1> QED  BY <1>3, <1>4

(* The three things that can happen to a packet, and what they make of the *)
(* record.                                                                 *)
Writes(e) == /\ SegOf(e) = segment /\ Write(e, Known(e), InHand(e))
             /\ remote'[e].offset = Known(e).offset /\ remote'[e].q = <<>>
             /\ remote'[e].current = segment
             /\ remote'[e].marked = (remote[e].marked /\ remote[e].current = segment)
Keeps(e) == /\ SegOf(e) > segment /\ Keep(e, Known(e), InHand(e))
            /\ remote'[e].offset = Known(e).offset /\ remote'[e].marked
            /\ remote'[e].current = remote[e].current
            /\ remote'[e].recording = remote[e].recording
            /\ remote'[e].q = IF Len(remote[e].q) > MaxQueue THEN remote[e].q
                             ELSE Append(remote[e].q, InHand(e))
Discards(e) == /\ SegOf(e) < segment /\ Discard(e, Known(e))
               /\ remote'[e].q = remote[e].q

LEMMA Received ==
  ASSUME TypeOK, NEW e \in Encoders, Receive(e)
  PROVE  /\ socket[e] # <<>> /\ socket' = [socket EXCEPT ![e] = Tail(@)]
         /\ UNCHANGED encoderd /\ polled' = TRUE /\ last_camera_seen' = now
         /\ max_waiting' = WaitingThen(e) /\ RotateIfNeeded(ReadyThen(e), WaitingThen(e), now)
         /\ \A d \in Encoders \ {e} : remote'[d] = remote[d] /\ recorded'[d] = recorded[d]
         /\ remote'[e].seen /\ remote'[e].inTime = Known(e).inTime
         /\ Writes(e) \/ Keeps(e) \/ Discards(e)
<1> DEFINE p == InHand(e)  r == Known(e)
<1>1. /\ CASE SegOf(e) = segment -> Write(e, r, p)
            [] SegOf(e) > segment -> Keep(e, r, p)
            [] SegOf(e) < segment -> Discard(e, r)
      /\ max_waiting' = WaitingThen(e)
      /\ RotateIfNeeded(ReadyThen(e), WaitingThen(e), now)
  BY Zenon DEF Receive, InHand, Known, SegOf, WaitingThen, ReadyThen
<1>2. socket[e] # <<>> /\ socket' = [socket EXCEPT ![e] = Tail(@)] /\ UNCHANGED encoderd
      /\ polled' = TRUE /\ last_camera_seen' = now
  BY DEF Receive
<1>3. /\ r \in Remote /\ r.seen /\ r.q = remote[e].q /\ r.marked = remote[e].marked
      /\ r.current = remote[e].current /\ r.recording = remote[e].recording
  BY <1>2, KnownIs
<1>4. /\ segment \in Nat /\ remote \in [Encoders -> Remote]
      /\ recorded \in [Encoders -> SUBSET (Nat \X Nat)] /\ p.seg \in Nat /\ r.offset \in Int
  BY <1>2, <1>3, Taken DEF TypeOK, Remote, InHand, Packet
<1>5. /\ SegOf(e) = segment \/ SegOf(e) > segment \/ SegOf(e) < segment
      /\ SegOf(e) > segment => ~(SegOf(e) = segment) /\ ~(SegOf(e) < segment)
      /\ SegOf(e) < segment => ~(SegOf(e) = segment) /\ ~(SegOf(e) > segment)
  BY <1>4 DEF SegOf
<1> HIDE DEF p, r
<1>6. CASE SegOf(e) = segment
  <2> DEFINE written == FromKey(Append(r.q, p), Entered(r).recording)
             b == Entered(r).recording \/ written # {}
             n == [Entered(r) EXCEPT !.q = <<>>, !.recording = b]
  <2>1. Write(e, r, p)  BY <1>1, <1>5, <1>6, Zenon
  <2>2. /\ Entered(r) \in Remote /\ Entered(r).seen /\ Entered(r).inTime = r.inTime
        /\ Entered(r).offset = r.offset /\ Entered(r).current = segment
        /\ Entered(r).marked = (r.marked /\ r.current = segment)
    <3>1. \A a \in Remote, c \in Int :
            LET d == [a EXCEPT !.current = c, !.recording = FALSE, !.marked = FALSE]
            IN  /\ d \in Remote /\ d.seen = a.seen /\ d.inTime = a.inTime
                /\ d.offset = a.offset /\ d.current = c /\ d.marked = FALSE
      BY DEF Remote
    <3>2. r.marked \in BOOLEAN /\ segment \in Int  BY <1>3, <1>4 DEF Remote
    <3> QED  BY <1>3, <3>1, <3>2 DEF Entered
  <2>3. remote' = [remote EXCEPT ![e] = n] /\ \A d \in Encoders \ {e} : recorded'[d] = recorded[d]
    BY <1>4, <2>1 DEF Write
  <2>4. b \in BOOLEAN  BY Zenon
  <2> HIDE DEF b
  <2>5. /\ n.seen /\ n.inTime = r.inTime /\ n.offset = r.offset /\ n.q = <<>>
        /\ n.current = segment /\ n.marked = (r.marked /\ r.current = segment)
    BY <2>2, <2>4 DEF Remote
  <2> HIDE DEF n
  <2> QED  BY <1>1, <1>2, <1>3, <1>4, <1>6, <2>1, <2>3, <2>5 DEF Writes, p, r
<1>7. CASE SegOf(e) > segment
  <2> DEFINE q == IF Len(r.q) > MaxQueue THEN r.q ELSE Append(r.q, p)
             n == [r EXCEPT !.marked = TRUE, !.q = q]
  <2>1. Keep(e, r, p)  BY <1>1, <1>5, <1>7, Zenon
  <2>2. remote' = [remote EXCEPT ![e] = n] /\ recorded' = recorded  BY <2>1 DEF Keep
  <2> HIDE DEF q
  <2>3. /\ n.seen /\ n.inTime = r.inTime /\ n.offset = r.offset /\ n.q = q
        /\ n.current = r.current /\ n.marked /\ n.recording = r.recording
    BY <1>3 DEF Remote
  <2> HIDE DEF n
  <2> QED  BY <1>1, <1>2, <1>3, <1>4, <1>7, <2>1, <2>2, <2>3 DEF Keeps, p, r, q
<1>8. CASE SegOf(e) < segment
  <2> DEFINE n == [r EXCEPT !.offset = -segment]
  <2>1. Discard(e, r)  BY <1>1, <1>5, <1>8, Zenon
  <2>2. remote' = [remote EXCEPT ![e] = n] /\ recorded' = recorded  BY <2>1 DEF Discard
  <2>3. n.seen /\ n.inTime = r.inTime /\ n.q = r.q  BY <1>3 DEF Remote
  <2> HIDE DEF n
  <2> QED  BY <1>1, <1>2, <1>3, <1>4, <1>8, <2>1, <2>2, <2>3 DEF Discards, p, r
<1> QED  BY <1>5, <1>6, <1>7, <1>8

Seen(rem) == {e \in Encoders : rem[e].seen}

(* The segments of the packets that were kept, that are on their way and   *)
(* that are yet to be sent follow on each other.                           *)
Ordered(e) ==
  LET s == socket[e]
      q == remote[e].q
  IN  /\ cur_seg[e] * Length <= last[e] + 1
      /\ \A i \in DOMAIN s : s[i].seg <= cur_seg[e]
      /\ \A i, j \in DOMAIN s : i < j => s[i].seg <= s[j].seg
      /\ \A i \in DOMAIN q : /\ q[i].seg <= cur_seg[e]
                             /\ \A j \in DOMAIN s : q[i].seg <= s[j].seg

OfSegment(p) == p.seg * Length <= p.frame /\ p.frame < (p.seg + 1) * Length

Framed(e) == /\ \A i \in DOMAIN socket[e] : OfSegment(socket[e][i])
             /\ \A i \in DOMAIN remote[e].q : OfSegment(remote[e].q[i])

Fresh(e) == ~remote[e].seen => remote[e] = FreshRemote

StreamInv ==
  /\ \A e \in Encoders : Fresh(e) /\ Ordered(e) /\ (~skipped => Framed(e))
  /\ max_waiting = Cardinality(Seen(remote))

LEMMA StreamsTyped ==
  ASSUME TypeOK, NEW e \in Encoders
  PROVE  /\ socket[e] \in Seq(Packet) /\ remote[e] \in Remote /\ remote[e].q \in Seq(Packet)
         /\ cur_seg[e] \in Nat /\ last[e] \in Int /\ last[e] >= -1 /\ now \in Nat /\ segment \in Nat
         /\ Length \in Nat \ {0} /\ MaxLag \in Nat
         /\ \A i \in DOMAIN socket[e] :
              socket[e][i] \in Packet /\ socket[e][i].seg \in Nat /\ socket[e][i].frame \in Nat
         /\ \A i \in DOMAIN remote[e].q :
              /\ remote[e].q[i] \in Packet /\ remote[e].q[i].seg \in Nat
              /\ remote[e].q[i].frame \in Nat
<1>1. \A s \in Seq(Packet) : \A i \in DOMAIN s : s[i] \in Packet
  OBVIOUS
<1>2. \A p \in Packet : p.seg \in Nat /\ p.frame \in Nat  BY DEF Packet
<1>3. /\ socket[e] \in Seq(Packet) /\ remote[e] \in Remote /\ remote[e].q \in Seq(Packet)
  BY DEF TypeOK, Remote
<1>4. /\ cur_seg[e] \in Nat /\ last[e] \in Int /\ last[e] >= -1 /\ now \in Nat /\ segment \in Nat
      /\ Length \in Nat \ {0} /\ MaxLag \in Nat
  BY LogRotationAssumption DEF TypeOK
<1> QED  BY <1>1, <1>2, <1>3, <1>4

LEMMA StreamEncode ==
  ASSUME TypeOK, StreamInv, NEW e \in Encoders, Encode(e)
  PROVE  StreamInv'
<1>1. PICK p \in Packet : Sends(e, p)  BY EncodeSends
<1>2. /\ p.seg \in Nat /\ p.frame \in Nat /\ p.seg >= cur_seg[e] /\ p.frame >= last[e] + 1
      /\ p.seg * Length <= p.frame
      /\ ~skipped' => OfSegment(p) /\ ~skipped
  <2>1. p.seg \in Nat /\ p.frame \in Nat  BY DEF Packet
  <2>2. p.seg >= cur_seg[e] /\ p.frame >= last[e] + 1 /\ p.seg * Length <= p.frame
    <3>1. cur_seg[e] \in Nat /\ last[e] \in Int /\ Length \in Nat  BY StreamsTyped
    <3>2. cur_seg[e] * Length <= last[e] + 1  BY DEF StreamInv, Ordered
    <3>3. p.frame >= last[e] + 1  BY <1>1, <2>1, <3>1 DEF Sends
    <3>4. CASE p.seg = cur_seg[e]
      <4>1. cur_seg[e] * Length \in Int  BY <3>1
      <4> QED  BY <2>1, <3>1, <3>2, <3>3, <3>4, <4>1
    <3>5. CASE p.seg = cur_seg[e] + 1 /\ p.frame >= p.seg * Length
      <4>1. p.seg * Length \in Int  BY <2>1, <3>1
      <4> QED  BY <2>1, <3>1, <3>3, <3>5, <4>1
    <3> QED  BY <1>1, <3>4, <3>5 DEF Sends
  <2>3. ~skipped' => ~(p.frame >= (p.seg + 1) * Length) /\ ~skipped  BY <1>1 DEF Sends
  <2>4. (p.seg + 1) * Length \in Int  BY <2>1, StreamsTyped
  <2> QED  BY <2>1, <2>2, <2>3, <2>4 DEF OfSegment
<1>3. /\ last'[e] = p.frame /\ cur_seg'[e] = p.seg /\ socket'[e] = Append(socket[e], p)
      /\ \A d \in Encoders \ {e} :
           last'[d] = last[d] /\ cur_seg'[d] = cur_seg[d] /\ socket'[d] = socket[d]
      /\ UNCHANGED <<remote, max_waiting>>
  BY <1>1 DEF Sends, TypeOK, received
<1> DEFINE s == socket[e]  q == remote[e].q  n == Len(s)  t == Append(s, p)
<1>4. /\ n \in Nat /\ DOMAIN s = 1..n /\ DOMAIN t = 1..n + 1
      /\ \A i \in 1..n : t[i] = s[i]
      /\ t[n + 1] = p
  BY StreamsTyped, Appended
<1>5. Ordered(e) /\ (~skipped => Framed(e))  BY DEF StreamInv
<1> HIDE DEF s, q, n, t
<1>6. Ordered(e)'
  <2>1. /\ \A i \in 1..n : s[i].seg \in Nat /\ s[i].seg <= cur_seg[e]
        /\ \A i, j \in 1..n : i < j => s[i].seg <= s[j].seg
        /\ \A i \in DOMAIN q : /\ q[i].seg \in Nat /\ q[i].seg <= cur_seg[e]
                               /\ \A j \in 1..n : q[i].seg <= s[j].seg
    BY <1>4, <1>5, StreamsTyped DEF Ordered, s, q
  <2>2. cur_seg[e] \in Nat /\ p.seg * Length <= p.frame + 1
    BY <1>2, StreamsTyped
  <2>3. \A i \in 1..n + 1 : t[i].seg <= p.seg /\ (i \in 1..n \/ i = n + 1)
    BY <1>2, <1>4, <2>1, <2>2
  <2>4. ASSUME NEW i \in 1..n + 1, NEW j \in 1..n + 1, i < j  PROVE t[i].seg <= t[j].seg
    <3>1. i \in 1..n  BY <1>4, <2>4
    <3>2. CASE j \in 1..n  BY <1>4, <2>1, <2>4, <3>1, <3>2
    <3>3. CASE j = n + 1  BY <1>4, <2>3, <3>3
    <3> QED  BY <2>3, <3>2, <3>3
  <2>5. ASSUME NEW i \in DOMAIN q
        PROVE  q[i].seg <= p.seg /\ \A j \in 1..n + 1 : q[i].seg <= t[j].seg
    <3>1. q[i].seg <= p.seg  BY <1>2, <2>1, <2>2
    <3> QED  BY <1>4, <2>1, <2>3, <3>1
  <2> QED  BY <1>3, <1>4, <2>2, <2>3, <2>4, <2>5 DEF Ordered, s, q, t
<1>7. ~skipped' => Framed(e)'
  <2> SUFFICES ASSUME ~skipped'  PROVE Framed(e)'
    OBVIOUS
  <2>1. /\ \A i \in 1..n : OfSegment(s[i])
        /\ \A i \in DOMAIN q : OfSegment(q[i])
    BY <1>2, <1>4, <1>5 DEF Framed, s, q
  <2>2. \A i \in 1..n + 1 : OfSegment(t[i])  BY <1>2, <1>4, <2>1
  <2> QED  BY <1>3, <1>4, <2>1, <2>2 DEF Framed, s, q, t, OfSegment
<1>8. ASSUME NEW d \in Encoders \ {e}  PROVE Ordered(d)' /\ (~skipped' => Framed(d)')
  BY <1>2, <1>3 DEF StreamInv, Ordered, Framed, OfSegment
<1>9. \A d \in Encoders : Fresh(d)'  BY <1>3 DEF StreamInv, Fresh
<1>10. (max_waiting = Cardinality(Seen(remote)))'  BY <1>3 DEF StreamInv, Seen
<1> QED  BY <1>6, <1>7, <1>8, <1>9, <1>10 DEF StreamInv

(* What is in hand, left of the socket, and kept after a packet was taken. *)
LEMMA StreamTaken ==
  ASSUME TypeOK, StreamInv, NEW e \in Encoders, Receive(e)
  PROVE  /\ InHand(e) \in Packet /\ InHand(e).seg \in Nat /\ InHand(e).frame \in Nat
         /\ InHand(e) = socket[e][1] /\ 1 \in DOMAIN socket[e]
         /\ ~skipped => OfSegment(InHand(e))
         /\ socket'[e] = Tail(socket[e])
         /\ \A j \in DOMAIN socket'[e] :
              /\ j \in Nat \ {0} /\ j + 1 \in DOMAIN socket[e] /\ socket'[e][j] = socket[e][j + 1]
              /\ InHand(e).seg <= socket'[e][j].seg
         /\ \A i \in DOMAIN remote[e].q : remote[e].q[i].seg <= InHand(e).seg
         /\ \A i \in DOMAIN remote'[e].q :
              \/ i \in DOMAIN remote[e].q /\ remote'[e].q[i] = remote[e].q[i]
              \/ remote'[e].q[i] = InHand(e)
<1>1. socket[e] # <<>> /\ socket'[e] = Tail(socket[e]) /\ (Writes(e) \/ Keeps(e) \/ Discards(e))
  BY Received DEF TypeOK
<1>2. /\ InHand(e) \in Packet /\ InHand(e) = socket[e][1] /\ 1 \in DOMAIN socket[e]
      /\ \A j \in DOMAIN socket'[e] :
           j \in Nat \ {0} /\ j + 1 \in DOMAIN socket[e] /\ socket'[e][j] = socket[e][j + 1]
  BY <1>1, StreamsTyped, Taken DEF InHand
<1>3. Ordered(e) /\ (~skipped => Framed(e))  BY DEF StreamInv
<1>4. ASSUME NEW j \in DOMAIN socket'[e]  PROVE InHand(e).seg <= socket'[e][j].seg
  <2>1. j + 1 \in DOMAIN socket[e] /\ 1 < j + 1  BY <1>2
  <2> QED  BY <1>2, <1>3, <2>1 DEF Ordered
<1>5. \A i \in DOMAIN remote[e].q : remote[e].q[i].seg <= InHand(e).seg
  BY <1>2, <1>3 DEF Ordered
<1>6. ASSUME NEW i \in DOMAIN remote'[e].q
      PROVE  \/ i \in DOMAIN remote[e].q /\ remote'[e].q[i] = remote[e].q[i]
             \/ remote'[e].q[i] = InHand(e)
  <2>1. CASE remote'[e].q = <<>>  BY <1>6, <2>1
  <2>2. CASE remote'[e].q = remote[e].q  BY <1>6, <2>2
  <2>3. CASE remote'[e].q = Append(remote[e].q, InHand(e))
    BY <1>2, <1>6, <2>3, StreamsTyped, Appended
  <2> QED  BY <1>1, <2>1, <2>2, <2>3 DEF Writes, Keeps, Discards
<1>7. ~skipped => OfSegment(InHand(e))  BY <1>2, <1>3 DEF Framed
<1> QED  BY <1>1, <1>2, <1>4, <1>5, <1>6, <1>7 DEF Packet

LEMMA StreamReceive ==
  ASSUME TypeOK, StreamInv, NEW e \in Encoders, Receive(e)
  PROVE  StreamInv'
<1>1. /\ UNCHANGED <<last, cur_seg, skipped>>
      /\ max_waiting' = WaitingThen(e)
      /\ \A d \in Encoders \ {e} : remote'[d] = remote[d] /\ socket'[d] = socket[d]
      /\ remote'[e].seen
  BY Received DEF encoderd, TypeOK
<1>2. /\ InHand(e) = socket[e][1] /\ 1 \in DOMAIN socket[e] /\ InHand(e).seg \in Nat
      /\ ~skipped => OfSegment(InHand(e))
      /\ \A j \in DOMAIN socket'[e] :
           /\ j \in Nat \ {0} /\ j + 1 \in DOMAIN socket[e] /\ socket'[e][j] = socket[e][j + 1]
           /\ InHand(e).seg <= socket'[e][j].seg
      /\ \A i \in DOMAIN remote'[e].q :
           \/ i \in DOMAIN remote[e].q /\ remote'[e].q[i] = remote[e].q[i]
           \/ remote'[e].q[i] = InHand(e)
  BY StreamTaken
<1>3. Ordered(e) /\ (~skipped => Framed(e))  BY DEF StreamInv
<1>4. Ordered(e)'
  <2> DEFINE s == socket[e]  t == socket'[e]  u == remote'[e].q
  <2>1. cur_seg'[e] * Length <= last'[e] + 1  BY <1>1, <1>3 DEF Ordered
  <2>2. \A i \in DOMAIN t : t[i].seg <= cur_seg[e]  BY <1>2, <1>3 DEF Ordered
  <2>3. ASSUME NEW i \in DOMAIN t, NEW j \in DOMAIN t, i < j  PROVE t[i].seg <= t[j].seg
    <3>1. i + 1 \in DOMAIN s /\ j + 1 \in DOMAIN s /\ i + 1 < j + 1  BY <1>2, <2>3
    <3> QED  BY <1>2, <1>3, <3>1 DEF Ordered
  <2>4. ASSUME NEW i \in DOMAIN u
        PROVE  u[i].seg <= cur_seg[e] /\ \A j \in DOMAIN t : u[i].seg <= t[j].seg
    BY <1>2, <1>3 DEF Ordered
  <2> QED  BY <1>1, <2>1, <2>2, <2>3, <2>4 DEF Ordered
<1>5. ~skipped' => Framed(e)'  BY <1>1, <1>2, <1>3 DEF Framed, OfSegment
<1>6. ASSUME NEW d \in Encoders \ {e}  PROVE Ordered(d)' /\ (~skipped' => Framed(d)')
  BY <1>1 DEF StreamInv, Ordered, Framed, OfSegment
<1>7. \A d \in Encoders : Fresh(d)'  BY <1>1 DEF StreamInv, Fresh
<1>8. max_waiting' = Cardinality(Seen(remote'))
  <2>1. Seen(remote') = Seen(remote) \cup {e}  BY <1>1 DEF Seen
  <2>2. IsFiniteSet(Seen(remote))  BY LogRotationAssumption, FS_Subset DEF Seen
  <2>3. Cardinality(Seen(remote')) =
          IF e \in Seen(remote) THEN Cardinality(Seen(remote)) ELSE Cardinality(Seen(remote)) + 1
    BY <2>1, <2>2, FS_AddElement
  <2>4. Cardinality(Seen(remote)) \in Nat  BY <2>2, FS_CardinalityType
  <2>5. e \in Seen(remote) <=> remote[e].seen  BY DEF Seen
  <2> QED  BY <1>1, <2>3, <2>4, <2>5 DEF StreamInv, WaitingThen
<1> QED  BY <1>4, <1>5, <1>6, <1>7, <1>8 DEF StreamInv, Seen
-----------------------------------------------------------------------------
(* Alignment.                                                              *)

(* The encoders known to have left segment seg.                            *)
Counted(rem, seg) == {e \in Seen(rem) : rem[e].marked /\ rem[e].current = seg}

NotBefore(ps, seg) == \A i \in DOMAIN ps : ps[i].seg >= seg

(* loggerd, in segment seg, follows an encoder that is in segment c, with  *)
(* record r and packets s on their way: nothing that is kept or to come is *)
(* of an older segment, nor of seg itself once the encoder counts as       *)
(* ready; and without a mark nothing is kept.                              *)
Follows(r, s, c, seg) ==
  /\ r.offset = 0 /\ r.current <= seg
  /\ ~r.marked => r.q = <<>> /\ r.current = seg
  /\ LET first == IF r.marked /\ r.current = seg THEN seg + 1 ELSE seg
     IN  NotBefore(r.q, first) /\ NotBefore(s, first) /\ c >= first

Following == ~fallback /\ \A e \in Encoders : remote[e].inTime

FollowInv == Following =>
  /\ \A e \in Seen(remote) : Follows(remote[e], socket[e], cur_seg[e], segment)
  /\ ready_to_rotate = Cardinality(Counted(remote, segment))

LEMMA SetsFinite ==
  ASSUME NEW rem, NEW seg
  PROVE  /\ IsFiniteSet(Seen(rem)) /\ IsFiniteSet(Counted(rem, seg))
         /\ Counted(rem, seg) \subseteq Seen(rem)
         /\ Cardinality(Seen(rem)) \in Nat /\ Cardinality(Counted(rem, seg)) \in Nat
<1>1. Seen(rem) \subseteq Encoders /\ Counted(rem, seg) \subseteq Encoders
      /\ Counted(rem, seg) \subseteq Seen(rem)
  BY DEF Seen, Counted
<1> QED  BY <1>1, LogRotationAssumption, FS_Subset, FS_CardinalityType

(* A rotation because all are ready: then all are counted, and from the    *)
(* next segment on none is.                                                *)
LEMMA RotationFollows ==
  ASSUME NEW rem, NEW soc, segment \in Nat, \A e \in Seen(rem) : rem[e].current \in Int,
         \A e \in Seen(rem) : Follows(rem[e], soc[e], cur_seg[e], segment),
         NEW ready, ready = Cardinality(Counted(rem, segment)),
         NEW waiting, waiting = Cardinality(Seen(rem)), NEW camera,
         RotateIfNeeded(ready, waiting, camera), ~fallback'
  PROVE  /\ \A e \in Seen(rem) : Follows(rem[e], soc[e], cur_seg[e], segment')
         /\ ready_to_rotate' = Cardinality(Counted(rem, segment'))
         /\ ~fallback /\ segment' \in {segment, segment + 1}
<1>1. CASE AllReady(ready, waiting)
  <2>1. segment' = segment + 1 /\ ready_to_rotate' = 0 /\ ~fallback
    BY <1>1 DEF RotateIfNeeded
  <2>2. Counted(rem, segment) = Seen(rem)
    <3>1. Cardinality(Counted(rem, segment)) = Cardinality(Seen(rem))  BY <1>1 DEF AllReady
    <3> QED  BY <3>1, SetsFinite, FS_Subset
  <2>3. ASSUME NEW e \in Seen(rem)
        PROVE  rem[e].current # segment + 1 /\ Follows(rem[e], soc[e], cur_seg[e], segment + 1)
    <3>1. rem[e].marked /\ rem[e].current = segment  BY <2>2 DEF Counted
    <3> QED  BY <3>1 DEF Follows
  <2>4. Counted(rem, segment + 1) = {}  BY <2>3 DEF Counted
  <2> QED  BY <2>1, <2>3, <2>4, FS_EmptySet
<1>2. CASE ~AllReady(ready, waiting)
  <2>1. ready_to_rotate' = ready /\ UNCHANGED <<segment, fallback>>
    BY <1>2 DEF RotateIfNeeded
  <2> QED  BY <2>1
<1> QED  BY <1>1, <1>2

(* A packet is taken by a loggerd that follows.                            *)
LEMMA PacketFollows ==
  ASSUME TypeOK, StreamInv, FollowInv, NEW e \in Encoders, Receive(e), Following, Following'
  PROVE  /\ InHand(e).seg >= segment
         /\ \A i \in DOMAIN remote[e].q : remote[e].q[i].seg >= segment
         /\ (Writes(e) /\ InHand(e).seg = segment) \/ Keeps(e)
         /\ remote[e].seen \/ segment = 0
         /\ \A d \in Seen(remote') : Follows(remote'[d], socket'[d], cur_seg[d], segment)
         /\ ReadyThen(e) = Cardinality(Counted(remote', segment))
<1> DEFINE p == InHand(e)  r == remote[e]  n == remote'[e]  t == socket'[e]
<1>1. /\ socket[e] # <<>> /\ n.seen /\ n.inTime = Known(e).inTime
      /\ Writes(e) \/ Keeps(e) \/ Discards(e)
      /\ \A d \in Encoders \ {e} : remote'[d] = remote[d] /\ socket'[d] = socket[d]
  BY Received DEF TypeOK
<1>2. /\ p.seg \in Nat /\ p = socket[e][1] /\ 1 \in DOMAIN socket[e]
      /\ \A j \in DOMAIN t : /\ j + 1 \in DOMAIN socket[e] /\ t[j] = socket[e][j + 1]
                             /\ p.seg <= t[j].seg
      /\ \A i \in DOMAIN n.q : \/ i \in DOMAIN r.q /\ n.q[i] = r.q[i]
                              \/ n.q[i] = p
  BY StreamTaken
<1>3. /\ segment \in Nat /\ r \in Remote /\ r.current \in Int /\ r.marked \in BOOLEAN
      /\ \A j \in DOMAIN t : t[j].seg \in Nat
      /\ cur_seg[e] \in Nat /\ p.seg <= cur_seg[e]
  <2>1. p.seg <= cur_seg[e]  BY <1>2 DEF StreamInv, Ordered
  <2> QED  BY <1>2, <2>1, StreamsTyped DEF Remote
<1>4. Fresh(e)  BY DEF StreamInv
<1>5. n.inTime  BY DEF Following
<1>6. CASE ~r.seen
  <2>1. /\ Known(e).offset = p.seg /\ p.seg = 0 /\ segment = 0
        /\ r.q = <<>> /\ ~r.marked /\ r.current = -1
    <3>1. r = FreshRemote  BY <1>4, <1>6 DEF Fresh
    <3>2. r.q = <<>> /\ ~r.marked /\ r.current = -1  BY <3>1 DEF FreshRemote
    <3>3. Known(e).offset = p.seg /\ Known(e).inTime = (p.seg + segment = 0)
      BY <1>1, <1>6, KnownIs
    <3>4. p.seg + segment = 0  BY <1>1, <1>5, <3>3
    <3> HIDE DEF p, r
    <3>5. p.seg = 0 /\ segment = 0  BY <1>2, <1>3, <3>4
    <3> QED  BY <3>2, <3>3, <3>5
  <2>2. SegOf(e) = segment  BY <2>1 DEF SegOf
  <2>3. Writes(e)  BY <1>1, <1>3, <2>2 DEF Keeps, Discards
  <2>4. Follows(n, t, cur_seg[e], segment)
    BY <1>3, <2>1, <2>3 DEF Writes, Follows, NotBefore
  <2>5. Counted(remote', segment) = Counted(remote, segment)
    <3>1. ~n.marked  BY <2>1, <2>3 DEF Writes
    <3> QED  BY <1>1, <1>6, <3>1 DEF Counted, Seen
  <2>6. ReadyThen(e) = ready_to_rotate  BY <1>3, <2>2 DEF ReadyThen, TypeOK
  <2>7. \A d \in Seen(remote') : Follows(remote'[d], socket'[d], cur_seg[d], segment)
    BY <1>1, <2>4 DEF FollowInv, Seen
  <2> QED  BY <2>1, <2>3, <2>5, <2>6, <2>7 DEF FollowInv
<1>7. CASE r.seen
  <2> DEFINE first == IF r.marked /\ r.current = segment THEN segment + 1 ELSE segment
  <2>1. /\ r.offset = 0 /\ r.current <= segment
        /\ ~r.marked => r.q = <<>> /\ r.current = segment
        /\ \A i \in DOMAIN r.q : r.q[i].seg >= first
        /\ \A i \in DOMAIN socket[e] : socket[e][i].seg >= first
        /\ cur_seg[e] >= first
    BY <1>7 DEF FollowInv, Follows, Seen, NotBefore
  <2>2. Known(e) = r /\ SegOf(e) = p.seg  BY <1>1, <1>2, <1>7, <2>1, KnownIs DEF SegOf
  <2>3. first \in Nat /\ first >= segment /\ p.seg >= first  BY <1>2, <1>3, <2>1
  <2>4. \A i \in DOMAIN r.q : r.q[i].seg \in Nat /\ r.q[i].seg >= segment
    BY <1>3, <2>1, <2>3, StreamsTyped
  <2>5. CASE Writes(e)
    <3>1. p.seg = segment /\ ~(r.marked /\ r.current = segment)
      BY <1>3, <2>2, <2>3, <2>5 DEF Writes
    <3>2. ~n.marked /\ n.current = segment /\ n.q = <<>> /\ n.offset = 0
      BY <2>1, <2>2, <2>5, <3>1 DEF Writes
    <3>3. NotBefore(t, segment)  BY <1>2, <3>1, <1>3 DEF NotBefore
    <3>4. Follows(n, t, cur_seg[e], segment)
      <4>1. cur_seg[e] >= segment  BY <1>3, <3>1
      <4> QED  BY <1>3, <3>2, <3>3, <4>1 DEF Follows, NotBefore
    <3>5. Counted(remote', segment) = Counted(remote, segment)
      BY <1>1, <3>1, <3>2 DEF Counted, Seen
    <3>6. ReadyThen(e) = ready_to_rotate  BY <1>3, <2>2, <3>1 DEF ReadyThen, TypeOK
    <3>7. \A d \in Seen(remote') : Follows(remote'[d], socket'[d], cur_seg[d], segment)
      BY <1>1, <3>4 DEF FollowInv, Seen
    <3> QED  BY <1>7, <2>3, <2>4, <2>5, <3>1, <3>5, <3>6, <3>7 DEF FollowInv
  <2>6. CASE Keeps(e)
    <3>1. p.seg >= segment + 1 /\ n.marked /\ n.current = r.current /\ n.offset = 0
      BY <1>2, <1>3, <2>1, <2>2, <2>6 DEF Keeps
    <3> DEFINE then == IF r.current = segment THEN segment + 1 ELSE segment
    <3>2. NotBefore(t, then)
      <4>1. \A j \in DOMAIN t : t[j].seg >= segment + 1  BY <1>2, <1>3, <3>1
      <4> QED  BY <1>3, <4>1 DEF NotBefore
    <3>3. NotBefore(n.q, then)
      <4>1. \A i \in DOMAIN r.q : r.q[i].seg >= then
        <5>1. CASE r.marked  BY <2>1, <5>1
        <5>2. CASE ~r.marked  BY <2>1, <5>2
        <5> QED  BY <5>1, <5>2
      <4>2. p.seg >= then  BY <1>2, <1>3, <3>1
      <4> QED  BY <1>2, <4>1, <4>2 DEF NotBefore
    <3>4. Follows(n, t, cur_seg[e], segment)
      <4>1. cur_seg[e] >= then  BY <1>2, <1>3, <3>1
      <4> QED  BY <2>1, <3>1, <3>2, <3>3, <4>1 DEF Follows
    <3>5. \A d \in Seen(remote') : Follows(remote'[d], socket'[d], cur_seg[d], segment)
      BY <1>1, <3>4 DEF FollowInv, Seen
    <3>6. ReadyThen(e) = Cardinality(Counted(remote', segment))
      <4>1. ready_to_rotate = Cardinality(Counted(remote, segment))  BY DEF FollowInv
      <4>2. SegOf(e) > segment  BY <1>2, <1>3, <2>2, <3>1
      <4>3. CASE r.marked
        <5>1. Counted(remote', segment) = Counted(remote, segment)
          BY <1>1, <1>7, <3>1, <4>3 DEF Counted, Seen
        <5>2. ReadyThen(e) = ready_to_rotate  BY <2>2, <4>3 DEF ReadyThen, TypeOK
        <5> QED  BY <4>1, <5>1, <5>2
      <4>4. CASE ~r.marked
        <5>1. Counted(remote', segment) = Counted(remote, segment) \cup {e}
          BY <1>1, <1>7, <2>1, <3>1, <4>4 DEF Counted, Seen
        <5>2. e \notin Counted(remote, segment)  BY <4>4 DEF Counted
        <5>3. Cardinality(Counted(remote, segment) \cup {e}) = Cardinality(Counted(remote, segment)) + 1
          BY <5>2, SetsFinite, FS_AddElement
        <5>4. ReadyThen(e) = ready_to_rotate + 1  BY <2>2, <4>2, <4>4 DEF ReadyThen, TypeOK
        <5> QED  BY <4>1, <5>1, <5>3, <5>4
      <4> QED  BY <4>3, <4>4
    <3>7. p.seg >= segment  BY <1>2, <1>3, <3>1
    <3> QED  BY <1>7, <2>4, <2>6, <3>5, <3>6, <3>7
  <2>7. ~Discards(e)  BY <1>2, <1>3, <2>2, <2>3 DEF Discards
  <2> QED  BY <1>1, <2>5, <2>6, <2>7
<1> QED  BY <1>6, <1>7

(* Who does not follow once, or was late once, never does again.           *)
LEMMA FollowingBefore ==
  ASSUME TypeOK, StreamInv, NEW e \in Encoders, Receive(e), Following'
  PROVE  Following
<1>1. /\ RotateIfNeeded(ReadyThen(e), WaitingThen(e), now) /\ socket[e] # <<>>
      /\ \A d \in Encoders \ {e} : remote'[d] = remote[d]
      /\ remote'[e].inTime = Known(e).inTime
  BY Received
<1>2. ~fallback
  <2>1. fallback' = fallback \/ fallback' = (fallback \/ ~AllReady(ReadyThen(e), WaitingThen(e)))
    BY <1>1 DEF RotateIfNeeded
  <2> QED  BY <2>1 DEF Following
<1>3. remote[e].inTime
  <2>1. CASE remote[e].seen
    <3>1. Known(e) = remote[e]  BY <1>1, <2>1, KnownIs
    <3>2. remote'[e].inTime  BY DEF Following
    <3> QED  BY <1>1, <3>1, <3>2
  <2>2. CASE ~remote[e].seen
    <3>1. remote[e] = FreshRemote  BY <2>2 DEF StreamInv, Fresh
    <3> QED  BY <3>1 DEF FreshRemote
  <2> QED  BY <2>1, <2>2
<1> QED  BY <1>1, <1>2, <1>3 DEF Following

LEMMA FollowReceive ==
  ASSUME TypeOK, StreamInv, FollowInv, NEW e \in Encoders, Receive(e)
  PROVE  FollowInv'
<1> SUFFICES ASSUME Following'
             PROVE  /\ \A d \in Seen(remote') : Follows(remote'[d], socket'[d], cur_seg'[d], segment')
                    /\ ready_to_rotate' = Cardinality(Counted(remote', segment'))
  BY DEF FollowInv, Seen, Counted, Follows, NotBefore
<1>1. Following  BY FollowingBefore
<1>2. /\ \A d \in Seen(remote') : Follows(remote'[d], socket'[d], cur_seg[d], segment)
      /\ ReadyThen(e) = Cardinality(Counted(remote', segment))
  BY <1>1, PacketFollows
<1>3. RotateIfNeeded(ReadyThen(e), WaitingThen(e), now) /\ max_waiting' = WaitingThen(e)
      /\ UNCHANGED cur_seg
  BY Received DEF encoderd
<1>4. WaitingThen(e) = Cardinality(Seen(remote'))  BY <1>3, StreamReceive DEF StreamInv, Seen
<1>5. segment \in Nat /\ \A d \in Seen(remote') : remote'[d].current \in Int
  BY ReceiveTypes DEF TypeOK, Seen
<1>6. ~fallback'  BY DEF Following
<1> QED  BY <1>2, <1>3, <1>4, <1>5, <1>6, RotationFollows

LEMMA FollowEncode ==
  ASSUME TypeOK, StreamInv, FollowInv, NEW e \in Encoders, Encode(e)
  PROVE  FollowInv' /\ (Following' => Following)
<1>1. PICK p \in Packet : Sends(e, p)  BY EncodeSends
<1>2. /\ cur_seg'[e] = p.seg /\ p.seg >= cur_seg[e] /\ socket'[e] = Append(socket[e], p)
      /\ \A d \in Encoders \ {e} : cur_seg'[d] = cur_seg[d] /\ socket'[d] = socket[d]
      /\ UNCHANGED <<remote, segment, ready_to_rotate, fallback>>
  <2>1. cur_seg[e] \in Nat  BY DEF TypeOK
  <2>2. p.seg >= cur_seg[e]  BY <1>1, <2>1 DEF Sends
  <2> QED  BY <1>1, <2>2 DEF Sends, TypeOK, received, rotation
<1> SUFFICES ASSUME Following'
             PROVE  /\ Following
                    /\ \A d \in Seen(remote) : Follows(remote[d], socket'[d], cur_seg'[d], segment)
                    /\ ready_to_rotate = Cardinality(Counted(remote, segment))
  BY <1>2 DEF FollowInv, Seen, Counted, Follows, NotBefore
<1>3. Following  BY <1>2 DEF Following
<1>4. ASSUME NEW d \in Seen(remote), d # e
      PROVE  Follows(remote[d], socket'[d], cur_seg'[d], segment)
  BY <1>2, <1>3, <1>4 DEF FollowInv, Seen
<1>5. ASSUME e \in Seen(remote)
      PROVE  Follows(remote[e], socket'[e], cur_seg'[e], segment)
  <2> DEFINE r == remote[e]  s == socket[e]  t == socket'[e]
             first == IF r.marked /\ r.current = segment THEN segment + 1 ELSE segment
  <2>1. /\ r.offset = 0 /\ r.current <= segment
        /\ ~r.marked => r.q = <<>> /\ r.current = segment
        /\ NotBefore(r.q, first) /\ NotBefore(s, first) /\ cur_seg[e] >= first
    BY <1>3, <1>5 DEF FollowInv, Follows
  <2>2. first \in Nat /\ cur_seg[e] \in Nat /\ p.seg \in Nat
    BY DEF TypeOK, Packet
  <2> HIDE DEF first
  <2>3. cur_seg'[e] >= first  BY <1>2, <2>1, <2>2
  <2>4. NotBefore(t, first)
    <3>1. /\ DOMAIN s = 1..Len(s) /\ DOMAIN t = 1..Len(s) + 1 /\ Len(s) \in Nat
          /\ \A i \in DOMAIN s : t[i] = s[i]
          /\ t[Len(s) + 1] = p
      BY <1>2, StreamsTyped, Appended
    <3>2. p.seg >= first  BY <1>2, <2>3
    <3>3. \A i \in 1..Len(s) + 1 : i \in 1..Len(s) \/ i = Len(s) + 1  BY <3>1
    <3> QED  BY <2>1, <3>1, <3>2, <3>3 DEF NotBefore
  <2> QED  BY <2>1, <2>3, <2>4 DEF Follows, first
<1>6. ready_to_rotate = Cardinality(Counted(remote, segment))  BY <1>3 DEF FollowInv
<1> QED  BY <1>3, <1>4, <1>5, <1>6

LEMMA DivIs ==
  ASSUME NEW a \in Nat, NEW s \in Nat, NEW n \in Nat \ {0}, s * n <= a, a < (s + 1) * n
  PROVE  a \div n = s
OBVIOUS

(* What is written from the queue and the socket is of the segment it is   *)
(* written to.                                                             *)
LEMMA AlignedReceive ==
  ASSUME TypeOK, StreamInv, FollowInv, Aligned, NEW e \in Encoders, Receive(e)
  PROVE  Aligned'
<1> DEFINE p == InHand(e)
<1>1. /\ UNCHANGED skipped
      /\ \A d \in Encoders \ {e} : recorded'[d] = recorded[d]
      /\ Writes(e) \/ Keeps(e) \/ Discards(e)
  BY Received DEF encoderd
<1> SUFFICES ASSUME Following', ~skipped
             PROVE  \A d \in Encoders : \A c \in recorded'[d] : c[1] = c[2]
  BY <1>1 DEF Aligned, Following
<1>2. Following  BY FollowingBefore
<1>3. \A d \in Encoders : \A c \in recorded[d] : c[1] = c[2]  BY <1>2 DEF Aligned, Following
<1>4. /\ \A i \in DOMAIN remote[e].q : remote[e].q[i].seg >= segment
      /\ (Writes(e) /\ p.seg = segment) \/ Keeps(e)
  BY <1>2, PacketFollows
<1>5. CASE Keeps(e)
  <2>1. UNCHANGED recorded  BY <1>5 DEF Keeps, Keep
  <2> QED  BY <1>3, <2>1
<1>6. CASE Writes(e) /\ p.seg = segment
  <2> DEFINE q == remote[e].q  ps == Append(Known(e).q, p)
             written == FromKey(ps, Entered(Known(e)).recording)
  <2>1. Known(e).q = q /\ q \in Seq(Packet) /\ p \in Packet /\ p.seg \in Nat /\ p.frame \in Nat
        /\ segment \in Nat /\ Length \in Nat \ {0}
    BY Received, KnownIs, StreamTaken, StreamsTyped
  <2>2. ASSUME NEW i \in DOMAIN q  PROVE OfSegment(q[i]) /\ q[i].seg = segment /\ q[i].frame \in Nat
    <3>1. q[i].seg \in Nat /\ q[i].frame \in Nat  BY StreamsTyped
    <3>2. q[i].seg <= p.seg  BY StreamTaken
    <3>3. OfSegment(q[i])  BY DEF StreamInv, Framed
    <3> QED  BY <1>4, <1>6, <2>1, <3>1, <3>2, <3>3
  <2>3. OfSegment(p)  BY StreamTaken
  <2>4. \A i \in DOMAIN ps : OfSegment(ps[i]) /\ ps[i].seg = segment /\ ps[i].frame \in Nat
    <3>1. /\ DOMAIN q = 1..Len(q) /\ DOMAIN ps = 1..Len(q) + 1 /\ Len(q) \in Nat
          /\ \A i \in DOMAIN q : ps[i] = q[i]
          /\ ps[Len(q) + 1] = p
      BY <2>1, Appended
    <3>2. \A i \in 1..Len(q) + 1 : i \in 1..Len(q) \/ i = Len(q) + 1  BY <3>1
    <3> QED  BY <1>6, <2>1, <2>2, <2>3, <3>1, <3>2
  <2>5. recorded' = [recorded EXCEPT ![e] = @ \cup {<<w.frame \div Length, segment>> : w \in written}]
    BY <1>6 DEF Writes, Write
  <2>6. \A w \in written : \E i \in DOMAIN ps : w = ps[i]  BY DEF FromKey
  <2> HIDE DEF ps, written
  <2>7. ASSUME NEW w \in written  PROVE w.frame \div Length = segment
    <3>1. OfSegment(w) /\ w.seg = segment /\ w.frame \in Nat  BY <2>4, <2>6
    <3> QED  BY <2>1, <3>1, DivIs DEF OfSegment
  <2>8. ASSUME NEW c \in recorded'[e]  PROVE c[1] = c[2]
    <3>1. c \in recorded[e] \/ \E w \in written : c = <<w.frame \div Length, segment>>
      BY <2>5 DEF TypeOK
    <3> QED  BY <1>3, <2>7, <3>1
  <2> QED  BY <1>1, <1>3, <2>8
<1> QED  BY <1>4, <1>5, <1>6

AlignInv == StreamInv /\ FollowInv /\ Aligned

LEMMA AlignInit == Init => AlignInv
<1> SUFFICES ASSUME Init  PROVE AlignInv  OBVIOUS
<1>1. Seen(remote) = {} /\ Counted(remote, segment) = {}
  BY DEF Init, Seen, Counted, FreshRemote
<1>2. StreamInv
  <2>1. \A e \in Encoders : Fresh(e)  BY DEF Init, Fresh
  <2>2. ASSUME NEW e \in Encoders  PROVE Ordered(e) /\ Framed(e)
    <3>1. socket[e] = <<>> /\ remote[e].q = <<>> /\ cur_seg[e] = 0
      BY DEF Init, FreshRemote
    <3>2. last[e] \in -1..0 /\ Length \in Nat  BY LogRotationAssumption DEF Init
    <3> QED  BY <3>1, <3>2 DEF Ordered, Framed
  <2> QED  BY <1>1, <2>1, <2>2, FS_EmptySet DEF StreamInv, Init
<1>3. FollowInv  BY <1>1, FS_EmptySet DEF FollowInv, Init
<1>4. Aligned  BY DEF Aligned, Init
<1> QED  BY <1>2, <1>3, <1>4 DEF AlignInv

LEMMA AlignStep == TypeOK /\ AlignInv /\ [Next]_vars => AlignInv'
<1> SUFFICES ASSUME TypeOK, StreamInv, FollowInv, Aligned, [Next]_vars  PROVE AlignInv'
  BY DEF AlignInv
<1>1. ASSUME NEW e \in Encoders, Receive(e)  PROVE AlignInv'
  BY <1>1, StreamReceive, FollowReceive, AlignedReceive DEF AlignInv
<1>2. ASSUME NEW e \in Encoders, Encode(e)  PROVE AlignInv'
  <2>1. StreamInv' /\ FollowInv' /\ (Following' => Following)
    BY <1>2, StreamEncode, FollowEncode
  <2>2. PICK p \in Packet : Sends(e, p)  BY <1>2, EncodeSends
  <2>3. UNCHANGED recorded /\ (~skipped' => ~skipped)  BY <2>2 DEF Sends, received
  <2>4. Aligned'  BY <2>1, <2>3 DEF Aligned, Following
  <2> QED  BY <2>1, <2>4 DEF AlignInv
<1>3. ASSUME UNCHANGED <<last, cur_seg, skipped, socket, max_waiting, remote, recorded>>
      PROVE  StreamInv' /\ (Following' => Following) => StreamInv' /\ Aligned'
  BY <1>3 DEF Aligned, Following
<1>4. ASSUME UNCHANGED <<last, cur_seg, skipped, socket, max_waiting, remote, recorded>>
      PROVE  StreamInv'
  BY <1>4 DEF StreamInv, Fresh, Ordered, Framed, OfSegment, Seen
<1>5. CASE OtherMessage
  <2>1. UNCHANGED <<last, cur_seg, skipped, socket, max_waiting, remote, recorded>>
    BY <1>5 DEF OtherMessage, encoderd, received
  <2>2. RotateIfNeeded(ready_to_rotate, max_waiting, last_camera_seen)  BY <1>5 DEF OtherMessage
  <2>3. Following' => Following
    <3>1. \/ fallback' = fallback
          \/ fallback' = (fallback \/ ~AllReady(ready_to_rotate, max_waiting))
      BY <2>2 DEF RotateIfNeeded
    <3> QED  BY <2>1, <3>1 DEF Following
  <2>4. FollowInv'
    <3> SUFFICES ASSUME Following'
                 PROVE  /\ \A d \in Seen(remote) : Follows(remote[d], socket[d], cur_seg[d], segment')
                        /\ ready_to_rotate' = Cardinality(Counted(remote, segment'))
      BY <2>1 DEF FollowInv, Seen, Counted, Follows, NotBefore
    <3>1. /\ \A d \in Seen(remote) : Follows(remote[d], socket[d], cur_seg[d], segment)
          /\ ready_to_rotate = Cardinality(Counted(remote, segment))
          /\ max_waiting = Cardinality(Seen(remote))
      BY <2>3 DEF FollowInv, StreamInv
    <3>2. segment \in Nat /\ \A d \in Seen(remote) : remote[d].current \in Int
      BY DEF TypeOK, Seen
    <3>3. ~fallback'  BY DEF Following
    <3> QED  BY <2>2, <3>1, <3>2, <3>3, RotationFollows
  <2> QED  BY <1>3, <1>4, <2>1, <2>3, <2>4 DEF AlignInv
<1>6. ASSUME UNCHANGED <<last, cur_seg, skipped, socket, max_waiting, remote, recorded, rotation>>
      PROVE  AlignInv'
  <2>1. StreamInv'  BY <1>4, <1>6
  <2>2. FollowInv'
    BY <1>6 DEF FollowInv, Following, Seen, Counted, Follows, NotBefore, rotation
  <2>3. Aligned'  BY <1>6 DEF Aligned, rotation
  <2> QED  BY <2>1, <2>2, <2>3 DEF AlignInv
<1>7. CASE Frame  BY <1>6, <1>7 DEF Frame, received
<1>8. ASSUME NEW e \in Encoders, Stall(e) \/ Resume(e)  PROVE AlignInv'
  BY <1>6, <1>8 DEF Stall, Resume, received
<1>9. CASE UNCHANGED vars  BY <1>6, <1>9 DEF vars, encoderd
<1> QED  BY <1>1, <1>2, <1>5, <1>7, <1>8, <1>9 DEF Next

(* As long as loggerd does not rotate by its clock, has seen every encoder *)
(* in time and none has missed a whole segment, each frame is recorded in  *)
(* the segment of its minute (handle_encoder_msg, rotate_if_needed), for   *)
(* any number of encoders, however they are delayed against each other.    *)
THEOREM SegmentsAreAligned == Spec => []Aligned
<1>1. Init => TypeOK /\ AlignInv  BY TypeInit, AlignInit
<1>2. TypeOK /\ AlignInv /\ [Next]_vars => TypeOK' /\ AlignInv'  BY TypeStep, AlignStep
<1>3. AlignInv => Aligned  BY DEF AlignInv
<1> QED  BY <1>1, <1>2, <1>3, PTL DEF Spec
-----------------------------------------------------------------------------
(* Nothing is lost while all encoders work.                                *)

(* The encoders and loggerd are behind the cameras by less than the fifth  *)
(* of a segment, the queue and the patience loggerd waits with, and a      *)
(* segment is longer than that.                                            *)
Timely == /\ Encoders # {}
          /\ MaxLag <= Slack /\ MaxLag <= MaxQueue /\ MaxLag < Patience
          /\ MaxLag + 1 < Length

(* The first frame of a segment.                                           *)
Start(s) == s * Length

(* The last frame of the encoder loggerd has received.                     *)
Got(e) == last[e] - Len(socket[e])

(* A segment begins with a keyframe.                                       *)
Keyed(p) == p.seg > 0 /\ p.frame = Start(p.seg) => p.key

(* The encoder is in time and in the segment of its frame, and has sent    *)
(* every frame.                                                            *)
Sending(e) ==
  /\ last[e] <= now /\ now - last[e] <= MaxLag /\ now - Got(e) <= MaxLag + 1
  /\ last[e] < Start(cur_seg[e] + 1)
  /\ cur_seg[e] > 0 => Start(cur_seg[e]) <= last[e]
  /\ \A i \in DOMAIN socket[e] : /\ socket[e][i].frame = Got(e) + i
                                 /\ Keyed(socket[e][i])

(* In segment seg, record r is one of an encoder whose frames up to g have *)
(* been received: those since it left its segment are kept.                *)
KeepsUp(r, g, seg) ==
  /\ r.current >= 0 /\ r.current >= seg - 1
  /\ \A i \in DOMAIN r.q : r.q[i].frame = g - Len(r.q) + i /\ Keyed(r.q[i])
  /\ r.marked => r.q # <<>> /\ r.q[1].frame = Start(r.current + 1)
  /\ r.current < seg => g <= Start(seg) + MaxLag
  /\ r.current = seg /\ ~r.marked => g < Start(seg + 1)

(* The same with the set c of what is recorded and the time of the last    *)
(* packet, for encoders that have been seen or not.                        *)
Heard(r, g, c, camera, seg) ==
  IF r.seen THEN /\ KeepsUp(r, g, seg) /\ g <= camera
                 /\ c # {} /\ r.current = seg => r.recording
            ELSE g <= 0 /\ c = {}

InSegment == /\ Start(segment) <= last_rotate /\ last_rotate <= now
             /\ now <= Start(segment + 1) + MaxLag

OnTime ==
  /\ stalled = {} /\ ~skipped /\ ~lost /\ Following /\ InSegment
  /\ \A e \in Encoders :
       Sending(e) /\ Heard(remote[e], Got(e), recorded[e], last_camera_seen, segment)

Punctual == stalls = 0 => OnTime

(* A rotation that was due has been made.                                  *)
Rotated == max_waiting = 0 \/ ready_to_rotate # max_waiting

LEMMA StartIs ==
  ASSUME NEW s \in Nat
  PROVE  Start(s) \in Nat /\ Start(s + 1) \in Nat /\ Start(s + 1) = Start(s) + Length
<1> DEFINE n == Length
<1>1. n \in Nat  BY LogRotationAssumption
<1> HIDE DEF n
<1>2. s * n \in Nat /\ (s + 1) * n = s * n + n  BY <1>1
<1> QED  BY <1>1, <1>2 DEF Start, n

LEMMA StartsApart ==
  ASSUME NEW s \in Nat, NEW t \in Nat, s < t
  PROVE  Start(s + 1) <= Start(t)
<1> DEFINE n == Length
<1>1. n \in Nat  BY LogRotationAssumption
<1> HIDE DEF n
<1>2. (s + 1) * n <= t * n  BY <1>1
<1> QED  BY <1>2 DEF Start, n

LEMMA FirstStart == Start(0) = 0 /\ Start(1) = Length
<1>1. Length \in Nat  BY LogRotationAssumption
<1> QED  BY <1>1 DEF Start

LEMMA Lengths ==
  /\ Length \in Nat /\ Length >= 1 /\ MaxLag \in Nat /\ MaxLag >= 1 /\ Slack \in Nat
  /\ Patience \in Nat /\ MaxQueue \in Nat
  BY LogRotationAssumption

LEMMA GotIs ==
  ASSUME TypeOK, NEW e \in Encoders
  PROVE  /\ Got(e) \in Int /\ Len(socket[e]) \in Nat /\ Got(e) <= last[e] /\ last[e] \in Int
         /\ now \in Nat /\ segment \in Nat /\ last_rotate \in Nat /\ last_camera_seen \in Int
         /\ cur_seg[e] \in Nat /\ remote[e].current \in Int
<1>1. last[e] \in Int /\ socket[e] \in Seq(Packet) /\ now \in Nat /\ segment \in Nat
      /\ last_rotate \in Nat /\ last_camera_seen \in Int /\ cur_seg[e] \in Nat
      /\ remote[e].current \in Int
  BY LogRotationAssumption DEF TypeOK
<1> QED  BY <1>1 DEF Got

LEMMA PunctualEncode ==
  ASSUME TypeOK, OnTime, NEW e \in Encoders, Encode(e)
  PROVE  OnTime'
<1>1. PICK p \in Packet : Sends(e, p)  BY EncodeSends
<1>2. /\ last'[e] = p.frame /\ cur_seg'[e] = p.seg /\ socket'[e] = Append(socket[e], p)
      /\ \A d \in Encoders \ {e} :
           last'[d] = last[d] /\ cur_seg'[d] = cur_seg[d] /\ socket'[d] = socket[d]
      /\ skipped' => skipped \/ p.frame >= Start(p.seg + 1)
      /\ UNCHANGED <<now, stalled, stalls, segment, last_rotate, fallback, remote, recorded, lost,
                     last_camera_seen>>
  BY <1>1 DEF Sends, TypeOK, received, rotation, Start
<1> SUFFICES /\ ~skipped'
             /\ \A d \in Encoders : Sending(d)' /\ Got(d)' = Got(d)
  <2>1. stalled = {} /\ ~lost /\ Following /\ InSegment  BY DEF OnTime
  <2>2. (stalled = {} /\ ~lost /\ Following /\ InSegment)'
    BY <1>2, <2>1 DEF Following, InSegment, Start
  <2>3. ASSUME NEW d \in Encoders, Got(d)' = Got(d)
        PROVE  Heard(remote[d], Got(d), recorded[d], last_camera_seen, segment)'
    <3>1. Heard(remote[d], Got(d), recorded[d], last_camera_seen, segment)  BY DEF OnTime
    <3>2. Heard(remote'[d], Got(d)', recorded'[d], last_camera_seen', segment')
      BY <1>2, <2>3, <3>1
    <3> QED  BY <3>2 DEF Heard, KeepsUp, Keyed, Start
  <2> QED  BY <1>2, <2>2, <2>3 DEF OnTime
<1>3. /\ Sending(e) /\ ~skipped /\ p.frame \in Nat /\ p.seg \in Nat
  BY DEF OnTime, Packet
<1>4. p.frame = last[e] + 1 /\ p.frame <= now  BY <1>1, <1>3 DEF Sends, Sending
<1>5. /\ Start(p.seg) \in Nat /\ Start(p.seg + 1) \in Nat /\ Start(p.seg + 1) = Start(p.seg) + Length
      /\ p.frame < Start(p.seg + 1)
      /\ p.seg > 0 => Start(p.seg) <= p.frame
      /\ Keyed(p)
  <2>1. /\ Start(cur_seg[e] + 1) \in Nat /\ Start(p.seg) \in Nat /\ Start(p.seg + 1) \in Nat
        /\ Start(p.seg + 1) = Start(p.seg) + Length
    BY <1>3, GotIs, StartIs
  <2>2. CASE p.seg = cur_seg[e] /\ p.frame < (cur_seg[e] + 1) * Length
    <3>1. p.frame < Start(p.seg + 1)  BY <2>2 DEF Start
    <3>2. p.seg > 0 => Start(p.seg) < p.frame  BY <1>3, <1>4, <2>1, <2>2, GotIs DEF Sending
    <3> QED  BY <1>3, <2>1, <3>1, <3>2 DEF Keyed
  <2>3. CASE p.seg = cur_seg[e] + 1 /\ p.frame >= p.seg * Length /\ p.key
    <3>1. p.frame >= Start(p.seg)  BY <2>3 DEF Start
    <3>2. p.frame <= Start(p.seg)  BY <1>3, <1>4, <2>1, <2>3, GotIs DEF Sending
    <3> QED  BY <1>3, <2>1, <2>3, <3>1, <3>2, Lengths DEF Keyed
  <2> QED  BY <1>1, <2>2, <2>3 DEF Sends
<1>6. ~skipped'  BY <1>2, <1>3, <1>5
<1> DEFINE s == socket[e]  n == Len(s)  t == Append(s, p)
<1>7. /\ n \in Nat /\ DOMAIN s = 1..n /\ DOMAIN t = 1..n + 1 /\ Len(t) = n + 1
      /\ \A i \in 1..n : t[i] = s[i]
      /\ t[n + 1] = p
  BY StreamsTyped, Appended
<1>8. Got(e)' = Got(e)
  <2>1. Got(e)' = p.frame - (n + 1) /\ Got(e) = last[e] - n  BY <1>2, <1>7 DEF Got
  <2>2. last[e] \in Int /\ n \in Nat  BY <1>7, GotIs
  <2> HIDE DEF n
  <2> QED  BY <1>4, <2>1, <2>2
<1>9. Sending(e)'
  <2>1. last'[e] <= now' /\ now' - last'[e] <= MaxLag /\ now' - Got(e)' <= MaxLag + 1
    BY <1>2, <1>3, <1>4, <1>8, GotIs, Lengths DEF Sending
  <2>2. last'[e] < Start(cur_seg'[e] + 1)  BY <1>2, <1>5
  <2>3. cur_seg'[e] > 0 => Start(cur_seg'[e]) <= last'[e]  BY <1>2, <1>5
  <2>4. ASSUME NEW i \in 1..n + 1  PROVE t[i].frame = Got(e) + i /\ Keyed(t[i])
    <3>1. CASE i \in 1..n  BY <1>3, <1>7, <3>1 DEF Sending
    <3>2. CASE i = n + 1
      <4>1. p.frame = Got(e) + (n + 1)  BY <1>4, <1>7, GotIs DEF Got
      <4> QED  BY <1>5, <1>7, <3>2, <4>1
    <3> QED  BY <1>7, <3>1, <3>2
  <2>5. socket'[e] = t  BY <1>2
  <2> HIDE DEF t, n
  <2>6. \A i \in DOMAIN socket'[e] : socket'[e][i].frame = Got(e)' + i /\ Keyed(socket'[e][i])
    BY <1>7, <1>8, <2>4, <2>5
  <2> QED  BY <2>1, <2>2, <2>3, <2>6 DEF Sending, Keyed, Start
<1>10. ASSUME NEW d \in Encoders \ {e}  PROVE Sending(d)' /\ Got(d)' = Got(d)
  <2>1. Sending(d)  BY DEF OnTime
  <2>2. Got(d)' = Got(d)  BY <1>2 DEF Got
  <2> QED  BY <1>2, <2>1, <2>2 DEF Sending, Keyed, Start
<1> QED  BY <1>6, <1>8, <1>9, <1>10

(* All encoders are so far that none keeps loggerd in its segment.         *)
LEMMA FrameInSegment ==
  ASSUME Timely, TypeOK, StreamInv, FollowInv, OnTime, Rotated,
         \A e \in Encoders : Got(e) >= Start(segment + 1)
  PROVE  FALSE
<1>1. segment \in Nat /\ Start(segment) \in Nat /\ Start(segment + 1) = Start(segment) + Length
  BY StartIs DEF TypeOK
<1>2. ASSUME NEW e \in Encoders
      PROVE  remote[e].seen /\ remote[e].marked /\ remote[e].current = segment
  <2>1. Got(e) \in Int /\ remote[e].current \in Int /\ Got(e) >= Start(segment + 1)  BY GotIs
  <2>2. Heard(remote[e], Got(e), recorded[e], last_camera_seen, segment) /\ Following
    BY DEF OnTime
  <2>3. remote[e].seen  BY <1>1, <2>1, <2>2, Lengths DEF Heard
  <2>4. KeepsUp(remote[e], Got(e), segment)  BY <2>2, <2>3 DEF Heard
  <2>5. remote[e].current <= segment  BY <2>2, <2>3 DEF FollowInv, Follows, Seen
  <2>6. ~(remote[e].current < segment)  BY <1>1, <2>1, <2>4, Lengths DEF KeepsUp, Timely
  <2>7. remote[e].current = segment  BY <1>1, <2>1, <2>5, <2>6
  <2>8. remote[e].marked  BY <1>1, <2>1, <2>4, <2>7, Lengths DEF KeepsUp
  <2> QED  BY <2>3, <2>7, <2>8
<1>3. Counted(remote, segment) = Encoders /\ Seen(remote) = Encoders
  BY <1>2 DEF Counted, Seen
<1>4. ready_to_rotate = max_waiting /\ max_waiting = Cardinality(Encoders)
  <2>1. Following  BY DEF OnTime
  <2> QED  BY <1>3, <2>1 DEF FollowInv, StreamInv
<1>5. Cardinality(Encoders) # 0
  BY LogRotationAssumption, FS_EmptySet DEF Timely
<1> QED  BY <1>4, <1>5 DEF Rotated

LEMMA PunctualFrame ==
  ASSUME Timely, TypeOK, StreamInv, FollowInv, OnTime, Rotated, Frame
  PROVE  OnTime'
<1>1. /\ now' = now + 1
      /\ \A e \in Encoders :
           /\ e \in stalled \/ now - last[e] < MaxLag
           /\ socket[e] # <<>> => now - Head(socket[e]).frame < MaxLag
      /\ UNCHANGED <<last, cur_seg, stalled, stalls, skipped, socket, segment, last_rotate, fallback,
                     remote, recorded, lost, last_camera_seen>>
  BY DEF Frame, rotation, received
<1> SUFFICES (\A e \in Encoders : Sending(e)') /\ InSegment'
  <2>1. stalled = {} /\ ~skipped /\ ~lost /\ Following  BY DEF OnTime
  <2>2. (stalled = {} /\ ~skipped /\ ~lost /\ Following)'  BY <1>1, <2>1 DEF Following
  <2>3. ASSUME NEW d \in Encoders
        PROVE  Heard(remote[d], Got(d), recorded[d], last_camera_seen, segment)'
    <3>1. Heard(remote[d], Got(d), recorded[d], last_camera_seen, segment)  BY DEF OnTime
    <3>2. Got(d)' = Got(d)  BY <1>1 DEF Got
    <3> QED  BY <1>1, <3>1, <3>2 DEF Heard, KeepsUp, Keyed, Start
  <2> QED  BY <1>1, <2>2, <2>3 DEF OnTime
<1>2. now \in Nat /\ segment \in Nat /\ last_rotate \in Nat  BY LogRotationAssumption DEF TypeOK
<1>3. Start(segment) \in Nat /\ Start(segment + 1) = Start(segment) + Length  BY <1>2, StartIs
<1>4. ASSUME NEW e \in Encoders
      PROVE  now - last[e] < MaxLag /\ now - Got(e) <= MaxLag
  <2>1. Sending(e) /\ stalled = {}  BY DEF OnTime
  <2>2. now - last[e] < MaxLag  BY <1>1, <2>1
  <2>3. CASE socket[e] = <<>>
    <3>1. Got(e) = last[e]  BY <2>3, GotIs DEF Got
    <3> QED  BY <2>2, <3>1, GotIs, Lengths
  <2>4. CASE socket[e] # <<>>
    <3>1. Head(socket[e]) = socket[e][1] /\ 1 \in DOMAIN socket[e]
      BY <2>4, StreamsTyped, Taken
    <3>2. Head(socket[e]).frame = Got(e) + 1  BY <2>1, <3>1 DEF Sending
    <3>3. now - (Got(e) + 1) < MaxLag  BY <1>1, <2>4, <3>2
    <3> QED  BY <2>2, <3>3, GotIs, Lengths
  <2> QED  BY <2>3, <2>4
<1>5. ASSUME NEW e \in Encoders  PROVE Sending(e)'
  <2>1. Sending(e)  BY DEF OnTime
  <2>2. Got(e)' = Got(e)  BY <1>1 DEF Got
  <2>3. last[e] <= now + 1 /\ now + 1 - last[e] <= MaxLag /\ now + 1 - Got(e) <= MaxLag + 1
    BY <1>4, <2>1, GotIs, Lengths DEF Sending
  <2>4. last'[e] <= now' /\ now' - last'[e] <= MaxLag /\ now' - Got(e)' <= MaxLag + 1
    <3>1. last'[e] = last[e] /\ now' = now + 1  BY <1>1
    <3> QED  BY <2>2, <2>3, <3>1, GotIs, Lengths
  <2> QED  BY <1>1, <2>1, <2>2, <2>4 DEF Sending, Keyed, Start
<1>6. InSegment'
  <2>1. InSegment  BY DEF OnTime
  <2>2. now < Start(segment + 1) + MaxLag
    <3> SUFFICES ASSUME now >= Start(segment + 1) + MaxLag  PROVE FALSE
      BY <1>2, <1>3, Lengths
    <3>1. \A e \in Encoders : Got(e) >= Start(segment + 1)  BY <1>2, <1>3, <1>4, GotIs, Lengths
    <3> QED  BY <3>1, FrameInSegment
  <2>3. Start(segment) <= last_rotate /\ last_rotate <= now + 1
        /\ now + 1 <= Start(segment + 1) + MaxLag
    BY <1>2, <1>3, <2>1, <2>2, Lengths DEF InSegment
  <2> QED  BY <1>1, <2>3 DEF InSegment, Start
<1> QED  BY <1>5, <1>6

(* The clock is not needed.                                                *)
LEMMA NoTimeout ==
  ASSUME Timely, TypeOK, OnTime
  PROVE  ~TimedOut(now) /\ ~TimedOut(last_camera_seen)
<1>1. PICK e \in Encoders : TRUE  BY DEF Timely
<1>2. /\ Sending(e) /\ Heard(remote[e], Got(e), recorded[e], last_camera_seen, segment) /\ InSegment
  BY DEF OnTime
<1>3. Start(segment) \in Nat /\ Start(segment + 1) = Start(segment) + Length
  BY GotIs, StartIs
<1>4. now - last_rotate <= Length + MaxLag
  BY <1>2, <1>3, GotIs, Lengths DEF InSegment
<1>5. ASSUME now - last_rotate > Length  PROVE now - last_camera_seen <= Patience
  <2>1. now > Length  BY <1>5, GotIs, Lengths
  <2>2. Got(e) > 0  BY <1>2, <2>1, GotIs, Lengths DEF Sending, Timely
  <2>3. Got(e) <= last_camera_seen  BY <1>2, <2>2, GotIs DEF Heard
  <2> QED  BY <1>2, <2>3, GotIs, Lengths DEF Sending, Timely
<1>6. MaxLag <= Slack /\ now - now = 0  BY GotIs DEF Timely
<1> QED  BY <1>4, <1>5, <1>6, GotIs, Lengths DEF TimedOut

LEMMA RotationHeard ==
  ASSUME TypeOK, InSegment, NEW rem, NEW got, NEW rec, NEW camera,
         \A e \in Encoders :
           /\ Heard(rem[e], got[e], rec[e], camera, segment)
           /\ got[e] \in Int /\ got[e] <= now
           /\ rem[e].current \in Int /\ rem[e].q \in Seq(Packet),
         \A e \in Seen(rem) : rem[e].current <= segment,
         NEW ready, ready = Cardinality(Counted(rem, segment)),
         NEW waiting, waiting = Cardinality(Seen(rem)),
         RotateIfNeeded(ready, waiting, camera), ~TimedOut(camera), UNCHANGED now
  PROVE  /\ \A e \in Encoders : Heard(rem[e], got[e], rec[e], camera, segment')
         /\ InSegment' /\ UNCHANGED fallback
<1>0. now \in Nat /\ segment \in Nat /\ last_rotate \in Nat
  BY LogRotationAssumption DEF TypeOK
<1>1. /\ Start(segment) \in Nat /\ Start(segment + 1) = Start(segment) + Length
      /\ Start(segment + 1) \in Nat
      /\ Start((segment + 1) + 1) = Start(segment + 1) + Length
  BY <1>0, StartIs
<1>2. CASE AllReady(ready, waiting)
  <2>1. segment' = segment + 1 /\ last_rotate' = now /\ (fallback' = (fallback \/ FALSE))
    BY <1>2, Zenon DEF RotateIfNeeded
  <2>2. Counted(rem, segment) = Seen(rem)
    <3>1. Cardinality(Counted(rem, segment)) = Cardinality(Seen(rem))  BY <1>2 DEF AllReady
    <3> QED  BY <3>1, SetsFinite, FS_Subset
  <2>3. ASSUME NEW e \in Encoders, rem[e].seen
        PROVE  /\ rem[e].marked /\ rem[e].current = segment
               /\ KeepsUp(rem[e], got[e], segment)
    <3>1. e \in Seen(rem)  BY <2>3 DEF Seen
    <3>2. rem[e].marked /\ rem[e].current = segment  BY <2>2, <3>1 DEF Counted
    <3> QED  BY <2>3, <3>2 DEF Heard
  <2>4. ASSUME NEW e \in Encoders
        PROVE  Heard(rem[e], got[e], rec[e], camera, segment + 1)
    <3>1. CASE ~rem[e].seen  BY <3>1 DEF Heard
    <3>2. CASE rem[e].seen
      <4>1. /\ rem[e].marked /\ rem[e].current = segment
            /\ KeepsUp(rem[e], got[e], segment) /\ got[e] <= camera
        BY <2>3, <3>2 DEF Heard
      <4>2. got[e] <= Start(segment + 1) + MaxLag
        BY <1>0, <1>1, Lengths DEF InSegment
      <4>3. segment >= 0 /\ segment >= (segment + 1) - 1 /\ segment # segment + 1
        BY <1>0
      <4>4. KeepsUp(rem[e], got[e], segment + 1)  BY <4>1, <4>2, <4>3 DEF KeepsUp
      <4> QED  BY <3>2, <4>1, <4>3, <4>4 DEF Heard
    <3> QED  BY <3>1, <3>2
  <2>5. Start(segment + 1) <= now
    <3>1. Seen(rem) # {}
      <4>1. Cardinality(Seen(rem)) > 0  BY <1>2 DEF AllReady
      <4> QED  BY <4>1, SetsFinite, FS_EmptySet
    <3>2. PICK e \in Encoders : rem[e].seen  BY <3>1 DEF Seen
    <3>3. /\ rem[e].q # <<>> /\ rem[e].q[1].frame = Start(segment + 1)
          /\ \A i \in DOMAIN rem[e].q : rem[e].q[i].frame = got[e] - Len(rem[e].q) + i
      BY <2>3, <3>2 DEF KeepsUp
    <3>4. Len(rem[e].q) \in Nat /\ Len(rem[e].q) >= 1 /\ 1 \in DOMAIN rem[e].q
      <4>1. rem[e].q \in Seq(Packet)  OBVIOUS
      <4> QED  BY <3>3, <4>1, Taken
    <3>5. Start(segment + 1) = got[e] - Len(rem[e].q) + 1  BY <3>3, <3>4
    <3> QED  BY <1>0, <1>1, <3>4, <3>5
  <2>6. /\ Start(segment + 1) <= now /\ now <= now
        /\ now <= Start((segment + 1) + 1) + MaxLag
    BY <1>0, <1>1, <2>5, Lengths DEF InSegment
  <2>7. InSegment'  BY <2>1, <2>6 DEF InSegment, Start
  <2>8. UNCHANGED fallback
    <3>1. fallback \in BOOLEAN  BY DEF TypeOK
    <3> QED  BY <2>1, <3>1
  <2> QED  BY <2>1, <2>4, <2>7, <2>8
<1>3. CASE ~AllReady(ready, waiting)
  <2>1. UNCHANGED <<segment, last_rotate, fallback>>  BY <1>3 DEF RotateIfNeeded
  <2>2. InSegment'  BY <2>1 DEF InSegment, Start
  <2> QED  BY <2>1, <2>2
<1> QED  BY <1>2, <1>3

(* What is known of a packet, the next frame of an encoder.                *)
LEMMA PacketOnTime ==
  ASSUME Timely, TypeOK, StreamInv, OnTime, NEW e \in Encoders, Receive(e)
  PROVE  /\ InHand(e) \in Packet /\ InHand(e).frame = Got(e) + 1 /\ InHand(e).frame \in Nat
         /\ InHand(e).seg \in Nat /\ Keyed(InHand(e)) /\ InHand(e).frame <= now
         /\ InHand(e).frame <= last[e]
         /\ Start(InHand(e).seg) <= InHand(e).frame /\ InHand(e).frame < Start(InHand(e).seg + 1)
         /\ Got(e)' = Got(e) + 1 /\ Sending(e)'
         /\ \A d \in Encoders \ {e} : Got(d)' = Got(d) /\ Sending(d)'
         /\ Following'
<1> DEFINE p == InHand(e)  s == socket[e]  t == socket'[e]
<1>1. /\ s # <<>> /\ t = Tail(s) /\ UNCHANGED <<now, last, cur_seg>>
      /\ remote'[e].inTime = Known(e).inTime
      /\ \A d \in Encoders \ {e} : remote'[d] = remote[d] /\ socket'[d] = socket[d]
      /\ RotateIfNeeded(ReadyThen(e), WaitingThen(e), now)
  BY Received DEF TypeOK, encoderd
<1>2. /\ p \in Packet /\ p.seg \in Nat /\ p.frame \in Nat /\ p = s[1] /\ 1 \in DOMAIN s
      /\ OfSegment(p)
  BY StreamTaken DEF OnTime
<1>3. Sending(e)  BY DEF OnTime
<1>4. p.frame = Got(e) + 1 /\ Keyed(p)  BY <1>2, <1>3 DEF Sending
<1>5. /\ Len(s) \in Nat /\ Len(t) = Len(s) - 1 /\ Len(t) \in Nat
      /\ \A i \in DOMAIN t : i \in Nat \ {0} /\ i + 1 \in DOMAIN s /\ t[i] = s[i + 1]
  BY <1>1, StreamsTyped, Taken
<1>6. Got(e)' = Got(e) + 1
  <2>1. Got(e)' = last[e] - Len(t) /\ Got(e) = last[e] - Len(s)  BY <1>1 DEF Got
  <2>2. last[e] \in Int  BY GotIs
  <2> HIDE DEF s, t
  <2> QED  BY <1>5, <2>1, <2>2
<1>7. p.frame <= last[e] /\ p.frame <= now
  <2>1. Got(e) = last[e] - Len(s) /\ Len(s) >= 1  BY <1>5 DEF Got
  <2>2. last[e] \in Int /\ last[e] <= now /\ now \in Nat  BY <1>3, GotIs DEF Sending
  <2> HIDE DEF s, p
  <2> QED  BY <1>2, <1>4, <1>5, <2>1, <2>2
<1>8. Sending(e)'
  <2>1. now - (Got(e) + 1) <= MaxLag + 1  BY <1>3, GotIs, Lengths DEF Sending
  <2>2. ASSUME NEW i \in DOMAIN t  PROVE t[i].frame = (Got(e) + 1) + i /\ Keyed(t[i])
    <3>1. s[i + 1].frame = Got(e) + (i + 1) /\ Keyed(s[i + 1])  BY <1>3, <1>5 DEF Sending
    <3>2. i \in Nat /\ t[i] = s[i + 1]  BY <1>5
    <3> QED  BY <3>1, <3>2, GotIs
  <2>3. last'[e] <= now' /\ now' - last'[e] <= MaxLag /\ now' - Got(e)' <= MaxLag + 1
        /\ last'[e] < Start(cur_seg'[e] + 1)
        /\ (cur_seg'[e] > 0 => Start(cur_seg'[e]) <= last'[e])
    BY <1>1, <1>3, <1>6, <2>1 DEF Sending
  <2>4. \A i \in DOMAIN socket'[e] : socket'[e][i].frame = Got(e)' + i /\ Keyed(socket'[e][i])
    BY <1>6, <2>2
  <2> QED  BY <2>3, <2>4 DEF Sending, Keyed, Start
<1>9. ASSUME NEW d \in Encoders \ {e}  PROVE Got(d)' = Got(d) /\ Sending(d)'
  <2>1. Sending(d)  BY DEF OnTime
  <2>2. Got(d)' = Got(d)  BY <1>1 DEF Got
  <2> QED  BY <1>1, <2>1, <2>2 DEF Sending, Keyed, Start
<1>10. Following'
  <2>1. Following  BY DEF OnTime
  <2>2. ~fallback'
    <3>1. ~TimedOut(now)  BY NoTimeout
    <3>2. \/ fallback' = fallback
          \/ AllReady(ReadyThen(e), WaitingThen(e))
             /\ fallback' = (fallback \/ ~AllReady(ReadyThen(e), WaitingThen(e)))
      BY <1>1, <3>1 DEF RotateIfNeeded
    <3> QED  BY <2>1, <3>2 DEF Following
  <2>3. remote'[e].inTime
    <3>1. CASE remote[e].seen
      <4>1. Known(e) = remote[e] /\ remote[e].inTime  BY <1>1, <2>1, <3>1, KnownIs DEF Following
      <4> QED  BY <1>1, <4>1
    <3>2. CASE ~remote[e].seen
      <4>1. Got(e) <= 0
        <5>1. Heard(remote[e], Got(e), recorded[e], last_camera_seen, segment)  BY DEF OnTime
        <5> QED  BY <3>2, <5>1 DEF Heard
      <4>2. p.seg = 0
        <5> SUFFICES ASSUME p.seg > 0  PROVE FALSE
          BY <1>2
        <5>1. Start(1) <= Start(p.seg)
          <6>1. Start(0 + 1) <= Start(p.seg)  BY <1>2, StartsApart
          <6> QED  BY <6>1
        <5>2. Start(p.seg) <= p.frame  BY <1>2 DEF OfSegment, Start
        <5>3. Start(p.seg) \in Nat  BY <1>2, StartIs
        <5> HIDE DEF p
        <5> QED  BY <1>2, <1>4, <4>1, <5>1, <5>2, <5>3, FirstStart, GotIs, Lengths DEF Timely
      <4>3. segment = 0
        <5> SUFFICES ASSUME segment > 0  PROVE FALSE
          BY GotIs
        <5>1. Start(1) <= Start(segment) /\ Start(segment) \in Nat
          <6>1. Start(0 + 1) <= Start(segment)  BY GotIs, StartsApart
          <6> QED  BY <6>1, GotIs, StartIs
        <5>2. Start(segment) <= last_rotate /\ last_rotate <= now  BY DEF OnTime, InSegment
        <5>3. now - Got(e) <= MaxLag + 1  BY <1>3 DEF Sending
        <5> QED  BY <4>1, <5>1, <5>2, <5>3, FirstStart, GotIs, Lengths DEF Timely
      <4>4. Known(e).inTime = (p.seg + segment = 0)  BY <1>1, <3>2, KnownIs
      <4>5. p.seg + segment = 0  BY <4>2, <4>3
      <4>6. Known(e).inTime  BY <4>4, <4>5
      <4> QED  BY <1>1, <4>6
    <3> QED  BY <3>1, <3>2
  <2> QED  BY <1>1, <2>1, <2>2, <2>3 DEF Following
<1>11. Start(p.seg) <= p.frame /\ p.frame < Start(p.seg + 1)  BY <1>2 DEF OfSegment, Start
<1> QED  BY <1>2, <1>4, <1>6, <1>7, <1>8, <1>9, <1>10, <1>11

(* From an open file or a keyframe on, every packet is written.            *)
LEMMA AllWritten ==
  ASSUME NEW s \in Seq(Packet), s # <<>>, NEW open, open \/ s[1].key,
         NEW g \in Int, \A i \in DOMAIN s : s[i].frame = g + i
  PROVE  FromKey(s, open) # {} /\ Cardinality(FromKey(s, open)) = Len(s)
<1> DEFINE n == Len(s)  T == FromKey(s, open)  f == [i \in 1..n |-> s[i]]
           starts == {i \in DOMAIN s : open \/ s[i].key}
<1>1. n \in Nat /\ n >= 1 /\ DOMAIN s = 1..n /\ 1 \in DOMAIN s /\ \A i \in 1..n : i >= 1
  OBVIOUS
<1>2. 1 \in starts  BY <1>1
<1>3. \A j \in DOMAIN s : \E k \in starts : k <= j  BY <1>1, <1>2
<1>4. T = {s[i] : i \in {j \in DOMAIN s : \E k \in starts : k <= j}}  BY DEF FromKey
<1> HIDE DEF starts, T, n
<1>5. T = {s[i] : i \in 1..n}  BY <1>1, <1>3, <1>4
<1>6. ASSUME NEW i \in 1..n, NEW j \in 1..n, f[i] = f[j]  PROVE i = j
  <2>1. s[i].frame = g + i /\ s[j].frame = g + j /\ s[i] = s[j]  BY <1>1, <1>6
  <2> QED  BY <1>1, <2>1
<1>7. f \in [1..n -> T] /\ \A t \in T : \E i \in 1..n : f[i] = t  BY <1>5
<1>8. f \in Injection(1..n, T) /\ f \in Surjection(1..n, T)
  BY <1>6, <1>7 DEF Injection, Surjection, IsInjective
<1>9. ExistsBijection(1..n, T)  BY <1>8, Zenon DEF ExistsBijection, Bijection
<1>10. Cardinality(T) = n  BY <1>1, <1>9, FS_CountingElements
<1>11. s[1] \in T  BY <1>1, <1>5
<1> QED  BY <1>10, <1>11 DEF T, n

(* What Write does to the file.                                            *)
LEMMA WriteEffect ==
  ASSUME TypeOK, NEW e \in Encoders, Receive(e), Writes(e)
  PROVE  LET open == remote[e].recording /\ remote[e].current = segment
             ps == Append(remote[e].q, InHand(e))
             written == FromKey(ps, open)
         IN  /\ lost' => lost \/ (recorded[e] # {} /\ Cardinality(written) < Len(ps))
             /\ recorded'[e] # {} => recorded[e] # {} \/ written # {}
             /\ open \/ written # {} => remote'[e].recording
<1> DEFINE p == InHand(e)  r == Known(e)
           open == remote[e].recording /\ remote[e].current = segment
           ps == Append(remote[e].q, p)
           written == FromKey(ps, open)
           entered == Entered(r).recording
<1>1. /\ r \in Remote /\ r.q = remote[e].q /\ r.current = remote[e].current
      /\ r.recording = remote[e].recording /\ r.recording \in BOOLEAN
      /\ segment \in Int /\ remote \in [Encoders -> Remote]
      /\ recorded \in [Encoders -> SUBSET (Nat \X Nat)]
  <2>1. socket[e] # <<>>  BY Received
  <2>2. /\ r \in Remote /\ r.q = remote[e].q /\ r.current = remote[e].current
        /\ r.recording = remote[e].recording
    BY <2>1, KnownIs
  <2> QED  BY <2>2 DEF TypeOK, Remote
<1>2. entered = open /\ Entered(r) \in Remote
  <2>1. \A a \in Remote, c \in Int :
          LET d == [a EXCEPT !.current = c, !.recording = FALSE, !.marked = FALSE]
          IN  d \in Remote /\ d.recording = FALSE
    BY DEF Remote
  <2>2. CASE r.current = segment
    <3>1. Entered(r) = r  BY <2>2 DEF Entered
    <3> QED  BY <1>1, <2>2, <3>1
  <2>3. CASE r.current # segment
    <3>1. Entered(r) = [r EXCEPT !.current = segment, !.recording = FALSE, !.marked = FALSE]
      BY <2>3 DEF Entered
    <3>2. entered = FALSE /\ Entered(r) \in Remote  BY <1>1, <2>1, <3>1
    <3> QED  BY <1>1, <2>3, <3>2
  <2> QED  BY <2>2, <2>3
<1>3. FromKey(Append(r.q, p), Entered(r).recording) = written
  BY <1>1, <1>2
<1> DEFINE b == Entered(r).recording \/ written # {}
           n == [Entered(r) EXCEPT !.q = <<>>, !.recording = b]
           new == {<<w.frame \div Length, segment>> : w \in written}
<1>4. /\ remote' = [remote EXCEPT ![e] = n]
      /\ recorded' = [recorded EXCEPT ![e] = @ \cup new]
      /\ lost' = (lost \/ (recorded[e] # {} /\ Cardinality(written) < Len(ps)))
  BY <1>1, <1>3 DEF Writes, Write
<1>5. remote'[e].recording = (open \/ written # {})
  <2>1. b \in BOOLEAN /\ b = (open \/ written # {})  BY <1>2, Zenon
  <2> HIDE DEF b
  <2>2. n.recording = b  BY <1>2 DEF Remote
  <2> HIDE DEF n
  <2>3. remote'[e] = n  BY <1>1, <1>4
  <2> QED  BY <2>1, <2>2, <2>3
<1>6. recorded'[e] # {} => recorded[e] # {} \/ written # {}
  <2>1. recorded'[e] = recorded[e] \cup new  BY <1>1, <1>4
  <2>2. written = {} => new = {}  OBVIOUS
  <2> HIDE DEF written, new
  <2> QED  BY <2>1, <2>2
<1> HIDE DEF open, ps, written
<1>7. /\ lost' => lost \/ (recorded[e] # {} /\ Cardinality(written) < Len(ps))
      /\ recorded'[e] # {} => recorded[e] # {} \/ written # {}
      /\ open \/ written # {} => remote'[e].recording
  BY <1>4, <1>5, <1>6
<1> QED  BY <1>7 DEF open, ps, written

(* loggerd's record after a packet, and before it looks at the counters.   *)
LEMMA RecordHeard ==
  ASSUME Timely, TypeOK, StreamInv, FollowInv, OnTime, NEW e \in Encoders, Receive(e)
  PROVE  Heard(remote'[e], Got(e)', recorded'[e], now, segment) /\ ~lost'
<1> DEFINE p == InHand(e)  r == remote[e]  n == remote'[e]  q == r.q
           open == r.recording /\ r.current = segment
           ps == Append(q, p)
           written == FromKey(ps, open)
<1>1. Following /\ ~lost /\ ~skipped /\ Heard(r, Got(e), recorded[e], last_camera_seen, segment)
  BY DEF OnTime
<1>2. /\ p \in Packet /\ p.frame = Got(e) + 1 /\ p.frame \in Nat /\ p.seg \in Nat /\ Keyed(p)
      /\ p.frame <= now /\ Start(p.seg) <= p.frame /\ p.frame < Start(p.seg + 1)
      /\ Got(e)' = p.frame /\ Following'
  BY PacketOnTime
<1>3. /\ \A i \in DOMAIN q : q[i].seg >= segment
      /\ (Writes(e) /\ p.seg = segment) \/ Keeps(e)
      /\ r.seen \/ segment = 0
  BY <1>1, <1>2, PacketFollows
<1>4. /\ n.seen /\ segment \in Nat /\ q \in Seq(Packet) /\ Len(q) \in Nat /\ r.current \in Int
      /\ Start(segment) \in Nat /\ Start(segment + 1) \in Nat
      /\ Start(segment + 1) = Start(segment) + Length
  <2>1. n.seen  BY Received
  <2>2. q \in Seq(Packet)  BY StreamsTyped
  <2>3. Len(q) \in Nat
    <3> HIDE DEF q
    <3> QED  BY <2>2
  <2> QED  BY <2>1, <2>2, <2>3, GotIs, StartIs
<1>5. ASSUME r.seen
      PROVE  /\ KeepsUp(r, Got(e), segment) /\ (recorded[e] # {} /\ r.current = segment => r.recording)
             /\ r.current <= segment
             /\ ~r.marked => q = <<>> /\ r.current = segment
             /\ r.marked /\ r.current = segment => p.seg >= segment + 1
  <2>1. Follows(r, socket[e], cur_seg[e], segment)  BY <1>1, <1>5 DEF FollowInv, Seen
  <2>2. p = socket[e][1] /\ 1 \in DOMAIN socket[e]  BY StreamTaken
  <2> QED  BY <1>1, <1>5, <2>1, <2>2 DEF Heard, Follows, NotBefore
<1>6. CASE Writes(e) /\ p.seg = segment
  <2>1. /\ lost' => lost \/ (recorded[e] # {} /\ Cardinality(written) < Len(ps))
        /\ recorded'[e] # {} => recorded[e] # {} \/ written # {}
        /\ open \/ written # {} => n.recording
    BY <1>6, WriteEffect
  <2>2. n.q = <<>> /\ n.current = segment /\ n.marked = (r.marked /\ r.current = segment)
    BY <1>6 DEF Writes
  <2>3. ~(r.marked /\ r.current = segment)
    <3>1. CASE r.seen
      <4>1. ~(segment >= segment + 1)  BY <1>4
      <4> QED  BY <1>5, <1>6, <3>1, <4>1
    <3>2. CASE ~r.seen
      <4>1. r = FreshRemote  BY <3>2 DEF StreamInv, Fresh
      <4> QED  BY <4>1 DEF FreshRemote
    <3> QED  BY <3>1, <3>2
  <2>4. KeepsUp(n, p.frame, segment)
    <3>1. ~n.marked /\ n.q = <<>> /\ n.current = segment  BY <2>2, <2>3
    <3>2. segment >= 0 /\ segment >= segment - 1 /\ ~(segment < segment)  BY <1>4
    <3>3. p.frame < Start(segment + 1)  BY <1>2, <1>6
    <3>4. \A i \in DOMAIN n.q : FALSE  BY <3>1
    <3> QED  BY <3>1, <3>2, <3>3, <3>4 DEF KeepsUp
  <2>5. ASSUME recorded[e] # {}
        PROVE  written # {} /\ Cardinality(written) = Len(ps)
    <3>1. r.seen  BY <1>1, <2>5 DEF Heard
    <3>2. /\ ps \in Seq(Packet) /\ Len(ps) = Len(q) + 1 /\ DOMAIN q = 1..Len(q)
          /\ DOMAIN ps = 1..Len(q) + 1 /\ ps[Len(q) + 1] = p
          /\ \A i \in DOMAIN q : ps[i] = q[i]
      BY <1>2, <1>4, Appended
    <3>3. ps # <<>>  BY <1>4, <3>2
    <3> DEFINE g == Got(e) - Len(q)
    <3>4. g \in Int /\ p.frame = g + (Len(q) + 1)
      <4>1. p.frame = Got(e) + 1 /\ Got(e) \in Int /\ Len(q) \in Nat  BY <1>2, <1>4, GotIs
      <4> HIDE DEF p, q
      <4> QED  BY <4>1
    <3>5. \A i \in DOMAIN q : q[i].frame = g + i /\ Keyed(q[i])  BY <1>5, <3>1 DEF KeepsUp
    <3> HIDE DEF ps, g
    <3>6. \A i \in 1..Len(q) + 1 : i \in 1..Len(q) \/ i = Len(q) + 1  BY <1>4
    <3>7. \A i \in DOMAIN ps : ps[i].frame = g + i  BY <3>2, <3>4, <3>5, <3>6
    <3>8. open \/ ps[1].key
      <4>1. CASE r.current = segment  BY <1>5, <2>5, <3>1, <4>1
      <4>2. CASE r.current # segment
        <5>1. r.marked /\ r.current < segment  BY <1>4, <1>5, <3>1, <4>2
        <5>2. r.current >= 0 /\ r.current >= segment - 1
              /\ q # <<>> /\ q[1].frame = Start(r.current + 1)
          BY <1>5, <3>1, <5>1 DEF KeepsUp
        <5>3. r.current + 1 = segment /\ segment > 0  BY <1>4, <5>1, <5>2
        <5>4. 1 \in DOMAIN q /\ q[1].seg \in Nat /\ q[1].frame \in Nat
          BY <1>4, <5>2, StreamsTyped, Taken
        <5>5. q[1].seg = segment
          <6>1. q[1].seg >= segment /\ q[1].frame = Start(segment)  BY <1>3, <5>2, <5>3, <5>4
          <6>2. Start(q[1].seg) <= q[1].frame
            <7>1. OfSegment(q[1])  BY <1>1, <5>4 DEF StreamInv, Framed
            <7> QED  BY <7>1 DEF OfSegment, Start
          <6>3. ASSUME segment < q[1].seg  PROVE FALSE
            <7>1. Start(segment + 1) <= Start(q[1].seg) /\ Start(q[1].seg) \in Nat
              BY <1>4, <5>4, <6>3, StartsApart, StartIs
            <7> QED  BY <1>4, <5>4, <6>1, <6>2, <7>1, Lengths
          <6> QED  BY <1>4, <5>4, <6>1, <6>3
        <5>6. q[1].key  BY <3>5, <5>2, <5>3, <5>4, <5>5 DEF Keyed
        <5> QED  BY <3>2, <5>4, <5>6
      <4> QED  BY <4>1, <4>2
    <3> HIDE DEF open
    <3> QED  BY <3>2, <3>3, <3>4, <3>7, <3>8, AllWritten
  <2>6. ~lost'
    <3>1. Len(ps) \in Nat  BY <1>2, <1>4
    <3> HIDE DEF ps, written
    <3> QED  BY <1>1, <2>1, <2>5, <3>1
  <2>7. recorded'[e] # {} /\ n.current = segment => n.recording
    <3> HIDE DEF open, written
    <3> QED  BY <2>1, <2>5
  <2> QED  BY <1>2, <1>4, <2>4, <2>6, <2>7 DEF Heard
<1>7. CASE Keeps(e)
  <2>1. r.seen
    <3> SUFFICES ASSUME ~r.seen  PROVE FALSE
      OBVIOUS
    <3>1. Known(e).offset = p.seg /\ segment = 0  BY <1>3, Received, KnownIs
    <3>2. SegOf(e) = 0  BY <1>2, <3>1 DEF SegOf
    <3> QED  BY <1>7, <3>1, <3>2 DEF Keeps
  <2>2. /\ KeepsUp(r, Got(e), segment) /\ (recorded[e] # {} /\ r.current = segment => r.recording)
        /\ r.current <= segment
        /\ ~r.marked => q = <<>> /\ r.current = segment
    BY <1>5, <2>1
  <2>3. p.seg > segment
    <3>1. Follows(r, socket[e], cur_seg[e], segment)  BY <1>1, <2>1 DEF FollowInv, Seen
    <3>2. Known(e) = r /\ r.offset = 0  BY <2>1, <3>1, Received, KnownIs DEF Follows
    <3>3. SegOf(e) = p.seg  BY <1>2, <3>2 DEF SegOf
    <3> QED  BY <1>7, <3>3 DEF Keeps
  <2>4. p.frame >= Start(segment + 1)
    <3>1. Start(segment + 1) <= Start(p.seg) /\ Start(p.seg) \in Nat
      BY <1>2, <1>4, <2>3, StartsApart, StartIs
    <3> QED  BY <1>2, <1>4, <3>1
  <2>5. r.current = segment
    <3>1. ASSUME r.current < segment  PROVE FALSE
      <4>1. Got(e) <= Start(segment) + MaxLag  BY <2>2, <3>1 DEF KeepsUp
      <4> QED  BY <1>2, <1>4, <2>4, <4>1, GotIs, Lengths DEF Timely
    <3> QED  BY <1>4, <2>2, <3>1
  <2>6. Len(q) <= MaxQueue
    <3>1. CASE ~r.marked
      <4>1. Len(q) = 0  BY <2>2, <3>1
      <4> QED  BY <4>1, Lengths
    <3>2. CASE r.marked
      <4>1. /\ q # <<>> /\ q[1].frame = Start(segment + 1)
            /\ \A i \in DOMAIN q : q[i].frame = Got(e) - Len(q) + i
        BY <2>2, <2>5, <3>2 DEF KeepsUp
      <4>2. 1 \in DOMAIN q  BY <1>4, <4>1, Taken
      <4>3. Start(segment + 1) = Got(e) - Len(q) + 1  BY <4>1, <4>2
      <4>4. now <= Start(segment + 1) + MaxLag  BY DEF OnTime, InSegment
      <4>5. MaxLag <= MaxQueue  BY DEF Timely
      <4>6. /\ Got(e) + 1 <= now /\ Got(e) \in Int /\ now \in Int /\ Len(q) \in Nat
            /\ Start(segment + 1) \in Nat
        BY <1>2, <1>4, GotIs
      <4> HIDE DEF p, q
      <4> QED  BY <4>3, <4>4, <4>5, <4>6, Lengths
    <3> QED  BY <3>1, <3>2
  <2>7. /\ n.q = ps /\ n.marked /\ n.current = segment /\ n.recording = r.recording
        /\ recorded' = recorded /\ ~lost'
    <3>1. ~(Len(q) > MaxQueue)  BY <1>4, <2>6, Lengths
    <3>2. Known(e).q = q  BY Received, KnownIs
    <3>3. recorded' = recorded /\ lost' = (lost \/ Len(q) > MaxQueue)
      BY <1>7, <3>2 DEF Keeps, Keep
    <3>4. ~lost'  BY <1>1, <3>1, <3>3
    <3> QED  BY <1>7, <2>5, <3>1, <3>3, <3>4 DEF Keeps
  <2>8. /\ ps \in Seq(Packet) /\ Len(ps) = Len(q) + 1 /\ DOMAIN q = 1..Len(q)
        /\ DOMAIN ps = 1..Len(q) + 1 /\ ps[Len(q) + 1] = p
        /\ \A i \in DOMAIN q : ps[i] = q[i]
    BY <1>2, <1>4, Appended
  <2>9. ps # <<>>  BY <1>4, <2>8
  <2> HIDE DEF ps
  <2>10. ASSUME NEW i \in DOMAIN ps
         PROVE  ps[i].frame = p.frame - Len(ps) + i /\ Keyed(ps[i])
    <3>1. i \in 1..Len(q) \/ i = Len(q) + 1  BY <1>4, <2>8
    <3>2. CASE i \in 1..Len(q)
      <4>1. q[i].frame = Got(e) - Len(q) + i /\ Keyed(q[i]) /\ ps[i] = q[i]
        BY <2>2, <2>8, <3>2 DEF KeepsUp
      <4>2. p.frame - Len(ps) = Got(e) - Len(q)
        <5>1. Len(ps) = Len(q) + 1  BY <2>8
        <5>2. p.frame = Got(e) + 1 /\ Got(e) \in Int /\ Len(q) \in Nat  BY <1>2, <1>4, GotIs
        <5> HIDE DEF p, q
        <5> QED  BY <5>1, <5>2
      <4> QED  BY <4>1, <4>2
    <3>3. CASE i = Len(q) + 1  BY <1>2, <1>4, <2>8, <3>3
    <3> QED  BY <3>1, <3>2, <3>3
  <2>11. ps[1].frame = Start(segment + 1)
    <3>1. CASE r.marked
      <4>1. q # <<>> /\ q[1].frame = Start(segment + 1)  BY <2>2, <2>5, <3>1 DEF KeepsUp
      <4>2. 1 \in DOMAIN q  BY <1>4, <4>1, Taken
      <4> QED  BY <2>8, <4>1, <4>2
    <3>2. CASE ~r.marked
      <4>1. Len(q) = 0 /\ ps[1] = p  BY <2>2, <2>8, <3>2
      <4>2. Got(e) < Start(segment + 1)  BY <2>2, <2>5, <3>2 DEF KeepsUp
      <4> QED  BY <1>2, <1>4, <2>4, <4>1, <4>2, GotIs
    <3> QED  BY <3>1, <3>2
  <2>12. KeepsUp(n, p.frame, segment)
    <3>1. segment >= 0 /\ segment >= segment - 1 /\ ~(segment < segment)  BY <1>4
    <3> QED  BY <2>7, <2>9, <2>10, <2>11, <3>1 DEF KeepsUp
  <2> QED  BY <1>2, <1>4, <2>2, <2>5, <2>7, <2>12 DEF Heard
<1> QED  BY <1>3, <1>6, <1>7

LEMMA PunctualReceive ==
  ASSUME Timely, TypeOK, StreamInv, FollowInv, OnTime, NEW e \in Encoders, Receive(e)
  PROVE  OnTime'
<1>1. /\ UNCHANGED <<now, stalled, skipped>> /\ last_camera_seen' = now
      /\ max_waiting' = WaitingThen(e) /\ RotateIfNeeded(ReadyThen(e), WaitingThen(e), now)
      /\ \A d \in Encoders \ {e} : remote'[d] = remote[d] /\ recorded'[d] = recorded[d]
  BY Received DEF encoderd
<1>2. Following'
      /\ \A d \in Encoders : Sending(d)' /\ Got(d)' = IF d = e THEN Got(e) + 1 ELSE Got(d)
  BY PacketOnTime
<1>3. /\ stalled = {} /\ ~skipped /\ Following /\ InSegment
      /\ \A d \in Encoders :
           Sending(d) /\ Heard(remote[d], Got(d), recorded[d], last_camera_seen, segment)
  BY DEF OnTime
<1> DEFINE got == [d \in Encoders |-> Got(d)']
<1>4. Heard(remote'[e], Got(e)', recorded'[e], now, segment) /\ ~lost'  BY RecordHeard
<1>5. ASSUME NEW d \in Encoders
      PROVE  /\ Heard(remote'[d], got[d], recorded'[d], now, segment)
             /\ got[d] \in Int /\ got[d] <= now
             /\ remote'[d].current \in Int /\ remote'[d].q \in Seq(Packet)
  <2>1. got[d] = Got(d)'  OBVIOUS
  <2>2. TypeOK'  BY ReceiveTypes
  <2>3. remote'[d].current \in Int /\ remote'[d].q \in Seq(Packet)  BY <2>2 DEF TypeOK
  <2>4. Got(d) <= now  BY <1>3, GotIs DEF Sending
  <2>5. CASE d = e
    <3>1. Got(e) + 1 <= now  BY PacketOnTime
    <3> QED  BY <1>2, <1>4, <2>1, <2>3, <2>5, <3>1, GotIs
  <2>6. CASE d # e
    <3>1. Heard(remote[d], Got(d), recorded[d], now, segment)  BY <1>3, <2>4 DEF Heard
    <3> QED  BY <1>1, <1>2, <2>1, <2>3, <2>4, <2>6, <3>1, GotIs
  <2> QED  BY <2>5, <2>6
<1>6. /\ \A d \in Seen(remote') : remote'[d].current <= segment
      /\ ReadyThen(e) = Cardinality(Counted(remote', segment))
  BY <1>2, <1>3, PacketFollows DEF Follows
<1>7. WaitingThen(e) = Cardinality(Seen(remote'))  BY <1>1, StreamReceive DEF StreamInv, Seen
<1>8. ~TimedOut(now)  BY NoTimeout
<1> HIDE DEF got
<1>9. /\ \A d \in Encoders : Heard(remote'[d], got[d], recorded'[d], now, segment')
      /\ InSegment'
  BY <1>1, <1>3, <1>5, <1>6, <1>7, <1>8, RotationHeard
<1>10. ASSUME NEW d \in Encoders
       PROVE  Heard(remote'[d], Got(d)', recorded'[d], last_camera_seen', segment')
  BY <1>1, <1>9 DEF got
<1> QED
  BY <1>1, <1>2, <1>3, <1>4, <1>9, <1>10 DEF OnTime, Heard, KeepsUp, Keyed, Start

LEMMA PunctualOther ==
  ASSUME Timely, TypeOK, StreamInv, FollowInv, OnTime, OtherMessage
  PROVE  OnTime'
<1>1. /\ UNCHANGED <<now, last, cur_seg, stalled, skipped, socket, remote, recorded, lost,
                     last_camera_seen>>
      /\ RotateIfNeeded(ready_to_rotate, max_waiting, last_camera_seen)
  BY DEF OtherMessage, encoderd, received
<1>2. /\ stalled = {} /\ ~skipped /\ ~lost /\ Following /\ InSegment
      /\ \A d \in Encoders :
           Sending(d) /\ Heard(remote[d], Got(d), recorded[d], last_camera_seen, segment)
  BY DEF OnTime
<1> DEFINE got == [d \in Encoders |-> Got(d)]
<1>3. ASSUME NEW d \in Encoders
      PROVE  /\ Heard(remote[d], got[d], recorded[d], last_camera_seen, segment)
             /\ got[d] \in Int /\ got[d] <= now
             /\ remote[d].current \in Int /\ remote[d].q \in Seq(Packet)
  <2>1. got[d] = Got(d)  OBVIOUS
  <2>2. remote[d].current \in Int /\ remote[d].q \in Seq(Packet)  BY DEF TypeOK
  <2>3. Got(d) <= now  BY <1>2, GotIs DEF Sending
  <2> HIDE DEF got
  <2> QED  BY <1>2, <2>1, <2>2, <2>3, GotIs
<1>4. /\ \A d \in Seen(remote) : remote[d].current <= segment
      /\ ready_to_rotate = Cardinality(Counted(remote, segment))
      /\ max_waiting = Cardinality(Seen(remote))
  BY <1>2 DEF FollowInv, Follows, StreamInv
<1>5. ~TimedOut(last_camera_seen)  BY NoTimeout
<1> HIDE DEF got
<1>6. /\ \A d \in Encoders : Heard(remote[d], got[d], recorded[d], last_camera_seen, segment')
      /\ InSegment' /\ UNCHANGED fallback
  BY <1>1, <1>2, <1>3, <1>4, <1>5, RotationHeard
<1>7. ASSUME NEW d \in Encoders
      PROVE  /\ Heard(remote'[d], Got(d)', recorded'[d], last_camera_seen', segment')
             /\ Sending(d)'
  <2>1. Got(d)' = Got(d) /\ got[d] = Got(d)  BY <1>1 DEF Got, got
  <2>2. Heard(remote'[d], Got(d)', recorded'[d], last_camera_seen', segment')
    BY <1>1, <1>6, <2>1
  <2>3. Sending(d)'  BY <1>1, <1>2, <2>1 DEF Sending, Keyed, Start
  <2> QED  BY <2>2, <2>3
<1>8. Following'  BY <1>1, <1>2, <1>6 DEF Following
<1> QED  BY <1>1, <1>2, <1>6, <1>7, <1>8 DEF OnTime, Heard, KeepsUp, Keyed, Start

(* A look at the counters leaves no rotation due.                          *)
LEMMA RotatedByLook ==
  ASSUME NEW ready, NEW waiting \in Nat, NEW camera, RotateIfNeeded(ready, waiting, camera),
         max_waiting' = waiting
  PROVE  Rotated'
<1>1. ready_to_rotate' = 0 \/ (ready_to_rotate' = ready /\ ~AllReady(ready, waiting))
  BY DEF RotateIfNeeded
<1> QED  BY <1>1 DEF Rotated, AllReady

LEMMA RotatedStep == TypeOK /\ Rotated /\ [Next]_vars => Rotated'
<1> SUFFICES ASSUME TypeOK, Rotated, [Next]_vars  PROVE Rotated'
  OBVIOUS
<1>1. ASSUME NEW e \in Encoders, Receive(e)  PROVE Rotated'
  <2>1. max_waiting' = WaitingThen(e) /\ RotateIfNeeded(ReadyThen(e), WaitingThen(e), now)
    BY <1>1, Received
  <2>2. WaitingThen(e) \in Nat  BY DEF WaitingThen, TypeOK
  <2> QED  BY <2>1, <2>2, RotatedByLook
<1>2. CASE OtherMessage
  <2>1. max_waiting' = max_waiting /\ max_waiting \in Nat
        /\ RotateIfNeeded(ready_to_rotate, max_waiting, last_camera_seen)
    BY <1>2 DEF OtherMessage, received, TypeOK
  <2> QED  BY <2>1, RotatedByLook
<1>3. CASE UNCHANGED <<max_waiting, ready_to_rotate>>  BY <1>3 DEF Rotated
<1> QED
  BY <1>1, <1>2, <1>3 DEF Next, Frame, Encode, Stall, Resume, vars, rotation, received

LEMMA PunctualStep ==
  ASSUME Timely, TypeOK, AlignInv, Punctual, Rotated, [Next]_vars
  PROVE  Punctual'
<1>1. StreamInv /\ FollowInv  BY DEF AlignInv
<1>2. CASE Frame
  <2>1. UNCHANGED stalls  BY <1>2 DEF Frame
  <2> QED  BY <1>1, <1>2, <2>1, PunctualFrame DEF Punctual
<1>3. CASE OtherMessage
  <2>1. UNCHANGED stalls  BY <1>3 DEF OtherMessage, encoderd
  <2> QED  BY <1>1, <1>3, <2>1, PunctualOther DEF Punctual
<1>4. ASSUME NEW e \in Encoders, Encode(e)  PROVE Punctual'
  <2>1. UNCHANGED stalls  BY <1>4 DEF Encode
  <2> QED  BY <1>4, <2>1, PunctualEncode DEF Punctual
<1>5. ASSUME NEW e \in Encoders, Receive(e)  PROVE Punctual'
  <2>1. UNCHANGED stalls  BY <1>5 DEF Receive, encoderd
  <2> QED  BY <1>1, <1>5, <2>1, PunctualReceive DEF Punctual
<1>6. ASSUME NEW e \in Encoders, Stall(e)  PROVE Punctual'
  <2>1. stalls' # 0
    <3>1. stalls' = stalls + 1 /\ stalls \in Nat
      BY <1>6, LogRotationAssumption DEF Stall, TypeOK
    <3> QED  BY <3>1
  <2> QED  BY <2>1 DEF Punctual
<1>7. ASSUME NEW e \in Encoders, Resume(e)  PROVE Punctual'
  <2>1. UNCHANGED stalls /\ e \in stalled  BY <1>7 DEF Resume
  <2> QED  BY <2>1 DEF Punctual, OnTime
<1>8. CASE UNCHANGED vars
  <2>1. UNCHANGED <<now, last, cur_seg, stalled, stalls, skipped, socket, segment, last_rotate,
                    fallback, remote, recorded, lost, last_camera_seen>>
    BY <1>8 DEF vars, encoderd, rotation
  <2>2. \A e \in Encoders : Got(e)' = Got(e)  BY <2>1 DEF Got
  <2> QED
    BY <2>1, <2>2
    DEF Punctual, OnTime, Following, InSegment, Sending, Heard, KeepsUp, Keyed, Start
<1> QED  BY <1>2, <1>3, <1>4, <1>5, <1>6, <1>7, <1>8 DEF Next

LEMMA PunctualInit ==
  ASSUME Init
  PROVE  Punctual /\ Rotated
<1>1. /\ stalled = {} /\ ~skipped /\ ~lost /\ Following
  BY DEF Init, Following, FreshRemote
<1>2. InSegment
  <2>1. now = 0 /\ last_rotate = 0 /\ segment = 0  BY DEF Init
  <2>2. 0 + 1 = 1 /\ 0 <= Length + MaxLag  BY Lengths
  <2> QED  BY <2>1, <2>2, FirstStart DEF InSegment
<1>3. ASSUME NEW e \in Encoders
      PROVE  Sending(e) /\ Heard(remote[e], Got(e), recorded[e], last_camera_seen, segment)
  <2>1. /\ last[e] \in {-1, 0} /\ now = 0 /\ cur_seg[e] = 0 /\ segment = 0
        /\ socket[e] = <<>> /\ ~remote[e].seen /\ recorded[e] = {}
    BY DEF Init, FreshRemote
  <2>2. Got(e) = last[e]  BY <2>1 DEF Got
  <2>3. last[e] < Start(cur_seg[e] + 1)  BY <2>1, FirstStart, Lengths
  <2>4. Sending(e)  BY <2>1, <2>2, <2>3, Lengths DEF Sending
  <2>5. Heard(remote[e], Got(e), recorded[e], last_camera_seen, segment)
    BY <2>1, <2>2 DEF Heard
  <2> QED  BY <2>4, <2>5
<1>4. Rotated  BY DEF Init, Rotated
<1> QED  BY <1>1, <1>2, <1>3, <1>4 DEF Punctual, OnTime

(* While all encoders work nothing is thrown away and loggerd never needs  *)
(* its clock (handle_encoder_msg, rotate_if_needed, the queue of           *)
(* MAIN_FPS * 10 packets), for any number of encoders, if the lag of       *)
(* encoders and loggerd is within what it waits for.                       *)
THEOREM NothingIsLost == Timely => (Spec => []NothingLost)
<1> SUFFICES ASSUME Timely  PROVE Spec => []NothingLost
  OBVIOUS
<1> DEFINE Inv == TypeOK /\ AlignInv /\ Punctual /\ Rotated
<1>1. Init => Inv  BY TypeInit, AlignInit, PunctualInit
<1>2. Inv /\ [Next]_vars => Inv'  BY TypeStep, AlignStep, PunctualStep, RotatedStep
<1>3. Inv => NothingLost  BY DEF Punctual, OnTime, Following, NothingLost
<1> QED  BY <1>1, <1>2, <1>3, PTL DEF Spec

=============================================================================
