---------------------------- MODULE LogRotation ----------------------------
(***************************************************************************)
(* How loggerd cuts a route into segments.  Each encoder of encoderd opens *)
(* a new stream when the frame id passes the end of a segment, each by     *)
(* itself; loggerd follows when all encoders that publish have done so,    *)
(* keeps what the faster ones send meanwhile, and falls back to its clock  *)
(* when cameras or encoders fail.                                          *)
(*                                                                         *)
(* Time is counted in frames of the cameras, which run in step.  A packet  *)
(* carries its frame id, the segment the encoder was in, and whether it is *)
(* a keyframe.                                                             *)
(***************************************************************************)
EXTENDS Integers, Sequences, FiniteSets

CONSTANTS
  Encoders,     \* the encoders whose streams are recorded
  Length,       \* SEGMENT_LENGTH * MAIN_FPS: frames of a segment
  Gop,          \* frames from one keyframe to the next
  Slack,        \* the fifth of a segment after which loggerd gives up waiting
  Patience,     \* NO_CAMERA_PATIENCE
  MaxQueue,     \* MAIN_FPS * 10: packets kept while waiting for the others
  MaxLag,       \* bound: frames a working encoder is behind
  MaxTime,      \* bound: frames
  MaxStalls     \* bound: how often an encoder stops for a while

ASSUME LogRotationAssumption ==
  /\ IsFiniteSet(Encoders)
  /\ {Length, Gop, Slack, Patience, MaxQueue, MaxLag} \subseteq Nat \ {0}
  /\ MaxTime \in Nat /\ MaxStalls \in Nat

VARIABLES
  now,         \* the id of the last frame of the cameras
  last,        \* last[e]: the last frame e has encoded
  cur_seg,     \* cur_seg[e]: encoderd's segment
  stalled,     \* the encoders that encode nothing
  stalls,      \* how often one has stalled
  skipped,     \* history: an encoder has missed a whole segment
  socket,      \* socket[e]: packets on their way to loggerd
  segment,     \* loggerd's segment
  ready_to_rotate, max_waiting, last_rotate, last_camera_seen,
  remote,      \* loggerd's RemoteEncoder for each encoder
  polled,      \* a message has been handled since the last frame
  recorded,    \* recorded[e]: <<segment of the frame, segment of the log>>
  lost,        \* a packet was thrown away
  fallback     \* loggerd has rotated by its clock

encoderd == <<now, last, cur_seg, stalled, stalls, skipped>>
rotation == <<segment, ready_to_rotate, last_rotate, fallback>>
vars == <<encoderd, socket, rotation, max_waiting, last_camera_seen, remote,
          polled, recorded, lost>>
received == <<max_waiting, last_camera_seen, remote, recorded, lost>>

Packet == [frame : Nat, seg : Nat, key : BOOLEAN]

(* inTime, of the model alone: the encoder was not first seen after the    *)
(* first rotation.                                                         *)
FreshRemote == [seen |-> FALSE, inTime |-> TRUE, offset |-> 0, current |-> -1, q |-> <<>>,
                recording |-> FALSE, marked |-> FALSE]

(* Every variable has its type, and no more packets wait than the limit.   *)
TypeOK ==
  /\ now \in 0..MaxTime /\ last \in [Encoders -> -1..MaxTime]
  /\ cur_seg \in [Encoders -> Nat] /\ stalled \subseteq Encoders /\ stalls \in 0..MaxStalls
  /\ skipped \in BOOLEAN
  /\ socket \in [Encoders -> Seq(Packet)]
  /\ segment \in Nat /\ last_rotate \in Nat /\ last_camera_seen \in Int
  /\ ready_to_rotate \in Nat /\ max_waiting \in Nat
  /\ remote \in [Encoders -> [seen : BOOLEAN, inTime : BOOLEAN, offset : Int, current : Int, q : Seq(Packet),
                              recording : BOOLEAN, marked : BOOLEAN]]
  /\ \A e \in Encoders : Len(remote[e].q) <= MaxQueue + 1
  /\ recorded \in [Encoders -> SUBSET (Nat \X Nat)]
  /\ polled \in BOOLEAN /\ lost \in BOOLEAN /\ fallback \in BOOLEAN

(* The manager starts loggerd and encoderd together: loggerd begins at the *)
(* start of the encoders' first segment, and what they have sent before    *)
(* nobody received.                                                        *)
Init ==
  /\ now = 0 /\ last \in [Encoders -> -1..0]
  /\ cur_seg = [e \in Encoders |-> 0] /\ stalled = {} /\ stalls = 0
  /\ skipped = FALSE
  /\ socket = [e \in Encoders |-> <<>>]
  /\ segment = 0 /\ ready_to_rotate = 0 /\ max_waiting = 0
  /\ last_rotate = 0 /\ last_camera_seen = -Patience - 1
  /\ remote = [e \in Encoders |-> FreshRemote]
  /\ polled = TRUE
  /\ recorded = [e \in Encoders |-> {}]
  /\ lost = FALSE /\ fallback = FALSE

-----------------------------------------------------------------------------
(* Cameras and encoderd.                                                   *)

(* The cameras deliver the next frame.  loggerd and the encoders that work *)
(* keep up within MaxLag; messages of other services arrive all the time.  *)
Frame ==
  /\ now < MaxTime
  /\ polled
  /\ \A e \in Encoders :
       /\ e \in stalled \/ now - last[e] < MaxLag
       /\ socket[e] # <<>> => now - Head(socket[e]).frame < MaxLag
  /\ now' = now + 1
  /\ polled' = FALSE
  /\ UNCHANGED <<last, cur_seg, stalled, stalls, skipped, socket, rotation, received>>

(* encoder_thread encodes the next frame, or the oldest still in the       *)
(* camera's buffers.  It opens a new stream when the frame id passes the   *)
(* end of its segment, one segment at a time; a stream begins with a       *)
(* keyframe.                                                               *)
Encode(e) ==
  /\ e \notin stalled
  /\ last[e] < now
  /\ LET f == IF now - last[e] < MaxLag THEN last[e] + 1 ELSE now - MaxLag + 1
         rolls == f >= (cur_seg[e] + 1) * Length
         p == [frame |-> f, seg |-> cur_seg[e] + (IF rolls THEN 1 ELSE 0),
               key |-> rolls \/ f % Gop = 0]
     IN  /\ last' = [last EXCEPT ![e] = f]
         /\ cur_seg' = [cur_seg EXCEPT ![e] = p.seg]
         /\ socket' = [socket EXCEPT ![e] = Append(@, p)]
         /\ skipped' = (skipped \/ f >= (p.seg + 1) * Length)
  /\ UNCHANGED <<now, stalled, stalls, rotation, polled, received>>

(* A camera or an encoder stops for a while. *)
Stall(e) ==
  /\ e \notin stalled /\ stalls < MaxStalls
  /\ stalled' = stalled \cup {e} /\ stalls' = stalls + 1
  /\ UNCHANGED <<now, last, cur_seg, skipped, socket, rotation, polled, received>>

Resume(e) ==
  /\ e \in stalled
  /\ stalled' = stalled \ {e}
  /\ UNCHANGED <<now, last, cur_seg, stalls, skipped, socket, rotation, polled, received>>

-----------------------------------------------------------------------------
(* loggerd.                                                                *)

(* Mutant: the clock counts only while no camera is seen.                  *)
TimedOutPatiently(seen) ==
  /\ now - last_rotate > Length
  /\ now - seen > Patience

(* rotate_if_needed, given the counters and the last camera packet.        *)
TimedOut(seen) ==
  /\ now - last_rotate > Length
  /\ now - seen > Patience \/ now - last_rotate > Length + Slack

(* Mutant: the first encoder that rolls over takes loggerd along.          *)
AnyReady(ready, waiting) == waiting > 0 /\ ready > 0

AllReady(ready, waiting) == waiting > 0 /\ ready = waiting

RotateIfNeeded(ready, waiting, seen) ==
  IF AllReady(ready, waiting) \/ TimedOut(seen)
    THEN /\ segment' = segment + 1
         /\ ready_to_rotate' = 0
         /\ last_rotate' = now
         /\ fallback' = (fallback \/ ~AllReady(ready, waiting))
    ELSE /\ ready_to_rotate' = ready
         /\ UNCHANGED <<segment, last_rotate, fallback>>

(* write_encode_data for one packet after the other: nothing is written    *)
(* before a keyframe.                                                      *)
FromKey(ps, recording) ==
  LET starts == {i \in DOMAIN ps : recording \/ ps[i].key}
  IN  {ps[i] : i \in {j \in DOMAIN ps : \E s \in starts : s <= j}}

(* Mutant: the mark of the last rotation stays.                            *)
EnteredMarked(r) ==
  IF r.current = segment THEN r
  ELSE [r EXCEPT !.current = segment, !.recording = FALSE]

(* loggerd has reached the packets' segment: the old file is closed, the   *)
(* new one waits for a keyframe.                                           *)
Entered(r) ==
  IF r.current = segment THEN r
  ELSE [r EXCEPT !.current = segment, !.recording = FALSE, !.marked = FALSE]

(* The packet belongs to loggerd's segment: what was kept is written, and  *)
(* then the packet.                                                        *)
Write(e, r, p) ==
  LET ps == Append(r.q, p)
      written == FromKey(ps, Entered(r).recording)
  IN  /\ remote' = [remote EXCEPT ![e] =
                      [Entered(r) EXCEPT !.q = <<>>, !.recording = @ \/ written # {}]]
      /\ recorded' = [recorded EXCEPT ![e] = @ \cup
                        {<<w.frame \div Length, segment>> : w \in written}]
      /\ lost' = (lost \/ (recorded[e] # {} /\ Cardinality(written) < Len(ps)))

(* The packet is of a newer segment, so the encoder has rolled over: its   *)
(* packets are kept until the others have too, up to a limit.              *)
Keep(e, r, p) ==
  /\ remote' = [remote EXCEPT ![e] =
                  [r EXCEPT !.marked = TRUE,
                            !.q = IF Len(@) > MaxQueue THEN @ ELSE Append(@, p)]]
  /\ lost' = (lost \/ Len(r.q) > MaxQueue)
  /\ UNCHANGED recorded

(* The packet is of an older segment: the offset is set as for an encoderd *)
(* that has just been restarted.                                           *)
Discard(e, r) ==
  /\ remote' = [remote EXCEPT ![e] = [r EXCEPT !.offset = -segment]]
  /\ lost' = TRUE
  /\ UNCHANGED recorded

(* loggerd_thread takes a packet: handle_encoder_msg, rotate_if_needed.    *)
Receive(e) ==
  /\ socket[e] # <<>>
  /\ LET p == Head(socket[e])
         r == IF remote[e].seen THEN remote[e]
              ELSE [remote[e] EXCEPT !.seen = TRUE, !.inTime = (p.seg + segment = 0),
                                        !.offset = p.seg]
         seg == p.seg - r.offset
         waiting == max_waiting + (IF remote[e].seen THEN 0 ELSE 1)
         ready == ready_to_rotate + (IF seg > segment /\ ~r.marked THEN 1 ELSE 0)
     IN  /\ CASE seg = segment -> Write(e, r, p)
              [] seg > segment -> Keep(e, r, p)
              [] seg < segment -> Discard(e, r)
         /\ max_waiting' = waiting
         /\ RotateIfNeeded(ready, waiting, now)
  /\ last_camera_seen' = now
  /\ socket' = [socket EXCEPT ![e] = Tail(@)]
  /\ polled' = TRUE
  /\ UNCHANGED encoderd

(* A message of any other service.                                         *)
OtherMessage ==
  /\ ~polled
  /\ RotateIfNeeded(ready_to_rotate, max_waiting, last_camera_seen)
  /\ polled' = TRUE
  /\ UNCHANGED <<encoderd, socket, received>>

Next ==
  \/ Frame \/ OtherMessage
  \/ \E e \in Encoders : Encode(e) \/ Stall(e) \/ Resume(e) \/ Receive(e)

Spec == Init /\ [][Next]_vars

-----------------------------------------------------------------------------
(* Properties.                                                             *)

(* Until loggerd has to rotate by its clock, the frames of each minute of  *)
(* each camera are in the segment of that minute, however the encoders are *)
(* interleaved and one of them hesitates (rotation on all_ready, the queue *)
(* of handle_encoder_msg), if each had been seen before the first rotation *)
(* and none has missed a whole segment, which its numbers do not count.    *)
Aligned ==
  (~fallback /\ ~skipped /\ \A e \in Encoders : remote[e].inTime) =>
    \A e \in Encoders : \A c \in recorded[e] : c[1] = c[2]

(* While all encoders work nothing is thrown away and the clock is not     *)
(* needed: every rotation resets the marks and counters the next one needs *)
(* (logger_rotate, marked_ready_to_rotate).                                *)
NothingLost == stalls = 0 => ~lost /\ ~fallback

(* No segment grows long, whatever fails: the fallback of rotate_if_needed *)
(* ends it at the first message after a fifth more than its length.        *)
LengthBounded == now - last_rotate <= Length + Slack + (IF polled THEN 0 ELSE 1)

=============================================================================
