------------------------ MODULE DriverMonitoring_proofs ------------------------
(***************************************************************************)
(* Theorems about DriverMonitoring for every scale of the thresholds and   *)
(* every table of lockout times.                                           *)
(*                                                                         *)
(* The argument for the alerts is about the awareness that waits for the   *)
(* policy that is not active.  Sound(m, w) says that an awareness at or    *)
(* below the second alert, active or waiting, has been shown (w), and that *)
(* no such awareness ever waits for the vision policy, which is not left   *)
(* below its second alert.                                                 *)
(***************************************************************************)
EXTENDS DriverMonitoring, TLAPS

Mind == [awareness : -1..FullAwareness, last : [Policies -> 1..FullAwareness],
         policy : Policies, step : Nat]

Sound(m, w) ==
  /\ m \in Mind
  /\ m.step <= Step[m.policy]
  /\ m.awareness <= Alert2[m.policy] => w
  /\ m.policy = "vision" /\ m.last["wheeltouch"] <= Alert2["wheeltouch"] => w
  /\ m.policy = "wheeltouch" => m.last["vision"] > Alert2["vision"]

(* What the constants' assumption says of one policy.                      *)
LEMMA Thresholds ==
  ASSUME NEW p \in Policies
  PROVE  /\ Step[p] \in Nat \ {0} /\ Alert2[p] \in Nat /\ Alert1[p] \in Nat
         /\ FullAwareness \in Nat \ {0}
         /\ Step[p] <= Alert2[p] /\ Alert2[p] < Alert1[p] /\ Alert1[p] < FullAwareness
BY MonitoringAssumption

(* A reset leaves nothing below any alert. *)
LEMMA ResetIsSound ==
  ASSUME NEW m \in Mind, m.step <= Step[m.policy], NEW w \in BOOLEAN
  PROVE  Sound(Reset(m), w)
<1>1. \A p \in Policies : Alert2[p] < FullAwareness /\ Alert2[p] \in Nat
  BY Thresholds
<1>2. Reset(m) \in Mind /\ Reset(m).awareness = FullAwareness
      /\ Reset(m).policy = m.policy /\ Reset(m).step = m.step
      /\ Reset(m).last = [q \in Policies |-> FullAwareness]
  <2> DEFINE full == [q \in Policies |-> FullAwareness]
  <2>1. FullAwareness \in 1..FullAwareness /\ FullAwareness \in -1..FullAwareness
    BY MonitoringAssumption
  <2>2. full \in [Policies -> 1..FullAwareness]
    BY <2>1
  <2> HIDE DEF full
  <2>3. Reset(m) = [m EXCEPT !.awareness = FullAwareness, !.last = full]
    BY DEF Reset, full
  <2>4. /\ Reset(m) \in Mind /\ Reset(m).awareness = FullAwareness
        /\ Reset(m).policy = m.policy /\ Reset(m).step = m.step /\ Reset(m).last = full
    BY <2>1, <2>2, <2>3 DEF Mind
  <2> QED BY <2>4 DEF full
<1> QED BY <1>1, <1>2, MonitoringAssumption DEF Sound, Policies, Mind

(* Choosing a policy keeps what is known of the awareness, and leaves one  *)
(* that is down to zero where it is.                                       *)
LEMMA SetPolicyIsSound ==
  ASSUME NEW m, NEW w \in BOOLEAN, Sound(m, w), NEW target \in Policies
  PROVE  /\ Sound(SetPolicy(m, target), w)
         /\ m.awareness <= 0 => SetPolicy(m, target).awareness = m.awareness
<1> DEFINE n == SetPolicy(m, target)
<1>a. /\ m \in Mind /\ m.step <= Step[m.policy] /\ m.awareness \in -1..FullAwareness
      /\ m.policy \in Policies /\ m.step \in Nat /\ m.last \in [Policies -> 1..FullAwareness]
  BY DEF Sound, Mind
<1>b. \A p \in Policies : /\ Step[p] \in Nat /\ Alert2[p] \in Nat /\ 0 <= Alert2[p]
                          /\ 0 <= Step[p]
  BY Thresholds
<1>1. CASE m.policy = "vision" /\ m.awareness <= Alert2["vision"]
  <2>1. n = [m EXCEPT !.step = IF target = "vision" THEN Step["vision"] ELSE 0]
    BY <1>1 DEF SetPolicy
  <2>2. /\ n \in Mind /\ n.awareness = m.awareness /\ n.policy = m.policy /\ n.last = m.last
        /\ n.step <= Step[n.policy]
    BY <1>1, <1>a, <1>b, <2>1 DEF Mind, Policies
  <2> QED BY <2>2 DEF Sound
<1>2. CASE ~(m.policy = "vision" /\ m.awareness <= Alert2["vision"]) /\ m.awareness <= 0
  BY <1>2 DEF SetPolicy
<1>3. CASE ~(m.policy = "vision" /\ m.awareness <= Alert2["vision"]) /\ ~(m.awareness <= 0)
           /\ target = m.policy
  <2>1. n = [m EXCEPT !.step = Step[target]]
    BY <1>3 DEF SetPolicy
  <2>2. /\ n \in Mind /\ n.awareness = m.awareness /\ n.policy = m.policy /\ n.last = m.last
        /\ n.step <= Step[n.policy]
    BY <1>3, <1>a, <1>b, <2>1 DEF Mind
  <2> QED BY <2>2, <1>3 DEF Sound
<1>4. CASE ~(m.policy = "vision" /\ m.awareness <= Alert2["vision"]) /\ ~(m.awareness <= 0)
           /\ target # m.policy
  <2>1. n = [awareness |-> m.last[target],
             last |-> [m.last EXCEPT ![m.policy] = m.awareness],
             policy |-> target, step |-> Step[target]]
    BY <1>4 DEF SetPolicy
  <2>2. m.awareness \in 1..FullAwareness
    BY <1>4, <1>a, MonitoringAssumption
  <2>3. /\ n.awareness = m.last[target] /\ n.policy = target /\ n.step = Step[target]
        /\ n.last[m.policy] = m.awareness
        /\ n \in Mind /\ n.step <= Step[n.policy]
    BY <1>a, <1>b, <2>1, <2>2 DEF Mind
  <2>4. CASE target = "wheeltouch"
    BY <1>4, <1>a, <1>b, <2>2, <2>3, <2>4 DEF Sound, Policies
  <2>5. CASE target = "vision"
    BY <1>4, <1>a, <1>b, <2>2, <2>3, <2>5 DEF Sound, Policies
  <2> QED BY <2>4, <2>5, <1>4 DEF Policies
<1> QED BY <1>1, <1>2, <1>3, <1>4

(* Recovering raises the awareness, and that which waits for wheeltouch.   *)
LEMMA RecoveredIsSound ==
  ASSUME NEW m, NEW w \in BOOLEAN, Sound(m, w), NEW a \in RecoversTo(m)
  PROVE  /\ Sound(Recovered(m, a), w)
         /\ Recovered(m, a).awareness = a /\ a >= m.awareness
         /\ Recovered(m, a).step = m.step /\ Recovered(m, a).policy = m.policy
<1>a. /\ m \in Mind /\ m.step <= Step[m.policy] /\ m.awareness \in -1..FullAwareness
      /\ m.policy \in Policies /\ m.step \in Nat /\ m.last \in [Policies -> 1..FullAwareness]
      /\ m.last["wheeltouch"] \in 1..FullAwareness
  BY DEF Sound, Mind, Policies
<1>b. \A p \in Policies : /\ Step[p] \in Nat /\ Alert2[p] \in Nat
  BY Thresholds
<1>c. FullAwareness \in Nat /\ a \in Int /\ a >= m.awareness /\ a \in -1..FullAwareness
  BY <1>a, MonitoringAssumption DEF RecoversTo
<1> DEFINE v == Least(m.last["wheeltouch"] + m.step, FullAwareness)
<1>d. v \in 1..FullAwareness /\ v >= m.last["wheeltouch"]
  BY <1>a, <1>c DEF Least
<1>1. CASE a = FullAwareness
  <2> HIDE DEF v
  <2>1. Recovered(m, a) = [m EXCEPT !.awareness = a, !.last = [m.last EXCEPT !["wheeltouch"] = v]]
    BY <1>1, <1>a DEF Recovered, v, Mind
  <2> DEFINE L == [m.last EXCEPT !["wheeltouch"] = v]
  <2>2. L \in [Policies -> 1..FullAwareness] /\ L["wheeltouch"] = v
        /\ L["vision"] = m.last["vision"]
    BY <1>a, <1>d DEF Policies
  <2> HIDE DEF L
  <2>3. Recovered(m, a) = [m EXCEPT !.awareness = a, !.last = L]
    BY <2>1 DEF L
  <2>4. /\ Recovered(m, a) \in Mind /\ Recovered(m, a).awareness = a
        /\ Recovered(m, a).step = m.step /\ Recovered(m, a).policy = m.policy
        /\ Recovered(m, a).last = L
    BY <1>a, <1>c, <2>2, <2>3 DEF Mind
  <2>5. m.last["vision"] \in Int /\ v \in Int /\ m.last["wheeltouch"] \in Int
        /\ Alert2["vision"] \in Int /\ Alert2["wheeltouch"] \in Int
        /\ Alert2[m.policy] \in Int
    BY <1>a, <1>b, <1>d DEF Policies
  <2> QED BY <1>a, <1>c, <1>d, <2>2, <2>4, <2>5 DEF Sound
<1>2. CASE a # FullAwareness
  <2>1. Recovered(m, a) = [m EXCEPT !.awareness = a]
    BY <1>2 DEF Recovered
  <2>2. /\ Recovered(m, a) \in Mind /\ Recovered(m, a).awareness = a
        /\ Recovered(m, a).step = m.step /\ Recovered(m, a).policy = m.policy
        /\ Recovered(m, a).last = m.last
    BY <1>a, <1>c, <2>1 DEF Mind
  <2>3. Alert2[m.policy] \in Int
    BY <1>a, <1>b
  <2> QED BY <1>a, <1>c, <2>2, <2>3 DEF Sound
<1> QED BY <1>1, <1>2

(* One frame of _update_events: what it shows and what it leaves.  Counting *)
(* down by at most the second alert's height cannot step over it.          *)
LEMMA UpdateIsSound ==
  ASSUME NEW m, NEW w \in BOOLEAN, Sound(m, w), NEW r, NEW f, NEW op \in BOOLEAN,
         Update(m, r, f, op),
         NEW w2 \in BOOLEAN, w2 = (alert_level' = "two" \/ (w /\ ~Resets(m, f, op)))
  PROVE  /\ Sound(mind', w2)
         /\ alert_level' \in {"none", "one", "two", "three"}
         /\ alert_level' = "three" => mind'.awareness <= 0 /\ w2
         /\ alert_level' = "three" => op
         /\ m.awareness <= 0 /\ op
            => alert_level' = "three" /\ red' = CountRed(r, m.awareness)
         /\ red' = r \/ red' = CountRed(r, m.awareness)
<1>a. /\ m \in Mind /\ m.step <= Step[m.policy] /\ m.awareness \in -1..FullAwareness
      /\ m.policy \in Policies /\ m.step \in Nat
  BY DEF Sound, Mind
<1>b. /\ Step[m.policy] \in Nat /\ Alert2[m.policy] \in Nat /\ Alert1[m.policy] \in Nat
      /\ Step[m.policy] <= Alert2[m.policy] /\ FullAwareness \in Nat
  BY <1>a, Thresholds
<1>1. CASE Resets(m, f, op)
  <2>1. mind' = Reset(m) /\ alert_level' = "none" /\ red' = r
    BY <1>1 DEF Update
  <2>2. ~(m.awareness <= 0 /\ op)
    BY <1>1, <1>a DEF Resets, ResetsFirst, Recovers
  <2> QED BY <1>a, <2>1, <2>2, ResetIsSound
<1>2. CASE ~Resets(m, f, op)
  <2>1. PICK n \in IF Recovers(m, f) THEN {Recovered(m, a) : a \in RecoversTo(m)} ELSE {m} :
          IF Recovers(m, f) /\ n.awareness > Alert2[n.policy]
          THEN mind' = n /\ alert_level' = "none" /\ red' = r
          ELSE /\ mind' = CountDown(m, n, f, op)
               /\ alert_level' = Level(mind')
               /\ red' = IF mind'.awareness <= 0 THEN CountRed(r, m.awareness) ELSE r
    BY <1>2 DEF Update
  <2>2. /\ Sound(n, w) /\ n.step = m.step /\ n.policy = m.policy
        /\ n.awareness >= m.awareness
        /\ ~Recovers(m, f) => n = m
    BY <2>1, <1>a, RecoveredIsSound
  <2>3. /\ n \in Mind /\ n.awareness \in -1..FullAwareness /\ n.step \in Nat
        /\ n.last \in [Policies -> 1..FullAwareness]
    BY <2>2 DEF Sound, Mind
  <2>4. w2 = (alert_level' = "two" \/ w)
    BY <1>2
  <2>5. CASE Recovers(m, f) /\ n.awareness > Alert2[n.policy]
    <3>1. m.awareness > 0
      BY <2>5 DEF Recovers
    <3> QED BY <2>1, <2>2, <2>4, <2>5, <3>1, <1>a
  <2>6. CASE ~(Recovers(m, f) /\ n.awareness > Alert2[n.policy])
    <3> DEFINE q == CountDown(m, n, f, op)
    <3>1. /\ mind' = q /\ alert_level' = Level(q)
          /\ red' = IF q.awareness <= 0 THEN CountRed(r, m.awareness) ELSE r
      BY <2>1, <2>6
    <3>2. /\ q \in Mind /\ q.policy = m.policy /\ q.step = m.step /\ q.last = n.last
          /\ q.awareness <= n.awareness
          /\ q.awareness < n.awareness => q.awareness = -1 \/ q.awareness = n.awareness - n.step
          /\ q.awareness = -1 => n.awareness - n.step <= -1 \/ q.awareness = n.awareness
                                  \/ n.awareness - n.step = -1
      BY <2>2, <2>3, <1>a, <1>b DEF CountDown, Mind
    <3>3. q.awareness \in -1..FullAwareness
      BY <3>2 DEF Mind
    <3> HIDE DEF q
    <3>4. q.awareness <= Alert2[q.policy] => w2
      <4>1. CASE q.awareness <= 0 /\ n.awareness > Alert2[n.policy]
        BY <4>1, <3>2, <3>3, <2>2, <2>3, <1>a, <1>b
      <4>2. CASE n.awareness <= Alert2[n.policy]
        BY <4>2, <2>2, <2>4 DEF Sound
      <4>3. CASE ~(q.awareness <= 0) /\ q.awareness <= Alert2[q.policy]
        BY <4>3, <3>1, <2>4, <3>3 DEF Level
      <4> QED BY <4>1, <4>2, <4>3, <3>2, <3>3, <2>2, <2>3, <1>b
    <3>5. Sound(q, w2)
      BY <3>2, <3>4, <2>2, <2>4, <1>a DEF Sound
    <3>6. Level(q) \in {"none", "one", "two", "three"}
          /\ (Level(q) = "three" <=> q.awareness <= 0)
      BY DEF Level
    <3>7. q.awareness <= 0 => w2
      BY <3>2, <3>3, <3>4, <1>b
    <3>8. ASSUME q.awareness <= 0, ~op PROVE FALSE
      <4>1. AlwaysOnValid(f) /\ m.awareness > 0
        BY <1>2, <3>8, <1>a DEF Resets, ResetsFirst
      <4>2. n.awareness > 0 /\ q.awareness < n.awareness
        BY <4>1, <3>8, <2>2, <2>3, <3>3, <1>a
      <4>3. ~AlwaysOnExemption(m, f, op)
        BY <4>2, <2>3, <3>3 DEF q, CountDown
      <4>4. m.awareness - m.step > 0
        BY <4>1, <4>3, <3>8, <1>a DEF AlwaysOnExemption
      <4> QED BY <4>4, <4>2, <3>8, <3>2, <3>3, <2>2, <2>3, <1>a
    <3>9. m.awareness <= 0 => q.awareness <= 0
      BY <2>2, <2>3, <3>2, <3>3, <1>a DEF Recovers
    <3> QED BY <3>1, <3>5, <3>6, <3>7, <3>8, <3>9
  <2> QED BY <2>5, <2>6
<1> QED BY <1>1, <1>2
-----------------------------------------------------------------------------
(* The lockout.                                                            *)

LockoutOK(l) ==
  /\ l \in [active : BOOLEAN, count : 0..Len(LockoutTimes), duration : Nat \ {0}, elapsed : Nat]
  /\ l.elapsed <= l.duration
  /\ ~l.active => l.elapsed = 0

(* Counting a lockout ends it only when it expires; one that has just      *)
(* begun does not expire yet.                                              *)
LEMMA CountedIsOK ==
  ASSUME NEW l, LockoutOK(l), NEW r
  PROVE  /\ LockoutOK(Counted(Begun(l, r)))
         /\ Begun(l, r).count \in 0..Len(LockoutTimes)
         /\ Begins(l, r) => Counted(Begun(l, r)).active
         /\ l.active /\ ~Expires(Begun(l, r)) => Counted(Begun(l, r)).active
         /\ Expires(Begun(l, r)) => l.active /\ ~Counted(Begun(l, r)).active
<1>a. /\ l \in [active : BOOLEAN, count : 0..Len(LockoutTimes), duration : Nat \ {0}, elapsed : Nat]
      /\ l.elapsed <= l.duration /\ (~l.active => l.elapsed = 0)
      /\ l.active \in BOOLEAN /\ l.count \in 0..Len(LockoutTimes)
      /\ l.duration \in Nat \ {0} /\ l.elapsed \in Nat
  BY DEF LockoutOK
<1> DEFINE b == Begun(l, r)
           c == Least(l.count + 1, Len(LockoutTimes))
<1>b. Len(LockoutTimes) \in Nat \ {0}
      /\ \A i \in 1..Len(LockoutTimes) : LockoutTimes[i] \in Nat \ {0}
  BY MonitoringAssumption
<1>1. /\ b \in [active : BOOLEAN, count : 0..Len(LockoutTimes), duration : Nat \ {0}, elapsed : Nat]
      /\ b.elapsed <= b.duration /\ (~b.active => b.elapsed = 0) /\ b.elapsed = l.elapsed
      /\ b.active \in BOOLEAN /\ b.duration \in Nat \ {0} /\ b.elapsed \in Nat
      /\ b.count \in 0..Len(LockoutTimes)
      /\ Begins(l, r) => b.active /\ b.elapsed = 0
      /\ ~Begins(l, r) => b = l
  <2>1. CASE Begins(l, r)
    <3>1. c \in 1..Len(LockoutTimes) /\ LockoutTimes[c] \in Nat \ {0}
      BY <1>a, <1>b DEF Least
    <3>2. b = [l EXCEPT !.active = TRUE, !.count = c, !.duration = LockoutTimes[c]]
      BY <2>1 DEF Begun
    <3>3. l.elapsed = 0
      BY <2>1, <1>a DEF Begins
    <3> HIDE DEF b, c
    <3>4. c \in 0..Len(LockoutTimes) /\ c \in 1..Len(LockoutTimes)
      BY <3>1, <1>b
    <3>5. /\ b.active = TRUE /\ b.count = c /\ b.duration = LockoutTimes[c]
          /\ b.elapsed = l.elapsed
          /\ b = [active |-> TRUE, count |-> c, duration |-> LockoutTimes[c], elapsed |-> l.elapsed]
      BY <3>2, <1>a
    <3>6. b.elapsed <= b.duration
      BY <3>1, <3>3, <3>5
    <3> QED BY <3>1, <3>3, <3>4, <3>5, <3>6, <2>1, <1>a
  <2>2. CASE ~Begins(l, r)
    BY <2>2, <1>a DEF Begun
  <2> QED BY <2>1, <2>2
<1> HIDE DEF b
<1>2. CASE ~b.active
  BY <1>1, <1>2 DEF LockoutOK, Counted, b, Expires
<1>3. CASE b.active /\ Expires(b)
  <2>1. Counted(b) = [b EXCEPT !.active = FALSE, !.elapsed = 0]
    BY <1>3 DEF Counted
  <2>2. ~Begins(l, r) /\ b = l
    BY <1>1, <1>3 DEF Expires
  <2>3. LockoutOK(Counted(b)) /\ ~Counted(b).active
    <3>1. Counted(b) = [active |-> FALSE, count |-> b.count, duration |-> b.duration, elapsed |-> 0]
      BY <2>1, <1>1
    <3> QED BY <3>1, <1>1 DEF LockoutOK
  <2>4. l.active
    BY <2>2, <1>3
  <2> QED BY <2>2, <2>3, <2>4, <1>1, <1>3 DEF b
<1>4. CASE b.active /\ ~Expires(b)
  <2>1. Counted(b) = [b EXCEPT !.elapsed = b.elapsed + 1]
    BY <1>4 DEF Counted
  <2>2. b.elapsed + 1 <= b.duration
    BY <1>1, <1>4 DEF Expires
  <2> QED BY <2>1, <2>2, <1>1, <1>4 DEF LockoutOK, b
<1> QED BY <1>2, <1>3, <1>4, <1>1
-----------------------------------------------------------------------------
(* The inductive invariant.  A lockout that is owed is active, or on       *)
(* record while no dmonitoringd runs; what selfdrived remembers to have    *)
(* recorded, it has.                                                       *)

RedOK(r) ==
  r \in [alert3 : 0..MaxAlert3, since : 0..NoResponseTimeout + 1, noResponse : BOOLEAN]

LEMMA CountRedIsOK ==
  ASSUME NEW r, RedOK(r), NEW prev \in Int
  PROVE  /\ RedOK(CountRed(r, prev))
         /\ prev <= 0 /\ r.since >= NoResponseTimeout
            => CountRed(r, prev).since >= NoResponseTimeout
BY MonitoringAssumption DEF RedOK, CountRed, Least

Owed ==
  /\ started => running
  /\ dm_lockout_set => started /\ DriverTooDistracted
  /\ owed = "begun" => started /\ lockout.active
  /\ owed = "recorded" => DriverTooDistracted /\ (running => lockout.active)

Inv ==
  /\ TypeOK
  /\ Sound(mind, warned)
  /\ alert_level = "three" => mind.awareness <= 0 /\ warned
  /\ seen = "disengaged" => alert_level # "three"
  /\ LockoutOK(lockout)
  /\ Owed

(* What a process that starts anew satisfies. *)
LEMMA RestedIsSound ==
  Sound(Rested("vision"), FALSE) /\ Rested("vision").awareness = FullAwareness
<1>1. \A p \in Policies : Alert2[p] < FullAwareness /\ Alert2[p] \in Nat /\ Step[p] \in Nat
  BY Thresholds
<1>2. FullAwareness \in 1..FullAwareness /\ FullAwareness \in -1..FullAwareness
  BY MonitoringAssumption
<1> QED BY <1>1, <1>2 DEF Rested, Sound, Mind, Policies

LEMMA FreshIsOK ==
  ASSUME NEW t \in BOOLEAN, NEW count \in 0..Len(LockoutTimes)
  PROVE  LockoutOK([active |-> t, count |-> count, duration |-> Duration(count), elapsed |-> 0])
         /\ RedOK(NoRed)
<1>1. Duration(count) \in Nat \ {0}
  BY MonitoringAssumption DEF Duration
<1> QED BY <1>1, MonitoringAssumption DEF LockoutOK, RedOK, NoRed

LEMMA FreshMonitorIsOK ==
  ASSUME NEW t \in BOOLEAN, NEW count \in 0..Len(LockoutTimes), FreshMonitor(t, count),
         warned' = FALSE, seen' = "none"
  PROVE  /\ Sound(mind', warned') /\ LockoutOK(lockout') /\ RedOK(red')
         /\ mind' \in Mind
         /\ distraction' \in 0..FilterMax /\ hi_stds' \in 0..HiStdFallback
         /\ alert_level' = "none" /\ always_on' \in BOOLEAN /\ demo_mode' = FALSE
         /\ lockout'.active = t
BY RestedIsSound, FreshIsOK, MonitoringAssumption DEF FreshMonitor, Sound

LEMMA InitInv == Init => Inv
<1> SUFFICES ASSUME Init PROVE Inv
  OBVIOUS
<1>1. 0 \in 0..Len(LockoutTimes) /\ 0 \in 0..FilterMax /\ 0 \in 0..HiStdFallback
      /\ 0 \in 0..MaxCycles /\ 0 \in 0..FrameIds - 1
  BY MonitoringAssumption
<1>2. LockoutOK(lockout) /\ RedOK(red) /\ Sound(mind, warned)
  BY <1>1, FreshIsOK, RestedIsSound DEF Init
<1>3. lockout \in [active : BOOLEAN, count : 0..Len(LockoutTimes), duration : Nat, elapsed : Nat]
      /\ lockout.elapsed <= lockout.duration
  BY <1>2 DEF LockoutOK
<1>4. TypeOK
  BY <1>1, <1>2, <1>3, MonitoringAssumption DEF Init, TypeOK, RedOK, Sound, Mind
<1> QED BY <1>2, <1>4 DEF Init, Inv, Owed
-----------------------------------------------------------------------------
(* What one run of run_step does, whatever the frame.                      *)
LEMMA RunStepFacts ==
  ASSUME Inv, NEW f, NEW op \in BOOLEAN, RunStep(f, op)
  PROVE  /\ Sound(mind', warned') /\ RedOK(red') /\ LockoutOK(lockout')
         /\ warned' \in BOOLEAN
         /\ alert_level' \in {"none", "one", "two", "three"}
         /\ alert_level' = "three" => mind'.awareness <= 0 /\ warned' /\ op
         /\ distraction' \in 0..FilterMax /\ hi_stds' \in 0..HiStdFallback
         /\ always_on' \in BOOLEAN /\ demo_mode' \in BOOLEAN
         /\ DriverLockoutCount' \in 0..Len(LockoutTimes)
         /\ owed' \in {owed, "no", "begun"}
         /\ owed' = "begun" \/ (owed' = owed /\ lockout.active) => lockout'.active \/ owed' = "no"
         /\ owed' = "begun" => (owed = "begun" \/ ~demo_mode)
         /\ seen' = "disengaged" <=> ~op
         /\ seen' \in {"disengaged", "engaged", "inattentive", "absent"}
         /\ alert_level = "three" /\ op => alert_level' = "three"
         /\ alert_level = "three" /\ op /\ red.since >= NoResponseTimeout
            => red'.since >= NoResponseTimeout \/ (lockout.active /\ ~lockout'.active)
<1> DEFINE m == SetPolicy(mind, Target(f))
           l == Begun(lockout, red)
           r == IF Expires(l) THEN NoRed ELSE red
<1>1. /\ distraction' = Filtered(f) /\ hi_stds' = HiStds(f)
      /\ Update(m, r, f, op)
      /\ lockout' = Counted(l)
      /\ DriverLockoutCount' = IF Begins(lockout, red) THEN l.count ELSE DriverLockoutCount
      /\ owed' = IF Expires(l) THEN "no"
                 ELSE IF Begins(lockout, red) /\ ~demo_mode THEN "begun" ELSE owed
      /\ Observe(f, op)
      /\ ReloadToggles
  BY DEF RunStep
<1>2. TypeOK /\ Sound(mind, warned) /\ LockoutOK(lockout) /\ RedOK(red) /\ warned \in BOOLEAN
      /\ (alert_level = "three" => mind.awareness <= 0)
  BY DEF Inv, TypeOK, RedOK
<1>3. Target(f) \in Policies
  BY DEF Target, Policies
<1>4. Sound(m, warned) /\ (mind.awareness <= 0 => m.awareness = mind.awareness)
  BY <1>2, <1>3, SetPolicyIsSound
<1>5. /\ LockoutOK(lockout') /\ l.count \in 0..Len(LockoutTimes)
      /\ Begins(lockout, red) => lockout'.active
      /\ lockout.active /\ ~Expires(l) => lockout'.active
      /\ Expires(l) => lockout.active /\ ~lockout'.active
  BY <1>1, <1>2, CountedIsOK
<1>6. RedOK(r)
  <2>1. RedOK(NoRed)
    BY MonitoringAssumption DEF RedOK, NoRed
  <2> QED BY <2>1, <1>2 DEF r
<1>7. /\ warned' = (alert_level' = "two" \/ (warned /\ ~Resets(m, f, op)))
      /\ warned' \in BOOLEAN
  BY <1>1 DEF Observe
<1> HIDE DEF m, l, r
<1>8. /\ Sound(mind', warned')
      /\ alert_level' \in {"none", "one", "two", "three"}
      /\ alert_level' = "three" => mind'.awareness <= 0 /\ warned'
      /\ alert_level' = "three" => op
      /\ m.awareness <= 0 /\ op => alert_level' = "three" /\ red' = CountRed(r, m.awareness)
      /\ red' = r \/ red' = CountRed(r, m.awareness)
  BY <1>1, <1>2, <1>4, <1>7, UpdateIsSound
<1>9. m.awareness \in Int
  BY <1>4 DEF Sound, Mind
<1>10. RedOK(red')
  BY <1>6, <1>8, <1>9, CountRedIsOK
<1>11. distraction' \in 0..FilterMax /\ hi_stds' \in 0..HiStdFallback
  <2>1. distraction \in 0..FilterMax /\ hi_stds \in 0..HiStdFallback
        /\ FilterMax \in Nat /\ HiStdFallback \in Nat
    BY <1>2, MonitoringAssumption DEF TypeOK
  <2>2. distraction' \in 0..FilterMax
    BY <2>1, <1>1 DEF Filtered, Least
  <2>3. Least(hi_stds + 1, HiStdFallback) \in 0..HiStdFallback /\ 0 \in 0..HiStdFallback
    BY <2>1 DEF Least
  <2>4. hi_stds' \in 0..HiStdFallback
    <3>1. CASE f.driver = "blurred"
      BY <3>1, <2>3, <1>1 DEF HiStds
    <3>2. CASE f.driver = "absent"
      BY <3>2, <2>1, <1>1 DEF HiStds
    <3>3. CASE f.driver # "blurred" /\ f.driver # "absent"
      BY <3>3, <2>3, <1>1 DEF HiStds
    <3> QED BY <3>1, <3>2, <3>3
  <2> QED BY <2>2, <2>4
<1>12. always_on' \in BOOLEAN /\ demo_mode' \in BOOLEAN
  BY <1>1, <1>2, MonitoringAssumption DEF ReloadToggles, TypeOK
<1>13. DriverLockoutCount' \in 0..Len(LockoutTimes)
  BY <1>1, <1>2, <1>5 DEF TypeOK
<1>14. /\ owed' \in {owed, "no", "begun"}
       /\ owed' = "begun" => (owed = "begun" \/ ~demo_mode)
       /\ owed' = "begun" \/ (owed' = owed /\ lockout.active)
          => lockout'.active \/ owed' = "no"
  <2>1. CASE Expires(l)
    BY <2>1, <1>1
  <2>2. CASE ~Expires(l) /\ Begins(lockout, red)
    BY <2>2, <1>1, <1>5
  <2>3. CASE ~Expires(l) /\ ~Begins(lockout, red)
    <3>1. owed' = owed /\ (owed = "begun" => lockout.active)
      BY <2>3, <1>1 DEF Inv, Owed
    <3> QED BY <3>1, <2>3, <1>5
  <2> QED BY <2>1, <2>2, <2>3
<1>15. /\ seen' = "disengaged" <=> ~op
       /\ seen' \in {"disengaged", "engaged", "inattentive", "absent"}
  BY <1>1 DEF Observe
<1>16. alert_level = "three" /\ op => alert_level' = "three"
  BY <1>2, <1>4, <1>8
<1>17. ASSUME alert_level = "three", op, red.since >= NoResponseTimeout
       PROVE  red'.since >= NoResponseTimeout \/ (lockout.active /\ ~lockout'.active)
  <2>1. CASE Expires(l)
    BY <2>1, <1>5
  <2>2. CASE ~Expires(l)
    <3>1. r = red /\ m.awareness <= 0 /\ red' = CountRed(r, m.awareness)
      BY <2>2, <1>17, <1>2, <1>4, <1>8 DEF r
    <3> QED BY <3>1, <1>2, <1>9, <1>17, CountRedIsOK
  <2> QED BY <2>1, <2>2
<1> QED BY <1>5, <1>7, <1>8, <1>10, <1>11, <1>12, <1>13, <1>14, <1>15, <1>16, <1>17

(* A process that starts anew, or runs on, finds the lockout it owes in    *)
(* the param.                                                              *)
LEMMA StartsFacts ==
  ASSUME Inv, Starts
  PROVE  /\ Sound(mind', warned') /\ LockoutOK(lockout') /\ RedOK(red')
         /\ distraction' \in 0..FilterMax /\ hi_stds' \in 0..HiStdFallback
         /\ alert_level' \in {"none", "one", "two", "three"}
         /\ alert_level' = "three" => mind'.awareness <= 0 /\ warned'
         /\ seen' = "disengaged" => alert_level' # "three"
         /\ always_on' \in BOOLEAN /\ demo_mode' \in BOOLEAN /\ running' = TRUE
         /\ seen' \in {"none", "disengaged", "engaged", "inattentive", "absent"}
         /\ warned' \in BOOLEAN
         /\ owed \in {"begun", "recorded"} => lockout'.active
<1>1. CASE running
  BY <1>1 DEF Inv, TypeOK, RedOK, Owed, Starts, monitorVars, policyVars
<1>2. CASE ~running
  <2>1. /\ FreshMonitor(DriverTooDistracted, DriverLockoutCount)
        /\ seen' = "none" /\ warned' = FALSE /\ running' = TRUE
    BY <1>2 DEF Starts
  <2>2. DriverTooDistracted \in BOOLEAN /\ DriverLockoutCount \in 0..Len(LockoutTimes)
    BY DEF Inv, TypeOK
  <2>3. owed \in {"begun", "recorded"} => DriverTooDistracted
    BY <1>2 DEF Inv, Owed
  <2> QED BY <2>1, <2>2, <2>3, FreshMonitorIsOK
<1> QED BY <1>1, <1>2 DEF Inv, TypeOK

(* The same of a process that stops. *)
LEMMA ForgottenFacts ==
  ASSUME Forgotten
  PROVE  /\ Sound(mind', warned') /\ LockoutOK(lockout') /\ RedOK(red')
         /\ distraction' \in 0..FilterMax /\ hi_stds' \in 0..HiStdFallback
         /\ alert_level' = "none" /\ seen' = "none" /\ warned' = FALSE
         /\ always_on' \in BOOLEAN /\ demo_mode' \in BOOLEAN /\ running' = FALSE
<1>1. 0 \in 0..Len(LockoutTimes)
  BY MonitoringAssumption
<1> QED BY <1>1, FreshMonitorIsOK DEF Forgotten

(* What is left to show of a step, once its action has said the rest.      *)
MonitorOK ==
  /\ Sound(mind, warned) /\ LockoutOK(lockout) /\ RedOK(red)
  /\ distraction \in 0..FilterMax /\ hi_stds \in 0..HiStdFallback
  /\ alert_level \in {"none", "one", "two", "three"}
  /\ alert_level = "three" => mind.awareness <= 0 /\ warned
  /\ seen = "disengaged" => alert_level # "three"
  /\ always_on \in BOOLEAN /\ demo_mode \in BOOLEAN
  /\ seen \in {"none", "disengaged", "engaged", "inattentive", "absent"}
  /\ warned \in BOOLEAN

RestOK ==
  /\ frameId \in 0..FrameIds - 1 /\ running \in BOOLEAN
  /\ published \in BOOLEAN /\ started \in BOOLEAN /\ view \in BOOLEAN
  /\ engaged \in {"none", "lateral", "full"} /\ dm_lockout_set \in BOOLEAN
  /\ DriverTooDistracted \in BOOLEAN /\ DriverLockoutCount \in 0..Len(LockoutTimes)
  /\ cycles \in 0..MaxCycles
  /\ owed \in {"no", "begun", "recorded", "lost", "forgiven"}

LEMMA InvParts == Inv <=> MonitorOK /\ RestOK /\ Owed
<1>1. LockoutOK(lockout)
      => /\ lockout \in [active : BOOLEAN, count : 0..Len(LockoutTimes), duration : Nat, elapsed : Nat]
         /\ lockout.elapsed <= lockout.duration
  BY DEF LockoutOK
<1>2. Sound(mind, warned)
      => mind \in [awareness : -1..FullAwareness, last : [Policies -> 1..FullAwareness],
                   policy : Policies, step : Nat]
  BY DEF Sound, Mind
<1> QED BY <1>1, <1>2 DEF Inv, MonitorOK, RestOK, TypeOK, RedOK

LEMMA PublishFacts ==
  ASSUME RestOK, Publish
  PROVE  frameId' \in 0..FrameIds - 1 /\ published' \in BOOLEAN
<1>1. frameId \in 0..FrameIds - 1 /\ FrameIds \in Nat \ {0} /\ started \in BOOLEAN
  BY MonitoringAssumption DEF RestOK
<1> QED BY <1>1 DEF Publish
-----------------------------------------------------------------------------
(* One frame, with whatever engagement the loop assumes.                   *)
LEMMA FrameInv ==
  ASSUME Inv, running, started \/ demo_mode, NEW f, NEW op \in BOOLEAN, RunStep(f, op), Publish,
         UNCHANGED <<running, view, driveVars, DriverTooDistracted>>
  PROVE  Inv'
<1>1. MonitorOK'
  BY RunStepFacts DEF MonitorOK
<1>2. RestOK'
  <2>1. RestOK
    BY InvParts
  <2>2. frameId' \in 0..FrameIds - 1 /\ published' \in BOOLEAN
    BY <2>1, PublishFacts
  <2>3. DriverLockoutCount' \in 0..Len(LockoutTimes) /\ owed' \in {owed, "no", "begun"}
    BY RunStepFacts
  <2> QED BY <2>1, <2>2, <2>3 DEF RestOK, driveVars
<1>3. Owed'
  <2>1. /\ owed' \in {owed, "no", "begun"}
        /\ owed' = "begun" \/ (owed' = owed /\ lockout.active) => lockout'.active \/ owed' = "no"
        /\ owed' = "begun" => (owed = "begun" \/ ~demo_mode)
    BY RunStepFacts
  <2>2. Owed /\ running' = running /\ started' = started
        /\ DriverTooDistracted' = DriverTooDistracted /\ dm_lockout_set' = dm_lockout_set
    BY DEF Inv, driveVars
  <2> QED BY <2>1, <2>2 DEF Owed
<1> QED BY <1>1, <1>2, <1>3, InvParts, PTL

LEMMA StepInv == Inv /\ [Next]_vars => Inv'
<1> SUFFICES ASSUME Inv, [Next]_vars PROVE Inv'
  OBVIOUS
<1> USE DEF driveVars, params
<1>a. MonitorOK /\ RestOK /\ Owed
  BY InvParts
<1>b. MonitorOK' /\ RestOK' /\ Owed' => Inv'
  BY InvParts, PTL
<1>1. CASE DriveFrame
  <2>1. PICK f \in Frames : RunStep(f, OpEngaged(f))
    BY <1>1 DEF DriveFrame
  <2>2. OpEngaged(f) \in BOOLEAN
    BY MonitoringAssumption DEF OpEngaged, Frame
  <2> QED BY <2>1, <2>2, <1>1, FrameInv DEF DriveFrame
<1>2. CASE DemoFrame
  <2>1. PICK f \in Frames :
          RunStep([f EXCEPT !.interacting = FALSE, !.lowspeed = FALSE, !.wrong_gear = FALSE], TRUE)
    BY <1>2 DEF DemoFrame
  <2> QED BY <2>1, <1>2, FrameInv DEF DemoFrame
<1>3. CASE InvalidFrame
  <2>1. MonitorOK'
    BY <1>3, <1>a, MonitoringAssumption
       DEF InvalidFrame, MonitorOK, ReloadToggles, policyVars, RestOK
  <2>2. RestOK'
    BY <1>3, <1>a, PublishFacts DEF InvalidFrame, RestOK
  <2> QED BY <2>1, <2>2, <1>b, <1>3, <1>a DEF InvalidFrame, Owed, policyVars
<1>4. CASE SelfdriveCycle
  <2>1. MonitorOK'
    BY <1>4, <1>a DEF SelfdriveCycle, MonitorOK, monitorVars, policyVars
  <2>2. lockout.active \in BOOLEAN
    BY <1>a DEF MonitorOK, LockoutOK
  <2>3. RestOK'
    BY <1>4, <1>a, <2>2 DEF SelfdriveCycle, RestOK, MayBecome
  <2>4. Owed'
    BY <1>4, <1>a, <2>2 DEF SelfdriveCycle, Owed, monitorVars, policyVars, RestOK
  <2> QED BY <2>1, <2>3, <2>4, <1>b
<1>5. CASE StartDrive
  <2>1. MonitorOK' /\ running' = TRUE /\ (owed \in {"begun", "recorded"} => lockout'.active)
    BY <1>5, StartsFacts DEF StartDrive, MonitorOK
  <2>2. RestOK'
    BY <1>5, <1>a, <2>1 DEF StartDrive, RestOK, SelfdrivedAnew
  <2>3. Owed'
    BY <1>5, <1>a, <2>1 DEF StartDrive, Owed, SelfdrivedAnew
  <2> QED BY <2>1, <2>2, <2>3, <1>b
<1>6. CASE GoOffroad
  <2>1. MonitorOK' /\ running' = FALSE
    BY <1>6, ForgottenFacts DEF GoOffroad, MonitorOK
  <2>2. RestOK'
    <3>1. cycles + 1 \in 0..MaxCycles
      BY <1>6, <1>a, MonitoringAssumption DEF GoOffroad, RestOK
    <3> QED BY <3>1, <1>6, <1>a, <2>1 DEF GoOffroad, RestOK, SelfdrivedAnew
  <2>3. Owed'
    BY <1>6, <1>a, <2>1 DEF GoOffroad, Owed, SelfdrivedAnew
  <2> QED BY <2>1, <2>2, <2>3, <1>b
<1>7. CASE TurnIgnition
  <2>1. 0 \in 0..Len(LockoutTimes)
    BY MonitoringAssumption
  <2>2. MonitorOK' /\ running' \in BOOLEAN
    <3>1. CASE started
      BY <1>7, <3>1, ForgottenFacts DEF TurnIgnition, MonitorOK
    <3>2. CASE ~started
      BY <1>7, <1>a, <3>2 DEF TurnIgnition, MonitorOK, RestOK, monitorVars, policyVars
    <3> QED BY <3>1, <3>2
  <2>3. RestOK'
    BY <1>7, <1>a, <2>1, <2>2 DEF TurnIgnition, RestOK, SelfdrivedAnew
  <2>4. Owed'
    BY <1>7 DEF TurnIgnition, Owed, SelfdrivedAnew
  <2> QED BY <2>2, <2>3, <2>4, <1>b
<1>8. CASE ShowView
  <2>1. MonitorOK'
    BY <1>8, <1>a DEF ShowView, MonitorOK, monitorVars, policyVars
  <2>2. RestOK'
    <3>1. cycles + 1 \in 0..MaxCycles
      BY <1>8, <1>a, MonitoringAssumption DEF ShowView, RestOK
    <3> QED BY <3>1, <1>8, <1>a DEF ShowView, RestOK
  <2>3. Owed'
    BY <1>8, <1>a DEF ShowView, Owed
  <2> QED BY <2>1, <2>2, <2>3, <1>b
<1>9. CASE HideView
  <2>1. MonitorOK'
    BY <1>9, <1>a DEF HideView, MonitorOK, monitorVars, policyVars
  <2> QED BY <2>1, <1>9, <1>a, <1>b DEF HideView, RestOK, Owed, monitorVars, policyVars
<1>10. CASE StartForView
  <2>1. MonitorOK' /\ running' = TRUE /\ (owed \in {"begun", "recorded"} => lockout'.active)
    BY <1>10, StartsFacts DEF StartForView, MonitorOK
  <2> QED BY <2>1, <1>10, <1>a, <1>b DEF StartForView, RestOK, Owed
<1>11. CASE StopAfterView
  <2>1. MonitorOK' /\ running' = FALSE
    BY <1>11, ForgottenFacts DEF StopAfterView, MonitorOK
  <2>2. owed # "begun"
    BY <1>11, <1>a DEF StopAfterView, Owed
  <2> QED BY <2>1, <2>2, <1>11, <1>a, <1>b DEF StopAfterView, RestOK, Owed
<1>12. CASE UNCHANGED vars
  <2>1. MonitorOK'
    BY <1>12, <1>a DEF vars, MonitorOK, monitorVars, policyVars
  <2> QED BY <2>1, <1>12, <1>a, <1>b DEF vars, RestOK, Owed, monitorVars, policyVars
<1> QED
  BY <1>1, <1>2, <1>3, <1>4, <1>5, <1>6, <1>7, <1>8, <1>9, <1>10, <1>11, <1>12 DEF Next
-----------------------------------------------------------------------------
LEMMA Invariance == Spec => []Inv
BY InitInv, StepInv, PTL DEF Spec

(* Every counter and every alert keeps to its range. *)
THEOREM TypeCorrect == Spec => []TypeOK
<1>1. Inv => TypeOK
  BY DEF Inv
<1> QED BY <1>1, Invariance, PTL

(* The second alert has been shown before the third is: a frame takes off  *)
(* at most the height of the second alert, and an awareness below that     *)
(* alert is brought back from waiting only if it was shown before.         *)
THEOREM SecondAlertFirst == Spec => []WarnedBeforeRed
<1>1. Inv => WarnedBeforeRed
  BY DEF Inv, WarnedBeforeRed
<1> QED BY <1>1, Invariance, PTL

(* Driving by hand never reaches the third alert. *)
THEOREM ByHandNoRed == Spec => []NoRedByHand
<1>1. Inv => NoRedByHand
  BY DEF Inv, NoRedByHand
<1> QED BY <1>1, Invariance, PTL

(* Which frames leave the last one's word on the driver.                   *)
LEMMA WhoSees ==
  ASSUME Inv, [Next]_vars, seen' \in {"engaged", "inattentive", "absent"}
  PROVE  \/ UNCHANGED <<alert_level, red>>
         \/ \E f : RunStep(f, TRUE)
<1>1. ASSUME DriveFrame PROVE \E f : RunStep(f, TRUE)
  <2>1. PICK f \in Frames : RunStep(f, OpEngaged(f))
    BY <1>1 DEF DriveFrame
  <2>2. OpEngaged(f) = TRUE
    <3>1. OpEngaged(f) \in BOOLEAN
      BY MonitoringAssumption DEF OpEngaged, Frame
    <3>2. seen' = "disengaged" <=> ~OpEngaged(f)
      BY <2>1, <3>1, RunStepFacts
    <3> QED BY <3>1, <3>2
  <2> QED BY <2>1, <2>2
<1>2. ASSUME DemoFrame PROVE \E f : RunStep(f, TRUE)
  BY <1>2 DEF DemoFrame
<1>3. ASSUME Starts PROVE UNCHANGED <<alert_level, red>>
  BY <1>3 DEF Starts, monitorVars, policyVars
<1>4. ~Forgotten
  BY DEF Forgotten
<1>5. ASSUME TurnIgnition PROVE UNCHANGED <<alert_level, red>>
  BY <1>4, <1>5 DEF TurnIgnition, monitorVars, policyVars
<1>6. ~InvalidFrame /\ ~GoOffroad /\ ~StopAfterView
  BY <1>4 DEF InvalidFrame, GoOffroad, StopAfterView
<1>7. ASSUME SelfdriveCycle \/ ShowView \/ HideView PROVE UNCHANGED <<alert_level, red>>
  BY <1>7 DEF SelfdriveCycle, ShowView, HideView, monitorVars, policyVars
<1>8. ASSUME StartDrive \/ StartForView PROVE UNCHANGED <<alert_level, red>>
  BY <1>8, <1>3 DEF StartDrive, StartForView
<1>9. ASSUME UNCHANGED vars PROVE UNCHANGED <<alert_level, red>>
  BY <1>9 DEF vars, monitorVars, policyVars
<1> QED BY <1>1, <1>2, <1>5, <1>6, <1>7, <1>8, <1>9 DEF Next

(* Nothing but a disengagement ends the third alert: an awareness at zero  *)
(* is not moved by a change of policy, does not recover and is not reset   *)
(* by the driver's hands.                                                  *)
THEOREM RedEndsByDisengaging == Spec => RedStays
<1>1. Inv /\ [Next]_vars
      => (alert_level = "three" /\ seen' \in {"engaged", "inattentive", "absent"}
          => alert_level' = "three")
  <2> SUFFICES ASSUME Inv, [Next]_vars, alert_level = "three",
                      seen' \in {"engaged", "inattentive", "absent"}
               PROVE  alert_level' = "three"
    OBVIOUS
  <2>1. CASE UNCHANGED <<alert_level, red>>
    BY <2>1
  <2>2. CASE \E f : RunStep(f, TRUE)
    BY <2>2, RunStepFacts
  <2> QED BY <2>1, <2>2, WhoSees
<1> QED BY <1>1, Invariance, PTL DEF Spec, RedStays

(* The forced deceleration outlasts everything but the engagement and the  *)
(* moment at which a lockout expires.                                      *)
THEOREM DecelerationEndsWithLockout == Spec => DecelerationHolds
<1>1. Inv /\ [Next]_vars
      => (ForceDecel /\ seen' \in {"engaged", "inattentive", "absent"} /\ ~ForceDecel'
          => lockout.active /\ ~lockout'.active)
  <2> SUFFICES ASSUME Inv, [Next]_vars, ForceDecel, ~ForceDecel',
                      seen' \in {"engaged", "inattentive", "absent"}
               PROVE  lockout.active /\ ~lockout'.active
    OBVIOUS
  <2>1. ~UNCHANGED <<alert_level, red>>
    BY DEF ForceDecel
  <2>2. PICK f : RunStep(f, TRUE)
    BY <2>1, WhoSees
  <2>3. /\ alert_level' = "three"
        /\ red'.since >= NoResponseTimeout \/ (lockout.active /\ ~lockout'.active)
    BY <2>2, RunStepFacts DEF ForceDecel
  <2> QED BY <2>3 DEF ForceDecel
<1> QED BY <1>1, Invariance, PTL DEF Spec, DecelerationHolds

(* A lockout on record is served through every change between offroad and  *)
(* onroad: whichever dmonitoringd runs has it active, and selfdrived does  *)
(* not engage before it has heard from one.                                *)
THEOREM LockoutServed == Spec => RecordedLockoutHolds
<1>1. Inv /\ [Next]_vars
      => (engaged = "none" /\ engaged' # "none" => owed \in {"no", "lost", "forgiven"})
  <2> SUFFICES ASSUME Inv, [Next]_vars, engaged = "none", engaged' # "none"
               PROVE  owed \in {"no", "lost", "forgiven"}
    OBVIOUS
  <2>1. SelfdriveCycle
    BY DEF Next, DriveFrame, DemoFrame, InvalidFrame, StartDrive, GoOffroad, TurnIgnition,
           ShowView, HideView, StartForView, StopAfterView, SelfdrivedAnew, driveVars, vars
  <2>2. ~lockout.active
    BY <2>1 DEF SelfdriveCycle, MayBecome, TooDistracted
  <2>3. owed \notin {"begun", "recorded"}
    BY <2>1, <2>2 DEF SelfdriveCycle, Inv, Owed
  <2> QED BY <2>3 DEF Inv, TypeOK
<1> QED BY <1>1, Invariance, PTL DEF Spec, RecordedLockoutHolds
=============================================================================
