--------------------------- MODULE DriverMonitoring ---------------------------
(***************************************************************************)
(* selfdrive/monitoring: dmonitoringd counts the driver's awareness down   *)
(* while the driver is distracted or cannot be seen, raises three levels   *)
(* of alert, and locks the driver out after too many of the third.         *)
(* selfdrived keeps the lockout in the param DriverTooDistracted, so that  *)
(* it outlives the processes when the device goes offroad and onroad again *)
(* with the ignition on, and refuses to engage while it lasts.  The driver *)
(* view of the user interface runs the same dmonitoringd offroad.          *)
(*                                                                         *)
(* Awareness is counted in units of 1/FullAwareness.  Counters of which    *)
(* the code asks only whether they have reached a limit stop there.        *)
(***************************************************************************)
EXTENDS Integers, Sequences

CONSTANTS
  FullAwareness,      \* awareness 1.0
  Step,               \* what each policy takes off per frame
  Alert1, Alert2,     \* each policy's threshold_alert_1 and _2
  RecoveryMax,        \* _TIMEOUT_RECOVERY_FACTOR_MAX
  FilterLow, FilterHigh, FilterMax,  \* 0.37, 0.63 and 1 of the distraction filter
  HiStdFallback,      \* _HI_STD_FALLBACK_TIME
  MaxAlert3,          \* _MAX_ALERT_3
  NoResponseTimeout,  \* _NO_RESPONSE_TIMEOUT
  LockoutTimes,       \* _LOCKOUT_TIMES
  Frames,             \* what one frame may find
  FrameIds,           \* frames are numbered modulo this
  AlwaysOnValues,     \* the values the AlwaysOnDM toggle may take
  MaxCycles           \* bound: times the device goes offroad or shows the driver view

Policies == {"vision", "wheeltouch"}

(* One frame of the camera with the car's state.  distracted and attentive *)
(* drivers are seen clearly; for a blurred one the model is uncertain.     *)
Frame == [driver: {"attentive", "distracted", "blurred", "absent"},
          interacting: BOOLEAN,  \* the wheel, or the gas while fully engaged
          lowspeed: BOOLEAN,
          wrong_gear: BOOLEAN,
          latActive: BOOLEAN]    \* MADS alone steers unless it is held off

ASSUME MonitoringAssumption ==
  /\ FullAwareness \in Nat \ {0} /\ RecoveryMax \in Nat \ {0}
  /\ Step \in [Policies -> Nat \ {0}]
  /\ Alert1 \in [Policies -> Nat] /\ Alert2 \in [Policies -> Nat]
  /\ \A p \in Policies : Step[p] <= Alert2[p] /\ Alert2[p] < Alert1[p]
                         /\ Alert1[p] < FullAwareness
  /\ FilterLow \in Nat /\ FilterHigh \in Nat /\ FilterMax \in Nat
  /\ FilterLow < FilterHigh /\ FilterHigh <= FilterMax
  /\ HiStdFallback \in Nat \ {0} /\ MaxAlert3 \in Nat \ {0}
  /\ NoResponseTimeout \in Nat \ {0}
  /\ LockoutTimes \in Seq(Nat \ {0}) /\ LockoutTimes # <<>>
  /\ FrameIds \in Nat \ {0} /\ Frames \subseteq Frame
  /\ AlwaysOnValues \subseteq BOOLEAN
  /\ MaxCycles \in Nat

VARIABLES
  mind,         \* awareness, the awareness left with each policy, the policy and its step
  distraction,  \* driver_distraction_filter.x
  hi_stds,
  alert_level,
  red,          \* alert_3_cnt, cnt_since_alert_3, no_response_cnt
  lockout,      \* lockout_active, _count, _duration, _time_elapsed
  always_on, demo_mode,
  frameId,      \* of the camera
  running,      \* dmonitoringd runs
  published,    \* and has published since selfdrived started
  started,      \* onroad: selfdrived runs
  view,         \* IsDriverViewEnabled
  engaged,      \* by openpilot fully, by MADS alone, or not
  dm_lockout_set,
  DriverTooDistracted, DriverLockoutCount,
  cycles,
  \* History, read by the properties only:
  seen,         \* what the last frame was about
  warned,       \* alert two has been shown since awareness was last reset
  owed          \* the lockout begun in this ignition cycle has not timed out

policyVars == <<mind, distraction, hi_stds, alert_level, red, lockout>>
monitorVars == <<policyVars, always_on, demo_mode>>
driveVars == <<started, engaged, dm_lockout_set, cycles>>
params == <<DriverTooDistracted, DriverLockoutCount>>
vars == <<monitorVars, frameId, running, published, view, driveVars, params, seen, warned, owed>>

Least(a, b) == IF a < b THEN a ELSE b
-----------------------------------------------------------------------------
(* DriverMonitoring.__init__ *)
Rested(p) == [awareness |-> FullAwareness, last |-> [q \in Policies |-> FullAwareness],
              policy |-> p, step |-> Step[p]]
NoRed == [alert3 |-> 0, since |-> 0, noResponse |-> FALSE]
Duration(count) == LockoutTimes[IF count = 0 THEN 1 ELSE count]

(* Mutant: does not read DriverTooDistracted. *)
ForgetfulMonitor(tooDistracted, count) ==
  /\ mind' = Rested("vision")
  /\ distraction' = 0 /\ hi_stds' = 0 /\ alert_level' = "none" /\ red' = NoRed
  /\ lockout' = [active |-> FALSE, count |-> count,
                 duration |-> Duration(count), elapsed |-> 0]
  /\ always_on' \in AlwaysOnValues
  /\ demo_mode' = FALSE

FreshMonitor(tooDistracted, count) ==
  /\ mind' = Rested("vision")
  /\ distraction' = 0 /\ hi_stds' = 0 /\ alert_level' = "none" /\ red' = NoRed
  /\ lockout' = [active |-> tooDistracted, count |-> count,
                 duration |-> Duration(count), elapsed |-> 0]
  /\ always_on' \in AlwaysOnValues
  /\ demo_mode' = FALSE

Init ==
  /\ mind = Rested("vision")
  /\ distraction = 0 /\ hi_stds = 0 /\ alert_level = "none" /\ red = NoRed
  /\ lockout = [active |-> FALSE, count |-> 0, duration |-> Duration(0), elapsed |-> 0]
  /\ always_on \in AlwaysOnValues
  /\ demo_mode = FALSE /\ frameId = 0 /\ running = FALSE /\ published = FALSE
  /\ started = FALSE /\ view = FALSE /\ engaged = "none" /\ dm_lockout_set = FALSE
  /\ DriverTooDistracted = FALSE /\ DriverLockoutCount = 0
  /\ cycles = 0 /\ seen = "none" /\ warned = FALSE /\ owed = "no"
-----------------------------------------------------------------------------
(* Mutant: the policy changes at zero too. *)
SwitchAlways(m, target) ==
  IF m.policy = "vision" /\ m.awareness <= Alert2["vision"]
  THEN [m EXCEPT !.step = IF target = "vision" THEN Step["vision"] ELSE 0]
  ELSE IF target = m.policy THEN [m EXCEPT !.step = Step[target]]
  ELSE [awareness |-> m.last[target],
        last |-> [m.last EXCEPT ![m.policy] = m.awareness],
        policy |-> target, step |-> Step[target]]

(* _set_policy: each policy's awareness waits in "last" while the other    *)
(* one counts.  Below the second alert of the vision policy and at zero    *)
(* the policy stays what it is.                                            *)
SetPolicy(m, target) ==
  IF m.policy = "vision" /\ m.awareness <= Alert2["vision"]
  THEN [m EXCEPT !.step = IF target = "vision" THEN Step["vision"] ELSE 0]
  ELSE IF m.awareness <= 0 THEN m
  ELSE IF target = m.policy THEN [m EXCEPT !.step = Step[target]]
  ELSE [awareness |-> m.last[target],
        last |-> [m.last EXCEPT ![m.policy] = m.awareness],
        policy |-> target, step |-> Step[target]]

(* _update_states, with the uncertainty found before this frame.           *)
Uncertain == hi_stds >= HiStdFallback
Target(f) == IF f.driver # "absent" /\ ~Uncertain THEN "vision" ELSE "wheeltouch"
Filtered(f) == IF f.driver = "distracted"
               THEN Least(distraction + 1, FilterMax)
               ELSE IF distraction = 0 THEN 0 ELSE distraction - 1
HiStds(f) == CASE f.driver = "blurred" -> Least(hi_stds + 1, HiStdFallback)
               [] f.driver = "absent" -> hi_stds
               [] OTHER -> 0

(* Mutant: only the third alerts count, not how long one lasts. *)
BeginsByCount(l, r) == ~l.active /\ r.alert3 >= MaxAlert3

(* The lockout in _update_events. *)
Begins(l, r) == ~l.active /\ (r.alert3 >= MaxAlert3 \/ r.noResponse)
Begun(l, r) ==
  IF Begins(l, r)
  THEN LET c == Least(l.count + 1, Len(LockoutTimes))
       IN [l EXCEPT !.active = TRUE, !.count = c, !.duration = LockoutTimes[c]]
  ELSE l
Expires(l) == l.active /\ l.elapsed + 1 > l.duration
Counted(l) ==
  IF ~l.active THEN l
  ELSE IF Expires(l) THEN [l EXCEPT !.active = FALSE, !.elapsed = 0]
  ELSE [l EXCEPT !.elapsed = @ + 1]
-----------------------------------------------------------------------------
(* The awareness in _update_events, for a frame f, with m as the policy    *)
(* has left it and op whether anything is engaged.                         *)
(* Mutant: forgets the awareness that waits for the other policy. *)
ResetActive(m) == [m EXCEPT !.awareness = FullAwareness]

Reset(m) == [m EXCEPT !.awareness = FullAwareness, !.last = [q \in Policies |-> FullAwareness]]
AlwaysOnValid(f) == always_on /\ ~f.wrong_gear

ResetsFirst(m, f, op) ==
  \/ f.interacting /\ m.awareness > 0 /\ m.policy = "wheeltouch"
  \/ ~AlwaysOnValid(f) /\ ~op
  \/ AlwaysOnValid(f) /\ ~op /\ m.awareness <= 0

LowspeedExemption(m, f) == f.lowspeed /\ m.awareness - m.step <= Alert1[m.policy]
AlwaysOnExemption(m, f, op) == AlwaysOnValid(f) /\ ~op /\ m.awareness - m.step <= 0

Recovers(m, f) ==
  /\ m.awareness > 0
  /\ \/ distraction' <= FilterLow /\ f.driver \in {"attentive", "distracted"}
     \/ LowspeedExemption(m, f)

Resets(m, f, op) == ResetsFirst(m, f, op) \/ (Recovers(m, f) /\ f.interacting)

(* By 1.25 to RecoveryMax steps, the more the less awareness is left.      *)
RecoversTo(m) ==
  {a \in m.awareness..FullAwareness :
     /\ a - m.awareness <= RecoveryMax * m.step
     /\ a - m.awareness >= m.step \/ a = FullAwareness}
Recovered(m, a) ==
  IF a = FullAwareness
  THEN [m EXCEPT !.awareness = a,
                 !.last["wheeltouch"] = Least(@ + m.step, FullAwareness)]
  ELSE [m EXCEPT !.awareness = a]

Distracted(f) ==
  \/ distraction' >= FilterHigh /\ f.driver = "distracted"
  \/ Uncertain \/ f.driver = "absent"

CountDown(m, n, f, op) ==
  IF Distracted(f) /\ ~LowspeedExemption(m, f) /\ ~AlwaysOnExemption(m, f, op)
  THEN [n EXCEPT !.awareness = IF @ - n.step < -1 THEN -1 ELSE @ - n.step]
  ELSE n

Level(m) == IF m.awareness <= 0 THEN "three"
            ELSE IF m.awareness <= Alert2[m.policy] THEN "two"
            ELSE IF m.awareness <= Alert1[m.policy] THEN "one" ELSE "none"

(* Mutant: starts again after each time the driver did not respond. *)
CountAnew(r, prev) ==
  LET since == IF prev > 0 \/ r.since >= NoResponseTimeout THEN 0 ELSE r.since + 1
  IN [alert3 |-> IF prev > 0 THEN Least(r.alert3 + 1, MaxAlert3) ELSE r.alert3,
      since |-> since,
      noResponse |-> r.noResponse \/ since = NoResponseTimeout]

(* The counters of the third alert, prev being awareness_prev.             *)
CountRed(r, prev) ==
  LET since == IF prev > 0 THEN 0 ELSE Least(r.since + 1, NoResponseTimeout + 1)
  IN [alert3 |-> IF prev > 0 THEN Least(r.alert3 + 1, MaxAlert3) ELSE r.alert3,
      since |-> since,
      noResponse |-> r.noResponse \/ since = NoResponseTimeout]

(* The three ways out of _update_events: a reset, an awareness that has    *)
(* recovered above the second alert, and an alert.  r is what the lockout  *)
(* has left of the counters.                                               *)
Update(m, r, f, op) ==
  IF Resets(m, f, op)
  THEN mind' = Reset(m) /\ alert_level' = "none" /\ red' = r
  ELSE \E n \in IF Recovers(m, f) THEN {Recovered(m, a) : a \in RecoversTo(m)} ELSE {m} :
         IF Recovers(m, f) /\ n.awareness > Alert2[n.policy]
         THEN mind' = n /\ alert_level' = "none" /\ red' = r
         ELSE /\ mind' = CountDown(m, n, f, op)
              /\ alert_level' = Level(mind')
              /\ red' = IF mind'.awareness <= 0 THEN CountRed(r, m.awareness) ELSE r
-----------------------------------------------------------------------------
(* dmonitoringd.  A frame finds the toggles re-read on every fortieth.     *)

ReloadToggles ==
  \/ UNCHANGED <<always_on, demo_mode>>
  \/ always_on' \in AlwaysOnValues /\ demo_mode' = view

Observe(f, op) ==
  /\ seen' = IF ~op THEN "disengaged"
             ELSE IF f.lowspeed \/ f.interacting THEN "engaged"
             ELSE IF f.driver = "distracted" THEN "inattentive"
             ELSE IF f.driver = "absent" THEN "absent"
             ELSE "engaged"
  /\ warned' = (alert_level' = "two" \/ (warned /\ ~Resets(SetPolicy(mind, Target(f)), f, op)))

RunStep(f, op) ==
  LET l == Begun(lockout, red) IN
  /\ distraction' = Filtered(f) /\ hi_stds' = HiStds(f)
  /\ Update(SetPolicy(mind, Target(f)), IF Expires(l) THEN NoRed ELSE red, f, op)
  /\ lockout' = Counted(l)
  /\ DriverLockoutCount' = IF Begins(lockout, red) THEN l.count ELSE DriverLockoutCount
  /\ owed' = IF Expires(l) THEN "no"
             ELSE IF Begins(lockout, red) /\ ~demo_mode THEN "begun" ELSE owed
  /\ Observe(f, op)
  /\ ReloadToggles

Publish ==
  /\ published' = started
  /\ frameId' = IF frameId + 1 = FrameIds THEN 0 ELSE frameId + 1

OpEngaged(f) == engaged = "full" \/ (engaged = "lateral" /\ f.latActive)

DriveFrame ==
  /\ running /\ started /\ ~demo_mode
  /\ \E f \in Frames : RunStep(f, OpEngaged(f))
  /\ Publish
  /\ UNCHANGED <<running, view, driveVars, DriverTooDistracted>>

(* run_step with demo: engaged and at speed, whatever the car does.        *)
DemoFrame ==
  /\ running /\ demo_mode
  /\ \E f \in Frames :
       RunStep([f EXCEPT !.interacting = FALSE, !.lowspeed = FALSE, !.wrong_gear = FALSE], TRUE)
  /\ Publish
  /\ UNCHANGED <<running, view, driveVars, DriverTooDistracted>>

(* Some message it needs is missing: dmonitoringd repeats itself.          *)
InvalidFrame ==
  /\ running
  /\ seen' = "none"
  /\ ReloadToggles
  /\ Publish
  /\ UNCHANGED <<policyVars, running, view, driveVars, params, warned, owed>>
-----------------------------------------------------------------------------
(* selfdrived, once it has heard from dmonitoringd: keeps the lockout in   *)
(* the param, then lets the state machines of openpilot and MADS change;   *)
(* tooDistracted is a no-entry event for both.                             *)
TooDistracted ==
  lockout.active \/ (always_on /\ mind.awareness <= Alert2[mind.policy])

MayBecome ==
  IF ~TooDistracted THEN {"none", "lateral", "full"}
  ELSE {"none", engaged} \cup (IF engaged = "full" THEN {"lateral"} ELSE {})

SelfdriveCycle ==
  /\ started /\ published
  /\ DriverTooDistracted' = IF lockout.active # dm_lockout_set
                            THEN lockout.active ELSE DriverTooDistracted
  /\ dm_lockout_set' = lockout.active
  /\ engaged' \in MayBecome
  /\ owed' = IF owed = "begun" THEN "recorded" ELSE owed
  /\ UNCHANGED <<monitorVars, frameId, running, published, started, cycles, view,
                 DriverLockoutCount, seen, warned>>
-----------------------------------------------------------------------------
(* manager, the ignition and the user.  A process that stops forgets.      *)

Forgotten ==
  /\ FreshMonitor(FALSE, 0)
  /\ running' = FALSE
  /\ seen' = "none" /\ warned' = FALSE

Starts ==
  /\ running' = TRUE
  /\ IF running THEN UNCHANGED <<monitorVars, seen, warned>>
     ELSE /\ FreshMonitor(DriverTooDistracted, DriverLockoutCount)
          /\ seen' = "none" /\ warned' = FALSE

SelfdrivedAnew(onroad) ==
  /\ started' = onroad
  /\ engaged' = "none" /\ dm_lockout_set' = FALSE /\ published' = FALSE

(* A dmonitoringd that still runs for the driver view runs on.             *)
StartDrive ==
  /\ ~started /\ ~view
  /\ SelfdrivedAnew(TRUE)
  /\ Starts
  /\ UNCHANGED <<frameId, view, cycles, params, owed>>

(* Offroad with the ignition on: too hot, or a cycle that was asked for.   *)
GoOffroad ==
  /\ started /\ cycles < MaxCycles
  /\ cycles' = cycles + 1
  /\ SelfdrivedAnew(FALSE)
  /\ Forgotten
  /\ owed' = IF owed = "begun" THEN "lost" ELSE owed
  /\ UNCHANGED <<frameId, view, params>>

(* The ignition is turned off and on; manager clears both params.          *)
TurnIgnition ==
  /\ SelfdrivedAnew(FALSE)
  /\ IF started THEN Forgotten ELSE UNCHANGED <<monitorVars, running, seen, warned>>
  /\ DriverTooDistracted' = FALSE /\ DriverLockoutCount' = 0
  /\ owed' = "no"
  /\ UNCHANGED <<frameId, view, cycles>>

(* The dialog of the small user interface, which forgives the lockout.     *)
ShowView ==
  /\ ~started /\ ~view /\ cycles < MaxCycles
  /\ cycles' = cycles + 1
  /\ view' = TRUE
  /\ DriverTooDistracted' = FALSE
  /\ owed' = IF owed = "no" THEN "no" ELSE "forgiven"
  /\ UNCHANGED <<monitorVars, frameId, running, published, started, engaged, dm_lockout_set,
                 DriverLockoutCount, seen, warned>>

HideView ==
  /\ view
  /\ view' = FALSE
  /\ UNCHANGED <<monitorVars, frameId, running, published, driveVars, params, seen, warned, owed>>

StartForView ==
  /\ view /\ ~running
  /\ Starts
  /\ UNCHANGED <<frameId, published, view, driveVars, params, owed>>

StopAfterView ==
  /\ running /\ ~started /\ ~view
  /\ Forgotten
  /\ UNCHANGED <<frameId, published, view, driveVars, params, owed>>

Next ==
  \/ DriveFrame \/ DemoFrame \/ InvalidFrame \/ SelfdriveCycle
  \/ StartDrive \/ GoOffroad \/ TurnIgnition
  \/ ShowView \/ HideView \/ StartForView \/ StopAfterView

(* The camera delivers frames for as long as dmonitoringd runs, and not    *)
(* all of them come while a message is missing.                            *)
Spec == Init /\ [][Next]_vars /\ WF_vars(DriveFrame) /\ WF_vars(DemoFrame)
-----------------------------------------------------------------------------
TypeOK ==
  /\ mind \in [awareness : -1..FullAwareness, last : [Policies -> 1..FullAwareness],
               policy : Policies, step : Nat]
  /\ distraction \in 0..FilterMax /\ hi_stds \in 0..HiStdFallback
  /\ alert_level \in {"none", "one", "two", "three"}
  /\ red \in [alert3 : 0..MaxAlert3, since : 0..NoResponseTimeout + 1, noResponse : BOOLEAN]
  /\ lockout \in [active : BOOLEAN, count : 0..Len(LockoutTimes),
                  duration : Nat, elapsed : Nat]
  /\ lockout.elapsed <= lockout.duration
  /\ always_on \in BOOLEAN /\ demo_mode \in BOOLEAN
  /\ frameId \in 0..FrameIds - 1 /\ running \in BOOLEAN
  /\ published \in BOOLEAN /\ started \in BOOLEAN /\ view \in BOOLEAN
  /\ engaged \in {"none", "lateral", "full"} /\ dm_lockout_set \in BOOLEAN
  /\ DriverTooDistracted \in BOOLEAN /\ DriverLockoutCount \in 0..Len(LockoutTimes)
  /\ cycles \in 0..MaxCycles
  /\ seen \in {"none", "disengaged", "engaged", "inattentive", "absent"}
  /\ warned \in BOOLEAN /\ owed \in {"no", "begun", "recorded", "lost", "forgiven"}

(* The third alert is not raised before the second one has been shown,     *)
(* however often the policies have changed since awareness was last reset. *)
WarnedBeforeRed == alert_level = "three" => warned

(* The third alert ends only when everything is disengaged: not because    *)
(* the driver looks up, hides, touches the wheel or stops.                 *)
RedStays ==
  [][alert_level = "three" /\ seen' \in {"engaged", "inattentive", "absent"}
     => alert_level' = "three"]_vars

(* The always-on monitoring of a driver who drives by hand stops short of  *)
(* the third alert and so never counts towards a lockout.                  *)
NoRedByHand == seen = "disengaged" => alert_level # "three"

(* The deceleration of a driver who does not respond ends only with the    *)
(* engagement or, for another NoResponseTimeout, as a lockout expires.     *)
ForceDecel == alert_level = "three" /\ red.since >= NoResponseTimeout
DecelerationHolds ==
  [][ForceDecel /\ seen' \in {"engaged", "inattentive", "absent"} /\ ~ForceDecel'
     => lockout.active /\ ~lockout'.active]_vars

(* A lockout that selfdrived has recorded is served: going offroad and     *)
(* onroad again does not end it before its time.  Two are excepted: the    *)
(* one that the driver view forgives and the one that selfdrived had no    *)
(* time to record.                                                         *)
RecordedLockoutHolds ==
  [][engaged = "none" /\ engaged' # "none"
     => owed \in {"no", "lost", "forgiven"}]_vars

(* A driver who stays distracted, in view, is slowed down and locked out.  *)
DistractionIsAnswered ==
  <>[](started /\ seen = "inattentive") => []<>ForceDecel /\ []<>lockout.active
=============================================================================
