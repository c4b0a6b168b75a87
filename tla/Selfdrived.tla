---------------------------- MODULE Selfdrived ----------------------------
(***************************************************************************)
(* selfdrive/selfdrived: the 100 Hz cycle that turns the car state and the *)
(* state of the system into onroad events and runs openpilot's state       *)
(* machine and then MADS on them.  One Step is one SelfdriveD.step().      *)
(* The params thread re-reads the toggles between cycles; each cycle reads *)
(* each toggle at most once, so no finer interleaving is visible.          *)
(***************************************************************************)
EXTENDS Mads

CONSTANTS
  PcmCruise,  \* pcm_enable: the car's own cruise control engages openpilot
  CarStates,  \* what one cycle may observe
  Toggles     \* the settings the driver may have stored

Signals == {"doorOpen", "seatbeltNotLatched", "parkBrake", "brakeHold",
            "wrongCruiseMode", "espActive", "steerOverride", "steerDisengage",
            "steerUnavailable", "cruiseDisabled", "speedTooLow",
            "belowEngageSpeed", "manualRestart"}
Malfunctions == {"overheat", "outOfSpace"}

(* signals: the events that car_events.py and the car's own interface      *)
(* derive one to one from a signal of the car; system: those that          *)
(* selfdrived derives from the state of the device and of the processes.   *)
CarState == [gear: {"drive", "park", "reverse"},
             speed: {"standstill", "slow", "moving"},  \* slow: vEgo < 2.5
             brake: BOOLEAN,           \* brakePressed; regenBraking stays off
             gas: BOOLEAN,
             available: BOOLEAN,       \* cruiseState.available
             cruise: BOOLEAN,          \* cruiseState.enabled
             buttonEnable: BOOLEAN,
             button: {"none", "lkas", "cancel"},
             signals: SUBSET Signals,
             system: SUBSET Malfunctions,
             canValid: BOOLEAN,
             canTimeout: BOOLEAN,
             ready: BOOLEAN,           \* all services valid, or six seconds up
             controlsAllowed: BOOLEAN,
             controlsAllowedLateral: BOOLEAN]

Toggle == [main: BOOLEAN, unified: BOOLEAN, accelerator: BOOLEAN]

ASSUME SelfdrivedAssumption ==
  /\ PcmCruise \in BOOLEAN
  /\ CarStates \subseteq CarState
  /\ Toggles \subseteq Toggle

VARIABLES
  initialized,
  mismatch_counter,
  disengage_on_accelerator,
  softAlert,     \* SOFT_DISABLE is among current_alert_types
  \* History, read by the properties only:
  softFor,       \* full cycles openpilot has been softDisabling
  madsSoftFor,   \* full cycles MADS has been softDisabling
  parkFor,       \* cycles in Park with openpilot disabled, counted up to 2
  cycle          \* what the last cycle was about

openpilotVars == <<state, soft_disable_timer, mismatch_counter, initialized,
                   disengage_on_accelerator, softAlert>>
madsVars == <<mads_state, lateral_mismatch_counter, main_enabled_toggle,
              unified_engagement_mode, mads_disengage_on_accelerator,
              steering_mode_on_brake, enabled_prev, CS_prev>>
history == <<softFor, madsSoftFor, parkFor, cycle>>
vars == <<openpilotVars, madsVars, history>>

Remembered(cs) == [gas |-> cs.gas, brake |-> cs.brake,
                   available |-> cs.available, cruise |-> cs.cruise]
-----------------------------------------------------------------------------
(* create_common_events *)
CarEvents(cs) ==
  cs.signals
  \cup When(cs.gear # "drive", "wrongGear")
  \cup When(cs.gear = "reverse", "reverseGear")
  \cup When(~cs.available, "wrongCarMode")
  \cup When(cs.brake /\ cs.speed = "standstill", "preEnableStandstill")
  \cup When(cs.gas, "gasPressedOverride")
  \cup When(cs.buttonEnable, "buttonEnable")
  \cup When(cs.button = "cancel", "buttonCancel")
  \cup (IF PcmCruise
        THEN When(cs.cruise /\ ~CS_prev.cruise, "pcmEnable")
             \cup When(~cs.cruise, "pcmDisable")
        ELSE {})

GasPress(cs) == cs.gas /\ ~CS_prev.gas /\ disengage_on_accelerator
BrakePress(cs) == cs.brake /\ (~CS_prev.brake \/ cs.speed # "standstill")

(* data_sample *)
DataSample(cs) ==
  /\ initialized' = (initialized \/ cs.ready)
  /\ mismatch_counter' = IF ~enabled THEN 0
                         ELSE IF cs.controlsAllowed THEN mismatch_counter
                         ELSE mismatch_counter + 1

(* update_events.  A missing CAN bus is muted in Park while MADS is on. *)
SelfdriveEvents(cs) ==
  IF ~initialized' THEN {"selfdriveInitializing"}
  ELSE (IF cs.canValid
        THEN CarEvents(cs) \cup When(GasPress(cs) \/ BrakePress(cs), "pedalPressed")
        ELSE {})
       \cup cs.system
       \cup When(MismatchReached(mismatch_counter'), "controlsMismatch")
       \cup When(~cs.canTimeout /\ ~cs.canValid, "canError")
       \cup When(cs.canTimeout /\ ~(cs.gear = "park" /\ mads_enabled),
                 "canBusMissing")

(* The history of a step that is no cycle. *)
Quiet == [step |-> FALSE, disable |-> FALSE, brake |-> FALSE, brakePress |-> FALSE,
          gasPress |-> FALSE, gesture |-> FALSE, malfunction |-> FALSE]

(* Some driver action of this cycle asks to engage. *)
Gesture(cs, E) ==
  \/ cs.button = "lkas"
  \/ cs.available /\ ~CS_prev.available
  \/ SelfdriveEnableEvents(E) # {}

Observe(cs, E) ==
  /\ softFor' = IF state = "softDisabling" /\ state' = "softDisabling"
                THEN softFor + 1 ELSE 0
  /\ madsSoftFor' = IF mads_state = "softDisabling" /\ mads_state' = "softDisabling"
                    THEN madsSoftFor + 1 ELSE 0
  /\ parkFor' = IF cs.gear # "park" \/ enabled' THEN 0
                ELSE IF parkFor < 2 THEN parkFor + 1 ELSE 2
  /\ cycle' = [step |-> TRUE,
               disable |-> ~Calm(E),
               brake |-> cs.brake /\ cs.canValid,
               brakePress |-> "pedalPressed" \in E /\ BrakePress(cs),
               gasPress |-> MadsGasPress(cs),
               gesture |-> Gesture(cs, E),
               malfunction |-> "overheat" \in E]

(* step, before and after data_sample has found the system initialized.    *)
(* openpilot's machine lets the timer run down or arms it; MADS's machine  *)
(* sees the result.                                                        *)
InitializingStep(cs) ==
  /\ DataSample(cs)
  /\ ~initialized'
  /\ UNCHANGED <<state, soft_disable_timer, softAlert, mads_state>>
  /\ MadsDataSample(cs)
  /\ Observe(cs, SelfdriveEvents(cs))

RunningStep(cs) ==
  /\ DataSample(cs)
  /\ initialized'
  /\ \E E \in {SelfdriveEvents(cs)},
        timer \in {Decremented, SoftDisableTicks}, alert \in BOOLEAN :
       /\ StateMachineUpdate(E, timer, alert)
       /\ MadsDataSample(cs)
       /\ \E M \in {MadsEvents(cs, E)} :
            /\ MadsStateMachineUpdate(M, timer, alert, softAlert')
            /\ Observe(cs, E)

Step(cs) ==
  /\ InitializingStep(cs) \/ RunningStep(cs)
  /\ enabled_prev' = enabled'
  /\ CS_prev' = Remembered(cs)
  /\ UNCHANGED <<main_enabled_toggle, unified_engagement_mode,
                 disengage_on_accelerator, mads_disengage_on_accelerator,
                 steering_mode_on_brake>>

(* params_thread, with mads.read_params: MADS does not re-read its copy of *)
(* the accelerator toggle.                                                 *)
ReadParams(t) ==
  /\ main_enabled_toggle' = t.main
  /\ unified_engagement_mode' = t.unified
  /\ disengage_on_accelerator' = t.accelerator
  /\ UNCHANGED <<state, soft_disable_timer, mismatch_counter, initialized,
                 softAlert, mads_state, lateral_mismatch_counter,
                 mads_disengage_on_accelerator, steering_mode_on_brake,
                 enabled_prev, CS_prev,
                 softFor, madsSoftFor, parkFor>>
  /\ cycle' = [Quiet EXCEPT !.malfunction = cycle.malfunction]

Init ==
  /\ state = "disabled"
  /\ soft_disable_timer = 0
  /\ softAlert = FALSE
  /\ initialized = FALSE
  /\ mismatch_counter = 0
  /\ mads_state = "disabled"
  /\ lateral_mismatch_counter = 0
  /\ steering_mode_on_brake \in SteeringModes
  /\ enabled_prev = FALSE
  /\ CS_prev = [gas |-> FALSE, brake |-> FALSE, available |-> FALSE, cruise |-> FALSE]
  /\ \E t \in Toggles :
       /\ main_enabled_toggle = t.main
       /\ unified_engagement_mode = t.unified
       /\ disengage_on_accelerator = t.accelerator
       /\ mads_disengage_on_accelerator = t.accelerator
  /\ softFor = 0
  /\ madsSoftFor = 0
  /\ parkFor = 0
  /\ cycle = Quiet

Next ==
  \/ \E cs \in CarStates : Step(cs)
  \/ \E t \in Toggles : ReadParams(t)

Spec == Init /\ [][Next]_vars
-----------------------------------------------------------------------------
TypeOK ==
  /\ state \in States
  /\ soft_disable_timer \in 0 .. SoftDisableTicks
  /\ softAlert \in BOOLEAN
  /\ initialized \in BOOLEAN
  /\ mismatch_counter \in Nat
  /\ disengage_on_accelerator \in BOOLEAN
  /\ mads_state \in MadsStates
  /\ lateral_mismatch_counter \in Nat
  /\ main_enabled_toggle \in BOOLEAN
  /\ unified_engagement_mode \in BOOLEAN
  /\ mads_disengage_on_accelerator \in BOOLEAN
  /\ steering_mode_on_brake \in MadsSteeringModeOnBrake
  /\ enabled_prev \in BOOLEAN
  /\ CS_prev \in [gas: BOOLEAN, brake: BOOLEAN, available: BOOLEAN, cruise: BOOLEAN]
  /\ softFor \in Nat
  /\ madsSoftFor \in Nat
  /\ parkFor \in 0 .. 2

(* Soft disabling grants the driver exactly the announced time: unless an  *)
(* immediate or a user disable comes, openpilot gives up only after        *)
(* SoftDisableTicks cycles in softDisabling (state.py, the timer that MADS *)
(* also writes).                                                           *)
SoftDisableGrace ==
  [][state = "softDisabling" /\ state' = "disabled" /\ ~cycle'.disable
     => softFor = SoftDisableTicks - 1]_vars

(* And not longer.  openpilot gives up within the time announced; MADS,    *)
(* which shares the timer and may see openpilot arm it anew, within twice  *)
(* that time.                                                              *)
SoftDisableBounded ==
  /\ state = "softDisabling" => softFor < SoftDisableTicks
  /\ mads_state = "softDisabling" => madsSoftFor < 2 * SoftDisableTicks

(* A cycle that ends with either machine softDisabling requests the        *)
(* take-control alert, although MADS leaves it to openpilot whenever that  *)
(* is enabled (mads/state.py:35,69,84).  The one exception is a cycle that *)
(* finds openpilot preEnabled, in which its machine looks at no fault      *)
(* (state.py:60-64): there nobody requests the alert.                      *)
SoftDisableAlerted ==
  [][/\ cycle'.step
     /\ state' = "softDisabling" \/ mads_state' = "softDisabling"
     /\ state # "preEnabled"
     => softAlert']_vars

(* What the comments at state.py:18 and mads/state.py:47 rely on: whichever *)
(* machine enters softDisabling finds the shared timer reset.  MADS beside *)
(* a preEnabled openpilot does not: neither of the two resets it, so MADS  *)
(* may stop at once and unannounced.                                       *)
SoftDisableTimerReset ==
  [][\/ state # "softDisabling" /\ state' = "softDisabling"
     \/ mads_state # "softDisabling" /\ mads_state' = "softDisabling"
     => soft_disable_timer' = SoftDisableTicks]_vars

(* A panda that has withdrawn its permission ends the engagement: neither  *)
(* machine is on once its mismatch count has reached the limit, however    *)
(* the disagreeing cycles were spread over the engagement.                 *)
MismatchDisengages ==
  /\ mismatch_counter >= MismatchLimit => ~enabled
  /\ lateral_mismatch_counter >= MismatchLimit => ~mads_active

(* Steering does not survive Park: what was on, even if only paused, is    *)
(* off after the second cycle in Park, and nothing steers from the first.  *)
ParkDisengages ==
  [][/\ parkFor' >= 1 => ~mads_active'
     /\ cycle'.step /\ parkFor >= 1 /\ parkFor' = 2 /\ mads_enabled
        => ~mads_enabled']_vars

(* MADS comes on, steering or paused, only in a cycle with a request of    *)
(* the driver: what any disengagement has switched off stays off.          *)
NoUnrequestedSteering ==
  [][~mads_enabled /\ mads_enabled' => cycle'.gesture]_vars

(* In the PAUSE and DISENGAGE modes a press of the brake takes steering    *)
(* away from a MADS that was steering, engaged with openpilot or alone,    *)
(* unless MADS sees the gas pedal disengage in the same cycle.             *)
BrakeReleasesSteering ==
  [][/\ steering_mode_on_brake # "REMAIN_ACTIVE"
     /\ mads_active /\ cycle'.brakePress /\ ~cycle'.gasPress
     => ~mads_active']_vars

(* In PAUSE mode steering comes back by itself only with the brake         *)
(* released: with the brake held, moving or not, a paused MADS resumes on  *)
(* a driver's request alone.                                               *)
NoResumeWhileBraking ==
  [][/\ steering_mode_on_brake = "PAUSE"
     /\ mads_state = "paused" /\ cycle'.brake /\ ~cycle'.gesture
     => ~mads_active']_vars

(* The system runs: selfdrived's loop is a realtime process. *)
FairSpec == Spec /\ WF_vars(\E cs \in CarStates : Step(cs))

(* A malfunction that stays ends actuation for good, in both machines,     *)
(* whatever the driver does meanwhile.                                     *)
StuckMalfunctionDisengages ==
  <>[](cycle.malfunction) => <>[](~active /\ ~mads_active)
=============================================================================
