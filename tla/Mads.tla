------------------------------- MODULE Mads -------------------------------
(***************************************************************************)
(* sunnypilot/mads: Modular Assistive Driving System, the second state     *)
(* machine, which keeps steering active independently of openpilot's       *)
(* longitudinal engagement.  It runs after openpilot's state machine in    *)
(* the same cycle, edits the event list that machine has already read,     *)
(* and shares its soft-disable timer.                                      *)
(***************************************************************************)
EXTENDS OpenpilotStateMachine

CONSTANTS
  SteeringModes,   \* the modes that may be configured for the brake
  MismatchLimit,   \* cycles of disagreement with the panda tolerated, 200
  AllowAlways,     \* allow_always: the LKAS button works with main cruise off
  NoMainCruise     \* no_main_cruise: the car has no main cruise switch

MadsSteeringModeOnBrake == {"REMAIN_ACTIVE", "PAUSE", "DISENGAGE"}

ASSUME MadsAssumption ==
  /\ SteeringModes \subseteq MadsSteeringModeOnBrake
  /\ MismatchLimit \in Nat \ {0}
  /\ AllowAlways \in BOOLEAN
  /\ NoMainCruise \in BOOLEAN

VARIABLES
  mads_state,
  lateral_mismatch_counter,
  main_enabled_toggle,
  unified_engagement_mode,
  mads_disengage_on_accelerator,  \* read once, when the process starts
  steering_mode_on_brake,         \* so is this
  enabled_prev,                   \* openpilot's enabled in the last cycle
  CS_prev                         \* the last cycle's car state

MadsStates == {"disabled", "paused", "enabled", "softDisabling", "overriding"}
mads_enabled == mads_state \in {"paused"} \cup ACTIVE_STATES
mads_active == mads_state \in ACTIVE_STATES

GEARS_ALLOW_PAUSED_SILENT ==
  {"silentWrongGear", "silentReverseGear", "silentBrakeHold",
   "silentDoorOpen", "silentSeatbeltNotLatched", "silentParkBrake"}
GEARS_ALLOW_PAUSED ==
  {"wrongGear", "reverseGear", "brakeHold",
   "doorOpen", "seatbeltNotLatched", "parkBrake"}

SilentOf == [wrongGear |-> "silentWrongGear",
             reverseGear |-> "silentReverseGear",
             brakeHold |-> "silentBrakeHold",
             doorOpen |-> "silentDoorOpen",
             seatbeltNotLatched |-> "silentSeatbeltNotLatched",
             parkBrake |-> "silentParkBrake"]
-----------------------------------------------------------------------------
(* Mutant: tolerates one cycle more. *)
MismatchExceeds(n) == n > MismatchLimit

(* The mismatch count at which either machine is disabled. *)
MismatchReached(n) == n >= MismatchLimit

(* data_sample: count the cycles in which MADS steers alone although some  *)
(* panda does not allow it.  The count is not reset by agreement.          *)
MadsDataSample(cs) ==
  lateral_mismatch_counter' =
    IF ~mads_active \/ enabled' THEN 0
    ELSE IF cs.controlsAllowedLateral THEN lateral_mismatch_counter
    ELSE lateral_mismatch_counter + 1

(* Mutant: a gas pedal that is merely held hides the brake. *)
PedalPressedNoGas(cs, E) == "pedalPressed" \in E /\ ~cs.gas

(* A press of the gas pedal that, for MADS, accounts for pedalPressed. *)
MadsGasPress(cs) == cs.gas /\ ~CS_prev.gas /\ mads_disengage_on_accelerator

PedalPressedNonGasPressed(cs, E) == "pedalPressed" \in E /\ ~MadsGasPress(cs)

(* The events that, while MADS steers without openpilot, are replaced by   *)
(* their silent form.                                                      *)
Replaced(cs, E) ==
  (E \cap {"reverseGear", "brakeHold", "parkBrake"})
  \cup (IF cs.speed = "standstill"
        THEN E \cap {"doorOpen", "seatbeltNotLatched"} ELSE {})
  \cup (IF cs.gear \in {"park", "reverse"} \/ cs.speed # "moving"
        THEN E \cap {"wrongGear"} ELSE {})

(* Park disengages; the other replaced events, and the brake pedal in      *)
(* PAUSE mode, only pause.                                                 *)
PauseRequested(cs, E) ==
  \/ Replaced(cs, E) \ (IF cs.gear = "park" THEN {"wrongGear"} ELSE {}) # {}
  \/ steering_mode_on_brake = "PAUSE" /\ PedalPressedNonGasPressed(cs, E)

SteersAlone == ~enabled' /\ mads_enabled

AloneEvents(cs, E) ==
  IF SteersAlone
  THEN E \ (Replaced(cs, E) \cup
            {"preEnableStandstill", "belowEngageSpeed", "speedTooLow",
             "cruiseDisabled", "manualRestart", "espActive"})
  ELSE E

(* Mutant: Park pauses like the other gears. *)
AloneEventsSPNoPark(cs, E) ==
  IF SteersAlone
  THEN {SilentOf[e] : e \in Replaced(cs, E)}
       \cup When(Replaced(cs, E) # {} /\ mads_state # "paused", "silentLkasDisable")
  ELSE {}

AloneEventsSP(cs, E) ==
  IF SteersAlone
  THEN {SilentOf[e] : e \in Replaced(cs, E)}
       \cup When(PauseRequested(cs, E) /\ mads_state # "paused", "silentLkasDisable")
       \cup When(cs.gear = "park", "lkasDisable")
  ELSE {}

SelfdriveEnableEvents(E) == E \cap {"pcmEnable", "buttonEnable"}

BlockUnifiedEngagementMode ==
  ~unified_engagement_mode \/ mads_enabled \/ (enabled' /\ enabled_prev)

(* Mutant: the level of the switch instead of its rising edge. *)
MainCruiseOn(cs) == cs.available

MainCruiseRises(cs) == cs.available /\ ~CS_prev.available
MainCruiseFalls(cs) == ~cs.available /\ CS_prev.available /\ ~NoMainCruise

(* Driver requests: main cruise switch and LKAS button. *)
RequestEvents(cs, E) ==
  When(/\ SelfdriveEnableEvents(E) = {}
       /\ main_enabled_toggle
       /\ MainCruiseRises(cs), "lkasEnable")
  \cup (IF cs.button = "lkas" /\ (cs.available \/ AllowAlways)
        THEN {IF ~mads_enabled THEN "lkasEnable"
              ELSE IF enabled' THEN "manualSteeringRequired" ELSE "lkasDisable"}
        ELSE {})
  \cup When(MainCruiseFalls(cs), "lkasDisable")

(* DISENGAGE mode.  The test for a pending lkasEnable asks contains, which *)
(* looks for an event type, about an event.                                *)
DisengageOnBrake(cs, E, sp) ==
  IF steering_mode_on_brake = "DISENGAGE" /\ PedalPressedNonGasPressed(cs, E)
  THEN IF mads_enabled THEN sp \cup {"lkasDisable"}
       ELSE IF Contains(sp, "lkasEnable")
            THEN (sp \ {"lkasEnable"}) \cup {"pedalPressedAlertOnly"}
            ELSE sp
  ELSE sp

(* Mutant: looks for a press of the brake only, not for a held brake. *)
ShouldSilentLkasEnableHeld(cs, E, sp) ==
  /\ ~(steering_mode_on_brake = "PAUSE" /\ PedalPressedNonGasPressed(cs, E))
  /\ sp \cap GEARS_ALLOW_PAUSED_SILENT = {}

ShouldSilentLkasEnable(cs, E, sp) ==
  /\ ~(steering_mode_on_brake = "PAUSE" /\ (cs.brake \/ PedalPressedNonGasPressed(cs, E)))
  /\ sp \cap GEARS_ALLOW_PAUSED_SILENT = {}

(* update_events: the events MADS's state machine reads, openpilot's as    *)
(* edited (E2) together with sunnypilot's (sp).                            *)
MadsEvents(cs, E) ==
  LET sp == DisengageOnBrake(cs, E, AloneEventsSP(cs, E) \cup RequestEvents(cs, E))
      E2 == AloneEvents(cs, E)
            \ ({"wrongCarMode", "pcmDisable", "buttonCancel", "pedalPressed",
                "wrongCruiseMode"}
               \cup (IF BlockUnifiedEngagementMode
                     THEN {"pcmEnable", "buttonEnable"} ELSE {})
               \cup When(~cs.available /\ ~NoMainCruise, "buttonEnable"))
  IN  E2 \cup sp
      \cup When(/\ mads_state = "paused"
                /\ ShouldSilentLkasEnable(cs, E, sp), "silentLkasEnable")
      \cup When(MismatchReached(lateral_mismatch_counter'),
                "controlsMismatchLateral")
-----------------------------------------------------------------------------
(* state.py: one cycle of the MADS state machine on the events M.  timer   *)
(* and alert are what openpilot's machine left; softAlert tells, at the    *)
(* end, whether the take-control alert is requested.                       *)
MadsDisable(M, timer, alert, softAlert) ==
  /\ mads_state # "disabled"
  /\ ~Calm(M)
  /\ mads_state' = IF Contains(M, "USER_DISABLE") /\ "silentLkasDisable" \in M
                   THEN "paused" ELSE "disabled"
  /\ soft_disable_timer' = timer
  /\ softAlert = alert

MadsStartSoftDisable(M, timer, alert, softAlert) ==
  /\ mads_state \in {"enabled", "overriding"}
  /\ Calm(M)
  /\ Contains(M, "SOFT_DISABLE")
  /\ mads_state' = "softDisabling"
  /\ soft_disable_timer' = IF enabled' THEN timer ELSE SoftDisableTicks
  /\ softAlert = (alert \/ ~enabled')

(* Mutant: re-arms the timer on every cycle, not only on entrance. *)
MadsContinueRearming(M, timer, alert, softAlert) ==
  /\ mads_state = "softDisabling"
  /\ Calm(M)
  /\ soft_disable_timer' = IF enabled' THEN timer ELSE SoftDisableTicks
  /\ mads_state' = IF ~Contains(M, "SOFT_DISABLE") THEN "enabled"
                   ELSE IF timer > 0 THEN "softDisabling" ELSE "disabled"
  /\ softAlert = (alert \/ (mads_state' = "softDisabling" /\ ~enabled'))

(* Mutant: requests the alert on entrance only. *)
MadsContinueSilently(M, timer, alert, softAlert) ==
  /\ mads_state = "softDisabling"
  /\ Calm(M)
  /\ soft_disable_timer' = timer
  /\ mads_state' = IF ~Contains(M, "SOFT_DISABLE") THEN "enabled"
                   ELSE IF timer > 0 THEN "softDisabling" ELSE "disabled"
  /\ softAlert = alert

MadsContinueSoftDisable(M, timer, alert, softAlert) ==
  /\ mads_state = "softDisabling"
  /\ Calm(M)
  /\ soft_disable_timer' = timer
  /\ \/ /\ ~Contains(M, "SOFT_DISABLE")
        /\ mads_state' = "enabled"
        /\ softAlert = alert
     \/ /\ Contains(M, "SOFT_DISABLE")
        /\ timer > 0
        /\ mads_state' = "softDisabling"
        /\ softAlert = (alert \/ ~enabled')
     \/ /\ Contains(M, "SOFT_DISABLE")
        /\ timer <= 0
        /\ mads_state' = "disabled"
        /\ softAlert = alert

MadsDrive(M, timer, alert, softAlert) ==
  /\ mads_state \in {"enabled", "overriding"}
  /\ Calm(M)
  /\ ~Contains(M, "SOFT_DISABLE")
  /\ mads_state' = IF Contains(M, "OVERRIDE_LATERAL") THEN "overriding" ELSE "enabled"
  /\ soft_disable_timer' = timer
  /\ softAlert = alert

(* Mutant: engages without looking for NO_ENTRY. *)
MadsEngageUnchecked(M, timer, alert, softAlert) ==
  /\ \/ mads_state = "disabled"
     \/ mads_state = "paused" /\ Calm(M)
  /\ Contains(M, "ENABLE")
  /\ mads_state' = "enabled"
  /\ soft_disable_timer' = timer
  /\ softAlert = alert

MadsEngage(M, timer, alert, softAlert) ==
  /\ \/ mads_state = "disabled"
     \/ mads_state = "paused" /\ Calm(M)
  /\ Contains(M, "ENABLE")
  /\ ~Contains(M, "NO_ENTRY")
  /\ mads_state' = IF Contains(M, "OVERRIDE_LATERAL") THEN "overriding" ELSE "enabled"
  /\ soft_disable_timer' = timer
  /\ softAlert = alert

(* A request that an open door, the gear or the like blocks is remembered  *)
(* as paused.                                                              *)
MadsRemain(M, timer, alert, softAlert) ==
  /\ \/ mads_state = "disabled"
     \/ mads_state = "paused" /\ Calm(M)
  /\ Contains(M, "ENABLE") => Contains(M, "NO_ENTRY")
  /\ mads_state' =
       IF /\ Contains(M, "ENABLE")
          /\ M \cap (GEARS_ALLOW_PAUSED \cup GEARS_ALLOW_PAUSED_SILENT) # {}
       THEN "paused" ELSE mads_state
  /\ soft_disable_timer' = timer
  /\ softAlert = alert

MadsStateMachineUpdate(M, timer, alert, softAlert) ==
  \/ MadsDisable(M, timer, alert, softAlert)
  \/ MadsStartSoftDisable(M, timer, alert, softAlert)
  \/ MadsContinueSoftDisable(M, timer, alert, softAlert)
  \/ MadsDrive(M, timer, alert, softAlert)
  \/ MadsEngage(M, timer, alert, softAlert)
  \/ MadsRemain(M, timer, alert, softAlert)
=============================================================================
