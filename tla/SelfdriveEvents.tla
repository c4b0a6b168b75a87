-------------------------- MODULE SelfdriveEvents --------------------------
(***************************************************************************)
(* The event vocabulary that selfdrived and MADS share: which event types  *)
(* (ET) each onroad event carries.  events.py lists some hundred events;   *)
(* two events that carry the same types and that no code treats specially  *)
(* are the same event here, so "overheat" also stands for commIssue,       *)
(* processNotRunning, espDisabled and the other soft-disable faults,       *)
(* "steerUnavailable" for the other immediate-disable faults and           *)
(* "outOfSpace" for the conditions that only block an engagement.  Alerts  *)
(* that carry none of the types below are left out, and so is              *)
(* bigModelFailed, the only event with SOFT_DISABLE but without NO_ENTRY.  *)
(***************************************************************************)

ET == {"ENABLE", "PRE_ENABLE", "NO_ENTRY", "WARNING", "USER_DISABLE",
       "SOFT_DISABLE", "IMMEDIATE_DISABLE", "OVERRIDE_LATERAL",
       "OVERRIDE_LONGITUDINAL", "PERMANENT"}

EVENTS == [
  pcmEnable            |-> {"ENABLE"},
  buttonEnable         |-> {"ENABLE"},
  pcmDisable           |-> {"USER_DISABLE"},
  buttonCancel         |-> {"USER_DISABLE", "NO_ENTRY"},
  parkBrake            |-> {"USER_DISABLE", "NO_ENTRY"},
  pedalPressed         |-> {"USER_DISABLE", "NO_ENTRY"},
  steerDisengage       |-> {"USER_DISABLE", "NO_ENTRY"},
  wrongCarMode         |-> {"USER_DISABLE", "NO_ENTRY"},
  wrongCruiseMode      |-> {"USER_DISABLE", "NO_ENTRY"},
  reverseGear          |-> {"PERMANENT", "USER_DISABLE", "NO_ENTRY"},
  brakeHold            |-> {"WARNING"},
  preEnableStandstill  |-> {"PRE_ENABLE"},
  gasPressedOverride   |-> {"OVERRIDE_LONGITUDINAL"},
  steerOverride        |-> {"OVERRIDE_LATERAL"},
  doorOpen             |-> {"SOFT_DISABLE", "NO_ENTRY"},
  seatbeltNotLatched   |-> {"SOFT_DISABLE", "NO_ENTRY"},
  wrongGear            |-> {"SOFT_DISABLE", "NO_ENTRY"},
  espActive            |-> {"SOFT_DISABLE", "NO_ENTRY"},
  overheat             |-> {"PERMANENT", "SOFT_DISABLE", "NO_ENTRY"},
  controlsMismatch     |-> {"IMMEDIATE_DISABLE", "NO_ENTRY"},
  steerUnavailable     |-> {"IMMEDIATE_DISABLE", "PERMANENT", "NO_ENTRY"},
  canError             |-> {"IMMEDIATE_DISABLE", "PERMANENT", "NO_ENTRY"},
  canBusMissing        |-> {"IMMEDIATE_DISABLE", "PERMANENT", "NO_ENTRY"},
  cruiseDisabled       |-> {"IMMEDIATE_DISABLE"},
  speedTooLow          |-> {"IMMEDIATE_DISABLE"},
  belowEngageSpeed     |-> {"NO_ENTRY"},
  outOfSpace           |-> {"PERMANENT", "NO_ENTRY"},
  selfdriveInitializing |-> {"NO_ENTRY"},
  manualRestart        |-> {"WARNING"}]

EVENTS_SP == [
  lkasEnable           |-> {"ENABLE"},
  silentLkasEnable     |-> {"ENABLE"},
  lkasDisable          |-> {"USER_DISABLE"},
  silentLkasDisable    |-> {"USER_DISABLE"},
  manualSteeringRequired |-> {"USER_DISABLE"},
  silentWrongGear      |-> {"WARNING", "NO_ENTRY"},
  silentReverseGear    |-> {"PERMANENT", "NO_ENTRY"},
  silentBrakeHold      |-> {"WARNING", "NO_ENTRY"},
  silentDoorOpen       |-> {"WARNING", "NO_ENTRY"},
  silentSeatbeltNotLatched |-> {"WARNING", "NO_ENTRY"},
  silentParkBrake      |-> {"WARNING", "NO_ENTRY"},
  pedalPressedAlertOnly |-> {"WARNING"},
  controlsMismatchLateral |-> {"IMMEDIATE_DISABLE", "NO_ENTRY"}]

EventName == DOMAIN EVENTS
EventNameSP == DOMAIN EVENTS_SP

(* The event types that event e carries. *)
Types == [e \in EventName \cup EventNameSP |->
            IF e \in EventName THEN EVENTS[e] ELSE EVENTS_SP[e]]

(* EventsBase.contains: does some present event carry type t?  Asked about *)
(* anything that is not an event type, it answers FALSE.                   *)
Contains(E, t) == \E e \in E : t \in Types[e]

TypesOf(E) == UNION {Types[e] : e \in E}

When(c, e) == IF c THEN {e} ELSE {}
=============================================================================
