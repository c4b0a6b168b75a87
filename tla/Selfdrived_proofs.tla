------------------------- MODULE Selfdrived_proofs -------------------------
(***************************************************************************)
(* Theorems about Selfdrived, for every value of its constants.            *)
(***************************************************************************)
EXTENDS Selfdrived, TLAPS

(* What the event table says, as far as the proofs need it: what soft      *)
(* disables also blocks engaging, MADS's own events never soft disable,    *)
(* and a mismatch with the panda disables immediately.                     *)
LEMMA TypesFacts ==
  /\ \A e \in EventName : "SOFT_DISABLE" \in Types[e] => "NO_ENTRY" \in Types[e]
  /\ \A e \in EventNameSP : "SOFT_DISABLE" \notin Types[e]
  /\ "IMMEDIATE_DISABLE" \in Types["controlsMismatch"]
  /\ "IMMEDIATE_DISABLE" \in Types["controlsMismatchLateral"]
<1>1. \A e \in EventName : "SOFT_DISABLE" \in Types[e] => "NO_ENTRY" \in Types[e]
  BY DEF EventName, Types, EVENTS
<1>2. \A e \in EventNameSP : "SOFT_DISABLE" \notin Types[e]
  BY DEF EventName, EventNameSP, Types, EVENTS, EVENTS_SP
<1>3. "IMMEDIATE_DISABLE" \in Types["controlsMismatch"]
  BY DEF EventName, Types, EVENTS
<1>4. "IMMEDIATE_DISABLE" \in Types["controlsMismatchLateral"]
  BY DEF EventName, EventNameSP, Types, EVENTS, EVENTS_SP
<1> QED BY <1>1, <1>2, <1>3, <1>4

(* And of the driver's requests: these four alone engage, the pedals, the  *)
(* LKAS button and the silent pause all disable, and what the gear and the *)
(* CAN bus raise blocks engaging.                                          *)
LEMMA RequestFacts ==
  /\ \A e \in EventName \cup EventNameSP :
       "ENABLE" \in Types[e]
         => e \in {"pcmEnable", "buttonEnable", "lkasEnable", "silentLkasEnable"}
  /\ \A e \in {"pedalPressed", "lkasDisable", "silentLkasDisable"} :
       "USER_DISABLE" \in Types[e]
  /\ \A e \in {"pedalPressed", "wrongGear", "canError", "canBusMissing"} :
       "NO_ENTRY" \in Types[e]
<1>1. \A e \in EventName : "ENABLE" \in Types[e] => e \in {"pcmEnable", "buttonEnable"}
  BY DEF EventName, Types, EVENTS
<1>2. \A e \in EventNameSP : "ENABLE" \in Types[e] => e \in {"lkasEnable", "silentLkasEnable"}
  BY DEF EventName, EventNameSP, Types, EVENTS, EVENTS_SP
<1>3. /\ "USER_DISABLE" \in Types["pedalPressed"]
      /\ "NO_ENTRY" \in Types["pedalPressed"]
      /\ "NO_ENTRY" \in Types["wrongGear"]
      /\ "NO_ENTRY" \in Types["canError"]
      /\ "NO_ENTRY" \in Types["canBusMissing"]
  BY DEF EventName, Types, EVENTS
<1>4. /\ "USER_DISABLE" \in Types["lkasDisable"]
      /\ "USER_DISABLE" \in Types["silentLkasDisable"]
  BY DEF EventName, EventNameSP, Types, EVENTS, EVENTS_SP
<1> QED BY <1>1, <1>2, <1>3, <1>4

LEMMA SelfdriveEventsAreEvents ==
  ASSUME NEW cs \in CarState
  PROVE  SelfdriveEvents(cs) \subseteq EventName
BY DEF SelfdriveEvents, CarEvents, When, EventName, EVENTS, CarState, Signals, Malfunctions
-----------------------------------------------------------------------------
LEMMA ParametersTyped ==
  /\ SoftDisableTicks \in Nat \ {0}
  /\ MismatchLimit \in Nat \ {0}
  /\ SteeringModes \subseteq MadsSteeringModeOnBrake
  /\ CarStates \subseteq CarState
  /\ Toggles \subseteq Toggle
BY SoftDisableTicksAssumption, MadsAssumption, SelfdrivedAssumption

(* What one cycle of openpilot's state machine may do to the state and to  *)
(* the timer.                                                              *)
LEMMA OpenpilotUpdateTyped ==
  ASSUME NEW E, NEW timer, NEW alert, state \in States,
         StateMachineUpdate(E, timer, alert)
  PROVE  state' \in States
BY DEF StateMachineUpdate, Disable, StartSoftDisable, ContinueSoftDisable, Drive,
       PreEnable, Engage, RemainDisabled, States

LEMMA MadsUpdateTyped ==
  ASSUME NEW M, NEW timer, NEW alert \in BOOLEAN, NEW soft, mads_state \in MadsStates,
         MadsStateMachineUpdate(M, timer, alert, soft)
  PROVE  /\ mads_state' \in MadsStates
         /\ soft_disable_timer' = timer \/ soft_disable_timer' = SoftDisableTicks
         /\ soft \in BOOLEAN
BY DEF MadsStateMachineUpdate, MadsDisable, MadsStartSoftDisable,
       MadsContinueSoftDisable, MadsDrive, MadsEngage, MadsRemain, MadsStates, enabled

(* Every variable keeps its type. *)
THEOREM TypeCorrect == Spec => []TypeOK
<1> USE ParametersTyped
<1>1. Init => TypeOK
  <2> SUFFICES ASSUME Init PROVE TypeOK
    OBVIOUS
  <2>1. \A t \in Toggles : /\ t.main \in BOOLEAN
                          /\ t.unified \in BOOLEAN
                          /\ t.accelerator \in BOOLEAN
    BY DEF Toggle
  <2>2. /\ main_enabled_toggle \in BOOLEAN
        /\ unified_engagement_mode \in BOOLEAN
        /\ disengage_on_accelerator \in BOOLEAN
        /\ mads_disengage_on_accelerator \in BOOLEAN
    BY <2>1 DEF Init
  <2>3. CS_prev \in [gas: BOOLEAN, brake: BOOLEAN, available: BOOLEAN, cruise: BOOLEAN]
    BY DEF Init
  <2>4. /\ softAlert \in BOOLEAN
        /\ initialized \in BOOLEAN
        /\ enabled_prev \in BOOLEAN
        /\ steering_mode_on_brake \in MadsSteeringModeOnBrake
    BY DEF Init
  <2>5. /\ state \in States
        /\ mads_state \in MadsStates
        /\ soft_disable_timer \in 0 .. SoftDisableTicks
        /\ mismatch_counter \in Nat
        /\ lateral_mismatch_counter \in Nat
        /\ softFor \in Nat
        /\ madsSoftFor \in Nat
        /\ parkFor \in 0 .. 2
    BY DEF Init, States, MadsStates
  <2> QED BY <2>2, <2>3, <2>4, <2>5 DEF TypeOK
<1>2. TypeOK /\ [Next]_vars => TypeOK'
  <2> SUFFICES ASSUME TypeOK, [Next]_vars PROVE TypeOK'
    OBVIOUS
  <2>1. ASSUME NEW cs \in CarStates, Step(cs) PROVE TypeOK'
    <3>1. /\ state' \in States
          /\ mads_state' \in MadsStates
          /\ soft_disable_timer' \in 0 .. SoftDisableTicks
          /\ softAlert' \in BOOLEAN
      <4>1. CASE InitializingStep(cs)
        BY <4>1 DEF InitializingStep, TypeOK
      <4>2. CASE RunningStep(cs)
        <5>1. PICK timer \in {Decremented, SoftDisableTicks}, alert \in BOOLEAN :
                /\ StateMachineUpdate(SelfdriveEvents(cs), timer, alert)
                /\ MadsStateMachineUpdate(MadsEvents(cs, SelfdriveEvents(cs)),
                                          timer, alert, softAlert')
          BY <4>2 DEF RunningStep
        <5>2. state' \in States
          BY <5>1, OpenpilotUpdateTyped DEF TypeOK
        <5>3. /\ mads_state' \in MadsStates
              /\ soft_disable_timer' = timer \/ soft_disable_timer' = SoftDisableTicks
              /\ softAlert' \in BOOLEAN
          BY <5>1, MadsUpdateTyped DEF TypeOK
        <5>4. timer \in 0 .. SoftDisableTicks
          BY DEF TypeOK, Decremented
        <5> QED BY <5>2, <5>3, <5>4
      <4> QED BY <2>1, <4>1, <4>2 DEF Step
    <3>2. /\ DataSample(cs)
          /\ MadsDataSample(cs)
          /\ \E E : Observe(cs, E)
      BY <2>1 DEF Step, InitializingStep, RunningStep
    <3>3. /\ initialized' \in BOOLEAN
          /\ mismatch_counter' \in Nat
          /\ lateral_mismatch_counter' \in Nat
      BY <3>2 DEF DataSample, MadsDataSample, CarState, TypeOK
    <3>4. softFor' \in Nat /\ madsSoftFor' \in Nat /\ parkFor' \in 0 .. 2
      BY <3>2 DEF Observe, TypeOK
    <3>5. /\ enabled_prev' \in BOOLEAN
          /\ CS_prev' \in [gas: BOOLEAN, brake: BOOLEAN, available: BOOLEAN, cruise: BOOLEAN]
      BY <2>1 DEF Step, enabled, Remembered, CarState
    <3>6. UNCHANGED <<main_enabled_toggle, unified_engagement_mode,
                      disengage_on_accelerator, mads_disengage_on_accelerator,
                      steering_mode_on_brake>>
      BY <2>1 DEF Step
    <3> QED BY <3>1, <3>3, <3>4, <3>5, <3>6 DEF TypeOK
  <2>2. ASSUME NEW t \in Toggles, ReadParams(t) PROVE TypeOK'
    BY <2>2 DEF ReadParams, TypeOK, Toggle
  <2>3. CASE UNCHANGED vars
    BY <2>3 DEF vars, openpilotVars, madsVars, history, TypeOK
  <2> QED BY <2>1, <2>2, <2>3 DEF Next
<1> QED BY <1>1, <1>2, PTL DEF Spec
-----------------------------------------------------------------------------
(* Soft disabling. *)
LEMMA MadsEventsFrom ==
  ASSUME NEW cs, NEW E
  PROVE  MadsEvents(cs, E) \subseteq E \cup EventNameSP
<1>1. Replaced(cs, E) \subseteq {"wrongGear", "reverseGear", "brakeHold", "doorOpen",
                                "seatbeltNotLatched", "parkBrake"}
  BY DEF Replaced
<1>2. AloneEventsSP(cs, E) \subseteq EventNameSP
  BY <1>1 DEF AloneEventsSP, SilentOf, When, EventNameSP, EVENTS_SP
<1>3. RequestEvents(cs, E) \subseteq EventNameSP
  BY DEF RequestEvents, When, EventNameSP, EVENTS_SP
<1>4. DisengageOnBrake(cs, E, AloneEventsSP(cs, E) \cup RequestEvents(cs, E))
        \subseteq EventNameSP
  BY <1>2, <1>3 DEF DisengageOnBrake, EventNameSP, EVENTS_SP
<1>5. AloneEvents(cs, E) \subseteq E
  BY DEF AloneEvents
<1> QED BY <1>4, <1>5 DEF MadsEvents, When, EventNameSP, EVENTS_SP

(* MADS soft disables only on what openpilot's machine has seen as well. *)
LEMMA MadsSoftDisablesWithOpenpilot ==
  ASSUME NEW cs, NEW E, Contains(MadsEvents(cs, E), "SOFT_DISABLE")
  PROVE  Contains(E, "SOFT_DISABLE")
BY MadsEventsFrom, TypesFacts DEF Contains

(* How openpilot's machine treats the timer. *)
LEMMA OpenpilotSoftDisable ==
  ASSUME NEW E \in SUBSET EventName, NEW timer, NEW alert, state \in States,
         StateMachineUpdate(E, timer, alert)
  PROVE  /\ \/ timer = Decremented
            \/ /\ timer = SoftDisableTicks
               /\ state \in {"enabled", "overriding"}
               /\ state' = "softDisabling"
         /\ state' = "softDisabling"
              => \/ state \in {"enabled", "overriding"} /\ timer = SoftDisableTicks
                 \/ state = "softDisabling" /\ timer = Decremented /\ timer > 0
         /\ state = "softDisabling" /\ state' = "disabled" /\ Calm(E)
              => timer = Decremented /\ timer <= 0
         /\ Contains(E, "SOFT_DISABLE") /\ state' \notin {"disabled", "softDisabling"}
              => state = "preEnabled"
<1>1. Contains(E, "SOFT_DISABLE") => Contains(E, "NO_ENTRY")
  BY TypesFacts DEF Contains
<1>2. CASE Disable(E, timer, alert)
  BY <1>2 DEF Disable
<1>3. CASE StartSoftDisable(E, timer, alert)
  BY <1>3 DEF StartSoftDisable
<1>4. CASE ContinueSoftDisable(E, timer, alert)
  BY <1>4 DEF ContinueSoftDisable
<1>5. CASE Drive(E, timer, alert)
  BY <1>5 DEF Drive
<1>6. CASE PreEnable(E, timer, alert)
  BY <1>6 DEF PreEnable
<1>7. CASE Engage(E, timer, alert)
  BY <1>1, <1>7 DEF Engage
<1>8. CASE RemainDisabled(E, timer, alert)
  BY <1>8 DEF RemainDisabled
<1> QED BY <1>2, <1>3, <1>4, <1>5, <1>6, <1>7, <1>8 DEF StateMachineUpdate

(* How MADS's machine treats the timer. *)
LEMMA MadsSoftDisable ==
  ASSUME NEW M, NEW timer, NEW alert, NEW soft,
         MadsStateMachineUpdate(M, timer, alert, soft)
  PROVE  /\ \/ soft_disable_timer' = timer
            \/ soft_disable_timer' = SoftDisableTicks /\ ~enabled' /\ mads_state # "softDisabling"
         /\ mads_state' = "softDisabling"
              => Contains(M, "SOFT_DISABLE") /\ (mads_state = "softDisabling" => timer > 0)
BY DEF MadsStateMachineUpdate, MadsDisable, MadsStartSoftDisable,
       MadsContinueSoftDisable, MadsDrive, MadsEngage, MadsRemain

(* While openpilot soft disables, the cycles it has done so and the ones   *)
(* the timer still allows add up to the announced time.  While MADS does,  *)
(* they stay within it until openpilot arms the timer anew.                *)
SoftInv ==
  /\ ~initialized => state = "disabled" /\ mads_state = "disabled"
  /\ state = "softDisabling"
       => soft_disable_timer > 0 /\ softFor + soft_disable_timer = SoftDisableTicks
  /\ mads_state = "softDisabling"
       => /\ madsSoftFor = 0 \/ soft_disable_timer > 0
          /\ madsSoftFor + soft_disable_timer <= 2 * SoftDisableTicks
          /\ state \notin {"disabled", "softDisabling"}
               => madsSoftFor + soft_disable_timer <= SoftDisableTicks
LEMMA SoftInvInductive ==
  /\ Init => SoftInv
  /\ TypeOK /\ SoftInv /\ [Next]_vars => SoftInv'
<1> USE ParametersTyped
<1>1. Init => SoftInv
  BY DEF Init, SoftInv
<1>2. ASSUME TypeOK, SoftInv, NEW cs \in CarStates, Step(cs) PROVE SoftInv'
  <2>1. CASE InitializingStep(cs)
    BY <1>2, <2>1 DEF InitializingStep, DataSample, SoftInv
  <2>2. CASE RunningStep(cs)
    <3> DEFINE E == SelfdriveEvents(cs)
               M == MadsEvents(cs, E)
    <3>1. PICK timer \in {Decremented, SoftDisableTicks}, alert \in BOOLEAN :
            /\ StateMachineUpdate(E, timer, alert)
            /\ MadsStateMachineUpdate(M, timer, alert, softAlert')
            /\ Observe(cs, E)
      BY <2>2 DEF RunningStep
    <3>2. initialized'
      BY <2>2 DEF RunningStep
    <3>3. E \in SUBSET EventName
      BY SelfdriveEventsAreEvents
    <3>4. /\ \/ timer = Decremented
             \/ /\ timer = SoftDisableTicks
                /\ state \in {"enabled", "overriding"}
                /\ state' = "softDisabling"
          /\ state' = "softDisabling"
               => \/ state \in {"enabled", "overriding"} /\ timer = SoftDisableTicks
                  \/ state = "softDisabling" /\ timer = Decremented /\ timer > 0
          /\ Contains(E, "SOFT_DISABLE") /\ state' \notin {"disabled", "softDisabling"}
               => state = "preEnabled"
      BY <1>2, <3>1, <3>3, OpenpilotSoftDisable DEF TypeOK
    <3>5. /\ \/ soft_disable_timer' = timer
             \/ soft_disable_timer' = SoftDisableTicks /\ ~enabled' /\ mads_state # "softDisabling"
          /\ mads_state' = "softDisabling"
               => Contains(M, "SOFT_DISABLE") /\ (mads_state = "softDisabling" => timer > 0)
      BY <3>1, MadsSoftDisable
    <3>6. mads_state' = "softDisabling" => Contains(E, "SOFT_DISABLE")
      BY <3>5, MadsSoftDisablesWithOpenpilot
    <3>7. /\ softFor' = IF state = "softDisabling" /\ state' = "softDisabling"
                        THEN softFor + 1 ELSE 0
          /\ madsSoftFor' = IF mads_state = "softDisabling" /\ mads_state' = "softDisabling"
                            THEN madsSoftFor + 1 ELSE 0
      BY <3>1 DEF Observe
    <3>8. state' = "softDisabling" => enabled'
      BY DEF enabled, ENABLED_STATES, ACTIVE_STATES
    <3>9. /\ soft_disable_timer \in 0 .. SoftDisableTicks
          /\ softFor \in Nat
          /\ madsSoftFor \in Nat
          /\ timer \in 0 .. SoftDisableTicks
          /\ Decremented = IF soft_disable_timer > 0 THEN soft_disable_timer - 1 ELSE 0
      BY <1>2 DEF TypeOK, Decremented
    <3>10. state' = "softDisabling"
             => soft_disable_timer' > 0 /\ softFor' + soft_disable_timer' = SoftDisableTicks
      BY <1>2, <3>4, <3>5, <3>7, <3>8, <3>9 DEF SoftInv
    <3>11. ASSUME mads_state' = "softDisabling", mads_state # "softDisabling"
           PROVE  /\ madsSoftFor' = 0
                  /\ madsSoftFor' + soft_disable_timer' <= 2 * SoftDisableTicks
                  /\ madsSoftFor' + soft_disable_timer' <= SoftDisableTicks
      BY <3>5, <3>7, <3>9, <3>11
    <3>12. ASSUME mads_state' = "softDisabling", mads_state = "softDisabling"
           PROVE  /\ soft_disable_timer' > 0
                  /\ madsSoftFor' + soft_disable_timer' <= 2 * SoftDisableTicks
                  /\ state' \notin {"disabled", "softDisabling"}
                       => madsSoftFor' + soft_disable_timer' <= SoftDisableTicks
      <4>1. /\ timer > 0
            /\ soft_disable_timer' = timer
            /\ madsSoftFor' = madsSoftFor + 1
        BY <3>5, <3>7, <3>12
      <4>2. CASE timer = Decremented
        <5>1. madsSoftFor' + soft_disable_timer' = madsSoftFor + soft_disable_timer
          BY <3>9, <4>1, <4>2
        <5>2. state' \notin {"disabled", "softDisabling"}
                => state \notin {"disabled", "softDisabling"}
          BY <3>4, <3>6, <3>12
        <5> QED BY <1>2, <3>12, <4>1, <5>1, <5>2 DEF SoftInv
      <4>3. CASE timer = SoftDisableTicks /\ state \in {"enabled", "overriding"} /\ state' = "softDisabling"
        BY <1>2, <3>9, <3>12, <4>1, <4>3 DEF SoftInv
      <4> QED BY <3>4, <4>2, <4>3
    <3>13. mads_state' = "softDisabling"
             => /\ madsSoftFor' = 0 \/ soft_disable_timer' > 0
                /\ madsSoftFor' + soft_disable_timer' <= 2 * SoftDisableTicks
                /\ state' \notin {"disabled", "softDisabling"}
                     => madsSoftFor' + soft_disable_timer' <= SoftDisableTicks
      BY <3>11, <3>12
    <3> QED BY <3>2, <3>10, <3>13 DEF SoftInv
  <2> QED BY <1>2, <2>1, <2>2 DEF Step
<1>3. ASSUME SoftInv, NEW t \in Toggles, ReadParams(t) PROVE SoftInv'
  BY <1>3 DEF ReadParams, SoftInv
<1>4. ASSUME SoftInv, UNCHANGED vars PROVE SoftInv'
  BY <1>4 DEF vars, openpilotVars, madsVars, history, SoftInv
<1> QED BY <1>1, <1>2, <1>3, <1>4 DEF Next
LEMMA SoftInvCorrect == Spec => [](TypeOK /\ SoftInv)
<1>1. SoftInv /\ TypeOK /\ [Next]_vars => SoftInv'
  BY SoftInvInductive
<1>2. Init => SoftInv
  BY SoftInvInductive
<1> QED BY <1>1, <1>2, TypeCorrect, PTL DEF Spec

(* Both machines give a soft disable up in bounded time. *)
THEOREM SoftDisableIsBounded == Spec => []SoftDisableBounded
<1>1. TypeOK /\ SoftInv => SoftDisableBounded
  <2> SUFFICES ASSUME TypeOK, SoftInv PROVE SoftDisableBounded
    OBVIOUS
  <2>1. /\ softFor \in Nat
        /\ madsSoftFor \in Nat
        /\ soft_disable_timer \in 0 .. SoftDisableTicks
        /\ SoftDisableTicks \in Nat \ {0}
    BY ParametersTyped DEF TypeOK
  <2> QED BY <2>1 DEF SoftInv, SoftDisableBounded
<1> QED BY <1>1, SoftInvCorrect, PTL

(* openpilot does not give up early either. *)
THEOREM SoftDisableGivesGrace == Spec => SoftDisableGrace
<1> DEFINE Grace == /\ state = "softDisabling"
                    /\ state' = "disabled"
                    /\ ~cycle'.disable
                    => softFor = SoftDisableTicks - 1
<1>1. TypeOK /\ SoftInv /\ [Next]_vars => [Grace]_vars
  <2> SUFFICES ASSUME TypeOK, SoftInv, Next, state = "softDisabling",
                      state' = "disabled", ~cycle'.disable
               PROVE  softFor = SoftDisableTicks - 1
    BY DEF Grace
  <2>1. PICK cs \in CarStates : Step(cs)
    BY DEF Next, ReadParams
  <2>2. RunningStep(cs)
    BY <2>1 DEF Step, InitializingStep
  <2> DEFINE E == SelfdriveEvents(cs)
  <2>3. PICK timer \in {Decremented, SoftDisableTicks}, alert \in BOOLEAN :
          /\ StateMachineUpdate(E, timer, alert)
          /\ Observe(cs, E)
    BY <2>2 DEF RunningStep
  <2>4. Calm(E)
    BY <2>3 DEF Observe, Calm
  <2>5. E \in SUBSET EventName
    BY SelfdriveEventsAreEvents, ParametersTyped
  <2>6. timer = Decremented /\ timer <= 0
    BY <2>3, <2>4, <2>5, OpenpilotSoftDisable DEF TypeOK
  <2>7. /\ softFor \in Nat
        /\ soft_disable_timer \in 0 .. SoftDisableTicks
        /\ SoftDisableTicks \in Nat \ {0}
    BY ParametersTyped DEF TypeOK
  <2> QED BY <2>6, <2>7 DEF SoftInv, Decremented
<1> QED BY <1>1, SoftInvCorrect, PTL DEF SoftDisableGrace, Spec
-----------------------------------------------------------------------------
(* Disagreement with the panda. *)
MismatchInv ==
  /\ ~initialized => state = "disabled" /\ mads_state = "disabled"
  /\ MismatchDisengages

(* Whatever disables immediately leaves neither machine steering. *)
LEMMA ImmediateDisables ==
  ASSUME NEW E, NEW M, NEW timer, NEW alert, NEW soft
  PROVE  /\ /\ StateMachineUpdate(E, timer, alert)
            /\ state # "disabled"
            /\ Contains(E, "IMMEDIATE_DISABLE")
            => ~enabled'
         /\ /\ MadsStateMachineUpdate(M, timer, alert, soft)
            /\ mads_state # "disabled"
            /\ Contains(M, "IMMEDIATE_DISABLE")
            => ~mads_active'
<1>1. ASSUME StateMachineUpdate(E, timer, alert), state # "disabled",
             Contains(E, "IMMEDIATE_DISABLE")
      PROVE  ~enabled'
  BY <1>1 DEF StateMachineUpdate, Disable, StartSoftDisable, ContinueSoftDisable,
       Drive, PreEnable, Engage, RemainDisabled, Calm, enabled, ENABLED_STATES, ACTIVE_STATES
<1>2. ASSUME MadsStateMachineUpdate(M, timer, alert, soft), mads_state # "disabled",
             Contains(M, "IMMEDIATE_DISABLE")
      PROVE  ~mads_active'
  BY <1>2 DEF MadsStateMachineUpdate, MadsDisable, MadsStartSoftDisable,
       MadsContinueSoftDisable, MadsDrive, MadsEngage, MadsRemain, Calm,
       mads_active, ACTIVE_STATES
<1> QED BY <1>1, <1>2

(* A panda that disagrees for MismatchLimit cycles of an engagement, in a  *)
(* row or not, ends it.                                                    *)
THEOREM MismatchEndsEngagement == Spec => []MismatchDisengages
<1> USE ParametersTyped
<1>1. Init => MismatchInv
  BY DEF Init, MismatchInv, MismatchDisengages
<1>2. TypeOK /\ MismatchInv /\ [Next]_vars => MismatchInv'
  <2> SUFFICES ASSUME TypeOK, MismatchInv, [Next]_vars PROVE MismatchInv'
    OBVIOUS
  <2>1. ASSUME NEW cs \in CarStates, InitializingStep(cs) PROVE MismatchInv'
    <3>1. /\ state' = "disabled"
          /\ mads_state' = "disabled"
      BY <2>1 DEF InitializingStep, DataSample, MismatchInv
    <3> QED BY <3>1 DEF MismatchInv, MismatchDisengages, enabled, mads_active,
                        ENABLED_STATES, ACTIVE_STATES
  <2>2. ASSUME NEW cs \in CarStates, RunningStep(cs) PROVE MismatchInv'
    <3> DEFINE E == SelfdriveEvents(cs)
               M == MadsEvents(cs, E)
    <3>1. PICK timer \in {Decremented, SoftDisableTicks}, alert \in BOOLEAN :
            /\ StateMachineUpdate(E, timer, alert)
            /\ MadsStateMachineUpdate(M, timer, alert, softAlert')
      BY <2>2 DEF RunningStep
    <3>2. /\ initialized'
          /\ DataSample(cs)
          /\ MadsDataSample(cs)
      BY <2>2 DEF RunningStep
    <3>3. ASSUME mismatch_counter' >= MismatchLimit PROVE ~enabled'
      <4>1. state # "disabled"
        BY <3>2, <3>3 DEF DataSample, enabled, ENABLED_STATES, ACTIVE_STATES
      <4>2. "controlsMismatch" \in E
        BY <3>2, <3>3 DEF SelfdriveEvents, When, MismatchReached
      <4>3. Contains(E, "IMMEDIATE_DISABLE")
        BY <4>2, TypesFacts DEF Contains
      <4> QED BY <3>1, <4>1, <4>3, ImmediateDisables
    <3>4. ASSUME lateral_mismatch_counter' >= MismatchLimit PROVE ~mads_active'
      <4>1. mads_state # "disabled"
        BY <3>2, <3>4 DEF MadsDataSample, mads_active, ACTIVE_STATES
      <4>2. "controlsMismatchLateral" \in M
        BY <3>4 DEF MadsEvents, When, MismatchReached
      <4>3. Contains(M, "IMMEDIATE_DISABLE")
        BY <4>2, TypesFacts DEF Contains
      <4> QED BY <3>1, <4>1, <4>3, ImmediateDisables
    <3> QED BY <3>2, <3>3, <3>4 DEF MismatchInv, MismatchDisengages
  <2>3. ASSUME NEW t \in Toggles, ReadParams(t) PROVE MismatchInv'
    BY <2>3 DEF ReadParams, MismatchInv, MismatchDisengages, enabled, mads_active
  <2>4. CASE UNCHANGED vars
    BY <2>4 DEF vars, openpilotVars, madsVars, history, MismatchInv,
                MismatchDisengages, enabled, mads_active
  <2> QED BY <2>1, <2>2, <2>3, <2>4 DEF Next, Step
<1>3. MismatchInv => MismatchDisengages
  BY DEF MismatchInv
<1> QED BY <1>1, <1>2, <1>3, TypeCorrect, PTL DEF Spec
-----------------------------------------------------------------------------
(* The take-control alert. *)

(* A machine that is softDisabling after its update has asked for the      *)
(* alert, MADS only if openpilot is off; MADS never takes the request of   *)
(* openpilot's machine back.                                               *)
LEMMA SoftDisablingAlerts ==
  ASSUME NEW E, NEW M, NEW timer, NEW alert \in BOOLEAN,
         StateMachineUpdate(E, timer, alert),
         MadsStateMachineUpdate(M, timer, alert, softAlert')
  PROVE  /\ state' = "softDisabling" => softAlert'
         /\ mads_state' = "softDisabling" /\ ~enabled' => softAlert'
<1>1. state' = "softDisabling" => alert
  BY Zenon DEF StateMachineUpdate, Disable, StartSoftDisable, ContinueSoftDisable,
       Drive, PreEnable, Engage, RemainDisabled
<1>2. alert => softAlert'
  BY DEF MadsStateMachineUpdate, MadsDisable, MadsStartSoftDisable,
       MadsContinueSoftDisable, MadsDrive, MadsEngage, MadsRemain
<1>3. mads_state' = "softDisabling" /\ ~enabled' => softAlert'
  BY DEF MadsStateMachineUpdate, MadsDisable, MadsStartSoftDisable,
       MadsContinueSoftDisable, MadsDrive, MadsEngage, MadsRemain
<1> QED BY <1>1, <1>2, <1>3

(* Whichever machine soft disables, and whether or not MADS leaves the     *)
(* alert to an enabled openpilot, no cycle of it passes without the        *)
(* take-control alert, unless openpilot is preEnabled when it begins.      *)
THEOREM SoftDisableIsAlerted == Spec => SoftDisableAlerted
<1> DEFINE Alerted == /\ cycle'.step
                      /\ state' = "softDisabling" \/ mads_state' = "softDisabling"
                      /\ state # "preEnabled"
                      => softAlert'
<1>1. TypeOK /\ SoftInv /\ [Next]_vars => [Alerted]_vars
  <2> SUFFICES ASSUME TypeOK, SoftInv, Next, cycle'.step, state # "preEnabled",
                      \/ state' = "softDisabling"
                      \/ mads_state' = "softDisabling"
               PROVE  softAlert'
    BY DEF Alerted
  <2>1. PICK cs \in CarStates : Step(cs)
    BY DEF Next, ReadParams, Quiet
  <2>2. RunningStep(cs)
    <3>1. ~InitializingStep(cs)
      BY DEF InitializingStep, DataSample, SoftInv
    <3> QED BY <2>1, <3>1 DEF Step
  <2> DEFINE E == SelfdriveEvents(cs)
             M == MadsEvents(cs, E)
  <2>3. PICK timer \in {Decremented, SoftDisableTicks}, alert \in BOOLEAN :
          /\ StateMachineUpdate(E, timer, alert)
          /\ MadsStateMachineUpdate(M, timer, alert, softAlert')
    BY <2>2 DEF RunningStep
  <2>4. CASE state' = "softDisabling"
    BY <2>3, <2>4, SoftDisablingAlerts
  <2>5. CASE mads_state' = "softDisabling"
    <3>1. Contains(E, "SOFT_DISABLE")
      BY <2>3, <2>5, MadsSoftDisable, MadsSoftDisablesWithOpenpilot
    <3>2. E \in SUBSET EventName
      BY SelfdriveEventsAreEvents, ParametersTyped
    <3>3. state' \in {"disabled", "softDisabling"}
      BY <2>3, <3>1, <3>2, OpenpilotSoftDisable DEF TypeOK
    <3>4. state' = "disabled" => ~enabled'
      BY DEF enabled, ENABLED_STATES, ACTIVE_STATES
    <3> QED BY <2>3, <2>5, <3>3, <3>4, SoftDisablingAlerts
  <2> QED BY <2>4, <2>5
<1> QED BY <1>1, SoftInvCorrect, PTL DEF SoftDisableAlerted, Spec
-----------------------------------------------------------------------------
(* The driver's requests and MADS. *)

(* What MADS's machine does to a request: a disabling event leaves it      *)
(* paused, and that only as a silent pause, or off; it comes on or wakes   *)
(* up with an enabling event alone; and what blocks engaging keeps one     *)
(* that is off from steering.                                              *)
LEMMA MadsRequests ==
  ASSUME NEW M, NEW timer, NEW alert, NEW soft, mads_state \in MadsStates,
         MadsStateMachineUpdate(M, timer, alert, soft)
  PROVE  /\ mads_state # "disabled" /\ Contains(M, "USER_DISABLE")
              => /\ mads_state' \in {"paused", "disabled"}
                 /\ "silentLkasDisable" \notin M => mads_state' = "disabled"
         /\ mads_state \in {"disabled", "paused"}
              => \/ mads_state' \in {"disabled", mads_state}
                 \/ Contains(M, "ENABLE")
         /\ mads_state = "disabled" /\ Contains(M, "NO_ENTRY") => ~mads_active'
<1>1. CASE MadsDisable(M, timer, alert, soft)
  BY <1>1 DEF MadsDisable
<1>2. CASE \/ MadsStartSoftDisable(M, timer, alert, soft)
           \/ MadsContinueSoftDisable(M, timer, alert, soft)
           \/ MadsDrive(M, timer, alert, soft)
  BY <1>2 DEF MadsStartSoftDisable, MadsContinueSoftDisable, MadsDrive, Calm
<1>3. CASE MadsEngage(M, timer, alert, soft)
  BY <1>3 DEF MadsEngage, Calm
<1>4. CASE MadsRemain(M, timer, alert, soft)
  BY <1>4 DEF MadsRemain, Calm, mads_active, ACTIVE_STATES
<1> QED BY <1>1, <1>2, <1>3, <1>4 DEF MadsStateMachineUpdate

(* A cycle in which one of the machines is, or comes, on: both have run. *)
LEMMA CycleRuns ==
  ASSUME TypeOK, SoftInv, NEW cs \in CarStates, RunningStep(cs)
  PROVE  /\ SelfdriveEvents(cs) \in SUBSET EventName
         /\ Observe(cs, SelfdriveEvents(cs))
         /\ \E timer, alert :
              /\ StateMachineUpdate(SelfdriveEvents(cs), timer, alert)
              /\ MadsStateMachineUpdate(MadsEvents(cs, SelfdriveEvents(cs)), timer,
                                        alert, softAlert')
<1>1. cs \in CarState
  BY ParametersTyped
<1> QED BY <1>1, SelfdriveEventsAreEvents DEF RunningStep

(* No machine is on, or comes on, while the system initializes. *)
LEMMA InitializingKeepsOff ==
  ASSUME SoftInv, NEW cs, InitializingStep(cs)
  PROVE  /\ mads_state = "disabled" /\ mads_state' = "disabled"
         /\ ~mads_enabled /\ ~mads_enabled' /\ ~mads_active /\ ~mads_active'
<1>1. mads_state = "disabled" /\ mads_state' = "disabled"
  BY DEF InitializingStep, DataSample, SoftInv
<1> QED BY <1>1 DEF mads_enabled, mads_active, ACTIVE_STATES

(* MADS sees an enabling event without a driver's gesture only while it is *)
(* paused, and in PAUSE mode not with the brake held.                      *)
LEMMA EnableNeedsGesture ==
  ASSUME NEW cs, NEW E \in SUBSET EventName, ~Gesture(cs, E),
         Contains(MadsEvents(cs, E), "ENABLE")
  PROVE  /\ mads_state = "paused"
         /\ ~(steering_mode_on_brake = "PAUSE" /\ cs.brake)
<1> DEFINE Enabling == {"pcmEnable", "buttonEnable", "lkasEnable", "silentLkasEnable"}
           sp == DisengageOnBrake(cs, E, AloneEventsSP(cs, E) \cup RequestEvents(cs, E))
<1>1. E \cap Enabling = {}
  <2>1. "pcmEnable" \notin E /\ "buttonEnable" \notin E
    BY DEF Gesture, SelfdriveEnableEvents
  <2>2. "lkasEnable" \notin E /\ "silentLkasEnable" \notin E
    BY DEF EventName, EVENTS
  <2> QED BY <2>1, <2>2
<1>2. RequestEvents(cs, E) \cap Enabling = {}
  BY DEF Gesture, RequestEvents, MainCruiseRises, When
<1>3. AloneEventsSP(cs, E) \cap Enabling = {}
  <2>1. Replaced(cs, E) \subseteq {"wrongGear", "reverseGear", "brakeHold", "doorOpen",
                                  "seatbeltNotLatched", "parkBrake"}
    BY DEF Replaced
  <2> QED BY <2>1 DEF AloneEventsSP, SilentOf, When
<1>4. sp \cap Enabling = {}
  BY <1>2, <1>3 DEF DisengageOnBrake
<1>5. MadsEvents(cs, E) \subseteq EventName \cup EventNameSP
  BY MadsEventsFrom
<1>6. PICK e \in MadsEvents(cs, E) : e \in Enabling
  BY <1>5, RequestFacts DEF Contains
<1>7. AloneEvents(cs, E) \cap Enabling = {}
  BY <1>1 DEF AloneEvents
<1>8. mads_state = "paused" /\ ShouldSilentLkasEnable(cs, E, sp)
  BY <1>4, <1>6, <1>7 DEF MadsEvents, When
<1> QED BY <1>8 DEF ShouldSilentLkasEnable

(* MADS comes on, steering or paused, at the driver's request alone. *)
THEOREM SteeringIsRequested == Spec => NoUnrequestedSteering
<1>1. TypeOK /\ SoftInv /\ [Next]_vars
        => [~mads_enabled /\ mads_enabled' => cycle'.gesture]_vars
  <2> SUFFICES ASSUME TypeOK, SoftInv, Next, ~mads_enabled, mads_enabled'
               PROVE  cycle'.gesture
    OBVIOUS
  <2>1. PICK cs \in CarStates : RunningStep(cs)
    BY InitializingKeepsOff DEF Next, Step, ReadParams, mads_enabled
  <2> DEFINE E == SelfdriveEvents(cs)
             M == MadsEvents(cs, E)
  <2>2. PICK timer, alert : MadsStateMachineUpdate(M, timer, alert, softAlert')
    BY <2>1, CycleRuns
  <2>3. E \in SUBSET EventName /\ Observe(cs, E)
    BY <2>1, CycleRuns
  <2>4. mads_state = "disabled" /\ mads_state' # "disabled"
    BY DEF TypeOK, mads_enabled, MadsStates, ACTIVE_STATES
  <2>5. Contains(M, "ENABLE")
    BY <2>2, <2>4, MadsRequests DEF MadsStates
  <2>6. Gesture(cs, E)
    BY <2>3, <2>4, <2>5, EnableNeedsGesture
  <2> QED BY <2>3, <2>6 DEF Observe
<1> QED BY <1>1, SoftInvCorrect, PTL DEF NoUnrequestedSteering, Spec

(* With the brake held a paused MADS stays paused unless the driver asks.  *)
THEOREM BrakeHoldsPause == Spec => NoResumeWhileBraking
<1> DEFINE Held == /\ steering_mode_on_brake = "PAUSE"
                   /\ mads_state = "paused" /\ cycle'.brake /\ ~cycle'.gesture
                   => ~mads_active'
<1>1. TypeOK /\ SoftInv /\ [Next]_vars => [Held]_vars
  <2> SUFFICES ASSUME TypeOK, SoftInv, Next, steering_mode_on_brake = "PAUSE",
                      mads_state = "paused", cycle'.brake, ~cycle'.gesture
               PROVE  ~mads_active'
    BY DEF Held
  <2>1. PICK cs \in CarStates : RunningStep(cs)
    BY InitializingKeepsOff DEF Next, Step, ReadParams, Quiet
  <2> DEFINE E == SelfdriveEvents(cs)
             M == MadsEvents(cs, E)
  <2>2. PICK timer, alert : MadsStateMachineUpdate(M, timer, alert, softAlert')
    BY <2>1, CycleRuns
  <2>3. E \in SUBSET EventName /\ Observe(cs, E)
    BY <2>1, CycleRuns
  <2>4. cs.brake /\ ~Gesture(cs, E)
    BY <2>3 DEF Observe
  <2>5. ~Contains(M, "ENABLE")
    BY <2>3, <2>4, EnableNeedsGesture
  <2>6. mads_state' \in {"disabled", "paused"}
    BY <2>2, <2>5, MadsRequests DEF MadsStates
  <2> QED BY <2>6 DEF mads_active, ACTIVE_STATES
<1> QED BY <1>1, SoftInvCorrect, PTL DEF NoResumeWhileBraking, Spec

(* A pedal press switches openpilot off and lets nothing switch it on. *)
LEMMA PedalDisablesOpenpilot ==
  ASSUME NEW E, NEW timer, NEW alert, "pedalPressed" \in E,
         StateMachineUpdate(E, timer, alert)
  PROVE  ~enabled'
<1>1. Contains(E, "USER_DISABLE") /\ Contains(E, "NO_ENTRY")
  BY RequestFacts DEF Contains
<1> QED BY <1>1 DEF StateMachineUpdate, Disable, StartSoftDisable, ContinueSoftDisable,
       Drive, PreEnable, Engage, RemainDisabled, Calm, enabled, ENABLED_STATES, ACTIVE_STATES

(* Steering alone, MADS turns a press of the brake into a disabling event  *)
(* of its own, whatever it has edited away.                                *)
LEMMA BrakeDisablesMads ==
  ASSUME NEW cs, NEW E, ~enabled', mads_active,
         steering_mode_on_brake \in {"PAUSE", "DISENGAGE"},
         PedalPressedNonGasPressed(cs, E)
  PROVE  Contains(MadsEvents(cs, E), "USER_DISABLE")
<1> DEFINE sp == DisengageOnBrake(cs, E, AloneEventsSP(cs, E) \cup RequestEvents(cs, E))
<1>1. mads_enabled /\ SteersAlone /\ mads_state # "paused"
  BY DEF mads_enabled, mads_active, SteersAlone, ACTIVE_STATES
<1>2. CASE steering_mode_on_brake = "PAUSE"
  <2>1. "silentLkasDisable" \in AloneEventsSP(cs, E)
    BY <1>1, <1>2 DEF AloneEventsSP, PauseRequested, When
  <2>2. "silentLkasDisable" \in sp
    BY <1>2, <2>1 DEF DisengageOnBrake
  <2> QED BY <2>2, RequestFacts DEF MadsEvents, Contains
<1>3. CASE steering_mode_on_brake = "DISENGAGE"
  <2>1. "lkasDisable" \in sp
    BY <1>1, <1>3 DEF DisengageOnBrake
  <2> QED BY <2>1, RequestFacts DEF MadsEvents, Contains
<1> QED BY <1>2, <1>3

(* Unless it is set to remain active, MADS lets go of the steering when    *)
(* the brake is pressed, whether openpilot was engaged with it or not.     *)
THEOREM BrakeTakesSteering == Spec => BrakeReleasesSteering
<1> DEFINE Released == /\ steering_mode_on_brake # "REMAIN_ACTIVE"
                       /\ mads_active /\ cycle'.brakePress /\ ~cycle'.gasPress
                       => ~mads_active'
<1>1. TypeOK /\ SoftInv /\ [Next]_vars => [Released]_vars
  <2> SUFFICES ASSUME TypeOK, SoftInv, Next, steering_mode_on_brake # "REMAIN_ACTIVE",
                      mads_active, cycle'.brakePress, ~cycle'.gasPress
               PROVE  ~mads_active'
    BY DEF Released
  <2>1. PICK cs \in CarStates : RunningStep(cs)
    BY InitializingKeepsOff DEF Next, Step, ReadParams, Quiet
  <2> DEFINE E == SelfdriveEvents(cs)
             M == MadsEvents(cs, E)
  <2>2. PICK timer, alert : /\ StateMachineUpdate(E, timer, alert)
                            /\ MadsStateMachineUpdate(M, timer, alert, softAlert')
    BY <2>1, CycleRuns
  <2>3. Observe(cs, E)
    BY <2>1, CycleRuns
  <2>4. "pedalPressed" \in E /\ PedalPressedNonGasPressed(cs, E)
    BY <2>3 DEF Observe, PedalPressedNonGasPressed
  <2>5. ~enabled'
    BY <2>2, <2>4, PedalDisablesOpenpilot
  <2>6. steering_mode_on_brake \in {"PAUSE", "DISENGAGE"}
    BY DEF TypeOK, MadsSteeringModeOnBrake
  <2>7. Contains(M, "USER_DISABLE")
    BY <2>4, <2>5, <2>6, BrakeDisablesMads
  <2>8. mads_state' \in {"paused", "disabled"}
    BY <2>2, <2>7, MadsRequests DEF TypeOK, mads_active, ACTIVE_STATES
  <2> QED BY <2>8 DEF mads_active, ACTIVE_STATES
<1> QED BY <1>1, SoftInvCorrect, PTL DEF BrakeReleasesSteering, Spec
-----------------------------------------------------------------------------
(* Park. *)

(* In Park, with openpilot off, MADS sees a disabling event while it is on *)
(* and one that blocks engaging while it is off, even if the CAN messages  *)
(* are missing or broken.                                                  *)
LEMMA ParkEvents ==
  ASSUME NEW cs \in CarState, initialized', ~enabled', cs.gear = "park"
  PROVE  LET M == MadsEvents(cs, SelfdriveEvents(cs))
         IN  /\ mads_enabled => Contains(M, "USER_DISABLE")
             /\ mads_state = "paused" => "silentLkasDisable" \notin M
             /\ ~mads_enabled => Contains(M, "NO_ENTRY")
<1> DEFINE E == SelfdriveEvents(cs)
           M == MadsEvents(cs, E)
           requests == AloneEventsSP(cs, E) \cup RequestEvents(cs, E)
           sp == DisengageOnBrake(cs, E, requests)
<1>1. ASSUME mads_enabled PROVE Contains(M, "USER_DISABLE")
  <2>1. "lkasDisable" \in AloneEventsSP(cs, E)
    BY <1>1 DEF AloneEventsSP, SteersAlone, When
  <2>2. "lkasDisable" \in sp
    BY <2>1 DEF DisengageOnBrake
  <2> QED BY <2>2, RequestFacts DEF MadsEvents, Contains
<1>2. ASSUME mads_state = "paused" PROVE "silentLkasDisable" \notin M
  <2>1. "silentLkasDisable" \notin AloneEventsSP(cs, E)
    <3>1. Replaced(cs, E) \subseteq {"wrongGear", "reverseGear", "brakeHold", "doorOpen",
                                    "seatbeltNotLatched", "parkBrake"}
      BY DEF Replaced
    <3> QED BY <1>2, <3>1 DEF AloneEventsSP, SilentOf, When
  <2>2. "silentLkasDisable" \notin RequestEvents(cs, E)
    BY DEF RequestEvents, When
  <2>3. "silentLkasDisable" \notin sp
    BY <2>1, <2>2 DEF DisengageOnBrake
  <2>4. "silentLkasDisable" \notin E
    BY SelfdriveEventsAreEvents DEF EventName, EVENTS
  <2> QED BY <2>3, <2>4 DEF MadsEvents, AloneEvents, When
<1>3. ASSUME ~mads_enabled PROVE Contains(M, "NO_ENTRY")
  <2>1. \E e \in {"wrongGear", "canError", "canBusMissing"} : e \in E
    BY <1>3 DEF SelfdriveEvents, CarEvents, When
  <2>2. PICK e \in {"wrongGear", "canError", "canBusMissing"} : e \in E
    BY <2>1
  <2>3. e \in AloneEvents(cs, E)
    BY <1>3, <2>2 DEF AloneEvents, SteersAlone
  <2>4. e \in M
    BY <2>2, <2>3 DEF MadsEvents, When
  <2> QED BY <2>2, <2>4, RequestFacts DEF Contains
<1> QED BY <1>1, <1>2, <1>3

ParkInv == parkFor >= 1 => ~mads_active

(* A cycle in Park leaves MADS off or paused, and off if it was paused.    *)
LEMMA ParkStep ==
  ASSUME TypeOK, SoftInv, NEW cs \in CarStates, RunningStep(cs), parkFor' >= 1
  PROVE  /\ ~mads_active'
         /\ mads_state = "paused" => ~mads_enabled'
<1> DEFINE E == SelfdriveEvents(cs)
           M == MadsEvents(cs, E)
<1>1. PICK timer, alert : MadsStateMachineUpdate(M, timer, alert, softAlert')
  BY CycleRuns
<1>2. cs.gear = "park" /\ ~enabled'
  BY CycleRuns DEF Observe
<1>3. initialized' /\ cs \in CarState
  BY ParametersTyped DEF RunningStep
<1>4. /\ mads_enabled => Contains(M, "USER_DISABLE")
      /\ mads_state = "paused" => "silentLkasDisable" \notin M
      /\ ~mads_enabled => Contains(M, "NO_ENTRY")
  BY <1>2, <1>3, ParkEvents
<1>5. mads_state \in MadsStates
  BY DEF TypeOK
<1>6. CASE mads_enabled
  <2>1. mads_state # "disabled"
    BY <1>6 DEF mads_enabled, ACTIVE_STATES
  <2>2. /\ mads_state' \in {"paused", "disabled"}
        /\ mads_state = "paused" => mads_state' = "disabled"
    BY <1>1, <1>4, <1>5, <1>6, <2>1, MadsRequests
  <2> QED BY <2>2 DEF mads_active, mads_enabled, ACTIVE_STATES
<1>7. CASE ~mads_enabled
  <2>1. mads_state = "disabled"
    BY <1>5, <1>7 DEF mads_enabled, MadsStates, ACTIVE_STATES
  <2> QED BY <1>1, <1>4, <1>5, <1>7, <2>1, MadsRequests
<1> QED BY <1>6, <1>7

(* Nothing steers from the first cycle in Park, and nothing is even paused *)
(* after the second, whatever else happens in these cycles.                *)
THEOREM ParkSwitchesOff == Spec => ParkDisengages
<1> DEFINE Parked == /\ parkFor' >= 1 => ~mads_active'
                     /\ cycle'.step /\ parkFor >= 1 /\ parkFor' = 2 /\ mads_enabled
                        => ~mads_enabled'
<1>1. Init => ParkInv
  BY DEF Init, ParkInv
<1>2. TypeOK /\ SoftInv /\ ParkInv /\ [Next]_vars => ParkInv' /\ [Parked]_vars
  <2> SUFFICES ASSUME TypeOK, SoftInv, ParkInv, [Next]_vars
               PROVE  ParkInv' /\ [Parked]_vars
    OBVIOUS
  <2>1. ASSUME NEW cs \in CarStates, InitializingStep(cs) PROVE ParkInv' /\ Parked
    BY <2>1, InitializingKeepsOff DEF ParkInv
  <2>2. ASSUME NEW cs \in CarStates, RunningStep(cs) PROVE ParkInv' /\ Parked
    <3>1. parkFor >= 1 /\ mads_enabled => mads_state = "paused"
      BY DEF ParkInv, mads_enabled, mads_active
    <3> QED BY <2>2, <3>1, ParkStep DEF ParkInv, TypeOK
  <2>3. ASSUME NEW t \in Toggles, ReadParams(t) PROVE ParkInv' /\ Parked
    BY <2>3 DEF ReadParams, Quiet, ParkInv, mads_active
  <2>4. CASE UNCHANGED vars
    BY <2>4 DEF vars, madsVars, history, ParkInv, mads_active
  <2> QED BY <2>1, <2>2, <2>3, <2>4 DEF Next, Step
<1> QED BY <1>1, <1>2, SoftInvCorrect, PTL DEF ParkDisengages, Spec
=============================================================================
