---------------------- MODULE OpenpilotStateMachine ----------------------
(***************************************************************************)
(* selfdrive/selfdrived/state.py: the state machine that engages and       *)
(* disengages openpilot from the event types of one 100 Hz cycle.          *)
(*                                                                         *)
(* The soft-disable timer and the list of alert types belong to this       *)
(* machine, but MADS writes both later in the same cycle.  So each         *)
(* transition below describes state' and the two values it hands on:       *)
(* timer, and alert, which says whether SOFT_DISABLE (the take-control     *)
(* alert) is among the alert types.                                        *)
(***************************************************************************)
EXTENDS Integers, SelfdriveEvents

CONSTANT SoftDisableTicks  \* int(SOFT_DISABLE_TIME / DT_CTRL), 300 cycles

ASSUME SoftDisableTicksAssumption == SoftDisableTicks \in Nat \ {0}

VARIABLES state, soft_disable_timer

States == {"disabled", "preEnabled", "enabled", "softDisabling", "overriding"}
ACTIVE_STATES == {"enabled", "softDisabling", "overriding"}
ENABLED_STATES == {"preEnabled"} \cup ACTIVE_STATES

enabled == state \in ENABLED_STATES
active == state \in ACTIVE_STATES

(* The timer runs down in every cycle, whatever the state. *)
Decremented == IF soft_disable_timer > 0 THEN soft_disable_timer - 1 ELSE 0

Overridden(E) ==
  Contains(E, "OVERRIDE_LATERAL") \/ Contains(E, "OVERRIDE_LONGITUDINAL")

(* No transition of the "always have priority" kind is due. *)
Calm(E) == ~Contains(E, "IMMEDIATE_DISABLE") /\ ~Contains(E, "USER_DISABLE")

Disable(E, timer, alert) ==
  /\ state # "disabled"
  /\ ~Calm(E)
  /\ state' = "disabled"
  /\ timer = Decremented
  /\ ~alert

(* Mutant: an override forgets to reset the timer. *)
StartSoftDisableStale(E, timer, alert) ==
  /\ state \in {"enabled", "overriding"}
  /\ Calm(E)
  /\ Contains(E, "SOFT_DISABLE")
  /\ state' = "softDisabling"
  /\ timer = IF state = "enabled" THEN SoftDisableTicks ELSE Decremented
  /\ alert

StartSoftDisable(E, timer, alert) ==
  /\ state \in {"enabled", "overriding"}
  /\ Calm(E)
  /\ Contains(E, "SOFT_DISABLE")
  /\ state' = "softDisabling"
  /\ timer = SoftDisableTicks
  /\ alert

ContinueSoftDisable(E, timer, alert) ==
  /\ state = "softDisabling"
  /\ Calm(E)
  /\ timer = Decremented
  /\ \/ /\ ~Contains(E, "SOFT_DISABLE")
        /\ state' = "enabled"
        /\ ~alert
     \/ /\ Contains(E, "SOFT_DISABLE")
        /\ timer > 0
        /\ state' = "softDisabling"
        /\ alert
     \/ /\ Contains(E, "SOFT_DISABLE")
        /\ timer <= 0
        /\ state' = "disabled"
        /\ ~alert

Drive(E, timer, alert) ==
  /\ state \in {"enabled", "overriding"}
  /\ Calm(E)
  /\ ~Contains(E, "SOFT_DISABLE")
  /\ state' = IF Overridden(E) THEN "overriding" ELSE "enabled"
  /\ timer = Decremented
  /\ ~alert

PreEnable(E, timer, alert) ==
  /\ state = "preEnabled"
  /\ Calm(E)
  /\ state' = IF Contains(E, "PRE_ENABLE") THEN "preEnabled" ELSE "enabled"
  /\ timer = Decremented
  /\ ~alert

Engage(E, timer, alert) ==
  /\ state = "disabled"
  /\ Contains(E, "ENABLE")
  /\ ~Contains(E, "NO_ENTRY")
  /\ state' = IF Contains(E, "PRE_ENABLE") THEN "preEnabled"
              ELSE IF Overridden(E) THEN "overriding" ELSE "enabled"
  /\ timer = Decremented
  /\ ~alert

RemainDisabled(E, timer, alert) ==
  /\ state = "disabled"
  /\ Contains(E, "ENABLE") => Contains(E, "NO_ENTRY")
  /\ state' = "disabled"
  /\ timer = Decremented
  /\ ~alert

StateMachineUpdate(E, timer, alert) ==
  \/ Disable(E, timer, alert)
  \/ StartSoftDisable(E, timer, alert)
  \/ ContinueSoftDisable(E, timer, alert)
  \/ Drive(E, timer, alert)
  \/ PreEnable(E, timer, alert)
  \/ Engage(E, timer, alert)
  \/ RemainDisabled(E, timer, alert)
=============================================================================
