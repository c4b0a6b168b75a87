--------------------------- MODULE MCSelfdrived ---------------------------
(* Inputs for model checking Selfdrived: each set varies the part of the   *)
(* car state that one family of properties is about.                       *)
EXTENDS Selfdrived

Driving == [gear |-> "drive", speed |-> "moving", brake |-> FALSE, gas |-> FALSE,
            available |-> TRUE, cruise |-> FALSE, buttonEnable |-> FALSE,
            button |-> "none", signals |-> {}, system |-> {},
            canValid |-> TRUE, canTimeout |-> FALSE, ready |-> TRUE, controlsAllowed |-> TRUE,
            controlsAllowedLateral |-> TRUE]

(* Starting up, before and when the services become valid. *)
Starting == {[Driving EXCEPT !.ready = FALSE, !.available = FALSE],
             [Driving EXCEPT !.available = FALSE]}

Buttons == {"none", "lkas", "cancel"}

(* Faults of the car, of the system and of the CAN bus and disagreement    *)
(* with the panda while the driver engages, brakes, overrides and cancels. *)
FaultStates ==
  {[Driving EXCEPT !.speed = v, !.brake = b, !.buttonEnable = e, !.button = k,
                   !.signals = s, !.system = m] :
     v \in {"standstill", "moving"}, b \in BOOLEAN, e \in BOOLEAN, k \in Buttons,
     s \in {{}, {"espActive"}, {"steerOverride"}, {"steerUnavailable"},
            {"steerOverride", "doorOpen"}, {"belowEngageSpeed", "speedTooLow"}},
     m \in {{}, {"overheat"}, {"outOfSpace"}}}

PandaStates ==
  {[Driving EXCEPT !.buttonEnable = e, !.button = k, !.controlsAllowed = l,
                   !.controlsAllowedLateral = r, !.canValid = c, !.signals = s] :
     e \in BOOLEAN, k \in {"none", "lkas"}, l \in BOOLEAN, r \in BOOLEAN,
     c \in BOOLEAN, s \in {{}, {"brakeHold"}}}

(* Gear, doors and brakes at low speed. *)
ParkStates ==
  {[Driving EXCEPT !.gear = g, !.speed = v, !.buttonEnable = e, !.button = k,
                   !.signals = s, !.canValid = c, !.canTimeout = ~c] :
     g \in {"drive", "park", "reverse"}, v \in {"standstill", "slow"},
     e \in BOOLEAN, k \in {"none", "lkas"}, c \in BOOLEAN,
     s \in {{}, {"parkBrake"}, {"brakeHold"}, {"doorOpen"}}}

EngagementStates == Starting \cup FaultStates \cup PandaStates \cup ParkStates

(* Few inputs, for the liveness run: one fault, and a driver who keeps      *)
(* engaging, braking and steering.                                         *)
StuckStates ==
  Starting \cup
  {[Driving EXCEPT !.speed = "standstill", !.brake = b, !.buttonEnable = b,
                   !.button = k, !.signals = s, !.system = m] :
     b \in BOOLEAN, k \in {"none", "lkas"}, s \in {{}, {"steerOverride"}},
     m \in {{}, {"overheat"}}}

(* The pedals, main cruise and the car's own cruise control. *)
PedalStates ==
  Starting \cup
  {[Driving EXCEPT !.speed = v, !.brake = b, !.gas = a, !.available = m,
                   !.cruise = c, !.button = k, !.signals = s] :
     v \in {"standstill", "moving"}, b \in BOOLEAN, a \in BOOLEAN,
     m \in BOOLEAN, c \in BOOLEAN, k \in Buttons, s \in {{}, {"steerOverride"}}}

AllToggles == Toggle
FixedToggles == {[main |-> FALSE, unified |-> FALSE, accelerator |-> TRUE]}
PedalToggles == {t \in Toggle : t.main}
UnifiedToggles == {[main |-> TRUE, unified |-> u, accelerator |-> FALSE] : u \in BOOLEAN}
=============================================================================
