------------------------- MODULE MCDriverMonitoring -------------------------
(***************************************************************************)
(* Instances of DriverMonitoring for TLC.  The driver who is seen takes    *)
(* three frames to the third alert, the one who is not takes four.         *)
(***************************************************************************)
EXTENDS DriverMonitoring

SmallStep == [vision |-> 2, wheeltouch |-> 1]
SmallAlert1 == [p \in Policies |-> 3]
SmallAlert2 == [p \in Policies |-> 2]
OneLockoutTime == <<1>>

AtSpeed(driver) == [driver |-> driver, interacting |-> FALSE, lowspeed |-> FALSE,
                    wrong_gear |-> FALSE, latActive |-> TRUE]

(* Who is seen, clearly or not, who is not but may touch the wheel, and    *)
(* who is in reverse, where the always-on monitoring is off.               *)
DistinctFrames ==
  {AtSpeed(d) : d \in {"attentive", "distracted", "blurred", "absent"}}
  \cup {[AtSpeed("absent") EXCEPT !.interacting = TRUE],
        [AtSpeed("distracted") EXCEPT !.wrong_gear = TRUE]}
=============================================================================
