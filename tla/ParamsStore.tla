---------------------------- MODULE ParamsStore ----------------------------
(***************************************************************************)
(* What the params store promises its users: a register per key, changed   *)
(* one key at a time and always to a complete value, and a durable copy of *)
(* each register that a power loss falls back to.                          *)
(***************************************************************************)
CONSTANTS Keys, Values, Absent   \* Absent: the key has no value

VARIABLES
  value,    \* what a reader of the key gets
  durable   \* what a reader gets after a power loss

storeVars == <<value, durable>>

Init == value = [k \in Keys |-> Absent] /\ durable = value

(* Put and remove. *)
Write(k) == /\ \E v \in Values \cup {Absent} : value' = [value EXCEPT ![k] = v]
            /\ UNCHANGED durable

(* The operating system may make a value durable at any time; an fsync of  *)
(* the directory makes all of them so.                                     *)
Persist(k) == durable' = [durable EXCEPT ![k] = value[k]] /\ UNCHANGED value
PersistAll == durable' = value /\ UNCHANGED value

PowerLoss == value' = durable /\ UNCHANGED durable

Next == \/ \E k \in Keys : Write(k) \/ Persist(k)
        \/ PersistAll
        \/ PowerLoss

Spec == Init /\ [][Next]_storeVars
=============================================================================
