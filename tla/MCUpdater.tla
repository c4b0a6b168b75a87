----------------------------- MODULE MCUpdater -----------------------------
(***************************************************************************)
(* Instances of Updater for TLC: two releases that need different systems. *)
(***************************************************************************)
EXTENDS Updater

CONSTANTS v1, v2, os1, os2

TwoVersions == {v1, v2}
TwoSystems == {os1, os2}
OwnSystem == [v \in TwoVersions |-> IF v = v1 THEN os1 ELSE os2]
Either == BOOLEAN
=============================================================================
