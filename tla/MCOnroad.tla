------------------------------ MODULE MCOnroad ------------------------------
(* The instance of Onroad for TLC: the bounds of the .cfg are numbers.     *)
EXTENDS Onroad
=============================================================================
