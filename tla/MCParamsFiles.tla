--------------------------- MODULE MCParamsFiles ---------------------------
(***************************************************************************)
(* Instances of ParamsFiles for TLC.                                       *)
(***************************************************************************)
EXTENDS ParamsFiles, TLC

CONSTANTS p1, p2, k1, k2

TwoProcs == {p1, p2}
TwoKeys == {k1, k2}

(* Processes are alike, and so are keys when clearAll removes them all.    *)
Symmetry == Permutations(TwoProcs) \cup Permutations(TwoKeys)
=============================================================================
