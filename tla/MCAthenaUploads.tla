-------------------------- MODULE MCAthenaUploads --------------------------
(***************************************************************************)
(* Instances of AthenaUploads for TLC: two workers, and requests that have *)
(* urls of their own.                                                      *)
(***************************************************************************)
EXTENDS AthenaUploads

CONSTANTS i1, i2, w1, w2, r1

TwoItems == {i1, i2}
OwnUrl == [i \in TwoItems |-> i]
TwoWorkers == {w1, w2}
OneRpc == {r1}
=============================================================================
