----------------------- MODULE MCRecursiveLightClient -----------------------
(***************************************************************************)
(* Sets of 1, 3 and 7 validators: log_n of 1 to 3.                         *)
(***************************************************************************)
EXTENDS RecursiveLightClient

LogNs == 1 .. 3

MCKeysetSizes == {2 ^ log_n - 1 : log_n \in LogNs}
=============================================================================
