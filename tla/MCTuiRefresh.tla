---------------------------- MODULE MCTuiRefresh ----------------------------
(* The instance of TuiRefresh that TLC checks.                             *)
EXTENDS TuiRefresh
=============================================================================
