---------------------------- MODULE MCTuiHistory ----------------------------
(* A small instance of TuiHistory for TLC.                                 *)
EXTENDS TuiHistory
=============================================================================
