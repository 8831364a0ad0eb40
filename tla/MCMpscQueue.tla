---------------------------- MODULE MCMpscQueue ----------------------------
(* Model-checking instances of MpscQueue. *)
EXTENDS MpscQueue

============================================================================
