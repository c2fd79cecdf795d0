------------------------------- MODULE MCStop -------------------------------
(* One position bought at 2 with its stop at 1, prices 0 to 5. *)
EXTENDS StopManagement
=============================================================================
