------------------------------ MODULE MCClose ------------------------------
(* Two threads close the positions of one epic. *)
EXTENDS ClosePosition
=============================================================================
