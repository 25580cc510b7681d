------------------------------ MODULE MCHealth ------------------------------
(* No symmetry: channels are numbered in the order they are opened. *)
EXTENDS HealthMonitor
=============================================================================
