---------------------------- MODULE MCStateWatch ----------------------------
(* No symmetry: the run checks liveness too. *)
EXTENDS StateWatch
=============================================================================
