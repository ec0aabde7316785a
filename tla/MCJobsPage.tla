----------------------------- MODULE MCJobsPage -----------------------------
(* The jobs page on small instances: see the configurations. *)
EXTENDS JobsPage

CONSTANTS j1, j2, j3, k1, k2
=============================================================================
