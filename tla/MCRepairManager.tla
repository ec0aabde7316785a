--------------------------- MODULE MCRepairManager ---------------------------
(* The repair manager on small instances: see the configurations. *)
EXTENDS RepairManager

CONSTANTS n1, n2, j1, j2
=============================================================================
