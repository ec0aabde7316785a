-------------------------- MODULE MCEndpointManager --------------------------
(* The endpoints of a job on small instances: see the configurations. *)
EXTENDS EndpointManager

CONSTANTS ssh, jupyter, n1, n2, c1, w1, s1, manager
=============================================================================
