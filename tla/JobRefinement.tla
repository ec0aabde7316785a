---------------------------- MODULE JobRefinement ----------------------------
(* JobLifecycle seen from outside, and what it implements. *)
EXTENDS JobLifecycle

\* The table shows the status, the history the grants, and a job holds pods
\* while one of them exists, in whatever phase.
Granted == [j \in Jobs |-> asked[j] \ {"killRunning"}]
Holding == {j \in Jobs : Existing(j) # {}}

Contract == INSTANCE JobContract WITH granted <- Granted, holding <- Holding

\* Over stale snapshots, racing requests, failed calls and dying processes,
\* every step of the managers, launchers and clients is a step of the contract
\* or invisible to it.
ImplementsContract == Contract!Spec
=============================================================================
