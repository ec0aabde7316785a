--------------------------- MODULE MCJobLifecycle ---------------------------
(* The job lifecycle on small instances: see the configurations. *)
EXTENDS JobRefinement, TLC

CONSTANTS j1, j2, c1, c2

\* Pods that become ready and succeed; that may lose readiness; that fail;
\* that are evicted.
PodsSucceed == {<<"Pending", "Running">>, <<"Running", "Succeeded">>}
PodsFlap    == {<<"Pending", "Running">>, <<"Running", "Pending">>}
PodsFail    == {<<"Pending", "Running">>, <<"Running", "Failed">>,
                <<"Pending", "Failed">>}
PodsVanish  == {<<"Pending", "Running">>, <<"Running", "Terminating">>}
PodsEnd     == PodsSucceed \cup PodsVanish
PodsAll     == PodsSucceed \cup PodsFlap \cup PodsFail \cup PodsVanish

Symmetry == Permutations({c1, c2})
=============================================================================
