----------------------------- MODULE JobContract -----------------------------
(***************************************************************************)
(* What the cluster manager promises about a job, without its processes,   *)
(* snapshots, tasks and failures: the status a user sees moves to killed,  *)
(* paused or past the approval only on a grant, a request reaches all its  *)
(* jobs at once, no manager writes a status that only a request may set,   *)
(* pods are held only for approved jobs, and the table and Kubernetes are  *)
(* never changed together. JobRefinement shows that JobLifecycle           *)
(* implements it.                                                          *)
(***************************************************************************)
EXTENDS Naturals

CONSTANT Jobs

VARIABLES
  status,   \* what the API shows of each job
  granted,  \* the requests granted for each job, and its approval
  holding   \* the jobs that hold pods

vars == <<status, granted, holding>>

Requests == {"approve", "pause", "kill", "resume"}
Grants   == Requests \ {"resume"}

\* The statuses that requests set, and those that managers may report.
Requested == {"unapproved", "pausing", "killing"}
Reported  == {"queued", "scheduling", "running", "paused", "killed",
              "finished", "failed", "error"}

Sets(r) ==
  CASE r = "approve" -> "queued"
    [] r = "pause"   -> "pausing"
    [] r = "kill"    -> "killing"
    [] r = "resume"  -> "unapproved"

\* The grant a status rests on.
RestsOn(s) ==
  {g \in Grants :
     \/ g = "kill"    /\ s \in {"killing", "killed"}
     \/ g = "pause"   /\ s \in {"pausing", "paused"}
     \/ g = "approve" /\ s \in {"queued", "scheduling", "running", "finished",
                               "failed"}}

Init ==
  /\ status = [j \in Jobs |-> "unapproved"]
  /\ granted = [j \in Jobs |-> {}]
  /\ holding = {}

\* A granted request moves all of its jobs in one step, whatever became of
\* them since it was granted.
Grant(J, r) ==
  /\ status' = [j \in Jobs |-> IF j \in J THEN Sets(r) ELSE status[j]]
  /\ granted' = [j \in Jobs |-> IF j \in J THEN granted[j] \cup ({r} \cap Grants)
                                           ELSE granted[j]]
  /\ UNCHANGED holding

\* The managers report a status of one job, one that its grants cover.
Report(j, s) ==
  /\ RestsOn(s) \subseteq granted[j]
  /\ status' = [status EXCEPT ![j] = s]
  /\ UNCHANGED <<granted, holding>>

Acquire(j) ==
  /\ "approve" \in granted[j]
  /\ holding' = holding \cup {j}
  /\ UNCHANGED <<status, granted>>

Release(j) ==
  /\ holding' = holding \ {j}
  /\ UNCHANGED <<status, granted>>

Next ==
  \/ \E J \in SUBSET Jobs, r \in Requests : Grant(J, r)
  \/ \E j \in Jobs, s \in Reported : Report(j, s)
  \/ \E j \in Jobs : Acquire(j) \/ Release(j)

Spec == Init /\ [][Next]_vars

-----------------------------------------------------------------------------

TypeOK ==
  /\ status \in [Jobs -> Requested \cup Reported]
  /\ granted \in [Jobs -> SUBSET Grants]
  /\ holding \subseteq Jobs

\* What a user can count on: the status shown and the pods held are covered
\* by what was granted.
Covered ==
  /\ \A j \in Jobs : RestsOn(status[j]) \subseteq granted[j]
  /\ \A j \in holding : "approve" \in granted[j]
=============================================================================
