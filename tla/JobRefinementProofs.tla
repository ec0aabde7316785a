------------------------ MODULE JobRefinementProofs ------------------------
(* JobLifecycle implements JobContract, for any jobs, roles and bounds. *)
EXTENDS JobRefinement, JobLifecycleProofs

\* The two modules mean the same by the grant a status rests on.
LEMMA SameNeeds ==
  ASSUME NEW s
  PROVE  Contract!RestsOn(s) = Needs(s)
BY DEF Contract!RestsOn, Contract!Grants, Contract!Requests, Needs, Grants

\* A request does to the table what its client asked for.
LEMMA SameTo ==
  ASSUME NEW op \in Ops
  PROVE  op \in Contract!Requests /\ Contract!Sets(op) = To(op)
BY DEF Contract!Requests, Contract!Sets, To, Ops

\* A change of the pods of one job at most makes it acquire or release pods;
\* it may acquire some only when it is approved.
LEMMA PodsStep ==
  ASSUME TypeOK, UNCHANGED <<status, asked>>, NEW j \in Jobs,
         \A i \in Jobs \ {j} : pods'[i] = pods[i],
         Existing(j)' # {} => Existing(j) # {} \/ "approve" \in asked[j]
  PROVE  [Contract!Next]_Contract!vars
<1>1. Granted' = Granted /\ status' = status
  BY DEF Granted
<1>2. \A i \in Jobs \ {j} : Existing(i)' = Existing(i)
  BY DEF Existing
<1>3. CASE Existing(j)' = {}
  <2>1. Holding' = Holding \ {j}
    BY <1>2, <1>3 DEF Holding
  <2>2. QED
    BY <1>1, <2>1 DEF Contract!Release, Contract!Next
<1>4. CASE Existing(j)' # {} /\ Existing(j) # {}
  <2>1. Holding' = Holding
    BY <1>2, <1>4 DEF Holding
  <2>2. QED
    BY <1>1, <2>1 DEF Contract!vars
<1>5. CASE Existing(j)' # {} /\ "approve" \in asked[j]
  <2>1. Holding' = Holding \cup {j}
    BY <1>2, <1>5 DEF Holding
  <2>2. "approve" \in Granted[j]
    BY <1>5 DEF Granted
  <2>3. QED
    BY <1>1, <2>1, <2>2 DEF Contract!Acquire, Contract!Next
<1>6. QED
  BY <1>3, <1>4, <1>5

\* Nothing of the contract changes.
LEMMA Invisible ==
  ASSUME UNCHANGED <<status, asked, pods>>
  PROVE  [Contract!Next]_Contract!vars
<1>1. Granted' = Granted /\ Holding' = Holding
  BY DEF Granted, Holding, Existing
<1>2. QED
  BY <1>1 DEF Contract!vars

\* Only the status of one job changes, to one its grants cover.
LEMMA ReportStep ==
  ASSUME UNCHANGED <<asked, pods>>, NEW j \in Jobs,
         NEW s \in Contract!Reported,
         Needs(s) \subseteq asked[j],
         status' = [status EXCEPT ![j] = s]
  PROVE  [Contract!Next]_Contract!vars
<1>1. Granted' = Granted /\ Holding' = Holding
  BY DEF Granted, Holding, Existing
<1>2. Needs(s) \subseteq Granted[j]
  BY DEF Granted, Needs
<1>3. Contract!Report(j, s)
  BY <1>1, <1>2, SameNeeds DEF Contract!Report
<1>4. QED
  BY <1>3 DEF Contract!Next

\* Only the pods of one job are deleted.
LEMMA DeleteStep ==
  ASSUME TypeOK, UNCHANGED <<status, asked>>, NEW j \in Jobs, DeletePods(j)
  PROVE  [Contract!Next]_Contract!vars
<1>1. \A i \in Jobs \ {j} : pods'[i] = pods[i]
  BY DEF DeletePods, TypeOK
<1>2. Existing(j)' \subseteq Existing(j)
  BY DEF DeletePods, Existing, Deleted, TypeOK
<1>3. QED
  BY <1>1, <1>2, PodsStep

\* Clients: a read is invisible, a write grants the request to all its jobs.
LEMMA ClientImplements ==
  ASSUME TypeOK, NEW c \in Clients, ClientStep(c)
  PROVE  [Contract!Next]_Contract!vars
<1>1. CASE \E op \in Ops, J \in SUBSET Jobs : OpRead(c, op, J)
  BY <1>1, Invisible DEF OpRead, table
<1>2. CASE OpWrite(c)
  <2> DEFINE J  == req[c].jobs
             op == req[c].op
  <2>1. J \in SUBSET Jobs /\ op \in Ops
    BY <1>2 DEF OpWrite, TypeOK, Request
  <2>2. status' = [j \in Jobs |-> IF j \in J THEN Contract!Sets(op)
                                             ELSE status[j]]
    BY <1>2, <2>1, SameTo DEF OpWrite
  <2>3. Holding' = Holding
    BY <1>2 DEF OpWrite, Holding, Existing
  <2>4. ASSUME NEW j \in Jobs
        PROVE  asked'[j] \ {"killRunning"} =
                 IF j \in J
                 THEN (asked[j] \ {"killRunning"}) \cup ({op} \cap Contract!Grants)
                 ELSE asked[j] \ {"killRunning"}
    BY <1>2, <2>1 DEF OpWrite, Grants, Contract!Grants, Contract!Requests, Ops
  <2>5. Granted' = [j \in Jobs |-> IF j \in J
                      THEN Granted[j] \cup ({op} \cap Contract!Grants)
                      ELSE Granted[j]]
    BY <2>4 DEF Granted
  <2>6. Contract!Grant(J, op)
    BY <2>2, <2>3, <2>5 DEF Contract!Grant
  <2>7. QED
    BY <2>1, <2>6, SameTo DEF Contract!Next
<1>3. QED
  BY <1>1, <1>2 DEF ClientStep

\* ApproveJob grants the approval; the rest of a pass over requests is
\* invisible.
LEMMA RequestImplements ==
  ASSUME TypeOK, NEW j \in Jobs, RequestStep(j)
  PROVE  [Contract!Next]_Contract!vars
<1>1. CASE Approve(j)
  <2>1. Holding' = Holding
    BY <1>1 DEF Approve, Holding, Existing
  <2>2. status' = [i \in Jobs |-> IF i \in {j} THEN Contract!Sets("approve")
                                              ELSE status[i]]
    BY <1>1 DEF Approve, Contract!Sets, TypeOK
  <2>3. Granted' = [i \in Jobs |-> IF i \in {j}
                      THEN Granted[i] \cup ({"approve"} \cap Contract!Grants)
                      ELSE Granted[i]]
    BY <1>1 DEF Approve, Granted, Contract!Grants, Contract!Requests, TypeOK
  <2>4. Contract!Grant({j}, "approve")
    BY <2>1, <2>2, <2>3 DEF Contract!Grant
  <2>5. QED
    BY <2>4, SameTo DEF Contract!Next, Ops
<1>2. CASE DispatchKill(j) \/ LeaveUnapproved(j)
  BY <1>2, Invisible DEF DispatchKill, LeaveUnapproved, table
<1>3. QED
  BY <1>1, <1>2 DEF RequestStep

\* UpdateJobStatus reports what it saw of an approved job.
LEMMA WatchImplements ==
  ASSUME TypeOK, Provenance, NEW m \in Watchers, WatchStep(m) \/ WatchFault(m)
  PROVE  [Contract!Next]_Contract!vars
<1> USE DEF Watchers, Managers
<1>1. ASSUME cur[m] # None
      PROVE  cur[m].job \in Jobs /\ "approve" \in asked[cur[m].job]
  BY <1>1 DEF TypeOK, Watch, Provenance, WatchesGranted
<1>2. Needs("finished") = {"approve"} /\ Needs("failed") = {"approve"} /\
      Needs("running") = {"approve"} /\ Needs("scheduling") = {"approve"}
  BY DEF Needs, Grants
<1>3. {"finished", "failed", "running", "scheduling"} \subseteq Contract!Reported
  BY DEF Contract!Reported
<1>4. CASE ReportEnd(m)
  <2> DEFINE s == IF cur[m].seen = "Succeeded" THEN "finished" ELSE "failed"
  <2>1. status' = [status EXCEPT ![cur[m].job] = s]
    BY <1>4 DEF ReportEnd
  <2>2. cur[m] # None /\ UNCHANGED <<asked, pods>>
    BY <1>4 DEF ReportEnd, Reporting
  <2>3. s \in Contract!Reported /\ Needs(s) \subseteq asked[cur[m].job]
    BY <1>1, <1>2, <1>3, <2>2
  <2>4. QED
    BY <1>1, <2>1, <2>2, <2>3, ReportStep
<1>5. CASE ReportRunning(m)
  <2>1. CASE cur[m].snap = "running"
    BY <1>5, <2>1, Invisible DEF ReportRunning
  <2>2. CASE cur[m].snap # "running"
    BY <1>1, <1>2, <1>3, <1>5, <2>2, ReportStep DEF ReportRunning, Reporting
  <2>3. QED
    BY <2>1, <2>2
<1>6. CASE ReportPending(m)
  BY <1>1, <1>2, <1>3, <1>6, ReportStep DEF ReportPending, Reporting
<1>7. CASE Cleanup(m)
  BY <1>1, <1>7, DeleteStep DEF Cleanup, table
<1>8. CASE \/ \E j \in Jobs : Observe(m, j)
           \/ LeaveForDebug(m) \/ ReportUnusual(m) \/ Resubmit(m)
           \/ CleanupFails(m) \/ AbortPass(m)
  BY <1>8, Invisible DEF Observe, LeaveForDebug, ReportUnusual, Resubmit,
                         CleanupFails, AbortPass, table
<1>9. QED
  BY <1>4, <1>5, <1>6, <1>7, <1>8 DEF WatchStep, WatchFault

\* A worker creates pods only for an approved job, deletes those of its job
\* or reports the status its task was made for.
LEMMA TaskImplements ==
  ASSUME TypeOK, Provenance, NEW t \in tasks,
         SubmitStep(t) \/ KillStep(t) \/ TaskFault(t)
  PROVE  [Contract!Next]_Contract!vars
<1>1. t.job \in Jobs /\ t \in Task
  BY TaskFields
<1>2. Needs(t.to) \subseteq asked[t.job]
  BY DEF Provenance, TasksGranted
<1>3. CASE SubmitWaits(t) \/ KillDeletes(t)
  BY <1>1, <1>3, DeleteStep DEF SubmitWaits, KillDeletes, table
<1>4. CASE SweepPods(t) \/ KillErrs(t) \/ KillRaises(t)
  BY <1>1, <1>4, DeleteStep, Invisible DEF SweepPods, KillErrs, KillRaises, table
<1>5. CASE SubmitCleans(t)
  <2>1. \A i \in Jobs \ {t.job} : pods'[i] = pods[i]
    BY <1>1, <1>5 DEF SubmitCleans, TypeOK
  <2>2. Existing(t.job)' \subseteq Existing(t.job)
    BY <1>1, <1>5 DEF SubmitCleans, Existing, Deleted, TypeOK
  <2>3. QED
    BY <1>1, <1>5, <2>1, <2>2, PodsStep DEF SubmitCleans, table
<1>6. ASSUME NEW r \in Roles, CreatePod(t, r)
      PROVE  [Contract!Next]_Contract!vars
  <2>1. \A i \in Jobs \ {t.job} : pods'[i] = pods[i]
    BY <1>1, <1>6 DEF CreatePod, TypeOK
  <2>2. t.to = "scheduling"
    BY <1>6, <1>1 DEF CreatePod, Task, SubmitTask, KillTask
  <2>3. "approve" \in asked[t.job]
    BY <1>2, <2>2 DEF Needs, Grants
  <2>4. QED
    BY <1>1, <1>6, <2>1, <2>3, PodsStep DEF CreatePod, table
<1>7. CASE WriteScheduling(t)
  <2>1. t.to = "scheduling"
    BY <1>7, <1>1 DEF WriteScheduling, Task, SubmitTask, KillTask
  <2>2. "scheduling" \in Contract!Reported
    BY DEF Contract!Reported
  <2>3. QED
    BY <1>1, <1>2, <1>7, <2>1, <2>2, ReportStep DEF WriteScheduling
<1>8. Needs("error") = {} /\ "error" \in Contract!Reported
  BY DEF Needs, Contract!Reported
<1>9. CASE WriteError(t)
  BY <1>1, <1>8, <1>9, ReportStep, Invisible DEF WriteError
<1>10. CASE KillReports(t)
  <2> DEFINE s == IF t.pc = "report" THEN t.to ELSE "error"
  <2>1. t.pc = "report" => t.to \in Contract!Reported
    BY <1>1 DEF Task, SubmitTask, KillTask, Contract!Reported
  <2>2. s \in Contract!Reported /\ Needs(s) \subseteq asked[t.job]
    BY <1>2, <1>8, <2>1
  <2>3. status' = [status EXCEPT ![t.job] = s]
    BY <1>10 DEF KillReports
  <2>4. UNCHANGED <<asked, pods>>
    BY <1>10 DEF KillReports
  <2>5. QED
    BY <1>1, <2>2, <2>3, <2>4, ReportStep
<1>11. CASE \/ SubmitRejected(t) \/ SubmitBegins(t) \/ CountRetry(t)
            \/ \E r \in Roles : CreateRefused(t, r)
            \/ CreateFails(t) \/ WorkerDies(t)
  BY <1>11, Invisible DEF SubmitRejected, SubmitBegins, CountRetry,
                          CreateRefused, CreateFails, WorkerDies, table
<1>12. QED
  BY <1>3, <1>4, <1>5, <1>6, <1>7, <1>9, <1>10, <1>11
     DEF SubmitStep, KillStep, TaskFault

\* Pods that change by themselves never appear from nothing.
LEMMA PodImplements ==
  ASSUME TypeOK, NEW j \in Jobs, NEW r \in Roles, PodChanges(j, r) \/ PodGone(j, r)
  PROVE  [Contract!Next]_Contract!vars
<1>1. \A i \in Jobs \ {j} : pods'[i] = pods[i]
  BY DEF PodChanges, PodGone, TypeOK
<1>2. Existing(j)' \subseteq Existing(j)
  BY JobsAssumption DEF PodChanges, PodGone, Existing, TypeOK
<1>3. QED
  BY <1>1, <1>2, PodsStep DEF PodChanges, PodGone, table

\* The initial state of the lifecycle is one of the contract.
LEMMA InitImplements == Init => Contract!Init
BY DEF Init, Contract!Init, Granted, Holding, Existing

\* Every step of the lifecycle is one of the contract, or invisible to it.
LEMMA NextImplements ==
  TypeOK /\ Provenance /\ [Next]_vars => [Contract!Next]_Contract!vars
<1> SUFFICES ASSUME TypeOK, Provenance, [Next]_vars
             PROVE  [Contract!Next]_Contract!vars
  OBVIOUS
<1>1. CASE UNCHANGED vars
  BY <1>1, Invisible DEF vars
<1>2. CASE Next
  <2>1. CASE \E m \in Managers : Fetch(m) \/ ManagerDies(m) \/ Supervise(m)
    BY <2>1, Invisible DEF Fetch, ManagerDies, Supervise, table
  <2>2. CASE \E allowed \in SUBSET Jobs : Schedule(allowed)
    BY <2>2, Invisible DEF Schedule, table
  <2>3. QED
    BY <1>2, <2>1, <2>2, ClientImplements, RequestImplements, WatchImplements,
       TaskImplements, PodImplements DEF Next
<1>3. QED
  BY <1>1, <1>2

\* The managers, launchers and clients together keep the contract, for any
\* number of jobs, pods, requests, failed calls and deaths.
THEOREM LifecycleImplements == Spec => ImplementsContract
BY TypeCorrect, ProvenanceHolds, InitImplements, NextImplements, PTL
   DEF Spec, ImplementsContract, Contract!Spec

\* What the contract is worth: what it shows and holds is covered by grants,
\* which follows from its own steps alone.
THEOREM ContractCovered == Contract!Spec => [](Contract!TypeOK /\ Contract!Covered)
<1> USE DEF Contract!TypeOK, Contract!Covered, Contract!RestsOn,
            Contract!Requested, Contract!Reported, Contract!Grants,
            Contract!Requests
<1>1. Contract!Init => Contract!TypeOK /\ Contract!Covered
  BY DEF Contract!Init
<1>2. ASSUME Contract!TypeOK, Contract!Covered, [Contract!Next]_Contract!vars
      PROVE  (Contract!TypeOK /\ Contract!Covered)'
  <2>1. CASE UNCHANGED Contract!vars
    BY <1>2, <2>1 DEF Contract!vars
  <2>2. ASSUME NEW J \in SUBSET Jobs, NEW r \in Contract!Requests,
               Contract!Grant(J, r)
        PROVE  (Contract!TypeOK /\ Contract!Covered)'
    BY <1>2, <2>2 DEF Contract!Grant, Contract!Sets
  <2>3. ASSUME NEW j \in Jobs, NEW s \in Contract!Reported, Contract!Report(j, s)
        PROVE  (Contract!TypeOK /\ Contract!Covered)'
    BY <1>2, <2>3 DEF Contract!Report
  <2>4. ASSUME NEW j \in Jobs, Contract!Acquire(j) \/ Contract!Release(j)
        PROVE  (Contract!TypeOK /\ Contract!Covered)'
    BY <1>2, <2>4 DEF Contract!Acquire, Contract!Release
  <2>5. QED
    BY <1>2, <2>1, <2>2, <2>3, <2>4 DEF Contract!Next
<1>3. QED
  BY <1>1, <1>2, PTL DEF Contract!Spec
=============================================================================
