------------------------- MODULE JobLifecycleProofs -------------------------
(* Theorems about JobLifecycle, for any jobs, roles, clients and bounds.    *)
EXTENDS JobLifecycle, TLAPS

\* What a task is made of when it enters the queue.
LEMMA NewTaskType ==
  ASSUME TypeOK, NEW m \in Managers, NEW j \in Jobs
  PROVE  /\ NewTask(m, j, "submit", "scheduling") \in Task
         /\ \A to \in {"killed", "paused", "queued"} :
              NewTask(m, j, "kill", to) \in Task
BY DEF NewTask, Task, SubmitTask, KillTask, TypeOK

\* The phases a deletion leaves.
LEMMA DeletedType ==
  ASSUME NEW phase \in PodPhases
  PROVE  Deleted(phase) \in PodPhases
BY DEF Deleted, PodPhases

\* Deleting the pods of a job leaves phases.
LEMMA DeletePodsType ==
  ASSUME TypeOK, NEW j \in Jobs, DeletePods(j)
  PROVE  pods' \in [Jobs -> [Roles -> PodPhases]]
BY DeletedType DEF DeletePods, TypeOK

\* A worker replaces its task by one of the same kind.
LEMMA GoToType ==
  ASSUME TypeOK, NEW t \in tasks, NEW pc, GoTo(t, pc),
         [t EXCEPT !.pc = pc] \in Task
  PROVE  tasks' \subseteq Task
BY DEF GoTo, Become, TypeOK

\* The places a submission can go to, and those it can be at.
LEMMA SubmitGoes ==
  ASSUME TypeOK, NEW t \in tasks, NEW pc,
         t.fn = "submit" \/ t.pc \in {"clean", "create", "write", "retry", "fail",
                                    "sweep"}
  PROVE  /\ t.fn = "submit"
         /\ pc \in {"clean", "create", "write", "retry", "fail", "sweep", "lost"} =>
              [t EXCEPT !.pc = pc] \in Task
BY DEF TypeOK, Task, SubmitTask, KillTask

\* The places a kill can go to.
LEMMA KillGoes ==
  ASSUME TypeOK, NEW t \in tasks, NEW pc \in {"report", "reportError", "lost"},
         t.fn = "kill" \/ pc = "lost"
  PROVE  [t EXCEPT !.pc = pc] \in Task
BY DEF TypeOK, Task, SubmitTask, KillTask

\* What is common to all tasks.
LEMMA TaskFields ==
  ASSUME TypeOK, NEW t \in tasks
  PROVE  /\ t \in Task /\ t.job \in Jobs /\ t.left \in SUBSET Roles
         /\ t.to \in Statuses
         /\ \A pc : LET u == [t EXCEPT !.pc = pc]
                   IN  u.to = t.to /\ u.fn = t.fn /\ u.job = t.job
BY DEF TypeOK, Task, SubmitTask, KillTask, Statuses

\* get_job_status answers with one of the observations.
LEMMA JobStatusType ==
  ASSUME TypeOK, NEW j \in Jobs
  PROVE  JobStatus(j) \subseteq Observations
BY DEF JobStatus, Observations

\* The types are kept by reading and writing a request of a client, by the
\* loops of the managers and by what kills and revives them.
LEMMA ClientType ==
  ASSUME TypeOK, NEW c \in Clients, ClientStep(c)
  PROVE  TypeOK'
<1>1. CASE OpWrite(c)
  <2>1. req[c] \in Request
    BY <1>1 DEF OpWrite, TypeOK
  <2>2. To(req[c].op) \in Statuses
    BY <2>1 DEF To, Request, Ops, Statuses
  <2>3. status' \in [Jobs -> Statuses]
    BY <1>1, <2>2 DEF OpWrite, TypeOK
  <2>4. asked' \in [Jobs -> SUBSET Grants]
    BY <1>1 DEF OpWrite, TypeOK, Grants
  <2>5. QED
    BY <1>1, <2>3, <2>4 DEF OpWrite, TypeOK, manager, budget
<1>2. ASSUME NEW op \in Ops, NEW J \in SUBSET Jobs, OpRead(c, op, J)
      PROVE  TypeOK'
  <2>1. [op |-> op, jobs |-> {j \in J : status[j] \in From(op)}] \in Request
    BY DEF Request
  <2>2. req' \in [Clients -> Request \cup {None}]
    BY <1>2, <2>1 DEF OpRead, TypeOK
  <2>3. QED
    BY <1>2, <2>2 DEF OpRead, TypeOK, table, manager
<1>3. QED
  BY <1>1, <1>2 DEF ClientStep

\* The types are kept by the steps around a pass.
LEMMA LoopType ==
  ASSUME TypeOK, NEW m \in Managers, Fetch(m) \/ ManagerDies(m) \/ Supervise(m)
  PROVE  TypeOK'
<1>1. CASE Fetch(m)
  <2>1. batch' \in [Managers -> [Jobs -> Statuses \cup {None}]]
    BY <1>1 DEF Fetch, TypeOK
  <2>2. \A n \in Managers, j \in Jobs : batch'[n][j] \in Target(n) \cup {None}
    BY <1>1 DEF Fetch, TypeOK
  <2>3. QED
    BY <1>1, <2>1, <2>2 DEF Fetch, TypeOK, table, budget
<1>2. ASSUME Restart(m)
      PROVE  /\ batch' \in [Managers -> [Jobs -> Statuses \cup {None}]]
             /\ \A n \in Managers, j \in Jobs :
                  batch'[n][j] \in Target(n) \cup {None}
             /\ cur' \in [Managers -> Watch \cup {None}]
             /\ unusual' \in [Managers -> SUBSET Jobs]
             /\ gen' \in [Managers -> Nat]
             /\ tasks' \subseteq Task
  BY <1>2 DEF Restart, NoBatch, TypeOK
<1>3. CASE ManagerDies(m) \/ Supervise(m)
  BY <1>2, <1>3 DEF ManagerDies, Supervise, TypeOK, table, budget
<1>4. QED
  BY <1>1, <1>3

\* Taking a job from a snapshot leaves a snapshot.
LEMMA TakeType ==
  ASSUME TypeOK, NEW m \in Managers, NEW j \in Jobs, Take(m, j)
  PROVE  /\ batch' \in [Managers -> [Jobs -> Statuses \cup {None}]]
         /\ \A n \in Managers, i \in Jobs : batch'[n][i] \in Target(n) \cup {None}
BY DEF Take, TypeOK

\* The types are kept by the manager of requests.
LEMMA RequestType ==
  ASSUME TypeOK, NEW j \in Jobs, RequestStep(j)
  PROVE  TypeOK'
<1> USE TakeType DEF Managers
<1>1. CASE DispatchKill(j)
  <2>1. tasks' \subseteq Task
    BY <1>1, NewTaskType DEF DispatchKill, TypeOK
  <2>2. QED
    BY <1>1, <2>1 DEF DispatchKill, TypeOK, table, budget
<1>2. CASE Approve(j)
  BY <1>2 DEF Approve, TypeOK, budget, Statuses, Grants
<1>3. CASE LeaveUnapproved(j)
  BY <1>3 DEF LeaveUnapproved, TypeOK, table
<1>4. QED
  BY <1>1, <1>2, <1>3 DEF RequestStep

\* The types are kept by a pass of the scheduler.
LEMMA ScheduleType ==
  ASSUME TypeOK, NEW allowed \in SUBSET Jobs, Schedule(allowed)
  PROVE  TypeOK'
<1>1. tasks' \subseteq Task
  <2>1. \A j \in Jobs : /\ NewTask("queued", j, "submit", "scheduling") \in Task
                        /\ NewTask("queued", j, "kill", "queued") \in Task
    BY NewTaskType DEF Managers
  <2>2. Preemptible \subseteq Jobs
    BY JobsAssumption
  <2>3. tasks \subseteq Task
    BY DEF TypeOK
  <2>4. QED
    BY <2>1, <2>2, <2>3 DEF Schedule
<1>2. /\ batch' \in [Managers -> [Jobs -> Statuses \cup {None}]]
      /\ \A n \in Managers, i \in Jobs : batch'[n][i] \in Target(n) \cup {None}
  BY DEF Schedule, NoBatch, TypeOK
<1>3. QED
  BY <1>1, <1>2 DEF Schedule, TypeOK, table, budget

\* The types are kept by UpdateJobStatus, its faults included.
LEMMA WatchType ==
  ASSUME TypeOK, NEW m \in Watchers, WatchStep(m) \/ WatchFault(m)
  PROVE  TypeOK'
<1>0. m \in Managers
  BY DEF Watchers, Managers
<1>1. ASSUME NEW j \in Jobs, Observe(m, j)
      PROVE  TypeOK'
  <2>1. batch[m][j] \in {"running", "scheduling"}
    BY <1>1, <1>0 DEF Observe, TypeOK, Target, Watchers
  <2>2. PICK seen \in JobStatus(j) :
          cur' = [cur EXCEPT ![m] = [job |-> j, snap |-> batch[m][j],
                                     seen |-> seen, step |-> "report"]]
    BY <1>1 DEF Observe
  <2>3. [job |-> j, snap |-> batch[m][j], seen |-> seen, step |-> "report"]
          \in Watch
    BY <2>1, JobStatusType DEF Watch
  <2>4. cur' \in [Managers -> Watch \cup {None}]
    BY <2>2, <2>3 DEF TypeOK
  <2>5. QED
    BY <1>0, <1>1, <2>4, TakeType DEF Observe, TypeOK, table, budget
<1>2. cur[m] # None => cur[m] \in Watch
  BY <1>0 DEF TypeOK
<1>3. ASSUME EndWatch(m)
      PROVE  /\ cur' \in [Managers -> Watch \cup {None}]
             /\ unusual' \in [Managers -> SUBSET Jobs]
  BY <1>0, <1>3 DEF EndWatch, TypeOK
<1>4. CASE ReportEnd(m)
  <2>1. cur[m] \in Watch
    BY <1>2, <1>4 DEF ReportEnd, Reporting
  <2>2. [cur[m] EXCEPT !.step = "cleanup"] \in Watch
    BY <2>1 DEF Watch
  <2>3. cur' \in [Managers -> Watch \cup {None}]
    BY <1>0, <1>4, <2>2 DEF ReportEnd, TypeOK
  <2>4. status' \in [Jobs -> Statuses]
    BY <1>4, <2>1 DEF ReportEnd, TypeOK, Watch, Statuses
  <2>5. QED
    BY <1>4, <2>3, <2>4 DEF ReportEnd, TypeOK, budget
<1>5. CASE Cleanup(m)
  <2>1. cur[m].job \in Jobs
    BY <1>2, <1>5 DEF Cleanup, Watch
  <2>2. pods' \in [Jobs -> [Roles -> PodPhases]]
    BY <1>5, <2>1, DeletePodsType DEF Cleanup
  <2>3. QED
    BY <1>3, <1>5, <2>2 DEF Cleanup, TypeOK, table, budget
<1>6. CASE LeaveForDebug(m)
  BY <1>0, <1>6 DEF LeaveForDebug, TypeOK, table, budget
<1>7. CASE ReportRunning(m) \/ ReportPending(m)
  <2>1. cur[m].job \in Jobs
    BY <1>2, <1>7 DEF ReportRunning, ReportPending, Reporting, Watch
  <2>2. status' \in [Jobs -> Statuses]
    BY <1>7, <2>1 DEF ReportRunning, ReportPending, TypeOK, Statuses
  <2>3. QED
    BY <1>3, <1>7, <2>2 DEF ReportRunning, ReportPending, TypeOK, budget
<1>8. CASE ReportUnusual(m)
  BY <1>0, <1>2, <1>8 DEF ReportUnusual, Reporting, Watch, TypeOK, table, budget
<1>9. CASE Resubmit(m)
  <2>1. cur[m].job \in Jobs
    BY <1>2, <1>9 DEF Resubmit, Reporting, Watch
  <2>2. tasks' \subseteq Task
    BY <1>0, <1>9, <2>1, NewTaskType DEF Resubmit, TypeOK
  <2>3. QED
    BY <1>3, <1>9, <2>2 DEF Resubmit, TypeOK, table, budget
<1>10. CASE CleanupFails(m)
  BY <1>3, <1>10 DEF CleanupFails, TypeOK, table
<1>11. CASE AbortPass(m)
  <2>1. /\ batch' \in [Managers -> [Jobs -> Statuses \cup {None}]]
        /\ \A n \in Managers, i \in Jobs : batch'[n][i] \in Target(n) \cup {None}
    BY <1>0, <1>11 DEF AbortPass, NoBatch, TypeOK
  <2>2. cur' \in [Managers -> Watch \cup {None}]
    BY <1>11 DEF AbortPass, TypeOK
  <2>3. QED
    BY <1>11, <2>1, <2>2 DEF AbortPass, TypeOK, table
<1>12. QED
  BY <1>1, <1>4, <1>5, <1>6, <1>7, <1>8, <1>9, <1>10, <1>11 DEF WatchStep, WatchFault

\* The types are kept by a worker that submits a job.
LEMMA SubmitType ==
  ASSUME TypeOK, NEW t \in tasks, SubmitStep(t)
  PROVE  TypeOK'
<1>0. t \in Task /\ t.job \in Jobs /\ t.left \in SUBSET Roles
  BY TaskFields
<1>1. CASE SubmitWaits(t)
  BY <1>0, <1>1, DeletePodsType
     DEF SubmitWaits, Done, TypeOK, table, manager, budget
<1>2. CASE SubmitRejected(t)
  BY <1>2 DEF SubmitRejected, Done, TypeOK, table, manager, budget
<1>3. CASE SubmitBegins(t)
  <2>1. tasks' \subseteq Task
    BY <1>3, SubmitGoes, GoToType DEF SubmitBegins, Starts
  <2>2. QED
    BY <1>3, <2>1 DEF SubmitBegins, TypeOK, table, manager, budget
<1>4. CASE SubmitCleans(t)
  <2>1. tasks' \subseteq Task
    BY <1>4, SubmitGoes, GoToType DEF SubmitCleans
  <2>2. pods' \in [Jobs -> [Roles -> PodPhases]]
    BY <1>0, <1>4, DeletedType DEF SubmitCleans, TypeOK
  <2>3. QED
    BY <1>4, <2>1, <2>2 DEF SubmitCleans, TypeOK, table, manager, budget
<1>5. ASSUME NEW r \in Roles, CreatePod(t, r)
      PROVE  TypeOK'
  <2>1. [t EXCEPT !.left = @ \ {r},
                  !.pc = IF t.left = {r} THEN "write" ELSE "create"] \in Task
    <3>1. t \in SubmitTask
      BY <1>0, <1>5 DEF CreatePod, Task, KillTask
    <3>2. QED
      BY <3>1 DEF Task, SubmitTask
  <2>2. tasks' \subseteq Task
    BY <1>5, <2>1 DEF CreatePod, Become, TypeOK
  <2>3. pods' \in [Jobs -> [Roles -> PodPhases]]
    BY <1>0, <1>5 DEF CreatePod, TypeOK, PodPhases
  <2>4. QED
    BY <1>5, <2>2, <2>3 DEF CreatePod, TypeOK, table, manager, budget
<1>6. ASSUME NEW r \in Roles, CreateRefused(t, r)
      PROVE  TypeOK'
  <2>1. tasks' \subseteq Task
    BY <1>6, SubmitGoes, GoToType DEF CreateRefused
  <2>2. QED
    BY <1>6, <2>1 DEF CreateRefused, TypeOK, table, manager, budget
<1>7. CASE WriteScheduling(t)
  BY <1>7 DEF WriteScheduling, Done, TypeOK, manager, budget, Statuses
<1>8. CASE CountRetry(t)
  <2>1. GoTo(t, "fail") => tasks' \subseteq Task
    BY <1>8, SubmitGoes, GoToType DEF CountRetry
  <2>2. tasks' \subseteq Task
    BY <1>8, <2>1 DEF CountRetry, Done, TypeOK
  <2>3. retries' \in [Jobs -> Nat]
    <3>1. retries' = [retries EXCEPT ![t.job] = @ + 1]
      BY <1>8 DEF CountRetry
    <3>2. retries[t.job] + 1 \in Nat
      BY <1>0 DEF TypeOK
    <3>3. QED
      BY <3>1, <3>2 DEF TypeOK
  <2>4. QED
    BY <1>8, <2>2, <2>3 DEF CountRetry, TypeOK, manager, budget
<1>9. CASE WriteError(t)
  <2>1. tasks' \subseteq Task
    BY <1>9, SubmitGoes, GoToType DEF WriteError
  <2>2. QED
    BY <1>9, <2>1 DEF WriteError, TypeOK, manager, budget, Statuses
<1>10. CASE SweepPods(t)
  <2>1. pods' \in [Jobs -> [Roles -> PodPhases]]
    BY <1>0, <1>10, DeletePodsType DEF SweepPods, TypeOK
  <2>2. tasks' \subseteq Task /\ faults' \in Nat
    BY <1>10 DEF SweepPods, Done, TypeOK
  <2>3. QED
    BY <1>10, <2>1, <2>2 DEF SweepPods, TypeOK, table, manager
<1>11. QED
  BY <1>1, <1>2, <1>3, <1>4, <1>5, <1>6, <1>7, <1>8, <1>9, <1>10
     DEF SubmitStep

\* The types are kept by a worker that kills a job, and by failed calls and
\* deaths of workers.
LEMMA KillType ==
  ASSUME TypeOK, NEW t \in tasks, KillStep(t) \/ TaskFault(t)
  PROVE  TypeOK'
<1>0. t \in Task /\ t.job \in Jobs /\ t.to \in Statuses
  BY TaskFields
<1>1. DeletePods(t.job) \/ UNCHANGED pods =>
        pods' \in [Jobs -> [Roles -> PodPhases]]
  BY <1>0, DeletePodsType DEF TypeOK
<1>2. CASE KillDeletes(t)
  <2>1. tasks' \subseteq Task
    BY <1>2, KillGoes, GoToType DEF KillDeletes, Starts
  <2>2. QED
    BY <1>1, <1>2, <2>1 DEF KillDeletes, TypeOK, table, manager, budget
<1>3. CASE KillReports(t)
  <2>1. status' \in [Jobs -> Statuses]
    BY <1>0, <1>3 DEF KillReports, TypeOK, Statuses
  <2>2. tasks' \subseteq Task
    BY <1>3 DEF KillReports, Done, TypeOK
  <2>3. QED
    BY <1>3, <2>1, <2>2 DEF KillReports, TypeOK, manager, budget
<1>4. CASE CreateFails(t)
  <2>1. tasks' \subseteq Task
    BY <1>4, SubmitGoes, GoToType DEF CreateFails
  <2>2. QED
    BY <1>4, <2>1 DEF CreateFails, TypeOK, table, manager
<1>5. CASE KillErrs(t)
  <2>1. tasks' \subseteq Task
    BY <1>5, KillGoes, GoToType DEF KillErrs, Starts
  <2>2. QED
    BY <1>1, <1>5, <2>1 DEF KillErrs, TypeOK, table, manager
<1>6. CASE KillRaises(t)
  BY <1>1, <1>6 DEF KillRaises, Done, TypeOK, table, manager
<1>7. CASE WorkerDies(t)
  <2>1. tasks' \subseteq Task
    BY <1>7, KillGoes, GoToType DEF WorkerDies
  <2>2. QED
    BY <1>7, <2>1 DEF WorkerDies, TypeOK, table, manager
<1>8. QED
  BY <1>2, <1>3, <1>4, <1>5, <1>6, <1>7 DEF KillStep, TaskFault

\* The types are kept by the pods' own moves.
LEMMA PodType ==
  ASSUME TypeOK, NEW j \in Jobs, NEW r \in Roles,
         PodChanges(j, r) \/ PodGone(j, r)
  PROVE  TypeOK'
<1>1. \A move \in PodMoves : move[2] \in PodPhases
  BY JobsAssumption DEF PodPhases
<1>2. \A phase \in PodPhases :
        [pods EXCEPT ![j][r] = phase] \in [Jobs -> [Roles -> PodPhases]]
  BY DEF TypeOK
<1>3. pods' \in [Jobs -> [Roles -> PodPhases]]
  BY <1>1, <1>2 DEF PodChanges, PodGone, PodPhases
<1>4. QED
  BY <1>3 DEF PodChanges, PodGone, TypeOK, table, manager, budget

\* Every step keeps the types.
LEMMA NextType == TypeOK /\ [Next]_vars => TypeOK'
<1> SUFFICES ASSUME TypeOK, [Next]_vars
             PROVE  TypeOK'
  OBVIOUS
<1>1. CASE Next
  BY <1>1, ClientType, LoopType, RequestType, ScheduleType, WatchType,
     SubmitType, KillType, PodType DEF Next
<1>2. CASE UNCHANGED vars
  BY <1>2 DEF vars, TypeOK
<1>3. QED
  BY <1>1, <1>2

\* The initial state has the types.
LEMMA InitType == Init => TypeOK
BY DEF Init, TypeOK, NoBatch, Statuses, PodPhases

\* Every variable keeps its type, and the snapshot a manager works on holds
\* only statuses of its own query.
THEOREM TypeCorrect == Spec => []TypeOK
BY InitType, NextType, PTL DEF Spec

-----------------------------------------------------------------------------
(***************************************************************************)
(* Provenance: every status rests on a grant, wherever it is kept.         *)
(***************************************************************************)

\* Two states that agree on what Provenance looks at agree on it, when grants
\* are only added.
LEMMA ProvenanceFrame ==
  ASSUME TypeOK, Provenance,
         asked' = asked, status' = status, batch' = batch, cur' = cur,
         \A j \in Jobs : Existing(j)' \subseteq Existing(j),
         \A u \in tasks' : \E v \in tasks : u.to = v.to /\ u.job = v.job
  PROVE  Provenance'
<1>1. StatusGranted' /\ SnapshotsGranted' /\ WatchesGranted'
  BY DEF Provenance, StatusGranted, SnapshotsGranted, WatchesGranted
<1>2. TasksGranted'
  BY DEF Provenance, TasksGranted
<1>3. NoPodsBeforeApproval'
  BY DEF Provenance, NoPodsBeforeApproval
<1>4. QED
  BY <1>1, <1>2, <1>3 DEF Provenance

\* Deletions leave no pod that was not there.
LEMMA DeletedPods ==
  ASSUME TypeOK, NEW k \in Jobs, DeletePods(k) \/ UNCHANGED pods
  PROVE  \A j \in Jobs : Existing(j)' \subseteq Existing(j)
<1>1. \A j \in Jobs, r \in Roles : pods[j][r] = "absent" => pods'[j][r] = "absent"
  <2>1. CASE DeletePods(k)
    BY <2>1 DEF DeletePods, Deleted, TypeOK
  <2>2. CASE UNCHANGED pods
    BY <2>2
  <2>3. QED
    BY <2>1, <2>2
<1>2. QED
  BY <1>1 DEF Existing

\* A worker that goes on with its task, or is done with it, leaves tasks with
\* the same purpose.
LEMMA SamePurpose ==
  ASSUME TypeOK, NEW t \in tasks, Done(t) \/ \E pc : GoTo(t, pc)
  PROVE  \A u \in tasks' : \E v \in tasks : u.to = v.to /\ u.job = v.job
<1>1. CASE Done(t)
  BY <1>1 DEF Done
<1>2. ASSUME NEW pc, GoTo(t, pc)
      PROVE  \A u \in tasks' : \E v \in tasks : u.to = v.to /\ u.job = v.job
  <2> DEFINE w == [t EXCEPT !.pc = pc]
  <2>1. w.to = t.to /\ w.job = t.job
    BY TaskFields
  <2>2. tasks' = (tasks \ {t}) \cup {w}
    BY <1>2 DEF GoTo, Become
  <2> HIDE DEF w
  <2>3. QED
    BY <2>1, <2>2
<1>3. QED
  BY <1>1, <1>2

\* A step that writes the status of one job, and only to what was granted,
\* keeps all statuses granted.
LEMMA WriteGranted ==
  ASSUME TypeOK, StatusGranted, asked' = asked, NEW k \in Jobs, NEW s,
         status' = [status EXCEPT ![k] = s], Needs(s) \subseteq asked[k]
  PROVE  StatusGranted'
BY DEF StatusGranted, TypeOK

\* Requests of clients: the grant is recorded with the status.
LEMMA ClientProvenance ==
  ASSUME TypeOK, Provenance, NEW c \in Clients, ClientStep(c)
  PROVE  Provenance'
<1>1. CASE OpWrite(c)
  <2>1. req[c] \in Request
    BY <1>1 DEF OpWrite, TypeOK
  <2>2. \A op \in Ops : Needs(To(op)) \subseteq Grants \cap {op}
    BY DEF Ops, To, Needs, Grants
  <2>3. req[c].op \in Ops
    BY <2>1 DEF Request
  <2>4. \A j \in Jobs : asked[j] \subseteq asked'[j]
    BY <1>1 DEF OpWrite
  <2>5. \A j \in req[c].jobs \cap Jobs :
          status'[j] = To(req[c].op) /\ Grants \cap {req[c].op} \subseteq asked'[j]
    BY <1>1 DEF OpWrite
  <2>6. \A j \in Jobs \ req[c].jobs : status'[j] = status[j]
    BY <1>1 DEF OpWrite
  <2>7. StatusGranted'
    BY <2>2, <2>3, <2>4, <2>5, <2>6 DEF Provenance, StatusGranted
  <2>8. /\ batch' = batch /\ cur' = cur /\ tasks' = tasks /\ pods' = pods
    BY <1>1 DEF OpWrite, manager
  <2>9. SnapshotsGranted'
    BY <2>4, <2>8 DEF Provenance, SnapshotsGranted
  <2>10. WatchesGranted'
    <3>1. \A m \in Managers : cur[m] # None => cur[m].job \in Jobs
      BY DEF TypeOK, Watch
    <3>2. QED
      BY <2>4, <2>8, <3>1 DEF Provenance, WatchesGranted
  <2>11. TasksGranted'
    <3>1. \A t \in tasks : t.job \in Jobs
      BY TaskFields
    <3>2. QED
      BY <2>4, <2>8, <3>1 DEF Provenance, TasksGranted
  <2>12. NoPodsBeforeApproval'
    BY <2>4, <2>8 DEF Provenance, NoPodsBeforeApproval, Existing
  <2>13. QED
    BY <2>7, <2>9, <2>10, <2>11, <2>12 DEF Provenance
<1>2. ASSUME NEW op \in Ops, NEW J \in SUBSET Jobs, OpRead(c, op, J)
      PROVE  Provenance'
  BY <1>2, ProvenanceFrame DEF OpRead, table, manager, Existing
<1>3. QED
  BY <1>1, <1>2 DEF ClientStep

\* The steps around a pass: a snapshot is taken of a table that is in order.
LEMMA LoopProvenance ==
  ASSUME TypeOK, Provenance, NEW m \in Managers,
         Fetch(m) \/ ManagerDies(m) \/ Supervise(m)
  PROVE  Provenance'
<1>1. CASE Fetch(m)
  <2>1. \A n \in Managers, j \in Jobs :
          batch'[n][j] \in {batch[n][j], status[j], None}
    BY <1>1 DEF Fetch, TypeOK
  <2>2. SnapshotsGranted'
    BY <1>1, <2>1 DEF Fetch, table, Provenance, SnapshotsGranted, StatusGranted
  <2>3. QED
    BY <1>1, <2>2 DEF Fetch, table, Provenance, StatusGranted, WatchesGranted,
                      TasksGranted, NoPodsBeforeApproval, Existing
<1>2. CASE ManagerDies(m) \/ Supervise(m)
  <2>1. Restart(m) /\ UNCHANGED <<table, pods>>
    BY <1>2 DEF ManagerDies, Supervise
  <2>2. \A n \in Managers, j \in Jobs : batch'[n][j] \in {batch[n][j], None}
    BY <2>1 DEF Restart, NoBatch, TypeOK
  <2>3. SnapshotsGranted'
    BY <2>1, <2>2 DEF table, Provenance, SnapshotsGranted
  <2>4. \A n \in Managers : cur'[n] \in {cur[n], None}
    BY <2>1 DEF Restart, TypeOK
  <2>5. WatchesGranted'
    BY <2>1, <2>4 DEF table, Provenance, WatchesGranted
  <2>6. TasksGranted'
    BY <2>1 DEF Restart, table, Provenance, TasksGranted
  <2>7. QED
    BY <2>1, <2>3, <2>5, <2>6
       DEF table, Provenance, StatusGranted, NoPodsBeforeApproval, Existing
<1>3. QED
  BY <1>1, <1>2

\* Taking a job from a snapshot leaves granted snapshots.
LEMMA TakeGranted ==
  ASSUME TypeOK, SnapshotsGranted, NEW m \in Managers, NEW k \in Jobs, Take(m, k),
         \A j \in Jobs : asked[j] \subseteq asked'[j]
  PROVE  SnapshotsGranted'
<1>1. \A n \in Managers, j \in Jobs : batch'[n][j] \in {batch[n][j], None}
  BY DEF Take, TypeOK
<1>2. QED
  BY <1>1 DEF SnapshotsGranted

\* The manager of requests: a kill task goes back to a granted request, and an
\* approval is recorded with the status.
LEMMA RequestProvenance ==
  ASSUME TypeOK, Provenance, NEW j \in Jobs, RequestStep(j)
  PROVE  Provenance'
<1>0. "requests" \in Managers
  BY DEF Managers
<1>1. CASE DispatchKill(j)
  <2> DEFINE to == IF batch["requests"][j] = "killing" THEN "killed" ELSE "paused"
  <2>1. tasks' = tasks \cup {NewTask("requests", j, "kill", to)}
    BY <1>1 DEF DispatchKill
  <2>2. Needs(to) \subseteq asked[j]
    <3>1. /\ Needs("killed") = Needs("killing")
          /\ Needs("paused") = Needs("pausing")
      BY DEF Needs
    <3>2. batch["requests"][j] # None
      BY <1>1, <1>0, NoneAssumption DEF DispatchKill, Statuses
    <3>3. QED
      BY <1>0, <1>1, <3>1, <3>2
         DEF DispatchKill, Provenance, SnapshotsGranted
  <2>3. TasksGranted'
    <3>1. LET t == NewTask("requests", j, "kill", to)
          IN  t.to = to /\ t.fn = "kill" /\ t.job = j
      BY DEF NewTask
    <3>2. asked' = asked
      BY <1>1 DEF DispatchKill, table
    <3> HIDE DEF to
    <3>3. QED
      BY <2>1, <2>2, <3>1, <3>2 DEF Provenance, TasksGranted
  <2>4. SnapshotsGranted'
    BY <1>0, <1>1, TakeGranted DEF DispatchKill, Provenance, table
  <2>5. QED
    BY <1>1, <2>3, <2>4 DEF DispatchKill, table, Provenance, StatusGranted,
                            WatchesGranted, NoPodsBeforeApproval, Existing
<1>2. CASE Approve(j)
  <2>1. \A k \in Jobs : asked[k] \subseteq asked'[k]
    BY <1>2 DEF Approve, TypeOK
  <2>2. \A k \in Jobs : \/ status'[k] = status[k]
                        \/ status'[k] = "queued" /\ "approve" \in asked'[k]
    BY <1>2 DEF Approve, TypeOK
  <2>3. Needs("queued") = {"approve"}
    BY DEF Needs, Grants
  <2>4. StatusGranted'
    BY <2>1, <2>2, <2>3 DEF Provenance, StatusGranted
  <2>5. SnapshotsGranted'
    BY <1>0, <1>2, <2>1, TakeGranted DEF Approve, Provenance
  <2>6. WatchesGranted'
    <3>1. \A m \in Managers : cur[m] # None => cur[m].job \in Jobs
      BY DEF TypeOK, Watch
    <3>2. QED
      BY <1>2, <2>1, <3>1 DEF Approve, Provenance, WatchesGranted
  <2>7. TasksGranted'
    <3>1. \A t \in tasks : t.job \in Jobs
      BY TaskFields
    <3>2. QED
      BY <1>2, <2>1, <3>1 DEF Approve, Provenance, TasksGranted
  <2>8. NoPodsBeforeApproval'
    BY <1>2, <2>1 DEF Approve, Provenance, NoPodsBeforeApproval, Existing
  <2>9. QED
    BY <2>4, <2>5, <2>6, <2>7, <2>8 DEF Provenance
<1>3. CASE LeaveUnapproved(j)
  <2>1. SnapshotsGranted'
    BY <1>0, <1>3, TakeGranted DEF LeaveUnapproved, Provenance, table
  <2>2. QED
    BY <1>3, <2>1 DEF LeaveUnapproved, table, Provenance, StatusGranted,
                      WatchesGranted, TasksGranted, NoPodsBeforeApproval, Existing
<1>4. QED
  BY <1>1, <1>2, <1>3 DEF RequestStep

\* A pass of the scheduler makes tasks of jobs in its snapshot, which is of
\* approved jobs only.
LEMMA ScheduleProvenance ==
  ASSUME TypeOK, Provenance, NEW allowed \in SUBSET Jobs, Schedule(allowed)
  PROVE  Provenance'
<1> DEFINE submits == {j \in allowed : batch["queued"][j] = "queued"}
           preempted == {j \in Preemptible \ allowed :
                           batch["queued"][j] \in {"scheduling", "running"}}
           T(j) == NewTask("queued", j, "submit", "scheduling")
           U(j) == NewTask("queued", j, "kill", "queued")
<1>0. "queued" \in Managers
  BY DEF Managers
<1>1. /\ tasks' = tasks \cup {T(j) : j \in submits} \cup {U(j) : j \in preempted}
      /\ batch' = [batch EXCEPT !["queued"] = NoBatch]
      /\ UNCHANGED <<table, cur, pods>>
  BY DEF Schedule
<1>2. \A j \in submits \cup preempted : j \in Jobs /\ "approve" \in asked[j]
  <2>1. submits \cup preempted \subseteq Jobs
    BY JobsAssumption
  <2>2. \A j \in submits \cup preempted :
          batch["queued"][j] \in {"queued", "scheduling", "running"}
    OBVIOUS
  <2>3. \A s \in {"queued", "scheduling", "running"} : Needs(s) = {"approve"}
    BY DEF Needs, Grants
  <2>4. \A s \in {"queued", "scheduling", "running"} : s # None
    BY NoneAssumption
  <2> HIDE DEF submits, preempted
  <2>5. QED
    BY <1>0, <2>1, <2>2, <2>3, <2>4 DEF Provenance, SnapshotsGranted
<1>3. \A j : /\ T(j).to = "scheduling" /\ T(j).fn = "submit" /\ T(j).job = j
             /\ U(j).to = "queued" /\ U(j).fn = "kill" /\ U(j).job = j
  BY DEF NewTask
<1>4. Needs("scheduling") = {"approve"} /\ Needs("queued") = {"approve"}
  BY DEF Needs, Grants
<1>5. TasksGranted'
  <2> HIDE DEF submits, preempted, T, U
  <2>1. asked' = asked
    BY <1>1 DEF table
  <2>2. QED
    BY <1>1, <1>2, <1>3, <1>4, <2>1 DEF Provenance, TasksGranted
<1>6. SnapshotsGranted'
  <2>1. \A m \in Managers, j \in Jobs : batch'[m][j] \in {batch[m][j], None}
    BY <1>1 DEF NoBatch, TypeOK
  <2>2. QED
    BY <1>1, <2>1 DEF table, Provenance, SnapshotsGranted
<1>7. QED
  BY <1>1, <1>5, <1>6 DEF table, Provenance, StatusGranted, WatchesGranted,
                          NoPodsBeforeApproval, Existing

\* UpdateJobStatus: it watches approved jobs only, and every status it writes
\* is one of approved jobs.
LEMMA WatchProvenance ==
  ASSUME TypeOK, Provenance, NEW m \in Watchers, WatchStep(m) \/ WatchFault(m)
  PROVE  Provenance'
<1>0. m \in Managers
  BY DEF Watchers, Managers
<1>1. /\ cur[m] # None => cur[m].job \in Jobs /\ "approve" \in asked[cur[m].job]
  BY <1>0 DEF Provenance, WatchesGranted, TypeOK, Watch
<1>2. \A s \in {"queued", "scheduling", "running", "finished", "failed"} :
        Needs(s) = {"approve"}
  BY DEF Needs, Grants
<1>3. ASSUME EndWatch(m), asked' = asked
      PROVE  WatchesGranted'
  <2>1. \A n \in Managers : cur'[n] \in {cur[n], None}
    BY <1>3 DEF EndWatch, TypeOK
  <2>2. QED
    BY <1>3, <2>1 DEF Provenance, WatchesGranted
<1>4. ASSUME NEW j \in Jobs, Observe(m, j)
      PROVE  Provenance'
  <2>1. batch[m][j] \in {"running", "scheduling"} /\ batch[m][j] # None
    BY <1>4, <1>0 DEF Observe, TypeOK, Target, Watchers
  <2>2. "approve" \in asked[j]
    BY <1>0, <1>2, <2>1 DEF Provenance, SnapshotsGranted
  <2>3. WatchesGranted'
    <3>1. \A n \in Managers : \/ cur'[n] = cur[n]
                              \/ cur'[n].job = j
      BY <1>4 DEF Observe, TypeOK
    <3>2. asked' = asked
      BY <1>4 DEF Observe, table
    <3>3. \A n \in Managers : cur'[n] # cur[n] => cur'[n].job = j
      BY <3>1
    <3>4. QED
      BY <2>2, <3>2, <3>3 DEF Provenance, WatchesGranted
  <2>4. SnapshotsGranted'
    BY <1>0, <1>4, TakeGranted DEF Observe, Provenance, table
  <2>5. QED
    BY <1>4, <2>3, <2>4 DEF Observe, table, Provenance, StatusGranted,
                            TasksGranted, NoPodsBeforeApproval, Existing
<1>5. CASE ReportEnd(m)
  <2>1. cur[m] # None
    BY <1>5 DEF ReportEnd, Reporting
  <2>2. asked' = asked /\ batch' = batch /\ pods' = pods /\ tasks' = tasks
    BY <1>5 DEF ReportEnd
  <2>3. StatusGranted'
    BY <1>1, <1>2, <1>5, <2>1, <2>2, WriteGranted
       DEF ReportEnd, Provenance
  <2>4. WatchesGranted'
    <3>1. \A n \in Managers : cur'[n] # cur[n] => n = m
      BY <1>5 DEF ReportEnd, TypeOK
    <3>2. cur'[m].job = cur[m].job
      BY <1>0, <1>5, <2>1 DEF ReportEnd, TypeOK, Watch
    <3>3. QED
      BY <1>1, <2>1, <2>2, <3>1, <3>2 DEF Provenance, WatchesGranted
  <2>5. QED
    BY <2>2, <2>3, <2>4 DEF Provenance, SnapshotsGranted, TasksGranted,
                            NoPodsBeforeApproval, Existing
<1>6. CASE Cleanup(m)
  <2>1. cur[m].job \in Jobs
    BY <1>1, <1>6 DEF Cleanup
  <2>2. \A j \in Jobs : Existing(j)' \subseteq Existing(j)
    BY <1>6, <2>1, DeletedPods DEF Cleanup
  <2>3. asked' = asked /\ status' = status /\ batch' = batch /\ tasks' = tasks
    BY <1>6 DEF Cleanup, table
  <2>4. WatchesGranted'
    BY <1>3, <1>6, <2>3 DEF Cleanup
  <2>5. QED
    BY <2>2, <2>3, <2>4 DEF Provenance, StatusGranted, SnapshotsGranted,
                            TasksGranted, NoPodsBeforeApproval
<1>7. CASE CleanupFails(m)
  BY <1>3, <1>7 DEF CleanupFails, table, Provenance, StatusGranted,
                    SnapshotsGranted, TasksGranted, NoPodsBeforeApproval, Existing
<1>8. CASE LeaveForDebug(m) \/ ReportUnusual(m)
  <2>1. /\ cur' = [cur EXCEPT ![m] = None]
        /\ UNCHANGED <<table, batch, pods, tasks>>
    BY <1>8 DEF LeaveForDebug, ReportUnusual
  <2>2. \A n \in Managers : cur'[n] \in {cur[n], None}
    BY <2>1 DEF TypeOK
  <2>3. WatchesGranted'
    BY <2>1, <2>2 DEF table, Provenance, WatchesGranted
  <2>4. QED
    BY <2>1, <2>3 DEF table, Provenance, StatusGranted, SnapshotsGranted,
                      TasksGranted, NoPodsBeforeApproval, Existing
<1>9. CASE ReportRunning(m) \/ ReportPending(m)
  <2>1. cur[m] # None
    BY <1>9 DEF ReportRunning, ReportPending, Reporting
  <2>2. asked' = asked /\ batch' = batch /\ pods' = pods /\ tasks' = tasks
    BY <1>9 DEF ReportRunning, ReportPending
  <2>3. StatusGranted'
    <3>1. ASSUME NEW s \in {"scheduling", "running"},
                 status' = [status EXCEPT ![cur[m].job] = s]
          PROVE  StatusGranted'
      BY <1>1, <1>2, <2>1, <2>2, <3>1, WriteGranted DEF Provenance
    <3>2. CASE status' = status
      BY <2>2, <3>2 DEF Provenance, StatusGranted
    <3>3. QED
      BY <1>9, <3>1, <3>2 DEF ReportRunning, ReportPending
  <2>4. WatchesGranted'
    BY <1>3, <1>9, <2>2 DEF ReportRunning, ReportPending
  <2>5. QED
    BY <2>2, <2>3, <2>4 DEF Provenance, SnapshotsGranted, TasksGranted,
                            NoPodsBeforeApproval, Existing
<1>10. CASE Resubmit(m)
  <2> DEFINE t == NewTask(m, cur[m].job, "kill", "queued")
  <2>1. cur[m] # None /\ tasks' = tasks \cup {t}
    BY <1>10 DEF Resubmit, Reporting
  <2>2. t.to = "queued" /\ t.fn = "kill" /\ t.job = cur[m].job
    BY DEF NewTask
  <2>3. asked' = asked /\ status' = status /\ batch' = batch /\ pods' = pods
    BY <1>10 DEF Resubmit, table
  <2> HIDE DEF t
  <2>4. TasksGranted'
    BY <1>1, <1>2, <2>1, <2>2, <2>3 DEF Provenance, TasksGranted
  <2>5. WatchesGranted'
    BY <1>3, <1>10, <2>3 DEF Resubmit
  <2>6. QED
    BY <2>3, <2>4, <2>5 DEF Provenance, StatusGranted, SnapshotsGranted,
                            NoPodsBeforeApproval, Existing
<1>11. CASE AbortPass(m)
  <2>1. \A n \in Managers : cur'[n] \in {cur[n], None}
    BY <1>11 DEF AbortPass, TypeOK
  <2>2. \A n \in Managers, j \in Jobs : batch'[n][j] \in {batch[n][j], None}
    BY <1>11 DEF AbortPass, NoBatch, TypeOK
  <2>3. UNCHANGED <<table, pods, tasks>>
    BY <1>11 DEF AbortPass
  <2>4. QED
    BY <2>1, <2>2, <2>3
       DEF table, Provenance, StatusGranted, SnapshotsGranted, WatchesGranted,
           TasksGranted, NoPodsBeforeApproval, Existing
<1>12. QED
  BY <1>4, <1>5, <1>6, <1>7, <1>8, <1>9, <1>10, <1>11 DEF WatchStep, WatchFault

\* A worker writes the status its task is for, which was granted when the task
\* was made, and creates pods for submit tasks, whose jobs are approved.
LEMMA TaskProvenance ==
  ASSUME TypeOK, Provenance, NEW t \in tasks,
         SubmitStep(t) \/ KillStep(t) \/ TaskFault(t)
  PROVE  Provenance'
<1>0. t \in Task /\ t.job \in Jobs /\ t.left \in SUBSET Roles
  BY TaskFields
<1>1. Needs(t.to) \subseteq asked[t.job]
  BY DEF Provenance, TasksGranted
<1>2. ASSUME t.pc \in {"create", "write"}
      PROVE  t.to = "scheduling" /\ "approve" \in asked[t.job]
  <2>1. t \in SubmitTask
    BY <1>0, <1>2 DEF Task, KillTask
  <2>2. t.to = "scheduling" /\ Needs("scheduling") = {"approve"}
    BY <2>1 DEF SubmitTask, Needs, Grants
  <2>3. QED
    BY <1>1, <2>2
<1>3. ASSUME UNCHANGED <<asked, status, manager>>,
             DeletePods(t.job) \/ UNCHANGED pods,
             Done(t) \/ \E pc : GoTo(t, pc)
      PROVE  Provenance'
  <2>1. \A j \in Jobs : Existing(j)' \subseteq Existing(j)
    BY <1>0, <1>3, DeletedPods
  <2>2. \A u \in tasks' : \E v \in tasks : u.to = v.to /\ u.job = v.job
    BY <1>3, SamePurpose
  <2>3. QED
    BY <1>3, <2>1, <2>2, ProvenanceFrame DEF manager
<1>4. ASSUME UNCHANGED <<asked, manager, pods>>, NEW s,
             status' = [status EXCEPT ![t.job] = s], Needs(s) \subseteq asked[t.job],
             Done(t) \/ \E pc : GoTo(t, pc)
      PROVE  Provenance'
  <2>1. StatusGranted'
    BY <1>0, <1>4, WriteGranted DEF Provenance
  <2>2. \A u \in tasks' : \E v \in tasks : u.to = v.to /\ u.job = v.job
    BY <1>4, SamePurpose
  <2>3. TasksGranted'
    BY <1>4, <2>2 DEF Provenance, TasksGranted
  <2>4. QED
    BY <1>4, <2>1, <2>3 DEF manager, Provenance, SnapshotsGranted,
                            WatchesGranted, NoPodsBeforeApproval, Existing
<1>5. CASE SubmitWaits(t) \/ SubmitRejected(t) \/ SubmitBegins(t)
  BY <1>3, <1>5 DEF SubmitWaits, SubmitRejected, SubmitBegins, table
<1>6. CASE SubmitCleans(t)
  <2>1. \A j \in Jobs, r \in Roles :
          pods[j][r] = "absent" => pods'[j][r] = "absent"
    BY <1>0, <1>6 DEF SubmitCleans, Deleted, TypeOK
  <2>2. \A j \in Jobs : Existing(j)' \subseteq Existing(j)
    BY <2>1 DEF Existing
  <2>3. \A u \in tasks' : \E v \in tasks : u.to = v.to /\ u.job = v.job
    BY <1>6, SamePurpose DEF SubmitCleans
  <2>4. QED
    BY <1>6, <2>2, <2>3, ProvenanceFrame DEF SubmitCleans, table, manager
<1>7. ASSUME NEW r \in Roles, CreatePod(t, r)
      PROVE  Provenance'
  <2>1. \A j \in Jobs : Existing(j)' = Existing(j) \/ j = t.job
    BY <1>0, <1>7 DEF CreatePod, Existing, TypeOK
  <2>2. asked' = asked /\ UNCHANGED <<status, manager>>
    BY <1>7 DEF CreatePod, table
  <2>3. NoPodsBeforeApproval'
    <3>1. "approve" \in asked[t.job]
      BY <1>2, <1>7 DEF CreatePod
    <3>2. QED
      BY <2>1, <2>2, <3>1 DEF Provenance, NoPodsBeforeApproval
  <2>4. TasksGranted'
    <3> DEFINE u == [t EXCEPT !.left = @ \ {r},
                              !.pc = IF t.left = {r} THEN "write" ELSE "create"]
    <3>1. tasks' = (tasks \ {t}) \cup {u}
      BY <1>7 DEF CreatePod, Become
    <3>2. u.to = t.to /\ u.job = t.job
      BY <1>0 DEF Task, SubmitTask, KillTask
    <3> HIDE DEF u
    <3>3. QED
      BY <2>2, <3>1, <3>2 DEF Provenance, TasksGranted
  <2>5. QED
    BY <2>2, <2>3, <2>4 DEF manager, Provenance, StatusGranted,
                            SnapshotsGranted, WatchesGranted
<1>8. CASE \E r \in Roles : CreateRefused(t, r)
  BY <1>3, <1>8 DEF CreateRefused, table
<1>9. CASE CountRetry(t) \/ SweepPods(t) \/ CreateFails(t)
  BY <1>3, <1>9 DEF CountRetry, SweepPods, CreateFails, table
<1>10. CASE WriteScheduling(t)
  <2>1. Needs("scheduling") \subseteq asked[t.job]
    BY <1>1, <1>2, <1>10 DEF WriteScheduling
  <2>2. QED
    BY <1>4, <1>10, <2>1 DEF WriteScheduling
<1>11. Needs("error") = {}
  BY DEF Needs
<1>12. CASE WriteError(t)
  BY <1>3, <1>4, <1>11, <1>12 DEF WriteError
<1>13. CASE KillReports(t)
  <2>1. CASE t.pc = "report"
    BY <1>1, <1>4, <1>13, <2>1 DEF KillReports
  <2>2. CASE t.pc # "report"
    BY <1>4, <1>11, <1>13, <2>2 DEF KillReports
  <2>3. QED
    BY <2>1, <2>2
<1>14. CASE KillDeletes(t) \/ KillErrs(t) \/ KillRaises(t) \/ WorkerDies(t)
  BY <1>3, <1>14 DEF KillDeletes, KillErrs, KillRaises, WorkerDies, table
<1>15. QED
  BY <1>5, <1>6, <1>7, <1>8, <1>9, <1>10, <1>12, <1>13, <1>14
     DEF SubmitStep, KillStep, TaskFault

\* Kubernetes makes no pods of its own.
LEMMA PodProvenance ==
  ASSUME TypeOK, Provenance, NEW k \in Jobs, NEW q \in Roles,
         PodChanges(k, q) \/ PodGone(k, q)
  PROVE  Provenance'
<1>1. \A move \in PodMoves : move[1] # "absent"
  BY JobsAssumption
<1>2. ASSUME NEW phase, pods' = [pods EXCEPT ![k][q] = phase],
             pods[k][q] # "absent"
      PROVE  \A j \in Jobs : Existing(j)' \subseteq Existing(j)
  BY <1>2 DEF Existing, TypeOK
<1>3. CASE PodChanges(k, q)
  <2>1. PICK move \in PodMoves : /\ pods[k][q] = move[1]
                                 /\ pods' = [pods EXCEPT ![k][q] = move[2]]
    BY <1>3 DEF PodChanges
  <2>2. \A j \in Jobs : Existing(j)' \subseteq Existing(j)
    BY <1>1, <1>2, <2>1
  <2>3. QED
    BY <1>3, <2>2, ProvenanceFrame DEF PodChanges, table, manager
<1>4. CASE PodGone(k, q)
  <2>1. \A j \in Jobs : Existing(j)' \subseteq Existing(j)
    BY <1>2, <1>4 DEF PodGone
  <2>2. QED
    BY <1>4, <2>1, ProvenanceFrame DEF PodGone, table, manager
<1>5. QED
  BY <1>3, <1>4

\* Nothing is granted at first, and nothing rests on a grant.
LEMMA InitProvenance == Init => Provenance
<1> SUFFICES ASSUME Init PROVE Provenance
  OBVIOUS
<1>1. Needs("unapproved") = {}
  BY DEF Needs
<1>2. QED
  BY <1>1 DEF Init, NoBatch, Provenance, StatusGranted, SnapshotsGranted,
              WatchesGranted, TasksGranted, NoPodsBeforeApproval, Existing

\* Every step keeps Provenance.
LEMMA NextProvenance == TypeOK /\ Provenance /\ [Next]_vars => Provenance'
<1> SUFFICES ASSUME TypeOK, Provenance, [Next]_vars
             PROVE  Provenance'
  OBVIOUS
<1>1. CASE Next
  BY <1>1, ClientProvenance, LoopProvenance, RequestProvenance,
     ScheduleProvenance, WatchProvenance, TaskProvenance, PodProvenance DEF Next
<1>2. CASE UNCHANGED vars
  BY <1>2 DEF vars, Provenance, StatusGranted, SnapshotsGranted,
              WatchesGranted, TasksGranted, NoPodsBeforeApproval, Existing
<1>3. QED
  BY <1>1, <1>2

\* Whatever processes die, calls fail and snapshots are stale: every status,
\* wherever it is kept, rests on a grant, and pods on an approval.
THEOREM ProvenanceHolds == Spec => []Provenance
BY TypeCorrect, InitProvenance, NextProvenance, PTL DEF Spec

\* What Provenance says of the table and of Kubernetes.
LEMMA ProvenanceImplies ==
  Provenance => KilledOnlyOnRequest /\ PausedOnlyOnRequest /\ NoPodsBeforeApproval
<1>1. Needs("killed") = {"kill"} /\ Needs("paused") = {"pause"}
  BY DEF Needs, Grants
<1>2. QED
  BY <1>1 DEF Provenance, StatusGranted, KilledOnlyOnRequest,
              PausedOnlyOnRequest, NoPodsBeforeApproval

\* A job is reported killed only after a kill was granted for it.
THEOREM KilledRequested == Spec => []KilledOnlyOnRequest
BY ProvenanceHolds, ProvenanceImplies, PTL

\* A job is reported paused only after a pause was granted for it.
THEOREM PausedRequested == Spec => []PausedOnlyOnRequest
BY ProvenanceHolds, ProvenanceImplies, PTL

\* No pod exists for a job that was never approved.
THEOREM PodsApproved == Spec => []NoPodsBeforeApproval
BY ProvenanceHolds, ProvenanceImplies, PTL
=============================================================================
