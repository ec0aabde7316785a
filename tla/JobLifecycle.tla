---------------------------- MODULE JobLifecycle ----------------------------
(***************************************************************************)
(* The life of a job, from its row in the jobs table to its pods and back. *)
(*                                                                         *)
(* Three kinds of actors share two stores and no lock:                     *)
(*   - REST clients (users, the repair manager, the reaper), who change    *)
(*     jobStatus through kill / pause / resume / approve                   *)
(*     (utils/JobRestAPIUtils.py), reading it first and writing it later;  *)
(*   - four job_manager processes, one per status filter, each a loop over *)
(*     a snapshot of the jobs in its statuses (ClusterManager/             *)
(*     job_manager.py);                                                    *)
(*   - the py-launcher workers of each job_manager process, which carry    *)
(*     out submit and kill tasks taken from the process's queue            *)
(*     (ClusterManager/job_launcher.py, class PythonLauncher).             *)
(* The stores are the jobs table (status, retries) and Kubernetes (pods).  *)
(*                                                                         *)
(* Abstracted: parameters, quotas and resources of a job (ApproveJob's and *)
(* the scheduler's verdicts are choices here), endpoints, logs, mails,     *)
(* secrets, services and config maps.                                      *)
(***************************************************************************)
EXTENDS Naturals, FiniteSets

CONSTANTS
  Jobs,        \* job ids
  Roles,       \* the pods of a job: {"master"}, or {"ps", "worker"}
  Clients,     \* REST requests that may be in flight at the same time
  Preemptible, \* the jobs with preemptionAllowed
  BadJobs,     \* the jobs no pod template can be generated for
  DebugJobs,   \* the jobs with params.debug
  PodMoves,    \* what pods do by themselves: pairs of phases
  None,        \* no request / no snapshot / nothing in progress
  MaxRetries,  \* failed submissions after which a job is in error (5)
  PoolSize,    \* py-launcher workers per job_manager process (3)
  MaxOps,      \* bound: requests of the clients
  MaxFaults,   \* bound: failed calls of the Kubernetes API
  MaxCrashes,  \* bound: deaths of a manager process or of a worker
  MaxMishaps   \* bound: failed calls and deaths together

ASSUME BoundsAssumption ==
  /\ MaxRetries \in Nat \ {0} /\ PoolSize \in Nat \ {0}
  /\ MaxOps \in Nat /\ MaxFaults \in Nat /\ MaxCrashes \in Nat
  /\ MaxMishaps \in Nat

ASSUME JobsAssumption ==
  /\ Preemptible \subseteq Jobs /\ BadJobs \subseteq Jobs
  /\ DebugJobs \subseteq Jobs
  /\ PodMoves \subseteq {<<"Pending", "Running">>, <<"Running", "Pending">>,
                         <<"Running", "Succeeded">>, <<"Running", "Failed">>,
                         <<"Pending", "Failed">>, <<"Running", "Terminating">>}

\* "Nothing" is no status.
ASSUME NoneAssumption ==
  None \notin {"unapproved", "queued", "scheduling", "running", "pausing",
              "killing"}

VARIABLES
  status,   \* jobs table: jobStatus of each job
  retries,  \* jobs table: retries of each job
  pods,     \* Kubernetes: the phase of each pod of each job
  req,      \* per client: the operation it has read the status for
  batch,    \* per manager: the snapshot it still has to process
  cur,      \* per manager: the job UpdateJobStatus is working on
  unusual,  \* per manager: UnusualJobs, the timers of vanished jobs
  gen,      \* per manager: how often it was restarted
  tasks,    \* submit and kill tasks, queued or being carried out
  asked,    \* history: what was granted for each job, and by request
  ops, faults, crashes  \* what is used of the bounds

vars == <<status, retries, pods, req, batch, cur, unusual, gen, tasks,
          asked, ops, faults, crashes>>

table   == <<status, retries, asked>>
manager == <<batch, cur, unusual, gen>>
budget  == <<ops, faults, crashes>>

(***************************************************************************)
(* Values                                                                  *)
(***************************************************************************)

Statuses == {"unapproved", "queued", "scheduling", "running", "pausing",
             "paused", "killing", "killed", "finished", "failed", "error"}

\* "Pending" also stands for a pod that runs but is not ready, "Terminating"
\* for one on a lost node or with a deletion timestamp.
PodPhases == {"absent", "Pending", "Running", "Succeeded", "Failed",
              "Terminating"}

Observations == {"NotFound", "Pending", "Running", "Succeeded", "Failed",
                 "Unknown"}

Ops == {"kill", "pause", "resume", "approve"}

\* "killRunning": a kill written while the job was running.
Grants == {"approve", "pause", "kill", "killRunning"}

Managers == {"requests", "running", "scheduling", "queued"}

Watchers == {"running", "scheduling"}  \* the managers of UpdateJobStatus

TargetOverlap(m) ==
  CASE m = "requests"   -> {"killing", "pausing", "unapproved"}
    [] m = "running"    -> {"running", "scheduling"}
    [] m = "scheduling" -> {"scheduling"}
    [] m = "queued"     -> {"queued", "scheduling", "running"}

\* The statuses in each manager's query.
Target(m) ==
  CASE m = "requests"   -> {"killing", "pausing", "unapproved"}
    [] m = "running"    -> {"running"}
    [] m = "scheduling" -> {"scheduling"}
    [] m = "queued"     -> {"queued", "scheduling", "running"}

From(op) ==
  CASE op = "kill"    -> {"unapproved", "queued", "scheduling", "running",
                          "pausing", "paused"}
    [] op = "pause"   -> {"unapproved", "queued", "scheduling", "running"}
    [] op = "resume"  -> {"paused"}
    [] op = "approve" -> {"unapproved"}

ToResumeQueued(op) ==
  CASE op = "kill"    -> "killing"
    [] op = "pause"   -> "pausing"
    [] op = "resume"  -> "queued"
    [] op = "approve" -> "queued"

To(op) ==
  CASE op = "kill"    -> "killing"
    [] op = "pause"   -> "pausing"
    [] op = "resume"  -> "unapproved"
    [] op = "approve" -> "queued"

LeadRoles == {"master", "ps"}

\* A task of a manager's queue: run by a worker of the same generation.
SubmitTask ==
  [pool : Managers, gen : Nat, job : Jobs, fn : {"submit"}, to : {"scheduling"},
   pc : {"wait", "clean", "create", "write", "retry", "fail", "sweep", "lost"},
   left : SUBSET Roles]

KillTask ==
  [pool : Managers, gen : Nat, job : Jobs, fn : {"kill"},
   to : {"killed", "paused", "queued"},
   pc : {"wait", "report", "reportError", "lost"}, left : {{}}]

Task == SubmitTask \cup KillTask

Watch == [job : Jobs, snap : {"running", "scheduling"}, seen : Observations,
          step : {"report", "cleanup"}]

Request == [op : Ops, jobs : SUBSET Jobs]

TypeOK ==
  /\ status \in [Jobs -> Statuses]
  /\ retries \in [Jobs -> Nat]
  /\ pods \in [Jobs -> [Roles -> PodPhases]]
  /\ req \in [Clients -> Request \cup {None}]
  /\ batch \in [Managers -> [Jobs -> Statuses \cup {None}]]
  /\ \A m \in Managers, j \in Jobs : batch[m][j] \in Target(m) \cup {None}
  /\ cur \in [Managers -> Watch \cup {None}]
  /\ unusual \in [Managers -> SUBSET Jobs]
  /\ gen \in [Managers -> Nat]
  /\ tasks \subseteq Task
  /\ asked \in [Jobs -> SUBSET Grants]
  /\ ops \in Nat /\ faults \in Nat /\ crashes \in Nat

\* What the bounds leave room for: another failed call, another death.
MayFail == faults < MaxFaults /\ faults + crashes < MaxMishaps
MayDie  == crashes < MaxCrashes /\ faults + crashes < MaxMishaps

NoBatch == [j \in Jobs |-> None]

Init ==
  /\ status = [j \in Jobs |-> "unapproved"]
  /\ retries = [j \in Jobs |-> 0]
  /\ pods = [j \in Jobs |-> [r \in Roles |-> "absent"]]
  /\ req = [c \in Clients |-> None]
  /\ batch = [m \in Managers |-> NoBatch]
  /\ cur = [m \in Managers |-> None]
  /\ unusual = [m \in Managers |-> {}]
  /\ gen = [m \in Managers |-> 0]
  /\ tasks = {}
  /\ asked = [j \in Jobs |-> {}]
  /\ ops = 0 /\ faults = 0 /\ crashes = 0

-----------------------------------------------------------------------------
(***************************************************************************)
(* Kubernetes                                                              *)
(***************************************************************************)

Existing(j) == {r \in Roles : pods[j][r] # "absent"}

\* A pod that was running when it was deleted counts as unknown, one that was
\* not ready yet still as pending.
RoleStatus(phase) ==
  IF phase = "Terminating" THEN {"Unknown", "Pending"} ELSE {phase}

\* PythonLauncher.get_job_status looks at the pods that exist, only at them:
\* the answers it can give.
JobStatus(j) ==
  IF Existing(j) = {} THEN {"NotFound"}
  ELSE IF \E r \in Existing(j) \cap LeadRoles : pods[j][r] = "Succeeded"
  THEN {"Succeeded"}
  ELSE LET worst(seen) == CASE "Failed" \in seen  -> "Failed"
                            [] "Unknown" \in seen -> "Unknown"
                            [] "Pending" \in seen -> "Pending"
                            [] OTHER              -> "Running"
       IN  {worst({view[r] : r \in Existing(j)}) :
              view \in {v \in [Existing(j) -> Observations] :
                         \A r \in Existing(j) : v[r] \in RoleStatus(pods[j][r])}}

\* What a delete request makes of a pod: completed pods go at once, others
\* get a deletion timestamp and go later.
Deleted(phase) ==
  IF phase \in {"absent", "Succeeded", "Failed"} THEN "absent"
                                                 ELSE "Terminating"

DeletePods(j) ==
  pods' = [pods EXCEPT ![j] = [r \in Roles |-> Deleted(pods[j][r])]]

\* A pod becomes ready, loses readiness, ends, is evicted: a move of PodMoves.
PodChanges(j, r) ==
  /\ \E move \in PodMoves :
       /\ pods[j][r] = move[1]
       /\ pods' = [pods EXCEPT ![j][r] = move[2]]
  /\ UNCHANGED <<table, manager, budget, req, tasks>>

PodGone(j, r) ==
  /\ pods[j][r] = "Terminating"
  /\ pods' = [pods EXCEPT ![j][r] = "absent"]
  /\ UNCHANGED <<table, manager, budget, req, tasks>>

-----------------------------------------------------------------------------
(***************************************************************************)
(* REST: op_job and _op_jobs_in_one_batch read the status of the jobs,     *)
(* keep those the operation is allowed from, and then write all of these   *)
(* in one UPDATE that does not look at the status again.                   *)
(***************************************************************************)

OpRead(c, op, J) ==
  LET granted == {j \in J : status[j] \in From(op)}
  IN  /\ req[c] = None
      /\ ops < MaxOps
      /\ granted # {}
      /\ req' = [req EXCEPT ![c] = [op |-> op, jobs |-> granted]]
      /\ ops' = ops + 1
      /\ UNCHANGED <<table, manager, faults, crashes, pods, tasks>>

OpWrite(c) ==
  /\ req[c] # None
  /\ status' = [j \in Jobs |->
                  IF j \in req[c].jobs THEN To(req[c].op) ELSE status[j]]
  /\ asked' = [j \in Jobs |->
                 IF j \notin req[c].jobs THEN asked[j]
                 ELSE asked[j] \cup (Grants \cap {req[c].op}) \cup
                      {g \in {"killRunning"} :
                         req[c].op = "kill" /\ status[j] = "running"}]
  /\ req' = [req EXCEPT ![c] = None]
  /\ UNCHANGED <<retries, manager, budget, pods, tasks>>

-----------------------------------------------------------------------------
(***************************************************************************)
(* The job_manager loop                                                    *)
(***************************************************************************)

NewTask(m, j, fn, to) ==
  [pool |-> m, gen |-> gen[m], job |-> j, fn |-> fn, to |-> to,
   pc |-> "wait", left |-> IF fn = "submit" THEN Roles ELSE {}]

\* The tasks of m's own workers: queue.join() waits for these.
Live(m) == {t \in tasks : t.pool = m /\ t.gen = gen[m]}

Take(m, j) == batch' = [batch EXCEPT ![m][j] = None]

FetchNoJoin(m) ==
  /\ batch[m] = NoBatch
  /\ cur[m] = None
  /\ batch' = [batch EXCEPT ![m] =
                 [j \in Jobs |->
                    IF status[j] \in Target(m) THEN status[j] ELSE None]]
  /\ UNCHANGED <<table, cur, unusual, gen, budget, pods, req, tasks>>

\* A new pass: wait_tasks_done, then GetJobList.
Fetch(m) ==
  /\ batch[m] = NoBatch
  /\ cur[m] = None
  /\ Live(m) = {}
  /\ batch' = [batch EXCEPT ![m] =
                 [j \in Jobs |->
                    IF status[j] \in Target(m) THEN status[j] ELSE None]]
  /\ UNCHANGED <<table, cur, unusual, gen, budget, pods, req, tasks>>

DispatchKillAlways(j) ==
  /\ batch["requests"][j] \in {"killing", "pausing"}
  /\ tasks' = tasks \cup {NewTask("requests", j, "kill", "killed")}
  /\ Take("requests", j)
  /\ UNCHANGED <<table, cur, unusual, gen, budget, pods, req>>

DispatchPauseAlways(j) ==
  /\ batch["requests"][j] \in {"killing", "pausing"}
  /\ tasks' = tasks \cup {NewTask("requests", j, "kill", "paused")}
  /\ Take("requests", j)
  /\ UNCHANGED <<table, cur, unusual, gen, budget, pods, req>>

\* A job in killing or pausing becomes a kill task.
DispatchKill(j) ==
  /\ batch["requests"][j] \in {"killing", "pausing"}
  /\ LET desired == IF batch["requests"][j] = "killing" THEN "killed"
                                                        ELSE "paused"
     IN  tasks' = tasks \cup {NewTask("requests", j, "kill", desired)}
  /\ Take("requests", j)
  /\ UNCHANGED <<table, cur, unusual, gen, budget, pods, req>>

\* ApproveJob: a preemptible job always, any other if its VC exists and the
\* user's quota allows. The write does not look at the current status.
Approve(j) ==
  /\ batch["requests"][j] = "unapproved"
  /\ status' = [status EXCEPT ![j] = "queued"]
  /\ asked' = [asked EXCEPT ![j] = @ \cup {"approve"}]
  /\ Take("requests", j)
  /\ UNCHANGED <<retries, cur, unusual, gen, budget, pods, req, tasks>>

\* ApproveJob: over the quota or no such VC, or else an exception.
LeaveUnapproved(j) ==
  /\ batch["requests"][j] = "unapproved"
  /\ \/ j \notin Preemptible /\ UNCHANGED faults
     \/ MayFail /\ faults' = faults + 1
  /\ Take("requests", j)
  /\ UNCHANGED <<table, cur, unusual, gen, ops, crashes, pods, req, tasks>>

\* take_job_actions and schedule_jobs: the verdict `allowed` is a choice.
Schedule(allowed) ==
  LET snap(j)   == batch["queued"][j]
      submits   == {j \in allowed : snap(j) = "queued"}
      preempted == {j \in Preemptible \ allowed :
                      snap(j) \in {"scheduling", "running"}}
  IN  /\ batch["queued"] # NoBatch
      /\ tasks' = tasks
            \cup {NewTask("queued", j, "submit", "scheduling") : j \in submits}
            \cup {NewTask("queued", j, "kill", "queued") : j \in preempted}
      /\ batch' = [batch EXCEPT !["queued"] = NoBatch]
      /\ UNCHANGED <<table, cur, unusual, gen, budget, pods, req>>

(***************************************************************************)
(* UpdateJobStatus, in the managers of running and of scheduling jobs      *)
(***************************************************************************)

\* get_job_status: what is seen is acted on later, with the old snapshot.
Observe(m, j) ==
  /\ cur[m] = None
  /\ batch[m][j] # None
  /\ \E seen \in JobStatus(j) :
       cur' = [cur EXCEPT ![m] = [job |-> j, snap |-> batch[m][j],
                                  seen |-> seen, step |-> "report"]]
  /\ Take(m, j)
  /\ UNCHANGED <<table, unusual, gen, budget, pods, req, tasks>>

Reporting(m, seen) ==
  cur[m] # None /\ cur[m].step = "report" /\ cur[m].seen \in seen

\* The end of UpdateJobStatus for a job that was seen alive.
EndWatch(m) ==
  /\ cur' = [cur EXCEPT ![m] = None]
  /\ unusual' = [unusual EXCEPT ![m] = @ \ {cur[m].job}]

ReportEndRaw(m) ==
  /\ Reporting(m, {"Succeeded", "Failed"})
  /\ status' = [status EXCEPT ![cur[m].job] = cur[m].seen]
  /\ cur' = [cur EXCEPT ![m].step = "cleanup"]
  /\ UNCHANGED <<retries, asked, batch, unusual, gen, budget, pods, req, tasks>>

\* Succeeded, Failed: the status first, the pods after it.
ReportEnd(m) ==
  /\ Reporting(m, {"Succeeded", "Failed"})
  /\ status' = [status EXCEPT ![cur[m].job] =
                  IF cur[m].seen = "Succeeded" THEN "finished" ELSE "failed"]
  /\ cur' = [cur EXCEPT ![m].step = "cleanup"]
  /\ UNCHANGED <<retries, asked, batch, unusual, gen, budget, pods, req, tasks>>

CleanupFailedOnly(m) ==
  /\ cur[m] # None /\ cur[m].step = "cleanup"
  /\ IF cur[m].seen = "Failed" THEN DeletePods(cur[m].job) ELSE UNCHANGED pods
  /\ EndWatch(m)
  /\ UNCHANGED <<table, batch, gen, budget, req, tasks>>

Cleanup(m) ==
  /\ cur[m] # None /\ cur[m].step = "cleanup"
  /\ DeletePods(cur[m].job)
  /\ EndWatch(m)
  /\ UNCHANGED <<table, batch, gen, budget, req, tasks>>

\* The list delete_job returns of the calls that failed is not looked at.
CleanupFails(m) ==
  /\ cur[m] # None /\ cur[m].step = "cleanup"
  /\ MayFail
  /\ faults' = faults + 1
  /\ EndWatch(m)
  /\ UNCHANGED <<table, batch, gen, ops, crashes, pods, req, tasks>>

\* A failed debug job is left alone for a while (an early return: its timer
\* is left alone too).
LeaveForDebug(m) ==
  /\ Reporting(m, {"Failed"})
  /\ cur[m].job \in DebugJobs
  /\ cur' = [cur EXCEPT ![m] = None]
  /\ UNCHANGED <<table, batch, unusual, gen, budget, pods, req, tasks>>

ReportRunning(m) ==
  /\ Reporting(m, {"Running"})
  /\ status' = IF cur[m].snap = "running" THEN status
               ELSE [status EXCEPT ![cur[m].job] = "running"]
  /\ EndWatch(m)
  /\ UNCHANGED <<retries, asked, batch, gen, budget, pods, req, tasks>>

ReportPending(m) ==
  /\ Reporting(m, {"Pending"})
  /\ status' = [status EXCEPT ![cur[m].job] = "scheduling"]
  /\ EndWatch(m)
  /\ UNCHANGED <<retries, asked, batch, gen, budget, pods, req, tasks>>

\* Unknown, NotFound: the first pass starts the job's timer; a later one
\* leaves it running as long as it is younger than 30 seconds.
ReportUnusual(m) ==
  /\ Reporting(m, {"Unknown", "NotFound"})
  /\ unusual' = [unusual EXCEPT ![m] = @ \cup {cur[m].job}]
  /\ cur' = [cur EXCEPT ![m] = None]
  /\ UNCHANGED <<table, batch, gen, budget, pods, req, tasks>>

\* More than 30 seconds after it: kill the job and queue it again.
Resubmit(m) ==
  /\ Reporting(m, {"Unknown", "NotFound"})
  /\ cur[m].job \in unusual[m]
  /\ tasks' = tasks \cup {NewTask(m, cur[m].job, "kill", "queued")}
  /\ EndWatch(m)
  /\ UNCHANGED <<table, batch, gen, budget, pods, req>>

\* An exception in UpdateJobStatus ends the pass: one try around the loop.
AbortPass(m) ==
  /\ cur[m] # None
  /\ MayFail
  /\ faults' = faults + 1
  /\ cur' = [cur EXCEPT ![m] = None]
  /\ batch' = [batch EXCEPT ![m] = NoBatch]
  /\ UNCHANGED <<table, unusual, gen, ops, crashes, pods, req, tasks>>

-----------------------------------------------------------------------------
(***************************************************************************)
(* The py-launcher workers                                                 *)
(***************************************************************************)

Become(t, u) == tasks' = (tasks \ {t}) \cup {u}
GoTo(t, pc)  == Become(t, [t EXCEPT !.pc = pc])
Done(t)      == tasks' = tasks \ {t}

Busy(t) == {u \in tasks : u.pool = t.pool /\ u.gen = t.gen /\ u.pc # "wait"}

\* A worker takes a task from the queue.
Starts(t, fn) ==
  t.fn = fn /\ t.pc = "wait" /\ Cardinality(Busy(t)) < PoolSize

\* submit_job_impl: pods are still there, so delete them and give up for now.
SubmitWaits(t) ==
  /\ Starts(t, "submit")
  /\ Existing(t.job) # {}
  /\ DeletePods(t.job)
  /\ Done(t)
  /\ UNCHANGED <<table, manager, budget, req>>

\* submit_job_impl: SetJobError and return, which leaves the job queued.
SubmitRejected(t) ==
  /\ Starts(t, "submit")
  /\ Existing(t.job) = {}
  /\ t.job \in BadJobs
  /\ Done(t)
  /\ UNCHANGED <<table, manager, budget, pods, req>>

SubmitBeginsUnchecked(t) ==
  /\ Starts(t, "submit")
  /\ t.job \notin BadJobs
  /\ GoTo(t, "clean")
  /\ UNCHANGED <<table, manager, budget, pods, req>>

SubmitBegins(t) ==
  /\ Starts(t, "submit")
  /\ Existing(t.job) = {}
  /\ t.job \notin BadJobs
  /\ GoTo(t, "clean")
  /\ UNCHANGED <<table, manager, budget, pods, req>>

\* create_pods: _cleanup_pods deletes pods of these names, up to the first
\* name that does not exist.
SubmitCleans(t) ==
  /\ t.pc = "clean"
  /\ \E gone \in SUBSET Existing(t.job) :
       /\ Existing(t.job) = Roles => gone = Roles
       /\ pods' = [pods EXCEPT ![t.job] =
                     [r \in Roles |-> IF r \in gone THEN Deleted(pods[t.job][r])
                                                    ELSE pods[t.job][r]]]
  /\ GoTo(t, "create")
  /\ UNCHANGED <<table, manager, budget, req>>

\* create_pods, one pod; the API refuses a name that is in use.
CreatePod(t, r) ==
  /\ t.pc = "create"
  /\ r \in t.left
  /\ pods[t.job][r] = "absent"
  /\ pods' = [pods EXCEPT ![t.job][r] = "Pending"]
  /\ Become(t, [t EXCEPT !.left = @ \ {r},
                         !.pc = IF t.left = {r} THEN "write" ELSE "create"])
  /\ UNCHANGED <<table, manager, budget, req>>

CreateRefused(t, r) ==
  /\ t.pc = "create"
  /\ r \in t.left
  /\ pods[t.job][r] # "absent"
  /\ GoTo(t, "retry")
  /\ UNCHANGED <<table, manager, budget, pods, req>>

CreateFails(t) ==
  /\ t.pc \in {"clean", "create"}
  /\ MayFail
  /\ faults' = faults + 1
  /\ GoTo(t, "retry")
  /\ UNCHANGED <<table, manager, ops, crashes, pods, req>>

WriteScheduling(t) ==
  /\ t.pc = "write"
  /\ status' = [status EXCEPT ![t.job] = "scheduling"]
  /\ Done(t)
  /\ UNCHANGED <<retries, asked, manager, budget, pods, req>>

\* AddandGetJobRetries: the retries are never reset.
CountRetry(t) ==
  /\ t.pc = "retry"
  /\ retries' = [retries EXCEPT ![t.job] = @ + 1]
  /\ IF retries'[t.job] >= MaxRetries THEN GoTo(t, "fail") ELSE Done(t)
  /\ UNCHANGED <<status, asked, manager, budget, pods, req>>

\* The text of the exception is put between quotes: if it holds a quote itself
\* the statement fails, which is only logged, and the job stays as it is.
WriteError(t) ==
  /\ t.pc = "fail"
  /\ \/ status' = [status EXCEPT ![t.job] = "error"]
     \/ UNCHANGED status
  /\ GoTo(t, "sweep")
  /\ UNCHANGED <<retries, asked, manager, budget, pods, req>>

SweepPods(t) ==
  /\ t.pc = "sweep"
  /\ \/ DeletePods(t.job) /\ UNCHANGED faults
     \/ MayFail /\ faults' = faults + 1 /\ UNCHANGED pods
  /\ Done(t)
  /\ UNCHANGED <<table, manager, ops, crashes, req>>

\* kill_job_impl: delete_job, then the status.
KillDeletes(t) ==
  /\ Starts(t, "kill")
  /\ DeletePods(t.job)
  /\ GoTo(t, "report")
  /\ UNCHANGED <<table, manager, budget, req>>

\* Some of delete_job's calls fail: the pods may be gone or not.
KillErrs(t) ==
  /\ Starts(t, "kill")
  /\ MayFail
  /\ faults' = faults + 1
  /\ DeletePods(t.job) \/ UNCHANGED pods
  /\ GoTo(t, "reportError")
  /\ UNCHANGED <<table, manager, ops, crashes, req>>

\* delete_job raises: the worker logs it and the status stays.
KillRaises(t) ==
  /\ Starts(t, "kill")
  /\ MayFail
  /\ faults' = faults + 1
  /\ DeletePods(t.job) \/ UNCHANGED pods
  /\ Done(t)
  /\ UNCHANGED <<table, manager, ops, crashes, req>>

KillReports(t) ==
  /\ t.pc \in {"report", "reportError"}
  /\ status' = [status EXCEPT ![t.job] =
                  IF t.pc = "report" THEN t.to ELSE "error"]
  /\ Done(t)
  /\ UNCHANGED <<retries, asked, manager, budget, pods, req>>

-----------------------------------------------------------------------------
(***************************************************************************)
(* Deaths and the supervisor (cluster_manager.work)                        *)
(***************************************************************************)

\* A killed job_manager loses its memory and the tasks its queue had not yet
\* handed on; its workers live on and finish the rest, unknown to the new one.
Restart(m) ==
  /\ batch' = [batch EXCEPT ![m] = NoBatch]
  /\ cur' = [cur EXCEPT ![m] = None]
  /\ unusual' = [unusual EXCEPT ![m] = {}]
  /\ gen' = [gen EXCEPT ![m] = @ + 1]
  /\ \E dropped \in SUBSET {t \in Live(m) : t.pc = "wait"} :
       tasks' = (tasks \ dropped) \ {t \in Live(m) : t.pc = "lost"}

\* The process dies, or its heartbeat is too old.
ManagerDies(m) ==
  /\ MayDie
  /\ crashes' = crashes + 1
  /\ Restart(m)
  /\ UNCHANGED <<table, ops, faults, pods, req>>

\* A worker dies in the middle of a task: task_done is never called for it.
WorkerDies(t) ==
  /\ MayDie
  /\ t.pc \notin {"wait", "lost"}
  /\ t.gen = gen[t.pool]
  /\ crashes' = crashes + 1
  /\ GoTo(t, "lost")
  /\ UNCHANGED <<table, manager, ops, faults, pods, req>>

SuperviseDeadOnly(m) ==
  /\ \E t \in Live(m) : t.pc = "lost"
  /\ gen[m] > MaxCrashes
  /\ Restart(m)
  /\ UNCHANGED <<table, budget, pods, req>>

\* queue.join() hangs, the heartbeat file gets old, the child is replaced.
Supervise(m) ==
  /\ \E t \in Live(m) : t.pc = "lost"
  /\ batch[m] = NoBatch /\ cur[m] = None
  /\ Restart(m)
  /\ UNCHANGED <<table, budget, pods, req>>

-----------------------------------------------------------------------------

ClientStep(c) ==
  OpWrite(c) \/ \E op \in Ops, J \in SUBSET Jobs : OpRead(c, op, J)

RequestStep(j) == DispatchKill(j) \/ Approve(j) \/ LeaveUnapproved(j)

WatchStep(m) ==
  \/ \E j \in Jobs : Observe(m, j)
  \/ ReportEnd(m) \/ Cleanup(m) \/ LeaveForDebug(m)
  \/ ReportRunning(m) \/ ReportPending(m) \/ ReportUnusual(m) \/ Resubmit(m)

WatchFault(m) == CleanupFails(m) \/ AbortPass(m)

SubmitStep(t) ==
  \/ SubmitWaits(t) \/ SubmitRejected(t) \/ SubmitBegins(t) \/ SubmitCleans(t)
  \/ \E r \in Roles : CreatePod(t, r) \/ CreateRefused(t, r)
  \/ WriteScheduling(t) \/ CountRetry(t) \/ WriteError(t) \/ SweepPods(t)

KillStep(t) == KillDeletes(t) \/ KillReports(t)

TaskFault(t) ==
  CreateFails(t) \/ KillErrs(t) \/ KillRaises(t) \/ WorkerDies(t)

Next ==
  \/ \E c \in Clients : ClientStep(c)
  \/ \E m \in Managers : Fetch(m) \/ ManagerDies(m) \/ Supervise(m)
  \/ \E j \in Jobs : RequestStep(j)
  \/ \E allowed \in SUBSET Jobs : Schedule(allowed)
  \/ \E m \in Watchers : WatchStep(m) \/ WatchFault(m)
  \/ \E t \in tasks : SubmitStep(t) \/ KillStep(t) \/ TaskFault(t)
  \/ \E j \in Jobs, r \in Roles : PodChanges(j, r) \/ PodGone(j, r)

Spec == Init /\ [][Next]_vars

\* Every loop, every pool of workers and the supervisor keep running, time
\* passes and Kubernetes completes deletions. Clients, verdicts of the
\* scheduler, pods, faults and deaths are under no obligation.
Fairness ==
  /\ \A m \in Managers :
       /\ WF_vars(Fetch(m))
       /\ WF_vars(\E t \in tasks : t.pool = m /\ (SubmitStep(t) \/ KillStep(t)))
  /\ WF_vars(\E j \in Jobs : RequestStep(j))
  /\ WF_vars(\E allowed \in SUBSET Jobs : Schedule(allowed))
  /\ \A m \in Watchers : WF_vars(WatchStep(m))
  /\ WF_vars(\E m \in Managers : Supervise(m))
  /\ SF_vars(\E m \in Watchers : Resubmit(m))
  /\ \A j \in Jobs, r \in Roles : WF_vars(PodGone(j, r))

FairSpec == Spec /\ Fairness

-----------------------------------------------------------------------------
(***************************************************************************)
(* Properties                                                              *)
(***************************************************************************)

\* A job is reported killed only if a kill was granted for it at some time,
\* whatever snapshots, tasks and restarts lie between the request and the
\* write: pausing, preempting or re-submitting a job never ends in "killed".
KilledOnlyOnRequest ==
  \A j \in Jobs : status[j] = "killed" => "kill" \in asked[j]

\* A job is reported paused only if a pause was granted for it.
PausedOnlyOnRequest ==
  \A j \in Jobs : status[j] = "paused" => "pause" \in asked[j]

\* No pod exists for a job that neither ApproveJob nor an administrator has
\* approved: pausing and resuming, requeueing, stale snapshots and orphaned
\* workers open no way around the approval.
NoPodsBeforeApproval ==
  \A j \in Jobs : Existing(j) # {} => "approve" \in asked[j]

\* The grant a status rests on. An error can come without any: the kill that
\* fails may be that of a job which was never approved.
Needs(s) ==
  {g \in Grants :
     \/ g = "kill"    /\ s \in {"killing", "killed"}
     \/ g = "pause"   /\ s \in {"pausing", "paused"}
     \/ g = "approve" /\ s \in {"queued", "scheduling", "running", "finished",
                               "failed"}}

StatusGranted == \A j \in Jobs : Needs(status[j]) \subseteq asked[j]

SnapshotsGranted ==
  \A m \in Managers, j \in Jobs :
    batch[m][j] # None => Needs(batch[m][j]) \subseteq asked[j]

WatchesGranted ==
  \A m \in Managers : cur[m] # None => "approve" \in asked[cur[m].job]

TasksGranted ==
  \A t \in tasks : Needs(t.to) \subseteq asked[t.job]

\* Wherever a status is kept, in the table, in a snapshot, in a job under
\* watch or in a task that will write it, the request or the approval it rests
\* on was granted, and pods exist only for approved jobs. This is what makes
\* the three properties above hold in spite of stale and orphaned writers.
Provenance ==
  /\ StatusGranted
  /\ SnapshotsGranted
  /\ WatchesGranted
  /\ TasksGranted
  /\ NoPodsBeforeApproval

\* wait_tasks_done and the pass over a snapshot keep the workers of one
\* process apart: they never work on two tasks of the same job.
OneTaskPerJob ==
  \A m \in Managers : \A t, u \in Live(m) : t.job = u.job => t = u

\* Why that is so. A job is in one place of a process at a time: in the
\* snapshot, under watch, or in one task; an orphaned task belongs to an
\* earlier generation.
GenerationsPassed == \A t \in tasks : t.gen <= gen[t.pool]

TasksDistinct ==
  \A t, u \in tasks :
    t.pool = u.pool /\ t.gen = u.gen /\ t.job = u.job => t = u

TasksTaken ==
  \A m \in Managers : \A t \in Live(m) :
    batch[m][t.job] = None /\ (cur[m] # None => cur[m].job # t.job)

WatchesTaken == \A m \in Managers : cur[m] # None => batch[m][cur[m].job] = None

OnePlacePerJob ==
  GenerationsPassed /\ TasksDistinct /\ TasksTaken /\ WatchesTaken

\* Until the manager of queued jobs is restarted, a submission only creates
\* pods beside pods of its own: those of an earlier attempt are gone.
OneGangPerJob ==
  gen["queued"] = 0 =>
    \A t \in tasks :
      t.fn = "submit" /\ t.pc \in {"clean", "create"} =>
        Existing(t.job) \subseteq Roles \ t.left

\* The managers owe a job something: its kill or pause was granted, or it
\* counts as alive although its pods are gone.
Owed(j) ==
  \/ status[j] \in {"killing", "pausing"}
  \/ status[j] \in {"running", "scheduling"} /\ Existing(j) = {}

\* No job is forgotten: requests are worked off and vanished jobs noticed, over
\* failed calls, dead workers (a hung queue.join()) and restarts.
NothingForgotten == \A j \in Jobs : Owed(j) ~> ~Owed(j)

\* The order of the statuses when no request interferes (job_state_change_
\* histogram: created -> approved -> scheduling -> running), with the ways
\* back of a lost or preempted job.
Pipeline ==
  {<<"unapproved", "queued">>, <<"queued", "scheduling">>, <<"queued", "error">>,
   <<"scheduling", "running">>, <<"running", "scheduling">>} \cup
  ({"scheduling", "running"} \X {"finished", "failed", "queued", "error"})

\* Without requests and restarts each status has one manager, so that no
\* write of a manager or of a worker hits a job that another one has moved
\* on: nothing is skipped, repeated or undone, and an ended job stays ended.
PipelineOrder ==
  [][\A j \in Jobs \ Preemptible :
       ops = 0 /\ crashes = 0 /\ status'[j] # status[j] =>
         <<status[j], status'[j]>> \in Pipeline]_vars

\* A job that ends by itself gives its pods back, if no call fails and no
\* process dies on the way, whatever request or stale submission it meets.
EndedJobsRelease ==
  \A j \in Jobs :
    status[j] \in {"finished", "failed"} ~>
      \/ Existing(j) = {} \/ status[j] \notin {"finished", "failed"}
      \/ faults + crashes > 0

\* What the tests of the job manager assert: a kill of a running job ends in
\* "killed".
KillOfRunningJobEndsKilled ==
  [][\A j \in Jobs :
       "killRunning" \in asked[j] /\ status[j] = "killing" =>
         status'[j] \in {"killing", "killed"}]_vars

=============================================================================
