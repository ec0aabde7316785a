# A TLA+ verification project for DLWorkspace

DLWorkspace runs deep-learning jobs on a Kubernetes cluster. Users submit and
control jobs over a REST API; the state of each job is one row of a MySQL table;
a set of loops (the *cluster manager*) moves rows and pods towards each other.
This directory holds TLA+ models of that machinery, TLC configurations that
check them on small instances, and theorems about them that TLAPS has checked.

Paths below are relative to the repository.

## 1. Inventory

| component | state | operations | talks to |
|---|---|---|---|
| REST API (`src/RestAPI`, `src/utils/JobRestAPIUtils.py`) | none of its own but caches | submit, kill, pause, resume, approve (single and batch), priorities, endpoints, VCs | jobs table |
| job managers (`src/ClusterManager/job_manager.py`) | per process: the snapshot of a pass, `UnusualJobs`, a queue | four processes, one per status filter: `killing,pausing,unapproved`, `running`, `scheduling`, `queued` | jobs table, launcher, Kubernetes |
| py-launcher (`src/ClusterManager/job_launcher.py`) | a `JoinableQueue`, 3 worker processes per job manager | `submit_job_impl`, `kill_job_impl`, `get_job_status`, `delete_job` | jobs table, Kubernetes |
| scheduler (`take_job_actions` in `job_manager.py`) | none between passes | sort, mark non-preemptible, mark preemptible, submit or preempt | cluster status, launcher |
| cluster manager (`src/ClusterManager/cluster_manager.py`) | its child processes, their heartbeat files | start, replace a dead or silent child | the managers |
| `MySQLDataHandler.py` | the tables | one statement per call, committed at once; `AddandGetJobRetries` two | MySQL |
| endpoint manager (`endpoint_manager.py`) | the endpoints JSON of each job | start, repair and stop ssh, ipython, tensorboard endpoints | REST API, job managers and launcher workers through the table, Kubernetes |
| user, node, joblog, db managers | caches, logs | periodic refresh | table, Kubernetes |
| RepairManager and its agent | rule cache file, etcd keys | detect ECC errors, cordon, mail, reboot | REST API, Kubernetes, etcd |
| storage manager, user synchronizer, reaper, job insighter, watchdog, exporters | - | periodic scripts | REST API, file system |
| jobs page of the dashboard (`src/dashboard`) | tables as drawn, check marks, dialogs | poll, check, pause, resume, approve, kill | REST API |
| init container, templates, the other pages, portals, deployment | - | pod start-up, user interface, installation | - |

What is hard here, and where the properties come from:

* **One row, many writers, no lock.** Every writer of `jobStatus` reads the row
  at one time and writes it, unconditionally, at another: the REST operations
  (`JobRestAPIUtils.py:461-482`), `ApproveJob` (`job_manager.py:202-208`),
  `UpdateJobStatus` (`:323-426`), `submit_job_impl` (`job_launcher.py:1125-1132`),
  `kill_job_impl` (`:1181-1193`).
* **Snapshots.** Each job manager works through a list fetched at the start of
  its pass; the workers carry out tasks made from such a list even later.
* **Partial failure.** Pods are created one after the other, deletions return a
  list of errors that some callers drop, one exception ends a whole pass.
* **A column for many endpoints.** `UpdateEndpoint` and `UpdateEndpoints` read a
  JSON object, change a part of it and write all of it back: the REST API, the
  endpoint manager, the job managers that re-submit a vanished job
  (`job_manager.py:401-409`) and every submission (`job_launcher.py:1013-1022`).
* **Two actors and a key.** The repair manager and the agent on a node know of
  each other only what is in etcd, in the cache and in the latest sample.
* **A page that redraws itself** under the user's hands.
* **Death.** The supervisor kills a job manager but not its workers; a worker
  that dies leaves `queue.join()` waiting for ever.

The full list of hazards, each at its line and with the properties that would
catch it, is in `PROJECT.json`; so is the list of components with their status.

Correctness, by component:

* job lifecycle: a status is only ever reached with the request or approval it
  rests on; no pods without approval; tasks of one job do not overlap within a
  manager; the pods of two attempts do not mix; kills, pauses and vanished jobs
  are worked off; without interference the order of statuses is kept.
* scheduler: no VC and no cluster is over-committed by what is allowed;
  non-preemptible jobs come first; a pass over an unchanged cluster changes
  nothing.
* the contract: seen from outside, a job moves only as its user, the approval
  and the reports that these cover allow.
* endpoints: an endpoint that was asked for is served, follows the pod, and is
  closed when, and only when, the job is dead.
* jobs page: only the jobs the user meant are operated; the page comes to show
  what the table holds.
* repair: a node is not rebooted under a job nor put back without a boot; a
  cordoned node comes back.

## 2. Modules

In the order in which they were written, the most important behaviour first:

1. `JobLifecycle`: the jobs table, the managers, the workers, Kubernetes, the
   supervisor. Proofs in `JobLifecycleProofs` and `JobTasksProofs`.
2. `JobScheduler`: the passes of `take_job_actions`. Proofs in
   `JobSchedulerProofs` and `JobGreedyProofs`.
3. `JobContract`: what a user is promised of a job, without processes and
   failures. `JobRefinement` maps `JobLifecycle` to it, `JobRefinementProofs`
   proves that it is implemented.
4. `EndpointManager`: the endpoints of a job. Proofs in `EndpointProofs`.
5. `JobsPage`: the jobs page of the dashboard, down to `op_jobs`. Proofs in
   `JobsPageProofs`.
6. `RepairManager`: the two ECC rules and the agent. Proofs in `RepairProofs`.

The modules meet in the jobs table. `JobScheduler` refines the choice
`Schedule(allowed)` of `JobLifecycle`; `EndpointManager`, `JobsPage` and
`RepairManager` see a job as `JobLifecycle` moves it, reduced to the statuses their
code tells apart. Each `MC` module adds the model values of its configurations.

Left for later, should the project grow: the arithmetic of `cluster_status.py` and
`virtual_cluster_status.py` composed with `JobScheduler`; approval with the sum of
a user's quota; the VC cache of the REST processes; a proof that a verdict of
`JobScheduler` is a step of `JobLifecycle!Schedule`.

## 3. `JobLifecycle`

### State

| variable | code |
|---|---|
| `status`, `retries` | columns `jobStatus`, `retries` of the jobs table |
| `pods` | the pods labelled `run=<job id>`, one per role, with their phase |
| `req` | a REST operation between its read and its write |
| `batch[m]` | the rows `GetJobList` returned to manager `m`, less those done |
| `cur[m]` | the job `UpdateJobStatus` is working on, the row it was given, what `get_job_status` answered, and whether the final status is already written |
| `unusual[m]` | `UnusualJobs`: jobs whose timer runs |
| `gen[m]` | how often process `m` was replaced (tells its workers from orphans) |
| `tasks` | the queue entries and what the workers have in hand, with a program counter |
| `asked` | history: the grants given for a job |
| `ops`, `faults`, `crashes` | what is used of `MaxOps`, `MaxFaults`, `MaxCrashes`, `MaxMishaps` |

### Actions and code

| actions | code |
|---|---|
| `OpRead`, `OpWrite` | `op_job`, `_op_jobs_in_one_batch`: read and filter, then one UPDATE |
| `Fetch` | `wait_tasks_done` and `GetJobList` at the start of a pass |
| `DispatchKill`, `Approve`, `LeaveUnapproved` | the loop of the manager of requests; `ApproveJob` |
| `Schedule(allowed)` | `take_job_actions`; its verdict is any set of jobs |
| `Observe`, `ReportEnd`, `Cleanup`, `CleanupFails`, `LeaveForDebug`, `ReportRunning`, `ReportPending`, `ReportUnusual`, `Resubmit` | `UpdateJobStatus`, cut where another process can come in between |
| `AbortPass` | the `except` around the loop of a pass |
| `SubmitWaits` ... `SweepPods` | `submit_job_impl`, step by step, with `create_pods` and the retries |
| `KillDeletes`, `KillErrs`, `KillRaises`, `KillReports` | `kill_job_impl` |
| `ManagerDies`, `WorkerDies`, `Supervise` | deaths of processes and `cluster_manager.work` |
| `PodChanges`, `PodGone` | Kubernetes (external): the moves are the constant `PodMoves` |

A step of the model is what the code does between two points where another
process can be seen: one SQL statement or one call of the Kubernetes API. The
read of `AddandGetJobRetries` follows its update in a transaction of its own; no
two workers count for one job within one process, so it is one step.

Abstracted: the parameters and resources of a job; the user quota (`Approve` or
`LeaveUnapproved`); the order of jobs within a pass (any order); the 30 seconds
of `UnusualJobs` (a second observation may or may not be late enough);
secrets, services, config maps, deployments of inference jobs, mails, logs, job
details, endpoint resets. "Pending" also stands for a pod that runs without
being ready; a pod that is being deleted is seen as unknown or as pending,
as its phase at deletion makes `JobRole.status` say. The handler of a failed
creation uses `e.message`, which Python 3 exceptions do not have, so that control
reaches the outer handler that counts a retry: this is what `CreateFails` and
`CreateRefused` do. Failures of MySQL are not modelled, with one exception: the text of
an exception is put between single quotes in the UPDATE that sets `error`, so that a
text with a quote makes the statement fail, which is only logged. The job stays as it
is and is submitted again; whether the write of `WriteError` takes place is a free choice.

### Runs (module `MCJobLifecycle`)

| run | instance | question |
|---|---|---|
| `JL_requests` | 1 job (preemptible, debug), 2 requests in flight | do statuses and pods always rest on a grant? can a preemption end in "killed"? |
| `JL_restart` | 1 job of ps and worker, 1 request, 1 failed call or death | are tasks kept apart? can pods of two attempts mix? |
| `JL_pipeline` | 2 jobs (one without template), 1 worker, 1 batch request, 1 fault | is the order of statuses kept? does the inductive invariant hold? |
| `JL_progress` | 1 job, 1 request, 1 failed call or death, fair | are kills, pauses and vanished jobs worked off, also with a hung manager? do ended jobs give their pods back? |
| `JL_lostkill` | violation | a kill of a running job must end in "killed" (`test_regular_job.py:127-128`) |

Bounds. `MaxRetries` is 1 or 2 instead of 5 and `PoolSize` 1 or 2 instead of 3:
the first failure that is retried and the one that is not, and a worker beside
another, all occur. One request suffices to meet a stale pass, two to undo each
other. Jobs interact only through the pool of workers, through batches and
through an exception that ends a pass, so two are enough. `MaxMishaps` bounds
failed calls and deaths together: each run with mishaps takes one, of any kind,
at any time. What pods do by themselves (`PodMoves`) differs by run: they
fail in `JL_requests`, are evicted in `JL_restart` and `JL_pipeline`, succeed or are
evicted in `JL_progress`, and do all that in `JL_lostkill`.

Fairness. `Fetch`, the steps of the managers and of the workers, and `Supervise`
are weakly fair: these are loops of operating-system processes that are always
runnable. `Resubmit` (of one of the two watchers) is strongly fair: a vanished job is looked at again and
again, and 30 seconds do pass. `PodGone` is weakly fair: Kubernetes completes a
deletion. Requests, verdicts of the scheduler, changes of pods, faults and deaths
are under no fairness.

What the runs found. `JL_lostkill`: a manager that has observed a job writes
`scheduling`, `running`, `finished` or `failed` over the `killing` granted in
between; the request is lost without notice. The test of the job manager asserts the
opposite. The same stale write can bring a preempted job from `queued` back
to `running`.

## 4. `JobScheduler`

The passes of one process, the manager of queued jobs, over the jobs of the
whole cluster. `JobLifecycle` follows each job closely and leaves open which jobs a
pass allows; this module follows the pass closely and knows four statuses:
"queued", "scheduling", "running", which its query asks for, and "away" for all
others. A task is one step here; how it fails halfway is in `JobLifecycle`.

### State

| variable | code |
|---|---|
| `status`, `lastUpdated`, `priority` | columns of the jobs table |
| `cluster_status` | the latest row of the cluster status table |
| `clock` | the time, in the seconds that `lastUpdated` is kept in |
| `phase` | which statement of `Run` and `take_job_actions` is next |
| `rows` | the list `jobs`, per job; its order is that of `jobTime`, latest first |
| `jobs_info`, `pos` | the sorted list, and where the loop over it is |
| `cluster_schedulable`, `vc_schedulables` | the variables of that name |
| `allowed` | the jobs whose `allowed` is True |
| `tasks` | submissions and kills not yet carried out; `own` is FALSE for those of a process that was replaced |
| `given`, `last` | history: what this pass started from; the verdict of the pass before |
| `moves`, `faults`, `crashes` | what is used of `MaxMoves`, `MaxFaults`, `MaxCrashes` |

### Actions and code

| actions | code |
|---|---|
| `Fetch` | `wait_tasks_done`, `GetJobList` |
| `GetClusterStatus` | `GetClusterStatus`, `get_cluster_schedulable`, `get_vc_schedulables` |
| `SortJobs` | `get_jobs_info`, with a query of its own for the priorities, which leaves out jobs that ended since and, when it fails, all |
| `MarkNonPreemptible`, `MarkPreemptible`, `NextLoop` | the two marking loops, one job at a time |
| `ScheduleJob`, `EndPass` | `schedule_jobs` |
| `AbortPass` | an exception in `take_job_actions`: no cluster status, or one job whose parameters cannot be read |
| `TaskDone`, `TaskFails` | `submit_job_impl`, `kill_job_impl`: their last write |
| `Restart` | `cluster_manager.work`; the workers of the old process finish what they have |
| `Queue`, `Leave`, `Observed`, `Vanished`, `SetPriority`, `UpdateClusterStatus` | the REST API, the other managers, `node_manager`, at any time between those steps |
| `StaleReport` | the write of an old observation that `JobLifecycle` shows to occur |

Abstracted. Several SKUs: every operation of `ResourceStat` works on each SKU
alone, so one is kept. Amounts are integers in hundredths, so that the 95% of
`discount_cluster_resource` are exact; the rounding of floats is not modelled.
The sort key is a tuple where the code has a string of four fields; the fields have
constant width (`{:06d}` of a priority that the API keeps within its ranges, and
epoch seconds), so that the order is the same. A stable sort keeps the order of the query
among equal keys: the fifth component. When `GetJobList` fails it returns no
rows, and the pass does nothing: like an `AbortPass`.

### Runs (module `MCJobScheduler`)

| run | instance | question |
|---|---|---|
| `JS_verdict` | 3 jobs, 2 VCs, 2 resources, 3 cluster statuses, 2 priorities, 2 moves | is the verdict the greedy one? is anything refused or preempted that fits? |
| `JS_rivals` | 3 jobs that fit only one at a time, 3 moves, 1 fault, 1 crash | does what is scheduled fit, whatever happens between reads and writes? does the next pass undo the verdict of this one? |
| `JS_room` | 2 jobs that fit only one at a time, 2 moves, 1 fault, 1 crash, fair | is room used? |
| `JS_submission` | violation | early submissions come first (`job_manager.py:536`, `:677`) |

`GreedyVerdict` compares the result of the loops, with their truncated
subtractions and shared amounts, with a definition that has no loop: a job is allowed
exactly if the total of the allowed jobs ahead of it and itself fits.

`NoThrash` is about two passes in a row. The sort key holds the status and the
time of the last change; both are changed by the tasks of the first pass. That
running jobs come before scheduling ones, and these before queued ones, is what
keeps the verdict; the mutant without it thrashes. Where another actor
intervened since the first pass fetched its jobs (`moves` has grown) nothing is claimed.
The jobs of the run that are of one kind have different times of submission, and that
is needed: with the times of `JS_rivals` all equal TLC finds a counterexample. A task
is lost in a restart, the next pass reads two jobs alike in every field of the key in
the other order, and the other one is allowed. `PassesAgree` therefore assumes
`TimesApart`.

`NoOvercommit` has conditions, and each is needed. The cluster must stay as
it is: after a drop of capacity running jobs that are not preemptible are refused but
go on, and their resources are given to others. No task may fail or be orphaned.
While tasks are handed out the submissions may be ahead of the preemptions that
make room for them; Kubernetes keeps such pods pending.

Bounds. Three jobs are two rivals of one class and one of the other. The
capacities are chosen so that not all fit and different subsets do. The clock
has no tick in `JS_room` and one elsewhere, on top of the two times of submission: jobs
of the same second and of different ones. Passes are not counted, so that every
run has several with their tasks.

Fairness. `Pass` is weakly fair: the loop of `Run` goes on for ever. A task in a
queue is weakly fair: three workers take from it. Nothing else is.

What the runs found. `JS_submission`: the list is sorted by `lastUpdated`, set by
approvals and by every kill to "queued", so a job goes behind
those submitted after it. Two comments call this the time of submission.

## 5. `JobContract` and `JobRefinement`

`JobContract` has three variables: the `status` of each job as the API shows it,
the requests `granted` for it, and the jobs `holding` pods. A grant moves all jobs of
a request at once, whatever became of them in between; a manager may report only
a status that the grants of the job cover, and never one that a request sets
(`unapproved`, `pausing`, `killing`); pods come only after an approval; a step
changes the table or the pods, never both.

`JobRefinement` maps `JobLifecycle` to it: `granted` is the history `asked`, without the
mark that a kill met a running job, and a job holds pods while one of them exists in
whatever phase. Snapshots, tasks, timers, generations and retries are
invisible. `ImplementsContract` is checked in `JL_pipeline`, and its mutant is a
dispatch that pauses what should be killed. The mapping is not trivial where
the code is stale: a task writes "killed" long after the request, from a snapshot, in
a process that may have been replaced; that the grant is still there is the invariant
`Provenance`.

## 6. `EndpointManager`

One job, its pod, and the column `endpoints` of its row, which holds a record for
each endpoint. A *place* is a node together with the port that the pod's ssh server
has on it.

### State

| variable | code |
|---|---|
| `stored` | the column: per endpoint `status`, `nodeName`, `podPort` |
| `edit[w]` | the column that an `UpdateEndpoint` of writer `w` has read and changed and is about to write, and the endpoint it is about |
| `rest[c]` | the same for `UpdateEndpoints` of the REST API |
| `reset[w]` | a job manager (`Watchers`) or a launcher worker (`Submitters`): the job is in its snapshot or task, then the records it is setting to pending |
| `round` | the endpoint manager: the phase of `Run`, the records it has still to look at, the place of the pod as listed, the endpoint whose server it is starting |
| `job`, `pod`, `old`, `up`, `svc` | the job's status ("dead" for all but queued, scheduling and running), its pod, whether that is older than an hour, the servers in it, the NodePorts |
| `wasDead`, `leaked` | history: the job was dead at some time; the endpoints whose NodePort could not be deleted |

### Actions and code

| actions | code |
|---|---|
| `AskRead`, `AskWrite`, `AskFails` | `UpdateEndpoints`, `JobRestAPIUtils.py:1371-1525` |
| `Fetches`, `WatchEnds`, `SubmitWaits` | `GetJobList` of a pass, or the task made from it; a pod that is there; a submission that finds old pods deletes them and gives up for now |
| `ResetBegins`, `ResetOne`, `Resubmitted` (watchers) | `UpdateJobStatus` for a vanished job, `job_manager.py:389-414`, `kill_job` |
| `ResetBegins`, `ResetOne`, `Submitted`, `SubmitFails` (submitters) | `submit_job_impl`, `job_launcher.py:1001-1132`: the reset, then the pod, then the status |
| `UpdateWrites` | the second half of `UpdateEndpoint`, `MySQLDataHandler.py:1187-1203` |
| `RoundBegins`, `StartSkipped`, `StartSeen`, `StartServer`, `StartPort`, `StartEnds` | `start_endpoints`, `start_endpoint` |
| `FixKept`, `FixReset`, `FixEnds` | `fix_endpoints`, `is_need_fix` |
| `Clean` | `cleanup_endpoints` |
| `OneFails`, `ReadFails`, `ResetUnread`, `CheckFails`, `DeleteFails`, `ListFails` | statements and calls that fail: the `except` clauses, and the empty column that `GetJobEndpoints` returns |
| `ManagerDies`, `ResetterDies` | a process dies or is replaced (`cluster_manager.work`) |
| `JobRuns`, `JobChanges` ... `ServerDies`, `Preempted` | the job, its pod and its servers, moved by the other managers, by Kubernetes and by themselves |

A watcher and a submitter act on a snapshot: `Fetches` needs the status of the query,
nothing after it looks at the status again. So a watcher may reset the records of a job
that is dead by now, and a submission of an older pass creates the pod of a job that
was killed and writes "scheduling" over it. The reset sets every record to pending, one
that is running or was stopped as well, one `UpdateEndpoint` after the other.

Abstracted: other jobs (their endpoints are in other rows); ports opened by number,
which have no server of their own; the pods of a distributed job one by one; the pod
names of the framework controller. `JobChanges` lets any status be written at any time, as
managers write what they saw earlier (section 3); which of these writes occurs when is
in `JobLifecycle`.

### Run `EM_rounds`

Two endpoints (ssh, which a job may start by itself, and jupyter), two places, one
watcher and one submitter, up to three moves of the job and its pod (`Fetches` is one of
them), one request, one failed call or death (`MaxMishaps`), and four of these events at
most (`MaxEvents`). Three moves are a preemption, the task of the submission and a
change meanwhile, or a pod that is lost, the pass that sees it and a status written
meanwhile; with one event more, a request, a failure or a death meets them at any point.
Steps of the managers are not counted. The run has 892 thousand states.

* `StoppedWasDead`: no endpoint of a job that was queued, scheduling or running all along
  is ever stopped, whatever old columns and records its writers write back.
* `PendingServed`: a pending endpoint of a running job with a pod does not stay so.
* `RecordFollowsPod`: a running endpoint does not lead for ever to a place the pod
  has left or to a server that is down, until the pod is an hour old. Submissions reset the records before the
  pod is created; the property is about what is left when that reset was not carried out
  (`ResetUnread`), failed, or was undone by a writer with an older column.
* `DeadEndpointsClosed`: the running endpoints of a dead job are stopped and their
  NodePorts deleted, over failed calls and deaths, unless the deletion of that NodePort
  itself failed (`leaked`) or another writer sets the record to pending or drops it.

Fairness: the loop of the endpoint manager (`RoundStep`), nothing else. Jobs, pods,
servers, users, requests and resets that were begun are under no fairness. That an event
happens again and again is shut out by the bounds, not by fairness.

Every condition in these properties stands for a behaviour that the model has
shown to exist:

* a record that is running without `nodeName` or `podPort` raises in `is_need_fix`,
  counts as in order and is never repaired; one of jupyter or tensorboard whose pod is
  gone when its server is looked for counts as in order in that round;
* pods older than an hour are not looked at;
* a write of an old column sets a running record back to pending, or drops an endpoint
  that was added in between; a failed read within `UpdateEndpoint` is taken for an empty
  column, and the write that follows drops all other endpoints of the job;
* `GetDeadEndpoints` takes only running records: a NodePort whose record is
  pending when the job dies, by the reset of a submission made from an older snapshot
  for instance, or that is created just after `delete_job`, stays;
* when `delete_k8s_endpoint` fails the record is stopped all the same;
* an endpoint that a pause has stopped becomes pending again with the next submission
  of the job, not with a request, which leaves alone what is in the column.

## 7. `JobsPage`

### State and code

| variable or action | code |
|---|---|
| `rows` | per table the rows as drawn, with `tableData.checked`; `JobsTable/index.tsx:60-70` |
| `poll`, `Asked`, `Drawn`, `PollFails`, `DrawnEmpty` | the timed request of `MyJobs.tsx`; a failed query of the REST API answers with no jobs at all |
| `Merge` | `zipWith` of the old rows and the new ones |
| `Toggled` | a check mark of a row |
| `BatchClicked`, `RowClicked`, `No`, `Yes` | `useBatchActions.ts`, `useActions.ts`, `useConfirm.tsx` |
| `Applied`, `Failed`, `Accepted` | `status.post.js`, `op_jobs` in batches of `BatchSize`, and the answer |
| `status`, `Moved`, `Onward`, `Setbacks` | the jobs table, and what the managers do to it |
| `click[k].unmark` | the jobs `deselectAllJobs` will uncheck; none after a poll was drawn, for the rows of the click are then no longer the page's |
| `picked`, `moved` | history: what the user has checked; a mark has come to another job's row |

Abstracted: "queued" also stands for scheduling and "over" for killing and all final
statuses, which no table with buttons shows; a submission is a job that comes to a
table; the race between reading and writing within `op_job` is in `JobLifecycle`.

### Run `JP_page`

Two jobs, the operations pause and kill, batches of one job, and two events
(`MaxEvents`): two clicks, or two of a click, one failed request, poll or query, and one
setback of a job. Two jobs suffice for a mark to
move to another row, for a batch that is applied by halves, and for a table that
vanishes. `Onward` moves of the jobs are bounded by their statuses. `Setbacks` are all
others the managers make: a job that is preempted or vanished is queued anew, one that is
queued or paused ends, a report of an older pass is written over a pause or a kill; one of them
(`MaxSetbacks`) brings a job back to a table it has left. Polls are not bounded. The run
has 1.0 million states.

* `OnlyPickedAreOperated`: whatever is drawn between a check, a click, a confirmation and
  each batch, no other jobs change than those the user had checked when he clicked, as
  long as no mark has moved. The jobs are those of the click, not of the page.
* `PageCatchesUp`: once statuses no longer change, each job is shown with its status in its
  table and in no other, after failed and empty answers.

Fairness: the timer of the page (`Asked`, `Drawn`). The user is under none.

What the condition of the first property stands for: marks are kept by index. When a
job leaves a table while one below it is checked, the mark is on another job's row
at the next poll. Other behaviours the model has: the marks stay after an accepted batch if a
poll was drawn in between (`deselectAllJobs` works on the rows of the click); an empty
answer of a failed query looks like success; a batch of which a part was applied may end
in an error; a batch is accepted although each of its jobs was refused; the `ORDER BY` within
a `UNION` is without effect, so rows come in any order.

The rows of a table are given by what they are, an enumeration of the jobs with its
statuses (`Listed`) and the checked places from top to bottom (`Downwards`), where the code
filters lists; so nothing in the module is recursive and `JobsPageProofs` can follow it.

## 8. `RepairManager`

### State

| variable | code |
|---|---|
| `ecc`, `up`, `boots` | per node: an uncorrectable error, whether it runs, how often it has booted |
| `seen` | the latest samples Prometheus has of a node: the error and the boot time, two series of two exporters, either of which may be older than the other |
| `cordoned` | `spec.unschedulable` of a node |
| `job`, `place` | the status of each job, and the node its pods are on |
| `cache` | the rule cache: `time_found`, whether the days to wait have passed, `reboot_requested` |
| `key`, `agent` | the reboot key in etcd; the agent has taken it and will reboot |
| `mgr` | the step of the rule, the nodes still to do, the nodes chosen, the nodes each job is to leave |
| `cordonedAt`, `lapse`, `stranded` | history: the boots of a node at its cordon; a cordon failed or a reboot request may be left over; a node was given up with its cordon in place |

Time is counted in boots: `time_found` is the count of boots when the error was
found, and a boot time is later than it exactly if the count is higher. The cache is
dumped at each change and read at a restart, so one variable stands for both.

A node that goes down takes nothing else along: its pods stay listed until they are evicted
(`PodsGone`, which may also befall a node that is up), and a job that has lost its pods
is queued anew at some later time (`JobRequeued`).

### Actions and code

| actions | code |
|---|---|
| `Detect`, `CordonOne`, `CordonFails`, `Alerted`, `StoreOne` | `ecc_detect_error_rule.py`, `cordon_action.py` |
| `Resolve`, `UncordonOne`, `UncordonFails`, `Resolved` | `check_for_rebooted_nodes_and_uncordon` |
| `Check` | `check_for_nodes_with_no_jobs` and the nodes that have waited long enough |
| `Pause`, `Waited`, `Resume`, `Migrated` | `migrate_jobs_and_alert_job_owners`, `migrate_job_action.py` |
| `PauseRefused`, `PauseFails`, `ResumeRefused`, `ResumeFails`, `GivesUp` | attempts that are refused, that all fail without an effect or with one of which the answer is lost, or that last too long |
| `Put`, `PutFails`, `PutUnanswered`, `Record` | `reboot_bad_nodes`, `reboot_node_action.py` |
| `RuleFails`, `ManagerDies` | the `except` around a rule; a restart of the process |
| `AgentTakes`, `KeyKept`, `AgentReboots`, `AgentDies` | `src/RepairManagerAgent/main.py`, `commands.py` |
| `ErrorStrikes`, `NodeCrashes`, `NodeBoots`, `ScrapedErrors`, `ScrapedBoot`, `TimePasses`, `JobPlaced` ... `JobRequeued` | nodes, Prometheus, the clock, jobs |

### Run `RM_repair`

Two nodes, one job that may have several pods on one node, two errors and one
mishap. Two nodes are the one in error and the one a job can move to, or both in error, so
that a loop is ended by the first of them. One mishap is any failed call, lost
answer, death, crash or user who resumes a job, at any time. A boot after which the
series of errors still shows the old one is counted with the errors, for it leads to one more
cordon and reboot. The run has 601 thousand states.

* `NoJobRebooted`: no agent reboots a node under a job, unless a cordon failed or a
  key was left over.
* `UncordonNeedsBoot`: the manager uncordons a node only if it has booted since its
  cordon, with restarts, samples of either series that are old, and nodes without a sample.
* `NodesComeBack`: a cordoned node is uncordoned in the end, unless it was `stranded`.

Fairness: the loops of manager and agents, boots, scrapes, the passing of days, and
a pause that was asked for. Errors, mishaps and the end of jobs are under none.

What the histories stand for, found while the properties were stated:

* `lapse`: the answer to the PUT is lost, the manager dies between the PUT and the
  update of the cache, the deletion of the key fails, or the node crashes before its
  agent has seen the key (any crash of a node that is in error, shown in error, found or
  cordoned counts). Each leaves a request for a second reboot, which may come after
  the node is back with jobs on it. A cordon that fails is only reported: the node goes on
  taking jobs, and one may come between the look at its pods and the reboot.
* `stranded`: an uncordon that fails is only reported, and the node leaves the cache
  all the same; an agent that dies after deleting the key is not asked again, for
  `reboot_requested` is set; a node that boots between its cordon and its entry in the
  cache is not seen to have booted. A node that has been repaired and uncordoned is cordoned
  again if the series of errors is older than its boot; if the rule or the manager then ends
  before the node is stored (`Forgotten`), nothing will ever show it in error again.
* A job whose pause takes longer than the attempts is paused later, and stays paused.
* Two pods of a job on one node of which the migration fails are removed twice: a
  `KeyError` ends the rule, for the other nodes too.
* A node without a sample ends the loop over the rebooted nodes.

Not modelled here: dry runs; a dump that is torn by a crash (each later start fails on it);
jobs on several nodes; that pauses, resumptions and the PUT to etcd have no timeout, so
that an answer that never comes stops the manager for good; and the older
`ecc_rule.py` and `nvidia_smi_latency_rule.py`, which the deployed `rule-config.yaml` does
not list. `AgentDies` is also a deletion of the key whose answer is lost, and a reboot
command that fails.

## 9. Proofs

`JobLifecycleProofs` holds, for all jobs, roles, clients and bounds:

* `TypeCorrect`: `Spec => []TypeOK`.
* `ProvenanceHolds`: `Spec => []Provenance`. `Provenance` is the inductive
  invariant: `KilledOnlyOnRequest` alone is not inductive, since a kill task can
  write "killed" long after the request. It becomes so when the same is said of
  every place a status is kept: the table, the snapshots, the jobs under watch
  and the tasks.
* `KilledRequested`, `PausedRequested`, `PodsApproved`: the corollaries.

`JobTasksProofs`:

* `OnePlaceHolds`: `Spec => []OnePlacePerJob`, and from it `TasksApart`,
  `OneTaskPerJob` for every instance. `OneTaskPerJob` alone is not
  inductive: a manager that still has a job in its snapshot, or under watch, could
  make a second task for it. So the invariant says that a job is in one place
  of a process at a time, the snapshot, the watch or one task of the present
  generation, and that no task is of a generation yet to come. `Fetch` is where
  `queue.join()` is needed.
* `GangsApart`: `Spec => []OneGangPerJob`. Inductive together with the fact
  that all submissions come from the manager of queued jobs (`SubmitsQueued`): as long as
  that was not restarted, `OnePlacePerJob` says that no two of its tasks are of one job, so
  that no pod can appear but through the task that is looked at.
* `StatusesInOrder`: `Spec => PipelineOrder`. The inductive invariant is `Owned`: as long as
  there was no request and no restart, a manager that is still going to act on a
  job, because it is in its snapshot, under watch or in a task, acts on the status the
  job has. So a write of one manager cannot meet a job that another has moved on.
  It rests on `Undisturbed` (nothing to kill or to pause, no worker missing, one generation)
  and on `OnePlacePerJob`: what a manager gives up in one place it does not have in another.
  TLC checked both on the instance of `JL_pipeline` before they were proved.

`JobRefinementProofs`:

* `LifecycleImplements`: `Spec => ImplementsContract`. Every step of
  `JobLifecycle` is a step of the contract or leaves its variables alone, by `TypeOK` and
  `Provenance`; one lemma for each actor.
* `ContractCovered`: what the contract is worth, from its own steps: the status shown and the
  pods held are covered by the grants.

`EndpointProofs`, for all endpoints, places, clients and bounds:

* `TypeCorrect`: `Spec => []TypeOK`.
* `StoppedOnlyAfterDeath`: `Spec => []StoppedWasDead`. The inductive invariant
  `StoppingWasDead` says the same of every place a record is kept: the column, the
  records of a round, of the resets of job managers and submissions and of a request, and
  every edit under way; and that a round which is cleaning up has records to stop only if
  the job was dead. It covers every writer of the column, for any number of watchers,
  submitters and clients, with statuses that stale writers set at any time.

`RepairProofs`, for all nodes, jobs and bounds:

* `TypeCorrect`: `Spec => []TypeOK`.
* `UncordonAfterBoot`: `Spec => UncordonNeedsBoot`, from `RInv`: a node in the
  cache was cordoned no later than its error was stored, samples are never ahead
  of the node (`Known`), and what a rule remembers from one step to the next is still
  so (`Held`).
* `NoRebootUnderJobs`: `Spec => NoJobRebooted`, from `Safe`. While there was no
  lapse, a node with a key or with an agent about to reboot is cordoned, in the cache,
  and has no pods (`KeysSafe`); every node in the cache that is not asked for yet is
  cordoned and without a key (`WaitingKept`); on those the rule has chosen are only
  jobs it is still moving (`ChosenSafe`); nodes found are not in the cache
  (`FoundSafe`), and run; a node that is shown in error, if only by an old sample, runs unless
  its error is in the cache and it has not booted since (`SeenUp`). A pod comes only to a
  node that is not cordoned.

`JobSchedulerProofs`, for all jobs, VCs, resources and cluster statuses:

* `SchedulerTypeCorrect`: `Spec => []TypeOK`; in particular no amount is negative.
* `RefusedHasNoRoom`: `Spec => []NoRoomLeft`, inductive with the types. What
  is left only shrinks in a pass (`MinusFacts`, `GeqMonotone`, `RoomShrinks`), so a job
  that did not fit at its turn does not fit later; a job not yet considered is
  outside the claim until its turn.
* `PreemptionNeedsRoom`: `Spec => PreemptOnlyForRoom`, from the invariant: the only
  step that makes a kill task of its own process is `ScheduleJob`, in the phase in which
  all jobs have been considered.

`JobGreedyProofs`, about the same passes:

* Totals. The requests of a set of jobs are added up by a fold of the community modules,
  a recursive function behind a CHOOSE. That the function exists and is a sum, and that totals
  are natural, monotone and split at any element, would be inductions over data; here
  each is an argument by a minimal counterexample: finite sets are well-founded under inclusion,
  so if a fact fails for some set of jobs it fails for one (`MinimalSet`) of which no
  proper subset does, and taking a job out of that one gives the contradiction (`SumUnique`,
  `SumExists`, the lemmas named `Total...`).
* `PassInvariant`: `Spec => []PassInv`. `ListInv`: the list holds each job found once, and
  in order. `Ledger`: what is left is what was given less the total of what is allowed, in
  the cluster and in each VC; here the truncation of the subtractions is shown never to
  bite. `VerdictInv`: every job considered so far got its due (`Greedy`).
* `VerdictIsGreedy`: `Spec => []GreedyVerdict`, for two loops over any number of jobs:
  what is ahead of a job in the list is considered before it, or is of the other kind.
* `ClusterNotOvercommitted`: `Spec => []NoOvercommit`. `NoOvercommit` says nothing while
  tasks are handed out, so it is not inductive. `RoomInv` adds what holds then: the jobs
  found can be afforded, and the load beyond what is allowed is preemptible and its kill is
  still to come; and that no task is left when a pass begins.
* `PassesAgree`: `TimesApart` implies `Spec => NoThrash`. `ThrashInv` is about the time since
  the last pass in which nobody else has changed anything, which the count of moves
  tells (`CountInv`). What a pass has read is then still so (`Fresh`), and the last verdict
  stands (`Standing`): the allowed jobs fit together, no other job fits beside those of them
  that would come ahead of it if all were fetched now (`Rivals`), and the tasks under way are
  for jobs that are still as the pass saw them. The first job of the new list on
  which the two verdicts differ would have the same allowed jobs ahead of it in both, a
  contradiction (`SameVerdict`).

`JobsPageProofs`, for any jobs, operations, sizes of a batch and numbers of clicks:

* `PageTypeCorrect`: `Spec => []TypeOK`.
* `PickedAreOperated`: `Spec => OnlyPickedAreOperated`. The invariant `PageInv` says that a
  job has one row on the page (`OneRow`), and, until a mark has moved, that every
  marked row is of a picked job (`MarksPicked`) and what a request has left to do was meant
  (`LeftMeant`). `OneRow` is needed where a mark is taken away: a second marked row of the
  same job would stay. Statuses of tables are disjoint, and an answer names a job once.

Assumptions: `BoundsAssumption`, `JobsAssumption` (Kubernetes makes no pod by
itself) and `NoneAssumption` of `JobLifecycle`; `ParametersAssumption` and `NoneAssumption`
of `JobScheduler`, and `TimesApart` in the one theorem that names it; `OpsAssumption`,
`BoundsAssumption` and `JobsAssumption` (finitely many jobs) of `JobsPage`; `EndpointsAssumption`,
`WritersAssumption` and `BoundsAssumption` of `EndpointManager`;
`RepairAssumption` and `NoEntryAssumption` of `RepairManager`. Each lemma treats one group of actions; the last step of
each theorem is temporal.

Only model-checked: liveness (`NothingForgotten`, `EndedJobsRelease`, `RoomIsUsed`,
`PendingServed`, `RecordFollowsPod`, `DeadEndpointsClosed`, `PageCatchesUp`,
`NodesComeBack`), which needs fairness and ENABLED and is out of the prover's reach. Every
safety property and every action property that a passing run checks is a theorem.

## 10. Not modelled

The list of components in `PROJECT.json` has a reason for each. In short:

* Of the 290 thousand lines of JavaScript and TypeScript in the repository, some
  275 thousand are third-party libraries that are checked in under
  `src/WebUI/dotnet/WebPortal/wwwroot` (elasticsearch-js, angular). They are no part of
  this system's logic. The logic is in the Python processes, which is where the
  models are; of the dashboard only the jobs page changes what others see.
* The legacy jobs page, the submission form and the charts show data or fill in a form.
* Failures of MySQL: most statements swallow them and return an empty result or
  false. Where that matters to a property it is a fault of the model (`DrawnEmpty`,
  `ListFails`, `ReadFails`, `ResetUnread`, the empty list of `JobScheduler`), and the write
  of the status `error` in `JobLifecycle` may fail.
* The quota of a user is a choice in `JobLifecycle`; the sum behind it, the caches of the
  REST processes, templates, keys, access control and virtual clusters are left out.
* The arithmetic of the cluster status is within one process; its result is an input.
* The controller that `LauncherStub` calls is not in the repository.
* Installation, templates, exporters and periodic scripts have no state that
  another actor can meet halfway.
