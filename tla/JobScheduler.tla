---------------------------- MODULE JobScheduler ----------------------------
(***************************************************************************)
(* The passes of the manager of queued jobs (job_manager.take_job_actions): *)
(* it reads the jobs, the cluster status and the priorities, sorts the jobs, *)
(* marks those that fit in what the cluster and their virtual cluster (VC)  *)
(* have left, and hands submissions and preemptions to the workers.         *)
(*                                                                         *)
(* JobLifecycle leaves the verdict of a pass open; here the statuses of a   *)
(* job that no pass looks at are one, "away", and a task is one step.       *)
(***************************************************************************)
EXTENDS Integers, Sequences, FiniteSets, FiniteSetsExt

CONSTANTS
  Jobs,             \* job ids
  VCs,              \* names of VCs, existing or not
  Resources,        \* cpu, memory, gpu: of one SKU
  Discounted,       \* cpu and memory
  Preemptible,      \* jobs with preemptionAllowed
  VcOf,             \* vcName of each job
  Need,             \* what each job requests of each resource
  JobTime,          \* jobTime: when each job was submitted
  ClusterStatuses,  \* the rows the node manager may write
  Priorities,       \* values of the priority column
  DefaultPriority,  \* get_job_priority's value for a job not in the dict
  None,             \* no row, no verdict
  StartTime,        \* the time at first
  MaxClock, MaxMoves, MaxFaults, MaxCrashes  \* bounds on what may happen

VARIABLES
  status,               \* jobs table: jobStatus; "away" is any other status
  lastUpdated,          \* jobs table
  priority,             \* jobs table
  cluster_status,       \* the latest row of the cluster status table
  clock,                \* the time in seconds
  phase,                \* where the pass is
  rows,                 \* GetJobList's answer: per job its row, or None
  jobs_info,            \* the sorted list of jobs
  pos,                  \* the index of the loop over jobs_info
  cluster_schedulable,  \* what is left of the cluster
  vc_schedulables,      \* what is left of each VC
  allowed,              \* the jobs marked allowed
  tasks,                \* submit and kill tasks not yet carried out
  given,                \* history: what the pass started from
  last,                 \* history: the verdict of the pass before
  moves, faults, crashes  \* what others did; failures; replacements

vars == <<status, lastUpdated, priority, cluster_status, clock, phase, rows,
          jobs_info, pos, cluster_schedulable, vc_schedulables, allowed, tasks,
          given, last, moves, faults, crashes>>

table   == <<status, lastUpdated, priority, cluster_status, clock>>
round   == <<rows, jobs_info, pos, cluster_schedulable, vc_schedulables, allowed>>
history == <<given, last>>
budget  == <<moves, faults, crashes>>

Amount == [Resources -> Nat]

\* A row of the cluster status table.
IsClusterStatus(cs) ==
  /\ cs.capacity \in Amount /\ cs.reserved \in Amount
  /\ DOMAIN cs.vcs \subseteq VCs
  /\ cs.vcs \in [DOMAIN cs.vcs -> [capacity : Amount, unschedulable : Amount]]

ASSUME ParametersAssumption ==
  /\ IsFiniteSet(Jobs)
  /\ Discounted \subseteq Resources
  /\ Preemptible \subseteq Jobs
  /\ VcOf \in [Jobs -> VCs]
  /\ Need \in [Jobs -> Amount]
  /\ JobTime \in [Jobs -> 0..StartTime]
  /\ \A cs \in ClusterStatuses : IsClusterStatus(cs)
  /\ Priorities \subseteq Nat /\ DefaultPriority \in Nat
  /\ \A n \in {StartTime, MaxClock, MaxMoves, MaxFaults, MaxCrashes} : n \in Nat

-----------------------------------------------------------------------------
(***************************************************************************)
(* ClusterResource and ResourceStat. Amounts are in hundredths.             *)
(***************************************************************************)

\* Resources never get negative: normalize.
Minus(a, b) == [r \in Resources |-> IF a[r] >= b[r] THEN a[r] - b[r] ELSE 0]

Geq(a, b) == \A r \in Resources : a[r] >= b[r]

job_resource(j) == [r \in Resources |-> 100 * Need[j][r]]

\* discount_cluster_resource: 95% of cpu and memory is usable.
Discount(a) == [r \in Resources |-> (IF r \in Discounted THEN 95 ELSE 100) * a[r]]

get_cluster_schedulable(cs) == Discount(Minus(cs.capacity, cs.reserved))

get_vc_schedulables(cs) ==
  [v \in DOMAIN cs.vcs |->
     Discount(Minus(cs.vcs[v].capacity, cs.vcs[v].unschedulable))]

-----------------------------------------------------------------------------

Statuses == {"away", "queued", "scheduling", "running"}

Phases == {"idle", "status", "sort", "nonpreemptible", "preemptible", "act"}

Row == [status : Statuses \ {"away"}, lastUpdated : Nat]

ASSUME NoneAssumption == None \notin Row

\* "own" is FALSE when the process that made the task was replaced.
Task == [job : Jobs, fn : {"submit", "kill"}, own : BOOLEAN]

TableType ==
  /\ status \in [Jobs -> Statuses]
  /\ lastUpdated \in [Jobs -> Nat]
  /\ priority \in [Jobs -> Nat]
  /\ cluster_status \in ClusterStatuses
  /\ clock \in Nat

RoundType ==
  /\ phase \in Phases
  /\ rows \in [Jobs -> Row \cup {None}]
  /\ jobs_info \in Seq(Jobs)
  /\ pos \in 1..(Len(jobs_info) + 1)
  /\ cluster_schedulable \in Amount
  /\ DOMAIN vc_schedulables \subseteq VCs
  /\ vc_schedulables \in [DOMAIN vc_schedulables -> Amount]
  /\ allowed \subseteq Jobs

TypeOK ==
  /\ TableType /\ RoundType
  /\ tasks \subseteq Task
  /\ moves \in Nat /\ faults \in Nat /\ crashes \in Nat

NoRows   == [j \in Jobs |-> None]
NoAmount == [r \in Resources |-> 0]
NoVCs    == [v \in {} |-> NoAmount]

Init ==
  /\ status \in [Jobs -> {"away", "queued"}]
  /\ lastUpdated = JobTime
  /\ priority \in [Jobs -> Priorities]
  /\ cluster_status \in ClusterStatuses
  /\ clock = StartTime
  /\ phase = "idle"
  /\ rows = NoRows /\ jobs_info = <<>> /\ pos = 1
  /\ cluster_schedulable = NoAmount /\ vc_schedulables = NoVCs
  /\ allowed = {} /\ tasks = {}
  /\ given = None /\ last = None
  /\ moves = 0 /\ faults = 0 /\ crashes = 0

-----------------------------------------------------------------------------
(***************************************************************************)
(* Others: the REST API, the other managers of JobLifecycle, node_manager   *)
(***************************************************************************)

\* The second a write happens in: this one or a later one.
Now == {clock, clock + 1} \cap 0..MaxClock

Move ==
  /\ moves < MaxMoves
  /\ moves' = moves + 1
  /\ UNCHANGED <<phase, round, tasks, history, faults, crashes>>

\* ApproveJob sets lastUpdated, an administrator's approval does not.
Queue(j) ==
  /\ Move
  /\ status[j] = "away"
  /\ status' = [status EXCEPT ![j] = "queued"]
  /\ \/ UNCHANGED <<lastUpdated, clock>>
     \/ clock' \in Now /\ lastUpdated' = [lastUpdated EXCEPT ![j] = clock']
  /\ UNCHANGED <<priority, cluster_status>>

\* A job ends, or is asked to be killed or paused.
Leave(j) ==
  /\ Move
  /\ status[j] # "away"
  /\ status' = [status EXCEPT ![j] = "away"]
  /\ UNCHANGED <<lastUpdated, priority, cluster_status, clock>>

\* UpdateJobStatus: the pods got ready, or are not ready any more.
Observed(j) ==
  /\ Move
  /\ status[j] \in {"scheduling", "running"}
  /\ status' = [status EXCEPT ![j] =
                  IF @ = "running" THEN "scheduling" ELSE "running"]
  /\ UNCHANGED <<lastUpdated, priority, cluster_status, clock>>

\* UpdateJobStatus: the pods are gone, and the job is queued again.
Vanished(j) ==
  /\ Move
  /\ status[j] \in {"scheduling", "running"}
  /\ status' = [status EXCEPT ![j] = "queued"]
  /\ clock' \in Now
  /\ lastUpdated' = [lastUpdated EXCEPT ![j] = clock']
  /\ UNCHANGED <<priority, cluster_status>>

\* The same with an old snapshot: JobLifecycle shows how it comes about.
StaleReport(j) ==
  /\ faults < MaxFaults
  /\ status[j] \in {"away", "queued"}
  /\ status' \in {[status EXCEPT ![j] = s] : s \in {"scheduling", "running"}}
  /\ faults' = faults + 1 /\ moves' = moves + 1
  /\ UNCHANGED <<lastUpdated, priority, cluster_status, clock, phase, round,
                 tasks, history, crashes>>

\* update_job_priority.
SetPriority(j, p) ==
  /\ Move
  /\ priority[j] # p
  /\ priority' = [priority EXCEPT ![j] = p]
  /\ UNCHANGED <<status, lastUpdated, cluster_status, clock>>

\* UpdateClusterStatus: a node or a VC has changed.
UpdateClusterStatus(cs) ==
  /\ Move
  /\ cluster_status # cs
  /\ cluster_status' = cs
  /\ UNCHANGED <<status, lastUpdated, priority, clock>>

-----------------------------------------------------------------------------
(***************************************************************************)
(* A pass                                                                  *)
(***************************************************************************)

Own == {t \in tasks : t.own}

FetchNoWait ==
  /\ phase = "idle"
  /\ rows' = [j \in Jobs |->
                IF status[j] = "away" THEN None
                ELSE [status |-> status[j], lastUpdated |-> lastUpdated[j]]]
  /\ phase' = "status"
  /\ given' = [moves |-> moves]
  /\ UNCHANGED <<table, jobs_info, pos, cluster_schedulable, vc_schedulables,
                 allowed, tasks, last, budget>>

\* wait_tasks_done, then GetJobList.
Fetch ==
  /\ phase = "idle"
  /\ Own = {}
  /\ rows' = [j \in Jobs |->
                IF status[j] = "away" THEN None
                ELSE [status |-> status[j], lastUpdated |-> lastUpdated[j]]]
  /\ phase' = "status"
  /\ given' = [moves |-> moves]
  /\ UNCHANGED <<table, jobs_info, pos, cluster_schedulable, vc_schedulables,
                 allowed, tasks, last, budget>>

\* GetClusterStatus, get_cluster_schedulable, get_vc_schedulables.
GetClusterStatus ==
  /\ phase = "status"
  /\ cluster_schedulable' = get_cluster_schedulable(cluster_status)
  /\ vc_schedulables' = get_vc_schedulables(cluster_status)
  /\ phase' = "sort"
  /\ given' = [moves |-> given.moves, cluster |-> cluster_schedulable',
               vcs |-> vc_schedulables']
  /\ UNCHANGED <<table, rows, jobs_info, pos, allowed, tasks, last, budget>>

SortKeyByTime(j, priority_of) ==
  <<IF j \in Preemptible THEN 1 ELSE 0,
    0,
    999999 - priority_of[j],
    rows[j].lastUpdated,
    StartTime - JobTime[j]>>

\* The sort key of get_jobs_info, and the order GetJobList returned the jobs
\* in, which a stable sort keeps: the latest first.
SortKey(j, priority_of) ==
  <<IF j \in Preemptible THEN 1 ELSE 0,
    CASE rows[j].status = "running"    -> 0
      [] rows[j].status = "scheduling" -> 1
      [] rows[j].status = "queued"     -> 2,
    999999 - priority_of[j],
    rows[j].lastUpdated,
    StartTime - JobTime[j]>>

Precedes(a, b) ==
  \E i \in 1..5 : a[i] < b[i] /\ \A h \in 1..(i - 1) : a[h] = b[h]

\* All the jobs of J, once each, in the order of their keys.
SortedLists(J, priority_of) ==
  {s \in [1..Cardinality(J) -> J] :
     \A h, i \in DOMAIN s :
       h < i => /\ s[h] # s[i]
                /\ ~Precedes(SortKey(s[i], priority_of), SortKey(s[h], priority_of))}

\* get_jobs_info. The query of the priorities leaves out jobs that have ended
\* by now, and all of them when it fails.
SortJobs ==
  /\ phase = "sort"
  /\ LET listed == {j \in Jobs : rows[j] # None}
         Sort(unknown) ==
           jobs_info' \in SortedLists(listed,
             [j \in Jobs |-> IF j \in unknown THEN DefaultPriority ELSE priority[j]])
     IN  \/ /\ \E unknown \in SUBSET {j \in listed : status[j] = "away"} : Sort(unknown)
            /\ UNCHANGED <<moves, faults>>
         \/ /\ faults < MaxFaults
            /\ faults' = faults + 1 /\ moves' = moves + 1
            /\ Sort(Jobs)
  /\ pos' = 1
  /\ phase' = "nonpreemptible"
  /\ UNCHANGED <<table, rows, cluster_schedulable, vc_schedulables, allowed,
                 tasks, history, crashes>>

VcFits(j) ==
  /\ VcOf[j] \in DOMAIN vc_schedulables
  /\ Geq(vc_schedulables[VcOf[j]], job_resource(j))

Mark(j) ==
  /\ allowed' = allowed \cup {j}
  /\ cluster_schedulable' = Minus(cluster_schedulable, job_resource(j))

MarkNonPreemptibleCluster ==
  /\ phase = "nonpreemptible" /\ pos <= Len(jobs_info)
  /\ LET j == jobs_info[pos]
     IN  IF /\ j \notin Preemptible
            /\ Geq(cluster_schedulable, job_resource(j))
            /\ VcFits(j)
         THEN Mark(j)
         ELSE UNCHANGED <<allowed, cluster_schedulable>>
  /\ pos' = pos + 1
  /\ UNCHANGED <<table, phase, rows, jobs_info, vc_schedulables, tasks, history,
                 budget>>

\* mark_schedulable_non_preemptable_jobs, one job of its loop.
MarkNonPreemptible ==
  /\ phase = "nonpreemptible" /\ pos <= Len(jobs_info)
  /\ LET j == jobs_info[pos]
     IN  IF /\ j \notin Preemptible
            /\ Geq(cluster_schedulable, job_resource(j))
            /\ VcFits(j)
         THEN /\ Mark(j)
              /\ vc_schedulables' = [vc_schedulables EXCEPT ![VcOf[j]] =
                                       Minus(@, job_resource(j))]
         ELSE UNCHANGED <<allowed, cluster_schedulable, vc_schedulables>>
  /\ pos' = pos + 1
  /\ UNCHANGED <<table, phase, rows, jobs_info, tasks, history, budget>>

MarkPreemptibleByVc ==
  /\ phase = "preemptible" /\ pos <= Len(jobs_info)
  /\ LET j == jobs_info[pos]
     IN  IF /\ j \in Preemptible
            /\ Geq(cluster_schedulable, job_resource(j))
            /\ VcFits(j)
         THEN Mark(j)
         ELSE UNCHANGED <<allowed, cluster_schedulable>>
  /\ pos' = pos + 1
  /\ UNCHANGED <<table, phase, rows, jobs_info, vc_schedulables, tasks, history,
                 budget>>

\* mark_schedulable_preemptable_jobs, one job: only the cluster must have room.
MarkPreemptible ==
  /\ phase = "preemptible" /\ pos <= Len(jobs_info)
  /\ LET j == jobs_info[pos]
     IN  IF j \in Preemptible /\ Geq(cluster_schedulable, job_resource(j))
         THEN Mark(j)
         ELSE UNCHANGED <<allowed, cluster_schedulable>>
  /\ pos' = pos + 1
  /\ UNCHANGED <<table, phase, rows, jobs_info, vc_schedulables, tasks, history,
                 budget>>

\* The first two loops end.
NextLoop ==
  /\ pos > Len(jobs_info)
  /\ \/ phase = "nonpreemptible" /\ phase' = "preemptible" /\ UNCHANGED last
     \/ /\ phase = "preemptible" /\ phase' = "act"
        /\ last' = [moves |-> given.moves, allowed |-> allowed]
  /\ pos' = 1
  /\ UNCHANGED <<table, rows, jobs_info, cluster_schedulable, vc_schedulables,
                 allowed, tasks, given, budget>>

OwnTask(j, fn) == [job |-> j, fn |-> fn, own |-> TRUE]

ScheduleJobStopsAll ==
  /\ phase = "act" /\ pos <= Len(jobs_info)
  /\ LET j == jobs_info[pos]
         submit  == rows[j].status = "queued" /\ j \in allowed
         preempt == /\ j \notin allowed
                    /\ rows[j].status \in {"scheduling", "running"}
     IN  \/ submit /\ tasks' = tasks \cup {OwnTask(j, "submit")}
         \/ preempt /\ tasks' = tasks \cup {OwnTask(j, "kill")}
         \/ ~submit /\ ~preempt /\ UNCHANGED tasks
  /\ pos' = pos + 1
  /\ UNCHANGED <<table, phase, rows, jobs_info, cluster_schedulable,
                 vc_schedulables, allowed, history, budget>>

ScheduleJobNotLast ==
  /\ phase = "act" /\ pos <= Len(jobs_info)
  /\ LET j == jobs_info[pos]
         submit  == rows[j].status = "queued" /\ j \in allowed /\ pos < Len(jobs_info)
         preempt == /\ j \in Preemptible \ allowed
                    /\ rows[j].status \in {"scheduling", "running"}
     IN  \/ submit /\ tasks' = tasks \cup {OwnTask(j, "submit")}
         \/ preempt /\ tasks' = tasks \cup {OwnTask(j, "kill")}
         \/ ~submit /\ ~preempt /\ UNCHANGED tasks
  /\ pos' = pos + 1
  /\ UNCHANGED <<table, phase, rows, jobs_info, cluster_schedulable,
                 vc_schedulables, allowed, history, budget>>

\* schedule_jobs, one job: submit it, preempt it or leave it as it is.
ScheduleJob ==
  /\ phase = "act" /\ pos <= Len(jobs_info)
  /\ LET j == jobs_info[pos]
         submit  == rows[j].status = "queued" /\ j \in allowed
         preempt == /\ j \in Preemptible \ allowed
                    /\ rows[j].status \in {"scheduling", "running"}
     IN  \/ submit /\ tasks' = tasks \cup {OwnTask(j, "submit")}
         \/ preempt /\ tasks' = tasks \cup {OwnTask(j, "kill")}
         \/ ~submit /\ ~preempt /\ UNCHANGED tasks
  /\ pos' = pos + 1
  /\ UNCHANGED <<table, phase, rows, jobs_info, cluster_schedulable,
                 vc_schedulables, allowed, history, budget>>

ForgetNotPos ==
  /\ phase' = "idle"
  /\ rows' = NoRows /\ jobs_info' = <<>> /\ pos' = pos
  /\ cluster_schedulable' = NoAmount /\ vc_schedulables' = NoVCs
  /\ allowed' = {} /\ given' = None

\* The variables of a pass die with it.
Forget ==
  /\ phase' = "idle"
  /\ rows' = NoRows /\ jobs_info' = <<>> /\ pos' = 1
  /\ cluster_schedulable' = NoAmount /\ vc_schedulables' = NoVCs
  /\ allowed' = {} /\ given' = None

EndPass ==
  /\ phase = "act" /\ pos > Len(jobs_info)
  /\ Forget
  /\ UNCHANGED <<table, tasks, last, budget>>

\* No cluster status, or a job whose jobParams cannot be read: an exception in
\* take_job_actions ends the pass.
AbortPass ==
  /\ phase \in {"status", "sort"}
  /\ faults < MaxFaults
  /\ faults' = faults + 1
  /\ Forget
  /\ UNCHANGED <<table, tasks, last, moves, crashes>>

\* The process is replaced; its workers finish what they got.
Restart ==
  /\ crashes < MaxCrashes
  /\ crashes' = crashes + 1
  /\ Forget
  /\ \E kept \in SUBSET Own :
       tasks' = (tasks \ Own) \cup {[t EXCEPT !.own = FALSE] : t \in kept}
  /\ UNCHANGED <<table, last, moves, faults>>

-----------------------------------------------------------------------------
(***************************************************************************)
(* The workers                                                             *)
(***************************************************************************)

Finish(t) ==
  /\ tasks' = tasks \ {t}
  /\ UNCHANGED <<phase, round, history, priority, cluster_status, crashes>>

\* submit_job_impl and kill_job_impl write without looking at the status.
TaskDone(t) ==
  /\ Finish(t)
  /\ status' = [status EXCEPT ![t.job] =
                  IF t.fn = "submit" THEN "scheduling" ELSE "queued"]
  /\ clock' \in Now
  /\ lastUpdated' = [lastUpdated EXCEPT ![t.job] = clock']
  /\ moves' = IF t.own THEN moves ELSE moves + 1
  /\ UNCHANGED faults

\* The submission is put off or given up, the kill raises or ends in "error".
TaskFails(t) ==
  /\ Finish(t)
  /\ faults < MaxFaults
  /\ faults' = faults + 1
  /\ \/ UNCHANGED <<status, moves>>
     \/ status' = [status EXCEPT ![t.job] = "away"] /\ moves' = moves + 1
  /\ UNCHANGED <<lastUpdated, clock>>

-----------------------------------------------------------------------------

Others ==
  \/ \E j \in Jobs :
       Queue(j) \/ Leave(j) \/ Observed(j) \/ Vanished(j) \/ StaleReport(j)
  \/ \E j \in Jobs, p \in Priorities : SetPriority(j, p)
  \/ \E cs \in ClusterStatuses : UpdateClusterStatus(cs)

Pass ==
  \/ Fetch \/ GetClusterStatus \/ SortJobs \/ MarkNonPreemptible
  \/ MarkPreemptible \/ NextLoop \/ ScheduleJob \/ EndPass

Next ==
  \/ Others \/ Pass \/ AbortPass \/ Restart
  \/ \E t \in tasks : TaskDone(t) \/ TaskFails(t)

Spec == Init /\ [][Next]_vars

\* The loop and the workers keep running.
Fairness == WF_vars(Pass) /\ WF_vars(\E t \in tasks : TaskDone(t) \/ TaskFails(t))

FairSpec == Spec /\ Fairness

-----------------------------------------------------------------------------
(***************************************************************************)
(* Properties                                                              *)
(***************************************************************************)

Total(S) == [r \in Resources |-> MapThenSumSet(LAMBDA j : job_resource(j)[r], S)]

InVC(S, v) == {j \in S \ Preemptible : VcOf[j] = v}

\* S fits in what the cluster and its VCs have, given in hundredths.
Fit(S, cluster, vcs) ==
  /\ Geq(cluster, Total(S))
  /\ \A v \in DOMAIN vcs : Geq(vcs[v], Total(InVC(S, v)))

\* Job i of the list is allowed exactly if it fits beside the allowed jobs ahead
\* of it, a non-preemptible one in an existing VC and within its share.
Ahead(i) == {jobs_info[h] : h \in 1..(i - 1)} \cap allowed

Greedy(i) ==
  LET j == jobs_info[i]
  IN  j \in allowed <=>
        /\ Fit(Ahead(i) \cup {j}, given.cluster, given.vcs)
        /\ j \notin Preemptible => VcOf[j] \in DOMAIN given.vcs

\* The verdict of a pass, with all its truncated subtractions in place, is the
\* greedy one. In particular no cluster and no VC is promised twice.
GreedyVerdict == phase = "act" => \A i \in DOMAIN jobs_info : Greedy(i)

\* The jobs whose turn in their loop has passed.
Considered(i) ==
  IF jobs_info[i] \in Preemptible
  THEN phase = "act" \/ (phase = "preemptible" /\ i < pos)
  ELSE phase \in {"preemptible", "act"} \/ (phase = "nonpreemptible" /\ i < pos)

\* A job that was considered and not allowed does not fit in what is left, and
\* does not begin to while the pass takes more away.
NoRoomLeft ==
  \A i \in DOMAIN jobs_info :
    LET j == jobs_info[i]
    IN  Considered(i) /\ j \notin allowed =>
          ~(/\ Geq(cluster_schedulable, job_resource(j))
            /\ j \in Preemptible \/ VcFits(j))

\* A job is preempted only if it has no room beside the jobs allowed in the
\* same pass, and never one that is not preemptible.
PreemptOnlyForRoom ==
  [][\A t \in tasks' \ tasks :
       t.fn = "kill" /\ t.own =>
         t.job \in Preemptible /\ ~Geq(cluster_schedulable, job_resource(t.job))]_vars

\* Passes do not thrash: as long as nobody else has changed anything since a
\* pass fetched its jobs, the next one comes to the same verdict, although the
\* statuses and the queue times its order rests on were changed by the tasks of
\* the first, carried out or failed, with or without a restart in between.
NoThrash ==
  [][phase = "preemptible" /\ phase' = "act" /\ last # None /\ last.moves = moves =>
       allowed = last.allowed]_vars

\* Jobs that occupy the cluster or are about to.
Load ==
  {j \in Jobs :
     \/ OwnTask(j, "submit") \in tasks
     \/ /\ status[j] \in {"scheduling", "running"}
        /\ OwnTask(j, "kill") \notin tasks}

\* Whenever no pass is handing out tasks, and as long as the cluster stays as it
\* is and no task fails or is orphaned, the jobs in scheduling and running fit in
\* the cluster and in their VCs, whatever else happens to jobs between the reads
\* of a pass and the writes of its tasks. (While tasks are handed out, those of
\* jobs that make room may come after those of jobs that take it.)
NoOvercommit ==
  /\ phase # "act"
  /\ ClusterStatuses = {cluster_status} /\ faults = 0 /\ crashes = 0
  => Fit(Load, get_cluster_schedulable(cluster_status),
               get_vc_schedulables(cluster_status))

\* A queued job beside which all others would fit.
Roomy(j) ==
  /\ status[j] = "queued"
  /\ j \notin Preemptible => VcOf[j] \in DOMAIN cluster_status.vcs
  /\ Fit({k \in Jobs : status[k] # "away"}, get_cluster_schedulable(cluster_status),
         get_vc_schedulables(cluster_status))

\* A queued job is not forgotten while there is room for everything.
RoomIsUsed == \A j \in Jobs : Roomy(j) ~> ~Roomy(j)

\* What the comment on take_job_actions says of jobs that are alike otherwise:
\* they are sorted by the time of their submission.
SubmissionOrder ==
  \A h, i \in DOMAIN jobs_info :
    LET j == jobs_info[h]
        k == jobs_info[i]
    IN  /\ rows[j].status = "queued" /\ rows[k].status = "queued"
        /\ (j \in Preemptible) = (k \in Preemptible)
        /\ JobTime[j] < JobTime[k]
        => h < i
=============================================================================
