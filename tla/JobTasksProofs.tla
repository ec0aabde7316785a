---------------------------- MODULE JobTasksProofs ----------------------------
(***************************************************************************)
(* A job is in one place of a process at a time (OnePlacePerJob), so that  *)
(* the workers of one process work on different jobs. From this follow that *)
(* the pods of two attempts do not mix and that, without requests and      *)
(* restarts, statuses follow each other in order.                          *)
(***************************************************************************)
EXTENDS JobLifecycleProofs

\* OneTaskPerJob is what TasksDistinct says of the live tasks.
LEMMA PlacesImply == OnePlacePerJob => OneTaskPerJob
BY DEF OnePlacePerJob, TasksDistinct, OneTaskPerJob, Live

\* A worker goes on with a task, or is done with one.
Continues ==
  \/ tasks' \subseteq tasks
  \/ \E t \in tasks : \E u :
       /\ tasks' = (tasks \ {t}) \cup {u}
       /\ u.pool = t.pool /\ u.gen = t.gen /\ u.job = t.job

\* Steps that only take from snapshots, end watches and go on with tasks.
LEMMA PlacesFrame ==
  ASSUME TypeOK, OnePlacePerJob, gen' = gen, Continues,
         \A m \in Managers, j \in Jobs : batch'[m][j] \in {batch[m][j], None},
         \A m \in Managers :
           cur'[m] # None => cur[m] # None /\ cur'[m].job = cur[m].job
  PROVE  OnePlacePerJob'
<1>1. \A x \in tasks' : \E t \in tasks :
        x.pool = t.pool /\ x.gen = t.gen /\ x.job = t.job
  BY DEF Continues
<1>2. GenerationsPassed'
  BY <1>1 DEF OnePlacePerJob, GenerationsPassed
<1>3. TasksDistinct'
  <2>1. CASE tasks' \subseteq tasks
    BY <2>1 DEF OnePlacePerJob, TasksDistinct
  <2>2. ASSUME NEW t \in tasks, NEW u,
               tasks' = (tasks \ {t}) \cup {u},
               u.pool = t.pool, u.gen = t.gen, u.job = t.job
        PROVE  TasksDistinct'
    <3>1. \A x \in tasks \ {t} :
            ~(x.pool = u.pool /\ x.gen = u.gen /\ x.job = u.job)
      BY <2>2 DEF OnePlacePerJob, TasksDistinct
    <3>2. QED
      BY <2>2, <3>1 DEF OnePlacePerJob, TasksDistinct
  <2>3. QED
    BY <2>1, <2>2 DEF Continues
<1>4. \A m \in Managers : \A x \in Live(m)' : \E t \in Live(m) : x.job = t.job
  BY <1>1 DEF Live
<1>5. \A m \in Managers : \A t \in Live(m) : t.job \in Jobs
  BY TaskFields DEF Live
<1>6. TasksTaken'
  BY <1>4, <1>5 DEF OnePlacePerJob, TasksTaken
<1>7. \A m \in Managers : cur[m] # None => cur[m].job \in Jobs
  BY DEF TypeOK, Watch
<1>8. WatchesTaken'
  BY <1>7 DEF OnePlacePerJob, WatchesTaken
<1>9. QED
  BY <1>2, <1>3, <1>6, <1>8 DEF OnePlacePerJob

\* A new task for a job that manager m has in no other place.
LEMMA PlacesAdd ==
  ASSUME TypeOK, OnePlacePerJob, gen' = gen, NEW m \in Managers, NEW n,
         n.pool = m, n.gen = gen[m], tasks' = tasks \cup {n},
         \A t \in Live(m) : t.job # n.job,
         batch'[m][n.job] = None,
         cur'[m] # None => cur'[m].job # n.job,
         \A k \in Managers, j \in Jobs : batch'[k][j] \in {batch[k][j], None},
         \A k \in Managers : cur'[k] \in {cur[k], None}
  PROVE  OnePlacePerJob'
<1>1. GenerationsPassed'
  <2>1. gen[m] <= gen[m]
    BY DEF TypeOK
  <2>2. QED
    BY <2>1 DEF OnePlacePerJob, GenerationsPassed
<1>2. TasksDistinct'
  <2>1. \A t \in tasks : ~(t.pool = n.pool /\ t.gen = n.gen /\ t.job = n.job)
    BY DEF Live
  <2>2. QED
    BY <2>1 DEF OnePlacePerJob, TasksDistinct
<1>3. \A k \in Managers : \A t \in Live(k) : t.job \in Jobs
  BY TaskFields DEF Live
<1>4. \A k \in Managers : \A t \in Live(k)' : t \in Live(k) \/ (t = n /\ k = m)
  BY DEF Live
<1>5. TasksTaken'
  BY <1>3, <1>4 DEF OnePlacePerJob, TasksTaken
<1>6. \A k \in Managers : cur[k] # None => cur[k].job \in Jobs
  BY DEF TypeOK, Watch
<1>7. WatchesTaken'
  BY <1>6 DEF OnePlacePerJob, WatchesTaken
<1>8. QED
  BY <1>1, <1>2, <1>5, <1>7 DEF OnePlacePerJob

\* A snapshot is taken when the process has nothing else in hand, and a new
\* process has nothing at all.
LEMMA LoopPlaces ==
  ASSUME TypeOK, OnePlacePerJob, NEW m \in Managers,
         Fetch(m) \/ ManagerDies(m) \/ Supervise(m)
  PROVE  OnePlacePerJob'
<1>1. CASE Fetch(m)
  <2>1. gen' = gen /\ tasks' = tasks /\ cur' = cur /\ cur[m] = None /\ Live(m) = {}
    BY <1>1 DEF Fetch
  <2>2. \A k \in Managers : k # m => batch'[k] = batch[k]
    BY <1>1 DEF Fetch, TypeOK
  <2>3. \A k \in Managers : Live(k)' = Live(k)
    BY <2>1 DEF Live
  <2>4. TasksTaken'
    BY <2>1, <2>2, <2>3 DEF OnePlacePerJob, TasksTaken
  <2>5. WatchesTaken'
    BY <2>1, <2>2 DEF OnePlacePerJob, WatchesTaken
  <2>6. QED
    BY <2>1, <2>4, <2>5 DEF OnePlacePerJob, GenerationsPassed, TasksDistinct
<1>2. CASE ManagerDies(m) \/ Supervise(m)
  <2>1. Restart(m)
    BY <1>2 DEF ManagerDies, Supervise
  <2>2. tasks' \subseteq tasks
    BY <2>1 DEF Restart
  <2>3. /\ gen'[m] = gen[m] + 1 /\ gen[m] \in Nat
        /\ \A k \in Managers : k # m => gen'[k] = gen[k]
    BY <2>1 DEF Restart, TypeOK
  <2>4. \A t \in tasks : t.pool \in Managers /\ t.gen \in Nat
    BY DEF TypeOK, Task, SubmitTask, KillTask
  <2>5. GenerationsPassed'
    <3>1. \A t \in tasks : t.gen <= gen'[t.pool]
      BY <2>3, <2>4 DEF OnePlacePerJob, GenerationsPassed
    <3>2. QED
      BY <2>2, <3>1 DEF GenerationsPassed
  <2>6. TasksDistinct'
    BY <2>2 DEF OnePlacePerJob, TasksDistinct
  <2>7. Live(m)' = {}
    <3>1. \A t \in tasks : t.pool = m => t.gen <= gen[m]
      BY DEF OnePlacePerJob, GenerationsPassed
    <3>2. \A t \in tasks : t.pool = m => t.gen # gen'[m]
      BY <2>3, <2>4, <3>1
    <3>3. QED
      BY <2>2, <3>2 DEF Live
  <2>8. \A k \in Managers : k # m => Live(k)' \subseteq Live(k)
    BY <2>2, <2>3 DEF Live
  <2>9. /\ \A k \in Managers : k # m => batch'[k] = batch[k] /\ cur'[k] = cur[k]
        /\ cur'[m] = None
    BY <2>1 DEF Restart, TypeOK
  <2>10. TasksTaken'
    BY <2>7, <2>8, <2>9 DEF OnePlacePerJob, TasksTaken
  <2>11. WatchesTaken'
    BY <2>9 DEF OnePlacePerJob, WatchesTaken
  <2>12. QED
    BY <2>5, <2>6, <2>10, <2>11 DEF OnePlacePerJob
<1>3. QED
  BY <1>1, <1>2

\* Taking a job from a snapshot.
LEMMA TakePlaces ==
  ASSUME TypeOK, NEW m \in Managers, NEW j \in Jobs, Take(m, j)
  PROVE  /\ \A k \in Managers, i \in Jobs : batch'[k][i] \in {batch[k][i], None}
         /\ batch'[m][j] = None
BY DEF Take, TypeOK

\* The manager of requests makes its tasks of jobs in its snapshot.
LEMMA RequestPlaces ==
  ASSUME TypeOK, OnePlacePerJob, NEW j \in Jobs, RequestStep(j)
  PROVE  OnePlacePerJob'
<1>0. "requests" \in Managers
  BY DEF Managers
<1>1. CASE DispatchKill(j)
  <2> DEFINE n == NewTask("requests", j, "kill",
                    IF batch["requests"][j] = "killing" THEN "killed" ELSE "paused")
  <2>1. /\ tasks' = tasks \cup {n} /\ gen' = gen /\ cur' = cur
        /\ Take("requests", j)
    BY <1>1 DEF DispatchKill
  <2>2. n.pool = "requests" /\ n.gen = gen["requests"] /\ n.job = j
    BY DEF NewTask
  <2>3. batch["requests"][j] # None
    BY <1>1, NoneAssumption DEF DispatchKill
  <2>4. \A t \in Live("requests") : t.job # j
    BY <1>0, <2>3 DEF OnePlacePerJob, TasksTaken
  <2>5. cur["requests"] # None => cur["requests"].job # j
    BY <1>0, <2>3 DEF OnePlacePerJob, WatchesTaken
  <2> HIDE DEF n
  <2>6. QED
    BY <1>0, <2>1, <2>2, <2>4, <2>5, TakePlaces, PlacesAdd
<1>2. CASE Approve(j) \/ LeaveUnapproved(j)
  BY <1>0, <1>2, TakePlaces, PlacesFrame DEF Approve, LeaveUnapproved, Continues
<1>3. QED
  BY <1>1, <1>2 DEF RequestStep

\* A pass of the scheduler makes at most one task of a job, and only of jobs in
\* its snapshot.
LEMMA SchedulePlaces ==
  ASSUME TypeOK, OnePlacePerJob, NEW allowed \in SUBSET Jobs, Schedule(allowed)
  PROVE  OnePlacePerJob'
<1> DEFINE submits == {j \in allowed : batch["queued"][j] = "queued"}
           preempted == {j \in Preemptible \ allowed :
                           batch["queued"][j] \in {"scheduling", "running"}}
           T(j) == NewTask("queued", j, "submit", "scheduling")
           U(j) == NewTask("queued", j, "kill", "queued")
           new == {T(j) : j \in submits} \cup {U(j) : j \in preempted}
<1>0. "queued" \in Managers
  BY DEF Managers
<1>1. /\ tasks' = tasks \cup new
      /\ batch' = [batch EXCEPT !["queued"] = NoBatch]
      /\ gen' = gen /\ cur' = cur
  BY DEF Schedule
<1>2. \A j : /\ T(j).pool = "queued" /\ T(j).gen = gen["queued"] /\ T(j).job = j
             /\ U(j).pool = "queued" /\ U(j).gen = gen["queued"] /\ U(j).job = j
  BY DEF NewTask
<1>3. submits \cap preempted = {}
  OBVIOUS
<1>4. \A j \in submits \cup preempted : j \in Jobs /\ batch["queued"][j] # None
  BY JobsAssumption, NoneAssumption
<1>5. \A n \in new : /\ n.pool = "queued" /\ n.gen = gen["queued"]
                     /\ n.job \in submits \cup preempted
  <2> HIDE DEF submits, preempted, T, U
  <2>1. QED
    BY <1>2
<1>6. \A n, o \in new : n.job = o.job => n = o
  <2> HIDE DEF submits, preempted, T, U
  <2>1. QED
    BY <1>2, <1>3
<1>7. \A n \in new : \A t \in Live("queued") : t.job # n.job
  <2> HIDE DEF submits, preempted, new
  <2>1. QED
    BY <1>0, <1>4, <1>5 DEF OnePlacePerJob, TasksTaken
<1> HIDE DEF submits, preempted, T, U, new
<1>8. GenerationsPassed'
  <2>1. gen["queued"] <= gen["queued"]
    BY <1>0 DEF TypeOK
  <2>2. QED
    BY <1>1, <1>5, <2>1 DEF OnePlacePerJob, GenerationsPassed
<1>9. TasksDistinct'
  <2>1. \A n \in new, t \in tasks :
          ~(t.pool = n.pool /\ t.gen = n.gen /\ t.job = n.job)
    BY <1>5, <1>7 DEF Live
  <2>2. QED
    BY <1>1, <1>6, <2>1 DEF OnePlacePerJob, TasksDistinct
<1>10. /\ batch'["queued"] = NoBatch
       /\ \A m \in Managers : m # "queued" => batch'[m] = batch[m]
  BY <1>0, <1>1 DEF TypeOK
<1>11. TasksTaken'
  <2>1. \A m \in Managers : m # "queued" => Live(m)' = Live(m)
    BY <1>1, <1>5 DEF Live
  <2>2. \A t \in Live("queued")' : t.job \in Jobs /\ batch'["queued"][t.job] = None
    <3>1. \A t \in tasks : t.job \in Jobs
      BY TaskFields
    <3>2. \A t \in Live("queued")' : t.job \in Jobs
      BY <1>1, <1>4, <1>5, <3>1 DEF Live
    <3>3. QED
      BY <1>10, <3>2 DEF NoBatch
  <2>3. \A n \in new : cur["queued"] # None => cur["queued"].job # n.job
    BY <1>0, <1>4, <1>5 DEF OnePlacePerJob, WatchesTaken
  <2>4. \A t \in Live("queued")' : cur["queued"] # None => cur["queued"].job # t.job
    BY <1>0, <1>1, <2>3 DEF OnePlacePerJob, TasksTaken, Live
  <2>5. QED
    BY <1>1, <1>10, <2>1, <2>2, <2>4 DEF OnePlacePerJob, TasksTaken
<1>12. WatchesTaken'
  <2>1. \A m \in Managers : cur[m] # None => cur[m].job \in Jobs
    BY DEF TypeOK, Watch
  <2>2. QED
    BY <1>1, <1>10, <2>1 DEF OnePlacePerJob, WatchesTaken, NoBatch
<1>13. QED
  BY <1>8, <1>9, <1>11, <1>12 DEF OnePlacePerJob

\* UpdateJobStatus takes its job from the snapshot, and dispatches it again
\* only when it is done with it.
LEMMA WatchPlaces ==
  ASSUME TypeOK, OnePlacePerJob, NEW m \in Watchers, WatchStep(m) \/ WatchFault(m)
  PROVE  OnePlacePerJob'
<1>0. m \in Managers
  BY DEF Watchers, Managers
<1>1. ASSUME NEW j \in Jobs, Observe(m, j)
      PROVE  OnePlacePerJob'
  <2>1. /\ cur[m] = None /\ batch[m][j] # None /\ gen' = gen /\ tasks' = tasks
        /\ Take(m, j)
    BY <1>1 DEF Observe
  <2>2. /\ \A k \in Managers : k # m => cur'[k] = cur[k]
        /\ cur'[m].job = j
    BY <1>0, <1>1 DEF Observe, TypeOK
  <2>3. \A k \in Managers : Live(k)' = Live(k)
    BY <2>1 DEF Live
  <2>4. \A k \in Managers : \A t \in Live(k) : t.job \in Jobs
    BY TaskFields DEF Live
  <2>5. \A t \in Live(m) : t.job # j
    BY <1>0, <2>1 DEF OnePlacePerJob, TasksTaken
  <2>6. /\ \A k \in Managers, i \in Jobs : batch'[k][i] \in {batch[k][i], None}
        /\ batch'[m][j] = None
    BY <1>0, <2>1, TakePlaces
  <2>7. TasksTaken'
    BY <2>2, <2>3, <2>4, <2>5, <2>6 DEF OnePlacePerJob, TasksTaken
  <2>8. \A k \in Managers : cur[k] # None => cur[k].job \in Jobs
    BY DEF TypeOK, Watch
  <2>9. WatchesTaken'
    BY <2>2, <2>6, <2>8 DEF OnePlacePerJob, WatchesTaken
  <2>10. QED
    BY <2>1, <2>7, <2>9 DEF OnePlacePerJob, GenerationsPassed, TasksDistinct
<1>2. ASSUME EndWatch(m) \/ cur' = [cur EXCEPT ![m] = None]
      PROVE  /\ cur'[m] = None
             /\ \A k \in Managers : cur'[k] \in {cur[k], None}
  BY <1>0, <1>2 DEF EndWatch, TypeOK
<1>3. CASE ReportEnd(m)
  <2>1. cur[m] # None /\ cur[m] \in Watch
    BY <1>0, <1>3 DEF ReportEnd, Reporting, TypeOK
  <2>2. \A k \in Managers : cur'[k] # None => cur[k] # None /\ cur'[k].job = cur[k].job
    BY <1>0, <1>3, <2>1 DEF ReportEnd, TypeOK, Watch
  <2>3. QED
    BY <1>3, <2>2, PlacesFrame DEF ReportEnd, Continues
<1>4. CASE \/ Cleanup(m) \/ LeaveForDebug(m) \/ ReportRunning(m)
           \/ ReportPending(m) \/ ReportUnusual(m) \/ CleanupFails(m)
  <2>1. gen' = gen /\ tasks' = tasks /\ batch' = batch
    BY <1>4 DEF Cleanup, LeaveForDebug, ReportRunning, ReportPending,
                ReportUnusual, CleanupFails
  <2>2. \A k \in Managers : cur'[k] \in {cur[k], None}
    BY <1>2, <1>4 DEF Cleanup, LeaveForDebug, ReportRunning, ReportPending,
                      ReportUnusual, CleanupFails
  <2>3. QED
    BY <2>1, <2>2, PlacesFrame DEF Continues
<1>5. CASE AbortPass(m)
  <2>1. gen' = gen /\ tasks' = tasks
    BY <1>5 DEF AbortPass
  <2>2. \A k \in Managers, j \in Jobs : batch'[k][j] \in {batch[k][j], None}
    BY <1>5 DEF AbortPass, NoBatch, TypeOK
  <2>3. \A k \in Managers : cur'[k] \in {cur[k], None}
    BY <1>2, <1>5 DEF AbortPass
  <2>4. QED
    BY <2>1, <2>2, <2>3, PlacesFrame DEF Continues
<1>6. CASE Resubmit(m)
  <2> DEFINE n == NewTask(m, cur[m].job, "kill", "queued")
  <2>1. /\ cur[m] # None /\ tasks' = tasks \cup {n} /\ gen' = gen /\ batch' = batch
    BY <1>6 DEF Resubmit, Reporting
  <2>2. n.pool = m /\ n.gen = gen[m] /\ n.job = cur[m].job
    BY DEF NewTask
  <2>3. \A t \in Live(m) : t.job # cur[m].job
    BY <1>0, <2>1 DEF OnePlacePerJob, TasksTaken
  <2>4. batch[m][cur[m].job] = None
    BY <1>0, <2>1 DEF OnePlacePerJob, WatchesTaken
  <2>5. cur'[m] = None /\ \A k \in Managers : cur'[k] \in {cur[k], None}
    BY <1>2, <1>6 DEF Resubmit
  <2> HIDE DEF n
  <2>6. QED
    BY <1>0, <2>1, <2>2, <2>3, <2>4, <2>5, PlacesAdd
<1>7. QED
  BY <1>1, <1>3, <1>4, <1>5, <1>6 DEF WatchStep, WatchFault

\* The workers only go on with tasks.
LEMMA TaskPlaces ==
  ASSUME TypeOK, OnePlacePerJob, NEW t \in tasks,
         SubmitStep(t) \/ KillStep(t) \/ TaskFault(t)
  PROVE  OnePlacePerJob'
<1>1. \A pc : LET u == [t EXCEPT !.pc = pc]
              IN  u.pool = t.pool /\ u.gen = t.gen /\ u.job = t.job
  BY DEF TypeOK, Task, SubmitTask, KillTask
<1>2. Done(t) \/ (\E pc : GoTo(t, pc)) => Continues
  <2>1. ASSUME NEW pc, GoTo(t, pc)
        PROVE  Continues
    <3> DEFINE u == [t EXCEPT !.pc = pc]
    <3>1. u.pool = t.pool /\ u.gen = t.gen /\ u.job = t.job
      BY <1>1
    <3>2. tasks' = (tasks \ {t}) \cup {u}
      BY <2>1 DEF GoTo, Become
    <3> HIDE DEF u
    <3>3. QED
      BY <3>1, <3>2 DEF Continues
  <2>2. QED
    BY <2>1 DEF Done, Continues
<1>3. ASSUME UNCHANGED manager, Continues
      PROVE  OnePlacePerJob'
  BY <1>3, PlacesFrame DEF manager
<1>4. ASSUME NEW r \in Roles, CreatePod(t, r)
      PROVE  Continues
  <2> DEFINE u == [t EXCEPT !.left = @ \ {r},
                            !.pc = IF t.left = {r} THEN "write" ELSE "create"]
  <2>1. u.pool = t.pool /\ u.gen = t.gen /\ u.job = t.job
    BY DEF TypeOK, Task, SubmitTask, KillTask
  <2>2. tasks' = (tasks \ {t}) \cup {u}
    BY <1>4 DEF CreatePod, Become
  <2> HIDE DEF u
  <2>3. QED
    BY <2>1, <2>2 DEF Continues
<1>5. UNCHANGED manager
  BY DEF SubmitStep, KillStep, TaskFault, SubmitWaits, SubmitRejected,
         SubmitBegins, SubmitCleans, CreatePod, CreateRefused, WriteScheduling,
         CountRetry, WriteError, SweepPods, KillDeletes, KillReports,
         CreateFails, KillErrs, KillRaises, WorkerDies
<1>6. CASE SubmitStep(t)
  BY <1>2, <1>3, <1>4, <1>5, <1>6
     DEF SubmitStep, SubmitWaits, SubmitRejected, SubmitBegins, SubmitCleans,
         CreateRefused, WriteScheduling, CountRetry, WriteError, SweepPods
<1>7. CASE KillStep(t) \/ TaskFault(t)
  BY <1>2, <1>3, <1>5, <1>7
     DEF KillStep, TaskFault, KillDeletes, KillReports, CreateFails, KillErrs,
         KillRaises, WorkerDies
<1>8. QED
  BY <1>6, <1>7

\* Clients and Kubernetes have no part in it, and at first there is nothing.
LEMMA NextPlaces == TypeOK /\ OnePlacePerJob /\ [Next]_vars => OnePlacePerJob'
<1> SUFFICES ASSUME TypeOK, OnePlacePerJob, [Next]_vars
             PROVE  OnePlacePerJob'
  OBVIOUS
<1>1. ASSUME UNCHANGED <<manager, tasks>>
      PROVE  OnePlacePerJob'
  BY <1>1, PlacesFrame DEF manager, Continues
<1>2. ASSUME NEW c \in Clients, ClientStep(c)
      PROVE  OnePlacePerJob'
  BY <1>1, <1>2 DEF ClientStep, OpRead, OpWrite
<1>3. ASSUME NEW j \in Jobs, NEW r \in Roles, PodChanges(j, r) \/ PodGone(j, r)
      PROVE  OnePlacePerJob'
  BY <1>1, <1>3 DEF PodChanges, PodGone
<1>4. CASE Next
  BY <1>2, <1>3, <1>4, LoopPlaces, RequestPlaces, SchedulePlaces, WatchPlaces,
     TaskPlaces DEF Next
<1>5. CASE UNCHANGED vars
  BY <1>1, <1>5 DEF vars, manager
<1>6. QED
  BY <1>4, <1>5

\* At first no process has anything in hand.
LEMMA InitPlaces == Init => OnePlacePerJob
BY DEF Init, NoBatch, OnePlacePerJob, GenerationsPassed, TasksDistinct,
       TasksTaken, WatchesTaken, Live

\* A job is in one place of a process at a time, over restarts and orphans.
THEOREM OnePlaceHolds == Spec => []OnePlacePerJob
BY TypeCorrect, InitPlaces, NextPlaces, PTL DEF Spec

\* The workers of one process never work on two tasks of the same job.
THEOREM TasksApart == Spec => []OneTaskPerJob
BY OnePlaceHolds, PlacesImply, PTL

-----------------------------------------------------------------------------
(***************************************************************************)
(* The pods of two attempts do not mix: OneGangPerJob, inductive together  *)
(* with the fact that all submissions come from one process, whose tasks   *)
(* are of different jobs.                                                  *)
(***************************************************************************)
Creating == {"clean", "create"}

SubmitsQueued == \A t \in tasks : t.fn = "submit" => t.pool = "queued"

Gang == SubmitsQueued /\ OneGangPerJob

\* What may become of the tasks in a step that creates no pod: a task that
\* goes on creating has the same pods left, one that begins finds none.
Follows(x) ==
  /\ x.job \in Jobs
  /\ \/ x.fn = "kill"
     \/ x.pool = "queued" /\ x.pc = "wait"
     \/ \E t \in tasks :
          /\ x.fn = t.fn /\ x.pool = t.pool /\ x.job = t.job
          /\ x.pc \in Creating =>
               \/ t.pc \in Creating /\ x.left = t.left
               \/ Existing(x.job) = {}

\* Steps that create no pod.
LEMMA GangFrame ==
  ASSUME TypeOK, Gang, gen'["queued"] = 0 => gen["queued"] = 0,
         \A j \in Jobs : Existing(j)' \subseteq Existing(j),
         \A x \in tasks' : Follows(x)
  PROVE  Gang'
<1>1. SubmitsQueued'
  BY DEF Gang, SubmitsQueued, Follows
<1>2. ASSUME gen'["queued"] = 0, NEW x \in tasks', x.fn = "submit",
             x.pc \in Creating
      PROVE  Existing(x.job)' \subseteq Roles \ x.left
  <2>1. x.job \in Jobs /\ Existing(x.job)' \subseteq Existing(x.job)
    BY DEF Follows
  <2>2. CASE Existing(x.job) = {}
    BY <2>1, <2>2
  <2>3. CASE Existing(x.job) # {}
    <3>1. PICK t \in tasks : x.fn = t.fn /\ x.job = t.job /\ x.left = t.left
                             /\ t.pc \in Creating
      BY <1>2, <2>3 DEF Follows, Creating
    <3>2. Existing(t.job) \subseteq Roles \ t.left
      BY <1>2, <3>1 DEF Gang, OneGangPerJob, Creating
    <3>3. QED
      BY <2>1, <3>1, <3>2
  <2>4. QED
    BY <2>2, <2>3
<1>3. OneGangPerJob'
  BY <1>2 DEF OneGangPerJob, Creating
<1>4. QED
  BY <1>1, <1>3 DEF Gang

\* A task that stays is followed by itself.
LEMMA Stays ==
  ASSUME TypeOK, NEW t \in tasks
  PROVE  Follows(t)
BY TaskFields DEF Follows

\* Deleting the pods of a job creates none.
LEMMA DeletedFewer ==
  ASSUME TypeOK, NEW i \in Jobs, DeletePods(i) \/ UNCHANGED pods
  PROVE  \A j \in Jobs : Existing(j)' \subseteq Existing(j)
<1>1. CASE UNCHANGED pods
  BY <1>1 DEF Existing
<1>2. CASE DeletePods(i)
  <2>1. \A j \in Jobs \ {i} : pods'[j] = pods[j]
    BY <1>2 DEF DeletePods, TypeOK
  <2>2. Existing(i)' \subseteq Existing(i)
    BY <1>2 DEF DeletePods, Existing, Deleted, TypeOK
  <2>3. QED
    BY <2>1, <2>2 DEF Existing
<1>3. QED
  BY <1>1, <1>2

\* Steps that leave the pods and the processes alone and make kill tasks at most.
LEMMA GangKept ==
  ASSUME TypeOK, Gang, gen' = gen,
         \A j \in Jobs : Existing(j)' \subseteq Existing(j),
         tasks' \subseteq tasks \/
           \E x : tasks' = tasks \cup {x} /\ x.fn = "kill" /\ x.job \in Jobs
  PROVE  Gang'
<1>1. \A x \in tasks' : x \in tasks \/ (x.fn = "kill" /\ x.job \in Jobs)
  OBVIOUS
<1>2. \A x \in tasks' : Follows(x)
  BY <1>1, Stays DEF Follows
<1>3. QED
  BY <1>2, GangFrame

\* A new process is of a later generation; Fetch makes no task.
LEMMA LoopGang ==
  ASSUME TypeOK, Gang, NEW m \in Managers,
         Fetch(m) \/ ManagerDies(m) \/ Supervise(m)
  PROVE  Gang'
<1>1. pods' = pods /\ tasks' \subseteq tasks
  BY DEF Fetch, ManagerDies, Supervise, Restart
<1>2. gen'["queued"] \in {gen["queued"], gen["queued"] + 1} /\ gen["queued"] \in Nat
  BY DEF Fetch, ManagerDies, Supervise, Restart, TypeOK, Managers
<1>3. \A j \in Jobs : Existing(j)' = Existing(j)
  BY <1>1 DEF Existing
<1>4. QED
  BY <1>1, <1>2, <1>3, Stays, GangFrame

\* A pass over requests makes kill tasks.
LEMMA RequestGang ==
  ASSUME TypeOK, Gang, NEW j \in Jobs, RequestStep(j)
  PROVE  Gang'
<1>1. pods' = pods /\ gen' = gen
  BY DEF RequestStep, DispatchKill, Approve, LeaveUnapproved
<1>2. \A i \in Jobs : Existing(i)' = Existing(i)
  BY <1>1 DEF Existing
<1>3. \A to : LET x == NewTask("requests", j, "kill", to)
              IN  x.fn = "kill" /\ x.job \in Jobs
  BY DEF NewTask
<1>4. tasks' = tasks \/ \E to : tasks' = tasks \cup {NewTask("requests", j, "kill", to)}
  BY DEF RequestStep, DispatchKill, Approve, LeaveUnapproved
<1>5. QED
  BY <1>1, <1>2, <1>3, <1>4, GangKept

\* Submissions are made here only, and begin later.
LEMMA ScheduleGang ==
  ASSUME TypeOK, Gang, NEW allowed \in SUBSET Jobs, Schedule(allowed)
  PROVE  Gang'
<1>1. pods' = pods /\ gen' = gen
  BY DEF Schedule
<1>2. \A j \in Jobs : Existing(j)' = Existing(j)
  BY <1>1 DEF Existing
<1>3. \A x \in tasks' :
        \/ x \in tasks
        \/ \E j \in Jobs : \/ x = NewTask("queued", j, "submit", "scheduling")
                           \/ x = NewTask("queued", j, "kill", "queued")
  BY JobsAssumption DEF Schedule
<1>4. \A j \in Jobs : /\ Follows(NewTask("queued", j, "submit", "scheduling"))
                      /\ Follows(NewTask("queued", j, "kill", "queued"))
  BY DEF Follows, NewTask
<1>5. QED
  BY <1>1, <1>2, <1>3, <1>4, Stays, GangFrame

\* UpdateJobStatus deletes pods and makes kill tasks.
LEMMA WatchGang ==
  ASSUME TypeOK, Gang, NEW m \in Watchers, WatchStep(m) \/ WatchFault(m)
  PROVE  Gang'
<1>0. m \in Managers
  BY DEF Watchers, Managers
<1>1. cur[m] # None => cur[m].job \in Jobs
  BY <1>0 DEF TypeOK, Watch
<1>2. CASE Cleanup(m)
  BY <1>1, <1>2, DeletedFewer, GangKept DEF Cleanup
<1>3. CASE Resubmit(m)
  <2> DEFINE x == NewTask(m, cur[m].job, "kill", "queued")
  <2>1. x.fn = "kill" /\ x.job \in Jobs
    BY <1>1, <1>3 DEF Resubmit, Reporting, NewTask
  <2>2. tasks' = tasks \cup {x} /\ gen' = gen /\ pods' = pods
    BY <1>3 DEF Resubmit
  <2>3. \A j \in Jobs : Existing(j)' = Existing(j)
    BY <2>2 DEF Existing
  <2> HIDE DEF x
  <2>4. QED
    BY <2>1, <2>2, <2>3, GangKept
<1>4. CASE \/ \E j \in Jobs : Observe(m, j)
           \/ ReportEnd(m) \/ LeaveForDebug(m) \/ ReportRunning(m)
           \/ ReportPending(m) \/ ReportUnusual(m)
           \/ CleanupFails(m) \/ AbortPass(m)
  <2>1. UNCHANGED <<tasks, gen, pods>>
    BY <1>4 DEF Observe, ReportEnd, LeaveForDebug, ReportRunning, ReportPending,
                ReportUnusual, CleanupFails, AbortPass
  <2>2. \A j \in Jobs : Existing(j)' = Existing(j)
    BY <2>1 DEF Existing
  <2>3. QED
    BY <2>1, <2>2, GangKept
<1>5. QED
  BY <1>2, <1>3, <1>4 DEF WatchStep, WatchFault

\* A worker that goes on with its task without creating a pod.
LEMMA GangGoes ==
  ASSUME TypeOK, Gang, NEW t \in tasks, NEW pc, GoTo(t, pc), gen' = gen,
         \A j \in Jobs : Existing(j)' \subseteq Existing(j),
         pc \in Creating => t.pc \in Creating \/ Existing(t.job) = {}
  PROVE  Gang'
<1> DEFINE u == [t EXCEPT !.pc = pc]
<1>1. /\ u.fn = t.fn /\ u.pool = t.pool /\ u.job = t.job
      /\ u.left = t.left /\ u.pc = pc
  BY DEF TypeOK, Task, SubmitTask, KillTask
<1>2. \A x \in tasks' : x \in tasks \/ x = u
  BY DEF GoTo, Become
<1> HIDE DEF u
<1>3. Follows(u)
  BY <1>1, TaskFields DEF Follows
<1>4. QED
  BY <1>2, <1>3, Stays, GangFrame

\* The pod created is one of its own task, and no other task of the queued
\* manager is about the job, so that no other one has it to create.
LEMMA CreateGang ==
  ASSUME TypeOK, OnePlacePerJob, Gang, NEW t \in tasks, NEW r \in Roles,
         CreatePod(t, r)
  PROVE  Gang'
<1> DEFINE u == [t EXCEPT !.left = @ \ {r},
                          !.pc = IF t.left = {r} THEN "write" ELSE "create"]
<1>1. t.fn = "submit" /\ t.job \in Jobs /\ t.left \in SUBSET Roles
  BY DEF CreatePod, TypeOK, Task, SubmitTask, KillTask
<1>2. /\ u.fn = t.fn /\ u.pool = t.pool /\ u.job = t.job
      /\ u.left = t.left \ {r}
  BY <1>1 DEF TypeOK, Task, SubmitTask, KillTask
<1>3. tasks' = (tasks \ {t}) \cup {u}
  <2>1. Become(t, u)
    BY DEF CreatePod
  <2> HIDE DEF u
  <2>2. QED
    BY <2>1 DEF Become
<1> HIDE DEF u
<1>4. SubmitsQueued'
  BY <1>2, <1>3 DEF Gang, SubmitsQueued
<1>5. /\ Existing(t.job)' \subseteq Existing(t.job) \cup {r}
      /\ \A j \in Jobs \ {t.job} : Existing(j)' = Existing(j)
  BY <1>1 DEF CreatePod, Existing, TypeOK
<1>6. gen' = gen
  BY DEF CreatePod, manager
<1>7. ASSUME gen["queued"] = 0, NEW x \in tasks, x.fn = "submit", x.job = t.job
      PROVE  x = t
  <2>1. x.pool = "queued" /\ t.pool = "queued"
    BY <1>1, <1>7 DEF Gang, SubmitsQueued
  <2>2. x.gen \in Nat /\ t.gen \in Nat
    BY DEF TypeOK, Task, SubmitTask, KillTask
  <2>3. x.gen <= 0 /\ t.gen <= 0
    BY <1>7, <2>1 DEF OnePlacePerJob, GenerationsPassed
  <2>4. x.gen = t.gen
    BY <2>2, <2>3
  <2>5. QED
    BY <1>7, <2>1, <2>4 DEF OnePlacePerJob, TasksDistinct
<1>8. ASSUME gen["queued"] = 0, NEW x \in tasks', x.fn = "submit",
             x.pc \in Creating
      PROVE  Existing(x.job)' \subseteq Roles \ x.left
  <2>1. CASE x = u
    <3>1. Existing(t.job) \subseteq Roles \ t.left
      BY <1>1, <1>8 DEF Gang, OneGangPerJob, CreatePod
    <3>2. QED
      BY <1>2, <1>5, <2>1, <3>1
  <2>2. CASE x # u
    <3>1. x \in tasks /\ x # t
      BY <1>3, <2>2
    <3>2. x.job \in Jobs \ {t.job}
      BY <1>7, <1>8, <3>1, TaskFields
    <3>3. QED
      BY <1>5, <1>8, <3>1, <3>2 DEF Gang, OneGangPerJob, Creating
  <2>3. QED
    BY <2>1, <2>2
<1>9. OneGangPerJob'
  BY <1>6, <1>8 DEF OneGangPerJob, Creating
<1>10. QED
  BY <1>4, <1>9 DEF Gang

\* The other steps of the workers.
LEMMA TaskGang ==
  ASSUME TypeOK, OnePlacePerJob, Gang, NEW t \in tasks,
         SubmitStep(t) \/ KillStep(t) \/ TaskFault(t)
  PROVE  Gang'
<1>1. t.job \in Jobs
  BY TaskFields
<1>2. UNCHANGED manager
  <2>1. CASE SubmitStep(t)
    <3>1. ASSUME NEW r \in Roles, CreatePod(t, r) \/ CreateRefused(t, r)
          PROVE  UNCHANGED manager
      BY <3>1 DEF CreatePod, CreateRefused
    <3>2. CASE \/ SubmitWaits(t) \/ SubmitRejected(t) \/ SubmitBegins(t)
               \/ SubmitCleans(t) \/ WriteScheduling(t) \/ CountRetry(t)
               \/ WriteError(t) \/ SweepPods(t)
      BY <3>2 DEF SubmitWaits, SubmitRejected, SubmitBegins, SubmitCleans,
                  WriteScheduling, CountRetry, WriteError, SweepPods
    <3>3. QED
      BY <2>1, <3>1, <3>2 DEF SubmitStep
  <2>2. CASE KillStep(t) \/ TaskFault(t)
    BY <2>2 DEF KillStep, TaskFault, KillDeletes, KillReports, CreateFails,
                KillErrs, KillRaises, WorkerDies
  <2>3. QED
    BY <2>1, <2>2
<1>3. gen' = gen
  BY <1>2 DEF manager
<1>4. CASE \/ SubmitWaits(t) \/ SubmitRejected(t) \/ WriteScheduling(t)
           \/ SweepPods(t) \/ KillReports(t) \/ KillRaises(t)
  <2>1. tasks' \subseteq tasks
    BY <1>4 DEF SubmitWaits, SubmitRejected, WriteScheduling, SweepPods,
                KillReports, KillRaises, Done
  <2>2. DeletePods(t.job) \/ UNCHANGED pods
    BY <1>4 DEF SubmitWaits, SubmitRejected, WriteScheduling, SweepPods,
                KillReports, KillRaises
  <2>3. QED
    BY <1>1, <1>3, <2>1, <2>2, DeletedFewer, GangKept
<1>5. CASE \/ \E r \in Roles : CreateRefused(t, r)
           \/ CountRetry(t) \/ WriteError(t) \/ KillDeletes(t)
           \/ CreateFails(t) \/ KillErrs(t) \/ WorkerDies(t)
  <2>1. Done(t) \/ \E pc : pc \notin Creating /\ GoTo(t, pc)
    BY <1>5 DEF CreateRefused, CountRetry, WriteError, KillDeletes, CreateFails,
                KillErrs, WorkerDies, Creating
  <2>2. DeletePods(t.job) \/ UNCHANGED pods
    BY <1>5 DEF CreateRefused, CountRetry, WriteError, KillDeletes, CreateFails,
                KillErrs, WorkerDies
  <2>3. QED
    BY <1>1, <1>3, <2>1, <2>2, DeletedFewer, GangKept, GangGoes DEF Done
<1>6. CASE SubmitBegins(t)
  BY <1>1, <1>3, <1>6, DeletedFewer, GangGoes DEF SubmitBegins
<1>7. CASE SubmitCleans(t)
  <2>1. \A j \in Jobs : Existing(j)' \subseteq Existing(j)
    BY <1>1, <1>7 DEF SubmitCleans, Existing, Deleted, TypeOK
  <2>2. QED
    BY <1>3, <1>7, <2>1, GangGoes DEF SubmitCleans, Creating
<1>8. QED
  BY <1>4, <1>5, <1>6, <1>7, CreateGang DEF SubmitStep, KillStep, TaskFault

\* Pods never appear from nothing, clients have no part in it.
LEMMA NextGang ==
  TypeOK /\ OnePlacePerJob /\ Gang /\ [Next]_vars => Gang'
<1> SUFFICES ASSUME TypeOK, OnePlacePerJob, Gang, [Next]_vars
             PROVE  Gang'
  OBVIOUS
<1>1. ASSUME UNCHANGED <<gen, tasks>>,
             \A j \in Jobs : Existing(j)' \subseteq Existing(j)
      PROVE  Gang'
  BY <1>1, GangKept
<1>2. ASSUME UNCHANGED <<gen, tasks, pods>>
      PROVE  Gang'
  BY <1>1, <1>2 DEF Existing
<1>3. ASSUME NEW c \in Clients, ClientStep(c)
      PROVE  Gang'
  BY <1>2, <1>3 DEF ClientStep, OpRead, OpWrite, manager
<1>4. ASSUME NEW j \in Jobs, NEW r \in Roles, PodChanges(j, r) \/ PodGone(j, r)
      PROVE  Gang'
  <2>1. \A i \in Jobs \ {j} : pods'[i] = pods[i]
    BY <1>4 DEF PodChanges, PodGone, TypeOK
  <2>2. Existing(j)' \subseteq Existing(j)
    BY <1>4, JobsAssumption DEF PodChanges, PodGone, Existing, TypeOK
  <2>3. \A i \in Jobs : Existing(i)' \subseteq Existing(i)
    BY <2>1, <2>2 DEF Existing
  <2>4. QED
    BY <1>1, <1>4, <2>3 DEF PodChanges, PodGone, manager
<1>5. CASE Next
  BY <1>3, <1>4, <1>5, LoopGang, RequestGang, ScheduleGang, WatchGang,
     TaskGang DEF Next
<1>6. CASE UNCHANGED vars
  BY <1>2, <1>6 DEF vars
<1>7. QED
  BY <1>5, <1>6

\* At first there are no tasks.
LEMMA InitGang == Init => Gang
BY DEF Init, Gang, SubmitsQueued, OneGangPerJob

\* Until its manager is restarted, a submission creates pods only beside its
\* own, for any roles and jobs, over failed calls and dead workers.
THEOREM GangsApart == Spec => []OneGangPerJob
<1>1. Spec => []Gang
  BY TypeCorrect, OnePlaceHolds, InitGang, NextGang, PTL DEF Spec
<1>2. Gang => OneGangPerJob
  BY DEF Gang
<1>3. QED
  BY <1>1, <1>2, PTL

-----------------------------------------------------------------------------
(***************************************************************************)
(* Statuses in order: PipelineOrder. Each manager acts on jobs in a status *)
(* of its own, and as long as no request and no restart interferes whoever *)
(* has a job in hand finds it in the status of its manager, and moves on   *)
(* alone.                                                                  *)
(***************************************************************************)

\* The status of the jobs that are not preemptible which manager m acts on.
Stage(m) == IF m = "requests" THEN "unapproved" ELSE m

\* Manager m is going to act on job j: it has it in its snapshot, watches it or
\* has a task for it that will still write a status.
Claims(m, j) ==
  \/ batch[m][j] = Stage(m)
  \/ cur[m] # None /\ cur[m].job = j /\ cur[m].step = "report"
  \/ \E t \in tasks : t.pool = m /\ t.job = j /\ t.pc # "sweep"

Owned ==
  ops = 0 /\ crashes = 0 =>
    \A j \in Jobs \ Preemptible, m \in Managers :
      Claims(m, j) => status[j] = Stage(m)

\* Without requests and restarts there is nothing to kill or to pause, no worker
\* is missing, and a job that is not preemptible is killed only to be queued
\* again, by the manager that missed its pods.
Undisturbed ==
  ops = 0 /\ crashes = 0 =>
    /\ \A c \in Clients : req[c] = None
    /\ \A m \in Managers : gen[m] = 0
    /\ \A j \in Jobs : /\ status[j] \notin {"killing", "pausing"}
                       /\ batch["requests"][j] \in {None, "unapproved"}
    /\ \A m \in Managers : cur[m] # None => m \in Watchers /\ cur[m].snap = m
    /\ \A t \in tasks :
         /\ t.pc # "lost"
         /\ t.fn = "submit" => t.pool = "queued"
         /\ t.fn = "kill" => /\ t.to = "queued"
                             /\ t.pool \in Watchers \/ t.job \in Preemptible

LEMMA InitPipeline == Init => Owned /\ Undisturbed
<1> SUFFICES ASSUME Init
             PROVE  Owned /\ Undisturbed
  OBVIOUS
<1>1. \A m \in Managers, j \in Jobs : batch[m][j] = None
  BY DEF Init, NoBatch
<1>2. \A m \in Managers : Stage(m) # None
  BY NoneAssumption DEF Stage, Managers
<1>3. \A m \in Managers, j \in Jobs : ~Claims(m, j)
  BY <1>1, <1>2 DEF Init, Claims
<1>4. "requests" \in Managers
  BY DEF Managers
<1>5. QED
  BY <1>1, <1>3, <1>4 DEF Init, Owned, Undisturbed

\* Requests and deaths are counted, apart from the writing of statuses.
LEMMA Counts ==
  ASSUME [Next]_vars
  PROVE  /\ ops' \in {ops, ops + 1} /\ crashes' \in {crashes, crashes + 1}
         /\ UNCHANGED <<ops, crashes>> \/ status' = status
<1>1. ASSUME NEW c \in Clients, ClientStep(c)
      PROVE  /\ crashes' = crashes
             /\ ops' = ops \/ (ops' = ops + 1 /\ status' = status)
  BY <1>1 DEF ClientStep, OpRead, OpWrite, budget, table
<1>2. ASSUME NEW m \in Managers, Fetch(m) \/ ManagerDies(m) \/ Supervise(m)
      PROVE  /\ ops' = ops
             /\ crashes' = crashes \/ (crashes' = crashes + 1 /\ status' = status)
  BY <1>2 DEF Fetch, ManagerDies, Supervise, budget, table
<1>3. ASSUME NEW j \in Jobs, RequestStep(j)
      PROVE  UNCHANGED <<ops, crashes>>
  BY <1>3 DEF RequestStep, DispatchKill, Approve, LeaveUnapproved, budget
<1>4. ASSUME NEW allowed \in SUBSET Jobs, Schedule(allowed)
      PROVE  UNCHANGED <<ops, crashes>>
  BY <1>4 DEF Schedule, budget
<1>5. ASSUME NEW m \in Watchers, WatchStep(m) \/ WatchFault(m)
      PROVE  UNCHANGED <<ops, crashes>>
  BY <1>5 DEF WatchStep, WatchFault, Observe, ReportEnd, Cleanup, LeaveForDebug,
              ReportRunning, ReportPending, ReportUnusual, Resubmit, CleanupFails,
              AbortPass, budget
<1>6. ASSUME NEW t \in tasks, SubmitStep(t)
      PROVE  UNCHANGED <<ops, crashes>>
  BY <1>6 DEF SubmitStep, SubmitWaits, SubmitRejected, SubmitBegins, SubmitCleans,
              CreatePod, CreateRefused, WriteScheduling, CountRetry, WriteError,
              SweepPods, budget
<1>7. ASSUME NEW t \in tasks, KillStep(t) \/ TaskFault(t)
      PROVE  /\ ops' = ops
             /\ crashes' = crashes \/ (crashes' = crashes + 1 /\ status' = status)
  BY <1>7 DEF KillStep, TaskFault, KillDeletes, KillReports, CreateFails, KillErrs,
              KillRaises, WorkerDies, budget, table
<1>8. ASSUME NEW j \in Jobs, NEW r \in Roles, PodChanges(j, r) \/ PodGone(j, r)
      PROVE  UNCHANGED <<ops, crashes>>
  BY <1>8 DEF PodChanges, PodGone, budget
<1>9. CASE UNCHANGED vars
  BY <1>9 DEF vars
<1>10. QED
  BY <1>1, <1>2, <1>3, <1>4, <1>5, <1>6, <1>7, <1>8, <1>9 DEF Next

LEMMA QuietBackwards ==
  ASSUME TypeOK, [Next]_vars, ops' = 0, crashes' = 0
  PROVE  ops = 0 /\ crashes = 0
BY Counts DEF TypeOK

\* A manager has a job in one place, and without restarts all its tasks are its
\* own. So a job that it is about to move on is in no other place of it.
LEMMA OneClaim ==
  ASSUME TypeOK, OnePlacePerJob, Undisturbed, ops = 0, crashes = 0,
         NEW m \in Managers, NEW j \in Jobs
  PROVE  /\ batch[m][j] # None =>
              /\ ~(cur[m] # None /\ cur[m].job = j)
              /\ \A t \in tasks : t.pool = m => t.job # j
         /\ cur[m] # None /\ cur[m].job = j =>
              /\ batch[m][j] = None
              /\ \A t \in tasks : t.pool = m => t.job # j
         /\ \A t \in tasks : t.pool = m /\ t.job = j =>
              /\ batch[m][j] = None
              /\ ~(cur[m] # None /\ cur[m].job = j)
              /\ \A u \in tasks : u.pool = m /\ u.job = j => u = t
<1>1. \A t \in tasks : t.pool = m => t \in Live(m) /\ t.gen = gen[m]
  <2>1. \A t \in tasks : t.gen \in Nat /\ t.gen <= gen[t.pool]
    BY DEF TypeOK, Task, SubmitTask, KillTask, OnePlacePerJob, GenerationsPassed
  <2>2. gen[m] = 0
    BY DEF Undisturbed
  <2>3. \A t \in tasks : t.pool = m => t.gen = 0
    BY <2>1, <2>2
  <2>4. QED
    BY <2>2, <2>3 DEF Live
<1>2. QED
  BY <1>1 DEF OnePlacePerJob, TasksDistinct, TasksTaken, WatchesTaken

\* What a step may do to a job that is not preemptible: leave its status alone,
\* or move it on along the pipeline by the one that has it in hand; and nobody
\* else takes the job in hand but by what the status is.
Moves(j) ==
  /\ status'[j] = status[j]
     \/ /\ <<status[j], status'[j]>> \in Pipeline
        /\ \E m \in Managers : Claims(m, j) /\ ~Claims(m, j)'
  /\ \A m \in Managers : Claims(m, j)' => Claims(m, j) \/ status'[j] = Stage(m)

LEMMA OwnedStep ==
  ASSUME Owned, ops = 0, crashes = 0, \A j \in Jobs \ Preemptible : Moves(j)
  PROVE  Owned'
<1>1. ASSUME NEW j \in Jobs \ Preemptible, NEW m \in Managers, Claims(m, j)',
             status'[j] # Stage(m)
      PROVE  FALSE
  <2>1. Claims(m, j) /\ status[j] = Stage(m)
    BY <1>1 DEF Moves, Owned
  <2>2. PICK k \in Managers : Claims(k, j) /\ ~Claims(k, j)'
    BY <1>1, <2>1 DEF Moves
  <2>3. status[j] = Stage(k) /\ k # m
    BY <1>1, <2>2 DEF Owned
  <2>4. QED
    BY <2>1, <2>3 DEF Stage, Managers
<1>2. QED
  BY <1>1 DEF Owned

\* Taking jobs from snapshots, ending watches and going on with tasks makes no
\* claim.
LEMMA ClaimsFrame ==
  ASSUME NEW m \in Managers, NEW j \in Jobs, batch'[m][j] \in {batch[m][j], None},
         cur'[m] # None /\ cur'[m].job = j /\ cur'[m].step = "report" =>
           cur[m] # None /\ cur[m].job = j /\ cur[m].step = "report",
         \A x \in tasks' : x.pool = m /\ x.job = j /\ x.pc # "sweep" =>
           Claims(m, j)
  PROVE  Claims(m, j)' => Claims(m, j)
<1>1. Stage(m) # None
  BY NoneAssumption DEF Stage, Managers
<1>2. QED
  BY <1>1 DEF Claims

LEMMA ClaimsKept ==
  ASSUME NEW m \in Managers, NEW j \in Jobs, batch' = batch, cur' = cur,
         \A x \in tasks' : x.pool = m /\ x.job = j /\ x.pc # "sweep" =>
           \E t \in tasks : t.pool = m /\ t.job = j /\ t.pc # "sweep"
  PROVE  Claims(m, j)' => Claims(m, j)
BY DEF Claims

\* Clients do not come in, and a snapshot claims what it has read.
LEMMA LoopMoves ==
  ASSUME TypeOK, Undisturbed, ops = 0, crashes = 0, ops' = 0, crashes' = 0,
         \/ \E c \in Clients : ClientStep(c)
         \/ \E m \in Managers : Fetch(m) \/ ManagerDies(m) \/ Supervise(m)
  PROVE  Undisturbed' /\ \A j \in Jobs : Moves(j)
<1>1. \A c \in Clients : ~ClientStep(c)
  BY DEF ClientStep, OpRead, OpWrite, Undisturbed
<1>2. \A m \in Managers : ~ManagerDies(m) /\ ~Supervise(m)
  BY DEF ManagerDies, Supervise, Live, Undisturbed
<1>3. PICK m \in Managers : Fetch(m)
  BY <1>1, <1>2
<1>4. /\ UNCHANGED <<status, cur, gen, req, tasks>>
      /\ \A k \in Managers, j \in Jobs :
           \/ batch'[k][j] \in {batch[k][j], None}
           \/ k = m /\ batch'[k][j] = status[j] /\ status[j] \in Target(m)
  BY <1>3 DEF Fetch, table, TypeOK
<1>5. \A j \in Jobs : batch'["requests"][j] \in {None, "unapproved"}
  <2>1. "requests" \in Managers
    BY DEF Managers
  <2>2. \A j \in Jobs : status[j] \notin {"killing", "pausing"}
                        /\ batch["requests"][j] \in {None, "unapproved"}
    BY DEF Undisturbed
  <2>3. Target("requests") = {"killing", "pausing", "unapproved"}
    BY DEF Target
  <2>4. QED
    BY <1>4, <2>1, <2>2, <2>3
<1>6. Undisturbed'
  BY <1>4, <1>5 DEF Undisturbed
<1>7. ASSUME NEW j \in Jobs, NEW k \in Managers, Claims(k, j)', ~Claims(k, j)
      PROVE  status'[j] = Stage(k)
  <2>1. Stage(k) # None
    BY NoneAssumption DEF Stage, Managers
  <2>2. batch'[k][j] = Stage(k) /\ batch[k][j] # Stage(k)
    BY <1>4, <1>7 DEF Claims
  <2>3. QED
    BY <1>4, <2>1, <2>2
<1>8. QED
  BY <1>4, <1>6, <1>7 DEF Moves

\* The manager of requests moves on unapproved jobs.
LEMMA RequestMoves ==
  ASSUME TypeOK, OnePlacePerJob, Owned, Undisturbed, ops = 0, crashes = 0,
         NEW i \in Jobs, RequestStep(i)
  PROVE  Undisturbed' /\ \A j \in Jobs \ Preemptible : Moves(j)
<1>1. "requests" \in Managers /\ Stage("requests") = "unapproved"
  BY DEF Managers, Stage
<1>2. ~DispatchKill(i)
  BY NoneAssumption DEF DispatchKill, Undisturbed
<1>3. /\ batch["requests"][i] = "unapproved" /\ UNCHANGED <<cur, gen, req, tasks>>
      /\ \/ status' = status \/ status' = [status EXCEPT ![i] = "queued"]
      /\ Take("requests", i)
  BY <1>2 DEF RequestStep, Approve, LeaveUnapproved, table
<1>4. /\ \A k \in Managers, j \in Jobs : batch'[k][j] \in {batch[k][j], None}
      /\ batch'["requests"][i] = None
  BY <1>1, <1>3, TakePlaces
<1>5. Undisturbed'
  BY <1>1, <1>3, <1>4 DEF Undisturbed, TypeOK
<1>6. ASSUME NEW j \in Jobs, NEW k \in Managers
      PROVE  Claims(k, j)' => Claims(k, j)
  BY <1>3, <1>4, ClaimsFrame DEF Claims
<1>7. ASSUME i \notin Preemptible
      PROVE  /\ status[i] = "unapproved"
             /\ Claims("requests", i) /\ ~Claims("requests", i)'
  <2>1. Claims("requests", i)
    BY <1>1, <1>3 DEF Claims
  <2>2. ~(cur["requests"] # None /\ cur["requests"].job = i)
        /\ \A t \in tasks : t.pool = "requests" => t.job # i
    BY <1>1, <1>3, NoneAssumption, OneClaim
  <2>3. ~Claims("requests", i)'
    BY <1>1, <1>3, <1>4, <2>2, NoneAssumption DEF Claims
  <2>4. QED
    BY <1>1, <1>7, <2>1, <2>3 DEF Owned
<1>8. ASSUME NEW j \in Jobs \ Preemptible
      PROVE  Moves(j)
  <2>1. CASE status'[j] = status[j]
    BY <1>6, <2>1 DEF Moves
  <2>2. CASE status'[j] # status[j]
    <3>1. j = i /\ status'[j] = "queued"
      BY <1>3, <2>2 DEF TypeOK
    <3>2. <<"unapproved", "queued">> \in Pipeline
      BY DEF Pipeline
    <3>3. QED
      BY <1>1, <1>6, <1>7, <3>1, <3>2 DEF Moves
  <2>3. QED
    BY <2>1, <2>2
<1>9. QED
  BY <1>5, <1>8

\* A pass of the scheduler makes tasks of the jobs it found queued.
LEMMA ScheduleMoves ==
  ASSUME TypeOK, Undisturbed, ops = 0, crashes = 0,
         NEW allowed \in SUBSET Jobs, Schedule(allowed)
  PROVE  Undisturbed' /\ \A j \in Jobs \ Preemptible : Moves(j)
<1>1. "queued" \in Managers /\ Stage("queued") = "queued"
  BY DEF Managers, Stage
<1>2. /\ UNCHANGED <<status, cur, gen, req>>
      /\ batch' = [batch EXCEPT !["queued"] = NoBatch]
  BY DEF Schedule, table
<1>3. ASSUME NEW x \in tasks', x \notin tasks
      PROVE  \/ \E j \in Jobs : /\ batch["queued"][j] = "queued"
                                /\ x = NewTask("queued", j, "submit", "scheduling")
             \/ \E j \in Preemptible : x = NewTask("queued", j, "kill", "queued")
  BY <1>3 DEF Schedule
<1>4. \A k \in Managers, j \in Jobs : batch'[k][j] \in {batch[k][j], None}
  BY <1>1, <1>2 DEF TypeOK, NoBatch
<1>5. ASSUME NEW x \in tasks', x \notin tasks
      PROVE  /\ x.pool = "queued" /\ x.pc = "wait" /\ x.fn \in {"submit", "kill"}
             /\ x.fn = "submit" => batch["queued"][x.job] = "queued"
             /\ x.fn = "kill" => x.job \in Preemptible /\ x.to = "queued"
  BY <1>3, <1>5 DEF NewTask
<1>6. Undisturbed'
  <2>1. \A x \in tasks' : /\ x.pc # "lost"
                          /\ x.fn = "submit" => x.pool = "queued"
                          /\ x.fn = "kill" =>
                               /\ x.to = "queued"
                               /\ x.pool \in Watchers \/ x.job \in Preemptible
    BY <1>5 DEF Undisturbed
  <2>2. \A j \in Jobs : batch'["requests"][j] = batch["requests"][j]
    BY <1>1, <1>2 DEF TypeOK, Managers
  <2>3. QED
    BY <1>2, <2>1, <2>2 DEF Undisturbed
<1>7. ASSUME NEW j \in Jobs \ Preemptible, NEW k \in Managers
      PROVE  Claims(k, j)' => Claims(k, j)
  <2>1. ASSUME NEW x \in tasks', x.pool = k, x.job = j, x.pc # "sweep"
        PROVE  Claims(k, j)
    <3>1. CASE x \in tasks
      BY <2>1, <3>1 DEF Claims
    <3>2. CASE x \notin tasks
      BY <1>1, <1>5, <2>1, <3>2 DEF Claims
    <3>3. QED
      BY <3>1, <3>2
  <2>2. QED
    BY <1>2, <1>4, <2>1, ClaimsFrame
<1>8. QED
  BY <1>2, <1>6, <1>7 DEF Moves

\* UpdateJobStatus moves on the job it watches.
LEMMA WatchMoves ==
  ASSUME TypeOK, OnePlacePerJob, Owned, Undisturbed, ops = 0, crashes = 0,
         NEW m \in Watchers, WatchStep(m) \/ WatchFault(m)
  PROVE  Undisturbed' /\ \A j \in Jobs \ Preemptible : Moves(j)
<1>0. /\ m \in Managers /\ m \in {"running", "scheduling"}
      /\ Stage(m) = m /\ Target(m) = {m}
  BY DEF Watchers, Managers, Stage, Target
<1>1. ASSUME NEW i \in Jobs, Observe(m, i)
      PROVE  Undisturbed' /\ \A j \in Jobs \ Preemptible : Moves(j)
  <2>1. /\ UNCHANGED <<status, gen, req, tasks>> /\ batch[m][i] = m /\ Take(m, i)
        /\ \A k \in Managers : k # m => cur'[k] = cur[k]
        /\ cur'[m].job = i /\ cur'[m].snap = m
    BY <1>0, <1>1 DEF Observe, table, TypeOK
  <2>2. \A k \in Managers, j \in Jobs : batch'[k][j] \in {batch[k][j], None}
    BY <1>0, <2>1, TakePlaces
  <2>3. "requests" \in Managers
    BY DEF Managers
  <2>4. Undisturbed'
    BY <2>1, <2>2, <2>3 DEF Undisturbed
  <2>5. ASSUME NEW j \in Jobs, NEW k \in Managers
        PROVE  Claims(k, j)' => Claims(k, j)
    <3>1. CASE k = m /\ j = i
      BY <1>0, <2>1, <3>1 DEF Claims
    <3>2. CASE ~(k = m /\ j = i)
      BY <2>1, <2>2, <3>2, ClaimsFrame DEF Claims
    <3>3. QED
      BY <3>1, <3>2
  <2>6. QED
    BY <2>1, <2>4, <2>5 DEF Moves
<1>2. CASE /\ UNCHANGED <<status, gen, req, tasks>>
           /\ \A k \in Managers, j \in Jobs : batch'[k][j] \in {batch[k][j], None}
           /\ \A k \in Managers : cur'[k] \in {cur[k], None}
  <2>1. "requests" \in Managers
    BY DEF Managers
  <2>2. Undisturbed'
    BY <1>2, <2>1 DEF Undisturbed
  <2>3. ASSUME NEW j \in Jobs, NEW k \in Managers
        PROVE  Claims(k, j)' => Claims(k, j)
    BY <1>2, ClaimsFrame DEF Claims
  <2>4. QED
    BY <1>2, <2>2, <2>3 DEF Moves
<1>3. ASSUME cur' = [cur EXCEPT ![m] = None]
      PROVE  \A k \in Managers : cur'[k] \in {cur[k], None}
  BY <1>0, <1>3 DEF TypeOK
<1>4. CASE Cleanup(m) \/ LeaveForDebug(m) \/ ReportUnusual(m) \/ CleanupFails(m)
  BY <1>2, <1>3, <1>4 DEF Cleanup, LeaveForDebug, ReportUnusual, CleanupFails,
                          EndWatch, table
<1>5. CASE AbortPass(m)
  <2>1. \A k \in Managers, j \in Jobs : batch'[k][j] \in {batch[k][j], None}
    BY <1>5 DEF AbortPass, NoBatch, TypeOK
  <2>2. QED
    BY <1>2, <1>3, <1>5, <2>1 DEF AbortPass, table
<1>6. CASE Resubmit(m)
  <2> DEFINE x == NewTask(m, cur[m].job, "kill", "queued")
  <2>1. /\ UNCHANGED <<status, batch, gen, req>> /\ tasks' = tasks \cup {x}
        /\ cur[m] # None /\ cur[m].step = "report"
        /\ \A k \in Managers : cur'[k] \in {cur[k], None}
    BY <1>3, <1>6 DEF Resubmit, Reporting, EndWatch, table
  <2>2. x.pool = m /\ x.job = cur[m].job /\ x.fn = "kill" /\ x.to = "queued" /\ x.pc = "wait"
    BY DEF NewTask
  <2> HIDE DEF x
  <2>3. Undisturbed'
    BY <2>1, <2>2 DEF Undisturbed
  <2>4. ASSUME NEW j \in Jobs, NEW k \in Managers
        PROVE  Claims(k, j)' => Claims(k, j)
    BY <2>1, <2>2, ClaimsFrame DEF Claims
  <2>5. QED
    BY <2>1, <2>3, <2>4 DEF Moves
<1>7. CASE ReportEnd(m) \/ ReportRunning(m) \/ ReportPending(m)
  <2>0. PICK i : i = cur[m].job
    OBVIOUS
  <2>1. /\ cur[m] # None /\ cur[m].step = "report" /\ cur[m] \in Watch /\ i \in Jobs
        /\ cur[m].snap = m
    BY <1>0, <1>7, <2>0 DEF ReportEnd, ReportRunning, ReportPending, Reporting,
                                  TypeOK, Watch, Undisturbed
  <2>2. /\ UNCHANGED <<batch, gen, req, tasks>>
        /\ \A k \in Managers : k # m => cur'[k] = cur[k]
        /\ cur'[m] # None =>
             cur'[m].job = i /\ cur'[m].snap = m /\ cur'[m].step = "cleanup"
    BY <1>0, <1>7, <2>0, <2>1 DEF ReportEnd, ReportRunning, ReportPending, EndWatch,
                                       TypeOK, Watch
  <2>3. \/ status' = status
        \/ \E s \in {"finished", "failed"} : status' = [status EXCEPT ![i] = s]
        \/ m = "scheduling" /\ status' = [status EXCEPT ![i] = "running"]
        \/ status' = [status EXCEPT ![i] = "scheduling"]
    BY <1>0, <1>7, <2>0, <2>1 DEF ReportEnd, ReportRunning, ReportPending
  <2>4. Claims(m, i) /\ ~Claims(m, i)'
    <3>1. Claims(m, i)
      BY <2>0, <2>1 DEF Claims
    <3>2. batch[m][i] = None /\ \A t \in tasks : t.pool = m => t.job # i
      BY <1>0, <2>0, <2>1, OneClaim
    <3>3. Stage(m) # None
      BY <1>0, NoneAssumption
    <3>4. QED
      BY <2>2, <3>1, <3>2, <3>3 DEF Claims
  <2>5. i \notin Preemptible => status[i] = m
    BY <1>0, <2>1, <2>4 DEF Owned
  <2>6. \A j \in Jobs : j # i => status'[j] = status[j]
    BY <2>1, <2>3 DEF TypeOK
  <2>7. i \notin Preemptible /\ status'[i] # status[i] =>
          <<status[i], status'[i]>> \in Pipeline
    <3>1. status'[i] # status[i] =>
            \/ status'[i] \in {"finished", "failed"}
            \/ m = "scheduling" /\ status'[i] = "running"
            \/ status'[i] = "scheduling"
      BY <2>1, <2>3 DEF TypeOK
    <3>2. QED
      BY <1>0, <2>5, <3>1 DEF Pipeline
  <2>8. Undisturbed'
    <3>1. \A j \in Jobs : status'[j] \notin {"killing", "pausing"}
      BY <2>1, <2>3 DEF Undisturbed, TypeOK
    <3>2. \A k \in Managers : cur'[k] # None => k \in Watchers /\ cur'[k].snap = k
      BY <2>2 DEF Undisturbed
    <3>3. QED
      BY <2>2, <3>1, <3>2 DEF Undisturbed
  <2>9. ASSUME NEW j \in Jobs, NEW k \in Managers
        PROVE  Claims(k, j)' => Claims(k, j)
    BY <2>2, <2>4 DEF Claims
  <2>10. ASSUME NEW j \in Jobs \ Preemptible
         PROVE  Moves(j)
    BY <1>0, <2>4, <2>6, <2>7, <2>9, <2>10 DEF Moves
  <2>11. QED
    BY <2>8, <2>10
<1>8. QED
  BY <1>1, <1>4, <1>5, <1>6, <1>7 DEF WatchStep, WatchFault

\* The workers move on the jobs of their tasks, once each.
LEMMA TaskMoves ==
  ASSUME TypeOK, OnePlacePerJob, Owned, Undisturbed, ops = 0, crashes = 0, crashes' = 0,
         NEW t \in tasks, SubmitStep(t) \/ KillStep(t) \/ TaskFault(t)
  PROVE  Undisturbed' /\ \A j \in Jobs \ Preemptible : Moves(j)
<1> DEFINE i == t.job
           m == t.pool
<1>0. /\ t \in Task /\ i \in Jobs /\ m \in Managers /\ t.fn \in {"submit", "kill"}
      /\ t.pc # "lost"
      /\ t.fn = "submit" => m = "queued" /\ Stage(m) = "queued"
      /\ t.fn = "kill" => t.to = "queued"
      /\ t.fn = "kill" /\ i \notin Preemptible => m \in Watchers /\ Stage(m) = m
  BY TaskFields DEF Task, SubmitTask, KillTask, Undisturbed, Stage, Watchers
<1>1. UNCHANGED manager /\ req' = req
  <2>1. ASSUME NEW r \in Roles, CreatePod(t, r) \/ CreateRefused(t, r)
        PROVE  UNCHANGED manager /\ req' = req
    BY <2>1 DEF CreatePod, CreateRefused
  <2>2. CASE \/ SubmitWaits(t) \/ SubmitRejected(t) \/ SubmitBegins(t)
             \/ SubmitCleans(t) \/ WriteScheduling(t) \/ CountRetry(t)
             \/ WriteError(t) \/ SweepPods(t)
    BY <2>2 DEF SubmitWaits, SubmitRejected, SubmitBegins, SubmitCleans,
                WriteScheduling, CountRetry, WriteError, SweepPods
  <2>3. CASE KillStep(t) \/ TaskFault(t)
    BY <2>3 DEF KillStep, TaskFault, KillDeletes, KillReports, CreateFails,
                KillErrs, KillRaises, WorkerDies
  <2>4. QED
    BY <2>1, <2>2, <2>3 DEF SubmitStep
<1>2. UNCHANGED <<batch, cur, gen>>
  BY <1>1 DEF manager
\* A task that goes on.
<1>3. ASSUME NEW u, tasks' \subseteq (tasks \ {t}) \cup {u}, status' = status,
             u.pool = m, u.job = i, u.fn = t.fn, u.to = t.to, u.pc # "lost",
             u.pc # "sweep" => t.pc # "sweep"
      PROVE  Undisturbed' /\ \A j \in Jobs \ Preemptible : Moves(j)
  <2>1. Undisturbed'
    BY <1>1, <1>2, <1>3 DEF Undisturbed
  <2>2. ASSUME NEW j \in Jobs, NEW k \in Managers
        PROVE  Claims(k, j)' => Claims(k, j)
    BY <1>2, <1>3, ClaimsKept
  <2>3. QED
    BY <1>3, <2>1, <2>2 DEF Moves
<1>4. ASSUME NEW pc, GoTo(t, pc), status' = status, pc \notin {"lost"},
             pc # "sweep" => t.pc # "sweep"
      PROVE  Undisturbed' /\ \A j \in Jobs \ Preemptible : Moves(j)
  <2> DEFINE u == [t EXCEPT !.pc = pc]
  <2>1. /\ u.pool = m /\ u.job = i /\ u.fn = t.fn /\ u.to = t.to /\ u.pc = pc
    BY <1>0 DEF Task, SubmitTask, KillTask
  <2>2. tasks' = (tasks \ {t}) \cup {u}
    BY <1>4 DEF GoTo, Become
  <2> HIDE DEF u, m, i
  <2>3. QED
    BY <1>3, <1>4, <2>1, <2>2
<1>5. ASSUME Done(t), status' = status
      PROVE  Undisturbed' /\ \A j \in Jobs \ Preemptible : Moves(j)
  BY <1>0, <1>3, <1>5 DEF Done
\* A task that writes a status, and does not come to it again.
<1>6. ASSUME NEW s \in Statuses, status' = [status EXCEPT ![i] = s],
             s \notin {"killing", "pausing"}, t.pc # "sweep",
             \A x \in tasks' : x \in tasks \ {t} \/
               (x.pc = "sweep" /\ x.fn = t.fn /\ x.to = t.to /\ x.pool = m /\ x.job = i),
             i \notin Preemptible => <<Stage(m), s>> \in Pipeline
      PROVE  Undisturbed' /\ \A j \in Jobs \ Preemptible : Moves(j)
  <2>1. Claims(m, i) /\ ~Claims(m, i)'
    <3>1. Claims(m, i)
      BY <1>6 DEF Claims
    <3>2. /\ batch[m][i] = None /\ ~(cur[m] # None /\ cur[m].job = i)
          /\ \A x \in tasks : x.pool = m /\ x.job = i => x = t
      BY <1>0, OneClaim
    <3>3. Stage(m) # None
      BY <1>0, NoneAssumption DEF Stage, Managers
    <3> HIDE DEF m, i
    <3>4. QED
      BY <1>2, <1>6, <3>1, <3>2, <3>3 DEF Claims
  <2>2. i \notin Preemptible => status[i] = Stage(m)
    BY <1>0, <2>1 DEF Owned
  <2>3. \A j \in Jobs : status'[j] = IF j = i THEN s ELSE status[j]
    BY <1>6 DEF TypeOK
  <2> HIDE DEF m, i
  <2>4. Undisturbed'
    <3>1. \A x \in tasks' : /\ x.pc # "lost"
                            /\ x.fn = "submit" => x.pool = "queued"
                            /\ x.fn = "kill" =>
                                 /\ x.to = "queued"
                                 /\ x.pool \in Watchers \/ x.job \in Preemptible
      BY <1>6 DEF Undisturbed, m, i
    <3>2. QED
      BY <1>1, <1>2, <1>6, <2>3, <3>1 DEF Undisturbed
  <2>5. ASSUME NEW j \in Jobs, NEW k \in Managers
        PROVE  Claims(k, j)' => Claims(k, j)
    BY <1>2, <1>6, ClaimsKept
  <2>6. ASSUME NEW j \in Jobs \ Preemptible
        PROVE  Moves(j)
    BY <1>0, <1>6, <2>1, <2>2, <2>3, <2>5, <2>6 DEF Moves
  <2>7. QED
    BY <2>4, <2>6
<1>7. CASE WriteScheduling(t)
  <2>1. t.fn = "submit"
    BY <1>0, <1>7 DEF WriteScheduling, Task, SubmitTask, KillTask
  <2>2. <<"queued", "scheduling">> \in Pipeline /\ "scheduling" \in Statuses
    BY DEF Pipeline, Statuses
  <2>3. tasks' = tasks \ {t} /\ status' = [status EXCEPT ![i] = "scheduling"] /\ t.pc = "write"
    BY <1>7 DEF WriteScheduling, Done
  <2> HIDE DEF m, i
  <2>4. QED
    BY <1>0, <1>6, <2>1, <2>2, <2>3
<1>8. CASE WriteError(t)
  <2> DEFINE u == [t EXCEPT !.pc = "sweep"]
  <2>1. t.fn = "submit"
    BY <1>0, <1>8 DEF WriteError, Task, SubmitTask, KillTask
  <2>2. <<"queued", "error">> \in Pipeline /\ "error" \in Statuses
    BY DEF Pipeline, Statuses
  <2>3. u.pc = "sweep" /\ u.fn = t.fn /\ u.to = t.to /\ u.pool = m /\ u.job = i
    BY <1>0 DEF Task, SubmitTask, KillTask
  <2>4. /\ tasks' = (tasks \ {t}) \cup {u} /\ t.pc = "fail"
        /\ status' = [status EXCEPT ![i] = "error"] \/ status' = status
    BY <1>8 DEF WriteError, GoTo, Become
  <2> HIDE DEF u, m, i
  <2>5. CASE status' = [status EXCEPT ![i] = "error"]
    BY <1>0, <1>6, <2>1, <2>2, <2>3, <2>4, <2>5
  <2>6. CASE status' = status
    BY <1>3, <2>3, <2>4, <2>6
  <2>7. QED
    BY <2>4, <2>5, <2>6
<1>9. CASE KillReports(t)
  <2>1. t.fn = "kill"
    BY <1>0, <1>9 DEF KillReports, Task, SubmitTask, KillTask
  <2>2. \A s \in {"queued", "error"} :
          s \in Statuses /\ (m \in Watchers => <<m, s>> \in Pipeline)
    BY DEF Pipeline, Statuses, Watchers
  <2>3. /\ tasks' = tasks \ {t} /\ t.pc # "sweep"
        /\ \E s \in {"queued", "error"} : status' = [status EXCEPT ![i] = s]
    BY <1>0, <1>9, <2>1 DEF KillReports, Done
  <2> HIDE DEF m, i
  <2>4. QED
    BY <1>0, <1>6, <2>1, <2>2, <2>3
<1>10. CASE SubmitStep(t)
  <2>1. ASSUME NEW r \in Roles, CreatePod(t, r)
        PROVE  Undisturbed' /\ \A j \in Jobs \ Preemptible : Moves(j)
    <3> DEFINE u == [t EXCEPT !.left = @ \ {r},
                              !.pc = IF t.left = {r} THEN "write" ELSE "create"]
    <3>1. /\ u.pool = m /\ u.job = i /\ u.fn = t.fn /\ u.to = t.to
          /\ u.pc \in {"write", "create"}
      BY <1>0, <2>1 DEF CreatePod, Task, SubmitTask, KillTask
    <3>2. Become(t, u) /\ status' = status /\ t.pc = "create"
      BY <2>1 DEF CreatePod, table
    <3> HIDE DEF u, m, i
    <3>3. QED
      BY <1>3, <3>1, <3>2 DEF Become
  <2>2. ASSUME NEW r \in Roles, CreateRefused(t, r)
        PROVE  Undisturbed' /\ \A j \in Jobs \ Preemptible : Moves(j)
    BY <1>4, <2>2 DEF CreateRefused, table
  <2>3. CASE SubmitWaits(t) \/ SubmitRejected(t) \/ SweepPods(t)
    BY <1>5, <2>3 DEF SubmitWaits, SubmitRejected, SweepPods, table
  <2>4. CASE SubmitBegins(t) \/ SubmitCleans(t) \/ CountRetry(t)
    BY <1>4, <1>5, <2>4 DEF SubmitBegins, SubmitCleans, CountRetry, Starts, table
  <2>5. QED
    BY <1>7, <1>8, <1>10, <2>1, <2>2, <2>3, <2>4 DEF SubmitStep
<1>11. CASE KillStep(t) \/ TaskFault(t)
  <2>1. CASE KillDeletes(t)
    BY <1>4, <2>1 DEF KillDeletes, Starts, table
  <2>2. CASE CreateFails(t) \/ KillErrs(t)
    BY <1>4, <2>2 DEF CreateFails, KillErrs, Starts, table
  <2>3. CASE KillRaises(t)
    BY <1>5, <2>3 DEF KillRaises, table
  <2>4. ~WorkerDies(t)
    BY DEF WorkerDies
  <2>5. QED
    BY <1>9, <1>11, <2>1, <2>2, <2>3, <2>4 DEF KillStep, TaskFault
<1>12. QED
  BY <1>10, <1>11

LEMMA NextPipeline ==
  TypeOK /\ OnePlacePerJob /\ Owned /\ Undisturbed /\ [Next]_vars =>
    /\ Owned' /\ Undisturbed'
    /\ ops' = 0 /\ crashes' = 0 => \A j \in Jobs \ Preemptible : Moves(j)
<1> SUFFICES ASSUME TypeOK, OnePlacePerJob, Owned, Undisturbed, [Next]_vars,
                    ops' = 0, crashes' = 0
             PROVE  Owned' /\ Undisturbed' /\ \A j \in Jobs \ Preemptible : Moves(j)
  BY DEF Owned, Undisturbed
<1>1. ops = 0 /\ crashes = 0
  BY QuietBackwards
<1>2. ASSUME UNCHANGED <<status, req, batch, cur, gen, tasks>>
      PROVE  Undisturbed' /\ \A j \in Jobs \ Preemptible : Moves(j)
  <2>1. \A k \in Managers, j \in Jobs : Claims(k, j)' => Claims(k, j)
    BY <1>2 DEF Claims
  <2>2. Undisturbed'
    BY <1>1, <1>2 DEF Undisturbed
  <2>3. QED
    BY <1>2, <2>1, <2>2 DEF Moves
<1>3. ASSUME NEW j \in Jobs, NEW r \in Roles, PodChanges(j, r) \/ PodGone(j, r)
      PROVE  Undisturbed' /\ \A i \in Jobs \ Preemptible : Moves(i)
  BY <1>2, <1>3 DEF PodChanges, PodGone, table, manager
<1>4. ASSUME UNCHANGED vars
      PROVE  Undisturbed' /\ \A j \in Jobs \ Preemptible : Moves(j)
  BY <1>2, <1>4 DEF vars
<1>5. Undisturbed' /\ \A j \in Jobs \ Preemptible : Moves(j)
  BY <1>1, <1>3, <1>4, LoopMoves, RequestMoves, ScheduleMoves, WatchMoves, TaskMoves
     DEF Next
<1>6. QED
  BY <1>1, <1>5, OwnedStep

\* Without requests and restarts the statuses of a job that is not preemptible
\* follow each other in the order of the pipeline, whatever snapshots, watches and
\* tasks are under way, and whichever calls fail.
THEOREM StatusesInOrder == Spec => PipelineOrder
<1>1. Spec => [](Owned /\ Undisturbed)
  BY TypeCorrect, OnePlaceHolds, InitPipeline, NextPipeline, PTL DEF Spec
<1>2. TypeOK /\ OnePlacePerJob /\ Owned /\ Undisturbed /\ [Next]_vars =>
        [\A j \in Jobs \ Preemptible :
           ops = 0 /\ crashes = 0 /\ status'[j] # status[j] =>
             <<status[j], status'[j]>> \in Pipeline]_vars
  <2> SUFFICES ASSUME TypeOK, OnePlacePerJob, Owned, Undisturbed, [Next]_vars,
                      NEW j \in Jobs \ Preemptible,
                      ops = 0, crashes = 0, status'[j] # status[j]
               PROVE  <<status[j], status'[j]>> \in Pipeline
    BY Zenon
  <2>1. ops' = 0 /\ crashes' = 0
    BY Counts
  <2>2. Moves(j)
    BY <2>1, NextPipeline
  <2>3. QED
    BY <2>2 DEF Moves
<1>3. QED
  BY <1>1, <1>2, TypeCorrect, OnePlaceHolds, PTL DEF Spec, PipelineOrder
=============================================================================
