------------------------- MODULE JobSchedulerProofs -------------------------
(***************************************************************************)
(* For all jobs, VCs, resources and cluster statuses: the types, the amounts *)
(* of a pass, and that a pass leaves no room for a job it has refused.       *)
(***************************************************************************)
EXTENDS JobScheduler, FiniteSetTheorems, TLAPS

\* What is left is an amount, and no more than there was.
LEMMA MinusFacts ==
  ASSUME NEW a \in Amount, NEW b \in Amount
  PROVE  /\ Minus(a, b) \in Amount
         /\ \A r \in Resources : Minus(a, b)[r] <= a[r]
BY DEF Minus, Amount

\* What does not fit in an amount does not fit in a smaller one.
LEMMA GeqMonotone ==
  ASSUME NEW a \in Amount, NEW b \in Amount, NEW n \in Amount,
         \A r \in Resources : b[r] <= a[r], Geq(b, n)
  PROVE  Geq(a, n)
BY DEF Geq, Amount

\* Requests and capacities are amounts.
LEMMA AmountFacts ==
  /\ \A j \in Jobs : job_resource(j) \in Amount
  /\ \A a \in Amount : Discount(a) \in Amount
  /\ \A cs \in ClusterStatuses :
       /\ get_cluster_schedulable(cs) \in Amount
       /\ DOMAIN get_vc_schedulables(cs) \subseteq VCs
       /\ get_vc_schedulables(cs) \in [DOMAIN get_vc_schedulables(cs) -> Amount]
<1>1. \A j \in Jobs : job_resource(j) \in Amount
  BY ParametersAssumption DEF job_resource, Amount
<1>2. \A a \in Amount : Discount(a) \in Amount
  BY DEF Discount, Amount
<1>3. ASSUME NEW cs \in ClusterStatuses
      PROVE  /\ get_cluster_schedulable(cs) \in Amount
             /\ DOMAIN get_vc_schedulables(cs) \subseteq VCs
             /\ get_vc_schedulables(cs) \in [DOMAIN get_vc_schedulables(cs) -> Amount]
  <2>1. IsClusterStatus(cs)
    BY ParametersAssumption
  <2>2. get_cluster_schedulable(cs) \in Amount
    BY <1>2, <2>1, MinusFacts DEF IsClusterStatus, get_cluster_schedulable
  <2>3. \A v \in DOMAIN cs.vcs :
          cs.vcs[v].capacity \in Amount /\ cs.vcs[v].unschedulable \in Amount
    BY <2>1 DEF IsClusterStatus
  <2>4. \A v \in DOMAIN cs.vcs :
          Discount(Minus(cs.vcs[v].capacity, cs.vcs[v].unschedulable)) \in Amount
    BY <1>2, <2>3, MinusFacts
  <2>5. QED
    BY <2>1, <2>2, <2>4 DEF IsClusterStatus, get_vc_schedulables
<1>4. QED
  BY <1>1, <1>2, <1>3

\* A sorted list is a sequence of jobs.
LEMMA SortedListsFacts ==
  ASSUME NEW J \in SUBSET Jobs, NEW priority_of,
         NEW s \in SortedLists(J, priority_of)
  PROVE  s \in Seq(Jobs)
<1>1. Cardinality(J) \in Nat
  BY ParametersAssumption, FS_Subset, FS_CardinalityType
<1>2. s \in [1..Cardinality(J) -> J]
  BY DEF SortedLists
<1>3. s \in [1..Cardinality(J) -> Jobs]
  BY <1>2
<1>4. QED
  BY <1>1, <1>3

-----------------------------------------------------------------------------
(***************************************************************************)
(* Types                                                                   *)
(***************************************************************************)

LEMMA InitType == Init => TypeOK
<1> SUFFICES ASSUME Init
             PROVE  TypeOK
  OBVIOUS
<1>1. TableType
  <2>1. JobTime \in [Jobs -> Nat]
    BY ParametersAssumption
  <2>2. QED
    BY <2>1, ParametersAssumption DEF Init, TableType, Statuses
<1>2. RoundType
  <2>1. jobs_info \in Seq(Jobs) /\ pos \in 1..(Len(jobs_info) + 1)
    BY DEF Init
  <2>2. cluster_schedulable \in Amount
    BY DEF Init, NoAmount, Amount
  <2>3. DOMAIN vc_schedulables = {} /\ vc_schedulables \in [{} -> Amount]
    BY DEF Init, NoVCs
  <2>4. QED
    BY <2>1, <2>2, <2>3 DEF Init, RoundType, NoRows, Phases
<1>3. QED
  BY <1>1, <1>2 DEF Init, TypeOK


\* What nobody touches keeps its type.
LEMMA TableFrame == TableType /\ UNCHANGED table => TableType'
BY DEF TableType, table

LEMMA RoundFrame == RoundType /\ UNCHANGED <<phase, round>> => RoundType'
BY DEF RoundType, round

\* The second of a write is a time.
LEMMA NowFacts == TypeOK => \A t \in Now : t \in Nat
BY ParametersAssumption DEF Now, TypeOK, TableType

\* The REST API, the other managers and the node manager.
LEMMA OthersType == ASSUME TypeOK, Others PROVE TypeOK'
<1>1. ASSUME TableType', UNCHANGED <<phase, round, tasks>>,
             moves' \in Nat, faults' \in Nat, crashes' \in Nat
      PROVE  TypeOK'
  BY <1>1, RoundFrame DEF TypeOK
<1>2. ASSUME Move
      PROVE  /\ UNCHANGED <<phase, round, tasks>>
             /\ moves' \in Nat /\ faults' \in Nat /\ crashes' \in Nat
  BY <1>2 DEF Move, TypeOK
<1>3. ASSUME NEW j \in Jobs, Queue(j)
      PROVE  TypeOK'
  <2>1. TableType'
    BY <1>3, NowFacts DEF Queue, TypeOK, TableType, Statuses
  <2>2. QED
    BY <1>1, <1>2, <1>3, <2>1 DEF Queue
<1>4. ASSUME NEW j \in Jobs, Leave(j) \/ Observed(j)
      PROVE  TypeOK'
  <2>1. TableType'
    BY <1>4 DEF Leave, Observed, TypeOK, TableType, Statuses
  <2>2. QED
    BY <1>1, <1>2, <1>4, <2>1 DEF Leave, Observed
<1>5. ASSUME NEW j \in Jobs, Vanished(j)
      PROVE  TypeOK'
  <2>1. TableType'
    BY <1>5, NowFacts DEF Vanished, TypeOK, TableType, Statuses
  <2>2. QED
    BY <1>1, <1>2, <1>5, <2>1 DEF Vanished
<1>6. ASSUME NEW j \in Jobs, StaleReport(j)
      PROVE  TypeOK'
  <2>1. TableType'
    BY <1>6 DEF StaleReport, TypeOK, TableType, Statuses
  <2>2. moves' \in Nat /\ faults' \in Nat /\ crashes' \in Nat
    BY <1>6 DEF StaleReport, TypeOK
  <2>3. QED
    BY <1>1, <1>6, <2>1, <2>2 DEF StaleReport
<1>7. ASSUME NEW j \in Jobs, NEW p \in Priorities, SetPriority(j, p)
      PROVE  TypeOK'
  <2>1. TableType'
    BY <1>7, ParametersAssumption DEF SetPriority, TypeOK, TableType
  <2>2. QED
    BY <1>1, <1>2, <1>7, <2>1 DEF SetPriority
<1>8. ASSUME NEW cs \in ClusterStatuses, UpdateClusterStatus(cs)
      PROVE  TypeOK'
  <2>1. TableType'
    BY <1>8 DEF UpdateClusterStatus, TypeOK, TableType
  <2>2. QED
    BY <1>1, <1>2, <1>8, <2>1 DEF UpdateClusterStatus
<1>9. QED
  BY <1>3, <1>4, <1>5, <1>6, <1>7, <1>8 DEF Others

\* The reads and the sort at the start of a pass.
LEMMA ReadType ==
  ASSUME TypeOK, Fetch \/ GetClusterStatus \/ SortJobs
  PROVE  TypeOK'
<1>1. CASE Fetch
  <2>1. rows' \in [Jobs -> Row \cup {None}]
    <3>1. \A j \in Jobs : status[j] # "away" =>
            [status |-> status[j], lastUpdated |-> lastUpdated[j]] \in Row
      BY DEF TypeOK, TableType, Row
    <3>2. QED
      BY <1>1, <3>1 DEF Fetch
  <2>2. RoundType'
    BY <1>1, <2>1 DEF Fetch, TypeOK, RoundType, Phases
  <2>3. QED
    BY <1>1, <2>2, TableFrame DEF Fetch, TypeOK, budget
<1>2. CASE GetClusterStatus
  <2>1. RoundType'
    BY <1>2, AmountFacts DEF GetClusterStatus, TypeOK, TableType, RoundType, Phases
  <2>2. QED
    BY <1>2, <2>1, TableFrame DEF GetClusterStatus, TypeOK, budget
<1>3. CASE SortJobs
  <2>1. {j \in Jobs : rows[j] # None} \in SUBSET Jobs
    OBVIOUS
  <2>2. jobs_info' \in Seq(Jobs)
    BY <1>3, <2>1, SortedListsFacts DEF SortJobs
  <2>3. pos' \in 1..(Len(jobs_info') + 1)
    BY <1>3, <2>2 DEF SortJobs
  <2>4. RoundType'
    BY <1>3, <2>2, <2>3 DEF SortJobs, TypeOK, RoundType, Phases
  <2>5. moves' \in Nat /\ faults' \in Nat /\ crashes' \in Nat
    BY <1>3 DEF SortJobs, TypeOK
  <2>6. QED
    BY <1>3, <2>4, <2>5, TableFrame DEF SortJobs, TypeOK
<1>4. QED
  BY <1>1, <1>2, <1>3

\* A job is taken from the list and its request from what is left.
LEMMA CurrentJob ==
  ASSUME TypeOK, pos <= Len(jobs_info)
  PROVE  /\ pos \in DOMAIN jobs_info
         /\ jobs_info[pos] \in Jobs
         /\ job_resource(jobs_info[pos]) \in Amount
         /\ pos + 1 \in 1..(Len(jobs_info) + 1)
<1>1. pos \in 1..Len(jobs_info) /\ Len(jobs_info) \in Nat
  BY DEF TypeOK, RoundType
<1>2. jobs_info[pos] \in Jobs
  BY <1>1 DEF TypeOK, RoundType
<1>3. QED
  BY <1>1, <1>2, AmountFacts DEF TypeOK, RoundType

\* The three loops.
LEMMA LoopType ==
  ASSUME TypeOK, MarkNonPreemptible \/ MarkPreemptible \/ NextLoop \/ ScheduleJob
  PROVE  TypeOK'
<1> DEFINE j == jobs_info[pos]
<1>1. CASE MarkNonPreemptible
  <2>1. pos' \in 1..(Len(jobs_info') + 1)
    BY <1>1, CurrentJob DEF MarkNonPreemptible
  <2>2. allowed' \subseteq Jobs /\ cluster_schedulable' \in Amount
    BY <1>1, CurrentJob, MinusFacts DEF MarkNonPreemptible, Mark, TypeOK, RoundType
  <2>3. /\ DOMAIN vc_schedulables' = DOMAIN vc_schedulables
        /\ vc_schedulables' \in [DOMAIN vc_schedulables -> Amount]
    <3>1. CASE vc_schedulables' = vc_schedulables
      BY <3>1 DEF TypeOK, RoundType
    <3>2. CASE /\ VcFits(j)
               /\ vc_schedulables' =
                    [vc_schedulables EXCEPT ![VcOf[j]] = Minus(@, job_resource(j))]
      <4>1. Minus(vc_schedulables[VcOf[j]], job_resource(j)) \in Amount
        BY <1>1, <3>2, CurrentJob, MinusFacts
           DEF VcFits, TypeOK, RoundType, MarkNonPreemptible
      <4> HIDE DEF j
      <4>2. QED
        BY <3>2, <4>1 DEF TypeOK, RoundType
    <3>3. QED
      BY <1>1, <3>1, <3>2 DEF MarkNonPreemptible
  <2>4. RoundType'
    BY <1>1, <2>1, <2>2, <2>3 DEF MarkNonPreemptible, TypeOK, RoundType
  <2>5. QED
    BY <1>1, <2>4, TableFrame DEF MarkNonPreemptible, TypeOK, budget
<1>2. CASE MarkPreemptible
  <2>1. pos' \in 1..(Len(jobs_info') + 1)
    BY <1>2, CurrentJob DEF MarkPreemptible
  <2>2. allowed' \subseteq Jobs /\ cluster_schedulable' \in Amount
    BY <1>2, CurrentJob, MinusFacts DEF MarkPreemptible, Mark, TypeOK, RoundType
  <2>3. RoundType'
    BY <1>2, <2>1, <2>2 DEF MarkPreemptible, TypeOK, RoundType
  <2>4. QED
    BY <1>2, <2>3, TableFrame DEF MarkPreemptible, TypeOK, budget
<1>3. CASE NextLoop
  <2>1. Len(jobs_info) \in Nat
    BY DEF TypeOK, RoundType
  <2>2. RoundType'
    BY <1>3, <2>1 DEF NextLoop, TypeOK, RoundType, Phases
  <2>3. QED
    BY <1>3, <2>2, TableFrame DEF NextLoop, TypeOK, budget
<1>4. CASE ScheduleJob
  <2>1. pos' \in 1..(Len(jobs_info') + 1)
    BY <1>4, CurrentJob DEF ScheduleJob
  <2>2. RoundType'
    BY <1>4, <2>1 DEF ScheduleJob, TypeOK, RoundType
  <2>3. tasks' \subseteq Task
    <3>1. OwnTask(j, "submit") \in Task /\ OwnTask(j, "kill") \in Task
      BY <1>4, CurrentJob DEF ScheduleJob, OwnTask, Task
    <3>2. \/ tasks' = tasks
          \/ \E fn \in {"submit", "kill"} : tasks' = tasks \cup {OwnTask(j, fn)}
      BY <1>4 DEF ScheduleJob
    <3> HIDE DEF j
    <3>3. QED
      BY <3>1, <3>2 DEF TypeOK
  <2>4. QED
    BY <1>4, <2>2, <2>3, TableFrame DEF ScheduleJob, TypeOK, budget
<1>5. QED
  BY <1>1, <1>2, <1>3, <1>4

\* The ends of a pass.
LEMMA EndType ==
  ASSUME TypeOK, EndPass \/ AbortPass \/ Restart
  PROVE  TypeOK'
<1>1. RoundType'
  <2>1. Forget
    BY DEF EndPass, AbortPass, Restart
  <2>2. jobs_info' \in Seq(Jobs) /\ pos' \in 1..(Len(jobs_info') + 1)
    BY <2>1 DEF Forget
  <2>3. cluster_schedulable' \in Amount
    BY <2>1 DEF Forget, NoAmount, Amount
  <2>4. DOMAIN vc_schedulables' = {} /\ vc_schedulables' \in [{} -> Amount]
    BY <2>1 DEF Forget, NoVCs
  <2>5. QED
    BY <2>1, <2>2, <2>3, <2>4 DEF Forget, RoundType, NoRows, Phases
<1>2. tasks' \subseteq Task
  <2>1. \A t \in Task : [t EXCEPT !.own = FALSE] \in Task
    BY DEF Task
  <2>2. QED
    BY <2>1 DEF EndPass, AbortPass, Restart, Own, TypeOK
<1>3. moves' \in Nat /\ faults' \in Nat /\ crashes' \in Nat
  BY DEF EndPass, AbortPass, Restart, TypeOK, budget
<1>4. TableType'
  BY TableFrame DEF EndPass, AbortPass, Restart, TypeOK
<1>5. QED
  BY <1>1, <1>2, <1>3, <1>4 DEF TypeOK

\* The workers.
LEMMA WorkerType ==
  ASSUME TypeOK, NEW t \in tasks, TaskDone(t) \/ TaskFails(t)
  PROVE  TypeOK'
<1>1. t.job \in Jobs
  BY DEF TypeOK, Task
<1>2. TableType'
  BY <1>1, NowFacts
     DEF TaskDone, TaskFails, Finish, TypeOK, TableType, Statuses
<1>3. moves' \in Nat /\ faults' \in Nat /\ crashes' \in Nat
  BY DEF TaskDone, TaskFails, Finish, TypeOK
<1>4. QED
  BY <1>2, <1>3, RoundFrame DEF TaskDone, TaskFails, Finish, TypeOK

LEMMA NextType == TypeOK /\ [Next]_vars => TypeOK'
<1> SUFFICES ASSUME TypeOK, [Next]_vars
             PROVE  TypeOK'
  OBVIOUS
<1>1. CASE Next
  BY <1>1, OthersType, ReadType, LoopType, EndType, WorkerType DEF Next, Pass
<1>2. CASE UNCHANGED vars
  BY <1>2, TableFrame, RoundFrame DEF vars, table, round, TypeOK
<1>3. QED
  BY <1>1, <1>2

\* Amounts never get negative, lists and tasks are of jobs, the index of a loop
\* stays at most one past the list.
THEOREM SchedulerTypeCorrect == Spec => []TypeOK
BY InitType, NextType, PTL DEF Spec

-----------------------------------------------------------------------------
(***************************************************************************)
(* A job that was refused has no room                                      *)
(***************************************************************************)

\* Refused jobs stay refused while less is left and no new turn has passed.
LEMMA RoomShrinks ==
  ASSUME TypeOK, NoRoomLeft, jobs_info' = jobs_info, NEW i \in DOMAIN jobs_info,
         allowed \subseteq allowed', Considered(i), jobs_info[i] \notin allowed',
         cluster_schedulable' \in Amount,
         \A r \in Resources : cluster_schedulable'[r] <= cluster_schedulable[r],
         DOMAIN vc_schedulables' = DOMAIN vc_schedulables,
         \A v \in DOMAIN vc_schedulables :
           /\ vc_schedulables'[v] \in Amount
           /\ \A r \in Resources : vc_schedulables'[v][r] <= vc_schedulables[v][r]
  PROVE  ~(/\ Geq(cluster_schedulable', job_resource(jobs_info[i]))
           /\ jobs_info[i] \in Preemptible \/ VcFits(jobs_info[i])')
<1> DEFINE j == jobs_info[i]
<1>1. j \in Jobs /\ job_resource(j) \in Amount
  BY AmountFacts DEF TypeOK, RoundType
<1>2. ~(/\ Geq(cluster_schedulable, job_resource(j))
        /\ j \in Preemptible \/ VcFits(j))
  BY DEF NoRoomLeft
<1>3. Geq(cluster_schedulable', job_resource(j)) =>
        Geq(cluster_schedulable, job_resource(j))
  BY <1>1, GeqMonotone DEF TypeOK, RoundType
<1>4. VcFits(j)' => VcFits(j)
  <2>1. SUFFICES ASSUME VcOf[j] \in DOMAIN vc_schedulables,
                        Geq(vc_schedulables'[VcOf[j]], job_resource(j))
                 PROVE  Geq(vc_schedulables[VcOf[j]], job_resource(j))
    BY DEF VcFits
  <2>2. vc_schedulables[VcOf[j]] \in Amount /\ vc_schedulables'[VcOf[j]] \in Amount
    BY <2>1 DEF TypeOK, RoundType
  <2>3. QED
    BY <1>1, <2>1, <2>2, GeqMonotone
<1>5. QED
  BY <1>2, <1>3, <1>4

\* Steps that do not concern the verdict.
LEMMA RoomFrame ==
  ASSUME NoRoomLeft,
         UNCHANGED <<phase, jobs_info, pos, cluster_schedulable, vc_schedulables,
                     allowed>>
  PROVE  NoRoomLeft'
BY DEF NoRoomLeft, Considered, VcFits

\* The loops consider one job after the other.
LEMMA MarkRoom ==
  ASSUME TypeOK, NoRoomLeft, MarkNonPreemptible \/ MarkPreemptible
  PROVE  NoRoomLeft'
<1> DEFINE j == jobs_info[pos]
<1>1. /\ j \in Jobs /\ job_resource(j) \in Amount
      /\ pos' = pos + 1 /\ pos \in Nat /\ phase' = phase /\ jobs_info' = jobs_info
  BY CurrentJob DEF MarkNonPreemptible, MarkPreemptible, TypeOK, RoundType
<1>2. /\ allowed \subseteq allowed'
      /\ cluster_schedulable' \in Amount
      /\ \A r \in Resources : cluster_schedulable'[r] <= cluster_schedulable[r]
  <2>1. CASE Mark(j)
    BY <1>1, <2>1, MinusFacts DEF Mark, TypeOK, RoundType
  <2>2. CASE UNCHANGED <<allowed, cluster_schedulable>>
    BY <2>2 DEF TypeOK, RoundType, Amount
  <2>3. QED
    BY <2>1, <2>2 DEF MarkNonPreemptible, MarkPreemptible
<1>3. /\ DOMAIN vc_schedulables' = DOMAIN vc_schedulables
      /\ \A v \in DOMAIN vc_schedulables :
           /\ vc_schedulables'[v] \in Amount
           /\ \A r \in Resources : vc_schedulables'[v][r] <= vc_schedulables[v][r]
  <2>1. CASE vc_schedulables' = vc_schedulables
    BY <2>1 DEF TypeOK, RoundType, Amount
  <2>2. CASE /\ VcFits(j)
             /\ vc_schedulables' =
                  [vc_schedulables EXCEPT ![VcOf[j]] = Minus(@, job_resource(j))]
    <3>1. /\ vc_schedulables[VcOf[j]] \in Amount
          /\ \A v \in DOMAIN vc_schedulables : vc_schedulables[v] \in Amount
      BY <2>2 DEF VcFits, TypeOK, RoundType
    <3>2. LET m == Minus(vc_schedulables[VcOf[j]], job_resource(j))
          IN  m \in Amount /\ \A r \in Resources : m[r] <= vc_schedulables[VcOf[j]][r]
      BY <1>1, <3>1, MinusFacts
    <3>3. \A v \in DOMAIN vc_schedulables, r \in Resources :
            vc_schedulables[v][r] <= vc_schedulables[v][r]
      BY <3>1 DEF Amount
    <3> HIDE DEF j
    <3>4. QED
      BY <2>2, <3>1, <3>2, <3>3
  <2>3. QED
    BY <2>1, <2>2 DEF MarkNonPreemptible, MarkPreemptible
<1>4. ASSUME NEW i \in DOMAIN jobs_info, Considered(i)', jobs_info[i] \notin allowed'
      PROVE  ~(/\ Geq(cluster_schedulable', job_resource(jobs_info[i]))
               /\ jobs_info[i] \in Preemptible \/ VcFits(jobs_info[i])')
  <2>1. i \in Nat
    BY DEF TypeOK, RoundType
  <2>2. CASE Considered(i)
    BY <1>1, <1>2, <1>3, <1>4, <2>2, RoomShrinks
  <2>3. CASE ~Considered(i)
    <3>1. i = pos
      BY <1>1, <1>4, <2>1, <2>3 DEF Considered
    <3>2. CASE MarkNonPreemptible
      <4>1. phase = "nonpreemptible" /\ j \notin Preemptible
        BY <1>1, <1>4, <3>1, <3>2 DEF MarkNonPreemptible, Considered
      <4>2. ~(Geq(cluster_schedulable, job_resource(j)) /\ VcFits(j))
        BY <1>4, <3>1, <3>2, <4>1 DEF MarkNonPreemptible, Mark
      <4>3. UNCHANGED <<cluster_schedulable, vc_schedulables>>
        BY <3>2, <4>2 DEF MarkNonPreemptible
      <4>4. VcFits(jobs_info[i])' <=> VcFits(jobs_info[i])
        BY <1>1, <4>3 DEF VcFits
      <4>5. QED
        BY <3>1, <4>1, <4>2, <4>3, <4>4
    <3>3. CASE MarkPreemptible
      <4>1. phase = "preemptible" /\ j \in Preemptible
        BY <1>1, <1>4, <2>3, <3>1, <3>3 DEF MarkPreemptible, Considered
      <4>2. ~Geq(cluster_schedulable, job_resource(j))
        BY <1>4, <3>1, <3>3, <4>1 DEF MarkPreemptible, Mark
      <4>3. UNCHANGED cluster_schedulable
        BY <3>3, <4>2 DEF MarkPreemptible
      <4>4. QED
        BY <3>1, <4>2, <4>3
    <3>4. QED
      BY <3>2, <3>3
  <2>4. QED
    BY <2>2, <2>3
<1>5. QED
  BY <1>1, <1>4 DEF NoRoomLeft

\* At the end of a loop all its jobs were considered.
LEMMA LoopEndRoom ==
  ASSUME TypeOK, NoRoomLeft, NextLoop
  PROVE  NoRoomLeft'
<1>1. /\ pos' = 1 /\ pos > Len(jobs_info)
      /\ UNCHANGED <<jobs_info, cluster_schedulable, vc_schedulables, allowed>>
      /\ \/ phase = "nonpreemptible" /\ phase' = "preemptible"
         \/ phase = "preemptible" /\ phase' = "act"
  BY DEF NextLoop
<1>2. \A i \in DOMAIN jobs_info : i \in Nat /\ 1 <= i /\ i < pos
  BY <1>1 DEF TypeOK, RoundType
<1>3. \A i \in DOMAIN jobs_info : Considered(i)' => Considered(i)
  BY <1>1, <1>2 DEF Considered
<1>4. QED
  BY <1>1, <1>3 DEF NoRoomLeft, VcFits

LEMMA InitRoom == Init => NoRoomLeft
BY DEF Init, NoRoomLeft

LEMMA NextRoom == TypeOK /\ NoRoomLeft /\ [Next]_vars => NoRoomLeft'
<1> SUFFICES ASSUME TypeOK, NoRoomLeft, [Next]_vars
             PROVE  NoRoomLeft'
  OBVIOUS
<1>1. ASSUME UNCHANGED <<phase, round>>
      PROVE  NoRoomLeft'
  BY <1>1, RoomFrame DEF round
<1>2. CASE Others
  BY <1>1, <1>2
     DEF Others, Queue, Leave, Observed, Vanished, StaleReport, SetPriority,
         UpdateClusterStatus, Move
<1>3. CASE Fetch \/ GetClusterStatus
  BY <1>3 DEF Fetch, GetClusterStatus, NoRoomLeft, Considered
<1>4. CASE SortJobs
  <2>1. jobs_info' \in Seq(Jobs)
    BY <1>4, NextType DEF Next, Pass, TypeOK, RoundType
  <2>2. \A i \in DOMAIN jobs_info' : i \in Nat /\ i >= 1
    BY <2>1
  <2>3. QED
    BY <1>4, <2>2 DEF SortJobs, NoRoomLeft, Considered
<1>5. CASE MarkNonPreemptible \/ MarkPreemptible \/ NextLoop
  BY <1>5, MarkRoom, LoopEndRoom
<1>6. CASE ScheduleJob
  BY <1>6 DEF ScheduleJob, NoRoomLeft, Considered, VcFits
<1>7. CASE EndPass \/ AbortPass \/ Restart
  BY <1>7 DEF EndPass, AbortPass, Restart, Forget, NoRoomLeft
<1>8. ASSUME NEW t \in tasks, TaskDone(t) \/ TaskFails(t)
      PROVE  NoRoomLeft'
  BY <1>1, <1>8 DEF TaskDone, TaskFails, Finish
<1>9. CASE UNCHANGED vars
  BY <1>1, <1>9 DEF vars, round
<1>10. QED
  BY <1>2, <1>3, <1>4, <1>5, <1>6, <1>7, <1>8, <1>9 DEF Next, Pass

\* A pass never refuses a job for which it then leaves room.
THEOREM RefusedHasNoRoom == Spec => []NoRoomLeft
BY SchedulerTypeCorrect, InitRoom, NextRoom, PTL DEF Spec

\* A kill task is made only of a preemptible job that was refused.
LEMMA KillNeedsRefusal ==
  ASSUME TypeOK, NoRoomLeft, [Next]_vars,
         NEW t \in tasks' \ tasks, t.fn = "kill", t.own
  PROVE  t.job \in Preemptible /\ ~Geq(cluster_schedulable, job_resource(t.job))
<1>1. ScheduleJob
  <2>1. tasks' # tasks
    OBVIOUS
  <2>2. ~Restart
    <3>1. \A u \in Task : [u EXCEPT !.own = FALSE].own = FALSE
      BY DEF Task
    <3>2. \A u \in Own : [u EXCEPT !.own = FALSE].own = FALSE
      BY <3>1 DEF Own, TypeOK
    <3>3. SUFFICES ASSUME Restart
                   PROVE  FALSE
      OBVIOUS
    <3>4. PICK kept \in SUBSET Own :
            tasks' = (tasks \ Own) \cup {[u EXCEPT !.own = FALSE] : u \in kept}
      BY <3>3 DEF Restart
    <3>5. PICK u \in kept : t = [u EXCEPT !.own = FALSE]
      BY <3>4
    <3>6. QED
      BY <3>2, <3>5
  <2>3. \A u \in tasks : ~(TaskDone(u) \/ TaskFails(u))
    BY DEF TaskDone, TaskFails, Finish
  <2>4. ~Others
    BY <2>1 DEF Others, Queue, Leave, Observed, Vanished, StaleReport,
                SetPriority, UpdateClusterStatus, Move
  <2>5. ~(EndPass \/ AbortPass \/ UNCHANGED vars)
    BY <2>1 DEF EndPass, AbortPass, vars
  <2>6. ~(\/ Fetch \/ GetClusterStatus \/ SortJobs \/ MarkNonPreemptible
          \/ MarkPreemptible \/ NextLoop)
    BY <2>1 DEF Fetch, GetClusterStatus, SortJobs, MarkNonPreemptible,
                MarkPreemptible, NextLoop
  <2>7. QED
    BY <2>2, <2>3, <2>4, <2>5, <2>6 DEF Next, Pass
<1>2. /\ phase = "act" /\ pos \in DOMAIN jobs_info
      /\ t.job = jobs_info[pos] /\ t.job \in Preemptible \ allowed
  BY <1>1, CurrentJob DEF ScheduleJob, OwnTask
<1>3. Considered(pos)
  BY <1>2 DEF Considered
<1>4. QED
  BY <1>2, <1>3 DEF NoRoomLeft

\* Preemption is only ever for want of room, and only of preemptible jobs.
THEOREM PreemptionNeedsRoom == Spec => PreemptOnlyForRoom
<1>1. TypeOK /\ NoRoomLeft /\ [Next]_vars =>
        [\A t \in tasks' \ tasks :
           t.fn = "kill" /\ t.own =>
             t.job \in Preemptible /\
             ~Geq(cluster_schedulable, job_resource(t.job))]_vars
  BY KillNeedsRefusal
<1>2. QED
  BY <1>1, SchedulerTypeCorrect, RefusedHasNoRoom, PTL DEF Spec, PreemptOnlyForRoom
=============================================================================
