--------------------------- MODULE EndpointProofs ---------------------------
(* Theorems about EndpointManager, for any endpoints, places and bounds. *)
EXTENDS EndpointManager, TLAPS

\* What is written into a column is a record.
LEMMA RecordTypes ==
  /\ Absent \in Record /\ Fresh \in Record /\ NoColumn \in Column
  /\ Idle \in Round /\ NoReset \in Reset
BY DEF Absent, Fresh, Record, NoColumn, Column, Idle, Round, Phases, NoReset,
       Reset

\* A part of a column is a column.
LEMMA OnlyType ==
  ASSUME NEW c \in Column, NEW E
  PROVE  Only(c, E) \in Column
BY RecordTypes DEF Only, Column

\* A changed record is a record.
LEMMA ChangeType ==
  ASSUME NEW c \in Column, NEW e \in Endpoints
  PROVE  /\ \A s \in {"absent", "pending", "running", "stopped"} :
              [c[e] EXCEPT !.st = s] \in Record
         /\ \A p \in Places \cup {None} :
              [c[e] EXCEPT !.st = "running", !.node = p] \in Record
BY DEF Column, Record

\* An UpdateEndpoint of a record keeps the type.
LEMMA EditsType ==
  ASSUME TypeOK, NEW w \in Writers, NEW e \in Endpoints, NEW rec \in Record,
         Edits(w, e, rec)
  PROVE  edit' \in [Writers -> Edit \cup {None}]
BY DEF Edits, TypeOK, Column, Edit

\* A round that has dealt with an endpoint is still a round.
LEMMA HandlesType ==
  ASSUME TypeOK, NEW e \in Endpoints, Handles(e)
  PROVE  round' \in Round
BY RecordTypes DEF Handles, TypeOK, Round, Column

\* A job that changes its status has a status, ...
LEMMA BecomesType ==
  ASSUME TypeOK, NEW s \in JobStatuses, Becomes(s)
  PROVE  job' \in JobStatuses /\ wasDead' \in BOOLEAN /\ leaked' \subseteq Endpoints
<1>1. wasDead' \in BOOLEAN
  BY Zenon DEF Becomes
<1>2. QED
  BY <1>1 DEF Becomes, TypeOK

\* ... and so have the pod and the services after delete_job, ...
LEMMA DeleteType ==
  ASSUME DeleteJob
  PROVE  /\ pod' \in Places \cup {None} /\ old' \in BOOLEAN
         /\ up' \subseteq Endpoints /\ svc' \subseteq Endpoints
<1>1. old' \in BOOLEAN
  BY Zenon DEF DeleteJob
<1>2. QED
  BY <1>1 DEF DeleteJob

\* ... and after create_pods.
LEMMA CreateType ==
  ASSUME TypeOK, NEW p \in Places, NEW servers \in SUBSET Ssh,
         CreatePod(p, servers)
  PROVE  /\ pod' \in Places \cup {None} /\ old' \in BOOLEAN
         /\ up' \subseteq Endpoints /\ svc' \subseteq Endpoints
<1>1. old' \in BOOLEAN
  BY Zenon DEF CreatePod
<1>2. QED
  BY <1>1, EndpointsAssumption DEF CreatePod, TypeOK

\* The types are kept by what happens to the job and its pod.
LEMMA JobType ==
  ASSUME TypeOK, JobStep
  PROVE  TypeOK'
<1> USE EndpointsAssumption DEF Moves, history
<1>1. CASE JobRuns
  <2>1. job' \in JobStatuses /\ wasDead' \in BOOLEAN /\ leaked' \subseteq Endpoints
    BY <1>1, BecomesType DEF JobRuns, JobStatuses
  <2>2. QED
    BY <1>1, <2>1 DEF JobRuns, TypeOK, kube, budget
<1>2. ASSUME NEW s \in JobStatuses, JobChanges(s)
      PROVE  TypeOK'
  <2>1. job' \in JobStatuses /\ wasDead' \in BOOLEAN /\ leaked' \subseteq Endpoints
    BY <1>2, BecomesType DEF JobChanges
  <2>2. QED
    BY <1>2, <2>1 DEF JobChanges, TypeOK, kube
<1>3. CASE PodLost \/ PodAges
  <2>1. old' \in BOOLEAN
    BY <1>3, Zenon DEF PodLost, PodAges
  <2>2. CASE PodLost
    BY <2>1, <2>2 DEF PodLost, TypeOK
  <2>3. CASE PodAges
    BY <2>1, <2>3 DEF PodAges, TypeOK
  <2>4. QED
    BY <1>3, <2>2, <2>3
<1>4. CASE JobDeleted
  BY <1>4, DeleteType DEF JobDeleted, TypeOK
<1>5. CASE Preempted
  <2>1. job' \in JobStatuses /\ wasDead' \in BOOLEAN /\ leaked' \subseteq Endpoints
    BY <1>5, BecomesType DEF Preempted, JobStatuses
  <2>2. QED
    BY <1>5, <2>1, DeleteType DEF Preempted, TypeOK
<1>6. ASSUME NEW e \in Endpoints, ServerDies(e)
      PROVE  TypeOK'
  BY <1>6 DEF ServerDies, TypeOK
<1>7. QED
  BY <1>1, <1>2, <1>3, <1>4, <1>5, <1>6 DEF JobStep

\* The types are kept by requests.
LEMMA ClientType ==
  ASSUME TypeOK, NEW c \in Clients, ClientStep(c) \/ AskFails(c)
  PROVE  TypeOK'
<1>1. ASSUME NEW want \in SUBSET Endpoints, AskRead(c, want)
      PROVE  TypeOK'
  <2>1. rest'[c] \in Column /\ rest' = [rest EXCEPT ![c] = rest'[c]]
    BY <1>1, RecordTypes DEF AskRead, TypeOK, Column
  <2>2. QED
    BY <1>1, <2>1 DEF AskRead, TypeOK, kube, history
<1>2. CASE AskWrite(c)
  BY <1>2 DEF AskWrite, TypeOK, kube, budget, history
<1>3. CASE AskFails(c)
  BY <1>3 DEF AskFails, Fails, TypeOK, kube, history
<1>4. QED
  BY <1>1, <1>2, <1>3 DEF ClientStep

\* A reset that begins or ends is a reset.
LEMMA ResetsType ==
  ASSUME TypeOK, NEW w \in Resetters, NEW r \in Reset,
         reset' = [reset EXCEPT ![w] = r]
  PROVE  reset' \in [Resetters -> Reset]
BY DEF TypeOK

\* The types are kept by the resets of a watcher and of a submission, ...
LEMMA ResetType ==
  ASSUME TypeOK, NEW w \in Resetters, ResetStep(w)
  PROVE  TypeOK'
<1>1. reset[w] \in Reset /\ reset[w].recs \in Column /\ w \in Writers
  BY DEF TypeOK, Reset, Writers
<1>2. CASE Fetches(w)
  <2>1. [reset[w] EXCEPT !.phase = "seen"] \in Reset
    BY <1>1 DEF Reset
  <2>2. reset' \in [Resetters -> Reset]
    BY <1>2, <2>1, ResetsType DEF Fetches
  <2>3. QED
    BY <1>2, <2>2 DEF Fetches, Moves, TypeOK, kube, history
<1>3. CASE WatchEnds(w) \/ SubmitWaits(w)
  <2>1. reset' \in [Resetters -> Reset]
    BY <1>3, RecordTypes, ResetsType DEF WatchEnds, SubmitWaits
  <2>2. CASE WatchEnds(w)
    BY <2>1, <2>2 DEF WatchEnds, TypeOK, kube, history, budget
  <2>3. CASE SubmitWaits(w)
    BY <2>1, <2>3, DeleteType DEF SubmitWaits, TypeOK, history, budget
  <2>4. QED
    BY <1>3, <2>2, <2>3
<1>4. CASE ResetBegins(w)
  <2>1. [phase |-> "reset", recs |-> stored] \in Reset
    BY DEF TypeOK, Reset
  <2>2. reset' \in [Resetters -> Reset]
    BY <1>4, <2>1, ResetsType DEF ResetBegins, Begins
  <2>3. QED
    BY <1>4, <2>2 DEF ResetBegins, Begins, TypeOK, kube, history, budget
<1>5. CASE UpdateWrites(w)
  <2>1. edit[w] \in Edit
    BY <1>1, <1>5 DEF UpdateWrites, TypeOK
  <2>2. QED
    BY <1>1, <1>5, <2>1 DEF UpdateWrites, Edit, TypeOK, kube, budget, history
<1>6. ASSUME NEW e \in Endpoints, ResetOne(w, e)
      PROVE  TypeOK'
  <2>1. edit' \in [Writers -> Edit \cup {None}]
    BY <1>1, <1>6, ChangeType, EditsType DEF ResetOne
  <2>2. [reset[w] EXCEPT !.recs[e] = Absent] \in Reset
    BY <1>1, RecordTypes DEF Reset, Column
  <2>3. reset' \in [Resetters -> Reset]
    BY <1>6, <2>2, ResetsType DEF ResetOne
  <2>4. QED
    BY <1>6, <2>1, <2>3 DEF ResetOne, TypeOK, kube, budget, history
<1>7. CASE Resubmitted(w)
  <2>1. reset' \in [Resetters -> Reset]
    BY <1>7, RecordTypes, ResetsType DEF Resubmitted, ResetEnds
  <2>2. job' \in JobStatuses /\ wasDead' \in BOOLEAN /\ leaked' \subseteq Endpoints
    BY <1>7, BecomesType DEF Resubmitted, JobStatuses
  <2>3. QED
    BY <1>7, <2>1, <2>2, DeleteType DEF Resubmitted, ResetEnds, TypeOK, budget
<1>8. ASSUME NEW p \in Places, NEW servers \in SUBSET Ssh,
             Submitted(w, p, servers)
      PROVE  TypeOK'
  <2>1. reset' \in [Resetters -> Reset]
    BY <1>8, RecordTypes, ResetsType DEF Submitted, ResetEnds
  <2>2. job' \in JobStatuses /\ wasDead' \in BOOLEAN /\ leaked' \subseteq Endpoints
    BY <1>8, BecomesType DEF Submitted, JobStatuses
  <2>3. QED
    BY <1>8, <2>1, <2>2, CreateType DEF Submitted, ResetEnds, TypeOK, budget
<1>9. QED
  BY <1>2, <1>3, <1>4, <1>5, <1>6, <1>7, <1>8 DEF ResetStep

\* ... and by what goes wrong in them.
LEMMA ResetMishapType ==
  ASSUME TypeOK, NEW w \in Resetters,
         ResetUnread(w) \/ SubmitFails(w) \/ ResetterDies(w)
  PROVE  TypeOK'
<1>1. CASE ResetUnread(w)
  <2>1. [phase |-> "reset", recs |-> NoColumn] \in Reset
    BY RecordTypes DEF Reset
  <2>2. reset' \in [Resetters -> Reset]
    BY <1>1, <2>1, ResetsType DEF ResetUnread, Begins
  <2>3. QED
    BY <1>1, <2>2 DEF ResetUnread, Begins, Fails, TypeOK, kube, history
<1>2. CASE SubmitFails(w)
  <2>1. reset' \in [Resetters -> Reset]
    BY <1>2, RecordTypes, ResetsType DEF SubmitFails, ResetEnds
  <2>2. /\ pod' \in Places \cup {None} /\ old' \in BOOLEAN
        /\ up' \subseteq Endpoints /\ svc' \subseteq Endpoints
    <3>1. CASE UNCHANGED kube
      BY <3>1 DEF kube, TypeOK
    <3>2. QED
      BY <1>2, <3>1, DeleteType, CreateType DEF SubmitFails
  <2>3. job' \in JobStatuses /\ wasDead' \in BOOLEAN /\ leaked' \subseteq Endpoints
    <3>1. CASE UNCHANGED <<job, history>>
      BY <3>1 DEF history, TypeOK
    <3>2. QED
      BY <1>2, <3>1, BecomesType DEF SubmitFails, JobStatuses
  <2>4. QED
    BY <1>2, <2>1, <2>2, <2>3 DEF SubmitFails, ResetEnds, Fails, TypeOK
<1>3. CASE ResetterDies(w)
  <2>1. reset' \in [Resetters -> Reset]
    BY <1>3, RecordTypes, ResetsType DEF ResetterDies
  <2>2. edit' \in [Writers -> Edit \cup {None}]
    BY <1>3 DEF ResetterDies, Forgets, TypeOK
  <2>3. QED
    BY <1>3, <2>1, <2>2 DEF ResetterDies, Fails, TypeOK, kube, history
<1>4. QED
  BY <1>1, <1>2, <1>3

\* The types are kept by a round.
LEMMA RoundType ==
  ASSUME TypeOK, RoundStep
  PROVE  TypeOK'
<1>1. round \in Round /\ round.recs \in Column
  BY DEF TypeOK, Round
<1>2. CASE RoundBegins
  <2>1. round' \in Round
    BY <1>1, <1>2, OnlyType DEF RoundBegins, TypeOK, Idle, Round, Phases
  <2>2. QED
    BY <1>2, <2>1 DEF RoundBegins, TypeOK, kube, budget, history
<1>3. CASE StartEnds
  <2>1. round' \in Round
    BY <1>1, <1>3 DEF StartEnds, TypeOK, Round, Phases
  <2>2. QED
    BY <1>3, <2>1 DEF StartEnds, TypeOK, kube, budget, history
<1>4. CASE FixEnds
  <2>1. round' \in Round
    BY <1>1, <1>4, OnlyType DEF FixEnds, TypeOK, Idle, Round, Phases
  <2>2. QED
    BY <1>4, <2>1 DEF FixEnds, TypeOK, kube, budget, history
<1>5. CASE UpdateWrites(Manager)
  <2>1. edit[Manager] \in Edit
    BY <1>5 DEF UpdateWrites, TypeOK, Writers
  <2>2. QED
    BY <1>5, <2>1 DEF UpdateWrites, Edit, TypeOK, Writers, kube, budget, history
<1>6. ASSUME NEW e \in Endpoints, StartSkipped(e) \/ FixKept(e)
      PROVE  TypeOK'
  BY <1>6, HandlesType DEF StartSkipped, FixKept, TypeOK, kube, budget, history
<1>7. ASSUME NEW e \in Endpoints, StartServer(e)
      PROVE  TypeOK'
  <2>1. [round.recs EXCEPT ![e].port = pod] \in Column
    BY <1>1 DEF Column, Record, TypeOK
  <2>2. round' \in Round
    BY <1>1, <1>7, <2>1 DEF StartServer, Round
  <2>3. QED
    BY <1>7, <2>2 DEF StartServer, TypeOK, budget, history
<1>8. ASSUME NEW e \in Endpoints, NEW rec \in Record,
             Edits(Manager, e, rec), Handles(e)
      PROVE  edit' \in [Writers -> Edit \cup {None}] /\ round' \in Round
  BY <1>8, EditsType, HandlesType DEF Writers
<1>9. ASSUME NEW e \in Endpoints, StartSeen(e)
      PROVE  TypeOK'
  <2> DEFINE rec == [round.recs[e] EXCEPT !.st = "running",
                       !.node = IF pod # None THEN pod ELSE @]
  <2>1. rec \in Record
    <3>1. round.recs[e] \in Record
      BY <1>1 DEF Column
    <3>2. pod \in Places \cup {None}
      BY DEF TypeOK
    <3>3. QED
      BY <3>1, <3>2 DEF Record
  <2>2. edit' \in [Writers -> Edit \cup {None}] /\ round' \in Round
    BY <1>8, <1>9, <2>1 DEF StartSeen
  <2>3. QED
    BY <1>9, <2>2 DEF StartSeen, TypeOK, kube, budget, history
<1>10. ASSUME NEW e \in Endpoints, StartPort(e)
       PROVE  TypeOK'
  <2>1. edit' \in [Writers -> Edit \cup {None}] /\ round' \in Round
    BY <1>1, <1>8, <1>10 DEF StartPort, Column
  <2>2. QED
    BY <1>10, <2>1 DEF StartPort, TypeOK, budget, history
<1>11. ASSUME NEW e \in Endpoints, FixReset(e) \/ Clean(e)
       PROVE  TypeOK'
  <2>1. edit' \in [Writers -> Edit \cup {None}] /\ round' \in Round
    BY <1>1, <1>8, <1>11, ChangeType DEF FixReset, Clean
  <2>2. QED
    BY <1>11, <2>1 DEF FixReset, Clean, TypeOK, budget, history
<1>12. QED
  BY <1>2, <1>3, <1>4, <1>5, <1>6, <1>7, <1>9, <1>10, <1>11 DEF RoundStep

\* The types are kept by failures and deaths.
LEMMA MishapType ==
  ASSUME TypeOK, Mishap
  PROVE  TypeOK'
<1>1. round \in Round /\ round.recs \in Column
  BY DEF TypeOK, Round
<1>2. CASE OneFails
  <2>1. round' \in Round
    BY <1>1, <1>2, HandlesType DEF OneFails, Round
  <2>2. edit' \in [Writers -> Edit \cup {None}]
    BY <1>2 DEF OneFails, Forgets, TypeOK
  <2>3. QED
    BY <1>2, <2>1, <2>2 DEF OneFails, Fails, TypeOK, kube, history
<1>3. CASE ListFails
  BY <1>3, RecordTypes DEF ListFails, Fails, TypeOK, kube, history
<1>4. CASE ManagerDies
  <2>1. edit' \in [Writers -> Edit \cup {None}]
    BY <1>4 DEF ManagerDies, Forgets, TypeOK
  <2>2. QED
    BY <1>4, <2>1, RecordTypes DEF ManagerDies, Fails, TypeOK, kube, history
<1>5. ASSUME NEW w \in Writers, ReadFails(w)
      PROVE  TypeOK'
  <2>1. edit[w] \in Edit
    BY <1>5 DEF ReadFails, TypeOK
  <2>2. [edit[w] EXCEPT !.col = Only(@, {edit[w].at})] \in Edit
    BY <2>1, OnlyType DEF Edit
  <2>3. edit' \in [Writers -> Edit \cup {None}]
    BY <1>5, <2>2 DEF ReadFails, TypeOK
  <2>4. QED
    BY <1>5, <2>3 DEF ReadFails, Fails, TypeOK, kube, history
<1>6. ASSUME NEW e \in Endpoints, DeleteFails(e)
      PROVE  TypeOK'
  <2>1. edit' \in [Writers -> Edit \cup {None}]
    BY <1>1, <1>6, ChangeType, EditsType DEF DeleteFails, Writers
  <2>2. round' \in Round
    BY <1>6, HandlesType DEF DeleteFails
  <2>3. QED
    BY <1>6, <2>1, <2>2 DEF DeleteFails, Fails, TypeOK, kube
<1>7. ASSUME NEW e \in Endpoints, CheckFails(e)
      PROVE  TypeOK'
  <2>1. edit' \in [Writers -> Edit \cup {None}]
    BY <1>1, <1>7, ChangeType, EditsType DEF CheckFails, Writers
  <2>2. round' \in Round
    BY <1>7, HandlesType DEF CheckFails
  <2>3. QED
    BY <1>7, <2>1, <2>2 DEF CheckFails, Fails, TypeOK, history
<1>8. QED
  BY <1>2, <1>3, <1>4, <1>5, <1>6, <1>7, ClientType, ResetMishapType DEF Mishap

\* The initial state is well-typed, and nothing has been stopped in it.
LEMMA InitType == Init => TypeOK /\ StoppingWasDead
<1> SUFFICES ASSUME Init
             PROVE  TypeOK /\ StoppingWasDead
  OBVIOUS
<1>1. stored \in Column /\ Alive(stored)
  BY RecordTypes DEF Init, Column, Alive, Fresh, Absent
<1>2. old \in BOOLEAN /\ wasDead \in BOOLEAN
  BY Zenon DEF Init
<1>3. TypeOK
  BY <1>1, <1>2, RecordTypes, EndpointsAssumption
     DEF Init, TypeOK, JobStatuses, Writers
<1>4. Alive(round.recs) /\ round.phase # "clean"
  BY DEF Init, Idle, NoColumn, Absent, Alive
<1>5. \A w \in Resetters : Alive(reset[w].recs)
  BY DEF Init, NoReset, NoColumn, Absent, Alive
<1>6. StoppingWasDead
  BY <1>1, <1>4, <1>5 DEF Init, StoppingWasDead
<1>7. QED
  BY <1>3, <1>6

\* Every step keeps the types.
LEMMA NextType == TypeOK /\ [Next]_vars => TypeOK'
<1>1. ASSUME TypeOK, UNCHANGED vars
      PROVE  TypeOK'
  BY <1>1 DEF TypeOK, vars, kube, budget, history
<1>2. QED
  BY <1>1, JobType, ClientType, ResetType, RoundType, MishapType DEF Next

\* Records, rounds and columns are always well-formed.
THEOREM TypeCorrect == Spec => []TypeOK
BY InitType, NextType, PTL DEF Spec

\* Whether an endpoint is being stopped depends on the job's status and on the
\* kept records alone.
LEMMA OthersStopping ==
  ASSUME StoppingWasDead,
         UNCHANGED <<stored, rest, round, reset, edit, wasDead>>,
         job' = "dead" => job = "dead"
  PROVE  StoppingWasDead'
BY DEF StoppingWasDead, AllDone, Due, Alive

\* A job that is not dead is never about to have an endpoint stopped: by what
\* happens to it, ...
LEMMA JobStopping ==
  ASSUME TypeOK, StoppingWasDead, JobStep
  PROVE  StoppingWasDead'
<1> USE DEF history
<1>1. ASSUME NEW s \in JobStatuses, Becomes(s),
             UNCHANGED <<stored, rest, round, reset, edit>>
      PROVE  StoppingWasDead'
  <2>1. CASE s = "dead"
    BY <1>1, <2>1 DEF Becomes, StoppingWasDead
  <2>2. CASE s # "dead"
    BY <1>1, <2>2 DEF Becomes, StoppingWasDead, AllDone, Due
  <2>3. QED
    BY <2>1, <2>2
<1>2. CASE JobRuns
  BY <1>1, <1>2 DEF JobRuns, JobStatuses
<1>3. ASSUME NEW s \in JobStatuses, JobChanges(s)
      PROVE  StoppingWasDead'
  BY <1>1, <1>3 DEF JobChanges
<1>4. CASE PodLost \/ PodAges \/ JobDeleted
  BY <1>4, OthersStopping DEF PodLost, PodAges, JobDeleted
<1>5. CASE Preempted
  BY <1>1, <1>5 DEF Preempted, JobStatuses
<1>6. ASSUME NEW e \in Endpoints, ServerDies(e)
      PROVE  StoppingWasDead'
  BY <1>6, OthersStopping DEF ServerDies
<1>7. QED
  BY <1>2, <1>3, <1>4, <1>5, <1>6 DEF JobStep

\* A column with one record changed stops nothing else.
LEMMA EditsStopping ==
  ASSUME TypeOK, Alive(stored), NEW w \in Writers,
         \A v \in Writers : edit[v] # None => Alive(edit[v].col),
         NEW e \in Endpoints, NEW rec \in Record, rec.st # "stopped",
         Edits(w, e, rec)
  PROVE  \A v \in Writers : edit'[v] # None => Alive(edit'[v].col)
<1>1. Alive([stored EXCEPT ![e] = rec])
  BY DEF Alive, TypeOK, Column
<1>2. ASSUME NEW v \in Writers, edit'[v] # None
      PROVE  Alive(edit'[v].col)
  <2>1. CASE v = w
    <3>1. edit'[v] = [at |-> e, col |-> [stored EXCEPT ![e] = rec]]
      BY <2>1 DEF Edits, TypeOK
    <3>2. edit'[v].col = [stored EXCEPT ![e] = rec]
      BY <3>1
    <3>3. QED
      BY <1>1, <3>2
  <2>2. CASE v # w
    BY <1>2, <2>2 DEF Edits, TypeOK
  <2>3. QED
    BY <2>1, <2>2
<1>3. QED
  BY <1>2

\* An update that is carried out writes what it has read, changed in one record.
LEMMA UpdateStopping ==
  ASSUME TypeOK, StoppingWasDead, NEW w \in Writers, UpdateWrites(w)
  PROVE  StoppingWasDead'
<1>1. \A v \in Writers : edit'[v] = None \/ edit'[v] = edit[v]
  BY DEF UpdateWrites, TypeOK
<1>2. QED
  BY <1>1 DEF UpdateWrites, history, StoppingWasDead, AllDone, Due

\* ... by requests, which write what they have read, ...
LEMMA ClientStopping ==
  ASSUME TypeOK, StoppingWasDead, NEW c \in Clients, ClientStep(c) \/ AskFails(c)
  PROVE  StoppingWasDead'
<1> USE DEF StoppingWasDead, AllDone, Due, history
<1>1. ASSUME NEW want \in SUBSET Endpoints, AskRead(c, want)
      PROVE  StoppingWasDead'
  <2>1. Alive(stored) => Alive(rest'[c])
    BY <1>1 DEF AskRead, Alive, Fresh, TypeOK
  <2>2. \A d \in Clients \ {c} : rest'[d] = rest[d]
    BY <1>1 DEF AskRead, TypeOK
  <2>3. QED
    BY <1>1, <2>1, <2>2 DEF AskRead
<1>2. CASE AskWrite(c)
  BY <1>2 DEF AskWrite, TypeOK
<1>3. CASE AskFails(c)
  BY <1>3 DEF AskFails, TypeOK
<1>4. QED
  BY <1>1, <1>2, <1>3 DEF ClientStep

\* ... by a watcher or a submission that resets what it has read, whatever has
\* become of the job by then, ...
LEMMA ResetsStopping ==
  ASSUME TypeOK, StoppingWasDead, NEW w \in Resetters, NEW r \in Reset,
         reset' = [reset EXCEPT ![w] = r], Alive(r.recs),
         UNCHANGED <<stored, rest, round>>,
         \A v \in Writers : edit'[v] # None => Alive(edit'[v].col),
         \/ UNCHANGED <<job, wasDead>>
         \/ \E s \in JobStatuses : Becomes(s)
  PROVE  StoppingWasDead'
<1>1. \A v \in Resetters : reset'[v] = IF v = w THEN r ELSE reset[v]
  BY DEF TypeOK
<1>2. CASE UNCHANGED <<job, wasDead>>
  BY <1>1, <1>2 DEF StoppingWasDead, AllDone, Due
<1>3. ASSUME NEW s \in JobStatuses, Becomes(s)
      PROVE  StoppingWasDead'
  <2>1. CASE s = "dead"
    BY <1>3, <2>1 DEF Becomes, StoppingWasDead
  <2>2. CASE s # "dead"
    BY <1>1, <1>3, <2>2 DEF Becomes, StoppingWasDead, AllDone, Due
  <2>3. QED
    BY <2>1, <2>2
<1>4. QED
  BY <1>2, <1>3

\* ... with each of its steps, ...
LEMMA ResetStopping ==
  ASSUME TypeOK, StoppingWasDead, ~wasDead, NEW w \in Resetters,
         ResetStep(w) \/ ResetUnread(w) \/ SubmitFails(w) \/ ResetterDies(w)
  PROVE  StoppingWasDead'
<1>1. /\ Alive(stored) /\ Alive(reset[w].recs)
      /\ \A v \in Writers : edit[v] # None => Alive(edit[v].col)
  BY DEF StoppingWasDead
<1>2. reset[w] \in Reset /\ reset[w].recs \in Column /\ w \in Writers
  BY DEF TypeOK, Reset, Writers
<1>3. NoReset \in Reset /\ Alive(NoReset.recs) /\ Alive(NoColumn)
  BY RecordTypes DEF NoReset, NoColumn, Alive, Absent
<1>4. CASE Fetches(w)
  <2>1. [reset[w] EXCEPT !.phase = "seen"] \in Reset /\
        [reset[w] EXCEPT !.phase = "seen"].recs = reset[w].recs
    BY <1>2 DEF Reset
  <2>2. QED
    BY <1>1, <1>4, <2>1, ResetsStopping DEF Fetches, history
<1>5. CASE WatchEnds(w) \/ SubmitWaits(w)
  BY <1>1, <1>3, <1>5, ResetsStopping DEF WatchEnds, SubmitWaits, history
<1>6. CASE ResetBegins(w)
  <2>1. [phase |-> "reset", recs |-> stored] \in Reset
    BY DEF TypeOK, Reset
  <2>2. QED
    BY <1>1, <1>6, <2>1, ResetsStopping DEF ResetBegins, Begins, history
<1>7. CASE ResetUnread(w)
  <2>1. [phase |-> "reset", recs |-> NoColumn] \in Reset
    BY RecordTypes DEF Reset
  <2>2. QED
    BY <1>1, <1>3, <1>7, <2>1, ResetsStopping DEF ResetUnread, Begins, history
<1>8. ASSUME NEW e \in Endpoints, ResetOne(w, e)
      PROVE  StoppingWasDead'
  <2>1. [reset[w].recs[e] EXCEPT !.st = "pending"] \in Record /\
        [reset[w].recs[e] EXCEPT !.st = "pending"].st = "pending"
    BY <1>2 DEF Column, Record
  <2>2. [reset[w] EXCEPT !.recs[e] = Absent] \in Reset /\
        [reset[w] EXCEPT !.recs[e] = Absent].recs =
          [reset[w].recs EXCEPT ![e] = Absent]
    BY <1>2, RecordTypes DEF Reset, Column
  <2>3. Alive([reset[w].recs EXCEPT ![e] = Absent])
    BY <1>1, <1>2 DEF Alive, Absent, Column
  <2>4. \A v \in Writers : edit'[v] # None => Alive(edit'[v].col)
    BY <1>1, <1>2, <1>8, <2>1, EditsStopping DEF ResetOne
  <2>5. QED
    BY <1>8, <2>2, <2>3, <2>4, ResetsStopping DEF ResetOne, history
<1>9. CASE UpdateWrites(w)
  BY <1>2, <1>9, UpdateStopping
<1>10. CASE Resubmitted(w)
  BY <1>1, <1>3, <1>10, ResetsStopping DEF Resubmitted, ResetEnds, JobStatuses
<1>11. ASSUME NEW p \in Places, NEW servers \in SUBSET Ssh,
              Submitted(w, p, servers)
       PROVE  StoppingWasDead'
  BY <1>1, <1>3, <1>11, ResetsStopping DEF Submitted, ResetEnds, JobStatuses
<1>12. CASE SubmitFails(w)
  <2>1. UNCHANGED <<job, wasDead>> \/ Becomes("dead")
    BY <1>12 DEF SubmitFails, history
  <2>2. QED
    BY <1>1, <1>3, <1>12, <2>1, ResetsStopping
       DEF SubmitFails, ResetEnds, JobStatuses
<1>13. CASE ResetterDies(w)
  <2>1. \A v \in Writers : edit'[v] = None \/ edit'[v] = edit[v]
    BY <1>13 DEF ResetterDies, Forgets, TypeOK
  <2>2. QED
    BY <1>1, <1>3, <1>13, <2>1, ResetsStopping DEF ResetterDies, history
<1>14. QED
  BY <1>4, <1>5, <1>6, <1>7, <1>8, <1>9, <1>10, <1>11, <1>12, <1>13
     DEF ResetStep

\* ... by a round, which only begins to stop endpoints of a dead job, ...
LEMMA RoundStopping ==
  ASSUME TypeOK, StoppingWasDead, ~wasDead, RoundStep \/ Mishap
  PROVE  StoppingWasDead'
<1> DEFINE Calm == /\ Alive(stored) /\ Alive(round.recs) /\ job # "dead"
                   /\ \A c \in Clients : rest[c] # None => Alive(rest[c])
                   /\ \A w \in Writers : edit[w] # None => Alive(edit[w].col)
                   /\ \A w \in Resetters : Alive(reset[w].recs)
<1>1. Calm /\ (round.phase = "clean" => AllDone)
  BY DEF StoppingWasDead
<1>2. round \in Round /\ round.recs \in Column
  BY DEF TypeOK, Round
<1>3. \A E : Alive(Only(stored, E))
  BY <1>1 DEF Only, Alive, Absent
<1>4. Alive(Idle.recs) /\ Idle.phase = "idle"
  BY DEF Idle, NoColumn, Alive, Absent
<1>5. ASSUME NEW e \in Endpoints, Handles(e)
      PROVE  /\ Alive(round'.recs) /\ round'.phase = round.phase
             /\ AllDone => AllDone'
  BY <1>1, <1>2, <1>5 DEF Handles, Alive, Absent, AllDone, Due, Round, Column
<1>6. ASSUME NEW e \in Endpoints, NEW rec \in Record, rec.st # "stopped",
             Edits(Manager, e, rec)
      PROVE  \A w \in Writers : edit'[w] # None => Alive(edit'[w].col)
  BY <1>1, <1>6, EditsStopping DEF Writers
<1>7. \A e \in Endpoints : ~(Free("clean") /\ Due(e))
  BY <1>1 DEF Free, AllDone
<1>8. CASE RoundBegins
  BY <1>1, <1>2, <1>3, <1>8 DEF RoundBegins, Idle, StoppingWasDead, history
<1>9. CASE StartEnds
  <2>1. round'.phase = "fix" /\ round'.recs = round.recs
    BY <1>2, <1>9 DEF StartEnds, Round
  <2>2. QED
    BY <1>1, <1>9, <2>1 DEF StartEnds, StoppingWasDead, history
<1>10. CASE FixEnds
  <2>1. round' = [Idle EXCEPT !.phase = "clean", !.recs = Only(stored, {})]
    BY <1>1, <1>10 DEF FixEnds
  <2>2. round'.phase = "clean" /\ round'.recs = Only(stored, {})
    BY <2>1 DEF Idle
  <2>3. AllDone'
    BY <2>2 DEF AllDone, Due, Only, Absent
  <2>4. QED
    BY <1>1, <1>3, <1>10, <2>2, <2>3 DEF FixEnds, StoppingWasDead, history
<1>11. CASE UpdateWrites(Manager)
  BY <1>11, UpdateStopping DEF Writers
<1>12. ASSUME NEW e \in Endpoints, StartSkipped(e) \/ FixKept(e)
       PROVE  StoppingWasDead'
  BY <1>1, <1>5, <1>12 DEF StartSkipped, FixKept, Free, StoppingWasDead, history
<1>13. ASSUME NEW e \in Endpoints, StartServer(e)
       PROVE  StoppingWasDead'
  <2>1. round'.phase = "start" /\
        round'.recs = [round.recs EXCEPT ![e].port = pod]
    BY <1>2, <1>13 DEF StartServer, Free, Round
  <2>2. Alive(round'.recs)
    BY <1>1, <1>2, <2>1 DEF Alive, Column, Record
  <2>3. QED
    BY <1>1, <1>13, <2>1, <2>2 DEF StartServer, StoppingWasDead, history
<1>14. ASSUME NEW e \in Endpoints, StartSeen(e)
       PROVE  StoppingWasDead'
  <2> DEFINE rec == [round.recs[e] EXCEPT !.st = "running",
                       !.node = IF pod # None THEN pod ELSE @]
  <2>1. round.recs[e] \in Record /\ pod \in Places \cup {None}
    BY <1>2 DEF Column, TypeOK
  <2>2. rec \in Record /\ rec.st = "running"
    BY <2>1 DEF Record
  <2>3. Edits(Manager, e, rec) /\ Handles(e) /\ round.phase = "start"
    BY <1>14 DEF StartSeen, Free
  <2>4. QED
    BY <1>1, <1>5, <1>6, <1>14, <2>2, <2>3 DEF StartSeen, StoppingWasDead, history
<1>15. ASSUME NEW e \in Endpoints, StartPort(e)
       PROVE  StoppingWasDead'
  <2>1. round.recs[e] \in Record /\ round.recs[e].st # "stopped"
    BY <1>1, <1>2 DEF Column, Alive
  <2>2. QED
    BY <1>1, <1>5, <1>6, <1>15, <2>1 DEF StartPort, StoppingWasDead, history
<1>16. ASSUME NEW e \in Endpoints, FixReset(e)
       PROVE  StoppingWasDead'
  <2>1. [round.recs[e] EXCEPT !.st = "pending"] \in Record /\
        [round.recs[e] EXCEPT !.st = "pending"].st = "pending"
    BY <1>2 DEF Column, Record
  <2>2. QED
    BY <1>1, <1>5, <1>6, <1>16, <2>1 DEF FixReset, Free, StoppingWasDead, history
<1>17. CASE OneFails
  <2>1. \A w \in Writers : edit'[w] = None \/ edit'[w] = edit[w]
    BY <1>17 DEF OneFails, Forgets, TypeOK
  <2>2. Alive(round'.recs) /\ (round'.phase = "clean" => AllDone')
    BY <1>1, <1>2, <1>5, <1>17 DEF OneFails, Round, AllDone, Due
  <2>3. QED
    BY <1>1, <1>17, <2>1, <2>2 DEF OneFails, StoppingWasDead, history
<1>18. CASE ListFails \/ ManagerDies
  <2>1. \A w \in Writers : edit'[w] = None \/ edit'[w] = edit[w]
    BY <1>18 DEF ListFails, ManagerDies, Forgets, TypeOK
  <2>2. QED
    BY <1>1, <1>4, <1>18, <2>1 DEF ListFails, ManagerDies, StoppingWasDead, history
<1>19. ASSUME NEW e \in Endpoints, DeleteFails(e) \/ CheckFails(e)
       PROVE  StoppingWasDead'
  <2>1. [round.recs[e] EXCEPT !.st = "pending"] \in Record /\
        [round.recs[e] EXCEPT !.st = "pending"].st = "pending"
    BY <1>2 DEF Column, Record
  <2>2. Edits(Manager, e, [round.recs[e] EXCEPT !.st = "pending"])
    BY <1>7, <1>19 DEF DeleteFails, CheckFails
  <2>3. \A w \in Writers : edit'[w] # None => Alive(edit'[w].col)
    BY <1>6, <2>1, <2>2
  <2>4. Alive(round'.recs) /\ round'.phase = round.phase /\ (AllDone => AllDone')
    BY <1>5, <1>19 DEF DeleteFails, CheckFails
  <2>5. QED
    BY <1>1, <1>19, <2>3, <2>4
       DEF DeleteFails, CheckFails, StoppingWasDead, history
<1>20. ASSUME NEW w \in Writers, ReadFails(w)
       PROVE  StoppingWasDead'
  <2>1. edit[w] \in Edit /\ Alive(edit[w].col)
    BY <1>1, <1>20 DEF ReadFails, TypeOK
  <2>2. [edit[w] EXCEPT !.col = Only(@, {edit[w].at})].col
          = Only(edit[w].col, {edit[w].at})
    BY <2>1 DEF Edit
  <2>3. Alive(Only(edit[w].col, {edit[w].at}))
    BY <2>1 DEF Only, Alive, Absent
  <2>4. \A v \in Writers : edit'[v] # None => Alive(edit'[v].col)
    BY <1>1, <1>20, <2>2, <2>3 DEF ReadFails, TypeOK
  <2>5. QED
    BY <1>1, <1>20, <2>4 DEF ReadFails, StoppingWasDead, AllDone, Due, history
<1>21. CASE RoundStep
  BY <1>7, <1>8, <1>9, <1>10, <1>11, <1>12, <1>13, <1>14, <1>15, <1>16, <1>21
     DEF RoundStep, Clean
<1>22. CASE Mishap
  BY <1>17, <1>18, <1>19, <1>20, <1>22, ClientStopping, ResetStopping DEF Mishap
<1>23. QED
  BY <1>21, <1>22

\* ... and once it was dead, that is never forgotten.
LEMMA NextStopping ==
  TypeOK /\ StoppingWasDead /\ [Next]_vars => StoppingWasDead'
<1> SUFFICES ASSUME TypeOK, StoppingWasDead, [Next]_vars
             PROVE  StoppingWasDead'
  OBVIOUS
<1>1. CASE wasDead' = wasDead /\ wasDead
  BY <1>1 DEF StoppingWasDead
<1>2. CASE UNCHANGED vars
  BY <1>2, OthersStopping DEF vars, history
<1>3. CASE RoundStep
  <2>1. wasDead' = wasDead
    BY <1>3 DEF RoundStep, RoundBegins, StartEnds, FixEnds, UpdateWrites,
                StartSkipped, StartSeen, StartServer, StartPort, FixKept,
                FixReset, Clean, history
  <2>2. QED
    BY <1>1, <1>3, <2>1, RoundStopping
<1>4. CASE Mishap \/ \E w \in Resetters : ResetStep(w)
  <2>1. CASE wasDead
    <3>1. wasDead'
      <4>1. ASSUME NEW w \in Resetters, ResetStep(w)
            PROVE  wasDead'
        BY <2>1, <4>1 DEF ResetStep, Fetches, WatchEnds, SubmitWaits, ResetBegins,
              Begins, UpdateWrites, Resubmitted, ResetOne, Submitted, Becomes,
              history
      <4>2. ASSUME Mishap
            PROVE  wasDead'
        BY <2>1, <4>2 DEF Mishap, OneFails, ListFails, ManagerDies, ReadFails,
              ResetUnread, Begins, SubmitFails, Becomes, ResetterDies, AskFails,
              CheckFails, DeleteFails, history
      <4>3. QED
        BY <1>4, <4>1, <4>2
    <3>2. QED
      BY <3>1 DEF StoppingWasDead
  <2>2. CASE ~wasDead
    BY <1>4, <2>2, RoundStopping, ResetStopping
  <2>3. QED
    BY <2>1, <2>2
<1>5. QED
  BY <1>2, <1>3, <1>4, JobStopping, ClientStopping DEF Next

\* For any number of endpoints, clients, watchers, submissions and faults:
\* nothing that overlaps stops an endpoint of a job that never was dead.
THEOREM StoppedOnlyAfterDeath == Spec => []StoppedWasDead
<1>1. StoppingWasDead => StoppedWasDead
  BY DEF StoppingWasDead, StoppedWasDead, Alive
<1>2. QED
  BY <1>1, InitType, NextType, NextStopping, PTL DEF Spec
=============================================================================
