--------------------------- MODULE EndpointManager ---------------------------
(***************************************************************************)
(* The endpoints (ssh, jupyter, tensorboard) of one job: a JSON column of  *)
(* its row, and a NodePort service and a server in the pod for each.       *)
(*                                                                         *)
(* Many writers read the whole column, change it and write all of it back  *)
(* without a lock: the REST API adds endpoints (JobRestAPIUtils.py), the   *)
(* endpoint manager starts, repairs and stops them in rounds that work on  *)
(* records read earlier (endpoint_manager.py), a job manager that finds    *)
(* the pod gone sets all of them to pending and re-submits the job         *)
(* (job_manager.py), and so does every submission before it creates the    *)
(* pod (job_launcher.py). Meanwhile the job changes its status, and its    *)
(* pod is lost, deleted and created elsewhere.                             *)
(*                                                                         *)
(* A place stands for a node and the port the pod's ssh server has there.  *)
(* Abstracted: other jobs, whose endpoints are in other rows; ports opened *)
(* by number, which have no server of their own; the pod names of the      *)
(* framework controller; the fields that follow from the job.              *)
(***************************************************************************)
EXTENDS Naturals, FiniteSets

CONSTANTS
  Endpoints,  \* the endpoints a user may ask for
  Ssh,        \* those of type ssh: the job may start the server by itself
  Begun,      \* those that were just asked for when the model begins
  Places,     \* where a pod can be
  Home,       \* where it is then
  Clients,    \* REST requests that may be in flight at the same time
  Watchers,   \* job managers that watch the pods of scheduled and running jobs
  Submitters, \* launcher workers that may hold a submission of the job
  Manager,    \* the endpoint manager
  None,       \* no place, no request, no edit
  MaxMoves,   \* bound: what happens to the job, its pod and its servers
  MaxAsks,    \* bound: requests of the clients
  MaxMishaps, \* bound: failed calls and deaths of processes
  MaxEvents   \* bound: all of these together

ASSUME EndpointsAssumption ==
  /\ Ssh \subseteq Endpoints /\ Begun \subseteq Endpoints /\ Home \in Places
  /\ None \notin Places \cup Endpoints

ASSUME WritersAssumption ==
  /\ Watchers \cap Submitters = {}
  /\ Manager \notin Watchers \cup Submitters

ASSUME BoundsAssumption ==
  /\ MaxMoves \in Nat /\ MaxAsks \in Nat
  /\ MaxMishaps \in Nat /\ MaxEvents \in Nat

VARIABLES
  job,      \* jobs table: "dead" for all but queued, scheduling and running
  pod,      \* Kubernetes: the place of the job's pod
  old,      \* the pod is older than an hour
  up,       \* the endpoints whose server runs in the pod
  svc,      \* Kubernetes: the endpoints that have a NodePort
  stored,   \* jobs table: the record of each endpoint
  rest,     \* per client: the column it is about to write
  round,    \* endpoint manager: where it is in its round
  reset,    \* per resetter: the records it is setting to pending
  edit,     \* per writer: what its UpdateEndpoint is about to write
  wasDead,  \* history: the job was neither queued, scheduling nor running
  leaked,   \* history: endpoints whose NodePort could not be deleted
  moves, asks, mishaps  \* what is used of the bounds

kube    == <<pod, old, up, svc>>
history == <<wasDead, leaked>>
budget  == <<moves, asks, mishaps>>
vars    == <<job, kube, stored, rest, round, reset, edit, history, budget>>

(***************************************************************************)
(* Values                                                                  *)
(***************************************************************************)

JobStatuses == {"queued", "scheduling", "running", "dead"}
Resetters   == Watchers \cup Submitters
Writers     == Resetters \cup {Manager}
Phases      == {"idle", "start", "fix", "clean"}

\* nodeName and podPort are set when they are known.
Record == [st : {"absent", "pending", "running", "stopped"},
           node : Places \cup {None}, port : Places \cup {None}]

Absent == [st |-> "absent", node |-> None, port |-> None]
Fresh  == [st |-> "pending", node |-> None, port |-> None]

Column == [Endpoints -> Record]

\* The endpoint that is updated, and the column with its new record.
Edit == [at : Endpoints, col : Column]

\* The records that a round still has to look at, the pod it has listed, the
\* endpoint whose server it is setting up.
Round == [phase : Phases, recs : Column, listed : Places \cup {None},
          server : Endpoints \cup {None}]

\* A resetter holds the job in a snapshot or task, then the records to reset.
Reset == [phase : {"idle", "seen", "reset"}, recs : Column]

TypeOK ==
  /\ job \in JobStatuses
  /\ pod \in Places \cup {None} /\ old \in BOOLEAN /\ up \subseteq Endpoints
  /\ svc \subseteq Endpoints
  /\ stored \in Column
  /\ rest \in [Clients -> Column \cup {None}]
  /\ round \in Round
  /\ reset \in [Resetters -> Reset]
  /\ edit \in [Writers -> Edit \cup {None}]
  /\ wasDead \in BOOLEAN /\ leaked \subseteq Endpoints
  /\ moves \in Nat /\ asks \in Nat /\ mishaps \in Nat

NoColumn == [e \in Endpoints |-> Absent]

Idle    == [phase |-> "idle", recs |-> NoColumn, listed |-> None, server |-> None]
NoReset == [phase |-> "idle", recs |-> NoColumn]

Init ==
  /\ job = "running" /\ pod = Home
  /\ old = FALSE /\ up = {}
  /\ svc = {}
  /\ stored = [e \in Endpoints |-> IF e \in Begun THEN Fresh ELSE Absent]
  /\ rest = [c \in Clients |-> None]
  /\ round = Idle /\ reset = [w \in Resetters |-> NoReset]
  /\ edit = [w \in Writers |-> None]
  /\ wasDead = FALSE /\ leaked = {}
  /\ moves = 0 /\ asks = 0 /\ mishaps = 0

With(c, s) == {e \in Endpoints : c[e].st = s}

\* The part of a column that a query or a loop keeps.
Only(c, E) == [e \in Endpoints |-> IF e \in E THEN c[e] ELSE Absent]

-----------------------------------------------------------------------------
(***************************************************************************)
(* The job and its pod                                                     *)
(***************************************************************************)

MoreEvents == moves + asks + mishaps < MaxEvents

Moves ==
  /\ moves < MaxMoves /\ MoreEvents
  /\ moves' = moves + 1
  /\ UNCHANGED <<asks, mishaps>>

Becomes(s) ==
  /\ job' = s
  /\ wasDead' = (wasDead \/ s = "dead")
  /\ UNCHANGED leaked

\* The pod is seen running.
JobRuns ==
  /\ job = "scheduling" /\ pod # None
  /\ Becomes("running")
  /\ UNCHANGED <<kube, stored, rest, round, reset, edit, budget>>

\* It is paused, killed or ends, is approved or resumed, its pod is pending
\* again; or a manager writes what it saw or was asked for some time ago.
JobChanges(s) ==
  /\ Moves
  /\ s # job
  /\ Becomes(s)
  /\ UNCHANGED <<kube, stored, rest, round, reset, edit>>

PodLost ==
  /\ Moves
  /\ pod # None
  /\ pod' = None /\ up' = {} /\ old' = FALSE
  /\ UNCHANGED <<job, svc, stored, rest, round, reset, edit, history>>

PodAges ==
  /\ Moves
  /\ pod # None /\ ~old
  /\ old' = TRUE
  /\ UNCHANGED <<job, pod, up, svc, stored, rest, round, reset, edit, history>>

ServerDies(e) ==
  /\ Moves
  /\ e \in up
  /\ up' = up \ {e}
  /\ UNCHANGED <<job, pod, old, svc, stored, rest, round, reset, edit, history>>

\* delete_job: the pod and all services with the label of the job.
DeleteJob ==
  pod' = None /\ up' = {} /\ old' = FALSE /\ svc' = {}

\* Of a kill, before its status is written, or of a job that has ended.
JobDeleted ==
  /\ Moves
  /\ DeleteJob
  /\ UNCHANGED <<job, stored, rest, round, reset, edit, history>>

\* kill_job_impl with "queued" for a preempted job, which leaves the column.
Preempted ==
  /\ Moves
  /\ job \in {"scheduling", "running"}
  /\ DeleteJob
  /\ Becomes("queued")
  /\ UNCHANGED <<stored, rest, round, reset, edit>>

-----------------------------------------------------------------------------
(***************************************************************************)
(* The writers of the column                                               *)
(***************************************************************************)

\* UpdateEndpoints reads the column, adds the endpoints that are not in it and
\* later writes it; one that is in it is left as it is, even if stopped.
AskRead(c, want) ==
  /\ rest[c] = None
  /\ want # {}
  /\ asks < MaxAsks /\ MoreEvents
  /\ asks' = asks + 1
  /\ rest' = [rest EXCEPT ![c] =
                [e \in Endpoints |-> IF e \in want /\ stored[e].st = "absent"
                                    THEN Fresh ELSE stored[e]]]
  /\ UNCHANGED <<job, kube, stored, round, reset, edit, history, moves,
                 mishaps>>

AskWrite(c) ==
  /\ rest[c] # None
  /\ stored' = rest[c]
  /\ rest' = [rest EXCEPT ![c] = None]
  /\ UNCHANGED <<job, kube, round, reset, edit, history, budget>>

\* UpdateEndpoint: GetJobEndpoints, then the UPDATE of the whole column. The
\* read is taken with the step before it, which decides on the change.
Edits(w, e, rec) ==
  edit' = [edit EXCEPT ![w] = [at |-> e, col |-> [stored EXCEPT ![e] = rec]]]

UpdateWrites(w) ==
  /\ edit[w] # None
  /\ stored' = edit[w].col
  /\ edit' = [edit EXCEPT ![w] = None]
  /\ UNCHANGED <<job, kube, rest, round, reset, history, budget>>

\* The job is in the list that a pass of the job manager works through, or in
\* the task made from it; what follows does not look at its status again.
Fetches(w) ==
  /\ Moves
  /\ reset[w].phase = "idle"
  /\ \/ w \in Watchers /\ job \in {"scheduling", "running"}
     \/ w \in Submitters /\ job = "queued"
  /\ reset' = [reset EXCEPT ![w].phase = "seen"]
  /\ UNCHANGED <<job, kube, stored, rest, round, edit, history>>

\* UpdateJobStatus: the pod is there.
WatchEnds(w) ==
  /\ w \in Watchers /\ reset[w].phase = "seen"
  /\ pod # None
  /\ reset' = [reset EXCEPT ![w] = NoReset]
  /\ UNCHANGED <<job, kube, stored, rest, round, edit, history, budget>>

\* submit_job_impl: the pod is still there, so delete it and give up for now.
SubmitWaits(w) ==
  /\ w \in Submitters /\ reset[w].phase = "seen"
  /\ pod # None
  /\ DeleteJob
  /\ reset' = [reset EXCEPT ![w] = NoReset]
  /\ UNCHANGED <<job, stored, rest, round, edit, history, budget>>

Begins(w, records) ==
  /\ reset[w].phase = "seen"
  /\ pod = None
  /\ reset' = [reset EXCEPT ![w] = [phase |-> "reset", recs |-> records]]
  /\ UNCHANGED <<job, kube, stored, rest, round, edit, history>>

\* A submission finds no pod, or the pod has been gone for 30 seconds:
\* GetJobEndpoints.
ResetBegins(w) ==
  Begins(w, stored) /\ UNCHANGED budget

\* Every record becomes pending, one that runs or was stopped as well.
ResetOne(w, e) ==
  /\ reset[w].recs[e] # Absent
  /\ edit[w] = None
  /\ Edits(w, e, [reset[w].recs[e] EXCEPT !.st = "pending"])
  /\ reset' = [reset EXCEPT ![w].recs[e] = Absent]
  /\ UNCHANGED <<job, kube, stored, rest, round, history, budget>>

\* All records are dealt with.
ResetEnds(w) ==
  /\ reset[w].phase = "reset" /\ reset[w].recs = NoColumn
  /\ edit[w] = None
  /\ reset' = [reset EXCEPT ![w] = NoReset]
  /\ UNCHANGED <<stored, rest, round, edit>>

\* kill_job with "queued": the status is written without another look at it.
Resubmitted(w) ==
  /\ w \in Watchers
  /\ ResetEnds(w)
  /\ DeleteJob
  /\ Becomes("queued")
  /\ UNCHANGED budget

\* create_pods: a pod of that name is replaced. Its own startup may run an
\* ssh server.
CreatePod(p, servers) ==
  pod' = p /\ up' = servers /\ old' = FALSE /\ UNCHANGED svc

\* The pod, then the status: that is not looked at again, either.
Submitted(w, p, servers) ==
  /\ w \in Submitters
  /\ ResetEnds(w)
  /\ CreatePod(p, servers)
  /\ Becomes("scheduling")
  /\ UNCHANGED budget

-----------------------------------------------------------------------------
(***************************************************************************)
(* The endpoint manager: start_endpoints, fix_endpoints, cleanup_endpoints *)
(***************************************************************************)

Free(phase) ==
  round.phase = phase /\ round.server = None /\ edit[Manager] = None

\* start_endpoints looks at pending records, the others at running ones.
Due(e)  == round.recs[e].st = IF round.phase = "start" THEN "pending" ELSE "running"
AllDone == \A e \in Endpoints : ~Due(e)

Handles(e) == round' = [round EXCEPT !.server = None, !.recs[e] = Absent]

\* GetPendingEndpoints
RoundBegins ==
  /\ round.phase \in {"idle", "clean"} /\ AllDone
  /\ edit[Manager] = None
  /\ LET found(s) == IF job = "running" THEN With(stored, s) ELSE {}
     IN  round' = [Idle EXCEPT !.phase = "start",
                     !.recs = Only(stored, found("pending") \cup found("running"))]
  /\ UNCHANGED <<job, kube, stored, rest, reset, edit, history, budget>>

\* The job has left running, or its pod cannot be reached: an exception.
StartSkipped(e) ==
  /\ Free("start") /\ Due(e)
  /\ \/ job # "running"
     \/ e \notin svc /\ pod = None
  /\ Handles(e)
  /\ UNCHANGED <<job, kube, stored, rest, reset, edit, history, budget>>

StartSeenRecorded(e) ==
  /\ Free("start") /\ Due(e)
  /\ job = "running" /\ e \in svc
  /\ IF round.recs[e].port = None THEN UNCHANGED edit
     ELSE Edits(Manager, e, [round.recs[e] EXCEPT !.st = "running",
                                    !.node = IF pod # None THEN pod ELSE @])
  /\ Handles(e)
  /\ UNCHANGED <<job, kube, stored, rest, reset, history, budget>>

\* The NodePort of an earlier round is there; nodeName if the pod is.
StartSeen(e) ==
  /\ Free("start") /\ Due(e)
  /\ job = "running" /\ e \in svc
  /\ Edits(Manager, e, [round.recs[e] EXCEPT !.st = "running",
                                    !.node = IF pod # None THEN pod ELSE @])
  /\ Handles(e)
  /\ UNCHANGED <<job, kube, stored, rest, reset, history, budget>>

\* start_endpoint: the server, which may take minutes, then the NodePort.
StartServer(e) ==
  /\ Free("start") /\ Due(e)
  /\ job = "running" /\ e \notin svc /\ pod # None
  /\ up' = up \cup {e}
  /\ round' = [round EXCEPT !.server = e, !.recs[e].port = pod]
  /\ UNCHANGED <<job, pod, old, svc, stored, rest, reset, edit, history, budget>>

StartPort(e) ==
  /\ round.server = e
  /\ svc' = svc \cup {e}
  /\ Edits(Manager, e, round.recs[e])
  /\ Handles(e)
  /\ UNCHANGED <<job, pod, old, up, stored, rest, reset, history, budget>>

\* The pods younger than an hour are listed once for all running records.
StartEnds ==
  /\ Free("start") /\ AllDone
  /\ round' = [round EXCEPT !.phase = "fix",
                            !.listed = IF With(round.recs, "running") = {} \/ old
                                       THEN None ELSE pod]
  /\ UNCHANGED <<job, kube, stored, rest, reset, edit, history, budget>>

\* A record without nodeName or podPort raises, as does the look at a pod that
\* is not in the list: none of them is checked.
Checked(e) ==
  /\ round.listed # None
  /\ round.recs[e].node # None /\ round.recs[e].port # None

NeedsFixNoServer(e) ==
  /\ Checked(e)
  /\ e \notin up

\* is_need_fix: another node, no server, or another ssh port. To look for a
\* server other than ssh raises if the pod is gone by now, which counts as in
\* order.
NeedsFix(e) ==
  /\ Checked(e)
  /\ \/ round.recs[e].node # round.listed
     \/ e \in Ssh /\ round.recs[e].port # pod
     \/ e \notin up /\ (e \in Ssh \/ pod # None)

FixKept(e) ==
  /\ Free("fix") /\ Due(e)
  /\ ~NeedsFix(e)
  /\ Handles(e)
  /\ UNCHANGED <<job, kube, stored, rest, reset, edit, history, budget>>

FixResetBare(e) ==
  /\ Free("fix") /\ Due(e)
  /\ NeedsFix(e)
  /\ svc' = svc \ {e}
  /\ Edits(Manager, e, [st |-> "pending"])
  /\ Handles(e)
  /\ UNCHANGED <<job, pod, old, up, stored, rest, reset, history, budget>>

\* The NodePort is deleted and the record reset, whatever the job is now.
FixReset(e) ==
  /\ Free("fix") /\ Due(e)
  /\ NeedsFix(e)
  /\ svc' = svc \ {e}
  /\ Edits(Manager, e, [round.recs[e] EXCEPT !.st = "pending"])
  /\ Handles(e)
  /\ UNCHANGED <<job, pod, old, up, stored, rest, reset, history, budget>>

FixEndsNotRunning ==
  /\ Free("fix") /\ AllDone
  /\ LET dead == IF job # "running" THEN With(stored, "running") ELSE {}
     IN  round' = [Idle EXCEPT !.phase = "clean", !.recs = Only(stored, dead)]
  /\ UNCHANGED <<job, kube, stored, rest, reset, edit, history, budget>>

\* GetDeadEndpoints: the running endpoints of a job that is not queued,
\* scheduling or running.
FixEnds ==
  /\ Free("fix") /\ AllDone
  /\ LET dead == IF job = "dead" THEN With(stored, "running") ELSE {}
     IN  round' = [Idle EXCEPT !.phase = "clean", !.recs = Only(stored, dead)]
  /\ UNCHANGED <<job, kube, stored, rest, reset, edit, history, budget>>

CleanKeepsPort(e) ==
  /\ Free("clean") /\ Due(e)
  /\ Edits(Manager, e, [round.recs[e] EXCEPT !.st = "stopped"])
  /\ Handles(e)
  /\ UNCHANGED <<job, kube, stored, rest, reset, history, budget>>

Clean(e) ==
  /\ Free("clean") /\ Due(e)
  /\ svc' = svc \ {e}
  /\ Edits(Manager, e, [round.recs[e] EXCEPT !.st = "stopped"])
  /\ Handles(e)
  /\ UNCHANGED <<job, pod, old, up, stored, rest, reset, history, budget>>

Fails ==
  /\ mishaps < MaxMishaps /\ MoreEvents
  /\ mishaps' = mishaps + 1
  /\ UNCHANGED <<moves, asks>>

Forgets(w) == edit' = [edit EXCEPT ![w] = None]

\* A statement of UpdateEndpoint fails, or the NodePort cannot be created: the
\* loop goes on with the next endpoint.
OneFails ==
  /\ Fails
  /\ \/ \E w \in Writers : edit[w] # None /\ Forgets(w) /\ UNCHANGED round
     \/ /\ round.server # None
        /\ Handles(round.server)
        /\ UNCHANGED edit
  /\ UNCHANGED <<job, kube, stored, rest, reset, history>>

\* The query of an UpdateEndpoint fails: GetJobEndpoints returns an empty
\* column, and all that is written is the record of the one endpoint.
ReadFails(w) ==
  /\ Fails
  /\ edit[w] # None
  /\ edit' = [edit EXCEPT ![w].col = Only(@, {edit[w].at})]
  /\ UNCHANGED <<job, kube, stored, rest, round, reset, history>>

\* The query before a reset fails: no record is reset, and the pod is created
\* or the job re-submitted all the same.
ResetUnread(w) == Begins(w, NoColumn) /\ Fails

\* UpdateJobTextField of a request fails.
AskFails(c) ==
  /\ Fails
  /\ rest[c] # None
  /\ rest' = [rest EXCEPT ![c] = None]
  /\ UNCHANGED <<job, kube, stored, round, reset, edit, history>>

\* A submission ends in an exception, for the fifth time as an error; or its
\* pod is created but the status not written.
SubmitFails(w) ==
  /\ Fails
  /\ w \in Submitters
  /\ ResetEnds(w)
  /\ \/ UNCHANGED <<job, kube, history>>
     \/ Becomes("dead") /\ DeleteJob
     \/ /\ \E p \in Places, servers \in SUBSET Ssh : CreatePod(p, servers)
        /\ UNCHANGED <<job, history>>

\* pod_exec times out or kubectl fails, which counts as a server that is down.
CheckFails(e) ==
  /\ Fails
  /\ Free("fix") /\ Due(e)
  /\ Checked(e)
  /\ svc' = svc \ {e}
  /\ Edits(Manager, e, [round.recs[e] EXCEPT !.st = "pending"])
  /\ Handles(e)
  /\ UNCHANGED <<job, pod, old, up, stored, rest, reset, history>>

\* delete_k8s_endpoint logs a failure and goes on.
DeleteFails(e) ==
  /\ Fails
  /\ Due(e)
  /\ \/ /\ Free("fix") /\ NeedsFix(e)
        /\ Edits(Manager, e, [round.recs[e] EXCEPT !.st = "pending"])
     \/ /\ Free("clean")
        /\ Edits(Manager, e, [round.recs[e] EXCEPT !.st = "stopped"])
  /\ Handles(e)
  /\ leaked' = leaked \cup {e}
  /\ UNCHANGED <<job, kube, stored, rest, reset, wasDead>>

\* The pods cannot be listed, or the query of the dead endpoints fails and
\* returns none: the round ends.
ListFails ==
  /\ Fails
  /\ AllDone
  /\ \/ Free("start") /\ With(round.recs, "running") # {}
     \/ Free("fix")
  /\ round' = Idle
  /\ UNCHANGED <<job, kube, stored, rest, reset, edit, history>>

\* The process dies or hangs and is replaced (cluster_manager.work).
ManagerDies ==
  /\ Fails
  /\ round' = Idle
  /\ Forgets(Manager)
  /\ UNCHANGED <<job, kube, stored, rest, reset, history>>

\* A job manager or a worker dies in the middle of a reset.
ResetterDies(w) ==
  /\ Fails
  /\ reset[w].phase # "idle"
  /\ reset' = [reset EXCEPT ![w] = NoReset]
  /\ Forgets(w)
  /\ UNCHANGED <<job, kube, stored, rest, round, history>>

-----------------------------------------------------------------------------

JobStep ==
  \/ JobRuns
  \/ \E s \in JobStatuses : JobChanges(s)
  \/ PodLost \/ PodAges \/ JobDeleted \/ Preempted
  \/ \E e \in Endpoints : ServerDies(e)

ClientStep(c) == AskWrite(c) \/ \E want \in SUBSET Endpoints : AskRead(c, want)

ResetStep(w) ==
  \/ Fetches(w) \/ WatchEnds(w) \/ SubmitWaits(w)
  \/ ResetBegins(w) \/ UpdateWrites(w) \/ Resubmitted(w)
  \/ \E e \in Endpoints : ResetOne(w, e)
  \/ \E p \in Places, servers \in SUBSET Ssh : Submitted(w, p, servers)

RoundStep ==
  \/ RoundBegins \/ StartEnds \/ FixEnds
  \/ UpdateWrites(Manager)
  \/ \E e \in Endpoints :
       \/ StartSkipped(e) \/ StartSeen(e) \/ StartServer(e) \/ StartPort(e)
       \/ FixKept(e) \/ FixReset(e) \/ Clean(e)

Mishap ==
  \/ OneFails \/ ListFails \/ ManagerDies
  \/ \E w \in Writers : ReadFails(w)
  \/ \E w \in Resetters : ResetUnread(w) \/ SubmitFails(w) \/ ResetterDies(w)
  \/ \E c \in Clients : AskFails(c)
  \/ \E e \in Endpoints : CheckFails(e) \/ DeleteFails(e)

Next ==
  \/ JobStep \/ RoundStep \/ Mishap
  \/ \E w \in Resetters : ResetStep(w)
  \/ \E c \in Clients : ClientStep(c)

Spec == Init /\ [][Next]_vars

\* The endpoint manager's loop goes on. Jobs, pods, users, requests, watches
\* and submissions are under no obligation.
Fairness == WF_vars(RoundStep)

FairSpec == Spec /\ Fairness

-----------------------------------------------------------------------------
(***************************************************************************)
(* Properties                                                              *)
(***************************************************************************)

\* An endpoint is shown as stopped only if the job was dead at some time:
\* rounds over old records, resets, submissions and stale requests never stop
\* an endpoint of a job that was queued, scheduling or running all along.
StoppedWasDead == \A e \in Endpoints : stored[e].st = "stopped" => wasDead

\* Why that is so: wherever a record is kept, it is stopped, or about to be,
\* only after the job was dead.
Alive(c) == \A e \in Endpoints : c[e].st # "stopped"

StoppingWasDead ==
  wasDead \/
    /\ job # "dead"
    /\ round.phase = "clean" => AllDone
    /\ Alive(stored) /\ Alive(round.recs)
    /\ \A c \in Clients : rest[c] # None => Alive(rest[c])
    /\ \A w \in Writers : edit[w] # None => Alive(edit[w].col)
    /\ \A w \in Resetters : Alive(reset[w].recs)

\* A pending endpoint of a running job with a pod is served: it does not stay
\* pending, over resets, submissions, stale records, failed calls and deaths.
Waiting(e) == stored[e].st = "pending" /\ job = "running" /\ pod # None

PendingServed == \A e \in Endpoints : []<>~Waiting(e)

\* A running endpoint does not lead to a place the pod has left or to a server
\* that is down: where the reset before a submission was not carried out, failed
\* or was undone by a stale writer, or a server died, the record is repaired
\* while the pod is younger than an hour. (A record that was written without
\* its node or port is never looked at again.)
Misplaced(e) ==
  /\ job = "running" /\ pod # None /\ ~old
  /\ stored[e].st = "running" /\ stored[e].port # None /\ stored[e].node # None
  /\ stored[e].node # pod \/ e \notin up

RecordFollowsPod == \A e \in Endpoints : []<>~Misplaced(e)

\* A dead job's running endpoints are closed, in the column and in Kubernetes,
\* over failed calls and deaths, if the NodePort can be deleted: unless another
\* writer sets the record to pending or drops it, after which its NodePort is
\* left alone.
DeadEndpointsClosed ==
  \A e \in Endpoints :
    job = "dead" /\ stored[e].st = "running" ~>
      \/ job # "dead" \/ e \in leaked
      \/ stored[e].st = "stopped" /\ e \notin svc
      \/ stored[e].st \in {"pending", "absent"}
=============================================================================
