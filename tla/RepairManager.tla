--------------------------- MODULE RepairManager ---------------------------
(***************************************************************************)
(* The repair manager: a loop of two rules over the nodes on which         *)
(* Prometheus reports uncorrectable ECC errors. The first cordons new ones *)
(* and stores them in the rule cache (ecc_detect_error_rule.py). The       *)
(* second uncordons those that have booted since, moves the jobs off those *)
(* that have waited long enough, and asks for the reboot of those without  *)
(* jobs through a key in etcd (ecc_reboot_node_rule.py), which an agent on *)
(* the node takes (RepairManagerAgent).                                    *)
(*                                                                         *)
(* Time is kept by counting boots: the time at which an error was found is *)
(* the count of the node's boots then, and a later boot has a higher one.  *)
(* The cache is its dump: every change writes it, and a restart reads it.  *)
(* Abstracted: mails but for their failures; dry runs (cordon and reboot   *)
(* are enabled); jobs on several nodes; a torn dump. A job leads the life  *)
(* of JobLifecycle, of which the manager sees the status and the pods.     *)
(***************************************************************************)
EXTENDS Naturals, FiniteSets

CONSTANTS
  Nodes, Jobs,
  Wide,       \* the jobs that may have several pods, on the same node
  None,       \* no node, no job, no entry, no sample of a boot
  MaxErrors,  \* bound: ECC errors, and boots that the series of errors misses
  MaxMishaps  \* bound: failed calls, lost answers, deaths, crashes of nodes,
              \* jobs that their users resume

ASSUME RepairAssumption ==
  /\ Wide \subseteq Jobs /\ None \notin Nodes \cup Jobs
  /\ MaxErrors \in Nat /\ MaxMishaps \in Nat

VARIABLES
  ecc,        \* the nodes with an uncorrectable error
  up,         \* the nodes that run
  boots,      \* per node: how often it has booted
  seen,       \* Prometheus: the last samples of a node
  cordoned,   \* Kubernetes: the nodes that get no pods
  job, place, \* per job: status, and the node of its pods
  cache,      \* rule cache: the entry of a node
  key,        \* etcd: the nodes with a reboot key
  agent,      \* the nodes whose agent has taken the key and will reboot
  mgr,        \* the manager
  cordonedAt, \* history: the boots of a node when it was cordoned
  lapse,      \* history: a cordon failed, or a request may be left over
  stranded,   \* history: a node was given up with its cordon in place
  errors, mishaps  \* what is used of the bounds

node == <<ecc, up, boots>>
jobs == <<job, place>>
hist == <<cordonedAt, lapse, stranded>>
vars == <<node, seen, cordoned, jobs, cache, key, agent, mgr, hist,
          errors, mishaps>>

(***************************************************************************)
(* Values                                                                  *)
(***************************************************************************)

JobStatuses == {"queued", "running", "pausing", "paused", "over"}

\* Two series, of two exporters: the last sample of one may be older than that
\* of the other. No sample of errors is as good as one without an error.
Sample == [ecc : BOOLEAN, boot : Nat \cup {None}]

\* found: time_found; due: the configured days have passed since; asked:
\* reboot_requested is set.
Entry == [found : Nat, due : BOOLEAN, asked : BOOLEAN]

ASSUME NoEntryAssumption == None \notin Entry \cup Nat

\* The step in a rule; the nodes a loop has to do, and those of the rule
\* (new_bad_nodes or nodes_ready_for_action); the nodes each job is to leave
\* (jobs_ready_for_migration); the node or job being worked on.
Manager == [pc : {"detect", "cordon", "alert", "store", "resolve", "uncordon",
                  "resolved", "check", "migrate", "wait", "resume", "reboot",
                  "record"},
            todo : SUBSET Nodes, picked : SUBSET Nodes,
            leaves : [Jobs -> SUBSET Nodes], cur : Nodes \cup {None},
            moving : Jobs \cup {None}]

TypeOK ==
  /\ ecc \subseteq Nodes /\ up \subseteq Nodes /\ boots \in [Nodes -> Nat]
  /\ seen \in [Nodes -> Sample]
  /\ cordoned \subseteq Nodes
  /\ job \in [Jobs -> JobStatuses] /\ place \in [Jobs -> Nodes \cup {None}]
  /\ cache \in [Nodes -> Entry \cup {None}]
  /\ key \subseteq Nodes /\ agent \subseteq Nodes
  /\ mgr \in Manager
  /\ cordonedAt \in [Nodes -> Nat] /\ lapse \in BOOLEAN /\ stranded \in BOOLEAN
  /\ errors \in Nat /\ mishaps \in Nat

Stays == [j \in Jobs |-> {}]

At(pc) == [pc |-> pc, todo |-> {}, picked |-> {}, leaves |-> Stays,
           cur |-> None, moving |-> None]

Init ==
  /\ ecc = {} /\ up = Nodes /\ boots = [n \in Nodes |-> 1]
  /\ seen = [n \in Nodes |-> [ecc |-> FALSE, boot |-> 1]]
  /\ cordoned = {}
  /\ job = [j \in Jobs |-> "queued"] /\ place = [j \in Jobs |-> None]
  /\ cache = [n \in Nodes |-> None]
  /\ key = {} /\ agent = {}
  /\ mgr = At("detect")
  /\ cordonedAt = [n \in Nodes |-> 0] /\ lapse = FALSE /\ stranded = FALSE
  /\ errors = 0 /\ mishaps = 0

Cached == {n \in Nodes : cache[n] # None}

Mishap == mishaps < MaxMishaps /\ mishaps' = mishaps + 1

-----------------------------------------------------------------------------
(***************************************************************************)
(* Nodes, Prometheus and jobs                                              *)
(***************************************************************************)

ErrorStrikes(n) ==
  /\ errors < MaxErrors /\ n \in up \ ecc
  /\ ecc' = ecc \cup {n} /\ errors' = errors + 1
  /\ UNCHANGED <<up, boots, seen, cordoned, jobs, cache, key, agent, mgr, hist,
                 mishaps>>

\* Its pods stay listed until they are evicted.
Down(n) == up' = up \ {n}

\* By itself, or an administrator reboots it: a request may be left over.
NodeCrashes(n) ==
  /\ Mishap /\ n \in up
  /\ Down(n)
  /\ agent' = agent \ {n}
  /\ lapse' = (lapse \/ seen[n].ecc \/ n \in ecc \cup cordoned \cup mgr.picked)
  /\ stranded' = (stranded \/ (n \in ecc \cup cordoned /\ cache[n] = None))
  /\ UNCHANGED <<ecc, boots, seen, cordoned, jobs, cache, key, mgr, cordonedAt,
                 errors>>

\* An error that is still shown, of before the boot, is used up as a new one.
NodeBoots(n) ==
  /\ n \notin up
  /\ up' = up \cup {n} /\ ecc' = ecc \ {n}
  /\ boots' = [boots EXCEPT ![n] = @ + 1]
  /\ IF seen[n].ecc THEN errors < MaxErrors /\ errors' = errors + 1
     ELSE UNCHANGED errors
  /\ UNCHANGED <<seen, cordoned, jobs, cache, key, agent, mgr, hist, mishaps>>

\* A node that does not answer has no sample.
ScrapedErrors(n) ==
  /\ seen' = [seen EXCEPT ![n].ecc = n \in ecc \cap up]
  /\ seen' # seen
  /\ UNCHANGED <<node, cordoned, jobs, cache, key, agent, mgr, hist, errors,
                 mishaps>>

ScrapedBoot(n) ==
  /\ seen' = [seen EXCEPT ![n].boot = IF n \in up THEN boots[n] ELSE None]
  /\ seen' # seen
  /\ UNCHANGED <<node, cordoned, jobs, cache, key, agent, mgr, hist, errors,
                 mishaps>>

JobMoves(j, st, n) ==
  /\ job' = [job EXCEPT ![j] = st] /\ place' = [place EXCEPT ![j] = n]
  /\ UNCHANGED <<node, seen, cordoned, cache, key, agent, mgr, hist, errors>>

JobPlaced(j, n) ==
  /\ job[j] = "queued" /\ n \in up \ cordoned
  /\ JobMoves(j, "running", n) /\ UNCHANGED mishaps

JobPaused(j)  ==
  job[j] = "pausing" /\ JobMoves(j, "paused", None) /\ UNCHANGED mishaps

\* By its user.
JobResumed(j) == job[j] = "paused" /\ JobMoves(j, "queued", None) /\ Mishap

JobEnds(j) ==
  job[j] = "running" /\ JobMoves(j, "over", None) /\ UNCHANGED mishaps

\* The pods are evicted, as those of a node that is down are in the end, and
\* later the job that has lost them is queued anew.
PodsGone(j) ==
  place[j] # None /\ JobMoves(j, job[j], None) /\ UNCHANGED mishaps

JobRequeued(j) ==
  /\ job[j] = "running" /\ place[j] = None
  /\ JobMoves(j, "queued", None) /\ UNCHANGED mishaps

-----------------------------------------------------------------------------
(***************************************************************************)
(* EccDetectErrorRule                                                      *)
(***************************************************************************)

Env == <<node, seen, jobs, agent, errors>>

DetectUncordoned ==
  LET new == {n \in (Nodes \ Cached) \ cordoned : seen[n].ecc}
  IN  /\ mgr.pc = "detect"
      /\ mgr' = IF new = {} THEN At("resolve")
                ELSE [At("cordon") EXCEPT !.todo = new, !.picked = new]
      /\ UNCHANGED <<Env, cordoned, cache, key, hist, mishaps>>

Detect ==
  LET new == {n \in Nodes \ Cached : seen[n].ecc}
  IN  /\ mgr.pc = "detect"
      /\ mgr' = IF new = {} THEN At("resolve")
                ELSE [At("cordon") EXCEPT !.todo = new, !.picked = new]
      /\ UNCHANGED <<Env, cordoned, cache, key, hist, mishaps>>

\* A loop over nodes: one of todo, and then the next step of the rule.
Loop(pc, n) == mgr.pc = pc /\ n \in mgr.todo

NextOf(n, pc) ==
  mgr' = IF mgr.todo = {n} THEN pc
         ELSE [mgr EXCEPT !.todo = @ \ {n}, !.cur = None]

Alert == [At("alert") EXCEPT !.todo = mgr.picked, !.picked = mgr.picked]

CordonOne(n) ==
  /\ Loop("cordon", n)
  /\ cordoned' = cordoned \cup {n}
  /\ cordonedAt' = [cordonedAt EXCEPT ![n] = boots[n]]
  /\ NextOf(n, Alert)
  /\ UNCHANGED <<Env, cache, key, lapse, stranded, mishaps>>

\* Its outcome is only reported.
CordonFails(n) ==
  /\ Loop("cordon", n) /\ Mishap
  /\ lapse' = TRUE
  /\ NextOf(n, Alert)
  /\ UNCHANGED <<Env, cordoned, cache, key, cordonedAt, stranded>>

Alerted ==
  /\ mgr.pc = "alert"
  /\ mgr' = [mgr EXCEPT !.pc = "store"]
  /\ UNCHANGED <<Env, cordoned, cache, key, hist, mishaps>>

StoreOne(n) ==
  /\ Loop("store", n)
  /\ cache' = [cache EXCEPT ![n] =
                 [found |-> boots[n], due |-> FALSE, asked |-> FALSE]]
  /\ NextOf(n, At("resolve"))
  /\ UNCHANGED <<Env, cordoned, key, hist, mishaps>>

-----------------------------------------------------------------------------
(***************************************************************************)
(* EccRebootNodeRule: check_status                                         *)
(***************************************************************************)

\* The configured days have passed since the error was found.
TimePasses(n) ==
  /\ n \in Cached /\ ~cache[n].due
  /\ cache' = [cache EXCEPT ![n].due = TRUE]
  /\ UNCHANGED <<Env, cordoned, key, mgr, hist, mishaps>>

HasBootedAtLeast(n) == seen[n].boot # None /\ seen[n].boot >= cache[n].found

HasBooted(n) == seen[n].boot # None /\ seen[n].boot > cache[n].found

\* A node whose boot has no sample ends the loop: those behind it are not looked at.
Resolve ==
  /\ mgr.pc = "resolve"
  /\ \E todo \in SUBSET {n \in Cached : HasBooted(n)} :
       /\ \/ todo = {n \in Cached : HasBooted(n)}
          \/ \E n \in Cached : seen[n].boot = None
       /\ mgr' = IF todo = {} THEN At("check")
                 ELSE [At("uncordon") EXCEPT !.todo = todo]
  /\ UNCHANGED <<Env, cordoned, cache, key, hist, mishaps>>

UncordonOne(n) ==
  /\ Loop("uncordon", n)
  /\ cordoned' = cordoned \ {n}
  /\ mgr' = [mgr EXCEPT !.pc = "resolved", !.cur = n]
  /\ UNCHANGED <<Env, cache, key, hist, mishaps>>

\* Its outcome is only reported: the node leaves the cache all the same.
UncordonFails(n) ==
  /\ Loop("uncordon", n) /\ Mishap
  /\ stranded' = TRUE
  /\ mgr' = [mgr EXCEPT !.pc = "resolved", !.cur = n]
  /\ UNCHANGED <<Env, cordoned, cache, key, cordonedAt, lapse>>

Uncordon == [mgr EXCEPT !.pc = "uncordon", !.todo = @ \ {mgr.cur}, !.cur = None]

Resolved ==
  /\ mgr.pc = "resolved"
  /\ cache' = [cache EXCEPT ![mgr.cur] = None]
  /\ mgr' = IF mgr.todo = {mgr.cur} THEN At("check") ELSE Uncordon
  /\ UNCHANGED <<Env, cordoned, key, hist, mishaps>>

Pods(n) == {j \in Jobs : place[j] = n}

FreeAsked == {n \in Cached : Pods(n) = {}}

Free == {n \in Cached : Pods(n) = {} /\ ~cache[n].asked}

Due  == {n \in Cached : cache[n].due /\ ~cache[n].asked}

Check ==
  /\ mgr.pc = "check"
  /\ mgr' = IF Free \cup Due = {} THEN At("detect")
            ELSE [At("migrate") EXCEPT !.picked = Free \cup Due,
                    !.leaves = [j \in Jobs |-> Due \cap {place[j]}]]
  /\ UNCHANGED <<Env, cordoned, cache, key, hist, mishaps>>

-----------------------------------------------------------------------------
(***************************************************************************)
(* EccRebootNodeRule: migrate_jobs_and_alert_job_owners. The pause of a    *)
(* job, the wait for it and its resumption; each may fail, and then the    *)
(* nodes of the job are left for a later pass. A node that is removed      *)
(* twice raises a KeyError, which ends the rule.                           *)
(***************************************************************************)

Pausable == {"queued", "running"}

Others == <<node, seen, place, agent, errors, cordoned, cache, key, hist>>

MigrationEnds(j) ==
  mgr' = [mgr EXCEPT !.pc = "migrate", !.moving = None, !.leaves[j] = {}]

MigrationFails(j) ==
  \/ /\ mgr.leaves[j] \subseteq mgr.picked
     /\ mgr' = [mgr EXCEPT !.pc = "migrate", !.moving = None, !.leaves[j] = {},
                  !.picked = @ \ mgr.leaves[j]]
  \/ /\ j \in Wide \/ ~(mgr.leaves[j] \subseteq mgr.picked)
     /\ mgr' = At("detect")

ToPause(j) == mgr.pc = "migrate" /\ mgr.leaves[j] # {}

Pause(j) ==
  /\ ToPause(j) /\ job[j] \in Pausable
  /\ job' = [job EXCEPT ![j] = "pausing"]
  /\ mgr' = [mgr EXCEPT !.pc = "wait", !.moving = j]
  /\ UNCHANGED <<Others, mishaps>>

PauseRefused(j) ==
  /\ ToPause(j) /\ job[j] \notin Pausable
  /\ MigrationFails(j)
  /\ UNCHANGED <<Others, job, mishaps>>

\* No attempt succeeds: without an effect, or the answer to the first that had
\* one is lost, and the retries are refused.
PauseFails(j) ==
  /\ ToPause(j) /\ job[j] \in Pausable /\ Mishap
  /\ job' \in {job, [job EXCEPT ![j] = "pausing"]}
  /\ MigrationFails(j)
  /\ UNCHANGED Others

Waited(j) ==
  /\ mgr.pc = "wait" /\ mgr.moving = j /\ job[j] = "paused"
  /\ mgr' = [mgr EXCEPT !.pc = "resume"]
  /\ UNCHANGED <<Others, job, mishaps>>

\* After the last attempt; the job may be paused later, and stays so.
GivesUp(j) ==
  /\ mgr.pc = "wait" /\ mgr.moving = j /\ job[j] # "paused"
  /\ MigrationFails(j)
  /\ UNCHANGED <<Others, job, mishaps>>

Resume(j) ==
  /\ mgr.pc = "resume" /\ mgr.moving = j /\ job[j] = "paused"
  /\ job' = [job EXCEPT ![j] = "queued"]
  /\ MigrationEnds(j)
  /\ UNCHANGED <<Others, mishaps>>

\* As with a pause.
ResumeFails(j) ==
  /\ mgr.pc = "resume" /\ mgr.moving = j /\ job[j] = "paused" /\ Mishap
  /\ job' \in {job, [job EXCEPT ![j] = "queued"]}
  /\ MigrationFails(j)
  /\ UNCHANGED Others

ResumeRefused(j) ==
  /\ mgr.pc = "resume" /\ mgr.moving = j /\ job[j] # "paused"
  /\ MigrationFails(j)
  /\ UNCHANGED <<Others, job, mishaps>>

Migrated ==
  /\ mgr.pc = "migrate" /\ mgr.leaves = Stays
  /\ mgr' = IF mgr.picked = {} THEN At("detect")
            ELSE [At("reboot") EXCEPT !.todo = mgr.picked]
  /\ UNCHANGED <<Others, job, mishaps>>

-----------------------------------------------------------------------------
(***************************************************************************)
(* EccRebootNodeRule: reboot_bad_nodes                                     *)
(***************************************************************************)

Put(n) ==
  /\ Loop("reboot", n)
  /\ key' = key \cup {n}
  /\ mgr' = [mgr EXCEPT !.pc = "record", !.cur = n]
  /\ UNCHANGED <<Env, cordoned, cache, hist, mishaps>>

PutFails(n) ==
  /\ Loop("reboot", n) /\ Mishap
  /\ NextOf(n, At("detect"))
  /\ UNCHANGED <<Env, cordoned, cache, key, hist>>

\* The key is set, the manager does not know: it will set it again.
PutUnanswered(n) ==
  /\ Loop("reboot", n) /\ Mishap
  /\ key' = key \cup {n} /\ lapse' = TRUE
  /\ NextOf(n, At("detect"))
  /\ UNCHANGED <<Env, cordoned, cache, cordonedAt, stranded>>

RecordOnly ==
  /\ mgr.pc = "record"
  /\ cache' = [cache EXCEPT ![mgr.cur] = [asked |-> TRUE]]
  /\ mgr' = IF mgr.todo = {mgr.cur} THEN At("detect")
            ELSE [mgr EXCEPT !.pc = "reboot", !.todo = @ \ {mgr.cur}, !.cur = None]
  /\ UNCHANGED <<Env, cordoned, key, hist, mishaps>>

Record ==
  /\ mgr.pc = "record"
  /\ cache' = [cache EXCEPT ![mgr.cur].asked = TRUE]
  /\ mgr' = IF mgr.todo = {mgr.cur} THEN At("detect")
            ELSE [mgr EXCEPT !.pc = "reboot", !.todo = @ \ {mgr.cur}, !.cur = None]
  /\ UNCHANGED <<Env, cordoned, key, hist, mishaps>>

\* Cordoned on a sample that had been overtaken by a boot, and not stored.
Forgotten == cordoned \ (Cached \cup ecc)

\* A query, a call of Kubernetes or a mail raises: the rule ends there.
RuleFails ==
  /\ Mishap
  /\ \/ mgr.pc \in {"detect", "alert"} /\ mgr' = At("resolve")
     \/ mgr.pc = "resolve" /\ mgr' = At("check")
     \/ mgr.pc \in {"check", "migrate"} /\ mgr' = At("detect")
  /\ stranded' = (stranded \/ Forgotten # {})
  /\ UNCHANGED <<Env, cordoned, cache, key, cordonedAt, lapse>>

\* The process dies and begins anew with what it has dumped.
ManagerDies ==
  /\ Mishap
  /\ mgr' = At("detect")
  /\ lapse' = (lapse \/ mgr.pc = "record")
  /\ stranded' = (stranded \/ Forgotten # {})
  /\ UNCHANGED <<Env, cordoned, cache, key, cordonedAt>>

-----------------------------------------------------------------------------
(***************************************************************************)
(* RepairManagerAgent: the key is deleted before the reboot.               *)
(***************************************************************************)

AgentTakes(n) ==
  /\ n \in (key \cap up) \ agent
  /\ key' = key \ {n} /\ agent' = agent \cup {n}
  /\ UNCHANGED <<node, seen, cordoned, jobs, cache, mgr, hist, errors, mishaps>>

\* The deletion fails, and the agent goes on.
KeyKept(n) ==
  /\ n \in (key \cap up) \ agent /\ Mishap
  /\ agent' = agent \cup {n} /\ lapse' = TRUE
  /\ UNCHANGED <<node, seen, cordoned, jobs, cache, key, mgr, cordonedAt,
                 stranded, errors>>

AgentReboots(n) ==
  /\ n \in agent
  /\ Down(n)
  /\ agent' = agent \ {n}
  /\ UNCHANGED <<ecc, boots, seen, cordoned, jobs, cache, key, mgr, hist, errors,
                 mishaps>>

\* After the deletion: nobody asks for this reboot again.
AgentDies(n) ==
  /\ n \in agent /\ Mishap
  /\ agent' = agent \ {n}
  /\ stranded' = TRUE
  /\ UNCHANGED <<node, seen, cordoned, jobs, cache, key, mgr, cordonedAt, lapse,
                 errors>>

-----------------------------------------------------------------------------

DetectRule ==
  \/ Detect \/ Alerted
  \/ \E n \in Nodes : CordonOne(n) \/ CordonFails(n) \/ StoreOne(n)

RebootRule ==
  \/ Resolve \/ Resolved \/ Check \/ Migrated \/ Record
  \/ \E n \in Nodes : \/ UncordonOne(n) \/ UncordonFails(n)
                      \/ Put(n) \/ PutFails(n) \/ PutUnanswered(n)
  \/ \E j \in Jobs : \/ Pause(j) \/ PauseRefused(j) \/ PauseFails(j)
                     \/ Waited(j) \/ GivesUp(j)
                     \/ Resume(j) \/ ResumeFails(j) \/ ResumeRefused(j)

ManagerStep == DetectRule \/ RebootRule \/ RuleFails

AgentStep(n) == AgentTakes(n) \/ KeyKept(n) \/ AgentReboots(n) \/ AgentDies(n)

JobStep(j) ==
  \/ \E n \in Nodes : JobPlaced(j, n)
  \/ JobPaused(j) \/ JobResumed(j) \/ JobEnds(j) \/ PodsGone(j) \/ JobRequeued(j)

NodeStep(n) ==
  \/ ErrorStrikes(n) \/ NodeCrashes(n) \/ NodeBoots(n)
  \/ ScrapedErrors(n) \/ ScrapedBoot(n) \/ TimePasses(n)

Next ==
  \/ ManagerStep \/ ManagerDies
  \/ \E n \in Nodes : AgentStep(n) \/ NodeStep(n)
  \/ \E j \in Jobs : JobStep(j)

Spec == Init /\ [][Next]_vars

\* The loops of the manager and of the agents go on, nodes boot again and are
\* scraped, days pass, and a pause that was asked for is carried out.
FairSpec ==
  /\ Spec
  /\ WF_vars(ManagerStep)
  /\ \A n \in Nodes : /\ WF_vars(AgentStep(n)) /\ WF_vars(NodeBoots(n))
                      /\ WF_vars(ScrapedErrors(n)) /\ WF_vars(ScrapedBoot(n))
                      /\ WF_vars(TimePasses(n))
  /\ \A j \in Jobs : WF_vars(JobPaused(j))

-----------------------------------------------------------------------------
(***************************************************************************)
(* Properties                                                              *)
(***************************************************************************)

\* No node is rebooted by its agent under a job, unless a cordon had failed or
\* a reboot key was left over from an earlier request: the jobs that were seen
\* on it are gone when the key is set, and none come before it is uncordoned
\* (check_for_nodes_with_no_jobs, migrate_jobs_and_alert_job_owners).
NoJobRebooted ==
  [][\A n \in Nodes : ~lapse /\ AgentReboots(n) => Pods(n) = {}]_vars

\* The manager uncordons a node only if it has booted since it was cordoned,
\* with restarts and stale samples (check_for_rebooted_nodes_and_uncordon:
\* "if node has been rebooted since ecc error initially detected").
UncordonNeedsBoot ==
  [][\A n \in cordoned \ cordoned' : boots[n] > cordonedAt[n]]_vars

\* A node that was cordoned is in the end uncordoned, over failed calls, dead
\* samples, slow pauses and restarts, unless an uncordon failed, an agent died
\* with its key deleted, or the node crashed before it was in the cache.
NodesComeBack ==
  \A n \in Nodes : n \in cordoned ~> (n \notin cordoned \/ stranded)

=============================================================================
