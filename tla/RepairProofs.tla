---------------------------- MODULE RepairProofs ----------------------------
(* Theorems about RepairManager, for any nodes, jobs and bounds. *)
EXTENDS RepairManager, TLAPS

-----------------------------------------------------------------------------
(* The inductive invariant *)

\* Prometheus never knows of a boot that has not been; a node is cordoned
\* before its error is stored.
Known ==
  \A n \in Nodes :
    /\ seen[n].boot # None => seen[n].boot <= boots[n]
    /\ cordonedAt[n] <= boots[n]
    /\ cache[n] # None => cordonedAt[n] <= cache[n].found

\* What the manager remembers within a rule is still so.
Held ==
  /\ mgr.pc = "cordon" => mgr.todo \cap Cached = {}
  /\ mgr.pc \in {"migrate", "wait", "resume"} => mgr.picked \subseteq Cached
  /\ mgr.pc \in {"reboot", "record"} => mgr.todo \subseteq Cached
  /\ mgr.pc \in {"record", "resolved"} => mgr.cur \in mgr.todo
  /\ mgr.pc \in {"uncordon", "resolved"} =>
       \A n \in mgr.todo : n \in Cached /\ boots[n] > cache[n].found

\* Only a job that runs or is being paused has pods.
Unplaced == \A j \in Jobs : job[j] \in {"queued", "paused", "over"} => place[j] = None

\* The reboot of the node has been asked for, if only just.
Asked(n) == cache[n].asked \/ (mgr.pc = "record" /\ mgr.cur = n)

\* The node is as it was when its error was stored.
Kept(n) == n \in Cached /\ n \in cordoned /\ n \in up /\ boots[n] <= cache[n].found

\* A key in etcd, or in the hands of an agent, is for a node that is kept and
\* has no pods; a node that waits for its key is kept.
KeysSafe ==
  /\ key \cap agent = {}
  /\ \A n \in key \cup agent : Kept(n) /\ Asked(n) /\ Pods(n) = {}

WaitingKept ==
  \A n \in Cached : ~Asked(n) => Kept(n) /\ n \notin key \cup agent

\* The nodes that the second rule has chosen: every job on one is still to be
\* moved, or none is on it.
ChosenSafe ==
  /\ mgr.pc \in {"migrate", "wait", "resume"} =>
       \A n \in mgr.picked : ~cache[n].asked /\ \A j \in Pods(n) : n \in mgr.leaves[j]
  /\ mgr.pc \in {"reboot", "record"} =>
       \A n \in mgr.todo : ~cache[n].asked /\ (Asked(n) \/ Pods(n) = {})

\* The nodes that the first rule has found.
FoundSafe ==
  /\ mgr.pc = "cordon" =>
       /\ mgr.picked \cap Cached = {} /\ mgr.picked \subseteq up
       /\ mgr.todo \subseteq mgr.picked
       /\ mgr.picked \ mgr.todo \subseteq cordoned
  /\ mgr.pc \in {"alert", "store"} =>
       mgr.todo \cap Cached = {} /\ mgr.todo \subseteq up \cap cordoned

\* A node that is shown with an error runs, unless the error is in the cache
\* and the node has not booted since: its sample may be old, but it has been
\* up ever since its last boot.
SeenUp ==
  \A n \in Nodes :
    seen[n].ecc /\ (n \in Cached => boots[n] > cache[n].found) => n \in up

Sane == KeysSafe /\ WaitingKept /\ ChosenSafe /\ FoundSafe /\ SeenUp

Safe == Unplaced /\ (~lapse => Sane)

RInv == TypeOK /\ Known /\ Held

-----------------------------------------------------------------------------
(* Types and what the manager remembers *)

\* The steps of a rule, and what a loop goes on with.
LEMMA AtType ==
  ASSUME NEW pc \in {"detect", "cordon", "alert", "resolve", "uncordon",
                     "check", "migrate", "reboot"}
  PROVE  At(pc) \in Manager
BY DEF At, Manager, Stays

LEMMA EntryFields ==
  ASSUME TypeOK, NEW n \in Cached
  PROVE  /\ cache[n] \in Entry /\ cache[n].found \in Nat
         /\ cache[n].due \in BOOLEAN /\ cache[n].asked \in BOOLEAN
BY DEF TypeOK, Cached, Entry

\* RInv is kept by nodes, Prometheus and agents.
LEMMA NodeKeeps ==
  ASSUME RInv, NEW n \in Nodes, NodeStep(n) \/ AgentStep(n)
  PROVE  RInv'
<1> USE RepairAssumption DEF RInv, TypeOK, Known, Held, Cached
<1>1. CASE ErrorStrikes(n)
  BY <1>1 DEF ErrorStrikes, jobs, hist
<1>2. CASE NodeCrashes(n)
  BY <1>2 DEF NodeCrashes, Down, jobs, Mishap
<1>3. CASE NodeBoots(n)
  <2>1. /\ boots' \in [Nodes -> Nat] /\ \A m \in Nodes : boots'[m] >= boots[m]
        /\ up' \subseteq Nodes /\ ecc' \subseteq Nodes /\ errors' \in Nat
    BY <1>3 DEF NodeBoots
  <2>2. UNCHANGED <<seen, cordoned, job, place, cache, key, agent, mgr,
                    cordonedAt, lapse, stranded, mishaps>>
    BY <1>3 DEF NodeBoots, jobs, hist
  <2>3. TypeOK'
    BY <2>1, <2>2
  <2>4. \A m \in Nodes : seen[m].boot # None => seen[m].boot \in Nat
    BY DEF Sample
  <2>5. Known'
    BY <2>1, <2>2, <2>4
  <2>6. Held'
    BY <2>1, <2>2, EntryFields DEF Manager
  <2>7. QED
    BY <2>3, <2>5, <2>6
<1>4. CASE ScrapedErrors(n) \/ ScrapedBoot(n)
  <2>1. seen' \in [Nodes -> Sample]
    <3>1. seen[n] \in Sample
      OBVIOUS
    <3>2. [seen[n] EXCEPT !.boot = IF n \in up THEN boots[n] ELSE None] \in Sample
      BY <3>1 DEF Sample
    <3>3. (n \in ecc \cap up) \in BOOLEAN
      OBVIOUS
    <3>4. [seen[n] EXCEPT !.ecc = n \in ecc \cap up] \in Sample
      BY <3>1, <3>3, Zenon DEF Sample
    <3>5. QED
      BY <1>4, <3>2, <3>4 DEF ScrapedErrors, ScrapedBoot
  <2>2. \A m \in Nodes : seen'[m].boot \in {seen[m].boot, boots[m], None}
    BY <1>4 DEF ScrapedErrors, ScrapedBoot, Sample
  <2>3. UNCHANGED <<ecc, up, boots, cordoned, job, place, cache, key, agent, mgr,
                    cordonedAt, lapse, stranded, errors, mishaps>>
    BY <1>4 DEF ScrapedErrors, ScrapedBoot, node, jobs, hist
  <2>4. TypeOK'
    BY <2>1, <2>3
  <2>5. Known'
    BY <2>2, <2>3
  <2>6. Held'
    BY <2>3
  <2>7. QED
    BY <2>4, <2>5, <2>6
<1>5. CASE TimePasses(n)
  <2>1. cache[n] \in Entry
    BY <1>5 DEF TimePasses
  <2> DEFINE due == [cache[n] EXCEPT !.due = TRUE]
  <2>2. due \in Entry /\ due # None /\ due.found = cache[n].found
    BY <2>1, NoEntryAssumption DEF Entry
  <2>3. cache' = [cache EXCEPT ![n] = due]
    BY <1>5 DEF TimePasses
  <2> HIDE DEF due
  <2>4. UNCHANGED <<ecc, up, boots, seen, cordoned, job, place, key, agent, mgr,
                    cordonedAt, lapse, stranded, errors, mishaps>>
    BY <1>5 DEF TimePasses, Env, node, jobs, hist
  <2>5. \A m \in Nodes : /\ cache'[m] \in Entry \cup {None}
                         /\ cache'[m] # None <=> cache[m] # None
                         /\ cache'[m].found = cache[m].found
    BY <1>5, <2>2, <2>3 DEF TimePasses
  <2>6. TypeOK'
    BY <2>2, <2>3, <2>4
  <2>7. QED
    BY <2>4, <2>5, <2>6 DEF Manager
<1>6. CASE AgentTakes(n)
  BY <1>6 DEF AgentTakes, node, jobs, hist
<1>7. CASE KeyKept(n)
  BY <1>7 DEF KeyKept, node, jobs, Mishap
<1>8. CASE AgentReboots(n)
  BY <1>8 DEF AgentReboots, Down, jobs, hist
<1>9. CASE AgentDies(n)
  BY <1>9 DEF AgentDies, node, jobs, Mishap
<1>10. QED
  BY <1>1, <1>2, <1>3, <1>4, <1>5, <1>6, <1>7, <1>8, <1>9
  DEF NodeStep, AgentStep

\* RInv is kept by jobs.
LEMMA JobKeeps ==
  ASSUME RInv, NEW j \in Jobs, JobStep(j)
  PROVE  RInv'
<1> USE RepairAssumption DEF RInv, TypeOK, Known, Held, Cached
<1>1. ASSUME NEW st \in JobStatuses, NEW n \in Nodes \cup {None},
             JobMoves(j, st, n), mishaps' \in Nat
      PROVE  RInv'
  BY <1>1 DEF JobMoves, node, hist
<1>2. QED
  BY <1>1 DEF JobStep, JobPlaced, JobPaused, JobResumed, JobEnds, PodsGone,
              JobRequeued, Mishap, JobStatuses

LEMMA AtFields ==
  ASSUME NEW pc
  PROVE  /\ At(pc).pc = pc /\ At(pc).todo = {} /\ At(pc).picked = {}
         /\ At(pc).leaves = Stays /\ At(pc).cur = None
BY DEF At

\* A loop goes on with the other nodes, or as it is told.
LEMMA NextFields ==
  ASSUME TypeOK, NEW n \in Nodes, NEW next \in Manager, NextOf(n, next)
  PROVE  /\ mgr' \in Manager
         /\ \/ mgr' = next /\ mgr.todo = {n}
            \/ /\ mgr'.pc = mgr.pc /\ mgr'.todo = mgr.todo \ {n}
               /\ mgr'.picked = mgr.picked
BY DEF NextOf, TypeOK, Manager

LEMMA AlertFields ==
  ASSUME TypeOK
  PROVE  /\ Alert \in Manager /\ Alert.pc = "alert"
         /\ Alert.todo = mgr.picked /\ Alert.picked = mgr.picked
BY AtType, AtFields DEF Alert, TypeOK, Manager

\* RInv is kept by the first rule.
LEMMA DetectKeeps ==
  ASSUME RInv, DetectRule
  PROVE  RInv'
<1> USE RepairAssumption DEF RInv, TypeOK, Known, Held, Cached
<1>1. CASE Detect
  <2> DEFINE new == {n \in Nodes \ Cached : seen[n].ecc}
  <2>1. \/ mgr' = At("resolve")
        \/ mgr' = [At("cordon") EXCEPT !.todo = new, !.picked = new]
    BY <1>1 DEF Detect
  <2>2. /\ mgr' \in Manager /\ mgr'.pc \in {"resolve", "cordon"}
        /\ mgr'.todo \cap Cached = {}
    <3>1. new \subseteq Nodes /\ new \cap Cached = {}
      OBVIOUS
    <3> HIDE DEF new
    <3>2. CASE mgr' = At("resolve")
      BY <3>2, AtType, AtFields
    <3>3. CASE mgr' = [At("cordon") EXCEPT !.todo = new, !.picked = new]
      BY <3>1, <3>3, AtType, AtFields DEF Manager
    <3>4. QED
      BY <2>1, <3>2, <3>3
  <2> HIDE DEF new
  <2>3. QED
    BY <1>1, <2>2 DEF Detect, Env, node, jobs, hist
<1>2. CASE Alerted
  <2>1. mgr' \in Manager /\ mgr'.pc = "store"
    BY <1>2 DEF Alerted, Manager
  <2>2. QED
    BY <1>2, <2>1 DEF Alerted, Env, node, jobs, hist
<1>3. ASSUME NEW n \in Nodes, CordonOne(n) \/ CordonFails(n)
      PROVE  RInv'
  <2>1. /\ mgr.pc = "cordon" /\ n \in mgr.todo /\ NextOf(n, Alert)
    BY <1>3 DEF CordonOne, CordonFails, Loop
  <2>2. /\ mgr' \in Manager
        /\ \/ mgr'.pc = "alert"
           \/ mgr'.pc = "cordon" /\ mgr'.todo = mgr.todo \ {n}
    BY <2>1, AlertFields, NextFields
  <2>3. CASE CordonOne(n)
    BY <2>1, <2>2, <2>3 DEF CordonOne, Env, node, jobs
  <2>4. CASE CordonFails(n)
    BY <2>1, <2>2, <2>4 DEF CordonFails, Mishap, Env, node, jobs
  <2>5. QED
    BY <1>3, <2>3, <2>4
<1>4. ASSUME NEW n \in Nodes, StoreOne(n)
      PROVE  RInv'
  <2> DEFINE entry == [found |-> boots[n], due |-> FALSE, asked |-> FALSE]
  <2>1. mgr.pc = "store" /\ NextOf(n, At("resolve"))
    BY <1>4 DEF StoreOne, Loop
  <2>2. mgr' \in Manager /\ mgr'.pc \in {"resolve", "store"}
    BY <2>1, AtType, AtFields, NextFields
  <2>3. entry \in Entry
    BY DEF Entry
  <2>4. entry # None /\ entry.found = boots[n]
    BY <2>3, NoEntryAssumption
  <2>5. cache' = [cache EXCEPT ![n] = entry]
    BY <1>4 DEF StoreOne
  <2>6. UNCHANGED <<ecc, up, boots, seen, cordoned, job, place, key, agent,
                    cordonedAt, lapse, stranded, errors, mishaps>>
    BY <1>4 DEF StoreOne, Env, node, jobs, hist
  <2> HIDE DEF entry
  <2>7. TypeOK'
    BY <2>2, <2>3, <2>5, <2>6
  <2>8. QED
    BY <2>2, <2>4, <2>5, <2>6, <2>7
<1>5. QED
  BY <1>1, <1>2, <1>3, <1>4 DEF DetectRule

\* What becomes of a migration that fails.
LEMMA FailsFields ==
  ASSUME TypeOK, NEW j \in Jobs, MigrationFails(j)
  PROVE  /\ mgr' \in Manager
         /\ \/ mgr' = At("detect")
            \/ /\ mgr'.pc = "migrate" /\ mgr'.picked = mgr.picked \ mgr.leaves[j]
               /\ mgr'.leaves = [mgr.leaves EXCEPT ![j] = {}]
<1>1. mgr \in Manager /\ mgr.leaves[j] \subseteq Nodes
  BY DEF TypeOK, Manager
<1>2. CASE mgr' = At("detect")
  BY <1>2, AtType
<1>3. CASE mgr' = [mgr EXCEPT !.pc = "migrate", !.moving = None,
                     !.leaves[j] = {}, !.picked = @ \ mgr.leaves[j]]
  <2>1. /\ mgr'.pc = "migrate" /\ mgr'.picked = mgr.picked \ mgr.leaves[j]
        /\ mgr'.leaves = [mgr.leaves EXCEPT ![j] = {}]
        /\ mgr'.todo = mgr.todo /\ mgr'.cur = mgr.cur /\ mgr'.moving = None
    BY <1>1, <1>3 DEF Manager
  <2>2. mgr' \in Manager
    BY <1>1, <1>3, <2>1 DEF Manager
  <2>3. QED
    BY <2>1, <2>2
<1>4. QED
  BY <1>2, <1>3 DEF MigrationFails

LEMMA EndsFields ==
  ASSUME TypeOK, NEW j \in Jobs, MigrationEnds(j)
  PROVE  /\ mgr' \in Manager
         /\ mgr'.pc = "migrate" /\ mgr'.picked = mgr.picked
         /\ mgr'.leaves = [mgr.leaves EXCEPT ![j] = {}]
BY DEF MigrationEnds, TypeOK, Manager

\* RInv is kept by a migration.
LEMMA MigrationKeeps ==
  ASSUME RInv, NEW j \in Jobs,
         \/ Pause(j) \/ PauseRefused(j) \/ PauseFails(j)
         \/ Waited(j) \/ GivesUp(j) \/ Resume(j) \/ ResumeFails(j)
         \/ ResumeRefused(j)
  PROVE  RInv'
<1> USE RepairAssumption DEF RInv, TypeOK, Known, Held, Cached
<1>1. /\ mgr.pc \in {"migrate", "wait", "resume"}
      /\ UNCHANGED Others
      /\ mishaps' \in Nat /\ job' \in [Jobs -> JobStatuses]
  BY DEF Pause, PauseRefused, PauseFails, ToPause, Waited, GivesUp, Resume,
         ResumeFails, ResumeRefused, Mishap, JobStatuses
<1>2. /\ mgr' \in Manager
      /\ \/ mgr'.pc = "detect"
         \/ /\ mgr'.pc \in {"migrate", "wait", "resume"}
            /\ mgr'.picked \subseteq mgr.picked
  <2>1. ASSUME NEW pc \in {"wait", "resume"},
               \/ mgr' = [mgr EXCEPT !.pc = pc]
               \/ mgr' = [mgr EXCEPT !.pc = pc, !.moving = j]
        PROVE  /\ mgr' \in Manager /\ mgr'.pc = pc
               /\ mgr'.picked = mgr.picked
    <3>1. CASE mgr' = [mgr EXCEPT !.pc = pc]
      BY <3>1 DEF Manager
    <3>2. CASE mgr' = [mgr EXCEPT !.pc = pc, !.moving = j]
      BY <3>2 DEF Manager
    <3>3. QED
      BY <2>1, <3>1, <3>2
  <2>2. CASE MigrationFails(j)
    BY <2>2, FailsFields, AtFields
  <2>3. CASE Resume(j)
    BY <2>3, EndsFields DEF Resume
  <2>4. QED
    BY <2>1, <2>2, <2>3
    DEF Pause, Waited, PauseRefused, PauseFails, GivesUp,
        ResumeFails, ResumeRefused
<1>3. QED
  BY <1>1, <1>2 DEF Others, node, hist

\* A step that leaves one node behind it.
Drops(pc) == [mgr EXCEPT !.pc = pc, !.todo = @ \ {mgr.cur}, !.cur = None]

LEMMA DropsFields ==
  ASSUME TypeOK, NEW pc \in {"uncordon", "reboot"}
  PROVE  /\ Drops(pc) \in Manager /\ Drops(pc).pc = pc
         /\ Drops(pc).todo = mgr.todo \ {mgr.cur} /\ Drops(pc).cur = None
BY DEF Drops, TypeOK, Manager

\* A step that has done its call for a node.
LEMMA DoneFields ==
  ASSUME TypeOK, NEW n \in Nodes, NEW pc \in {"resolved", "record"},
         mgr' = [mgr EXCEPT !.pc = pc, !.cur = n]
  PROVE  mgr' \in Manager /\ mgr'.pc = pc /\ mgr'.todo = mgr.todo /\ mgr'.cur = n
BY DEF TypeOK, Manager

\* RInv is kept by the rest of the second rule.
LEMMA RebootKeeps ==
  ASSUME RInv, RebootRule
  PROVE  RInv'
<1> USE RepairAssumption DEF RInv, TypeOK, Known, Held, Cached
<1>1. CASE Resolve
  <2>1. PICK todo \in SUBSET {n \in Cached : HasBooted(n)} :
          mgr' = IF todo = {} THEN At("check")
                 ELSE [At("uncordon") EXCEPT !.todo = todo]
    BY <1>1 DEF Resolve
  <2>2. todo \subseteq Nodes /\ todo \subseteq Cached
    OBVIOUS
  <2>3. \A n \in todo : boots[n] > cache[n].found
    BY EntryFields DEF HasBooted, Sample
  <2>4. CASE mgr' = At("check")
    BY <1>1, <2>4, AtType, AtFields DEF Resolve, Env, node, jobs, hist
  <2>5. CASE mgr' = [At("uncordon") EXCEPT !.todo = todo]
    <3>1. mgr' \in Manager /\ mgr'.pc = "uncordon" /\ mgr'.todo = todo
      BY <2>2, <2>5, AtType, AtFields DEF Manager
    <3>2. QED
      BY <1>1, <2>2, <2>3, <3>1 DEF Resolve, Env, node, jobs, hist
  <2>6. QED
    BY <2>1, <2>4, <2>5
<1>2. ASSUME NEW n \in Nodes, UncordonOne(n) \/ UncordonFails(n)
      PROVE  RInv'
  <2>1. /\ mgr.pc = "uncordon" /\ n \in mgr.todo
        /\ mgr' = [mgr EXCEPT !.pc = "resolved", !.cur = n]
    BY <1>2 DEF UncordonOne, UncordonFails, Loop
  <2>2. /\ mgr' \in Manager /\ mgr'.pc = "resolved" /\ mgr'.todo = mgr.todo
        /\ mgr'.cur = n
    BY <2>1, DoneFields
  <2>3. CASE UncordonOne(n)
    BY <2>1, <2>2, <2>3 DEF UncordonOne, Env, node, jobs, hist
  <2>4. CASE UncordonFails(n)
    BY <2>1, <2>2, <2>4 DEF UncordonFails, Mishap, Env, node, jobs
  <2>5. QED
    BY <1>2, <2>3, <2>4
<1>3. CASE Resolved
  <2>1. mgr' = At("check") \/ mgr' = Drops("uncordon")
    BY <1>3 DEF Resolved, Uncordon, Drops
  <2>2. /\ mgr' \in Manager
        /\ \/ mgr'.pc = "check"
           \/ mgr'.pc = "uncordon" /\ mgr'.todo = mgr.todo \ {mgr.cur}
    BY <2>1, AtType, AtFields, DropsFields
  <2>3. QED
    BY <1>3, <2>2 DEF Resolved, Env, node, jobs, hist
<1>4. CASE Check
  <2> DEFINE leaves == [j \in Jobs |-> Due \cap {place[j]}]
  <2>1. /\ Free \cup Due \subseteq Cached /\ leaves \in [Jobs -> SUBSET Nodes]
    BY DEF Free, Due
  <2>2. CASE mgr' = At("detect")
    <3>1. mgr' \in Manager /\ mgr'.pc = "detect"
      BY <2>2, AtType, AtFields
    <3>2. QED
      BY <1>4, <3>1 DEF Check, Env, node, jobs, hist
  <2>3. CASE mgr' = [At("migrate") EXCEPT !.picked = Free \cup Due,
                       !.leaves = leaves]
    <3> HIDE DEF leaves
    <3>1. mgr' \in Manager /\ mgr'.pc = "migrate" /\ mgr'.picked = Free \cup Due
      BY <2>1, <2>3, AtType, AtFields DEF Manager
    <3>2. QED
      BY <1>4, <2>1, <3>1 DEF Check, Env, node, jobs, hist
  <2>4. QED
    BY <1>4, <2>2, <2>3 DEF Check
<1>5. CASE Migrated
  <2>1. CASE mgr' = At("detect")
    BY <1>5, <2>1, AtType, AtFields DEF Migrated, Others, node, hist
  <2>2. CASE mgr' = [At("reboot") EXCEPT !.todo = mgr.picked]
    <3>1. mgr' \in Manager /\ mgr'.pc = "reboot" /\ mgr'.todo = mgr.picked
      BY <2>2, AtType, AtFields DEF Manager
    <3>2. QED
      BY <1>5, <3>1 DEF Migrated, Others, node, hist
  <2>3. QED
    BY <1>5, <2>1, <2>2 DEF Migrated
<1>6. ASSUME NEW n \in Nodes, Put(n)
      PROVE  RInv'
  <2>1. /\ mgr.pc = "reboot" /\ n \in mgr.todo
        /\ mgr' = [mgr EXCEPT !.pc = "record", !.cur = n]
    BY <1>6 DEF Put, Loop
  <2>2. /\ mgr' \in Manager /\ mgr'.pc = "record" /\ mgr'.todo = mgr.todo
        /\ mgr'.cur = n
    BY <2>1, DoneFields
  <2>3. QED
    BY <1>6, <2>1, <2>2 DEF Put, Env, node, jobs, hist
<1>7. ASSUME NEW n \in Nodes, PutFails(n) \/ PutUnanswered(n)
      PROVE  RInv'
  <2>1. mgr.pc = "reboot" /\ NextOf(n, At("detect"))
    BY <1>7 DEF PutFails, PutUnanswered, Loop
  <2>2. /\ mgr' \in Manager
        /\ \/ mgr'.pc = "detect"
           \/ mgr'.pc = "reboot" /\ mgr'.todo = mgr.todo \ {n}
    BY <2>1, AtType, AtFields, NextFields
  <2>3. CASE PutFails(n)
    BY <2>1, <2>2, <2>3 DEF PutFails, Mishap, Env, node, jobs, hist
  <2>4. CASE PutUnanswered(n)
    BY <2>1, <2>2, <2>4 DEF PutUnanswered, Mishap, Env, node, jobs
  <2>5. QED
    BY <1>7, <2>3, <2>4
<1>8. CASE Record
  <2> DEFINE asked == [cache[mgr.cur] EXCEPT !.asked = TRUE]
  <2>1. mgr.pc = "record" /\ mgr.cur \in Cached
    BY <1>8 DEF Record
  <2>2. asked \in Entry /\ asked.found = cache[mgr.cur].found
    BY <2>1, EntryFields DEF Entry
  <2>3. asked # None
    BY <2>2, NoEntryAssumption
  <2>4. cache' = [cache EXCEPT ![mgr.cur] = asked]
    BY <1>8 DEF Record
  <2>5. mgr' = At("detect") \/ mgr' = Drops("reboot")
    BY <1>8 DEF Record, Drops
  <2>6. /\ mgr' \in Manager
        /\ \/ mgr'.pc = "detect"
           \/ mgr'.pc = "reboot" /\ mgr'.todo = mgr.todo \ {mgr.cur}
    BY <2>5, AtType, AtFields, DropsFields
  <2> HIDE DEF asked
  <2>7. QED
    BY <1>8, <2>1, <2>2, <2>3, <2>4, <2>6 DEF Record, Env, node, jobs, hist
<1>9. QED
  BY <1>1, <1>2, <1>3, <1>4, <1>5, <1>6, <1>7, <1>8, MigrationKeeps DEF RebootRule

\* RInv is kept by a rule or a manager that ends early.
LEMMA EndKeeps ==
  ASSUME RInv, RuleFails \/ ManagerDies
  PROVE  RInv'
<1>1. \E pc \in {"detect", "resolve", "check"} : mgr' = At(pc)
  BY DEF RuleFails, ManagerDies
<1>2. mgr' \in Manager /\ mgr'.pc \in {"detect", "resolve", "check"}
  BY <1>1, AtType, AtFields
<1>3. mishaps' \in Nat /\ lapse' \in BOOLEAN /\ cordonedAt' = cordonedAt
      /\ stranded' \in BOOLEAN
  <2>1. lapse' \in BOOLEAN /\ stranded' \in BOOLEAN
    BY Zenon DEF RuleFails, ManagerDies, RInv, TypeOK, hist
  <2>2. QED
    BY <2>1, RepairAssumption
    DEF RuleFails, ManagerDies, RInv, TypeOK, Mishap, hist
<1>4. QED
  BY <1>2, <1>3
  DEF RuleFails, ManagerDies, RInv, TypeOK, Known, Held, Cached, Env, node, jobs

LEMMA RInvInit == Init => RInv
<1> SUFFICES ASSUME Init PROVE RInv
  OBVIOUS
<1>1. mgr \in Manager /\ mgr.pc = "detect"
  BY AtType, AtFields DEF Init
<1>2. TypeOK
  BY <1>1 DEF Init, TypeOK, Sample, JobStatuses
<1>3. QED
  BY <1>1, <1>2 DEF Init, RInv, Known, Held

\* RInv is kept by every step.
LEMMA RInvNext == RInv /\ [Next]_vars => RInv'
<1> SUFFICES ASSUME RInv, [Next]_vars PROVE RInv'
  OBVIOUS
<1>1. CASE Next
  BY <1>1, NodeKeeps, JobKeeps, DetectKeeps, RebootKeeps, EndKeeps
  DEF Next, ManagerStep
<1>2. CASE UNCHANGED vars
  BY <1>2 DEF vars, node, jobs, hist, RInv, TypeOK, Known, Held, Cached
<1>3. QED
  BY <1>1, <1>2

LEMMA Inductive == Spec => []RInv
BY RInvInit, RInvNext, PTL DEF Spec

\* Every variable keeps its type: no step of the manager reads an entry that
\* another step has removed.
THEOREM TypeCorrect == Spec => []TypeOK
<1>1. RInv => TypeOK
  BY DEF RInv
<1>2. QED
  BY <1>1, Inductive, PTL

\* A node is uncordoned only after a boot that came after its cordon.
THEOREM UncordonAfterBoot == Spec => UncordonNeedsBoot
<1> DEFINE Needs == \A n \in cordoned \ cordoned' : boots[n] > cordonedAt[n]
<1>1. RInv /\ [Next]_vars => [Needs]_vars
  <2> SUFFICES ASSUME RInv, [Next]_vars, NEW n \in cordoned, n \notin cordoned'
               PROVE  boots[n] > cordonedAt[n]
    OBVIOUS
  <2>1. UncordonOne(n)
    BY DEF Next, ManagerStep, DetectRule, RebootRule, RuleFails, ManagerDies,
           AgentStep, NodeStep, JobStep, vars, Detect, Alerted, CordonOne,
           CordonFails, StoreOne, Resolve, Resolved, Check, Migrated, Record,
           UncordonOne, UncordonFails, Put, PutFails, PutUnanswered, Pause,
           PauseRefused, PauseFails, Waited, GivesUp, Resume,
           ResumeFails, ResumeRefused,
           Others, AgentTakes, KeyKept, AgentReboots, AgentDies, ErrorStrikes,
           NodeCrashes, NodeBoots, ScrapedErrors, ScrapedBoot, TimePasses, JobPlaced,
           JobPaused, JobResumed, JobEnds, PodsGone, JobRequeued, JobMoves
  <2>2. /\ n \in Cached /\ boots[n] > cache[n].found
        /\ cordonedAt[n] <= cache[n].found
    BY <2>1 DEF UncordonOne, Loop, RInv, Held, Known, Cached
  <2>3. boots[n] \in Nat /\ cordonedAt[n] \in Nat /\ cache[n].found \in Nat
    BY <2>2, EntryFields DEF RInv, TypeOK, Cached
  <2>4. QED
    BY <2>2, <2>3
<1>2. QED
  BY <1>1, Inductive, PTL DEF Spec, UncordonNeedsBoot

-----------------------------------------------------------------------------
(* No reboot under a job *)

\* Unplaced is kept by every step.
LEMMA UnplacedNext ==
  ASSUME RInv, Unplaced, [Next]_vars
  PROVE  Unplaced'
<1> USE DEF Unplaced, RInv, TypeOK
<1>1. CASE UNCHANGED jobs
  BY <1>1 DEF jobs
<1>2. ASSUME NEW n \in Nodes, NodeStep(n) \/ AgentStep(n)
      PROVE  Unplaced'
  BY <1>1, <1>2
  DEF NodeStep, AgentStep, ErrorStrikes, NodeCrashes, NodeBoots,
      ScrapedErrors, ScrapedBoot, TimePasses, Env, AgentTakes, KeyKept, AgentReboots, AgentDies
<1>3. ASSUME NEW j \in Jobs, JobStep(j)
      PROVE  Unplaced'
  BY <1>3 DEF JobStep, JobPlaced, JobPaused, JobResumed, JobEnds, PodsGone, JobRequeued, JobMoves
<1>4. CASE DetectRule \/ RuleFails \/ ManagerDies
  BY <1>1, <1>4
  DEF DetectRule, Detect, Alerted, CordonOne, CordonFails, StoreOne, RuleFails,
      ManagerDies, Env
<1>5. CASE RebootRule
  <2>1. ASSUME NEW j \in Jobs,
               \/ Pause(j) \/ PauseRefused(j) \/ PauseFails(j)
               \/ Waited(j) \/ GivesUp(j) \/ Resume(j) \/ ResumeFails(j)
               \/ ResumeRefused(j)
        PROVE  Unplaced'
    BY <2>1 DEF Pause, PauseRefused, PauseFails, Waited, GivesUp, Resume,
                ResumeFails, ResumeRefused, Others
  <2>2. QED
    BY <1>1, <1>5, <2>1
    DEF RebootRule, Resolve, Resolved, Check, Migrated, Record, UncordonOne,
        UncordonFails, Put, PutFails, PutUnanswered, Env, Others, jobs
<1>6. QED
  BY <1>1, <1>2, <1>3, <1>4, <1>5 DEF Next, ManagerStep, vars

\* What is sane stays so when a node, Prometheus or an agent makes a step.
LEMMA NodeSane ==
  ASSUME RInv, Unplaced, Sane, NEW m \in Nodes, NodeStep(m) \/ AgentStep(m),
         ~lapse'
  PROVE  Sane'
<1> USE DEF Sane, KeysSafe, WaitingKept, ChosenSafe, FoundSafe, SeenUp, Kept,
            Asked, Cached, Pods
<1> RInv /\ TypeOK /\ Held /\ Known
  BY DEF RInv
<1>1. CASE ErrorStrikes(m)
  BY <1>1 DEF ErrorStrikes, jobs, hist
<1>2. CASE NodeCrashes(m)
  <2>1. ~seen[m].ecc /\ m \notin cordoned \cup mgr.picked
    BY <1>2 DEF NodeCrashes
  <2>2. /\ up' = up \ {m} /\ agent' \subseteq agent
        /\ UNCHANGED <<boots, seen, cordoned, place, cache, key, mgr>>
    BY <1>2 DEF NodeCrashes, Down, jobs
  <2>3. KeysSafe'
    BY <2>1, <2>2, RepairAssumption DEF TypeOK
  <2>4. WaitingKept'
    BY <2>1, <2>2
  <2>5. ChosenSafe'
    BY <2>2, RepairAssumption DEF TypeOK, Held, Manager
  <2>6. FoundSafe' /\ SeenUp'
    BY <2>1, <2>2
  <2>7. QED
    BY <2>3, <2>4, <2>5, <2>6
<1>3. CASE NodeBoots(m)
  BY <1>3 DEF NodeBoots, jobs, hist, TypeOK
<1>4. CASE ScrapedErrors(m) \/ ScrapedBoot(m)
  <2>1. \A n \in Nodes : seen'[n].ecc => seen[n].ecc \/ n \in up
    BY <1>4 DEF ScrapedErrors, ScrapedBoot, TypeOK, Sample
  <2>2. UNCHANGED <<up, boots, cordoned, place, cache, key, agent, mgr>>
    BY <1>4 DEF ScrapedErrors, ScrapedBoot, node, jobs
  <2>3. QED
    BY <2>1, <2>2
<1>5. CASE TimePasses(m)
  <2> DEFINE due == [cache[m] EXCEPT !.due = TRUE]
  <2>1. due # None /\ due.found = cache[m].found /\ due.asked = cache[m].asked
    <3>1. cache[m] \in Entry
      BY <1>5, EntryFields DEF TimePasses
    <3>2. due \in Entry
      BY <3>1 DEF Entry
    <3>3. QED
      BY <3>1, <3>2, NoEntryAssumption DEF Entry
  <2>2. /\ cache' = [cache EXCEPT ![m] = due] /\ m \in Cached
        /\ UNCHANGED <<ecc, up, boots, seen, cordoned, job, place, key, agent,
                       mgr>>
    BY <1>5 DEF TimePasses, Env, node, jobs
  <2> HIDE DEF due
  <2>3. \A n \in Nodes : /\ cache'[n] # None <=> cache[n] # None
                         /\ cache'[n].found = cache[n].found
                         /\ cache'[n].asked = cache[n].asked
    BY <2>1, <2>2 DEF TypeOK
  <2>4. QED
    BY <2>2, <2>3 DEF TypeOK, Held, Manager
<1>6. CASE AgentTakes(m)
  BY <1>6 DEF AgentTakes, node, jobs, hist, TypeOK
<1>7. CASE KeyKept(m)
  BY <1>7 DEF KeyKept
<1>8. CASE AgentReboots(m)
  <2>1. Kept(m) /\ Asked(m) /\ m \in agent
    BY <1>8 DEF AgentReboots
  <2>2. /\ up' = up \ {m} /\ agent' = agent \ {m}
        /\ UNCHANGED <<boots, seen, cordoned, place, cache, key, mgr>>
    BY <1>8 DEF AgentReboots, Down, jobs
  <2>3. KeysSafe'
    BY <2>1, <2>2, RepairAssumption DEF TypeOK
  <2>4. WaitingKept'
    BY <2>1, <2>2
  <2>5. ChosenSafe'
    BY <2>2, RepairAssumption DEF TypeOK, Held, Manager
  <2>6. FoundSafe'
    BY <2>1, <2>2
  <2>7. SeenUp'
    BY <2>1, <2>2, EntryFields DEF Known, TypeOK, Sample
  <2>8. QED
    BY <2>3, <2>4, <2>5, <2>6, <2>7
<1>9. CASE AgentDies(m)
  BY <1>9 DEF AgentDies, node, jobs, TypeOK
<1>10. QED
  BY <1>1, <1>2, <1>3, <1>4, <1>5, <1>6, <1>7, <1>8, <1>9
  DEF NodeStep, AgentStep

\* What is sane stays so when a job makes a step: it goes to no cordoned node.
LEMMA JobSane ==
  ASSUME RInv, Unplaced, Sane, NEW j \in Jobs, JobStep(j), ~lapse'
  PROVE  Sane'
<1> USE DEF Sane, KeysSafe, WaitingKept, ChosenSafe, FoundSafe, SeenUp, Kept,
            Asked, Cached, Pods
<1> RInv /\ TypeOK /\ Held /\ Known
  BY DEF RInv
<1>1. /\ UNCHANGED <<ecc, up, boots, seen, cordoned, cache, key, agent, mgr>>
      /\ \A i \in Jobs : \/ place'[i] \in {place[i], None}
                         \/ place'[i] \in Nodes \ cordoned
  BY DEF JobStep, JobPlaced, JobPaused, JobResumed, JobEnds, PodsGone, JobRequeued, JobMoves, node,
         TypeOK
<1>2. KeysSafe'
  BY <1>1, RepairAssumption DEF TypeOK
<1>3. WaitingKept'
  BY <1>1
<1>4. ChosenSafe'
  <2>1. \A n \in Cached : ~Asked(n) => n \in cordoned
    OBVIOUS
  <2>2. CASE mgr.pc \in {"migrate", "wait", "resume"}
    BY <1>1, <2>1, <2>2, RepairAssumption DEF Held
  <2>3. CASE mgr.pc \in {"reboot", "record"}
    BY <1>1, <2>1, <2>3, RepairAssumption DEF Held
  <2>4. QED
    BY <1>1, <2>2, <2>3
<1>5. FoundSafe' /\ SeenUp'
  BY <1>1
<1>6. QED
  BY <1>2, <1>3, <1>4, <1>5

\* What is sane stays so in the first rule: what is found has an error, and is
\* cordoned before it is stored.
LEMMA DetectSane ==
  ASSUME RInv, Unplaced, Sane, DetectRule, ~lapse'
  PROVE  Sane'
<1> USE DEF Sane, KeysSafe, WaitingKept, ChosenSafe, FoundSafe, SeenUp, Kept,
            Asked, Cached, Pods
<1> RInv /\ TypeOK /\ Held /\ Known
  BY DEF RInv
<1>1. CASE Detect
  <2> DEFINE new == {n \in Nodes \ Cached : seen[n].ecc}
  <2>1. new \subseteq Nodes /\ new \cap Cached = {} /\ new \subseteq up
    OBVIOUS
  <2>2. /\ mgr.pc = "detect"
        /\ UNCHANGED <<ecc, up, boots, seen, cordoned, job, place, cache, key,
                       agent>>
    BY <1>1 DEF Detect, Env, node, jobs
  <2>3. \/ mgr' = At("resolve")
        \/ mgr' = [At("cordon") EXCEPT !.todo = new, !.picked = new]
    BY <1>1 DEF Detect
  <2> HIDE DEF new
  <2>4. CASE mgr' = At("resolve")
    BY <2>2, <2>4, AtFields
  <2>5. CASE mgr' = [At("cordon") EXCEPT !.todo = new, !.picked = new]
    <3>1. mgr'.pc = "cordon" /\ mgr'.todo = new /\ mgr'.picked = new
      BY <2>5, AtType, AtFields DEF Manager
    <3>2. QED
      BY <2>1, <2>2, <3>1
  <2>6. QED
    BY <2>3, <2>4, <2>5
<1>2. CASE Alerted
  <2>1. mgr.pc = "alert" /\ mgr'.pc = "store" /\ mgr'.todo = mgr.todo
    BY <1>2 DEF Alerted, TypeOK, Manager
  <2>2. QED
    BY <1>2, <2>1 DEF Alerted, Env, node, jobs
<1>3. ASSUME NEW n \in Nodes, CordonOne(n)
      PROVE  Sane'
  <2>1. /\ mgr.pc = "cordon" /\ n \in mgr.todo /\ NextOf(n, Alert)
        /\ cordoned' = cordoned \cup {n}
        /\ UNCHANGED <<ecc, up, boots, seen, job, place, cache, key, agent>>
    BY <1>3 DEF CordonOne, Loop, Env, node, jobs
  <2>2. \/ mgr' = Alert /\ mgr.todo = {n}
        \/ /\ mgr'.pc = "cordon" /\ mgr'.todo = mgr.todo \ {n}
           /\ mgr'.picked = mgr.picked
    BY <2>1, AlertFields, NextFields
  <2>3. KeysSafe' /\ WaitingKept' /\ SeenUp' /\ ChosenSafe'
    BY <2>1, <2>2, AlertFields
  <2>4. FoundSafe'
    BY <2>1, <2>2, AlertFields
  <2>5. QED
    BY <2>3, <2>4
<1>4. ASSUME NEW n \in Nodes, CordonFails(n)
      PROVE  Sane'
  BY <1>4 DEF CordonFails
<1>5. ASSUME NEW n \in Nodes, StoreOne(n)
      PROVE  Sane'
  <2> DEFINE entry == [found |-> boots[n], due |-> FALSE, asked |-> FALSE]
  <2>1. /\ mgr.pc = "store" /\ n \in mgr.todo /\ NextOf(n, At("resolve"))
        /\ cache' = [cache EXCEPT ![n] = entry]
        /\ UNCHANGED <<ecc, up, boots, seen, cordoned, job, place, key, agent>>
    BY <1>5 DEF StoreOne, Loop, Env, node, jobs
  <2>2. \/ mgr'.pc = "resolve" /\ mgr.todo = {n}
        \/ mgr'.pc = "store" /\ mgr'.todo = mgr.todo \ {n}
    BY <2>1, AtType, AtFields, NextFields
  <2>3. entry \in Entry
    BY DEF Entry, TypeOK
  <2>4. entry # None /\ entry.found = boots[n] /\ entry.asked = FALSE
    BY <2>3, NoEntryAssumption
  <2> HIDE DEF entry
  <2>5. n \notin Cached /\ n \in up /\ n \in cordoned
    BY <2>1
  <2>6. boots[n] \in Nat /\ cache'[n] = entry
        /\ \A m \in Nodes : m # n => cache'[m] = cache[m]
    BY <2>1 DEF TypeOK
  <2>7. KeysSafe'
    BY <2>1, <2>2, <2>5, <2>6
  <2>8. WaitingKept'
    BY <2>1, <2>2, <2>4, <2>5, <2>6
  <2>9. SeenUp'
    BY <2>1, <2>2, <2>5, <2>6
  <2>10. ChosenSafe' /\ FoundSafe'
    BY <2>1, <2>2, <2>6
  <2>11. QED
    BY <2>7, <2>8, <2>9, <2>10
<1>6. QED
  BY <1>1, <1>2, <1>3, <1>4, <1>5 DEF DetectRule

\* What is sane stays so in a migration: a node is chosen on as long as all its
\* jobs are still to leave.
LEMMA MigrationSane ==
  ASSUME RInv, Unplaced, Sane, NEW j \in Jobs, ~lapse',
         \/ Pause(j) \/ PauseRefused(j) \/ PauseFails(j)
         \/ Waited(j) \/ GivesUp(j) \/ Resume(j) \/ ResumeFails(j)
         \/ ResumeRefused(j)
  PROVE  Sane'
<1> USE DEF Sane, KeysSafe, WaitingKept, ChosenSafe, FoundSafe, SeenUp, Kept,
            Asked, Cached, Pods
<1> RInv /\ TypeOK /\ Held /\ Known
  BY DEF RInv
<1> DEFINE Migrates == {"migrate", "wait", "resume"}
<1>1. /\ mgr.pc \in Migrates
      /\ UNCHANGED <<ecc, up, boots, seen, place, agent, cordoned, cache, key>>
  BY DEF Pause, PauseRefused, PauseFails, ToPause, Waited, GivesUp, Resume,
         ResumeFails, ResumeRefused, Others, node
<1>2. \/ mgr'.pc = "detect"
      \/ /\ mgr'.pc \in Migrates /\ mgr'.picked \subseteq mgr.picked
         /\ \A i \in Jobs : \/ mgr'.leaves[i] = mgr.leaves[i]
                            \/ \A n \in mgr'.picked : n \notin mgr.leaves[i]
                            \/ place[i] = None
  <2>1. ASSUME NEW pc \in {"wait", "resume"},
               \/ mgr' = [mgr EXCEPT !.pc = pc]
               \/ mgr' = [mgr EXCEPT !.pc = pc, !.moving = j]
        PROVE  /\ mgr'.pc = pc /\ mgr'.picked = mgr.picked
               /\ mgr'.leaves = mgr.leaves
    BY <2>1 DEF TypeOK, Manager
  <2> mgr.leaves \in [Jobs -> SUBSET Nodes]
    BY DEF TypeOK, Manager
  <2>2. CASE MigrationFails(j)
    <3>1. \/ mgr' = At("detect")
          \/ /\ mgr'.pc = "migrate" /\ mgr'.picked = mgr.picked \ mgr.leaves[j]
             /\ mgr'.leaves = [mgr.leaves EXCEPT ![j] = {}]
      BY <2>2, FailsFields
    <3>2. QED
      BY <3>1, AtFields
  <2>3. CASE Resume(j)
    <3>1. place[j] = None
      BY <2>3 DEF Resume, Unplaced
    <3>2. /\ mgr'.pc = "migrate" /\ mgr'.picked = mgr.picked
          /\ mgr'.leaves = [mgr.leaves EXCEPT ![j] = {}]
      BY <2>3, EndsFields DEF Resume
    <3>3. QED
      BY <3>1, <3>2
  <2>4. QED
    BY <2>1, <2>2, <2>3
    DEF Pause, Waited, PauseRefused, PauseFails, GivesUp,
        ResumeFails, ResumeRefused
<1>3. KeysSafe' /\ WaitingKept' /\ FoundSafe' /\ SeenUp'
  BY <1>1, <1>2
<1>4. ChosenSafe'
  <2>1. CASE mgr'.pc = "detect"
    BY <2>1
  <2>2. CASE mgr'.pc \in Migrates
    <3>1. SUFFICES ASSUME NEW n \in mgr'.picked
                   PROVE  ~cache[n].asked /\ \A i \in Pods(n) : n \in mgr'.leaves[i]
      BY <1>1, <2>2
    <3>2. n \in mgr.picked /\ n \in Nodes
      BY <1>2, <2>2, <3>1 DEF TypeOK, Manager
    <3>3. ~cache[n].asked /\ \A i \in Pods(n) : n \in mgr.leaves[i]
      BY <1>1, <3>2
    <3>4. QED
      BY <1>2, <2>2, <3>1, <3>2, <3>3, RepairAssumption
  <2>3. QED
    BY <1>2, <2>1, <2>2
<1>5. QED
  BY <1>3, <1>4

\* What is sane stays so in the rest of the second rule: a node is uncordoned
\* only after its reboot, and a key is set for a node that has no pods.
LEMMA RebootSane ==
  ASSUME RInv, Unplaced, Sane, RebootRule, ~lapse'
  PROVE  Sane'
<1> USE DEF Sane, KeysSafe, WaitingKept, ChosenSafe, FoundSafe, SeenUp, Kept,
            Asked, Cached, Pods
<1> RInv /\ TypeOK /\ Held /\ Known
  BY DEF RInv
<1>1. CASE Resolve
  <2>1. PICK todo \in SUBSET {n \in Cached : HasBooted(n)} :
          mgr' = IF todo = {} THEN At("check")
                 ELSE [At("uncordon") EXCEPT !.todo = todo]
    BY <1>1 DEF Resolve
  <2>2. /\ mgr.pc = "resolve"
        /\ UNCHANGED <<ecc, up, boots, seen, cordoned, job, place, cache, key,
                       agent>>
    BY <1>1 DEF Resolve, Env, node, jobs
  <2>3. \A n \in todo : seen[n].boot > cache[n].found
    BY DEF HasBooted
  <2>4. \/ mgr'.pc = "check"
        \/ mgr'.pc = "uncordon" /\ mgr'.todo = todo
    BY <2>1, AtType, AtFields DEF Manager
  <2>5. QED
    BY <2>2, <2>3, <2>4
<1>2. ASSUME NEW m \in Nodes, UncordonOne(m) \/ UncordonFails(m)
      PROVE  Sane'
  <2>1. /\ mgr.pc = "uncordon" /\ m \in mgr.todo
        /\ mgr' = [mgr EXCEPT !.pc = "resolved", !.cur = m]
        /\ cordoned \ {m} \subseteq cordoned'
        /\ UNCHANGED <<ecc, up, boots, seen, job, place, cache, key, agent>>
    BY <1>2 DEF UncordonOne, UncordonFails, Loop, Env, node, jobs
  <2>2. mgr'.pc = "resolved" /\ mgr'.todo = mgr.todo
    BY <2>1, DoneFields
  <2>3. m \in Cached /\ ~Kept(m)
    BY <2>1, EntryFields DEF Held, TypeOK
  <2>4. KeysSafe' /\ WaitingKept'
    BY <2>1, <2>2, <2>3
  <2>5. ChosenSafe' /\ FoundSafe' /\ SeenUp'
    BY <2>1, <2>2
  <2>6. QED
    BY <2>4, <2>5
<1>3. CASE Resolved
  <2>1. /\ mgr.pc = "resolved" /\ mgr.cur \in mgr.todo /\ mgr.cur \in Nodes
        /\ cache' = [cache EXCEPT ![mgr.cur] = None]
        /\ UNCHANGED <<ecc, up, boots, seen, cordoned, job, place, key, agent>>
    BY <1>3 DEF Resolved, Held, TypeOK, Manager, Env, node, jobs
  <2>2. \/ mgr'.pc = "check"
        \/ mgr'.pc = "uncordon" /\ mgr'.todo = mgr.todo \ {mgr.cur}
    BY <1>3, AtFields, DropsFields DEF Resolved, Uncordon, Drops
  <2>3. mgr.cur \in Cached /\ ~Kept(mgr.cur)
    BY <2>1, EntryFields DEF Held, TypeOK
  <2>4. \A n \in Nodes : n # mgr.cur => cache'[n] = cache[n]
    BY <2>1 DEF TypeOK
  <2>5. cache'[mgr.cur] = None
    BY <2>1 DEF TypeOK
  <2>6. KeysSafe'
    BY <2>1, <2>2, <2>3, <2>4 DEF TypeOK
  <2>7. WaitingKept'
    BY <2>1, <2>2, <2>4, <2>5
  <2>8. SeenUp'
    <3>1. boots[mgr.cur] > cache[mgr.cur].found
      BY <2>1 DEF Held
    <3>2. seen[mgr.cur].ecc => mgr.cur \in up
      BY <2>1, <2>3, <3>1
    <3>3. QED
      BY <2>1, <2>2, <2>4, <2>5, <3>2
  <2>9. ChosenSafe' /\ FoundSafe'
    BY <2>2
  <2>10. QED
    BY <2>6, <2>7, <2>8, <2>9
<1>4. CASE Check
  <2> DEFINE leaves == [j \in Jobs |-> Due \cap {place[j]}]
  <2>1. \A n \in Free \cup Due : /\ ~cache[n].asked
                               /\ \A j \in Pods(n) : n \in leaves[j]
    BY DEF Free, Due
  <2>2. /\ Free \cup Due \subseteq Nodes /\ leaves \in [Jobs -> SUBSET Nodes]
        /\ mgr.pc = "check"
        /\ UNCHANGED <<ecc, up, boots, seen, cordoned, job, place, cache, key,
                       agent>>
    BY <1>4 DEF Check, Free, Due, Env, node, jobs
  <2>3. \/ mgr' = At("detect")
        \/ mgr' = [At("migrate") EXCEPT !.picked = Free \cup Due,
                     !.leaves = leaves]
    BY <1>4 DEF Check
  <2> HIDE DEF leaves
  <2>4. \/ mgr'.pc = "detect"
        \/ /\ mgr'.pc = "migrate" /\ mgr'.picked = Free \cup Due
           /\ mgr'.leaves = leaves
    BY <2>2, <2>3, AtType, AtFields DEF Manager
  <2>5. KeysSafe' /\ WaitingKept' /\ FoundSafe' /\ SeenUp'
    BY <2>2, <2>4
  <2>6. ChosenSafe'
    BY <2>1, <2>2, <2>4
  <2>7. QED
    BY <2>5, <2>6
<1>5. CASE Migrated
  <2>1. /\ mgr.pc = "migrate" /\ mgr.leaves = Stays
        /\ UNCHANGED <<ecc, up, boots, seen, cordoned, job, place, cache, key,
                       agent>>
    BY <1>5 DEF Migrated, Others, node
  <2>2. \/ mgr'.pc = "detect"
        \/ mgr'.pc = "reboot" /\ mgr'.todo = mgr.picked
    BY <1>5, AtType, AtFields DEF Migrated, Manager
  <2>3. \A n \in mgr.picked : ~cache[n].asked /\ Pods(n) = {}
    BY <2>1 DEF Stays
  <2>4. KeysSafe' /\ WaitingKept' /\ FoundSafe' /\ SeenUp'
    BY <2>1, <2>2
  <2>5. ChosenSafe'
    BY <2>1, <2>2, <2>3
  <2>6. QED
    BY <2>4, <2>5
<1>6. ASSUME NEW m \in Nodes, Put(m)
      PROVE  Sane'
  <2>1. /\ mgr.pc = "reboot" /\ m \in mgr.todo /\ key' = key \cup {m}
        /\ mgr' = [mgr EXCEPT !.pc = "record", !.cur = m]
        /\ UNCHANGED <<ecc, up, boots, seen, cordoned, job, place, cache, agent>>
    BY <1>6 DEF Put, Loop, Env, node, jobs
  <2>2. mgr'.pc = "record" /\ mgr'.todo = mgr.todo /\ mgr'.cur = m
    BY <2>1, DoneFields
  <2>3. /\ m \in Cached /\ ~cache[m].asked /\ Pods(m) = {}
        /\ Kept(m) /\ m \notin key \cup agent
    BY <2>1 DEF Held
  <2>4. KeysSafe'
    BY <2>1, <2>2, <2>3
  <2>5. WaitingKept'
    BY <2>1, <2>2
  <2>6. ChosenSafe'
    BY <2>1, <2>2
  <2>7. FoundSafe' /\ SeenUp'
    BY <2>1, <2>2
  <2>8. QED
    BY <2>4, <2>5, <2>6, <2>7
<1>7. ASSUME NEW m \in Nodes, PutFails(m) \/ PutUnanswered(m)
      PROVE  Sane'
  <2>1. /\ mgr.pc = "reboot" /\ NextOf(m, At("detect"))
        /\ UNCHANGED <<ecc, up, boots, seen, cordoned, job, place, cache, key,
                       agent>>
    BY <1>7 DEF PutFails, PutUnanswered, Loop, Env, node, jobs
  <2>2. \/ mgr'.pc = "detect"
        \/ mgr'.pc = "reboot" /\ mgr'.todo = mgr.todo \ {m}
    BY <2>1, AtType, AtFields, NextFields
  <2>3. QED
    BY <2>1, <2>2
<1>8. CASE Record
  <2> DEFINE asked == [cache[mgr.cur] EXCEPT !.asked = TRUE]
  <2>1. /\ mgr.pc = "record" /\ mgr.cur \in mgr.todo /\ mgr.cur \in Cached
        /\ cache' = [cache EXCEPT ![mgr.cur] = asked]
        /\ UNCHANGED <<ecc, up, boots, seen, cordoned, job, place, key, agent>>
    BY <1>8 DEF Record, Held, Env, node, jobs
  <2>2. /\ asked \in Entry /\ asked.found = cache[mgr.cur].found
        /\ asked.asked = TRUE
    <3>1. cache[mgr.cur] \in Entry
      BY <2>1, EntryFields
    <3>2. QED
      BY <3>1 DEF Entry
  <2>3. asked # None
    BY <2>2, NoEntryAssumption
  <2>4. \/ mgr'.pc = "detect"
        \/ mgr'.pc = "reboot" /\ mgr'.todo = mgr.todo \ {mgr.cur}
    BY <1>8, AtFields, DropsFields DEF Record, Drops
  <2> HIDE DEF asked
  <2>5. /\ \A n \in Nodes : n # mgr.cur => cache'[n] = cache[n]
        /\ cache'[mgr.cur] = asked /\ mgr.todo \subseteq Nodes
    BY <2>1 DEF TypeOK, Manager
  <2>6. KeysSafe'
    BY <2>1, <2>2, <2>3, <2>4, <2>5 DEF TypeOK
  <2>7. WaitingKept'
    BY <2>1, <2>2, <2>4, <2>5
  <2>8. ChosenSafe'
    BY <2>1, <2>4, <2>5
  <2>9. FoundSafe' /\ SeenUp'
    BY <2>1, <2>2, <2>3, <2>4, <2>5
  <2>10. QED
    BY <2>6, <2>7, <2>8, <2>9
<1>9. QED
  BY <1>1, <1>2, <1>3, <1>4, <1>5, <1>6, <1>7, <1>8, MigrationSane DEF RebootRule

\* What is sane stays so when a rule or the manager ends early.
LEMMA EndSane ==
  ASSUME RInv, Sane, RuleFails \/ ManagerDies, ~lapse'
  PROVE  Sane'
<1>1. /\ mgr.pc # "record"
      /\ \E pc \in {"detect", "resolve", "check"} : mgr' = At(pc)
      /\ UNCHANGED <<ecc, up, boots, seen, cordoned, job, place, cache, key, agent>>
  BY DEF RuleFails, ManagerDies, Env, node, jobs
<1>2. mgr'.pc \in {"detect", "resolve", "check"}
  BY <1>1, AtFields
<1>3. QED
  BY <1>1, <1>2
  DEF Sane, KeysSafe, WaitingKept, ChosenSafe, FoundSafe, SeenUp, Kept, Asked,
      Cached, Pods

\* A lapse is never forgotten.
LEMMA LapseStays ==
  ASSUME [Next]_vars, lapse
  PROVE  lapse'
BY DEF Next, ManagerStep, DetectRule, RebootRule, RuleFails, ManagerDies,
       AgentStep, NodeStep, JobStep, vars, hist, Detect, Alerted, CordonOne,
       CordonFails, StoreOne, Resolve, Resolved, Check, Migrated, Record,
       UncordonOne, UncordonFails, Put, PutFails, PutUnanswered, Pause,
       PauseRefused, PauseFails, Waited, GivesUp, Resume,
       ResumeFails, ResumeRefused,
       Others, AgentTakes, KeyKept, AgentReboots, AgentDies, ErrorStrikes,
       NodeCrashes, NodeBoots, ScrapedErrors, ScrapedBoot, TimePasses, JobPlaced,
       JobPaused, JobResumed, JobEnds, PodsGone, JobRequeued, JobMoves

LEMMA SafeInit == Init => Safe
<1> SUFFICES ASSUME Init PROVE Safe
  OBVIOUS
<1>1. mgr.pc = "detect"
  BY AtFields DEF Init
<1>2. QED
  BY <1>1
  DEF Init, Safe, Unplaced, Sane, KeysSafe, WaitingKept, ChosenSafe, FoundSafe,
      SeenUp, Kept, Asked, Cached, Pods

LEMMA SafeNext == RInv /\ Safe /\ [Next]_vars => Safe'
<1> SUFFICES ASSUME RInv, Safe, [Next]_vars PROVE Safe'
  OBVIOUS
<1>1. Unplaced'
  BY UnplacedNext DEF Safe
<1>2. ASSUME ~lapse'
      PROVE  Sane'
  <2>1. Sane /\ Unplaced
    BY <1>2, LapseStays DEF Safe
  <2>2. CASE Next
    BY <1>2, <2>1, <2>2, NodeSane, JobSane, DetectSane, RebootSane, EndSane
    DEF Next, ManagerStep
  <2>3. CASE UNCHANGED vars
    BY <2>1, <2>3
    DEF vars, node, jobs, Sane, KeysSafe, WaitingKept, ChosenSafe, FoundSafe,
        SeenUp, Kept, Asked, Cached, Pods
  <2>4. QED
    BY <2>2, <2>3
<1>3. QED
  BY <1>1, <1>2 DEF Safe

\* No agent reboots its node under a job, whatever the order of pauses, boots,
\* samples and restarts, unless a cordon failed or a request was left over.
THEOREM NoRebootUnderJobs == Spec => NoJobRebooted
<1> DEFINE Alone == \A n \in Nodes : ~lapse /\ AgentReboots(n) => Pods(n) = {}
<1>1. Safe => [Alone]_vars
  BY DEF Safe, Sane, KeysSafe, AgentReboots
<1>2. Spec => []Safe
  BY SafeInit, SafeNext, Inductive, PTL DEF Spec
<1>3. QED
  BY <1>1, <1>2, PTL DEF NoJobRebooted

=============================================================================
