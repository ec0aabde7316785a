--------------------------- MODULE JobsPageProofs ---------------------------
(***************************************************************************)
(* Theorems about JobsPage, for all jobs, operations, sizes of a batch and *)
(* bounds: the types, and that a confirmed operation changes only jobs the *)
(* user has picked.                                                        *)
(***************************************************************************)
EXTENDS JobsPage, SequenceTheorems, FiniteSetTheorems, TLAPS

(***************************************************************************)
(* The invariant                                                           *)
(***************************************************************************)

\* A job has one row on the page: the tables show different statuses, and an
\* answer names each job once.
OneRow ==
  \A t, u \in Tables : \A i \in DOMAIN rows[t], h \in DOMAIN rows[u] :
    rows[t][i].job = rows[u][h].job => t = u /\ i = h

\* A row is marked because the user has checked its job.
MarksPicked ==
  \A t \in Tables : \A i \in DOMAIN rows[t] :
    rows[t][i].mark => rows[t][i].job \in picked

\* What a request has yet to do is among the jobs that were meant.
LeftMeant == \A k \in Clicks : Range(click[k].left) \subseteq click[k].meant

\* No mark ever goes back to the row it came from: from then on nothing is said.
PageInv == OneRow /\ (~moved => MarksPicked /\ LeftMeant)

(***************************************************************************)
(* Sequences, and the rows of a poll                                       *)
(***************************************************************************)

\* Fresh rows with the marks of the old ones are rows of the same jobs.
LEMMA MergeFacts ==
  ASSUME NEW old \in Seq(Row), NEW jobs \in Seq(Jobs), poll \in [Jobs -> Statuses]
  PROVE  LET new == Merge(old, Fresh(jobs))
         IN  /\ new \in Seq(Row)
             /\ DOMAIN new = DOMAIN jobs
             /\ \A i \in DOMAIN new : new[i].job = jobs[i]
             /\ \A i \in DOMAIN new : new[i].mark => i \in DOMAIN old /\ old[i].mark
<1> DEFINE new == Merge(old, Fresh(jobs))
<1>1. DOMAIN Fresh(jobs) = DOMAIN jobs
  BY DEF Fresh
<1>2. DOMAIN new = DOMAIN jobs
  BY <1>1 DEF Merge
<1>3. DOMAIN jobs = 1..Len(jobs) /\ Len(jobs) \in Nat
  OBVIOUS
<1>4. \A i \in DOMAIN jobs :
        Fresh(jobs)[i] = [job |-> jobs[i], st |-> poll[jobs[i]], mark |-> FALSE]
  BY DEF Fresh
<1>5. \A i \in DOMAIN jobs : jobs[i] \in Jobs
  BY <1>3
<1>6. \A i \in DOMAIN old : old[i] \in Row
  OBVIOUS
<1>7. ASSUME NEW i \in DOMAIN jobs
      PROVE  /\ new[i] \in Row /\ new[i].job = jobs[i]
             /\ new[i].mark => i \in DOMAIN old /\ old[i].mark
  <2>1. CASE i \in DOMAIN old
    <3>1. new[i] = [job |-> jobs[i], st |-> poll[jobs[i]], mark |-> old[i].mark]
      BY <2>1, <1>1, <1>4 DEF Merge
    <3>2. old[i].mark \in BOOLEAN
      BY <2>1, <1>6 DEF Row
    <3> QED  BY <2>1, <3>1, <3>2, <1>5 DEF Row
  <2>2. CASE i \notin DOMAIN old
    <3>1. new[i] = [job |-> jobs[i], st |-> poll[jobs[i]], mark |-> FALSE]
      BY <2>2, <1>1, <1>4 DEF Merge
    <3> QED  BY <3>1, <1>5 DEF Row
  <2> QED  BY <2>1, <2>2
<1>8. new \in [1..Len(jobs) -> Row]
  BY <1>2, <1>3, <1>7, <1>1 DEF Merge
<1>9. new \in Seq(Row)
  BY <1>8, <1>3
<1> QED  BY <1>2, <1>7, <1>9

\* An answer names each job of a table once.
LEMMA ListedFacts ==
  ASSUME NEW t \in Tables, NEW l \in Listed(t)
  PROVE  /\ l \in Seq(Jobs)
         /\ \A i \in DOMAIN l : poll[l[i]] \in Shown(t)
         /\ \A i, h \in DOMAIN l : l[i] = l[h] => i = h
<1> DEFINE S == {j \in Jobs : poll[j] \in Shown(t)}
           n == Cardinality(S)
<1>1. n \in Nat
  BY JobsAssumption, FS_Subset, FS_CardinalityType
<1>2. l \in [1..n -> S] /\ \A i, h \in 1..n : i # h => l[i] # l[h]
  BY DEF Listed, SetToSeqs
<1>3. l \in Seq(S) /\ DOMAIN l = 1..n
  BY <1>1, <1>2
<1> QED  BY <1>2, <1>3

\* The places of the checked rows are counted off from 1.
LEMMA DownwardsFacts ==
  ASSUME NEW R \in Seq(Row), NEW I, I \subseteq DOMAIN R, NEW f \in Downwards(I)
  PROVE  /\ [n \in DOMAIN f |-> R[f[n]].job] \in Seq(Jobs)
         /\ \A n \in DOMAIN f : f[n] \in I
<1>1. IsFiniteSet(I)
  BY FS_Interval, FS_Subset
<1>2. Cardinality(I) \in Nat /\ f \in [1..Cardinality(I) -> I]
  BY <1>1, FS_CardinalityType DEF Downwards
<1>3. \A i \in DOMAIN R : R[i] \in Row
  OBVIOUS
<1>4. \A n \in DOMAIN f : f[n] \in I /\ R[f[n]].job \in Jobs
  BY <1>2, <1>3 DEF Row
<1>5. [n \in DOMAIN f |-> R[f[n]].job] \in [1..Cardinality(I) -> Jobs]
  BY <1>2, <1>4
<1> QED  BY <1>2, <1>4, <1>5

\* What is left of a request after n jobs was left of it before.
LEMMA RestFacts ==
  ASSUME NEW s \in Seq(Jobs), NEW n \in 0..Len(s)
  PROVE  Rest(s, n) \in Seq(Jobs) /\ Range(Rest(s, n)) \subseteq Range(s)
<1>1. n + 1 \in 1..Len(s) + 1 /\ Len(s) \in Nat /\ n \in Nat
  OBVIOUS
<1>2. /\ Rest(s, n) \in Seq(Jobs)
      /\ Len(Rest(s, n)) = IF n + 1 <= Len(s) THEN Len(s) - (n + 1) + 1 ELSE 0
      /\ \A i \in 1..(Len(s) - (n + 1) + 1) : Rest(s, n)[i] = s[(n + 1) + i - 1]
  BY <1>1, SubSeqProperties, Len(s) \in 0..Len(s) DEF Rest
<1>3. \A i \in DOMAIN Rest(s, n) : \E h \in DOMAIN s : Rest(s, n)[i] = s[h]
  BY <1>1, <1>2
<1> QED  BY <1>2, <1>3 DEF Range

(***************************************************************************)
(* Types                                                                   *)
(***************************************************************************)

\* Initially the tables are empty and nothing is under way.
LEMMA InitTypes == Init => TypeOK
<1> SUFFICES ASSUME Init PROVE TypeOK
  OBVIOUS
<1>1. Free \in Click
  BY DEF Free, Click
<1>2. <<>> \in Seq(Row)
  OBVIOUS
<1>3. rows \in [Tables -> Seq(Row)] /\ click \in [Clicks -> Click]
  BY <1>1, <1>2 DEF Init
<1>4. status \in [Jobs -> Statuses]
  BY JobsAssumption DEF Init
<1>5. setbacks \in 0..MaxSetbacks /\ clicks \in 0..MaxClicks /\ faults \in 0..MaxFaults
  BY BoundsAssumption DEF Init
<1>6. moved \in BOOLEAN /\ picked \subseteq Jobs /\ poll = None
  BY DEF Init
<1> QED  BY <1>3, <1>4, <1>5, <1>6 DEF TypeOK

\* The managers, and what a page asks for.
LEMMA MovedTypes == ASSUME TypeOK, NEW j \in Jobs, NEW to \in Statuses, Moved(j, to)
                    PROVE  TypeOK'
BY BoundsAssumption DEF TypeOK, Moved, Onward, Setbacks

LEMMA AskedTypes == ASSUME TypeOK, Asked PROVE TypeOK'
BY DEF TypeOK, Asked

LEMMA PollFailsTypes == ASSUME TypeOK, PollFails PROVE TypeOK'
BY BoundsAssumption DEF TypeOK, PollFails, Fault

\* Drawing makes rows of the jobs of an answer.
LEMMA DrawTypes ==
  ASSUME TypeOK, poll # None, NEW listed, listed \in [Tables -> Seq(Jobs)], Draw(listed)
  PROVE  /\ rows' \in [Tables -> Seq(Row)]
         /\ click' \in [Clicks -> Click]
         /\ poll' = None
         /\ moved' \in BOOLEAN
<1>1. poll \in [Jobs -> Statuses]
  BY DEF TypeOK
<1>2. \A t \in Tables : Merge(rows[t], Fresh(listed[t])) \in Seq(Row)
  BY <1>1, MergeFacts DEF TypeOK
<1>3. \A k \in Clicks : [click[k] EXCEPT !.unmark = {}] \in Click
  BY DEF TypeOK, Click
<1>4. moved' \in BOOLEAN
  BY DEF Draw, TypeOK
<1> QED  BY <1>2, <1>3, <1>4 DEF Draw

\* An answer with jobs, and one without.
LEMMA DrawnTypes == ASSUME TypeOK, Drawn \/ DrawnEmpty PROVE TypeOK'
<1>1. CASE Drawn
  <2>1. PICK u \in Listed("Unapproved"), q \in Listed("Pending"),
             r \in Listed("Running"), p \in Listed("Paused") :
          Draw([t \in Tables |-> CASE t = "Unapproved" -> u [] t = "Pending" -> q
                                   [] t = "Running" -> r [] t = "Paused" -> p])
    BY <1>1 DEF Drawn
  <2> DEFINE listed == [t \in Tables |->
               CASE t = "Unapproved" -> u [] t = "Pending" -> q
                 [] t = "Running" -> r [] t = "Paused" -> p]
  <2>2. u \in Seq(Jobs) /\ q \in Seq(Jobs) /\ r \in Seq(Jobs) /\ p \in Seq(Jobs)
    BY ListedFacts DEF Tables
  <2>3. listed \in [Tables -> Seq(Jobs)]
    BY <2>2 DEF Tables
  <2> QED  BY <1>1, <2>1, <2>3, DrawTypes DEF Drawn, TypeOK
<1>2. CASE DrawnEmpty
  <2>1. [t \in Tables |-> <<>>] \in [Tables -> Seq(Jobs)]
    OBVIOUS
  <2>2. poll # None /\ Draw([t \in Tables |-> <<>>])
    BY <1>2 DEF DrawnEmpty
  <2>3. /\ rows' \in [Tables -> Seq(Row)] /\ click' \in [Clicks -> Click]
        /\ poll' = None /\ moved' \in BOOLEAN
    BY <2>1, <2>2, DrawTypes
  <2>4. faults' \in 0..MaxFaults
    BY <1>2, BoundsAssumption DEF DrawnEmpty, Fault, TypeOK
  <2> QED  BY <1>2, <2>3, <2>4 DEF DrawnEmpty, TypeOK
<1> QED  BY <1>1, <1>2

\* A check mark.
LEMMA ToggledTypes ==
  ASSUME TypeOK, NEW t \in Tables, NEW i \in DOMAIN rows[t], Toggled(t, i)
  PROVE  TypeOK'
<1>1. rows[t] \in Seq(Row) /\ rows[t][i] \in Row
  BY DEF TypeOK
<1>2. [rows[t][i] EXCEPT !.mark = ~@] \in Row
  BY <1>1 DEF Row
<1>3. /\ DOMAIN rows[t] = 1..Len(rows[t]) /\ Len(rows[t]) \in Nat
      /\ \A h \in DOMAIN rows[t] : rows[t][h] \in Row
  BY <1>1
<1> DEFINE R == [rows[t] EXCEPT ![i] = [rows[t][i] EXCEPT !.mark = ~@]]
<1>4. R \in [1..Len(rows[t]) -> Row]
  BY <1>2, <1>3
<1>5. R \in Seq(Row)
  BY <1>3, <1>4
<1>6. rows' = [rows EXCEPT ![t] = R]
  BY DEF Toggled
<1>7. rows' \in [Tables -> Seq(Row)]
  BY <1>5, <1>6 DEF TypeOK
<1>8. picked' \subseteq Jobs
  BY <1>1 DEF Toggled, TypeOK, Row
<1> QED  BY <1>7, <1>8 DEF Toggled, TypeOK

\* The dialog: it is opened with jobs of the page, and answered.
LEMMA BeginsTypes ==
  ASSUME TypeOK, NEW k \in Clicks, NEW op \in Ops, NEW jobs \in Seq(Jobs),
         NEW unmark \in SUBSET Jobs, NEW meant \in SUBSET Jobs,
         Begins(k, op, jobs, unmark, meant)
  PROVE  click' \in [Clicks -> Click] /\ clicks' \in 0..MaxClicks
<1>1. [phase |-> "dialog", op |-> op, left |-> jobs, unmark |-> unmark,
       meant |-> meant] \in Click
  BY DEF Click
<1>2. click' \in [Clicks -> Click]
  BY <1>1 DEF Begins, TypeOK
<1>3. clicks' \in 0..MaxClicks
  BY BoundsAssumption DEF Begins, TypeOK
<1> QED  BY <1>2, <1>3

LEMMA BatchTypes ==
  ASSUME TypeOK, NEW k \in Clicks, NEW t \in Tables, NEW op \in Ops, BatchClicked(k, t, op)
  PROVE  TypeOK'
<1>1. PICK f \in Downwards(Checked(t)) :
        Begins(k, op, [n \in DOMAIN f |-> rows[t][f[n]].job],
               {rows[t][i].job : i \in Checked(t)}, picked)
  BY DEF BatchClicked
<1>2. rows[t] \in Seq(Row) /\ Checked(t) \subseteq DOMAIN rows[t]
  BY DEF TypeOK, Checked
<1>0. {rows[t][i].job : i \in Checked(t)} \in SUBSET Jobs
  <2>1. \A i \in Checked(t) : rows[t][i] \in Row
    BY <1>2
  <2> QED  BY <2>1 DEF Row
<1>3. [n \in DOMAIN f |-> rows[t][f[n]].job] \in Seq(Jobs)
  BY <1>2, DownwardsFacts
<1>4. click' \in [Clicks -> Click] /\ clicks' \in 0..MaxClicks
  BY <1>0, <1>1, <1>3, BeginsTypes DEF TypeOK
<1> QED  BY <1>4 DEF BatchClicked, TypeOK

LEMMA RowTypes ==
  ASSUME TypeOK, NEW k \in Clicks, NEW t \in Tables, NEW i \in DOMAIN rows[t],
         NEW op \in Ops, RowClicked(k, t, i, op)
  PROVE  TypeOK'
<1>1. rows[t] \in Seq(Row)
  BY DEF TypeOK
<1> DEFINE r == rows[t][i]
<1>0. r \in Row
  BY <1>1
<1>2. rows[t][i].job \in Jobs
  BY <1>0 DEF Row
<1>3. <<rows[t][i].job>> \in Seq(Jobs) /\ {rows[t][i].job} \in SUBSET Jobs
  BY <1>2
<1>4. Begins(k, op, <<rows[t][i].job>>, {}, {rows[t][i].job})
  BY DEF RowClicked
<1>5. click' \in [Clicks -> Click] /\ clicks' \in 0..MaxClicks
  BY <1>3, <1>4, BeginsTypes
<1> QED  BY <1>5 DEF RowClicked, TypeOK

LEMMA AnswerTypes ==
  ASSUME TypeOK, NEW k \in Clicks, No(k) \/ Yes(k) \/ Failed(k)
  PROVE  TypeOK'
<1>1. Free \in Click
  BY DEF Free, Click
<1>2. [click[k] EXCEPT !.phase = "sent"] \in Click
  BY DEF TypeOK, Click
<1>3. faults' \in 0..MaxFaults
  BY BoundsAssumption DEF No, Yes, Failed, Fault, TypeOK
<1>4. click' \in [Clicks -> Click]
  BY <1>1, <1>2 DEF No, Yes, Failed, TypeOK
<1> QED  BY <1>3, <1>4 DEF No, Yes, Failed, TypeOK

\* A batch of the request, and the end of it.
LEMMA AppliedTypes ==
  ASSUME TypeOK, NEW k \in Clicks, click[k].op \in Ops, Applied(k)
  PROVE  TypeOK'
<1> DEFINE c == click[k]
           n == IF Len(c.left) < BatchSize THEN Len(c.left) ELSE BatchSize
           d == [c EXCEPT !.left = Rest(c.left, n),
                          !.phase = IF Len(c.left) = n THEN "done" ELSE "sent"]
<1>1. c \in Click /\ c.left \in Seq(Jobs)
  BY DEF TypeOK, Click
<1>2. n \in 0..Len(c.left)
  BY <1>1, BoundsAssumption
<1>3. Rest(c.left, n) \in Seq(Jobs)
  BY <1>1, <1>2, RestFacts
<1>4. d \in Click
  BY <1>1, <1>3 DEF Click
<1>5. click' = [click EXCEPT ![k] = d]
  BY DEF Applied, TypeOK
<1>6. click' \in [Clicks -> Click]
  BY <1>4, <1>5 DEF TypeOK
<1>7. To(c.op) \in Statuses
  BY OpsAssumption DEF To, Statuses
<1>8. status' \in [Jobs -> Statuses]
  BY <1>7 DEF Applied, TypeOK
<1> QED  BY <1>6, <1>8 DEF Applied, TypeOK

LEMMA AcceptedTypes == ASSUME TypeOK, NEW k \in Clicks, Accepted(k) PROVE TypeOK'
<1> DEFINE c == click[k]
           R(t) == [i \in DOMAIN rows[t] |->
                      [rows[t][i] EXCEPT !.mark = @ /\ rows[t][i].job \notin c.unmark]]
<1>1. Free \in Click
  BY DEF Free, Click
<1>2. click' \in [Clicks -> Click]
  BY <1>1 DEF Accepted, TypeOK
<1>3. ASSUME NEW t \in Tables PROVE R(t) \in Seq(Row)
  <2>1. /\ DOMAIN rows[t] = 1..Len(rows[t]) /\ Len(rows[t]) \in Nat
        /\ \A i \in DOMAIN rows[t] : rows[t][i] \in Row
    BY DEF TypeOK
  <2>2. ASSUME NEW i \in DOMAIN rows[t]
        PROVE  [rows[t][i] EXCEPT !.mark = @ /\ rows[t][i].job \notin c.unmark] \in Row
    BY <2>1 DEF Row
  <2>3. R(t) \in [1..Len(rows[t]) -> Row]
    BY <2>1, <2>2
  <2> QED  BY <2>1, <2>3
<1>4. rows' = [t \in Tables |-> R(t)]
  BY DEF Accepted
<1> HIDE DEF R
<1>5. rows' \in [Tables -> Seq(Row)]
  BY <1>3, <1>4 DEF TypeOK
<1>6. picked' \subseteq Jobs
  BY DEF Accepted, TypeOK
<1> QED  BY <1>2, <1>5, <1>6 DEF Accepted, TypeOK

\* A click that was begun is for an operation.
Operating == \A k \in Clicks : click[k].phase # "free" => click[k].op \in Ops

LEMMA OperatingKept == ASSUME TypeOK, Operating, [Next]_vars PROVE Operating'
<1> USE DEF Operating, TypeOK
<1>1. CASE UNCHANGED click
  BY <1>1
<1>2. ASSUME NEW k \in Clicks, No(k) \/ Yes(k) \/ Applied(k) \/ Failed(k) \/ Accepted(k)
      PROVE  Operating'
  <2>1. /\ \A m \in Clicks \ {k} : click'[m] = click[m]
        /\ \/ click'[k] = Free
           \/ click[k].phase # "free" /\ click'[k].op = click[k].op
    BY <1>2 DEF No, Yes, Applied, Failed, Accepted, Click
  <2>2. Free.phase = "free"
    BY DEF Free
  <2> QED  BY <2>1, <2>2
<1>3. ASSUME NEW k \in Clicks, NEW op \in Ops, NEW jobs, NEW unmark, NEW meant,
             Begins(k, op, jobs, unmark, meant)
      PROVE  Operating'
  BY <1>3 DEF Begins
<1>4. ASSUME NEW listed, Draw(listed) PROVE Operating'
  BY <1>4 DEF Draw, Click
<1>5. CASE Drawn \/ DrawnEmpty
  BY <1>4, <1>5 DEF Drawn, DrawnEmpty
<1>6. ASSUME NEW k \in Clicks, NEW t \in Tables, NEW op \in Ops,
             \/ BatchClicked(k, t, op)
             \/ \E i \in DOMAIN rows[t] : RowClicked(k, t, i, op)
      PROVE  Operating'
  BY <1>3, <1>6 DEF BatchClicked, RowClicked
<1>7. CASE \/ \E j \in Jobs, to \in Statuses : Moved(j, to)
           \/ Asked \/ PollFails
           \/ \E t \in Tables : \E i \in DOMAIN rows[t] : Toggled(t, i)
  BY <1>1, <1>7 DEF Moved, Asked, PollFails, Toggled
<1>8. CASE UNCHANGED vars
  BY <1>1, <1>8 DEF vars
<1> QED  BY <1>2, <1>5, <1>6, <1>7, <1>8 DEF Next

\* Every step keeps the types.
LEMMA TypesKept == ASSUME TypeOK, Operating, [Next]_vars PROVE TypeOK'
<1>1. CASE \E j \in Jobs, to \in Statuses : Moved(j, to)
  BY <1>1, MovedTypes
<1>2. CASE Asked \/ PollFails \/ Drawn \/ DrawnEmpty
  BY <1>2, AskedTypes, PollFailsTypes, DrawnTypes
<1>3. CASE \E t \in Tables : \E i \in DOMAIN rows[t] : Toggled(t, i)
  BY <1>3, ToggledTypes
<1>4. CASE \E k \in Clicks, t \in Tables, op \in Ops :
             \/ BatchClicked(k, t, op)
             \/ \E i \in DOMAIN rows[t] : RowClicked(k, t, i, op)
  BY <1>4, BatchTypes, RowTypes
<1>5. ASSUME NEW k \in Clicks, No(k) \/ Yes(k) \/ Applied(k) \/ Failed(k) \/ Accepted(k)
      PROVE  TypeOK'
  <2>1. Applied(k) => click[k].op \in Ops
    BY DEF Applied, Operating
  <2> QED  BY <1>5, <2>1, AnswerTypes, AppliedTypes, AcceptedTypes
<1>6. CASE UNCHANGED vars
  BY <1>6 DEF vars, TypeOK
<1> QED  BY <1>1, <1>2, <1>3, <1>4, <1>5, <1>6 DEF Next

\* The types hold in every state: tables, answers and requests stay what the
\* page and the REST API take them for (JobsTable/index.tsx, op_jobs).
THEOREM PageTypeCorrect == Spec => []TypeOK
<1>1. Init => TypeOK /\ Operating
  BY InitTypes DEF Init, Operating, Free
<1>2. TypeOK /\ Operating /\ [Next]_vars => TypeOK' /\ Operating'
  BY TypesKept, OperatingKept
<1> QED  BY <1>1, <1>2, PTL DEF Spec

(***************************************************************************)
(* Who is operated                                                         *)
(***************************************************************************)

\* The rows after a poll: those of the answer, with marks where marks were.
LEMMA DrawFacts ==
  ASSUME TypeOK, poll # None, NEW listed, listed \in [Tables -> Seq(Jobs)], Draw(listed),
         NEW t \in Tables
  PROVE  /\ DOMAIN rows'[t] = DOMAIN listed[t]
         /\ \A i \in DOMAIN rows'[t] : rows'[t][i].job = listed[t][i]
         /\ \A i \in DOMAIN rows'[t] :
              rows'[t][i].mark => i \in DOMAIN rows[t] /\ rows[t][i].mark
<1>1. poll \in [Jobs -> Statuses] /\ rows[t] \in Seq(Row) /\ listed[t] \in Seq(Jobs)
  BY DEF TypeOK
<1>2. rows'[t] = Merge(rows[t], Fresh(listed[t]))
  BY DEF Draw
<1> QED  BY <1>1, <1>2, MergeFacts

\* A poll keeps the invariant: rows are those of an answer that names each job
\* once, and unless a mark has moved each marked row is of the job it was of.
LEMMA DrawInv ==
  ASSUME TypeOK, PageInv, poll # None, NEW listed, listed \in [Tables -> Seq(Jobs)],
         \A t, u \in Tables : \A i \in DOMAIN listed[t], h \in DOMAIN listed[u] :
           listed[t][i] = listed[u][h] => t = u /\ i = h,
         Draw(listed), picked' = picked
  PROVE  PageInv'
<1>1. \A t \in Tables :
         /\ DOMAIN rows'[t] = DOMAIN listed[t]
         /\ \A i \in DOMAIN rows'[t] : rows'[t][i].job = listed[t][i]
         /\ \A i \in DOMAIN rows'[t] :
              rows'[t][i].mark => i \in DOMAIN rows[t] /\ rows[t][i].mark
  BY DrawFacts
<1>2. OneRow'
  BY <1>1 DEF OneRow
<1>3. ASSUME ~moved' PROVE MarksPicked' /\ LeftMeant'
  <2>1. /\ ~moved
        /\ \A t \in Tables : \A i \in DOMAIN rows[t] :
             i \in DOMAIN rows'[t] /\ rows[t][i].mark
               => rows[t][i].job = rows'[t][i].job
    BY <1>3 DEF Draw
  <2>2. MarksPicked'
    BY <1>1, <2>1 DEF PageInv, MarksPicked
  <2>3. \A k \in Clicks : click'[k].left = click[k].left /\ click'[k].meant = click[k].meant
    BY DEF Draw, TypeOK, Click
  <2>4. LeftMeant'
    BY <2>1, <2>3 DEF PageInv, LeftMeant
  <2> QED  BY <2>2, <2>4
<1> QED  BY <1>2, <1>3 DEF PageInv

LEMMA DrawnInv == ASSUME TypeOK, PageInv, Drawn \/ DrawnEmpty PROVE PageInv'
<1>1. CASE Drawn
  <2>1. PICK u \in Listed("Unapproved"), q \in Listed("Pending"),
             r \in Listed("Running"), p \in Listed("Paused") :
          Draw([t \in Tables |-> CASE t = "Unapproved" -> u [] t = "Pending" -> q
                                   [] t = "Running" -> r [] t = "Paused" -> p])
    BY <1>1 DEF Drawn
  <2> DEFINE listed == [t \in Tables |->
               CASE t = "Unapproved" -> u [] t = "Pending" -> q
                 [] t = "Running" -> r [] t = "Paused" -> p]
  <2>2. \A t \in Tables : listed[t] \in Listed(t)
    BY DEF Tables
  <2>3. listed \in [Tables -> Seq(Jobs)]
    BY <2>2, ListedFacts
  <2>4. \A t, u1 \in Tables : t # u1 => Shown(t) \cap Shown(u1) = {}
    BY DEF Tables, Shown
  <2>5. Draw(listed)
    BY <2>1
  <2>6. DOMAIN listed = Tables
    OBVIOUS
  <2> HIDE DEF listed
  <2>7. \A t \in Tables : /\ \A i \in DOMAIN listed[t] : poll[listed[t][i]] \in Shown(t)
                          /\ \A i, h \in DOMAIN listed[t] : listed[t][i] = listed[t][h] => i = h
    BY <2>2, ListedFacts
  <2>8. \A t, u1 \in Tables : \A i \in DOMAIN listed[t], h \in DOMAIN listed[u1] :
           listed[t][i] = listed[u1][h] => t = u1 /\ i = h
    <3> SUFFICES ASSUME NEW t \in Tables, NEW u1 \in Tables, NEW i \in DOMAIN listed[t],
                        NEW h \in DOMAIN listed[u1], listed[t][i] = listed[u1][h]
                 PROVE  t = u1 /\ i = h
      OBVIOUS
    <3>1. poll[listed[t][i]] \in Shown(t) /\ poll[listed[t][i]] \in Shown(u1)
      BY <2>7
    <3>2. t = u1
      BY <3>1, <2>4
    <3> QED  BY <3>2, <2>7
  <2> QED  BY <1>1, <2>3, <2>5, <2>8, DrawInv DEF Drawn
<1>2. CASE DrawnEmpty
  <2> DEFINE listed == [t \in Tables |-> <<>>]
  <2>1. listed \in [Tables -> Seq(Jobs)]
    OBVIOUS
  <2>2. \A t, u \in Tables : \A i \in DOMAIN listed[t], h \in DOMAIN listed[u] :
           listed[t][i] = listed[u][h] => t = u /\ i = h
    OBVIOUS
  <2>3. poll # None /\ Draw(listed) /\ picked' = picked
    BY <1>2 DEF DrawnEmpty
  <2> HIDE DEF listed
  <2> QED  BY <2>1, <2>2, <2>3, DrawInv
<1> QED  BY <1>1, <1>2

\* A check mark: no second row is of the job of a mark that goes.
LEMMA ToggledInv ==
  ASSUME TypeOK, PageInv, NEW t \in Tables, NEW i \in DOMAIN rows[t], Toggled(t, i)
  PROVE  PageInv'
<1>1. \A u \in Tables : rows[u] \in Seq(Row)
  BY DEF TypeOK
<1>2. \A u \in Tables : /\ DOMAIN rows'[u] = DOMAIN rows[u]
                        /\ \A h \in DOMAIN rows[u] : rows'[u][h].job = rows[u][h].job
                        /\ \A h \in DOMAIN rows[u] : ~(u = t /\ h = i) =>
                             rows'[u][h].mark = rows[u][h].mark
  BY <1>1 DEF Toggled, TypeOK, Row
<1>3. rows'[t][i].mark = ~rows[t][i].mark
  BY <1>1 DEF Toggled, TypeOK, Row
<1>4. OneRow'
  BY <1>2 DEF PageInv, OneRow
<1>5. ASSUME ~moved' PROVE MarksPicked' /\ LeftMeant'
  <2>1. ~moved /\ click' = click
    BY <1>5 DEF Toggled
  <2>2. LeftMeant'
    BY <2>1 DEF PageInv, LeftMeant
  <2>3. ASSUME NEW u \in Tables, NEW h \in DOMAIN rows'[u], rows'[u][h].mark
        PROVE  rows'[u][h].job \in picked'
    <3>1. CASE u = t /\ h = i
      <4>1. ~rows[t][i].mark
        BY <2>3, <3>1, <1>3
      <4> QED  BY <4>1, <3>1, <1>2 DEF Toggled
    <3>2. CASE ~(u = t /\ h = i)
      <4>1. rows[u][h].mark /\ rows[u][h].job \in picked
        BY <2>3, <3>2, <1>2, <2>1 DEF PageInv, MarksPicked
      <4>2. rows[u][h].job # rows[t][i].job
        BY <3>2, <1>2 DEF PageInv, OneRow
      <4> QED  BY <4>1, <4>2, <1>2 DEF Toggled
    <3> QED  BY <3>1, <3>2
  <2> QED  BY <2>2, <2>3 DEF MarksPicked
<1> QED  BY <1>4, <1>5 DEF PageInv

\* A click is about picked jobs: those of the marked rows, or of one row.
LEMMA BeginsInv ==
  ASSUME TypeOK, PageInv, NEW k \in Clicks, NEW op, NEW jobs, NEW unmark, NEW meant,
         Begins(k, op, jobs, unmark, meant), ~moved => Range(jobs) \subseteq meant,
         UNCHANGED <<rows, picked, moved>>
  PROVE  PageInv'
<1>1. /\ \A m \in Clicks \ {k} : click'[m] = click[m]
      /\ click'[k].left = jobs /\ click'[k].meant = meant
  BY DEF Begins, TypeOK
<1>2. OneRow' /\ (~moved => MarksPicked')
  BY DEF PageInv, OneRow, MarksPicked
<1>3. ~moved => LeftMeant'
  BY <1>1 DEF PageInv, LeftMeant
<1> QED  BY <1>2, <1>3 DEF PageInv

LEMMA ClickedInv ==
  ASSUME TypeOK, PageInv, NEW k \in Clicks, NEW t \in Tables, NEW op \in Ops,
         \/ BatchClicked(k, t, op)
         \/ \E i \in DOMAIN rows[t] : RowClicked(k, t, i, op)
  PROVE  PageInv'
<1>1. rows[t] \in Seq(Row) /\ Checked(t) \subseteq DOMAIN rows[t]
  BY DEF TypeOK, Checked
<1>2. CASE BatchClicked(k, t, op)
  <2>1. PICK f \in Downwards(Checked(t)) :
          Begins(k, op, [n \in DOMAIN f |-> rows[t][f[n]].job],
                 {rows[t][i].job : i \in Checked(t)}, picked)
    BY <1>2 DEF BatchClicked
  <2>2. \A n \in DOMAIN f : f[n] \in Checked(t)
    BY <1>1, DownwardsFacts
  <2>3. ~moved => Range([n \in DOMAIN f |-> rows[t][f[n]].job]) \subseteq picked
    BY <2>2 DEF Range, Checked, PageInv, MarksPicked
  <2> QED  BY <1>2, <2>1, <2>3, BeginsInv DEF BatchClicked
<1>3. ASSUME NEW i \in DOMAIN rows[t], RowClicked(k, t, i, op) PROVE PageInv'
  <2>1. Range(<<rows[t][i].job>>) \subseteq {rows[t][i].job}
    BY DEF Range
  <2> QED  BY <1>3, <2>1, BeginsInv DEF RowClicked
<1> QED  BY <1>2, <1>3

\* The answer of the user, the batches and the answer of the REST API.
LEMMA RequestInv ==
  ASSUME TypeOK, PageInv, NEW k \in Clicks, No(k) \/ Yes(k) \/ Failed(k) \/ Applied(k)
  PROVE  PageInv'
<1>1. UNCHANGED <<rows, picked, moved>>
  BY DEF No, Yes, Failed, Applied
<1>2. \A m \in Clicks \ {k} : click'[m] = click[m]
  BY DEF No, Yes, Failed, Applied, TypeOK
<1>3. Range(click'[k].left) \subseteq Range(click[k].left)
  <2>1. CASE No(k) \/ Failed(k)
    BY <2>1 DEF No, Failed, Free, TypeOK, Range
  <2>2. CASE Yes(k)
    BY <2>2 DEF Yes, TypeOK, Click
  <2>3. CASE Applied(k)
    <3> DEFINE n == IF Len(click[k].left) < BatchSize THEN Len(click[k].left) ELSE BatchSize
    <3>1. click[k].left \in Seq(Jobs)
      BY DEF TypeOK, Click
    <3>2. n \in 0..Len(click[k].left)
      BY <3>1, BoundsAssumption
    <3>3. click'[k].left = Rest(click[k].left, n)
      BY <2>3 DEF Applied, TypeOK, Click
    <3> QED  BY <3>1, <3>2, <3>3, RestFacts
  <2> QED  BY <2>1, <2>2, <2>3
<1>4. click'[k].meant = click[k].meant \/ Range(click'[k].left) = {}
  BY DEF No, Yes, Failed, Applied, Free, TypeOK, Click, Range
<1>5. ~moved => LeftMeant'
  BY <1>2, <1>3, <1>4 DEF PageInv, LeftMeant
<1>6. OneRow' /\ (~moved => MarksPicked')
  BY <1>1 DEF PageInv, OneRow, MarksPicked
<1> QED  BY <1>1, <1>5, <1>6 DEF PageInv

LEMMA AcceptedInv == ASSUME TypeOK, PageInv, NEW k \in Clicks, Accepted(k) PROVE PageInv'
<1> DEFINE J == click[k].unmark
<1>1. moved' = moved /\ picked' = picked \ J
  BY DEF Accepted
<1>2. /\ \A m \in Clicks \ {k} : click'[m] = click[m]
      /\ Range(click'[k].left) = {}
  BY DEF Accepted, Free, TypeOK, Range
<1>3. \A t \in Tables :
         /\ DOMAIN rows'[t] = DOMAIN rows[t]
         /\ \A i \in DOMAIN rows[t] :
              /\ rows'[t][i].job = rows[t][i].job
              /\ rows'[t][i].mark => rows[t][i].mark /\ rows[t][i].job \notin J
  <2>1. \A t \in Tables : rows[t] \in Seq(Row)
    BY DEF TypeOK
  <2>2. \A t \in Tables :
          rows'[t] = [i \in DOMAIN rows[t] |->
            [rows[t][i] EXCEPT !.mark = @ /\ rows[t][i].job \notin J]]
    BY DEF Accepted
  <2>3. \A t \in Tables : \A i \in DOMAIN rows[t] : rows[t][i] \in Row
    BY <2>1
  <2>4. ASSUME NEW t \in Tables, NEW i \in DOMAIN rows[t]
        PROVE  /\ rows'[t][i].job = rows[t][i].job
               /\ rows'[t][i].mark => rows[t][i].mark /\ rows[t][i].job \notin J
    <3> DEFINE r == rows[t][i]
               b == r.mark /\ r.job \notin J
    <3>1. rows'[t][i] = [r EXCEPT !.mark = b]
      BY <2>2
    <3>2. r = [job |-> r.job, st |-> r.st, mark |-> r.mark]
      BY <2>3 DEF Row
    <3> HIDE DEF r, b
    <3>3. rows'[t][i].job = r.job /\ rows'[t][i].mark = b
      BY <3>1, <3>2
    <3>4. b => r.mark /\ r.job \notin J
      BY DEF b
    <3> QED  BY <3>3, <3>4 DEF r
  <2> QED  BY <2>2, <2>4
<1> HIDE DEF J
<1>4. OneRow'
  BY <1>3 DEF PageInv, OneRow
<1>5. ~moved => MarksPicked'
  BY <1>1, <1>3 DEF PageInv, MarksPicked
<1>6. ~moved => LeftMeant'
  BY <1>2 DEF PageInv, LeftMeant
<1> QED  BY <1>1, <1>4, <1>5, <1>6 DEF PageInv

\* Steps that touch neither rows, nor clicks, nor picks.
LEMMA OtherInv == ASSUME PageInv, UNCHANGED <<rows, click, picked, moved>> PROVE PageInv'
BY DEF PageInv, OneRow, MarksPicked, LeftMeant

LEMMA PageInvKept == ASSUME TypeOK, PageInv, [Next]_vars PROVE PageInv'
<1>1. CASE \/ \E j \in Jobs, to \in Statuses : Moved(j, to)
           \/ Asked \/ PollFails \/ UNCHANGED vars
  BY <1>1, OtherInv DEF Moved, Asked, PollFails, vars
<1>2. CASE Drawn \/ DrawnEmpty
  BY <1>2, DrawnInv
<1>3. CASE \E t \in Tables : \E i \in DOMAIN rows[t] : Toggled(t, i)
  BY <1>3, ToggledInv
<1>4. CASE \E k \in Clicks, t \in Tables, op \in Ops :
             \/ BatchClicked(k, t, op)
             \/ \E i \in DOMAIN rows[t] : RowClicked(k, t, i, op)
  BY <1>4, ClickedInv
<1>5. CASE \E k \in Clicks : No(k) \/ Yes(k) \/ Applied(k) \/ Failed(k) \/ Accepted(k)
  BY <1>5, RequestInv, AcceptedInv
<1> QED  BY <1>1, <1>2, <1>3, <1>4, <1>5 DEF Next

\* A batch changes only jobs that were left to do.
LEMMA AppliedToMeant ==
  ASSUME TypeOK, PageInv, ~moved, NEW k \in Clicks, Applied(k),
         NEW j \in Jobs, status'[j] # status[j]
  PROVE  j \in click[k].meant
<1> DEFINE left == click[k].left
           n == IF Len(left) < BatchSize THEN Len(left) ELSE BatchSize
<1>1. left \in Seq(Jobs)
  BY DEF TypeOK, Click
<1>2. n \in 0..Len(left)
  BY <1>1, BoundsAssumption
<1>3. j \in {left[i] : i \in 1..n}
  BY DEF Applied
<1>4. PICK i \in 1..n : j = left[i]
  BY <1>3
<1>5. i \in DOMAIN left
  BY <1>1, <1>2
<1>6. j \in Range(left)
  BY <1>4, <1>5 DEF Range
<1> QED  BY <1>6 DEF PageInv, LeftMeant

\* A confirmed operation changes only jobs the user had checked, and not
\* unchecked, at the click, or the one whose button he pressed, for any number
\* of jobs, of operations under way and of polls in between, as long as no mark
\* has come to another job's row (JobsTable/index.tsx, useBatchActions.ts,
\* useConfirm.tsx, op_jobs).
THEOREM PickedAreOperated == Spec => OnlyPickedAreOperated
<1>1. Init => PageInv
  BY DEF Init, PageInv, OneRow, MarksPicked, LeftMeant, Free, Range
<1>2. TypeOK /\ PageInv /\ [Next]_vars => PageInv'
  BY PageInvKept
<1>3. TypeOK /\ PageInv /\ [Next]_vars
        => [\A k \in Clicks : ~moved /\ Applied(k) =>
              \A j \in Jobs : status'[j] # status[j] => j \in click[k].meant]_vars
  BY AppliedToMeant
<1>4. Spec => []TypeOK
  BY PageTypeCorrect
<1> QED  BY <1>1, <1>2, <1>3, <1>4, PTL DEF Spec, OnlyPickedAreOperated

=============================================================================
