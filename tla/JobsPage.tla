------------------------------ MODULE JobsPage ------------------------------
(***************************************************************************)
(* The jobs page of the dashboard (src/dashboard): tables of the active    *)
(* jobs that a poll redraws every few seconds, check marks on their rows,  *)
(* and buttons that, once the user has confirmed, send an operation on the *)
(* checked jobs to the REST API.                                           *)
(*                                                                         *)
(* A mark is kept with the position of its row: when a poll is drawn, the  *)
(* new row at an index takes the mark of the row that was there. The jobs  *)
(* at the click are those of the request, however often the tables are     *)
(* redrawn before the user has answered.                                   *)
(*                                                                         *)
(* Abstracted: "queued" also stands for scheduling, and "over" for killing *)
(* and every final status, which no table with buttons shows; a submission *)
(* is a job that comes to a table, like any other that changes its status; *)
(* what the managers of JobLifecycle write is a move of the status alone;  *)
(* the race of two operations between the reading and the writing of       *)
(* op_job is in JobLifecycle, here one batch is one step.                  *)
(***************************************************************************)
EXTENDS Naturals, Sequences, FiniteSets, SequencesExt

CONSTANTS
  Jobs,
  Ops,        \* the operations the user makes use of
  Begun,      \* the status of the jobs when the page is opened
  Clicks,     \* operations the user may have under way at the same time
  BatchSize,  \* op_jobs: how many jobs are read and written at once
  None,       \* no answer to draw
  MaxSetbacks, \* bound: moves of a job that are not onward
  MaxClicks,   \* bound: operations begun
  MaxFaults,   \* bound: failed requests and polls
  MaxEvents    \* bound: all three together

ASSUME OpsAssumption == Ops \subseteq {"approve", "pause", "resume", "kill"}

ASSUME BoundsAssumption ==
  /\ BatchSize \in Nat \ {0}
  /\ MaxSetbacks \in Nat /\ MaxClicks \in Nat /\ MaxFaults \in Nat
  /\ MaxEvents \in Nat

VARIABLES
  status,   \* jobs table
  rows,     \* per table of the page: the rows as drawn
  poll,     \* the statuses in an answer that is not drawn yet
  click,    \* the operations under way
  picked,   \* history: the jobs the user has checked and not unchecked
  moved,    \* history: a check mark has come to another job's row
  setbacks, clicks, faults  \* what is used of the bounds

vars == <<status, rows, poll, click, picked, moved, setbacks, clicks, faults>>

(***************************************************************************)
(* Values                                                                  *)
(***************************************************************************)

Statuses == {"unapproved", "queued", "running", "pausing", "paused", "over"}

Tables == {"Unapproved", "Pending", "Running", "Paused"}

\* ACTIVE_STATUSES: the table a job is drawn in.
Shown(t) ==
  CASE t = "Unapproved" -> {"unapproved"}
    [] t = "Pending"    -> {"queued"}
    [] t = "Running"    -> {"running"}
    [] t = "Paused"     -> {"pausing", "paused"}

\* The statuses for which the page shows the button of an operation.
Offered(op) ==
  CASE op = "approve" -> {"unapproved"}
    [] op = "pause"   -> {"queued", "running"}
    [] op = "resume"  -> {"paused"}
    [] op = "kill"    -> {"unapproved", "queued", "running", "pausing", "paused"}

\* Those the REST API allows it from, and the one it writes.
From(op) ==
  IF op = "pause" THEN {"unapproved"} \cup Offered(op) ELSE Offered(op)

To(op) ==
  CASE op = "approve" -> "queued"
    [] op = "pause"   -> "pausing"
    [] op = "resume"  -> "unapproved"
    [] op = "kill"    -> "over"

ASSUME JobsAssumption == IsFiniteSet(Jobs) /\ Begun \in Statuses

Row == [job : Jobs, st : Statuses, mark : BOOLEAN]

\* left: what the request has yet to do; unmark: the jobs whose rows of the
\* click lose their marks in the end, as long as those are the page's rows;
\* meant (history): the jobs the user had picked.
Click == [phase : {"free", "dialog", "sent", "done"}, op : Ops \cup {"none"},
          left : Seq(Jobs), unmark : SUBSET Jobs, meant : SUBSET Jobs]

Free == [phase |-> "free", op |-> "none", left |-> <<>>, unmark |-> {},
         meant |-> {}]

TypeOK ==
  /\ status \in [Jobs -> Statuses]
  /\ rows \in [Tables -> Seq(Row)]
  /\ poll \in [Jobs -> Statuses] \cup {None}
  /\ click \in [Clicks -> Click]
  /\ picked \subseteq Jobs /\ moved \in BOOLEAN
  /\ setbacks \in 0..MaxSetbacks /\ clicks \in 0..MaxClicks /\ faults \in 0..MaxFaults

Init ==
  /\ status = [j \in Jobs |-> Begun]
  /\ rows = [t \in Tables |-> <<>>]
  /\ poll = None
  /\ click = [k \in Clicks |-> Free]
  /\ picked = {} /\ moved = FALSE
  /\ setbacks = 0 /\ clicks = 0 /\ faults = 0

MoreEvents == setbacks + clicks + faults < MaxEvents

Fault == faults < MaxFaults /\ MoreEvents /\ faults' = faults + 1

-----------------------------------------------------------------------------
(***************************************************************************)
(* What the managers do                                                    *)
(***************************************************************************)

\* A pass works the job off,
Onward == {<<"unapproved", "queued">>, <<"queued", "running">>,
           <<"running", "over">>, <<"pausing", "paused">>}

\* or queues it anew, ends it, or reports what it saw some time ago over
\* whatever the status has become.
Setbacks ==
  ({"queued", "running", "pausing", "paused", "over"} \X
     {"queued", "running", "paused", "over"}) \ Onward

Moved(j, to) ==
  /\ to # status[j]
  /\ \/ <<status[j], to>> \in Onward /\ UNCHANGED setbacks
     \/ /\ <<status[j], to>> \in Setbacks
        /\ setbacks < MaxSetbacks /\ MoreEvents /\ setbacks' = setbacks + 1
  /\ status' = [status EXCEPT ![j] = to]
  /\ UNCHANGED <<rows, poll, click, picked, moved, clicks, faults>>

-----------------------------------------------------------------------------
(***************************************************************************)
(* Polls. The query has no order of its own: MySQL drops the ORDER BY of   *)
(* the parts of a UNION, so the active jobs come in any order.             *)
(***************************************************************************)

Asked ==
  /\ poll = None
  /\ poll' = status
  /\ UNCHANGED <<status, rows, click, picked, moved, setbacks, clicks, faults>>

Fresh(jobs) == [i \in DOMAIN jobs |->
                  [job |-> jobs[i], st |-> poll[jobs[i]], mark |-> FALSE]]

MergeKeepsTail(old, new) ==
  [i \in 1..(IF Len(old) > Len(new) THEN Len(old) ELSE Len(new)) |->
     IF i > Len(new) THEN old[i]
     ELSE IF i \in DOMAIN old THEN [new[i] EXCEPT !.mark = old[i].mark]
     ELSE new[i]]

MergeTakesLast(old, new) ==
  [i \in DOMAIN new |->
     IF old # <<>> /\ i >= Len(old)
     THEN [new[i] EXCEPT !.mark = Last(old).mark]
     ELSE IF i \in DOMAIN old THEN [new[i] EXCEPT !.mark = old[i].mark]
     ELSE new[i]]

MergeNoDefault(old, new) ==
  [i \in DOMAIN new |->
     [new[i] EXCEPT !.mark = IF i \in DOMAIN old THEN old[i].mark ELSE None]]

\* zipWith: the new rows, with the marks of the old ones at their places.
Merge(old, new) ==
  [i \in DOMAIN new |->
     IF i \in DOMAIN old THEN [new[i] EXCEPT !.mark = old[i].mark] ELSE new[i]]

\* A table without jobs is not drawn at all, and begins anew later.
Draw(listed) ==
  /\ rows' = [t \in Tables |-> Merge(rows[t], Fresh(listed[t]))]
  /\ moved' = (moved \/ \E t \in Tables : \E i \in DOMAIN rows[t] :
                 /\ i \in DOMAIN rows'[t]
                 /\ rows[t][i].mark
                 /\ rows[t][i].job # rows'[t][i].job)
  /\ click' = [k \in Clicks |-> [click[k] EXCEPT !.unmark = {}]]
  /\ poll' = None

\* The jobs of a table, in any order.
Listed(t) == SetToSeqs({j \in Jobs : poll[j] \in Shown(t)})

Drawn ==
  /\ poll # None
  /\ \E u \in Listed("Unapproved"), q \in Listed("Pending"),
        r \in Listed("Running"), p \in Listed("Paused") :
       Draw([t \in Tables |-> CASE t = "Unapproved" -> u [] t = "Pending" -> q
                                [] t = "Running" -> r [] t = "Paused" -> p])
  /\ UNCHANGED <<status, picked, setbacks, clicks, faults>>

\* The request fails: the page keeps what it shows and asks again.
PollFails ==
  /\ poll # None /\ Fault
  /\ poll' = None
  /\ UNCHANGED <<status, rows, click, picked, moved, setbacks, clicks>>

\* The query fails: get_job_list answers with no jobs at all.
DrawnEmpty ==
  /\ poll # None /\ Fault
  /\ Draw([t \in Tables |-> <<>>])
  /\ UNCHANGED <<status, picked, setbacks, clicks>>

-----------------------------------------------------------------------------
(***************************************************************************)
(* The user. The confirmation is modal: one at a time, nothing beside it.  *)
(***************************************************************************)

NoDialog == \A k \in Clicks : click[k].phase # "dialog"

Toggled(t, i) ==
  /\ NoDialog
  /\ rows' = [rows EXCEPT ![t][i].mark = ~@]
  /\ picked' = IF rows[t][i].mark THEN picked \ {rows[t][i].job}
               ELSE picked \cup {rows[t][i].job}
  /\ UNCHANGED <<status, poll, click, moved, setbacks, clicks, faults>>

Begins(k, op, jobs, unmark, meant) ==
  /\ NoDialog
  /\ click[k].phase = "free"
  /\ clicks < MaxClicks /\ MoreEvents
  /\ clicks' = clicks + 1
  /\ click' = [click EXCEPT ![k] =
       [phase |-> "dialog", op |-> op, left |-> jobs, unmark |-> unmark,
        meant |-> meant]]

Checked(t) == {i \in DOMAIN rows[t] : rows[t][i].mark}

\* A set of places, from top to bottom.
Downwards(I) ==
  {f \in [1..Cardinality(I) -> I] : \A a, b \in DOMAIN f : a < b => f[a] < f[b]}

\* A button above the table, offered if it is for every checked row.
BatchClicked(k, t, op) ==
  /\ Checked(t) # {}
  /\ \A i \in Checked(t) : rows[t][i].st \in Offered(op)
  /\ \E f \in Downwards(Checked(t)) :
       Begins(k, op, [n \in DOMAIN f |-> rows[t][f[n]].job],
              {rows[t][i].job : i \in Checked(t)}, picked)
  /\ UNCHANGED <<status, rows, poll, picked, moved, setbacks, faults>>

\* A button of a row.
RowClicked(k, t, i, op) ==
  /\ rows[t][i].st \in Offered(op)
  /\ Begins(k, op, <<rows[t][i].job>>, {}, {rows[t][i].job})
  /\ UNCHANGED <<status, rows, poll, picked, moved, setbacks, faults>>

No(k) ==
  /\ click[k].phase = "dialog"
  /\ click' = [click EXCEPT ![k] = Free]
  /\ UNCHANGED <<status, rows, poll, picked, moved, setbacks, clicks, faults>>

Yes(k) ==
  /\ click[k].phase = "dialog"
  /\ click' = [click EXCEPT ![k].phase = "sent"]
  /\ UNCHANGED <<status, rows, poll, picked, moved, setbacks, clicks, faults>>

-----------------------------------------------------------------------------
(***************************************************************************)
(* The request: op_job for one job; op_jobs takes one batch after another. *)
(***************************************************************************)

Rest(s, n) == SubSeq(s, n + 1, Len(s))

Applied(k) ==
  LET c == click[k]
      n == IF Len(c.left) < BatchSize THEN Len(c.left) ELSE BatchSize
      B == {c.left[i] : i \in 1..n}
  IN  /\ c.phase = "sent"
      /\ status' = [j \in Jobs |->
                      IF j \in B /\ status[j] \in From(c.op)
                      THEN To(c.op) ELSE status[j]]
      /\ click' = [click EXCEPT ![k].left = Rest(c.left, n),
                     ![k].phase = IF Len(c.left) = n THEN "done" ELSE "sent"]
      /\ UNCHANGED <<rows, poll, picked, moved, setbacks, clicks, faults>>

\* The REST API or the dashboard fails, or the answer is lost.
Failed(k) ==
  /\ click[k].phase \in {"sent", "done"} /\ Fault
  /\ click' = [click EXCEPT ![k] = Free]
  /\ UNCHANGED <<status, rows, poll, picked, moved, setbacks, clicks>>

\* deselectAllJobs works on the rows of the click: those of the page if no
\* poll was drawn since.
Accepted(k) ==
  LET c == click[k]
  IN  /\ c.phase = "done"
      /\ click' = [click EXCEPT ![k] = Free]
      /\ rows' = [t \in Tables |-> [i \in DOMAIN rows[t] |->
                    [rows[t][i] EXCEPT !.mark =
                       @ /\ rows[t][i].job \notin c.unmark]]]
      /\ picked' = picked \ c.unmark
      /\ UNCHANGED <<status, poll, moved, setbacks, clicks, faults>>

-----------------------------------------------------------------------------

PageStep == Asked \/ Drawn

Next ==
  \/ \E j \in Jobs, to \in Statuses : Moved(j, to)
  \/ Asked \/ Drawn \/ PollFails \/ DrawnEmpty
  \/ \E t \in Tables : \E i \in DOMAIN rows[t] : Toggled(t, i)
  \/ \E k \in Clicks, t \in Tables, op \in Ops :
       \/ BatchClicked(k, t, op)
       \/ \E i \in DOMAIN rows[t] : RowClicked(k, t, i, op)
  \/ \E k \in Clicks : No(k) \/ Yes(k) \/ Applied(k) \/ Failed(k) \/ Accepted(k)

Spec == Init /\ [][Next]_vars

\* The timer of the page: an answer is followed by the next poll.
FairSpec == Spec /\ WF_vars(PageStep)

-----------------------------------------------------------------------------
(***************************************************************************)
(* Properties                                                              *)
(***************************************************************************)

\* A confirmed operation changes nobody's job but those the user had checked,
\* and not unchecked, when he clicked, or the one whose button he pressed,
\* whatever is drawn between the check, the click, the confirmation and each
\* batch of the request, as long as no mark has come to another job's row
\* (JobsTable/index.tsx, useBatchActions.ts, useConfirm.tsx, op_jobs).
OnlyPickedAreOperated ==
  [][\A k \in Clicks : ~moved /\ Applied(k) =>
       \A j \in Jobs : status'[j] # status[j] => j \in click[k].meant]_vars

\* The job is drawn with its status, in its table and in no other.
Agrees(j, s) ==
  \A t \in Tables :
    IF s \in Shown(t)
    THEN \E i \in DOMAIN rows[t] : rows[t][i].job = j /\ rows[t][i].st = s
    ELSE \A i \in DOMAIN rows[t] : rows[t][i].job # j

\* Once the statuses no longer change, the page comes to show them and keeps
\* to it, after failed and empty answers, tables that shrink and tables that
\* were gone (JobsTable/index.tsx, MyJobs.tsx).
PageCatchesUp ==
  <>[][FALSE]_status => <>[](\A j \in Jobs : Agrees(j, status[j]))

=============================================================================
