-------------------------- MODULE JobGreedyProofs ---------------------------
(***************************************************************************)
(* For all jobs, VCs, resources and cluster statuses: the verdict of a pass *)
(* is the greedy one, what the passes put on the cluster fits in it, and    *)
(* passes that nobody disturbs come to the same verdict.                    *)
(***************************************************************************)
EXTENDS JobSchedulerProofs

(***************************************************************************)
(* Totals. A total is a fold over a set. Its function exists, and has the   *)
(* properties of a sum, by arguments over a minimal counterexample: finite  *)
(* sets of jobs are well-founded under inclusion.                           *)
(***************************************************************************)

IsSum(r, S, g) ==
  g = [s \in SUBSET S |->
         IF s = {} THEN 0
         ELSE LET x == CHOOSE x \in s : TRUE
              IN  job_resource(x)[r] + g[s \ {x}]]

LEMMA TotalDef ==
  ASSUME NEW S, NEW r \in Resources
  PROVE  Total(S)[r] = (CHOOSE g : IsSum(r, S, g))[S]
BY DEF Total, MapThenSumSet, MapThenFoldSet, IsSum

\* Among the sets of jobs with some property there is a minimal one.
LEMMA MinimalSet ==
  ASSUME NEW X, X \subseteq SUBSET Jobs, X # {}
  PROVE  \E S \in X : \A T \in X : ~(T \subseteq S /\ T # S)
<1>1. IsFiniteSet(Jobs)
  BY ParametersAssumption
<1>2. FiniteSubsetsOf(Jobs) = SUBSET Jobs
  BY <1>1, FS_FiniteSubsetsOfFinite
<1>3. IsWellFoundedOn(StrictSubsetOrdering(Jobs), SUBSET Jobs)
  BY <1>2, FS_StrictSubsetOrderingWellFounded
<1>4. PICK S \in X : \A T \in X : <<T, S>> \notin StrictSubsetOrdering(Jobs)
  BY <1>3, WFMin
<1>5. ASSUME NEW T \in X PROVE ~(T \subseteq S /\ T # S)
  BY <1>4 DEF StrictSubsetOrdering
<1>6. QED
  BY <1>5

\* Two such functions agree where both are defined.
LEMMA SumUnique ==
  ASSUME NEW r, NEW S \in SUBSET Jobs, NEW T \in SUBSET Jobs,
         NEW g, IsSum(r, S, g), NEW h, IsSum(r, T, h),
         NEW U \in SUBSET (S \cap T)
  PROVE  g[U] = h[U]
<1> DEFINE X == {V \in SUBSET (S \cap T) : g[V] # h[V]}
<1> SUFFICES ASSUME X # {} PROVE FALSE
  OBVIOUS
<1>1. PICK V \in X : \A W \in X : ~(W \subseteq V /\ W # V)
  <2>1. X \subseteq SUBSET Jobs
    OBVIOUS
  <2> HIDE DEF X
  <2>2. QED
    BY <2>1, MinimalSet
<1>2. V \in SUBSET S /\ V \in SUBSET T /\ g[V] # h[V]
  OBVIOUS
<1>3. V # {}
  <2>1. V = {} => g[V] = 0
    BY <1>2 DEF IsSum
  <2>2. V = {} => h[V] = 0
    BY <1>2 DEF IsSum
  <2>3. QED
    BY <1>2, <2>1, <2>2
<1> DEFINE x == CHOOSE x \in V : TRUE
<1>4. x \in V
  BY <1>3
<1>5. g[V \ {x}] = h[V \ {x}]
  <2>1. V \ {x} \subseteq V /\ V \ {x} # V
    BY <1>4
  <2>2. V \ {x} \notin X
    BY <2>1, <1>1
  <2>3. V \ {x} \in SUBSET (S \cap T)
    BY <1>2
  <2>4. QED
    BY <2>2, <2>3
<1>6. g[V] = job_resource(x)[r] + g[V \ {x}]
  BY <1>2, <1>3 DEF IsSum
<1>7. h[V] = job_resource(x)[r] + h[V \ {x}]
  BY <1>2, <1>3 DEF IsSum
<1>8. QED
  BY <1>2, <1>5, <1>6, <1>7

SumFn(r, S) == CHOOSE g : IsSum(r, S, g)

LEMMA SumExists ==
  ASSUME NEW r, NEW S \in SUBSET Jobs
  PROVE  IsSum(r, S, SumFn(r, S))
<1> DEFINE X == {V \in SUBSET Jobs : ~ IsSum(r, V, SumFn(r, V))}
<1> SUFFICES ASSUME X # {} PROVE FALSE
  OBVIOUS
<1>1. PICK V \in X : \A W \in X : ~(W \subseteq V /\ W # V)
  <2>1. X \subseteq SUBSET Jobs
    OBVIOUS
  <2> HIDE DEF X
  <2>2. QED
    BY <2>1, MinimalSet
<1> HIDE DEF X
<1>1a. V \in SUBSET Jobs
  BY DEF X
<1>2. \A W \in SUBSET V : W # V => IsSum(r, W, SumFn(r, W))
  BY <1>1, <1>1a DEF X
<1> DEFINE x(s) == CHOOSE x \in s : TRUE
           G == [s \in SUBSET V |-> IF s = {} THEN 0
                   ELSE job_resource(x(s))[r] + SumFn(r, s \ {x(s)})[s \ {x(s)}]]
<1>3. ASSUME NEW s \in SUBSET V, s # V
      PROVE  G[s] = SumFn(r, s)[s]
  <2>1. IsSum(r, s, SumFn(r, s))
    BY <1>2, <1>3
  <2>2. CASE s = {}
    <3>1. SumFn(r, s)[s] = 0
      BY <2>1, <2>2 DEF IsSum
    <3>2. G[s] = 0
      BY <2>2
    <3>3. QED
      BY <3>1, <3>2
  <2>3. CASE s # {}
    <3>0. x(s) \in s
      BY <2>3
    <3>1. SumFn(r, s)[s] = job_resource(x(s))[r] + SumFn(r, s)[s \ {x(s)}]
      BY <2>1, <2>3 DEF IsSum
    <3>2. IsSum(r, s \ {x(s)}, SumFn(r, s \ {x(s)}))
      <4>1. s \ {x(s)} \in SUBSET V /\ s \ {x(s)} # V
        BY <3>0
      <4>2. QED
        BY <4>1, <1>2
    <3>3. SumFn(r, s \ {x(s)})[s \ {x(s)}] = SumFn(r, s)[s \ {x(s)}]
      <4> HIDE DEF x
      <4>1. s \in SUBSET Jobs /\ s \ {x(s)} \in SUBSET Jobs
        BY <1>1a
      <4>2. s \ {x(s)} \in SUBSET ((s \ {x(s)}) \cap s)
        OBVIOUS
      <4>3. QED
        BY <4>1, <4>2, <3>2, <2>1, SumUnique
    <3>4. G[s] = job_resource(x(s))[r] + SumFn(r, s \ {x(s)})[s \ {x(s)}]
      BY <2>3
    <3> HIDE DEF G, x
    <3>5. QED
      BY <3>1, <3>3, <3>4
  <2>4. QED
    BY <2>2, <2>3
<1>4. ASSUME NEW s \in SUBSET V
      PROVE  G[s] = IF s = {} THEN 0 ELSE job_resource(x(s))[r] + G[s \ {x(s)}]
  <2>1. CASE s = {}
    BY <2>1
  <2>2. CASE s # {}
    <3>0. x(s) \in s
      BY <2>2
    <3>1. G[s] = job_resource(x(s))[r] + SumFn(r, s \ {x(s)})[s \ {x(s)}]
      BY <2>2
    <3>2. s \ {x(s)} \in SUBSET V /\ s \ {x(s)} # V
      BY <3>0
    <3> HIDE DEF G, x
    <3>3. G[s \ {x(s)}] = SumFn(r, s \ {x(s)})[s \ {x(s)}]
      BY <1>3, <3>2
    <3>4. QED
      BY <2>2, <3>1, <3>3
  <2>3. QED
    BY <2>1, <2>2
<1>5. IsSum(r, V, G)
  <2>1. G = [s \in SUBSET V |-> G[s]]
    OBVIOUS
  <2>2. [s \in SUBSET V |-> G[s]]
          = [s \in SUBSET V |-> IF s = {} THEN 0 ELSE job_resource(x(s))[r] + G[s \ {x(s)}]]
    <3> HIDE DEF G, x
    <3>1. QED
      BY <1>4
  <2>3. G = [s \in SUBSET V |-> IF s = {} THEN 0 ELSE job_resource(x(s))[r] + G[s \ {x(s)}]]
    <3> HIDE DEF G, x
    <3>1. QED
      BY <2>1, <2>2
  <2> HIDE DEF G
  <2>4. QED
    BY <2>3 DEF IsSum
<1> HIDE DEF G
<1>6. IsSum(r, V, SumFn(r, V))
  BY <1>5 DEF SumFn
<1>7. QED
  BY <1>6 DEF X

\* The facts about totals that the rest of the module uses.
LEMMA TotalEmpty == \A r \in Resources : Total({})[r] = 0
<1> TAKE r \in Resources
<1>1. IsSum(r, {}, SumFn(r, {}))
  BY SumExists
<1>2. SumFn(r, {})[{}] = 0
  BY <1>1 DEF IsSum
<1>3. QED
  BY <1>2, TotalDef DEF SumFn

LEMMA TotalChoose ==
  ASSUME NEW S \in SUBSET Jobs, S # {}, NEW r \in Resources
  PROVE  LET x == CHOOSE x \in S : TRUE
         IN  Total(S)[r] = job_resource(x)[r] + Total(S \ {x})[r]
<1> DEFINE x == CHOOSE x \in S : TRUE
<1>1. IsSum(r, S, SumFn(r, S))
  BY SumExists
<1>2. SumFn(r, S)[S] = job_resource(x)[r] + SumFn(r, S)[S \ {x}]
  BY <1>1 DEF IsSum
<1> HIDE DEF x
<1>3. S \ {x} \in SUBSET Jobs
  OBVIOUS
<1>4. IsSum(r, S \ {x}, SumFn(r, S \ {x}))
  BY <1>3, SumExists
<1>5. S \ {x} \in SUBSET (S \cap (S \ {x}))
  OBVIOUS
<1>6. SumFn(r, S)[S \ {x}] = SumFn(r, S \ {x})[S \ {x}]
  BY <1>1, <1>3, <1>4, <1>5, SumUnique
<1>7. Total(S)[r] = SumFn(r, S)[S] /\ Total(S \ {x})[r] = SumFn(r, S \ {x})[S \ {x}]
  BY TotalDef DEF SumFn
<1>8. Total(S)[r] = job_resource(x)[r] + Total(S \ {x})[r]
  BY <1>2, <1>6, <1>7
<1>9. QED
  BY <1>8 DEF x

LEMMA TotalNat == \A S \in SUBSET Jobs : \A r \in Resources : Total(S)[r] \in Nat
<1> SUFFICES ASSUME NEW r \in Resources
             PROVE  \A S \in SUBSET Jobs : Total(S)[r] \in Nat
  OBVIOUS
<1> DEFINE X == {V \in SUBSET Jobs : Total(V)[r] \notin Nat}
<1> SUFFICES ASSUME X # {} PROVE FALSE
  OBVIOUS
<1>1. PICK V \in X : \A W \in X : ~(W \subseteq V /\ W # V)
  <2>1. X \subseteq SUBSET Jobs
    OBVIOUS
  <2> HIDE DEF X
  <2>2. QED
    BY <2>1, MinimalSet
<1>2. V # {}
  BY TotalEmpty
<1> DEFINE x == CHOOSE x \in V : TRUE
<1>3. x \in V
  BY <1>2
<1>4. Total(V)[r] = job_resource(x)[r] + Total(V \ {x})[r]
  BY <1>2, TotalChoose
<1> HIDE DEF x
<1>5. V \ {x} \notin X
  BY <1>1, <1>3
<1>6. Total(V \ {x})[r] \in Nat
  BY <1>5
<1>7. job_resource(x)[r] \in Nat
  BY <1>3, AmountFacts DEF Amount
<1>8. QED
  BY <1>4, <1>6, <1>7

LEMMA TotalRemove ==
  ASSUME NEW S \in SUBSET Jobs, NEW j \in S, NEW r \in Resources
  PROVE  Total(S)[r] = job_resource(j)[r] + Total(S \ {j})[r]
<1> DEFINE X == {V \in SUBSET Jobs : \E k \in V :
                   Total(V)[r] # job_resource(k)[r] + Total(V \ {k})[r]}
<1> SUFFICES ASSUME X # {} PROVE FALSE
  OBVIOUS
<1>1. PICK V \in X : \A W \in X : ~(W \subseteq V /\ W # V)
  <2>1. X \subseteq SUBSET Jobs
    OBVIOUS
  <2> HIDE DEF X
  <2>2. QED
    BY <2>1, MinimalSet
<1>2. PICK k \in V : Total(V)[r] # job_resource(k)[r] + Total(V \ {k})[r]
  OBVIOUS
<1>0. V \in SUBSET Jobs
  OBVIOUS
<1> DEFINE x == CHOOSE x \in V : TRUE
<1>3. x \in V
  OBVIOUS
<1>4. Total(V)[r] = job_resource(x)[r] + Total(V \ {x})[r]
  BY TotalChoose
<1> HIDE DEF x
<1>5. k # x
  BY <1>2, <1>4
<1>6. Total(V \ {x})[r] = job_resource(k)[r] + Total((V \ {x}) \ {k})[r]
  <2>1. V \ {x} \notin X
    BY <1>1, <1>3
  <2>2. QED
    BY <2>1, <1>5, <1>0
<1>7. Total(V \ {k})[r] = job_resource(x)[r] + Total((V \ {k}) \ {x})[r]
  <2>1. V \ {k} \notin X
    BY <1>1, <1>2
  <2>2. QED
    BY <2>1, <1>5, <1>0, <1>3
<1>8. (V \ {k}) \ {x} = (V \ {x}) \ {k}
  OBVIOUS
<1> HIDE DEF X
<1>9. /\ job_resource(x)[r] \in Nat /\ job_resource(k)[r] \in Nat
      /\ Total((V \ {k}) \ {x})[r] \in Nat
  BY <1>0, <1>3, AmountFacts, TotalNat DEF Amount
<1>10. Total((V \ {k}) \ {x})[r] = Total((V \ {x}) \ {k})[r]
  BY <1>8
<1> DEFINE m == Total((V \ {k}) \ {x})[r]
           kr == job_resource(k)[r]
           xr == job_resource(x)[r]
<1>11. Total(V)[r] = xr + (kr + m)
  BY <1>4, <1>6, <1>10
<1>12. Total(V \ {k})[r] = xr + m
  BY <1>7
<1>13. xr \in Nat /\ kr \in Nat /\ m \in Nat
  BY <1>9
<1> HIDE DEF m, kr, xr
<1>14. Total(V)[r] = kr + Total(V \ {k})[r]
  BY <1>11, <1>12, <1>13
<1>15. QED
  BY <1>2, <1>14 DEF kr

LEMMA TotalAdd ==
  ASSUME NEW S \in SUBSET Jobs, NEW j \in Jobs \ S, NEW r \in Resources
  PROVE  Total(S \cup {j})[r] = job_resource(j)[r] + Total(S)[r]
<1>1. (S \cup {j}) \ {j} = S
  OBVIOUS
<1>2. S \cup {j} \in SUBSET Jobs /\ j \in S \cup {j}
  OBVIOUS
<1>3. QED
  BY <1>1, <1>2, TotalRemove

LEMMA TotalMonotone ==
  ASSUME NEW T \in SUBSET Jobs, NEW S \in SUBSET T, NEW r \in Resources
  PROVE  Total(S)[r] <= Total(T)[r]
<1> DEFINE X == {V \in SUBSET Jobs : S \subseteq V /\ ~(Total(S)[r] <= Total(V)[r])}
<1> SUFFICES ASSUME X # {} PROVE FALSE
  OBVIOUS
<1>1. PICK V \in X : \A W \in X : ~(W \subseteq V /\ W # V)
  <2>1. X \subseteq SUBSET Jobs
    OBVIOUS
  <2> HIDE DEF X
  <2>2. QED
    BY <2>1, MinimalSet
<1>2. V \in SUBSET Jobs /\ S \subseteq V /\ ~(Total(S)[r] <= Total(V)[r])
  OBVIOUS
<1>3. Total(S)[r] \in Nat /\ Total(V)[r] \in Nat
  BY <1>2, TotalNat
<1>4. V # S
  BY <1>2, <1>3
<1>5. PICK k \in V \ S : TRUE
  BY <1>2, <1>4
<1>6. Total(V)[r] = job_resource(k)[r] + Total(V \ {k})[r]
  BY <1>2, TotalRemove
<1>7. V \ {k} \notin X
  BY <1>1, <1>5
<1>8. Total(S)[r] <= Total(V \ {k})[r]
  BY <1>2, <1>5, <1>7
<1> HIDE DEF X
<1>9. Total(V \ {k})[r] \in Nat /\ job_resource(k)[r] \in Nat
  BY <1>2, TotalNat, AmountFacts DEF Amount
<1>10. QED
  BY <1>2, <1>3, <1>6, <1>8, <1>9
-----------------------------------------------------------------------------
(***************************************************************************)
(* The inductive invariant of a pass                                       *)
(***************************************************************************)

Looping == {"nonpreemptible", "preemptible", "act"}

\* A job's place in the list by what no pass changes: the sort puts the
\* non-preemptible jobs first and, among jobs that are alike in this, those that
\* are queued last.
InOrder(j, k) ==
  /\ j # k
  /\ j \in Preemptible => k \in Preemptible
  /\ (j \in Preemptible <=> k \in Preemptible) /\ rows[j].status = "queued"
       => rows[k].status = "queued"

\* The jobs of J, each once and in order.
Lists(s, J) ==
  /\ \A h, i \in DOMAIN s : h < i => InOrder(s[h], s[i])
  /\ \A i \in DOMAIN s : s[i] \in J
  /\ \A j \in J : \E i \in DOMAIN s : s[i] = j

\* The list is the jobs fetched, in order, once the loops run, and empty before.
ListInv ==
  /\ phase \in Looping => Lists(jobs_info, {j \in Jobs : rows[j] # None})
  /\ phase \notin Looping => jobs_info = <<>> /\ allowed = {}

\* What is left and what the allowed jobs were given is what the pass began with.
Ledger ==
  phase \in Looping \cup {"sort"} =>
    /\ given.cluster \in Amount
    /\ DOMAIN given.vcs = DOMAIN vc_schedulables
    /\ \A v \in DOMAIN given.vcs : given.vcs[v] \in Amount
    /\ \A r \in Resources :
         /\ cluster_schedulable[r] + Total(allowed)[r] = given.cluster[r]
         /\ \A v \in DOMAIN given.vcs :
              vc_schedulables[v][r] + Total(InVC(allowed, v))[r] = given.vcs[v][r]

\* Every job considered so far got its due, and no other job is allowed.
VerdictInv ==
  /\ \A i \in DOMAIN jobs_info : Considered(i) => Greedy(i)
  /\ \A j \in allowed : \E i \in DOMAIN jobs_info : jobs_info[i] = j /\ Considered(i)

PassInv == ListInv /\ Ledger /\ VerdictInv

\* The sort lists each job once, and in order.
LEMMA SortedFacts ==
  ASSUME TypeOK, NEW J \in SUBSET Jobs, \A j \in J : rows[j] # None,
         NEW priority_of, NEW s \in SortedLists(J, priority_of)
  PROVE  Lists(s, J)
<1>1. IsFiniteSet(J) /\ Cardinality(J) \in Nat
  BY ParametersAssumption, FS_Subset, FS_CardinalityType
<1>2. /\ s \in [1..Cardinality(J) -> J]
      /\ \A h, i \in DOMAIN s :
           h < i => /\ s[h] # s[i]
                    /\ ~Precedes(SortKey(s[i], priority_of), SortKey(s[h], priority_of))
  BY DEF SortedLists
<1>3. ASSUME NEW h \in DOMAIN s, NEW i \in DOMAIN s, h < i
      PROVE  InOrder(s[h], s[i])
  <2> DEFINE j == s[h]
             k == s[i]
  <2>1. /\ j \in Jobs /\ k \in Jobs /\ j # k
        /\ ~Precedes(SortKey(k, priority_of), SortKey(j, priority_of))
    BY <1>2, <1>3
  <2>2. /\ rows[j].status \in {"queued", "scheduling", "running"}
        /\ rows[k].status \in {"queued", "scheduling", "running"}
    BY <1>2 DEF TypeOK, RoundType, Row, Statuses
  <2> DEFINE a == SortKey(k, priority_of)
             b == SortKey(j, priority_of)
  <2>3. ~(a[1] < b[1]) /\ ~(a[2] < b[2] /\ a[1] = b[1])
    BY <2>1 DEF Precedes
  <2>4. /\ a[1] = (IF k \in Preemptible THEN 1 ELSE 0)
        /\ b[1] = (IF j \in Preemptible THEN 1 ELSE 0)
    BY DEF SortKey
  <2>5. /\ rows[k].status = "queued" => a[2] = 2
        /\ rows[k].status # "queued" => a[2] \in {0, 1}
        /\ rows[j].status = "queued" => b[2] = 2
    BY <2>2 DEF SortKey
  <2> HIDE DEF a, b
  <2>6. QED
    BY <2>1, <2>2, <2>3, <2>4, <2>5 DEF InOrder
<1>4. ASSUME NEW j \in J
      PROVE  \E i \in DOMAIN s : s[i] = j
  <2>1. s \in Injection(1..Cardinality(J), J)
    <3>1. \A h, i \in DOMAIN s : s[h] = s[i] => h = i
      <4>1. \A h, i \in DOMAIN s : h \in Nat /\ i \in Nat
        BY <1>1, <1>2
      <4>2. QED
        BY <1>2, <4>1
    <3>2. QED
      BY <1>2, <3>1 DEF Injection, IsInjective
  <2>2. Cardinality(1..Cardinality(J)) = Cardinality(J)
    BY <1>1, FS_Interval
  <2>3. s \in Surjection(1..Cardinality(J), J)
    BY <1>1, <2>1, <2>2, FS_Injection
  <2>4. QED
    BY <1>2, <2>3 DEF Surjection
<1>5. QED
  BY <1>2, <1>3, <1>4 DEF Lists

\* What is left decides as the greedy verdict does.
LEMMA FitsBeside ==
  ASSUME TypeOK, Ledger, phase \in Looping, NEW j \in Jobs \ allowed
  PROVE  /\ j \notin Preemptible =>
              ((/\ Geq(cluster_schedulable, job_resource(j)) /\ VcFits(j))
               <=> /\ Fit(allowed \cup {j}, given.cluster, given.vcs)
                   /\ VcOf[j] \in DOMAIN given.vcs)
         /\ j \in Preemptible =>
              (Geq(cluster_schedulable, job_resource(j))
               <=> Fit(allowed \cup {j}, given.cluster, given.vcs))
<1> DEFINE A == allowed \cup {j}
<1>1. /\ allowed \in SUBSET Jobs /\ A \in SUBSET Jobs
      /\ \A v \in DOMAIN given.vcs : InVC(allowed, v) \in SUBSET Jobs /\ InVC(A, v) \in SUBSET Jobs
  BY DEF TypeOK, RoundType, InVC
<1>2. \A r \in Resources : Total(A)[r] = job_resource(j)[r] + Total(allowed)[r]
  BY <1>1, TotalAdd
<1>3. /\ \A S \in SUBSET Jobs, r \in Resources : Total(S)[r] \in Nat
      /\ \A r \in Resources : job_resource(j)[r] \in Nat /\ cluster_schedulable[r] \in Nat
      /\ \A r \in Resources, v \in DOMAIN given.vcs : vc_schedulables[v][r] \in Nat
  BY TotalNat, AmountFacts DEF TypeOK, RoundType, Amount, Ledger
<1>4. /\ given.cluster \in Amount
      /\ DOMAIN given.vcs = DOMAIN vc_schedulables
      /\ \A r \in Resources :
         /\ cluster_schedulable[r] + Total(allowed)[r] = given.cluster[r]
         /\ \A v \in DOMAIN given.vcs :
              vc_schedulables[v][r] + Total(InVC(allowed, v))[r] = given.vcs[v][r]
  BY DEF Ledger
<1>5. Geq(given.cluster, Total(A)) <=> Geq(cluster_schedulable, job_resource(j))
  <2>1. ASSUME NEW r \in Resources
        PROVE  given.cluster[r] >= Total(A)[r] <=> cluster_schedulable[r] >= job_resource(j)[r]
    <3>1. /\ Total(A)[r] = job_resource(j)[r] + Total(allowed)[r]
          /\ given.cluster[r] = cluster_schedulable[r] + Total(allowed)[r]
      BY <1>2, <1>4
    <3>2. /\ Total(allowed)[r] \in Nat /\ job_resource(j)[r] \in Nat
          /\ cluster_schedulable[r] \in Nat
      BY <1>1, <1>3
    <3> HIDE DEF A
    <3>3. QED
      BY <3>1, <3>2
  <2> HIDE DEF A
  <2>2. QED
    BY <2>1 DEF Geq
<1>6. ASSUME NEW v \in DOMAIN given.vcs, j \in Preemptible \/ VcOf[j] # v
      PROVE  Geq(given.vcs[v], Total(InVC(A, v)))
  <2>1. InVC(A, v) = InVC(allowed, v)
    BY <1>6 DEF InVC
  <2>2. \A r \in Resources : given.vcs[v][r] >= Total(InVC(allowed, v))[r]
    BY <1>1, <1>3, <1>4
  <2> HIDE DEF A
  <2>3. QED
    BY <2>1, <2>2 DEF Geq
<1>7. ASSUME j \notin Preemptible, VcOf[j] \in DOMAIN given.vcs
      PROVE  Geq(given.vcs[VcOf[j]], Total(InVC(A, VcOf[j]))) <=> VcFits(j)
  <2> DEFINE v == VcOf[j]
             B == InVC(allowed, v)
  <2>1. InVC(A, v) = B \cup {j} /\ j \notin B /\ B \in SUBSET Jobs
    BY <1>1, <1>7 DEF InVC
  <2>2. \A r \in Resources : Total(B \cup {j})[r] = job_resource(j)[r] + Total(B)[r]
    <3> HIDE DEF B
    <3>1. QED
      BY <2>1, TotalAdd
  <2>3. \A r \in Resources : /\ vc_schedulables[v][r] + Total(B)[r] = given.vcs[v][r]
                             /\ vc_schedulables[v][r] \in Nat /\ Total(B)[r] \in Nat
    BY <1>3, <1>4, <1>7, <2>1
  <2> HIDE DEF A, B
  <2>4. ASSUME NEW r \in Resources
        PROVE  given.vcs[v][r] >= Total(InVC(A, v))[r]
                 <=> vc_schedulables[v][r] >= job_resource(j)[r]
    <3>1. Total(InVC(A, v))[r] = job_resource(j)[r] + Total(B)[r]
      BY <2>1, <2>2
    <3> HIDE DEF v
    <3>2. QED
      BY <3>1, <2>3, <1>3
  <2>5. QED
    BY <1>4, <1>7, <2>4 DEF Geq, VcFits
<1> HIDE DEF A
<1>8. CASE j \in Preemptible
  BY <1>5, <1>6, <1>8 DEF Fit, A
<1>9. CASE j \notin Preemptible
  <2>1. VcFits(j) => VcOf[j] \in DOMAIN given.vcs
    BY <1>4 DEF VcFits
  <2>2. QED
    BY <1>5, <1>6, <1>7, <1>9, <2>1 DEF Fit, A
<1>10. QED
  BY <1>8, <1>9

\* The job whose turn it is comes after all the jobs allowed so far.
LEMMA AheadOfCurrent ==
  ASSUME TypeOK, ListInv, VerdictInv, pos <= Len(jobs_info),
         \/ phase = "nonpreemptible" /\ jobs_info[pos] \notin Preemptible
         \/ phase = "preemptible" /\ jobs_info[pos] \in Preemptible
  PROVE  /\ Ahead(pos) = allowed
         /\ jobs_info[pos] \in Jobs \ allowed
<1>1. pos \in DOMAIN jobs_info /\ jobs_info[pos] \in Jobs /\ DOMAIN jobs_info = 1..Len(jobs_info)
  BY CurrentJob DEF TypeOK, RoundType
<1>2. ASSUME NEW k \in allowed
      PROVE  \E h \in 1..(pos - 1) : jobs_info[h] = k
  <2>1. PICK i \in DOMAIN jobs_info : jobs_info[i] = k /\ Considered(i)
    BY <1>2 DEF VerdictInv
  <2>2. i \in Nat /\ pos \in Nat /\ i >= 1
    BY <1>1 DEF TypeOK, RoundType
  <2>3. i < pos
    <3>1. CASE phase = "nonpreemptible"
      BY <2>1, <3>1 DEF Considered
    <3>2. CASE phase = "preemptible" /\ k \in Preemptible
      BY <2>1, <3>2 DEF Considered
    <3>3. CASE phase = "preemptible" /\ k \notin Preemptible
      <4>1. i # pos
        BY <2>1, <3>3
      <4>2. ~(pos < i)
        BY <1>1, <2>1, <3>3 DEF ListInv, Lists, InOrder, Looping
      <4>3. QED
        BY <2>2, <4>1, <4>2
    <3>4. QED
      BY <3>1, <3>2, <3>3
  <2>4. QED
    BY <2>1, <2>2, <2>3
<1>3. \A h \in 1..(pos - 1) : jobs_info[h] # jobs_info[pos]
  BY <1>1 DEF ListInv, Lists, InOrder, Looping, TypeOK, RoundType
<1>4. QED
  BY <1>1, <1>2, <1>3 DEF Ahead

\* A marked job's request moves from one side of the ledger to the other.
LEMMA MarkLedger ==
  ASSUME TypeOK, PassInv, MarkNonPreemptible \/ MarkPreemptible
  PROVE  Ledger'
<1> DEFINE j == jobs_info[pos]
<1>1. /\ j \in Jobs /\ job_resource(j) \in Amount /\ allowed \in SUBSET Jobs
      /\ phase \in Looping /\ UNCHANGED given
  BY CurrentJob DEF MarkNonPreemptible, MarkPreemptible, TypeOK, RoundType,
                    Looping, history
<1>2. CASE UNCHANGED <<allowed, cluster_schedulable, vc_schedulables>>
  BY <1>1, <1>2 DEF PassInv, Ledger
<1>3. CASE /\ Mark(j) /\ Geq(cluster_schedulable, job_resource(j)) /\ j \notin allowed
           /\ IF j \in Preemptible THEN UNCHANGED vc_schedulables
              ELSE /\ VcFits(j)
                   /\ vc_schedulables' = [vc_schedulables EXCEPT ![VcOf[j]] =
                                            Minus(@, job_resource(j))]
  <2> HIDE DEF j
  <2>1. ASSUME NEW r \in Resources
        PROVE  cluster_schedulable'[r] + Total(allowed')[r] = given.cluster[r]
    <3>1. cluster_schedulable'[r] = cluster_schedulable[r] - job_resource(j)[r]
      BY <1>3 DEF Mark, Minus, Geq
    <3>2. Total(allowed')[r] = job_resource(j)[r] + Total(allowed)[r]
      BY <1>1, <1>3, TotalAdd DEF Mark
    <3>3. /\ cluster_schedulable[r] + Total(allowed)[r] = given.cluster[r]
          /\ cluster_schedulable[r] \in Nat /\ job_resource(j)[r] \in Nat
          /\ Total(allowed)[r] \in Nat
      BY <1>1, TotalNat DEF PassInv, Ledger, TypeOK, RoundType, Amount
    <3>4. QED
      BY <3>1, <3>2, <3>3
  <2>2. ASSUME NEW r \in Resources, NEW v \in DOMAIN given.vcs
        PROVE  vc_schedulables'[v][r] + Total(InVC(allowed', v))[r] = given.vcs[v][r]
    <3>1. vc_schedulables[v][r] + Total(InVC(allowed, v))[r] = given.vcs[v][r]
      BY <1>1 DEF PassInv, Ledger
    <3>2. CASE j \in Preemptible \/ VcOf[j] # v
      <4>1. InVC(allowed', v) = InVC(allowed, v)
        BY <1>3, <3>2 DEF InVC, Mark
      <4>2. vc_schedulables'[v] = vc_schedulables[v]
        BY <1>1, <1>3, <3>2 DEF PassInv, Ledger, TypeOK, RoundType
      <4>3. QED
        BY <3>1, <4>1, <4>2
    <3>3. CASE j \notin Preemptible /\ VcOf[j] = v
      <4> DEFINE B == InVC(allowed, v)
      <4>1. InVC(allowed', v) = B \cup {j} /\ j \notin B /\ B \in SUBSET Jobs
        BY <1>1, <1>3, <3>3 DEF InVC, Mark
      <4> HIDE DEF B
      <4>2. Total(InVC(allowed', v))[r] = job_resource(j)[r] + Total(B)[r]
        BY <1>1, <4>1, TotalAdd
      <4>3. v \in DOMAIN vc_schedulables
        BY <1>1 DEF PassInv, Ledger
      <4>4. vc_schedulables'[v] = Minus(vc_schedulables[v], job_resource(j))
        BY <1>3, <3>3, <4>3 DEF TypeOK, RoundType
      <4>5. vc_schedulables[v][r] >= job_resource(j)[r]
        BY <1>3, <3>3 DEF VcFits, Geq
      <4>6. vc_schedulables'[v][r] = vc_schedulables[v][r] - job_resource(j)[r]
        BY <4>4, <4>5 DEF Minus
      <4>7. /\ vc_schedulables[v][r] \in Nat /\ job_resource(j)[r] \in Nat
            /\ Total(B)[r] \in Nat
        BY <1>1, <4>1, <4>3, TotalNat DEF TypeOK, RoundType, Amount
      <4>8. vc_schedulables[v][r] + Total(B)[r] = given.vcs[v][r]
        BY <3>1 DEF B
      <4>9. QED
        BY <4>2, <4>6, <4>7, <4>8
    <3>4. QED
      BY <3>2, <3>3
  <2>3. DOMAIN vc_schedulables' = DOMAIN vc_schedulables
    BY <1>3
  <2>4. QED
    BY <1>1, <2>1, <2>2, <2>3 DEF PassInv, Ledger
<1>4. QED
  <2>1. CASE MarkNonPreemptible
    <3>1. Mark(j) \/ UNCHANGED <<allowed, cluster_schedulable, vc_schedulables>>
      BY <2>1 DEF MarkNonPreemptible
    <3>2. CASE /\ j \notin Preemptible /\ Geq(cluster_schedulable, job_resource(j))
               /\ VcFits(j)
      <4>1. j \notin allowed
        BY <2>1, <3>2, AheadOfCurrent DEF MarkNonPreemptible, PassInv
      <4>2. QED
        BY <1>3, <2>1, <3>2, <4>1 DEF MarkNonPreemptible
    <3>3. CASE ~(/\ j \notin Preemptible /\ Geq(cluster_schedulable, job_resource(j))
                 /\ VcFits(j))
      BY <1>2, <2>1, <3>3 DEF MarkNonPreemptible
    <3>4. QED
      BY <3>2, <3>3
  <2>2. CASE MarkPreemptible
    <3>1. CASE j \in Preemptible /\ Geq(cluster_schedulable, job_resource(j))
      <4>1. j \notin allowed
        BY <2>2, <3>1, AheadOfCurrent DEF MarkPreemptible, PassInv
      <4>2. QED
        BY <1>3, <2>2, <3>1, <4>1 DEF MarkPreemptible
    <3>2. CASE ~(j \in Preemptible /\ Geq(cluster_schedulable, job_resource(j)))
      BY <1>2, <2>2, <3>2 DEF MarkPreemptible
    <3>3. QED
      BY <3>1, <3>2
  <2>3. QED
    BY <2>1, <2>2

\* A turn settles the verdict of one job and disturbs no other.
LEMMA MarkVerdict ==
  ASSUME TypeOK, PassInv, MarkNonPreemptible \/ MarkPreemptible
  PROVE  VerdictInv'
<1> DEFINE j == jobs_info[pos]
           turn == \/ phase = "nonpreemptible" /\ j \notin Preemptible
                   \/ phase = "preemptible" /\ j \in Preemptible
<1>1. /\ j \in Jobs /\ pos \in DOMAIN jobs_info /\ pos <= Len(jobs_info)
      /\ phase \in {"nonpreemptible", "preemptible"} /\ phase \in Looping
      /\ UNCHANGED <<given, jobs_info, phase>> /\ pos' = pos + 1
      /\ DOMAIN jobs_info = 1..Len(jobs_info) /\ Len(jobs_info) \in Nat /\ pos \in Nat
  BY CurrentJob DEF MarkNonPreemptible, MarkPreemptible, TypeOK, RoundType,
                    Looping, history
<1>2. \A i \in DOMAIN jobs_info : Considered(i)' <=> Considered(i) \/ (i = pos /\ turn)
  <2>1. \A i \in DOMAIN jobs_info : i \in Nat /\ (i < pos + 1 <=> i < pos \/ i = pos)
    BY <1>1
  <2>2. QED
    BY <1>1, <2>1 DEF Considered
<1>3. /\ allowed' = allowed \/ (turn /\ allowed' = allowed \cup {j})
      /\ ~turn => allowed' = allowed
  BY DEF MarkNonPreemptible, MarkPreemptible, Mark
<1>4. ASSUME NEW i \in DOMAIN jobs_info, Considered(i)'
      PROVE  Greedy(i)'
  <2>1. CASE Considered(i) /\ ~turn
    <3>1. Greedy(i) /\ allowed' = allowed
      BY <1>3, <2>1 DEF PassInv, VerdictInv
    <3>2. Ahead(i)' = Ahead(i)
      BY <1>1, <3>1 DEF Ahead
    <3>3. QED
      BY <1>1, <3>1, <3>2 DEF Greedy
  <2>2. CASE Considered(i) /\ turn
    <3>1. i < pos
      <4>1. jobs_info[i] \in Preemptible <=> j \in Preemptible => i < pos
        BY <1>1, <2>2 DEF Considered
      <4>2. CASE ~(jobs_info[i] \in Preemptible <=> j \in Preemptible)
        <5>1. phase = "preemptible" /\ jobs_info[i] \notin Preemptible /\ j \in Preemptible
          BY <2>2, <4>2 DEF Considered
        <5>2. ~(pos < i) /\ i # pos
          BY <1>1, <5>1 DEF PassInv, ListInv, Lists, InOrder, Looping
        <5>3. QED
          BY <1>1, <5>2
      <4>3. QED
        BY <4>1, <4>2
    <3>2. j \notin {jobs_info[h] : h \in 1..(i - 1)} /\ jobs_info[i] # j
      <4>1. \A h \in 1..i : h \in DOMAIN jobs_info /\ h < pos
        BY <1>1, <3>1
      <4>2. \A h \in 1..i : jobs_info[h] # j
        BY <1>1, <4>1 DEF PassInv, ListInv, Lists, InOrder, Looping
      <4>3. i \in 1..i /\ \A h \in 1..(i - 1) : h \in 1..i
        BY <1>1
      <4>4. QED
        BY <4>2, <4>3
    <3>3. Ahead(i)' = Ahead(i)
      BY <1>1, <1>3, <3>2 DEF Ahead
    <3>4. jobs_info[i] \in allowed' <=> jobs_info[i] \in allowed
      BY <1>3, <3>2
    <3>5. Greedy(i)
      BY <2>2 DEF PassInv, VerdictInv
    <3>6. QED
      BY <1>1, <3>3, <3>4, <3>5 DEF Greedy
  <2>3. CASE i = pos /\ turn
    <3>1. Ahead(pos) = allowed /\ j \in Jobs \ allowed
      BY <1>1, <2>3, AheadOfCurrent DEF PassInv
    <3>2. Ahead(i)' = allowed
      <4>1. j \notin {jobs_info[h] : h \in 1..(pos - 1)}
        BY <1>1 DEF PassInv, ListInv, Lists, InOrder, Looping
      <4>2. QED
        BY <1>1, <1>3, <2>3, <3>1, <4>1 DEF Ahead
    <3>3. j \in allowed' <=>
            /\ Geq(cluster_schedulable, job_resource(j))
            /\ j \notin Preemptible => VcFits(j)
      BY <2>3, <3>1 DEF MarkNonPreemptible, MarkPreemptible, Mark
    <3>4. j \in allowed' <=>
            /\ Fit(allowed \cup {j}, given.cluster, given.vcs)
            /\ j \notin Preemptible => VcOf[j] \in DOMAIN given.vcs
      BY <1>1, <3>1, <3>3, FitsBeside DEF PassInv
    <3> HIDE DEF j
    <3>5. jobs_info'[i] = j
      BY <1>1, <2>3 DEF j
    <3>6. QED
      BY <1>1, <3>2, <3>4, <3>5 DEF Greedy
  <2>4. QED
    BY <1>2, <1>4, <2>1, <2>2, <2>3
<1>5. ASSUME NEW k \in allowed'
      PROVE  \E i \in DOMAIN jobs_info' : jobs_info'[i] = k /\ Considered(i)'
  <2>1. CASE k \in allowed
    BY <1>1, <1>2, <2>1 DEF PassInv, VerdictInv
  <2>2. CASE k \notin allowed
    <3>1. k = j /\ turn
      BY <1>3, <1>5, <2>2
    <3>2. QED
      BY <1>1, <1>2, <3>1
  <2>3. QED
    BY <2>1, <2>2
<1>6. QED
  BY <1>1, <1>4, <1>5 DEF VerdictInv

LEMMA InitPass == Init => PassInv
BY DEF Init, PassInv, ListInv, Ledger, VerdictInv, Looping

\* Steps that do not concern the verdict.
LEMMA PassFrame ==
  ASSUME PassInv, UNCHANGED <<phase, round, given>>
  PROVE  PassInv'
<1>1. ListInv'
  BY DEF PassInv, ListInv, Lists, InOrder, round
<1>2. Ledger'
  BY DEF PassInv, Ledger, round
<1>3. VerdictInv'
  <2>1. \A i \in DOMAIN jobs_info : Considered(i)' <=> Considered(i)
    BY DEF Considered, round
  <2>2. \A i \in DOMAIN jobs_info : Greedy(i)' <=> Greedy(i)
    BY DEF Greedy, Ahead, round
  <2>3. QED
    BY <2>1, <2>2 DEF PassInv, VerdictInv, round
<1>4. QED
  BY <1>1, <1>2, <1>3 DEF PassInv

\* Before the loops nothing is listed.
LEMMA ReadPass ==
  ASSUME TypeOK, PassInv, Fetch \/ GetClusterStatus \/ SortJobs
  PROVE  PassInv'
<1>0. jobs_info = <<>> /\ allowed = {} /\ allowed' = {}
  BY DEF Fetch, GetClusterStatus, SortJobs, PassInv, ListInv, Looping
<1>1. CASE Fetch
  BY <1>0, <1>1 DEF Fetch, PassInv, ListInv, Ledger, VerdictInv, Looping
<1>2. CASE GetClusterStatus
  <2>1. Ledger'
    <3>1. /\ cluster_schedulable' \in Amount
          /\ vc_schedulables' \in [DOMAIN vc_schedulables' -> Amount]
      BY <1>2, AmountFacts DEF GetClusterStatus, TypeOK, TableType
    <3>2. given'.cluster = cluster_schedulable' /\ given'.vcs = vc_schedulables'
      BY <1>2 DEF GetClusterStatus
    <3>3. \A r \in Resources : Total(allowed')[r] = 0
      BY <1>0, TotalEmpty
    <3>4. \A v : InVC(allowed', v) = {}
      BY <1>0 DEF InVC
    <3>5. \A v : \A r \in Resources : Total(InVC(allowed', v))[r] = 0
      BY <3>4, TotalEmpty
    <3>6. QED
      BY <3>1, <3>2, <3>3, <3>5 DEF Ledger, Amount
  <2>2. QED
    BY <1>0, <1>2, <2>1 DEF GetClusterStatus, PassInv, ListInv, VerdictInv, Looping
<1>3. CASE SortJobs
  <2>1. Ledger'
    BY <1>0, <1>3 DEF SortJobs, PassInv, Ledger, history, Looping
  <2> DEFINE J == {j \in Jobs : rows[j] # None}
  <2>2. PICK p : jobs_info' \in SortedLists(J, p)
    BY <1>3 DEF SortJobs
  <2>3. Lists(jobs_info', J)
    <3>1. J \in SUBSET Jobs /\ \A j \in J : rows[j] # None
      OBVIOUS
    <3> HIDE DEF J
    <3>2. QED
      BY <2>2, <3>1, SortedFacts
  <2>4. ListInv'
    BY <1>3, <2>3 DEF SortJobs, ListInv, Lists, InOrder, Looping
  <2>5. VerdictInv'
    <3>1. jobs_info' \in Seq(Jobs)
      BY <1>3, NextType DEF Next, Pass, TypeOK, RoundType
    <3>2. \A i \in DOMAIN jobs_info' : i \in Nat /\ i >= 1
      BY <3>1
    <3>3. \A i \in DOMAIN jobs_info' : ~Considered(i)'
      BY <1>3, <3>2 DEF SortJobs, Considered
    <3>4. QED
      BY <1>0, <3>3 DEF VerdictInv
  <2>6. QED
    BY <2>1, <2>4, <2>5 DEF PassInv
<1>4. QED
  BY <1>1, <1>2, <1>3

\* At the end of a loop all its jobs were considered.
LEMMA LoopEndPass ==
  ASSUME TypeOK, PassInv, NextLoop
  PROVE  PassInv'
<1>1. /\ pos' = 1 /\ pos > Len(jobs_info)
      /\ UNCHANGED <<rows, jobs_info, cluster_schedulable, vc_schedulables, allowed, given>>
      /\ \/ phase = "nonpreemptible" /\ phase' = "preemptible"
         \/ phase = "preemptible" /\ phase' = "act"
  BY DEF NextLoop
<1>2. \A i \in DOMAIN jobs_info : i \in Nat /\ 1 <= i /\ i < pos
  BY <1>1 DEF TypeOK, RoundType
<1>3. \A i \in DOMAIN jobs_info : Considered(i)' <=> Considered(i)
  BY <1>1, <1>2 DEF Considered
<1>4. \A i \in DOMAIN jobs_info : Greedy(i)' <=> Greedy(i)
  BY <1>1 DEF Greedy, Ahead
<1>5. VerdictInv'
  BY <1>1, <1>3, <1>4 DEF PassInv, VerdictInv
<1>6. ListInv' /\ Ledger'
  BY <1>1 DEF PassInv, ListInv, Lists, InOrder, Ledger, Looping
<1>7. QED
  BY <1>5, <1>6 DEF PassInv

LEMMA NextPass == TypeOK /\ PassInv /\ [Next]_vars => PassInv'
<1> SUFFICES ASSUME TypeOK, PassInv, [Next]_vars
             PROVE  PassInv'
  OBVIOUS
<1>1. CASE Others
  BY <1>1, PassFrame
     DEF Others, Queue, Leave, Observed, Vanished, StaleReport, SetPriority,
         UpdateClusterStatus, Move, history
<1>2. CASE Fetch \/ GetClusterStatus \/ SortJobs
  BY <1>2, ReadPass
<1>3. CASE MarkNonPreemptible \/ MarkPreemptible
  <2>1. ListInv'
    BY <1>3 DEF MarkNonPreemptible, MarkPreemptible, PassInv, ListInv, Lists, InOrder,
                Looping
  <2>2. QED
    BY <1>3, <2>1, MarkLedger, MarkVerdict DEF PassInv
<1>4. CASE NextLoop
  BY <1>4, LoopEndPass
<1>5. CASE ScheduleJob
  <2>1. UNCHANGED <<phase, rows, jobs_info, cluster_schedulable, vc_schedulables,
                    allowed, given>> /\ phase = "act"
    BY <1>5 DEF ScheduleJob, history
  <2>2. \A i \in DOMAIN jobs_info : Considered(i)' <=> Considered(i)
    BY <2>1 DEF Considered
  <2>3. \A i \in DOMAIN jobs_info : Greedy(i)' <=> Greedy(i)
    BY <2>1 DEF Greedy, Ahead
  <2>4. QED
    BY <2>1, <2>2, <2>3 DEF PassInv, ListInv, Lists, InOrder, Ledger, VerdictInv, Looping
<1>6. CASE EndPass \/ AbortPass \/ Restart
  BY <1>6 DEF EndPass, AbortPass, Restart, Forget, PassInv, ListInv, Ledger,
              VerdictInv, Looping
<1>7. ASSUME NEW t \in tasks, TaskDone(t) \/ TaskFails(t)
      PROVE  PassInv'
  BY <1>7, PassFrame DEF TaskDone, TaskFails, Finish, history
<1>8. CASE UNCHANGED vars
  BY <1>8, PassFrame DEF vars, round
<1>9. QED
  BY <1>1, <1>2, <1>3, <1>4, <1>5, <1>6, <1>7, <1>8 DEF Next, Pass

\* In every state what is left is what was given less what was allowed, and each
\* job the loops have considered got its due (take_job_actions).
THEOREM PassInvariant == Spec => []PassInv
BY InitPass, NextPass, SchedulerTypeCorrect, PTL DEF Spec

\* The loops, with their truncated subtractions and their two sorts of jobs,
\* allow exactly the jobs that fit beside the allowed ones ahead of them.
THEOREM VerdictIsGreedy == Spec => []GreedyVerdict
<1>1. PassInv => GreedyVerdict
  BY DEF PassInv, VerdictInv, GreedyVerdict, Considered
<1>2. QED
  BY <1>1, PassInvariant, PTL

-----------------------------------------------------------------------------
(***************************************************************************)
(* The cluster is not overcommitted                                        *)
(***************************************************************************)

\* Where NoOvercommit says something: the cluster has stayed as it is, no task
\* failed and no process was replaced.
Steady == ClusterStatuses = {cluster_status} /\ faults = 0 /\ crashes = 0

\* The jobs a pass found in scheduling or running.
Found == {j \in Jobs : rows[j] # None /\ rows[j].status # "queued"}

\* There is room for the jobs of S, and a VC for those that need one.
Affordable(S) ==
  /\ Fit(S, get_cluster_schedulable(cluster_status),
            get_vc_schedulables(cluster_status))
  /\ \A j \in S \ Preemptible :
       VcOf[j] \in DOMAIN get_vc_schedulables(cluster_status)

\* A pass begins without tasks, finds jobs there is room for, and when it hands
\* out tasks the jobs that will stay are the allowed ones: any other found job is
\* preemptible and its turn to be killed is still to come.
RoomInv ==
  Steady =>
    /\ \A t \in tasks : t.own
    /\ phase \notin {"idle", "act"} => tasks = {} /\ Load \subseteq Found
    /\ phase \in Looping \cup {"sort"} =>
         /\ given.cluster = get_cluster_schedulable(cluster_status)
         /\ given.vcs = get_vc_schedulables(cluster_status)
    /\ phase # "act" => Affordable(Load)
    /\ phase # "idle" => Affordable(Found)
    /\ phase = "act" =>
         /\ \A j \in Jobs : OwnTask(j, "submit") \in tasks => j \in allowed
         /\ \A j \in Load \ allowed :
              /\ j \in Found \cap Preemptible
              /\ \E i \in DOMAIN jobs_info : i >= pos /\ jobs_info[i] = j

\* Fewer jobs fit where more do.
LEMMA FitMonotone ==
  ASSUME NEW T \in SUBSET Jobs, NEW S \in SUBSET T, NEW c \in Amount, NEW v,
         \A n \in DOMAIN v : v[n] \in Amount, Fit(T, c, v)
  PROVE  Fit(S, c, v)
<1>1. \A U \in SUBSET Jobs, r \in Resources : Total(U)[r] \in Nat
  BY TotalNat
<1>2. Geq(c, Total(S))
  <2>1. ASSUME NEW r \in Resources
        PROVE  c[r] >= Total(S)[r]
    <3>1. c[r] >= Total(T)[r] /\ Total(S)[r] <= Total(T)[r]
      BY TotalMonotone DEF Fit, Geq
    <3>2. c[r] \in Nat /\ Total(S)[r] \in Nat /\ Total(T)[r] \in Nat
      BY <1>1 DEF Amount
    <3>3. QED
      BY <3>1, <3>2
  <2>2. QED
    BY <2>1 DEF Geq
<1>3. ASSUME NEW n \in DOMAIN v
      PROVE  Geq(v[n], Total(InVC(S, n)))
  <2> DEFINE A == InVC(S, n)
             B == InVC(T, n)
  <2>1. B \in SUBSET Jobs /\ A \in SUBSET B
    BY DEF InVC
  <2>2. Geq(v[n], Total(B))
    BY DEF Fit
  <2> HIDE DEF A, B
  <2>3. ASSUME NEW r \in Resources
        PROVE  v[n][r] >= Total(A)[r]
    <3>1. v[n][r] >= Total(B)[r] /\ Total(A)[r] <= Total(B)[r]
      BY <2>1, <2>2, TotalMonotone DEF Geq
    <3>2. v[n][r] \in Nat /\ Total(A)[r] \in Nat /\ Total(B)[r] \in Nat
      BY <1>1, <2>1 DEF Amount
    <3>3. QED
      BY <3>1, <3>2
  <2>4. QED
    BY <2>3 DEF Geq, A
<1>4. QED
  BY <1>2, <1>3 DEF Fit

LEMMA AffordableMonotone ==
  ASSUME TypeOK, NEW T \in SUBSET Jobs, NEW S \in SUBSET T, Affordable(T)
  PROVE  Affordable(S)
<1> DEFINE c == get_cluster_schedulable(cluster_status)
           v == get_vc_schedulables(cluster_status)
<1>1. c \in Amount /\ \A n \in DOMAIN v : v[n] \in Amount
  BY AmountFacts DEF TypeOK, TableType
<1>2. Fit(T, c, v) /\ \A j \in T \ Preemptible : VcOf[j] \in DOMAIN v
  BY DEF Affordable
<1> HIDE DEF c, v
<1>3. Fit(S, c, v)
  BY <1>1, <1>2, FitMonotone
<1>4. QED
  BY <1>2, <1>3 DEF Affordable, c, v

\* The allowed jobs are affordable: the ledger balances.
LEMMA AllowedAffordable ==
  ASSUME TypeOK, PassInv, phase \in Looping,
         given.cluster = get_cluster_schedulable(cluster_status),
         given.vcs = get_vc_schedulables(cluster_status)
  PROVE  Affordable(allowed)
<1>1. allowed \in SUBSET Jobs /\ \A n : InVC(allowed, n) \in SUBSET Jobs
  BY DEF TypeOK, RoundType, InVC
<1>2. \A S \in SUBSET Jobs, r \in Resources : Total(S)[r] \in Nat
  BY TotalNat
<1>3. Geq(given.cluster, Total(allowed))
  <2>1. ASSUME NEW r \in Resources
        PROVE  given.cluster[r] >= Total(allowed)[r]
    <3>1. /\ cluster_schedulable[r] + Total(allowed)[r] = given.cluster[r]
          /\ cluster_schedulable[r] \in Nat /\ Total(allowed)[r] \in Nat
      BY <1>1, <1>2 DEF PassInv, Ledger, TypeOK, RoundType, Amount
    <3>2. QED
      BY <3>1
  <2>2. QED
    BY <2>1 DEF Geq
<1>4. ASSUME NEW n \in DOMAIN given.vcs
      PROVE  Geq(given.vcs[n], Total(InVC(allowed, n)))
  <2>1. ASSUME NEW r \in Resources
        PROVE  given.vcs[n][r] >= Total(InVC(allowed, n))[r]
    <3>1. vc_schedulables[n][r] + Total(InVC(allowed, n))[r] = given.vcs[n][r]
      BY DEF PassInv, Ledger
    <3>2. vc_schedulables[n][r] \in Nat
      BY DEF PassInv, Ledger, TypeOK, RoundType, Amount
    <3>3. Total(InVC(allowed, n))[r] \in Nat
      BY <1>1, <1>2
    <3>4. QED
      BY <3>1, <3>2, <3>3
  <2>2. QED
    BY <2>1 DEF Geq
<1>5. ASSUME NEW j \in allowed \ Preemptible
      PROVE  VcOf[j] \in DOMAIN given.vcs
  <2>1. PICK i \in DOMAIN jobs_info : jobs_info[i] = j /\ Considered(i)
    BY DEF PassInv, VerdictInv
  <2>2. QED
    BY <2>1 DEF PassInv, VerdictInv, Greedy
<1>6. QED
  BY <1>3, <1>4, <1>5 DEF Affordable, Fit

\* A non-preemptible job that a pass finds on the cluster is allowed: the jobs
\* ahead of it were found there, too.
LEMMA FoundStay ==
  ASSUME TypeOK, PassInv, phase = "preemptible", pos > Len(jobs_info),
         given.cluster = get_cluster_schedulable(cluster_status),
         given.vcs = get_vc_schedulables(cluster_status),
         Affordable(Found), NEW j \in Found \ Preemptible
  PROVE  j \in allowed
<1>1. PICK i \in DOMAIN jobs_info : jobs_info[i] = j
  BY DEF PassInv, ListInv, Lists, Looping, Found
<1>2. Greedy(i)
  BY <1>1 DEF PassInv, VerdictInv, Considered
<1>3. ASSUME NEW h \in 1..(i - 1)
      PROVE  jobs_info[h] \in Found
  <2>1. h \in DOMAIN jobs_info /\ h < i
    BY <1>1 DEF TypeOK, RoundType
  <2>2. jobs_info[h] \in Jobs /\ rows[jobs_info[h]] # None /\ InOrder(jobs_info[h], j)
    BY <1>1, <2>1 DEF PassInv, ListInv, Lists, Looping, TypeOK, RoundType
  <2>3. QED
    BY <2>2 DEF InOrder, Found
<1>4. Found \in SUBSET Jobs /\ Ahead(i) \cup {j} \in SUBSET Found
  BY <1>3 DEF Found, Ahead
<1>5. Affordable(Ahead(i) \cup {j})
  BY <1>4, AffordableMonotone
<1>6. QED
  BY <1>1, <1>2, <1>5 DEF Greedy, Affordable

LEMMA InitRoomInv == Init => RoomInv
<1> SUFFICES ASSUME Init PROVE RoomInv
  OBVIOUS
<1>0. TypeOK
  BY InitType
<1>1. Load = {}
  BY DEF Init, Load, OwnTask
<1>2. Affordable({})
  <2>1. /\ get_cluster_schedulable(cluster_status) \in Amount
        /\ \A n \in DOMAIN get_vc_schedulables(cluster_status) :
             get_vc_schedulables(cluster_status)[n] \in Amount
    BY <1>0, AmountFacts DEF TypeOK, TableType
  <2>2. \A a \in Amount : Geq(a, Total({}))
    BY TotalEmpty DEF Geq, Amount
  <2>3. \A n : InVC({}, n) = {}
    BY DEF InVC
  <2>4. QED
    BY <2>1, <2>2, <2>3 DEF Affordable, Fit
<1>3. QED
  BY <1>1, <1>2 DEF Init, RoomInv, Looping

\* Only failures and replacements end a steady time, and they are not undone.
LEMMA SteadyBackwards ==
  ASSUME TypeOK, [Next]_vars, Steady'
  PROVE  /\ Steady /\ UNCHANGED <<cluster_status, faults, crashes>>
         /\ \A t \in tasks : ~TaskFails(t)
         /\ \A j \in Jobs : ~StaleReport(j)
         /\ ~AbortPass /\ ~Restart
<1>1. faults \in Nat /\ crashes \in Nat
  BY DEF TypeOK
<1>2. faults' = faults \/ faults' = faults + 1
  BY DEF Next, vars, Others, Queue, Leave, Observed, Vanished, StaleReport,
         SetPriority, UpdateClusterStatus, Move, Pass, Fetch, GetClusterStatus,
         SortJobs, MarkNonPreemptible, MarkPreemptible, NextLoop, ScheduleJob,
         EndPass, AbortPass, Restart, TaskDone, TaskFails, budget
<1>3. crashes' = crashes \/ crashes' = crashes + 1
  BY DEF Next, vars, Others, Queue, Leave, Observed, Vanished, StaleReport,
         SetPriority, UpdateClusterStatus, Move, Pass, Fetch, GetClusterStatus,
         SortJobs, MarkNonPreemptible, MarkPreemptible, NextLoop, ScheduleJob,
         EndPass, AbortPass, Restart, TaskDone, TaskFails, Finish, budget
<1>4. UNCHANGED <<faults, crashes>>
  BY <1>1, <1>2, <1>3 DEF Steady
<1>5. cluster_status' = cluster_status
  BY DEF TypeOK, TableType, Steady
<1>6. QED
  BY <1>1, <1>4, <1>5 DEF Steady, TaskFails, StaleReport, AbortPass, Restart

\* Nobody but a pass puts a job on the cluster.
LEMMA LoadShrinks ==
  ASSUME TypeOK, Steady', [Next]_vars, \A t \in tasks : t.own,
         Others \/ (\E t \in tasks : TaskDone(t))
  PROVE  Load' \subseteq Load
<1>1. CASE Others
  <2>1. /\ tasks' = tasks
        /\ \A j \in Jobs : status'[j] \in {"scheduling", "running"} =>
             status[j] \in {"scheduling", "running"}
    <3>1. ASSUME NEW j \in Jobs, Queue(j) \/ Leave(j) \/ Observed(j) \/ Vanished(j)
          PROVE  /\ tasks' = tasks
                 /\ \A k \in Jobs : status'[k] \in {"scheduling", "running"} =>
                      status[k] \in {"scheduling", "running"}
      BY <3>1 DEF Queue, Leave, Observed, Vanished, Move, TypeOK, TableType
    <3>2. ASSUME NEW j \in Jobs, NEW p \in Priorities, SetPriority(j, p)
          PROVE  tasks' = tasks /\ status' = status
      BY <3>2 DEF SetPriority, Move
    <3>3. ASSUME NEW cs \in ClusterStatuses, UpdateClusterStatus(cs)
          PROVE  tasks' = tasks /\ status' = status
      BY <3>3 DEF UpdateClusterStatus, Move
    <3>4. QED
      BY <1>1, <3>1, <3>2, <3>3, SteadyBackwards DEF Others
  <2>2. QED
    BY <2>1 DEF Load
<1>2. ASSUME NEW t \in tasks, TaskDone(t)
      PROVE  Load' \subseteq Load
  <2>1. t \in Task /\ t.own /\ t.job \in Jobs
    BY DEF TypeOK, Task
  <2>2. t = OwnTask(t.job, t.fn) /\ t.fn \in {"submit", "kill"}
    BY <2>1 DEF Task, OwnTask
  <2>3. tasks' = tasks \ {t}
    BY <1>2 DEF TaskDone, Finish
  <2>4. ASSUME NEW j \in Jobs, j \in Load'
        PROVE  j \in Load
    <3>1. CASE j = t.job
      <4>1. CASE t.fn = "submit"
        BY <2>2, <3>1, <4>1 DEF Load
      <4>2. CASE t.fn = "kill"
        <5>1. status'[j] = "queued"
          BY <1>2, <3>1, <4>2 DEF TaskDone, TypeOK, TableType
        <5>2. OwnTask(j, "submit") \in tasks'
          BY <2>4, <5>1 DEF Load
        <5>3. QED
          BY <2>3, <5>2 DEF Load
      <4>3. QED
        BY <2>2, <4>1, <4>2
    <3>2. CASE j # t.job
      <4>1. status'[j] = status[j]
        BY <1>2, <3>2 DEF TaskDone, TypeOK, TableType
      <4>2. OwnTask(j, "kill") # t
        BY <2>2, <3>2 DEF OwnTask
      <4>3. QED
        BY <2>3, <2>4, <4>1, <4>2 DEF Load
    <3>3. QED
      BY <3>1, <3>2
  <2>5. Load' \subseteq Jobs
    BY DEF Load
  <2>6. QED
    BY <2>4, <2>5
<1>3. QED
  BY <1>1, <1>2

\* Others and the workers, between the steps of a pass.
LEMMA OthersRoomInv ==
  ASSUME TypeOK, RoomInv, Steady', [Next]_vars, Others \/ (\E t \in tasks : TaskDone(t))
  PROVE  RoomInv'
<1>1. Steady /\ cluster_status' = cluster_status
  BY SteadyBackwards
<1>2. UNCHANGED <<phase, round, given>> /\ tasks' \subseteq tasks
  <2>1. CASE Others
    BY <2>1 DEF Others, Queue, Leave, Observed, Vanished, StaleReport, SetPriority,
                UpdateClusterStatus, Move, history
  <2>2. CASE \E t \in tasks : TaskDone(t)
    BY <2>2 DEF TaskDone, Finish, history
  <2>3. QED
    BY <2>1, <2>2
<1>3. Load' \subseteq Load /\ Load \subseteq Jobs
  BY <1>1, LoadShrinks DEF RoomInv, Load
<1>4. Found' = Found
  BY <1>2 DEF Found, round
<1>5. \A S : Affordable(S)' <=> Affordable(S)
  BY <1>1 DEF Affordable
<1>6. Affordable(Load) => Affordable(Load)'
  BY <1>3, <1>5, AffordableMonotone
<1>7. QED
  BY <1>1, <1>2, <1>3, <1>4, <1>5, <1>6 DEF RoomInv, round

\* A pass starts when its tasks are done, so what it finds is what there is.
LEMMA FetchRoomInv ==
  ASSUME TypeOK, RoomInv, Steady', [Next]_vars, Fetch
  PROVE  RoomInv'
<1>1. Steady /\ UNCHANGED <<cluster_status, tasks, status>> /\ phase = "idle" /\ phase' = "status"
  BY SteadyBackwards DEF Fetch, table
<1>2. tasks = {}
  BY <1>1 DEF Fetch, RoomInv, Own
<1>3. Load' = Load
  BY <1>1 DEF Load
<1>4. Found' = Load
  <2>1. \A j \in Jobs : j \in Load <=> status[j] \in {"scheduling", "running"}
    BY <1>2 DEF Load
  <2>2. \A j \in Jobs : status[j] \in Statuses
    BY DEF TypeOK, TableType
  <2>3. \A j \in Jobs : rows'[j] = IF status[j] = "away" THEN None
                                   ELSE [status |-> status[j], lastUpdated |-> lastUpdated[j]]
    BY DEF Fetch
  <2>4. ASSUME NEW j \in Found'
        PROVE  j \in Load
    <3>1. j \in Jobs /\ rows'[j] # None /\ rows'[j].status # "queued"
      BY DEF Found
    <3>2. status[j] # "away" /\ rows'[j].status = status[j]
      <4>1. status[j] # "away"
        BY <2>3, <3>1
      <4>2. rows'[j] = [status |-> status[j], lastUpdated |-> lastUpdated[j]]
        BY <2>3, <3>1, <4>1
      <4>3. QED
        BY <4>1, <4>2
    <3>3. QED
      BY <2>1, <2>2, <3>1, <3>2 DEF Statuses
  <2>5. ASSUME NEW j \in Load
        PROVE  j \in Found'
    <3>1. j \in Jobs /\ status[j] \in {"scheduling", "running"}
      BY <2>1 DEF Load
    <3>2. rows'[j] = [status |-> status[j], lastUpdated |-> lastUpdated[j]]
      BY <2>3, <3>1
    <3>3. rows'[j] # None
      <4>1. rows'[j] \in Row
        BY <3>1, <3>2 DEF Row, Statuses, TypeOK, TableType
      <4>2. QED
        BY <4>1, NoneAssumption
    <3>4. QED
      BY <3>1, <3>2, <3>3 DEF Found
  <2>6. QED
    BY <2>4, <2>5 DEF Found, Load
<1>5. Affordable(Load)' <=> Affordable(Load)
  BY <1>1, <1>3 DEF Affordable
<1>6. Affordable(Found)' <=> Affordable(Load)
  BY <1>1, <1>4 DEF Affordable
<1>7. QED
  BY <1>1, <1>2, <1>3, <1>4, <1>5, <1>6 DEF RoomInv, Looping

\* The steps of a pass before it hands out tasks.
LEMMA VerdictRoomInv ==
  ASSUME TypeOK, PassInv, RoomInv, Steady', [Next]_vars,
         GetClusterStatus \/ SortJobs \/ MarkNonPreemptible \/ MarkPreemptible \/ NextLoop
  PROVE  RoomInv'
<1>1. /\ Steady /\ UNCHANGED <<cluster_status, tasks, status, rows>>
      /\ phase \notin {"idle", "act"} /\ phase' # "idle"
  BY SteadyBackwards DEF GetClusterStatus, SortJobs, MarkNonPreemptible,
                         MarkPreemptible, NextLoop, table
<1>2. Load' = Load /\ Found' = Found
  BY <1>1 DEF Load, Found
<1>3. \A S : Affordable(S)' <=> Affordable(S)
  BY <1>1 DEF Affordable
<1>4. /\ Affordable(Load)' <=> Affordable(Load)
      /\ Affordable(Found)' <=> Affordable(Found)
  BY <1>2, <1>3
<1>5. phase' \in Looping \cup {"sort"} =>
        /\ given'.cluster = get_cluster_schedulable(cluster_status)
        /\ given'.vcs = get_vc_schedulables(cluster_status)
  BY <1>1 DEF GetClusterStatus, SortJobs, MarkNonPreemptible, MarkPreemptible,
              NextLoop, history, RoomInv, Looping
<1>6. tasks = {} /\ Load \subseteq Found /\ Affordable(Load) /\ Affordable(Found)
  BY <1>1 DEF RoomInv
<1>7. ASSUME phase' = "act", NEW j \in Load \ allowed'
      PROVE  /\ j \in Found \cap Preemptible
             /\ \E i \in DOMAIN jobs_info' : i >= pos' /\ jobs_info'[i] = j
  <2>1. /\ NextLoop /\ phase = "preemptible" /\ pos > Len(jobs_info) /\ pos' = 1
        /\ UNCHANGED <<jobs_info, allowed>>
    BY <1>1, <1>7 DEF NextLoop, GetClusterStatus, SortJobs, MarkNonPreemptible,
                      MarkPreemptible
  <2>2. j \in Found /\ j \in Jobs
    BY <1>6 DEF Found
  <2>3. j \in Preemptible
    BY <1>1, <1>6, <1>7, <2>1, <2>2, FoundStay DEF RoomInv, Looping
  <2>4. PICK i \in DOMAIN jobs_info : jobs_info[i] = j
    BY <2>1, <2>2 DEF PassInv, ListInv, Lists, Looping, Found
  <2>5. i >= 1
    BY DEF TypeOK, RoundType
  <2>6. QED
    BY <2>1, <2>2, <2>3, <2>4, <2>5
<1>8. QED
  BY <1>1, <1>2, <1>4, <1>5, <1>6, <1>7 DEF RoomInv

\* Handing out tasks takes a job off the cluster or puts an allowed one on it.
LEMMA ScheduleRoomInv ==
  ASSUME TypeOK, PassInv, RoomInv, Steady', [Next]_vars, ScheduleJob
  PROVE  RoomInv'
<1> DEFINE j == jobs_info[pos]
<1>1. /\ Steady /\ phase = "act" /\ pos' = pos + 1
      /\ UNCHANGED <<cluster_status, status, rows, phase, jobs_info, allowed, given>>
  BY SteadyBackwards DEF ScheduleJob, table, history
<1>2. pos \in DOMAIN jobs_info /\ pos \in Nat /\ j \in Jobs /\ rows[j] # None
  BY <1>1, CurrentJob DEF ScheduleJob, TypeOK, RoundType, PassInv, ListInv, Lists,
                          Looping
<1>3. Found' = Found /\ \A S : Affordable(S)' <=> Affordable(S)
  BY <1>1 DEF Found, Affordable
<1>4. Affordable(Found)'
  BY <1>1, <1>3 DEF RoomInv
<1> DEFINE submit  == rows[j].status = "queued" /\ j \in allowed
           preempt == /\ j \in Preemptible \ allowed
                      /\ rows[j].status \in {"scheduling", "running"}
<1>5. \/ submit /\ tasks' = tasks \cup {OwnTask(j, "submit")}
      \/ preempt /\ tasks' = tasks \cup {OwnTask(j, "kill")}
      \/ ~submit /\ ~preempt /\ tasks' = tasks
  BY DEF ScheduleJob
<1>6. \A t \in tasks' : t.own
  BY <1>1, <1>5 DEF RoomInv, OwnTask
<1>7. ASSUME NEW k \in Jobs, OwnTask(k, "submit") \in tasks'
      PROVE  k \in allowed
  <2>1. CASE OwnTask(k, "submit") \in tasks
    BY <1>1, <2>1 DEF RoomInv
  <2>2. CASE OwnTask(k, "submit") \notin tasks
    <3>0. OwnTask(k, "submit") # OwnTask(j, "kill")
      BY DEF OwnTask
    <3> HIDE DEF j
    <3>1. submit /\ OwnTask(k, "submit") = OwnTask(j, "submit")
      BY <1>5, <1>7, <2>2, <3>0
    <3>2. k = j
      BY <3>1 DEF OwnTask
    <3>3. QED
      BY <3>1, <3>2
  <2>3. QED
    BY <2>1, <2>2
<1>8. ASSUME NEW k \in Load' \ allowed
      PROVE  /\ k \in Found \cap Preemptible
             /\ \E i \in DOMAIN jobs_info : i >= pos + 1 /\ jobs_info[i] = k
  <2>1. /\ k \in Jobs /\ OwnTask(k, "submit") \notin tasks'
        /\ status[k] \in {"scheduling", "running"} /\ OwnTask(k, "kill") \notin tasks'
    BY <1>1, <1>7, <1>8 DEF Load
  <2>2. k \in Load
    BY <1>5, <2>1 DEF Load
  <2>3. /\ k \in Found \cap Preemptible
        /\ \E i \in DOMAIN jobs_info : i >= pos /\ jobs_info[i] = k
    BY <1>1, <1>8, <2>2 DEF RoomInv
  <2>4. PICK i \in DOMAIN jobs_info : i >= pos /\ jobs_info[i] = k
    BY <2>3
  <2>5. i # pos
    <3>1. SUFFICES ASSUME k = j
                   PROVE  FALSE
      BY <2>4
    <3>2. rows[k].status \in {"scheduling", "running"}
      BY <2>3 DEF Found, TypeOK, RoundType, Row, Statuses
    <3>3. preempt
      BY <1>8, <2>3, <3>1, <3>2
    <3>4. ~submit
      BY <1>8, <3>1
    <3>5. QED
      BY <1>5, <2>1, <3>1, <3>3, <3>4
  <2>6. i \in Nat
    BY DEF TypeOK, RoundType
  <2>7. QED
    BY <1>2, <2>3, <2>4, <2>5, <2>6
<1> HIDE DEF j
<1>9. QED
  BY <1>1, <1>3, <1>4, <1>6, <1>7, <1>8 DEF RoomInv

\* What is left on the cluster when a pass ends are allowed jobs.
LEMMA EndRoomInv ==
  ASSUME TypeOK, PassInv, RoomInv, Steady', [Next]_vars, EndPass
  PROVE  RoomInv'
<1>1. /\ Steady /\ phase = "act" /\ phase' = "idle"
      /\ UNCHANGED <<cluster_status, tasks, status>>
      /\ pos > Len(jobs_info) /\ pos \in Nat
  BY SteadyBackwards DEF EndPass, Forget, table, TypeOK, RoundType
<1>2. \A i \in DOMAIN jobs_info : ~(i >= pos)
  BY <1>1 DEF TypeOK, RoundType
<1>3. Load \subseteq allowed /\ allowed \subseteq Jobs
  BY <1>1, <1>2 DEF RoomInv, TypeOK, RoundType
<1>4. Affordable(allowed)
  BY <1>1, AllowedAffordable DEF RoomInv, Looping
<1>5. Affordable(Load)
  BY <1>3, <1>4, AffordableMonotone
<1>6. Load' = Load
  BY <1>1 DEF Load
<1>7. Affordable(Load)'
  BY <1>1, <1>5, <1>6 DEF Affordable
<1>8. QED
  BY <1>1, <1>7 DEF RoomInv, Looping

LEMMA NextRoomInv == TypeOK /\ PassInv /\ RoomInv /\ [Next]_vars => RoomInv'
<1> SUFFICES ASSUME TypeOK, PassInv, RoomInv, [Next]_vars, Steady'
             PROVE  RoomInv'
  BY DEF RoomInv
<1>1. CASE Others \/ (\E t \in tasks : TaskDone(t))
  BY <1>1, OthersRoomInv
<1>2. CASE Pass
  BY <1>2, FetchRoomInv, VerdictRoomInv, ScheduleRoomInv, EndRoomInv DEF Pass
<1>3. CASE UNCHANGED vars
  <2>1. UNCHANGED <<status, tasks, cluster_status, rows, phase, given, allowed, pos, jobs_info, faults, crashes>>
    BY <1>3 DEF vars
  <2>2. Load' = Load /\ Found' = Found
    BY <2>1 DEF Load, Found
  <2>3. \A S : Affordable(S)' <=> Affordable(S)
    BY <2>1 DEF Affordable
  <2>4. Affordable(Load)' = Affordable(Load) /\ Affordable(Found)' = Affordable(Found)
    BY <2>1, <2>2 DEF Affordable
  <2>5. QED
    BY <2>1, <2>2, <2>4 DEF RoomInv, Steady
<1>4. QED
  BY <1>1, <1>2, <1>3, SteadyBackwards DEF Next

\* Between the passes, whatever jobs do between a pass's reads and the writes of
\* its tasks, what is on the cluster fits in it.
THEOREM ClusterNotOvercommitted == Spec => []NoOvercommit
<1>1. RoomInv => NoOvercommit
  BY DEF RoomInv, NoOvercommit, Steady, Affordable
<1>2. QED
  BY <1>1, InitRoomInv, NextRoomInv, SchedulerTypeCorrect, PassInvariant, PTL DEF Spec

-----------------------------------------------------------------------------
(***************************************************************************)
(* Passes do not thrash                                                    *)
(***************************************************************************)

\* Jobs of a kind were submitted in different seconds. The sort leaves open how
\* jobs come out that are alike in everything, and then a verdict may change:
\* the theorem needs this.
TimesApart ==
  \A j, k \in Jobs :
    j # k /\ (j \in Preemptible <=> k \in Preemptible) => JobTime[j] # JobTime[k]

\* The sort key that a job would have if it were fetched now.
LiveKey(j) ==
  <<IF j \in Preemptible THEN 1 ELSE 0,
    CASE status[j] = "running"    -> 0
      [] status[j] = "scheduling" -> 1
      [] status[j] = "queued"     -> 2,
    999999 - priority[j],
    lastUpdated[j],
    StartTime - JobTime[j]>>

\* The jobs of S that would come ahead of j.
Rivals(S, j) == {k \in S : Precedes(LiveKey(k), LiveKey(j))}

\* Nobody has changed anything since the pass under way fetched its jobs: what
\* it knows is so, and its list is in order.
Fresh ==
  /\ Own = {}
  /\ \A j \in Jobs : IF status[j] = "away" THEN rows[j] = None
                     ELSE /\ rows[j] # None
                          /\ rows[j].status = status[j]
                          /\ rows[j].lastUpdated = lastUpdated[j]
  /\ phase # "status" =>
       /\ given.cluster = get_cluster_schedulable(cluster_status)
       /\ given.vcs = get_vc_schedulables(cluster_status)
  /\ phase \in Looping =>
       \A h, i \in DOMAIN jobs_info : h < i =>
         Precedes(LiveKey(jobs_info[h]), LiveKey(jobs_info[i]))

\* Nobody but the tasks of the last full pass has changed anything since it
\* fetched its jobs: the jobs it allowed fit, no other job fits beside those of
\* them that would come ahead of it, and the tasks not yet carried out are for
\* jobs that are still as the pass saw them.
Standing ==
  /\ Affordable(last.allowed)
  /\ \A j \in last.allowed : status[j] # "away"
  /\ \A j \in Jobs \ last.allowed : status[j] # "away" =>
       ~Affordable(Rivals(last.allowed, j) \cup {j})
  /\ \A t \in Own :
       \/ t.fn = "submit" /\ t.job \in last.allowed /\ status[t.job] = "queued"
       \/ /\ t.fn = "kill" /\ t.job \in Preemptible \ last.allowed
          /\ status[t.job] \in {"scheduling", "running"}
  /\ phase = "act" => \A i \in DOMAIN jobs_info : i >= pos =>
       /\ status[jobs_info[i]] = rows[jobs_info[i]].status
       /\ \A t \in Own : t.job # jobs_info[i]

\* The count of moves tells when that is so.
CountInv ==
  /\ phase # "idle" => given.moves \in Nat /\ given.moves <= moves
  /\ last # None =>
       /\ last.moves \in Nat /\ last.moves <= moves /\ last.allowed \subseteq Jobs
       /\ phase \notin {"idle", "act"} => last.moves <= given.moves
  /\ phase = "act" => last.allowed = allowed /\ last.moves = given.moves

ThrashInv ==
  /\ CountInv
  /\ phase \notin {"idle", "act"} /\ given.moves = moves => Fresh
  /\ last # None /\ last.moves = moves => Standing

\* The lexicographic order of the keys, spelt out.
LEMMA PrecedesCases ==
  ASSUME NEW a, NEW b
  PROVE  Precedes(a, b) <=>
           \/ a[1] < b[1]
           \/ /\ a[1] = b[1]
              /\ \/ a[2] < b[2]
                 \/ /\ a[2] = b[2]
                    /\ \/ a[3] < b[3]
                       \/ /\ a[3] = b[3]
                          /\ \/ a[4] < b[4]
                             \/ a[4] = b[4] /\ a[5] < b[5]
<1>1. ASSUME NEW i \in 1..5, a[i] < b[i], \A h \in 1..(i - 1) : a[h] = b[h]
      PROVE  \/ a[1] < b[1]
             \/ /\ a[1] = b[1]
                /\ \/ a[2] < b[2]
                   \/ /\ a[2] = b[2]
                      /\ \/ a[3] < b[3]
                         \/ /\ a[3] = b[3]
                            /\ \/ a[4] < b[4]
                               \/ a[4] = b[4] /\ a[5] < b[5]
  <2>1. i = 1 \/ i = 2 \/ i = 3 \/ i = 4 \/ i = 5
    OBVIOUS
  <2>2. \A h \in 1..4 : h < i => a[h] = b[h]
    BY <1>1
  <2>3. QED
    BY <1>1, <2>1, <2>2
<1>2. a[1] < b[1] => Precedes(a, b)
  BY DEF Precedes
<1>3. ASSUME a[1] = b[1], a[2] < b[2]
      PROVE  Precedes(a, b)
  <2>1. 2 \in 1..5 /\ \A h \in 1..(2 - 1) : h = 1
    OBVIOUS
  <2>2. QED
    BY <1>3, <2>1 DEF Precedes
<1>4. ASSUME a[1] = b[1], a[2] = b[2], a[3] < b[3]
      PROVE  Precedes(a, b)
  <2>1. 3 \in 1..5 /\ \A h \in 1..(3 - 1) : h = 1 \/ h = 2
    OBVIOUS
  <2>2. QED
    BY <1>4, <2>1 DEF Precedes
<1>5. ASSUME a[1] = b[1], a[2] = b[2], a[3] = b[3], a[4] < b[4]
      PROVE  Precedes(a, b)
  <2>1. 4 \in 1..5 /\ \A h \in 1..(4 - 1) : h = 1 \/ h = 2 \/ h = 3
    OBVIOUS
  <2>2. QED
    BY <1>5, <2>1 DEF Precedes
<1>6. ASSUME a[1] = b[1], a[2] = b[2], a[3] = b[3], a[4] = b[4], a[5] < b[5]
      PROVE  Precedes(a, b)
  <2>1. 5 \in 1..5 /\ \A h \in 1..(5 - 1) : h = 1 \/ h = 2 \/ h = 3 \/ h = 4
    OBVIOUS
  <2>2. QED
    BY <1>6, <2>1 DEF Precedes
<1>7. QED
  BY <1>1, <1>2, <1>3, <1>4, <1>5, <1>6 DEF Precedes

\* The key of a job that is in the lists.
LEMMA LiveKeyFacts ==
  ASSUME TypeOK, NEW j \in Jobs, status[j] # "away"
  PROVE  /\ LiveKey(j)[1] = (IF j \in Preemptible THEN 1 ELSE 0)
         /\ LiveKey(j)[2] \in {0, 1, 2}
         /\ LiveKey(j)[2] = 2 <=> status[j] = "queued"
         /\ LiveKey(j)[3] = 999999 - priority[j] /\ LiveKey(j)[3] \in Int
         /\ LiveKey(j)[4] = lastUpdated[j] /\ LiveKey(j)[4] \in Nat
         /\ LiveKey(j)[5] = StartTime - JobTime[j] /\ LiveKey(j)[5] \in Int
<1>1. status[j] \in {"queued", "scheduling", "running"}
  BY DEF TypeOK, TableType, Statuses
<1>2. priority[j] \in Nat /\ lastUpdated[j] \in Nat
  BY DEF TypeOK, TableType
<1>3. StartTime \in Nat /\ JobTime[j] \in Nat
  BY ParametersAssumption
<1>4. QED
  BY <1>1, <1>2, <1>3 DEF LiveKey

\* The same after a step.
LEMMA NextKeyFacts ==
  ASSUME TypeOK', NEW j \in Jobs, status'[j] # "away"
  PROVE  /\ LiveKey(j)'[1] = (IF j \in Preemptible THEN 1 ELSE 0)
         /\ LiveKey(j)'[2] \in {0, 1, 2}
         /\ LiveKey(j)'[2] = 2 <=> status'[j] = "queued"
<1>1. status'[j] \in {"queued", "scheduling", "running"}
  BY DEF TypeOK, TableType, Statuses
<1>2. QED
  BY <1>1 DEF LiveKey

\* Of two jobs in the lists one comes first.
LEMMA LiveOrder ==
  ASSUME TypeOK, TimesApart, NEW j \in Jobs, NEW k \in Jobs, j # k,
         status[j] # "away", status[k] # "away"
  PROVE  Precedes(LiveKey(j), LiveKey(k)) <=> ~Precedes(LiveKey(k), LiveKey(j))
<1>1. LiveKey(j)[1] = LiveKey(k)[1] => LiveKey(j)[5] # LiveKey(k)[5]
  <2>1. StartTime \in Nat /\ JobTime[j] \in Nat /\ JobTime[k] \in Nat
    BY ParametersAssumption
  <2>2. QED
    BY <2>1, LiveKeyFacts DEF TimesApart
<1>2. /\ LiveKey(j)[1] \in Int /\ LiveKey(j)[2] \in Int /\ LiveKey(j)[3] \in Int
      /\ LiveKey(j)[4] \in Int /\ LiveKey(j)[5] \in Int
      /\ LiveKey(k)[1] \in Int /\ LiveKey(k)[2] \in Int /\ LiveKey(k)[3] \in Int
      /\ LiveKey(k)[4] \in Int /\ LiveKey(k)[5] \in Int
  BY LiveKeyFacts
<1>3. QED
  BY <1>1, <1>2, PrecedesCases

\* Where the verdict stands, steps that leave the table alone and hand out
\* nothing leave it standing.
LEMMA StandingFrame ==
  ASSUME Standing, UNCHANGED <<status, lastUpdated, priority, cluster_status, last>>,
         Own' \subseteq Own,
         phase' # "act" \/ UNCHANGED <<phase, rows, jobs_info, pos>>
  PROVE  Standing'
<1>1. \A j \in Jobs : LiveKey(j)' = LiveKey(j)
  BY DEF LiveKey
<1>2. \A S : Affordable(S)' <=> Affordable(S)
  BY DEF Affordable
<1>3. ASSUME NEW j \in Jobs
      PROVE  Rivals(last.allowed, j)' = Rivals(last.allowed, j)
  <2>1. LiveKey(j)' = LiveKey(j) /\ \A k : LiveKey(k)' = LiveKey(k)
    BY DEF LiveKey
  <2>2. QED
    BY <2>1 DEF Rivals
<1>4. Affordable(last.allowed)'
  BY <1>2 DEF Standing
<1>5. ASSUME NEW j \in Jobs \ last.allowed', status'[j] # "away"
      PROVE  ~Affordable(Rivals(last.allowed, j) \cup {j})'
  <2>1. ~Affordable(Rivals(last.allowed, j) \cup {j})
    BY <1>5 DEF Standing
  <2>2. QED
    BY <1>3, <2>1 DEF Affordable
<1>6. \A t \in Own' :
        \/ t.fn = "submit" /\ t.job \in last.allowed' /\ status'[t.job] = "queued"
        \/ /\ t.fn = "kill" /\ t.job \in Preemptible \ last.allowed'
           /\ status'[t.job] \in {"scheduling", "running"}
  BY DEF Standing
<1>7. QED
  BY <1>4, <1>5, <1>6 DEF Standing

\* A task carried out moves its job up the list if it was allowed, and down if it
\* was not.
LEMMA TaskDoneStanding ==
  ASSUME TypeOK, TypeOK', Standing, last.allowed \subseteq Jobs,
         NEW t \in Own, TaskDone(t)
  PROVE  Standing'
<1> DEFINE A == last.allowed
           n == t.job
<1>1. /\ t \in Task /\ n \in Jobs
      /\ UNCHANGED <<phase, rows, jobs_info, pos, last, priority, cluster_status>>
      /\ tasks' = tasks \ {t} /\ Own' = Own \ {t}
  BY DEF TaskDone, Finish, round, history, Own, TypeOK, Task
<1>2. \/ /\ t.fn = "submit" /\ n \in A /\ status[n] = "queued"
         /\ status'[n] = "scheduling"
      \/ /\ t.fn = "kill" /\ n \in Preemptible \ A
         /\ status[n] \in {"scheduling", "running"} /\ status'[n] = "queued"
  BY <1>1 DEF Standing, TaskDone, TypeOK, TableType
<1>3. \A j \in Jobs : j # n => status'[j] = status[j] /\ lastUpdated'[j] = lastUpdated[j]
  BY DEF TaskDone, TypeOK, TableType
<1>4. ASSUME NEW j \in Jobs, j # n
      PROVE  LiveKey(j)' = LiveKey(j)
  <2>1. status'[j] = status[j] /\ lastUpdated'[j] = lastUpdated[j] /\ priority' = priority
    BY <1>1, <1>3, <1>4
  <2> HIDE DEF n
  <2>2. QED
    BY <2>1 DEF LiveKey
<1>5. \A j \in Jobs : status'[j] # "away" <=> status[j] # "away"
  BY <1>2, <1>3
<1>6. \A S : Affordable(S)' <=> Affordable(S)
  BY <1>1 DEF Affordable
<1>7. ASSUME NEW j \in Jobs \ A, status[j] # "away", NEW k \in A,
             Precedes(LiveKey(k), LiveKey(j))
      PROVE  Precedes(LiveKey(k)', LiveKey(j)')
  <2>1. k \in Jobs /\ k # j /\ status[k] # "away"
    BY <1>7 DEF Standing
  <2>2. status'[j] # "away" /\ status'[k] # "away"
    BY <1>5, <1>7, <2>1
  <2>3. CASE n # j /\ n # k
    BY <1>4, <1>7, <2>1, <2>3
  <2>4. CASE n = k
    <3>1. LiveKey(k)[2] = 2 /\ LiveKey(k)'[2] \in {0, 1, 2} /\ LiveKey(k)'[2] # 2
      BY <1>2, <2>1, <2>2, <2>4, LiveKeyFacts, NextKeyFacts
    <3>2. LiveKey(k)'[1] = LiveKey(k)[1] /\ LiveKey(k)[1] \in {0, 1}
      BY <2>1, <2>2, LiveKeyFacts, NextKeyFacts
    <3>3. LiveKey(j)' = LiveKey(j) /\ LiveKey(j)[2] \in {0, 1, 2} /\ LiveKey(j)[1] \in {0, 1}
      BY <1>4, <1>7, <2>1, <2>4, LiveKeyFacts, NextKeyFacts
    <3>4. QED
      BY <1>7, <3>1, <3>2, <3>3, PrecedesCases
  <2>5. CASE n = j
    <3>1. LiveKey(j)'[2] = 2 /\ LiveKey(j)[2] \in {0, 1}
      BY <1>2, <1>7, <2>2, <2>5, LiveKeyFacts, NextKeyFacts
    <3>2. LiveKey(j)'[1] = LiveKey(j)[1] /\ LiveKey(j)[1] \in {0, 1}
      BY <1>7, <2>2, LiveKeyFacts, NextKeyFacts
    <3>3. LiveKey(k)' = LiveKey(k) /\ LiveKey(k)[2] \in {0, 1, 2} /\ LiveKey(k)[1] \in {0, 1}
      BY <1>4, <2>1, <2>5, LiveKeyFacts, NextKeyFacts
    <3>4. QED
      BY <1>7, <3>1, <3>2, <3>3, PrecedesCases
  <2>6. QED
    BY <2>3, <2>4, <2>5
<1>8. ASSUME NEW j \in Jobs \ A, status[j] # "away"
      PROVE  ~Affordable(Rivals(last.allowed, j)' \cup {j})
  <2>1. Rivals(A, j) \cup {j} \subseteq Rivals(last.allowed, j)' \cup {j}
    BY <1>1, <1>7, <1>8 DEF Rivals
  <2>2. ~Affordable(Rivals(A, j) \cup {j})
    BY <1>8 DEF Standing
  <2>3. Rivals(last.allowed, j)' \cup {j} \in SUBSET Jobs
    BY <1>1, <1>8 DEF Rivals
  <2> HIDE DEF A
  <2>4. QED
    BY <2>1, <2>2, <2>3, AffordableMonotone
<1>9. ASSUME NEW j \in Jobs \ last.allowed', status'[j] # "away"
      PROVE  ~Affordable(Rivals(last.allowed, j) \cup {j})'
  <2>1. ~Affordable(Rivals(last.allowed, j)' \cup {j})
    BY <1>1, <1>5, <1>8, <1>9
  <2>2. QED
    BY <1>1, <2>1 DEF Affordable
<1>10. ASSUME NEW u \in Own'
       PROVE  \/ u.fn = "submit" /\ u.job \in A /\ status'[u.job] = "queued"
              \/ /\ u.fn = "kill" /\ u.job \in Preemptible \ A
                 /\ status'[u.job] \in {"scheduling", "running"}
  <2>1. /\ u \in Own /\ u # t /\ u \in Task
        /\ \/ u.fn = "submit" /\ u.job \in A /\ status[u.job] = "queued"
           \/ /\ u.fn = "kill" /\ u.job \in Preemptible \ A
              /\ status[u.job] \in {"scheduling", "running"}
    BY <1>1 DEF Standing, Own, TypeOK
  <2>2. u.own /\ t.own
    BY <2>1 DEF Own
  <2>3. u.job # n
    <3>1. SUFFICES ASSUME u.job = n
                   PROVE  FALSE
      OBVIOUS
    <3>2. u.fn = t.fn
      BY <1>2, <2>1, <3>1
    <3>3. u = t
      BY <1>1, <2>1, <2>2, <3>1, <3>2 DEF Task
    <3>4. QED
      BY <2>1, <3>3
  <2>4. u.job \in Jobs
    BY <2>1 DEF Task
  <2>5. status'[u.job] = status[u.job]
    BY <1>3, <2>3, <2>4
  <2>6. QED
    BY <2>1, <2>5
<1>11. ASSUME phase' = "act", NEW i \in DOMAIN jobs_info', i >= pos'
       PROVE  /\ status'[jobs_info'[i]] = rows'[jobs_info'[i]].status
              /\ \A u \in Own' : u.job # jobs_info'[i]
  <2>1. /\ status[jobs_info[i]] = rows[jobs_info[i]].status
        /\ \A u \in Own : u.job # jobs_info[i]
        /\ jobs_info[i] \in Jobs
    BY <1>1, <1>11 DEF Standing, TypeOK, RoundType
  <2>2. jobs_info[i] # n
    BY <2>1
  <2>3. QED
    BY <1>1, <1>3, <2>1, <2>2
<1>12. Affordable(last.allowed)' /\ \A j \in last.allowed' : status'[j] # "away"
  BY <1>1, <1>5, <1>6 DEF Standing, Affordable
<1> HIDE DEF A
<1>13. QED
  BY <1>1, <1>9, <1>10, <1>11, <1>12 DEF Standing, A

\* When the loops end and nobody has changed anything, the verdict stands.
LEMMA VerdictStands ==
  ASSUME TypeOK, PassInv, TimesApart, Fresh, NextLoop, phase = "preemptible"
  PROVE  Standing'
<1>1. /\ phase' = "act" /\ pos > Len(jobs_info) /\ last'.allowed = allowed /\ pos' = 1
      /\ UNCHANGED <<status, lastUpdated, priority, cluster_status, rows, jobs_info,
                     allowed, given, tasks>>
      /\ Own = {} /\ Own' = {}
  BY DEF NextLoop, table, Fresh, Own
<1>2. /\ given.cluster = get_cluster_schedulable(cluster_status)
      /\ given.vcs = get_vc_schedulables(cluster_status)
      /\ phase \in Looping
  BY DEF Fresh, Looping
<1>3. \A S : Affordable(S)' <=> Affordable(S)
  BY <1>1 DEF Affordable
<1>4. Affordable(allowed)
  BY <1>2, AllowedAffordable
<1>5. \A j \in allowed : status[j] # "away"
  BY DEF PassInv, VerdictInv, ListInv, Lists, Fresh, Looping, TypeOK, RoundType
<1>6. ASSUME NEW j \in Jobs \ allowed, status[j] # "away"
      PROVE  ~Affordable(Rivals(allowed, j) \cup {j})
  <2>1. PICK i \in DOMAIN jobs_info : jobs_info[i] = j
    BY <1>2, <1>6 DEF Fresh, PassInv, ListInv, Lists
  <2>2. i \in Nat /\ i < pos /\ \A h \in 1..(i - 1) : h \in DOMAIN jobs_info /\ h < i
    BY <1>1 DEF TypeOK, RoundType
  <2>3. Greedy(i)
    BY <2>2 DEF PassInv, VerdictInv, Considered
  <2>4. ~Affordable(Ahead(i) \cup {j})
    BY <1>2, <1>6, <2>1, <2>3 DEF Greedy, Affordable
  <2>5. Ahead(i) \subseteq Rivals(allowed, j)
    BY <1>2, <2>1, <2>2 DEF Ahead, Rivals, Fresh
  <2>6. Rivals(allowed, j) \cup {j} \in SUBSET Jobs
    BY DEF Rivals, TypeOK, RoundType
  <2>7. QED
    BY <2>4, <2>5, <2>6, AffordableMonotone
<1>7. ASSUME NEW j \in Jobs \ last'.allowed, status'[j] # "away"
      PROVE  ~Affordable(Rivals(last.allowed, j) \cup {j})'
  <2>1. \A k : LiveKey(k)' = LiveKey(k)
    BY <1>1 DEF LiveKey
  <2>2. Rivals(last.allowed, j)' = Rivals(allowed, j)
    BY <1>1, <2>1 DEF Rivals
  <2>3. ~Affordable(Rivals(allowed, j) \cup {j})
    BY <1>1, <1>6, <1>7
  <2>4. QED
    BY <1>1, <2>2, <2>3 DEF Affordable
<1>8. ASSUME NEW i \in DOMAIN jobs_info'
      PROVE  status'[jobs_info'[i]] = rows'[jobs_info'[i]].status
  <2>1. jobs_info[i] \in Jobs /\ rows[jobs_info[i]] # None
    BY <1>1, <1>2 DEF PassInv, ListInv, Lists, TypeOK, RoundType
  <2>2. QED
    BY <1>1, <2>1 DEF Fresh
<1>9. Affordable(last.allowed)' /\ \A j \in last.allowed' : status'[j] # "away"
  BY <1>1, <1>4, <1>5 DEF Affordable
<1>10. QED
  BY <1>1, <1>7, <1>8, <1>9 DEF Standing

\* What a pass fetches is so.
LEMMA FetchThrash ==
  ASSUME TypeOK, ThrashInv, Fetch
  PROVE  ThrashInv'
<1>1. /\ phase = "idle" /\ phase' = "status" /\ given' = [moves |-> moves]
      /\ UNCHANGED <<status, lastUpdated, priority, cluster_status, last, moves, tasks>>
      /\ Own = {} /\ Own' = {}
  BY DEF Fetch, table, budget, Own
<1>2. CountInv'
  BY <1>1 DEF ThrashInv, CountInv, TypeOK
<1>3. Fresh'
  <2>1. ASSUME NEW j \in Jobs
        PROVE  IF status'[j] = "away" THEN rows'[j] = None
               ELSE /\ rows'[j] # None
                    /\ rows'[j].status = status'[j]
                    /\ rows'[j].lastUpdated = lastUpdated'[j]
    <3>1. status[j] = "away" => rows'[j] = None
      BY DEF Fetch
    <3>2. status[j] # "away" =>
            rows'[j] = [status |-> status[j], lastUpdated |-> lastUpdated[j]]
      BY DEF Fetch
    <3>3. status[j] # "away" => rows'[j] \in Row
      BY <3>2 DEF Row, Statuses, TypeOK, TableType
    <3>4. QED
      BY <1>1, <3>1, <3>2, <3>3, NoneAssumption
  <2>2. QED
    BY <1>1, <2>1 DEF Fresh, Looping
<1>4. Standing => Standing'
  BY <1>1, StandingFrame
<1>5. QED
  BY <1>1, <1>2, <1>3, <1>4 DEF ThrashInv

\* The list is in the order of the keys of the moment.
LEMMA SortThrash ==
  ASSUME TypeOK, PassInv, TimesApart, ThrashInv, SortJobs
  PROVE  ThrashInv'
<1>1. /\ phase = "sort" /\ phase' = "nonpreemptible"
      /\ UNCHANGED <<status, lastUpdated, priority, cluster_status, rows, given, last, tasks>>
      /\ Own' = Own /\ moves \in Nat
      /\ moves' = moves \/ moves' = moves + 1
  BY DEF SortJobs, table, history, Own, TypeOK
<1>2. CountInv'
  BY <1>1 DEF ThrashInv, CountInv
<1>3. given.moves \in Nat /\ given.moves <= moves /\ (last # None => last.moves \in Nat /\ last.moves <= moves)
  BY <1>1 DEF ThrashInv, CountInv
<1>4. ASSUME moves' = moves, Fresh
      PROVE  Fresh'
  <2> DEFINE J == {j \in Jobs : rows[j] # None}
  <2>1. PICK p : /\ jobs_info' \in SortedLists(J, p)
                 /\ \A j \in J : p[j] = priority[j]
    <3>1. \A j \in J : status[j] # "away"
      BY <1>4 DEF Fresh
    <3>2. \/ \E unknown \in SUBSET {j \in {j \in Jobs : rows[j] # None} : status[j] = "away"} :
               jobs_info' \in SortedLists({j \in Jobs : rows[j] # None},
                 [j \in Jobs |-> IF j \in unknown THEN DefaultPriority ELSE priority[j]])
          \/ moves' = moves + 1
      BY DEF SortJobs
    <3>3. moves' # moves + 1
      BY <1>1, <1>4
    <3>4. PICK unknown \in SUBSET {j \in J : status[j] = "away"} :
            jobs_info' \in SortedLists(J,
              [j \in Jobs |-> IF j \in unknown THEN DefaultPriority ELSE priority[j]])
      BY <3>2, <3>3
    <3>5. unknown = {}
      BY <3>1
    <3>6. QED
      BY <3>4, <3>5
  <2>2. ASSUME NEW j \in J
        PROVE  j \in Jobs /\ status[j] # "away" /\ SortKey(j, p) = LiveKey(j)
    <3>1. /\ j \in Jobs /\ status[j] # "away" /\ rows[j].status = status[j]
          /\ rows[j].lastUpdated = lastUpdated[j]
      BY <1>4 DEF Fresh
    <3>2. p[j] = priority[j]
      BY <2>1
    <3> HIDE DEF J
    <3>3. QED
      BY <3>1, <3>2 DEF SortKey, LiveKey
  <2> HIDE DEF J
  <2>3. /\ jobs_info' \in [1..Cardinality(J) -> J]
        /\ \A h, i \in DOMAIN jobs_info' :
             h < i => /\ jobs_info'[h] # jobs_info'[i]
                      /\ ~Precedes(SortKey(jobs_info'[i], p), SortKey(jobs_info'[h], p))
    BY <2>1 DEF SortedLists
  <2>4. ASSUME NEW h \in DOMAIN jobs_info', NEW i \in DOMAIN jobs_info', h < i
        PROVE  Precedes(LiveKey(jobs_info[h])', LiveKey(jobs_info[i])')
    <3>1. jobs_info'[h] \in J /\ jobs_info'[i] \in J /\ jobs_info'[h] # jobs_info'[i]
      BY <2>3, <2>4
    <3>2. ~Precedes(LiveKey(jobs_info'[i]), LiveKey(jobs_info'[h]))
      BY <2>2, <2>3, <2>4, <3>1
    <3>3. Precedes(LiveKey(jobs_info'[h]), LiveKey(jobs_info'[i]))
      BY <2>2, <3>1, <3>2, LiveOrder
    <3>4. /\ LiveKey(jobs_info[h])' = LiveKey(jobs_info'[h])
          /\ LiveKey(jobs_info[i])' = LiveKey(jobs_info'[i])
      BY <1>1 DEF LiveKey
    <3>5. QED
      BY <3>3, <3>4
  <2>5. \A j \in Jobs : IF status'[j] = "away" THEN rows'[j] = None
                        ELSE /\ rows'[j] # None
                             /\ rows'[j].status = status'[j]
                             /\ rows'[j].lastUpdated = lastUpdated'[j]
    BY <1>1, <1>4 DEF Fresh
  <2>6. /\ given'.cluster = get_cluster_schedulable(cluster_status')
        /\ given'.vcs = get_vc_schedulables(cluster_status')
        /\ Own' = {}
    BY <1>1, <1>4 DEF Fresh
  <2>7. QED
    BY <2>4, <2>5, <2>6 DEF Fresh
<1>5. Standing => Standing'
  BY <1>1, StandingFrame
<1>6. QED
  BY <1>1, <1>2, <1>3, <1>4, <1>5 DEF ThrashInv

\* Once the count of moves has gone up, nothing is claimed.
LEMMA MovedThrash ==
  ASSUME TypeOK, ThrashInv, moves' = moves + 1,
         UNCHANGED <<phase, given, last>>, phase = "act" => allowed' = allowed
  PROVE  ThrashInv'
<1>1. moves \in Nat /\ CountInv
  BY DEF TypeOK, ThrashInv
<1>2. CountInv'
  BY <1>1 DEF CountInv
<1>3. phase \notin {"idle", "act"} => given.moves # moves'
  BY <1>1 DEF CountInv
<1>4. last # None => last.moves # moves'
  BY <1>1 DEF CountInv
<1>5. QED
  BY <1>2, <1>3, <1>4 DEF ThrashInv

\* What the pass under way read stays so while it goes through its loops.
LEMMA FreshFrame ==
  ASSUME Fresh, UNCHANGED <<status, lastUpdated, priority, cluster_status, given,
                            rows, jobs_info>>,
         Own' \subseteq Own,
         phase' # "status" => phase # "status",
         phase' \in Looping => phase \in Looping
  PROVE  Fresh'
<1>1. \A j : LiveKey(j)' = LiveKey(j)
  BY DEF LiveKey
<1>2. phase' \in Looping => \A h, i \in DOMAIN jobs_info : h < i =>
        Precedes(LiveKey(jobs_info[h]), LiveKey(jobs_info[i]))
  BY DEF Fresh
<1>3. phase' \in Looping => \A h, i \in DOMAIN jobs_info' : h < i =>
        Precedes(LiveKey(jobs_info[h])', LiveKey(jobs_info[i])')
  <2>1. \A i : LiveKey(jobs_info[i])' = LiveKey(jobs_info[i])
    BY DEF LiveKey
  <2>2. QED
    BY <1>2, <2>1
<1>4. QED
  BY <1>3 DEF Fresh

LEMMA InitThrash == Init => ThrashInv
BY DEF Init, ThrashInv, CountInv

\* The cluster is read in the same moment as it is noted.
LEMMA ClusterThrash ==
  ASSUME TypeOK, ThrashInv, GetClusterStatus
  PROVE  ThrashInv'
<1>1. /\ phase = "status" /\ phase' = "sort"
      /\ given'.moves = given.moves
      /\ given'.cluster = get_cluster_schedulable(cluster_status)
      /\ given'.vcs = get_vc_schedulables(cluster_status)
      /\ UNCHANGED <<status, lastUpdated, priority, cluster_status, rows, last, tasks,
                     moves, jobs_info, pos>>
      /\ Own' = Own
  BY DEF GetClusterStatus, table, budget, Own
<1>2. CountInv'
  BY <1>1 DEF ThrashInv, CountInv
<1>3. Fresh => Fresh'
  BY <1>1 DEF Fresh, Looping
<1>4. Standing => Standing'
  BY <1>1, StandingFrame
<1>5. QED
  BY <1>1, <1>2, <1>3, <1>4 DEF ThrashInv

LEMMA MarkThrash ==
  ASSUME TypeOK, ThrashInv, MarkNonPreemptible \/ MarkPreemptible
  PROVE  ThrashInv'
<1>1. /\ phase \in {"nonpreemptible", "preemptible"}
      /\ UNCHANGED <<phase, status, lastUpdated, priority, cluster_status, given, rows,
                     jobs_info, last, moves>>
      /\ Own' = Own
  BY DEF MarkNonPreemptible, MarkPreemptible, table, history, budget, Own
<1>2. CountInv'
  BY <1>1 DEF ThrashInv, CountInv
<1>3. Fresh => Fresh'
  BY <1>1, FreshFrame
<1>4. Standing => Standing'
  BY <1>1, StandingFrame
<1>5. QED
  BY <1>1, <1>2, <1>3, <1>4 DEF ThrashInv

LEMMA LoopEndThrash ==
  ASSUME TypeOK, PassInv, TimesApart, ThrashInv, NextLoop
  PROVE  ThrashInv'
<1>1. /\ UNCHANGED <<status, lastUpdated, priority, cluster_status, given, rows,
                     jobs_info, moves, allowed>>
      /\ Own' = Own
  BY DEF NextLoop, table, budget, Own
<1>2. CASE phase = "nonpreemptible"
  <2>1. phase' = "preemptible" /\ last' = last
    BY <1>2 DEF NextLoop
  <2>2. CountInv'
    BY <1>1, <1>2, <2>1 DEF ThrashInv, CountInv
  <2>3. Fresh => Fresh'
    BY <1>1, <1>2, <2>1, FreshFrame DEF Looping
  <2>4. Standing => Standing'
    BY <1>1, <2>1, StandingFrame
  <2>5. QED
    BY <1>1, <1>2, <2>1, <2>2, <2>3, <2>4 DEF ThrashInv
<1>3. CASE phase = "preemptible"
  <2>1. phase' = "act" /\ last' = [moves |-> given.moves, allowed |-> allowed]
    BY <1>3 DEF NextLoop
  <2>2. allowed \subseteq Jobs
    BY DEF TypeOK, RoundType
  <2>3. CountInv'
    BY <1>1, <1>3, <2>1, <2>2 DEF ThrashInv, CountInv
  <2>4. last'.moves = moves' => Standing'
    BY <1>1, <1>3, <2>1, VerdictStands DEF ThrashInv
  <2>5. QED
    BY <2>1, <2>3, <2>4 DEF ThrashInv
<1>4. QED
  BY <1>2, <1>3 DEF NextLoop

\* The task handed out is for a job that the verdict speaks of, and the list holds
\* each job once.
LEMMA ScheduleThrash ==
  ASSUME TypeOK, PassInv, ThrashInv, ScheduleJob
  PROVE  ThrashInv'
<1> DEFINE j == jobs_info[pos]
<1>1. /\ phase = "act" /\ pos' = pos + 1 /\ pos \in Nat /\ pos \in DOMAIN jobs_info
      /\ j \in Jobs
      /\ UNCHANGED <<phase, status, lastUpdated, priority, cluster_status, given, rows,
                     jobs_info, allowed, last, moves>>
  BY CurrentJob DEF ScheduleJob, table, history, budget, TypeOK, RoundType
<1>2. CountInv'
  BY <1>1 DEF ThrashInv, CountInv
<1>3. /\ last.allowed = allowed
      /\ rows[j] # None /\ rows[j].status \in {"queued", "scheduling", "running"}
  <2>1. rows[j] # None
    BY <1>1 DEF PassInv, ListInv, Lists, Looping
  <2>2. QED
    BY <1>1, <2>1 DEF ThrashInv, CountInv, TypeOK, RoundType, Row, Statuses
<1>4. ASSUME NEW t \in Own' \ Own
      PROVE  \/ t = OwnTask(j, "submit") /\ j \in allowed /\ rows[j].status = "queued"
             \/ /\ t = OwnTask(j, "kill") /\ j \in Preemptible \ allowed
                /\ rows[j].status \in {"scheduling", "running"}
  <2>1. t \in tasks' \ tasks
    BY <1>4 DEF Own
  <2> HIDE DEF j
  <2>2. QED
    BY <2>1 DEF ScheduleJob, j
<1>5. ASSUME Standing
      PROVE  Standing'
  <2>1. status[j] = rows[j].status
    BY <1>1, <1>5 DEF Standing
  <2>2. ASSUME NEW t \in Own'
        PROVE  \/ t.fn = "submit" /\ t.job \in last.allowed' /\ status'[t.job] = "queued"
               \/ /\ t.fn = "kill" /\ t.job \in Preemptible \ last.allowed'
                  /\ status'[t.job] \in {"scheduling", "running"}
    <3>1. CASE t \in Own
      BY <1>1, <1>5, <3>1 DEF Standing
    <3>2. CASE t \notin Own
      BY <1>1, <1>3, <1>4, <2>1, <3>2 DEF OwnTask
    <3>3. QED
      BY <3>1, <3>2
  <2>3. ASSUME NEW i \in DOMAIN jobs_info', i >= pos'
        PROVE  /\ status'[jobs_info'[i]] = rows'[jobs_info'[i]].status
               /\ \A t \in Own' : t.job # jobs_info'[i]
    <3>1. i \in Nat /\ i >= pos /\ pos < i
      BY <1>1, <2>3 DEF TypeOK, RoundType
    <3>2. jobs_info[i] # j
      BY <1>1, <3>1 DEF PassInv, ListInv, Lists, InOrder, Looping
    <3>3. /\ status[jobs_info[i]] = rows[jobs_info[i]].status
          /\ \A t \in Own : t.job # jobs_info[i]
      BY <1>1, <1>5, <3>1 DEF Standing
    <3>4. \A t \in Own' \ Own : t.job = j
      BY <1>4 DEF OwnTask
    <3> HIDE DEF j
    <3>5. QED
      BY <1>1, <3>2, <3>3, <3>4
  <2>4. \A k : LiveKey(k)' = LiveKey(k)
    BY <1>1 DEF LiveKey
  <2>5. ASSUME NEW k \in Jobs \ last.allowed', status'[k] # "away"
        PROVE  ~Affordable(Rivals(last.allowed, k) \cup {k})'
    <3>1. Rivals(last.allowed, k)' = Rivals(last.allowed, k)
      BY <1>1, <2>4 DEF Rivals
    <3>2. ~Affordable(Rivals(last.allowed, k) \cup {k})
      BY <1>1, <1>5, <2>5 DEF Standing
    <3>3. QED
      BY <1>1, <3>1, <3>2 DEF Affordable
  <2>6. Affordable(last.allowed)' /\ \A k \in last.allowed' : status'[k] # "away"
    BY <1>1, <1>5 DEF Standing, Affordable
  <2>7. QED
    BY <2>2, <2>3, <2>5, <2>6 DEF Standing
<1>6. QED
  BY <1>1, <1>2, <1>5 DEF ThrashInv

LEMMA EndThrash ==
  ASSUME TypeOK, ThrashInv, EndPass \/ AbortPass \/ Restart
  PROVE  ThrashInv'
<1>1. /\ phase' = "idle"
      /\ UNCHANGED <<status, lastUpdated, priority, cluster_status, last, moves>>
      /\ Own' \subseteq Own
  <2>1. CASE EndPass \/ AbortPass
    BY <2>1 DEF EndPass, AbortPass, Forget, table, budget, Own
  <2>2. CASE Restart
    <3>1. PICK kept \in SUBSET Own :
            tasks' = (tasks \ Own) \cup {[t EXCEPT !.own = FALSE] : t \in kept}
      BY <2>2 DEF Restart
    <3>2. \A t \in kept : ~[t EXCEPT !.own = FALSE].own
      BY DEF Own, TypeOK, Task
    <3>3. Own' \subseteq Own
      BY <3>1, <3>2 DEF Own
    <3>4. QED
      BY <2>2, <3>3 DEF Restart, Forget, table
  <2>3. QED
    BY <2>1, <2>2
<1>2. CountInv'
  BY <1>1 DEF ThrashInv, CountInv
<1>3. Standing => Standing'
  BY <1>1, StandingFrame
<1>4. QED
  BY <1>1, <1>2, <1>3 DEF ThrashInv

\* The workers: a task that was carried out is covered by the verdict, one that
\* failed without a trace changes nothing.
LEMMA WorkerThrash ==
  ASSUME TypeOK, ThrashInv, TypeOK', NEW t \in tasks, TaskDone(t) \/ TaskFails(t)
  PROVE  ThrashInv'
<1>1. /\ UNCHANGED <<phase, rows, jobs_info, pos, allowed, given, last, priority,
                     cluster_status>>
      /\ tasks' = tasks \ {t} /\ moves \in Nat
      /\ Own' \subseteq Own
  BY DEF TaskDone, TaskFails, Finish, round, history, Own, TypeOK
<1>2. CASE moves' = moves + 1
  BY <1>1, <1>2, MovedThrash
<1>3. CASE moves' = moves
  <2>1. CountInv'
    BY <1>1, <1>3 DEF ThrashInv, CountInv
  <2>2. CASE TaskDone(t)
    <3>1. t \in Own
      BY <1>1, <1>3, <2>2 DEF TaskDone, Own
    <3>2. ~Fresh
      BY <3>1 DEF Fresh
    <3>3. last # None /\ last.moves = moves => Standing'
      BY <2>2, <3>1, TaskDoneStanding DEF ThrashInv, CountInv
    <3>4. QED
      BY <1>1, <1>3, <2>1, <3>2, <3>3 DEF ThrashInv
  <2>3. CASE TaskFails(t)
    <3>1. UNCHANGED <<status, lastUpdated>>
      BY <1>1, <1>3, <2>3 DEF TaskFails
    <3>2. Fresh => Fresh'
      BY <1>1, <3>1, FreshFrame
    <3>3. Standing => Standing'
      BY <1>1, <3>1, StandingFrame
    <3>4. QED
      BY <1>1, <1>3, <2>1, <3>2, <3>3 DEF ThrashInv
  <2>4. QED
    BY <2>2, <2>3
<1>4. QED
  BY <1>2, <1>3 DEF TaskDone, TaskFails

LEMMA NextThrash == TimesApart /\ TypeOK /\ PassInv /\ ThrashInv /\ [Next]_vars => ThrashInv'
<1> SUFFICES ASSUME TimesApart, TypeOK, PassInv, ThrashInv, [Next]_vars
             PROVE  ThrashInv'
  OBVIOUS
<1>1. CASE Others
  <2>1. moves' = moves + 1 /\ UNCHANGED <<phase, given, last, allowed>>
    BY <1>1 DEF Others, Queue, Leave, Observed, Vanished, StaleReport, SetPriority,
                UpdateClusterStatus, Move, round, history
  <2>2. QED
    BY <2>1, MovedThrash
<1>2. CASE Pass
  BY <1>2, FetchThrash, ClusterThrash, SortThrash, MarkThrash, LoopEndThrash,
     ScheduleThrash, EndThrash DEF Pass
<1>3. CASE AbortPass \/ Restart
  BY <1>3, EndThrash
<1>4. ASSUME NEW t \in tasks, TaskDone(t) \/ TaskFails(t)
      PROVE  ThrashInv'
  BY <1>4, NextType, WorkerThrash
<1>5. CASE UNCHANGED vars
  <2>1. UNCHANGED <<status, lastUpdated, priority, cluster_status, phase, rows, jobs_info,
                    pos, allowed, given, last, moves>> /\ Own' = Own
    BY <1>5 DEF vars, Own
  <2>2. CountInv'
    BY <2>1 DEF ThrashInv, CountInv
  <2>3. (Fresh => Fresh') /\ (Standing => Standing')
    BY <2>1, FreshFrame, StandingFrame
  <2>4. QED
    BY <2>1, <2>2, <2>3 DEF ThrashInv
<1>6. QED
  BY <1>1, <1>2, <1>3, <1>4, <1>5 DEF Next

\* Where numbers have a property there is a least one.
LEMMA LeastNumber ==
  ASSUME NEW X, X \subseteq Nat, X # {}
  PROVE  \E n \in X : \A m \in X : ~(m < n)
<1> DEFINE Y == {1..n : n \in X}
<1>1. Y \subseteq FiniteSubsetsOf(Nat) /\ Y # {}
  <2>1. ASSUME NEW n \in X
        PROVE  1..n \in FiniteSubsetsOf(Nat)
    <3>1. n \in Nat /\ IsFiniteSet(1..n) /\ 1..n \subseteq Nat
      BY FS_Interval
    <3>2. QED
      BY <3>1 DEF FiniteSubsetsOf
  <2>2. QED
    BY <2>1
<1>2. IsWellFoundedOn(StrictSubsetOrdering(Nat), FiniteSubsetsOf(Nat))
  BY FS_StrictSubsetOrderingWellFounded
<1>3. PICK S \in Y : \A T \in Y : <<T, S>> \notin StrictSubsetOrdering(Nat)
  <2> HIDE DEF Y
  <2>1. QED
    BY <1>1, <1>2, WFMin
<1>4. PICK n \in X : S = 1..n
  OBVIOUS
<1>5. ASSUME NEW m \in X, m < n
      PROVE  FALSE
  <2>1. m \in Nat /\ n \in Nat /\ 1..m \in Y
    OBVIOUS
  <2>2. 1..m \subseteq Nat /\ S \subseteq Nat /\ 1..m \subseteq S /\ 1..m # S
    <3>1. n \in 1..n /\ n \notin 1..m /\ 1..m \subseteq 1..n
      BY <1>5, <2>1
    <3>2. QED
      BY <1>4, <2>1, <3>1
  <2>3. QED
    BY <1>3, <2>1, <2>2 DEF StrictSubsetOrdering
<1>6. QED
  BY <1>5

\* A verdict on what the last one left is the last one: at the first job on which
\* they disagreed they would have agreed on the jobs ahead of it.
LEMMA SameVerdict ==
  ASSUME TypeOK, PassInv, TimesApart, Fresh, Standing, last.allowed \subseteq Jobs,
         phase = "preemptible", pos > Len(jobs_info)
  PROVE  allowed = last.allowed
<1> DEFINE A == last.allowed
           X == {i \in DOMAIN jobs_info : ~(jobs_info[i] \in allowed <=> jobs_info[i] \in A)}
<1>1. /\ allowed \in SUBSET Jobs /\ A \in SUBSET Jobs /\ jobs_info \in Seq(Jobs)
      /\ DOMAIN jobs_info = 1..Len(jobs_info) /\ Len(jobs_info) \in Nat /\ pos \in Nat
  BY DEF TypeOK, RoundType
<1>2. \A j \in Jobs : status[j] # "away" <=> \E i \in DOMAIN jobs_info : jobs_info[i] = j
  BY DEF Fresh, PassInv, ListInv, Lists, Looping
<1>3. \A j \in allowed \cup A : \E i \in DOMAIN jobs_info : jobs_info[i] = j
  BY <1>1, <1>2 DEF PassInv, VerdictInv, Standing
<1>4. Affordable(allowed)
  BY AllowedAffordable DEF Fresh, Looping
<1>5. SUFFICES ASSUME allowed # A
               PROVE  FALSE
  OBVIOUS
<1>6. PICK i \in X : \A h \in X : ~(h < i)
  <2>1. X # {}
    <3>1. PICK k \in allowed \cup A : ~(k \in allowed <=> k \in A)
      BY <1>5
    <3>2. QED
      BY <1>3, <3>1
  <2>2. X \subseteq Nat
    BY <1>1
  <2> HIDE DEF X
  <2>3. QED
    BY <2>1, <2>2, LeastNumber
<1> DEFINE j == jobs_info[i]
<1>7. /\ i \in DOMAIN jobs_info /\ i \in Nat /\ i < pos /\ j \in Jobs
      /\ ~(j \in allowed <=> j \in A)
  BY <1>1, <1>6
<1>8. \A h \in DOMAIN jobs_info : h < i => (jobs_info[h] \in allowed <=> jobs_info[h] \in A)
  BY <1>6
<1>9. CASE j \in A
  <2>1. Ahead(i) \cup {j} \subseteq A
    BY <1>1, <1>7, <1>8, <1>9 DEF Ahead
  <2>2. Affordable(Ahead(i) \cup {j})
    <3> HIDE DEF j, X
    <3>1. QED
      BY <1>1, <2>1, AffordableMonotone DEF Standing
  <2>3. Greedy(i)
    BY <1>1, <1>7 DEF PassInv, VerdictInv, Considered
  <2>4. QED
    BY <1>7, <1>9, <2>2, <2>3 DEF Greedy, Affordable, Fresh
<1>10. CASE j \notin A
  <2>1. status[j] # "away"
    BY <1>2, <1>7
  <2>2. ASSUME NEW k \in Rivals(A, j)
        PROVE  k \in allowed
    <3>1. k \in A /\ k \in Jobs /\ status[k] # "away" /\ k # j
          /\ Precedes(LiveKey(k), LiveKey(j))
      BY <1>1, <1>10 DEF Rivals, Standing
    <3>2. PICK h \in DOMAIN jobs_info : jobs_info[h] = k
      BY <1>3, <3>1
    <3>3. ~Precedes(LiveKey(j), LiveKey(k))
      BY <1>7, <2>1, <3>1, LiveOrder
    <3>4. ~(i < h)
      BY <1>7, <3>2, <3>3 DEF Fresh, Looping
    <3>5. h < i
      BY <1>1, <1>7, <3>1, <3>2, <3>4
    <3>6. QED
      BY <1>8, <3>1, <3>2, <3>5
  <2>3. Rivals(A, j) \cup {j} \subseteq allowed
    BY <1>7, <1>10, <2>2
  <2>4. Affordable(Rivals(A, j) \cup {j})
    <3> HIDE DEF A, j, X
    <3>1. QED
      BY <1>1, <1>4, <2>3, AffordableMonotone
  <2>5. QED
    BY <1>7, <1>10, <2>1, <2>4 DEF Standing
<1>11. QED
  BY <1>9, <1>10

\* Where no two jobs of a kind were submitted in the same second, a pass comes to
\* the verdict of the one before unless somebody else has changed something.
THEOREM PassesAgree == ASSUME TimesApart PROVE Spec => NoThrash
<1>1. TypeOK /\ PassInv /\ ThrashInv /\ [Next]_vars =>
        [phase = "preemptible" /\ phase' = "act" /\ last # None /\ last.moves = moves =>
           allowed = last.allowed]_vars
  <2> SUFFICES ASSUME TypeOK, PassInv, ThrashInv, Next, phase = "preemptible",
                      phase' = "act", last # None, last.moves = moves
               PROVE  allowed = last.allowed
    OBVIOUS
  <2>1. pos > Len(jobs_info)
    BY DEF Next, Others, Queue, Leave, Observed, Vanished, StaleReport, SetPriority,
           UpdateClusterStatus, Move, Pass, Fetch, GetClusterStatus, SortJobs,
           MarkNonPreemptible, MarkPreemptible, NextLoop, ScheduleJob, EndPass,
           AbortPass, Restart, Forget, TaskDone, TaskFails, Finish
  <2>2. /\ last.allowed \subseteq Jobs /\ Standing
        /\ last.moves \in Nat /\ given.moves \in Nat /\ moves \in Nat
        /\ last.moves <= given.moves /\ given.moves <= moves
    BY DEF ThrashInv, CountInv, TypeOK
  <2>3. Fresh
    BY <2>2 DEF ThrashInv
  <2>4. QED
    BY <2>1, <2>2, <2>3, SameVerdict
<1>2. Spec => []ThrashInv
  BY InitThrash, NextThrash, SchedulerTypeCorrect, PassInvariant, PTL DEF Spec
<1>3. QED
  BY <1>1, <1>2, SchedulerTypeCorrect, PassInvariant, PTL DEF Spec, NoThrash
=============================================================================
