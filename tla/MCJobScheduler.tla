--------------------------- MODULE MCJobScheduler ---------------------------
(* The scheduler on small instances: see the configurations. *)
EXTENDS JobScheduler, TLC

CONSTANTS a, b, c, vc1, vc2

Both(g, p) == "gpu" :> g @@ "cpu" :> p

Gpu(g) == "gpu" :> g

GpuCpu  == {"gpu", "cpu"}
GpuOnly == {"gpu"}
Cpu     == {"cpu"}
Nothing == {}

Share(capacity, unschedulable) ==
  [capacity |-> capacity, unschedulable |-> unschedulable]

Times == a :> 2 @@ b :> 1 @@ c :> 2

\* c is preemptible. Rows: all well; a node is down; the second VC is gone.
VerdictVcs  == a :> vc1 @@ b :> vc1 @@ c :> vc2
VerdictNeed == a :> Both(2, 2) @@ b :> Both(1, 1) @@ c :> Both(1, 2)
VerdictRows ==
  {[capacity |-> Both(4, 6), reserved |-> Both(0, 0),
    vcs |-> vc1 :> Share(Both(2, 3), Both(0, 0)) @@ vc2 :> Share(Both(2, 3), Both(0, 0))],
   [capacity |-> Both(4, 6), reserved |-> Both(2, 3),
    vcs |-> vc1 :> Share(Both(2, 3), Both(1, 0)) @@ vc2 :> Share(Both(2, 3), Both(1, 3))],
   [capacity |-> Both(4, 4), reserved |-> Both(0, 0),
    vcs |-> vc1 :> Share(Both(4, 4), Both(0, 0))]}

\* One VC whose share is the cluster: the jobs of two gpus compete.
OneVc  == a :> vc1 @@ b :> vc1 @@ c :> vc1
TwoGpu == a :> Gpu(2) @@ b :> Gpu(2) @@ c :> Gpu(2)
Row3   == [capacity |-> Gpu(3), reserved |-> Gpu(0),
           vcs |-> vc1 :> Share(Gpu(3), Gpu(0))]
Rows3  == {Row3}

\* Two of them, that take turns.
PairVc    == a :> vc1 @@ b :> vc1
PairNeed  == a :> Gpu(2) @@ b :> Gpu(2)
PairTimes == a :> 2 @@ b :> 1
=============================================================================
