-------------------------------- MODULE KMeans --------------------------------
(* The k-means that trains IVF, PQ and DiskANN (kmeans.py), in the mode of   *)
(* the PQ codebooks: squared distance, centers not normalized.  Points have  *)
(* one dimension and are integers; a center is kept times Scale, so that the *)
(* mean of any group of points is an integer too.                            *)
EXTENDS Integers, FiniteSets, FiniteSetsExt

CONSTANTS
    N,         \* training points
    K,         \* clusters
    Iters,     \* the most iterations
    Values,    \* what a point may be
    Scale      \* a multiple of 1 .. N

Point == 0 .. N - 1
Cluster == 0 .. K - 1

ASSUME SizeAssumption ==
    /\ K \in Nat \ {0} /\ N \in Nat /\ N >= K
    /\ Iters \in Nat /\ Values \subseteq Int
ASSUME ScaleAssumption ==
    Scale \in Nat \ {0} /\ \A count \in 1 .. N : Scale % count = 0

VARIABLES
    train,     \* the training rows
    centers,   \* the center of each cluster, times Scale
    prev,      \* the labels of the last iteration, -1 before the first
    labels,    \* the cluster of each point, edited by fix_empty
    fit,       \* the fit of each point to its center, at its assignment
    counts,    \* points per cluster
    order,     \* the points, worst fit first
    used,      \* how many of them fix_empty has taken or passed
    cost,      \* history: the sum of squared distances, or -1
    it, pc,    \* the iteration and the step it is at
    c          \* the cluster that fix_empty looks at

vars == <<train, centers, prev, labels, fit, counts, order, used, cost, it,
          pc, c>>

Fit(p, center) == -((Scale * p - center) * (Scale * p - center))

CountsOf(lab) == [d \in Cluster |-> Cardinality({i \in Point : lab[i] = d})]

More(i) == i < Iters

\* K distinct rows are drawn.
Init ==
    /\ train \in [Point -> Values]
    /\ \E chosen \in [Cluster -> Point] :
         /\ \A d, e \in Cluster : chosen[d] = chosen[e] => d = e
         /\ centers = [d \in Cluster |-> Scale * train[chosen[d]]]
    /\ prev = [i \in Point |-> -1] /\ labels = prev
    /\ fit = [i \in Point |-> 0]
    /\ counts = [d \in Cluster |-> 0]
    /\ order = [a \in 1 .. N |-> a - 1] /\ used = 0
    /\ cost = -1 /\ it = 0 /\ c = 0
    /\ pc = IF More(it) THEN "assign" ELSE "done"

\* argmax: on equal fits the lower center.
IsBest(i, d) ==
    \A e \in Cluster :
        \/ Fit(train[i], centers[d]) > Fit(train[i], centers[e])
        \/ Fit(train[i], centers[d]) = Fit(train[i], centers[e]) /\ d <= e

\* Mutant: sorted by distance in place of fit.
BestFirst(o, f) ==
    /\ \A i \in Point : \E a \in 1 .. N : o[a] = i
    /\ \A a, b \in 1 .. N : a < b => \/ f[o[a]] > f[o[b]]
                                     \/ f[o[a]] = f[o[b]] /\ o[a] < o[b]

\* A stable sort by fit.
WorstFirst(o, f) ==
    /\ \A i \in Point : \E a \in 1 .. N : o[a] = i
    /\ \A a, b \in 1 .. N : a < b => \/ f[o[a]] < f[o[b]]
                                     \/ f[o[a]] = f[o[b]] /\ o[a] < o[b]

\* Every point goes to its best center; the training ends when none moved.
AssignAll ==
    /\ pc = "assign"
    /\ labels' \in [Point -> Cluster]
    /\ \A i \in Point : IsBest(i, labels'[i])
    /\ fit' = [i \in Point |-> Fit(train[i], centers[labels'[i]])]
    /\ order' \in [1 .. N -> Point] /\ WorstFirst(order', fit')
    /\ used' = 0 /\ c' = 0
    /\ counts' = CountsOf(labels')
    /\ cost' = MapThenSumSet(LAMBDA i : -fit'[i], Point)
    /\ prev' = labels'
    /\ pc' = IF labels' = prev THEN "done" ELSE "fix"
    /\ UNCHANGED <<train, centers, it>>

Fixing == pc = "fix" /\ c < K

\* A cluster that has points.
Filled ==
    /\ Fixing /\ counts[c] > 0
    /\ c' = c + 1
    /\ UNCHANGED <<train, centers, prev, labels, fit, counts, order, used,
                   cost, it, pc>>

\* Mutant: a point that is alone in its cluster is taken too.
AloneNever(i) == counts[labels[i]] < 1

\* Its old cluster would become empty.
Alone(i) == counts[labels[i]] <= 1

\* The next point cannot be moved.  Behind the last one there is no next.
Pass ==
    /\ Fixing /\ counts[c] = 0
    /\ IF used = N THEN pc' = "error" /\ UNCHANGED used
       ELSE Alone(order[used + 1]) /\ used' = used + 1 /\ UNCHANGED pc
    /\ UNCHANGED <<train, centers, prev, labels, fit, counts, order, cost, it,
                   c>>

\* The next point becomes the only one of the empty cluster.
Take ==
    /\ Fixing /\ counts[c] = 0 /\ used < N
    /\ LET w == order[used + 1]
       IN  /\ ~Alone(w)
           /\ counts' = [counts EXCEPT ![labels[w]] = @ - 1, ![c] = 1]
           /\ labels' = [labels EXCEPT ![w] = c]
    /\ used' = used + 1 /\ c' = c + 1
    /\ UNCHANGED <<train, centers, prev, fit, order, cost, it, pc>>

\* Mutant: the labels before the fix.
MembersBefore(d) == {i \in Point : prev[i] = d}

Members(d) == {i \in Point : labels[i] = d}

\* The mean of the points of each cluster.
UpdateCenters ==
    /\ pc = "fix" /\ c = K
    /\ centers' = [d \in Cluster |->
          (Scale \div counts[d])
            * MapThenSumSet(LAMBDA i : train[i], Members(d))]
    /\ it' = it + 1
    /\ pc' = IF More(it') THEN "assign" ELSE "done"
    /\ UNCHANGED <<train, prev, labels, fit, counts, order, used, cost, c>>

\* kmeans has returned.
Trained == pc = "done" /\ UNCHANGED vars

Next == AssignAll \/ Filled \/ Pass \/ Take \/ UpdateCenters \/ Trained

Spec == Init /\ [][Next]_vars

-----------------------------------------------------------------------------
(* What must hold.                                                         *)

\* fix_empty finds a point for every empty cluster before its order ends
\* (there is no check of used against the number of points), takes none that
\* is alone ("whose old cluster does not become empty"), and keeps the counts
\* right, by which the means are divided.
NoClusterEmpty ==
    /\ pc # "error"
    /\ pc = "fix" => /\ counts = CountsOf(labels)
                     /\ \A d \in Cluster : d < c => counts[d] > 0

\* fix_empty: "Move each empty center to the worst-fit point": no point that
\* could be moved fits worse than the one that is, although the order is not
\* walked again from its start for the next empty center.
TakesWorst ==
    [][\A i, j \in Point :
          Fixing /\ labels'[i] # labels[i] /\ counts[labels[j]] >= 2
            => fit[i] < fit[j] \/ fit[i] = fit[j]]_vars

\* An iteration never makes the fit worse, also when it moves points to empty
\* clusters.
Descends == [][pc = "assign" /\ it > 0 => cost' <= cost]_vars
=============================================================================
