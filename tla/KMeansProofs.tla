---------------------------- MODULE KMeansProofs ----------------------------
(* Theorems of KMeans: the fix of empty clusters always finds a point to     *)
(* move, leaves no cluster empty and moves the worst fit first, for any      *)
(* number of points and clusters.                                            *)
EXTENDS KMeans, FiniteSetTheorems, TLAPS

\* What the fix has done up to cluster c: the counts are right, and no point
\* that the order has left behind could be moved.
FixInv ==
    /\ labels \in [Point -> Cluster]
    /\ counts = CountsOf(labels)
    /\ \A d \in Cluster : d < c => counts[d] > 0
    /\ order \in [1 .. N -> Point] /\ WorstFirst(order, fit)
    /\ used \in 0 .. N
    /\ \A a \in 1 .. used : counts[labels[order[a]]] <= 1

\* The inductive invariant.
KInv ==
    /\ pc \in {"assign", "fix", "done"}
    /\ c \in 0 .. K
    /\ pc = "fix" => FixInv

\* Point and Cluster are finite, of N and K elements.
LEMMA Sizes ==
    /\ IsFiniteSet(Point) /\ Cardinality(Point) = N
    /\ IsFiniteSet(Cluster) /\ Cardinality(Cluster) = K
<1>1. ASSUME NEW m \in Nat \ {0}
      PROVE  IsFiniteSet(0 .. m - 1) /\ Cardinality(0 .. m - 1) = m
  <2>1. 0 \in Int /\ m - 1 \in Int /\ ~ (0 > m - 1)
    OBVIOUS
  <2>2. /\ IsFiniteSet(0 .. m - 1)
        /\ Cardinality(0 .. m - 1)
             = IF 0 > m - 1 THEN 0 ELSE (m - 1) - 0 + 1
    BY <2>1, FS_Interval, Zenon
  <2>3. Cardinality(0 .. m - 1) = (m - 1) - 0 + 1
    BY <2>1, <2>2, Zenon
  <2>4. (m - 1) - 0 + 1 = m
    OBVIOUS
  <2> QED
    BY <2>2, <2>3, <2>4, Zenon
<1>2. N \in Nat \ {0} /\ K \in Nat \ {0}
  BY SizeAssumption
<1> QED
  BY <1>1, <1>2, Zenon DEF Point, Cluster

\* The points of a cluster are finitely many, and their number is a natural.
LEMMA CountIsNat ==
    ASSUME NEW lab, NEW d \in Cluster
    PROVE  /\ IsFiniteSet({i \in Point : lab[i] = d})
           /\ CountsOf(lab)[d] = Cardinality({i \in Point : lab[i] = d})
           /\ CountsOf(lab)[d] \in Nat
<1> DEFINE S == {i \in Point : lab[i] = d}
<1>1. IsFiniteSet(S)
  <2>1. S \subseteq Point
    OBVIOUS
  <2> QED
    BY <2>1, Sizes, FS_Subset
<1>2. CountsOf(lab)[d] = Cardinality(S)
  BY DEF CountsOf
<1>3. Cardinality(S) \in Nat
  BY <1>1, FS_CardinalityType
<1> QED
  BY <1>1, <1>2, <1>3

\* fix_empty: when a cluster is empty, the n >= k points are in at most k - 1
\* clusters, so two of them share one.
LEMMA SomeMovable ==
    ASSUME NEW lab \in [Point -> Cluster], NEW e \in Cluster,
           CountsOf(lab)[e] = 0
    PROVE  \E i \in Point : CountsOf(lab)[lab[i]] >= 2
<1> DEFINE Rest == Cluster \ {e}
<1>1. IsFiniteSet(Rest) /\ Cardinality(Rest) = K - 1
  BY Sizes, FS_RemoveElement
<1>2. \A i \in Point : lab[i] # e
  <2> DEFINE E == {i \in Point : lab[i] = e}
  <2>1. IsFiniteSet(E) /\ CountsOf(lab)[e] = Cardinality(E)
    BY CountIsNat
  <2>2. E = {}
    <3> HIDE DEF E
    <3> QED
      BY <2>1, FS_EmptySet
  <2> QED
    BY <2>2
<1>3. lab \in [Point -> Rest]
  BY <1>2
<1>4. Cardinality(Rest) < Cardinality(Point)
  BY <1>1, Sizes, SizeAssumption
<1>5. PICK i \in Point, j \in Point : i # j /\ lab[i] = lab[j]
  <2> HIDE DEF Rest
  <2> QED
    BY <1>1, <1>3, <1>4, Sizes, FS_PigeonHole
<1> DEFINE S == {p \in Point : lab[p] = lab[i]}
<1>6. lab[i] \in Cluster
  OBVIOUS
<1>7. IsFiniteSet(S) /\ CountsOf(lab)[lab[i]] = Cardinality(S)
  BY <1>6, CountIsNat
<1>8. Cardinality({i, j}) = 2
  <2>1. IsFiniteSet({i}) /\ Cardinality({i}) = 1 /\ j \notin {i}
    BY <1>5, FS_Singleton
  <2>2. Cardinality({i} \cup {j}) = 2
    BY <2>1, FS_AddElement
  <2>3. {i, j} = {i} \cup {j}
    OBVIOUS
  <2> QED
    BY <2>2, <2>3
<1>9. {i, j} \subseteq S
  BY <1>5
<1>10. Cardinality({i, j}) <= Cardinality(S)
  BY <1>7, <1>9, FS_Subset
<1>11. CountsOf(lab)[lab[i]] >= 2
  BY <1>7, <1>8, <1>10
<1> QED
  BY <1>11

\* Moving a point w to the empty cluster e takes one from the count of the
\* cluster it was in, and e has one.
LEMMA MoveCounts ==
    ASSUME NEW lab \in [Point -> Cluster], NEW new \in [Point -> Cluster],
           NEW e \in Cluster, NEW w \in Point,
           CountsOf(lab)[e] = 0, new[w] = e,
           \A i \in Point : i # w => new[i] = lab[i]
    PROVE  /\ lab[w] # e
           /\ CountsOf(new)[e] = 1
           /\ CountsOf(new)[lab[w]] = CountsOf(lab)[lab[w]] - 1
           /\ \A d \in Cluster : d # e /\ d # lab[w]
                                  => CountsOf(new)[d] = CountsOf(lab)[d]
<1> DEFINE S(l, d) == {i \in Point : l[i] = d}
<1>1. S(lab, e) = {}
  <2>1. IsFiniteSet(S(lab, e)) /\ CountsOf(lab)[e] = Cardinality(S(lab, e))
    BY CountIsNat
  <2> HIDE DEF S
  <2> QED
    BY <2>1, FS_EmptySet
<1>2. lab[w] # e
  BY <1>1
<1>3. CountsOf(new)[e] = 1
  <2>1. CountsOf(new)[e] = Cardinality(S(new, e))
    BY CountIsNat
  <2>2. S(new, e) = {w}
    BY <1>1
  <2> QED
    BY <2>1, <2>2, FS_Singleton
<1>4. CountsOf(new)[lab[w]] = CountsOf(lab)[lab[w]] - 1
  <2>1. lab[w] \in Cluster /\ w \in S(lab, lab[w])
    OBVIOUS
  <2>2. /\ IsFiniteSet(S(lab, lab[w]))
        /\ CountsOf(lab)[lab[w]] = Cardinality(S(lab, lab[w]))
        /\ CountsOf(new)[lab[w]] = Cardinality(S(new, lab[w]))
    BY <2>1, CountIsNat
  <2>3. S(new, lab[w]) = S(lab, lab[w]) \ {w}
    BY <1>2
  <2> HIDE DEF S
  <2>4. Cardinality(S(lab, lab[w]) \ {w}) = Cardinality(S(lab, lab[w])) - 1
    BY <2>1, <2>2, FS_RemoveElement
  <2> QED
    BY <2>2, <2>3, <2>4
<1>5. ASSUME NEW d \in Cluster, d # e, d # lab[w]
      PROVE  CountsOf(new)[d] = CountsOf(lab)[d]
  <2>1. /\ CountsOf(lab)[d] = Cardinality(S(lab, d))
        /\ CountsOf(new)[d] = Cardinality(S(new, d))
    BY CountIsNat
  <2>2. S(new, d) = S(lab, d)
    BY <1>5
  <2> HIDE DEF S
  <2> QED
    BY <2>1, <2>2
<1> QED
  BY <1>2, <1>3, <1>4, <1>5

LEMMA InitKInv == Init => KInv
<1> SUFFICES ASSUME Init
             PROVE  KInv
  OBVIOUS
<1>1. pc \in {"assign", "done"}
  BY DEF Init
<1>2. c \in 0 .. K
  <2>1. c = 0
    BY DEF Init
  <2> QED
    BY <2>1, SizeAssumption
<1> QED
  BY <1>1, <1>2 DEF KInv

\* The assignment sorts the points and counts the clusters anew.
LEMMA AssignStep == AssignAll => KInv'
<1> SUFFICES ASSUME AssignAll
             PROVE  KInv'
  OBVIOUS
<1>1. pc' \in {"assign", "fix", "done"}
  BY DEF AssignAll
<1>2. c' = 0 /\ used' = 0
  BY DEF AssignAll
<1>3. c' \in 0 .. K /\ used' \in 0 .. N
  BY <1>2, SizeAssumption
<1>4. /\ labels' \in [Point -> Cluster] /\ counts' = CountsOf(labels')
      /\ order' \in [1 .. N -> Point] /\ WorstFirst(order', fit')
  BY Zenon DEF AssignAll
<1>5. \A d \in Cluster : ~ (d < c')
  BY <1>2 DEF Cluster
<1>6. 1 .. used' = {}
  BY <1>2
<1>7. FixInv'
  BY <1>3, <1>4, <1>5, <1>6 DEF FixInv, CountsOf, WorstFirst, Point, Cluster
<1> QED
  BY <1>1, <1>3, <1>7 DEF KInv

\* What holds whenever fix_empty looks at a cluster.
LEMMA Looking ==
    ASSUME KInv, Fixing
    PROVE  /\ pc = "fix" /\ c \in Cluster /\ c + 1 \in 0 .. K
           /\ FixInv
           /\ counts = [d \in Cluster |-> counts[d]]
           /\ \A d \in Cluster : counts[d] \in Nat
<1>1. pc = "fix" /\ c < K /\ c \in 0 .. K /\ FixInv
  BY DEF Fixing, KInv
<1>2. c \in Cluster /\ c + 1 \in 0 .. K
  BY <1>1, SizeAssumption DEF Cluster
<1>3. counts = CountsOf(labels)
  BY <1>1 DEF FixInv
<1>4. \A d \in Cluster : counts[d] \in Nat
  BY <1>3, CountIsNat, Zenon
<1>5. counts = [d \in Cluster |-> counts[d]]
  BY <1>3 DEF CountsOf
<1> QED
  BY <1>1, <1>2, <1>4, <1>5

LEMMA FilledStep == KInv /\ Filled => KInv'
<1> SUFFICES ASSUME KInv, Filled
             PROVE  KInv'
  OBVIOUS
<1>1. Fixing /\ counts[c] > 0 /\ c' = c + 1
  BY DEF Filled
<1>2. UNCHANGED <<labels, fit, counts, order, used, pc>>
  BY DEF Filled
<1>3. pc = "fix" /\ c \in Cluster /\ c + 1 \in 0 .. K /\ FixInv
  BY <1>1, Looking
<1>4. \A d \in Cluster : d < c + 1 => d < c \/ d = c
  BY <1>3 DEF Cluster
<1>5. \A d \in Cluster : d < c' => counts'[d] > 0
  BY <1>1, <1>2, <1>3, <1>4 DEF FixInv
<1>6. FixInv'
  BY <1>2, <1>3, <1>5 DEF FixInv, CountsOf, WorstFirst, Point, Cluster
<1> QED
  BY <1>1, <1>2, <1>3, <1>6 DEF KInv

\* fix_empty never passes the last point: then no point could be moved.
LEMMA PassStep == KInv /\ Pass => KInv'
<1> SUFFICES ASSUME KInv, Pass
             PROVE  KInv'
  OBVIOUS
<1>1. Fixing /\ counts[c] = 0
  BY DEF Pass
<1>2. UNCHANGED <<labels, fit, counts, order, c>>
  BY DEF Pass
<1>3. pc = "fix" /\ c \in Cluster /\ FixInv
  BY <1>1, Looking
<1>4. used # N
  <2> SUFFICES ASSUME used = N
               PROVE  FALSE
    OBVIOUS
  <2>1. labels \in [Point -> Cluster] /\ CountsOf(labels)[c] = 0
    BY <1>1, <1>3 DEF FixInv
  <2>2. PICK i \in Point : CountsOf(labels)[labels[i]] >= 2
    BY <1>3, <2>1, SomeMovable
  <2>3. PICK a \in 1 .. N : order[a] = i
    BY <1>3 DEF FixInv, WorstFirst
  <2>4. counts[labels[i]] <= 1 /\ counts[labels[i]] >= 2
    BY <1>3, <2>2, <2>3 DEF FixInv
  <2>5. labels[i] \in Cluster
    BY <2>1
  <2>6. counts[labels[i]] \in Nat
    BY <1>1, <2>5, Looking
  <2> QED
    BY <2>4, <2>6
<1>5. Alone(order[used + 1]) /\ used' = used + 1 /\ pc' = pc
  BY <1>4 DEF Pass
<1>6. used \in 0 .. N /\ N \in Nat
  BY <1>3, SizeAssumption DEF FixInv
<1>7. used' \in 0 .. N
  BY <1>4, <1>5, <1>6
<1>8. ASSUME NEW a \in 1 .. used'
      PROVE  counts'[labels'[order'[a]]] <= 1
  <2>1. a \in 1 .. used \/ a = used + 1
    BY <1>5, <1>6
  <2> QED
    BY <1>2, <1>3, <1>5, <2>1 DEF FixInv, Alone
<1>9. FixInv'
  BY <1>2, <1>3, <1>7, <1>8 DEF FixInv, CountsOf, WorstFirst, Point, Cluster
<1> QED
  BY <1>2, <1>3, <1>5, <1>9 DEF KInv

\* The point w that fix_empty takes, and its cluster.
LEMMA Taken ==
    ASSUME KInv, Take, NEW w, w = order[used + 1]
    PROVE  /\ w \in Point /\ labels[w] \in Cluster /\ counts[labels[w]] >= 2
           /\ used + 1 \in 1 .. N
           /\ labels' = [labels EXCEPT ![w] = c]
           /\ counts' = [counts EXCEPT ![labels[w]] = @ - 1, ![c] = 1]
<1>1. Fixing /\ used < N /\ ~Alone(w)
  BY DEF Take
<1>2. FixInv
  BY <1>1, Looking
<1>3. used + 1 \in 1 .. N
  BY <1>1, <1>2, SizeAssumption DEF FixInv
<1>4. w \in Point /\ labels[w] \in Cluster
  BY <1>2, <1>3 DEF FixInv
<1>5. counts[labels[w]] \in Nat
  BY <1>1, <1>4, Looking
<1>6. counts[labels[w]] >= 2
  BY <1>1, <1>5 DEF Alone
<1> QED
  BY <1>3, <1>4, <1>6 DEF Take

LEMMA TakeStep == KInv /\ Take => KInv'
<1> SUFFICES ASSUME KInv, Take
             PROVE  KInv'
  OBVIOUS
<1>0. PICK w : w = order[used + 1]
  OBVIOUS
<1>1. /\ w \in Point /\ labels[w] \in Cluster /\ counts[labels[w]] >= 2
      /\ used + 1 \in 1 .. N
      /\ labels' = [labels EXCEPT ![w] = c]
      /\ counts' = [counts EXCEPT ![labels[w]] = @ - 1, ![c] = 1]
  BY <1>0, Taken
<1>2. /\ Fixing /\ counts[c] = 0 /\ used' = used + 1 /\ c' = c + 1
      /\ UNCHANGED <<order, fit, pc>>
  BY DEF Take
<1>3. /\ pc = "fix" /\ c \in Cluster /\ c + 1 \in 0 .. K
      /\ counts = [d \in Cluster |-> counts[d]]
      /\ \A d \in Cluster : counts[d] \in Nat
  BY <1>2, Looking
<1>4. /\ labels \in [Point -> Cluster] /\ counts = CountsOf(labels)
      /\ \A d \in Cluster : d < c => counts[d] > 0
      /\ order \in [1 .. N -> Point] /\ WorstFirst(order, fit)
      /\ used \in 0 .. N
      /\ \A a \in 1 .. used : counts[labels[order[a]]] <= 1
  BY <1>2, Looking DEF FixInv
<1>5. labels' \in [Point -> Cluster]
  BY <1>1, <1>3, <1>4
<1>6. labels'[w] = c /\ \A i \in Point : i # w => labels'[i] = labels[i]
  BY <1>1, <1>4
<1>7. counts' = CountsOf(labels')
  <2> DEFINE was == CountsOf(labels)
             is == CountsOf(labels')
  <2>0. /\ w \in Point /\ c \in Cluster /\ labels \in [Point -> Cluster]
        /\ CountsOf(labels)[c] = 0
    BY <1>1, <1>2, <1>3, <1>4
  <2>1. /\ labels[w] # c /\ is[c] = 1
        /\ is[labels[w]] = was[labels[w]] - 1
        /\ \A d \in Cluster : d # c /\ d # labels[w] => is[d] = was[d]
    BY <1>5, <1>6, <2>0, MoveCounts
  <2>2. /\ was = [d \in Cluster |-> was[d]]
        /\ is = [d \in Cluster |-> is[d]]
    BY DEF CountsOf
  <2>3. counts' = [was EXCEPT ![labels[w]] = @ - 1, ![c] = 1]
    BY <1>1, <1>4
  <2> HIDE DEF was, is
  <2>4. counts' = is
    BY <1>1, <1>3, <2>1, <2>2, <2>3
  <2> QED
    BY <2>4 DEF is
<1>8. /\ labels[w] # c
      /\ counts'[c] = 1 /\ counts'[labels[w]] = counts[labels[w]] - 1
      /\ \A d \in Cluster : d # c /\ d # labels[w] => counts'[d] = counts[d]
  BY <1>1, <1>2, <1>3
<1>9. ASSUME NEW d \in Cluster, d < c'
      PROVE  counts'[d] > 0
  <2>1. d < c \/ d = c
    BY <1>2, <1>3, <1>9 DEF Cluster
  <2>2. counts[labels[w]] \in Nat /\ counts[labels[w]] >= 2
    BY <1>1, <1>3
  <2>3. CASE d = c
    BY <1>8, <2>3
  <2>4. CASE d = labels[w]
    BY <1>8, <2>2, <2>4
  <2>5. CASE d # c /\ d # labels[w]
    BY <1>4, <1>8, <2>1, <2>5
  <2> QED
    BY <2>3, <2>4, <2>5
<1>10. ASSUME NEW a \in 1 .. used'
       PROVE  counts'[labels'[order'[a]]] <= 1
  <2>1. a \in 1 .. used \/ a = used + 1
    BY <1>2, <1>4
  <2>2. CASE order[a] = w
    BY <1>2, <1>6, <1>8, <2>2
  <2>3. CASE order[a] # w
    <3>1. a \in 1 .. used /\ a \in 1 .. N
      BY <1>0, <1>1, <1>4, <2>1, <2>3, SizeAssumption
    <3>2. order[a] \in Point
      BY <1>4, <3>1
    <3>3. labels'[order[a]] = labels[order[a]] /\ labels[order[a]] \in Cluster
      BY <1>4, <1>6, <2>3, <3>2
    <3>4. counts[labels[order[a]]] <= 1
      BY <1>4, <3>1
    <3>5. labels[order[a]] # labels[w]
      BY <1>1, <1>3, <3>4
    <3> QED
      BY <1>2, <1>8, <3>3, <3>4, <3>5
  <2> QED
    BY <2>2, <2>3
<1>11. used' \in 0 .. N
  BY <1>1, <1>2, SizeAssumption
<1>12. FixInv'
  <2>1. order' \in [1 .. N -> Point] /\ WorstFirst(order', fit')
    BY <1>2, <1>4
  <2> QED
    BY <1>5, <1>7, <1>9, <1>10, <1>11, <2>1
    DEF FixInv, CountsOf, WorstFirst, Point, Cluster
<1> QED
  BY <1>2, <1>3, <1>12 DEF KInv

\* Every step preserves the invariant.
LEMMA NextKInv == KInv /\ [Next]_vars => KInv'
<1> SUFFICES ASSUME KInv, [Next]_vars
             PROVE  KInv'
  OBVIOUS
<1>1. CASE AssignAll
  BY <1>1, AssignStep
<1>2. CASE Filled
  BY <1>2, FilledStep
<1>3. CASE Pass
  BY <1>3, PassStep
<1>4. CASE Take
  BY <1>4, TakeStep
<1>5. CASE UpdateCenters
  BY <1>5 DEF UpdateCenters, KInv
<1>6. CASE UNCHANGED vars
  BY <1>6 DEF vars, KInv, FixInv, CountsOf, WorstFirst, Point, Cluster
<1> QED
  BY <1>1, <1>2, <1>3, <1>4, <1>5, <1>6 DEF Next, Trained

\* fix_empty never walks behind the last point, and when it is past a
\* cluster, the cluster has a point and its count is right, for any number of
\* points and clusters.
THEOREM NeverEmpty == Spec => []NoClusterEmpty
<1>1. KInv => NoClusterEmpty
  BY DEF KInv, FixInv, NoClusterEmpty
<1> QED
  BY <1>1, InitKInv, NextKInv, PTL DEF Spec

\* fix_empty moves the worst fit first: the points that its single walk has
\* left behind could not be moved later either, because a count that fell to
\* one never grows again.
THEOREM WorstTaken == Spec => TakesWorst
<1> DEFINE Worst ==
        \A i, j \in Point :
            Fixing /\ labels'[i] # labels[i] /\ counts[labels[j]] >= 2
              => fit[i] < fit[j] \/ fit[i] = fit[j]
<1>1. ASSUME KInv, Next
      PROVE  Worst
  <2> SUFFICES ASSUME NEW i \in Point, NEW j \in Point,
                      Fixing, labels'[i] # labels[i], counts[labels[j]] >= 2
               PROVE  fit[i] < fit[j] \/ fit[i] = fit[j]
    OBVIOUS
  <2>1. Take
    <3>1. pc = "fix" /\ labels' # labels
      BY DEF Fixing
    <3> QED
      BY <1>1, <3>1
      DEF Next, AssignAll, Filled, Pass, UpdateCenters, Trained, vars
  <2>2. /\ order[used + 1] \in Point /\ used + 1 \in 1 .. N
        /\ labels' = [labels EXCEPT ![order[used + 1]] = c]
    BY <1>1, <2>1, Taken
  <2>3. FixInv /\ \A d \in Cluster : counts[d] \in Nat
    BY <1>1, Looking
  <2>4. i = order[used + 1]
    BY <2>2, <2>3 DEF FixInv
  <2>5. PICK b \in 1 .. N : order[b] = j
    BY <2>3 DEF FixInv, WorstFirst
  <2>6. ~ (b \in 1 .. used)
    <3>1. labels[j] \in Cluster
      BY <2>3 DEF FixInv
    <3>2. counts[labels[j]] \in Nat
      BY <2>3, <3>1
    <3> QED
      BY <2>3, <2>5, <3>2 DEF FixInv
  <2>7. b = used + 1 \/ used + 1 < b
    BY <2>2, <2>3, <2>5, <2>6, SizeAssumption DEF FixInv
  <2> QED
    BY <2>2, <2>3, <2>4, <2>5, <2>7 DEF FixInv, WorstFirst
<1>2. KInv /\ [Next]_vars => [Worst]_vars
  BY <1>1
<1> QED
  BY <1>2, InitKInv, NextKInv, PTL DEF Spec, TakesWorst
=============================================================================
