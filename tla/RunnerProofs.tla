---------------------------- MODULE RunnerProofs ----------------------------
(* Proofs about the runner, for any number of runs, rows, queries and        *)
(* sessions that are killed: the result of a case is the median of the runs  *)
(* of one session; the caches hold what they should; and the searches that a *)
(* database bench timed ran on exactly the rows its changes left, with the   *)
(* dead versions that the result says; what a load run counts and keeps is   *)
(* true of its table; and a backup gives back every row, by the same index.  *)
EXTENDS Runner, FiniteSetTheorems, SequenceTheorems, TLAPS

-----------------------------------------------------------------------------
(* The inductive invariants.                                               *)

\* A body that the process of this session wrote.
Mine(b) == b.p50 \in Nat /\ b.by = sessions

Mines(runs) ==
    /\ runs \in Seq(ToSet(runs))
    /\ \A i \in 1 .. Len(runs) : Mine(runs[i])

\* A session has the runs it collected, all of them its own; where a run is
\* collected, its file is of this session.
RunsInv ==
    /\ case \in Todo
    /\ DOMAIN tmp = 0 .. Repeat - 1
    /\ run # Nil =>
         /\ run = [runs |-> run.runs, at |-> run.at]
         /\ run.at \in {"process", "writing", "exited", "merge", "merging"}
         /\ Mines(run.runs)
         /\ run.at \in {"process", "writing", "exited"}
               => Len(run.runs) < Repeats
         /\ run.at \in {"merge", "merging"} => Len(run.runs) = Repeats
         /\ run.at = "exited" /\ ~Direct => Mine(Tmp)

Keys == Text \X {1, 2}

Distinct(s) == \A i, j \in 1 .. Len(s) : s[i] = s[j] => i = j

Kept(q, c) == IF Len(q) < c THEN Len(q) ELSE c

\* The first c keys of q, the last of them first.
Recent(q, c) == Reverse(SubSeq(q, 1, Kept(q, c)))

\* The keys asked, without repetition, and what a cache knows of them.
AskedInv ==
    /\ asked \in Seq(Keys) /\ Distinct(asked)
    /\ counts \in [hits : Nat, misses : Nat, evictions : Nat]
    /\ case.backend = "none" => counts.hits = 0
    /\ case.backend = "lru" =>
         /\ lru = Recent(asked, Capacity)
         /\ Len(lru) + counts.evictions = counts.misses
    /\ case.backend = "redis" =>
         /\ redis \subseteq ToSet(asked) /\ IsFiniteSet(redis)
         /\ Cardinality(redis) + counts.evictions = counts.misses

\* A replay begins with a new cache.
ReplayInv ==
    kind = "cache" =>
      /\ case \in CacheCases
      /\ run # Nil =>
           \/ run.at = "process" /\ todo = RunCache(case)
           \/ /\ todo \in Seq({Do("request", case)})
              /\ run.at # "process" => todo = << >>
              /\ AskedInv

-----------------------------------------------------------------------------
(* Sequences without repetition.                                           *)

LEMMA RemoveAbsent ==
    ASSUME NEW s, NEW k, ~Contains(s, k)
    PROVE  RemoveFirst(s, k) = s
BY DEF RemoveFirst, Contains

\* Behind the one that is taken out, all move up one place.
LEMMA RemovePresent ==
    ASSUME NEW S, NEW s \in Seq(S), Distinct(s),
           NEW i \in 1 .. Len(s)
    PROVE  /\ RemoveFirst(s, s[i]) \in Seq(S)
           /\ Len(RemoveFirst(s, s[i])) = Len(s) - 1
           /\ \A j \in 1 .. i - 1 : RemoveFirst(s, s[i])[j] = s[j]
           /\ \A j \in i .. Len(s) - 1 : RemoveFirst(s, s[i])[j] = s[j + 1]
<1> DEFINE I == {j \in 1 .. Len(s) : s[j] = s[i]}
           a == SubSeq(s, 1, i - 1)
           b == SubSeq(s, i + 1, Len(s))
<1>1. Len(s) \in Nat /\ i \in Int /\ 1 <= i /\ i <= Len(s)
  OBVIOUS
<1>2. I = {i}
  BY DEF Distinct
<1>3. SelectInSeq(s, LAMBDA v : v = s[i]) = i
  <2>1. Min({i}) = i
    BY <1>1 DEF Min
  <2>2. SelectInSeq(s, LAMBDA v : v = s[i]) = IF I # {} THEN Min(I) ELSE 0
    BY DEF SelectInSeq
  <2> QED BY <1>2, <2>1, <2>2
<1>4. RemoveFirst(s, s[i]) = a \o b
  <2>1. \E j \in 1 .. Len(s) : s[j] = s[i]
    OBVIOUS
  <2>2. RemoveFirst(s, s[i]) = RemoveAt(s, SelectInSeq(s, LAMBDA v : v = s[i]))
    BY <2>1 DEF RemoveFirst
  <2> QED BY <1>3, <2>2 DEF RemoveAt
<1>5. a \in Seq(S) /\ Len(a) = i - 1 /\ \A j \in 1 .. i - 1 : a[j] = s[j]
  BY <1>1
<1>6. /\ b \in Seq(S) /\ Len(b) = Len(s) - i
      /\ \A j \in 1 .. Len(s) - i : b[j] = s[j + i]
  BY <1>1
<1> HIDE DEF a, b
<1>7. a \o b \in Seq(S) /\ Len(a \o b) = Len(s) - 1
  <2>1. a \in Seq(S) /\ b \in Seq(S)
    BY <1>5, <1>6
  <2>2. a \o b \in Seq(S) /\ Len(a \o b) = Len(a) + Len(b)
    BY <2>1
  <2> QED BY <1>1, <1>5, <1>6, <2>2
<1>8. \A j \in 1 .. i - 1 : (a \o b)[j] = s[j]
  BY <1>1, <1>5, <1>6
<1>9. \A j \in i .. Len(s) - 1 : (a \o b)[j] = s[j + 1]
  <2>1. ASSUME NEW j \in i .. Len(s) - 1 PROVE (a \o b)[j] = s[j + 1]
    <3>1. j - (i - 1) \in 1 .. Len(s) - i /\ (j - (i - 1)) + i = j + 1
      BY <1>1
    <3>2. (a \o b)[j] = b[j - (i - 1)]
      BY <1>1, <1>5, <1>6
    <3> QED BY <1>6, <3>1, <3>2
  <2> QED BY <2>1
<1> QED BY <1>4, <1>7, <1>8, <1>9

\* A key that is asked comes first; those before it move back one place.
Touch(s, k) == << k >> \o RemoveFirst(s, k)

LEMMA TouchAbsent ==
    ASSUME NEW S, NEW s \in Seq(S), NEW k \in S, Distinct(s), ~Contains(s, k)
    PROVE  /\ Touch(s, k) \in Seq(S) /\ Len(Touch(s, k)) = Len(s) + 1
           /\ Touch(s, k)[1] = k
           /\ \A j \in 1 .. Len(s) : Touch(s, k)[j + 1] = s[j]
           /\ Distinct(Touch(s, k))
<1>1. Touch(s, k) = << k >> \o s
  BY RemoveAbsent DEF Touch
<1> DEFINE t == << k >> \o s
<1>2. t \in Seq(S) /\ Len(t) = Len(s) + 1 /\ t[1] = k
  OBVIOUS
<1>3. \A j \in 1 .. Len(s) : t[j + 1] = s[j]
  OBVIOUS
<1> HIDE DEF t
<1>4. ASSUME NEW i \in 1 .. Len(t), NEW j \in 1 .. Len(t), t[i] = t[j]
      PROVE  i = j
  <2>1. \A x \in 1 .. Len(t) : x = 1 \/ (x - 1 \in 1 .. Len(s) /\ t[x] = s[x - 1])
    BY <1>2, <1>3
  <2>2. \A x \in 1 .. Len(s) : s[x] # k
    BY DEF Contains
  <2>3. CASE i = 1 \/ j = 1
    BY <1>2, <1>4, <2>1, <2>2, <2>3
  <2>4. CASE i # 1 /\ j # 1
    BY <1>2, <1>4, <2>1, <2>4 DEF Distinct
  <2> QED BY <2>3, <2>4
<1> QED BY <1>1, <1>2, <1>3, <1>4 DEF t, Distinct

LEMMA TouchPresent ==
    ASSUME NEW S, NEW s \in Seq(S), Distinct(s), NEW i \in 1 .. Len(s)
    PROVE  /\ Touch(s, s[i]) \in Seq(S) /\ Len(Touch(s, s[i])) = Len(s)
           /\ Touch(s, s[i])[1] = s[i]
           /\ \A j \in 1 .. i - 1 : Touch(s, s[i])[j + 1] = s[j]
           /\ \A j \in i + 1 .. Len(s) : Touch(s, s[i])[j] = s[j]
           /\ Distinct(Touch(s, s[i]))
<1> DEFINE r == RemoveFirst(s, s[i])
           t == Touch(s, s[i])
<1>1. /\ r \in Seq(S) /\ Len(r) = Len(s) - 1
      /\ \A j \in 1 .. i - 1 : r[j] = s[j]
      /\ \A j \in i .. Len(s) - 1 : r[j] = s[j + 1]
  BY RemovePresent
<1>2. t = << s[i] >> \o r
  BY DEF Touch
<1>3. Len(s) \in Nat /\ i \in Int /\ 1 <= i /\ i <= Len(s) /\ s[i] \in S
  OBVIOUS
<1> HIDE DEF r, t
<1>4. t \in Seq(S) /\ Len(t) = Len(s) /\ t[1] = s[i]
  BY <1>1, <1>2, <1>3
<1>5. \A j \in 1 .. Len(s) - 1 : t[j + 1] = r[j]
  BY <1>1, <1>2, <1>3
<1>6. \A j \in 1 .. i - 1 : t[j + 1] = s[j]
  BY <1>1, <1>3, <1>5
<1>7. \A j \in i + 1 .. Len(s) : t[j] = s[j]
  <2>1. ASSUME NEW j \in i + 1 .. Len(s) PROVE t[j] = s[j]
    <3>1. j - 1 \in i .. Len(s) - 1 /\ (j - 1) + 1 = j /\ j - 1 \in 1 .. Len(s) - 1
      BY <1>3
    <3>2. t[(j - 1) + 1] = r[j - 1] /\ r[j - 1] = s[(j - 1) + 1]
      BY <1>1, <1>5, <3>1
    <3> QED BY <3>1, <3>2
  <2> QED BY <2>1
<1>8. ASSUME NEW x \in 1 .. Len(t), NEW y \in 1 .. Len(t), t[x] = t[y]
      PROVE  x = y
  <2> DEFINE Was(z) == IF z = 1 THEN i ELSE IF z <= i THEN z - 1 ELSE z
  <2>1. ASSUME NEW z \in 1 .. Len(t)
        PROVE  Was(z) \in 1 .. Len(s) /\ t[z] = s[Was(z)]
    <3>1. CASE z = 1
      BY <3>1, <1>4
    <3>2. CASE z # 1 /\ z <= i
      <4>1. z - 1 \in 1 .. i - 1 /\ (z - 1) + 1 = z
        BY <3>2, <1>3, <1>4
      <4>2. t[z] = s[z - 1]
        BY <4>1, <1>6
      <4> QED BY <3>2, <4>1, <4>2, <1>3
    <3>3. CASE z > i
      <4>1. z \in i + 1 .. Len(s)
        BY <3>3, <1>3, <1>4
      <4>2. t[z] = s[z]
        BY <4>1, <1>7
      <4> QED BY <3>3, <4>1, <4>2, <1>3
    <3> QED BY <3>1, <3>2, <3>3, <1>3, <1>4
  <2>2. Was(x) = Was(y)
    <3> HIDE DEF Was
    <3> QED BY <1>8, <2>1 DEF Distinct
  <2> QED BY <2>2, <1>3, <1>4
<1> QED BY <1>4, <1>6, <1>7, <1>8 DEF t, Distinct

-----------------------------------------------------------------------------
(* The LRU: the keys asked last, the oldest of them first.                 *)

LEMMA RecentIs ==
    ASSUME NEW S, NEW q \in Seq(S), NEW c \in Nat
    PROVE  /\ Recent(q, c) \in Seq(S) /\ Len(Recent(q, c)) = Kept(q, c)
           /\ Kept(q, c) \in Nat /\ Kept(q, c) <= Len(q)
           /\ \A j \in 1 .. Kept(q, c) :
                  Recent(q, c)[j] = q[Kept(q, c) - j + 1]
<1> DEFINE m == Kept(q, c)
           a == SubSeq(q, 1, m)
<1>1. m \in Nat /\ m <= Len(q) /\ Len(q) \in Nat
  BY DEF Kept
<1> HIDE DEF m
<1>2. a \in Seq(S) /\ Len(a) = m /\ \A j \in 1 .. m : a[j] = q[j]
  BY <1>1
<1>3. Recent(q, c) = [j \in 1 .. Len(a) |-> a[(Len(a) - j) + 1]]
  BY DEF Recent, Reverse, m
<1> HIDE DEF a
<1>4. \A j \in 1 .. m : (m - j) + 1 \in 1 .. m /\ a[(m - j) + 1] \in S
  BY <1>1, <1>2
<1>5. Recent(q, c) \in [1 .. m -> S]
  BY <1>2, <1>3, <1>4
<1>6. \A j \in 1 .. m : Recent(q, c)[j] = q[m - j + 1]
  BY <1>2, <1>3, <1>4
<1>7. Recent(q, c) \in Seq(S) /\ Len(Recent(q, c)) = m
  BY <1>1, <1>5
<1> QED BY <1>1, <1>6, <1>7 DEF m

LEMMA RestIs ==
    ASSUME NEW S, NEW s \in Seq(S), NEW i \in 0 .. Len(s)
    PROVE  /\ SubSeq(s, i + 1, Len(s)) \in Seq(S)
           /\ Len(SubSeq(s, i + 1, Len(s))) = Len(s) - i
           /\ \A j \in 1 .. Len(s) - i :
                  SubSeq(s, i + 1, Len(s))[j] = s[j + i]
<1>1. Len(s) \in Nat /\ i \in Int /\ 0 <= i /\ i <= Len(s)
  OBVIOUS
<1> QED BY <1>1

LEMMA SameSeq ==
    ASSUME NEW S, NEW a \in Seq(S), NEW b \in Seq(S), Len(a) = Len(b),
           \A j \in 1 .. Len(a) : a[j] = b[j]
    PROVE  a = b
OBVIOUS

\* A hit moves the entry to the end, as the key moves to the front.
LEMMA RecentHit ==
    ASSUME NEW S, NEW q \in Seq(S), NEW c \in Nat, Distinct(q),
           NEW i \in 1 .. Len(Recent(q, c))
    PROVE  /\ Append(RemoveFirst(Recent(q, c), Recent(q, c)[i]),
                     Recent(q, c)[i])
               = Recent(Touch(q, Recent(q, c)[i]), c)
           /\ Len(Recent(Touch(q, Recent(q, c)[i]), c)) = Len(Recent(q, c))
<1> DEFINE l == Recent(q, c)
           m == Kept(q, c)
           k == l[i]
           p == m - i + 1
           r == RemoveFirst(l, k)
           t == Touch(q, k)
<1>1. /\ l \in Seq(S) /\ Len(l) = m /\ m \in Nat /\ m <= Len(q)
      /\ \A j \in 1 .. m : l[j] = q[m - j + 1]
  BY RecentIs
<1> HIDE DEF l, m
<1> USE <1>1
<1>2. /\ Len(q) \in Nat /\ i \in Int /\ 1 <= i /\ i <= m
      /\ p \in 1 .. Len(q) /\ p \in 1 .. m
  BY DEF l
<1>3. k = q[p] /\ k \in S
  BY <1>2
<1>4. Distinct(l)
  <2>1. ASSUME NEW x \in 1 .. m, NEW y \in 1 .. m, l[x] = l[y] PROVE x = y
    <3>1. m - x + 1 \in 1 .. Len(q) /\ m - y + 1 \in 1 .. Len(q)
      <4>1. \A z \in 1 .. m : m - z + 1 \in 1 .. Len(q)
        BY <1>2
      <4> QED BY <2>1, <4>1
    <3>2. m - x + 1 = m - y + 1
      BY <2>1, <3>1 DEF Distinct
    <3> QED BY <3>2
  <2> QED BY <2>1 DEF Distinct
<1>5. /\ r \in Seq(S) /\ Len(r) = m - 1
      /\ \A j \in 1 .. i - 1 : r[j] = l[j]
      /\ \A j \in i .. m - 1 : r[j] = l[j + 1]
  <2>1. i \in 1 .. Len(l)
    BY <1>2
  <2> HIDE DEF m
  <2> QED BY <1>4, <2>1, RemovePresent
<1>6. /\ t \in Seq(S) /\ Len(t) = Len(q) /\ t[1] = k
      /\ \A j \in 1 .. p - 1 : t[j + 1] = q[j]
      /\ \A j \in p + 1 .. Len(q) : t[j] = q[j]
  <2>1. Touch(q, q[p]) = t /\ p \in 1 .. Len(q) /\ Distinct(q)
    BY <1>2, <1>3
  <2> HIDE DEF k, p, t
  <2>2. /\ Touch(q, q[p]) \in Seq(S) /\ Len(Touch(q, q[p])) = Len(q)
        /\ Touch(q, q[p])[1] = q[p]
        /\ \A j \in 1 .. p - 1 : Touch(q, q[p])[j + 1] = q[j]
        /\ \A j \in p + 1 .. Len(q) : Touch(q, q[p])[j] = q[j]
    BY <2>1, TouchPresent
  <2> QED BY <1>3, <2>1, <2>2
<1> HIDE DEF r, t, k
<1>7. /\ Recent(t, c) \in Seq(S) /\ Len(Recent(t, c)) = m
      /\ \A j \in 1 .. m : Recent(t, c)[j] = t[m - j + 1]
  <2>1. t \in Seq(S)
    BY <1>6
  <2>2. Kept(t, c) = m
    BY <1>6 DEF Kept, m
  <2>3. /\ Recent(t, c) \in Seq(S) /\ Len(Recent(t, c)) = Kept(t, c)
        /\ \A j \in 1 .. Kept(t, c) :
               Recent(t, c)[j] = t[Kept(t, c) - j + 1]
    BY <2>1, RecentIs
  <2> QED BY <2>2, <2>3
<1>8. /\ Append(r, k) \in Seq(S) /\ Len(Append(r, k)) = m
      /\ Append(r, k)[m] = k
      /\ \A j \in 1 .. m - 1 : Append(r, k)[j] = r[j]
  <2>1. r \in Seq(S) /\ k \in S /\ Len(r) + 1 = m /\ Len(r) = m - 1
    BY <1>2, <1>3, <1>5
  <2>2. /\ Append(r, k) \in Seq(S) /\ Len(Append(r, k)) = Len(r) + 1
        /\ Append(r, k)[Len(r) + 1] = k
        /\ \A j \in 1 .. Len(r) : Append(r, k)[j] = r[j]
    BY <2>1
  <2> QED BY <2>1, <2>2
<1>9. ASSUME NEW j \in 1 .. m PROVE Append(r, k)[j] = Recent(t, c)[j]
  <2>1. Recent(t, c)[j] = t[m - j + 1]
    BY <1>7
  <2>2. CASE j = m
    <3>1. m - j + 1 = 1
      BY <2>2
    <3> QED BY <1>6, <1>8, <2>1, <2>2, <3>1
  <2>3. CASE j < i
    <3>1. /\ j \in 1 .. i - 1 /\ j \in 1 .. m - 1 /\ j \in 1 .. m
          /\ m - j + 1 \in p + 1 .. Len(q)
      BY <1>2, <2>3
    <3>2. Append(r, k)[j] = q[m - j + 1]
      BY <1>5, <1>8, <3>1
    <3>3. t[m - j + 1] = q[m - j + 1]
      BY <1>6, <3>1
    <3> QED BY <2>1, <3>2, <3>3
  <2>4. CASE i <= j /\ j < m
    <3>1. /\ j \in i .. m - 1 /\ j \in 1 .. m - 1 /\ j + 1 \in 1 .. m
          /\ m - j \in 1 .. p - 1 /\ m - (j + 1) + 1 = m - j
      BY <1>2, <2>4
    <3>2. Append(r, k)[j] = q[m - j]
      <4>1. l[j + 1] = q[m - (j + 1) + 1]
        BY <3>1
      <4> QED BY <1>5, <1>8, <3>1, <4>1
    <3>3. t[(m - j) + 1] = q[m - j]
      BY <1>6, <3>1
    <3> QED BY <2>1, <3>2, <3>3
  <2>5. j = m \/ j < i \/ (i <= j /\ j < m)
    BY <1>2
  <2> QED BY <2>2, <2>3, <2>4, <2>5
<1>10. Append(r, k) = Recent(t, c)
  BY <1>7, <1>8, <1>9, SameSeq
<1> QED BY <1>7, <1>10 DEF r, t, k, l

Over(f, c) == IF Len(f) > c THEN Len(f) - c ELSE 0

Rest(f, c) == SubSeq(f, Over(f, c) + 1, Len(f))

\* A miss puts the key at the end, and the oldest one goes if there is no
\* room: the key may have been asked before that.
LEMMA RecentMiss ==
    ASSUME NEW S, NEW q \in Seq(S), NEW c \in Nat \ {0}, NEW k \in S,
           Distinct(q), ~Contains(Recent(q, c), k)
    PROVE  LET f == Append(Recent(q, c), k)
           IN  /\ Rest(f, c) = Recent(Touch(q, k), c)
               /\ Over(f, c) \in Nat
               /\ Len(Rest(f, c)) + Over(f, c) = Len(Recent(q, c)) + 1
<1> DEFINE l == Recent(q, c)
           f == Append(l, k)
           over == Over(f, c)
           m == Kept(q, c)
           t == Touch(q, k)
           g == Rest(f, c)
           h == m + 1 - over
<1>1. /\ l \in Seq(S) /\ Len(l) = m /\ m \in Nat /\ m <= Len(q)
      /\ \A j \in 1 .. m : l[j] = q[m - j + 1]
  BY RecentIs
<1>2. /\ Len(q) \in Nat /\ c \in Nat /\ c >= 1 /\ m <= c
      /\ Len(q) < c => m = Len(q)
      /\ ~ (Len(q) < c) => m = c
  BY DEF Kept
<1>a. f = Append(l, k) /\ (over = IF Len(f) > c THEN Len(f) - c ELSE 0)
  BY DEF Over
<1> HIDE DEF l, m, over
<1>3. f \in Seq(S) /\ Len(f) = m + 1 /\ f[m + 1] = k /\ \A j \in 1 .. m : f[j] = l[j]
  BY <1>1
<1> HIDE DEF f
<1>4. /\ m = c => over = 1
      /\ m # c => over = 0
      /\ over \in {0, 1}
  BY <1>1, <1>2, <1>3, <1>a
<1>b. h \in Nat /\ h >= 1 /\ m = h - 1 + over /\ h + over = Len(f)
  BY <1>1, <1>2, <1>3, <1>4
<1>5. g \in Seq(S) /\ Len(g) = h /\ \A j \in 1 .. h : g[j] = f[j + over]
  <2> HIDE DEF h, g
  <2>0. g = SubSeq(f, over + 1, Len(f))
    BY DEF g, Rest, over
  <2>1. f \in Seq(S) /\ Len(f) \in Nat
    BY <1>3
  <2>2. over \in Int /\ over >= 0 /\ over + 1 <= Len(f)
    BY <1>b, <1>4
  <2>3. over \in 0 .. Len(f)
    BY <2>1, <2>2
  <2>4. /\ g \in Seq(S) /\ Len(g) = Len(f) - over
        /\ \A j \in 1 .. Len(f) - over : g[j] = f[j + over]
    BY <2>0, <2>1, <2>3, RestIs
  <2>5. Len(f) - over = h
    BY <1>b, <1>4
  <2> QED BY <2>4, <2>5
<1>6. /\ t \in Seq(S) /\ t[1] = k
      /\ Len(t) \in {Len(q), Len(q) + 1} /\ (Len(t) = Len(q) => m = c)
      /\ h = Kept(t, c)
      /\ \A j \in 1 .. h - 1 : t[j + 1] = q[j]
  <2>1. CASE Contains(q, k)
    <3>1. PICK p \in 1 .. Len(q) : q[p] = k
      BY <2>1 DEF Contains
    <3>2. ~ (p <= m)
      <4>1. SUFFICES ASSUME p <= m PROVE FALSE
        OBVIOUS
      <4>2. m - p + 1 \in 1 .. m /\ m - (m - p + 1) + 1 = p
        BY <1>1, <4>1
      <4>3. l[m - p + 1] = k
        BY <1>1, <3>1, <4>2
      <4> HIDE DEF l, m
      <4> QED BY <1>1, <4>2, <4>3 DEF Contains, l
    <3>3. m = c /\ h = c /\ p > m
      BY <1>1, <1>2, <1>4, <3>2
    <3>4. /\ t \in Seq(S) /\ Len(t) = Len(q) /\ t[1] = k
          /\ \A j \in 1 .. p - 1 : t[j + 1] = q[j]
      BY <3>1, TouchPresent
    <3> HIDE DEF t, m, h
    <3>5. \A j \in 1 .. h - 1 : j \in 1 .. p - 1
      BY <3>3, <1>2
    <3>6. ~ (Len(t) < c)
      BY <1>1, <1>2, <3>3, <3>4
    <3> QED BY <3>3, <3>4, <3>5, <3>6 DEF Kept
  <2>2. CASE ~Contains(q, k)
    <3>1. /\ t \in Seq(S) /\ Len(t) = Len(q) + 1 /\ t[1] = k
          /\ \A j \in 1 .. Len(q) : t[j + 1] = q[j]
      BY <2>2, TouchAbsent
    <3>2. h = Kept(t, c)
      <4> HIDE DEF t, h
      <4>1. CASE Len(q) < c
        BY <1>2, <1>4, <1>b, <3>1, <4>1 DEF Kept
      <4>2. CASE ~ (Len(q) < c)
        BY <1>2, <1>4, <1>b, <3>1, <4>2 DEF Kept
      <4> QED BY <4>1, <4>2
    <3> HIDE DEF t, h
    <3>3. \A j \in 1 .. h - 1 : j \in 1 .. Len(q)
      BY <1>1, <1>2, <1>4, <1>b
    <3>4. Len(t) # Len(q)
      BY <1>2, <3>1
    <3> QED BY <3>1, <3>2, <3>3, <3>4
  <2> QED BY <2>1, <2>2
<1>7. h \in Nat /\ h >= 1 /\ m = h - 1 + over /\ over \in {0, 1}
  BY <1>b, <1>4
<1> HIDE DEF h, t, g
<1>8. /\ Recent(t, c) \in Seq(S) /\ Len(Recent(t, c)) = h
      /\ \A j \in 1 .. h : Recent(t, c)[j] = t[h - j + 1]
  <2>1. t \in Seq(S) /\ h = Kept(t, c)
    BY <1>6
  <2> QED BY <2>1, RecentIs
<1>9. ASSUME NEW j \in 1 .. h PROVE g[j] = Recent(t, c)[j]
  <2>1. g[j] = f[j + over] /\ Recent(t, c)[j] = t[h - j + 1]
    BY <1>5, <1>8
  <2>2. CASE j = h
    <3>1. j + over = m + 1 /\ h - j + 1 = 1
      BY <1>7, <2>2
    <3> QED BY <1>3, <1>6, <2>1, <3>1
  <2>3. CASE j # h
    <3>1. /\ j + over \in 1 .. m /\ m - (j + over) + 1 = h - j
          /\ h - j \in 1 .. h - 1
      BY <1>7, <2>3
    <3>2. f[j + over] = q[h - j]
      <4>1. f[j + over] = l[j + over] /\ l[j + over] = q[m - (j + over) + 1]
        BY <1>1, <1>3, <3>1
      <4> QED BY <3>1, <4>1
    <3>3. t[(h - j) + 1] = q[h - j]
      BY <1>6, <3>1
    <3> QED BY <2>1, <3>2, <3>3
  <2> QED BY <2>2, <2>3
<1>10. g = Recent(t, c)
  BY <1>5, <1>8, <1>9, SameSeq
<1>11. over \in Nat /\ Len(g) + over = Len(l) + 1
  BY <1>1, <1>5, <1>7
<1> QED BY <1>10, <1>11 DEF g, t, f, over, l

-----------------------------------------------------------------------------
(* The steps of a replay.                                                  *)

\* The keys asked stay distinct, and none is forgotten.
LEMMA TouchKeeps ==
    ASSUME NEW S, NEW s \in Seq(S), NEW k \in S, Distinct(s)
    PROVE  /\ Touch(s, k) \in Seq(S) /\ Distinct(Touch(s, k))
           /\ ToSet(s) \cup {k} \subseteq ToSet(Touch(s, k))
<1> DEFINE t == Touch(s, k)
<1>1. CASE Contains(s, k)
  <2>1. PICK i \in 1 .. Len(s) : s[i] = k
    BY <1>1 DEF Contains
  <2>2. /\ t \in Seq(S) /\ Len(t) = Len(s) /\ t[1] = k
        /\ \A j \in 1 .. i - 1 : t[j + 1] = s[j]
        /\ \A j \in i + 1 .. Len(s) : t[j] = s[j]
        /\ Distinct(t)
    BY <2>1, TouchPresent
  <2> HIDE DEF t
  <2>3. ASSUME NEW j \in 1 .. Len(s) PROVE \E x \in 1 .. Len(t) : t[x] = s[j]
    <3>1. CASE j < i
      <4>1. j + 1 \in 1 .. Len(t) /\ j \in 1 .. i - 1
        BY <2>2, <3>1
      <4> QED BY <2>2, <4>1
    <3>2. CASE j = i
      <4>1. 1 \in 1 .. Len(t)
        BY <2>2
      <4> QED BY <2>1, <2>2, <3>2, <4>1
    <3>3. CASE j > i
      <4>1. j \in i + 1 .. Len(s) /\ j \in 1 .. Len(t)
        BY <2>2, <3>3
      <4> QED BY <2>2, <4>1
    <3> QED BY <3>1, <3>2, <3>3
  <2>4. k \in ToSet(s)
    BY <2>1 DEF ToSet
  <2>5. ToSet(s) \subseteq ToSet(t)
    <3>1. DOMAIN s = 1 .. Len(s) /\ DOMAIN t = 1 .. Len(t)
      BY <2>2
    <3> QED BY <2>3, <3>1 DEF ToSet
  <2> QED BY <2>2, <2>4, <2>5 DEF t
<1>2. CASE ~Contains(s, k)
  <2>1. /\ t \in Seq(S) /\ Len(t) = Len(s) + 1 /\ t[1] = k
        /\ \A j \in 1 .. Len(s) : t[j + 1] = s[j]
        /\ Distinct(t)
    BY <1>2, TouchAbsent
  <2> HIDE DEF t
  <2>2. \A j \in 1 .. Len(s) : j + 1 \in 1 .. Len(t)
    BY <2>1
  <2>3. ToSet(s) \subseteq ToSet(t)
    BY <2>1, <2>2 DEF ToSet
  <2>4. 1 \in 1 .. Len(t)
    BY <2>1
  <2>5. k \in ToSet(t)
    BY <2>1, <2>4 DEF ToSet
  <2> QED BY <2>1, <2>3, <2>5 DEF t
<1> QED BY <1>1, <1>2

Counts == [hits : Nat, misses : Nat, evictions : Nat]

\* What a hit, a miss and e evictions add.
LEMMA CountsAdd ==
    ASSUME counts \in Counts, NEW e \in Nat
    PROVE  /\ Hit \in Counts /\ Miss \in Counts
           /\ Hit.hits = counts.hits + 1 /\ Hit.misses = counts.misses
           /\ Hit.evictions = counts.evictions
           /\ Miss.hits = counts.hits /\ Miss.misses = counts.misses + 1
           /\ Miss.evictions = counts.evictions
           /\ [Miss EXCEPT !.evictions = @ + e] \in Counts
           /\ [Miss EXCEPT !.evictions = @ + e].misses = counts.misses + 1
           /\ [Miss EXCEPT !.evictions = @ + e].evictions
                  = counts.evictions + e
<1>1. PICK h, m, v \in Nat :
          counts = [hits |-> h, misses |-> m, evictions |-> v]
  BY DEF Counts
<1>2. Hit = [hits |-> h + 1, misses |-> m, evictions |-> v]
  BY <1>1 DEF Hit
<1>3. Miss = [hits |-> h, misses |-> m + 1, evictions |-> v]
  BY <1>1 DEF Miss
<1>4. [Miss EXCEPT !.evictions = @ + e]
          = [hits |-> h, misses |-> m + 1, evictions |-> v + e]
  BY <1>3
<1>5. h + 1 \in Nat /\ m + 1 \in Nat /\ v + e \in Nat
  BY <1>1
<1> QED BY <1>1, <1>2, <1>3, <1>4, <1>5 DEF Counts

\* A request for a key, whichever backend it goes to.
LEMMA RequestStep ==
    ASSUME AskedInv, NEW k \in Keys, Request1(case.backend, k), case' = case
    PROVE  AskedInv'
<1>1. /\ asked \in Seq(Keys) /\ Distinct(asked) /\ counts \in Counts
      /\ Capacity \in Nat /\ Capacity # 0
  BY CacheAssumption DEF AskedInv, Counts
<1>2. asked' = Touch(asked, k)
  BY DEF Request1, Touch
<1>3. asked' \in Seq(Keys) /\ Distinct(asked')
  BY <1>1, <1>2, TouchKeeps
<1>4. ToSet(asked) \cup {k} \subseteq ToSet(asked')
  BY <1>1, <1>2, TouchKeeps
<1>5. CASE case.backend = "none" /\ NoCacheRequest
  <2>1. counts' = Miss /\ counts.hits = 0
    BY <1>5 DEF NoCacheRequest, AskedInv
  <2>2. counts' \in Counts /\ counts'.hits = 0
    BY <2>1, <1>1, CountsAdd
  <2> QED BY <1>3, <1>5, <2>2 DEF AskedInv, Counts
<1>6. CASE case.backend = "lru" /\ LruGet(k)
  <2>1. /\ lru = Recent(asked, Capacity)
        /\ Len(lru) + counts.evictions = counts.misses
    BY <1>6 DEF AskedInv
  <2>2. PICK i \in 1 .. Len(lru) : lru[i] = k
    BY <1>6 DEF LruGet, Contains
  <2>3. /\ lru' = Append(RemoveFirst(lru, k), k) /\ counts' = Hit
    BY <1>6 DEF LruGet, MoveToEnd
  <2>4. /\ Append(RemoveFirst(lru, k), k) = Recent(Touch(asked, k), Capacity)
        /\ Len(Recent(Touch(asked, k), Capacity)) = Len(lru)
    BY <1>1, <2>1, <2>2, RecentHit
  <2>5. lru' = Recent(asked', Capacity) /\ Len(lru') = Len(lru)
    BY <1>2, <2>3, <2>4
  <2>6. /\ counts' \in Counts /\ counts'.misses = counts.misses
        /\ counts'.evictions = counts.evictions
    BY <1>1, <2>3, CountsAdd
  <2>7. Len(lru') + counts'.evictions = counts'.misses
    BY <2>1, <2>5, <2>6
  <2> QED BY <1>3, <1>6, <2>5, <2>6, <2>7 DEF AskedInv, Counts
<1>7. CASE case.backend = "lru" /\ LruPut(k)
  <2> DEFINE full == Append(lru, k)
             over == Over(full, Capacity)
             rest == Rest(full, Capacity)
  <2>1. /\ lru = Recent(asked, Capacity)
        /\ Len(lru) + counts.evictions = counts.misses
    BY <1>7 DEF AskedInv
  <2>2. /\ ~Contains(lru, k) /\ lru' = rest
        /\ counts' = [Miss EXCEPT !.evictions = @ + over]
    BY <1>7 DEF LruPut, Rest, Over
  <2>6. /\ rest = Recent(Touch(asked, k), Capacity)
        /\ over \in Nat
        /\ Len(rest) + over = Len(lru) + 1
    <3>1. Capacity \in Nat \ {0}
      BY <1>1
    <3>2. ~Contains(Recent(asked, Capacity), k)
      BY <2>1, <2>2
    <3>3. full = Append(Recent(asked, Capacity), k)
      BY <2>1
    <3> HIDE DEF full
    <3>4. /\ rest = Recent(Touch(asked, k), Capacity)
          /\ over \in Nat
          /\ Len(rest) + over = Len(Recent(asked, Capacity)) + 1
      BY <1>1, <3>1, <3>2, <3>3, RecentMiss
    <3> QED BY <2>1, <3>4
  <2> HIDE DEF over
  <2> HIDE DEF rest
  <2>7. lru' = Recent(asked', Capacity) /\ Len(lru') + over = Len(lru) + 1
    BY <1>2, <2>2, <2>6
  <2>8. /\ counts' \in Counts /\ counts'.misses = counts.misses + 1
        /\ counts'.evictions = counts.evictions + over
    BY <1>1, <2>2, <2>6, CountsAdd
  <2>9. Len(lru') \in Nat /\ Len(lru) \in Nat
    <3>1. Recent(asked, Capacity) \in Seq(Keys) /\ Recent(asked', Capacity) \in Seq(Keys)
      BY <1>1, <1>3, RecentIs
    <3> QED BY <2>1, <2>7, <3>1
  <2>10. Len(lru') + counts'.evictions = counts'.misses
    <3>1. counts.evictions \in Nat /\ counts.misses \in Nat
      BY <1>1 DEF Counts
    <3> DEFINE a == Len(lru')
               b == Len(lru)
               e == counts.evictions
               m == counts.misses
    <3>2. /\ a \in Nat /\ b \in Nat /\ e \in Nat /\ m \in Nat /\ over \in Nat
          /\ a + over = b + 1 /\ b + e = m
      BY <2>1, <2>6, <2>7, <2>9, <3>1
    <3>3. counts'.misses = m + 1 /\ counts'.evictions = e + over
      BY <2>8
    <3> HIDE DEF a, b, e, m
    <3>4. a + (e + over) = m + 1
      BY <3>2
    <3> QED BY <3>3, <3>4 DEF a
  <2> QED BY <1>3, <1>7, <2>7, <2>8, <2>10 DEF AskedInv, Counts
<1>8. CASE case.backend = "redis" /\ RedisGet(k)
  <2>1. /\ redis \subseteq ToSet(asked) /\ IsFiniteSet(redis)
        /\ Cardinality(redis) + counts.evictions = counts.misses
        /\ redis' = redis /\ counts' = Hit
    BY <1>8 DEF AskedInv, RedisGet
  <2>2. /\ counts' \in Counts /\ counts'.misses = counts.misses
        /\ counts'.evictions = counts.evictions
    BY <1>1, <2>1, CountsAdd
  <2> QED BY <1>3, <1>4, <1>8, <2>1, <2>2 DEF AskedInv, Counts
<1>9. CASE case.backend = "redis" /\ RedisPut(k)
  <2>1. /\ redis \subseteq ToSet(asked) /\ IsFiniteSet(redis)
        /\ Cardinality(redis) + counts.evictions = counts.misses
        /\ k \notin redis /\ redis' = redis \cup {k} /\ counts' = Miss
    BY <1>9 DEF AskedInv, RedisPut
  <2>2. IsFiniteSet(redis') /\ Cardinality(redis') = Cardinality(redis) + 1
    BY <2>1, FS_AddElement
  <2>3. /\ counts' \in Counts /\ counts'.misses = counts.misses + 1
        /\ counts'.evictions = counts.evictions
    BY <1>1, <2>1, CountsAdd
  <2>4. Cardinality(redis) \in Nat /\ counts.evictions \in Nat
    BY <1>1, <2>1, FS_CardinalityType DEF Counts
  <2>5. Cardinality(redis') + counts'.evictions = counts'.misses
    BY <2>1, <2>2, <2>3, <2>4
  <2>6. redis' \subseteq ToSet(asked')
    BY <1>4, <2>1
  <2> QED BY <1>3, <1>9, <2>2, <2>3, <2>5, <2>6 DEF AskedInv, Counts
<1> QED BY <1>5, <1>6, <1>7, <1>8, <1>9 DEF Request1

\* The server drops a key of its choice.
LEMMA EvictStep ==
    ASSUME AskedInv, RedisEvicts, case.backend = "redis", case' = case
    PROVE  AskedInv'
<1>1. PICK k \in redis : redis' = redis \ {k}
  BY DEF RedisEvicts
<1>2. /\ counts \in Counts /\ IsFiniteSet(redis) /\ redis \subseteq ToSet(asked)
      /\ Cardinality(redis) + counts.evictions = counts.misses
      /\ asked' = asked /\ counts' = [counts EXCEPT !.evictions = @ + 1]
  BY DEF AskedInv, RedisEvicts, Counts
<1>3. IsFiniteSet(redis') /\ Cardinality(redis') = Cardinality(redis) - 1
  BY <1>1, <1>2, FS_RemoveElement
<1>4. /\ counts' \in Counts /\ counts'.misses = counts.misses
      /\ counts'.evictions = counts.evictions + 1
      /\ counts.evictions \in Nat
  BY <1>2 DEF Counts
<1>5. Cardinality(redis) \in Nat
  BY <1>2, FS_CardinalityType
<1>6. Cardinality(redis') + counts'.evictions = counts'.misses
  BY <1>2, <1>3, <1>4, <1>5
<1> QED BY <1>1, <1>2, <1>3, <1>4, <1>6 DEF AskedInv, Counts

\* Every replay starts with an empty cache.
LEMMA MakeStep ==
    ASSUME Make, case' = case
    PROVE  AskedInv'
<1>1. /\ lru' = << >> /\ redis' = {} /\ asked' = << >>
      /\ counts' = [hits |-> 0, misses |-> 0, evictions |-> 0]
  BY DEF Make, Zero
<1>2. /\ asked' \in Seq(Keys) /\ Len(asked') = 0
      /\ counts' \in Counts /\ counts'.hits = 0 /\ counts'.misses = 0
      /\ counts'.evictions = 0
  BY <1>1 DEF Counts
<1>3. Distinct(asked')
  BY <1>2 DEF Distinct
<1>4. Recent(asked', Capacity) = << >>
  <2>1. Kept(asked', Capacity) = 0
    BY <1>2, CacheAssumption DEF Kept
  <2>2. SubSeq(asked', 1, 0) = << >>
    BY <1>1
  <2> QED BY <2>1, <2>2 DEF Recent, Reverse
<1>5. Len(lru') = 0 /\ Cardinality(redis') = 0 /\ IsFiniteSet(redis')
  BY <1>1, FS_EmptySet
<1>6. redis' \subseteq ToSet(asked')
  BY <1>1
<1> QED BY <1>1, <1>2, <1>3, <1>4, <1>5, <1>6 DEF AskedInv, Counts

-----------------------------------------------------------------------------
(* The median.                                                             *)

\* The runs that come before run i when they are sorted by latency.
Before(runs, i) ==
    {j \in DOMAIN runs : \/ runs[j].p50 < runs[i].p50
                         \/ runs[j].p50 = runs[i].p50 /\ j < i}

\* No two runs have the same place, so every place is taken.
LEMMA PlaceTaken ==
    ASSUME NEW S, NEW runs \in Seq(S),
           \A i \in 1 .. Len(runs) : runs[i].p50 \in Nat
    PROVE  /\ \A i \in 1 .. Len(runs) : IsFiniteSet(Before(runs, i))
           /\ \A k \in 0 .. Len(runs) - 1 :
                 \E i \in 1 .. Len(runs) : Cardinality(Before(runs, i)) = k
<1> DEFINE c == Len(runs)
           D == 1 .. c
           p == [i \in D |-> runs[i].p50]
           B(i) == Before(runs, i)
           Place(i) == Cardinality(B(i))
<1>1. c \in Nat /\ DOMAIN runs = D /\ D \subseteq Nat
  OBVIOUS
<1>2. p \in [D -> Nat] /\ \A i \in D : p[i] = runs[i].p50
  OBVIOUS
<1> HIDE DEF p
<1>3. \A i \in D : B(i) = {j \in D : p[j] < p[i] \/ (p[j] = p[i] /\ j < i)}
  BY <1>1, <1>2 DEF Before
<1>4. IsFiniteSet(D) /\ Cardinality(D) = c
  <2> HIDE DEF c
  <2> QED BY <1>1, FS_Interval
<1> HIDE DEF B, D, c
<1>5. ASSUME NEW i \in D PROVE IsFiniteSet(B(i)) /\ Place(i) \in 0 .. c - 1
  <2>1. B(i) \in SUBSET D /\ i \notin B(i)
    <3>1. p[i] \in Nat /\ i \in Nat
      BY <1>1, <1>2
    <3> QED BY <1>3, <3>1
  <2>2. IsFiniteSet(B(i)) /\ Place(i) <= c /\ (c = Place(i) => D = B(i))
    BY <1>4, <2>1, FS_Subset
  <2>3. Place(i) \in Nat
    BY <2>2, FS_CardinalityType
  <2> QED BY <1>1, <2>1, <2>2, <2>3
<1>6. ASSUME NEW i \in D, NEW j \in D, i # j PROVE Place(i) # Place(j)
  <2>1. \A x, y \in D : x \in B(y) => Place(x) < Place(y)
    <3>1. SUFFICES ASSUME NEW x \in D, NEW y \in D, x \in B(y)
                   PROVE  Place(x) < Place(y)
      OBVIOUS
    <3>2. p \in [D -> Nat] /\ D \subseteq Nat
      BY <1>1, <1>2
    <3>3. B(x) \in SUBSET B(y) /\ x \notin B(x)
      <4>1. \A z \in D : p[z] \in Nat /\ z \in Nat
        BY <3>2
      <4>2. p[x] < p[y] \/ (p[x] = p[y] /\ x < y)
        BY <1>3, <3>1
      <4>3. ASSUME NEW z \in B(x) PROVE z \in B(y)
        <5>1. z \in D /\ (p[z] < p[x] \/ (p[z] = p[x] /\ z < x))
          BY <1>3
        <5>2. p[z] < p[y] \/ (p[z] = p[y] /\ z < y)
          BY <4>1, <4>2, <5>1
        <5> QED BY <1>3, <5>1, <5>2
      <4>4. x \notin B(x)
        BY <1>3, <4>1
      <4> QED BY <4>3, <4>4
    <3>4. IsFiniteSet(B(y)) /\ Place(y) \in Int /\ Place(x) \in Int
      BY <1>5
    <3>5. Place(x) <= Place(y) /\ (Place(y) = Place(x) => B(y) = B(x))
      BY <3>3, <3>4, FS_Subset
    <3> QED BY <3>1, <3>3, <3>4, <3>5
  <2>2. i \in B(j) \/ j \in B(i)
    <3>1. p[i] \in Nat /\ p[j] \in Nat /\ i \in Nat /\ j \in Nat
      BY <1>1, <1>2
    <3> QED BY <1>3, <1>6, <3>1
  <2>3. Place(i) \in Int /\ Place(j) \in Int
    BY <1>5
  <2> HIDE DEF Place
  <2> QED BY <2>1, <2>2, <2>3
<1> HIDE DEF Place
<1> DEFINE f == [i \in D |-> Place(i)]
<1>7. f \in [D -> 0 .. c - 1]
  BY <1>5
<1>8. f \in Injection(D, 0 .. c - 1)
  <2>1. \A i, j \in D : f[i] = f[j] => i = j
    BY <1>6
  <2> HIDE DEF f
  <2> QED BY <1>7, <2>1 DEF Injection, IsInjective
<1>9. IsFiniteSet(0 .. c - 1) /\ Cardinality(0 .. c - 1) = c
  <2>1. 0 \in Int /\ c - 1 \in Int /\ c >= 0
    BY <1>1
  <2>2. CASE c = 0
    <3>1. 0 .. c - 1 = {}
      BY <2>2
    <3> QED BY <2>2, <3>1, FS_EmptySet
  <2>3. CASE c > 0
    BY <1>1, <2>1, <2>3, FS_Interval
  <2> QED BY <1>1, <2>1, <2>2, <2>3
<1>10. f \in Surjection(D, 0 .. c - 1)
  <2> HIDE DEF f
  <2> QED BY <1>4, <1>8, <1>9, FS_Injection
<1>11. \A k \in 0 .. c - 1 : \E i \in D : f[i] = k
  <2> HIDE DEF f
  <2> QED BY <1>10 DEF Surjection
<1>12. \A k \in 0 .. c - 1 : \E i \in D : Place(i) = k
  BY <1>11
<1> QED BY <1>5, <1>12 DEF Place, B, D, c

\* No more than half of the runs are faster than the median, and less than
\* half of them slower.
LEMMA MedianSplits ==
    ASSUME NEW S, NEW runs \in Seq(S), Len(runs) # 0,
           \A i \in 1 .. Len(runs) : runs[i].p50 \in Nat
    PROVE  \E i \in 1 .. Len(runs) :
              /\ Median(runs) = runs[i]
              /\ 2 * Cardinality({j \in 1 .. Len(runs) :
                        runs[j].p50 < runs[i].p50}) <= Len(runs)
              /\ 2 * Cardinality({j \in 1 .. Len(runs) :
                        runs[j].p50 > runs[i].p50}) < Len(runs)
<1> DEFINE c == Len(runs)
           D == 1 .. c
           h == c \div 2
<1>1. c \in Nat /\ c >= 1 /\ DOMAIN runs = D
  OBVIOUS
<1>2. h \in 0 .. c - 1 /\ 2 * h <= c /\ c <= 2 * h + 1
  <2> HIDE DEF c
  <2> QED BY <1>1
<1> HIDE DEF h
<1>3. /\ \A i \in D : IsFiniteSet(Before(runs, i))
      /\ \E i \in D : Cardinality(Before(runs, i)) = h
  BY <1>2, PlaceTaken
<1> DEFINE i == CHOOSE x \in D : Cardinality(Before(runs, x)) = h
<1>4. i \in D /\ Cardinality(Before(runs, i)) = h
  BY <1>3
<1>5. ByLatency(runs) = [k \in DOMAIN runs |-> runs[CHOOSE x \in DOMAIN runs :
                             Cardinality(Before(runs, x)) = k - 1]]
  BY DEF ByLatency, Before
<1>6. Median(runs) = runs[i]
  <2>1. h + 1 \in D /\ (h + 1) - 1 = h
    BY <1>1, <1>2
  <2>2. Median(runs) = ByLatency(runs)[h + 1]
    BY DEF Median, h
  <2>3. ByLatency(runs)[h + 1]
            = runs[CHOOSE x \in D : Cardinality(Before(runs, x)) = h]
    BY <1>1, <1>5, <2>1
  <2> QED BY <2>2, <2>3
<1> HIDE DEF i, D
<1> DEFINE less == {j \in D : runs[j].p50 < runs[i].p50}
           more == {j \in D : runs[j].p50 > runs[i].p50}
           b == Before(runs, i)
<1>7. IsFiniteSet(D) /\ Cardinality(D) = c /\ i \in Int
  <2> HIDE DEF c
  <2> QED BY <1>1, <1>4, FS_Interval DEF D
<1>8. less \in SUBSET b /\ IsFiniteSet(b) /\ Cardinality(b) = h
  BY <1>1, <1>3, <1>4 DEF Before
<1>9. 2 * Cardinality(less) <= c
  <2>1. IsFiniteSet(less) /\ Cardinality(less) <= h
    <3> HIDE DEF less, b
    <3> QED BY <1>8, FS_Subset
  <2>2. Cardinality(less) \in Nat
    BY <2>1, FS_CardinalityType
  <2> HIDE DEF less, c
  <2> QED BY <1>1, <1>2, <2>1, <2>2
<1>10. 2 * Cardinality(more) < c
  <2>1. b \in SUBSET D /\ i \notin b
    <3>1. runs[i].p50 \in Nat
      BY <1>4 DEF D
    <3> QED BY <1>1, <1>7, <3>1 DEF Before
  <2>2. more \in SUBSET (D \ (b \cup {i}))
    <3>1. \A j \in D : runs[j].p50 \in Nat
      BY DEF D
    <3> QED BY <1>1, <1>4, <3>1 DEF Before
  <2> DEFINE e == b \cup {i}
  <2> HIDE DEF b, more, c
  <2>3. IsFiniteSet(e) /\ Cardinality(e) = h + 1 /\ e \in SUBSET D
    BY <1>4, <1>8, <2>1, FS_AddElement
  <2> HIDE DEF e
  <2>4. IsFiniteSet(D \ e) /\ Cardinality(D \ e) = c - (h + 1)
    <3>1. Cardinality(D \ e) = Cardinality(D) - Cardinality(D \cap e)
      BY <1>7, FS_Difference
    <3>2. D \cap e = e
      BY <2>3
    <3> QED BY <1>7, <2>3, <3>1, <3>2, FS_Difference
  <2>5. IsFiniteSet(more) /\ Cardinality(more) <= c - (h + 1)
    BY <2>2, <2>4, FS_Subset DEF e
  <2>6. Cardinality(more) \in Nat
    BY <2>5, FS_CardinalityType
  <2> QED BY <1>1, <1>2, <2>5, <2>6
<1> QED BY <1>4, <1>6, <1>9, <1>10 DEF D

-----------------------------------------------------------------------------
(* The sessions.                                                           *)

\* The programs of a case; only the bench of a database is repeated.
LEMMA CaseFacts ==
    ASSUME case \in Todo
    PROVE  /\ Repeats \in Nat /\ Repeats >= 1 /\ Repeats <= Repeat
           /\ Direct => Repeats = 1
           /\ kind = "cache" =>
                /\ case \in CacheCases /\ case.prog = "cache" /\ ~Direct
                /\ case.backend \in {"none", "lru", "redis"}
<1>1. Repeat \in Nat /\ Repeat >= 1
  BY RunnerAssumption
<1>2. \A c \in Cases : c.prog = "bench"
  BY DEF Cases, DbCase
<1>3. \A c \in CacheCases :
          c.prog = "cache" /\ c.backend \in {"none", "lru", "redis"}
  BY DEF CacheCases, CacheCase
<1>4. kind = "cache" => case \in CacheCases
  BY DEF Todo
<1>5. Direct => case \notin Cases
  BY <1>2 DEF Direct
<1>6. kind = "cache" => ~Direct
  BY <1>3, <1>4 DEF Direct
<1> QED BY <1>1, <1>3, <1>4, <1>5, <1>6 DEF Repeats

LEMMA InitHolds == Init => RunsInv /\ ReplayInv /\ MedianKept
BY DEF Init, RunsInv, ReplayInv, MedianKept, Todo

LEMMA MinesAppend ==
    ASSUME NEW runs, Mines(runs), NEW b, Mine(b)
    PROVE  Mines(Append(runs, b)) /\ Len(Append(runs, b)) = Len(runs) + 1
<1> DEFINE a == Append(runs, b)
           S == ToSet(runs) \cup {b}
<1>1. runs \in Seq(S) /\ b \in S /\ Len(runs) \in Nat
  BY DEF Mines
<1>2. a \in Seq(S) /\ Len(a) = Len(runs) + 1 /\ a[Len(runs) + 1] = b
      /\ \A i \in 1 .. Len(runs) : a[i] = runs[i]
  BY <1>1
<1> HIDE DEF a, S
<1>3. \A i \in 1 .. Len(a) : Mine(a[i])
  BY <1>1, <1>2 DEF Mines
<1>4. a \in Seq(ToSet(a))
  <2>1. DOMAIN a = 1 .. Len(a)
    BY <1>2
  <2>2. \A i \in 1 .. Len(a) : a[i] \in ToSet(a)
    BY <2>1 DEF ToSet
  <2> QED BY <1>2, <2>1, <2>2
<1> QED BY <1>2, <1>3, <1>4 DEF Mines, a

\* A result of runs of this session, as many as the case has.
LEMMA ResultKept ==
    ASSUME NEW runs, Mines(runs), Len(runs) = Repeats, Repeats >= 1
    PROVE  LET of  == Result(runs).of
               p50 == Result(runs).run.p50
           IN  /\ Len(of) = Repeats
               /\ \A i \in DOMAIN of : of[i].by = Result(runs).run.by
               /\ 2 * Cardinality({i \in DOMAIN of : of[i].p50 < p50})
                      <= Len(of)
               /\ 2 * Cardinality({i \in DOMAIN of : of[i].p50 > p50})
                      < Len(of)
<1> DEFINE of == Result(runs).of
           m == Result(runs).run
           D == 1 .. Len(runs)
<1>1. /\ runs \in Seq(ToSet(runs)) /\ DOMAIN runs = D /\ Len(runs) \in Nat
      /\ \A i \in D : runs[i].p50 \in Nat /\ runs[i].by = sessions
  BY DEF Mines, Mine
<1>2. Len(runs) # 0
  OBVIOUS
<1>3. PICK i \in D :
          /\ Median(runs) = runs[i]
          /\ 2 * Cardinality({j \in D : runs[j].p50 < runs[i].p50}) <= Len(runs)
          /\ 2 * Cardinality({j \in D : runs[j].p50 > runs[i].p50}) < Len(runs)
  BY <1>1, <1>2, MedianSplits
<1>4. m = runs[i]
  BY <1>3 DEF Result
<1>5. of = [j \in D |-> [p50 |-> runs[j].p50, by |-> runs[j].by]]
  BY <1>1 DEF Result
<1> HIDE DEF of, m, D
<1>6. DOMAIN of = D /\ \A j \in D : of[j].p50 = runs[j].p50 /\ of[j].by = sessions
  BY <1>1, <1>5
<1>7. Len(of) = Len(runs)
  BY <1>1, <1>6 DEF D
<1>8. m.by = sessions
  BY <1>1, <1>4
<1>9. /\ {j \in DOMAIN of : of[j].p50 < m.p50}
             = {j \in D : runs[j].p50 < runs[i].p50}
      /\ {j \in DOMAIN of : of[j].p50 > m.p50}
             = {j \in D : runs[j].p50 > runs[i].p50}
  BY <1>4, <1>6
<1>10. /\ 2 * Cardinality({j \in DOMAIN of : of[j].p50 < m.p50}) <= Len(of)
       /\ 2 * Cardinality({j \in DOMAIN of : of[j].p50 > m.p50}) < Len(of)
  BY <1>3, <1>7, <1>9
<1> QED BY <1>6, <1>7, <1>8, <1>10 DEF of, m

Inv == RunsInv /\ ReplayInv /\ MedianKept

LEMMA SameCase ==
    ASSUME kind' = kind, case' = case
    PROVE  Repeats' = Repeats /\ Direct' = Direct /\ Todo' = Todo
BY DEF Repeats, Direct, Todo, Cases, ChangeCases, LoadCases, BackupCases

\* A step that leaves the session where it is.
LEMMA RunsSame ==
    ASSUME RunsInv, UNCHANGED <<kind, case, runner>>
    PROVE  RunsInv'
<1>1. /\ run' = run /\ tmp' = tmp /\ sessions' = sessions /\ case' = case
      /\ Repeats' = Repeats /\ Direct' = Direct /\ Todo' = Todo
  BY SameCase DEF runner
<1>2. Tmp' = Tmp
  BY <1>1 DEF Tmp
<1> QED BY <1>1, <1>2 DEF RunsInv, Mines, Mine

LEMMA RunsOver ==
    ASSUME RunsInv, kind' = kind, case' = case,
           DOMAIN tmp' = DOMAIN tmp, run' = Nil
    PROVE  RunsInv'
BY SameCase DEF RunsInv

\* A step that brings the session to its next place.
LEMMA RunsNext ==
    ASSUME RunsInv, kind' = kind, case' = case, DOMAIN tmp' = DOMAIN tmp,
           NEW runs, NEW place, run' = [runs |-> runs, at |-> place],
           place \in {"process", "writing", "exited", "merge", "merging"},
           runs \in Seq(ToSet(runs)),
           \A i \in 1 .. Len(runs) :
               runs[i].p50 \in Nat /\ runs[i].by = sessions',
           place \in {"process", "writing", "exited"} => Len(runs) < Repeats,
           place \in {"merge", "merging"} => Len(runs) = Repeats,
           place = "exited" /\ ~Direct
               => /\ tmp'[Len(runs)].p50 \in Nat
                  /\ tmp'[Len(runs)].by = sessions'
    PROVE  RunsInv'
<1>1. run'.runs = runs /\ run'.at = place
  OBVIOUS
<1>2. case' \in Todo' /\ DOMAIN tmp' = 0 .. Repeat - 1
      /\ Repeats' = Repeats /\ Direct' = Direct
  BY SameCase DEF RunsInv
<1>3. Mines(run.runs)'
  BY <1>1 DEF Mines, Mine
<1>4. place = "exited" /\ ~Direct => Mine(Tmp)'
  BY <1>1 DEF Tmp, Mine
<1> QED BY <1>1, <1>2, <1>3, <1>4 DEF RunsInv

LEMMA MedianSame ==
    ASSUME MedianKept, kind' = kind, case' = case, result' \in {result, Part}
    PROVE  MedianKept'
<1>1. Repeats' = Repeats
  BY SameCase
<1> QED BY <1>1 DEF MedianKept

LEMMA MedianNew ==
    ASSUME RunsInv, kind' = kind, case' = case,
           NEW runs, Mines(runs), Len(runs) = Repeats, result' = Result(runs)
    PROVE  MedianKept'
<1>1. Repeats' = Repeats /\ Repeats >= 1
  BY SameCase, CaseFacts DEF RunsInv
<1> QED BY <1>1, ResultKept DEF MedianKept

-----------------------------------------------------------------------------
(* The steps.                                                              *)

LEMMA BeginStep == ASSUME Inv, Begin PROVE RunsInv' /\ MedianKept'
<1>1. /\ run' = [runs |-> << >>, at |-> "process"]
      /\ kind' = kind /\ case' = case /\ tmp' = tmp /\ result' = result
  BY DEF Begin
<1>2. RunsInv /\ Repeats \in Nat /\ Repeats >= 1
  BY CaseFacts DEF Inv, RunsInv
<1> DEFINE none == << >>
<1>3. none \in Seq(ToSet(none)) /\ Len(none) = 0 /\ run' = [runs |-> none, at |-> "process"]
  BY <1>1
<1> HIDE DEF none
<1>4. \A i \in 1 .. Len(none) : FALSE
  BY <1>3
<1>5. DOMAIN tmp' = DOMAIN tmp /\ Len(none) < Repeats
  BY <1>1, <1>2, <1>3
<1>6. RunsInv'
  BY <1>1, <1>2, <1>3, <1>4, <1>5, RunsNext
<1> QED BY <1>1, <1>6, MedianSame DEF Inv

LEMMA OpenOutStep == ASSUME Inv, OpenOut PROVE RunsInv' /\ MedianKept'
<1>1. /\ run # Nil /\ run.at = "process" /\ Writes(Part)
      /\ run' = [run EXCEPT !.at = "writing"]
      /\ kind' = kind /\ case' = case /\ sessions' = sessions
  BY DEF OpenOut, At
<1>2. /\ RunsInv /\ MedianKept
      /\ run = [runs |-> run.runs, at |-> run.at] /\ Mines(run.runs)
      /\ Len(run.runs) < Repeats
  BY <1>1 DEF Inv, RunsInv
<1>3. DOMAIN tmp' = DOMAIN tmp /\ result' \in {result, Part}
  BY <1>1 DEF Writes
<1>4. run' = [runs |-> run.runs, at |-> "writing"]
  BY <1>1, <1>2
<1>5. RunsInv'
  BY <1>1, <1>2, <1>3, <1>4, RunsNext DEF Mines, Mine
<1> QED BY <1>1, <1>2, <1>3, <1>5, MedianSame

LEMMA FillOutStep == ASSUME Inv, FillOut PROVE RunsInv' /\ MedianKept'
<1>1. /\ run # Nil /\ run.at = "writing"
      /\ run' = [run EXCEPT !.at = "exited"]
      /\ kind' = kind /\ case' = case /\ sessions' = sessions
  BY DEF FillOut, At
<1>2. /\ RunsInv /\ MedianKept
      /\ run = [runs |-> run.runs, at |-> run.at] /\ Mines(run.runs)
      /\ Len(run.runs) < Repeats
      /\ DOMAIN tmp = 0 .. Repeat - 1
      /\ Repeats \in Nat /\ Repeats <= Repeat /\ (Direct => Repeats = 1)
  BY <1>1, CaseFacts DEF Inv, RunsInv
<1>3. PICK p50 \in Nat : Writes(Body(p50))
  BY RunnerAssumption DEF FillOut
<1> DEFINE body == Body(p50)
<1>4. Mine(body)
  BY DEF Body, Mine
<1> HIDE DEF body
<1>5. run' = [runs |-> run.runs, at |-> "exited"]
  BY <1>1, <1>2
<1>6. CASE Direct
  <2>1. tmp' = tmp /\ result' = (IF body = Part THEN Part ELSE Result(<<body>>))
    BY <1>3, <1>6 DEF Writes, body
  <2>2. RunsInv'
    BY <1>1, <1>2, <1>5, <1>6, <2>1, RunsNext DEF Mines, Mine
  <2>3. Mines(<<body>>) /\ Len(<<body>>) = 1
    BY <1>4 DEF Mines, ToSet
  <2>4. MedianKept'
    <3>1. CASE body = Part
      BY <1>1, <1>2, <2>1, <3>1, MedianSame
    <3>2. CASE body # Part
      BY <1>1, <1>2, <1>6, <2>1, <2>3, <3>2, MedianNew
    <3> QED BY <3>1, <3>2
  <2> QED BY <2>2, <2>4
<1>7. CASE ~Direct
  <2>1. result' = result /\ tmp' = [tmp EXCEPT ![Len(run.runs)] = body]
    BY <1>3, <1>7 DEF Writes, body
  <2>2. Len(run.runs) \in DOMAIN tmp
    <3>1. Len(run.runs) \in Nat /\ Repeat \in Nat
      BY <1>2, RunnerAssumption DEF Mines
    <3> QED BY <1>2, <3>1
  <2>3. tmp'[Len(run.runs)] = body /\ DOMAIN tmp' = DOMAIN tmp
    BY <2>1, <2>2
  <2>4. RunsInv'
    BY <1>1, <1>2, <1>4, <1>5, <2>3, RunsNext DEF Mines, Mine
  <2> QED BY <1>1, <1>2, <2>1, <2>4, MedianSame
<1> QED BY <1>6, <1>7

LEMMA CollectStep == ASSUME Inv, Collect PROVE RunsInv' /\ MedianKept'
<1> DEFINE runs == Append(run.runs, Tmp)
           place == IF Len(runs) < Repeats THEN "process" ELSE "merge"
<1>1. /\ run # Nil /\ run.at = "exited" /\ ~Direct
      /\ run' = [runs |-> runs, at |-> place]
      /\ kind' = kind /\ case' = case /\ sessions' = sessions
      /\ tmp' = [tmp EXCEPT ![Len(run.runs)] = Nil] /\ result' = result
  BY DEF Collect, At
<1>2. /\ RunsInv /\ MedianKept /\ Mines(run.runs) /\ Mine(Tmp)
      /\ Len(run.runs) < Repeats /\ Repeats \in Nat
  BY <1>1, CaseFacts DEF Inv, RunsInv
<1>3. Mines(runs) /\ Len(runs) = Len(run.runs) + 1
  BY <1>2, MinesAppend
<1>4. Len(run.runs) \in Nat
  BY <1>2 DEF Mines
<1> HIDE DEF runs
<1>5. /\ place = "process" => Len(runs) < Repeats
      /\ place = "merge" => Len(runs) = Repeats
      /\ place \in {"process", "merge"}
  BY <1>2, <1>3, <1>4
<1> HIDE DEF place
<1>6. RunsInv'
  BY <1>1, <1>2, <1>3, <1>5, RunsNext DEF Mines, Mine
<1> QED BY <1>1, <1>2, <1>6, MedianSame

LEMMA OpenResultStep == ASSUME Inv, OpenResult PROVE RunsInv' /\ MedianKept'
<1>1. /\ run # Nil /\ run.at = "merge" /\ result' = Part
      /\ run' = [run EXCEPT !.at = "merging"] /\ tmp' = tmp
      /\ kind' = kind /\ case' = case /\ sessions' = sessions
  BY DEF OpenResult, At
<1>2. /\ RunsInv /\ MedianKept
      /\ run = [runs |-> run.runs, at |-> run.at] /\ Mines(run.runs)
      /\ Len(run.runs) = Repeats
  BY <1>1 DEF Inv, RunsInv
<1>3. run' = [runs |-> run.runs, at |-> "merging"]
  BY <1>1, <1>2
<1>4. RunsInv'
  BY <1>1, <1>2, <1>3, RunsNext DEF Mines, Mine
<1> QED BY <1>1, <1>2, <1>4, MedianSame

LEMMA FillResultStep == ASSUME Inv, FillResult PROVE RunsInv' /\ MedianKept'
<1>1. /\ run # Nil /\ run.at = "merging" /\ result' = Result(run.runs)
      /\ run' = Nil /\ tmp' = tmp /\ kind' = kind /\ case' = case
  BY DEF FillResult, At
<1>2. RunsInv /\ Mines(run.runs) /\ Len(run.runs) = Repeats
  BY <1>1 DEF Inv, RunsInv
<1>3. RunsInv'
  BY <1>1, <1>2, RunsOver
<1> QED BY <1>1, <1>2, <1>3, MedianNew

\* The replay is not touched outside the cache bench.
LEMMA ReplayElsewhere ==
    ASSUME kind # "cache", kind' = kind
    PROVE  ReplayInv'
BY DEF ReplayInv

LEMMA ReplayOver ==
    ASSUME ReplayInv, kind' = kind, case' = case, run' = Nil
    PROVE  ReplayInv'
BY DEF ReplayInv

LEMMA AskedSame ==
    ASSUME AskedInv, case' = case, UNCHANGED cacheVars
    PROVE  AskedInv'
BY DEF AskedInv, cacheVars

LEMMA ReplaySame ==
    ASSUME ReplayInv, kind' = kind, case' = case, UNCHANGED cacheVars,
           todo' = todo, run' = run
    PROVE  ReplayInv'
<1>1. RunCache(case)' = RunCache(case)
  BY DEF RunCache
<1> QED BY <1>1, AskedSame DEF ReplayInv

LEMMA ConsIs ==
    ASSUME NEW S, NEW k \in S, NEW s \in Seq(S)
    PROVE  /\ << k >> \o s # << >> /\ Head(<< k >> \o s) = k
           /\ Tail(<< k >> \o s) = s
           /\ Contains(<< k >> \o s, k)
<1> DEFINE d == << k >> \o s
<1>1. /\ d \in Seq(S) /\ Len(d) = Len(s) + 1 /\ Len(s) \in Nat /\ d[1] = k
      /\ \A i \in 1 .. Len(s) : d[i + 1] = s[i]
  OBVIOUS
<1> HIDE DEF d
<1>2. d # << >> /\ Head(d) = k
  BY <1>1
<1>3. /\ Tail(d) \in Seq(S) /\ Len(Tail(d)) = Len(s)
      /\ \A i \in 1 .. Len(s) : Tail(d)[i] = d[i + 1]
  BY <1>1, <1>2
<1>4. \A i \in 1 .. Len(s) : Tail(d)[i] = s[i]
  BY <1>1, <1>3
<1>5. Tail(d) = s
  BY <1>3, <1>4, SameSeq
<1>6. Contains(d, k)
  <2>1. 1 \in 1 .. Len(d)
    BY <1>1
  <2> QED BY <1>1, <2>1 DEF Contains
<1> QED BY <1>2, <1>5, <1>6 DEF d

\* The first step of a replay is to make the cache, and only that one.
LEMMA RunCacheIs ==
    ASSUME NEW c
    PROVE  /\ RunCache(c) # << >> /\ Head(RunCache(c)) = Do("make", c)
           /\ Tail(RunCache(c)) \in Seq({Do("request", c)})
           /\ Contains(RunCache(c), Do("make", c))
<1> DEFINE b == [i \in 1 .. Requests |-> Do("request", c)]
           k == Do("make", c)
           S == {k, Do("request", c)}
<1>1. b \in Seq({Do("request", c)}) /\ b \in Seq(S) /\ k \in S
  BY CacheAssumption
<1>2. RunCache(c) = << k >> \o b
  BY DEF RunCache
<1> HIDE DEF b, k, S
<1>3. /\ << k >> \o b # << >> /\ Head(<< k >> \o b) = k
      /\ Tail(<< k >> \o b) = b
      /\ Contains(<< k >> \o b, k)
  BY <1>1, ConsIs
<1> QED BY <1>1, <1>2, <1>3 DEF k

LEMMA CacheStepReplay == ASSUME Inv, CacheStep PROVE ReplayInv'
<1>1. /\ run # Nil /\ run.at = "process" /\ kind = "cache" /\ todo # << >>
      /\ todo' = Tail(todo) /\ kind' = kind /\ case' = case /\ run' = run
  BY DEF CacheStep, At, runner
<1>2. ReplayInv /\ case \in CacheCases
  BY <1>1 DEF Inv, ReplayInv
<1>3. /\ Do("make", case).op = "make" /\ Do("request", case).op = "request"
      /\ Do("request", case).arg = case
  BY DEF Do
<1>4. CASE todo = RunCache(case)
  <2>1. Head(todo) = Do("make", case) /\ todo' \in Seq({Do("request", case)})
    BY <1>1, <1>4, RunCacheIs
  <2>2. Make
    BY <1>3, <2>1 DEF CacheStep
  <2>3. AskedInv'
    BY <1>1, <2>2, MakeStep
  <2> QED BY <1>1, <1>2, <2>1, <2>3 DEF ReplayInv
<1>5. CASE todo \in Seq({Do("request", case)}) /\ AskedInv
  <2>1. Head(todo) = Do("request", case) /\ todo' \in Seq({Do("request", case)})
    BY <1>1, <1>5
  <2>2. \E t \in Text : Request1(case.backend,
                Key(t, VersionAt(Requests - Len(todo), case.invalidate)))
    BY <1>3, <2>1 DEF CacheStep
  <2>3. PICK k \in Keys : Request1(case.backend, k)
    BY <2>2 DEF Keys, Key, VersionAt
  <2>4. AskedInv'
    BY <1>1, <1>5, <2>3, RequestStep
  <2> QED BY <1>1, <1>2, <2>1, <2>4 DEF ReplayInv
<1> QED BY <1>1, <1>2, <1>4, <1>5 DEF ReplayInv

LEMMA RedisStepReplay == ASSUME Inv, RedisStep PROVE ReplayInv'
<1>1. /\ run # Nil /\ run.at = "process" /\ kind = "cache"
      /\ case.backend = "redis" /\ RedisEvicts
      /\ todo' = todo /\ kind' = kind /\ case' = case /\ run' = run
  BY DEF RedisStep, At, runner, bench
<1>2. ReplayInv
  BY DEF Inv
<1>3. AskedInv => AskedInv'
  BY <1>1, EvictStep
<1> QED BY <1>1, <1>2, <1>3 DEF ReplayInv, RunCache

\* The runner itself starts a replay or finds it at its end.
LEMMA RunnerStepReplay == ASSUME Inv, RunnerStep PROVE ReplayInv'
<1>1. /\ ReplayInv /\ RunsInv /\ kind' = kind /\ case' = case
      /\ UNCHANGED cacheVars
  BY DEF Inv, RunnerStep, Begin, OpenOut, FillOut, EndSession, Collect,
         OpenResult, FillResult
<1>2. SUFFICES ASSUME kind = "cache" PROVE ReplayInv'
  BY <1>1, ReplayElsewhere
<1>3. case \in CacheCases /\ Program(case) = RunCache(case) /\ case' \in CacheCases'
  <2>1. case \in CacheCases /\ case.prog = "cache"
    BY <1>1, <1>2, CaseFacts DEF RunsInv
  <2> QED BY <1>1, <2>1 DEF Program, CacheCases
<1>4. CASE Begin
  <2>1. run'.at = "process" /\ todo' = RunCache(case)
    BY <1>3, <1>4 DEF Begin, Process
  <2> QED BY <1>1, <1>3, <2>1 DEF ReplayInv, RunCache
<1>5. CASE OpenOut
  <2>1. /\ run # Nil /\ todo = << >> /\ todo' = todo
        /\ run' = [run EXCEPT !.at = "writing"]
    BY <1>5 DEF OpenOut, At, bench
  <2>2. todo # RunCache(case)
    BY <2>1, RunCacheIs
  <2>3. AskedInv'
    BY <1>1, <1>2, <2>1, <2>2, AskedSame DEF ReplayInv
  <2>4. todo' \in Seq({Do("request", case)'})
    BY <2>1
  <2> QED BY <1>1, <1>3, <2>1, <2>3, <2>4 DEF ReplayInv
<1>6. CASE FillOut \/ OpenResult
  <2>1. /\ run # Nil /\ run.at # "process" /\ todo' = todo
    BY <1>6 DEF FillOut, OpenResult, At, bench
  <2>2. todo = << >> /\ AskedInv
    BY <1>1, <1>2, <2>1 DEF ReplayInv
  <2>3. AskedInv'
    BY <1>1, <2>2, AskedSame
  <2>4. todo' \in Seq({Do("request", case)'})
    BY <2>1, <2>2
  <2> QED BY <1>1, <1>3, <2>1, <2>2, <2>3, <2>4 DEF ReplayInv
<1>7. CASE Collect
  <2>1. run # Nil /\ run.at = "exited"
    BY <1>7 DEF Collect, At
  <2>2. AskedInv
    BY <1>1, <1>2, <2>1 DEF ReplayInv
  <2>3. AskedInv'
    BY <1>1, <2>2, AskedSame
  <2>4. \/ run'.at = "process" /\ todo' = RunCache(case)
        \/ todo' = << >>
    BY <1>3, <1>7 DEF Collect, Process
  <2>5. RunCache(case)' = RunCache(case)
    BY <1>1 DEF RunCache
  <2>6. << >> \in Seq({Do("request", case)'})
    OBVIOUS
  <2> QED BY <1>1, <1>3, <2>3, <2>4, <2>5, <2>6 DEF ReplayInv
<1>8. CASE EndSession \/ FillResult
  BY <1>1, <1>8, ReplayOver DEF EndSession, FillResult
<1> QED BY <1>4, <1>5, <1>6, <1>7, <1>8 DEF RunnerStep

LEMMA NextHolds == ASSUME Inv, [Next]_vars PROVE Inv'
<1>1. RunsInv /\ ReplayInv /\ MedianKept
  BY DEF Inv
<1>2. CASE RunnerStep
  <2>1. CASE EndSession
    <3>1. run' = Nil /\ kind' = kind /\ case' = case /\ tmp' = tmp
          /\ result' = result
      BY <2>1 DEF EndSession
    <3> QED BY <1>1, <1>2, <3>1, RunsOver, MedianSame, RunnerStepReplay DEF Inv
  <2> QED BY <1>2, <2>1, BeginStep, OpenOutStep, FillOutStep, CollectStep,
             OpenResultStep, FillResultStep, RunnerStepReplay
          DEF RunnerStep, Inv
<1>3. ASSUME DbStep \/ ServerStep \/ CacheStep \/ RedisStep
      PROVE  RunsInv' /\ MedianKept'
  <2>1. UNCHANGED <<kind, case, runner>>
    BY <1>3 DEF DbStep, ServerStep, CacheStep, RedisStep
  <2> QED BY <1>1, <2>1, RunsSame, MedianSame DEF runner
<1>4. CASE DbStep \/ ServerStep
  <2>1. kind # "cache" /\ kind' = kind
    BY <1>4 DEF DbStep, ServerStep
  <2> QED BY <1>3, <1>4, <2>1, ReplayElsewhere DEF Inv
<1>5. CASE CacheStep
  BY <1>3, <1>5, CacheStepReplay DEF Inv
<1>6. CASE RedisStep
  BY <1>3, <1>6, RedisStepReplay DEF Inv
<1>7. CASE ProcessFails \/ Kill
  <2>1. run' = Nil /\ kind' = kind /\ case' = case /\ tmp' = tmp
        /\ result' = result
    BY <1>7 DEF ProcessFails, Kill, AfterFailure, CodeNotZero
  <2> QED BY <1>1, <2>1, RunsOver, MedianSame, ReplayOver DEF Inv
<1>8. CASE UNCHANGED vars
  <2>1. /\ UNCHANGED <<kind, case, runner>> /\ UNCHANGED cacheVars
        /\ todo' = todo /\ run' = run /\ result' = result
    BY <1>8 DEF vars, runner, bench
  <2> QED BY <1>1, <2>1, RunsSame, MedianSame, ReplaySame DEF Inv
<1> QED BY <1>2, <1>4, <1>5, <1>6, <1>7, <1>8 DEF Next, SessionStep

LEMMA Always == Spec => []Inv
<1>1. Init => Inv
  BY InitHolds DEF Inv
<1>2. Inv /\ [Next]_vars => Inv'
  BY NextHolds
<1> QED BY <1>1, <1>2, PTL DEF Spec

\* Whatever session is killed or fails, and whatever files it leaves, a result
\* in results/raw is the median of as many runs as the case has, all of one
\* session.
THEOREM ResultIsMedian == Spec => []MedianKept
<1>1. Inv => MedianKept
  BY DEF Inv
<1> QED BY <1>1, Always, PTL

\* At every point of a replay the LRU of cache.py holds the keys asked last,
\* as many as it has room for; no backend holds a key that this replay did
\* not ask for, and what it put and no longer holds is counted as evicted.
THEOREM CachesHold == Spec => []CacheHolds
<1>1. Inv => CacheHolds
  <2>1. SUFFICES ASSUME Inv, kind = "cache", run # Nil,
                        ~Contains(todo, Do("make", case))
                 PROVE  CacheHolds
    BY DEF CacheHolds
  <2>2. case.backend \in {"none", "lru", "redis"}
    BY <2>1, CaseFacts DEF Inv, RunsInv
  <2>3. AskedInv
    BY <2>1, RunCacheIs DEF Inv, ReplayInv
  <2> QED BY <2>2, <2>3 DEF AskedInv, CacheHolds, Cached, Recent, Kept
<1> QED BY <1>1, Always, PTL


-----------------------------------------------------------------------------
(* Programs, step by step.                                                 *)

IsSeq(s) == s \in Seq({s[i] : i \in 1 .. Len(s)})

First(s, R) == << s >> \o R

LEMMA SeqIs ==
    ASSUME NEW S, NEW s \in Seq(S)
    PROVE  IsSeq(s)
<1> DEFINE T == {s[i] : i \in 1 .. Len(s)}
           n == Len(s)
<1>1. /\ s \in [1 .. n -> S] /\ n \in Nat
  OBVIOUS
<1>2. \A i \in 1 .. n : s[i] \in T
  OBVIOUS
<1> HIDE DEF T, n
<1>3. s \in [1 .. n -> T]
  BY <1>1, <1>2
<1>4. s \in Seq(T)
  BY <1>1, <1>3
<1> QED BY <1>4 DEF IsSeq, T, n

LEMMA JoinIs ==
    ASSUME NEW a, NEW b, IsSeq(a), IsSeq(b)
    PROVE  IsSeq(a \o b)
<1> DEFINE S == {a[i] : i \in 1 .. Len(a)} \cup {b[i] : i \in 1 .. Len(b)}
<1>1. a \in Seq(S) /\ b \in Seq(S)
  <2>1. /\ {a[i] : i \in 1 .. Len(a)} \subseteq S
        /\ {b[i] : i \in 1 .. Len(b)} \subseteq S
    OBVIOUS
  <2> HIDE DEF S
  <2> QED BY <2>1, SeqMonotonic DEF IsSeq
<1> HIDE DEF S
<1> QED BY <1>1, SeqIs, ConcatProperties

LEMMA JoinAgain ==
    ASSUME NEW a, NEW b, NEW c, IsSeq(a), IsSeq(b), IsSeq(c)
    PROVE  (a \o b) \o c = a \o (b \o c)
<1> DEFINE A == {a[i] : i \in 1 .. Len(a)}
           B == {b[i] : i \in 1 .. Len(b)}
           C == {c[i] : i \in 1 .. Len(c)}
           S == A \cup B \cup C
<1>1. a \in Seq(S) /\ b \in Seq(S) /\ c \in Seq(S)
  <2>1. a \in Seq(A) /\ b \in Seq(B) /\ c \in Seq(C)
    BY DEF IsSeq
  <2>2. A \subseteq S /\ B \subseteq S /\ C \subseteq S
    OBVIOUS
  <2> HIDE DEF A, B, C, S
  <2> QED BY <2>1, <2>2, SeqMonotonic
<1> HIDE DEF S
<1> QED BY <1>1, ConcatAssociative

LEMMA JoinFour ==
    ASSUME NEW a, NEW b, NEW c, NEW d,
           IsSeq(a), IsSeq(b), IsSeq(c), IsSeq(d)
    PROVE  /\ IsSeq((a \o b) \o c)
           /\ ((a \o b) \o c) \o d = a \o (b \o (c \o d))
<1> DEFINE ab == a \o b
           cd == c \o d
<1>1. IsSeq(ab) /\ IsSeq(cd)
  BY JoinIs
<1>2. ab \o cd = a \o (b \o cd)
  <2>1. IsSeq(a) /\ IsSeq(b) /\ IsSeq(cd)
    BY <1>1
  <2> HIDE DEF cd
  <2>2. (a \o b) \o cd = a \o (b \o cd)
    BY <2>1, JoinAgain
  <2> QED BY <2>2
<1> HIDE DEF ab, cd
<1>3. IsSeq(ab \o c)
  BY <1>1, JoinIs
<1>4. (ab \o c) \o d = ab \o (c \o d)
  BY <1>1, JoinAgain
<1> QED BY <1>2, <1>3, <1>4 DEF ab, cd

LEMMA OneIs == ASSUME NEW s PROVE IsSeq(<< s >>)
<1>1. << s >> \in Seq({s})
  OBVIOUS
<1> QED BY <1>1, SeqIs

LEMMA NoneIs == IsSeq(<< >>) /\ \A a : IsSeq(a) => a \o << >> = a /\ << >> \o a = a
<1>1. << >> \in Seq({})
  OBVIOUS
<1>2. ASSUME NEW a, IsSeq(a) PROVE a \o << >> = a /\ << >> \o a = a
  BY <1>2, ConcatEmptySeq DEF IsSeq
<1> QED BY <1>1, <1>2, SeqIs

LEMMA FirstIs ==
    ASSUME NEW s, NEW R, IsSeq(R)
    PROVE  /\ IsSeq(First(s, R)) /\ First(s, R) # << >>
           /\ Head(First(s, R)) = s /\ Tail(First(s, R)) = R
<1> DEFINE T == {R[i] : i \in 1 .. Len(R)}
           S == {s} \cup T
<1>1. R \in Seq(S) /\ s \in S
  <2>1. R \in Seq(T) /\ T \subseteq S /\ s \in S
    BY DEF IsSeq
  <2> HIDE DEF S, T
  <2> QED BY <2>1, SeqMonotonic
<1> HIDE DEF S
<1>2. /\ First(s, R) # << >> /\ Head(First(s, R)) = s /\ Tail(First(s, R)) = R
  BY <1>1, ConsIs DEF First
<1> QED BY <1>2, OneIs, JoinIs DEF First

\* The steps of a call, one by one before the rest.
LEMMA Joins ==
    ASSUME NEW R, IsSeq(R)
    PROVE  /\ \A a : IsSeq(<< a >>) /\ << a >> \o R = First(a, R)
           /\ \A a, b : /\ IsSeq(<< a, b >>)
                        /\ << a, b >> \o R = First(a, First(b, R))
           /\ \A a, b, c : /\ IsSeq(<< a, b, c >>)
                           /\ << a, b, c >> \o R = First(a, First(b, First(c, R)))
           /\ \A a, b, c, d :
                 /\ IsSeq(<< a, b, c, d >>)
                 /\ << a, b, c, d >> \o R = First(a, First(b, First(c, First(d, R))))
<1>1. \A a : IsSeq(<< a >>)
  BY OneIs
<1>2. ASSUME NEW a, NEW b PROVE << a, b >> = << a >> \o << b >>
  <2> DEFINE s == << a >> \o << b >>
             t == << a, b >>
             S == {a, b}
  <2>1. s \in Seq(S) /\ t \in Seq(S) /\ Len(s) = 2 /\ Len(t) = 2
    OBVIOUS
  <2>2. s[1] = t[1] /\ s[2] = t[2]
    OBVIOUS
  <2> HIDE DEF s, t, S
  <2>3. \A i \in 1 .. Len(s) : s[i] = t[i]
    BY <2>1, <2>2
  <2>4. s = t
    BY <2>1, <2>3, SeqEqual
  <2> QED BY <2>4 DEF s, t
<1>3. ASSUME NEW a, NEW b, NEW c PROVE << a, b, c >> = << a >> \o << b, c >>
  <2> DEFINE s == << a >> \o << b, c >>
             t == << a, b, c >>
             S == {a, b, c}
  <2>1. s \in Seq(S) /\ t \in Seq(S) /\ Len(s) = 3 /\ Len(t) = 3
    OBVIOUS
  <2>2. s[1] = t[1] /\ s[2] = t[2] /\ s[3] = t[3]
    OBVIOUS
  <2> HIDE DEF s, t, S
  <2>3. \A i \in 1 .. Len(s) : s[i] = t[i]
    BY <2>1, <2>2
  <2>4. s = t
    BY <2>1, <2>3, SeqEqual
  <2> QED BY <2>4 DEF s, t
<1>4. ASSUME NEW a, NEW b, NEW c, NEW d
      PROVE  << a, b, c, d >> = << a >> \o << b, c, d >>
  <2> DEFINE s == << a >> \o << b, c, d >>
             t == << a, b, c, d >>
             S == {a, b, c, d}
  <2>1. s \in Seq(S) /\ t \in Seq(S) /\ Len(s) = 4 /\ Len(t) = 4
    OBVIOUS
  <2>2. s[1] = t[1] /\ s[2] = t[2]
    OBVIOUS
  <2>3. s[3] = t[3] /\ s[4] = t[4]
    OBVIOUS
  <2> HIDE DEF s, t, S
  <2>4. \A i \in 1 .. Len(s) : s[i] = t[i]
    BY <2>1, <2>2, <2>3
  <2>5. s = t
    BY <2>1, <2>4, SeqEqual
  <2> QED BY <2>5 DEF s, t
<1>5. ASSUME NEW a, NEW b
      PROVE  IsSeq(<< a, b >>) /\ << a, b >> \o R = First(a, First(b, R))
  <2>1. (<< a >> \o << b >>) \o R = << a >> \o (<< b >> \o R)
    BY <1>1, JoinAgain
  <2>2. IsSeq(<< a >> \o << b >>)
    BY <1>1, JoinIs
  <2> QED BY <1>2, <2>1, <2>2 DEF First
<1>6. ASSUME NEW a, NEW b, NEW c
      PROVE  /\ IsSeq(<< a, b, c >>)
             /\ << a, b, c >> \o R = First(a, First(b, First(c, R)))
  <2>1. (<< a >> \o << b, c >>) \o R = << a >> \o (<< b, c >> \o R)
    BY <1>1, <1>5, JoinAgain
  <2>2. IsSeq(<< a >> \o << b, c >>)
    BY <1>1, <1>5, JoinIs
  <2>3. << b, c >> \o R = First(b, First(c, R))
    BY <1>5
  <2> QED BY <1>3, <2>1, <2>2, <2>3 DEF First
<1>7. ASSUME NEW a, NEW b, NEW c, NEW d
      PROVE  /\ << a, b, c, d >> \o R = First(a, First(b, First(c, First(d, R))))
             /\ IsSeq(<< a, b, c, d >>)
  <2>1. (<< a >> \o << b, c, d >>) \o R = << a >> \o (<< b, c, d >> \o R)
    BY <1>1, <1>6, JoinAgain
  <2>2. IsSeq(<< a >> \o << b, c, d >>)
    BY <1>1, <1>6, JoinIs
  <2>3. << b, c, d >> \o R = First(b, First(c, First(d, R)))
    BY <1>6
  <2> QED BY <1>4, <2>1, <2>2, <2>3 DEF First
<1>8. \A a : << a >> \o R = First(a, R)
  BY DEF First
<1> QED BY <1>1, <1>5, <1>6, <1>7, <1>8

-----------------------------------------------------------------------------
(* Rows in batches.                                                        *)

\* R puts the members of S in order.
Orders(R, S) ==
    /\ \A x \in S : <<x, x>> \notin R
    /\ \A x, y \in S : x = y \/ <<x, y>> \in R \/ <<y, x>> \in R
    /\ \A x, y, z \in S : <<x, y>> \in R /\ <<y, z>> \in R => <<x, z>> \in R

RankIn(R, S, x) == Cardinality({y \in S : <<y, x>> \in R})

\* No two members have the same rank, so every rank below the size is taken.
LEMMA RankTaken ==
    ASSUME NEW S, IsFiniteSet(S), NEW R, Orders(R, S)
    PROVE  /\ Cardinality(S) \in Nat
           /\ \A x \in S : RankIn(R, S, x) \in 0 .. Cardinality(S) - 1
           /\ \A x, z \in S :
                 RankIn(R, S, x) < RankIn(R, S, z) <=> <<x, z>> \in R
           /\ \A x, z \in S : RankIn(R, S, x) = RankIn(R, S, z) => x = z
           /\ \A i \in 0 .. Cardinality(S) - 1 :
                 \E x \in S : RankIn(R, S, x) = i
<1> DEFINE Below(x) == {y \in S : <<y, x>> \in R}
           Rank(x) == RankIn(R, S, x)
           c == Cardinality(S)
<1>1. c \in Nat
  BY FS_CardinalityType
<1>2. ASSUME NEW x \in S
      PROVE  IsFiniteSet(Below(x)) /\ Rank(x) = Cardinality(Below(x))
             /\ Rank(x) \in 0 .. c - 1
  <2>1. Below(x) \in SUBSET S /\ x \notin Below(x)
    BY DEF Orders
  <2>2. Rank(x) = Cardinality(Below(x))
    BY DEF RankIn
  <2> HIDE DEF Below
  <2>3. /\ IsFiniteSet(Below(x)) /\ Cardinality(Below(x)) <= c
        /\ (c = Cardinality(Below(x)) => S = Below(x))
    BY <2>1, FS_Subset
  <2>4. Cardinality(Below(x)) \in Nat
    BY <2>3, FS_CardinalityType
  <2>5. Cardinality(Below(x)) # c
    BY <2>1, <2>3
  <2> HIDE DEF Rank
  <2> QED BY <1>1, <2>2, <2>3, <2>4, <2>5
<1>3. ASSUME NEW x \in S, NEW z \in S, <<x, z>> \in R PROVE Rank(x) < Rank(z)
  <2>1. Below(x) \in SUBSET Below(z) /\ x \in Below(z) /\ x \notin Below(x)
    <3>1. \A y \in S : <<y, x>> \in R => <<y, z>> \in R
      BY <1>3 DEF Orders
    <3>2. <<x, x>> \notin R
      BY DEF Orders
    <3> QED BY <3>1, <3>2, <1>3
  <2>2. /\ IsFiniteSet(Below(z)) /\ Rank(z) \in Int /\ Rank(x) \in Int
        /\ Rank(x) = Cardinality(Below(x)) /\ Rank(z) = Cardinality(Below(z))
    <3> HIDE DEF Below, Rank, c
    <3> QED BY <1>2, <1>1
  <2> HIDE DEF Below
  <2>3. /\ Cardinality(Below(x)) <= Cardinality(Below(z))
        /\ (Cardinality(Below(z)) = Cardinality(Below(x)) => Below(z) = Below(x))
    BY <2>1, <2>2, FS_Subset
  <2> HIDE DEF Rank
  <2> QED BY <2>1, <2>2, <2>3
<1>4. \A x, z \in S : x = z \/ <<x, z>> \in R \/ <<z, x>> \in R
  BY DEF Orders
<1>5. \A x, z \in S : Rank(x) < Rank(z) => <<x, z>> \in R
  <2> TAKE x, z \in S
  <2> HAVE Rank(x) < Rank(z)
  <2>1. Rank(x) \in 0 .. c - 1 /\ Rank(z) \in 0 .. c - 1
    BY <1>2
  <2> HIDE DEF Rank, c
  <2>2. ~ <<z, x>> \in R
    <3> SUFFICES ASSUME <<z, x>> \in R PROVE FALSE
      OBVIOUS
    <3>1. Rank(z) < Rank(x)
      BY <1>3
    <3> QED BY <2>1, <3>1
  <2>3. x # z
    BY <2>1
  <2> QED BY <1>4, <2>2, <2>3
<1>6. \A x, z \in S : Rank(x) = Rank(z) => x = z
  <2> TAKE x, z \in S
  <2> HAVE Rank(x) = Rank(z)
  <2>1. Rank(x) \in 0 .. c - 1 /\ Rank(z) \in 0 .. c - 1
    BY <1>2
  <2> HIDE DEF Rank, c
  <2>2. ~ (Rank(x) < Rank(z)) /\ ~ (Rank(z) < Rank(x))
    BY <2>1
  <2> QED BY <1>3, <1>4, <2>2
<1> DEFINE f == [x \in S |-> Rank(x)]
<1>7. f \in [S -> 0 .. c - 1]
  <2> HIDE DEF Rank, c
  <2> QED BY <1>2
<1>8. f \in Injection(S, 0 .. c - 1)
  <2>1. \A x, z \in S : f[x] = f[z] => x = z
    <3> HIDE DEF Rank
    <3> QED BY <1>6
  <2> HIDE DEF f
  <2> QED BY <1>7, <2>1 DEF Injection, IsInjective
<1>9. IsFiniteSet(0 .. c - 1) /\ Cardinality(0 .. c - 1) = c
  <2> HIDE DEF c
  <2> QED BY <1>1, FS_Interval
<1>10. f \in Surjection(S, 0 .. c - 1)
  <2>1. c = Cardinality(S)
    OBVIOUS
  <2> HIDE DEF f, c
  <2> QED BY <1>8, <1>9, <2>1, FS_Injection
<1>11. \A i \in 0 .. c - 1 : \E x \in S : Rank(x) = i
  <2>1. \A i \in 0 .. c - 1 : \E x \in S : f[x] = i
    <3> HIDE DEF f, c
    <3> QED BY <1>10 DEF Surjection
  <2> HIDE DEF Rank, c
  <2> QED BY <2>1
<1>12. \A x \in S : Rank(x) \in 0 .. c - 1
  BY <1>2
<1>13. \A x, z \in S : Rank(x) < Rank(z) <=> <<x, z>> \in R
  <2> HIDE DEF Rank
  <2> QED BY <1>3, <1>5
<1> HIDE DEF Rank, c
<1> QED BY <1>1, <1>6, <1>11, <1>12, <1>13 DEF Rank, c

\* The batches are the rows one by one.
LEMMA BatchesAre ==
    ASSUME NEW S \in SUBSET Row
    PROVE  /\ IsFiniteSet(S) /\ Cardinality(S) \in Nat
           /\ IsSeq(Batches(S)) /\ Len(Batches(S)) = Cardinality(S)
           /\ \A i \in 1 .. Cardinality(S) : \E r \in S : Batches(S)[i] = {r}
           /\ \A r \in S : \E i \in 1 .. Cardinality(S) : Batches(S)[i] = {r}
           /\ \A i, j \in 1 .. Cardinality(S) :
                 Batches(S)[i] = Batches(S)[j] => i = j
<1> DEFINE R == {p \in Row \X Row : p[1] < p[2]}
           m == Cardinality(S)
           At1(i) == CHOOSE r \in S : Cardinality({x \in S : x < r}) = i - 1
<1>1. IsFiniteSet(S) /\ m \in Nat /\ S \subseteq Nat
  BY BenchAssumption, FS_Subset, FS_CardinalityType
<1>2. \A a, b \in S : <<a, b>> \in R <=> a < b
  OBVIOUS
<1>3. Orders(R, S)
  <2> HIDE DEF R, m
  <2> QED BY <1>1, <1>2 DEF Orders
<1>4. \A a \in S : RankIn(R, S, a) = Cardinality({x \in S : x < a})
  <2> TAKE a \in S
  <2>1. {x \in S : <<x, a>> \in R} = {x \in S : x < a}
    <3> HIDE DEF R
    <3> QED BY <1>2
  <2> QED BY <2>1 DEF RankIn
<1>5. /\ \A a \in S : RankIn(R, S, a) \in 0 .. m - 1
      /\ \A a, b \in S : RankIn(R, S, a) = RankIn(R, S, b) => a = b
      /\ \A i \in 0 .. m - 1 : \E a \in S : RankIn(R, S, a) = i
  <2> HIDE DEF R
  <2>1. \A a \in S : RankIn(R, S, a) \in 0 .. Cardinality(S) - 1
    BY <1>1, <1>3, RankTaken
  <2>2. \A a, b \in S : RankIn(R, S, a) = RankIn(R, S, b) => a = b
    BY <1>1, <1>3, RankTaken
  <2>3. \A i \in 0 .. Cardinality(S) - 1 : \E a \in S : RankIn(R, S, a) = i
    <3> HIDE DEF m
    <3>1. IsFiniteSet(S) /\ Orders(R, S)
      BY <1>1, <1>3
    <3> QED BY <3>1, RankTaken
  <2> QED BY <2>1, <2>2, <2>3
<1>6. \A i \in 1 .. m : At1(i) \in S /\ RankIn(R, S, At1(i)) = i - 1
  <2> TAKE i \in 1 .. m
  <2>1. i - 1 \in 0 .. m - 1
    <3> HIDE DEF R, m
    <3> QED BY <1>1
  <2>2. \E r \in S : Cardinality({x \in S : x < r}) = i - 1
    <3> HIDE DEF R, m
    <3> QED BY <1>4, <1>5, <2>1
  <2>3. At1(i) \in S /\ Cardinality({x \in S : x < At1(i)}) = i - 1
    BY <2>2
  <2> HIDE DEF At1, R, m
  <2> QED BY <1>4, <2>3
<1>7. Batches(S) = [i \in 1 .. m |-> {At1(i)}]
  BY DEF Batches
<1> HIDE DEF At1, R, m
<1>8. Batches(S) \in Seq(SUBSET S) /\ Len(Batches(S)) = m
  <2>1. [i \in 1 .. m |-> {At1(i)}] \in [1 .. m -> SUBSET S]
    BY <1>6
  <2> QED BY <1>1, <1>7, <2>1
<1>9. \A i \in 1 .. m : Batches(S)[i] = {At1(i)}
  BY <1>7
<1>10. \A i \in 1 .. m : \E r \in S : Batches(S)[i] = {r}
  BY <1>6, <1>9
<1>11. \A r \in S : \E i \in 1 .. m : Batches(S)[i] = {r}
  <2> TAKE r \in S
  <2> DEFINE i == RankIn(R, S, r) + 1
  <2>1. i \in 1 .. m /\ RankIn(R, S, r) = i - 1
    BY <1>1, <1>5
  <2> HIDE DEF i
  <2>2. At1(i) = r
    BY <1>5, <1>6, <2>1
  <2> QED BY <1>9, <2>1, <2>2
<1>12. ASSUME NEW i \in 1 .. m, NEW j \in 1 .. m, Batches(S)[i] = Batches(S)[j]
       PROVE  i = j
  <2>1. At1(i) = At1(j)
    BY <1>9, <1>12
  <2>2. i - 1 = j - 1
    BY <1>6, <2>1
  <2> QED BY <1>1, <2>2
<1> QED BY <1>1, <1>8, <1>10, <1>11, <1>12, SeqIs DEF m

\* The rows of the first k batches.
Done(S, k) == {r \in S : \E j \in 1 .. k : Batches(S)[j] = {r}}

LEMMA DoneIs ==
    ASSUME NEW S \in SUBSET Row
    PROVE  /\ Done(S, 0) = {} /\ Done(S, Cardinality(S)) = S
           /\ \A k \in 0 .. Cardinality(S) : Done(S, k) \subseteq S
           /\ \A k \in 0 .. Cardinality(S) : k # Cardinality(S) =>
                 /\ k + 1 \in 0 .. Cardinality(S)
                 /\ \E r \in S : /\ r \notin Done(S, k)
                                 /\ Batches(S)[k + 1] = {r}
                                 /\ Done(S, k + 1) = Done(S, k) \cup {r}
<1> DEFINE m == Cardinality(S)
           B == Batches(S)
<1>1. /\ m \in Nat
      /\ \A i \in 1 .. m : \E r \in S : B[i] = {r}
      /\ \A r \in S : \E i \in 1 .. m : B[i] = {r}
      /\ \A i, j \in 1 .. m : B[i] = B[j] => i = j
  BY BatchesAre
<1>2. \A k : Done(S, k) = {r \in S : \E j \in 1 .. k : B[j] = {r}}
  BY DEF Done
<1> HIDE DEF m, B
<1>3. Done(S, 0) = {}
  BY <1>2
<1>4. \A k \in 0 .. m : Done(S, k) \subseteq S
  BY <1>2
<1>5. Done(S, m) = S
  BY <1>1, <1>2
<1>6. ASSUME NEW k \in 0 .. m, k # m
      PROVE  /\ k + 1 \in 0 .. m
             /\ \E r \in S : /\ r \notin Done(S, k) /\ B[k + 1] = {r}
                             /\ Done(S, k + 1) = Done(S, k) \cup {r}
  <2>1. k + 1 \in 1 .. m /\ k + 1 \in 0 .. m
    BY <1>1, <1>6
  <2>2. PICK r \in S : B[k + 1] = {r}
    BY <1>1, <2>1
  <2>3. r \notin Done(S, k)
    <3> SUFFICES ASSUME r \in Done(S, k) PROVE FALSE
      OBVIOUS
    <3>1. PICK j \in 1 .. k : B[j] = {r}
      BY <1>2
    <3>2. j \in 1 .. m /\ j # k + 1
      BY <1>1
    <3> QED BY <1>1, <2>1, <2>2, <3>1, <3>2
  <2>4. \A j : j \in 1 .. k + 1 <=> j \in 1 .. k \/ j = k + 1
    BY <1>1
  <2>5. \A x \in S : x \in Done(S, k + 1) <=> x \in Done(S, k) \/ x = r
    <3> TAKE x \in S
    <3>1. x \in Done(S, k + 1) <=> \E j \in 1 .. k + 1 : B[j] = {x}
      BY <1>2
    <3>2. x \in Done(S, k) <=> \E j \in 1 .. k : B[j] = {x}
      BY <1>2
    <3>3. B[k + 1] = {x} <=> x = r
      BY <2>2
    <3> QED BY <2>4, <3>1, <3>2, <3>3
  <2>6. Done(S, k + 1) \subseteq S /\ Done(S, k) \subseteq S
    BY <1>2
  <2>7. Done(S, k + 1) = Done(S, k) \cup {r}
    BY <2>5, <2>6
  <2> QED BY <2>1, <2>2, <2>3, <2>7
<1> QED BY <1>3, <1>4, <1>5, <1>6 DEF m, B

\* What is left of f after k steps of it.
From(f, k) == [j \in 1 .. Len(f) - k |-> f[k + j]]

\* And then the steps R.
Left(f, k, R) == From(f, k) \o R

LEMMA FromIs ==
    ASSUME NEW f, IsSeq(f), NEW R, IsSeq(R), NEW k \in 0 .. Len(f)
    PROVE  /\ Len(f) \in Nat /\ 0 \in 0 .. Len(f)
           /\ IsSeq(Left(f, k, R))
           /\ \A n \in 1 .. Len(f) : n = k + 1 =>
                 Left(f, k, R) = First(f[n], Left(f, n, R))
           /\ k = Len(f) => Left(f, k, R) = R
           /\ Left(f, 0, R) = f \o R
<1> DEFINE m == Len(f)
           E == {f[i] : i \in 1 .. m}
           p(i) == From(f, i)
<1>1. m \in Nat /\ f \in Seq(E) /\ k \in 0 .. m
  BY DEF IsSeq
<1>2. ASSUME NEW i \in 0 .. m
      PROVE  p(i) = [j \in 1 .. m - i |-> f[i + j]] /\ IsSeq(p(i))
             /\ p(i) \in Seq(E) /\ Len(p(i)) = m - i
  <2>1. p(i) = [j \in 1 .. m - i |-> f[i + j]]
    BY DEF From
  <2>2. \A j \in 1 .. m - i : i + j \in 1 .. m
    BY <1>1
  <2>3. \A j \in 1 .. m : f[j] \in E
    OBVIOUS
  <2> HIDE DEF E, p, m
  <2>4. p(i) \in [1 .. m - i -> E]
    BY <2>1, <2>2, <2>3
  <2>5. m - i \in Nat
    BY <1>1
  <2>6. p(i) \in Seq(E) /\ Len(p(i)) = m - i
    <3> DEFINE x == p(i)
               y == m - i
    <3> HIDE DEF x, y
    <3>1. x \in [1 .. y -> E] /\ y \in Nat
      BY <2>4, <2>5 DEF x, y
    <3>2. x \in Seq(E) /\ Len(x) = y
      BY <3>1
    <3> QED BY <3>2 DEF x, y
  <2> QED BY <2>1, <2>6, SeqIs
<1>3. ASSUME k # m PROVE p(k) = << f[k + 1] >> \o p(k + 1)
  <2> DEFINE s == << f[k + 1] >> \o p(k + 1)
  <2>1. k + 1 \in 0 .. m /\ k + 1 \in 1 .. m
    BY <1>1, <1>3
  <2>2. f[k + 1] \in E
    BY <2>1
  <2> HIDE DEF E, p, m
  <2>3. p(k + 1) \in Seq(E) /\ Len(p(k + 1)) = m - (k + 1)
        /\ p(k + 1) = [j \in 1 .. m - (k + 1) |-> f[(k + 1) + j]]
    BY <1>2, <2>1
  <2>4. s \in Seq(E) /\ Len(s) = m - k /\ s[1] = f[k + 1]
        /\ \A j \in 1 .. m - (k + 1) : s[j + 1] = p(k + 1)[j]
    BY <1>1, <2>2, <2>3
  <2>5. p(k) \in Seq(E) /\ Len(p(k)) = m - k
        /\ p(k) = [j \in 1 .. m - k |-> f[k + j]]
    BY <1>1, <1>2
  <2> HIDE DEF s
  <2>6. ASSUME NEW j \in 1 .. Len(s) PROVE s[j] = p(k)[j]
    <3>1. CASE j = 1
      BY <1>1, <2>1, <2>4, <2>5, <3>1
    <3>2. CASE j # 1
      <4>1. j - 1 \in 1 .. m - (k + 1) /\ (j - 1) + 1 = j /\ (k + 1) + (j - 1) = k + j
        BY <1>1, <2>4, <3>2
      <4>2. s[j] = p(k + 1)[j - 1] /\ p(k + 1)[j - 1] = f[k + j]
        BY <2>3, <2>4, <4>1
      <4>3. p(k)[j] = f[k + j]
        BY <2>4, <2>5
      <4> QED BY <4>2, <4>3
    <3> QED BY <3>1, <3>2
  <2>7. s = p(k)
    BY <2>4, <2>5, <2>6, SeqEqual
  <2> QED BY <2>7 DEF s
<1>4. k = m => p(k) = << >>
  <2> HIDE DEF E, p, m
  <2> SUFFICES ASSUME k = m PROVE p(k) = << >>
    OBVIOUS
  <2>1. Len(p(k)) = 0 /\ p(k) \in Seq(E)
    BY <1>1, <1>2
  <2> QED BY <2>1
<1>5. From(f, 0) = f
  <2>1. p(0) \in Seq(E) /\ Len(p(0)) = m /\ p(0) = [j \in 1 .. m - 0 |-> f[0 + j]]
    <3> HIDE DEF E, p, m
    <3> QED BY <1>1, <1>2
  <2>2. \A j \in 1 .. m : p(0)[j] = f[j]
    <3> HIDE DEF p, E, m
    <3> QED BY <1>1, <2>1
  <2> HIDE DEF E
  <2>3. p(0) = f
    <3> HIDE DEF p
    <3> QED BY <1>1, <2>1, <2>2, SeqEqual
  <2> QED BY <2>3
<1>6. ASSUME k # m
      PROVE  /\ k + 1 \in 0 .. m /\ k + 1 \in 1 .. m
             /\ Left(f, k, R) = First(f[k + 1], Left(f, k + 1, R))
  <2>1. k + 1 \in 0 .. m /\ k + 1 \in 1 .. m
    BY <1>1, <1>6
  <2> HIDE DEF E, p, m
  <2>2. IsSeq(p(k + 1))
    BY <1>2, <2>1
  <2>3. (<< f[k + 1] >> \o p(k + 1)) \o R = << f[k + 1] >> \o (p(k + 1) \o R)
    BY <2>2, OneIs, JoinAgain
  <2>4. p(k) \o R = << f[k + 1] >> \o (p(k + 1) \o R)
    BY <1>3, <1>6, <2>3, Zenon
  <2>5. Left(f, k, R) = p(k) \o R /\ Left(f, k + 1, R) = p(k + 1) \o R
    BY DEF Left, p
  <2>6. Left(f, k, R) = First(f[k + 1], Left(f, k + 1, R))
    BY <2>4, <2>5, Zenon DEF First
  <2> QED BY <2>1, <2>6
<1>7. k = m => Left(f, k, R) = R
  <2>1. Left(f, k, R) = p(k) \o R
    BY DEF Left
  <2> HIDE DEF E, p, m
  <2> QED BY <1>4, <2>1, NoneIs
<1>8. IsSeq(Left(f, k, R))
  <2>1. IsSeq(p(k)) /\ Left(f, k, R) = p(k) \o R
    BY <1>2 DEF Left
  <2> HIDE DEF p
  <2>2. IsSeq(p(k) \o R)
    BY <2>1, JoinIs
  <2> QED BY <2>1, <2>2, Zenon
<1>9. ASSUME NEW n \in 1 .. m, n = k + 1
      PROVE  Left(f, k, R) = First(f[n], Left(f, n, R))
  <2>1. k # m
    BY <1>1, <1>9
  <2>2. Left(f, k, R) = First(f[k + 1], Left(f, k + 1, R))
    BY <1>6, <2>1
  <2> HIDE DEF p, m
  <2> QED BY <1>9, <2>2
<1>10. Left(f, 0, R) = f \o R
  BY <1>5, Zenon DEF Left
<1> QED BY <1>1, <1>7, <1>8, <1>9, <1>10

LEMMA FromNext ==
    ASSUME NEW f, IsSeq(f), NEW R, IsSeq(R), NEW k \in 0 .. Len(f), k # Len(f),
           NEW n, n = k + 1
    PROVE  /\ n \in 0 .. Len(f) /\ n \in 1 .. Len(f)
           /\ Left(f, k, R) = First(f[n], Left(f, n, R))
           /\ IsSeq(Left(f, n, R))
<1>1. Len(f) \in Nat
  BY FromIs
<1>2. n \in 0 .. Len(f) /\ n \in 1 .. Len(f)
  BY <1>1
<1>3. Left(f, k, R) = First(f[n], Left(f, n, R))
  BY <1>2, FromIs
<1>4. IsSeq(Left(f, n, R))
  BY <1>2, FromIs
<1> QED BY <1>2, <1>3, <1>4

\* The requests for the batches of S.
LEMMA CallsAre ==
    ASSUME NEW S \in SUBSET Row, NEW v
    PROVE  /\ IsSeq(PutAll(S, v)) /\ Len(PutAll(S, v)) = Cardinality(S)
           /\ \A i \in 1 .. Cardinality(S) :
                 PutAll(S, v)[i] = Do("put", Batches(S)[i] \X {v})
           /\ IsSeq(DeleteAll(S)) /\ Len(DeleteAll(S)) = Cardinality(S)
           /\ \A i \in 1 .. Cardinality(S) :
                 DeleteAll(S)[i] = Do("delete", Batches(S)[i])
<1>1. Cardinality(S) \in Nat
  BY BatchesAre
<1>2. ASSUME NEW f, f = [i \in 1 .. Cardinality(S) |-> f[i]]
      PROVE  IsSeq(f) /\ Len(f) = Cardinality(S)
  <2> DEFINE E == {f[i] : i \in 1 .. Cardinality(S)}
             m == Cardinality(S)
  <2>1. \A i \in 1 .. m : f[i] \in E
    OBVIOUS
  <2> HIDE DEF E, m
  <2>2. f \in [1 .. m -> E]
    BY <1>2, <2>1 DEF m
  <2>3. f \in Seq(E) /\ Len(f) = m
    BY <1>1, <2>2 DEF m
  <2> QED BY <2>3, SeqIs DEF m
<1> DEFINE a(i) == Do("put", Batches(S)[i] \X {v})
           b(i) == Do("delete", Batches(S)[i])
<1>3. /\ PutAll(S, v) = [i \in 1 .. Cardinality(S) |-> a(i)]
      /\ DeleteAll(S) = [i \in 1 .. Cardinality(S) |-> b(i)]
  BY DEF PutAll, DeleteAll
<1> HIDE DEF a, b
<1>4. /\ PutAll(S, v) = [i \in 1 .. Cardinality(S) |-> PutAll(S, v)[i]]
      /\ DeleteAll(S) = [i \in 1 .. Cardinality(S) |-> DeleteAll(S)[i]]
      /\ \A i \in 1 .. Cardinality(S) :
            PutAll(S, v)[i] = a(i) /\ DeleteAll(S)[i] = b(i)
  BY <1>3
<1>5. /\ IsSeq(PutAll(S, v)) /\ Len(PutAll(S, v)) = Cardinality(S)
      /\ IsSeq(DeleteAll(S)) /\ Len(DeleteAll(S)) = Cardinality(S)
  BY <1>2, <1>4
<1> QED BY <1>4, <1>5 DEF a, b

LEMMA RunSearchIs ==
    ASSUME NEW p
    PROVE  /\ IsSeq(RunSearch(p)) /\ Len(RunSearch(p)) = Cardinality(Queries)
           /\ \A i \in 1 .. Cardinality(Queries) :
                 RunSearch(p)[i] = Do("search", p)
<1> DEFINE d == Do("search", p)
           m == Cardinality(Queries)
<1>1. m \in Nat
  BY BenchAssumption
<1>2. RunSearch(p) = [i \in 1 .. m |-> d]
  BY DEF RunSearch
<1> HIDE DEF d, m
<1>3. RunSearch(p) \in Seq({d}) /\ Len(RunSearch(p)) = m
      /\ \A i \in 1 .. m : RunSearch(p)[i] = d
  BY <1>1, <1>2
<1> QED BY <1>3, SeqIs DEF d, m

-----------------------------------------------------------------------------
(* What the server does to a table.                                        *)

IsTable(d) ==
    d = [live |-> d.live, seen |-> d.seen, dead |-> d.dead, held |-> d.held,
         raw |-> d.raw, index |-> d.index, auto |-> d.auto, l0 |-> d.l0,
         disk |-> d.disk, gen |-> d.gen, loaded |-> d.loaded]

\* Live and dead versions of the table, and whether new ones are indexed: no
\* dead version goes away behind the client.
Table(L, D, index) ==
    /\ IsTable(db)
    /\ db.live = L /\ db.dead = D /\ db.held = D
    /\ db.auto = "off" \/ D = {}
    /\ db.index = index
    /\ kind = "pgvector" => db.raw = {}

LEMMA FreshIs ==
    ASSUME db' = Fresh, kind' = kind
    PROVE  Table({}, {}, FALSE)' /\ db'.gen = 0
BY DEF Fresh, Table, IsTable

LEMMA ChangedIs ==
    ASSUME NEW L, NEW D, NEW ix, Table(L, D, ix), NEW gone, NEW vs,
           db.auto = "off" \/ gone = {},
           db' = Changed(gone, vs), kind' = kind
    PROVE  /\ Table((L \ gone) \cup vs, D \cup gone, ix)'
           /\ db'.auto = db.auto /\ db'.gen = db.gen /\ db'.disk = db.disk
           /\ db'.loaded = db.loaded
           /\ kind # "pgvector" => db'.raw = (db.raw \ gone) \cup vs
<1>1. /\ IsTable(db) /\ db.live = L /\ db.dead = D /\ db.held = D
      /\ db.index = ix /\ (kind = "pgvector" => db.raw = {})
      /\ db.auto = "off" \/ D = {}
  BY DEF Table
<1>2. /\ IsTable(db')
      /\ db'.live = (L \ gone) \cup vs
      /\ db'.dead = D \cup gone /\ db'.held = D \cup gone
      /\ db'.auto = db.auto /\ db'.gen = db.gen /\ db'.disk = db.disk
      /\ db'.loaded = db.loaded
      /\ db'.index = ix
      /\ db'.raw = IF kind = "pgvector" THEN db.raw ELSE (db.raw \ gone) \cup vs
  BY <1>1 DEF IsTable, Changed
<1>3. db'.auto = "off" \/ D \cup gone = {}
  BY <1>1, <1>2
<1> QED BY <1>1, <1>2, <1>3 DEF Table

\* One field set that says nothing of the versions.
LEMMA SetAuto ==
    ASSUME NEW L, NEW D, NEW ix, Table(L, D, ix), kind' = kind,
           NEW a, a = "off" \/ D = {}, db' = [db EXCEPT !.auto = a]
    PROVE  /\ Table(L, D, ix)' /\ db'.auto = a
           /\ db'.raw = db.raw /\ db'.seen = db.seen /\ db'.disk = db.disk
           /\ db'.gen = db.gen /\ db'.loaded = db.loaded
BY DEF Table, IsTable

LEMMA SetDisk ==
    ASSUME NEW L, NEW D, NEW ix, Table(L, D, ix), kind' = kind,
           NEW a, db' = [db EXCEPT !.disk = a]
    PROVE  /\ Table(L, D, ix)' /\ db'.disk = a
           /\ db'.raw = db.raw /\ db'.seen = db.seen /\ db'.auto = db.auto
           /\ db'.gen = db.gen /\ db'.loaded = db.loaded
BY DEF Table, IsTable

LEMMA SetGen ==
    ASSUME NEW L, NEW D, NEW ix, Table(L, D, ix), kind' = kind,
           NEW a, db' = [db EXCEPT !.gen = a]
    PROVE  /\ Table(L, D, ix)' /\ db'.gen = a
           /\ db'.raw = db.raw /\ db'.seen = db.seen /\ db'.auto = db.auto
           /\ db'.disk = db.disk /\ db'.loaded = db.loaded
BY DEF Table, IsTable

LEMMA SetIndex ==
    ASSUME NEW L, NEW D, NEW ix, Table(L, D, ix), kind' = kind,
           NEW a, NEW b, db' = [db EXCEPT !.index = a, !.gen = b]
    PROVE  /\ Table(L, D, a)' /\ db'.gen = b
           /\ db'.raw = db.raw /\ db'.seen = db.seen /\ db'.auto = db.auto
           /\ db'.disk = db.disk /\ db'.loaded = db.loaded
BY DEF Table, IsTable

\* The server is at its own work, or nothing happens.
Behind == Background \/ UNCHANGED server

LEMMA BackgroundIs ==
    ASSUME NEW L, NEW D, NEW ix, Table(L, D, ix), Behind, kind' = kind
    PROVE  /\ Table(L, D, ix)'
           /\ db'.raw \in {db.raw, {}} /\ db'.seen \in {db.seen, L}
           /\ db'.auto = db.auto /\ db'.disk = db.disk /\ db'.gen = db.gen
           /\ db'.loaded = db.loaded
           /\ UNCHANGED <<up, saved>>
<1>1. /\ IsTable(db) /\ db.live = L /\ db.dead = D /\ db.held = D
      /\ db.index = ix /\ (kind = "pgvector" => db.raw = {})
      /\ db.auto = "off" \/ D = {}
  BY DEF Table
<1>2. CASE CatchUp
  BY <1>1, <1>2 DEF CatchUp, Running, Set, Table, IsTable
<1>3. CASE IndexRows
  BY <1>1, <1>3 DEF IndexRows, Running, Set, Table, IsTable
<1>4. CASE Register
  BY <1>1, <1>4 DEF Register, Running, Set, Table, IsTable
<1>5. ~Clean
  BY <1>1 DEF Clean
<1>6. ~HandOff
  BY <1>1 DEF HandOff
<1>7. CASE UNCHANGED server
  BY <1>1, <1>7 DEF server, Table, IsTable
<1> QED BY <1>2, <1>3, <1>4, <1>5, <1>6, <1>7 DEF Behind, Background

-----------------------------------------------------------------------------
(* What a step of the main thread does, by its kind.                       *)

MainOp(s) ==
    \/ Request(s) \/ CompactJob(s) \/ ToClient(s) \/ ToDoc(s)
    \/ Stage(s) \/ Start(s) \/ LoopEnds(s) \/ JoinInserter(s)

LEMMA MainIs ==
    ASSUME NEW s, NEW R, IsSeq(R), todo = First(s, R), Main
    PROVE  MainOp(s) /\ Tail(todo) = R
BY FirstIs DEF Main, MainOp

\* A request that is served, or a step that leaves the server alone.
Asked1 == todo' = Tail(todo) /\ UNCHANGED <<client, doc, load, stage1>>

Asked == Asked1 /\ UNCHANGED <<up, saved>> /\ up

LEMMA RequestIs ==
    ASSUME NEW s, MainOp(s),
           s.op \in {"create", "drop", "drop_if", "put", "delete", "auto",
                     "index", "reindex", "vacuum", "wait_green", "wait_indexed",
                     "wait_handed", "flush", "load", "dump", "restore", "stop",
                     "start", "tar", "wipe", "untar"}
    PROVE  Serve(s) /\ Asked1
<1>1. Request(s)
  BY DEF MainOp, CompactJob, ToClient, ToDoc, Stage, Start, LoopEnds,
         JoinInserter
<1> QED BY <1>1 DEF Request, Next1, Asked1

LEMMA ServeTableIs ==
    ASSUME NEW s, Serve(s)
    PROVE  /\ s.op = "create" => up /\ db = Nil /\ db' = Fresh /\ UNCHANGED <<up, saved>>
           /\ s.op = "drop_if" => up /\ db' = Nil /\ UNCHANGED <<up, saved>>
           /\ s.op = "drop" => up /\ db # Nil /\ db' = Nil /\ UNCHANGED <<up, saved>>
           /\ s.op = "put" =>
                 /\ up /\ db # Nil /\ UNCHANGED <<up, saved>>
                 /\ db' = Changed(VersionsOf({v[1] : v \in s.arg}), s.arg)
           /\ s.op = "delete" =>
                 /\ up /\ db # Nil /\ UNCHANGED <<up, saved>>
                 /\ db' = Changed(VersionsOf(s.arg), {})
           /\ s.op = "auto" =>
                 /\ up /\ db # Nil /\ UNCHANGED <<up, saved>>
                 /\ db' = [db EXCEPT !.auto = s.arg]
BY DEF Serve, CreateTable, DropTable, Put, DeleteRows, Cleaning, BuildIt, Reindex,
       Vacuum, WaitFor, FlushIt, LoadIt, Dump, PutBack, Halt, Launch, Archive,
       Wipe, Untar, Set

LEMMA ServeIndexIs ==
    ASSUME NEW s, Serve(s)
    PROVE  /\ s.op = "index" =>
                 /\ up /\ db # Nil /\ UNCHANGED <<up, saved>>
                 /\ db' = [db EXCEPT !.index = TRUE,
                       !.gen = IF kind = "pgvector" THEN db.gen + 1 ELSE db.gen]
           /\ s.op = "reindex" =>
                 /\ up /\ db # Nil /\ UNCHANGED <<up, saved>>
                 /\ db' = [db EXCEPT !.gen = db.gen + 1]
           /\ s.op = "vacuum" =>
                 /\ up /\ db # Nil /\ UNCHANGED <<up, saved>>
                 /\ db' = [db EXCEPT !.dead = {}, !.held = {}]
           /\ s.op = "flush" =>
                 /\ up /\ db # Nil /\ UNCHANGED <<up, saved>>
                 /\ db' = [db EXCEPT !.disk = db.live]
           /\ s.op = "load" =>
                 /\ up /\ db # Nil /\ UNCHANGED <<up, saved>>
                 /\ db' = [db EXCEPT !.loaded = TRUE, !.seen = db.live,
                                     !.held = db.dead]
BY DEF Serve, CreateTable, DropTable, Put, DeleteRows, Cleaning, BuildIt, Reindex,
       Vacuum, WaitFor, FlushIt, LoadIt, Dump, PutBack, Halt, Launch, Archive,
       Wipe, Untar, Set

LEMMA ServeWaitIs ==
    ASSUME NEW s, Serve(s)
    PROVE  /\ s.op = "wait_green" =>
                 /\ up /\ db # Nil /\ UNCHANGED server
                 /\ Green /\ (s.arg => db.raw = {})
           /\ s.op = "wait_indexed" =>
                 up /\ db # Nil /\ UNCHANGED server /\ db.raw = {}
           /\ s.op = "wait_handed" =>
                 up /\ db # Nil /\ UNCHANGED server /\ db.held = db.dead
BY DEF Serve, CreateTable, DropTable, Put, DeleteRows, Cleaning, BuildIt, Reindex,
       Vacuum, WaitFor, FlushIt, LoadIt, Dump, PutBack, Halt, Launch, Archive,
       Wipe, Untar, Set

LEMMA ServeHostIs ==
    ASSUME NEW s, Serve(s)
    PROVE  /\ s.op = "dump" => up /\ db # Nil /\ saved' = db /\ UNCHANGED <<up, db>>
           /\ s.op = "restore" =>
                 /\ up /\ db = Nil /\ saved # Nil /\ UNCHANGED <<up, saved>>
                 /\ db' = [saved EXCEPT
                       !.gen = IF kind = "pgvector" /\ saved.index
                               THEN saved.gen + 1 ELSE saved.gen]
           /\ s.op = "stop" => up' = FALSE /\ UNCHANGED <<db, saved>>
           /\ s.op = "start" =>
                 /\ up' = TRUE /\ UNCHANGED saved
                 /\ db' = IF db = Nil THEN Nil
                          ELSE [db EXCEPT !.loaded = FALSE, !.seen = {}]
           /\ s.op = "tar" =>
                 /\ db # Nil /\ saved' = [db EXCEPT !.live = db.disk]
                 /\ UNCHANGED <<up, db>>
           /\ s.op = "wipe" => db' = Nil /\ UNCHANGED <<up, saved>>
           /\ s.op = "untar" => db' = saved /\ UNCHANGED <<up, saved>>
BY DEF Serve, CreateTable, DropTable, Put, DeleteRows, Cleaning, BuildIt, Reindex,
       Vacuum, WaitFor, FlushIt, LoadIt, Dump, PutBack, Halt, Launch, Archive,
       Wipe, Untar, Set

LEMMA ClientOpIs ==
    ASSUME NEW s, MainOp(s)
    PROVE  /\ s.op \in {"connect", "attach", "strong"} =>
                 /\ todo' = Tail(todo) /\ UNCHANGED <<server, doc, load, stage1>>
           /\ s.op = "connect" => up /\ client' = MakeClient
           /\ s.op = "attach" => client' = [client EXCEPT !.index = s.arg]
           /\ s.op = "strong" => client' = [client EXCEPT !.strong = TRUE]
BY DEF MainOp, Request, Serve, CreateTable, DropTable, Put, DeleteRows, Cleaning,
       BuildIt, Reindex, Vacuum, WaitFor, FlushIt, LoadIt, Dump, PutBack, Halt,
       Launch, Archive, Wipe, Untar, CompactJob, ToClient, ToDoc, Stage, Start,
       LoopEnds, JoinInserter, Next1

LEMMA DocOpIs ==
    ASSUME NEW s, MainOp(s)
    PROVE  /\ s.op \in {"search", "stats"} =>
                 /\ todo' = Tail(todo) /\ UNCHANGED <<server, client, load, stage1>>
                 /\ up /\ db # Nil /\ db.loaded
           /\ s.op = "search" =>
                 doc' = [doc EXCEPT !.searches = doc.searches \cup {Answer(s.arg, client)}]
           /\ s.op = "stats" =>
                 doc' = [doc EXCEPT !.rows = Append(doc.rows, Stats(db))]
           /\ s.op \in {"write_state", "read_state", "unlink_state", "host_json"} =>
                 todo' = Tail(todo) /\ UNCHANGED <<server, client, load>>
           /\ s.op = "write_state" => stage1' = doc /\ doc' = NoDoc
           /\ s.op = "read_state" =>
                 doc' = [stage1 EXCEPT !.rebuild = doc.rebuild] /\ UNCHANGED stage1
           /\ s.op = "unlink_state" => UNCHANGED doc
           /\ s.op = "host_json" =>
                 doc' = [doc EXCEPT !.rebuild = s.arg] /\ UNCHANGED stage1
BY DEF MainOp, Request, Serve, CreateTable, DropTable, Put, DeleteRows, Cleaning,
       BuildIt, Reindex, Vacuum, WaitFor, FlushIt, LoadIt, Dump, PutBack, Halt,
       Launch, Archive, Wipe, Untar, CompactJob, ToClient, ToDoc, Stage, Start,
       LoopEnds, JoinInserter, Next1

LEMMA OtherOpIs ==
    ASSUME NEW s, MainOp(s)
    PROVE  /\ s.op = "compact_job" => CompactJob(s)
           /\ s.op = "loop" => Start(s) \/ LoopEnds(s)
           /\ s.op = "join" => JoinInserter(s)
BY DEF MainOp, Request, Serve, CreateTable, DropTable, Put, DeleteRows, Cleaning,
       BuildIt, Reindex, Vacuum, WaitFor, FlushIt, LoadIt, Dump, PutBack, Halt,
       Launch, Archive, Wipe, Untar, CompactJob, ToClient, ToDoc, Stage, Start,
       LoopEnds, JoinInserter, Next1

-----------------------------------------------------------------------------
(* The table is built: reset, load and build_index for the rows S and the  *)
(* index i, with the steps R to follow.                                    *)

IsClient == client = [index |-> client.index, strong |-> client.strong]

\* The index of the server is built: Milvus always has one.
Has(i) == kind = "milvus" \/ i # "flat"

\* What a search needs to show all of the table by this index.
Shows(i) ==
    /\ kind # "pgvector" => client.index = i
    /\ kind = "milvus" => client.strong = TRUE \/ db.seen = db.live
    /\ kind # "pgvector" /\ Has(i) => db.raw = {}

Built(S, i) ==
    /\ IsClient /\ Table(Old(S), {}, Has(i)) /\ Shows(i)
    /\ kind = "milvus" => db.disk = Old(S) /\ db.seen = db.live

Green1(i, R) == First(Do("wait_green", i = "hnsw"), R)

AskIndex(i, R) ==
    IF i = "flat" THEN Green1(i, R) ELSE First(Do("index", Nil), Green1(i, R))

AttachTo(i, R) == First(Do("attach", i), R)

ShowIt(i, R) == First(Do("load", Nil), AttachTo(i, R))

WaitAndShow(i, R) == First(Do("wait_indexed", Nil), ShowIt(i, R))

IndexIt(i, R) ==
    CASE kind = "pgvector" -> IF i = "flat" THEN AttachTo(Nil, R)
                              ELSE First(Do("index", Nil), AttachTo(i, R))
      [] kind = "qdrant"   -> AttachTo(i, AskIndex(i, R))
      [] kind = "milvus"   -> First(Do("index", Nil), WaitAndShow(i, R))

Settle(i, R) ==
    CASE kind = "pgvector" -> IndexIt(i, R)
      [] kind = "qdrant"   -> Green1(Nil, IndexIt(i, R))
      [] kind = "milvus"   -> First(Do("flush", Nil), IndexIt(i, R))

Fill(S, i, R) == First(Do("create", Nil), Left(PutAll(S, 0), 0, Settle(i, R)))

Forget(S, i, R) == First(Do("attach", Nil), Fill(S, i, R))

Renew(S, i, R) ==
    First(Do("drop_if", Nil), IF kind = "qdrant" THEN Fill(S, i, R)
                                                 ELSE Forget(S, i, R))

Build(S, i, R) == First(Do("connect", Nil), Renew(S, i, R))

Emptying(S, i, R) ==
    \/ todo = Renew(S, i, R)
    \/ todo = Forget(S, i, R)
    \/ todo = Fill(S, i, R)

Filling(S, i, R) ==
    \E k \in 0 .. Cardinality(S) :
        /\ todo = Left(PutAll(S, 0), k, Settle(i, R))
        /\ Table(Old(Done(S, k)), {}, FALSE)

PgIndexing(S, i, R) ==
    /\ i # "flat"
    /\ todo = AttachTo(i, R) /\ Table(Old(S), {}, TRUE)

QdIndexing(S, i, R) ==
    \/ todo = IndexIt(i, R) /\ Table(Old(S), {}, FALSE)
    \/ /\ todo = AskIndex(i, R) /\ Table(Old(S), {}, FALSE)
       /\ client.index = i
    \/ /\ todo = Green1(i, R) /\ Table(Old(S), {}, Has(i))
       /\ client.index = i

MvIndexing(S, i, R) ==
    /\ db.disk = Old(S)
    /\ \/ todo = IndexIt(i, R) /\ Table(Old(S), {}, FALSE)
       \/ todo = WaitAndShow(i, R) /\ Table(Old(S), {}, TRUE)
       \/ /\ todo = ShowIt(i, R) /\ Table(Old(S), {}, TRUE)
          /\ db.raw = {}
       \/ /\ todo = AttachTo(i, R) /\ Table(Old(S), {}, TRUE)
          /\ db.raw = {} /\ db.seen = db.live

\* The main thread is on its way to the built table.
Building(S, i, R) ==
    \/ todo = Build(S, i, R)
    \/ /\ IsClient
       /\ \/ Emptying(S, i, R)
          \/ Filling(S, i, R)
          \/ kind = "pgvector" /\ PgIndexing(S, i, R)
          \/ kind = "qdrant" /\ QdIndexing(S, i, R)
          \/ kind = "milvus" /\ MvIndexing(S, i, R)

\* The rests of the build, for each database.
LEMMA IndexItIs ==
    ASSUME NEW i, NEW R
    PROVE  /\ kind = "pgvector" =>
                 /\ IndexIt(i, R) = IF i = "flat" THEN AttachTo(Nil, R)
                       ELSE First(Do("index", Nil), AttachTo(i, R))
                 /\ Settle(i, R) = IndexIt(i, R)
           /\ kind = "qdrant" =>
                 /\ IndexIt(i, R) = AttachTo(i, AskIndex(i, R))
                 /\ Settle(i, R) = Green1(Nil, IndexIt(i, R))
           /\ kind = "milvus" =>
                 /\ IndexIt(i, R) = First(Do("index", Nil), WaitAndShow(i, R))
                 /\ Settle(i, R) = First(Do("flush", Nil), IndexIt(i, R))
BY Zenon DEF IndexIt, Settle

Db == kind \in {"pgvector", "qdrant", "milvus"}

LEMMA RestsAre ==
    ASSUME NEW S \in SUBSET Row, NEW i, NEW R, IsSeq(R), Db
    PROVE  /\ IsSeq(AttachTo(i, R)) /\ IsSeq(AttachTo(Nil, R))
           /\ IsSeq(Green1(i, R)) /\ IsSeq(AskIndex(i, R))
           /\ IsSeq(ShowIt(i, R)) /\ IsSeq(WaitAndShow(i, R))
           /\ IsSeq(IndexIt(i, R)) /\ IsSeq(Settle(i, R))
           /\ IsSeq(Left(PutAll(S, 0), 0, Settle(i, R)))
           /\ IsSeq(Fill(S, i, R)) /\ IsSeq(Forget(S, i, R))
           /\ IsSeq(Renew(S, i, R)) /\ IsSeq(Build(S, i, R))
<1>1. /\ IsSeq(AttachTo(i, R)) /\ IsSeq(AttachTo(Nil, R)) /\ IsSeq(Green1(i, R))
  BY FirstIs DEF AttachTo, Green1
<1>2. IsSeq(AskIndex(i, R))
  BY <1>1, FirstIs DEF AskIndex
<1>3. IsSeq(ShowIt(i, R))
  BY <1>1, FirstIs DEF ShowIt
<1>4. IsSeq(WaitAndShow(i, R))
  BY <1>3, FirstIs DEF WaitAndShow
<1>5. IsSeq(AttachTo(i, AskIndex(i, R)))
  BY <1>2, FirstIs DEF AttachTo
<1>6. IsSeq(First(Do("index", Nil), AttachTo(i, R)))
      /\ IsSeq(First(Do("index", Nil), WaitAndShow(i, R)))
  BY <1>1, <1>4, FirstIs
<1>7. IsSeq(IndexIt(i, R))
  BY <1>1, <1>5, <1>6, IndexItIs DEF Db
<1>8. IsSeq(Green1(Nil, IndexIt(i, R)))
  BY <1>7, FirstIs DEF Green1
<1>9. IsSeq(First(Do("flush", Nil), IndexIt(i, R)))
  BY <1>7, FirstIs
<1>10. IsSeq(Settle(i, R))
  BY <1>7, <1>8, <1>9, IndexItIs DEF Db
<1>11. IsSeq(Left(PutAll(S, 0), 0, Settle(i, R)))
  <2> DEFINE f == PutAll(S, 0)
             T == Settle(i, R)
  <2>1. IsSeq(f) /\ IsSeq(T)
    BY <1>10, CallsAre
  <2> HIDE DEF f, T
  <2>2. 0 \in 0 .. Len(f)
    BY <2>1 DEF IsSeq
  <2> QED BY <2>1, <2>2, FromIs DEF f, T
<1>12. IsSeq(Fill(S, i, R))
  BY <1>11, FirstIs DEF Fill
<1>13. IsSeq(Forget(S, i, R))
  BY <1>12, FirstIs DEF Forget
<1>14. IsSeq(Renew(S, i, R))
  BY <1>12, <1>13, FirstIs DEF Renew
<1>15. IsSeq(Build(S, i, R))
  BY <1>14, FirstIs DEF Build
<1> QED BY <1>1, <1>2, <1>3, <1>4, <1>7, <1>10, <1>11, <1>12, <1>13, <1>14, <1>15

LEMMA OfIs ==
    ASSUME NEW pg, NEW qd, NEW mv
    PROVE  /\ kind = "pgvector" => Of(pg, qd, mv) = pg
           /\ kind = "qdrant" => Of(pg, qd, mv) = qd
           /\ kind = "milvus" => Of(pg, qd, mv) = mv
BY Zenon DEF Of

\* An instance has the operators of DbBase once more.
LEMMA SameCalls ==
    /\ \A S : Pg!Cardinality(S) = Cardinality(S)
    /\ \A S : Qd!Cardinality(S) = Cardinality(S)
    /\ \A S : Mv!Cardinality(S) = Cardinality(S)
    /\ \A S : Pg!Batches(S) = Batches(S)
    /\ \A S : Qd!Batches(S) = Batches(S)
    /\ \A S : Mv!Batches(S) = Batches(S)
    /\ \A S, v : Pg!PutAll(S, v) = PutAll(S, v)
    /\ \A S, v : Qd!PutAll(S, v) = PutAll(S, v)
    /\ \A S, v : Mv!PutAll(S, v) = PutAll(S, v)
    /\ \A S : Qd!DeleteAll(S) = DeleteAll(S)
    /\ \A S : Mv!DeleteAll(S) = DeleteAll(S)
<1>1. ASSUME NEW S
      PROVE  /\ Pg!Cardinality(S) = Cardinality(S)
             /\ Qd!Cardinality(S) = Cardinality(S)
             /\ Mv!Cardinality(S) = Cardinality(S)
  BY DEF Pg!Cardinality, Qd!Cardinality, Mv!Cardinality, Cardinality
<1>2. ASSUME NEW S
      PROVE  /\ Pg!Batches(S) = Batches(S)
             /\ Qd!Batches(S) = Batches(S)
             /\ Mv!Batches(S) = Batches(S)
  BY <1>1 DEF Pg!Batches, Qd!Batches, Mv!Batches, Batches
<1>3. ASSUME NEW S, NEW v
      PROVE  /\ Pg!PutAll(S, v) = PutAll(S, v)
             /\ Qd!PutAll(S, v) = PutAll(S, v)
             /\ Mv!PutAll(S, v) = PutAll(S, v)
  BY <1>1, <1>2 DEF Pg!PutAll, Qd!PutAll, Mv!PutAll, PutAll, Pg!Do, Qd!Do, Mv!Do, Do
<1>4. ASSUME NEW S
      PROVE  /\ Qd!DeleteAll(S) = DeleteAll(S)
             /\ Mv!DeleteAll(S) = DeleteAll(S)
  BY <1>1, <1>2 DEF Qd!DeleteAll, Mv!DeleteAll, DeleteAll, Qd!Do, Mv!Do, Do
<1> QED BY <1>1, <1>2, <1>3, <1>4

LEMMA ConnectIs == ASSUME Db PROVE Connect = << Do("connect", Nil) >>
BY OfIs DEF Connect, Pg!Connect, Qd!Connect, Mv!Connect, Pg!Do, Qd!Do, Mv!Do, Do, Db

LEMMA ResetIs ==
    ASSUME Db
    PROVE  /\ kind # "qdrant" => Reset = << Do("drop_if", Nil), Do("attach", Nil) >>
           /\ kind = "qdrant" => Reset = << Do("drop_if", Nil) >>
BY OfIs DEF Reset, Pg!Reset, Qd!Reset, Mv!Reset, Pg!Do, Qd!Do, Mv!Do, Do, Db

LEMMA LoadIs ==
    ASSUME NEW S
    PROVE  /\ kind = "pgvector" => Load(S) = << Do("create", Nil) >> \o PutAll(S, 0)
           /\ kind = "qdrant" =>
                 Load(S) = (<< Do("create", Nil) >> \o PutAll(S, 0))
                                \o << Do("wait_green", Nil = "hnsw") >>
           /\ kind = "milvus" =>
                 Load(S) = (<< Do("create", Nil) >> \o PutAll(S, 0))
                                \o << Do("flush", Nil) >>
<1>1. kind = "pgvector" => Load(S) = Pg!Load(S)
  BY OfIs DEF Load
<1>2. kind = "qdrant" => Load(S) = Qd!Load(S)
  BY OfIs DEF Load
<1>3. kind = "milvus" => Load(S) = Mv!Load(S)
  BY OfIs DEF Load
<1>4. Pg!Load(S) = << Do("create", Nil) >> \o PutAll(S, 0)
  BY SameCalls DEF Pg!Load, Pg!Do, Do
<1>5. Qd!Load(S) = (<< Do("create", Nil) >> \o PutAll(S, 0))
                        \o << Do("wait_green", Nil = "hnsw") >>
  BY SameCalls DEF Qd!Load, Qd!Do, Do, Qd!WaitGreen
<1>6. Mv!Load(S) = (<< Do("create", Nil) >> \o PutAll(S, 0))
                        \o << Do("flush", Nil) >>
  BY SameCalls DEF Mv!Load, Mv!Do, Do, Mv!Create, Mv!Flush
<1> QED BY <1>1, <1>2, <1>3, <1>4, <1>5, <1>6

LEMMA BuildIndexIs ==
    ASSUME NEW i
    PROVE  /\ kind = "pgvector" =>
                 BuildIndex(i) = IF i = "flat" THEN << Do("attach", Nil) >>
                                 ELSE << Do("index", Nil), Do("attach", i) >>
           /\ kind = "qdrant" =>
                 BuildIndex(i) =
                    (<< Do("attach", i) >>
                      \o (IF i = "flat" THEN << >> ELSE << Do("index", Nil) >>))
                      \o << Do("wait_green", i = "hnsw") >>
           /\ kind = "milvus" =>
                 BuildIndex(i) =
                    << Do("index", Nil), Do("wait_indexed", Nil), Do("load", Nil),
                       Do("attach", i) >>
<1>1. kind = "pgvector" => BuildIndex(i) = Pg!BuildIndex(i)
  BY OfIs DEF BuildIndex
<1>2. kind = "qdrant" => BuildIndex(i) = Qd!BuildIndex(i)
  BY OfIs DEF BuildIndex
<1>3. kind = "milvus" => BuildIndex(i) = Mv!BuildIndex(i)
  BY OfIs DEF BuildIndex
<1>4. Pg!BuildIndex(i) = IF i = "flat" THEN << Do("attach", Nil) >>
                                 ELSE << Do("index", Nil), Do("attach", i) >>
  BY DEF Pg!BuildIndex, Pg!Do, Do
<1>5. Qd!BuildIndex(i) = (<< Do("attach", i) >>
                      \o (IF i = "flat" THEN << >> ELSE << Do("index", Nil) >>))
                      \o << Do("wait_green", i = "hnsw") >>
  BY DEF Qd!BuildIndex, Qd!Do, Do, Qd!WaitGreen
<1>6. Mv!BuildIndex(i) = << Do("index", Nil), Do("wait_indexed", Nil), Do("load", Nil),
                       Do("attach", i) >>
  BY DEF Mv!BuildIndex, Mv!Do, Do
<1> QED BY <1>1, <1>2, <1>3, <1>4, <1>5, <1>6

\* The calls one after the other are the build.
LEMMA BuildIs ==
    ASSUME Db, NEW S \in SUBSET Row, NEW i, NEW R, IsSeq(R)
    PROVE  /\ IsSeq(Connect) /\ IsSeq(Reset) /\ IsSeq(Load(S))
           /\ IsSeq(BuildIndex(i)) /\ IsSeq(BuildIndex(i) \o R)
           /\ IsSeq(Load(S) \o (BuildIndex(i) \o R))
           /\ IsSeq(Reset \o (Load(S) \o (BuildIndex(i) \o R)))
           /\ Connect \o (Reset \o (Load(S) \o (BuildIndex(i) \o R)))
                = Build(S, i, R)
<1>1. /\ IsSeq(AttachTo(i, R)) /\ IsSeq(AttachTo(Nil, R))
      /\ IsSeq(Green1(i, R)) /\ IsSeq(AskIndex(i, R))
      /\ IsSeq(ShowIt(i, R)) /\ IsSeq(WaitAndShow(i, R))
      /\ IsSeq(IndexIt(i, R)) /\ IsSeq(Settle(i, R))
      /\ IsSeq(Left(PutAll(S, 0), 0, Settle(i, R)))
      /\ IsSeq(Fill(S, i, R)) /\ IsSeq(Forget(S, i, R))
      /\ IsSeq(Renew(S, i, R)) /\ IsSeq(Build(S, i, R))
  BY RestsAre
<1>2. IsSeq(BuildIndex(i)) /\ BuildIndex(i) \o R = IndexIt(i, R)
  <2>1. CASE kind = "pgvector" /\ i = "flat"
    <3>1. BuildIndex(i) = << Do("attach", Nil) >> /\ IndexIt(i, R) = AttachTo(Nil, R)
      BY <2>1, BuildIndexIs, IndexItIs
    <3> QED BY <3>1, OneIs DEF AttachTo, First
  <2>2. CASE kind = "pgvector" /\ i # "flat"
    <3>1. BuildIndex(i) = << Do("index", Nil), Do("attach", i) >>
          /\ IndexIt(i, R) = First(Do("index", Nil), First(Do("attach", i), R))
      BY <2>2, BuildIndexIs, IndexItIs DEF AttachTo
    <3> QED BY <3>1, Joins
  <2>3. CASE kind = "qdrant"
    <3> DEFINE a == << Do("attach", i) >>
               b == IF i = "flat" THEN << >> ELSE << Do("index", Nil) >>
               g == << Do("wait_green", i = "hnsw") >>
    <3>1. BuildIndex(i) = (a \o b) \o g /\ IsSeq(a) /\ IsSeq(b) /\ IsSeq(g)
      BY <2>3, BuildIndexIs, OneIs, NoneIs
    <3>2. g \o R = Green1(i, R)
      BY DEF Green1, First
    <3>3. b \o Green1(i, R) = AskIndex(i, R)
      BY <1>1, NoneIs DEF AskIndex, First
    <3>4. a \o AskIndex(i, R) = IndexIt(i, R)
      BY <2>3, IndexItIs DEF AttachTo, First
    <3> HIDE DEF a, b, g
    <3>5. IsSeq((a \o b) \o g) /\ ((a \o b) \o g) \o R = a \o (b \o (g \o R))
      BY <3>1, JoinFour
    <3> QED BY <3>1, <3>2, <3>3, <3>4, <3>5
  <2>4. CASE kind = "milvus"
    <3>1. /\ BuildIndex(i) = << Do("index", Nil), Do("wait_indexed", Nil),
                                Do("load", Nil), Do("attach", i) >>
          /\ IndexIt(i, R) = First(Do("index", Nil), First(Do("wait_indexed", Nil),
                                First(Do("load", Nil), First(Do("attach", i), R))))
      BY <2>4, BuildIndexIs, IndexItIs DEF AttachTo, ShowIt, WaitAndShow
    <3> QED BY <3>1, Joins
  <2> QED BY <2>1, <2>2, <2>3, <2>4 DEF Db
<1>3. IsSeq(Load(S)) /\ Load(S) \o IndexIt(i, R) = Fill(S, i, R)
  <2> DEFINE a == << Do("create", Nil) >>
             p == PutAll(S, 0)
             X == IndexIt(i, R)
  <2>1. IsSeq(a) /\ IsSeq(p) /\ IsSeq(a \o p) /\ IsSeq(X)
    BY <1>1, OneIs, CallsAre, JoinIs
  <2>2. ASSUME NEW g, IsSeq(g)
        PROVE  IsSeq((a \o p) \o g) /\ ((a \o p) \o g) \o X = a \o (p \o (g \o X))
    <3> HIDE DEF a, p, X
    <3> QED BY <2>1, <2>2, JoinFour
  <2>3. Fill(S, i, R) = a \o (p \o Settle(i, R))
    <3> DEFINE T == Settle(i, R)
    <3>1. IsSeq(T)
      BY <1>1
    <3> HIDE DEF T, p
    <3>2. 0 \in 0 .. Len(p)
      BY <2>1 DEF IsSeq
    <3>3. Left(p, 0, T) = p \o T
      BY <2>1, <3>1, <3>2, FromIs
    <3> QED BY <3>3, Zenon DEF Fill, First, p, T
  <2>4. CASE kind = "pgvector"
    <3>1. Load(S) = a \o p /\ Settle(i, R) = X
      BY <2>4, LoadIs, IndexItIs
    <3>2. (a \o p) \o X = a \o (p \o X)
      <4> HIDE DEF a, p, X
      <4> QED BY <2>1, JoinAgain
    <3> HIDE DEF a, p, X
    <3> QED BY <2>1, <2>3, <3>1, <3>2 DEF X
  <2>5. CASE kind = "qdrant"
    <3> DEFINE g == << Do("wait_green", Nil = "hnsw") >>
    <3>1. Load(S) = (a \o p) \o g /\ IsSeq(g)
      BY <2>5, LoadIs, OneIs
    <3>2. g \o X = Settle(i, R)
      BY <2>5, IndexItIs DEF Green1, First
    <3> HIDE DEF a, p, g, X
    <3> QED BY <2>2, <2>3, <3>1, <3>2 DEF X
  <2>6. CASE kind = "milvus"
    <3> DEFINE g == << Do("flush", Nil) >>
    <3>1. Load(S) = (a \o p) \o g /\ IsSeq(g)
      BY <2>6, LoadIs, OneIs
    <3>2. g \o X = Settle(i, R)
      BY <2>6, IndexItIs DEF First
    <3> HIDE DEF a, p, g, X
    <3> QED BY <2>2, <2>3, <3>1, <3>2 DEF X
  <2> QED BY <2>4, <2>5, <2>6 DEF Db
<1>4. IsSeq(Reset) /\ Reset \o Fill(S, i, R) = Renew(S, i, R)
  <2>1. CASE kind = "qdrant"
    BY <1>1, <2>1, ResetIs, OneIs DEF Renew, First
  <2>2. CASE kind # "qdrant"
    <3>1. Reset = << Do("drop_if", Nil), Do("attach", Nil) >>
          /\ Renew(S, i, R) = First(Do("drop_if", Nil), First(Do("attach", Nil),
                                Fill(S, i, R)))
      BY <2>2, ResetIs DEF Renew, Forget
    <3> QED BY <1>1, <3>1, Joins
  <2> QED BY <2>1, <2>2
<1>5. IsSeq(Connect) /\ Connect \o Renew(S, i, R) = Build(S, i, R)
  BY ConnectIs, OneIs DEF Build, First
<1> QED BY <1>1, <1>2, <1>3, <1>4, <1>5

LEMMA RestsSame ==
    ASSUME kind' = kind, NEW S, NEW i, NEW R
    PROVE  /\ IndexIt(i, R)' = IndexIt(i, R) /\ Settle(i, R)' = Settle(i, R)
           /\ Fill(S, i, R)' = Fill(S, i, R) /\ Forget(S, i, R)' = Forget(S, i, R)
           /\ Renew(S, i, R)' = Renew(S, i, R) /\ Build(S, i, R)' = Build(S, i, R)
<1>1. IndexIt(i, R)' = IndexIt(i, R)
  BY Zenon DEF IndexIt
<1>2. Settle(i, R)' = Settle(i, R)
  BY <1>1, Zenon DEF Settle
<1>3. Fill(S, i, R)' = Fill(S, i, R)
  BY <1>2 DEF Fill
<1>4. Forget(S, i, R)' = Forget(S, i, R)
  BY <1>3 DEF Forget
<1>5. Renew(S, i, R)' = Renew(S, i, R)
  BY <1>3, <1>4 DEF Renew
<1>6. Build(S, i, R)' = Build(S, i, R)
  BY <1>5 DEF Build
<1> QED BY <1>1, <1>2, <1>3, <1>4, <1>5, <1>6

\* A row that is put where the table has no version of it.
LEMMA VersionsOfNone ==
    ASSUME NEW L, db.live = L, NEW X, \A v \in L : v[1] \notin X
    PROVE  VersionsOf(X) = {}
BY DEF VersionsOf

LEMMA OneByOne == ASSUME NEW r, NEW v PROVE {r} \X {v} = {<<r, v>>}
OBVIOUS

LEMMA FillStep ==
    ASSUME Db, NEW S \in SUBSET Row, NEW i, NEW R, IsSeq(R), kind' = kind,
           NEW k \in 0 .. Cardinality(S), k # Cardinality(S),
           todo = Left(PutAll(S, 0), k, Settle(i, R)),
           Table(Old(Done(S, k)), {}, FALSE), Main
    PROVE  /\ k + 1 \in 0 .. Cardinality(S)
           /\ todo' = Left(PutAll(S, 0), k + 1, Settle(i, R))
           /\ Table(Old(Done(S, k + 1)), {}, FALSE)'
           /\ UNCHANGED <<client, doc, load, stage1, up, saved>>
<1>1. IsSeq(Settle(i, R))
  BY RestsAre
<1>2. /\ IsSeq(PutAll(S, 0)) /\ Len(PutAll(S, 0)) = Cardinality(S)
      /\ \A j \in 1 .. Cardinality(S) :
            PutAll(S, 0)[j] = Do("put", Batches(S)[j] \X {0})
  BY CallsAre
<1> DEFINE d == Do("put", Batches(S)[k + 1] \X {0})
           N == Left(PutAll(S, 0), k + 1, Settle(i, R))
<1>3. todo = First(d, N) /\ IsSeq(N) /\ k + 1 \in 0 .. Cardinality(S)
  <2> DEFINE f == PutAll(S, 0)
             T == Settle(i, R)
             m == Cardinality(S)
  <2>1. IsSeq(f) /\ IsSeq(T) /\ k \in 0 .. Len(f) /\ k # Len(f) /\ Len(f) = m
    BY <1>1, <1>2
  <2> HIDE DEF f, T, m
  <2> DEFINE n == k + 1
  <2>2. n = k + 1
    OBVIOUS
  <2> HIDE DEF n
  <2>3. /\ n \in 0 .. Len(f) /\ n \in 1 .. Len(f)
        /\ Left(f, k, T) = First(f[n], Left(f, n, T))
        /\ IsSeq(Left(f, n, T))
    BY <2>1, <2>2, FromNext
  <2>4. n \in 0 .. m /\ n \in 1 .. m
    BY <2>1, <2>3
  <2>5. f[n] = d
    <3>1. f[n] = Do("put", Batches(S)[n] \X {0})
      BY <1>2, <2>4 DEF f, m
    <3> QED BY <2>2, <3>1
  <2>6. Left(f, n, T) = N
    BY <2>2 DEF f, T
  <2> HIDE DEF d, N
  <2>7. todo = First(d, N) /\ IsSeq(N)
    <3>1. todo = Left(f, k, T)
      BY DEF f, T
    <3> QED BY <2>3, <2>5, <2>6, <3>1
  <2> QED BY <2>2, <2>4, <2>7 DEF m
<1>4. d.op = "put" /\ d.arg = Batches(S)[k + 1] \X {0}
  BY DEF Do
<1>5. PICK r \in S : /\ r \notin Done(S, k) /\ Batches(S)[k + 1] = {r}
                     /\ Done(S, k + 1) = Done(S, k) \cup {r}
  BY DoneIs
<1> HIDE DEF d, N
<1>6. MainOp(d) /\ Tail(todo) = N
  BY <1>3, MainIs
<1>7. Serve(d) /\ Asked1
  BY <1>4, <1>6, RequestIs
<1>8. /\ UNCHANGED <<up, saved>>
      /\ db' = Changed(VersionsOf({v[1] : v \in d.arg}), d.arg)
  BY <1>4, <1>7, ServeTableIs
<1>9. d.arg = {<<r, 0>>} /\ {v[1] : v \in d.arg} = {r}
  <2>1. {r} \X {0} = {<<r, 0>>}
    BY OneByOne
  <2>2. {v[1] : v \in {<<r, 0>>}} = {r}
    OBVIOUS
  <2>3. d.arg = {r} \X {0}
    BY <1>4, <1>5
  <2> QED BY <2>1, <2>2, <2>3
<1>10. VersionsOf({r}) = {}
  <2>1. db.live = Old(Done(S, k))
    BY DEF Table
  <2>2. \A v \in Old(Done(S, k)) : v[1] \notin {r}
    BY <1>5 DEF Old
  <2> QED BY <2>1, <2>2, VersionsOfNone
<1>11. Table((Old(Done(S, k)) \ {}) \cup {<<r, 0>>}, {} \cup {}, FALSE)'
  <2>1. db' = Changed({}, {<<r, 0>>})
    BY <1>8, <1>9, <1>10
  <2> QED BY <2>1, ChangedIs
<1>12. (Old(Done(S, k)) \ {}) \cup {<<r, 0>>} = Old(Done(S, k + 1))
  BY <1>5 DEF Old
<1> QED BY <1>3, <1>6, <1>7, <1>8, <1>11, <1>12 DEF Asked1, N

LEMMA BuildStep ==
    ASSUME Db, NEW S \in SUBSET Row, NEW i \in Indexes, NEW R, IsSeq(R),
           kind' = kind, Building(S, i, R), Main
    PROVE  /\ Building(S, i, R)' \/ (todo' = R /\ Built(S, i)')
           /\ UNCHANGED <<doc, load, stage1, up, saved>>
<1>1. /\ IsSeq(AttachTo(i, R)) /\ IsSeq(AttachTo(Nil, R))
      /\ IsSeq(Green1(i, R)) /\ IsSeq(AskIndex(i, R))
      /\ IsSeq(ShowIt(i, R)) /\ IsSeq(WaitAndShow(i, R))
      /\ IsSeq(IndexIt(i, R)) /\ IsSeq(Settle(i, R))
      /\ IsSeq(Fill(S, i, R)) /\ IsSeq(Forget(S, i, R))
      /\ IsSeq(Renew(S, i, R)) /\ IsSeq(Build(S, i, R))
  BY RestsAre
<1>2. /\ IndexIt(i, R)' = IndexIt(i, R) /\ Settle(i, R)' = Settle(i, R)
      /\ Fill(S, i, R)' = Fill(S, i, R) /\ Forget(S, i, R)' = Forget(S, i, R)
      /\ Renew(S, i, R)' = Renew(S, i, R) /\ Build(S, i, R)' = Build(S, i, R)
  BY RestsSame
<1>3. i \in {"flat", "hnsw"} /\ Nil \notin {"flat", "hnsw"}
  BY BenchAssumption DEF Indexes
<1>4. CASE todo = Build(S, i, R)
  <2> DEFINE d == Do("connect", Nil)
  <2>1. d.op = "connect"
    BY DEF Do
  <2>2. MainOp(d) /\ Tail(todo) = Renew(S, i, R)
    BY <1>1, <1>4, MainIs DEF Build
  <2> HIDE DEF d
  <2>3. /\ todo' = Renew(S, i, R) /\ client' = MakeClient
        /\ UNCHANGED <<server, doc, load, stage1>>
    BY <2>1, <2>2, ClientOpIs
  <2>4. MakeClient = [index |-> MakeClient.index, strong |-> MakeClient.strong]
    <3>1. CASE kind = "pgvector"
      BY <3>1, OfIs DEF MakeClient, Pg!MakeClient
    <3>2. CASE kind = "qdrant"
      BY <3>2, OfIs DEF MakeClient, Qd!MakeClient
    <3>3. CASE kind = "milvus"
      BY <3>3, OfIs DEF MakeClient, Mv!MakeClient
    <3> QED BY <3>1, <3>2, <3>3 DEF Db
  <2>5. IsClient'
    BY <2>3, <2>4 DEF IsClient
  <2> QED BY <1>2, <2>3, <2>5 DEF Building, Emptying, server
<1>5. CASE IsClient /\ Emptying(S, i, R)
  <2>1. CASE todo = Renew(S, i, R)
    <3> DEFINE d == Do("drop_if", Nil)
               N == IF kind = "qdrant" THEN Fill(S, i, R) ELSE Forget(S, i, R)
    <3>1. d.op = "drop_if"
      BY DEF Do
    <3>2. todo = First(d, N) /\ IsSeq(N)
      BY <1>1, <2>1 DEF Renew
    <3> HIDE DEF d
    <3>3. MainOp(d) /\ Tail(todo) = N
      BY <3>2, MainIs
    <3>4. Serve(d) /\ Asked1
      BY <3>1, <3>3, RequestIs
    <3>5. UNCHANGED <<up, saved>>
      BY <3>1, <3>4, ServeTableIs
    <3>6. IsClient'
      BY <1>5, <3>4 DEF IsClient, Asked1
    <3> QED BY <1>2, <3>3, <3>4, <3>5, <3>6 DEF Building, Emptying, Asked1
  <2>2. CASE todo = Forget(S, i, R)
    <3> DEFINE d == Do("attach", Nil)
    <3>1. d.op = "attach"
      BY DEF Do
    <3> HIDE DEF d
    <3>2. MainOp(d) /\ Tail(todo) = Fill(S, i, R)
      BY <1>1, <2>2, MainIs DEF Forget, d
    <3>3. /\ todo' = Fill(S, i, R) /\ client' = [client EXCEPT !.index = d.arg]
          /\ UNCHANGED <<server, doc, load, stage1>>
      BY <3>1, <3>2, ClientOpIs
    <3>4. IsClient'
      BY <1>5, <3>3 DEF IsClient
    <3> QED BY <1>2, <3>3, <3>4 DEF Building, Emptying, server
  <2>3. CASE todo = Fill(S, i, R)
    <3> DEFINE d == Do("create", Nil)
               N == Left(PutAll(S, 0), 0, Settle(i, R))
    <3>1. d.op = "create"
      BY DEF Do
    <3>2. todo = First(d, N) /\ IsSeq(N)
      BY <2>3, RestsAre DEF Fill
    <3>3. 0 \in 0 .. Cardinality(S)
      BY BatchesAre
    <3> HIDE DEF d, N
    <3>4. MainOp(d) /\ Tail(todo) = N
      BY <3>2, MainIs
    <3>5. Serve(d) /\ Asked1
      BY <3>1, <3>4, RequestIs
    <3>6. UNCHANGED <<up, saved>> /\ db' = Fresh
      BY <3>1, <3>5, ServeTableIs
    <3>7. IsClient'
      BY <1>5, <3>5 DEF IsClient, Asked1
    <3>8. Table({}, {}, FALSE)'
      BY <3>6, FreshIs
    <3>9. {} = Old(Done(S, 0))
      BY DoneIs DEF Old
    <3>10. Table(Old(Done(S, 0)), {}, FALSE)'
      BY <3>8, <3>9
    <3>11. todo' = Left(PutAll(S, 0), 0, Settle(i, R)')
      BY <1>2, <3>4, <3>5 DEF Asked1, N
    <3>12. Filling(S, i, R)'
      BY <3>3, <3>10, <3>11 DEF Filling
    <3> QED BY <3>5, <3>6, <3>7, <3>12 DEF Building, Asked1
  <2> QED BY <1>5, <2>1, <2>2, <2>3 DEF Emptying
<1> DEFINE m == Cardinality(S)
<1>6. ASSUME IsClient, NEW k \in 0 .. m, k # m,
             todo = Left(PutAll(S, 0), k, Settle(i, R)),
             Table(Old(Done(S, k)), {}, FALSE)
      PROVE  /\ Building(S, i, R)'
             /\ UNCHANGED <<doc, load, stage1, up, saved>>
  <2>1. /\ k + 1 \in 0 .. Cardinality(S)
        /\ todo' = Left(PutAll(S, 0), k + 1, Settle(i, R))
        /\ Table(Old(Done(S, k + 1)), {}, FALSE)'
        /\ UNCHANGED <<client, doc, load, stage1, up, saved>>
    BY <1>6, FillStep
  <2>2. IsClient'
    BY <1>6, <2>1 DEF IsClient
  <2>3. Filling(S, i, R)'
    BY <1>2, <2>1 DEF Filling
  <2> QED BY <2>1, <2>2, <2>3 DEF Building
<1>7. ASSUME todo = Left(PutAll(S, 0), m, Settle(i, R)),
             Table(Old(Done(S, m)), {}, FALSE)
      PROVE  todo = Settle(i, R) /\ Table(Old(S), {}, FALSE)
  <2>1. Len(PutAll(S, 0)) = m /\ IsSeq(PutAll(S, 0)) /\ m \in 0 .. m
    BY CallsAre, BatchesAre
  <2> DEFINE f == PutAll(S, 0)
             T == Settle(i, R)
  <2> HIDE DEF f, T
  <2>2. Left(f, Len(f), T) = T
    <3>1. IsSeq(f) /\ IsSeq(T) /\ Len(f) \in 0 .. Len(f)
      BY <1>1, <2>1 DEF f, T
    <3> QED BY <3>1, FromIs
  <2>3. Done(S, m) = S
    BY DoneIs
  <2> QED BY <1>7, <2>1, <2>2, <2>3 DEF f, T
<1> HIDE DEF m
<1>8. ASSUME kind = "pgvector", IsClient,
             \/ todo = Settle(i, R) /\ Table(Old(S), {}, FALSE)
             \/ PgIndexing(S, i, R)
      PROVE  /\ Building(S, i, R)' \/ (todo' = R /\ Built(S, i)')
             /\ UNCHANGED <<doc, load, stage1, up, saved>>
  <2>1. CASE i # "flat" /\ todo = Settle(i, R) /\ Table(Old(S), {}, FALSE)
    <3> DEFINE d == Do("index", Nil)
    <3>1. d.op = "index"
      BY DEF Do
    <3>2. todo = First(d, AttachTo(i, R))
      BY <1>8, <2>1, IndexItIs
    <3> HIDE DEF d
    <3>3. MainOp(d) /\ Tail(todo) = AttachTo(i, R)
      BY <1>1, <3>2, MainIs
    <3>4. Serve(d) /\ Asked1
      BY <3>1, <3>3, RequestIs
    <3>5. /\ UNCHANGED <<up, saved>>
          /\ \E b : db' = [db EXCEPT !.index = TRUE, !.gen = b]
      BY <3>1, <3>4, ServeIndexIs
    <3>6. Table(Old(S), {}, TRUE)'
      BY <2>1, <3>5, SetIndex
    <3>7. IsClient'
      BY <1>8, <3>4 DEF IsClient, Asked1
    <3>8. PgIndexing(S, i, R)'
      BY <2>1, <3>3, <3>4, <3>6 DEF PgIndexing, Asked1
    <3> QED BY <1>8, <3>4, <3>5, <3>7, <3>8 DEF Building, Asked1
  <2>2. ASSUME NEW j, todo = AttachTo(j, R), Table(Old(S), {}, Has(i))
        PROVE  /\ todo' = R /\ Built(S, i)'
               /\ UNCHANGED <<doc, load, stage1, up, saved>>
    <3> DEFINE d == Do("attach", j)
    <3>1. d.op = "attach"
      BY DEF Do
    <3>2. MainOp(d) /\ Tail(todo) = R
      BY <2>2, MainIs DEF AttachTo
    <3> HIDE DEF d
    <3>3. /\ todo' = R /\ client' = [client EXCEPT !.index = d.arg]
          /\ UNCHANGED <<server, doc, load, stage1>>
      BY <3>1, <3>2, ClientOpIs
    <3>4. IsClient'
      BY <1>8, <3>3 DEF IsClient
    <3>5. Table(Old(S), {}, Has(i))' 
      BY <2>2, <3>3 DEF Table, Has, server, IsTable
    <3> QED BY <1>8, <3>3, <3>4, <3>5 DEF Built, Shows, server
  <2>3. CASE i = "flat" /\ todo = Settle(i, R) /\ Table(Old(S), {}, FALSE)
    <3>1. todo = AttachTo(Nil, R) /\ Has(i) = FALSE
      BY <1>8, <2>3, IndexItIs DEF Has
    <3> QED BY <2>2, <2>3, <3>1
  <2>4. CASE PgIndexing(S, i, R)
    <3>1. todo = AttachTo(i, R) /\ Has(i) = TRUE /\ Table(Old(S), {}, TRUE)
      BY <2>4 DEF Has, PgIndexing
    <3> QED BY <2>2, <3>1
  <2> QED BY <1>8, <2>1, <2>3, <2>4
<1>9. ASSUME kind = "qdrant", IsClient,
             \/ todo = Settle(i, R) /\ Table(Old(S), {}, FALSE)
             \/ QdIndexing(S, i, R)
      PROVE  /\ Building(S, i, R)' \/ (todo' = R /\ Built(S, i)')
             /\ UNCHANGED <<doc, load, stage1, up, saved>>
  <2>0. QdIndexing(S, i, R)' /\ IsClient' => Building(S, i, R)'
    BY <1>9 DEF Building
  <2>1. CASE todo = Settle(i, R) /\ Table(Old(S), {}, FALSE)
    <3> DEFINE d == Do("wait_green", Nil = "hnsw")
    <3>1. d.op = "wait_green"
      BY DEF Do
    <3>2. todo = First(d, IndexIt(i, R))
      BY <1>9, <2>1, IndexItIs DEF Green1
    <3> HIDE DEF d
    <3>3. MainOp(d) /\ Tail(todo) = IndexIt(i, R)
      BY <1>1, <3>2, MainIs
    <3>4. Serve(d) /\ Asked1
      BY <3>1, <3>3, RequestIs
    <3>5. UNCHANGED server
      BY <3>1, <3>4, ServeWaitIs
    <3>6. Table(Old(S), {}, FALSE)'
      BY <2>1, <3>5 DEF Table, server, IsTable
    <3>7. IsClient'
      BY <1>9, <3>4 DEF IsClient, Asked1
    <3>8. QdIndexing(S, i, R)'
      BY <1>2, <3>3, <3>4, <3>6 DEF QdIndexing, Asked1
    <3> QED BY <2>0, <3>4, <3>5, <3>7, <3>8 DEF Asked1, server
  <2>2. CASE todo = IndexIt(i, R) /\ Table(Old(S), {}, FALSE)
    <3> DEFINE d == Do("attach", i)
    <3>1. d.op = "attach" /\ d.arg = i
      BY DEF Do
    <3>2. MainOp(d) /\ Tail(todo) = AskIndex(i, R)
      BY <1>1, <1>9, <2>2, IndexItIs, MainIs DEF AttachTo
    <3> HIDE DEF d
    <3>3. /\ todo' = AskIndex(i, R) /\ client' = [client EXCEPT !.index = i]
          /\ UNCHANGED <<server, doc, load, stage1>>
      BY <3>1, <3>2, ClientOpIs
    <3>4. IsClient' /\ client'.index = i
      BY <1>9, <3>3 DEF IsClient
    <3>5. Table(Old(S), {}, FALSE)'
      BY <2>2, <3>3 DEF Table, server, IsTable
    <3>6. QdIndexing(S, i, R)'
      BY <3>3, <3>4, <3>5 DEF QdIndexing
    <3> QED BY <2>0, <3>3, <3>4, <3>6 DEF server
  <2>3. CASE i # "flat" /\ todo = AskIndex(i, R) /\ Table(Old(S), {}, FALSE)
             /\ client.index = i
    <3> DEFINE d == Do("index", Nil)
    <3>1. d.op = "index"
      BY DEF Do
    <3>2. todo = First(d, Green1(i, R))
      BY <2>3 DEF AskIndex
    <3> HIDE DEF d
    <3>3. MainOp(d) /\ Tail(todo) = Green1(i, R)
      BY <1>1, <3>2, MainIs
    <3>4. Serve(d) /\ Asked1
      BY <3>1, <3>3, RequestIs
    <3>5. /\ UNCHANGED <<up, saved>>
          /\ \E b : db' = [db EXCEPT !.index = TRUE, !.gen = b]
      BY <3>1, <3>4, ServeIndexIs
    <3>6. Table(Old(S), {}, TRUE)'
      BY <2>3, <3>5, SetIndex
    <3>7. IsClient' /\ client'.index = i
      BY <1>9, <2>3, <3>4 DEF IsClient, Asked1
    <3>8. Table(Old(S), {}, Has(i))'
      BY <2>3, <3>6 DEF Has
    <3>9. QdIndexing(S, i, R)'
      BY <3>3, <3>4, <3>7, <3>8 DEF QdIndexing, Asked1
    <3> QED BY <2>0, <3>4, <3>5, <3>7, <3>9 DEF Asked1
  <2>4. CASE todo = Green1(i, R) /\ Table(Old(S), {}, Has(i)) /\ client.index = i
    <3> DEFINE d == Do("wait_green", i = "hnsw")
    <3>1. d.op = "wait_green" /\ (d.arg <=> i = "hnsw")
      BY DEF Do
    <3>2. todo = First(d, R)
      BY <2>4 DEF Green1
    <3> HIDE DEF d
    <3>3. MainOp(d) /\ Tail(todo) = R
      BY <3>2, MainIs
    <3>4. Serve(d) /\ Asked1
      BY <3>1, <3>3, RequestIs
    <3>5. UNCHANGED server /\ (i = "hnsw" => db.raw = {})
      BY <3>1, <3>4, ServeWaitIs
    <3>6. Table(Old(S), {}, Has(i))'
      BY <2>4, <3>5 DEF Table, server, IsTable, Has
    <3>7. IsClient' /\ client' = client
      BY <1>9, <3>4 DEF IsClient, Asked1
    <3>8. Shows(i)'
      BY <1>3, <1>9, <2>4, <3>5, <3>7 DEF Shows, Has, server
    <3> QED BY <1>9, <3>3, <3>4, <3>5, <3>6, <3>7, <3>8 DEF Built, Asked1, server
  <2>5. CASE i = "flat" /\ todo = AskIndex(i, R) /\ Table(Old(S), {}, FALSE)
             /\ client.index = i
    <3>1. todo = Green1(i, R) /\ Has(i) = FALSE
      BY <1>9, <2>5 DEF Has, AskIndex
    <3> QED BY <2>4, <2>5, <3>1
  <2> QED BY <1>9, <2>1, <2>2, <2>3, <2>4, <2>5 DEF QdIndexing
<1>10. ASSUME kind = "milvus", IsClient,
              \/ todo = Settle(i, R) /\ Table(Old(S), {}, FALSE)
              \/ MvIndexing(S, i, R)
       PROVE  /\ Building(S, i, R)' \/ (todo' = R /\ Built(S, i)')
              /\ UNCHANGED <<doc, load, stage1, up, saved>>
  <2>0. MvIndexing(S, i, R)' /\ IsClient' => Building(S, i, R)'
    BY <1>10 DEF Building
  <2>1. CASE todo = Settle(i, R) /\ Table(Old(S), {}, FALSE)
    <3> DEFINE d == Do("flush", Nil)
    <3>1. d.op = "flush"
      BY DEF Do
    <3>2. todo = First(d, IndexIt(i, R))
      BY <1>10, <2>1, IndexItIs
    <3> HIDE DEF d
    <3>3. MainOp(d) /\ Tail(todo) = IndexIt(i, R)
      BY <1>1, <3>2, MainIs
    <3>4. Serve(d) /\ Asked1
      BY <3>1, <3>3, RequestIs
    <3>5. UNCHANGED <<up, saved>> /\ db' = [db EXCEPT !.disk = db.live]
      BY <3>1, <3>4, ServeIndexIs
    <3>6. Table(Old(S), {}, FALSE)' /\ db'.disk = Old(S)
      <4>1. db.live = Old(S)
        BY <2>1 DEF Table
      <4> QED BY <2>1, <3>5, <4>1, SetDisk
    <3>7. IsClient'
      BY <1>10, <3>4 DEF IsClient, Asked1
    <3>8. MvIndexing(S, i, R)'
      BY <1>2, <3>3, <3>4, <3>6 DEF MvIndexing, Asked1
    <3> QED BY <2>0, <3>4, <3>5, <3>7, <3>8 DEF Asked1, server
  <2>2. CASE db.disk = Old(S) /\ todo = IndexIt(i, R) /\ Table(Old(S), {}, FALSE)
    <3> DEFINE d == Do("index", Nil)
    <3>1. d.op = "index"
      BY DEF Do
    <3>2. todo = First(d, WaitAndShow(i, R))
      BY <1>10, <2>2, IndexItIs
    <3> HIDE DEF d
    <3>3. MainOp(d) /\ Tail(todo) = WaitAndShow(i, R)
      BY <1>1, <3>2, MainIs
    <3>4. Serve(d) /\ Asked1
      BY <3>1, <3>3, RequestIs
    <3>5. /\ UNCHANGED <<up, saved>>
          /\ \E b : db' = [db EXCEPT !.index = TRUE, !.gen = b]
      BY <3>1, <3>4, ServeIndexIs
    <3>6. Table(Old(S), {}, TRUE)' /\ db'.disk = Old(S)
      BY <2>2, <3>5, SetIndex
    <3>7. IsClient'
      BY <1>10, <3>4 DEF IsClient, Asked1
    <3>8. MvIndexing(S, i, R)'
      BY <3>3, <3>4, <3>6 DEF MvIndexing, Asked1
    <3> QED BY <2>0, <3>4, <3>5, <3>7, <3>8 DEF Asked1
  <2>3. CASE db.disk = Old(S) /\ todo = WaitAndShow(i, R) /\ Table(Old(S), {}, TRUE)
    <3> DEFINE d == Do("wait_indexed", Nil)
    <3>1. d.op = "wait_indexed"
      BY DEF Do
    <3>2. todo = First(d, ShowIt(i, R))
      BY <2>3 DEF WaitAndShow
    <3> HIDE DEF d
    <3>3. MainOp(d) /\ Tail(todo) = ShowIt(i, R)
      BY <1>1, <3>2, MainIs
    <3>4. Serve(d) /\ Asked1
      BY <3>1, <3>3, RequestIs
    <3>5. UNCHANGED server /\ db.raw = {}
      BY <3>1, <3>4, ServeWaitIs
    <3>6. Table(Old(S), {}, TRUE)' /\ db'.disk = Old(S) /\ db'.raw = {}
      BY <2>3, <3>5 DEF Table, server, IsTable
    <3>7. IsClient'
      BY <1>10, <3>4 DEF IsClient, Asked1
    <3>8. MvIndexing(S, i, R)'
      BY <3>3, <3>4, <3>6 DEF MvIndexing, Asked1
    <3> QED BY <2>0, <3>4, <3>5, <3>7, <3>8 DEF Asked1, server
  <2>4. CASE db.disk = Old(S) /\ todo = ShowIt(i, R) /\ Table(Old(S), {}, TRUE)
             /\ db.raw = {}
    <3> DEFINE d == Do("load", Nil)
    <3>1. d.op = "load"
      BY DEF Do
    <3>2. todo = First(d, AttachTo(i, R))
      BY <2>4 DEF ShowIt
    <3> HIDE DEF d
    <3>3. MainOp(d) /\ Tail(todo) = AttachTo(i, R)
      BY <1>1, <3>2, MainIs
    <3>4. Serve(d) /\ Asked1
      BY <3>1, <3>3, RequestIs
    <3>5. UNCHANGED <<up, saved>> /\ db' = [db EXCEPT !.loaded = TRUE, !.seen = db.live,
                                     !.held = db.dead]
      BY <3>1, <3>4, ServeIndexIs
    <3>6. Table(Old(S), {}, TRUE)' /\ db'.disk = Old(S) /\ db'.raw = {}
          /\ db'.seen = db'.live
      BY <1>10, <2>4, <3>5 DEF Table, IsTable
    <3>7. IsClient'
      BY <1>10, <3>4 DEF IsClient, Asked1
    <3>8. MvIndexing(S, i, R)'
      BY <3>3, <3>4, <3>6 DEF MvIndexing, Asked1
    <3> QED BY <2>0, <3>4, <3>5, <3>7, <3>8 DEF Asked1
  <2>5. CASE db.disk = Old(S) /\ todo = AttachTo(i, R) /\ Table(Old(S), {}, TRUE)
             /\ db.raw = {} /\ db.seen = db.live
    <3> DEFINE d == Do("attach", i)
    <3>1. d.op = "attach" /\ d.arg = i
      BY DEF Do
    <3>2. MainOp(d) /\ Tail(todo) = R
      BY <2>5, MainIs DEF AttachTo
    <3> HIDE DEF d
    <3>3. /\ todo' = R /\ client' = [client EXCEPT !.index = i]
          /\ UNCHANGED <<server, doc, load, stage1>>
      BY <3>1, <3>2, ClientOpIs
    <3>4. IsClient' /\ client'.index = i
      BY <1>10, <3>3 DEF IsClient
    <3>5. Table(Old(S), {}, TRUE)'
      BY <2>5, <3>3 DEF Table, server, IsTable
    <3>6. Shows(i)' /\ Has(i)' = TRUE
      BY <1>10, <2>5, <3>3, <3>4 DEF Shows, Has, server
    <3> QED BY <2>5, <3>3, <3>4, <3>5, <3>6 DEF Built, server
  <2> QED BY <1>10, <2>1, <2>2, <2>3, <2>4, <2>5 DEF MvIndexing
<1>11. CASE IsClient /\ Filling(S, i, R)
  <2>1. PICK k \in 0 .. m : /\ todo = Left(PutAll(S, 0), k, Settle(i, R))
                            /\ Table(Old(Done(S, k)), {}, FALSE)
    BY <1>11 DEF Filling, m
  <2>2. CASE k # m
    BY <1>6, <1>11, <2>1, <2>2
  <2>3. CASE k = m
    <3>1. todo = Settle(i, R) /\ Table(Old(S), {}, FALSE)
      BY <1>7, <2>1, <2>3
    <3> QED BY <1>8, <1>9, <1>10, <1>11, <3>1 DEF Db
  <2> QED BY <2>2, <2>3
<1> QED BY <1>4, <1>5, <1>8, <1>9, <1>10, <1>11 DEF Building

LEMMA TableBack ==
    ASSUME NEW L, NEW D, NEW i, Table(L, D, Has(i)), Behind, kind' = kind
    PROVE  Table(L, D, Has(i))'
<1>1. PICK ix : ix = Has(i)
  OBVIOUS
<1>2. Table(L, D, ix)
  BY <1>1 DEF Table
<1>3. Table(L, D, ix)'
  BY <1>2, BackgroundIs
<1>4. Has(i)' = ix
  BY <1>1 DEF Has
<1> QED BY <1>3, <1>4 DEF Table

\* What the server does in the background leaves the client where it is.
LEMMA BuildBack ==
    ASSUME Db, NEW S \in SUBSET Row, NEW i, NEW R, kind' = kind,
           Behind, UNCHANGED <<todo, client>>
    PROVE  /\ Building(S, i, R) => Building(S, i, R)'
           /\ Built(S, i) => Built(S, i)'
<1>1. /\ IndexIt(i, R)' = IndexIt(i, R) /\ Settle(i, R)' = Settle(i, R)
      /\ Fill(S, i, R)' = Fill(S, i, R) /\ Forget(S, i, R)' = Forget(S, i, R)
      /\ Renew(S, i, R)' = Renew(S, i, R) /\ Build(S, i, R)' = Build(S, i, R)
      /\ (IsClient => IsClient')
  BY RestsSame DEF IsClient
<1>2. ASSUME NEW L, NEW D, NEW ix, Table(L, D, ix)
      PROVE  /\ Table(L, D, ix)' /\ db.live = L /\ db'.live = L
             /\ db'.raw \in {db.raw, {}} /\ db'.seen \in {db.seen, L}
             /\ db'.disk = db.disk
  <2>1. db.live = L
    BY <1>2 DEF Table
  <2>2. /\ Table(L, D, ix)' /\ db'.raw \in {db.raw, {}}
        /\ db'.seen \in {db.seen, L} /\ db'.disk = db.disk
    BY <1>2, BackgroundIs
  <2>3. db'.live = L
    BY <2>2 DEF Table
  <2> QED BY <2>1, <2>2, <2>3
<1>3. Emptying(S, i, R) => Emptying(S, i, R)'
  BY <1>1 DEF Emptying
<1>4. ASSUME Filling(S, i, R) PROVE Filling(S, i, R)'
  <2>1. PICK k \in 0 .. Cardinality(S) :
           /\ todo = Left(PutAll(S, 0), k, Settle(i, R))
           /\ Table(Old(Done(S, k)), {}, FALSE)
    BY <1>4 DEF Filling
  <2>2. Table(Old(Done(S, k)), {}, FALSE)'
    BY <1>2, <2>1
  <2>3. todo' = Left(PutAll(S, 0), k, Settle(i, R)')
    BY <1>1, <2>1
  <2> QED BY <2>2, <2>3 DEF Filling
<1>5. ASSUME PgIndexing(S, i, R) PROVE PgIndexing(S, i, R)'
  <2>1. Table(Old(S), {}, TRUE)'
    BY <1>2, <1>5 DEF PgIndexing
  <2> QED BY <1>5, <2>1 DEF PgIndexing
<1>6. ASSUME QdIndexing(S, i, R) PROVE QdIndexing(S, i, R)'
  <2>1. /\ Table(Old(S), {}, FALSE) => Table(Old(S), {}, FALSE)'
        /\ Table(Old(S), {}, Has(i)) => Table(Old(S), {}, Has(i))'
    <3>1. Table(Old(S), {}, FALSE) => Table(Old(S), {}, FALSE)'
      BY <1>2
    <3>2. Table(Old(S), {}, Has(i)) => Table(Old(S), {}, Has(i))'
      BY TableBack
    <3> QED BY <3>1, <3>2
  <2> QED BY <1>1, <1>6, <2>1 DEF QdIndexing
<1>7. ASSUME MvIndexing(S, i, R) PROVE MvIndexing(S, i, R)'
  <2>1. PICK ix \in BOOLEAN : Table(Old(S), {}, ix)
    BY <1>7 DEF MvIndexing
  <2>2. db'.disk = db.disk /\ (db.raw = {} => db'.raw = {})
        /\ (db.seen = db.live => db'.seen = db'.live)
    BY <1>2, <2>1
  <2>3. /\ Table(Old(S), {}, FALSE) => Table(Old(S), {}, FALSE)'
        /\ Table(Old(S), {}, TRUE) => Table(Old(S), {}, TRUE)'
    BY <1>2
  <2> QED BY <1>1, <1>7, <2>2, <2>3 DEF MvIndexing
<1>8. ASSUME Built(S, i) PROVE Built(S, i)'
  <2>1. Table(Old(S), {}, Has(i))'
    BY <1>8, TableBack DEF Built
  <2>2. PICK ix : ix = Has(i)
    OBVIOUS
  <2>3. Table(Old(S), {}, ix)
    BY <1>8, <2>2 DEF Built, Table
  <2>4. /\ db.live = db'.live /\ db'.disk = db.disk
        /\ db'.raw \in {db.raw, {}} /\ db'.seen \in {db.seen, db.live}
    BY <1>2, <2>3
  <2>5. Shows(i)'
    BY <1>8, <2>4 DEF Shows, Has, Built
  <2> QED BY <1>1, <1>8, <2>1, <2>4, <2>5 DEF Built
<1> QED BY <1>1, <1>3, <1>4, <1>5, <1>6, <1>7, <1>8 DEF Building



-----------------------------------------------------------------------------
(* The requests of a step, one lemma for each of them.                     *)

Aside == <<client, doc, load, stage1>>

LEMMA AutoIs ==
    ASSUME NEW a, NEW N, IsSeq(N), todo = First(Do("auto", a), N), Main
    PROVE  /\ todo' = N /\ UNCHANGED <<up, saved>> /\ UNCHANGED Aside
           /\ db' = [db EXCEPT !.auto = a]
<1> DEFINE d == Do("auto", a)
<1>1. d.op = "auto" /\ d.arg = a /\ todo = First(d, N)
  BY DEF Do
<1> HIDE DEF d
<1>2. MainOp(d) /\ Tail(todo) = N
  BY <1>1, MainIs
<1>3. Serve(d) /\ Asked1
  BY <1>1, <1>2, RequestIs
<1> QED BY <1>1, <1>2, <1>3, ServeTableIs DEF Asked1, Aside

LEMMA PutIs ==
    ASSUME NEW a, NEW N, IsSeq(N), todo = First(Do("put", a), N), Main
    PROVE  /\ todo' = N /\ UNCHANGED <<up, saved>> /\ UNCHANGED Aside
           /\ db' = Changed(VersionsOf({v[1] : v \in a}), a)
<1> DEFINE d == Do("put", a)
<1>1. d.op = "put" /\ d.arg = a /\ todo = First(d, N)
  BY DEF Do
<1> HIDE DEF d
<1>2. MainOp(d) /\ Tail(todo) = N
  BY <1>1, MainIs
<1>3. Serve(d) /\ Asked1
  BY <1>1, <1>2, RequestIs
<1>4. UNCHANGED <<up, saved>> /\ db' = Changed(VersionsOf({v[1] : v \in d.arg}), d.arg)
  BY <1>1, <1>3, ServeTableIs
<1> QED BY <1>1, <1>2, <1>3, <1>4 DEF Asked1, Aside

LEMMA DeleteIs ==
    ASSUME NEW a, NEW N, IsSeq(N), todo = First(Do("delete", a), N), Main
    PROVE  /\ todo' = N /\ UNCHANGED <<up, saved>> /\ UNCHANGED Aside
           /\ db' = Changed(VersionsOf(a), {})
<1> DEFINE d == Do("delete", a)
<1>1. d.op = "delete" /\ d.arg = a /\ todo = First(d, N)
  BY DEF Do
<1> HIDE DEF d
<1>2. MainOp(d) /\ Tail(todo) = N
  BY <1>1, MainIs
<1>3. Serve(d) /\ Asked1
  BY <1>1, <1>2, RequestIs
<1> QED BY <1>1, <1>2, <1>3, ServeTableIs DEF Asked1, Aside

LEMMA FlushIs ==
    ASSUME NEW a, NEW N, IsSeq(N), todo = First(Do("flush", a), N), Main
    PROVE  /\ todo' = N /\ UNCHANGED <<up, saved>> /\ UNCHANGED Aside
           /\ db' = [db EXCEPT !.disk = db.live]
<1> DEFINE d == Do("flush", a)
<1>1. d.op = "flush" /\ todo = First(d, N)
  BY DEF Do
<1> HIDE DEF d
<1>2. MainOp(d) /\ Tail(todo) = N
  BY <1>1, MainIs
<1>3. Serve(d) /\ Asked1
  BY <1>1, <1>2, RequestIs
<1> QED BY <1>1, <1>2, <1>3, ServeIndexIs DEF Asked1, Aside

LEMMA VacuumIs ==
    ASSUME NEW a, NEW N, IsSeq(N), todo = First(Do("vacuum", a), N), Main
    PROVE  /\ todo' = N /\ UNCHANGED <<up, saved>> /\ UNCHANGED Aside
           /\ db' = [db EXCEPT !.dead = {}, !.held = {}]
<1> DEFINE d == Do("vacuum", a)
<1>1. d.op = "vacuum" /\ todo = First(d, N)
  BY DEF Do
<1> HIDE DEF d
<1>2. MainOp(d) /\ Tail(todo) = N
  BY <1>1, MainIs
<1>3. Serve(d) /\ Asked1
  BY <1>1, <1>2, RequestIs
<1> QED BY <1>1, <1>2, <1>3, ServeIndexIs DEF Asked1, Aside

LEMMA ReindexIs ==
    ASSUME NEW a, NEW N, IsSeq(N), todo = First(Do("reindex", a), N), Main
    PROVE  /\ todo' = N /\ UNCHANGED <<up, saved>> /\ UNCHANGED Aside
           /\ db' = [db EXCEPT !.gen = db.gen + 1]
<1> DEFINE d == Do("reindex", a)
<1>1. d.op = "reindex" /\ todo = First(d, N)
  BY DEF Do
<1> HIDE DEF d
<1>2. MainOp(d) /\ Tail(todo) = N
  BY <1>1, MainIs
<1>3. Serve(d) /\ Asked1
  BY <1>1, <1>2, RequestIs
<1> QED BY <1>1, <1>2, <1>3, ServeIndexIs DEF Asked1, Aside

LEMMA GreenIs ==
    ASSUME NEW i, NEW N, IsSeq(N), todo = Green1(i, N), Main
    PROVE  /\ todo' = N /\ UNCHANGED server /\ UNCHANGED Aside
           /\ Green /\ (i = "hnsw" => db.raw = {})
<1> DEFINE d == Do("wait_green", i = "hnsw")
<1>1. d.op = "wait_green" /\ (d.arg <=> i = "hnsw") /\ todo = First(d, N)
  BY DEF Do, Green1
<1> HIDE DEF d
<1>2. MainOp(d) /\ Tail(todo) = N
  BY <1>1, MainIs
<1>3. Serve(d) /\ Asked1
  BY <1>1, <1>2, RequestIs
<1>4. UNCHANGED server /\ Green /\ (d.arg => db.raw = {})
  BY <1>1, <1>3, ServeWaitIs
<1> QED BY <1>1, <1>2, <1>3, <1>4 DEF Asked1, Aside

LEMMA IndexedIs ==
    ASSUME NEW a, NEW N, IsSeq(N), todo = First(Do("wait_indexed", a), N), Main
    PROVE  /\ todo' = N /\ UNCHANGED server /\ UNCHANGED Aside
           /\ db.raw = {}
<1> DEFINE d == Do("wait_indexed", a)
<1>1. d.op = "wait_indexed" /\ todo = First(d, N)
  BY DEF Do
<1> HIDE DEF d
<1>2. MainOp(d) /\ Tail(todo) = N
  BY <1>1, MainIs
<1>3. Serve(d) /\ Asked1
  BY <1>1, <1>2, RequestIs
<1> QED BY <1>1, <1>2, <1>3, ServeWaitIs DEF Asked1, Aside

LEMMA HandedIs ==
    ASSUME NEW a, NEW N, IsSeq(N), todo = First(Do("wait_handed", a), N), Main
    PROVE  /\ todo' = N /\ UNCHANGED server /\ UNCHANGED Aside
           /\ db.held = db.dead
<1> DEFINE d == Do("wait_handed", a)
<1>1. d.op = "wait_handed" /\ todo = First(d, N)
  BY DEF Do
<1> HIDE DEF d
<1>2. MainOp(d) /\ Tail(todo) = N
  BY <1>1, MainIs
<1>3. Serve(d) /\ Asked1
  BY <1>1, <1>2, RequestIs
<1> QED BY <1>1, <1>2, <1>3, ServeWaitIs DEF Asked1, Aside

LEMMA StrongIs ==
    ASSUME NEW a, NEW N, IsSeq(N), todo = First(Do("strong", a), N), Main
    PROVE  /\ todo' = N /\ UNCHANGED <<server, doc, load, stage1>>
           /\ client' = [client EXCEPT !.strong = TRUE]
<1> DEFINE d == Do("strong", a)
<1>1. d.op = "strong" /\ todo = First(d, N)
  BY DEF Do
<1> HIDE DEF d
<1>2. MainOp(d) /\ Tail(todo) = N
  BY <1>1, MainIs
<1> QED BY <1>1, <1>2, ClientOpIs

LEMMA SearchIs ==
    ASSUME NEW p, NEW N, IsSeq(N), todo = First(Do("search", p), N), Main
    PROVE  /\ todo' = N /\ UNCHANGED <<server, client, load, stage1>>
           /\ up /\ db # Nil /\ db.loaded
           /\ doc' = [doc EXCEPT !.searches = doc.searches \cup {Answer(p, client)}]
<1> DEFINE d == Do("search", p)
<1>1. d.op = "search" /\ d.arg = p /\ todo = First(d, N)
  BY DEF Do
<1> HIDE DEF d
<1>2. MainOp(d) /\ Tail(todo) = N
  BY <1>1, MainIs
<1> QED BY <1>1, <1>2, DocOpIs

LEMMA JobIs ==
    ASSUME NEW n, NEW N, IsSeq(N), todo = First(Do("compact_job", n), N), Main
    PROVE  \E dead \in {db.dead, {}} :
              /\ todo' = IF dead = {} \/ n = 1 THEN N
                         ELSE First(Do("compact_job", n - 1), N)
              /\ \E raw : db' = [db EXCEPT !.dead = dead, !.raw = raw]
              /\ doc' = [doc EXCEPT !.left = Cardinality(dead)]
              /\ UNCHANGED <<up, saved, client, load, stage1>>
<1> DEFINE d == Do("compact_job", n)
<1>1. d.op = "compact_job" /\ d.arg = n /\ todo = First(d, N)
  BY DEF Do
<1>2. Do(d.op, d.arg - 1) = Do("compact_job", n - 1)
  BY <1>1
<1> HIDE DEF d
<1>3. MainOp(d) /\ Tail(todo) = N
  BY <1>1, MainIs
<1>4. CompactJob(d)
  BY <1>1, <1>3, OtherOpIs
<1> DEFINE dead == IF db.l0 THEN db.dead ELSE {}
           raw == IF dead = db.dead THEN db.raw ELSE db.live
<1>5. /\ db' = [db EXCEPT !.dead = dead, !.raw = raw]
      /\ UNCHANGED <<up, saved>>
      /\ todo' = IF dead = {} \/ d.arg = 1 THEN Tail(todo)
                 ELSE << Do(d.op, d.arg - 1) >> \o Tail(todo)
      /\ doc' = [doc EXCEPT !.left = Cardinality(dead)]
      /\ UNCHANGED <<client, load, stage1>>
  BY <1>4, Zenon DEF CompactJob
<1>6. dead \in {db.dead, {}}
  OBVIOUS
<1> HIDE DEF dead, raw
<1>7. todo' = IF dead = {} \/ n = 1 THEN N ELSE First(Do("compact_job", n - 1), N)
  BY <1>1, <1>2, <1>3, <1>5, Zenon DEF First
<1> QED BY <1>5, <1>6, <1>7

-----------------------------------------------------------------------------
(* The changes, the compaction and the timed searches of a case.           *)

BenchCase(c) ==
    /\ c.prog = "bench" /\ c.index \in Indexes
    /\ c.change \in {"none", "delete", "update"} /\ c.compact \in BOOLEAN
    /\ c.compact => c.change = "delete"

\* The rows the case changes, and the versions that live once X are changed.
ChangedBy(c) == IF c.change = "delete" THEN Gone
          ELSE IF c.change = "update" THEN Renewed ELSE {}

LiveOf(c, X) == Old(Row \ X) \cup (IF c.change = "update" THEN New(X) ELSE {})

Timed(k) == Left(RunSearch("timed"), k, << >>)

Cleaned == First(Do("auto", "on"), Timed(0))

Again(i) == IF i = "flat" THEN Cleaned ELSE First(Do("reindex", Nil), Cleaned)

Handed == First(Do("wait_handed", Nil), Timed(0))

Merged == First(Do("wait_indexed", Nil), Handed)

Jobs(n) == First(Do("compact_job", n), Merged)

Compacting(i) ==
    CASE kind = "pgvector" -> First(Do("vacuum", Nil), Again(i))
      [] kind = "qdrant"   -> First(Do("auto", "low"), Green1(i, Timed(0)))
      [] kind = "milvus"   -> Jobs(Rounds)

After(c) == IF c.compact THEN Compacting(c.index) ELSE Timed(0)

\* The requests that change the rows: Postgres has one, the others batches.
Calls(c) ==
    IF kind = "pgvector"
    THEN IF c.change = "delete" THEN << Do("delete", Gone) >>
                                ELSE << Do("put", New(Renewed)) >>
    ELSE IF c.change = "delete" THEN DeleteAll(Gone) ELSE PutAll(Renewed, 1)

Wait1(c) ==
    IF c.change # "update" \/ kind = "pgvector" THEN After(c)
    ELSE IF kind = "qdrant" THEN Green1(c.index, After(c))
                            ELSE First(Do("wait_indexed", Nil), After(c))

Written(c) == IF kind = "milvus" THEN First(Do("flush", Nil), Wait1(c))
                                 ELSE Wait1(c)

Called(c, k) == Left(Calls(c), k, Written(c))

Careful(c) == IF kind = "milvus" THEN First(Do("strong", Nil), Called(c, 0))
                                 ELSE Called(c, 0)

Changing(c) == IF c.change = "none" THEN After(c)
               ELSE First(Do("auto", "off"), Careful(c))

LEMMA CompactingIs ==
    ASSUME NEW i
    PROVE  /\ kind = "pgvector" => Compacting(i) = First(Do("vacuum", Nil), Again(i))
           /\ kind = "qdrant" =>
                 Compacting(i) = First(Do("auto", "low"), Green1(i, Timed(0)))
           /\ kind = "milvus" => Compacting(i) = Jobs(Rounds)
BY Zenon DEF Compacting

\* The rows that the first k requests change.
Touched(c, k) ==
    IF kind = "pgvector" THEN IF k = 0 THEN {} ELSE ChangedBy(c) ELSE Done(ChangedBy(c), k)

\* A request changes some of the rows that the earlier ones left.
OneCall(c, k, n) ==
    \E T \in SUBSET Row :
        /\ T \cap Touched(c, k) = {} /\ Touched(c, n) = Touched(c, k) \cup T
        /\ Calls(c)[n] = IF c.change = "delete" THEN Do("delete", T)
                                                ELSE Do("put", T \X {1})

LEMMA HitIs ==
    ASSUME NEW c PROVE ChangedBy(c) \in SUBSET Row /\ IsFiniteSet(ChangedBy(c))
<1>1. ChangedBy(c) \in SUBSET Row
  BY BenchAssumption DEF ChangedBy
<1> QED BY <1>1, BatchesAre

LEMMA CallsIs ==
    ASSUME Db, NEW c, BenchCase(c), c.change # "none"
    PROVE  /\ IsSeq(Calls(c))
           /\ Touched(c, 0) = {} /\ Touched(c, Len(Calls(c))) = ChangedBy(c)
           /\ \A k \in 0 .. Len(Calls(c)) : k # Len(Calls(c)) =>
                 OneCall(c, k, k + 1)
<1>1. ChangedBy(c) \in SUBSET Row /\ Gone \in SUBSET Row /\ Renewed \in SUBSET Row
  BY BenchAssumption, HitIs
<1>2. c.change \in {"delete", "update"}
  BY DEF BenchCase
<1>3. CASE kind = "pgvector"
  <2>1. \A s : IsSeq(<< s >>) /\ Len(<< s >>) = 1 /\ << s >>[1] = s
    BY OneIs
  <2> DEFINE s == IF c.change = "delete" THEN Do("delete", ChangedBy(c))
                                         ELSE Do("put", ChangedBy(c) \X {1})
  <2>2. Calls(c) = << s >>
    BY <1>2, <1>3 DEF Calls, ChangedBy, New
  <2>3. IsSeq(Calls(c)) /\ Len(Calls(c)) = 1 /\ Calls(c)[1] = s
    <3> HIDE DEF s
    <3> QED BY <2>1, <2>2
  <2>4. Touched(c, 0) = {} /\ Touched(c, 1) = ChangedBy(c)
    BY <1>3 DEF Touched
  <2>5. OneCall(c, 0, 1)
    <3>1. ChangedBy(c) \cap Touched(c, 0) = {} /\ Touched(c, 1) = Touched(c, 0) \cup ChangedBy(c)
      BY <2>4
    <3> QED BY <1>1, <2>3, <3>1 DEF OneCall
  <2>6. \A k \in 0 .. 1 : k # 1 => k = 0 /\ k + 1 = 1
    OBVIOUS
  <2> QED BY <2>3, <2>4, <2>5, <2>6
<1>4. CASE kind # "pgvector"
  <2> DEFINE S == ChangedBy(c)
             m == Cardinality(S)
             del == c.change = "delete"
  <2>1. Calls(c) = IF del THEN DeleteAll(S) ELSE PutAll(S, 1)
    BY <1>2, <1>4 DEF Calls, ChangedBy
  <2>2. \A k : Touched(c, k) = Done(S, k)
    BY <1>4 DEF Touched
  <2>3. /\ IsSeq(PutAll(S, 1)) /\ Len(PutAll(S, 1)) = m
        /\ \A j \in 1 .. m : PutAll(S, 1)[j] = Do("put", Batches(S)[j] \X {1})
        /\ IsSeq(DeleteAll(S)) /\ Len(DeleteAll(S)) = m
        /\ \A j \in 1 .. m : DeleteAll(S)[j] = Do("delete", Batches(S)[j])
    <3> HIDE DEF S
    <3>1. S \in SUBSET Row
      BY <1>1 DEF S
    <3> QED BY <3>1, CallsAre
  <2>4. /\ Done(S, 0) = {} /\ Done(S, m) = S
        /\ \A k \in 0 .. m : k # m =>
             /\ k + 1 \in 0 .. m
             /\ \E r \in S : /\ r \notin Done(S, k) /\ Batches(S)[k + 1] = {r}
                             /\ Done(S, k + 1) = Done(S, k) \cup {r}
    <3> HIDE DEF S
    <3>1. S \in SUBSET Row
      BY <1>1 DEF S
    <3> QED BY <3>1, DoneIs
  <2>5. m \in Nat
    BY <1>1, BatchesAre
  <2>6. S \in SUBSET Row
    BY <1>1
  <2> HIDE DEF S, m, del
  <2>7. IsSeq(Calls(c)) /\ Len(Calls(c)) = m
        /\ \A j \in 1 .. m : Calls(c)[j] = IF del THEN Do("delete", Batches(S)[j])
                                           ELSE Do("put", Batches(S)[j] \X {1})
    BY <2>1, <2>3
  <2>8. ASSUME NEW k \in 0 .. m, k # m PROVE OneCall(c, k, k + 1)
    <3> DEFINE n == k + 1
    <3>1. n \in 1 .. m
      BY <2>5, <2>8
    <3>2. PICK r \in S : /\ r \notin Done(S, k) /\ Batches(S)[n] = {r}
                         /\ Done(S, n) = Done(S, k) \cup {r}
      BY <2>4, <2>8
    <3> HIDE DEF n
    <3>3. Calls(c)[n] = IF del THEN Do("delete", {r}) ELSE Do("put", {r} \X {1})
      BY <2>7, <3>1, <3>2
    <3>4. {r} \in SUBSET Row /\ {r} \cap Touched(c, k) = {}
          /\ Touched(c, n) = Touched(c, k) \cup {r}
      BY <2>2, <2>6, <3>2
    <3>5. OneCall(c, k, n)
      BY <3>3, <3>4, Zenon DEF OneCall, del
    <3> QED BY <3>5 DEF n
  <2>9. Touched(c, 0) = {} /\ Touched(c, m) = S
    BY <2>2, <2>4
  <2> QED BY <2>7, <2>8, <2>9 DEF S
<1> QED BY <1>3, <1>4

LEMMA RestsBench ==
    ASSUME Db, NEW c, BenchCase(c)
    PROVE  /\ IsSeq(Timed(0)) /\ Timed(0) = RunSearch("timed")
           /\ IsSeq(Cleaned) /\ IsSeq(Again(c.index)) /\ IsSeq(Green1(c.index, Timed(0)))
           /\ IsSeq(Handed) /\ IsSeq(Merged) /\ (\A n : IsSeq(Jobs(n)))
           /\ IsSeq(After(c)) /\ IsSeq(Wait1(c)) /\ IsSeq(Written(c))
           /\ c.change # "none" => IsSeq(Called(c, 0)) /\ IsSeq(Careful(c))
                                     /\ Called(c, 0) = Calls(c) \o Written(c)
           /\ IsSeq(Changing(c))
<1>1. IsSeq(Timed(0)) /\ Timed(0) = RunSearch("timed")
  <2> DEFINE f == RunSearch("timed")
             e == << >>
  <2>1. IsSeq(f) /\ IsSeq(e) /\ f \o e = f /\ Len(f) \in Nat
    <3>1. IsSeq(f) /\ IsSeq(e)
      BY RunSearchIs, NoneIs
    <3> HIDE DEF f
    <3>2. f \o e = f /\ Len(f) \in Nat
      BY <3>1, NoneIs DEF IsSeq
    <3> QED BY <3>1, <3>2
  <2> HIDE DEF f, e
  <2>2. 0 \in 0 .. Len(f)
    BY <2>1
  <2>3. IsSeq(Left(f, 0, e)) /\ Left(f, 0, e) = f \o e
    BY <2>1, <2>2, FromIs
  <2>4. Left(f, 0, e) = f
    BY <2>1, <2>3, Zenon
  <2> QED BY <2>1, <2>4, Zenon DEF Timed, f, e
<1>2. IsSeq(Cleaned)
  BY <1>1, FirstIs DEF Cleaned
<1>3. IsSeq(Again(c.index))
  BY <1>2, FirstIs DEF Again
<1>4. IsSeq(Green1(c.index, Timed(0)))
  BY <1>1, FirstIs DEF Green1
<1>5. IsSeq(Handed)
  BY <1>1, FirstIs DEF Handed
<1>6. IsSeq(Merged)
  BY <1>5, FirstIs DEF Merged
<1>7. \A n : IsSeq(Jobs(n))
  BY <1>6, FirstIs DEF Jobs
<1>8. IsSeq(Compacting(c.index))
  <2>1. IsSeq(First(Do("vacuum", Nil), Again(c.index)))
    BY <1>3, FirstIs
  <2>2. IsSeq(First(Do("auto", "low"), Green1(c.index, Timed(0))))
    BY <1>4, FirstIs
  <2> QED BY <1>7, <2>1, <2>2, CompactingIs DEF Db
<1>9. IsSeq(After(c))
  BY <1>1, <1>8 DEF After
<1>10. IsSeq(Wait1(c))
  <2>1. IsSeq(Green1(c.index, After(c))) /\ IsSeq(First(Do("wait_indexed", Nil), After(c)))
    BY <1>9, FirstIs DEF Green1
  <2> QED BY <1>9, <2>1 DEF Wait1
<1>11. IsSeq(Written(c))
  BY <1>10, FirstIs DEF Written
<1>12. ASSUME c.change # "none"
       PROVE  IsSeq(Called(c, 0)) /\ Called(c, 0) = Calls(c) \o Written(c)
  <2> DEFINE f == Calls(c)
             e == Written(c)
  <2>1. IsSeq(f) /\ IsSeq(e)
    BY <1>11, <1>12, CallsIs
  <2> HIDE DEF f, e
  <2>2. 0 \in 0 .. Len(f)
    BY <2>1 DEF IsSeq
  <2>3. IsSeq(Left(f, 0, e)) /\ Left(f, 0, e) = f \o e
    BY <2>1, <2>2, FromIs
  <2> QED BY <2>3, Zenon DEF Called, f, e
<1>13. c.change # "none" => IsSeq(Careful(c))
  BY <1>12, FirstIs DEF Careful
<1>14. IsSeq(Changing(c))
  BY <1>9, <1>13, FirstIs DEF Changing
<1> QED BY <1>1, <1>2, <1>3, <1>4, <1>5, <1>6, <1>7, <1>9, <1>10, <1>11, <1>12, <1>13,
           <1>14

LEMMA CompactIs ==
    ASSUME Db, NEW i, NEW R, IsSeq(R), R = Timed(0)
    PROVE  IsSeq(Compact(i)) /\ Compact(i) \o R = Compacting(i)
<1>1. CASE kind = "pgvector"
  <2> DEFINE a == << Do("vacuum", Nil) >>
             b == IF i = "flat" THEN << >> ELSE << Do("reindex", Nil) >>
             g == << Do("auto", "on") >>
  <2>1. Compact(i) = (a \o b) \o g
    <3>1. Compact(i) = Pg!Compact(i)
      BY <1>1, OfIs DEF Compact
    <3>2. Pg!Compact(i) = (a \o b) \o g
      BY DEF Pg!Compact, Pg!Do, Do
    <3> QED BY <3>1, <3>2
  <2>2. IsSeq(a) /\ IsSeq(b) /\ IsSeq(g)
    BY OneIs, NoneIs
  <2>3. g \o R = Cleaned /\ IsSeq(Cleaned)
    BY FirstIs DEF Cleaned, First
  <2>4. b \o Cleaned = Again(i)
    BY <2>3, NoneIs DEF Again, First
  <2>5. a \o Again(i) = Compacting(i)
    BY <1>1, CompactingIs DEF First
  <2> HIDE DEF a, b, g
  <2>6. IsSeq((a \o b) \o g) /\ ((a \o b) \o g) \o R = a \o (b \o (g \o R))
    BY <2>2, JoinFour
  <2> QED BY <2>1, <2>3, <2>4, <2>5, <2>6
<1>2. CASE kind = "qdrant"
  <2>1. Compact(i) = << Do("auto", "low") >> \o << Do("wait_green", i = "hnsw") >>
    <3>1. Compact(i) = Qd!Compact(i)
      BY <1>2, OfIs DEF Compact
    <3>2. Qd!Compact(i) = << Do("auto", "low") >> \o << Do("wait_green", i = "hnsw") >>
      BY DEF Qd!Compact, Qd!WaitGreen, Qd!Do, Do
    <3> QED BY <3>1, <3>2
  <2> DEFINE a == << Do("auto", "low") >>
             g == << Do("wait_green", i = "hnsw") >>
  <2>2. IsSeq(a) /\ IsSeq(g)
    BY OneIs
  <2>3. g \o R = Green1(i, R)
    BY DEF Green1, First
  <2>4. a \o Green1(i, R) = Compacting(i)
    BY <1>2, CompactingIs DEF First
  <2>5. Compact(i) = a \o g
    BY <2>1
  <2> HIDE DEF a, g
  <2>6. IsSeq(a \o g) /\ (a \o g) \o R = a \o (g \o R)
    BY <2>2, JoinAgain, JoinIs
  <2> QED BY <2>3, <2>4, <2>5, <2>6
<1>3. CASE kind = "milvus"
  <2> DEFINE a == << Do("compact_job", Rounds) >>
             b == << Do("wait_indexed", Nil) >>
             g == << Do("wait_handed", Nil) >>
  <2>1. Compact(i) = (a \o b) \o g
    <3>1. Compact(i) = Mv!Compact
      BY <1>3, OfIs DEF Compact
    <3>2. Mv!Compact = (a \o b) \o g
      BY DEF Mv!Compact, Mv!WaitIndexed, Mv!Do, Do
    <3> QED BY <3>1, <3>2
  <2>2. IsSeq(a) /\ IsSeq(b) /\ IsSeq(g)
    BY OneIs
  <2>3. g \o R = Handed
    BY DEF Handed, First
  <2>4. b \o Handed = Merged
    BY DEF Merged, First
  <2>5. a \o Merged = Compacting(i)
    BY <1>3, CompactingIs DEF First, Jobs
  <2> HIDE DEF a, b, g
  <2>6. IsSeq((a \o b) \o g) /\ ((a \o b) \o g) \o R = a \o (b \o (g \o R))
    BY <2>2, JoinFour
  <2> QED BY <2>1, <2>3, <2>4, <2>5, <2>6
<1> QED BY <1>1, <1>2, <1>3 DEF Db

\* The calls of the changes.
Apply(c) ==
    CASE c.change = "delete" -> Delete(Gone)
      [] c.change = "update" -> Update(Renewed, c.index)
      [] OTHER -> << >>

LEMMA DeleteCallsAre ==
    /\ kind = "pgvector" =>
          Delete(Gone) = << Do("auto", "off") >> \o << Do("delete", Gone) >>
    /\ kind = "qdrant" => Delete(Gone) = << Do("auto", "off") >> \o DeleteAll(Gone)
    /\ kind = "milvus" =>
          Delete(Gone) = (<< Do("auto", "off"), Do("strong", Nil) >>
                            \o DeleteAll(Gone)) \o << Do("flush", Nil) >>
<1>1. kind = "pgvector" => Delete(Gone) = Pg!Delete(Gone)
  BY OfIs DEF Delete
<1>2. kind = "qdrant" => Delete(Gone) = Qd!Delete(Gone)
  BY OfIs DEF Delete
<1>3. kind = "milvus" => Delete(Gone) = Mv!Delete(Gone)
  BY OfIs DEF Delete
<1>4. Pg!Delete(Gone) = << Do("auto", "off") >> \o << Do("delete", Gone) >>
  BY DEF Pg!Delete, Pg!AutovacuumOff, Pg!Do, Do
<1>5. Qd!Delete(Gone) = << Do("auto", "off") >> \o DeleteAll(Gone)
  BY SameCalls DEF Qd!Delete, Qd!VacuumOff, Qd!Do, Do
<1>6. Mv!Delete(Gone) = (<< Do("auto", "off"), Do("strong", Nil) >>
                            \o DeleteAll(Gone)) \o << Do("flush", Nil) >>
  BY SameCalls DEF Mv!Delete, Mv!PrepareChange, Mv!Flush, Mv!Do, Do
<1> QED BY <1>1, <1>2, <1>3, <1>4, <1>5, <1>6

LEMMA UpdateCallsAre ==
    ASSUME NEW i
    PROVE
    /\ kind = "pgvector" => Update(Renewed, i) =
          << Do("auto", "off") >> \o << Do("put", New(Renewed)) >>
    /\ kind = "qdrant" => Update(Renewed, i) =
          (<< Do("auto", "off") >> \o PutAll(Renewed, 1))
              \o << Do("wait_green", i = "hnsw") >>
    /\ kind = "milvus" => Update(Renewed, i) =
          ((<< Do("auto", "off"), Do("strong", Nil) >> \o PutAll(Renewed, 1))
              \o << Do("flush", Nil) >>) \o << Do("wait_indexed", Nil) >>
<1>1. kind = "pgvector" => Update(Renewed, i) = Pg!Update(Renewed)
  BY OfIs DEF Update
<1>2. kind = "qdrant" => Update(Renewed, i) = Qd!Update(Renewed, i)
  BY OfIs DEF Update
<1>3. kind = "milvus" => Update(Renewed, i) = Mv!Update(Renewed)
  BY OfIs DEF Update
<1>4. Pg!Update(Renewed) = << Do("auto", "off") >> \o << Do("put", New(Renewed)) >>
  BY DEF Pg!Update, Pg!AutovacuumOff, Pg!Do, Do, Pg!New, New
<1>5. Qd!Update(Renewed, i) = (<< Do("auto", "off") >> \o PutAll(Renewed, 1))
              \o << Do("wait_green", i = "hnsw") >>
  BY SameCalls DEF Qd!Update, Qd!VacuumOff, Qd!WaitGreen, Qd!Do, Do
<1>6. Mv!Update(Renewed) =
          ((<< Do("auto", "off"), Do("strong", Nil) >> \o PutAll(Renewed, 1))
              \o << Do("flush", Nil) >>) \o << Do("wait_indexed", Nil) >>
  BY SameCalls DEF Mv!Update, Mv!PrepareChange, Mv!Flush, Mv!WaitIndexed, Mv!Do, Do
<1> QED BY <1>1, <1>2, <1>3, <1>4, <1>5, <1>6

LEMMA ApplyCase ==
    ASSUME NEW c
    PROVE  /\ c.change = "delete" => Apply(c) = Delete(Gone)
           /\ c.change = "update" => Apply(c) = Update(Renewed, c.index)
           /\ c.change = "none" => Apply(c) = << >>
BY Zenon DEF Apply

\* The requests that change the rows, each database in its own words.
LEMMA JoinMore ==
    ASSUME NEW a, NEW b, NEW c, NEW d, NEW e,
           IsSeq(a), IsSeq(b), IsSeq(c), IsSeq(d), IsSeq(e)
    PROVE  /\ IsSeq(((a \o b) \o c) \o d)
           /\ (((a \o b) \o c) \o d) \o e = a \o (b \o (c \o (d \o e)))
<1> DEFINE x == (a \o b) \o c
           y == d \o e
<1>1. IsSeq(x) /\ IsSeq(y)
  BY JoinIs, JoinFour
<1>2. x \o y = a \o (b \o (c \o y))
  <2> HIDE DEF y
  <2> QED BY <1>1, JoinFour
<1> HIDE DEF x, y
<1>3. IsSeq(x \o d)
  BY <1>1, JoinIs
<1>4. (x \o d) \o e = x \o (d \o e)
  <2>1. IsSeq(x) /\ IsSeq(d) /\ IsSeq(e)
    BY <1>1
  <2> QED BY <2>1, JoinAgain
<1> QED BY <1>2, <1>3, <1>4 DEF x, y

LEMMA ApplyIs ==
    ASSUME Db, NEW c, BenchCase(c)
    PROVE  IsSeq(Apply(c)) /\ Apply(c) \o After(c) = Changing(c)
<1> DEFINE A == After(c)
           o == << Do("auto", "off") >>
           f == << Do("flush", Nil) >>
           g == << Do("wait_green", c.index = "hnsw") >>
           w == << Do("wait_indexed", Nil) >>
           p == << Do("auto", "off"), Do("strong", Nil) >>
           d == Calls(c)
           W == Wait1(c)
           V == Written(c)
<1>1. IsSeq(A) /\ IsSeq(W) /\ IsSeq(V)
  BY RestsBench
<1>2. IsSeq(o) /\ IsSeq(f) /\ IsSeq(g) /\ IsSeq(w)
  BY OneIs
<1>3. IsSeq(p) /\ \A R : IsSeq(R) => p \o R = First(Do("auto", "off"), First(Do("strong", Nil), R))
  BY NoneIs, Joins
<1>4. f \o W = First(Do("flush", Nil), W) /\ g \o A = Green1(c.index, A)
      /\ w \o A = First(Do("wait_indexed", Nil), A)
      /\ \A R : o \o R = First(Do("auto", "off"), R)
  BY DEF First, Green1
<1>5. c.change # "none" => IsSeq(d) /\ Called(c, 0) = d \o V /\ IsSeq(Called(c, 0))
  BY CallsIs, RestsBench
<1>6. CASE c.change = "none"
  <2>1. Apply(c) = << >> /\ Changing(c) = A
    BY <1>6, ApplyCase DEF Changing
  <2> HIDE DEF A
  <2> QED BY <1>1, <2>1, NoneIs DEF A
<1>7. ASSUME c.change # "none", kind = "pgvector" \/ (kind = "qdrant" /\ c.change = "delete")
      PROVE  IsSeq(Apply(c)) /\ Apply(c) \o A = Changing(c)
  <2>1. Apply(c) = o \o d
    BY <1>7, DeleteCallsAre, UpdateCallsAre, ApplyCase DEF Calls, BenchCase
  <2>2. V = A
    BY <1>7 DEF Written, Wait1
  <2>3. Changing(c) = First(Do("auto", "off"), Called(c, 0))
    BY <1>7 DEF Changing, Careful
  <2> HIDE DEF A, o, d, V, p, f, g, w, W
  <2>4. IsSeq(o \o d) /\ (o \o d) \o A = o \o (d \o A)
    <3>1. IsSeq(o) /\ IsSeq(d) /\ IsSeq(A)
      BY <1>1, <1>2, <1>5, <1>7
    <3> QED BY <3>1, JoinIs, JoinAgain
  <2>5. (o \o d) \o A = Changing(c)
    BY <1>4, <1>5, <1>7, <2>2, <2>3, <2>4, Zenon
  <2> QED BY <2>1, <2>4, <2>5, Zenon
<1>8. ASSUME c.change = "update", kind = "qdrant"
      PROVE  IsSeq(Apply(c)) /\ Apply(c) \o A = Changing(c)
  <2>1. Apply(c) = (o \o d) \o g
    BY <1>8, UpdateCallsAre, ApplyCase DEF Calls
  <2>2. V = g \o A
    <3>1. V = Green1(c.index, A)
      BY <1>8 DEF Written, Wait1
    <3> QED BY <1>4, <3>1, Zenon
  <2>3. Changing(c) = First(Do("auto", "off"), Called(c, 0)) /\ c.change # "none"
    BY <1>8 DEF Changing, Careful
  <2> HIDE DEF A, o, d, V, p, f, g, w, W
  <2>4. IsSeq((o \o d) \o g) /\ ((o \o d) \o g) \o A = o \o (d \o (g \o A))
    BY <1>1, <1>2, <1>5, <2>3, JoinFour
  <2>5. ((o \o d) \o g) \o A = Changing(c)
    BY <1>4, <1>5, <2>2, <2>3, <2>4, Zenon
  <2> QED BY <2>1, <2>4, <2>5, Zenon
<1>9. ASSUME c.change = "delete", kind = "milvus"
      PROVE  IsSeq(Apply(c)) /\ Apply(c) \o A = Changing(c)
  <2>1. Apply(c) = (p \o d) \o f
    BY <1>9, DeleteCallsAre, ApplyCase DEF Calls
  <2>2. V = f \o A
    <3>1. V = First(Do("flush", Nil), W) /\ W = A
      BY <1>9 DEF Written, Wait1
    <3> QED BY <1>4, <3>1, Zenon
  <2>3. /\ Changing(c) = First(Do("auto", "off"), First(Do("strong", Nil), Called(c, 0)))
        /\ c.change # "none"
    BY <1>9 DEF Changing, Careful
  <2> HIDE DEF A, o, d, V, p, f, g, w, W
  <2>4. IsSeq((p \o d) \o f) /\ ((p \o d) \o f) \o A = p \o (d \o (f \o A))
    <3>1. IsSeq(p) /\ IsSeq(d) /\ IsSeq(f) /\ IsSeq(A)
      BY <1>1, <1>2, <1>3, <1>5, <2>3
    <3> QED BY <3>1, JoinFour
  <2>5. d \o (f \o A) = Called(c, 0) /\ IsSeq(Called(c, 0))
    BY <1>5, <2>2, <2>3, Zenon
  <2>6. p \o Called(c, 0) = Changing(c)
    BY <1>3, <2>3, <2>5, Zenon
  <2>7. ((p \o d) \o f) \o A = Changing(c)
    BY <2>4, <2>5, <2>6, Zenon
  <2> QED BY <2>1, <2>4, <2>7, Zenon
<1>10. ASSUME c.change = "update", kind = "milvus"
       PROVE  IsSeq(Apply(c)) /\ Apply(c) \o A = Changing(c)
  <2>1. Apply(c) = ((p \o d) \o f) \o w
    BY <1>10, UpdateCallsAre, ApplyCase DEF Calls
  <2>2. V = f \o (w \o A)
    <3>1. V = First(Do("flush", Nil), W) /\ W = First(Do("wait_indexed", Nil), A)
      BY <1>10 DEF Written, Wait1
    <3> QED BY <1>4, <3>1, Zenon
  <2>3. /\ Changing(c) = First(Do("auto", "off"), First(Do("strong", Nil), Called(c, 0)))
        /\ c.change # "none"
    BY <1>10 DEF Changing, Careful
  <2> HIDE DEF A, o, d, V, p, f, g, w, W
  <2>4. IsSeq(((p \o d) \o f) \o w)
        /\ (((p \o d) \o f) \o w) \o A = p \o (d \o (f \o (w \o A)))
    <3>1. IsSeq(p) /\ IsSeq(d) /\ IsSeq(f) /\ IsSeq(w) /\ IsSeq(A)
      BY <1>1, <1>2, <1>3, <1>5, <2>3
    <3> DEFINE x == (p \o d) \o f
    <3>2. IsSeq(x)
      BY <3>1, JoinIs
    <3>3. x \o (w \o A) = p \o (d \o (f \o (w \o A)))
      <4> DEFINE y == w \o A
      <4>1. IsSeq(y)
        BY <3>1, JoinIs
      <4> HIDE DEF y
      <4> QED BY <3>1, <4>1, JoinFour
    <3> HIDE DEF x
    <3>4. IsSeq(x \o w) /\ (x \o w) \o A = x \o (w \o A)
      BY <3>1, <3>2, JoinIs, JoinAgain
    <3> QED BY <3>3, <3>4, Zenon DEF x
  <2>5. d \o (f \o (w \o A)) = Called(c, 0) /\ IsSeq(Called(c, 0))
    BY <1>5, <2>2, <2>3, Zenon
  <2>6. p \o Called(c, 0) = Changing(c)
    BY <1>3, <2>3, <2>5, Zenon
  <2>7. (((p \o d) \o f) \o w) \o A = Changing(c)
    BY <2>4, <2>5, <2>6, Zenon
  <2> QED BY <2>1, <2>4, <2>7, Zenon
<1> QED BY <1>6, <1>7, <1>8, <1>9, <1>10 DEF BenchCase, Db

LEMMA BenchIs ==
    ASSUME Db, NEW c, BenchCase(c)
    PROVE  RunBench(c) = Build(Row, c.index, Changing(c))
<1> DEFINE X == Connect
           Y == Reset
           Z == Load(Row)
           U == BuildIndex(c.index)
           a == Apply(c)
           k == IF c.compact THEN Compact(c.index) ELSE << >>
           T == RunSearch("timed")
           C == Changing(c)
           F == After(c)
<1>1. RunBench(c) = (((((X \o Y) \o Z) \o U) \o (a \o k)) \o T)
  BY DEF RunBench, ApplyChanges, Apply
<1>2. IsSeq(T) /\ T = Timed(0) /\ IsSeq(C) /\ IsSeq(F)
  BY RestsBench
<1>3. IsSeq(k) /\ k \o T = F
  <2>1. CASE c.compact
    <3>1. IsSeq(Compact(c.index)) /\ Compact(c.index) \o Timed(0) = Compacting(c.index)
      <4> DEFINE R == Timed(0)
      <4>1. IsSeq(R) /\ R = Timed(0)
        BY <1>2
      <4> HIDE DEF R
      <4> QED BY <4>1, CompactIs
    <3> HIDE DEF T
    <3> QED BY <1>2, <2>1, <3>1 DEF After
  <2>2. CASE ~c.compact
    <3>1. k = << >> /\ F = T
      BY <1>2, <2>2 DEF After
    <3> HIDE DEF k, T, F
    <3> QED BY <1>2, <3>1, NoneIs
  <2> QED BY <2>1, <2>2
<1>4. IsSeq(a) /\ a \o F = C
  BY ApplyIs
<1>5. /\ IsSeq(X) /\ IsSeq(Y) /\ IsSeq(Z) /\ IsSeq(U)
      /\ X \o (Y \o (Z \o (U \o C))) = Build(Row, c.index, C)
  <2> HIDE DEF C
  <2> QED BY <1>2, BuildIs
<1> HIDE DEF X, Y, Z, U, a, k, T, C, F
<1>6. IsSeq(a \o k) /\ (a \o k) \o T = a \o (k \o T)
  <2>1. IsSeq(a) /\ IsSeq(k) /\ IsSeq(T)
    BY <1>2, <1>3, <1>4
  <2> QED BY <2>1, JoinIs, JoinAgain
<1>7. (a \o k) \o T = C
  BY <1>3, <1>4, <1>6, Zenon
<1> DEFINE q == a \o k
           P == ((X \o Y) \o Z) \o U
<1>8. IsSeq(q) /\ q \o T = C
  BY <1>6, <1>7, Zenon
<1>9. IsSeq(P) /\ P \o C = X \o (Y \o (Z \o (U \o C)))
  <2>1. IsSeq(X) /\ IsSeq(Y) /\ IsSeq(Z) /\ IsSeq(U) /\ IsSeq(C)
    BY <1>2, <1>5
  <2> QED BY <2>1, JoinMore
<1>10. (P \o q) \o T = P \o (q \o T)
  <2> HIDE DEF P, q
  <2> QED BY <1>2, <1>8, <1>9, JoinAgain
<1>11. RunBench(c) = (P \o q) \o T
  BY <1>1, Zenon
<1> HIDE DEF P, q
<1>12. RunBench(c) = X \o (Y \o (Z \o (U \o C)))
  BY <1>8, <1>9, <1>10, <1>11, Zenon
<1> QED BY <1>5, <1>12, Zenon DEF C

-----------------------------------------------------------------------------
(* Where a bench is, and what holds there.                                 *)

IsDoc(d) ==
    d = [searches |-> d.searches, rows |-> d.rows, left |-> d.left,
         rebuild |-> d.rebuild, first |-> d.first, inserted |-> d.inserted,
         errors |-> d.errors]

Facing(c) == IsClient /\ (kind # "pgvector" => client.index = c.index)

\* The rows X are changed and all the versions that died are there.
Half(c, X) ==
    /\ Table(LiveOf(c, X), Old(X), Has(c.index)) /\ Facing(c)
    /\ db.auto = "off"
    /\ kind = "milvus" => client.strong = TRUE
    /\ c.change = "delete" /\ kind # "pgvector" /\ Has(c.index) => db.raw = {}

AtChanges(c) == todo = Changing(c) /\ Built(Row, c.index)

AtCareful(c) ==
    /\ c.change # "none" /\ kind = "milvus"
    /\ todo = Careful(c)
    /\ Table(Old(Row), {}, Has(c.index)) /\ Facing(c) /\ Shows(c.index)
    /\ db.auto = "off"

AtCalls(c) ==
    /\ c.change # "none"
    /\ \E k \in 0 .. Len(Calls(c)) : todo = Called(c, k) /\ Half(c, Touched(c, k))

AtWait(c) == c.change # "none" /\ todo = Wait1(c) /\ Half(c, ChangedBy(c))

AtAfter(c) ==
    /\ todo = After(c)
    /\ Table(LiveOf(c, ChangedBy(c)), Old(ChangedBy(c)), Has(c.index))
    /\ Facing(c) /\ Shows(c.index)
    /\ c.compact =>
          db.auto = "off" /\ (kind = "milvus" => client.strong = TRUE)

AtClean(c) ==
    /\ c.compact /\ kind = "pgvector"
    /\ todo = Again(c.index) \/ todo = Cleaned
    /\ Table(LiveOf(c, ChangedBy(c)), {}, Has(c.index)) /\ Facing(c)

\* The optimizer of Qdrant may clean now.
AtSweep(c) ==
    /\ c.compact /\ kind = "qdrant"
    /\ todo = Green1(c.index, Timed(0))
    /\ IsTable(db) /\ db.live = LiveOf(c, ChangedBy(c)) /\ db.held = db.dead
    /\ db.auto = "low" /\ db.index = Has(c.index)
    /\ Facing(c) /\ (Has(c.index) => db.raw = {})

\* The rounds of Milvus clean all of the dead versions or none.
Reclaiming(c) ==
    /\ c.compact /\ kind = "milvus"
    /\ IsTable(db) /\ db.live = LiveOf(c, ChangedBy(c)) /\ db.dead \in {Old(ChangedBy(c)), {}}
    /\ db.auto = "off" /\ db.index = TRUE
    /\ Facing(c) /\ client.strong = TRUE

AtJobs(c) == Reclaiming(c) /\ \E n \in 1 .. Rounds : todo = Jobs(n)

AtMerged(c) ==
    /\ Reclaiming(c) /\ (db.dead = {} \/ doc.left > 0)
    /\ todo = Merged \/ (todo = Handed /\ db.raw = {})

AtTimed(c) ==
    /\ Facing(c) /\ Shows(c.index)
    /\ \E k \in 0 .. Cardinality(Queries), D \in {db.dead} :
          /\ todo = Timed(k)
          /\ Table(LiveOf(c, ChangedBy(c)), D, Has(c.index))
          /\ IF c.compact THEN D = {} \/ doc.left > 0 ELSE D = Old(ChangedBy(c))

LEMMA BenchSame ==
    ASSUME kind' = kind, NEW c
    PROVE  /\ After(c)' = After(c) /\ Wait1(c)' = Wait1(c)
           /\ Written(c)' = Written(c) /\ Calls(c)' = Calls(c)
           /\ \A k : Touched(c, k)' = Touched(c, k)
           /\ \A k : Called(c, k)' = Called(c, k)
           /\ Careful(c)' = Careful(c) /\ Changing(c)' = Changing(c)
<1>1. Compacting(c.index)' = Compacting(c.index)
  BY Zenon DEF Compacting
<1>2. After(c)' = After(c)
  BY <1>1 DEF After
<1>3. Wait1(c)' = Wait1(c)
  BY <1>2 DEF Wait1
<1>4. Written(c)' = Written(c)
  BY <1>3 DEF Written
<1>5. Calls(c)' = Calls(c)
  BY DEF Calls
<1>6. \A k : Touched(c, k)' = Touched(c, k)
  BY DEF Touched
<1>7. \A k : Called(c, k)' = Called(c, k)
  BY <1>4, <1>5 DEF Called
<1>8. Careful(c)' = Careful(c)
  BY <1>7 DEF Careful
<1>9. Changing(c)' = Changing(c)
  BY <1>2, <1>8 DEF Changing
<1> QED BY <1>2, <1>3, <1>4, <1>5, <1>6, <1>7, <1>8, <1>9

LEMMA HasSame ==
    ASSUME NEW i, NEW ix, ix = Has(i), kind' = kind, NEW L, NEW D
    PROVE  /\ Table(L, D, ix) <=> Table(L, D, Has(i))
           /\ Table(L, D, ix)' <=> Table(L, D, Has(i))'
BY DEF Table, Has

LEMMA FacingSame ==
    ASSUME kind' = kind, client' = client, NEW c, Facing(c)
    PROVE  Facing(c)'
BY DEF Facing, IsClient

\* The versions that come for the rows T.
Renewals(c, T) == IF c.change = "update" THEN T \X {1} ELSE {}

\* More of the rows are changed.
LEMMA HalfMore ==
    ASSUME NEW c, c.change \in {"delete", "update"},
           NEW X \in SUBSET Row, NEW T \in SUBSET Row, T \cap X = {}, Half(c, X),
           kind' = kind, client' = client,
           db' = Changed(VersionsOf(T), Renewals(c, T)),
           NEW Z, Z = X \cup T
    PROVE  Half(c, Z)'
<1> DEFINE vs == Renewals(c, T)
           L == LiveOf(c, X)
<1>1. PICK ix : ix = Has(c.index)
  OBVIOUS
<1>2. Table(L, Old(X), ix) /\ db.live = L /\ db.auto = "off"
  <2>1. Table(L, Old(X), Has(c.index)) /\ db.auto = "off"
    BY DEF Half
  <2> HIDE DEF L
  <2> QED BY <1>1, <2>1 DEF Table
<1>3. VersionsOf(T) = Old(T)
  <2>1. \A v \in L : v[1] \in T <=> v \in Old(T)
    BY DEF LiveOf, Old, New
  <2>2. Old(T) \subseteq L
    BY DEF LiveOf, Old
  <2> HIDE DEF L
  <2> QED BY <1>2, <2>1, <2>2 DEF VersionsOf
<1>4. (L \ Old(T)) \cup vs = LiveOf(c, Z) /\ Old(X) \cup Old(T) = Old(Z)
  <2>1. CASE c.change = "update"
    BY <2>1 DEF LiveOf, Old, New, Renewals
  <2>2. CASE c.change = "delete"
    BY <2>2 DEF LiveOf, Old, New, Renewals
  <2> QED BY <2>1, <2>2
<1> HIDE DEF vs, L
<1>5. /\ Table((L \ Old(T)) \cup vs, Old(X) \cup Old(T), ix)'
      /\ db'.auto = db.auto
      /\ kind # "pgvector" => db'.raw = (db.raw \ Old(T)) \cup vs
  <2> DEFINE g == Old(T)
             D == Old(X)
  <2>1. db' = Changed(g, vs) /\ Table(L, D, ix) /\ db.auto = "off"
    BY <1>2, <1>3 DEF vs
  <2> HIDE DEF g, D
  <2>2. /\ Table((L \ g) \cup vs, D \cup g, ix)' /\ db'.auto = db.auto
        /\ kind # "pgvector" => db'.raw = (db.raw \ g) \cup vs
    BY <2>1, ChangedIs
  <2> QED BY <2>2 DEF g, D
<1>6. Table(LiveOf(c, Z), Old(Z), ix)'
  BY <1>4, <1>5
<1>7. Table(LiveOf(c, Z), Old(Z), Has(c.index))'
  BY <1>1, <1>6, HasSame
<1>8. c.change = "delete" => vs = {}
  BY DEF vs, Renewals
<1>9. Facing(c)'
  BY FacingSame DEF Half
<1> QED BY <1>2, <1>5, <1>7, <1>8, <1>9 DEF Half, Has

-----------------------------------------------------------------------------
(* The steps of the main thread, from phase to phase.                      *)

\* The first request for a row.
LEMMA CallsStart ==
    ASSUME Db, NEW c, BenchCase(c), c.change # "none", kind' = kind,
           todo' = Called(c, 0), Table(Old(Row), {}, Has(c.index))', Facing(c)',
           Shows(c.index)', db'.auto = "off",
           kind = "milvus" => client'.strong = TRUE
    PROVE  AtCalls(c)'
<1>1. /\ Touched(c, 0) = {} /\ Touched(c, 0)' = {} /\ Called(c, 0)' = Called(c, 0)
      /\ 0 \in 0 .. Len(Calls(c)) /\ Calls(c)' = Calls(c)
  <2>1. Touched(c, 0) = {} /\ IsSeq(Calls(c))
    BY CallsIs
  <2>2. 0 \in 0 .. Len(Calls(c))
    BY <2>1 DEF IsSeq
  <2> QED BY <2>1, <2>2, BenchSame
<1>2. LiveOf(c, {}) = Old(Row) /\ Old({}) = {}
  BY DEF LiveOf, Old, New
<1>3. Half(c, {})'
  BY <1>2 DEF Half, Shows, Has
<1>4. Half(c, Touched(c, 0))'
  BY <1>1, <1>3
<1> QED BY <1>1, <1>4 DEF AtCalls

LEMMA ChangesStep ==
    ASSUME Db, NEW c, BenchCase(c), kind' = kind, AtChanges(c), Main,
           c.change # "none"
    PROVE  /\ AtCareful(c)' \/ AtCalls(c)'
           /\ UNCHANGED <<doc, load>>
<1>1. todo = First(Do("auto", "off"), Careful(c)) /\ IsSeq(Careful(c))
  BY RestsBench DEF AtChanges, Changing
<1>2. /\ todo' = Careful(c) /\ UNCHANGED <<up, saved>> /\ UNCHANGED Aside
      /\ db' = [db EXCEPT !.auto = "off"]
  <2> DEFINE N == Careful(c)
  <2> HIDE DEF N
  <2>1. todo = First(Do("auto", "off"), N) /\ IsSeq(N)
    BY <1>1 DEF N
  <2> QED BY <2>1, AutoIs DEF N
<1>3. PICK ix : ix = Has(c.index)
  OBVIOUS
<1>4. Table(Old(Row), {}, ix)
  BY <1>3, HasSame DEF AtChanges, Built
<1>5. /\ Table(Old(Row), {}, ix)' /\ db'.auto = "off"
      /\ db'.raw = db.raw /\ db'.seen = db.seen
  BY <1>2, <1>4, SetAuto
<1>6. Table(Old(Row), {}, Has(c.index))'
  BY <1>3, <1>5, HasSame
<1>7. Facing(c)' /\ Shows(c.index)'
  <2>1. db'.live = db.live
    BY <1>4, <1>5 DEF Table
  <2> QED BY <1>2, <1>5, <2>1 DEF AtChanges, Built, Facing, Shows, Has, IsClient, Aside
<1>8. UNCHANGED <<doc, load>>
  BY <1>2 DEF Aside
<1>9. CASE kind = "milvus"
  <2>1. todo' = Careful(c)'
    BY <1>2, BenchSame
  <2> QED BY <1>5, <1>6, <1>7, <1>8, <1>9, <2>1 DEF AtCareful
<1>10. CASE kind # "milvus"
  <2>1. todo' = Called(c, 0)
    BY <1>2, <1>10 DEF Careful
  <2> QED BY <1>5, <1>6, <1>7, <1>8, <1>10, <2>1, CallsStart
<1> QED BY <1>9, <1>10

LEMMA CarefulStep ==
    ASSUME Db, NEW c, BenchCase(c), kind' = kind, AtCareful(c), Main
    PROVE  AtCalls(c)' /\ UNCHANGED <<doc, load>>
<1> DEFINE N == Called(c, 0)
<1>1. todo = First(Do("strong", Nil), N) /\ IsSeq(N)
  BY RestsBench DEF AtCareful, Careful
<1> HIDE DEF N
<1>2. /\ todo' = N /\ UNCHANGED <<server, doc, load, stage1>>
      /\ client' = [client EXCEPT !.strong = TRUE]
  BY <1>1, StrongIs
<1>3. Facing(c)' /\ Shows(c.index)' /\ client'.strong = TRUE
  BY <1>2 DEF AtCareful, Facing, Shows, Has, IsClient, server
<1>4. Table(Old(Row), {}, Has(c.index))'
  BY <1>2 DEF AtCareful, Table, IsTable, Has, server
<1>5. todo' = Called(c, 0) /\ db'.auto = "off" /\ UNCHANGED <<doc, load>>
  BY <1>2 DEF N, AtCareful, server
<1> QED BY <1>3, <1>4, <1>5, CallsStart DEF AtCareful

\* Without further requests the wait is for what the changes left to do.
LEMMA CallsStep ==
    ASSUME Db, NEW c, BenchCase(c), kind' = kind, NEW k \in 0 .. Len(Calls(c)),
           c.change # "none", k # Len(Calls(c)), todo = Called(c, k),
           Half(c, Touched(c, k)), Main
    PROVE  AtCalls(c)' /\ UNCHANGED <<doc, load>>
<1> DEFINE f == Calls(c)
           e == Written(c)
           n == k + 1
<1>1. IsSeq(f) /\ IsSeq(e) /\ k \in 0 .. Len(f) /\ k # Len(f) /\ n = k + 1
  BY CallsIs, RestsBench
<1>2. OneCall(c, k, n)
  BY CallsIs
<1> HIDE DEF f, e, n
<1>3. /\ n \in 0 .. Len(f) /\ Left(f, k, e) = First(f[n], Left(f, n, e))
      /\ IsSeq(Left(f, n, e))
  BY <1>1, FromNext
<1>4. Called(c, k) = Left(f, k, e) /\ Called(c, n) = Left(f, n, e)
  BY DEF Called, f, e
<1>5. PICK T \in SUBSET Row :
        /\ T \cap Touched(c, k) = {} /\ Touched(c, n) = Touched(c, k) \cup T
        /\ f[n] = IF c.change = "delete" THEN Do("delete", T) ELSE Do("put", T \X {1})
  BY <1>2, Zenon DEF OneCall, f
<1> DEFINE N == Left(f, n, e)
<1>6. IsSeq(N) /\ todo = First(f[n], N) /\ N = Called(c, n)
  BY <1>3, <1>4
<1> HIDE DEF N
<1>7. c.change \in {"delete", "update"}
  BY DEF BenchCase
<1>8. /\ todo' = N /\ UNCHANGED Aside
      /\ db' = Changed(VersionsOf(T), Renewals(c, T))
  <2>1. CASE c.change = "delete"
    <3>1. todo = First(Do("delete", T), N)
      BY <1>5, <1>6, <2>1
    <3>2. Renewals(c, T) = {}
      BY <2>1 DEF Renewals
    <3> QED BY <1>6, <3>1, <3>2, DeleteIs
  <2>2. CASE c.change = "update"
    <3> DEFINE a == T \X {1}
    <3>1. todo = First(Do("put", a), N)
      BY <1>5, <1>6, <2>2
    <3>2. {v[1] : v \in a} = T
      <4>1. \A t \in T : <<t, 1>> \in a /\ <<t, 1>>[1] = t
        OBVIOUS
      <4>2. \A v \in a : v[1] \in T
        OBVIOUS
      <4> HIDE DEF a
      <4> QED BY <4>1, <4>2
    <3> HIDE DEF a
    <3>3. todo' = N /\ UNCHANGED Aside /\ db' = Changed(VersionsOf({v[1] : v \in a}), a)
      BY <1>6, <3>1, PutIs
    <3>4. Renewals(c, T) = a
      BY <2>2 DEF a, Renewals
    <3> QED BY <3>2, <3>3, <3>4
  <2> QED BY <1>7, <2>1, <2>2
<1> DEFINE X == Touched(c, k)
           Z == Touched(c, n)
<1>9. X \in SUBSET Row
  BY <1>1, HitIs, DoneIs DEF Touched, Done
<1>10. Half(c, Z)'
  <2>1. Half(c, X) /\ T \cap X = {} /\ Z = X \cup T /\ client' = client
    BY <1>5, <1>8 DEF Aside
  <2> HIDE DEF X, Z
  <2>2. PICK z : z = Z
    OBVIOUS
  <2>3. /\ c.change \in {"delete", "update"} /\ X \in SUBSET Row
        /\ T \in SUBSET Row /\ T \cap X = {} /\ Half(c, X)
        /\ kind' = kind /\ client' = client /\ z = X \cup T
        /\ db' = Changed(VersionsOf(T), Renewals(c, T))
    BY <1>7, <1>8, <1>9, <2>1, <2>2
  <2>5. Half(c, z)'
    BY <2>3, HalfMore
  <2>4. Z' = Z
    BY BenchSame DEF Z
  <2> QED BY <2>2, <2>4, <2>5
<1>11. todo' = Called(c, n)' /\ Calls(c)' = f
  BY <1>6, <1>8, BenchSame DEF f
<1>12. UNCHANGED <<doc, load>>
  BY <1>8 DEF Aside
<1> QED BY <1>3, <1>10, <1>11, <1>12 DEF AtCalls

LEMMA CallsEnd ==
    ASSUME Db, NEW c, BenchCase(c), c.change # "none", NEW k, k = Len(Calls(c)),
           todo = Called(c, k), Half(c, Touched(c, k))
    PROVE  todo = Written(c) /\ Half(c, ChangedBy(c))
<1> DEFINE f == Calls(c)
           e == Written(c)
<1>1. IsSeq(f) /\ IsSeq(e) /\ k = Len(f) /\ Touched(c, k) = ChangedBy(c)
  BY CallsIs, RestsBench
<1>2. Called(c, k) = Left(f, k, e)
  BY DEF Called
<1> HIDE DEF f, e
<1>3. k \in 0 .. Len(f)
  BY <1>1 DEF IsSeq
<1>4. Left(f, k, e) = e
  BY <1>1, <1>3, FromIs
<1> QED BY <1>1, <1>2, <1>4 DEF e

LEMMA WrittenStep ==
    ASSUME Db, NEW c, BenchCase(c), kind' = kind, c.change # "none",
           kind = "milvus", todo = Written(c), Half(c, ChangedBy(c)), Main
    PROVE  AtWait(c)' /\ UNCHANGED <<doc, load>>
<1> DEFINE N == Wait1(c)
<1>1. todo = First(Do("flush", Nil), N) /\ IsSeq(N)
  BY RestsBench DEF Written
<1> HIDE DEF N
<1>2. /\ todo' = N /\ UNCHANGED <<up, saved>> /\ UNCHANGED Aside
      /\ db' = [db EXCEPT !.disk = db.live]
  BY <1>1, FlushIs
<1> DEFINE L == LiveOf(c, ChangedBy(c))
           D == Old(ChangedBy(c))
<1>3. PICK ix : ix = Has(c.index)
  OBVIOUS
<1>4. Table(L, D, Has(c.index)) /\ Facing(c) /\ db.auto = "off"
      /\ client.strong = TRUE
      /\ (c.change = "delete" /\ kind # "pgvector" /\ Has(c.index) => db.raw = {})
  BY DEF Half
<1> HIDE DEF L, D
<1>5. Table(L, D, ix)
  BY <1>3, <1>4, HasSame
<1>6. Table(L, D, ix)' /\ db'.raw = db.raw /\ db'.auto = db.auto
  BY <1>2, <1>5, SetDisk
<1>7. Table(L, D, Has(c.index))'
  BY <1>3, <1>6, HasSame
<1>8. Facing(c)'
  BY <1>2, <1>4, FacingSame DEF Aside
<1>9. Half(c, ChangedBy(c))'
  BY <1>2, <1>4, <1>6, <1>7, <1>8 DEF Half, L, D, Aside, Has
<1>10. todo' = Wait1(c)' /\ UNCHANGED <<doc, load>>
  BY <1>2, BenchSame DEF N, Aside
<1> QED BY <1>9, <1>10 DEF AtWait

\* Only an update leaves versions to index.
LEMMA WaitOver ==
    ASSUME Db, NEW c, BenchCase(c), AtWait(c),
           c.change # "update" \/ kind = "pgvector"
    PROVE  AtAfter(c)
<1>1. todo = After(c)
  BY DEF AtWait, Wait1
<1>2. c.change = "delete" \/ kind = "pgvector"
  BY DEF AtWait, BenchCase
<1>3. Shows(c.index)
  BY <1>2 DEF AtWait, Half, Shows, Facing
<1> QED BY <1>1, <1>3 DEF AtAfter, AtWait, Half

LEMMA WaitStep ==
    ASSUME Db, NEW c, BenchCase(c), kind' = kind, AtWait(c), Main,
           c.change = "update", kind # "pgvector"
    PROVE  AtAfter(c)' /\ UNCHANGED <<doc, load>>
<1> DEFINE N == After(c)
<1>1. IsSeq(N)
  BY RestsBench
<1>2. /\ kind = "qdrant" => todo = Green1(c.index, N)
      /\ kind = "milvus" => todo = First(Do("wait_indexed", Nil), N)
  BY DEF AtWait, Wait1
<1> HIDE DEF N
<1>3. c.index \in {"flat", "hnsw"}
  BY DEF BenchCase, Indexes
<1>4. /\ todo' = N /\ UNCHANGED server /\ UNCHANGED Aside
      /\ Has(c.index) => db.raw = {}
  <2>1. CASE kind = "qdrant"
    <3>1. /\ todo' = N /\ UNCHANGED server /\ UNCHANGED Aside
          /\ (c.index = "hnsw" => db.raw = {})
      BY <1>1, <1>2, <2>1, GreenIs
    <3> QED BY <1>3, <2>1, <3>1 DEF Has
  <2>2. CASE kind = "milvus"
    BY <1>1, <1>2, <2>2, IndexedIs
  <2> QED BY <2>1, <2>2 DEF Db
<1>5. todo' = After(c)' /\ UNCHANGED <<doc, load, client, db>>
  BY <1>4, BenchSame DEF N, Aside, server
<1>6. Facing(c)' /\ Shows(c.index)'
  BY <1>4, <1>5 DEF AtWait, Half, Facing, IsClient, Shows, Has
<1>7. Table(LiveOf(c, ChangedBy(c)), Old(ChangedBy(c)), Has(c.index))'
  BY <1>5 DEF AtWait, Half, Table, IsTable, Has
<1>8. ~c.compact
  BY DEF BenchCase
<1> QED BY <1>5, <1>6, <1>7, <1>8 DEF AtAfter

-----------------------------------------------------------------------------
(* The compaction.                                                         *)

LEMMA VacuumStep ==
    ASSUME Db, NEW c, BenchCase(c), kind' = kind, AtAfter(c), Main,
           c.compact, kind = "pgvector"
    PROVE  AtClean(c)' /\ UNCHANGED <<doc, load>>
<1> DEFINE N == Again(c.index)
<1>1. todo = First(Do("vacuum", Nil), N) /\ IsSeq(N)
  BY CompactingIs, RestsBench DEF AtAfter, After
<1> HIDE DEF N
<1>2. /\ todo' = N /\ UNCHANGED <<up, saved>> /\ UNCHANGED Aside
      /\ db' = [db EXCEPT !.dead = {}, !.held = {}]
  BY <1>1, VacuumIs
<1>3. Table(LiveOf(c, ChangedBy(c)), {}, Has(c.index))'
  <2> DEFINE L == LiveOf(c, ChangedBy(c))
             D == Old(ChangedBy(c))
  <2>1. Table(L, D, Has(c.index))
    BY DEF AtAfter
  <2> HIDE DEF L, D
  <2>2. Table(L, {}, Has(c.index))'
    BY <1>2, <2>1 DEF Table, IsTable, Has
  <2> QED BY <2>2 DEF L
<1>4. Facing(c)' /\ UNCHANGED <<doc, load>>
  BY <1>2, FacingSame DEF AtAfter, Aside
<1>5. todo' = Again(c.index)
  BY <1>2 DEF N
<1> QED BY <1>3, <1>4, <1>5 DEF AtClean

LEMMA CleanStep ==
    ASSUME Db, NEW c, BenchCase(c), kind' = kind, AtClean(c), Main
    PROVE  (AtClean(c)' \/ AtTimed(c)') /\ UNCHANGED <<doc, load>>
<1> DEFINE L == LiveOf(c, ChangedBy(c))
           T == Timed(0)
           C == Cleaned
<1>1. IsSeq(T) /\ IsSeq(C) /\ C = First(Do("auto", "on"), T)
  BY RestsBench DEF Cleaned
<1>2. PICK ix : ix = Has(c.index)
  OBVIOUS
<1> HIDE DEF L, T, C
<1>3. Table(L, {}, ix) /\ Facing(c) /\ c.compact /\ kind = "pgvector"
  BY <1>2, HasSame DEF AtClean, L
<1>4. CASE todo = C
  <2>1. /\ todo' = T /\ UNCHANGED <<up, saved>> /\ UNCHANGED Aside
        /\ db' = [db EXCEPT !.auto = "on"]
    BY <1>1, <1>4, AutoIs
  <2>2. Table(L, {}, ix)'
    BY <1>3, <2>1, SetAuto
  <2>3. Table(L, {}, Has(c.index))'
    BY <1>2, <2>2, HasSame
  <2>4. Facing(c)' /\ UNCHANGED <<doc, load>>
    BY <1>3, <2>1, FacingSame DEF Aside
  <2>5. Shows(c.index)'
    BY <1>3 DEF Shows, Has
  <2>6. 0 \in 0 .. Cardinality(Queries)
    BY BenchAssumption
  <2>7. todo' = Timed(0)
    BY <2>1 DEF T
  <2>8. db'.dead = {}
    BY <2>2 DEF Table
  <2>9. AtTimed(c)'
    BY <1>3, <2>3, <2>4, <2>5, <2>6, <2>7, <2>8 DEF AtTimed, L
  <2> QED BY <2>4, <2>9
<1>5. CASE todo # C
  <2>1. todo = First(Do("reindex", Nil), C)
    BY <1>5 DEF AtClean, Again, C
  <2>2. /\ todo' = C /\ UNCHANGED <<up, saved>> /\ UNCHANGED Aside
        /\ db' = [db EXCEPT !.gen = db.gen + 1]
    BY <1>1, <2>1, ReindexIs
  <2>3. Table(L, {}, ix)'
    BY <1>3, <2>2, SetGen
  <2>4. Table(L, {}, Has(c.index))'
    BY <1>2, <2>3, HasSame
  <2>5. Facing(c)' /\ UNCHANGED <<doc, load>>
    BY <1>3, <2>2, FacingSame DEF Aside
  <2>6. AtClean(c)'
    BY <1>3, <2>2, <2>4, <2>5 DEF AtClean, L, C
  <2> QED BY <2>5, <2>6
<1> QED BY <1>4, <1>5

LEMMA LowStep ==
    ASSUME Db, NEW c, BenchCase(c), kind' = kind, AtAfter(c), Main,
           c.compact, kind = "qdrant"
    PROVE  AtSweep(c)' /\ UNCHANGED <<doc, load>>
<1> DEFINE N == Green1(c.index, Timed(0))
<1>1. todo = First(Do("auto", "low"), N) /\ IsSeq(N)
  BY CompactingIs, RestsBench DEF AtAfter, After
<1> HIDE DEF N
<1>2. /\ todo' = N /\ UNCHANGED <<up, saved>> /\ UNCHANGED Aside
      /\ db' = [db EXCEPT !.auto = "low"]
  BY <1>1, AutoIs
<1>3. /\ IsTable(db') /\ db'.live = LiveOf(c, ChangedBy(c)) /\ db'.held = db'.dead
      /\ db'.auto = "low" /\ db'.index = Has(c.index) /\ db'.raw = db.raw
  <2> DEFINE L == LiveOf(c, ChangedBy(c))
             D == Old(ChangedBy(c))
  <2>1. Table(L, D, Has(c.index))
    BY DEF AtAfter
  <2> HIDE DEF L, D
  <2>2. /\ IsTable(db') /\ db'.live = L /\ db'.held = db'.dead
        /\ db'.auto = "low" /\ db'.index = Has(c.index) /\ db'.raw = db.raw
    BY <1>2, <2>1 DEF Table, IsTable
  <2> QED BY <2>2 DEF L
<1>4. Facing(c)' /\ UNCHANGED <<doc, load>>
  BY <1>2, FacingSame DEF AtAfter, Aside
<1>5. Has(c.index)' = Has(c.index) /\ (Has(c.index) => db.raw = {})
  BY DEF AtAfter, Shows, Has
<1>6. todo' = Green1(c.index, Timed(0))
  BY <1>2 DEF N
<1> QED BY <1>3, <1>4, <1>5, <1>6 DEF AtSweep

LEMMA SweepStep ==
    ASSUME Db, NEW c, BenchCase(c), kind' = kind, AtSweep(c), Main
    PROVE  AtTimed(c)' /\ UNCHANGED <<doc, load>>
<1> DEFINE N == Timed(0)
<1>1. todo = Green1(c.index, N) /\ IsSeq(N)
  BY RestsBench DEF AtSweep
<1> HIDE DEF N
<1>2. /\ todo' = N /\ UNCHANGED server /\ UNCHANGED Aside /\ Green
  BY <1>1, GreenIs
<1>3. db.dead = {} /\ db' = db
  BY <1>2 DEF Green, AtSweep, server
<1>4. Table(LiveOf(c, ChangedBy(c)), {}, Has(c.index))'
  BY <1>3 DEF AtSweep, Table, Has
<1>5. Facing(c)' /\ UNCHANGED <<doc, load>>
  BY <1>2, FacingSame DEF AtSweep, Aside
<1>6. Shows(c.index)'
  BY <1>2, <1>3, <1>5 DEF AtSweep, Shows, Facing, Has
<1>7. 0 \in 0 .. Cardinality(Queries)
  BY BenchAssumption
<1>8. todo' = Timed(0) /\ c.compact
  BY <1>2 DEF N, AtSweep
<1> QED BY <1>3, <1>4, <1>5, <1>6, <1>7, <1>8 DEF AtTimed

LEMMA FirstJob ==
    ASSUME Db, NEW c, BenchCase(c), AtAfter(c), c.compact, kind = "milvus"
    PROVE  AtJobs(c)
<1>1. todo = Jobs(Rounds) /\ Rounds \in 1 .. Rounds
  BY CompactingIs, BenchAssumption DEF AtAfter, After
<1>2. Reclaiming(c)
  BY DEF Reclaiming, AtAfter, Table, Has
<1> QED BY <1>1, <1>2 DEF AtJobs

\* A round cleans all or nothing; the last one tells what is left.
LEMMA JobsStep ==
    ASSUME Db, NEW c, BenchCase(c), kind' = kind, AtJobs(c), Main, IsDoc(doc)
    PROVE  /\ AtJobs(c)' \/ AtMerged(c)'
           /\ IsDoc(doc') /\ doc'.searches = doc.searches /\ UNCHANGED load
<1>1. PICK n \in 1 .. Rounds : todo = Jobs(n)
  BY DEF AtJobs
<1> DEFINE N == Merged
<1>2. todo = First(Do("compact_job", n), N) /\ IsSeq(N)
  BY <1>1, RestsBench DEF Jobs
<1> HIDE DEF N
<1>3. PICK dead \in {db.dead, {}} :
         /\ todo' = IF dead = {} \/ n = 1 THEN N
                    ELSE First(Do("compact_job", n - 1), N)
         /\ \E raw : db' = [db EXCEPT !.dead = dead, !.raw = raw]
         /\ doc' = [doc EXCEPT !.left = Cardinality(dead)]
         /\ UNCHANGED <<up, saved, client, load, stage1>>
  BY <1>2, JobIs
<1>4. /\ IsDoc(doc') /\ doc'.searches = doc.searches
      /\ doc'.left = Cardinality(dead)
  BY <1>3 DEF IsDoc
<1>5. Reclaiming(c)' /\ db'.dead = dead
  <2>1. Facing(c)'
    BY <1>3, FacingSame DEF AtJobs, Reclaiming
  <2>2. IsTable(db') /\ db'.live = db.live /\ db'.dead = dead
        /\ db'.auto = db.auto /\ db'.index = db.index
    BY <1>3 DEF AtJobs, Reclaiming, IsTable
  <2> QED BY <1>3, <2>1, <2>2 DEF AtJobs, Reclaiming
<1>6. dead # {} => Cardinality(dead) > 0
  <2>1. IsFiniteSet(dead)
    <3>1. dead = Old(ChangedBy(c)) \/ dead = {}
      BY <1>3 DEF AtJobs, Reclaiming
    <3>2. IsFiniteSet(Old(ChangedBy(c)))
      <4>1. IsFiniteSet(ChangedBy(c)) /\ IsFiniteSet({0})
        BY HitIs, FS_Singleton
      <4> QED BY <4>1, FS_Product DEF Old
    <3> QED BY <3>1, <3>2, FS_EmptySet
  <2>2. Cardinality(dead) \in Nat /\ (Cardinality(dead) = 0 <=> dead = {})
    BY <2>1, FS_CardinalityType, FS_EmptySet
  <2> QED BY <2>2
<1>7. CASE dead = {} \/ n = 1
  <2>1. todo' = Merged
    BY <1>3, <1>7 DEF N
  <2>2. dead = {} \/ doc'.left > 0
    BY <1>4, <1>6
  <2> QED BY <1>3, <1>4, <1>5, <2>1, <2>2 DEF AtMerged
<1>8. CASE dead # {} /\ n # 1
  <2>1. n - 1 \in 1 .. Rounds
    BY <1>8, BenchAssumption
  <2>2. todo' = Jobs(n - 1)
    BY <1>3, <1>8 DEF N, Jobs
  <2>3. AtJobs(c)'
    BY <1>5, <2>1, <2>2 DEF AtJobs
  <2> QED BY <1>3, <1>4, <2>3
<1> QED BY <1>7, <1>8

LEMMA MergedStep ==
    ASSUME Db, NEW c, BenchCase(c), kind' = kind, AtMerged(c), Main
    PROVE  (AtMerged(c)' \/ AtTimed(c)') /\ UNCHANGED <<doc, load>>
<1> DEFINE T == Timed(0)
           H == Handed
           M == Merged
<1>1. IsSeq(T) /\ IsSeq(H) /\ H = First(Do("wait_handed", Nil), T)
      /\ M = First(Do("wait_indexed", Nil), H)
  BY RestsBench DEF Handed, Merged
<1> HIDE DEF T, H, M
<1>2. CASE todo = M
  <2>1. todo' = H /\ UNCHANGED server /\ UNCHANGED Aside /\ db.raw = {}
    BY <1>1, <1>2, IndexedIs
  <2>2. Facing(c)' /\ UNCHANGED <<doc, load, client, db>>
    BY <2>1, FacingSame DEF AtMerged, Reclaiming, Aside, server
  <2>3. Reclaiming(c)'
    BY <2>2 DEF AtMerged, Reclaiming
  <2> QED BY <2>1, <2>2, <2>3 DEF AtMerged, H
<1>3. CASE todo = H /\ db.raw = {}
  <2>1. todo' = T /\ UNCHANGED server /\ UNCHANGED Aside /\ db.held = db.dead
    BY <1>1, <1>3, HandedIs
  <2>2. Facing(c)' /\ UNCHANGED <<doc, load, client, db>>
    BY <2>1, FacingSame DEF AtMerged, Reclaiming, Aside, server
  <2>3. Table(LiveOf(c, ChangedBy(c)), db.dead, Has(c.index))'
    BY <2>1, <2>2 DEF AtMerged, Reclaiming, Table, Has
  <2>4. Shows(c.index)'
    BY <1>3, <2>2 DEF AtMerged, Reclaiming, Shows, Facing, Has
  <2>5. 0 \in 0 .. Cardinality(Queries)
    BY BenchAssumption
  <2>6. todo' = Timed(0) /\ c.compact /\ (db.dead = {} \/ doc.left > 0)
    BY <2>1 DEF T, AtMerged, Reclaiming
  <2>7. PICK D : D = db.dead
    OBVIOUS
  <2>8. Table(LiveOf(c, ChangedBy(c)), D, Has(c.index))'
    BY <2>2, <2>3, <2>7 DEF Table
  <2>9. AtTimed(c)'
    BY <2>2, <2>4, <2>5, <2>6, <2>7, <2>8 DEF AtTimed
  <2> QED BY <2>2, <2>9
<1> QED BY <1>2, <1>3 DEF AtMerged, M, H

-----------------------------------------------------------------------------
(* The timed searches.                                                     *)

\* What SearchesCurrent and Tombstones ask of a search of the case.
RightSaw(c, s, left) ==
    /\ s.rows = LiveOf(c, ChangedBy(c)) /\ s.by = How(c.index)
    /\ c.index # "flat" => s.raw = {}
    /\ IF c.compact THEN s.dead = {} \/ left > 0 ELSE s.dead = Old(ChangedBy(c))

RightBench(c, d) == \A t \in d.searches : RightSaw(c, t.saw, d.left)

LEMMA SeenIs ==
    ASSUME NEW a, NEW b, NEW c, NEW d, NEW e, NEW s, s = Seen(a, b, c, d, e)
    PROVE  s.rows = a /\ s.dead = b /\ s.raw = c /\ s.by = d /\ s.gen = e
BY DEF Seen

LEMMA SearchSees ==
    ASSUME Db, NEW i \in Indexes, NEW L, NEW D, Table(L, D, Has(i)), Shows(i),
           IsClient
    PROVE  LET s == Search(db, client)
           IN  /\ s.rows = L /\ s.dead = D /\ s.by = How(i)
               /\ i # "flat" => s.raw = {}
               /\ s.gen = db.gen
<1> DEFINE s == Search(db, client)
<1>1. i \in {"flat", "hnsw"} /\ Nil \notin {"flat", "hnsw"}
  BY BenchAssumption DEF Indexes
<1>2. CASE kind = "pgvector"
  <2>1. s = Pg!Search(db, client)
    BY <1>2, OfIs DEF Search
  <2>2. Pg!Search(db, client) =
          Seen(db.live, db.held, {}, IF db.index THEN "index" ELSE "scan", db.gen)
    BY DEF Pg!Search, Pg!Seen, Seen
  <2> HIDE DEF s
  <2>3. s.rows = db.live /\ s.dead = db.held /\ s.raw = {} /\ s.gen = db.gen
        /\ s.by = IF db.index THEN "index" ELSE "scan"
    <3> DEFINE by == IF db.index THEN "index" ELSE "scan"
    <3>1. s = Seen(db.live, db.held, {}, by, db.gen)
      BY <2>1, <2>2
    <3> HIDE DEF by
    <3>2. s.rows = db.live /\ s.dead = db.held /\ s.raw = {} /\ s.gen = db.gen /\ s.by = by
      BY <3>1, SeenIs
    <3> QED BY <3>2 DEF by
  <2> QED BY <1>2, <2>3 DEF Table, Has, How, s
<1>3. CASE kind = "qdrant"
  <2> DEFINE raw == IF client.index = "hnsw" THEN db.raw ELSE {}
             by == How(client.index)
  <2>1. s = Qd!Search(db, client)
    BY <1>3, OfIs DEF Search
  <2>2. Qd!Search(db, client) = Seen(db.live, db.held, raw, by, db.gen)
    BY DEF Qd!Search, Qd!Seen, Seen, Qd!How, How
  <2> HIDE DEF s, raw, by
  <2>3. s.rows = db.live /\ s.dead = db.held /\ s.raw = raw /\ s.gen = db.gen
        /\ s.by = by
    BY <2>1, <2>2, SeenIs
  <2> QED BY <1>1, <1>3, <2>3 DEF Table, Has, s, raw, by, Shows
<1>4. CASE kind = "milvus"
  <2> DEFINE rows == IF client.strong THEN db.live ELSE db.seen
             raw == IF db.index THEN db.raw ELSE {}
             by == IF client.index = Nil THEN "default" ELSE How(client.index)
  <2>1. s = Mv!Search(db, client)
    BY <1>4, OfIs DEF Search
  <2>2. Mv!Search(db, client) = Seen(rows, db.held, raw, by, db.gen)
    BY DEF Mv!Search, Mv!Seen, Seen, Mv!How, How
  <2> HIDE DEF s, raw, by, rows
  <2>3. s.rows = rows /\ s.dead = db.held /\ s.raw = raw /\ s.gen = db.gen
        /\ s.by = by
    BY <2>1, <2>2, SeenIs
  <2> QED BY <1>1, <1>4, <2>3 DEF Table, Has, s, raw, by, rows, Shows
<1> QED BY <1>2, <1>3, <1>4 DEF Db

LEMMA TimedStep ==
    ASSUME Db, NEW c, BenchCase(c), kind' = kind, AtTimed(c), Main, IsDoc(doc),
           RightBench(c, doc)
    PROVE  AtTimed(c)' /\ IsDoc(doc') /\ RightBench(c, doc') /\ UNCHANGED load
<1> DEFINE L == LiveOf(c, ChangedBy(c))
           m == Cardinality(Queries)
           i == c.index
<1>1. PICK k \in 0 .. m, D \in {db.dead} :
          /\ todo = Timed(k) /\ Table(L, D, Has(i))
          /\ IF c.compact THEN D = {} \/ doc.left > 0 ELSE D = Old(ChangedBy(c))
  BY DEF AtTimed
<1> DEFINE f == RunSearch("timed")
           e == << >>
           n == k + 1
           N == Timed(n)
           s == Do("search", "timed")
<1>2. IsSeq(f) /\ IsSeq(e) /\ Len(f) = m /\ m \in Nat
      /\ \A j \in 1 .. m : f[j] = s
  BY RunSearchIs, NoneIs, BenchAssumption
<1>3. Timed(k) = Left(f, k, e) /\ N = Left(f, n, e) /\ n = k + 1
  BY DEF Timed
<1>4. todo # << >>
  BY DEF Main
<1> HIDE DEF f, e, n, N, s, m, i, L
<1>5. k # m
  <2> SUFFICES ASSUME k = m PROVE FALSE
    OBVIOUS
  <2>1. k \in 0 .. Len(f) /\ k = Len(f)
    BY <1>2
  <2>2. Left(f, k, e) = e
    BY <1>2, <2>1, FromIs
  <2> QED BY <1>1, <1>3, <1>4, <2>2 DEF e
<1>6. /\ n \in 0 .. m /\ n \in 1 .. m
      /\ Left(f, k, e) = First(f[n], Left(f, n, e))
      /\ IsSeq(Left(f, n, e))
  <2>1. k \in 0 .. Len(f) /\ k # Len(f)
    BY <1>2, <1>5
  <2>2. /\ n \in 0 .. Len(f) /\ n \in 1 .. Len(f)
        /\ Left(f, k, e) = First(f[n], Left(f, n, e))
        /\ IsSeq(Left(f, n, e))
    BY <1>2, <1>3, <2>1, FromNext
  <2> QED BY <1>2, <2>2
<1>7. todo = First(s, N) /\ IsSeq(N)
  BY <1>1, <1>2, <1>3, <1>6
<1>8. /\ todo' = N /\ UNCHANGED <<server, client, load, stage1>>
      /\ doc' = [doc EXCEPT !.searches = doc.searches \cup {Answer("timed", client)}]
  BY <1>7, SearchIs DEF s
<1>9. /\ IsDoc(doc') /\ doc'.left = doc.left
      /\ doc'.searches = doc.searches \cup {Answer("timed", client)}
  BY <1>8 DEF IsDoc
<1>10. RightSaw(c, Search(db, client), doc.left)
  <2> DEFINE q == Search(db, client)
  <2>1. i \in Indexes /\ Shows(i) /\ IsClient
    BY DEF i, AtTimed, Facing, BenchCase
  <2>2. q.rows = L /\ q.dead = D /\ q.by = How(i) /\ (i # "flat" => q.raw = {})
    BY <1>1, <2>1, SearchSees
  <2> HIDE DEF q
  <2>3. RightSaw(c, q, doc.left)
    BY <1>1, <2>2 DEF RightSaw, L, i
  <2> QED BY <2>3 DEF q
<1>11. Answer("timed", client).saw = Search(db, client)
  BY DEF Answer
<1>12. RightBench(c, doc')
  BY <1>9, <1>10, <1>11 DEF RightBench
<1>13. Table(L, D, Has(i))' /\ Facing(c)' /\ Shows(i)'
  <2>1. UNCHANGED <<db, client>>
    BY <1>8 DEF server
  <2>2. Facing(c) /\ Shows(i)
    BY DEF AtTimed, i
  <2> QED BY <1>1, <2>1, <2>2 DEF Table, Has, Facing, IsClient, Shows
<1>14. AtTimed(c)'
  <2>1. todo' = Timed(n) /\ doc'.left = doc.left
    BY <1>8, <1>9 DEF N
  <2>2. D \in {db'.dead}
    BY <1>13 DEF Table
  <2> QED BY <1>1, <1>6, <1>13, <2>1, <2>2 DEF AtTimed, L, i, m
<1> QED BY <1>8, <1>9, <1>12, <1>14

-----------------------------------------------------------------------------
(* The bench as a whole.                                                   *)

Preparing(c) ==
    \/ Building(Row, c.index, Changing(c))
    \/ AtChanges(c) \/ AtCareful(c) \/ AtCalls(c) \/ AtWait(c) \/ AtAfter(c)
    \/ AtClean(c) \/ AtSweep(c) \/ AtJobs(c) \/ AtMerged(c)

\* Where the process is in its program, what the server has, and that the
\* searches so far are right.
Benching(c) ==
    /\ load = NoLoop /\ IsDoc(doc) /\ RightBench(c, doc)
    /\ (Preparing(c) /\ doc.searches = {}) \/ AtTimed(c)

LEMMA AfterIsTimed ==
    ASSUME Db, NEW c, BenchCase(c), AtAfter(c), ~c.compact
    PROVE  AtTimed(c)
<1>1. todo = Timed(0) /\ 0 \in 0 .. Cardinality(Queries)
  BY BenchAssumption DEF AtAfter, After
<1>2. db.dead = Old(ChangedBy(c))
  BY DEF AtAfter, Table
<1> QED BY <1>1, <1>2 DEF AtTimed, AtAfter

LEMMA ChangesIsAfter ==
    ASSUME Db, NEW c, BenchCase(c), AtChanges(c), c.change = "none"
    PROVE  AtAfter(c)
<1>1. LiveOf(c, ChangedBy(c)) = Old(Row) /\ Old(ChangedBy(c)) = {} /\ ~c.compact
  BY DEF LiveOf, ChangedBy, Old, BenchCase
<1>2. Facing(c)
  BY DEF AtChanges, Built, Facing, Shows
<1> QED BY <1>1, <1>2 DEF AtAfter, AtChanges, Built, Changing

LEMMA AfterStep ==
    ASSUME Db, NEW c, BenchCase(c), kind' = kind, AtAfter(c), Main, Benching(c)
    PROVE  Benching(c)'
<1>1. CASE ~c.compact
  <2>1. AtTimed(c)
    BY <1>1, AfterIsTimed
  <2> QED BY <2>1, TimedStep DEF Benching
<1>2. CASE c.compact
  <2>0. doc.searches = {} \/ AtTimed(c)
    BY DEF Benching
  <2>1. CASE AtTimed(c)
    BY <2>1, TimedStep DEF Benching
  <2>2. ASSUME doc.searches = {}, kind = "milvus" PROVE Benching(c)'
    <3>1. AtJobs(c)
      BY <1>2, <2>2, FirstJob
    <3>2. /\ AtJobs(c)' \/ AtMerged(c)'
          /\ IsDoc(doc') /\ doc'.searches = doc.searches /\ UNCHANGED load
      BY <3>1, JobsStep DEF Benching
    <3> QED BY <2>2, <3>2 DEF Benching, Preparing, RightBench
  <2>3. ASSUME doc.searches = {}, kind = "pgvector" PROVE Benching(c)'
    <3>1. AtClean(c)' /\ UNCHANGED <<doc, load>>
      BY <1>2, <2>3, VacuumStep
    <3> QED BY <2>3, <3>1 DEF Benching, Preparing, RightBench
  <2>4. ASSUME doc.searches = {}, kind = "qdrant" PROVE Benching(c)'
    <3>1. AtSweep(c)' /\ UNCHANGED <<doc, load>>
      BY <1>2, <2>4, LowStep
    <3> QED BY <2>4, <3>1 DEF Benching, Preparing, RightBench
  <2> QED BY <2>0, <2>1, <2>2, <2>3, <2>4 DEF Db
<1> QED BY <1>1, <1>2

LEMMA BenchStep ==
    ASSUME Db, NEW c, BenchCase(c), kind' = kind, Benching(c), Main
    PROVE  Benching(c)'
<1>1. load = NoLoop /\ IsDoc(doc) /\ RightBench(c, doc)
  BY DEF Benching
<1>2. CASE AtTimed(c)
  BY <1>1, <1>2, TimedStep DEF Benching
<1>3. ASSUME doc.searches = {}, Preparing(c)', UNCHANGED <<doc, load>>
      PROVE  Benching(c)'
  BY <1>1, <1>3 DEF Benching, RightBench
<1>4. ASSUME doc.searches = {}, AtTimed(c)', UNCHANGED <<doc, load>>
      PROVE  Benching(c)'
  BY <1>1, <1>4 DEF Benching, RightBench
<1>5. ASSUME doc.searches = {}, Building(Row, c.index, Changing(c))
      PROVE  Benching(c)'
  <2> DEFINE R == Changing(c)
             i == c.index
             S == Row
  <2>1. IsSeq(R) /\ i \in Indexes /\ S \in SUBSET Row /\ Building(S, i, R)
    BY <1>5, RestsBench DEF BenchCase
  <2>2. R' = R
    BY BenchSame
  <2>3. PICK r : r = R
    OBVIOUS
  <2> HIDE DEF R, i, S
  <2>4. IsSeq(r) /\ Building(S, i, r)
    BY <2>1, <2>3
  <2>5. /\ Building(S, i, r)' \/ (todo' = r /\ Built(S, i)')
        /\ UNCHANGED <<doc, load, stage1, up, saved>>
    BY <2>1, <2>4, BuildStep
  <2>6. Building(S, i, R)' \/ (todo' = R' /\ Built(S, i)')
    BY <2>2, <2>3, <2>5
  <2>7. Preparing(c)'
    BY <2>6 DEF Preparing, AtChanges, R, i, S
  <2> QED BY <1>3, <1>5, <2>5, <2>7
<1>6. ASSUME AtAfter(c) PROVE Benching(c)'
  BY <1>6, AfterStep
<1>7. ASSUME doc.searches = {}, AtChanges(c) PROVE Benching(c)'
  <2>1. CASE c.change = "none"
    BY <1>6, <1>7, <2>1, ChangesIsAfter
  <2>2. CASE c.change # "none"
    <3>1. (AtCareful(c)' \/ AtCalls(c)') /\ UNCHANGED <<doc, load>>
      BY <1>7, <2>2, ChangesStep
    <3> QED BY <1>3, <1>7, <3>1 DEF Preparing
  <2> QED BY <2>1, <2>2
<1>8. ASSUME doc.searches = {}, AtCareful(c) PROVE Benching(c)'
  <2>1. AtCalls(c)' /\ UNCHANGED <<doc, load>>
    BY <1>8, CarefulStep
  <2> QED BY <1>3, <1>8, <2>1 DEF Preparing
<1>9. ASSUME doc.searches = {}, AtWait(c) PROVE Benching(c)'
  <2>1. CASE c.change # "update" \/ kind = "pgvector"
    BY <1>6, <1>9, <2>1, WaitOver
  <2>2. CASE c.change = "update" /\ kind # "pgvector"
    <3>1. AtAfter(c)' /\ UNCHANGED <<doc, load>>
      BY <1>9, <2>2, WaitStep
    <3> QED BY <1>3, <1>9, <3>1 DEF Preparing
  <2> QED BY <2>1, <2>2
<1>10. ASSUME doc.searches = {}, AtCalls(c) PROVE Benching(c)'
  <2>1. c.change # "none"
    BY <1>10 DEF AtCalls
  <2>2. PICK k \in 0 .. Len(Calls(c)) : todo = Called(c, k) /\ Half(c, Touched(c, k))
    BY <1>10 DEF AtCalls
  <2>3. CASE k # Len(Calls(c))
    <3>1. AtCalls(c)' /\ UNCHANGED <<doc, load>>
      BY <2>1, <2>2, <2>3, CallsStep
    <3> QED BY <1>3, <1>10, <3>1 DEF Preparing
  <2>4. CASE k = Len(Calls(c))
    <3>1. todo = Written(c) /\ Half(c, ChangedBy(c))
      BY <2>1, <2>2, <2>4, CallsEnd
    <3>2. CASE kind = "milvus"
      <4>1. AtWait(c)' /\ UNCHANGED <<doc, load>>
        BY <2>1, <3>1, <3>2, WrittenStep
      <4> QED BY <1>3, <1>10, <4>1 DEF Preparing
    <3>3. CASE kind # "milvus"
      <4>1. AtWait(c)
        BY <2>1, <3>1, <3>3 DEF AtWait, Written
      <4> QED BY <1>9, <1>10, <4>1
    <3> QED BY <3>2, <3>3
  <2> QED BY <2>3, <2>4
<1>11. ASSUME doc.searches = {}, AtClean(c) PROVE Benching(c)'
  <2>1. (AtClean(c)' \/ AtTimed(c)') /\ UNCHANGED <<doc, load>>
    BY <1>11, CleanStep
  <2> QED BY <1>3, <1>4, <1>11, <2>1 DEF Preparing
<1>12. ASSUME doc.searches = {}, AtSweep(c) PROVE Benching(c)'
  <2>1. AtTimed(c)' /\ UNCHANGED <<doc, load>>
    BY <1>12, SweepStep
  <2> QED BY <1>4, <1>12, <2>1
<1>13. ASSUME doc.searches = {}, AtJobs(c) PROVE Benching(c)'
  <2>1. /\ AtJobs(c)' \/ AtMerged(c)'
        /\ IsDoc(doc') /\ doc'.searches = doc.searches /\ UNCHANGED load
    BY <1>1, <1>13, JobsStep
  <2> QED BY <1>1, <1>13, <2>1 DEF Benching, Preparing, RightBench
<1>14. ASSUME doc.searches = {}, AtMerged(c) PROVE Benching(c)'
  <2>1. (AtMerged(c)' \/ AtTimed(c)') /\ UNCHANGED <<doc, load>>
    BY <1>14, MergedStep
  <2> QED BY <1>3, <1>4, <1>14, <2>1 DEF Preparing
<1> QED BY <1>2, <1>5, <1>6, <1>7, <1>8, <1>9, <1>10, <1>11, <1>12, <1>13, <1>14
        DEF Benching, Preparing

LEMMA BackIs ==
    ASSUME NEW L, NEW D, NEW i, Table(L, D, Has(i)), Behind, kind' = kind,
           client' = client
    PROVE  /\ Table(L, D, Has(i))' /\ (Shows(i) => Shows(i)')
           /\ db'.auto = db.auto /\ db'.raw \in {db.raw, {}}
<1>1. PICK ix : ix = Has(i)
  OBVIOUS
<1>2. Table(L, D, ix)
  BY <1>1, HasSame
<1>3. /\ Table(L, D, ix)' /\ db'.raw \in {db.raw, {}} /\ db'.seen \in {db.seen, L}
      /\ db'.auto = db.auto
  BY <1>2, BackgroundIs
<1>4. Table(L, D, Has(i))'
  BY <1>1, <1>3, HasSame
<1>5. db.live = L /\ db'.live = L
  BY <1>2, <1>3 DEF Table
<1>6. Shows(i) => Shows(i)'
  BY <1>3, <1>5 DEF Shows, Has
<1> QED BY <1>3, <1>4, <1>6

LEMMA BenchBack ==
    ASSUME Db, NEW c, BenchCase(c), kind' = kind, Benching(c), Behind,
           UNCHANGED <<todo, client, doc, load>>
    PROVE  Benching(c)'
<1>1. Facing(c) => Facing(c)'
  BY FacingSame
<1>2. /\ After(c)' = After(c) /\ Wait1(c)' = Wait1(c)
      /\ Calls(c)' = Calls(c) /\ Careful(c)' = Careful(c)
      /\ Changing(c)' = Changing(c)
      /\ \A k : Touched(c, k)' = Touched(c, k)
      /\ \A k : Called(c, k)' = Called(c, k)
  BY BenchSame
<1>3. ASSUME NEW X, Half(c, X) PROVE Half(c, X)'
  <2>1. Table(LiveOf(c, X), Old(X), Has(c.index))
    BY <1>3 DEF Half
  <2>2. /\ Table(LiveOf(c, X), Old(X), Has(c.index))'
        /\ db'.auto = db.auto /\ db'.raw \in {db.raw, {}}
    BY <2>1, BackIs
  <2> QED BY <1>1, <1>3, <2>2 DEF Half, Has
<1>4. AtTimed(c) => AtTimed(c)'
  <2> SUFFICES ASSUME AtTimed(c) PROVE AtTimed(c)'
    OBVIOUS
  <2>1. PICK k \in 0 .. Cardinality(Queries), D \in {db.dead} :
          /\ todo = Timed(k) /\ Table(LiveOf(c, ChangedBy(c)), D, Has(c.index))
          /\ IF c.compact THEN D = {} \/ doc.left > 0 ELSE D = Old(ChangedBy(c))
    BY DEF AtTimed
  <2>2. Table(LiveOf(c, ChangedBy(c)), D, Has(c.index))' /\ (Shows(c.index) => Shows(c.index)')
    BY <2>1, BackIs
  <2>3. D \in {db'.dead}
    BY <2>2 DEF Table
  <2> QED BY <1>1, <2>1, <2>2, <2>3 DEF AtTimed
<1>5. ASSUME Building(Row, c.index, Changing(c))
      PROVE  Building(Row, c.index, Changing(c))'
  <2> DEFINE R == Changing(c)
             i == c.index
             S == Row
  <2>1. S \in SUBSET Row /\ Building(S, i, R) /\ R' = R
    BY <1>2, <1>5
  <2>2. PICK r : r = R
    OBVIOUS
  <2> HIDE DEF R, i, S
  <2>3. Building(S, i, r)
    BY <2>1, <2>2
  <2>4. Building(S, i, r)'
    BY <2>1, <2>3, BuildBack
  <2>5. Building(S, i, R)'
    BY <2>1, <2>2, <2>4
  <2> QED BY <2>5 DEF R, i, S
<1>6. AtChanges(c) => AtChanges(c)'
  <2> DEFINE S == Row
             i == c.index
  <2>1. S \in SUBSET Row
    OBVIOUS
  <2> HIDE DEF S, i
  <2>2. Built(S, i) => Built(S, i)'
    BY <2>1, BuildBack
  <2> QED BY <1>2, <2>2 DEF AtChanges, S, i
<1>7. AtCareful(c) => AtCareful(c)'
  <2> SUFFICES ASSUME AtCareful(c) PROVE AtCareful(c)'
    OBVIOUS
  <2>1. Table(Old(Row), {}, Has(c.index))
    BY DEF AtCareful
  <2>2. /\ Table(Old(Row), {}, Has(c.index))' /\ (Shows(c.index) => Shows(c.index)')
        /\ db'.auto = db.auto
    BY <2>1, BackIs
  <2> QED BY <1>1, <1>2, <2>2 DEF AtCareful
<1>8. AtCalls(c) => AtCalls(c)'
  <2> SUFFICES ASSUME AtCalls(c) PROVE AtCalls(c)'
    OBVIOUS
  <2>1. PICK k \in 0 .. Len(Calls(c)) : todo = Called(c, k) /\ Half(c, Touched(c, k))
    BY DEF AtCalls
  <2>2. PICK X : X = Touched(c, k)
    OBVIOUS
  <2>3. Half(c, X)'
    BY <1>3, <2>1, <2>2
  <2>4. Half(c, Touched(c, k))'
    BY <1>2, <2>2, <2>3
  <2> QED BY <1>2, <2>1, <2>4 DEF AtCalls
<1>9. AtWait(c) => AtWait(c)'
  <2>1. Half(c, ChangedBy(c)) => Half(c, ChangedBy(c))'
    BY <1>3
  <2> QED BY <1>2, <2>1 DEF AtWait
<1>10. AtAfter(c) => AtAfter(c)'
  <2> SUFFICES ASSUME AtAfter(c) PROVE AtAfter(c)'
    OBVIOUS
  <2>1. Table(LiveOf(c, ChangedBy(c)), Old(ChangedBy(c)), Has(c.index))
    BY DEF AtAfter
  <2>2. /\ Table(LiveOf(c, ChangedBy(c)), Old(ChangedBy(c)), Has(c.index))'
        /\ (Shows(c.index) => Shows(c.index)') /\ db'.auto = db.auto
    BY <2>1, BackIs
  <2> QED BY <1>1, <1>2, <2>2 DEF AtAfter
<1>11. AtClean(c) => AtClean(c)'
  <2> SUFFICES ASSUME AtClean(c) PROVE AtClean(c)'
    OBVIOUS
  <2>1. Table(LiveOf(c, ChangedBy(c)), {}, Has(c.index))
    BY DEF AtClean
  <2>2. Table(LiveOf(c, ChangedBy(c)), {}, Has(c.index))'
    BY <2>1, BackIs
  <2> QED BY <1>1, <2>2 DEF AtClean
<1>12. AtSweep(c) => AtSweep(c)'
  <2> SUFFICES ASSUME AtSweep(c) PROVE AtSweep(c)'
    OBVIOUS
  <2>1. /\ IsTable(db') /\ db'.live = db.live /\ db'.held = db'.dead
        /\ db'.auto = "low" /\ db'.index = db.index /\ db'.raw \in {db.raw, {}}
    BY DEF AtSweep, Behind, server, Background, CatchUp, IndexRows, Clean, Register, HandOff,
           Running, Set, IsTable
  <2> QED BY <1>1, <2>1 DEF AtSweep, Has
<1>13. Reclaiming(c) =>
          Reclaiming(c)' /\ db'.raw \in {db.raw, {}} /\ db'.dead = db.dead
  <2> SUFFICES ASSUME Reclaiming(c)
               PROVE  Reclaiming(c)' /\ db'.raw \in {db.raw, {}} /\ db'.dead = db.dead
    OBVIOUS
  <2>1. /\ IsTable(db') /\ db'.live = db.live /\ db'.dead = db.dead
        /\ db'.auto = "off" /\ db'.index = db.index /\ db'.raw \in {db.raw, {}}
    BY DEF Reclaiming, Behind, server, Background, CatchUp, IndexRows, Clean, Register, HandOff,
           Running, Set, IsTable
  <2> QED BY <1>1, <2>1 DEF Reclaiming
<1>14. AtJobs(c) => AtJobs(c)'
  BY <1>13 DEF AtJobs
<1>15. AtMerged(c) => AtMerged(c)'
  BY <1>13 DEF AtMerged
<1>16. Preparing(c) => Preparing(c)'
  BY <1>5, <1>6, <1>7, <1>8, <1>9, <1>10, <1>11, <1>12, <1>14, <1>15 DEF Preparing
<1> QED BY <1>4, <1>16 DEF Benching, RightBench



-----------------------------------------------------------------------------
(* A load run: its program, and where it is.                               *)

LoadCase(c) == c.prog = "load" /\ c.index \in Indexes /\ c.rate \in 0 .. 1

\* The rows the inserter adds, and those of the build.
Late(c) == IF c.rate > 0 THEN Later ELSE {}

Early(c) == Row \ Late(c)

Recount(k) == Left(RunSearch("after_inserts"), k, << >>)

Strengthen == First(Do("strong", Nil), Recount(0))

Ending(c) ==
    IF c.rate = 0 THEN << >>
    ELSE IF kind = "milvus" THEN First(Do("flush", Nil), Strengthen)
    ELSE Recount(0)

Joining(c) == First(Do("join", c), Ending(c))

Serving(c) == First(Do("loop", c), Joining(c))

LEMMA RestsLoad ==
    ASSUME NEW c
    PROVE  /\ \A k \in 0 .. Cardinality(Queries) : IsSeq(Recount(k))
           /\ Recount(0) = RunSearch("after_inserts")
           /\ IsSeq(Strengthen) /\ IsSeq(Ending(c)) /\ IsSeq(Joining(c))
           /\ IsSeq(Serving(c))
<1> DEFINE f == RunSearch("after_inserts")
           e == << >>
           m == Cardinality(Queries)
<1>1. IsSeq(f) /\ IsSeq(e) /\ Len(f) = m /\ m \in Nat
  BY RunSearchIs, NoneIs, BenchAssumption
<1>2. \A k : Recount(k) = Left(f, k, e)
  BY DEF Recount
<1>3. f \o e = f
  BY <1>1, NoneIs
<1> HIDE DEF f, e, m
<1>4. ASSUME NEW k \in 0 .. m PROVE IsSeq(Recount(k))
  <2>1. k \in 0 .. Len(f)
    BY <1>1
  <2>2. IsSeq(Left(f, k, e))
    BY <1>1, <2>1, FromIs
  <2> QED BY <1>2, <2>2
<1>5. 0 \in 0 .. m /\ 0 \in 0 .. Len(f)
  BY <1>1
<1>6. Recount(0) = f
  BY <1>1, <1>2, <1>3, <1>5, FromIs
<1>7. IsSeq(Strengthen)
  BY <1>4, <1>5, FirstIs DEF Strengthen
<1>8. IsSeq(First(Do("flush", Nil), Strengthen))
  BY <1>7, FirstIs
<1>9. IsSeq(Ending(c))
  BY <1>4, <1>5, <1>8, NoneIs DEF Ending
<1>10. IsSeq(Joining(c))
  BY <1>9, FirstIs DEF Joining
<1>11. IsSeq(Serving(c))
  BY <1>10, FirstIs DEF Serving
<1> QED BY <1>4, <1>6, <1>7, <1>9, <1>10, <1>11 DEF f, m

LEMMA FinishIs ==
    ASSUME Db
    PROVE  /\ kind # "milvus" => FinishInserts = << >>
           /\ kind = "milvus" =>
                 FinishInserts = << Do("flush", Nil) >> \o << Do("strong", Nil) >>
<1>1. kind = "milvus" => FinishInserts = Mv!FinishInserts
  BY OfIs DEF FinishInserts
<1>2. kind # "milvus" => FinishInserts = << >>
  BY OfIs DEF FinishInserts, Pg!FinishInserts, Qd!FinishInserts, Db
<1>3. Mv!FinishInserts = << Do("flush", Nil) >> \o << Do("strong", Nil) >>
  BY DEF Mv!FinishInserts, Mv!Flush, Mv!Do, Do
<1> QED BY <1>1, <1>2, <1>3

\* The program of a load run, step by step.
LEMMA LoadRunIs ==
    ASSUME Db, NEW c, LoadCase(c)
    PROVE  RunLoad(c) = Build(Early(c), c.index, Serving(c))
<1> DEFINE X == Connect
           Y == Reset
           Z == Load(Early(c))
           U == BuildIndex(c.index)
           a == << Do("loop", c), Do("join", c) >>
           E == IF c.rate > 0 THEN FinishInserts \o RunSearch("after_inserts")
                              ELSE << >>
           C == Serving(c)
<1>1. RunLoad(c) = ((((X \o Y) \o Z) \o U) \o a) \o E
  <2>1. Early(c) = IF c.rate > 0 THEN Row \ Later ELSE Row
    BY DEF Early, Late
  <2> QED BY <2>1 DEF RunLoad
<1>2. IsSeq(C) /\ IsSeq(Ending(c)) /\ IsSeq(RunSearch("after_inserts"))
      /\ Recount(0) = RunSearch("after_inserts") /\ IsSeq(Joining(c))
  BY RestsLoad, RunSearchIs
<1>3. E = Ending(c)
  <2>1. CASE c.rate = 0
    BY <2>1 DEF Ending
  <2>2. CASE c.rate > 0 /\ kind # "milvus"
    <3>1. c.rate # 0
      BY <2>2 DEF LoadCase
    <3> QED BY <1>2, <2>2, <3>1, FinishIs, NoneIs DEF Ending
  <2>3. CASE c.rate > 0 /\ kind = "milvus"
    <3>1. c.rate # 0
      BY <2>3 DEF LoadCase
    <3> DEFINE T == RunSearch("after_inserts")
               u == << Do("flush", Nil) >>
               v == << Do("strong", Nil) >>
    <3>2. (u \o v) \o T
             = First(Do("flush", Nil), First(Do("strong", Nil), T))
      <4>1. IsSeq(T) /\ IsSeq(u) /\ IsSeq(v)
        BY <1>2, OneIs
      <4> HIDE DEF T, u, v
      <4>2. (u \o v) \o T = u \o (v \o T)
        BY <4>1, JoinAgain
      <4> QED BY <4>2 DEF u, v, First
    <3> QED BY <1>2, <2>3, <3>1, <3>2, FinishIs DEF Ending, Strengthen
  <2> QED BY <2>1, <2>2, <2>3 DEF LoadCase
<1>4. IsSeq(a) /\ a \o Ending(c) = C
  <2> DEFINE T == Ending(c)
  <2>1. IsSeq(T)
    BY <1>2
  <2>2. C = First(Do("loop", c), First(Do("join", c), T))
    BY DEF Serving, Joining
  <2> HIDE DEF T, C
  <2>3. IsSeq(a) /\ a \o T = C
    BY <2>1, <2>2, Joins
  <2> QED BY <2>3 DEF T
<1>5. /\ IsSeq(X) /\ IsSeq(Y) /\ IsSeq(Z) /\ IsSeq(U)
      /\ X \o (Y \o (Z \o (U \o C))) = Build(Early(c), c.index, C)
  <2> DEFINE S == Early(c)
  <2>1. S \in SUBSET Row
    BY DEF Early
  <2> HIDE DEF C, S
  <2> QED BY <1>2, <2>1, BuildIs DEF S
<1>6. IsSeq(E)
  BY <1>2, <1>3
<1> HIDE DEF X, Y, Z, U, a, C, E
<1> DEFINE P == ((X \o Y) \o Z) \o U
<1>9. IsSeq(P) /\ P \o C = X \o (Y \o (Z \o (U \o C)))
  <2>1. IsSeq(X) /\ IsSeq(Y) /\ IsSeq(Z) /\ IsSeq(U) /\ IsSeq(C)
    BY <1>2, <1>5
  <2> QED BY <2>1, JoinMore
<1>10. (P \o a) \o E = P \o (a \o E)
  <2> HIDE DEF P
  <2> QED BY <1>4, <1>6, <1>9, JoinAgain
<1>11. RunLoad(c) = (P \o a) \o E
  BY <1>1, Zenon
<1>12. a \o E = C
  BY <1>3, <1>4, Zenon
<1> HIDE DEF P
<1>13. RunLoad(c) = X \o (Y \o (Z \o (U \o C)))
  BY <1>9, <1>10, <1>11, <1>12, Zenon
<1> QED BY <1>5, <1>13, Zenon DEF C

-----------------------------------------------------------------------------
(* What the threads of the loop leave.                                     *)

\* The first k batches are tried: those counted as inserted are in the table,
\* and of those counted as failed perhaps some.
Stored(c, k) ==
    /\ Facing(c)
    /\ doc.inserted \in Nat /\ doc.errors \in Nat /\ doc.inserted + doc.errors = k
    /\ \E X \in SUBSET Done(Late(c), k) :
          /\ Table(Old(Early(c) \cup X), {}, Has(c.index))
          /\ Cardinality(X) \in doc.inserted .. k
    /\ kind = "milvus" => Old(Early(c)) \subseteq db.seen

Threading(c, k) ==
    /\ load = [first |-> load.first, done |-> load.done,
               stopped |-> load.stopped, late |-> load.late,
               todo |-> load.todo, client |-> load.client]
    /\ load.client = Attach(c.index)
    /\ load.todo = Left(Batches(Late(c)), k, << >>)

RightAnswer(c, a) ==
    /\ a # Unasked
    /\ a # Failed => Old(Early(c)) \subseteq a.saw.rows /\ a.saw.by = How(c.index)

\* Worker 0 has asked the queries below done, and stops after the last one.
Asking(c) ==
    /\ load.done \in 0 .. Cardinality(Queries)
    /\ 0 \in load.stopped => load.done = Cardinality(Queries)
    /\ load.first = [q \in Queries |-> load.first[q]]
    /\ \A q \in Queries : q < load.done => RightAnswer(c, load.first[q])

Answered(c, d) == \A q \in Queries : RightAnswer(c, d.first[q])

RightCounts(c, d) ==
    \A t \in d.searches : Cardinality(t.saw.rows) - Cardinality(Early(c))
                              \in d.inserted .. d.inserted + d.errors

\* What LoadCounts asks of the document of the case.
RightLoad(c, d) ==
    /\ d.inserted + d.errors = Cardinality(Late(c))
    /\ Answered(c, d) /\ RightCounts(c, d)

NewDoc == doc.searches = {} /\ doc.inserted = 0 /\ doc.errors = 0

AtStart(c) ==
    /\ load = NoLoop /\ NewDoc
    /\ todo = Serving(c) /\ Built(Early(c), c.index)

AtServing(c) ==
    /\ load # NoLoop /\ doc.searches = {}
    /\ todo = Serving(c) /\ Asking(c)
    /\ \E k \in 0 .. Cardinality(Late(c)) : Stored(c, k) /\ Threading(c, k)

AtJoin(c) ==
    /\ load # NoLoop /\ doc.searches = {}
    /\ todo = Joining(c) /\ 0 \in load.stopped /\ Answered(c, doc)
    /\ \E k \in 0 .. Cardinality(Late(c)) : Stored(c, k) /\ Threading(c, k)

AtEnding(c) ==
    /\ load = NoLoop
    /\ \/ todo = Ending(c)
       \/ kind = "milvus" /\ todo = Strengthen
       \/ /\ kind = "milvus" => client.strong = TRUE
          /\ \E k \in 0 .. Cardinality(Queries) : todo = Recount(k)
    /\ Stored(c, Cardinality(Late(c))) /\ Answered(c, doc) /\ RightCounts(c, doc)

Loading(c) ==
    /\ IsDoc(doc)
    /\ \/ Building(Early(c), c.index, Serving(c)) /\ load = NoLoop /\ NewDoc
       \/ AtStart(c) \/ AtServing(c) \/ AtJoin(c) \/ AtEnding(c)

LEMMA LateIs ==
    ASSUME NEW c
    PROVE  /\ Late(c) \in SUBSET Row /\ Early(c) \in SUBSET Row
           /\ Late(c) \cap Early(c) = {}
           /\ IsFiniteSet(Late(c)) /\ Cardinality(Late(c)) \in Nat
           /\ IsFiniteSet(Early(c)) /\ Cardinality(Early(c)) \in Nat
<1>1. Late(c) \in SUBSET Row /\ Early(c) \in SUBSET Row
      /\ Late(c) \cap Early(c) = {}
  BY BenchAssumption DEF Late, Early
<1>2. \A S \in SUBSET Row : IsFiniteSet(S) /\ Cardinality(S) \in Nat
  BY BenchAssumption, FS_Subset, FS_CardinalityType
<1> QED BY <1>1, <1>2

LEMMA CountIs ==
    ASSUME NEW c, NEW X \in SUBSET Late(c)
    PROVE  /\ IsFiniteSet(X) /\ Cardinality(X) \in Nat
           /\ Cardinality(Old(Early(c) \cup X)) - Cardinality(Early(c))
                = Cardinality(X)
<1> DEFINE E == Early(c)
           U == E \cup X
           Z == {0}
<1>1. IsFiniteSet(E) /\ IsFiniteSet(X) /\ E \cap X = {}
  BY LateIs, FS_Subset
<1> HIDE DEF E
<1>2. /\ Cardinality(E) \in Nat /\ Cardinality(X) \in Nat
  BY <1>1, FS_CardinalityType
<1>3. /\ IsFiniteSet(U)
      /\ Cardinality(U) = Cardinality(E) + Cardinality(X) - Cardinality(E \cap X)
  BY <1>1, FS_Union
<1>4. Cardinality(E \cap X) = 0
  BY <1>1, FS_EmptySet
<1>5. IsFiniteSet(Z) /\ Cardinality(Z) = 1
  BY FS_Singleton
<1> HIDE DEF U, Z
<1>6. Cardinality(U \X Z) = Cardinality(U) * Cardinality(Z)
  BY <1>3, <1>5, FS_Product
<1>7. Cardinality(U) \in Nat /\ Cardinality(U) = Cardinality(E) + Cardinality(X)
  BY <1>2, <1>3, <1>4
<1>8. Cardinality(U \X Z) = Cardinality(U)
  BY <1>5, <1>6, <1>7
<1>9. Old(E \cup X) = U \X Z
  BY DEF Old, U, Z
<1>10. Cardinality(Old(E \cup X)) = Cardinality(E) + Cardinality(X)
  BY <1>7, <1>8, <1>9
<1>11. Cardinality(Old(E \cup X)) - Cardinality(E) = Cardinality(X)
  BY <1>2, <1>10
<1> QED BY <1>1, <1>2, <1>11 DEF E

LEMMA InsertIs == ASSUME Db, NEW S PROVE Insert(S) = Do("put", Old(S))
<1>1. /\ kind = "pgvector" => Insert(S) = Pg!Insert(S)
      /\ kind = "qdrant" => Insert(S) = Qd!Insert(S)
      /\ kind = "milvus" => Insert(S) = Mv!Insert(S)
  BY OfIs DEF Insert
<1>2. /\ Pg!Insert(S) = Do("put", Old(S))
      /\ Qd!Insert(S) = Do("put", Old(S))
      /\ Mv!Insert(S) = Do("put", Old(S))
  BY DEF Pg!Insert, Qd!Insert, Mv!Insert, Pg!Do, Qd!Do, Mv!Do, Do,
         Pg!Old, Qd!Old, Mv!Old, Old
<1> QED BY <1>1, <1>2 DEF Db

LEMMA AttachIs ==
    ASSUME Db, NEW i
    PROVE  kind # "pgvector" => Attach(i).index = i
<1>1. /\ kind = "qdrant" => Attach(i) = Qd!Attach(i)
      /\ kind = "milvus" => Attach(i) = Mv!Attach(i)
  BY OfIs DEF Attach
<1>2. Qd!Attach(i).index = i /\ Mv!Attach(i).index = i
  BY DEF Qd!Attach, Mv!Attach, Qd!MakeClient, Mv!MakeClient
<1> QED BY <1>1, <1>2 DEF Db

\* Whose client it is, and what a search of it shows.
LEMMA SearchRows ==
    ASSUME Db, NEW i \in Indexes, NEW L, NEW D, Table(L, D, Has(i)), NEW cl,
           kind # "pgvector" => cl.index = i
    PROVE  LET s == Search(db, cl)
           IN  /\ s.by = How(i)
               /\ s.rows = L \/ (kind = "milvus" /\ s.rows = db.seen)
               /\ cl.strong = TRUE => s.rows = L
<1> DEFINE s == Search(db, cl)
<1>1. i \in {"flat", "hnsw"} /\ Nil \notin {"flat", "hnsw"}
  BY BenchAssumption DEF Indexes
<1>2. CASE kind = "pgvector"
  <2> DEFINE by == IF db.index THEN "index" ELSE "scan"
  <2>1. s = Pg!Search(db, cl)
    BY <1>2, OfIs DEF Search
  <2>2. Pg!Search(db, cl) = Seen(db.live, db.held, {}, by, db.gen)
    BY DEF Pg!Search, Pg!Seen, Seen
  <2> HIDE DEF s, by
  <2>3. s.rows = db.live /\ s.by = by
    BY <2>1, <2>2, SeenIs
  <2> QED BY <1>2, <2>3 DEF Table, Has, How, s, by
<1>3. CASE kind = "qdrant"
  <2> DEFINE raw == IF cl.index = "hnsw" THEN db.raw ELSE {}
             by == How(cl.index)
  <2>1. s = Qd!Search(db, cl)
    BY <1>3, OfIs DEF Search
  <2>2. Qd!Search(db, cl) = Seen(db.live, db.held, raw, by, db.gen)
    BY DEF Qd!Search, Qd!Seen, Seen, Qd!How, How
  <2> HIDE DEF s, raw, by
  <2>3. s.rows = db.live /\ s.by = by
    BY <2>1, <2>2, SeenIs
  <2> QED BY <1>3, <2>3 DEF Table, s, by
<1>4. CASE kind = "milvus"
  <2> DEFINE rows == IF cl.strong THEN db.live ELSE db.seen
             raw == IF db.index THEN db.raw ELSE {}
             by == IF cl.index = Nil THEN "default" ELSE How(cl.index)
  <2>1. s = Mv!Search(db, cl)
    BY <1>4, OfIs DEF Search
  <2>2. Mv!Search(db, cl) = Seen(rows, db.held, raw, by, db.gen)
    BY DEF Mv!Search, Mv!Seen, Seen, Mv!How, How
  <2> HIDE DEF s, raw, by, rows
  <2>3. s.rows = rows /\ s.by = by
    BY <2>1, <2>2, SeenIs
  <2> QED BY <1>1, <1>4, <2>3 DEF Table, s, by, rows
<1> QED BY <1>2, <1>3, <1>4 DEF Db

-----------------------------------------------------------------------------
(* The steps of the threads.                                               *)

\* A batch that is tried: it is put or not, and counted one way or the other.
LEMMA StoredMore ==
    ASSUME Db, NEW c, LoadCase(c), kind' = kind, client' = client,
           NEW k \in 0 .. Cardinality(Late(c)), k # Cardinality(Late(c)),
           NEW n, n = k + 1, Stored(c, k), IsDoc(doc),
           NEW r \in Late(c), r \notin Done(Late(c), k),
           Done(Late(c), n) = Done(Late(c), k) \cup {r},
           \/ /\ db' = Changed(VersionsOf({r}), {<<r, 0>>})
              /\ doc' = [doc EXCEPT !.inserted = @ + 1]
           \/ /\ db' = Changed(VersionsOf({r}), {<<r, 0>>}) \/ db' = db
              /\ doc' = [doc EXCEPT !.errors = @ + 1]
    PROVE  /\ Stored(c, n)' /\ IsDoc(doc')
           /\ doc'.searches = doc.searches /\ doc'.first = doc.first
<1> DEFINE E == Early(c)
           D == Done(Late(c), k)
           Z == Done(Late(c), n)
<1>1. PICK X \in SUBSET D :
          /\ Table(Old(E \cup X), {}, Has(c.index))
          /\ Cardinality(X) \in doc.inserted .. k
  BY DEF Stored
<1>2. PICK ix : ix = Has(c.index)
  OBVIOUS
<1>3. Table(Old(E \cup X), {}, ix)
  BY <1>1, <1>2, HasSame
<1>4. /\ D \subseteq Late(c) /\ Z = D \cup {r} /\ r \notin D /\ r \notin E
      /\ k \in Nat /\ n \in Nat
  BY LateIs, DoneIs
<1>5. IsFiniteSet(X) /\ Cardinality(X) \in Nat
  BY <1>1, <1>4, CountIs
<1>6. Cardinality(X \cup {r}) = Cardinality(X) + 1
  BY <1>4, <1>5, FS_AddElement
<1>7. doc.inserted \in Nat /\ doc.errors \in Nat /\ doc.inserted + doc.errors = k
  BY DEF Stored
<1>8. Facing(c)'
  BY FacingSame DEF Stored
<1>9. ASSUME db' = Changed(VersionsOf({r}), {<<r, 0>>})
      PROVE  Table(Old(E \cup (X \cup {r})), {}, Has(c.index))'
             /\ (kind = "milvus" => db'.seen = db.seen)
  <2> DEFINE L == Old(E \cup X)
  <2>1. db.live = L
    BY <1>3 DEF Table
  <2>2. \A v \in L : v[1] \notin {r}
    BY <1>1, <1>4 DEF Old
  <2> HIDE DEF L
  <2>3. VersionsOf({r}) = {}
    BY <2>1, <2>2, VersionsOfNone
  <2>4. db' = Changed({}, {<<r, 0>>}) /\ Table(L, {}, ix)
    BY <1>3, <1>9, <2>3 DEF L
  <2>5. Table((L \ {}) \cup {<<r, 0>>}, {} \cup {}, ix)'
    BY <2>4, ChangedIs
  <2>6. (L \ {}) \cup {<<r, 0>>} = Old(E \cup (X \cup {r}))
    BY DEF L, Old
  <2>7. Table(Old(E \cup (X \cup {r})), {}, ix)'
    BY <2>5, <2>6
  <2>8. kind = "milvus" => db'.seen = db.seen
    BY <2>4 DEF Changed, Table, IsTable
  <2> QED BY <1>2, <2>7, <2>8, HasSame
<1>10. ASSUME db' = db
       PROVE  Table(Old(E \cup X), {}, Has(c.index))'
  BY <1>1, <1>10 DEF Table, Has
<1>11. E' = E /\ Z' = Z /\ Late(c)' = Late(c)
  BY DEF Early, Late, Done, Batches
<1>12. kind' = "milvus" => Old(E) \subseteq db'.seen
  BY <1>9, <1>10 DEF Stored
<1>13. X \in SUBSET Z /\ X \cup {r} \in SUBSET Z
  BY <1>1, <1>4
<1> HIDE DEF E, D, Z
<1>14. CASE db' = Changed(VersionsOf({r}), {<<r, 0>>}) /\ doc' = [doc EXCEPT !.inserted = @ + 1]
  <2>1. IsDoc(doc') /\ doc'.inserted = doc.inserted + 1 /\ doc'.errors = doc.errors
        /\ doc'.searches = doc.searches /\ doc'.first = doc.first
    BY <1>14 DEF IsDoc
  <2>2. /\ doc'.inserted \in Nat /\ doc'.errors \in Nat /\ doc'.inserted + doc'.errors = n
        /\ Cardinality(X \cup {r}) \in doc'.inserted .. n
    BY <1>1, <1>4, <1>5, <1>6, <1>7, <2>1
  <2>3. \E W \in SUBSET Z : Table(Old(E \cup W), {}, Has(c.index))'
                            /\ Cardinality(W) \in doc'.inserted .. n
    BY <1>9, <1>13, <1>14, <2>2
  <2> QED BY <1>8, <1>11, <1>12, <2>1, <2>2, <2>3 DEF Stored, E, Z
<1>15. CASE doc' = [doc EXCEPT !.errors = @ + 1]
  <2>1. IsDoc(doc') /\ doc'.inserted = doc.inserted /\ doc'.errors = doc.errors + 1
        /\ doc'.searches = doc.searches /\ doc'.first = doc.first
    BY <1>15 DEF IsDoc
  <2>2. /\ doc'.inserted \in Nat /\ doc'.errors \in Nat /\ doc'.inserted + doc'.errors = n
        /\ Cardinality(X \cup {r}) \in doc'.inserted .. n
        /\ Cardinality(X) \in doc'.inserted .. n
    BY <1>1, <1>4, <1>5, <1>6, <1>7, <2>1
  <2>3. \E W \in SUBSET Z : Table(Old(E \cup W), {}, Has(c.index))'
                            /\ Cardinality(W) \in doc'.inserted .. n
    BY <1>9, <1>10, <1>13, <2>2
  <2> QED BY <1>8, <1>11, <1>12, <2>1, <2>2, <2>3 DEF Stored, E, Z
<1> QED BY <1>14, <1>15


\* The server and the clients stay, or the server goes on by itself.
LEMMA StoredSame ==
    ASSUME NEW c, NEW k, Stored(c, k), Behind,
           UNCHANGED <<kind, client>>,
           doc'.inserted = doc.inserted, doc'.errors = doc.errors
    PROVE  Stored(c, k)'
<1>1. /\ kind' = kind /\ client' = client
      /\ doc'.inserted = doc.inserted /\ doc'.errors = doc.errors
  OBVIOUS
<1>2. PICK X \in SUBSET Done(Late(c), k) :
          /\ Table(Old(Early(c) \cup X), {}, Has(c.index))
          /\ Cardinality(X) \in doc.inserted .. k
  BY DEF Stored
<1> DEFINE L == Old(Early(c) \cup X)
<1>3. PICK ix : ix = Has(c.index)
  OBVIOUS
<1>4. Table(L, {}, ix)
  BY <1>2, <1>3, HasSame
<1> HIDE DEF L
<1>5. Table(L, {}, ix)' /\ db'.seen \in {db.seen, L}
  BY <1>1, <1>4, BackgroundIs
<1>6. Table(L, {}, Has(c.index))'
  BY <1>1, <1>3, <1>5, HasSame
<1>7. Facing(c)'
  BY <1>1, FacingSame DEF Stored
<1>8. Early(c)' = Early(c) /\ Done(Late(c), k)' = Done(Late(c), k)
  BY DEF Early, Late, Done, Batches
<1>9. kind' = "milvus" => Old(Early(c)) \subseteq db'.seen
  <2>1. Old(Early(c)) \subseteq L
    BY DEF L, Old
  <2> QED BY <1>1, <1>5, <2>1 DEF Stored
<1>10. \E W \in SUBSET Done(Late(c), k)' :
          /\ Table(Old(Early(c) \cup W), {}, Has(c.index))'
          /\ Cardinality(W) \in doc'.inserted .. k
  BY <1>1, <1>2, <1>6, <1>8 DEF L
<1>11. /\ doc'.inserted \in Nat /\ doc'.errors \in Nat
       /\ doc'.inserted + doc'.errors = k
  BY <1>1 DEF Stored
<1> QED BY <1>7, <1>8, <1>9, <1>10, <1>11 DEF Stored

LEMMA LoopIs == ASSUME NEW l, "first" \in DOMAIN l PROVE l # NoLoop
<1>1. DOMAIN NoLoop = {}
  BY DEF NoLoop
<1> QED BY <1>1

LEMMA InsertStep ==
    ASSUME Db, NEW c, LoadCase(c), kind' = kind, IsDoc(doc), InsertBatch,
           NEW k \in 0 .. Cardinality(Late(c)), Stored(c, k), Threading(c, k)
    PROVE  /\ UNCHANGED <<todo, client>> /\ load' # NoLoop
           /\ load'.first = load.first /\ load'.done = load.done
           /\ load'.stopped = load.stopped
           /\ doc'.searches = doc.searches /\ doc'.first = doc.first /\ IsDoc(doc')
           /\ \E n \in 0 .. Cardinality(Late(c)) : Stored(c, n)' /\ Threading(c, n)'
<1> DEFINE S == Late(c)
           f == Batches(S)
           e == << >>
           n == k + 1
           m == Cardinality(S)
<1>1. /\ IsSeq(f) /\ IsSeq(e) /\ Len(f) = m /\ m \in Nat
  BY LateIs, BatchesAre, NoneIs
<1>2. load.todo = Left(f, k, e) /\ load.todo # e
      /\ load' = [load EXCEPT !.todo = Tail(@)]
      /\ UNCHANGED <<todo, client>>
  BY DEF Threading, InsertBatch
<1>3. S \in SUBSET Row /\ k \in 0 .. m /\ n = k + 1
  BY LateIs
<1> HIDE DEF f, e, n, m
<1>4. k # Len(f)
  BY <1>1, <1>2, <1>3, FromIs
<1>5. /\ n \in 0 .. Len(f) /\ Left(f, k, e) = First(f[n], Left(f, n, e))
      /\ IsSeq(Left(f, n, e))
  <2>1. k \in 0 .. Len(f)
    BY <1>1, <1>3
  <2> QED BY <1>1, <1>3, <1>4, <2>1, FromNext
<1>6. Head(load.todo) = f[n] /\ Tail(load.todo) = Left(f, n, e)
  BY <1>2, <1>5, FirstIs
<1>7. PICK r \in S : /\ r \notin Done(S, k) /\ f[n] = {r}
                     /\ Done(S, n) = Done(S, k) \cup {r}
  <2>1. k # m
    BY <1>1, <1>4
  <2> QED BY <1>3, <2>1, DoneIs DEF f, n, m
<1>8. ASSUME Serve(Insert(Head(load.todo)))
      PROVE  db' = Changed(VersionsOf({r}), {<<r, 0>>})
  <2> DEFINE d == Do("put", Old({r}))
  <2>1. Insert(Head(load.todo)) = d
    BY <1>6, <1>7, InsertIs
  <2>2. d.op = "put" /\ d.arg = Old({r})
    BY DEF Do
  <2> HIDE DEF d
  <2>3. db' = Changed(VersionsOf({v[1] : v \in d.arg}), d.arg)
    BY <1>8, <2>1, <2>2, ServeTableIs
  <2>4. d.arg = {<<r, 0>>}
    BY <2>2, OneByOne DEF Old
  <2>5. {v[1] : v \in {<<r, 0>>}} = {r}
    OBVIOUS
  <2> QED BY <2>3, <2>4, <2>5
<1>9. \/ /\ db' = Changed(VersionsOf({r}), {<<r, 0>>})
         /\ doc' = [doc EXCEPT !.inserted = @ + 1]
      \/ /\ db' = Changed(VersionsOf({r}), {<<r, 0>>}) \/ db' = db
         /\ doc' = [doc EXCEPT !.errors = @ + 1]
  BY <1>8 DEF InsertBatch, server
<1>10. /\ Stored(c, n)' /\ IsDoc(doc') /\ doc'.searches = doc.searches
       /\ doc'.first = doc.first
  <2>1. /\ k \in 0 .. Cardinality(Late(c)) /\ k # Cardinality(Late(c))
        /\ r \in Late(c) /\ r \notin Done(Late(c), k)
        /\ Done(Late(c), n) = Done(Late(c), k) \cup {r} /\ client' = client
    BY <1>1, <1>2, <1>4, <1>7 DEF m
  <2> HIDE DEF S
  <2> QED BY <1>3, <1>9, <2>1, StoredMore
<1>11. /\ load' = [first |-> load'.first, done |-> load'.done,
               stopped |-> load'.stopped, late |-> load'.late,
               todo |-> load'.todo, client |-> load'.client]
       /\ load'.client = load.client /\ load'.todo = Left(f, n, e)
       /\ load'.first = load.first /\ load'.done = load.done
       /\ load'.stopped = load.stopped
  <2>1. load = [first |-> load.first, done |-> load.done,
               stopped |-> load.stopped, late |-> load.late,
               todo |-> load.todo, client |-> load.client]
    BY DEF Threading
  <2> QED BY <1>2, <1>6, <2>1
<1>12. Attach(c.index)' = Attach(c.index)
  BY Zenon DEF Attach, Of, Pg!Attach, Qd!Attach, Mv!Attach,
               Pg!MakeClient, Qd!MakeClient, Mv!MakeClient
<1>13. Threading(c, n)'
  <2>1. Left(Batches(Late(c)), n, << >>)' = Left(f, n, e)
    BY DEF f, e, Left, From, Batches, Late, n
  <2> QED BY <1>11, <1>12, <2>1 DEF Threading
<1>14. n \in 0 .. m /\ load' # NoLoop
  <2>1. DOMAIN load' = {"first", "done", "stopped", "late", "todo", "client"}
    BY <1>11
  <2> QED BY <1>1, <1>5, <2>1, LoopIs
<1> QED BY <1>2, <1>10, <1>11, <1>13, <1>14 DEF m


LEMMA LoadSame ==
    ASSUME kind' = kind, NEW c
    PROVE  /\ Ending(c)' = Ending(c) /\ Joining(c)' = Joining(c)
           /\ Serving(c)' = Serving(c) /\ Strengthen' = Strengthen
           /\ \A k : Recount(k)' = Recount(k)
           /\ Attach(c.index)' = Attach(c.index)
           /\ \A k : Left(Batches(Late(c)), k, << >>)'
                        = Left(Batches(Late(c)), k, << >>)
           /\ Early(c)' = Early(c) /\ Late(c)' = Late(c)
<1>1. \A k : Recount(k)' = Recount(k)
  BY DEF Recount, RunSearch, Left, From
<1>2. Strengthen' = Strengthen
  BY <1>1 DEF Strengthen
<1>3. Ending(c)' = Ending(c)
  BY <1>1, <1>2 DEF Ending
<1>4. Joining(c)' = Joining(c)
  BY <1>3 DEF Joining
<1>5. Serving(c)' = Serving(c)
  BY <1>4 DEF Serving
<1>6. Attach(c.index)' = Attach(c.index)
  BY Zenon DEF Attach, Of, Pg!Attach, Qd!Attach, Mv!Attach,
               Pg!MakeClient, Qd!MakeClient, Mv!MakeClient
<1>7. \A k : Left(Batches(Late(c)), k, << >>)' = Left(Batches(Late(c)), k, << >>)
  BY DEF Left, From, Batches, Late
<1>8. Early(c)' = Early(c) /\ Late(c)' = Late(c)
  BY DEF Early, Late
<1> QED BY <1>1, <1>2, <1>3, <1>4, <1>5, <1>6, <1>7, <1>8

\* What an answer has to be does not change.
LEMMA AnswersSame ==
    ASSUME NEW c
    PROVE  /\ \A a : RightAnswer(c, a)' <=> RightAnswer(c, a)
           /\ \A d : RightCounts(c, d)' <=> RightCounts(c, d)
BY DEF RightAnswer, RightCounts, Early, Late, Unasked, Failed, Seen

\* An answer of the loop comes from the rows of the build at least.
LEMMA QueryStep ==
    ASSUME Db, NEW c, LoadCase(c), kind' = kind, AtServing(c), Query
    PROVE  /\ UNCHANGED <<server, todo, client, doc>>
           /\ load' # NoLoop /\ Asking(c)'
           /\ \A k : Threading(c, k) => Threading(c, k)'
<1>1. PICK k \in 0 .. Cardinality(Late(c)) : Stored(c, k) /\ Threading(c, k)
  BY DEF AtServing
<1> DEFINE n == load.done
           m == Cardinality(Queries)
<1>2. PICK a \in {Answer("loop", load.client), Failed} :
          load' = [load EXCEPT !.first[load.done] = a, !.done = @ + 1]
  BY DEF Query
<1>3. /\ UNCHANGED <<server, todo, client, doc>> /\ 0 \notin load.stopped
      /\ n < m /\ n \in Queries /\ n \in Nat /\ m \in Nat
  BY BenchAssumption DEF Query, FirstPass, AtServing, Asking
<1>4. RightAnswer(c, a)
  <2>1. CASE a = Failed
    BY <2>1 DEF RightAnswer, Failed, Unasked
  <2>2. CASE a = Answer("loop", load.client)
    <3> DEFINE s == Search(db, load.client)
    <3>1. a.phase = "loop" /\ a.saw = s
      BY <2>2 DEF Answer
    <3>2. a # Unasked
      BY <3>1 DEF Unasked
    <3>3. PICK X \in SUBSET Done(Late(c), k) :
              Table(Old(Early(c) \cup X), {}, Has(c.index))
      BY <1>1 DEF Stored
    <3>4. kind # "pgvector" => load.client.index = c.index
      BY <1>1, AttachIs DEF Threading
    <3>5. c.index \in Indexes
      BY DEF LoadCase
    <3> DEFINE L == Old(Early(c) \cup X)
               i == c.index
               cl == load.client
    <3>6. Old(Early(c)) \subseteq L
      BY DEF Old
    <3>7. /\ Table(L, {}, Has(i)) /\ i \in Indexes
          /\ kind # "pgvector" => cl.index = i
      BY <3>3, <3>4, <3>5
    <3>8. s = Search(db, cl)
      OBVIOUS
    <3> HIDE DEF L, i, cl, s
    <3>9. s.by = How(i) /\ (s.rows = L \/ (kind = "milvus" /\ s.rows = db.seen))
      BY <3>7, <3>8, SearchRows
    <3>10. Old(Early(c)) \subseteq s.rows
      BY <1>1, <3>6, <3>9 DEF Stored
    <3> QED BY <3>1, <3>2, <3>9, <3>10 DEF RightAnswer, i
  <2> QED BY <2>1, <2>2
<1>5. load = [first |-> load.first, done |-> load.done,
              stopped |-> load.stopped, late |-> load.late,
              todo |-> load.todo, client |-> load.client]
  BY <1>1 DEF Threading
<1>6. /\ load' = [first |-> load'.first, done |-> load'.done,
                  stopped |-> load'.stopped, late |-> load'.late,
                  todo |-> load'.todo, client |-> load'.client]
      /\ load'.first = [load.first EXCEPT ![n] = a] /\ load'.done = n + 1
      /\ load'.stopped = load.stopped /\ load'.todo = load.todo
      /\ load'.client = load.client
  BY <1>2, <1>5
<1>7. load' # NoLoop
  <2>1. DOMAIN load' = {"first", "done", "stopped", "late", "todo", "client"}
    BY <1>6
  <2> QED BY <2>1, LoopIs
<1>8. \A j : Threading(c, j) => Threading(c, j)'
  BY <1>6, LoadSame DEF Threading
<1> DEFINE g == load.first
           h == load'.first
<1>9. g = [q \in Queries |-> g[q]] /\ \A q \in Queries : q < n => RightAnswer(c, g[q])
  BY DEF AtServing, Asking
<1>10. h = [g EXCEPT ![n] = a]
  BY <1>6
<1> HIDE DEF g, h
<1>11. h = [q \in Queries |-> h[q]] /\ h[n] = a /\ \A q \in Queries : q # n => h[q] = g[q]
  BY <1>3, <1>9, <1>10
<1>12. \A q \in Queries : q < n + 1 => RightAnswer(c, h[q])
  <2>1. \A q \in Queries : q < n + 1 => q < n \/ q = n
    BY <1>3, BenchAssumption
  <2> QED BY <1>4, <1>9, <1>11, <2>1
<1>13. n + 1 \in 0 .. m /\ ~(0 \in load'.stopped)
  BY <1>3, <1>6
<1>14. \A q \in Queries : q < load'.done => RightAnswer(c, load'.first[q])
  BY <1>6, <1>12 DEF h
<1>15. load'.done \in 0 .. m /\ load'.first = [q \in Queries |-> load'.first[q]]
  BY <1>6, <1>11, <1>13 DEF h
<1>16. Asking(c)'
  BY <1>6, <1>13, <1>14, <1>15 DEF Asking
<1> QED BY <1>3, <1>7, <1>8, <1>16


\* A thread of the loop takes a step.
LEMMA ThreadsStep ==
    ASSUME Db, NEW c, LoadCase(c), kind' = kind, Loading(c), Threads
    PROVE  Loading(c)'
<1>1. AtServing(c) \/ AtJoin(c)
  BY DEF Loading, AtStart, AtEnding, Threads, Deadline, Query, InsertBatch,
         WorkerEnds, Looping
<1>2. PICK k \in 0 .. Cardinality(Late(c)) : Stored(c, k) /\ Threading(c, k)
  BY <1>1 DEF AtServing, AtJoin
<1>3. IsDoc(doc) /\ doc.searches = {} /\ load # NoLoop
  BY <1>1 DEF Loading, AtServing, AtJoin
<1>4. /\ Serving(c)' = Serving(c) /\ Joining(c)' = Joining(c)
      /\ Late(c)' = Late(c)
  BY LoadSame
\* Into the places of the loop.
<1>5. ASSUME todo' = todo, load' # NoLoop, IsDoc(doc'), doc'.searches = {},
             doc'.first = doc.first,
             AtServing(c) => Asking(c)',
             0 \in load.stopped => 0 \in load'.stopped,
             \E n \in 0 .. Cardinality(Late(c)) : Stored(c, n)' /\ Threading(c, n)'
      PROVE  Loading(c)'
  <2>1. CASE AtServing(c)
    <3>1. AtServing(c)'
      BY <1>4, <1>5, <2>1 DEF AtServing
    <3> QED BY <1>5, <3>1 DEF Loading
  <2>2. CASE AtJoin(c)
    <3>1. Answered(c, doc)'
      BY <1>5, <2>2 DEF AtJoin, Answered
    <3>2. AtJoin(c)'
      BY <1>4, <1>5, <2>2, <3>1 DEF AtJoin
    <3> QED BY <1>5, <3>2 DEF Loading
  <2> QED BY <1>1, <2>1, <2>2
<1>6. ASSUME UNCHANGED <<server, todo, client, doc>>, load' # NoLoop,
             Threading(c, k)', AtServing(c) => Asking(c)',
             0 \in load.stopped => 0 \in load'.stopped
      PROVE  Loading(c)'
  <2>1. Stored(c, k)'
    BY <1>2, <1>6, StoredSame DEF Behind
  <2> QED BY <1>2, <1>3, <1>5, <1>6, <2>1
<1>7. load = [first |-> load.first, done |-> load.done,
              stopped |-> load.stopped, late |-> load.late,
              todo |-> load.todo, client |-> load.client]
  BY <1>2 DEF Threading
<1>8. ASSUME NEW s, NEW l,
             load' = [load EXCEPT !.late = l, !.stopped = s]
      PROVE  /\ load' # NoLoop /\ Threading(c, k)'
             /\ load'.first = load.first /\ load'.done = load.done
             /\ load'.stopped = s
  <2>1. /\ load' = [first |-> load'.first, done |-> load'.done,
                    stopped |-> load'.stopped, late |-> load'.late,
                    todo |-> load'.todo, client |-> load'.client]
        /\ load'.first = load.first /\ load'.done = load.done
        /\ load'.todo = load.todo /\ load'.client = load.client
        /\ load'.stopped = s
    BY <1>7, <1>8
  <2>2. DOMAIN load' = {"first", "done", "stopped", "late", "todo", "client"}
    BY <2>1
  <2>3. load' # NoLoop
    BY <2>2, LoopIs
  <2>4. Threading(c, k)'
    BY <1>2, <2>1, LoadSame DEF Threading
  <2> QED BY <2>1, <2>3, <2>4
<1>9. CASE Deadline
  <2>1. load' = [load EXCEPT !.late = TRUE, !.stopped = load.stopped]
        /\ UNCHANGED <<server, todo, client, doc>>
    BY <1>7, <1>9 DEF Deadline
  <2>2. /\ load' # NoLoop /\ Threading(c, k)'
        /\ load'.first = load.first /\ load'.done = load.done
        /\ load'.stopped = load.stopped
    BY <1>8, <2>1
  <2>3. AtServing(c) => Asking(c)'
    BY <2>2 DEF AtServing, Asking
  <2> QED BY <1>6, <2>1, <2>2, <2>3
<1>10. CASE Query
  <2>1. 0 \notin load.stopped
    BY <1>10 DEF Query
  <2>2. AtServing(c)
    BY <1>1, <2>1 DEF AtJoin
  <2>3. /\ UNCHANGED <<server, todo, client, doc>>
        /\ load' # NoLoop /\ Asking(c)' /\ Threading(c, k)'
    BY <1>2, <1>10, <2>2, QueryStep
  <2> QED BY <1>6, <2>1, <2>3
<1>11. CASE InsertBatch
  <2>1. /\ UNCHANGED <<todo, client>> /\ load' # NoLoop
        /\ load'.first = load.first /\ load'.done = load.done
        /\ load'.stopped = load.stopped
        /\ doc'.searches = doc.searches /\ doc'.first = doc.first /\ IsDoc(doc')
        /\ \E n \in 0 .. Cardinality(Late(c)) : Stored(c, n)' /\ Threading(c, n)'
    BY <1>2, <1>3, <1>11, InsertStep
  <2>2. AtServing(c) => Asking(c)'
    BY <2>1 DEF AtServing, Asking
  <2> QED BY <1>3, <1>5, <2>1, <2>2
<1>12. ASSUME NEW w \in Worker, WorkerEnds(w) PROVE Loading(c)'
  <2> DEFINE s == load.stopped \cup {w}
  <2>1. load' = [load EXCEPT !.late = load.late, !.stopped = s]
        /\ UNCHANGED <<server, todo, client, doc>> /\ ~FirstPass(w)
    BY <1>7, <1>12 DEF WorkerEnds
  <2> HIDE DEF s
  <2>2. /\ load' # NoLoop /\ Threading(c, k)'
        /\ load'.first = load.first /\ load'.done = load.done
        /\ load'.stopped = s
    BY <1>8, <2>1
  <2>3. AtServing(c) => Asking(c)'
    <3> SUFFICES ASSUME AtServing(c) PROVE Asking(c)'
      OBVIOUS
    <3>1. load.done \in 0 .. Cardinality(Queries) /\ Cardinality(Queries) \in Nat
      BY BenchAssumption DEF AtServing, Asking
    <3>2. 0 \in s => load.done = Cardinality(Queries)
      <4>1. w = 0 => load.done = Cardinality(Queries)
        BY <2>1, <3>1 DEF FirstPass
      <4> QED BY <4>1 DEF AtServing, Asking, s
    <3> QED BY <2>2, <3>2 DEF AtServing, Asking
  <2>4. 0 \in load.stopped => 0 \in load'.stopped
    BY <2>2 DEF s
  <2> QED BY <1>6, <2>1, <2>2, <2>3, <2>4
<1> QED BY <1>9, <1>10, <1>11, <1>12 DEF Threads


-----------------------------------------------------------------------------
(* The steps of the main thread.                                           *)

\* The rows stay, whatever the client and the disk do.
LEMMA StoredKept ==
    ASSUME NEW c, NEW k, Stored(c, k), kind' = kind, Facing(c)',
           db' = db \/ db' = [db EXCEPT !.disk = db.live],
           doc'.inserted = doc.inserted, doc'.errors = doc.errors
    PROVE  Stored(c, k)'
<1>1. PICK X \in SUBSET Done(Late(c), k) :
          /\ Table(Old(Early(c) \cup X), {}, Has(c.index))
          /\ Cardinality(X) \in doc.inserted .. k
  BY DEF Stored
<1> DEFINE L == Old(Early(c) \cup X)
<1>2. PICK ix : ix = Has(c.index)
  OBVIOUS
<1>3. Table(L, {}, ix)
  BY <1>1, <1>2, HasSame
<1> HIDE DEF L
<1>4. Table(L, {}, ix)' /\ db'.seen = db.seen
  <2>1. CASE db' = db
    BY <1>3, <2>1 DEF Table
  <2>2. CASE db' = [db EXCEPT !.disk = db.live]
    BY <1>3, <2>2, SetDisk
  <2> QED BY <2>1, <2>2
<1>5. Table(L, {}, Has(c.index))'
  BY <1>2, <1>4, HasSame
<1>6. Early(c)' = Early(c) /\ Done(Late(c), k)' = Done(Late(c), k)
  BY DEF Early, Late, Done, Batches
<1>7. \E W \in SUBSET Done(Late(c), k)' :
          /\ Table(Old(Early(c) \cup W), {}, Has(c.index))'
          /\ Cardinality(W) \in doc'.inserted .. k
  BY <1>1, <1>5, <1>6 DEF L
<1>8. /\ doc'.inserted \in Nat /\ doc'.errors \in Nat
      /\ doc'.inserted + doc'.errors = k
      /\ kind' = "milvus" => Old(Early(c)) \subseteq db'.seen
  BY <1>4 DEF Stored
<1> QED BY <1>6, <1>7, <1>8 DEF Stored

\* The threads start on the table of the build.
LEMMA StartStep ==
    ASSUME Db, NEW c, LoadCase(c), kind' = kind, AtStart(c), Main
    PROVE  AtServing(c)' /\ doc' = doc
<1> DEFINE d == Do("loop", c)
           N == Joining(c)
           m == Cardinality(Queries)
<1>1. d.op = "loop" /\ d.arg = c /\ todo = First(d, N) /\ IsSeq(N)
  BY RestsLoad DEF Do, AtStart, Serving
<1> HIDE DEF d, N
<1>2. MainOp(d)
  BY <1>1, MainIs
<1>3. ~LoopEnds(d)
  BY DEF LoopEnds, Looping, AtStart
<1>4. Start(d)
  BY <1>1, <1>2, <1>3, OtherOpIs
<1>5. UNCHANGED <<server, todo, client, doc>>
  BY <1>4 DEF Start
<1> DEFINE t == IF c.rate > 0 THEN Batches(Later) ELSE << >>
<1>6. /\ load' = [first |-> load'.first, done |-> load'.done,
               stopped |-> load'.stopped, late |-> load'.late,
               todo |-> load'.todo, client |-> load'.client]
      /\ load'.first = [q \in Queries |-> Unasked] /\ load'.done = 0
      /\ load'.stopped = {} /\ load'.todo = t /\ load'.client = Attach(c.index)
  BY <1>1, <1>4 DEF Start
<1>7. load' # NoLoop
  <2>1. DOMAIN load' = {"first", "done", "stopped", "late", "todo", "client"}
    BY <1>6
  <2> QED BY <2>1, LoopIs
<1>8. m \in Nat /\ \A q \in Queries : ~(q < 0)
  BY BenchAssumption
<1>9. load'.first = [q \in Queries |-> load'.first[q]]
  BY <1>6
<1>10. Asking(c)'
  BY <1>6, <1>8, <1>9 DEF Asking
<1>11. t = Left(Batches(Late(c)), 0, << >>)
  <2> DEFINE f == Batches(Late(c))
             e == << >>
  <2>1. IsSeq(f) /\ IsSeq(e) /\ Len(f) = Cardinality(Late(c)) /\ f \o e = f
    BY LateIs, BatchesAre, NoneIs
  <2>2. t = f
    <3>1. CASE c.rate > 0
      BY <3>1 DEF Late
    <3>2. CASE ~(c.rate > 0)
      <4>1. Late(c) = {} /\ t = << >>
        BY <3>2 DEF Late
      <4>2. Cardinality(Late(c)) = 0
        BY <4>1, FS_EmptySet
      <4>3. f = << >>
        BY <2>1, <4>2 DEF IsSeq
      <4> QED BY <4>1, <4>3
    <3> QED BY <3>1, <3>2
  <2> HIDE DEF f, e, t
  <2>3. 0 \in 0 .. Len(f)
    BY <2>1, FromIs DEF IsSeq
  <2>4. Left(f, 0, e) = f
    BY <2>1, <2>3, FromIs
  <2> QED BY <2>2, <2>4 DEF f, e
<1>12. Threading(c, 0)'
  BY <1>6, <1>11, LoadSame DEF Threading
<1>13. /\ Built(Early(c), c.index) /\ NewDoc
  BY DEF AtStart
<1>14. Facing(c)
  BY <1>13 DEF Built, Shows, Facing
<1>15. Stored(c, 0)
  <2> DEFINE X == {}
  <2>1. X \in SUBSET Done(Late(c), 0) /\ Early(c) \cup X = Early(c)
    OBVIOUS
  <2>2. Cardinality(X) = 0 /\ 0 \in 0 .. 0
    BY FS_EmptySet
  <2>3. Table(Old(Early(c)), {}, Has(c.index))
    BY <1>13 DEF Built
  <2>4. \E W \in SUBSET Done(Late(c), 0) :
            /\ Table(Old(Early(c) \cup W), {}, Has(c.index))
            /\ Cardinality(W) \in doc.inserted .. 0
    <3>1. Table(Old(Early(c) \cup X), {}, Has(c.index))
      BY <2>1, <2>3
    <3>2. Cardinality(X) \in doc.inserted .. 0
      BY <1>13, <2>2 DEF NewDoc
    <3> QED BY <2>1, <3>1, <3>2
  <2>5. kind = "milvus" => Old(Early(c)) \subseteq db.seen
    BY <1>13 DEF Built, Table
  <2> QED BY <1>13, <1>14, <2>4, <2>5 DEF Stored, NewDoc
<1>16. Stored(c, 0)'
  <2>1. kind' = kind /\ client' = client /\ doc' = doc /\ Behind
    BY <1>5 DEF Behind
  <2> QED BY <1>15, <2>1, StoredSame
<1>17. 0 \in 0 .. Cardinality(Late(c))
  BY LateIs
<1>18. todo' = Serving(c)' /\ doc'.searches = {} /\ Late(c)' = Late(c)
  BY <1>5, <1>13, LoadSame DEF AtStart, NewDoc
<1> QED BY <1>5, <1>7, <1>10, <1>12, <1>16, <1>17, <1>18 DEF AtServing

\* Worker 0 leaves the loop after the last query.
LEMMA LoopEndsStep ==
    ASSUME Db, NEW c, LoadCase(c), kind' = kind, AtServing(c), Main, IsDoc(doc)
    PROVE  AtJoin(c)' /\ IsDoc(doc')
<1> DEFINE d == Do("loop", c)
           N == Joining(c)
           m == Cardinality(Queries)
<1>1. d.op = "loop" /\ d.arg = c /\ todo = First(d, N) /\ IsSeq(N)
  BY RestsLoad DEF Do, AtServing, Serving
<1> HIDE DEF d, N
<1>2. MainOp(d) /\ Tail(todo) = N
  BY <1>1, MainIs
<1>3. ~Start(d)
  BY DEF Start, AtServing
<1>4. LoopEnds(d)
  BY <1>1, <1>2, <1>3, OtherOpIs
<1>5. /\ todo' = N /\ UNCHANGED <<server, client>> /\ load.stopped = Worker
      /\ doc' = [doc EXCEPT !.first = load.first]
      /\ load' = [load EXCEPT !.first = << >>]
  BY <1>2, <1>4 DEF LoopEnds, Next1, Joined
<1>6. PICK k \in 0 .. Cardinality(Late(c)) : Stored(c, k) /\ Threading(c, k)
  BY DEF AtServing
<1>7. /\ IsDoc(doc') /\ doc'.first = load.first /\ doc'.searches = doc.searches
      /\ doc'.inserted = doc.inserted /\ doc'.errors = doc.errors
  BY <1>5 DEF IsDoc
<1>8. load = [first |-> load.first, done |-> load.done,
              stopped |-> load.stopped, late |-> load.late,
              todo |-> load.todo, client |-> load.client]
  BY <1>6 DEF Threading
<1>9. /\ load' = [first |-> load'.first, done |-> load'.done,
                  stopped |-> load'.stopped, late |-> load'.late,
                  todo |-> load'.todo, client |-> load'.client]
      /\ load'.stopped = load.stopped /\ load'.todo = load.todo
      /\ load'.client = load.client
  BY <1>5, <1>8
<1>10. load' # NoLoop
  <2>1. DOMAIN load' = {"first", "done", "stopped", "late", "todo", "client"}
    BY <1>9
  <2> QED BY <2>1, LoopIs
<1>11. 0 \in load.stopped /\ 0 \in load'.stopped
  BY <1>5, <1>9, BenchAssumption
<1>12. load.done = m /\ \A q \in Queries : q < m
  BY <1>11, BenchAssumption DEF AtServing, Asking
<1>13. \A q \in Queries : RightAnswer(c, load.first[q])
  BY <1>12 DEF AtServing, Asking
<1>14. Answered(c, doc)'
  BY <1>7, <1>13 DEF Answered
<1>15. Stored(c, k)'
  <2>1. kind' = kind /\ client' = client /\ Behind
    BY <1>5 DEF Behind
  <2> QED BY <1>6, <1>7, <2>1, StoredSame
<1>16. Threading(c, k)'
  BY <1>6, <1>9, LoadSame DEF Threading
<1>17. todo' = Joining(c)' /\ Late(c)' = Late(c) /\ doc'.searches = {}
  BY <1>5, <1>7, LoadSame DEF N, AtServing
<1> QED BY <1>6, <1>7, <1>10, <1>11, <1>14, <1>15, <1>16, <1>17 DEF AtJoin

\* The main thread waits for the inserter.
LEMMA JoinStep ==
    ASSUME Db, NEW c, LoadCase(c), kind' = kind, AtJoin(c), Main
    PROVE  AtEnding(c)' /\ doc' = doc
<1> DEFINE d == Do("join", c)
           N == Ending(c)
<1>1. d.op = "join" /\ todo = First(d, N) /\ IsSeq(N)
  BY RestsLoad DEF Do, AtJoin, Joining
<1> HIDE DEF d, N
<1>2. MainOp(d) /\ Tail(todo) = N
  BY <1>1, MainIs
<1>3. JoinInserter(d)
  BY <1>1, <1>2, OtherOpIs
<1>4. /\ todo' = N /\ UNCHANGED <<server, client, doc>> /\ load' = NoLoop
      /\ load.todo = << >>
  BY <1>2, <1>3 DEF JoinInserter, Next1, InserterDone
<1>5. PICK k \in 0 .. Cardinality(Late(c)) : Stored(c, k) /\ Threading(c, k)
  BY DEF AtJoin
<1>6. k = Cardinality(Late(c))
  <2> DEFINE f == Batches(Late(c))
             e == << >>
  <2>1. IsSeq(f) /\ IsSeq(e) /\ Len(f) = Cardinality(Late(c))
    BY LateIs, BatchesAre, NoneIs
  <2>2. Left(f, k, e) = e
    BY <1>4, <1>5 DEF Threading
  <2>3. PICK n : n = k + 1
    OBVIOUS
  <2>4. k \in 0 .. Len(f)
    BY <2>1
  <2> HIDE DEF f
  <2>5. k # Len(f) => Left(f, k, e) = First(f[n], Left(f, n, e)) /\ IsSeq(Left(f, n, e))
    BY <2>1, <2>3, <2>4, FromNext
  <2>6. k # Len(f) => Left(f, k, e) # << >>
    BY <2>5, FirstIs
  <2> QED BY <2>1, <2>2, <2>6
<1>7. Stored(c, k)'
  <2>1. /\ kind' = kind /\ client' = client /\ Behind
        /\ doc'.inserted = doc.inserted /\ doc'.errors = doc.errors
    BY <1>4 DEF Behind
  <2> QED BY <1>5, <2>1, StoredSame
<1>8. todo' = Ending(c)' /\ Late(c)' = Late(c)
  BY <1>4, LoadSame DEF N
<1>9. Answered(c, doc)' /\ RightCounts(c, doc)'
  <2>1. doc' = doc /\ doc.searches = {} /\ Answered(c, doc)
    BY <1>4 DEF AtJoin
  <2> QED BY <2>1 DEF Answered, RightCounts
<1> QED BY <1>4, <1>6, <1>7, <1>8, <1>9 DEF AtEnding


\* Milvus is flushed and strengthened, the queries are asked again.
LEMMA RecountStep ==
    ASSUME Db, NEW c, LoadCase(c), kind' = kind, Main, IsDoc(doc),
           NEW k \in 0 .. Cardinality(Queries), todo = Recount(k),
           kind = "milvus" => client.strong = TRUE, load = NoLoop,
           Stored(c, Cardinality(Late(c))), Answered(c, doc), RightCounts(c, doc)
    PROVE  AtEnding(c)' /\ IsDoc(doc')
<1> DEFINE m == Cardinality(Queries)
           i == c.index
           p == Cardinality(Late(c))
           f == RunSearch("after_inserts")
           e == << >>
           n == k + 1
           N == Recount(n)
           s == Do("search", "after_inserts")
<1>1. IsSeq(f) /\ IsSeq(e) /\ Len(f) = m /\ m \in Nat
      /\ \A j \in 1 .. m : f[j] = s
  BY RunSearchIs, NoneIs, BenchAssumption
<1>2. Recount(k) = Left(f, k, e) /\ N = Left(f, n, e) /\ n = k + 1
  BY DEF Recount
<1>3. todo # << >> /\ todo = Recount(k) /\ k \in 0 .. m
  BY DEF Main
<1> HIDE DEF f, e, n, N, s, m, i, p
<1>4. k # m
  <2> SUFFICES ASSUME k = m PROVE FALSE
    OBVIOUS
  <2>1. k \in 0 .. Len(f) /\ k = Len(f)
    BY <1>1, <1>3
  <2>2. Left(f, k, e) = e
    BY <1>1, <2>1, FromIs
  <2> QED BY <1>2, <1>3, <2>2 DEF e
<1>5. /\ n \in 0 .. m /\ n \in 1 .. m
      /\ Left(f, k, e) = First(f[n], Left(f, n, e))
      /\ IsSeq(Left(f, n, e))
  <2>1. k \in 0 .. Len(f) /\ k # Len(f)
    BY <1>1, <1>3, <1>4
  <2>2. /\ n \in 0 .. Len(f) /\ n \in 1 .. Len(f)
        /\ Left(f, k, e) = First(f[n], Left(f, n, e))
        /\ IsSeq(Left(f, n, e))
    BY <1>1, <1>2, <2>1, FromNext
  <2> QED BY <1>1, <2>2
<1>6. todo = First(s, N) /\ IsSeq(N)
  BY <1>1, <1>2, <1>3, <1>5
<1>7. /\ todo' = N /\ UNCHANGED <<server, client, load, stage1>>
      /\ doc' = [doc EXCEPT !.searches = doc.searches \cup {Answer("after_inserts", client)}]
  BY <1>6, SearchIs DEF s
<1>8. /\ IsDoc(doc') /\ doc'.first = doc.first
      /\ doc'.inserted = doc.inserted /\ doc'.errors = doc.errors
      /\ doc'.searches = doc.searches \cup {Answer("after_inserts", client)}
  BY <1>7 DEF IsDoc
<1>9. /\ i \in Indexes /\ (kind # "pgvector" => client.index = i)
      /\ doc.inserted \in Nat /\ doc.errors \in Nat /\ doc.inserted + doc.errors = p
  BY DEF Stored, Facing, LoadCase, i, p
<1>10. PICK X \in SUBSET Done(Late(c), p) :
           /\ Table(Old(Early(c) \cup X), {}, Has(i))
           /\ Cardinality(X) \in doc.inserted .. p
  BY DEF Stored, i, p
<1> DEFINE q == Search(db, client)
           L == Old(Early(c) \cup X)
<1>11. Cardinality(L) - Cardinality(Early(c)) = Cardinality(X)
  <2>1. X \in SUBSET Late(c)
    BY <1>10, LateIs, DoneIs DEF p
  <2> QED BY <2>1, CountIs
<1>12. Table(L, {}, Has(i))
  BY <1>10
<1> HIDE DEF L, q
<1>13. q.rows = L
  <2> DEFINE cl == client
  <2>1. Table(L, {}, Has(i)) /\ i \in Indexes /\ (kind # "pgvector" => cl.index = i)
        /\ q = Search(db, cl) /\ (kind = "milvus" => cl.strong = TRUE)
    BY <1>9, <1>12 DEF q
  <2> HIDE DEF cl
  <2>2. (q.rows = L \/ (kind = "milvus" /\ q.rows = db.seen))
        /\ (cl.strong = TRUE => q.rows = L)
    BY <2>1, SearchRows
  <2> QED BY <2>1, <2>2
<1>14. Cardinality(q.rows) - Cardinality(Early(c)) \in doc.inserted .. doc.inserted + doc.errors
  BY <1>9, <1>10, <1>11, <1>13
<1>15. Answer("after_inserts", client).saw = q
  BY DEF Answer, q
<1>16. RightCounts(c, doc')
  BY <1>8, <1>14, <1>15 DEF RightCounts
<1>17. Answered(c, doc')
  BY <1>8 DEF Answered
<1>18. RightCounts(c, doc)' /\ Answered(c, doc)'
  BY <1>16, <1>17 DEF RightCounts, Answered, Early, Late
<1>19. Stored(c, p)'
  <2>1. /\ kind' = kind /\ client' = client /\ Behind
        /\ doc'.inserted = doc.inserted /\ doc'.errors = doc.errors
    BY <1>7, <1>8 DEF Behind
  <2>2. Stored(c, p)
    BY DEF p
  <2> QED BY <2>1, <2>2, StoredSame
<1>20. \E j \in 0 .. Cardinality(Queries) : todo' = Recount(j)'
  <2>1. todo' = Recount(n)'
    BY <1>7, LoadSame DEF N
  <2> QED BY <1>5, <2>1 DEF m
<1>21. load' = NoLoop /\ (kind' = "milvus" => client'.strong = TRUE)
  BY <1>7
<1>22. Cardinality(Late(c))' = p
  BY LoadSame DEF p
<1> QED BY <1>8, <1>18, <1>19, <1>20, <1>21, <1>22 DEF AtEnding

LEMMA EndingStep ==
    ASSUME Db, NEW c, LoadCase(c), kind' = kind, Main, IsDoc(doc), AtEnding(c)
    PROVE  AtEnding(c)' /\ IsDoc(doc')
<1>1. /\ load = NoLoop /\ Stored(c, Cardinality(Late(c))) /\ Answered(c, doc)
      /\ RightCounts(c, doc) /\ Facing(c) /\ todo # << >>
  BY DEF AtEnding, Stored, Main
<1>2. ASSUME NEW k \in 0 .. Cardinality(Queries), todo = Recount(k),
             kind = "milvus" => client.strong = TRUE
      PROVE  AtEnding(c)' /\ IsDoc(doc')
  BY <1>1, <1>2, RecountStep
<1>3. 0 \in 0 .. Cardinality(Queries)
  BY BenchAssumption
\* Into the next place of the end.
<1>4. ASSUME doc' = doc, load' = load, Facing(c)',
             db' = db \/ db' = [db EXCEPT !.disk = db.live],
             \/ kind = "milvus" /\ todo' = Strengthen
             \/ kind = "milvus" /\ client'.strong = TRUE /\ todo' = Recount(0)
      PROVE  AtEnding(c)' /\ IsDoc(doc')
  <2>1. doc'.inserted = doc.inserted /\ doc'.errors = doc.errors
    BY <1>4
  <2>2. PICK k : k = Cardinality(Late(c))
    OBVIOUS
  <2>3. Stored(c, k)'
    BY <1>1, <1>4, <2>1, <2>2, StoredKept
  <2>4. Answered(c, doc)' /\ RightCounts(c, doc)'
    BY <1>1, <1>4 DEF Answered, RightCounts
  <2>5. Strengthen' = Strengthen /\ Recount(0)' = Recount(0) /\ Late(c)' = Late(c)
    BY LoadSame
  <2> QED BY <1>1, <1>3, <1>4, <2>2, <2>3, <2>4, <2>5 DEF AtEnding
<1>5. CASE todo = Ending(c)
  <2>1. c.rate # 0
    BY <1>1, <1>5 DEF Ending
  <2>2. CASE kind # "milvus"
    <3>1. todo = Recount(0)
      BY <1>5, <2>1, <2>2 DEF Ending
    <3> QED BY <1>2, <1>3, <2>2, <3>1
  <2>3. CASE kind = "milvus"
    <3> DEFINE N == Strengthen
    <3>1. todo = First(Do("flush", Nil), N) /\ IsSeq(N)
      BY <1>5, <2>1, <2>3, RestsLoad DEF Ending
    <3> HIDE DEF N
    <3>2. /\ todo' = N /\ UNCHANGED Aside /\ db' = [db EXCEPT !.disk = db.live]
      BY <3>1, FlushIs
    <3>3. todo' = Strengthen /\ doc' = doc /\ load' = load /\ client' = client
      BY <3>2 DEF N, Aside
    <3>4. Facing(c)'
      BY <1>1, <3>3, FacingSame
    <3> QED BY <1>4, <2>3, <3>2, <3>3, <3>4
  <2> QED BY <2>2, <2>3
<1>6. CASE kind = "milvus" /\ todo = Strengthen
  <2> DEFINE N == Recount(0)
  <2>1. todo = First(Do("strong", Nil), N) /\ IsSeq(N)
    BY <1>3, <1>6, RestsLoad DEF Strengthen
  <2> HIDE DEF N
  <2>2. /\ todo' = N /\ UNCHANGED <<server, doc, load, stage1>>
        /\ client' = [client EXCEPT !.strong = TRUE]
    BY <2>1, StrongIs
  <2>3. todo' = Recount(0) /\ doc' = doc /\ load' = load /\ db' = db
    BY <2>2 DEF N, server
  <2>4. Facing(c)' /\ client'.strong = TRUE
    BY <1>1, <2>2 DEF Facing, IsClient
  <2> QED BY <1>4, <1>6, <2>3, <2>4
<1>7. CASE /\ kind = "milvus" => client.strong = TRUE
           /\ \E k \in 0 .. Cardinality(Queries) : todo = Recount(k)
  BY <1>2, <1>7
<1> QED BY <1>5, <1>6, <1>7 DEF AtEnding

\* The main thread takes a step.
LEMMA LoadStep ==
    ASSUME Db, NEW c, LoadCase(c), kind' = kind, Loading(c), Main
    PROVE  Loading(c)'
<1>1. IsDoc(doc)
  BY DEF Loading
<1>2. ASSUME Building(Early(c), c.index, Serving(c)), load = NoLoop, NewDoc
      PROVE  Loading(c)'
  <2> DEFINE R == Serving(c)
             i == c.index
             S == Early(c)
  <2>1. IsSeq(R) /\ i \in Indexes /\ S \in SUBSET Row /\ Building(S, i, R)
    BY <1>2, RestsLoad, LateIs DEF LoadCase
  <2>2. R' = R /\ S' = S
    BY LoadSame
  <2>3. PICK r : r = R
    OBVIOUS
  <2>4. PICK T \in SUBSET Row : T = S
    BY <2>1
  <2> HIDE DEF R, i, S
  <2>5. IsSeq(r) /\ Building(T, i, r)
    BY <2>1, <2>3, <2>4
  <2>6. /\ Building(T, i, r)' \/ (todo' = r /\ Built(T, i)')
        /\ UNCHANGED <<doc, load, stage1, up, saved>>
    BY <2>1, <2>5, BuildStep
  <2>7. Building(S, i, R)' \/ (todo' = R' /\ Built(S, i)')
    BY <2>2, <2>3, <2>4, <2>6
  <2>8. load' = NoLoop /\ NewDoc' /\ IsDoc(doc)'
    BY <1>1, <1>2, <2>6 DEF NewDoc, IsDoc
  <2> QED BY <2>7, <2>8 DEF Loading, AtStart, R, i, S
<1>3. CASE AtStart(c)
  <2>1. AtServing(c)' /\ doc' = doc
    BY <1>3, StartStep
  <2> QED BY <1>1, <2>1 DEF Loading, IsDoc
<1>4. CASE AtServing(c)
  <2>1. AtJoin(c)' /\ IsDoc(doc')
    BY <1>1, <1>4, LoopEndsStep
  <2> QED BY <2>1 DEF Loading, IsDoc
<1>5. CASE AtJoin(c)
  <2>1. AtEnding(c)' /\ doc' = doc
    BY <1>5, JoinStep
  <2> QED BY <1>1, <2>1 DEF Loading, IsDoc
<1>6. CASE AtEnding(c)
  <2>1. AtEnding(c)' /\ IsDoc(doc')
    BY <1>1, <1>6, EndingStep
  <2> QED BY <2>1 DEF Loading, IsDoc
<1> QED BY <1>2, <1>3, <1>4, <1>5, <1>6 DEF Loading

\* The server goes on by itself.
LEMMA LoadBack ==
    ASSUME Db, NEW c, LoadCase(c), kind' = kind, Loading(c), Behind,
           UNCHANGED <<todo, client, doc, load>>
    PROVE  Loading(c)'
<1>1. /\ kind' = kind /\ client' = client /\ doc' = doc /\ load' = load /\ todo' = todo
      /\ doc'.inserted = doc.inserted /\ doc'.errors = doc.errors
      /\ IsDoc(doc)' /\ (NewDoc => NewDoc')
  BY DEF Loading, IsDoc, NewDoc
<1>2. /\ Ending(c)' = Ending(c) /\ Joining(c)' = Joining(c)
      /\ Serving(c)' = Serving(c) /\ Strengthen' = Strengthen
      /\ \A k : Recount(k)' = Recount(k)
      /\ Early(c)' = Early(c) /\ Late(c)' = Late(c)
  BY LoadSame
<1>3. \A k : Stored(c, k) => Stored(c, k)'
  BY <1>1, StoredSame
<1>4. \A k : Threading(c, k) => Threading(c, k)'
  BY <1>1, LoadSame DEF Threading
<1>5. /\ Asking(c) => Asking(c)'
      /\ Answered(c, doc) => Answered(c, doc)'
      /\ RightCounts(c, doc) => RightCounts(c, doc)'
  BY <1>1 DEF Asking, Answered, RightCounts
<1>6. /\ Building(Early(c), c.index, Serving(c)) => Building(Early(c), c.index, Serving(c))'
      /\ Built(Early(c), c.index) => Built(Early(c), c.index)'
  <2> DEFINE R == Serving(c)
             i == c.index
             S == Early(c)
  <2>1. S \in SUBSET Row /\ R' = R /\ S' = S
    BY <1>2, LateIs
  <2>2. PICK r : r = R
    OBVIOUS
  <2>3. PICK T \in SUBSET Row : T = S
    BY <2>1
  <2> HIDE DEF R, i, S
  <2>4. /\ Building(T, i, r) => Building(T, i, r)'
        /\ Built(T, i) => Built(T, i)'
    BY <1>1, BuildBack
  <2>5. /\ Building(S, i, R) => Building(S, i, R)'
        /\ Built(S, i) => Built(S, i)'
    BY <2>1, <2>2, <2>3, <2>4
  <2> QED BY <2>5 DEF R, i, S
<1>7. AtStart(c) => AtStart(c)'
  BY <1>1, <1>2, <1>6 DEF AtStart
<1>8. AtServing(c) => AtServing(c)'
  BY <1>1, <1>2, <1>3, <1>4, <1>5 DEF AtServing
<1>9. AtJoin(c) => AtJoin(c)'
  BY <1>1, <1>2, <1>3, <1>4, <1>5 DEF AtJoin
<1>10. AtEnding(c) => AtEnding(c)'
  <2>1. Cardinality(Late(c))' = Cardinality(Late(c))
    BY <1>2
  <2>2. PICK k : k = Cardinality(Late(c))
    OBVIOUS
  <2>3. Stored(c, k) => Stored(c, k)'
    BY <1>3
  <2> QED BY <1>1, <1>2, <1>5, <2>1, <2>2, <2>3 DEF AtEnding
<1> QED BY <1>1, <1>6, <1>7, <1>8, <1>9, <1>10 DEF Loading

\* While the table is built there are steps left.
LEMMA BuildOpen ==
    ASSUME Db, NEW S \in SUBSET Row, NEW i, NEW R, IsSeq(R), Building(S, i, R)
    PROVE  todo # << >>
<1>1. /\ IsSeq(AttachTo(i, R)) /\ IsSeq(AttachTo(Nil, R))
      /\ IsSeq(Green1(i, R)) /\ IsSeq(AskIndex(i, R))
      /\ IsSeq(ShowIt(i, R)) /\ IsSeq(WaitAndShow(i, R))
      /\ IsSeq(IndexIt(i, R)) /\ IsSeq(Settle(i, R))
      /\ IsSeq(Left(PutAll(S, 0), 0, Settle(i, R)))
      /\ IsSeq(Fill(S, i, R)) /\ IsSeq(Forget(S, i, R))
      /\ IsSeq(Renew(S, i, R)) /\ IsSeq(Build(S, i, R))
  BY RestsAre
<1>2. \A s, T : IsSeq(T) => First(s, T) # << >>
  BY FirstIs
<1>3. /\ AttachTo(i, R) # << >> /\ AttachTo(Nil, R) # << >> /\ Green1(i, R) # << >>
  BY <1>2 DEF AttachTo, Green1
<1>4. ShowIt(i, R) # << >> /\ WaitAndShow(i, R) # << >> /\ AskIndex(i, R) # << >>
  BY <1>1, <1>2, <1>3 DEF ShowIt, WaitAndShow, AskIndex
<1>5. IndexIt(i, R) # << >>
  <2>1. /\ First(Do("index", Nil), AttachTo(i, R)) # << >>
        /\ AttachTo(i, AskIndex(i, R)) # << >>
        /\ First(Do("index", Nil), WaitAndShow(i, R)) # << >>
    BY <1>1, <1>2 DEF AttachTo
  <2> QED BY <1>3, <2>1, IndexItIs DEF Db
<1>6. Settle(i, R) # << >>
  <2>1. Green1(Nil, IndexIt(i, R)) # << >> /\ First(Do("flush", Nil), IndexIt(i, R)) # << >>
    BY <1>1, <1>2 DEF Green1
  <2> QED BY <1>5, <2>1, IndexItIs DEF Db
<1>7. Fill(S, i, R) # << >> /\ Forget(S, i, R) # << >>
      /\ Renew(S, i, R) # << >> /\ Build(S, i, R) # << >>
  BY <1>1, <1>2 DEF Fill, Forget, Renew, Build
<1>8. \A k \in 0 .. Cardinality(S) : Left(PutAll(S, 0), k, Settle(i, R)) # << >>
  <2> DEFINE f == PutAll(S, 0)
             T == Settle(i, R)
  <2>1. IsSeq(f) /\ IsSeq(T) /\ T # << >> /\ Len(f) = Cardinality(S)
    BY <1>1, <1>6, CallsAre
  <2> HIDE DEF f, T
  <2>2. ASSUME NEW k \in 0 .. Len(f) PROVE Left(f, k, T) # << >>
    <3>1. k = Len(f) => Left(f, k, T) = T
      BY <2>1, FromIs
    <3>2. PICK n : n = k + 1
      OBVIOUS
    <3>3. k # Len(f) => Left(f, k, T) = First(f[n], Left(f, n, T)) /\ IsSeq(Left(f, n, T))
      BY <2>1, <3>2, FromNext
    <3>4. k # Len(f) => Left(f, k, T) # << >>
      BY <3>3, <1>2
    <3> QED BY <2>1, <3>1, <3>4
  <2> QED BY <2>1, <2>2 DEF f, T
<1> QED BY <1>3, <1>4, <1>5, <1>7, <1>8
        DEF Building, Emptying, Filling, PgIndexing, QdIndexing, MvIndexing

\* The program is over: the document says what LoadCounts asks.
LEMMA LoadDone ==
    ASSUME Db, NEW c, LoadCase(c), Loading(c), todo = << >>
    PROVE  RightLoad(c, doc)
<1>1. Serving(c) # << >> /\ Joining(c) # << >>
  BY RestsLoad, FirstIs DEF Serving, Joining
<1>2. ~Building(Early(c), c.index, Serving(c))
  <2> DEFINE R == Serving(c)
             S == Early(c)
  <2>1. S \in SUBSET Row /\ IsSeq(R)
    BY LateIs, RestsLoad
  <2> HIDE DEF S, R
  <2>2. ~Building(S, c.index, R)
    BY <2>1, BuildOpen
  <2> QED BY <2>2 DEF S, R
<1>3. AtEnding(c)
  BY <1>1, <1>2 DEF Loading, AtStart, AtServing, AtJoin
<1> QED BY <1>3 DEF AtEnding, RightLoad, Stored



-----------------------------------------------------------------------------
(* A backup: what is left of its program at each of its steps.             *)

BackupCase(c) == c.prog = "backup" /\ c.index \in Indexes

Unlinking == IF kind = "qdrant" THEN << >> ELSE << Do("unlink_state", Nil) >>

Checked(k) == Left(RunSearch("after_restore"), k, Unlinking)

CountAgain == First(Do("stats", Nil), Checked(0))

Reopened(c) == First(Do("attach", c.index), CountAgain)

Reloaded(c) == First(Do("load", Nil), Reopened(c))

Rejoined(c) == First(Do("connect", Nil), Reloaded(c))

Reading(c) == First(Do("read_state", Nil), IF kind = "milvus" THEN Rejoined(c)
                                                              ELSE Reopened(c))

NewProcess(c) == First(Do("connect", Nil), Reading(c))

Judged(c) == First(Do("host_json", kind = "pgvector" /\ c.index # "flat"),
                   NewProcess(c))

\* The requests of the host step.
HostOps ==
    IF kind = "pgvector"
    THEN [i \in 1 .. 3 |-> Do(<<"dump", "drop", "restore">>[i], Nil)]
    ELSE [i \in 1 .. 7 |-> Do(<<"stop", "tar", "start", "stop", "wipe",
                                "untar", "start">>[i], Nil)]

Hosting(c, k) == Left(HostOps, k, Judged(c))

Noting(c) == First(Do("write_state", Nil), Hosting(c, 0))

Greening(c) == Green1(c.index, Reopened(c))

Restoring(c) == First(Do("restore", Nil), Greening(c))

Dropping(c) == First(Do("drop", Nil), Restoring(c))

Parting(c) ==
    IF kind = "qdrant" THEN First(Do("dump", Nil), Dropping(c))
    ELSE IF kind = "milvus" THEN First(Do("flush", Nil), Noting(c))
    ELSE Noting(c)

Tried(c, k) == Left(RunSearch("run1"), k, Parting(c))

CountFirst(c) == First(Do("stats", Nil), Tried(c, 0))

-----------------------------------------------------------------------------
(* What holds there.                                                       *)

\* A table with every row and its index, of the build g.
Whole1(d, c, g) ==
    /\ IsTable(d)
    /\ d.live = Old(Row) /\ d.dead = {} /\ d.held = {}
    /\ d.index = Has(c.index) /\ d.gen = g
    /\ kind = "pgvector" \/ Has(c.index) => d.raw = {}
    /\ kind = "milvus" => d.disk = Old(Row)

\* A search shows all of it.
Fit(c, g) == Whole1(db, c, g) /\ (kind = "milvus" => db.seen = db.live)

Sight(c, g) == Seen(Old(Row), {}, {}, How(c.index), g)

Sights(p, c, k, g) == {[phase |-> p, saw |-> Sight(c, g)] : j \in 1 .. k}

Count == Cardinality(Row)

\* The document of the first stage, after k queries.
FirstHalf(c, d, k, g) ==
    /\ IsDoc(d) /\ d.rebuild = FALSE /\ d.rows = << Count >>
    /\ d.searches = Sights("run1", c, k, g)

\* That of the second stage, the table being of the build h by now.
SecondHalf(c, d, k, g, h) ==
    /\ IsDoc(d) /\ (d.rebuild = TRUE \/ g = h)
    /\ d.searches = Sights("run1", c, Cardinality(Queries), g)
                        \cup Sights("after_restore", c, k, h)

\* Between two requests of the host step.
Hosted(c, k, g) ==
    IF kind = "pgvector"
    THEN /\ k \in {0, 1} => Whole1(db, c, g)
         /\ k \in {1, 2} => Whole1(saved, c, g)
         /\ k = 2 => db = Nil
         /\ k = 3 => \E h : Whole1(db, c, h) /\ (c.index # "flat" \/ g = h)
    ELSE /\ k \in {0, 1, 2, 3, 6, 7} => Whole1(db, c, g)
         /\ k \in {2, 3, 4, 5} => Whole1(saved, c, g)
         /\ k \in {1, 2, 4, 5, 6} => ~up
         /\ k = 5 => db = Nil

Trying(c) ==
    /\ Facing(c)
    /\ \E g : /\ Fit(c, g)
              /\ \/ \E k \in 0 .. Cardinality(Queries) :
                        todo = Tried(c, k) /\ FirstHalf(c, doc, k, g)
                 \/ /\ kind = "milvus" /\ todo = Noting(c)
                    /\ FirstHalf(c, doc, Cardinality(Queries), g)

Snapped(c) ==
    /\ kind = "qdrant" /\ Facing(c)
    /\ \E g : /\ FirstHalf(c, doc, Cardinality(Queries), g)
              /\ \/ todo = Dropping(c) /\ Whole1(saved, c, g)
                 \/ todo = Restoring(c) /\ Whole1(saved, c, g) /\ db = Nil
                 \/ todo = Greening(c) /\ Whole1(db, c, g)

OnHost(c) ==
    /\ kind # "qdrant" /\ doc = NoDoc
    /\ \E g : /\ FirstHalf(c, stage1, Cardinality(Queries), g)
              /\ \E k \in 0 .. Len(HostOps) : todo = Hosting(c, k) /\ Hosted(c, k, g)

\* The second process, until it has read the file.
Resuming(c) ==
    /\ kind # "qdrant" /\ IsDoc(doc)
    /\ \E g, h : /\ FirstHalf(c, stage1, Cardinality(Queries), g)
                 /\ Whole1(db, c, h) /\ (doc.rebuild = TRUE \/ g = h)
    /\ todo = NewProcess(c) \/ (todo = Reading(c) /\ IsClient)

Reopening(c) ==
    /\ doc.rows = << Count >>
    /\ \E g, h : SecondHalf(c, doc, 0, g, h) /\ Whole1(db, c, h)
    /\ \/ kind = "milvus" /\ todo = Rejoined(c)
       \/ kind = "milvus" /\ todo = Reloaded(c) /\ IsClient
       \/ /\ kind = "milvus" => db.seen = db.live
          /\ IsClient /\ todo = Reopened(c)

Counting(c) ==
    /\ Facing(c) /\ todo = CountAgain /\ doc.rows = << Count >>
    /\ \E g, h : SecondHalf(c, doc, 0, g, h) /\ Fit(c, h)

Checking(c) ==
    /\ Facing(c) /\ doc.rows = << Count, Count >>
    /\ \E g, h : \E k \in 0 .. Cardinality(Queries) :
          todo = Checked(k) /\ SecondHalf(c, doc, k, g, h) /\ Fit(c, h)

RightBackup(c, d) ==
    /\ d.rows = << Count, Count >>
    /\ \E g, h : SecondHalf(c, d, Cardinality(Queries), g, h)

Backing(c) ==
    /\ load = NoLoop
    /\ \/ /\ doc = NoDoc
          /\ \/ Building(Row, c.index, CountFirst(c))
             \/ todo = CountFirst(c) /\ Built(Row, c.index)
       \/ Trying(c) \/ Snapped(c) \/ OnHost(c) \/ Resuming(c) \/ Reopening(c)
       \/ Counting(c) \/ Checking(c)
       \/ todo = << >> /\ RightBackup(c, doc)


LEMMA ListIs ==
    ASSUME NEW m \in Nat, NEW f, f = [i \in 1 .. m |-> f[i]]
    PROVE  IsSeq(f) /\ Len(f) = m
<1> DEFINE E == {f[i] : i \in 1 .. m}
<1>1. \A i \in 1 .. m : f[i] \in E
  OBVIOUS
<1> HIDE DEF E
<1>2. f \in [1 .. m -> E]
  BY <1>1
<1>3. f \in Seq(E) /\ Len(f) = m
  BY <1>2
<1> QED BY <1>3, SeqIs

LEMMA HostOpsAre ==
    /\ IsSeq(HostOps) /\ Len(HostOps) \in {3, 7}
    /\ kind = "pgvector" =>
          /\ Len(HostOps) = 3
          /\ HostOps[1].op = "dump" /\ HostOps[2].op = "drop"
          /\ HostOps[3].op = "restore"
    /\ kind # "pgvector" =>
          /\ Len(HostOps) = 7
          /\ HostOps[1].op = "stop" /\ HostOps[2].op = "tar"
          /\ HostOps[3].op = "start" /\ HostOps[4].op = "stop"
          /\ HostOps[5].op = "wipe" /\ HostOps[6].op = "untar"
          /\ HostOps[7].op = "start"
<1> DEFINE f == HostOps
<1>1. CASE kind = "pgvector"
  <2> DEFINE g(i) == Do(<<"dump", "drop", "restore">>[i], Nil)
  <2>1. f = [i \in 1 .. 3 |-> g(i)]
    BY <1>1 DEF HostOps
  <2>2. g(1).op = "dump" /\ g(2).op = "drop" /\ g(3).op = "restore"
    BY DEF Do
  <2> HIDE DEF f, g
  <2>3. /\ f = [i \in 1 .. 3 |-> f[i]]
        /\ f[1] = g(1) /\ f[2] = g(2) /\ f[3] = g(3)
    BY <2>1
  <2>4. IsSeq(f) /\ Len(f) = 3
    BY <2>3, ListIs
  <2> QED BY <1>1, <2>2, <2>3, <2>4 DEF f
<1>2. CASE kind # "pgvector"
  <2> DEFINE g(i) == Do(<<"stop", "tar", "start", "stop", "wipe", "untar",
                          "start">>[i], Nil)
  <2>1. f = [i \in 1 .. 7 |-> g(i)]
    BY <1>2 DEF HostOps
  <2>2. /\ g(1).op = "stop" /\ g(2).op = "tar" /\ g(3).op = "start"
        /\ g(4).op = "stop" /\ g(5).op = "wipe" /\ g(6).op = "untar"
        /\ g(7).op = "start"
    BY DEF Do
  <2> HIDE DEF f, g
  <2>3. /\ f = [i \in 1 .. 7 |-> f[i]]
        /\ f[1] = g(1) /\ f[2] = g(2) /\ f[3] = g(3) /\ f[4] = g(4)
        /\ f[5] = g(5) /\ f[6] = g(6) /\ f[7] = g(7)
    BY <2>1
  <2>4. IsSeq(f) /\ Len(f) = 7
    BY <2>3, ListIs
  <2> QED BY <1>2, <2>2, <2>3, <2>4 DEF f
<1> QED BY <1>1, <1>2

\* The queries of a phase and the rest, one by one.
LEMMA LeftIs ==
    ASSUME NEW f, NEW R, NEW m, IsSeq(f), IsSeq(R), Len(f) = m
    PROVE  /\ m \in Nat /\ 0 \in 0 .. m
           /\ \A k \in 0 .. m : IsSeq(Left(f, k, R))
           /\ Left(f, 0, R) = f \o R /\ Left(f, m, R) = R
<1>1. m \in Nat /\ 0 \in 0 .. m /\ m \in 0 .. m
  BY DEF IsSeq
<1>2. \A k \in 0 .. m : IsSeq(Left(f, k, R))
  <2> SUFFICES ASSUME NEW k \in 0 .. m PROVE IsSeq(Left(f, k, R))
    OBVIOUS
  <2>1. k \in 0 .. Len(f)
    OBVIOUS
  <2> QED BY <2>1, FromIs
<1>3. Left(f, 0, R) = f \o R
  BY <1>1, FromIs
<1>4. Left(f, m, R) = R
  <2>1. m \in 0 .. Len(f)
    BY <1>1
  <2> QED BY <2>1, FromIs
<1> QED BY <1>1, <1>2, <1>3, <1>4

LEMMA RestsBackup ==
    ASSUME NEW c
    PROVE  /\ IsSeq(Unlinking)
           /\ \A k \in 0 .. Cardinality(Queries) : IsSeq(Checked(k))
           /\ Checked(0) = RunSearch("after_restore") \o Unlinking
           /\ Checked(Cardinality(Queries)) = Unlinking
           /\ IsSeq(CountAgain) /\ IsSeq(Reopened(c)) /\ IsSeq(Reloaded(c))
           /\ IsSeq(Rejoined(c)) /\ IsSeq(Reading(c)) /\ IsSeq(NewProcess(c))
           /\ IsSeq(Judged(c))
           /\ \A k \in 0 .. Len(HostOps) : IsSeq(Hosting(c, k))
           /\ Hosting(c, 0) = HostOps \o Judged(c)
           /\ Hosting(c, Len(HostOps)) = Judged(c)
           /\ IsSeq(Noting(c)) /\ IsSeq(Greening(c)) /\ IsSeq(Restoring(c))
           /\ IsSeq(Dropping(c)) /\ IsSeq(Parting(c))
           /\ \A k \in 0 .. Cardinality(Queries) : IsSeq(Tried(c, k))
           /\ Tried(c, 0) = RunSearch("run1") \o Parting(c)
           /\ Tried(c, Cardinality(Queries)) = Parting(c)
           /\ IsSeq(CountFirst(c))
<1> DEFINE m == Cardinality(Queries)
           n == Len(HostOps)
<1>1. IsSeq(Unlinking)
  BY NoneIs, OneIs DEF Unlinking
<1>2. /\ m \in Nat /\ 0 \in 0 .. m
      /\ \A k \in 0 .. m : IsSeq(Checked(k))
      /\ Checked(0) = RunSearch("after_restore") \o Unlinking
      /\ Checked(m) = Unlinking
  <2> DEFINE f == RunSearch("after_restore")
             R == Unlinking
  <2>1. IsSeq(f) /\ IsSeq(R) /\ Len(f) = m
    BY <1>1, RunSearchIs
  <2>2. \A k : Checked(k) = Left(f, k, R)
    BY DEF Checked
  <2> HIDE DEF f, R, m
  <2>3. /\ m \in Nat /\ 0 \in 0 .. m
        /\ \A k \in 0 .. m : IsSeq(Left(f, k, R))
        /\ Left(f, 0, R) = f \o R /\ Left(f, m, R) = R
    BY <2>1, LeftIs
  <2>4. Checked(0) = f \o R /\ Checked(m) = R
    BY <2>2, <2>3
  <2> QED BY <2>2, <2>3, <2>4 DEF f, R
<1>3. IsSeq(CountAgain) /\ IsSeq(Reopened(c)) /\ IsSeq(Reloaded(c)) /\ IsSeq(Rejoined(c))
  <2>1. IsSeq(CountAgain)
    BY <1>2, FirstIs DEF CountAgain
  <2>2. IsSeq(Reopened(c))
    BY <2>1, FirstIs DEF Reopened
  <2>3. IsSeq(Reloaded(c))
    BY <2>2, FirstIs DEF Reloaded
  <2>4. IsSeq(Rejoined(c))
    BY <2>3, FirstIs DEF Rejoined
  <2> QED BY <2>1, <2>2, <2>3, <2>4
<1>4. IsSeq(Reading(c)) /\ IsSeq(NewProcess(c)) /\ IsSeq(Judged(c))
  <2>1. IsSeq(Reading(c))
    BY <1>3, FirstIs DEF Reading
  <2>2. IsSeq(NewProcess(c))
    BY <2>1, FirstIs DEF NewProcess
  <2>3. IsSeq(Judged(c))
    BY <2>2, FirstIs DEF Judged
  <2> QED BY <2>1, <2>2, <2>3
<1>5. /\ n \in Nat /\ 0 \in 0 .. n
      /\ \A k \in 0 .. n : IsSeq(Hosting(c, k))
      /\ Hosting(c, 0) = HostOps \o Judged(c)
      /\ Hosting(c, n) = Judged(c)
  <2> DEFINE f == HostOps
             R == Judged(c)
  <2>1. IsSeq(f) /\ IsSeq(R) /\ Len(f) = n
    BY <1>4, HostOpsAre
  <2>2. \A k : Hosting(c, k) = Left(f, k, R)
    BY DEF Hosting
  <2> HIDE DEF f, R, n
  <2>3. /\ n \in Nat /\ 0 \in 0 .. n
        /\ \A k \in 0 .. n : IsSeq(Left(f, k, R))
        /\ Left(f, 0, R) = f \o R /\ Left(f, n, R) = R
    BY <2>1, LeftIs
  <2>4. Hosting(c, 0) = f \o R /\ Hosting(c, n) = R
    BY <2>2, <2>3
  <2> QED BY <2>2, <2>3, <2>4 DEF f, R
<1>6. IsSeq(Noting(c))
  BY <1>5, FirstIs DEF Noting
<1>7. IsSeq(Greening(c)) /\ IsSeq(Restoring(c)) /\ IsSeq(Dropping(c))
  <2>1. IsSeq(Greening(c))
    BY <1>3, FirstIs DEF Greening, Green1
  <2>2. IsSeq(Restoring(c))
    BY <2>1, FirstIs DEF Restoring
  <2>3. IsSeq(Dropping(c))
    BY <2>2, FirstIs DEF Dropping
  <2> QED BY <2>1, <2>2, <2>3
<1>8. IsSeq(Parting(c))
  <2>1. IsSeq(First(Do("dump", Nil), Dropping(c)))
    BY <1>7, FirstIs
  <2>2. IsSeq(First(Do("flush", Nil), Noting(c)))
    BY <1>6, FirstIs
  <2> QED BY <1>6, <2>1, <2>2 DEF Parting
<1>9. /\ \A k \in 0 .. m : IsSeq(Tried(c, k))
      /\ Tried(c, 0) = RunSearch("run1") \o Parting(c)
      /\ Tried(c, m) = Parting(c)
  <2> DEFINE f == RunSearch("run1")
             R == Parting(c)
  <2>1. IsSeq(f) /\ IsSeq(R) /\ Len(f) = m
    BY <1>8, RunSearchIs
  <2>2. \A k : Tried(c, k) = Left(f, k, R)
    BY DEF Tried
  <2> HIDE DEF f, R, m
  <2>3. /\ \A k \in 0 .. m : IsSeq(Left(f, k, R))
        /\ Left(f, 0, R) = f \o R /\ Left(f, m, R) = R
    BY <2>1, LeftIs
  <2>4. Tried(c, 0) = f \o R /\ Tried(c, m) = R
    BY <2>2, <2>3
  <2> QED BY <2>2, <2>3, <2>4 DEF f, R
<1>10. IsSeq(CountFirst(c))
  BY <1>2, <1>9, FirstIs DEF CountFirst
<1> QED BY <1>1, <1>2, <1>3, <1>4, <1>5, <1>6, <1>7, <1>8, <1>9, <1>10

LEMMA BackupSame ==
    ASSUME kind' = kind, NEW c
    PROVE  /\ Unlinking' = Unlinking /\ CountAgain' = CountAgain
           /\ \A k : Checked(k)' = Checked(k)
           /\ Reopened(c)' = Reopened(c) /\ Reloaded(c)' = Reloaded(c)
           /\ Rejoined(c)' = Rejoined(c) /\ Reading(c)' = Reading(c)
           /\ NewProcess(c)' = NewProcess(c) /\ Judged(c)' = Judged(c)
           /\ HostOps' = HostOps /\ \A k : Hosting(c, k)' = Hosting(c, k)
           /\ Noting(c)' = Noting(c) /\ Greening(c)' = Greening(c)
           /\ Restoring(c)' = Restoring(c) /\ Dropping(c)' = Dropping(c)
           /\ Parting(c)' = Parting(c) /\ \A k : Tried(c, k)' = Tried(c, k)
           /\ CountFirst(c)' = CountFirst(c)
<1>1. Unlinking' = Unlinking
  BY DEF Unlinking
<1>2. \A k : Checked(k)' = Checked(k)
  BY <1>1 DEF Checked, RunSearch, Left, From
<1>3. CountAgain' = CountAgain
  BY <1>2 DEF CountAgain
<1>4. Reopened(c)' = Reopened(c)
  BY <1>3 DEF Reopened
<1>5. Reloaded(c)' = Reloaded(c)
  BY <1>4 DEF Reloaded
<1>6. Rejoined(c)' = Rejoined(c)
  BY <1>5 DEF Rejoined
<1>7. Reading(c)' = Reading(c)
  BY <1>4, <1>6 DEF Reading
<1>8. NewProcess(c)' = NewProcess(c)
  BY <1>7 DEF NewProcess
<1>9. Judged(c)' = Judged(c)
  BY <1>8 DEF Judged
<1>10. HostOps' = HostOps
  BY DEF HostOps
<1>11. \A k : Hosting(c, k)' = Hosting(c, k)
  BY <1>9, <1>10 DEF Hosting, Left, From
<1>12. Noting(c)' = Noting(c)
  BY <1>11 DEF Noting
<1>13. Greening(c)' = Greening(c)
  BY <1>4 DEF Greening, Green1
<1>14. Restoring(c)' = Restoring(c)
  BY <1>13 DEF Restoring
<1>15. Dropping(c)' = Dropping(c)
  BY <1>14 DEF Dropping
<1>16. Parting(c)' = Parting(c)
  BY <1>12, <1>15 DEF Parting
<1>17. \A k : Tried(c, k)' = Tried(c, k)
  BY <1>16 DEF Tried, RunSearch, Left, From
<1>18. CountFirst(c)' = CountFirst(c)
  BY <1>17 DEF CountFirst
<1> QED BY <1>1, <1>2, <1>3, <1>4, <1>5, <1>6, <1>7, <1>8, <1>9, <1>10, <1>11,
           <1>12, <1>13, <1>14, <1>15, <1>16, <1>17, <1>18


-----------------------------------------------------------------------------
(* The program of a backup, step by step.                                  *)

\* What ends a program: the second count and the second pass.
LEMMA AfterIs ==
    ASSUME Db, NEW c
    PROVE  /\ IsSeq(StageAfter) /\ StageAfter \o Unlinking = CountAgain
           /\ kind = "qdrant" => StageAfter = CountAgain
           /\ IsSeq(Reopen(c.index))
           /\ Reopen(c.index) \o CountAgain
                = IF kind = "milvus" THEN Rejoined(c) ELSE Reopened(c)
<1> DEFINE s == << Do("stats", Nil) >>
           r == RunSearch("after_restore")
           U == Unlinking
           C == CountAgain
           i == c.index
<1>1. /\ IsSeq(s) /\ IsSeq(r) /\ IsSeq(U) /\ IsSeq(C) /\ Checked(0) = r \o U
      /\ StageAfter = s \o r /\ C = s \o Checked(0)
  BY OneIs, RunSearchIs, RestsBackup DEF StageAfter, CountAgain, First
<1>2. IsSeq(StageAfter) /\ StageAfter \o U = C
  <2> HIDE DEF s, r, U, C
  <2>1. (s \o r) \o U = s \o (r \o U) /\ IsSeq(s \o r)
    BY <1>1, JoinAgain, JoinIs
  <2> QED BY <1>1, <2>1
<1>3. kind = "qdrant" => StageAfter = C
  <2>1. kind = "qdrant" => U = << >>
    BY DEF Unlinking
  <2>2. StageAfter \o << >> = StageAfter
    BY <1>2, NoneIs
  <2> QED BY <1>2, <2>1, <2>2
<1>4. /\ kind = "pgvector" => Reopen(i) = << Do("attach", i) >>
      /\ kind = "qdrant" => Reopen(i) = << Do("attach", i) >>
      /\ kind = "milvus" =>
            Reopen(i) = << Do("connect", Nil), Do("load", Nil), Do("attach", i) >>
  BY OfIs DEF Reopen, Pg!Reopen, Qd!Reopen, Mv!Reopen, Pg!Do, Qd!Do, Mv!Do, Do
<1> HIDE DEF C
<1>5. /\ IsSeq(<< Do("attach", i) >>)
      /\ << Do("attach", i) >> \o C = First(Do("attach", i), C)
  <2>1. PICK a : a = Do("attach", i)
    OBVIOUS
  <2>2. IsSeq(<< a >>) /\ << a >> \o C = First(a, C)
    BY <1>1, Joins
  <2> QED BY <2>1, <2>2
<1>6. /\ IsSeq(<< Do("connect", Nil), Do("load", Nil), Do("attach", i) >>)
      /\ << Do("connect", Nil), Do("load", Nil), Do("attach", i) >> \o C
            = First(Do("connect", Nil), First(Do("load", Nil), First(Do("attach", i), C)))
  <2>1. PICK a, b, d : a = Do("connect", Nil) /\ b = Do("load", Nil) /\ d = Do("attach", i)
    OBVIOUS
  <2>2. IsSeq(C)
    BY <1>1
  <2>3. \A x, y, z : /\ IsSeq(<< x, y, z >>)
                    /\ << x, y, z >> \o C = First(x, First(y, First(z, C)))
    BY <2>2, Joins
  <2>4. /\ IsSeq(<< a, b, d >>)
        /\ << a, b, d >> \o C = First(a, First(b, First(d, C)))
    BY <2>3
  <2> QED BY <2>1, <2>4
<1>7. /\ Reopened(c) = First(Do("attach", i), C)
      /\ Rejoined(c) = First(Do("connect", Nil),
                             First(Do("load", Nil), First(Do("attach", i), C)))
  BY DEF Reopened, Rejoined, Reloaded, C
<1>8. /\ IsSeq(Reopen(i))
      /\ Reopen(i) \o C = IF kind = "milvus" THEN Rejoined(c) ELSE Reopened(c)
  <2>1. CASE kind \in {"pgvector", "qdrant"}
    BY <1>4, <1>5, <1>7, <2>1
  <2>2. CASE kind = "milvus"
    BY <1>4, <1>6, <1>7, <2>2
  <2> QED BY <2>1, <2>2 DEF Db
<1> QED BY <1>2, <1>3, <1>8 DEF C, U

LEMMA BeforeIs ==
    ASSUME Db, NEW c, NEW R, IsSeq(R)
    PROVE  /\ IsSeq(StageBefore(c))
           /\ StageBefore(c) \o R
                = Reset \o (Load(Row) \o (BuildIndex(c.index) \o
                    First(Do("stats", Nil), RunSearch("run1") \o
                        (IF kind = "milvus" THEN First(Do("flush", Nil), R) ELSE R))))
<1> DEFINE Y == Reset
           Z == Load(Row)
           U == BuildIndex(c.index)
           s == << Do("stats", Nil) >>
           r == RunSearch("run1")
           f == IF kind = "milvus" THEN Mv!FlushAll ELSE << >>
           N == IF kind = "milvus" THEN First(Do("flush", Nil), R) ELSE R
<1>1. StageBefore(c) = ((((Y \o Z) \o U) \o s) \o r) \o f
  BY DEF StageBefore
<1>2. IsSeq(Y) /\ IsSeq(Z) /\ IsSeq(U)
  <2> DEFINE S == Row
             i == c.index
  <2>1. S \in SUBSET Row
    OBVIOUS
  <2> HIDE DEF S, i
  <2>2. IsSeq(Reset) /\ IsSeq(Load(S)) /\ IsSeq(BuildIndex(i))
    BY <2>1, BuildIs
  <2> QED BY <2>2 DEF S, i
<1>3. IsSeq(s) /\ IsSeq(r)
  BY OneIs, RunSearchIs
<1>4. IsSeq(f) /\ f \o R = N
  <2>1. CASE kind = "milvus"
    <3>1. f = << Do("flush", Nil) >>
      BY <2>1 DEF Mv!FlushAll, Mv!Flush, Mv!Do, Do
    <3> QED BY <2>1, <3>1, OneIs DEF First
  <2>2. CASE kind # "milvus"
    BY <2>2, NoneIs
  <2> QED BY <2>1, <2>2
<1> HIDE DEF Y, Z, U, s, r, f, N
<1> DEFINE K == ((Y \o Z) \o U) \o s
<1>5. IsSeq(K)
  BY <1>2, <1>3, JoinMore
<1> HIDE DEF K
<1>6. /\ IsSeq((K \o r) \o f)
      /\ ((K \o r) \o f) \o R = K \o (r \o (f \o R))
  <2>1. IsSeq(K) /\ IsSeq(r) /\ IsSeq(f) /\ IsSeq(R)
    BY <1>3, <1>4, <1>5
  <2> QED BY <2>1, JoinFour
<1> DEFINE T == r \o (f \o R)
<1>7. IsSeq(T)
  BY <1>3, <1>4, JoinIs
<1> HIDE DEF T
<1>8. K \o T = Y \o (Z \o (U \o (s \o T)))
  BY <1>2, <1>3, <1>7, JoinMore DEF K
<1>9. StageBefore(c) = (K \o r) \o f
  BY <1>1 DEF K
<1>10. StageBefore(c) \o R = Y \o (Z \o (U \o (s \o T)))
  BY <1>6, <1>8, <1>9, Zenon DEF T
<1>11. T = r \o N
  BY <1>4 DEF T
<1>12. s \o T = First(Do("stats", Nil), r \o N)
  BY <1>11, Zenon DEF First, s
<1> QED BY <1>6, <1>9, <1>10, <1>12, Zenon DEF Y, Z, U, r, N

LEMMA HostIs ==
    ASSUME NEW c, kind # "qdrant"
    PROVE  IsSeq(HostStep(c)) /\ HostStep(c) \o NewProcess(c) = Hosting(c, 0)
<1> DEFINE h == HostOps
           j == << Do("host_json", kind = "pgvector" /\ c.index # "flat") >>
           N == NewProcess(c)
<1>1. HostStep(c) = h \o j
  BY DEF HostStep, HostOps
<1>2. /\ IsSeq(h) /\ IsSeq(j) /\ IsSeq(N) /\ Hosting(c, 0) = h \o Judged(c)
      /\ Judged(c) = j \o N
  BY HostOpsAre, OneIs, RestsBackup DEF Judged, First
<1> HIDE DEF h, j, N
<1>3. (h \o j) \o N = h \o (j \o N) /\ IsSeq(h \o j)
  BY <1>2, JoinAgain, JoinIs
<1> QED BY <1>1, <1>2, <1>3, Zenon DEF N

LEMMA JoinAll ==
    ASSUME NEW a, NEW b, NEW c, NEW d, IsSeq(a), IsSeq(b), IsSeq(c), IsSeq(d)
    PROVE  /\ IsSeq(((a \o b) \o c) \o d)
           /\ \A R : IsSeq(R) =>
                 (((a \o b) \o c) \o d) \o R = a \o (b \o (c \o (d \o R)))
<1>1. IsSeq(((a \o b) \o c) \o d)
  <2>1. IsSeq(<< >>)
    BY NoneIs
  <2> QED BY <2>1, JoinMore
<1>2. ASSUME NEW R, IsSeq(R)
      PROVE  (((a \o b) \o c) \o d) \o R = a \o (b \o (c \o (d \o R)))
  BY <1>2, JoinMore
<1> QED BY <1>1, <1>2

LEMMA SnapIs ==
    ASSUME Db, NEW c, kind = "qdrant"
    PROVE  RunBackup(c) = Connect \o (StageBefore(c) \o First(Do("dump", Nil), Dropping(c)))
<1> DEFINE X == Connect
           B == StageBefore(c)
           b == << Do("dump", Nil) >>
           d == << Do("drop", Nil) >>
           e == << Do("restore", Nil) >> \o << Do("wait_green", c.index = "hnsw") >>
           o == Reopen(c.index)
           T == CountAgain
<1>1. RunBackup(c) = (((((X \o B) \o b) \o d) \o e) \o o) \o T
  <2>1. RunBackup(c) = Connect \o StageBefore(c) \o Qd!Backup \o Drop
             \o Qd!Restore(c.index) \o Reopen(c.index) \o StageAfter
    BY DEF RunBackup
  <2>2. Qd!Backup = b /\ Qd!Restore(c.index) = e /\ Drop = d
    BY OfIs DEF Qd!Backup, Qd!Restore, Drop, Qd!Drop, Qd!WaitGreen, Qd!Do, Do
  <2>3. StageAfter = T
    BY AfterIs
  <2> HIDE DEF X, B, b, d, e, o, T
  <2> QED BY <2>1, <2>2, <2>3, Zenon DEF X, B, o
<1>2. /\ IsSeq(X) /\ IsSeq(B) /\ IsSeq(b) /\ IsSeq(d) /\ IsSeq(o) /\ IsSeq(T)
      /\ o \o T = Reopened(c)
  <2>1. IsSeq(X)
    BY ConnectIs, OneIs
  <2>2. IsSeq(B)
    BY BeforeIs, NoneIs
  <2> QED BY <2>1, <2>2, OneIs, AfterIs, RestsBackup
<1>3. IsSeq(e) /\ e \o Reopened(c) = Restoring(c)
  <2> DEFINE u == << Do("restore", Nil) >>
             v == << Do("wait_green", c.index = "hnsw") >>
             R == Reopened(c)
  <2>1. IsSeq(u) /\ IsSeq(v) /\ IsSeq(R)
    BY OneIs, RestsBackup
  <2>2. Restoring(c) = u \o (v \o R)
    BY DEF Restoring, Greening, Green1, First
  <2> HIDE DEF u, v, R
  <2>3. (u \o v) \o R = u \o (v \o R) /\ IsSeq(u \o v)
    BY <2>1, JoinAgain, JoinIs
  <2> QED BY <2>2, <2>3 DEF u, v, R
<1>4. b \o (d \o Restoring(c)) = First(Do("dump", Nil), Dropping(c))
  BY DEF First, Dropping
<1>5. IsSeq(Restoring(c))
  BY RestsBackup
<1> HIDE DEF X, B, b, d, e, o, T
<1> DEFINE P == ((X \o B) \o b) \o d
<1>6. IsSeq(P) /\ \A R : IsSeq(R) => P \o R = X \o (B \o (b \o (d \o R)))
  BY <1>2, JoinAll
<1> HIDE DEF P
<1>7. ((P \o e) \o o) \o T = P \o (e \o (o \o T))
  <2>1. IsSeq(P) /\ IsSeq(e) /\ IsSeq(o) /\ IsSeq(T)
    BY <1>2, <1>3, <1>6
  <2> QED BY <2>1, JoinFour
<1>8. e \o (o \o T) = Restoring(c)
  BY <1>2, <1>3, Zenon
<1>9. P \o Restoring(c) = X \o (B \o (b \o (d \o Restoring(c))))
  BY <1>5, <1>6
<1>10. RunBackup(c) = ((P \o e) \o o) \o T
  BY <1>1, Zenon DEF P
<1>11. RunBackup(c) = X \o (B \o First(Do("dump", Nil), Dropping(c)))
  BY <1>4, <1>7, <1>8, <1>9, <1>10, Zenon
<1> QED BY <1>11, Zenon DEF X, B

LEMMA StagesAre ==
    ASSUME Db, NEW c, kind # "qdrant"
    PROVE  RunBackup(c) = Connect \o (StageBefore(c) \o Noting(c))
<1> DEFINE X == Connect
           B == StageBefore(c)
           w == << Do("write_state", Nil) >>
           h == HostStep(c)
           x == << Do("connect", Nil) >>
           e == << Do("read_state", Nil) >>
           o == Reopen(c.index)
           t == StageAfter
           u == Unlinking
<1>1. RunBackup(c) = (((((((X \o B) \o w) \o h) \o x) \o e) \o o) \o t) \o u
  <2>1. RunBackup(c) = Connect \o StageBefore(c) \o << Do("write_state", Nil) >>
             \o HostStep(c) \o Connect \o << Do("read_state", Nil) >>
             \o Reopen(c.index) \o StageAfter \o << Do("unlink_state", Nil) >>
    BY DEF RunBackup
  <2>2. Connect = x /\ u = << Do("unlink_state", Nil) >>
    BY ConnectIs DEF Unlinking
  <2> HIDE DEF X, B, w, h, x, e, o, t, u
  <2>3. RunBackup(c) = X \o B \o w \o h \o Connect \o e \o o \o t \o u
    BY <2>1, <2>2, Zenon DEF X, B, w, h, e, o, t
  <2> QED BY <2>2, <2>3, Zenon
<1>2. /\ IsSeq(X) /\ IsSeq(B) /\ IsSeq(w) /\ IsSeq(h) /\ IsSeq(x) /\ IsSeq(e)
      /\ IsSeq(o) /\ IsSeq(t) /\ IsSeq(u)
  <2>1. IsSeq(X)
    BY ConnectIs, OneIs
  <2>2. IsSeq(B)
    BY BeforeIs, NoneIs
  <2> QED BY <2>1, <2>2, OneIs, AfterIs, RestsBackup, HostIs
<1>3. /\ t \o u = CountAgain /\ IsSeq(CountAgain)
      /\ e \o (o \o CountAgain) = Reading(c)
      /\ x \o Reading(c) = NewProcess(c) /\ h \o NewProcess(c) = Hosting(c, 0)
      /\ w \o Hosting(c, 0) = Noting(c) /\ IsSeq(NewProcess(c))
  BY AfterIs, HostIs, RestsBackup DEF Reading, NewProcess, Noting, First
<1> HIDE DEF X, B, w, h, x, e, o, t, u
<1> DEFINE P == ((X \o B) \o w) \o h
           Q == ((P \o x) \o e) \o o
<1>4. IsSeq(P) /\ \A R : IsSeq(R) => P \o R = X \o (B \o (w \o (h \o R)))
  BY <1>2, JoinAll
<1> HIDE DEF P
<1>5. IsSeq(Q) /\ \A R : IsSeq(R) => Q \o R = P \o (x \o (e \o (o \o R)))
  <2>1. IsSeq(P) /\ IsSeq(x) /\ IsSeq(e) /\ IsSeq(o)
    BY <1>2, <1>4
  <2> QED BY <2>1, JoinAll
<1> HIDE DEF Q
<1>6. (Q \o t) \o u = Q \o (t \o u)
  <2>1. IsSeq(Q) /\ IsSeq(t) /\ IsSeq(u)
    BY <1>2, <1>5
  <2> QED BY <2>1, JoinAgain
<1>7. RunBackup(c) = (Q \o t) \o u
  BY <1>1, Zenon DEF P, Q
<1>8. Q \o CountAgain = P \o (x \o (e \o (o \o CountAgain)))
  BY <1>3, <1>5
<1>9. P \o NewProcess(c) = X \o (B \o (w \o (h \o NewProcess(c))))
  BY <1>3, <1>4
<1>10. x \o (e \o (o \o CountAgain)) = NewProcess(c)
  BY <1>3, Zenon
<1>11. w \o (h \o NewProcess(c)) = Noting(c)
  BY <1>3, Zenon
<1>12. RunBackup(c) = X \o (B \o Noting(c))
  BY <1>3, <1>6, <1>7, <1>8, <1>9, <1>10, <1>11, Zenon
<1> QED BY <1>12, Zenon DEF X, B

LEMMA BackupRunIs ==
    ASSUME Db, NEW c
    PROVE  RunBackup(c) = Build(Row, c.index, CountFirst(c))
<1> DEFINE R == IF kind = "qdrant" THEN First(Do("dump", Nil), Dropping(c)) ELSE Noting(c)
           C == CountFirst(c)
           i == c.index
<1>1. RunBackup(c) = Connect \o (StageBefore(c) \o R)
  BY SnapIs, StagesAre
<1>2. IsSeq(R)
  BY RestsBackup, FirstIs
<1>3. Parting(c) = IF kind = "milvus" THEN First(Do("flush", Nil), R) ELSE R
  BY DEF Parting
<1> HIDE DEF R
<1>4. StageBefore(c) \o R
        = Reset \o (Load(Row) \o (BuildIndex(c.index) \o
             First(Do("stats", Nil), RunSearch("run1") \o
                 (IF kind = "milvus" THEN First(Do("flush", Nil), R) ELSE R))))
  BY <1>2, BeforeIs
<1>5. C = First(Do("stats", Nil), RunSearch("run1") \o Parting(c)) /\ IsSeq(C)
  BY RestsBackup DEF CountFirst
<1> HIDE DEF C
<1>6. StageBefore(c) \o R = Reset \o (Load(Row) \o (BuildIndex(i) \o C))
  BY <1>3, <1>4, <1>5, Zenon
<1>7. Connect \o (Reset \o (Load(Row) \o (BuildIndex(i) \o C))) = Build(Row, i, C)
  <2> DEFINE S == Row
  <2>1. S \in SUBSET Row
    OBVIOUS
  <2> HIDE DEF S, i
  <2>2. Connect \o (Reset \o (Load(S) \o (BuildIndex(i) \o C))) = Build(S, i, C)
    BY <1>5, <2>1, BuildIs
  <2> QED BY <2>2 DEF S
<1>8. RunBackup(c) = Build(Row, i, C)
  BY <1>1, <1>6, <1>7, Zenon
<1> QED BY <1>8, Zenon DEF C, i


-----------------------------------------------------------------------------
(* A whole table.                                                          *)

LEMMA WholeIs ==
    ASSUME NEW c, NEW g, kind' = kind
    PROVE  /\ Whole1(db, c, g) <=>
                 /\ Table(Old(Row), {}, Has(c.index)) /\ db.gen = g
                 /\ Has(c.index) => db.raw = {}
                 /\ kind = "milvus" => db.disk = Old(Row)
           /\ Whole1(db, c, g)' <=>
                 /\ Table(Old(Row), {}, Has(c.index))' /\ db'.gen = g
                 /\ Has(c.index) => db'.raw = {}
                 /\ kind = "milvus" => db'.disk = Old(Row)
<1>1. /\ Has(c.index)' = Has(c.index) /\ Old(Row)' = Old(Row)
  BY DEF Has, Old
<1>2. Whole1(db, c, g) <=>
                 /\ Table(Old(Row), {}, Has(c.index)) /\ db.gen = g
                 /\ Has(c.index) => db.raw = {}
                 /\ kind = "milvus" => db.disk = Old(Row)
  BY DEF Whole1, Table
<1>3. Whole1(db, c, g)' <=>
                 /\ Table(Old(Row), {}, Has(c.index))' /\ db'.gen = g
                 /\ Has(c.index) => db'.raw = {}
                 /\ kind = "milvus" => db'.disk = Old(Row)
  BY <1>1 DEF Whole1, Table
<1> QED BY <1>2, <1>3

\* The server leaves it whole.
LEMMA WholeBack ==
    ASSUME NEW c, NEW g, Whole1(db, c, g), Behind, kind' = kind
    PROVE  /\ Whole1(db, c, g)' /\ (db.seen = db.live => db'.seen = db'.live)
           /\ UNCHANGED <<up, saved>>
<1>1. PICK ix : ix = Has(c.index)
  OBVIOUS
<1> DEFINE L == Old(Row)
<1>2. /\ Table(L, {}, Has(c.index)) /\ db.gen = g
      /\ (Has(c.index) => db.raw = {})
      /\ (kind = "milvus" => db.disk = L)
  BY WholeIs
<1> HIDE DEF L
<1>3. Table(L, {}, ix)
  BY <1>1, <1>2, HasSame
<1>4. /\ Table(L, {}, ix)' /\ db'.raw \in {db.raw, {}} /\ db'.seen \in {db.seen, L}
      /\ db'.disk = db.disk /\ db'.gen = db.gen /\ UNCHANGED <<up, saved>>
  BY <1>3, BackgroundIs
<1>5. Table(L, {}, Has(c.index))'
  BY <1>1, <1>4, HasSame
<1>6. db.live = L /\ db'.live = L
  BY <1>3, <1>4 DEF Table
<1>7. Whole1(db, c, g)'
  BY <1>2, <1>4, <1>5, WholeIs DEF L
<1> QED BY <1>4, <1>6, <1>7

LEMMA FitBack ==
    ASSUME NEW c, NEW g, Fit(c, g), Behind, kind' = kind
    PROVE  Fit(c, g)'
BY WholeBack DEF Fit

\* Nothing is done to a table that is not there.
LEMMA NilBack ==
    ASSUME Behind, db = Nil \/ ~up
    PROVE  UNCHANGED server
BY DEF Behind, Background, CatchUp, IndexRows, Clean, Register, HandOff, Running

LEMMA StatsIs ==
    ASSUME Db, NEW c, NEW g, NEW d, Whole1(d, c, g)
    PROVE  Stats(d) = Count
<1> DEFINE Z == {0}
<1>1. IsFiniteSet(Row) /\ Cardinality(Row) \in Nat
  BY BenchAssumption, FS_CardinalityType
<1>2. IsFiniteSet(Z) /\ Cardinality(Z) = 1
  BY FS_Singleton
<1> HIDE DEF Z
<1>3. Cardinality(Row \X Z) = Cardinality(Row) * Cardinality(Z)
  BY <1>1, <1>2, FS_Product
<1>4. Cardinality(Row \X Z) = Cardinality(Row)
  BY <1>1, <1>2, <1>3
<1>5. Cardinality(Old(Row)) = Count
  BY <1>4 DEF Old, Count, Z
<1>6. d.live = Old(Row) /\ (kind = "milvus" => d.disk = Old(Row))
  BY DEF Whole1
<1>7. CASE kind = "pgvector"
  <2>1. Stats(d) = Pg!Stats(d)
    BY <1>7, OfIs DEF Stats
  <2>2. Pg!Stats(d) = Cardinality(d.live)
    BY SameCalls DEF Pg!Stats
  <2> QED BY <1>5, <1>6, <2>1, <2>2
<1>8. CASE kind = "qdrant"
  <2>1. Stats(d) = Qd!Stats(d)
    BY <1>8, OfIs DEF Stats
  <2>2. Qd!Stats(d) = Cardinality(d.live)
    BY SameCalls DEF Qd!Stats
  <2> QED BY <1>5, <1>6, <2>1, <2>2
<1>9. CASE kind = "milvus"
  <2>1. Stats(d) = Mv!Stats(d)
    BY <1>9, OfIs DEF Stats
  <2>2. Mv!Stats(d) = Cardinality(d.disk)
    BY SameCalls DEF Mv!Stats
  <2> QED BY <1>5, <1>6, <1>9, <2>1, <2>2
<1> QED BY <1>7, <1>8, <1>9 DEF Db

\* A search sees all of it.
LEMMA FullSight ==
    ASSUME Db, NEW c, c.index \in Indexes, NEW g, Fit(c, g), Facing(c)
    PROVE  Search(db, client) = Sight(c, g)
<1> DEFINE L == Old(Row)
           i == c.index
<1>1. i \in {"flat", "hnsw"} /\ Nil \notin {"flat", "hnsw"}
  BY BenchAssumption DEF Indexes
<1>2. /\ db.live = L /\ db.held = {} /\ db.gen = g /\ db.index = Has(i)
      /\ (Has(i) => db.raw = {}) /\ (kind # "pgvector" => client.index = i)
      /\ (kind = "milvus" => db.seen = L)
  BY DEF Fit, Whole1, Facing
<1>3. CASE kind = "pgvector"
  <2> DEFINE by == IF db.index THEN "index" ELSE "scan"
  <2>1. Search(db, client) = Pg!Search(db, client)
    BY <1>3, OfIs DEF Search
  <2>2. Pg!Search(db, client) = Seen(db.live, db.held, {}, by, db.gen)
    BY DEF Pg!Search, Pg!Seen, Seen
  <2>3. by = How(i)
    BY <1>1, <1>2, <1>3 DEF Has, How
  <2> HIDE DEF by, L, i
  <2>4. Pg!Search(db, client) = Seen(L, {}, {}, How(i), g)
    BY <1>2, <2>2, <2>3
  <2> QED BY <2>1, <2>4 DEF Sight, L, i
<1>4. CASE kind = "qdrant"
  <2> DEFINE raw == IF client.index = "hnsw" THEN db.raw ELSE {}
  <2>1. Search(db, client) = Qd!Search(db, client)
    BY <1>4, OfIs DEF Search
  <2>2. Qd!Search(db, client) = Seen(db.live, db.held, raw, How(client.index), db.gen)
    BY DEF Qd!Search, Qd!Seen, Seen, Qd!How, How
  <2>3. raw = {} /\ client.index = i
    BY <1>1, <1>2, <1>4 DEF Has
  <2> HIDE DEF raw, L, i
  <2>4. Qd!Search(db, client) = Seen(L, {}, {}, How(i), g)
    BY <1>2, <2>2, <2>3
  <2> QED BY <2>1, <2>4 DEF Sight, L, i
<1>5. CASE kind = "milvus"
  <2> DEFINE rows == IF client.strong THEN db.live ELSE db.seen
             raw == IF db.index THEN db.raw ELSE {}
             by == IF client.index = Nil THEN "default" ELSE How(client.index)
  <2>1. Search(db, client) = Mv!Search(db, client)
    BY <1>5, OfIs DEF Search
  <2>2. Mv!Search(db, client) = Seen(rows, db.held, raw, by, db.gen)
    BY DEF Mv!Search, Mv!Seen, Seen, Mv!How, How
  <2>3. rows = L /\ raw = {} /\ by = How(i)
    BY <1>1, <1>2, <1>5 DEF Has
  <2> HIDE DEF rows, raw, by, L, i
  <2>4. Mv!Search(db, client) = Seen(L, {}, {}, How(i), g)
    BY <1>2, <2>2, <2>3
  <2> QED BY <2>1, <2>4 DEF Sight, L, i
<1> QED BY <1>3, <1>4, <1>5 DEF Db

\* A query of a pass, seen as a step of its program.
LEMMA PassStep ==
    ASSUME Db, NEW c, c.index \in Indexes, NEW g, Fit(c, g), Facing(c),
           NEW p, NEW R, IsSeq(R), NEW k \in 0 .. Cardinality(Queries),
           k # Cardinality(Queries), NEW n, n = k + 1, IsDoc(doc),
           todo = Left(RunSearch(p), k, R), Main
    PROVE  /\ n \in 0 .. Cardinality(Queries)
           /\ todo' = Left(RunSearch(p), n, R)
           /\ UNCHANGED <<server, client, load, stage1>>
           /\ doc' = [doc EXCEPT !.searches = doc.searches \cup Sights(p, c, n, g)]
           /\ Sights(p, c, k, g) \cup Sights(p, c, n, g) = Sights(p, c, n, g)
<1> DEFINE f == RunSearch(p)
           m == Cardinality(Queries)
           s == Do("search", p)
           N == Left(f, n, R)
           a == Answer(p, client)
<1>1. IsSeq(f) /\ Len(f) = m /\ m \in Nat /\ (\A j \in 1 .. m : f[j] = s)
  BY RunSearchIs, BenchAssumption
<1>2. a = [phase |-> p, saw |-> Sight(c, g)]
  BY FullSight DEF Answer
<1> HIDE DEF f, m, s, N, a
<1>3. /\ k \in 0 .. Len(f) /\ k # Len(f)
  BY <1>1 DEF m
<1>4. /\ n \in 0 .. Len(f) /\ n \in 1 .. Len(f)
      /\ Left(f, k, R) = First(f[n], Left(f, n, R))
      /\ IsSeq(Left(f, n, R))
  BY <1>1, <1>3, FromNext
<1>5. todo = First(s, N) /\ IsSeq(N)
  BY <1>1, <1>4 DEF N, f
<1>6. /\ todo' = N /\ UNCHANGED <<server, client, load, stage1>>
      /\ doc' = [doc EXCEPT !.searches = doc.searches \cup {Answer(p, client)}]
  BY <1>5, SearchIs DEF s
<1>7. n \in 0 .. m /\ n \in 1 .. m
  BY <1>1, <1>4
<1>8. Sights(p, c, n, g) = {a}
  <2>1. \E j \in 1 .. n : TRUE
    BY <1>7
  <2> QED BY <1>2, <2>1 DEF Sights
<1>9. Sights(p, c, k, g) \subseteq {a}
  BY <1>2 DEF Sights
<1> QED BY <1>6, <1>7, <1>8, <1>9 DEF N, f, m, a


-----------------------------------------------------------------------------
(* The steps of the main thread.                                           *)

LEMMA CallIs ==
    ASSUME NEW s, NEW N, IsSeq(N), todo = First(s, N), Main,
           s.op \in {"drop", "flush", "load", "dump", "restore", "stop", "start",
                     "tar", "wipe", "untar"}
    PROVE  /\ Serve(s) /\ todo' = N
           /\ UNCHANGED client /\ UNCHANGED doc /\ UNCHANGED load /\ UNCHANGED stage1
<1>1. MainOp(s) /\ Tail(todo) = N
  BY MainIs
<1>2. Serve(s) /\ Asked1
  BY <1>1, RequestIs
<1> QED BY <1>1, <1>2 DEF Asked1

LEMMA WholeSame ==
    ASSUME NEW c, NEW g, NEW d, Whole1(d, c, g), kind' = kind, NEW e,
           \/ e = d
           \/ e = [d EXCEPT !.loaded = FALSE, !.seen = {}]
           \/ e = [d EXCEPT !.loaded = TRUE, !.seen = d.live, !.held = d.dead]
           \/ kind = "milvus" /\ e = [d EXCEPT !.live = d.disk]
           \/ kind = "milvus" /\ e = [d EXCEPT !.disk = d.live]
           \/ e = [d EXCEPT !.gen = d.gen]
    PROVE  Whole1(e, c, g)
BY DEF Whole1, IsTable

LEMMA WholeNext ==
    ASSUME kind' = kind
    PROVE  \A c, g : /\ Whole1(db, c, g)' <=> Whole1(db', c, g)
                     /\ Whole1(saved, c, g)' <=> Whole1(saved', c, g)
BY DEF Whole1, Has

LEMMA NotingStep ==
    ASSUME Db, NEW c, kind' = kind, kind # "qdrant", NEW g, Whole1(db, c, g),
           FirstHalf(c, doc, Cardinality(Queries), g), todo = Noting(c), Main
    PROVE  OnHost(c)' /\ load' = load
<1> DEFINE s == Do("write_state", Nil)
           N == Hosting(c, 0)
           m == Cardinality(Queries)
<1>1. s.op = "write_state"
  BY DEF Do
<1>2. 0 \in 0 .. Len(HostOps)
  BY HostOpsAre
<1>3. IsSeq(N)
  BY <1>2, RestsBackup
<1>4. todo = First(s, N)
  BY DEF Noting
<1> HIDE DEF s, N, m
<1>5. MainOp(s) /\ Tail(todo) = N
  BY <1>3, <1>4, MainIs
<1>6. /\ todo' = N /\ UNCHANGED <<server, client, load>>
      /\ stage1' = doc /\ doc' = NoDoc
  BY <1>1, <1>5, DocOpIs
<1>7. todo' = Hosting(c, 0)' /\ HostOps' = HostOps
  BY <1>6, BackupSame DEF N
<1>8. Whole1(db, c, g)'
  BY <1>6, WholeNext DEF server
<1>9. Hosted(c, 0, g)'
  BY <1>8 DEF Hosted
<1>10. FirstHalf(c, stage1', m, g)
  BY <1>6 DEF m
<1> QED BY <1>2, <1>6, <1>7, <1>9, <1>10 DEF OnHost, m, NoDoc

LEMMA FlushTried ==
    ASSUME Db, NEW c, kind' = kind, kind = "milvus", NEW g, Fit(c, g), Facing(c),
           FirstHalf(c, doc, Cardinality(Queries), g), todo = Parting(c), Main
    PROVE  Trying(c)' /\ load' = load
<1> DEFINE s == Do("flush", Nil)
           N == Noting(c)
           m == Cardinality(Queries)
<1>1. s.op = "flush"
  BY DEF Do
<1>2. IsSeq(N) /\ todo = First(s, N)
  BY RestsBackup DEF Parting
<1> HIDE DEF s, N, m
<1>3. /\ Serve(s) /\ todo' = N
      /\ UNCHANGED client /\ UNCHANGED doc /\ UNCHANGED load /\ UNCHANGED stage1
  BY <1>1, <1>2, CallIs
<1>4. db' = [db EXCEPT !.disk = db.live]
  BY <1>1, <1>3, ServeIndexIs
<1>5. Whole1(db', c, g)
  BY <1>4, WholeSame DEF Fit
<1>6. Whole1(db, c, g)' /\ db'.seen = db'.live
  BY <1>4, <1>5, WholeNext DEF Fit, Whole1, IsTable
<1>7. Fit(c, g)'
  BY <1>6 DEF Fit
<1>8. Facing(c)'
  BY <1>3, FacingSame
<1>9. todo' = Noting(c)'
  BY <1>3, BackupSame DEF N
<1>10. FirstHalf(c, doc, m, g)'
  BY <1>3 DEF m
<1> QED BY <1>3, <1>7, <1>8, <1>9, <1>10 DEF Trying, m

LEMMA DumpStep ==
    ASSUME Db, NEW c, kind' = kind, kind = "qdrant", NEW g, Fit(c, g), Facing(c),
           FirstHalf(c, doc, Cardinality(Queries), g), todo = Parting(c), Main
    PROVE  Snapped(c)' /\ load' = load
<1> DEFINE s == Do("dump", Nil)
           N == Dropping(c)
           m == Cardinality(Queries)
<1>1. s.op = "dump"
  BY DEF Do
<1>2. IsSeq(N) /\ todo = First(s, N)
  BY RestsBackup DEF Parting
<1> HIDE DEF s, N, m
<1>3. /\ Serve(s) /\ todo' = N
      /\ UNCHANGED client /\ UNCHANGED doc /\ UNCHANGED load /\ UNCHANGED stage1
  BY <1>1, <1>2, CallIs
<1>4. saved' = db
  BY <1>1, <1>3, ServeHostIs
<1>5. Whole1(saved, c, g)'
  BY <1>4, WholeNext DEF Fit
<1>6. Facing(c)'
  BY <1>3, FacingSame
<1>7. todo' = Dropping(c)'
  BY <1>3, BackupSame DEF N
<1>8. FirstHalf(c, doc, m, g)'
  BY <1>3 DEF m
<1> QED BY <1>3, <1>5, <1>6, <1>7, <1>8 DEF Snapped, m

LEMMA TriedStep ==
    ASSUME Db, NEW c, c.index \in Indexes, kind' = kind, NEW g, Fit(c, g), Facing(c),
           NEW k \in 0 .. Cardinality(Queries), k # Cardinality(Queries),
           FirstHalf(c, doc, k, g), todo = Tried(c, k), Main
    PROVE  Trying(c)' /\ load' = load
<1> DEFINE R == Parting(c)
           n == k + 1
           p == "run1"
<1>1. IsSeq(R) /\ IsDoc(doc) /\ n = k + 1 /\ todo = Left(RunSearch(p), k, R)
  BY RestsBackup DEF FirstHalf, Tried
<1> HIDE DEF R, n, p
<1>2. /\ n \in 0 .. Cardinality(Queries)
      /\ todo' = Left(RunSearch(p), n, R)
      /\ UNCHANGED <<server, client, load, stage1>>
      /\ doc' = [doc EXCEPT !.searches = doc.searches \cup Sights(p, c, n, g)]
      /\ Sights(p, c, k, g) \cup Sights(p, c, n, g) = Sights(p, c, n, g)
  BY <1>1, PassStep
<1>3. FirstHalf(c, doc', n, g)
  BY <1>1, <1>2 DEF FirstHalf, IsDoc, p
<1>4. todo' = Tried(c, n)'
  BY <1>2, BackupSame DEF Tried, R, p
<1>5. Facing(c)'
  BY <1>2, FacingSame
<1>6. Whole1(db, c, g)' /\ (kind' = "milvus" => db'.seen = db'.live)
  BY <1>2, WholeNext DEF Fit, server
<1> QED BY <1>2, <1>3, <1>4, <1>5, <1>6 DEF Trying, Fit

LEMMA TryingStep ==
    ASSUME Db, NEW c, c.index \in Indexes, kind' = kind, Trying(c), Main
    PROVE  (Trying(c)' \/ Snapped(c)' \/ OnHost(c)') /\ load' = load
<1>1. PICK g : /\ Fit(c, g)
               /\ \/ \E k \in 0 .. Cardinality(Queries) :
                         todo = Tried(c, k) /\ FirstHalf(c, doc, k, g)
                  \/ /\ kind = "milvus" /\ todo = Noting(c)
                     /\ FirstHalf(c, doc, Cardinality(Queries), g)
  BY DEF Trying
<1>2. Facing(c) /\ Whole1(db, c, g)
  BY <1>1 DEF Trying, Fit
<1>3. CASE kind = "milvus" /\ todo = Noting(c)
              /\ FirstHalf(c, doc, Cardinality(Queries), g)
  BY <1>2, <1>3, NotingStep
<1>4. ASSUME NEW k \in 0 .. Cardinality(Queries), todo = Tried(c, k),
             FirstHalf(c, doc, k, g)
      PROVE  (Trying(c)' \/ Snapped(c)' \/ OnHost(c)') /\ load' = load
  <2>1. CASE k # Cardinality(Queries)
    BY <1>1, <1>2, <1>4, <2>1, TriedStep
  <2>2. CASE k = Cardinality(Queries)
    <3>1. todo = Parting(c) /\ FirstHalf(c, doc, Cardinality(Queries), g)
      BY <1>4, <2>2, RestsBackup
    <3>2. CASE kind = "qdrant"
      BY <1>1, <1>2, <3>1, <3>2, DumpStep
    <3>3. CASE kind = "milvus"
      BY <1>1, <1>2, <3>1, <3>3, FlushTried
    <3>4. CASE kind = "pgvector"
      <4>1. todo = Noting(c)
        BY <3>1, <3>4 DEF Parting
      <4> QED BY <1>2, <3>1, <3>4, <4>1, NotingStep
    <3> QED BY <3>2, <3>3, <3>4 DEF Db
  <2> QED BY <2>1, <2>2
<1> QED BY <1>1, <1>3, <1>4


\* The snapshot of Qdrant, in one process.
LEMMA SnapStep ==
    ASSUME Db, NEW c, kind' = kind, Main, kind = "qdrant", Facing(c), NEW g,
           FirstHalf(c, doc, Cardinality(Queries), g),
           \/ todo = Dropping(c) /\ Whole1(saved, c, g)
           \/ todo = Restoring(c) /\ Whole1(saved, c, g) /\ db = Nil
    PROVE  Snapped(c)' /\ load' = load
<1> DEFINE m == Cardinality(Queries)
<1>1. FirstHalf(c, doc, m, g)
  OBVIOUS
<1>2. Facing(c) /\ kind = "qdrant"
  OBVIOUS
<1> HIDE DEF m
<1>3. CASE todo = Dropping(c) /\ Whole1(saved, c, g)
  <2> DEFINE s == Do("drop", Nil)
             N == Restoring(c)
  <2>1. s.op = "drop"
    BY DEF Do
  <2>2. IsSeq(N) /\ todo = First(s, N)
    BY <1>3, RestsBackup DEF Dropping
  <2> HIDE DEF s, N
  <2>3. /\ Serve(s) /\ todo' = N
        /\ UNCHANGED client /\ UNCHANGED doc /\ UNCHANGED load /\ UNCHANGED stage1
    BY <2>1, <2>2, CallIs
  <2>4. db' = Nil /\ saved' = saved
    BY <2>1, <2>3, ServeTableIs
  <2>5. Whole1(saved, c, g)'
    BY <1>3, <2>4, WholeNext
  <2>6. Facing(c)'
    BY <1>2, <2>3, FacingSame
  <2>7. todo' = Restoring(c)'
    BY <2>3, BackupSame DEF N
  <2>8. FirstHalf(c, doc, m, g)'
    BY <1>1, <2>3 DEF m
  <2> QED BY <1>2, <2>3, <2>4, <2>5, <2>6, <2>7, <2>8 DEF Snapped, m
<1>4. CASE todo = Restoring(c) /\ Whole1(saved, c, g) /\ db = Nil
  <2> DEFINE s == Do("restore", Nil)
             N == Greening(c)
  <2>1. s.op = "restore"
    BY DEF Do
  <2>2. IsSeq(N) /\ todo = First(s, N)
    BY <1>4, RestsBackup DEF Restoring
  <2> HIDE DEF s, N
  <2>3. /\ Serve(s) /\ todo' = N
        /\ UNCHANGED client /\ UNCHANGED doc /\ UNCHANGED load /\ UNCHANGED stage1
    BY <2>1, <2>2, CallIs
  <2>4. db' = [saved EXCEPT
                       !.gen = IF kind = "pgvector" /\ saved.index
                               THEN saved.gen + 1 ELSE saved.gen]
    BY <2>1, <2>3, ServeHostIs
  <2>5. db' = [saved EXCEPT !.gen = saved.gen]
    BY <1>2, <2>4
  <2>6. Whole1(db', c, g)
    BY <1>4, <2>5, WholeSame
  <2>7. Whole1(db, c, g)'
    BY <2>6, WholeNext
  <2>8. Facing(c)'
    BY <1>2, <2>3, FacingSame
  <2>9. todo' = Greening(c)'
    BY <2>3, BackupSame DEF N
  <2>10. FirstHalf(c, doc, m, g)'
    BY <1>1, <2>3 DEF m
  <2> QED BY <1>2, <2>3, <2>7, <2>8, <2>9, <2>10 DEF Snapped, m
<1> QED BY <1>1, <1>3, <1>4

LEMMA GreeningStep ==
    ASSUME Db, NEW c, kind' = kind, Main, kind = "qdrant", Facing(c), NEW g,
           FirstHalf(c, doc, Cardinality(Queries), g), Whole1(db, c, g),
           todo = Greening(c)
    PROVE  Reopening(c)' /\ load' = load
<1> DEFINE m == Cardinality(Queries)
           N == Reopened(c)
           i == c.index
<1>1. FirstHalf(c, doc, m, g) /\ Whole1(db, c, g)
  OBVIOUS
<1>2. kind = "qdrant" /\ IsClient
  BY DEF Facing
<1>3. IsSeq(N) /\ todo = Green1(i, N)
  BY RestsBackup DEF Greening
<1> HIDE DEF m, N, i
<1>4. todo' = N /\ UNCHANGED server /\ UNCHANGED Aside
  BY <1>3, GreenIs
<1>5. todo' = Reopened(c)'
  BY <1>4, BackupSame DEF N
<1>6. Whole1(db, c, g)'
  BY <1>1, <1>4, WholeNext DEF server
<1>7. IsClient'
  BY <1>2, <1>4 DEF IsClient, Aside
<1>8. SecondHalf(c, doc', 0, g, g) /\ doc'.rows = << Count >>
  <2>1. FirstHalf(c, doc, m, g) /\ doc' = doc
    BY <1>1, <1>4 DEF Aside
  <2>2. \A p : Sights(p, c, 0, g) = {}
    BY DEF Sights
  <2> QED BY <2>1, <2>2 DEF FirstHalf, SecondHalf, m
<1>9. SecondHalf(c, doc, 0, g, g)' /\ doc'.rows = << Count >>'
  BY <1>8 DEF Count
<1> QED BY <1>2, <1>4, <1>5, <1>6, <1>7, <1>9 DEF Reopening, Aside


LEMMA SnappedStep ==
    ASSUME Db, NEW c, kind' = kind, Snapped(c), Main
    PROVE  (Snapped(c)' \/ Reopening(c)') /\ load' = load
<1>1. PICK g :
        /\ FirstHalf(c, doc, Cardinality(Queries), g)
        /\ \/ todo = Dropping(c) /\ Whole1(saved, c, g)
           \/ todo = Restoring(c) /\ Whole1(saved, c, g) /\ db = Nil
           \/ todo = Greening(c) /\ Whole1(db, c, g)
  BY DEF Snapped
<1>2. Facing(c) /\ kind = "qdrant"
  BY DEF Snapped
<1>3. CASE \/ todo = Dropping(c) /\ Whole1(saved, c, g)
           \/ todo = Restoring(c) /\ Whole1(saved, c, g) /\ db = Nil
  BY <1>1, <1>2, <1>3, SnapStep
<1>4. CASE todo = Greening(c) /\ Whole1(db, c, g)
  BY <1>1, <1>2, <1>4, GreeningStep
<1> QED BY <1>1, <1>3, <1>4

\* A request of the host step.
LEMMA PgHost ==
    ASSUME NEW c, NEW g, kind' = kind, kind = "pgvector",
           NEW k \in 0 .. 2, NEW n, n = k + 1, Hosted(c, k, g), NEW s, Serve(s),
           k = 0 => s.op = "dump", k = 1 => s.op = "drop", k = 2 => s.op = "restore"
    PROVE  Hosted(c, n, g)'
<1> USE DEF Hosted
<1>1. CASE k = 0
  <2>1. s.op = "dump" /\ Whole1(db, c, g) /\ n = 1
    BY <1>1
  <2>2. saved' = db /\ db' = db
    BY <2>1, ServeHostIs
  <2>3. Whole1(db, c, g)' /\ Whole1(saved, c, g)'
    BY <2>1, <2>2, WholeNext
  <2> QED BY <2>1, <2>3
<1>2. CASE k = 1
  <2>1. s.op = "drop" /\ Whole1(saved, c, g) /\ n = 2
    BY <1>2
  <2>2. db' = Nil /\ saved' = saved
    BY <2>1, ServeTableIs
  <2>3. Whole1(saved, c, g)'
    BY <2>1, <2>2, WholeNext
  <2> QED BY <2>1, <2>2, <2>3
<1>3. CASE k = 2
  <2>1. s.op = "restore" /\ Whole1(saved, c, g) /\ n = 3
    BY <1>3
  <2>2. db' = [saved EXCEPT
                       !.gen = IF kind = "pgvector" /\ saved.index
                               THEN saved.gen + 1 ELSE saved.gen]
    BY <2>1, ServeHostIs
  <2>3. Whole1(db', c, db'.gen) /\ (c.index # "flat" \/ db'.gen = g)
    BY <2>1, <2>2 DEF Whole1, IsTable, Has
  <2>4. PICK h : h = db'.gen
    OBVIOUS
  <2>5. Whole1(db, c, h)' /\ (c.index # "flat" \/ g = h)
    BY <2>3, <2>4, WholeNext
  <2> QED BY <2>1, <2>5
<1> QED BY <1>1, <1>2, <1>3

LEMMA MvHost ==
    ASSUME NEW c, NEW g, kind' = kind, kind = "milvus",
           NEW k \in 0 .. 6, NEW n, n = k + 1, Hosted(c, k, g), NEW s, Serve(s),
           k \in {0, 3} => s.op = "stop", k = 1 => s.op = "tar",
           k \in {2, 6} => s.op = "start", k = 4 => s.op = "wipe",
           k = 5 => s.op = "untar"
    PROVE  Hosted(c, n, g)'
<1>1. CASE k \in {0, 3}
  <2>1. s.op = "stop" /\ Whole1(db, c, g) /\ n \in {1, 4}
        /\ (k = 3 => Whole1(saved, c, g))
    BY <1>1 DEF Hosted
  <2>2. up' = FALSE /\ db' = db /\ saved' = saved
    BY <2>1, ServeHostIs
  <2>3. Whole1(db, c, g)' /\ (k = 3 => Whole1(saved, c, g)')
    BY <2>1, <2>2, WholeNext
  <2> QED BY <1>1, <2>1, <2>2, <2>3 DEF Hosted
<1>2. CASE k = 1
  <2>1. s.op = "tar" /\ Whole1(db, c, g) /\ n = 2 /\ ~up
    BY <1>2 DEF Hosted
  <2>2. up' = up /\ db' = db /\ saved' = [db EXCEPT !.live = db.disk]
    BY <2>1, ServeHostIs
  <2>3. Whole1(saved', c, g)
    BY <2>1, <2>2, WholeSame
  <2>4. Whole1(db, c, g)' /\ Whole1(saved, c, g)'
    BY <2>1, <2>2, <2>3, WholeNext
  <2> QED BY <2>1, <2>2, <2>4 DEF Hosted
<1>3. CASE k \in {2, 6}
  <2>1. s.op = "start" /\ Whole1(db, c, g) /\ n \in {3, 7}
        /\ (k = 2 => Whole1(saved, c, g))
    BY <1>3 DEF Hosted
  <2>2. /\ saved' = saved
        /\ db' = IF db = Nil THEN Nil
                 ELSE [db EXCEPT !.loaded = FALSE, !.seen = {}]
    BY <2>1, ServeHostIs
  <2>3. db' = db \/ db' = [db EXCEPT !.loaded = FALSE, !.seen = {}]
    BY <2>2
  <2>4. Whole1(db', c, g)
    BY <2>1, <2>3, WholeSame
  <2>5. Whole1(db, c, g)' /\ (k = 2 => Whole1(saved, c, g)')
    BY <2>1, <2>2, <2>4, WholeNext
  <2> QED BY <1>3, <2>1, <2>2, <2>5 DEF Hosted
<1>4. CASE k = 4
  <2>1. s.op = "wipe" /\ Whole1(saved, c, g) /\ n = 5 /\ ~up
    BY <1>4 DEF Hosted
  <2>2. db' = Nil /\ up' = up /\ saved' = saved
    BY <2>1, ServeHostIs
  <2>3. Whole1(saved, c, g)'
    BY <2>1, <2>2, WholeNext
  <2> QED BY <2>1, <2>2, <2>3 DEF Hosted
<1>5. CASE k = 5
  <2>1. s.op = "untar" /\ Whole1(saved, c, g) /\ n = 6 /\ ~up
    BY <1>5 DEF Hosted
  <2>2. db' = saved /\ up' = up
    BY <2>1, ServeHostIs
  <2>3. Whole1(db, c, g)'
    BY <2>1, <2>2, WholeNext
  <2> QED BY <2>1, <2>2, <2>3 DEF Hosted
<1> QED BY <1>1, <1>2, <1>3, <1>4, <1>5


LEMMA HostingStep ==
    ASSUME Db, NEW c, kind' = kind, kind # "qdrant", doc = NoDoc, Main, NEW g,
           FirstHalf(c, stage1, Cardinality(Queries), g),
           NEW k \in 0 .. Len(HostOps), k # Len(HostOps), todo = Hosting(c, k),
           Hosted(c, k, g)
    PROVE  OnHost(c)' /\ load' = load
<1> DEFINE n == k + 1
           f == HostOps
           R == Judged(c)
           s == f[n]
           N == Left(f, n, R)
           m == Cardinality(Queries)
<1>1. /\ IsSeq(f) /\ IsSeq(R) /\ k \in 0 .. Len(f) /\ k # Len(f) /\ n = k + 1
      /\ todo = Left(f, k, R)
  BY HostOpsAre, RestsBackup DEF Hosting
<1>2. /\ kind = "pgvector" =>
            /\ k \in 0 .. 2
            /\ k = 0 => s.op = "dump"
            /\ k = 1 => s.op = "drop"
            /\ k = 2 => s.op = "restore"
      /\ kind # "pgvector" =>
            /\ k \in 0 .. 6
            /\ k \in {0, 3} => s.op = "stop"
            /\ k = 1 => s.op = "tar"
            /\ k \in {2, 6} => s.op = "start"
            /\ k = 4 => s.op = "wipe"
            /\ k = 5 => s.op = "untar"
  <2>1. k = 0 => s = f[1]
    OBVIOUS
  <2>2. (k = 1 => s = f[2]) /\ (k = 2 => s = f[3]) /\ (k = 3 => s = f[4])
    OBVIOUS
  <2>3. (k = 4 => s = f[5]) /\ (k = 5 => s = f[6]) /\ (k = 6 => s = f[7])
    OBVIOUS
  <2>4. /\ kind = "pgvector" => Len(f) = 3
        /\ kind # "pgvector" => Len(f) = 7
    BY HostOpsAre
  <2>5. /\ kind = "pgvector" => k \in 0 .. 2
        /\ kind # "pgvector" => k \in 0 .. 6
    <3> DEFINE q == Len(f)
    <3>1. k \in 0 .. q /\ k # q
      BY <1>1
    <3>2. /\ kind = "pgvector" => q = 3
          /\ kind # "pgvector" => q = 7
      BY <2>4
    <3> HIDE DEF q
    <3> QED BY <3>1, <3>2
  <2> HIDE DEF s
  <2> QED BY <2>1, <2>2, <2>3, <2>5, HostOpsAre DEF f
<1> HIDE DEF n, f, R, s, N, m
<1>3. /\ n \in 0 .. Len(f) /\ n \in 1 .. Len(f)
      /\ Left(f, k, R) = First(f[n], Left(f, n, R))
      /\ IsSeq(Left(f, n, R))
  BY <1>1, FromNext
<1>4. todo = First(s, N) /\ IsSeq(N)
  BY <1>1, <1>3 DEF s, N
<1>5. s.op \in {"drop", "flush", "load", "dump", "restore", "stop", "start",
                     "tar", "wipe", "untar"}
  <2>1. CASE kind = "pgvector"
    <3>1. k = 0 \/ k = 1 \/ k = 2
      BY <1>2, <2>1
    <3> QED BY <1>2, <2>1, <3>1
  <2>2. CASE kind # "pgvector"
    <3>1. k = 0 \/ k = 1 \/ k = 2 \/ k = 3 \/ k = 4 \/ k = 5 \/ k = 6
      BY <1>2, <2>2
    <3> QED BY <1>2, <2>2, <3>1
  <2> QED BY <2>1, <2>2
<1>6. /\ Serve(s) /\ todo' = N
      /\ UNCHANGED client /\ UNCHANGED doc /\ UNCHANGED load /\ UNCHANGED stage1
  BY <1>4, <1>5, CallIs
<1>7. Hosted(c, n, g)'
  <2>1. CASE kind = "pgvector"
    BY <1>1, <1>2, <1>6, <2>1, PgHost
  <2>2. CASE kind = "milvus"
    BY <1>1, <1>2, <1>6, <2>2, MvHost
  <2> QED BY <2>1, <2>2 DEF Db
<1>8. todo' = Hosting(c, n)' /\ HostOps' = HostOps /\ n \in 0 .. Len(HostOps)
  BY <1>3, <1>6, BackupSame DEF Hosting, N, f, R
<1>9. FirstHalf(c, stage1', m, g)
  BY <1>6 DEF m
<1> QED BY <1>6, <1>7, <1>8, <1>9 DEF OnHost, m, NoDoc

LEMMA JudgedStep ==
    ASSUME Db, NEW c, kind' = kind, kind # "qdrant", doc = NoDoc, Main, NEW g,
           FirstHalf(c, stage1, Cardinality(Queries), g), NEW k, k = Len(HostOps),
           todo = Judged(c), Hosted(c, k, g)
    PROVE  Resuming(c)' /\ load' = load
<1> DEFINE b == kind = "pgvector" /\ c.index # "flat"
           s == Do("host_json", b)
           N == NewProcess(c)
           m == Cardinality(Queries)
<1>1. s.op = "host_json" /\ s.arg = b
  BY DEF Do
<1>2. IsSeq(N) /\ todo = First(s, N)
  BY RestsBackup DEF Judged
<1>3. PICK h : Whole1(db, c, h) /\ (b = TRUE \/ g = h)
  <2>1. CASE kind = "pgvector"
    BY <2>1, HostOpsAre DEF Hosted
  <2>2. CASE kind = "milvus"
    BY <2>2, HostOpsAre DEF Hosted
  <2> QED BY <2>1, <2>2 DEF Db
<1> HIDE DEF s, N, m, b
<1>4. MainOp(s) /\ Tail(todo) = N
  BY <1>2, MainIs
<1>5. /\ todo' = N /\ UNCHANGED <<server, client, load>> /\ UNCHANGED stage1
      /\ doc' = [doc EXCEPT !.rebuild = b]
  BY <1>1, <1>4, DocOpIs
<1>6. IsDoc(doc') /\ doc'.rebuild = b
  BY <1>5 DEF NoDoc, IsDoc
<1>7. todo' = NewProcess(c)'
  BY <1>5, BackupSame DEF N
<1>8. Whole1(db, c, h)'
  BY <1>3, <1>5, WholeNext DEF server
<1>9. FirstHalf(c, stage1', m, g)
  BY <1>5 DEF m
<1> QED BY <1>3, <1>5, <1>6, <1>7, <1>8, <1>9 DEF Resuming, m

LEMMA OnHostStep ==
    ASSUME Db, NEW c, kind' = kind, OnHost(c), Main
    PROVE  (OnHost(c)' \/ Resuming(c)') /\ load' = load
<1>1. PICK g :
        /\ FirstHalf(c, stage1, Cardinality(Queries), g)
        /\ \E k \in 0 .. Len(HostOps) : todo = Hosting(c, k) /\ Hosted(c, k, g)
  BY DEF OnHost
<1>2. PICK k \in 0 .. Len(HostOps) : todo = Hosting(c, k) /\ Hosted(c, k, g)
  BY <1>1
<1>3. kind # "qdrant" /\ doc = NoDoc
  BY DEF OnHost
<1>4. CASE k # Len(HostOps)
  BY <1>1, <1>2, <1>3, <1>4, HostingStep
<1>5. CASE k = Len(HostOps)
  <2>1. todo = Judged(c)
    BY <1>2, <1>5, RestsBackup
  <2> QED BY <1>1, <1>2, <1>3, <1>5, <2>1, JudgedStep
<1> QED BY <1>4, <1>5

LEMMA MakeIs ==
    ASSUME Db, client' = MakeClient
    PROVE  IsClient'
<1>1. MakeClient = [index |-> MakeClient.index, strong |-> MakeClient.strong]
  BY OfIs DEF MakeClient, Pg!MakeClient, Qd!MakeClient, Mv!MakeClient, Db
<1> QED BY <1>1 DEF IsClient

\* A step of the client alone.
LEMMA ClientIs ==
    ASSUME Db, NEW op, NEW a, NEW N, IsSeq(N), todo = First(Do(op, a), N), Main
    PROVE  /\ op \in {"connect", "attach"} =>
                 todo' = N /\ UNCHANGED <<server, doc, load, stage1>>
           /\ op = "connect" => IsClient'
           /\ op = "attach" => client' = [client EXCEPT !.index = a]
<1> DEFINE s == Do(op, a)
<1>1. s.op = op /\ s.arg = a /\ todo = First(s, N)
  BY DEF Do
<1> HIDE DEF s
<1>2. MainOp(s) /\ Tail(todo) = N
  BY <1>1, MainIs
<1>3. /\ op \in {"connect", "attach"} =>
            todo' = N /\ UNCHANGED <<server, doc, load, stage1>>
      /\ op = "connect" => client' = MakeClient
      /\ op = "attach" => client' = [client EXCEPT !.index = a]
  BY <1>1, <1>2, ClientOpIs
<1> QED BY <1>3, MakeIs


LEMMA ResumingStep ==
    ASSUME Db, NEW c, kind' = kind, Resuming(c), Main
    PROVE  (Resuming(c)' \/ Reopening(c)') /\ load' = load
<1> DEFINE m == Cardinality(Queries)
<1>1. PICK g, h : /\ FirstHalf(c, stage1, m, g) /\ Whole1(db, c, h)
                  /\ doc.rebuild = TRUE \/ g = h
  BY DEF Resuming
<1>2. kind # "qdrant" /\ IsDoc(doc)
  BY DEF Resuming
<1> HIDE DEF m
<1>3. CASE todo = NewProcess(c)
  <2> DEFINE N == Reading(c)
  <2>1. IsSeq(N) /\ todo = First(Do("connect", Nil), N)
    BY <1>3, RestsBackup DEF NewProcess
  <2> HIDE DEF N
  <2>2. todo' = N /\ UNCHANGED <<server, doc, load, stage1>> /\ IsClient'
    BY <2>1, ClientIs
  <2>3. todo' = Reading(c)'
    BY <2>2, BackupSame DEF N
  <2>4. Whole1(db, c, h)'
    BY <1>1, <2>2, WholeNext DEF server
  <2>5. FirstHalf(c, stage1', m, g) /\ (doc'.rebuild = TRUE \/ g = h) /\ IsDoc(doc')
    BY <1>1, <1>2, <2>2
  <2> QED BY <1>2, <2>2, <2>3, <2>4, <2>5 DEF Resuming, m
<1>4. CASE todo = Reading(c) /\ IsClient
  <2> DEFINE s == Do("read_state", Nil)
             N == IF kind = "milvus" THEN Rejoined(c) ELSE Reopened(c)
  <2>1. s.op = "read_state"
    BY DEF Do
  <2>2. IsSeq(N) /\ todo = First(s, N)
    BY <1>4, RestsBackup DEF Reading
  <2> HIDE DEF s, N
  <2>3. MainOp(s) /\ Tail(todo) = N
    BY <2>2, MainIs
  <2>4. /\ todo' = N /\ UNCHANGED <<server, client, load>>
        /\ doc' = [stage1 EXCEPT !.rebuild = doc.rebuild]
    BY <2>1, <2>3, DocOpIs
  <2>5. Whole1(db, c, h)'
    BY <1>1, <2>4, WholeNext DEF server
  <2>6. SecondHalf(c, doc', 0, g, h) /\ doc'.rows = << Count >>
    <3>1. /\ IsDoc(stage1) /\ stage1.rows = << Count >>
          /\ stage1.searches = Sights("run1", c, m, g)
      BY <1>1 DEF FirstHalf
    <3>2. /\ IsDoc(doc') /\ doc'.rows = << Count >> /\ doc'.rebuild = doc.rebuild
          /\ doc'.searches = Sights("run1", c, m, g)
      BY <2>4, <3>1 DEF IsDoc
    <3>3. Sights("after_restore", c, 0, h) = {}
      BY DEF Sights
    <3> QED BY <1>1, <3>2, <3>3 DEF SecondHalf, m
  <2>7. SecondHalf(c, doc, 0, g, h)' /\ doc'.rows = << Count >>'
    BY <2>6 DEF Count
  <2>8. IsClient'
    BY <1>4, <2>4 DEF IsClient
  <2>9. /\ kind = "milvus" => todo' = Rejoined(c)'
        /\ kind # "milvus" => todo' = Reopened(c)'
    BY <2>4, BackupSame DEF N
  <2> QED BY <2>4, <2>5, <2>7, <2>8, <2>9 DEF Reopening
<1> QED BY <1>3, <1>4 DEF Resuming

LEMMA ReopeningStep ==
    ASSUME Db, NEW c, kind' = kind, Reopening(c), Main
    PROVE  (Reopening(c)' \/ Counting(c)') /\ load' = load
<1>1. PICK g, h : SecondHalf(c, doc, 0, g, h) /\ Whole1(db, c, h)
  BY DEF Reopening
<1>2. doc.rows = << Count >>
  BY DEF Reopening
<1>3. ASSUME doc' = doc
      PROVE  SecondHalf(c, doc, 0, g, h)' /\ doc'.rows = << Count >>'
  <2>1. SecondHalf(c, doc', 0, g, h) /\ doc'.rows = << Count >>
    BY <1>1, <1>2, <1>3
  <2> QED BY <2>1 DEF Count
<1>4. CASE kind = "milvus" /\ todo = Rejoined(c)
  <2> DEFINE N == Reloaded(c)
  <2>1. IsSeq(N) /\ todo = First(Do("connect", Nil), N)
    BY <1>4, RestsBackup DEF Rejoined
  <2> HIDE DEF N
  <2>2. todo' = N /\ UNCHANGED <<server, doc, load, stage1>> /\ IsClient'
    BY <2>1, ClientIs
  <2>3. todo' = Reloaded(c)'
    BY <2>2, BackupSame DEF N
  <2>4. Whole1(db, c, h)'
    BY <1>1, <2>2, WholeNext DEF server
  <2> QED BY <1>3, <1>4, <2>2, <2>3, <2>4 DEF Reopening
<1>5. CASE kind = "milvus" /\ todo = Reloaded(c) /\ IsClient
  <2> DEFINE s == Do("load", Nil)
             N == Reopened(c)
  <2>1. s.op = "load"
    BY DEF Do
  <2>2. IsSeq(N) /\ todo = First(s, N)
    BY <1>5, RestsBackup DEF Reloaded
  <2> HIDE DEF s, N
  <2>3. /\ Serve(s) /\ todo' = N
        /\ UNCHANGED client /\ UNCHANGED doc /\ UNCHANGED load /\ UNCHANGED stage1
    BY <2>1, <2>2, CallIs
  <2>4. db' = [db EXCEPT !.loaded = TRUE, !.seen = db.live, !.held = db.dead]
    BY <2>1, <2>3, ServeIndexIs
  <2>5. Whole1(db', c, h)
    BY <1>1, <2>4, WholeSame
  <2>6. Whole1(db, c, h)' /\ db'.seen = db'.live
    BY <1>1, <2>4, <2>5, WholeNext DEF Whole1, IsTable
  <2>7. todo' = Reopened(c)' /\ IsClient'
    BY <1>5, <2>3, BackupSame DEF N, IsClient
  <2> QED BY <1>3, <1>5, <2>3, <2>6, <2>7 DEF Reopening
<1>6. CASE (kind = "milvus" => db.seen = db.live) /\ IsClient /\ todo = Reopened(c)
  <2> DEFINE N == CountAgain
             i == c.index
  <2>1. IsSeq(N) /\ todo = First(Do("attach", i), N)
    BY <1>6, RestsBackup DEF Reopened
  <2> HIDE DEF N, i
  <2>2. /\ todo' = N /\ UNCHANGED <<server, doc, load, stage1>>
        /\ client' = [client EXCEPT !.index = i]
    BY <2>1, ClientIs
  <2>3. todo' = CountAgain'
    BY <2>2, BackupSame DEF N
  <2>4. Whole1(db, c, h)' /\ db' = db
    BY <1>1, <2>2, WholeNext DEF server
  <2>5. Fit(c, h)'
    BY <1>6, <2>4 DEF Fit
  <2>6. Facing(c)'
    BY <1>6, <2>2 DEF Facing, IsClient, i
  <2> QED BY <1>3, <2>2, <2>3, <2>5, <2>6 DEF Counting
<1> QED BY <1>4, <1>5, <1>6 DEF Reopening

\* The rows are counted.
LEMMA CountingIs ==
    ASSUME Db, NEW c, NEW g, Whole1(db, c, g), IsDoc(doc), NEW N, IsSeq(N),
           todo = First(Do("stats", Nil), N), Main
    PROVE  /\ todo' = N /\ UNCHANGED <<server, client, load, stage1>>
           /\ doc' = [doc EXCEPT !.rows = Append(doc.rows, Count)]
<1> DEFINE s == Do("stats", Nil)
<1>1. s.op = "stats" /\ todo = First(s, N)
  BY DEF Do
<1> HIDE DEF s
<1>2. MainOp(s) /\ Tail(todo) = N
  BY <1>1, MainIs
<1>3. /\ todo' = N /\ UNCHANGED <<server, client, load, stage1>>
      /\ doc' = [doc EXCEPT !.rows = Append(doc.rows, Stats(db))]
  BY <1>1, <1>2, DocOpIs
<1>4. Stats(db) = Count
  BY StatsIs
<1> QED BY <1>3, <1>4

LEMMA TwoIs == \A a : Append(<< a >>, a) = << a, a >>
<1> SUFFICES ASSUME NEW a PROVE Append(<< a >>, a) = << a, a >>
  OBVIOUS
<1> DEFINE s == Append(<< a >>, a)
           t == << a, a >>
<1>1. << a >> \in Seq({a}) /\ a \in {a} /\ Len(<< a >>) = 1 /\ << a >>[1] = a
  OBVIOUS
<1>2. /\ s \in Seq({a}) /\ Len(s) = 2 /\ s[1] = a /\ s[2] = a
  BY <1>1, AppendProperties
<1>3. t \in Seq({a}) /\ Len(t) = 2 /\ t[1] = a /\ t[2] = a
  OBVIOUS
<1> HIDE DEF s, t
<1>4. \A i \in 1 .. Len(s) : s[i] = t[i]
  BY <1>2, <1>3
<1>5. s = t
  BY <1>2, <1>3, <1>4, SeqEqual
<1> QED BY <1>5 DEF s, t

LEMMA CountingStep ==
    ASSUME Db, NEW c, kind' = kind, Counting(c), Main
    PROVE  Checking(c)' /\ load' = load
<1>1. PICK g, h : SecondHalf(c, doc, 0, g, h) /\ Fit(c, h)
  BY DEF Counting
<1> DEFINE N == Checked(0)
<1>2. Facing(c) /\ todo = First(Do("stats", Nil), N) /\ IsSeq(N) /\ doc.rows = << Count >>
      /\ 0 \in 0 .. Cardinality(Queries)
  BY RestsBackup, BenchAssumption DEF Counting, CountAgain
<1>3. Whole1(db, c, h) /\ IsDoc(doc)
  BY <1>1 DEF Fit, SecondHalf
<1> HIDE DEF N
<1>4. /\ todo' = N /\ UNCHANGED <<server, client, load, stage1>>
      /\ doc' = [doc EXCEPT !.rows = Append(doc.rows, Count)]
  BY <1>2, <1>3, CountingIs
<1>5. /\ IsDoc(doc') /\ doc'.rows = Append(doc.rows, Count)
      /\ doc'.searches = doc.searches /\ doc'.rebuild = doc.rebuild
  BY <1>3, <1>4 DEF IsDoc
<1>6. Append(<< Count >>, Count) = << Count, Count >>
  BY TwoIs
<1>7. SecondHalf(c, doc', 0, g, h)
  BY <1>1, <1>5 DEF SecondHalf
<1>8. SecondHalf(c, doc, 0, g, h)' /\ doc'.rows = << Count, Count >>'
  BY <1>2, <1>5, <1>6, <1>7 DEF Count
<1>9. Facing(c)'
  BY <1>2, <1>4, FacingSame
<1>10. Fit(c, h)'
  BY <1>1, <1>4, WholeNext DEF Fit, server
<1>11. todo' = Checked(0)'
  BY <1>4, BackupSame DEF N
<1> QED BY <1>2, <1>4, <1>8, <1>9, <1>10, <1>11 DEF Checking


LEMMA CheckedStep ==
    ASSUME Db, NEW c, c.index \in Indexes, kind' = kind, NEW g, NEW h, Fit(c, h),
           Facing(c), doc.rows = << Count, Count >>,
           NEW k \in 0 .. Cardinality(Queries), k # Cardinality(Queries),
           SecondHalf(c, doc, k, g, h), todo = Checked(k), Main
    PROVE  Checking(c)' /\ load' = load
<1> DEFINE R == Unlinking
           n == k + 1
           p == "after_restore"
<1>1. IsSeq(R) /\ IsDoc(doc) /\ n = k + 1 /\ todo = Left(RunSearch(p), k, R)
  BY RestsBackup DEF SecondHalf, Checked
<1> HIDE DEF R, n, p
<1>2. /\ n \in 0 .. Cardinality(Queries)
      /\ todo' = Left(RunSearch(p), n, R)
      /\ UNCHANGED <<server, client, load, stage1>>
      /\ doc' = [doc EXCEPT !.searches = doc.searches \cup Sights(p, c, n, h)]
      /\ Sights(p, c, k, h) \cup Sights(p, c, n, h) = Sights(p, c, n, h)
  BY <1>1, PassStep
<1>3. /\ IsDoc(doc') /\ doc'.rows = doc.rows /\ doc'.rebuild = doc.rebuild
      /\ doc'.searches = doc.searches \cup Sights(p, c, n, h)
  BY <1>1, <1>2 DEF IsDoc
<1>4. doc.searches = Sights("run1", c, Cardinality(Queries), g) \cup Sights(p, c, k, h)
  BY DEF SecondHalf, p
<1>5. SecondHalf(c, doc', n, g, h)
  <2> DEFINE A == Sights("run1", c, Cardinality(Queries), g)
             X == Sights(p, c, k, h)
             Y == Sights(p, c, n, h)
  <2>1. doc'.searches = (A \cup X) \cup Y /\ X \cup Y = Y
    BY <1>2, <1>3, <1>4
  <2> HIDE DEF A, X, Y
  <2>2. doc'.searches = A \cup Y
    BY <2>1
  <2> QED BY <1>3, <2>2 DEF SecondHalf, A, Y, p
<1>6. SecondHalf(c, doc, n, g, h)' /\ doc'.rows = << Count, Count >>'
  BY <1>3, <1>5 DEF Count
<1>7. todo' = Checked(n)'
  BY <1>2, BackupSame DEF Checked, R, p
<1>8. Facing(c)'
  BY <1>2, FacingSame
<1>9. Fit(c, h)'
  BY <1>2, WholeNext DEF Fit, server
<1> QED BY <1>2, <1>6, <1>7, <1>8, <1>9 DEF Checking

LEMMA CheckingStep ==
    ASSUME Db, NEW c, c.index \in Indexes, kind' = kind, Checking(c), Main
    PROVE  /\ Checking(c)' \/ (todo = << >> /\ RightBackup(c, doc))'
           /\ load' = load
<1>0. PICK g, h : \E k \in 0 .. Cardinality(Queries) :
          todo = Checked(k) /\ SecondHalf(c, doc, k, g, h) /\ Fit(c, h)
  BY DEF Checking
<1>1. PICK k \in 0 .. Cardinality(Queries) :
          todo = Checked(k) /\ SecondHalf(c, doc, k, g, h) /\ Fit(c, h)
  BY <1>0
<1>2. Facing(c) /\ doc.rows = << Count, Count >>
  BY DEF Checking
<1>3. CASE k # Cardinality(Queries)
  BY <1>1, <1>2, <1>3, CheckedStep
<1>4. CASE k = Cardinality(Queries)
  <2>1. todo = Unlinking /\ todo # << >>
    BY <1>1, <1>4, RestsBackup DEF Main
  <2> DEFINE s == Do("unlink_state", Nil)
             N == << >>
  <2>2. s.op = "unlink_state"
    BY DEF Do
  <2>3. IsSeq(N) /\ todo = First(s, N)
    <3>1. todo = << s >> /\ IsSeq(<< s >>)
      BY <2>1, OneIs DEF Unlinking
    <3> QED BY <3>1, NoneIs DEF First
  <2> HIDE DEF s, N
  <2>4. MainOp(s) /\ Tail(todo) = N
    BY <2>3, MainIs
  <2>5. todo' = N /\ UNCHANGED <<server, client, load>> /\ doc' = doc
    BY <2>2, <2>4, DocOpIs
  <2>6. RightBackup(c, doc)
    BY <1>1, <1>2, <1>4 DEF RightBackup
  <2>7. RightBackup(c, doc')
    BY <2>5, <2>6
  <2>8. RightBackup(c, doc)'
    BY <2>7 DEF RightBackup, Count
  <2> QED BY <2>5, <2>8 DEF N
<1> QED BY <1>3, <1>4

LEMMA BuiltIsFit ==
    ASSUME NEW c, Built(Row, c.index)
    PROVE  Facing(c) /\ \E g : Fit(c, g)
<1> DEFINE L == Old(Row)
           g == db.gen
<1>1. /\ IsClient /\ Table(L, {}, Has(c.index)) /\ Shows(c.index)
      /\ (kind = "milvus" => db.disk = L /\ db.seen = db.live)
  BY DEF Built
<1>2. Whole1(db, c, g)
  BY <1>1 DEF Whole1, Table, Shows
<1> QED BY <1>1, <1>2 DEF Facing, Fit, Shows

LEMMA CountFirstStep ==
    ASSUME Db, NEW c, kind' = kind, doc = NoDoc, todo = CountFirst(c),
           Built(Row, c.index), Main
    PROVE  Trying(c)' /\ load' = load
<1> DEFINE N == Tried(c, 0)
<1>1. Facing(c)
  BY BuiltIsFit
<1>2. PICK g : Fit(c, g)
  BY BuiltIsFit
<1>3. /\ IsSeq(N) /\ todo = First(Do("stats", Nil), N)
      /\ 0 \in 0 .. Cardinality(Queries)
  BY RestsBackup, BenchAssumption DEF CountFirst
<1>4. Whole1(db, c, g) /\ IsDoc(doc)
  BY <1>2 DEF Fit, IsDoc, NoDoc
<1> HIDE DEF N
<1>5. /\ todo' = N /\ UNCHANGED <<server, client, load, stage1>>
      /\ doc' = [doc EXCEPT !.rows = Append(doc.rows, Count)]
  BY <1>3, <1>4, CountingIs
<1>6. /\ IsDoc(doc') /\ doc'.rows = Append(doc.rows, Count)
      /\ doc'.searches = doc.searches /\ doc'.rebuild = doc.rebuild
  BY <1>4, <1>5 DEF IsDoc
<1>7. doc.rows = << >> /\ doc.searches = {} /\ doc.rebuild = FALSE
  BY DEF NoDoc
<1>8. Append(<< >>, Count) = << Count >>
  OBVIOUS
<1>9. Sights("run1", c, 0, g) = {}
  BY DEF Sights
<1>10. FirstHalf(c, doc', 0, g)
  BY <1>6, <1>7, <1>8, <1>9 DEF FirstHalf
<1>11. Facing(c)'
  BY <1>1, <1>5, FacingSame
<1>12. Fit(c, g)'
  BY <1>2, <1>5, WholeNext DEF Fit, server
<1>13. todo' = Tried(c, 0)'
  BY <1>5, BackupSame DEF N
<1> QED BY <1>3, <1>5, <1>10, <1>11, <1>12, <1>13 DEF Trying


LEMMA BackupBuild ==
    ASSUME Db, NEW c, BackupCase(c), kind' = kind, doc = NoDoc, load = NoLoop,
           Building(Row, c.index, CountFirst(c)), Main
    PROVE  Backing(c)'
<1> DEFINE R == CountFirst(c)
           i == c.index
           S == Row
<1>1. S \in SUBSET Row /\ i \in Indexes /\ IsSeq(R) /\ Building(S, i, R)
  BY RestsBackup DEF BackupCase
<1>2. R' = R
  BY BackupSame
<1>3. PICK r : r = R
  OBVIOUS
<1> HIDE DEF R, i, S
<1>4. IsSeq(r) /\ Building(S, i, r)
  BY <1>1, <1>3
<1>5. /\ Building(S, i, r)' \/ (todo' = r /\ Built(S, i)')
      /\ UNCHANGED <<doc, load, stage1, up, saved>>
  BY <1>1, <1>4, BuildStep
<1>6. Building(S, i, R)' \/ (todo' = R' /\ Built(S, i)')
  BY <1>2, <1>3, <1>5
<1>7. doc' = NoDoc /\ load' = NoLoop
  BY <1>5
<1>8. Building(Row, c.index, CountFirst(c))'
         \/ (todo' = CountFirst(c)' /\ Built(Row, c.index)')
  BY <1>6 DEF R, i, S
<1> QED BY <1>7, <1>8 DEF Backing, NoDoc, NoLoop

LEMMA BackupStep ==
    ASSUME Db, NEW c, BackupCase(c), kind' = kind, Backing(c), Main
    PROVE  Backing(c)'
<1>1. load = NoLoop /\ todo # << >> /\ c.index \in Indexes
  BY DEF Backing, Main, BackupCase
<1>2. ASSUME load' = load PROVE load' = NoLoop'
  BY <1>1, <1>2 DEF NoLoop
<1>3. CASE doc = NoDoc /\ Building(Row, c.index, CountFirst(c))
  BY <1>1, <1>3, BackupBuild
<1>4. CASE doc = NoDoc /\ todo = CountFirst(c) /\ Built(Row, c.index)
  <2>1. Trying(c)' /\ load' = load
    BY <1>4, CountFirstStep
  <2> QED BY <1>2, <2>1 DEF Backing
<1>5. CASE Trying(c)
  <2>1. (Trying(c)' \/ Snapped(c)' \/ OnHost(c)') /\ load' = load
    BY <1>1, <1>5, TryingStep
  <2> QED BY <1>2, <2>1 DEF Backing
<1>6. CASE Snapped(c)
  <2>1. (Snapped(c)' \/ Reopening(c)') /\ load' = load
    BY <1>6, SnappedStep
  <2> QED BY <1>2, <2>1 DEF Backing
<1>7. CASE OnHost(c)
  <2>1. (OnHost(c)' \/ Resuming(c)') /\ load' = load
    BY <1>7, OnHostStep
  <2> QED BY <1>2, <2>1 DEF Backing
<1>8. CASE Resuming(c)
  <2>1. (Resuming(c)' \/ Reopening(c)') /\ load' = load
    BY <1>8, ResumingStep
  <2> QED BY <1>2, <2>1 DEF Backing
<1>9. CASE Reopening(c)
  <2>1. (Reopening(c)' \/ Counting(c)') /\ load' = load
    BY <1>9, ReopeningStep
  <2> QED BY <1>2, <2>1 DEF Backing
<1>10. CASE Counting(c)
  <2>1. Checking(c)' /\ load' = load
    BY <1>10, CountingStep
  <2> QED BY <1>2, <2>1 DEF Backing
<1>11. CASE Checking(c)
  <2>1. /\ Checking(c)' \/ (todo = << >> /\ RightBackup(c, doc))'
        /\ load' = load
    BY <1>1, <1>11, CheckingStep
  <2> QED BY <1>2, <2>1 DEF Backing
<1> QED BY <1>1, <1>3, <1>4, <1>5, <1>6, <1>7, <1>8, <1>9, <1>10, <1>11
        DEF Backing

-----------------------------------------------------------------------------
(* The server at its own work.                                             *)

LEMMA SavedBack ==
    ASSUME NEW c, NEW g, Whole1(saved, c, g), saved' = saved, kind' = kind
    PROVE  Whole1(saved, c, g)'
BY WholeNext

\* It leaves what it saved, also where it is stopped or has no table.
LEMMA HostedBack ==
    ASSUME Db, NEW c, NEW k, NEW g, Hosted(c, k, g), kind' = kind, Behind,
           k \in 0 .. 3 \/ (kind # "pgvector" /\ k \in 0 .. 7)
    PROVE  Hosted(c, k, g)'
<1>1. ASSUME NEW h, Whole1(db, c, h) PROVE Whole1(db, c, h)' /\ UNCHANGED <<up, saved>>
  BY <1>1, WholeBack
<1>2. db = Nil \/ ~up => UNCHANGED server
  BY NilBack
<1>3. UNCHANGED server =>
         /\ db' = db /\ up' = up /\ saved' = saved
         /\ \A h : Whole1(db, c, h) => Whole1(db, c, h)'
  BY WholeNext DEF server
<1>4. saved' = saved => \A h : Whole1(saved, c, h) => Whole1(saved, c, h)'
  BY WholeNext
<1>5. CASE kind = "pgvector"
  <2>1. CASE k \in {0, 1}
    <3>1. Whole1(db, c, g)' /\ UNCHANGED <<up, saved>>
      BY <1>1, <1>5, <2>1 DEF Hosted
    <3>2. k = 1 => Whole1(saved, c, g)'
      BY <1>4, <1>5, <3>1 DEF Hosted
    <3> QED BY <1>5, <2>1, <3>1, <3>2 DEF Hosted
  <2>2. CASE k = 2
    <3>1. db = Nil /\ Whole1(saved, c, g)
      BY <1>5, <2>2 DEF Hosted
    <3>2. db' = Nil /\ Whole1(saved, c, g)'
      BY <1>2, <1>3, <1>4, <3>1
    <3> QED BY <1>5, <2>2, <3>2 DEF Hosted
  <2>3. CASE k = 3
    <3>1. PICK h : Whole1(db, c, h) /\ (c.index # "flat" \/ g = h)
      BY <1>5, <2>3 DEF Hosted
    <3>2. Whole1(db, c, h)'
      BY <1>1, <3>1
    <3> QED BY <1>5, <2>3, <3>1, <3>2 DEF Hosted
  <2>4. k \in 0 .. 3
    BY <1>5
  <2> QED BY <2>1, <2>2, <2>3, <2>4
<1>6. CASE kind # "pgvector"
  <2>1. CASE k \in {1, 2, 4, 5, 6}
    <3>1. ~up
      BY <1>6, <2>1 DEF Hosted
    <3>2. UNCHANGED server
      BY <1>2, <3>1
    <3> QED BY <1>3, <1>4, <1>6, <2>1, <3>1, <3>2 DEF Hosted
  <2>2. CASE k \in {0, 3, 7}
    <3>1. Whole1(db, c, g)' /\ UNCHANGED <<up, saved>>
      BY <1>1, <1>6, <2>2 DEF Hosted
    <3>2. k = 3 => Whole1(saved, c, g)'
      BY <1>4, <1>6, <3>1 DEF Hosted
    <3> QED BY <1>6, <2>2, <3>1, <3>2 DEF Hosted
  <2>3. k \in 0 .. 7
    OBVIOUS
  <2>4. k \in {1, 2, 4, 5, 6} \/ k \in {0, 3, 7}
    BY <2>3
  <2> QED BY <2>1, <2>2, <2>4
<1> QED BY <1>5, <1>6


LEMMA BehindIs == ASSUME Behind PROVE up' = up /\ saved' = saved
BY DEF Behind, Background, CatchUp, IndexRows, Clean, Register, HandOff, Set, server

LEMMA BackupBack ==
    ASSUME Db, NEW c, BackupCase(c), kind' = kind, Backing(c), Behind,
           UNCHANGED <<todo, client, doc, load, stage1>>
    PROVE  Backing(c)'
<1>1. /\ todo' = todo /\ client' = client /\ doc' = doc /\ load' = load
      /\ stage1' = stage1 /\ up' = up /\ saved' = saved
  BY BehindIs
<1>2. /\ load' = NoLoop' /\ (doc = NoDoc => doc' = NoDoc')
      /\ (IsClient => IsClient')
  BY <1>1 DEF Backing, NoLoop, NoDoc, IsClient
<1>3. Facing(c) => Facing(c)'
  BY <1>1, FacingSame
<1>4. ASSUME NEW g, Fit(c, g) PROVE Fit(c, g)'
  BY <1>4, FitBack
<1>5. ASSUME NEW g, Whole1(db, c, g)
      PROVE  Whole1(db, c, g)' /\ (db.seen = db.live => db'.seen = db'.live)
  BY <1>5, WholeBack
<1>6. ASSUME NEW g, Whole1(saved, c, g) PROVE Whole1(saved, c, g)'
  BY <1>1, <1>6, SavedBack
<1>7. /\ \A k, g : FirstHalf(c, doc, k, g) => FirstHalf(c, doc, k, g)'
      /\ \A k, g : FirstHalf(c, stage1, k, g) => FirstHalf(c, stage1, k, g)'
      /\ \A k, g, h : SecondHalf(c, doc, k, g, h) => SecondHalf(c, doc, k, g, h)'
      /\ doc.rows = << Count >> => (doc.rows = << Count >>)'
      /\ doc.rows = << Count, Count >> => (doc.rows = << Count, Count >>)'
      /\ RightBackup(c, doc) => RightBackup(c, doc)'
  BY <1>1 DEF FirstHalf, SecondHalf, Count, RightBackup
<1>8. /\ CountAgain' = CountAgain /\ (\A k : Checked(k)' = Checked(k))
      /\ Reopened(c)' = Reopened(c) /\ Reloaded(c)' = Reloaded(c)
      /\ Rejoined(c)' = Rejoined(c) /\ Reading(c)' = Reading(c)
      /\ NewProcess(c)' = NewProcess(c)
      /\ HostOps' = HostOps /\ (\A k : Hosting(c, k)' = Hosting(c, k))
      /\ Noting(c)' = Noting(c) /\ Greening(c)' = Greening(c)
      /\ Restoring(c)' = Restoring(c) /\ Dropping(c)' = Dropping(c)
      /\ (\A k : Tried(c, k)' = Tried(c, k))
      /\ CountFirst(c)' = CountFirst(c)
  BY BackupSame
<1>9. CASE doc = NoDoc /\ (\/ Building(Row, c.index, CountFirst(c))
                           \/ todo = CountFirst(c) /\ Built(Row, c.index))
  <2> DEFINE R == CountFirst(c)
             i == c.index
             S == Row
  <2>1. S \in SUBSET Row /\ R' = R
    BY <1>8
  <2>2. PICK r : r = R
    OBVIOUS
  <2> HIDE DEF R, i, S
  <2>3. /\ Building(S, i, r) => Building(S, i, r)'
        /\ Built(S, i) => Built(S, i)'
    BY <1>1, <2>1, BuildBack
  <2>4. /\ Building(S, i, R) => Building(S, i, R)'
        /\ Built(S, i) => Built(S, i)'
    BY <2>1, <2>2, <2>3
  <2>5. \/ Building(Row, c.index, CountFirst(c))'
        \/ todo' = CountFirst(c)' /\ Built(Row, c.index)'
    BY <1>1, <1>8, <1>9, <2>4 DEF R, i, S
  <2> QED BY <1>2, <1>9, <2>5 DEF Backing
<1>10. CASE Trying(c)
  <2>1. PICK g : /\ Fit(c, g)
                 /\ \/ \E k \in 0 .. Cardinality(Queries) :
                           todo = Tried(c, k) /\ FirstHalf(c, doc, k, g)
                    \/ /\ kind = "milvus" /\ todo = Noting(c)
                       /\ FirstHalf(c, doc, Cardinality(Queries), g)
    BY <1>10 DEF Trying
  <2>2. Fit(c, g)'
    BY <1>4, <2>1
  <2>3. Facing(c)'
    BY <1>3, <1>10 DEF Trying
  <2>4. \/ (\E k \in 0 .. Cardinality(Queries) :
                           todo = Tried(c, k) /\ FirstHalf(c, doc, k, g))'
        \/ /\ kind' = "milvus" /\ todo' = Noting(c)'
           /\ FirstHalf(c, doc, Cardinality(Queries), g)'
    BY <1>1, <1>7, <1>8, <2>1
  <2>5. Trying(c)'
    BY <2>2, <2>3, <2>4 DEF Trying
  <2> QED BY <1>2, <2>5 DEF Backing
<1>11. CASE Snapped(c)
  <2>1. PICK g :
          /\ FirstHalf(c, doc, Cardinality(Queries), g)
          /\ \/ todo = Dropping(c) /\ Whole1(saved, c, g)
             \/ todo = Restoring(c) /\ Whole1(saved, c, g) /\ db = Nil
             \/ todo = Greening(c) /\ Whole1(db, c, g)
    BY <1>11 DEF Snapped
  <2>2. kind = "qdrant" /\ Facing(c)'
    BY <1>3, <1>11 DEF Snapped
  <2>3. db = Nil => db' = Nil
    BY NilBack DEF server
  <2>4. /\ Whole1(saved, c, g) => Whole1(saved, c, g)'
        /\ Whole1(db, c, g) => Whole1(db, c, g)'
    BY <1>5, <1>6
  <2>5. FirstHalf(c, doc, Cardinality(Queries), g)'
    BY <1>7, <2>1
  <2>6. Snapped(c)'
    BY <1>1, <1>8, <2>1, <2>2, <2>3, <2>4, <2>5 DEF Snapped
  <2> QED BY <1>2, <2>6 DEF Backing
<1>12. CASE OnHost(c)
  <2>1. PICK g : /\ FirstHalf(c, stage1, Cardinality(Queries), g)
                 /\ \E k \in 0 .. Len(HostOps) : todo = Hosting(c, k) /\ Hosted(c, k, g)
    BY <1>12 DEF OnHost
  <2>2. PICK k \in 0 .. Len(HostOps) : todo = Hosting(c, k) /\ Hosted(c, k, g)
    BY <2>1
  <2>3. kind # "qdrant" /\ doc = NoDoc
    BY <1>12 DEF OnHost
  <2>4. k \in 0 .. 3 \/ (kind # "pgvector" /\ k \in 0 .. 7)
    <3> DEFINE q == Len(HostOps)
    <3>1. k \in 0 .. q
      OBVIOUS
    <3>2. /\ kind = "pgvector" => q = 3
          /\ kind # "pgvector" => q = 7
      BY HostOpsAre
    <3> HIDE DEF q
    <3> QED BY <3>1, <3>2
  <2>5. Hosted(c, k, g)'
    BY <2>2, <2>4, HostedBack
  <2>6. todo' = Hosting(c, k)' /\ k \in 0 .. Len(HostOps')
    BY <1>1, <1>8, <2>2
  <2>7. FirstHalf(c, stage1, Cardinality(Queries), g)'
    BY <1>7, <2>1
  <2>8. OnHost(c)'
    BY <1>2, <2>3, <2>5, <2>6, <2>7 DEF OnHost
  <2> QED BY <1>2, <2>8 DEF Backing
<1>13. CASE Resuming(c)
  <2>1. PICK g, h : /\ FirstHalf(c, stage1, Cardinality(Queries), g)
                    /\ Whole1(db, c, h) /\ (doc.rebuild = TRUE \/ g = h)
    BY <1>13 DEF Resuming
  <2>2. kind # "qdrant" /\ IsDoc(doc)
        /\ (todo = NewProcess(c) \/ (todo = Reading(c) /\ IsClient))
    BY <1>13 DEF Resuming
  <2>3. Whole1(db, c, h)' /\ FirstHalf(c, stage1, Cardinality(Queries), g)'
    BY <1>5, <1>7, <2>1
  <2>4. IsDoc(doc)' /\ (doc'.rebuild = TRUE \/ g = h)
    BY <1>1, <2>1, <2>2 DEF IsDoc
  <2>5. Resuming(c)'
    BY <1>1, <1>2, <1>8, <2>2, <2>3, <2>4 DEF Resuming
  <2> QED BY <1>2, <2>5 DEF Backing
<1>14. CASE Reopening(c)
  <2>1. PICK g, h : SecondHalf(c, doc, 0, g, h) /\ Whole1(db, c, h)
    BY <1>14 DEF Reopening
  <2>2. /\ doc.rows = << Count >>
        /\ \/ kind = "milvus" /\ todo = Rejoined(c)
           \/ kind = "milvus" /\ todo = Reloaded(c) /\ IsClient
           \/ /\ kind = "milvus" => db.seen = db.live
              /\ IsClient /\ todo = Reopened(c)
    BY <1>14 DEF Reopening
  <2>3. Whole1(db, c, h)' /\ (db.seen = db.live => db'.seen = db'.live)
    BY <1>5, <2>1
  <2>4. SecondHalf(c, doc, 0, g, h)' /\ (doc.rows = << Count >>)'
    BY <1>7, <2>1, <2>2
  <2>5. Reopening(c)'
    BY <1>1, <1>2, <1>8, <2>2, <2>3, <2>4 DEF Reopening
  <2> QED BY <1>2, <2>5 DEF Backing
<1>15. CASE Counting(c)
  <2>1. PICK g, h : SecondHalf(c, doc, 0, g, h) /\ Fit(c, h)
    BY <1>15 DEF Counting
  <2>2. Facing(c) /\ todo = CountAgain /\ doc.rows = << Count >>
    BY <1>15 DEF Counting
  <2>3. Fit(c, h)' /\ SecondHalf(c, doc, 0, g, h)' /\ (doc.rows = << Count >>)'
    BY <1>4, <1>7, <2>1, <2>2
  <2>4. Counting(c)'
    BY <1>1, <1>3, <1>8, <2>2, <2>3 DEF Counting
  <2> QED BY <1>2, <2>4 DEF Backing
<1>16. CASE Checking(c)
  <2>1. PICK g, h : \E k \in 0 .. Cardinality(Queries) :
            todo = Checked(k) /\ SecondHalf(c, doc, k, g, h) /\ Fit(c, h)
    BY <1>16 DEF Checking
  <2>2. PICK k \in 0 .. Cardinality(Queries) :
            todo = Checked(k) /\ SecondHalf(c, doc, k, g, h) /\ Fit(c, h)
    BY <2>1
  <2>3. Facing(c) /\ doc.rows = << Count, Count >>
    BY <1>16 DEF Checking
  <2>4. /\ Fit(c, h)' /\ SecondHalf(c, doc, k, g, h)'
        /\ (doc.rows = << Count, Count >>)' /\ todo' = Checked(k)'
    BY <1>1, <1>4, <1>7, <1>8, <2>2, <2>3
  <2>5. Checking(c)'
    BY <1>3, <2>3, <2>4 DEF Checking
  <2> QED BY <1>2, <2>5 DEF Backing
<1>17. CASE todo = << >> /\ RightBackup(c, doc)
  <2>1. todo' = << >> /\ RightBackup(c, doc)'
    BY <1>1, <1>7, <1>17
  <2> QED BY <1>2, <2>1 DEF Backing
<1> QED BY <1>9, <1>10, <1>11, <1>12, <1>13, <1>14, <1>15, <1>16, <1>17
        DEF Backing

\* The program is over: the document says what RestoreHolds asks.
LEMMA BackupDone ==
    ASSUME Db, NEW c, BackupCase(c), Backing(c), todo = << >>
    PROVE  RightBackup(c, doc)
<1>1. \A s, T : IsSeq(T) => First(s, T) # << >>
  BY FirstIs
<1>2. /\ CountAgain # << >> /\ Reopened(c) # << >> /\ Reloaded(c) # << >>
      /\ Rejoined(c) # << >>
  <2>1. 0 \in 0 .. Cardinality(Queries)
    BY BenchAssumption
  <2>2. IsSeq(Checked(0)) /\ IsSeq(CountAgain) /\ IsSeq(Reopened(c)) /\ IsSeq(Reloaded(c))
    BY <2>1, RestsBackup
  <2>3. CountAgain # << >>
    BY <1>1, <2>2 DEF CountAgain
  <2>4. Reopened(c) # << >>
    BY <1>1, <2>2 DEF Reopened
  <2>5. Reloaded(c) # << >>
    BY <1>1, <2>2 DEF Reloaded
  <2>6. Rejoined(c) # << >>
    BY <1>1, <2>2 DEF Rejoined
  <2> QED BY <2>3, <2>4, <2>5, <2>6
<1>3. /\ Reading(c) # << >> /\ NewProcess(c) # << >> /\ Judged(c) # << >>
  BY <1>1, RestsBackup DEF Reading, NewProcess, Judged
<1>4. ASSUME NEW f, NEW R, NEW k \in 0 .. Len(f), IsSeq(f), IsSeq(R), R # << >>
      PROVE  Left(f, k, R) # << >>
  <2>1. k = Len(f) => Left(f, k, R) = R
    BY <1>4, FromIs
  <2>2. PICK n : n = k + 1
    OBVIOUS
  <2>3. k # Len(f) => Left(f, k, R) = First(f[n], Left(f, n, R)) /\ IsSeq(Left(f, n, R))
    BY <1>4, <2>2, FromNext
  <2> QED BY <1>1, <1>4, <2>1, <2>3
<1>5. \A k \in 0 .. Len(HostOps) : Hosting(c, k) # << >>
  <2> DEFINE f == HostOps
             R == Judged(c)
  <2>1. IsSeq(f) /\ IsSeq(R) /\ R # << >>
    BY <1>3, HostOpsAre, RestsBackup
  <2> HIDE DEF f, R
  <2>2. \A k \in 0 .. Len(f) : Left(f, k, R) # << >>
    BY <1>4, <2>1
  <2> QED BY <2>2 DEF f, R, Hosting
<1>6. Noting(c) # << >> /\ IsSeq(Noting(c))
  <2>1. 0 \in 0 .. Len(HostOps)
    BY HostOpsAre
  <2> QED BY <1>1, <2>1, RestsBackup DEF Noting
<1>7. Greening(c) # << >> /\ Restoring(c) # << >> /\ Dropping(c) # << >>
  BY <1>1, RestsBackup DEF Greening, Green1, Restoring, Dropping
<1>8. Parting(c) # << >>
  BY <1>1, <1>6, RestsBackup DEF Parting
<1>9. \A k \in 0 .. Cardinality(Queries) : Tried(c, k) # << >>
  <2> DEFINE f == RunSearch("run1")
             R == Parting(c)
  <2>1. IsSeq(f) /\ IsSeq(R) /\ R # << >> /\ Len(f) = Cardinality(Queries)
    BY <1>8, RunSearchIs, RestsBackup
  <2> HIDE DEF f, R
  <2>2. \A k \in 0 .. Len(f) : Left(f, k, R) # << >>
    BY <1>4, <2>1
  <2> QED BY <2>1, <2>2 DEF f, R, Tried
<1>10. CountFirst(c) # << >>
  BY <1>1, RestsBackup, BenchAssumption DEF CountFirst
<1>11. ~Building(Row, c.index, CountFirst(c))
  <2> DEFINE R == CountFirst(c)
             S == Row
             i == c.index
  <2>1. S \in SUBSET Row /\ IsSeq(R)
    BY RestsBackup
  <2> HIDE DEF S, R, i
  <2>2. ~Building(S, i, R)
    BY <2>1, BuildOpen
  <2> QED BY <2>2 DEF S, R, i
<1>12. CASE Checking(c)
  <2>1. PICK g, h : \E k \in 0 .. Cardinality(Queries) :
            todo = Checked(k) /\ SecondHalf(c, doc, k, g, h) /\ Fit(c, h)
    BY <1>12 DEF Checking
  <2>2. PICK k \in 0 .. Cardinality(Queries) :
            todo = Checked(k) /\ SecondHalf(c, doc, k, g, h)
    BY <2>1
  <2>3. doc.rows = << Count, Count >>
    BY <1>12 DEF Checking
  <2>4. k = Cardinality(Queries)
    <3> SUFFICES ASSUME k # Cardinality(Queries) PROVE FALSE
      OBVIOUS
    <3> DEFINE f == RunSearch("after_restore")
               R == Unlinking
    <3>1. IsSeq(f) /\ IsSeq(R) /\ Len(f) = Cardinality(Queries)
          /\ Checked(k) = Left(f, k, R)
      BY RunSearchIs, RestsBackup DEF Checked
    <3> HIDE DEF f, R
    <3>2. PICK n : n = k + 1
      OBVIOUS
    <3>3. k \in 0 .. Len(f) /\ k # Len(f)
      BY <3>1
    <3>4. Left(f, k, R) = First(f[n], Left(f, n, R)) /\ IsSeq(Left(f, n, R))
      BY <3>1, <3>2, <3>3, FromNext
    <3> QED BY <1>1, <2>2, <3>1, <3>4
  <2> QED BY <2>2, <2>3, <2>4 DEF RightBackup
<1>13. ~Trying(c) /\ ~Snapped(c) /\ ~OnHost(c)
  BY <1>5, <1>6, <1>7, <1>9 DEF Trying, Snapped, OnHost
<1>14. ~Resuming(c) /\ ~Reopening(c) /\ ~Counting(c)
  BY <1>2, <1>3 DEF Resuming, Reopening, Counting
<1> QED BY <1>10, <1>11, <1>12, <1>13, <1>14 DEF Backing



-----------------------------------------------------------------------------
(* What a result says.                                                     *)

\* The document of a run of this case is right.
RightDoc(d) ==
    /\ case.prog = "bench" => RightBench(case, d)
    /\ case.prog = "load" => RightLoad(case, d)
    /\ case.prog = "backup" => RightBackup(case, d)

\* A process that runs is in its program, with a document right so far.
Working ==
    /\ case.prog = "bench" => Benching(case)
    /\ case.prog = "load" => Loading(case)
    /\ case.prog = "backup" => Backing(case)

\* Right documents on their way from the process to the result.
DocsInv ==
    /\ kind \in {"pgvector", "qdrant", "milvus", "cache"}
    /\ run # Nil =>
         /\ run.at = "process" => Working
         /\ run.at = "writing" => RightDoc(doc)
         /\ \A i \in 1 .. Len(run.runs) : RightDoc(run.runs[i].doc)
         /\ run.at = "exited" /\ ~Direct => RightDoc(Tmp.doc)
    /\ result \notin {Nil, Part} => RightDoc(result.run.doc)

\* The cases of the bench are those of a database.
LEMMA BenchCases ==
    ASSUME case \in Todo, kind \in {"pgvector", "qdrant", "milvus", "cache"},
           case.prog = "bench"
    PROVE  Db /\ BenchCase(case) /\ ~Direct /\ Program(case) = RunBench(case)
<1>1. kind # "cache"
  BY CaseFacts
<1>2. Db
  BY <1>1 DEF Db
<1>3. \A c \in Cases \cup ChangeCases : BenchCase(c)
  <2>1. \A i \in Indexes : BenchCase(DbCase("bench", i, "none", FALSE, 0))
    BY DEF DbCase, BenchCase
  <2>2. \A i \in Indexes : BenchCase(DbCase("bench", i, "update", FALSE, 0))
    BY DEF DbCase, BenchCase
  <2>3. \A i \in Indexes, b \in BOOLEAN :
            BenchCase(DbCase("bench", i, "delete", b, 0))
    BY DEF DbCase, BenchCase
  <2>4. \A c \in Cases : BenchCase(c)
    BY <2>1 DEF Cases
  <2>5. \A c \in ChangeCases : BenchCase(c)
    <3> DEFINE A == {DbCase("bench", i, "delete", b, 0) : i \in Indexes, b \in BOOLEAN}
               B == {DbCase("bench", i, "update", FALSE, 0) : i \in Indexes}
    <3>1. ChangeCases = A \cup B
      BY DEF ChangeCases
    <3>2. \A c \in A : \E i \in Indexes, b \in BOOLEAN :
              c = DbCase("bench", i, "delete", b, 0)
      OBVIOUS
    <3>3. \A c \in B : BenchCase(c)
      BY <2>2
    <3> HIDE DEF A, B
    <3>4. \A c \in A : BenchCase(c)
      BY <2>3, <3>2
    <3> QED BY <3>1, <3>3, <3>4
  <2> QED BY <2>4, <2>5
<1>4. \A c \in LoadCases \cup BackupCases : c.prog # "bench"
  BY DEF LoadCases, BackupCases, DbCase
<1>5. case \in Cases \cup ChangeCases
  BY <1>1, <1>4 DEF Todo
<1>6. Program(case) = RunBench(case)
  BY Zenon DEF Program
<1> QED BY <1>2, <1>3, <1>5, <1>6 DEF Direct

\* So are those of the load run.
LEMMA LoadIsCase ==
    ASSUME case \in Todo, kind \in {"pgvector", "qdrant", "milvus", "cache"},
           case.prog = "load"
    PROVE  Db /\ LoadCase(case) /\ Program(case) = RunLoad(case)
<1>1. kind # "cache"
  BY CaseFacts
<1>2. Db
  BY <1>1 DEF Db
<1>3. \A c \in LoadCases : LoadCase(c)
  BY DEF LoadCases, DbCase, LoadCase
<1>4. \A c \in Cases \cup ChangeCases \cup BackupCases : c.prog # "load"
  BY DEF Cases, ChangeCases, BackupCases, DbCase
<1>5. case \in LoadCases
  BY <1>1, <1>4 DEF Todo
<1>6. Program(case) = RunLoad(case)
  BY Zenon DEF Program
<1> QED BY <1>2, <1>3, <1>5, <1>6

\* And those of the backup.
LEMMA BackupIsCase ==
    ASSUME case \in Todo, kind \in {"pgvector", "qdrant", "milvus", "cache"},
           case.prog = "backup"
    PROVE  Db /\ BackupCase(case) /\ Program(case) = RunBackup(case)
<1>1. kind # "cache"
  BY CaseFacts
<1>2. Db
  BY <1>1 DEF Db
<1>3. \A c \in BackupCases : BackupCase(c)
  BY DEF BackupCases, DbCase, BackupCase
<1>4. \A c \in Cases \cup ChangeCases \cup LoadCases : c.prog # "backup"
  BY DEF Cases, ChangeCases, LoadCases, DbCase
<1>5. case \in BackupCases
  BY <1>1, <1>4 DEF Todo
<1>6. Program(case) = RunBackup(case)
  BY Zenon DEF Program
<1> QED BY <1>2, <1>3, <1>5, <1>6

LEMMA BenchBegins ==
    ASSUME Db, NEW c, BenchCase(c), kind' = kind, Process(RunBench(c))
    PROVE  Benching(c)'
<1>1. todo' = Build(Row, c.index, Changing(c))
  BY BenchIs DEF Process
<1>2. Build(Row, c.index, Changing(c))' = Build(Row, c.index, Changing(c))
  <2>1. Changing(c)' = Changing(c)
    BY BenchSame
  <2>2. PICK R : R = Changing(c)
    OBVIOUS
  <2>3. Build(Row, c.index, R)' = Build(Row, c.index, R)
    BY RestsSame
  <2> QED BY <2>1, <2>2, <2>3
<1>3. Building(Row, c.index, Changing(c))'
  BY <1>1, <1>2 DEF Building
<1>4. load' = NoLoop /\ IsDoc(doc)' /\ doc'.searches = {} /\ RightBench(c, doc)'
  BY DEF Process, NoDoc, IsDoc, RightBench
<1> QED BY <1>3, <1>4 DEF Benching, Preparing

LEMMA LoadBegins ==
    ASSUME Db, NEW c, LoadCase(c), kind' = kind, Process(RunLoad(c))
    PROVE  Loading(c)'
<1> DEFINE S == Early(c)
           R == Serving(c)
           i == c.index
<1>1. todo' = Build(S, i, R)
  BY LoadRunIs DEF Process
<1>2. S' = S /\ R' = R
  BY LoadSame
<1>3. PICK r : r = R
  OBVIOUS
<1>4. PICK T : T = S
  OBVIOUS
<1> HIDE DEF S, R
<1>5. Build(T, i, r)' = Build(T, i, r)
  BY RestsSame
<1>6. Build(S, i, R)' = Build(S, i, R)
  BY <1>2, <1>3, <1>4, <1>5
<1>7. Building(S, i, R)'
  BY <1>1, <1>6 DEF Building
<1>8. load' = NoLoop /\ IsDoc(doc)' /\ NewDoc'
  BY DEF Process, NoDoc, IsDoc, NewDoc
<1> QED BY <1>7, <1>8 DEF Loading, S, R

LEMMA BackupBegins ==
    ASSUME Db, NEW c, kind' = kind, Process(RunBackup(c))
    PROVE  Backing(c)'
<1> DEFINE R == CountFirst(c)
           i == c.index
<1>1. todo' = Build(Row, i, R)
  BY BackupRunIs DEF Process
<1>2. R' = R
  BY BackupSame
<1>3. PICK r : r = R
  OBVIOUS
<1> HIDE DEF R
<1>4. Build(Row, i, r)' = Build(Row, i, r)
  BY RestsSame
<1>5. Build(Row, i, R)' = Build(Row, i, R)
  BY <1>2, <1>3, <1>4
<1>6. Building(Row, i, R)'
  BY <1>1, <1>5 DEF Building
<1>7. load' = NoLoop' /\ doc' = NoDoc'
  BY DEF Process, NoDoc, NoLoop
<1> QED BY <1>6, <1>7 DEF Backing, R

LEMMA WorkBegins ==
    ASSUME case \in Todo, kind \in {"pgvector", "qdrant", "milvus", "cache"},
           kind' = kind, case' = case, Process(Program(case))
    PROVE  Working'
<1>1. PICK c : c = case
  OBVIOUS
<1>2. c.prog = "bench" => Benching(c)'
  BY <1>1, BenchCases, BenchBegins
<1>3. c.prog = "load" => Loading(c)'
  BY <1>1, LoadIsCase, LoadBegins
<1>4. case' = c
  BY <1>1
<1>6. c.prog = "backup" => Backing(c)'
  BY <1>1, BackupIsCase, BackupBegins
<1>5. /\ case'.prog = "bench" => Benching(case)'
      /\ case'.prog = "load" => Loading(case)'
      /\ case'.prog = "backup" => Backing(case)'
  BY <1>2, <1>3, <1>4, <1>6
<1> QED BY <1>5 DEF Working

LEMMA WorkStep ==
    ASSUME case \in Todo, kind \in {"pgvector", "qdrant", "milvus", "cache"},
           Working, DbStep
    PROVE  Working'
<1>1. kind' = kind /\ case' = case /\ (Main \/ Threads)
  BY DEF DbStep
<1>2. PICK c : c = case
  OBVIOUS
<1>3. c.prog = "bench" => Benching(c)'
  <2> SUFFICES ASSUME c.prog = "bench" PROVE Benching(c)'
    OBVIOUS
  <2>1. Db /\ BenchCase(c) /\ Benching(c)
    BY <1>2, BenchCases DEF Working
  <2>2. Main
    BY <1>1, <2>1 DEF Threads, Deadline, Query, InsertBatch, WorkerEnds,
                      Looping, Benching
  <2> QED BY <1>1, <2>1, <2>2, BenchStep
<1>4. c.prog = "load" => Loading(c)'
  <2> SUFFICES ASSUME c.prog = "load" PROVE Loading(c)'
    OBVIOUS
  <2>1. Db /\ LoadCase(c) /\ Loading(c)
    BY <1>2, LoadIsCase DEF Working
  <2> QED BY <1>1, <2>1, LoadStep, ThreadsStep
<1>6. c.prog = "backup" => Backing(c)'
  <2> SUFFICES ASSUME c.prog = "backup" PROVE Backing(c)'
    OBVIOUS
  <2>1. Db /\ BackupCase(c) /\ Backing(c)
    BY <1>2, BackupIsCase DEF Working
  <2>2. Main
    BY <1>1, <2>1 DEF Threads, Deadline, Query, InsertBatch, WorkerEnds,
                      Looping, Backing
  <2> QED BY <1>1, <2>1, <2>2, BackupStep
<1>5. /\ case'.prog = "bench" => Benching(case)'
      /\ case'.prog = "load" => Loading(case)'
      /\ case'.prog = "backup" => Backing(case)'
  BY <1>1, <1>2, <1>3, <1>4, <1>6
<1> QED BY <1>5 DEF Working

\* The server goes on by itself.
LEMMA WorkBack ==
    ASSUME case \in Todo, kind \in {"pgvector", "qdrant", "milvus", "cache"},
           Working, Behind,
           UNCHANGED <<kind, case, todo, client, doc, load, stage1>>
    PROVE  Working'
<1>1. kind' = kind /\ case' = case /\ Behind
      /\ UNCHANGED <<todo, client, doc, load, stage1>>
  OBVIOUS
<1>2. PICK c : c = case
  OBVIOUS
<1>3. c.prog = "bench" => Benching(c)'
  <2> SUFFICES ASSUME c.prog = "bench" PROVE Benching(c)'
    OBVIOUS
  <2>1. Db /\ BenchCase(c) /\ Benching(c)
    BY <1>2, BenchCases DEF Working
  <2> QED BY <1>1, <2>1, BenchBack
<1>4. c.prog = "load" => Loading(c)'
  <2> SUFFICES ASSUME c.prog = "load" PROVE Loading(c)'
    OBVIOUS
  <2>1. Db /\ LoadCase(c) /\ Loading(c)
    BY <1>2, LoadIsCase DEF Working
  <2> QED BY <1>1, <2>1, LoadBack
<1>6. c.prog = "backup" => Backing(c)'
  <2> SUFFICES ASSUME c.prog = "backup" PROVE Backing(c)'
    OBVIOUS
  <2>1. Db /\ BackupCase(c) /\ Backing(c)
    BY <1>2, BackupIsCase DEF Working
  <2>2. UNCHANGED <<todo, client, doc, load, stage1>>
    BY <1>1
  <2> QED BY <1>1, <2>1, <2>2, BackupBack
<1>5. /\ case'.prog = "bench" => Benching(case)'
      /\ case'.prog = "load" => Loading(case)'
      /\ case'.prog = "backup" => Backing(case)'
  BY <1>1, <1>2, <1>3, <1>4, <1>6
<1> QED BY <1>5 DEF Working

LEMMA WorkDone ==
    ASSUME case \in Todo, kind \in {"pgvector", "qdrant", "milvus", "cache"},
           Working, todo = << >>
    PROVE  RightDoc(doc)
<1>1. case.prog = "bench" => RightBench(case, doc)
  BY DEF Working, Benching
<1>2. case.prog = "load" => RightLoad(case, doc)
  BY LoadIsCase, LoadDone DEF Working
<1>3. case.prog = "backup" => RightBackup(case, doc)
  BY BackupIsCase, BackupDone DEF Working
<1> QED BY <1>1, <1>2, <1>3 DEF RightDoc

-----------------------------------------------------------------------------
(* The documents through the session.                                      *)

\* A document stays right: the case does not change.
LEMMA RightSame ==
    ASSUME case' = case
    PROVE  \A d : RightDoc(d)' = RightDoc(d)
BY DEF RightDoc

\* The median is one of the runs.
LEMMA MedianOf ==
    ASSUME NEW runs, Mines(runs), Len(runs) >= 1
    PROVE  \E i \in 1 .. Len(runs) : Result(runs).run = runs[i]
<1>1. /\ runs \in Seq(ToSet(runs))
      /\ \A i \in 1 .. Len(runs) : runs[i].p50 \in Nat
  BY DEF Mines, Mine
<1>2. Len(runs) # 0
  OBVIOUS
<1>3. \E i \in 1 .. Len(runs) : Median(runs) = runs[i]
  BY <1>1, <1>2, MedianSplits
<1> QED BY <1>3 DEF Result

\* A step that brings the session to its next place.
LEMMA DocsNext ==
    ASSUME DocsInv, kind' = kind, case' = case,
           NEW runs, NEW place, run' = [runs |-> runs, at |-> place],
           place = "process" => Working',
           place = "writing" => RightDoc(doc'),
           \A i \in 1 .. Len(runs) : RightDoc(runs[i].doc),
           place = "exited" /\ ~Direct => RightDoc(tmp'[Len(runs)].doc),
           result' \notin {Nil, Part} => RightDoc(result'.run.doc)
    PROVE  DocsInv'
<1>1. run'.runs = runs /\ run'.at = place
  OBVIOUS
<1>2. Direct' = Direct
  BY SameCase
<1>3. \A d : RightDoc(d)' <=> RightDoc(d)
  BY DEF RightDoc
<1>4. RightDoc(doc)' <=> RightDoc(doc')
  BY DEF RightDoc
<1>5. /\ RightDoc(Tmp.doc)' <=> RightDoc(tmp'[Len(runs)].doc)
      /\ RightDoc(result.run.doc)' <=> RightDoc(result'.run.doc)
  BY <1>1 DEF RightDoc, Tmp
<1>6. \A i \in 1 .. Len(runs) : RightDoc(run.runs[i].doc)' <=> RightDoc(runs[i].doc)
  BY <1>1 DEF RightDoc
<1>7. (\A i \in 1 .. Len(run.runs) : RightDoc(run.runs[i].doc))'
  BY <1>1, <1>6
<1> QED BY <1>1, <1>2, <1>4, <1>5, <1>7 DEF DocsInv

LEMMA DocsOver ==
    ASSUME DocsInv, kind' = kind, case' = case, run' = Nil,
           result' \notin {Nil, Part} => RightDoc(result'.run.doc)
    PROVE  DocsInv'
<1>1. RightDoc(result.run.doc)' <=> RightDoc(result'.run.doc)
  BY DEF RightDoc
<1> QED BY <1>1 DEF DocsInv

\* A step of the process or of the server.
LEMMA DocsSame ==
    ASSUME DocsInv, UNCHANGED <<kind, case, runner>>,
           run # Nil /\ run.at = "process" => Working',
           run # Nil /\ run.at = "writing" => doc' = doc
    PROVE  DocsInv'
<1>1. /\ kind' = kind /\ case' = case /\ run' = run /\ tmp' = tmp
      /\ result' = result
  BY DEF runner
<1>2. Direct' = Direct /\ Tmp' = Tmp
  BY <1>1, SameCase DEF Tmp
<1>3. /\ RightDoc(result.run.doc)' <=> RightDoc(result.run.doc)
      /\ RightDoc(Tmp.doc)' <=> RightDoc(Tmp.doc)
      /\ doc' = doc => (RightDoc(doc)' <=> RightDoc(doc))
  BY <1>1, <1>2 DEF RightDoc
<1>4. \A i : RightDoc(run.runs[i].doc)' <=> RightDoc(run.runs[i].doc)
  BY <1>1 DEF RightDoc
<1>5. (\A i \in 1 .. Len(run.runs) : RightDoc(run.runs[i].doc))'
        <=> \A i \in 1 .. Len(run.runs) : RightDoc(run.runs[i].doc)
  BY <1>1, <1>4
<1> QED BY <1>1, <1>2, <1>3, <1>5 DEF DocsInv

LEMMA DocsBegin == ASSUME Inv, DocsInv, Begin PROVE DocsInv'
<1>1. /\ run' = [runs |-> << >>, at |-> "process"]
      /\ kind' = kind /\ case' = case /\ result' = result
      /\ Process(Program(case))
  BY DEF Begin
<1>2. Working'
  BY <1>1, WorkBegins DEF Inv, RunsInv, DocsInv
<1>3. result' \notin {Nil, Part} => RightDoc(result'.run.doc)
  BY <1>1 DEF DocsInv
<1> DEFINE none == << >>
           place == "process"
<1>4. \A i \in 1 .. Len(none) : FALSE
  OBVIOUS
<1>5. run' = [runs |-> none, at |-> place] /\ place = "process"
  BY <1>1
<1> HIDE DEF none, place
<1> QED BY <1>1, <1>2, <1>3, <1>4, <1>5, DocsNext

LEMMA DocsOpen == ASSUME Inv, DocsInv, OpenOut PROVE DocsInv'
<1>1. /\ run # Nil /\ run.at = "process" /\ Writes(Part)
      /\ run' = [run EXCEPT !.at = "writing"]
      /\ kind' = kind /\ case' = case /\ doc' = doc /\ todo = << >>
  BY DEF OpenOut, At, bench
<1>2. /\ run = [runs |-> run.runs, at |-> run.at]
      /\ RightDoc(doc')
      /\ \A i \in 1 .. Len(run.runs) : RightDoc(run.runs[i].doc)
  BY <1>1, WorkDone DEF Inv, RunsInv, DocsInv
<1>3. run' = [runs |-> run.runs, at |-> "writing"]
  BY <1>1, <1>2
<1>4. result' \notin {Nil, Part} => RightDoc(result'.run.doc)
  BY <1>1 DEF DocsInv, Writes
<1> DEFINE place == "writing"
<1>5. run' = [runs |-> run.runs, at |-> place] /\ place = "writing"
  BY <1>3
<1> HIDE DEF place
<1> QED BY <1>1, <1>2, <1>4, <1>5, DocsNext

LEMMA DocsFill == ASSUME Inv, DocsInv, FillOut PROVE DocsInv'
<1>1. /\ run # Nil /\ run.at = "writing"
      /\ run' = [run EXCEPT !.at = "exited"]
      /\ kind' = kind /\ case' = case
  BY DEF FillOut, At
<1>2. /\ run = [runs |-> run.runs, at |-> run.at] /\ Mines(run.runs)
      /\ Len(run.runs) < Repeats /\ DOMAIN tmp = 0 .. Repeat - 1
      /\ Repeats \in Nat /\ Repeats <= Repeat
      /\ RightDoc(doc)
      /\ \A i \in 1 .. Len(run.runs) : RightDoc(run.runs[i].doc)
  BY <1>1, CaseFacts DEF Inv, RunsInv, DocsInv
<1>3. PICK p50 \in Nat : Writes(Body(p50))
  BY RunnerAssumption DEF FillOut
<1> DEFINE body == Body(p50)
           runs == run.runs
           place == "exited"
<1>4. body.doc = doc /\ Mine(body)
  BY DEF Body, Mine
<1>5. Writes(body)
  BY <1>3
<1> HIDE DEF body
<1>6. run' = [runs |-> runs, at |-> place] /\ place = "exited"
  BY <1>1, <1>2
<1>7. ~Direct => RightDoc(tmp'[Len(runs)].doc)
  <2>1. Len(runs) \in DOMAIN tmp
    <3>1. Len(run.runs) \in Nat /\ Repeat \in Nat
      BY <1>2, RunnerAssumption DEF Mines
    <3> QED BY <1>2, <3>1
  <2>2. ~Direct => tmp'[Len(runs)] = body
    BY <1>5, <2>1 DEF Writes
  <2> QED BY <1>2, <1>4, <2>2
<1>8. result' \notin {Nil, Part} => RightDoc(result'.run.doc)
  <2>1. CASE result' = result
    BY <2>1 DEF DocsInv
  <2>2. CASE Direct /\ result' # Part
    <3>1. result' = Result(<<body>>)
      BY <1>5, <2>2 DEF Writes
    <3>2. Mines(<<body>>) /\ Len(<<body>>) = 1
      BY <1>4 DEF Mines, ToSet
    <3>3. Result(<<body>>).run = body
      <4>1. PICK one : one = <<body>>
        OBVIOUS
      <4>2. \E i \in 1 .. Len(one) : Result(one).run = one[i]
        BY <3>2, <4>1, MedianOf
      <4> QED BY <4>1, <4>2
    <3> QED BY <1>2, <1>4, <3>1, <3>3
  <2>3. CASE ~Direct
    BY <1>5, <2>1, <2>3 DEF Writes
  <2> QED BY <2>1, <2>2, <2>3
<1>9. \A i \in 1 .. Len(runs) : RightDoc(runs[i].doc)
  BY <1>2
<1> HIDE DEF runs, place
<1> QED BY <1>1, <1>6, <1>7, <1>8, <1>9, DocsNext

LEMMA DocsCollect == ASSUME Inv, DocsInv, Collect PROVE DocsInv'
<1> DEFINE runs == Append(run.runs, Tmp)
           place == IF Len(runs) < Repeats THEN "process" ELSE "merge"
<1>1. /\ run # Nil /\ run.at = "exited" /\ ~Direct
      /\ run' = [runs |-> runs, at |-> place]
      /\ kind' = kind /\ case' = case /\ result' = result
      /\ Process(IF Len(runs) < Repeats THEN Program(case) ELSE << >>)
  BY DEF Collect, At
<1>2. /\ Mines(run.runs) /\ RightDoc(Tmp.doc)
      /\ \A i \in 1 .. Len(run.runs) : RightDoc(run.runs[i].doc)
  BY <1>1 DEF Inv, RunsInv, DocsInv
<1>3. place \in {"process", "merge"}
  OBVIOUS
<1>4. place = "process" => Working'
  <2>1. SUFFICES ASSUME Len(runs) < Repeats PROVE Working'
    OBVIOUS
  <2>2. Process(Program(case))
    BY <1>1, <2>1
  <2> QED BY <1>1, <2>2, WorkBegins DEF Inv, RunsInv, DocsInv
<1>5. \A i \in 1 .. Len(runs) : RightDoc(runs[i].doc)
  <2>1. PICK s : s = run.runs
    OBVIOUS
  <2>2. s \in Seq(ToSet(s))
    BY <1>2, <2>1 DEF Mines
  <2>3. /\ Len(runs) = Len(s) + 1 /\ Len(s) \in Nat
        /\ \A i \in 1 .. Len(s) : runs[i] = s[i]
        /\ runs[Len(s) + 1] = Tmp
    BY <2>1, <2>2
  <2> HIDE DEF runs
  <2>4. ASSUME NEW i \in 1 .. Len(runs) PROVE RightDoc(runs[i].doc)
    <3>1. i \in 1 .. Len(s) \/ i = Len(s) + 1
      BY <2>3
    <3> QED BY <1>2, <2>1, <2>3, <3>1
  <2> QED BY <2>4
<1>6. result' \notin {Nil, Part} => RightDoc(result'.run.doc)
  BY <1>1 DEF DocsInv
<1> HIDE DEF runs, place
<1> QED BY <1>1, <1>3, <1>4, <1>5, <1>6, DocsNext

LEMMA DocsOpenResult == ASSUME Inv, DocsInv, OpenResult PROVE DocsInv'
<1>1. /\ run # Nil /\ run.at = "merge" /\ result' = Part
      /\ run' = [run EXCEPT !.at = "merging"]
      /\ kind' = kind /\ case' = case
  BY DEF OpenResult, At
<1>2. /\ run = [runs |-> run.runs, at |-> run.at]
      /\ \A i \in 1 .. Len(run.runs) : RightDoc(run.runs[i].doc)
  BY <1>1 DEF Inv, RunsInv, DocsInv
<1> DEFINE place == "merging"
<1>3. run' = [runs |-> run.runs, at |-> place] /\ place = "merging"
  BY <1>1, <1>2
<1> HIDE DEF place
<1> QED BY <1>1, <1>2, <1>3, DocsNext

LEMMA DocsFillResult == ASSUME Inv, DocsInv, FillResult PROVE DocsInv'
<1>1. /\ run # Nil /\ run.at = "merging" /\ result' = Result(run.runs)
      /\ run' = Nil /\ kind' = kind /\ case' = case
  BY DEF FillResult, At
<1>2. /\ Mines(run.runs) /\ Len(run.runs) = Repeats /\ Repeats >= 1
      /\ \A i \in 1 .. Len(run.runs) : RightDoc(run.runs[i].doc)
  BY <1>1, CaseFacts DEF Inv, RunsInv, DocsInv
<1>3. PICK i \in 1 .. Len(run.runs) : Result(run.runs).run = run.runs[i]
  BY <1>2, MedianOf
<1>4. RightDoc(result'.run.doc)
  BY <1>1, <1>2, <1>3
<1> QED BY <1>1, <1>4, DocsOver

LEMMA DocsHold == ASSUME Inv, DocsInv, [Next]_vars PROVE DocsInv'
<1>1. /\ case \in Todo /\ kind \in {"pgvector", "qdrant", "milvus", "cache"}
      /\ (run # Nil /\ run.at = "process" => Working)
  BY DEF Inv, RunsInv, DocsInv
<1>2. ASSUME run' = Nil, kind' = kind, case' = case, result' = result
      PROVE  DocsInv'
  BY <1>2, DocsOver DEF DocsInv
<1>3. CASE RunnerStep
  <2>1. CASE EndSession
    BY <1>2, <2>1 DEF EndSession
  <2> QED BY <1>3, <2>1, DocsBegin, DocsOpen, DocsFill, DocsCollect,
             DocsOpenResult, DocsFillResult DEF RunnerStep
<1>4. CASE DbStep
  <2>1. UNCHANGED <<kind, case, runner>> /\ run # Nil /\ run.at = "process"
    BY <1>4 DEF DbStep, At
  <2>2. Working'
    BY <1>1, <1>4, <2>1, WorkStep
  <2> QED BY <2>1, <2>2, DocsSame
<1>5. CASE ServerStep
  <2>1. UNCHANGED <<kind, case, runner>> /\ doc' = doc
    BY <1>5 DEF ServerStep, bench
  <2>2. run # Nil /\ run.at = "process" => Working'
    <3>1. run # Nil => Background
      BY <1>5 DEF ServerStep
    <3>2. UNCHANGED <<kind, case, todo, client, doc, load, stage1>>
      BY <1>5 DEF ServerStep, bench
    <3> QED BY <1>1, <3>1, <3>2, WorkBack DEF Behind
  <2> QED BY <2>1, <2>2, DocsSame
<1>6. CASE CacheStep \/ RedisStep
  <2>1. /\ UNCHANGED <<kind, case, runner>> /\ doc' = doc /\ kind = "cache"
    BY <1>6 DEF CacheStep, RedisStep, bench
  <2>2. case.prog # "bench" /\ case.prog # "load" /\ case.prog # "backup"
    BY <1>1, <2>1, CaseFacts
  <2>3. Working'
    BY <2>1, <2>2 DEF Working
  <2> QED BY <2>1, <2>3, DocsSame
<1>7. CASE ProcessFails \/ Kill
  <2>1. run' = Nil /\ kind' = kind /\ case' = case /\ result' = result
    BY <1>7 DEF ProcessFails, Kill, AfterFailure, CodeNotZero
  <2> QED BY <1>2, <2>1
<1>8. CASE UNCHANGED vars
  <2>1. /\ UNCHANGED <<kind, case, runner>> /\ doc' = doc /\ Behind
        /\ UNCHANGED <<kind, case, todo, client, doc, load, stage1>>
    BY <1>8 DEF vars, bench, Behind
  <2>2. Working => Working'
    BY <1>1, <2>1, WorkBack
  <2> QED BY <1>1, <2>1, <2>2, DocsSame
<1> QED BY <1>3, <1>4, <1>5, <1>6, <1>7, <1>8 DEF Next, SessionStep

LEMMA DocsAlways == Spec => [](Inv /\ DocsInv)
<1>1. Init => Inv /\ DocsInv
  BY InitHolds, RunnerAssumption DEF Inv, Init, DocsInv
<1>2. Inv /\ DocsInv /\ [Next]_vars => Inv' /\ DocsInv'
  BY NextHolds, DocsHold
<1> QED BY <1>1, <1>2, PTL DEF Spec

LEMMA RowsAre ==
    ASSUME case.prog = "bench", case \in Todo,
           kind \in {"pgvector", "qdrant", "milvus", "cache"}
    PROVE  ChangedRows = ChangedBy(case) /\ LiveAfter = LiveOf(case, ChangedBy(case))
<1>1. ChangedRows = ChangedBy(case)
  <2>1. case.change = "delete" => ChangedRows = Gone
    BY Zenon DEF ChangedRows
  <2>2. case.change = "update" => ChangedRows = Renewed
    BY Zenon DEF ChangedRows
  <2>3. case.change = "none" => ChangedRows = {}
    BY Zenon DEF ChangedRows
  <2> QED BY <2>1, <2>2, <2>3, BenchCases DEF BenchCase, ChangedBy
<1>2. case.change = "update" => ChangedBy(case) = Renewed
  BY DEF ChangedBy
<1> QED BY <1>1, <1>2 DEF LiveAfter, LiveOf

LEMMA TimedRight ==
    ASSUME Inv, DocsInv, Whole("bench"), NEW s \in Saw("timed")
    PROVE  RightSaw(case, s, Doc.left)
<1>1. RightBench(case, Doc)
  BY DEF DocsInv, Whole, RightDoc, Doc
<1> QED BY <1>1 DEF RightBench, Saw

\* Whatever sessions are killed or fail, and whenever the server comes round
\* to its own work: the searches a result timed ran, by the index it names, on
\* exactly the rows that the changes left (tools/db/bench.py).
THEOREM TimedOnTheRows == Spec => []SearchesCurrent
<1>1. Inv /\ DocsInv => SearchesCurrent
  <2>1. SUFFICES ASSUME Inv, DocsInv, Whole("bench"), NEW s \in Saw("timed")
                 PROVE  s.rows = LiveAfter /\ s.by = How(case.index)
                          /\ (case.index # "flat" => s.raw = {})
    BY DEF SearchesCurrent
  <2>2. RightSaw(case, s, Doc.left)
    BY <2>1, TimedRight
  <2>3. LiveAfter = LiveOf(case, ChangedBy(case))
    BY <2>1, RowsAre DEF Whole, Inv, RunsInv, DocsInv
  <2> QED BY <2>2, <2>3 DEF RightSaw
<1> QED BY <1>1, DocsAlways, PTL

\* With compacted 0 the timed searches walked over every version the change
\* left dead, with 1 over none or the result says what was left of them.
THEOREM TombstonesHold == Spec => []Tombstones
<1>1. Inv /\ DocsInv => Tombstones
  <2>1. SUFFICES ASSUME Inv, DocsInv, Whole("bench"), NEW s \in Saw("timed")
                 PROVE  IF case.compact THEN s.dead = {} \/ Doc.left > 0
                                        ELSE s.dead = Old(ChangedRows)
    BY DEF Tombstones
  <2>2. RightSaw(case, s, Doc.left)
    BY <2>1, TimedRight
  <2>3. ChangedRows = ChangedBy(case)
    BY <2>1, RowsAre DEF Whole, Inv, RunsInv, DocsInv
  <2> QED BY <2>2, <2>3 DEF RightSaw
<1> QED BY <1>1, DocsAlways, PTL

\* Whatever the threads of the load run, the inserter and the server do in
\* between: a result of tools/load/bench.py has an answer or the failure of
\* every query of the first pass, from no less than the rows of the build and
\* by the index; it counts every batch of the inserter; and the pass after the
\* inserts saw the rows counted as inserted and at most the failed ones more.
THEOREM CountsHold == Spec => []LoadCounts
<1>1. Inv /\ DocsInv => LoadCounts
  <2>1. SUFFICES ASSUME Inv, DocsInv, Whole("load") PROVE LoadCounts
    BY DEF LoadCounts
  <2>2. RightLoad(case, Doc)
    BY <2>1 DEF DocsInv, Whole, RightDoc, Doc
  <2>3. PICK late : late = IF case.rate > 0 THEN Later ELSE {}
    OBVIOUS
  <2>4. late = Late(case) /\ Row \ late = Early(case)
    BY <2>3 DEF Late, Early
  <2>5. \A q \in Queries :
            /\ Doc.first[q] # Unasked
            /\ Doc.first[q] # Failed =>
                   /\ Old(Row \ late) \subseteq Doc.first[q].saw.rows
                   /\ Doc.first[q].saw.by = How(case.index)
    BY <2>2, <2>4 DEF RightLoad, Answered, RightAnswer
  <2>6. Doc.inserted + Doc.errors = Cardinality(late)
    BY <2>2, <2>4 DEF RightLoad
  <2>7. \A s \in Saw("after_inserts") :
            Cardinality(s.rows) - Cardinality(Row \ late)
                \in Doc.inserted .. Doc.inserted + Doc.errors
    BY <2>2, <2>4 DEF RightLoad, RightCounts, Saw
  <2> QED BY <2>3, <2>5, <2>6, <2>7 DEF LoadCounts
<1> QED BY <1>1, DocsAlways, PTL

\* Whatever sessions are killed or fail at any step of the two stages and of
\* the host step between them, and whenever the server comes round to its own
\* work: a result of tools/backup/bench.py saw every row before the drop and
\* after the restore, by the index it names, and where no index was built
\* again it saw the same index.
THEOREM BackupsHold == Spec => []RestoreHolds
<1>1. Inv /\ DocsInv => RestoreHolds
  <2>1. SUFFICES ASSUME Inv, DocsInv, Whole("backup") PROVE RestoreHolds
    BY DEF RestoreHolds
  <2> DEFINE m == Cardinality(Queries)
             c == case
  <2>2. RightBackup(c, Doc)
    BY <2>1 DEF DocsInv, Whole, RightDoc, Doc
  <2>3. PICK g, h : SecondHalf(c, Doc, m, g, h)
    BY <2>2 DEF RightBackup
  <2> HIDE DEF m
  <2>4. PICK F : F = [b \in {g, h} |-> {Sight(c, b) : j \in 1 .. m}]
    OBVIOUS
  <2>5. Saw("run1") = F[g] /\ Saw("after_restore") = F[h]
    <3> DEFINE A == Sights("run1", c, m, g)
               B == Sights("after_restore", c, m, h)
    <3>1. Doc.searches = A \cup B
      BY <2>3 DEF SecondHalf, m
    <3>2. /\ \A t \in A : t.phase = "run1" /\ t.saw \in F[g]
          /\ \A t \in B : t.phase = "after_restore" /\ t.saw \in F[h]
      BY <2>4 DEF Sights
    <3>3. \A x \in F[g] : [phase |-> "run1", saw |-> x] \in A
      BY <2>4 DEF Sights
    <3>4. \A x \in F[h] : [phase |-> "after_restore", saw |-> x] \in B
      BY <2>4 DEF Sights
    <3> HIDE DEF A, B
    <3>5. /\ \A x \in Saw("run1") : x \in F[g]
          /\ \A x \in Saw("after_restore") : x \in F[h]
      BY <3>1, <3>2 DEF Saw
    <3>6. ASSUME NEW x \in F[g] PROVE x \in Saw("run1")
      <4> DEFINE t == [phase |-> "run1", saw |-> x]
      <4>1. t \in Doc.searches /\ t.phase = "run1" /\ t.saw = x
        BY <3>1, <3>3
      <4> HIDE DEF t
      <4> QED BY <4>1 DEF Saw
    <3>7. ASSUME NEW x \in F[h] PROVE x \in Saw("after_restore")
      <4> DEFINE t == [phase |-> "after_restore", saw |-> x]
      <4>1. t \in Doc.searches /\ t.phase = "after_restore" /\ t.saw = x
        BY <3>1, <3>4
      <4> HIDE DEF t
      <4> QED BY <4>1 DEF Saw
    <3> QED BY <3>5, <3>6, <3>7
  <2>6. \A b \in {g, h} : \A x \in F[b] :
            x.rows = Old(Row) /\ x.by = How(c.index)
    BY <2>4 DEF Sight, Seen
  <2>7. Doc.rows = << Cardinality(Row), Cardinality(Row) >>
    BY <2>2 DEF RightBackup, Count
  <2>8. ~Doc.rebuild => g = h
    BY <2>3 DEF SecondHalf
  <2> QED BY <2>5, <2>6, <2>7, <2>8 DEF RestoreHolds
<1> QED BY <1>1, DocsAlways, PTL

=============================================================================
