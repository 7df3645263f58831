-------------------------------- MODULE Stores --------------------------------
(* Processes of the bench, one after another (bench.py): each builds or      *)
(* loads a flat or an IVF index, may delete or update, may compact, may      *)
(* save, and ends; it may be killed at any point.  They share one file.  An  *)
(* index with codes is only built and searched.                              *)
EXTENDS FlatIndex, PqIndex

CONSTANT MaxRuns   \* bound on the processes

\* What the files hold.
FlatContent == [vectors : [Row -> Vector], dead : SUBSET Row]
IvfContent == [vectors : [Row -> Vector], lists : [List -> Seq(Row)],
               dead : SUBSET Row]

Files == [index : {"flat"}, content : FlatContent, whole : BOOLEAN]
             \cup [index : {"ivf"}, content : IvfContent, whole : BOOLEAN]

ASSUME FileAssumption == MaxRuns \in Nat /\ Nil \notin Files

VARIABLES
    kind,          \* the index of the running process; or "none"
    stage,         \* how far it is
    runs           \* processes so far

vars == <<vectors, deleted, file, flatOwn, lists, pq, kind, stage, runs>>

Init ==
    /\ vectors = Nil /\ deleted = Nil /\ file = Nil
    /\ idMap = Nil /\ nOrig = Nil
    /\ filtered = NoCache /\ filteredRows = NoCache
    /\ lists = Nil /\ pq = Nil
    /\ kind = "none" /\ stage = "done" /\ runs = 0

Begin(k) ==
    /\ kind = "none" /\ kind' = k /\ stage' = "ready"
    /\ runs < MaxRuns /\ runs' = runs + 1

Build(k) ==
    /\ Begin(k)
    /\ \/ k = "flat" /\ FlatBuild /\ UNCHANGED <<lists, pq>>
       \/ k = "ivf" /\ IvfBuild /\ UNCHANGED <<flatOwn, pq>>
       \/ k = "pq" /\ PqBuild /\ UNCHANGED <<flatOwn, lists>>
       \/ k = "ivf_pq" /\ IvfPqBuild /\ UNCHANGED <<flatOwn, lists>>

\* Only these two have files.
Load(k) ==
    /\ Begin(k)
    /\ \/ k = "flat" /\ FlatLoad /\ UNCHANGED lists
       \/ k = "ivf" /\ IvfLoad /\ UNCHANGED flatOwn
    /\ UNCHANGED pq

\* The end of the process, by itself or by a signal.
Exit ==
    /\ kind # "none" /\ kind' = "none" /\ stage' = "done"
    /\ vectors' = Nil /\ deleted' = Nil /\ lists' = Nil /\ pq' = Nil
    /\ idMap' = Nil /\ nOrig' = Nil /\ Pop
    /\ UNCHANGED <<file, runs>>

Step(from, to) ==
    /\ kind \in {"flat", "ivf"} /\ stage \in from /\ stage' = to
    /\ UNCHANGED <<kind, runs, pq>>

\* Precondition: the sets of one corpus are nested, and one that is applied to
\* a loaded index holds the rows that are deleted in it.
Nested(mask) == Bits(deleted) \subseteq mask

\* A change comes first, and one process makes only one.
Delete ==
    /\ Step({"ready"}, "changed")
    /\ \E m \in Masks :
         /\ Nested(DeleteMask(m, N))
         /\ \/ /\ kind = "flat" /\ FlatDelete(DeleteMask(m, N))
               /\ UNCHANGED lists
            \/ /\ kind = "ivf" /\ IvfDelete(DeleteMask(m, N))
               /\ UNCHANGED flatOwn

Update ==
    /\ Step({"ready"}, "changed")
    /\ \E u \in Updates :
         \/ /\ kind = "flat" /\ FlatUpdate(UpdateSet(u, N))
            /\ UNCHANGED lists
         \/ /\ kind = "ivf" /\ IvfUpdate(UpdateSet(u, N))
            /\ UNCHANGED flatOwn

Compact ==
    /\ Step({"changed"}, "compacted")
    /\ \/ kind = "flat" /\ FlatCompact /\ UNCHANGED lists
       \/ kind = "ivf" /\ IvfCompact /\ UNCHANGED flatOwn

BeginSave ==
    /\ Step({"ready", "changed", "compacted"}, "saving")
    /\ \/ kind = "flat" /\ BeginWrite("flat", FlatFile)
       \/ kind = "ivf" /\ BeginWrite("ivf", IvfFile)
    /\ UNCHANGED <<vectors, deleted, flatOwn, lists>>

EndSave ==
    /\ Step({"saving"}, "done") /\ EndWrite
    /\ UNCHANGED <<vectors, deleted, flatOwn, lists>>

\* The bench searches at its end; other callers search between the calls too.
Search ==
    /\ kind = "flat" /\ \E name \in Names : FlatSearch(name)
    /\ UNCHANGED <<lists, pq, kind, stage, runs>>

Next == \/ \E k \in {"flat", "ivf", "pq", "ivf_pq"} : Build(k)
        \/ \E k \in {"flat", "ivf"} : Load(k)
        \/ Exit \/ Delete \/ Update \/ Compact \/ BeginSave \/ EndSave
        \/ Search

Spec == Init /\ [][Next]_vars

-----------------------------------------------------------------------------
(* What must hold.                                                         *)

Served == {p \in DOMAIN vectors : p \notin Bits(deleted)}

Contents ==
    CASE kind = "flat" ->
           [r \in {RowAt(p) : p \in Served} |->
               vectors[CHOOSE p \in Served : RowAt(p) = r]]
      [] kind = "ivf" -> [r \in Listed \ Bits(deleted) |-> vectors[r]]
      [] OTHER -> vectors

Kept(content) ==
    LET there == IF file.index = "flat" THEN DOMAIN content.vectors
                 ELSE UNION {ToSet(content.lists[c]) : c \in List}
    IN  [r \in there \ content.dead |-> content.vectors[r]]

Saved == IF ~Open THEN Nil ELSE Kept(file.content)

Promise == INSTANCE RowStore WITH store <- Contents, saved <- Saved

\* Both indexes hold the rows that a plain store of rows would hold, across
\* deletes, updates, compactions, saves, loads, kills and processes (CONTRACT
\* 15.1: an index loaded from a file is complete).
Implements == Promise!Spec

\* The k rows with the highest scores, by the definition.
BestRows(score, k) ==
    LET S == DOMAIN score
        Above(r) == {x \in S : \/ score[x] > score[r]
                               \/ score[x] = score[r] /\ x < r}
        Nth == [i \in 0 .. Cardinality(S) - 1 |->
                  CHOOSE r \in S : Cardinality(Above(r)) = i]
    IN  [i \in 1 .. k |-> IF i > Cardinality(S) THEN -1 ELSE Nth[i - 1]]

\* The rows whose best center is among the nprobe best, of which there is one
\* at least.
Near(held, q, nprobe) ==
    LET wanted == IF nprobe = 0 THEN 1 ELSE nprobe
        best == BestRows([c \in List |-> Dot(q, Centers[c])], wanted)
    IN  {r \in DOMAIN held : BestCenter(held[r]) \in ToSet(best)}

BestOf(S, held, q) == BestRows([r \in S |-> Dot(q, held[r])], K)

\* The vectors that the codes stand for.
Decoded ==
    IF kind = "pq"
    THEN [r \in Row |-> [j \in Sub |-> pq.books[j][pq.codes[r][j]]]]
    ELSE [r \in Row |->
            LET center == Centers[BestCenter(Corpus[r])]
                code == Encode(pq.metric, pq.books, Minus(Corpus[r], center))
            IN  [j \in Sub |-> center[j] + pq.books[j][code[j]]]]

\* The best of S by their codes, or the best of those by their vectors.
BestCoded(S, q, rerank) ==
    LET coded == [r \in S |-> Exact(q, Decoded[r])]
        first == ToSet(BestRows(coded, rerank)) \ {-1}
    IN  IF rerank = 0 THEN BestRows(coded, K)
        ELSE BestRows([r \in first |-> Exact(q, Corpus[r])], K)

\* search: a flat index returns the best of the rows it holds and the filter
\* admits, whatever it has cached; an IVF index the best of those whose best
\* center it probes.  With codes these are the rows whose decoded vectors are
\* the best in the metric of the index, whatever tables and order of rows the
\* scores come from, and after a rerank those with the best vectors.
AnswersRight ==
    \A q \in Queries :
        LET held == Contents
        IN  CASE kind = "flat" ->
                   \A name \in Names :
                      FlatAnswer(q, name)
                          = BestOf(DOMAIN held \cap Passing(name, N), held, q)
              [] kind = "ivf" ->
                   \A nprobe \in 0 .. NList + 1 :
                      LET near == Near(held, q, nprobe)
                      IN  \A name \in Names :
                             IvfAnswer(q, name, nprobe)
                                 = BestOf(near \cap Passing(name, N), held, q)
              [] kind = "pq" ->
                   \A rerank \in 0 .. N + 1 :
                      PqAnswer(q, rerank) = BestCoded(Row, q, rerank)
              [] kind = "ivf_pq" ->
                   \A nprobe \in 0 .. NList + 1 :
                      LET near == Near(held, q, nprobe)
                      IN  \A rerank \in 0 .. N + 1 :
                             IvfPqAnswer(q, nprobe, rerank)
                                 = BestCoded(near, q, rerank)
              [] OTHER -> TRUE
=============================================================================
