------------------------------ MODULE FlatIndex ------------------------------
(* The flat index: every row is scored (flat.py).  Compact copies the live   *)
(* rows to a new array and keeps a map from positions to rows; a saved file  *)
(* has all rows again.  Per filter the index caches the rows that pass.      *)
EXTENDS RowIndex

VARIABLES
    idMap,         \* index["id_map"]: the row at each position; or Nil
    nOrig,         \* index["n_orig"]: rows before Compact; or Nil
    filtered,      \* index["filtered"]: by filter, the positions that pass
    filteredRows   \* index["filtered_rows"]: by filter, their vectors

flatOwn == <<idMap, nOrig, filtered, filteredRows>>

n == Cardinality(DOMAIN vectors)

RowAt(p) == IF idMap = Nil THEN p ELSE idMap[p]

NoCache == [x \in {} |-> << >>]

\* Mutant: the rows of a filter are gathered once and for all.
PopNone == UNCHANGED <<filtered, filteredRows>>

Pop == filtered' = NoCache /\ filteredRows' = NoCache

FlatBuild ==
    /\ vectors' = Corpus /\ deleted' = Nil
    /\ idMap' = Nil /\ nOrig' = Nil /\ Pop
    /\ UNCHANGED file

\* The positions a search may return: from the cache, if they are there.  The
\* filter is asked for the row.
Allowed(name) ==
    IF name \in DOMAIN filtered THEN filtered[name]
    ELSE Ascending({p \in DOMAIN vectors :
            /\ RowAt(p) \in Passing(name, IF nOrig = Nil THEN n ELSE nOrig)
            /\ p \notin Bits(deleted)})

All(name) == name = "none" /\ deleted = Nil

At(pos) == [i \in DOMAIN pos |-> vectors[pos[i]]]

\* Without tombstones, the vectors of a filter's rows are gathered once.
Gathered(name) ==
    IF deleted = Nil /\ name \in DOMAIN filteredRows THEN filteredRows[name]
    ELSE At(Allowed(name))

FlatAnswer(q, name) ==
    LET pos == IF All(name) THEN [i \in 1 .. n |-> i - 1] ELSE Allowed(name)
        rows == IF All(name) THEN At(pos) ELSE Gathered(name)
    IN  TopK(Scores(q, rows), K, [i \in DOMAIN pos |-> RowAt(pos[i])])

\* cache[name] = value
Put(cache, name, value) ==
    [x \in DOMAIN cache \cup {name} |-> IF x = name THEN value ELSE cache[x]]

\* What a search leaves behind.
FlatSearch(name) ==
    /\ IF All(name) THEN UNCHANGED <<filtered, filteredRows>>
       ELSE /\ filtered' = Put(filtered, name, Allowed(name))
            /\ IF deleted # Nil THEN UNCHANGED filteredRows
               ELSE filteredRows' = Put(filteredRows, name, Gathered(name))
    /\ UNCHANGED <<vectors, deleted, file, idMap, nOrig>>

Own == nOrig' = IF nOrig = Nil THEN n ELSE nOrig

\* The mask takes the place of any earlier one.
FlatDelete(mask) ==
    /\ Own /\ deleted' = mask /\ Pop
    /\ UNCHANGED <<vectors, file, idMap>>

\* A compacted index raises an error.
FlatUpdate(u) ==
    /\ idMap = Nil
    /\ Own /\ vectors' = Overwritten(u) /\ Pop
    /\ UNCHANGED <<deleted, file, idMap>>

FlatCompact ==
    /\ Own /\ Pop
    /\ IF deleted = Nil THEN UNCHANGED <<vectors, idMap>>
       ELSE LET live == Ascending(DOMAIN vectors \ deleted)
                rows == 0 .. Len(live) - 1
            IN  /\ vectors' = [p \in rows |-> vectors[live[p + 1]]]
                /\ idMap' = [p \in rows |-> RowAt(live[p + 1])]
    /\ deleted' = Nil
    /\ UNCHANGED file

\* Mutant: the rows that Compact dropped get no tombstone.
FlatFileBare ==
    IF idMap = Nil THEN [vectors |-> vectors, dead |-> Bits(deleted)]
    ELSE [vectors |-> [r \in 0 .. nOrig - 1 |->
              IF \E p \in DOMAIN idMap : idMap[p] = r
              THEN vectors[CHOOSE p \in DOMAIN idMap : idMap[p] = r]
              ELSE Zero],
          dead |-> {}]

\* After Compact all rows are written: a dropped one as a zero vector with a
\* tombstone.
FlatFile ==
    IF idMap = Nil THEN [vectors |-> vectors, dead |-> Bits(deleted)]
    ELSE LET full == 0 .. nOrig - 1
             Pos(r) == {p \in DOMAIN idMap : idMap[p] = r}
             lives == {r \in full : Pos(r) # {}}
             Vec(r) == vectors[CHOOSE p \in Pos(r) : TRUE]
         IN  [vectors |-> [r \in full |-> IF r \in lives THEN Vec(r) ELSE Zero],
              dead |-> {r \in full : Pos(r) \subseteq Bits(deleted)}]

FlatLoad ==
    /\ Read("flat")
    /\ vectors' = file.content.vectors
    /\ deleted' = FromBits(file.content.dead)
    /\ nOrig' = IF deleted' = Nil THEN Nil ELSE Cardinality(DOMAIN vectors')
    /\ idMap' = Nil /\ Pop
    /\ UNCHANGED file
=============================================================================
