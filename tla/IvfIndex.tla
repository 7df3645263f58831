------------------------------- MODULE IvfIndex -------------------------------
(* The IVF index: each row is in the list of its best center, and a query    *)
(* scores the rows of the lists it probes (ivf.py).  Compact takes deleted   *)
(* rows out of the lists; the array keeps all rows.                          *)
EXTENDS RowIndex

CONSTANTS NList,    \* lists
          Centers   \* the trained center of each list

List == 0 .. NList - 1

ASSUME CentersAssumption ==
    NList \in Nat \ {0} /\ \A c \in List : Centers[c] \in Vector

VARIABLE lists     \* list_ids cut at the offsets: the rows of each list

InList(c) == ToSet(lists[c])
Listed == UNION {InList(c) : c \in List}

\* argmax: on equal scores the lower center.
BestCenter(v) ==
    CHOOSE c \in List : \A d \in List :
        \/ Dot(v, Centers[d]) < Dot(v, Centers[c])
        \/ Dot(v, Centers[d]) = Dot(v, Centers[c]) /\ c <= d

\* Lists from labels, ascending inside each list.
SetLists(label) ==
    [c \in List |-> Ascending({r \in DOMAIN label : label[r] = c})]

Labels == [r \in Listed |-> CHOOSE c \in List : r \in InList(c)]

IvfBuild ==
    /\ vectors' = Corpus /\ deleted' = Nil
    /\ lists' = SetLists([r \in Row |-> BestCenter(Corpus[r])])
    /\ UNCHANGED file

\* The best centers, best first.
Probed(q, nprobe) ==
    LET wanted == IF nprobe < NList THEN nprobe ELSE NList
    IN  TopK(Scores(q, [i \in 1 .. NList |-> Centers[i - 1]]),
             IF wanted < 1 THEN 1 ELSE wanted, [i \in 1 .. NList |-> i - 1])

IvfAnswer(q, name, nprobe) ==
    LET probe == Probed(q, nprobe)
        scanned == Concat([i \in DOMAIN probe |-> lists[probe[i]]])
        ids == Where(scanned, Passing(name, N) \ Bits(deleted))
    IN  TopK(Scores(q, [i \in DOMAIN ids |-> vectors[ids[i]]]), K, ids)

\* The mask takes the place of any earlier one.
IvfDelete(mask) == deleted' = mask /\ UNCHANGED <<vectors, file, lists>>

\* A row moves to the list of its new vector; one that is in no list stays
\* out.
IvfUpdate(u) ==
    /\ vectors' = Overwritten(u)
    /\ lists' = SetLists([r \in Listed |-> IF r \in DOMAIN u
                                           THEN BestCenter(u[r])
                                           ELSE Labels[r]])
    /\ UNCHANGED <<deleted, file>>

IvfCompact ==
    /\ lists' = SetLists([r \in Listed \ Bits(deleted) |-> Labels[r]])
    /\ deleted' = Nil
    /\ UNCHANGED <<vectors, file>>

\* A row in no list gets a tombstone.
IvfFile == [vectors |-> vectors, lists |-> lists,
            dead |-> (Row \ Listed) \cup Bits(deleted)]

IvfLoad ==
    /\ Read("ivf")
    /\ vectors' = file.content.vectors /\ lists' = file.content.lists
    /\ deleted' = FromBits(file.content.dead)
    /\ UNCHANGED file
=============================================================================
