------------------------------ MODULE MCDiskAnn ------------------------------
(* Five rows around a circle for DiskAnn, any start graph, two queries.      *)
EXTENDS DiskAnn

\* Every row has any two others.
AnyStart ==
    {[x \in Row |-> <<(x + f[x][1]) % N, (x + f[x][2]) % N>>] :
        f \in [Row -> {<<a, b>> \in (1 .. N - 1) \X (1 .. N - 1) : a < b}]}

\* Places on a line, not in the order of the rows; no two pairs of a row are
\* equally far apart.
Places == <<0, 13, 5, 25, 8>>
Line == [x \in Row |-> [y \in Row |->
            1000 - (Places[x + 1] - Places[y + 1])
                     * (Places[x + 1] - Places[y + 1])]]

\* An estimate that is near the scores, and one that is not and has ties.
Questions ==
    {[exact |-> Line[1], pq |-> [x \in Row |-> Line[1][x] \div 100]],
     [exact |-> Line[3], pq |-> [x \in Row |-> x % 2]]}
=============================================================================
