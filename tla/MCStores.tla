------------------------------ MODULE MCStores ------------------------------
(* A small corpus for Stores: vectors of both signs, with equal scores.      *)
EXTENDS Stores

\* Rows 0 and 2 have equal vectors; centers 0 and 2 are equal.
SmallCorpus == [r \in Row |-> CASE r = 1 -> <<-1, 1>> [] r = 3 -> <<2, 1>>
                                [] OTHER -> <<1, 0>>]
ThreeCenters == [c \in List |-> IF c = 1 THEN <<-1, 1>> ELSE <<1, 0>>]

\* A row that moves to another list; three rows, and one behind the limit.
UpdateFiles == {0 :> <<-1, 0>>,
                (1 :> <<2, 2>>) @@ (2 :> <<-1, 1>>) @@ (3 :> <<1, -1>>)
                    @@ (N :> <<1, 1>>)}

\* Nested sets, one of them with a row behind the limit, the last with all.
DeleteFiles == {{0}, {0, 2, N}, Row}
FilterFiles == ("some" :> {0, 2, 3}) @@ ("few" :> {1, N})
Asked == {<<-1, 1>>, <<1, 2>>}

\* Two centroids each: coordinates of rows, means of them, and both equal.
Trained == {<<(0 :> 1) @@ (1 :> -1), (0 :> 0) @@ (1 :> 1)>>,
            <<(0 :> 2) @@ (1 :> 0), (0 :> 1) @@ (1 :> 1)>>}
=============================================================================
