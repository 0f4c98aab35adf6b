------------------------ MODULE MCManagedContainers ------------------------
EXTENDS ManagedContainers, TLC

Symmetry == Permutations(Ids) \cup Permutations(Ops)

MCWorld == [c \in Confs |-> IF c = "s" THEN 1 ELSE 2]

Rank(n, c, r) == [node |-> n, name |-> c, managed |-> "true", conf |-> c,
                  rank |-> r, world |-> MCWorld[c], place |-> "here", running |-> TRUE]

\* Ranks of the cluster w, one of them unlabelled; the one-node s without its
\* node's label or with another node's; a rank of the retired r, which has no
\* released spec.
MCFound == {Rank(0, "w", 0), Rank(1, "w", 1),
            [Rank(1, "w", 1) EXCEPT !.managed = "no"],
            [Rank(0, "s", Single) EXCEPT !.place = "none"],
            [Rank(1, "s", Single) EXCEPT !.place = "elsewhere"],
            Rank(0, "r", 0)}

MCMenus == {{<<"cluster", "w", Unset>>, <<"launch", "w", Unset>>, <<"all", Unset, Unset>>},
            {<<"single", "s", Unset>>, <<"single", "s", 1>>, <<"launch", "s", 1>>},
            {<<"labels", "r", Unset>>, <<"labels", "r", 0>>}}
=============================================================================
