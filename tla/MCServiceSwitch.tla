-------------------------- MODULE MCServiceSwitch --------------------------
EXTENDS ServiceSwitch, TLC

Symmetry == Permutations(Ids)

MCWorld == [c \in Confs |-> IF c = "w" THEN 2 ELSE 1]

Of(c, n, r) == [node |-> n, name |-> c, managed |-> "true", conf |-> c, rank |-> r,
                world |-> MCWorld[c], place |-> "here", running |-> TRUE]

\* The cluster w, the one-node s and t, an s that names another node, and a
\* container of s from before there were labels.
MCFound == {Of("w", 0, 0), Of("w", 1, 1), Of("s", 0, Single), Of("t", 1, Single),
            [Of("t", 0, Single) EXCEPT !.running = FALSE],
            [Of("s", 1, Single) EXCEPT !.place = "elsewhere"],
            [Of("s", 1, Single) EXCEPT !.managed = "no"]}

MCMenus == {{<<"cluster", "w", Unset>>}}

MCSessions == {<<"stop", Unset, Unset>>, <<"clean", Unset, Unset>>,
               <<"switch", "w", Unset>>, <<"switch", "t", 1>>}
=============================================================================
