---------------------------- MODULE MCHotBudget ----------------------------
EXTENDS HotBudget
Sizes == [m \in Models |-> IF m = "small" THEN 1 ELSE 2]
\* The home of the large model has another revision, or stray blobs.
Hubs == [m \in Models |-> IF m = "small" THEN 1 ELSE 3]
FirstRank == [m \in Models |-> IF m = "small" THEN 0 ELSE 1]
=============================================================================
