----------------------------- MODULE Inventory -----------------------------
(***************************************************************************)
(* scripts/inventory.sh: what a snapshot of the nodes is taken to mean.    *)
(* The classifier is a second implementation of the ownership rules, in    *)
(* Python, next to the predicates of lib.sh that down.sh applies; the home *)
(* screen and the wizard offer only what this one calls safe.              *)
(*                                                                         *)
(* A snapshot is a set of rows [id, box] and the set of nodes that         *)
(* answered.  A container without labels has the rank of its --node-rank.  *)
(***************************************************************************)
EXTENDS ManagedContainers

Labelled(b) == b.managed # "no"

\* Containers that are neither labelled nor named like a profile's are no
\* concern of the inventory; other vLLM containers are not modelled.
Relevant(b) == Labelled(b) \/ b.name # Unset

Listing(n) == {[id |-> i, box |-> box[i]] : i \in
                 {j \in Exists : box[j].node = n /\ Relevant(box[j])}}

Expected(c) == IF World[c] = 1 THEN {Single} ELSE Ranks(c)

\* The node a labelled container must be on: its rank's, or the one its node-id
\* names.  Old local containers have no node-id.
ExpectedNode(b) ==
  CASE World[b.conf] > 1 -> b.rank
    [] World[b.conf] = 1 /\ b.place = "none" -> 0
    [] World[b.conf] = 1 /\ b.place = "here" -> b.node
    [] OTHER -> Unset

\* Mutant of Ownership: the node a labelled container is on is not compared.
OwnershipAnywhere(b) ==
  CASE ~Labelled(b) -> IF b.name \in Released THEN "legacy" ELSE "unknown"
    [] Labelled(b) /\ b.conf \in Released /\ b.rank \in Expected(b.conf) -> "managed"
    [] OTHER -> "mismatch"

Ownership(b) ==
  CASE ~Labelled(b) -> IF b.name \in Released THEN "legacy" ELSE "unknown"
    [] /\ Labelled(b) /\ b.conf \in Released
       /\ b.rank \in Expected(b.conf) /\ ExpectedNode(b) = b.node -> "managed"
    [] OTHER -> "mismatch"

\* The profile a row is counted for.
Group(b) == CASE Labelled(b) -> b.conf
              [] ~Labelled(b) /\ b.name \in Released -> b.name
              [] OTHER -> Unset

Rows(S, c) == {r \in S : Group(r.box) = c}

ServiceOwnership(M) ==
  LET kinds == {Ownership(r.box) : r \in M}
  IN IF Cardinality(kinds) = 1 THEN CHOOSE k \in kinds : TRUE ELSE "mixed"

Missing(M, c) == \E k \in Expected(c) : \A r \in M : r.box.rank # k
Doubled(M) == \E r, q \in M : r # q /\ (r.box.rank = q.box.rank \/ r.box.node = q.box.node)

\* The other nodes a profile's service needs that did not answer.
Deaf(c, ok) == IF World[c] = 1 THEN {} ELSE (Ranks(c) \ {0}) \ ok

State(M, c, ok) ==
  LET running == {r.box.running : r \in M}
      torn == \/ Doubled(M) \/ Deaf(c, ok) # {} \/ Cardinality(running) = 2
              \/ \E r \in M : Ownership(r.box) = "mismatch"
  IN CASE torn -> "degraded"
       [] ~torn /\ Missing(M, c) -> "partial"
       [] ~torn /\ ~Missing(M, c) /\ running = {FALSE} -> "stale"
       [] OTHER -> "running"

Complete(M, c, ok) == /\ ~Missing(M, c) /\ ~Doubled(M) /\ Deaf(c, ok) = {}
                      /\ ServiceOwnership(M) = "managed"

Running(M) == \E r \in M : r.box.running

\* What the home screen offers to stop, and to clean up.
StopEligible(S, ok, c) ==
  LET M == Rows(S, c) IN
  /\ M # {} /\ ServiceOwnership(M) = "managed" /\ Complete(M, c, ok)
  /\ State(M, c, ok) # "stale" /\ Running(M)

StaleEligible(S, ok, c) ==
  LET M == Rows(S, c) IN
  /\ M # {} /\ ServiceOwnership(M) = "managed" /\ State(M, c, ok) = "stale"

-----------------------------------------------------------------------------
(* What down.sh makes of the same containers.                              *)

Accepted(c) ==
  LET all == UNION {Named(n, c) : n \in IF World[c] = 1 THEN Nodes ELSE Ranks(c)}
  IN /\ \A p \in all : Proven(Box(p), c)
     /\ World[c] = 1 => Cardinality(all) <= 1

\* The two implementations of ownership agree: whatever the inventory of an
\* undisturbed moment offers to stop or clean, down.sh, which reads names and
\* labels of its own, neither refuses nor misses.
OfferedStopsProceed ==
  LET S == UNION {Listing(n) : n \in Nodes} IN
  \A c \in Released :
    StopEligible(S, Nodes, c) \/ StaleEligible(S, Nodes, c)
      => /\ Accepted(c)
         /\ \A r \in Rows(S, c) : r.box.name = c
=============================================================================
