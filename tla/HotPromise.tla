----------------------------- MODULE HotPromise -----------------------------
(***************************************************************************)
(* What the hot views of one service promise to whoever launches it: the   *)
(* service is usable or it is not, as a whole; it starts only while it is  *)
(* usable; and the program withdraws it only when no rank uses it and      *)
(* offers it again only when no rank uses it and nothing is pinned.        *)
(***************************************************************************)
EXTENDS Naturals

CONSTANT Ranks

VARIABLES
  usable,    \* every rank's view is ready and intact
  users,     \* ranks with a container of the service
  pins,      \* ranks whose view is pinned
  disturbed  \* how often a view was lost or damaged outside the program

vars == <<usable, users, pins, disturbed>>

Init ==
  /\ usable = FALSE
  /\ users = {}
  /\ pins = {}
  /\ disturbed = 0

Offer ==
  /\ ~usable /\ users = {} /\ pins = {}
  /\ usable' = TRUE
  /\ UNCHANGED <<users, pins, disturbed>>

Withdraw ==
  /\ usable /\ users = {}
  /\ usable' = FALSE
  /\ pins' \in SUBSET pins
  /\ UNCHANGED <<users, disturbed>>

\* What is left of a service that is not usable may go rank by rank.
Discard ==
  /\ ~usable
  /\ pins' \in SUBSET pins
  /\ UNCHANGED <<usable, users, disturbed>>

Start(r) ==
  /\ usable \/ disturbed > 0
  /\ users' = users \cup {r}
  /\ UNCHANGED <<usable, pins, disturbed>>

Stop(r) ==
  /\ users' = users \ {r}
  /\ UNCHANGED <<usable, pins, disturbed>>

SetPin(r) ==
  /\ usable \/ disturbed > 0
  /\ pins' \in {pins \cup {r}, pins \ {r}}
  /\ UNCHANGED <<usable, users, disturbed>>

Disturb ==
  /\ disturbed' = disturbed + 1
  /\ usable' \in {usable, FALSE}
  /\ pins' \in SUBSET pins
  /\ UNCHANGED users

Next ==
  \/ Offer \/ Withdraw \/ Discard \/ Disturb
  \/ \E r \in Ranks : Start(r) \/ Stop(r) \/ SetPin(r)

Spec == Init /\ [][Next]_vars
=============================================================================
