------------------------- MODULE ServiceSwitch_proofs -------------------------
(***************************************************************************)
(* Part I: what holds of the commands on managed containers for any number *)
(* of nodes, shells, profiles and containers: only what is proven is       *)
(* removed, a refusal removes nothing, and nothing is removed while a node *)
(* that may hold a rank has not answered.                                  *)
(*                                                                         *)
(* Part II: what holds of a session beside them: what it offers to stop    *)
(* can be stopped, it stops one running service at most, and it launches   *)
(* only where what ran before has ended.  A snapshot stays good for one    *)
(* thing only: a container that existed when it was taken and still exists *)
(* is as it was, except that it may have stopped since.  So what the       *)
(* snapshot shows stopped is stopped (SesKnows).                           *)
(***************************************************************************)
EXTENDS ServiceSwitch, WellFoundedInduction, FiniteSetTheorems, TLAPS

-----------------------------------------------------------------------------
(* I. Commands.                                                            *)

ByName == {"cluster", "single", "launch"}

Heard(c) == c.mute \cap Needed(c) = {}

\* If the container of pair p still exists it is on that node, and its labels
\* allow c to remove it.
Rightful(c, p, bx) ==
  p[2] \in DOMAIN bx =>
    LET b == bx[p[2]] IN
    /\ b.node = p[1]
    /\ c.kind \in ByName => Proven(b, c.conf)
    /\ c.kind = "labels" => Stoppable(b) /\ b.conf = c.conf
    /\ c.kind = "all" => Stoppable(b)
IdsOK(c, bx) == \A p \in c.ids : Rightful(c, p, bx)
OwnOK(c, bx) == \A p \in c.own : p[2] \in DOMAIN bx => bx[p[2]].node = p[1]

\* What a command that is about to remove has established.
Removing(c, bx) ==
  /\ IdsOK(c, bx) /\ Heard(c)
  /\ c.kind # "all" => c.look = {} /\ c.todo = {} /\ c.rc = 0
  /\ c.kind = "all" => c.mute = {}

\* What holds at every step of a command, ...
Base(c, bx, u) ==
  /\ c \in Commands /\ c.kind # "idle"
  /\ c.kind \in {"cluster", "launch"} => c.conf \in Confs
  /\ c.kind = "cluster" => World[c.conf] > 1
  /\ c.kind = "launch" => World[c.conf] > 1 \/ c.at \in Nodes
  /\ OwnOK(c, bx)
  /\ c.mute \cap u = {}
  /\ c.gone # {} => Heard(c)
  /\ c.kind # "all" /\ c.gone # {} => c.rc # 2

\* ... and at one place of it.
Fresh0(c) == c.rc = 0 /\ c.gone = {} /\ c.look = {}
Phase(c, bx) ==
  /\ c.pc = "probe" => /\ Fresh0(c) /\ IdsOK(c, bx)
                       /\ c.kind \in {"cluster", "launch"} /\ Wide(c)
                       /\ c.mute \cap Ranks(c.conf) \subseteq c.todo
  /\ c.pc = "confirm" => /\ c.rc = 0 /\ c.gone = {} /\ c.todo = {}
                         /\ IdsOK(c, bx) /\ Heard(c)
                         /\ c.kind \in {"cluster", "launch"} /\ Wide(c)
  /\ c.pc = "discover" => /\ Fresh0(c) /\ c.kind = "single" /\ c.at = Unset
                          /\ c.mute \subseteq c.todo
  /\ c.pc = "named" => /\ Fresh0(c) /\ c.ids = {}
                       /\ c.kind = "single" \/ (c.kind = "launch" /\ ~Wide(c))
                       /\ IF c.at = Unset THEN c.mute = {} ELSE c.todo = {c.at}
  /\ c.pc = "endpoints" => /\ Fresh0(c) /\ c.ids = {} /\ c.kind \in {"labels", "all"}
                           /\ c.mute \subseteq c.todo
  /\ c.pc \in {"list", "inspect"} =>
       /\ IdsOK(c, bx) /\ c.kind \in {"labels", "all"}
       /\ c.kind = "labels" => c.gone = {} /\ c.rc # 1
       /\ \/ c.mute = {}
          \/ Count = 1 /\ c.kind = "all" /\ c.ids = {} /\ c.look = {}
  /\ c.pc = "recheck" => c.kind # "cluster"
  /\ c.pc \in {"recheck", "remove", "absent"} => Removing(c, bx)
  /\ c.pc = "verify" => c.kind = "cluster" /\ c.rc = 0
  /\ c.pc \in {"start", "wait", "abort"} => c.kind = "launch" /\ c.rc = 0
  /\ c.pc = "abort" => c.ids \subseteq c.own
  /\ c.pc # "idle"

Good(c, bx, u) == c = Nobody \/ (Base(c, bx, u) /\ Phase(c, bx))

Inv ==
  /\ DOMAIN box \subseteq Ids /\ \A i \in Exists : box[i] \in Boxes
  /\ up \subseteq Nodes
  /\ trouble \in 0 .. MaxTrouble
  /\ menu \in Menus
  /\ cmd = [o \in Ops |-> cmd[o]]
  /\ \A o \in Ops : Good(cmd[o], box, up)

-----------------------------------------------------------------------------
(* The smallest of a set of nodes.                                         *)

LEMMA NodesNat == Nodes \subseteq Nat
  BY CountAssumption DEF Nodes

LEMMA MinIn == ASSUME NEW S, S \subseteq Nodes, S # {} PROVE Min(S) \in S
<1>1. PICK x \in S : \A y \in S : ~(<<y, x>> \in OpToRel(<, Nat))
  BY NatLessThanWellFounded, WFMin, NodesNat
<1>2. ASSUME NEW y \in S PROVE x <= y
  <2>1. x \in Nat /\ y \in Nat BY NodesNat
  <2>2. ~(y < x) BY <1>1, <2>1 DEF OpToRel
  <2> QED BY <2>1, <2>2
<1> QED BY <1>2 DEF Min

LEMMA MinOne == ASSUME NEW n \in Nodes PROVE Min({n}) = n
  BY MinIn

LEMMA LowestIn ==
  ASSUME NEW S, S \subseteq Pairs, S # {} PROVE Lowest(S) \in Nodes
<1>1. {p[1] : p \in S} \subseteq Nodes /\ {p[1] : p \in S} # {}
  BY DEF Pairs
<1> QED BY <1>1, MinIn DEF Lowest

-----------------------------------------------------------------------------
(* Moving through a command.                                               *)

\* Ending is right at any place, with a refusal only before the first removal.
LEMMA EndedGood ==
  ASSUME NEW c, NEW bx, NEW u, Base(c, bx, u), NEW r \in 0 .. 2,
         c.kind # "all" /\ c.gone # {} => r # 2
  PROVE  Good(Ended(c, r), bx, u)
<1> DEFINE d == Ended(c, r)
<1>1. d \in Commands
  <2>1. Merge(c.rc, r) \in 0 .. 2 BY DEF Merge, Commands, Base
  <2>2. (IF Merge(c.rc, r) = 0 THEN c.seen ELSE {}) \in SUBSET Ids BY DEF Commands, Base
  <2> QED BY <2>1, <2>2 DEF Ended, Commands, Base
<1>2. /\ d.kind = c.kind /\ d.conf = c.conf /\ d.at = c.at /\ d.gone = c.gone
      /\ d.own = {} /\ d.mute = {} /\ d.pc = "ended" /\ d.rc = Merge(c.rc, r)
  BY DEF Ended, Commands, Base
<1>3. c.kind # "all" /\ c.gone # {} => d.rc # 2
  BY <1>2 DEF Base, Merge, Commands
<1> HIDE DEF d
<1>4. Base(d, bx, u)
  BY <1>1, <1>2, <1>3 DEF Base, OwnOK, Heard
<1>5. Phase(d, bx) BY <1>2 DEF Phase
<1> QED BY <1>4, <1>5 DEF Good, d

\* A wide profile's nodes are confirmed ones.
LEMMA RanksAreNodes == ASSUME NEW c \in Confs PROVE Ranks(c) \subseteq Nodes
  BY ConfsAssumption, CountAssumption DEF Ranks, Nodes

\* With nothing left to remove, a launch starts, a cluster stop looks again
\* and every other stop ends.
LEMMA ClearedGood ==
  ASSUME NEW c, NEW bx, NEW u, Base(c, bx, u),
         c.kind \in {"cluster", "launch"} => c.rc = 0
  PROVE  Good(Cleared(c), bx, u)
<1>1. CASE c.kind = "cluster"
  <2> DEFINE d == [c EXCEPT !.pc = "verify", !.todo = Ranks(c.conf)]
  <2>1. Cleared(c) = d BY <1>1 DEF Cleared
  <2>2. d \in Commands
    <3>1. Ranks(c.conf) \in SUBSET Nodes BY <1>1, RanksAreNodes DEF Base
    <3> QED BY <3>1 DEF Base, Commands
  <2>3. /\ d.kind = "cluster" /\ d.conf = c.conf /\ d.at = c.at /\ d.gone = c.gone
        /\ d.own = c.own /\ d.mute = c.mute /\ d.pc = "verify" /\ d.rc = c.rc
    BY <1>1 DEF Base, Commands
  <2> HIDE DEF d
  <2>4. Base(d, bx, u) BY <1>1, <2>2, <2>3 DEF Base, OwnOK, Heard, Needed, Wide
  <2>5. Phase(d, bx) BY <1>1, <2>3 DEF Phase
  <2> QED BY <2>1, <2>4, <2>5 DEF Good
<1>2. CASE c.kind = "launch"
  <2> DEFINE t == IF Wide(c) THEN Ranks(c.conf) ELSE {c.at}
             d == [c EXCEPT !.pc = "start", !.todo = t]
  <2>1. Cleared(c) = d BY <1>2 DEF Cleared
  <2>2. d \in Commands
    <3>1. Ranks(c.conf) \in SUBSET Nodes BY <1>2, RanksAreNodes DEF Base
    <3>2. ~Wide(c) => c.at \in Nodes BY <1>2, ConfsAssumption DEF Base, Wide
    <3>3. t \in SUBSET Nodes BY <3>1, <3>2
    <3> HIDE DEF t
    <3> QED BY <3>3 DEF Base, Commands
  <2>3. /\ d.kind = "launch" /\ d.conf = c.conf /\ d.at = c.at /\ d.gone = c.gone
        /\ d.own = c.own /\ d.mute = c.mute /\ d.pc = "start" /\ d.rc = c.rc
    BY <1>2 DEF Base, Commands
  <2> HIDE DEF d, t
  <2>4. Base(d, bx, u) BY <1>2, <2>2, <2>3 DEF Base, OwnOK, Heard, Needed, Wide
  <2>5. Phase(d, bx) BY <1>2, <2>3 DEF Phase
  <2> QED BY <2>1, <2>4, <2>5 DEF Good
<1>3. CASE c.kind \notin {"cluster", "launch"}
  <2>1. Cleared(c) = Ended(c, 0) BY <1>3 DEF Cleared
  <2> QED BY <2>1, EndedGood
<1> QED BY <1>1, <1>2, <1>3

\* A command that goes on to another place, with the rest as it is.
LEMMA MovedBase ==
  ASSUME NEW c, NEW bx, NEW u, Base(c, bx, u),
         NEW pc \in {"inspect", "list", "recheck", "remove", "confirm", "absent"},
         NEW d, d = [c EXCEPT !.pc = pc]
  PROVE  /\ Base(d, bx, u)
         /\ d.kind = c.kind /\ d.conf = c.conf /\ d.at = c.at /\ d.gone = c.gone
         /\ d.own = c.own /\ d.mute = c.mute /\ d.pc = pc /\ d.rc = c.rc
         /\ d.todo = c.todo /\ d.look = c.look /\ d.ids = c.ids
<1>1. d \in Commands BY DEF Base, Commands
<1>2. /\ d.kind = c.kind /\ d.conf = c.conf /\ d.at = c.at /\ d.gone = c.gone
      /\ d.own = c.own /\ d.mute = c.mute /\ d.pc = pc /\ d.rc = c.rc
      /\ d.todo = c.todo /\ d.look = c.look /\ d.ids = c.ids
  BY DEF Base, Commands
<1>3. Base(d, bx, u) BY <1>1, <1>2 DEF Base, OwnOK, Heard, Needed, Wide
<1> QED BY <1>2, <1>3

\* A stop goes on to the next container or node, to the first removal, or to
\* its end; where it removes by name there is nothing more to list.
LEMMA AdvancedGood ==
  ASSUME NEW c, NEW bx, NEW u, Base(c, bx, u), IdsOK(c, bx),
         c.kind \in ByName => c.look = {} /\ c.todo = {} /\ c.rc = 0 /\ Heard(c),
         c.kind = "labels" => c.mute = {} /\ (c.gone = {} \/ (c.look = {} /\ c.todo = {})),
         c.kind = "labels" /\ c.rc # 0 => c.rc = 2 /\ c.gone = {},
         c.kind = "all" => \/ c.mute = {}
                           \/ Count = 1 /\ c.ids = {} /\ c.look = {}
  PROVE  Good(Advanced(c), bx, u)
<1>k. c.kind \in {"cluster", "single", "labels", "all", "launch"} /\ c.rc \in 0 .. 2
  BY DEF Base, Commands
<1>1. ASSUME NEW pc \in {"inspect", "list"}, c.kind \in {"labels", "all"},
             c.kind = "labels" => c.gone = {} /\ c.rc # 1
      PROVE  Good([c EXCEPT !.pc = pc], bx, u)
  <2> DEFINE d == [c EXCEPT !.pc = pc]
  <2>1. /\ Base(d, bx, u) /\ d.pc = pc /\ d.kind = c.kind /\ d.conf = c.conf
        /\ d.ids = c.ids /\ d.look = c.look /\ d.mute = c.mute /\ d.gone = c.gone /\ d.rc = c.rc
    BY MovedBase
  <2> HIDE DEF d
  <2>2. IdsOK(d, bx) BY <2>1 DEF IdsOK, Rightful
  <2>3. Phase(d, bx) BY <1>1, <2>1, <2>2 DEF Phase
  <2> QED BY <2>1, <2>3 DEF Good, d
<1>2. ASSUME NEW pc \in {"recheck", "remove"}, pc = "recheck" => c.kind # "cluster",
             c.look = {}, c.todo = {}, c.ids # {}, c.kind = "labels" => c.rc # 2
      PROVE  Good([c EXCEPT !.pc = pc], bx, u)
  <2> DEFINE d == [c EXCEPT !.pc = pc]
  <2>1. /\ Base(d, bx, u) /\ d.pc = pc /\ d.kind = c.kind /\ d.conf = c.conf /\ d.at = c.at
        /\ d.ids = c.ids /\ d.look = c.look /\ d.mute = c.mute /\ d.todo = c.todo /\ d.rc = c.rc
    BY MovedBase
  <2> HIDE DEF d
  <2>2. IdsOK(d, bx) BY <2>1 DEF IdsOK, Rightful
  <2>3. Heard(c) BY <1>k, <1>2 DEF Heard, ByName
  <2>4. Heard(d) BY <2>1, <2>3 DEF Heard, Needed, Wide
  <2>5. Removing(d, bx)
    BY <1>k, <1>2, <2>1, <2>2, <2>4 DEF Removing, ByName
  <2>6. Phase(d, bx) BY <1>2, <2>1, <2>5 DEF Phase
  <2> QED BY <2>1, <2>6 DEF Good, d
<1>3. CASE c.look # {}
  <2>1. Advanced(c) = [c EXCEPT !.pc = "inspect"] BY <1>3 DEF Advanced
  <2> QED BY <1>k, <1>1, <1>3, <2>1 DEF ByName
<1>4. CASE c.look = {} /\ c.todo # {}
  <2>1. Advanced(c) = [c EXCEPT !.pc = "list"] BY <1>4 DEF Advanced
  <2> QED BY <1>k, <1>1, <1>4, <2>1 DEF ByName
<1>5. CASE c.look = {} /\ c.todo = {} /\ c.kind = "labels" /\ c.rc = 2
  <2>1. Advanced(c) = Ended(c, 2) BY <1>5 DEF Advanced
  <2> QED BY <1>5, <2>1, EndedGood
<1>6. CASE c.look = {} /\ c.todo = {} /\ ~(c.kind = "labels" /\ c.rc = 2) /\ c.ids # {}
  <2>1. Advanced(c) = [c EXCEPT !.pc = IF c.kind = "labels" THEN "recheck" ELSE "remove"]
    BY <1>6 DEF Advanced
  <2>2. CASE c.kind = "labels" BY <1>2, <1>6, <2>1, <2>2
  <2>3. CASE c.kind # "labels" BY <1>2, <1>6, <2>1, <2>3
  <2> QED BY <2>2, <2>3
<1>7. CASE c.look = {} /\ c.todo = {} /\ ~(c.kind = "labels" /\ c.rc = 2) /\ c.ids = {}
  <2>1. Advanced(c) = Cleared(c) BY <1>7 DEF Advanced
  <2> QED BY <2>1, ClearedGood DEF ByName
<1> QED BY <1>3, <1>4, <1>5, <1>6, <1>7

-----------------------------------------------------------------------------
(* Steps that read.                                                        *)

LEMMA SameBase ==
  ASSUME NEW c, NEW d, NEW bx, NEW u, Base(c, bx, u), d \in Commands,
         d.kind = c.kind, d.conf = c.conf, d.at = c.at, d.gone = c.gone,
         d.own = c.own, d.mute = c.mute,
         c.kind # "all" /\ c.gone # {} => d.rc # 2
  PROVE  Base(d, bx, u) /\ Heard(d) = Heard(c)
  BY DEF Base, OwnOK, Heard, Needed, Wide

LEMMA SameIds ==
  ASSUME NEW c, NEW d, NEW bx, IdsOK(c, bx),
         d.kind = c.kind, d.conf = c.conf, d.ids \subseteq c.ids
  PROVE  IdsOK(d, bx)
  BY DEF IdsOK, Rightful

LEMMA Here ==
  ASSUME Inv, NEW o \in Ops, cmd[o].pc # "idle"
  PROVE  Base(cmd[o], box, up) /\ Phase(cmd[o], box)
  BY DEF Inv, Good, Nobody

LEMMA ReadInv ==
  ASSUME Inv, NEW o \in Ops, NEW d, Good(d, box, up), Becomes(o, d),
         UNCHANGED <<box, up, trouble, menu>>
  PROVE  Inv'
<1>1. cmd' = [q \in Ops |-> cmd'[q]] /\ \A q \in Ops : cmd'[q] = IF q = o THEN d ELSE cmd[q]
  BY DEF Becomes, Inv
<1>2. \A q \in Ops : Good(cmd'[q], box, up)
  BY <1>1 DEF Inv
<1>3. \A q \in Ops : Good(cmd[q], box, up)'
  BY <1>2
<1> QED BY <1>1, <1>3 DEF Inv, Exists

LEMMA ParsedOK ==
  ASSUME Inv, NEW k \in {"cluster", "single", "labels", "all", "launch"},
         NEW f \in Confs \cup {Unset}, NEW at \in Nodes \cup {Unset}
  PROVE  LET c == Parsed(k, f, at) IN
         /\ c \in Commands
         /\ c.kind = k /\ c.conf = f /\ c.at = at /\ c.mute = Nodes \ up /\ c.rc = 0
         /\ c.own = {} /\ c.gone = {} /\ c.look = {} /\ c.ids = {} /\ c.todo = {}
<1> DEFINE c == Parsed(k, f, at)
<1>1. Nobody \in Commands BY DEF Nobody, Commands
<1>2. Aimed(k, f, at) \in SUBSET Ids BY DEF Aimed, Exists, Inv
<1>3. c \in Commands BY <1>1, <1>2 DEF Commands, Parsed
<1>4. /\ c.kind = k /\ c.conf = f /\ c.at = at /\ c.mute = Nodes \ up /\ c.rc = 0
      /\ c.own = {} /\ c.gone = {} /\ c.look = {} /\ c.ids = {} /\ c.todo = {}
  BY DEF Nobody, Parsed
<1> QED BY <1>3, <1>4

\* A command that may be given begins well.
LEMMA BegunGood ==
  ASSUME Inv, NEW k, NEW f, NEW at, Sensible(<<k, f, at>>)
  PROVE  Good(Begun(k, f, at), box, up)
<1>2. /\ Sensible(<<k, f, at>>) /\ k \in {"cluster", "single", "labels", "all", "launch"}
      /\ f \in Confs \cup {Unset} /\ at \in Nodes \cup {Unset}
  BY DEF Sensible
<1> DEFINE c == Parsed(k, f, at)
<1>3. /\ c \in Commands
      /\ c.kind = k /\ c.conf = f /\ c.at = at /\ c.mute = Nodes \ up /\ c.rc = 0
      /\ c.own = {} /\ c.gone = {} /\ c.look = {} /\ c.ids = {} /\ c.todo = {}
  BY <1>2, ParsedOK
<1> DEFINE D(pc, t) == [c EXCEPT !.pc = pc, !.todo = t]
<1>5. Begun(k, f, at) = FirstStep(c) BY DEF Begun
<1> HIDE DEF c
<1>6. Base(c, box, up)
  BY <1>2, <1>3, ConfsAssumption DEF Base, Sensible, OwnOK
<1>7. ASSUME NEW pc \in {"probe", "discover", "named", "list", "endpoints"},
             NEW t \in SUBSET Nodes
      PROVE  LET d == D(pc, t) IN
             /\ Base(d, box, up) /\ d.pc = pc /\ d.todo = t /\ Heard(d) = Heard(c)
             /\ d.kind = k /\ d.conf = f /\ d.at = at /\ d.mute = Nodes \ up /\ d.rc = 0
             /\ d.gone = {} /\ d.look = {} /\ d.ids = {} /\ IdsOK(d, box)
  <2> DEFINE d == D(pc, t)
  <2>1. d \in Commands BY <1>3, <1>7 DEF Commands
  <2>2. /\ d.pc = pc /\ d.todo = t /\ d.own = {}
        /\ d.kind = k /\ d.conf = f /\ d.at = at /\ d.mute = Nodes \ up /\ d.rc = 0
        /\ d.gone = {} /\ d.look = {} /\ d.ids = {}
    BY <1>3, <1>7 DEF Commands
  <2> HIDE DEF D
  <2> QED BY <1>3, <1>6, <2>1, <2>2, SameBase DEF IdsOK
<1> HIDE DEF D
<1>8. CASE k \in {"cluster", "launch"} /\ Wide(c)
  <2>1. f \in Confs /\ Ranks(f) \in SUBSET Nodes BY <1>3, <1>6, <1>8, RanksAreNodes DEF Base
  <2> DEFINE d == D("probe", Ranks(f))
  <2>2. FirstStep(c) = d BY <1>3, <1>8 DEF FirstStep, D
  <2>3. /\ Base(d, box, up) /\ d.pc = "probe" /\ d.todo = Ranks(f) /\ IdsOK(d, box)
        /\ d.kind = k /\ d.conf = f /\ d.rc = 0 /\ d.gone = {} /\ d.look = {}
    BY <1>7, <2>1
  <2> HIDE DEF d
  <2>4. Phase(d, box) BY <1>3, <1>8, <2>3 DEF Phase, Fresh0, Wide
  <2> QED BY <1>5, <2>2, <2>3, <2>4 DEF Good
<1>9. CASE k = "single" /\ at = Unset
  <2> DEFINE d == D("discover", Nodes)
  <2>2. FirstStep(c) = d BY <1>3, <1>9 DEF FirstStep, D
  <2>3. /\ Base(d, box, up) /\ d.pc = "discover" /\ d.todo = Nodes /\ d.mute = Nodes \ up
        /\ d.kind = k /\ d.at = at /\ d.rc = 0 /\ d.gone = {} /\ d.look = {}
    BY <1>7
  <2> HIDE DEF d
  <2>4. Phase(d, box) BY <1>9, <2>3 DEF Phase, Fresh0
  <2> QED BY <1>5, <2>2, <2>3, <2>4 DEF Good
<1>10. CASE (k = "single" \/ (k = "launch" /\ ~Wide(c))) /\ at # Unset
  <2> DEFINE d == D("named", {at})
  <2>1. {at} \in SUBSET Nodes BY <1>2, <1>10
  <2>2. FirstStep(c) = d BY <1>3, <1>10 DEF FirstStep, D
  <2>3. /\ Base(d, box, up) /\ d.pc = "named" /\ d.todo = {at} /\ d.ids = {}
        /\ d.kind = k /\ d.conf = f /\ d.at = at /\ d.rc = 0 /\ d.gone = {} /\ d.look = {}
    BY <1>7, <2>1
  <2> HIDE DEF d
  <2>4. Phase(d, box) BY <1>3, <1>10, <2>3 DEF Phase, Fresh0, Wide
  <2> QED BY <1>5, <2>2, <2>3, <2>4 DEF Good
<1>11. CASE k \in {"labels", "all"}
  <2> DEFINE d == D("list", Nodes)
             e == D("endpoints", Nodes)
  <2>1. CASE k = "all" /\ Count = 1
    <3>1. FirstStep(c) = d BY <1>3, <2>1 DEF FirstStep, D
    <3>2. /\ Base(d, box, up) /\ d.pc = "list" /\ d.ids = {} /\ IdsOK(d, box)
          /\ d.kind = k /\ d.gone = {} /\ d.look = {}
      BY <1>7
    <3> HIDE DEF d
    <3>3. Phase(d, box) BY <2>1, <3>2 DEF Phase
    <3> QED BY <1>5, <3>1, <3>2, <3>3 DEF Good
  <2>2. CASE ~(k = "all" /\ Count = 1)
    <3>1. FirstStep(c) = e BY <1>3, <1>11, <2>2 DEF FirstStep, D
    <3>2. /\ Base(e, box, up) /\ e.pc = "endpoints" /\ e.ids = {} /\ e.todo = Nodes
          /\ e.kind = k /\ e.gone = {} /\ e.look = {} /\ e.rc = 0 /\ e.mute = Nodes \ up
      BY <1>7
    <3> HIDE DEF e
    <3>3. Phase(e, box) BY <1>11, <3>2 DEF Phase, Fresh0
    <3> QED BY <1>5, <3>1, <3>2, <3>3 DEF Good
  <2> QED BY <2>1, <2>2
<1>12. \/ k \in {"cluster", "launch"} /\ Wide(c)
       \/ k = "single" /\ at = Unset
       \/ (k = "single" \/ (k = "launch" /\ ~Wide(c))) /\ at # Unset
       \/ k \in {"labels", "all"}
  <2>1. k = "cluster" => Wide(c) BY <1>2, <1>3 DEF Sensible, Wide
  <2>2. k = "launch" /\ ~Wide(c) => at # Unset
    <3>1. ASSUME k = "launch", ~Wide(c) PROVE World[f] = 1
      BY <1>2, <1>3, <3>1, ConfsAssumption DEF Sensible, Wide
    <3> QED BY <1>2, <3>1 DEF Sensible
  <2> QED BY <1>2, <2>1, <2>2
<1> QED BY <1>8, <1>9, <1>10, <1>11, <1>12

\* Reading steps leave everything but the command alone.
LEMMA AskInv == ASSUME Inv, NEW o \in Ops, Ask(o) PROVE Inv'
<1>1. PICK r \in menu : Becomes(o, Begun(r[1], r[2], r[3]))
  BY DEF Ask
<1>2. Sensible(r) BY MenusAssumption DEF Inv
<1>3. r = <<r[1], r[2], r[3]>> BY <1>2 DEF Sensible
<1>4. Sensible(<<r[1], r[2], r[3]>>) BY <1>2, <1>3
<1>5. Good(Begun(r[1], r[2], r[3]), box, up) BY <1>4, BegunGood
<1> QED BY <1>1, <1>5, ReadInv DEF Ask

LEMMA DoneInv == ASSUME Inv, NEW o \in Ops, Done(o) PROVE Inv'
  BY ReadInv DEF Done, Good

\* Of a named container of n the pair's own box is the one named.
LEMMA NamedBox ==
  ASSUME Inv, NEW n \in Nodes, NEW c, NEW p \in Named(n, c)
  PROVE  p \in Pairs /\ p[1] = n /\ p[2] \in Exists /\ Box(p).node = n
  BY DEF Named, Inv, Pairs, Box, Exists

LEMMA ShownHit ==
  ASSUME NEW S, NEW hit \in Shown(S) PROVE hit = S \/ hit = {}
  BY DEF Shown

\* A command that ends where it reads.
LEMMA EndInv ==
  ASSUME Inv, NEW o \in Ops, cmd[o].pc # "idle", NEW r \in 0 .. 2,
         cmd[o].kind # "all" /\ cmd[o].gone # {} => r # 2,
         Becomes(o, Ended(cmd[o], r)), UNCHANGED <<box, up, trouble, menu>>
  PROVE  Inv'
  BY Here, EndedGood, ReadInv

LEMMA UnansweredInv == ASSUME Inv, NEW o \in Ops, Unanswered(o) PROVE Inv'
<1> DEFINE c == cmd[o]
<1>0. UNCHANGED <<box, up, trouble, menu>> BY DEF Unanswered
<1>1. ASSUME NEW d, c.pc \in {"list", "inspect", "recheck"}, d \in Commands,
             d.kind = c.kind, d.conf = c.conf, d.at = c.at, d.gone = c.gone, d.own = c.own,
             d.mute = c.mute, d.ids \subseteq c.ids, d.look \subseteq c.look,
             Becomes(o, IF c.kind = "all" THEN Advanced([d EXCEPT !.rc = 1]) ELSE Ended(c, 1))
      PROVE  Inv'
  <2>1. Base(c, box, up) /\ Phase(c, box) BY <1>1, Here
  <2>2. IdsOK(c, box) BY <1>1, <2>1 DEF Phase, Removing
  <2>3. CASE c.kind = "all"
    <3> DEFINE e == [d EXCEPT !.rc = 1]
    <3>1. e \in Commands BY <1>1 DEF Commands
    <3>2. /\ e.kind = c.kind /\ e.conf = c.conf /\ e.at = c.at /\ e.gone = c.gone
          /\ e.own = c.own /\ e.mute = c.mute /\ e.ids \subseteq c.ids
          /\ e.look \subseteq c.look
      BY <1>1 DEF Commands
    <3> HIDE DEF e
    <3>3. Base(e, box, up) BY <2>1, <2>3, <3>1, <3>2, SameBase
    <3>4. IdsOK(e, box) BY <2>2, <3>2, SameIds
    <3>5. e.mute = {} \/ (Count = 1 /\ e.ids = {} /\ e.look = {})
      BY <1>1, <2>1, <2>3, <3>2 DEF Phase, Removing
    <3>6. Good(Advanced(e), box, up) BY <2>3, <3>2, <3>3, <3>4, <3>5, AdvancedGood DEF ByName
    <3> QED BY <1>0, <1>1, <2>3, <3>6, ReadInv DEF e
  <2>4. CASE c.kind # "all" BY <1>0, <1>1, <2>4, EndInv
  <2> QED BY <2>3, <2>4
<1>2. CASE /\ c.pc \in {"probe", "confirm", "discover", "named", "endpoints", "verify"}
           /\ Becomes(o, Ended(c, 1))
  BY <1>0, <1>2, EndInv
<1> DEFINE Go(d) == Becomes(o, IF c.kind = "all" THEN Advanced([d EXCEPT !.rc = 1]) ELSE Ended(c, 1))
<1>c. ASSUME c.pc # "idle" PROVE c \in Commands BY <1>c, Here DEF Base
<1>3. CASE c.pc = "list" /\ Go([c EXCEPT !.todo = @ \ {Asked(c)}])
  <2> DEFINE d == [c EXCEPT !.todo = @ \ {Asked(c)}]
  <2>1. /\ d \in Commands /\ d.kind = c.kind /\ d.conf = c.conf /\ d.at = c.at
        /\ d.gone = c.gone /\ d.own = c.own /\ d.mute = c.mute /\ d.ids = c.ids
        /\ d.look = c.look
    BY <1>3, <1>c DEF Commands
  <2>2. Go(d) BY <1>3
  <2> HIDE DEF d
  <2> QED BY <1>1, <1>3, <2>1, <2>2
<1>4. ASSUME NEW p \in c.look, c.pc = "inspect", Go([c EXCEPT !.look = @ \ {p}]) PROVE Inv'
  <2> DEFINE d == [c EXCEPT !.look = @ \ {p}]
  <2>1. /\ d \in Commands /\ d.kind = c.kind /\ d.conf = c.conf /\ d.at = c.at
        /\ d.gone = c.gone /\ d.own = c.own /\ d.mute = c.mute /\ d.ids = c.ids
        /\ d.look \subseteq c.look
    BY <1>4, <1>c DEF Commands
  <2>2. Go(d) BY <1>4
  <2> HIDE DEF d
  <2> QED BY <1>1, <1>4, <2>1, <2>2
<1>5. ASSUME NEW p \in Current(c), c.pc = "recheck", Go([c EXCEPT !.ids = @ \ {p}]) PROVE Inv'
  <2> DEFINE d == [c EXCEPT !.ids = @ \ {p}]
  <2>1. /\ d \in Commands /\ d.kind = c.kind /\ d.conf = c.conf /\ d.at = c.at
        /\ d.gone = c.gone /\ d.own = c.own /\ d.mute = c.mute /\ d.ids \subseteq c.ids
        /\ d.look = c.look
    BY <1>5, <1>c DEF Commands
  <2>2. Go(d) BY <1>5
  <2> HIDE DEF d
  <2> QED BY <1>1, <1>5, <2>1, <2>2
<1> QED BY <1>2, <1>3, <1>4, <1>5 DEF Unanswered

\* An answering node has not been silent since.
LEMMA AnswersHeard ==
  ASSUME NEW c, NEW bx, Base(c, bx, up), NEW n \in up PROVE n \notin c.mute
  BY DEF Base

LEMMA ProbeInv == ASSUME Inv, NEW o \in Ops, Probe(o) PROVE Inv'
<1> DEFINE c == cmd[o]
           n == Asked(c)
<1>1. /\ c.pc = "probe" /\ n \in up /\ UNCHANGED <<box, up, trouble, menu>>
      /\ n \in Nodes
  BY DEF Probe, Reading, Inv
<1>2. Base(c, box, up) /\ Phase(c, box) BY <1>1, Here
<1>3. /\ Fresh0(c) /\ IdsOK(c, box) /\ c.kind \in {"cluster", "launch"} /\ Wide(c)
      /\ c.mute \cap Ranks(c.conf) \subseteq c.todo
  BY <1>1, <1>2 DEF Phase
<1>4. PICK hit \in Shown(Named(n, c.conf)) :
        Becomes(o, IF \A p \in hit : Owned(Box(p), c.conf, n)
                     THEN LET d == [c EXCEPT !.todo = @ \ {n}, !.ids = @ \cup hit] IN
                          CASE d.todo # {} -> d
                            [] d.todo = {} /\ d.ids # {} -> [d EXCEPT !.pc = "confirm", !.look = d.ids]
                            [] OTHER -> Cleared(d)
                     ELSE Ended(c, 2))
  BY DEF Probe
<1>5. \A p \in hit : p \in Pairs /\ p[1] = n /\ p[2] \in Exists /\ Box(p).node = n
  BY <1>1, NamedBox, ShownHit
<1>6. CASE ~\A p \in hit : Owned(Box(p), c.conf, n)
  BY <1>1, <1>3, <1>4, <1>6, EndInv DEF Fresh0
<1>7. CASE \A p \in hit : Owned(Box(p), c.conf, n)
  <2> DEFINE d == [c EXCEPT !.todo = @ \ {n}, !.ids = @ \cup hit]
  <2>1. d \in Commands BY <1>2, <1>5 DEF Base, Commands
  <2>2. /\ d.kind = c.kind /\ d.conf = c.conf /\ d.at = c.at /\ d.gone = c.gone /\ d.rc = c.rc
        /\ d.own = c.own /\ d.mute = c.mute /\ d.ids = c.ids \cup hit /\ d.look = c.look
        /\ d.pc = "probe" /\ d.todo = c.todo \ {n}
    BY <1>1, <1>2 DEF Base, Commands
  <2>3. Becomes(o, CASE d.todo # {} -> d
                     [] d.todo = {} /\ d.ids # {} -> [d EXCEPT !.pc = "confirm", !.look = d.ids]
                     [] OTHER -> Cleared(d))
    BY <1>4, <1>7
  <2> HIDE DEF d
  <2>4. Base(d, box, up) /\ Heard(d) = Heard(c)
    BY <1>2, <1>3, <2>1, <2>2, SameBase DEF Fresh0
  <2>5. IdsOK(d, box)
    <3>1. ASSUME NEW p \in hit PROVE Rightful(d, p, box)
      <4>1. Proven(box[p[2]], c.conf)
        BY <1>3, <1>5, <1>7 DEF Proven, Wide, Box
      <4> QED BY <1>3, <1>5, <2>2, <4>1 DEF Rightful, Box
    <3>2. ASSUME NEW p \in c.ids PROVE Rightful(d, p, box)
      BY <1>3, <2>2 DEF IdsOK, Rightful
    <3> QED BY <2>2, <3>1, <3>2 DEF IdsOK
  <2>6. d.mute \cap Ranks(d.conf) \subseteq d.todo
    BY <1>1, <1>2, <1>3, <2>2, AnswersHeard
  <2>7. CASE d.todo # {}
    <3>1. Phase(d, box) BY <1>3, <2>2, <2>5, <2>6 DEF Phase, Fresh0, Wide
    <3> QED BY <1>1, <2>3, <2>4, <2>7, <3>1, ReadInv DEF Good
  <2>8. CASE d.todo = {} /\ d.ids # {}
    <3> DEFINE e == [d EXCEPT !.pc = "confirm", !.look = d.ids]
    <3>1. e \in Commands BY <2>1 DEF Commands
    <3>2. /\ e.kind = d.kind /\ e.conf = d.conf /\ e.at = d.at /\ e.gone = d.gone /\ e.rc = d.rc
          /\ e.own = d.own /\ e.mute = d.mute /\ e.ids = d.ids
          /\ e.pc = "confirm" /\ e.todo = d.todo
      BY <2>1 DEF Commands
    <3>3. Becomes(o, e) BY <2>3, <2>8
    <3> HIDE DEF e
    <3>4. Base(e, box, up) /\ Heard(e) = Heard(d)
      BY <1>3, <2>2, <2>4, <3>1, <3>2, SameBase DEF Fresh0
    <3>5. Heard(d) BY <1>3, <2>2, <2>6, <2>8 DEF Heard, Needed, Wide
    <3>6. IdsOK(e, box) BY <2>5, <3>2, SameIds
    <3>7. Phase(e, box) BY <1>3, <2>2, <2>8, <3>2, <3>4, <3>5, <3>6 DEF Phase, Fresh0, Wide
    <3> QED BY <1>1, <3>3, <3>4, <3>7, ReadInv DEF Good
  <2>9. CASE d.todo = {} /\ d.ids = {}
    <3>1. Becomes(o, Cleared(d)) BY <2>3, <2>9
    <3> QED BY <1>1, <1>3, <2>2, <2>4, <3>1, ClearedGood, ReadInv DEF Fresh0
  <2> QED BY <2>7, <2>8, <2>9
<1> QED BY <1>6, <1>7

LEMMA PresentBox ==
  ASSUME NEW p \in Pairs, Present(p) # {}
  PROVE  p[2] \in Exists /\ Box(p).node = p[1]
  BY DEF Present, Exists, Box, Pairs

LEMMA ConfirmInv == ASSUME Inv, NEW o \in Ops, Confirm(o) PROVE Inv'
<1> DEFINE c == cmd[o]
<1>1. c.pc = "confirm" /\ UNCHANGED <<box, up, trouble, menu>>
  BY DEF Confirm, Reading
<1>2. Base(c, box, up) /\ Phase(c, box) BY <1>1, Here
<1>3. /\ c.rc = 0 /\ c.gone = {} /\ c.todo = {} /\ IdsOK(c, box) /\ Heard(c)
      /\ c.kind \in {"cluster", "launch"} /\ Wide(c)
  BY <1>1, <1>2 DEF Phase
<1>4. PICK p \in c.look : 
        \/ Becomes(o, [c EXCEPT !.look = @ \ {p},
                                !.pc = IF c.look = {p} THEN "remove" ELSE "confirm"])
        \/ Becomes(o, Ended(c, 2))
  BY DEF Confirm
<1>5. CASE Becomes(o, Ended(c, 2)) BY <1>1, <1>3, <1>5, EndInv
<1>6. CASE Becomes(o, [c EXCEPT !.look = @ \ {p},
                                !.pc = IF c.look = {p} THEN "remove" ELSE "confirm"])
  <2> DEFINE pc == IF c.look = {p} THEN "remove" ELSE "confirm"
             d == [c EXCEPT !.look = @ \ {p}, !.pc = pc]
  <2>1. d \in Commands BY <1>2 DEF Base, Commands
  <2>2. /\ d.kind = c.kind /\ d.conf = c.conf /\ d.at = c.at /\ d.gone = c.gone /\ d.rc = c.rc
        /\ d.own = c.own /\ d.mute = c.mute /\ d.ids = c.ids /\ d.look = c.look \ {p}
        /\ d.pc = pc /\ d.todo = c.todo
    BY <1>2 DEF Base, Commands
  <2> HIDE DEF d
  <2>3. Base(d, box, up) /\ Heard(d) BY <1>2, <1>3, <2>1, <2>2, SameBase
  <2>4. IdsOK(d, box) BY <1>3, <2>2, SameIds
  <2>5. Phase(d, box)
    <3>1. CASE pc = "remove"
      <4>1. d.look = {} BY <2>2, <3>1
      <4>2. Removing(d, box) BY <1>3, <2>2, <2>3, <2>4, <4>1 DEF Removing
      <4> QED BY <2>2, <3>1, <4>2 DEF Phase
    <3>2. CASE pc = "confirm"
      BY <1>3, <2>2, <2>3, <2>4, <3>2 DEF Phase, Wide
    <3> QED BY <3>1, <3>2
  <2> QED BY <1>1, <1>6, <2>3, <2>5, ReadInv DEF Good, d
<1> QED BY <1>4, <1>5, <1>6

LEMMA DiscoverInv == ASSUME Inv, NEW o \in Ops, Discover(o) PROVE Inv'
<1> DEFINE c == cmd[o]
           n == Asked(c)
<1>1. /\ c.pc = "discover" /\ n \in up /\ UNCHANGED <<box, up, trouble, menu>>
      /\ n \in Nodes
  BY DEF Discover, Reading, Inv
<1>2. Base(c, box, up) /\ Phase(c, box) BY <1>1, Here
<1>3. Fresh0(c) /\ c.kind = "single" /\ c.at = Unset /\ c.mute \subseteq c.todo
  BY <1>1, <1>2 DEF Phase
<1>4. PICK hit \in Shown(Named(n, c.conf)) :
        \/ Becomes(o, Ended(c, 2))
        \/ Becomes(o, LET d == [c EXCEPT !.todo = @ \ {n}, !.ids = @ \cup hit] IN
                      CASE d.todo # {} -> d
                        [] d.todo = {} /\ d.ids # {} ->
                             [d EXCEPT !.pc = "named", !.todo = {Lowest(d.ids)}, !.ids = {}]
                        [] OTHER -> Ended(d, 0))
  BY DEF Discover
<1>5. \A p \in hit : p \in Pairs
  BY <1>1, NamedBox, ShownHit
<1>6. CASE Becomes(o, Ended(c, 2)) BY <1>1, <1>3, <1>6, EndInv DEF Fresh0
<1>7. CASE Becomes(o, LET d == [c EXCEPT !.todo = @ \ {n}, !.ids = @ \cup hit] IN
                      CASE d.todo # {} -> d
                        [] d.todo = {} /\ d.ids # {} ->
                             [d EXCEPT !.pc = "named", !.todo = {Lowest(d.ids)}, !.ids = {}]
                        [] OTHER -> Ended(d, 0))
  <2> DEFINE d == [c EXCEPT !.todo = @ \ {n}, !.ids = @ \cup hit]
  <2>1. d \in Commands BY <1>2, <1>5 DEF Base, Commands
  <2>2. /\ d.kind = c.kind /\ d.conf = c.conf /\ d.at = c.at /\ d.gone = c.gone /\ d.rc = c.rc
        /\ d.own = c.own /\ d.mute = c.mute /\ d.ids = c.ids \cup hit /\ d.look = c.look
        /\ d.pc = "discover" /\ d.todo = c.todo \ {n}
    BY <1>1, <1>2 DEF Base, Commands
  <2>3. Becomes(o, CASE d.todo # {} -> d
                     [] d.todo = {} /\ d.ids # {} ->
                          [d EXCEPT !.pc = "named", !.todo = {Lowest(d.ids)}, !.ids = {}]
                     [] OTHER -> Ended(d, 0))
    BY <1>7
  <2> HIDE DEF d
  <2>4. Base(d, box, up) /\ d.mute \subseteq d.todo
    BY <1>1, <1>2, <1>3, <2>1, <2>2, SameBase, AnswersHeard DEF Fresh0
  <2>5. CASE d.todo # {}
    <3>1. Phase(d, box) BY <1>3, <2>2, <2>4 DEF Phase, Fresh0
    <3> QED BY <1>1, <2>3, <2>4, <2>5, <3>1, ReadInv DEF Good
  <2>6. CASE d.todo = {} /\ d.ids # {}
    <3> DEFINE l == Lowest(d.ids)
               e == [d EXCEPT !.pc = "named", !.todo = {l}, !.ids = {}]
    <3>1. l \in Nodes BY <2>1, <2>6, LowestIn DEF Commands
    <3> HIDE DEF l
    <3>2. e \in Commands BY <2>1, <3>1 DEF Commands
    <3>3. /\ e.kind = d.kind /\ e.conf = d.conf /\ e.at = d.at /\ e.gone = d.gone /\ e.rc = d.rc
          /\ e.own = d.own /\ e.mute = d.mute /\ e.ids = {} /\ e.look = d.look
          /\ e.pc = "named"
      BY <2>1 DEF Commands
    <3>4. Becomes(o, e) BY <2>3, <2>6 DEF l
    <3> HIDE DEF e
    <3>5. Base(e, box, up) BY <1>3, <2>2, <2>4, <3>2, <3>3, SameBase DEF Fresh0
    <3>6. Phase(e, box) BY <1>3, <2>2, <2>4, <2>6, <3>3 DEF Phase, Fresh0
    <3> QED BY <1>1, <3>4, <3>5, <3>6, ReadInv DEF Good
  <2>7. CASE d.todo = {} /\ d.ids = {}
    <3>1. Becomes(o, Ended(d, 0)) BY <2>3, <2>7
    <3> QED BY <1>1, <2>4, <3>1, EndedGood, ReadInv
  <2> QED BY <2>5, <2>6, <2>7
<1> QED BY <1>4, <1>6, <1>7

LEMMA ResolveInv == ASSUME Inv, NEW o \in Ops, Resolve(o) PROVE Inv'
<1> DEFINE c == cmd[o]
           n == Asked(c)
<1>1. /\ c.pc = "named" /\ n \in up /\ UNCHANGED <<box, up, trouble, menu>>
      /\ n \in Nodes
  BY DEF Resolve, Reading, Inv
<1>2. Base(c, box, up) /\ Phase(c, box) BY <1>1, Here
<1>3. /\ Fresh0(c) /\ c.ids = {} /\ (c.kind = "single" \/ (c.kind = "launch" /\ ~Wide(c)))
      /\ IF c.at = Unset THEN c.mute = {} ELSE c.todo = {c.at}
  BY <1>1, <1>2 DEF Phase
<1>4. PICK hit \in Shown(Named(n, c.conf)) :
        Becomes(o, CASE hit = {} -> Cleared([c EXCEPT !.todo = {}])
                     [] \E p \in hit : ~Proven(Box(p), c.conf) -> Ended(c, 2)
                     [] OTHER -> [c EXCEPT !.pc = "recheck", !.todo = {}, !.ids = hit])
  BY DEF Resolve
<1>5. \A p \in hit : p \in Pairs /\ p[1] = n /\ p[2] \in Exists /\ Box(p).node = n
  BY <1>1, NamedBox, ShownHit
<1>6. Heard(c)
  <2>1. CASE c.at = Unset BY <1>3, <2>1 DEF Heard
  <2>2. CASE c.at # Unset
    <3>1. c.at \in Nodes BY <1>2, <2>2 DEF Base, Commands
    <3>2. n = c.at BY <1>1, <1>3, <2>2, <3>1, MinOne DEF Asked
    <3> QED BY <1>1, <1>2, <1>3, <2>2, <3>2, AnswersHeard DEF Heard, Needed
  <2> QED BY <2>1, <2>2
<1>7. CASE hit = {}
  <2> DEFINE d == [c EXCEPT !.todo = {}]
  <2>1. d \in Commands BY <1>2 DEF Base, Commands
  <2>2. /\ d.kind = c.kind /\ d.conf = c.conf /\ d.at = c.at /\ d.gone = c.gone /\ d.rc = c.rc
        /\ d.own = c.own /\ d.mute = c.mute
    BY <1>2 DEF Base, Commands
  <2>3. Becomes(o, Cleared(d)) BY <1>4, <1>7
  <2> HIDE DEF d
  <2>4. Base(d, box, up) BY <1>2, <1>3, <2>1, <2>2, SameBase DEF Fresh0
  <2> QED BY <1>1, <1>3, <2>2, <2>3, <2>4, ClearedGood, ReadInv DEF Fresh0
<1>8. CASE \E p \in hit : ~Proven(Box(p), c.conf)
  <2>1. Becomes(o, Ended(c, 2)) BY <1>4, <1>8
  <2> QED BY <1>1, <1>3, <2>1, EndInv DEF Fresh0
<1>9. CASE hit # {} /\ \A p \in hit : Proven(Box(p), c.conf)
  <2> DEFINE d == [c EXCEPT !.pc = "recheck", !.todo = {}, !.ids = hit]
  <2>1. d \in Commands BY <1>2, <1>5 DEF Base, Commands
  <2>2. /\ d.kind = c.kind /\ d.conf = c.conf /\ d.at = c.at /\ d.gone = c.gone /\ d.rc = c.rc
        /\ d.own = c.own /\ d.mute = c.mute /\ d.ids = hit /\ d.look = c.look
        /\ d.pc = "recheck" /\ d.todo = {}
    BY <1>2 DEF Base, Commands
  <2>3. Becomes(o, d) BY <1>4, <1>9
  <2> HIDE DEF d
  <2>4. Base(d, box, up) /\ Heard(d) BY <1>2, <1>3, <1>6, <2>1, <2>2, SameBase DEF Fresh0
  <2>5. IdsOK(d, box) BY <1>3, <1>5, <1>9, <2>2 DEF IdsOK, Rightful, Box
  <2>6. Phase(d, box) BY <1>3, <2>2, <2>4, <2>5 DEF Phase, Fresh0, Removing
  <2> QED BY <1>1, <2>3, <2>4, <2>6, ReadInv DEF Good
<1> QED BY <1>7, <1>8, <1>9

LEMMA EndpointInv == ASSUME Inv, NEW o \in Ops, Endpoint(o) PROVE Inv'
<1> DEFINE c == cmd[o]
           n == Asked(c)
<1>1. /\ c.pc = "endpoints" /\ n \in up /\ UNCHANGED <<box, up, trouble, menu>>
      /\ Becomes(o, IF c.todo = {n} THEN [c EXCEPT !.pc = "list", !.todo = Nodes]
                                    ELSE [c EXCEPT !.todo = @ \ {n}])
  BY DEF Endpoint, Reading
<1>2. Base(c, box, up) /\ Phase(c, box) BY <1>1, Here
<1>3. Fresh0(c) /\ c.ids = {} /\ c.kind \in {"labels", "all"} /\ c.mute \subseteq c.todo
  BY <1>1, <1>2 DEF Phase
<1> HIDE DEF n
<1>4. CASE c.todo = {n}
  <2> DEFINE d == [c EXCEPT !.pc = "list", !.todo = Nodes]
  <2>1. d \in Commands BY <1>2 DEF Base, Commands
  <2>2. /\ d.kind = c.kind /\ d.conf = c.conf /\ d.at = c.at /\ d.gone = c.gone /\ d.rc = c.rc
        /\ d.own = c.own /\ d.mute = c.mute /\ d.ids = c.ids /\ d.look = c.look
        /\ d.pc = "list"
    BY <1>2 DEF Base, Commands
  <2>3. Becomes(o, d) BY <1>1, <1>4
  <2> HIDE DEF d
  <2>4. Base(d, box, up) BY <1>2, <1>3, <2>1, <2>2, SameBase DEF Fresh0
  <2>5. d.mute = {} BY <1>1, <1>2, <1>3, <1>4, <2>2, AnswersHeard
  <2>6. Phase(d, box) BY <1>3, <2>2, <2>5 DEF Phase, Fresh0, IdsOK
  <2> QED BY <1>1, <2>3, <2>4, <2>6, ReadInv DEF Good
<1>5. CASE c.todo # {n}
  <2> DEFINE d == [c EXCEPT !.todo = @ \ {n}]
  <2>1. d \in Commands BY <1>2 DEF Base, Commands
  <2>2. /\ d.kind = c.kind /\ d.conf = c.conf /\ d.at = c.at /\ d.gone = c.gone /\ d.rc = c.rc
        /\ d.own = c.own /\ d.mute = c.mute /\ d.ids = c.ids /\ d.look = c.look
        /\ d.pc = "endpoints" /\ d.todo = c.todo \ {n}
    BY <1>1, <1>2 DEF Base, Commands
  <2>3. Becomes(o, d) BY <1>1, <1>5
  <2> HIDE DEF d
  <2>4. Base(d, box, up) BY <1>2, <1>3, <2>1, <2>2, SameBase DEF Fresh0
  <2>5. d.mute \subseteq d.todo BY <1>1, <1>2, <1>3, <2>2, AnswersHeard
  <2>6. Phase(d, box) BY <1>3, <2>2, <2>5 DEF Phase, Fresh0
  <2> QED BY <1>1, <2>3, <2>4, <2>6, ReadInv DEF Good
<1> QED BY <1>4, <1>5

\* Past a container or a node that was heard, a stop by label goes on.
LEMMA HeardOnGood ==
  ASSUME NEW c, NEW d, NEW bx, NEW u, Base(c, bx, u), d \in Commands,
         c.kind \in {"labels", "all"}, c.mute = {}, IdsOK(d, bx),
         d.kind = c.kind, d.conf = c.conf, d.at = c.at, d.gone = c.gone,
         d.own = c.own, d.mute = c.mute,
         c.kind = "labels" => c.gone = {} /\ d.rc # 1
  PROVE  Good(Advanced(d), bx, u)
<1>1. Base(d, bx, u) BY SameBase
<1>2. c.kind = "labels" /\ d.rc # 0 => d.rc = 2 BY DEF Commands
<1> QED BY <1>1, <1>2, AdvancedGood DEF ByName

LEMMA ListInv == ASSUME Inv, NEW o \in Ops, List(o) PROVE Inv'
<1> DEFINE c == cmd[o]
           n == Asked(c)
           listed == Managed(n)
<1>1. /\ c.pc = "list" /\ n \in up /\ UNCHANGED <<box, up, trouble, menu>> /\ n \in Nodes
      /\ Becomes(o, Advanced([c EXCEPT !.todo = @ \ {n}, !.look = listed]))
  BY DEF List, Reading, Inv
<1>2. Base(c, box, up) /\ Phase(c, box) BY <1>1, Here
<1>3. /\ IdsOK(c, box) /\ c.kind \in {"labels", "all"}
      /\ c.kind = "labels" => c.gone = {} /\ c.rc # 1
      /\ c.mute = {} \/ Count = 1
  BY <1>1, <1>2 DEF Phase
<1>4. c.mute = {}
  <2>1. CASE Count = 1
    <3>1. Nodes = {0} BY <2>1 DEF Nodes
    <3>2. c.mute \subseteq Nodes BY <1>2 DEF Base, Commands
    <3> QED BY <1>1, <1>2, <3>1, <3>2, AnswersHeard
  <2> QED BY <1>3, <2>1
<1>5. listed \in SUBSET Pairs BY <1>1 DEF Managed, Pairs, Exists, Inv
<1> HIDE DEF n, listed
<1> DEFINE d == [c EXCEPT !.todo = @ \ {n}, !.look = listed]
<1>6. d \in Commands BY <1>2, <1>5 DEF Base, Commands
<1>7. /\ d.kind = c.kind /\ d.conf = c.conf /\ d.at = c.at /\ d.gone = c.gone /\ d.rc = c.rc
      /\ d.own = c.own /\ d.mute = c.mute /\ d.ids = c.ids
  BY <1>2 DEF Base, Commands
<1>8. Becomes(o, Advanced(d)) BY <1>1
<1> HIDE DEF d
<1>9. IdsOK(d, box) BY <1>3, <1>7, SameIds
<1>10. Good(Advanced(d), box, up) BY <1>2, <1>3, <1>4, <1>6, <1>7, <1>9, HeardOnGood
<1> QED BY <1>1, <1>8, <1>10, ReadInv

LEMMA InspectInv == ASSUME Inv, NEW o \in Ops, Inspect(o) PROVE Inv'
<1> DEFINE c == cmd[o]
<1>1. c.pc = "inspect" /\ UNCHANGED <<box, up, trouble, menu>>
  BY DEF Inspect, Reading
<1>2. Base(c, box, up) /\ Phase(c, box) BY <1>1, Here
<1> DEFINE D(p) == [c EXCEPT !.look = @ \ {p}]
           mine(p, hit) == hit # {} /\ (c.kind = "labels" => Box(p).conf = c.conf)
           ranked(p) == c.at # Unset /\ Box(p).rank # Single
           after(p, hit) ==
             CASE ~mine(p, hit) -> Advanced(D(p))
               [] mine(p, hit) /\ ~Stoppable(Box(p)) ->
                    IF c.kind = "all" THEN Advanced([D(p) EXCEPT !.rc = Merge(@, 2)])
                                      ELSE Ended(c, 2)
               [] mine(p, hit) /\ Stoppable(Box(p)) /\ c.kind = "all" ->
                    [D(p) EXCEPT !.pc = "recheck", !.ids = {p}]
               [] OTHER -> Advanced(
                    [D(p) EXCEPT !.rc = IF ranked(p) THEN 2 ELSE @,
                                 !.ids = IF c.at \in {Unset, p[1]} THEN @ \cup {p} ELSE @])
<1>p. PICK p \in c.look : \E hit \in Shown(Present(p)) : Becomes(o, after(p, hit))
  BY DEF Inspect
<1>3. PICK hit \in Shown(Present(p)) : Becomes(o, after(p, hit))
  BY <1>p
<1> DEFINE d == D(p)
<1>4. /\ IdsOK(c, box) /\ c.kind \in {"labels", "all"}
      /\ c.kind = "labels" => c.gone = {} /\ c.rc # 1
      /\ c.mute = {}
  BY <1>1, <1>2 DEF Phase
<1>5. d \in Commands BY <1>2 DEF Base, Commands
<1>6. /\ d.kind = c.kind /\ d.conf = c.conf /\ d.at = c.at /\ d.gone = c.gone /\ d.rc = c.rc
      /\ d.own = c.own /\ d.mute = c.mute /\ d.ids = c.ids /\ d.todo = c.todo
  BY <1>2 DEF Base, Commands
<1>7. p \in Pairs BY <1>2 DEF Base, Commands
<1>8. mine(p, hit) => p[2] \in Exists /\ Box(p).node = p[1]
  BY <1>7, PresentBox, ShownHit
<1> HIDE DEF D
<1>9. IdsOK(d, box) BY <1>4, <1>6, SameIds
<1>10. CASE ~mine(p, hit)
  <2>1. Becomes(o, Advanced(d)) BY <1>3, <1>10
  <2>2. Good(Advanced(d), box, up) BY <1>2, <1>4, <1>5, <1>6, <1>9, HeardOnGood
  <2> QED BY <1>1, <2>1, <2>2, ReadInv
<1>11. CASE mine(p, hit) /\ ~Stoppable(Box(p)) /\ c.kind = "all"
  <2> DEFINE e == [d EXCEPT !.rc = Merge(@, 2)]
  <2>1. Becomes(o, Advanced(e)) BY <1>3, <1>11
  <2>2. e \in Commands
    <3>1. Merge(d.rc, 2) \in 0 .. 2 BY <1>5 DEF Merge, Commands
    <3> QED BY <1>5, <3>1 DEF Commands
  <2>3. /\ e.kind = c.kind /\ e.conf = c.conf /\ e.at = c.at /\ e.gone = c.gone
        /\ e.own = c.own /\ e.mute = c.mute /\ e.ids = c.ids
    BY <1>5, <1>6 DEF Commands
  <2> HIDE DEF e
  <2>4. IdsOK(e, box) BY <1>4, <2>3, SameIds
  <2>5. Good(Advanced(e), box, up) BY <1>2, <1>4, <1>11, <2>2, <2>3, <2>4, HeardOnGood
  <2> QED BY <1>1, <2>1, <2>5, ReadInv
<1>12. CASE mine(p, hit) /\ ~Stoppable(Box(p)) /\ c.kind # "all"
  <2>1. Becomes(o, Ended(c, 2)) BY <1>3, <1>12
  <2> QED BY <1>1, <1>4, <1>12, <2>1, EndInv
<1>13. CASE mine(p, hit) /\ Stoppable(Box(p)) /\ c.kind = "all"
  <2> DEFINE e == [d EXCEPT !.pc = "recheck", !.ids = {p}]
  <2>1. Becomes(o, e) BY <1>3, <1>13
  <2>2. e \in Commands BY <1>5, <1>7 DEF Commands
  <2>3. /\ e.kind = c.kind /\ e.conf = c.conf /\ e.at = c.at /\ e.gone = c.gone
        /\ e.own = c.own /\ e.mute = c.mute /\ e.ids = {p} /\ e.pc = "recheck"
    BY <1>5, <1>6 DEF Commands
  <2> HIDE DEF e
  <2>4. Base(e, box, up) BY <1>2, <1>13, <2>2, <2>3, SameBase
  <2>5. IdsOK(e, box) BY <1>8, <1>13, <2>3 DEF IdsOK, Rightful, ByName, Box
  <2>6. Phase(e, box) BY <1>4, <1>13, <2>3, <2>5 DEF Phase, Removing, Heard
  <2> QED BY <1>1, <2>1, <2>4, <2>6, ReadInv DEF Good
<1>14. CASE mine(p, hit) /\ Stoppable(Box(p)) /\ c.kind # "all"
  <2> DEFINE r == IF ranked(p) THEN 2 ELSE d.rc
             I == IF c.at \in {Unset, p[1]} THEN d.ids \cup {p} ELSE d.ids
             e == [d EXCEPT !.rc = r, !.ids = I]
  <2>1. Becomes(o, Advanced(e)) BY <1>3, <1>14
  <2>2. r \in 0 .. 2 /\ I \in SUBSET Pairs /\ I \subseteq c.ids \cup {p} /\ r \in {d.rc, 2}
    BY <1>5, <1>6, <1>7 DEF Commands
  <2> HIDE DEF r, I
  <2>3. e \in Commands BY <1>5, <2>2 DEF Commands
  <2>4. /\ e.kind = c.kind /\ e.conf = c.conf /\ e.at = c.at /\ e.gone = c.gone
        /\ e.own = c.own /\ e.mute = c.mute /\ e.ids = I /\ e.rc = r
    BY <1>5, <1>6 DEF Commands
  <2> HIDE DEF e
  <2>5. IdsOK(e, box)
    <3>1. Rightful(e, p, box) BY <1>4, <1>8, <1>14, <2>4 DEF Rightful, ByName, Box
    <3>2. \A q \in c.ids : Rightful(e, q, box) BY <1>4, <2>4 DEF IdsOK, Rightful
    <3> QED BY <2>2, <2>4, <3>1, <3>2 DEF IdsOK
  <2>6. e.rc # 1 BY <1>4, <1>6, <1>14, <2>2, <2>4
  <2>7. Good(Advanced(e), box, up) BY <1>2, <1>4, <2>3, <2>4, <2>5, <2>6, HeardOnGood
  <2> QED BY <1>1, <2>1, <2>7, ReadInv
<1> QED BY <1>10, <1>11, <1>12, <1>13, <1>14

-----------------------------------------------------------------------------
(* Steps among the removals that remove nothing themselves.                *)

LEMMA SkippedGood ==
  ASSUME NEW c, NEW bx, NEW u, Base(c, bx, u), NEW p,
         IdsOK(c, bx), Heard(c),
         c.kind # "all" => c.look = {} /\ c.todo = {} /\ c.rc = 0,
         c.kind = "all" => c.mute = {}
  PROVE  Good(Skipped(c, p), bx, u)
<1> DEFINE d == [c EXCEPT !.ids = @ \ {p}]
<1>1. d \in Commands BY DEF Base, Commands
<1>2. /\ d.kind = c.kind /\ d.conf = c.conf /\ d.at = c.at /\ d.gone = c.gone /\ d.rc = c.rc
      /\ d.own = c.own /\ d.mute = c.mute /\ d.ids \subseteq c.ids /\ d.look = c.look
      /\ d.todo = c.todo
  BY DEF Base, Commands
<1>3. Skipped(c, p) = Advanced(d) BY DEF Skipped
<1> HIDE DEF d
<1>4. Base(d, bx, u) /\ Heard(d) BY <1>1, <1>2, SameBase DEF Base
<1>5. IdsOK(d, bx) BY <1>2, SameIds
<1>6. c.kind = "labels" => c.mute = {}
  <2>1. c.kind = "labels" => Needed(c) = Nodes BY DEF Needed
  <2>2. c.mute \subseteq Nodes BY DEF Base, Commands
  <2> QED BY <2>1, <2>2 DEF Heard
<1> QED BY <1>2, <1>3, <1>4, <1>5, <1>6, AdvancedGood DEF ByName

LEMMA FailedGood ==
  ASSUME NEW c, NEW bx, NEW u, Base(c, bx, u), NEW p, NEW r \in 1 .. 2,
         Removing(c, bx), c.kind # "all" => r = 1
  PROVE  Good(Failed(c, p, r), bx, u)
<1>1. CASE c.kind = "all"
  <2> DEFINE d == [c EXCEPT !.rc = Merge(@, r)]
  <2>1. d \in Commands
    <3>1. Merge(c.rc, r) \in 0 .. 2 BY DEF Merge, Commands, Base
    <3> QED BY <3>1 DEF Base, Commands
  <2>2. /\ d.kind = c.kind /\ d.conf = c.conf /\ d.at = c.at /\ d.gone = c.gone
        /\ d.own = c.own /\ d.mute = c.mute /\ d.ids = c.ids
    BY DEF Base, Commands
  <2>3. Failed(c, p, r) = Skipped(d, p) BY <1>1 DEF Failed
  <2> HIDE DEF d
  <2>4. Base(d, bx, u) /\ Heard(d) BY <1>1, <2>1, <2>2, SameBase DEF Removing
  <2>5. IdsOK(d, bx) BY <2>2, SameIds DEF Removing
  <2> QED BY <1>1, <2>2, <2>3, <2>4, <2>5, SkippedGood DEF Removing
<1>2. CASE c.kind # "all"
  <2>1. Failed(c, p, r) = Ended(c, 1) BY <1>2 DEF Failed
  <2> QED BY <2>1, EndedGood
<1> QED BY <1>1, <1>2

LEMMA RecheckInv == ASSUME Inv, NEW o \in Ops, Recheck(o) PROVE Inv'
<1> DEFINE c == cmd[o]
           Sure(b) == IF c.kind \in {"single", "launch"} THEN Proven(b, c.conf) ELSE Stoppable(b)
           after(p, hit) == CASE hit = {} -> Skipped(c, p)
                              [] hit # {} /\ ~Sure(Box(p)) -> Failed(c, p, 2)
                              [] OTHER -> [c EXCEPT !.pc = "remove"]
<1>1. c.pc = "recheck" /\ UNCHANGED <<box, up, trouble, menu>>
  BY DEF Recheck, Reading
<1>p. PICK p \in Current(c) : \E hit \in Shown(Present(p)) : Becomes(o, after(p, hit))
  BY DEF Recheck
<1>h. PICK hit \in Shown(Present(p)) : Becomes(o, after(p, hit))
  BY <1>p
<1>2. Base(c, box, up) /\ Phase(c, box) BY <1>1, Here
<1>3. Removing(c, box) /\ c.kind # "cluster" BY <1>1, <1>2 DEF Phase
<1>4. p \in c.ids /\ p \in Pairs BY <1>2 DEF Current, Base, Commands
<1>5. CASE hit = {}
  <2>1. Becomes(o, Skipped(c, p)) BY <1>h, <1>5
  <2>2. Good(Skipped(c, p), box, up) BY <1>2, <1>3, SkippedGood DEF Removing
  <2> QED BY <1>1, <2>1, <2>2, ReadInv
<1>6. CASE hit # {} /\ ~Sure(Box(p))
  <2>1. p[2] \in Exists BY <1>4, <1>6, PresentBox, ShownHit
  <2>2. c.kind \in {"single", "labels", "all", "launch"} BY <1>2, <1>3 DEF Base, Commands
  <2>3. FALSE
    BY <1>3, <1>4, <1>6, <2>1, <2>2 DEF Removing, IdsOK, Rightful, ByName, Box, Exists
  <2> QED BY <2>3
<1>7. CASE hit # {} /\ Sure(Box(p))
  <2> DEFINE d == [c EXCEPT !.pc = "remove"]
  <2>1. Becomes(o, d) BY <1>h, <1>7
  <2>2. /\ Base(d, box, up) /\ d.pc = "remove" /\ d.kind = c.kind /\ d.conf = c.conf
        /\ d.at = c.at /\ d.ids = c.ids /\ d.look = c.look /\ d.mute = c.mute
        /\ d.todo = c.todo /\ d.rc = c.rc /\ d.gone = c.gone /\ d.own = c.own
    BY <1>2, MovedBase
  <2> HIDE DEF d
  <2>3. Heard(d) BY <1>3, <2>2 DEF Removing, Heard, Needed, Wide
  <2>4. IdsOK(d, box) BY <1>3, <2>2, SameIds DEF Removing
  <2>5. Phase(d, box) BY <1>3, <2>2, <2>3, <2>4 DEF Phase, Removing
  <2> QED BY <1>1, <2>1, <2>2, <2>5, ReadInv DEF Good
<1> QED BY <1>5, <1>6, <1>7

LEMMA AbsentInv == ASSUME Inv, NEW o \in Ops, Absent(o) PROVE Inv'
<1> DEFINE c == cmd[o]
<1>1. c.pc = "absent" /\ UNCHANGED <<box, up, trouble, menu>>
  BY DEF Absent
<1>2. PICK p \in Current(c) : Becomes(o, Skipped(c, p)) \/ Becomes(o, Failed(c, p, 1))
  BY DEF Absent
<1>3. Base(c, box, up) /\ Phase(c, box) BY <1>1, Here
<1>4. Removing(c, box) BY <1>1, <1>3 DEF Phase
<1>5. Good(Skipped(c, p), box, up) BY <1>3, <1>4, SkippedGood DEF Removing
<1>6. Good(Failed(c, p, 1), box, up) BY <1>3, <1>4, FailedGood
<1> QED BY <1>1, <1>2, <1>5, <1>6, ReadInv

LEMMA VerifyInv == ASSUME Inv, NEW o \in Ops, Verify(o) PROVE Inv'
<1> DEFINE c == cmd[o]
           n == Asked(c)
<1>1. /\ c.pc = "verify" /\ n \in up /\ UNCHANGED <<box, up, trouble, menu>> /\ n \in Nodes
  BY DEF Verify, Reading, Inv
<1>2. Base(c, box, up) /\ Phase(c, box) BY <1>1, Here
<1>3. c.kind = "cluster" /\ c.rc = 0 BY <1>1, <1>2 DEF Phase
<1>4. PICK hit \in Shown(Named(n, c.conf)) :
        \/ Becomes(o, [c EXCEPT !.todo = @ \ {n}, !.ids = c.ids \cup hit])
        \/ Becomes(o, Ended(c, 0)) \/ Becomes(o, Ended(c, 1))
  BY DEF Verify
<1>5. hit \in SUBSET Pairs BY <1>1, NamedBox, ShownHit
<1>6. CASE Becomes(o, Ended(c, 0)) \/ Becomes(o, Ended(c, 1))
  BY <1>1, <1>6, EndInv
<1>7. CASE Becomes(o, [c EXCEPT !.todo = @ \ {n}, !.ids = c.ids \cup hit])
  <2> DEFINE d == [c EXCEPT !.todo = @ \ {n}, !.ids = c.ids \cup hit]
  <2>1. d \in Commands BY <1>2, <1>5 DEF Base, Commands
  <2>2. /\ d.kind = c.kind /\ d.conf = c.conf /\ d.at = c.at /\ d.gone = c.gone /\ d.rc = c.rc
        /\ d.own = c.own /\ d.mute = c.mute /\ d.pc = "verify"
    BY <1>1, <1>2 DEF Base, Commands
  <2>3. Becomes(o, d) BY <1>7
  <2> HIDE DEF d
  <2>4. Base(d, box, up) BY <1>2, <1>3, <2>1, <2>2, SameBase
  <2>5. Phase(d, box) BY <1>3, <2>2 DEF Phase
  <2> QED BY <1>1, <2>3, <2>4, <2>5, ReadInv DEF Good
<1> QED BY <1>4, <1>6, <1>7

LEMMA AbandonedGood ==
  ASSUME NEW c, NEW bx, NEW u, Base(c, bx, u), c.kind = "launch", c.rc = 0
  PROVE  Good(Abandoned(c), bx, u)
<1>1. CASE c.own = {}
  <2>1. Abandoned(c) = Ended(c, 1) BY <1>1 DEF Abandoned
  <2> QED BY <2>1, EndedGood
<1>2. CASE c.own # {}
  <2> DEFINE d == [c EXCEPT !.pc = "abort", !.todo = {}, !.ids = c.own]
  <2>1. d \in Commands BY DEF Base, Commands
  <2>2. /\ d.kind = c.kind /\ d.conf = c.conf /\ d.at = c.at /\ d.gone = c.gone /\ d.rc = c.rc
        /\ d.own = c.own /\ d.mute = c.mute /\ d.pc = "abort" /\ d.ids = c.own
    BY DEF Base, Commands
  <2>3. Abandoned(c) = d BY <1>2 DEF Abandoned
  <2> HIDE DEF d
  <2>4. Base(d, bx, u) BY <2>1, <2>2, SameBase
  <2>5. Phase(d, bx) BY <2>2 DEF Phase
  <2> QED BY <2>3, <2>4, <2>5 DEF Good
<1> QED BY <1>1, <1>2

LEMMA WaitInv == ASSUME Inv, NEW o \in Ops, Wait(o) PROVE Inv'
<1>1. cmd[o].pc = "wait" /\ UNCHANGED <<box, up, trouble, menu>>
  BY DEF Wait
<1>2. Base(cmd[o], box, up) /\ Phase(cmd[o], box) BY <1>1, Here
<1>3. Good(Abandoned(cmd[o]), box, up) BY <1>1, <1>2, AbandonedGood DEF Phase
<1>4. CASE Becomes(o, Abandoned(cmd[o])) BY <1>1, <1>3, <1>4, ReadInv
<1>5. CASE Becomes(o, Ended(cmd[o], 0)) \/ Becomes(o, Ended(cmd[o], 1))
  BY <1>1, <1>5, EndInv
<1> QED BY <1>4, <1>5 DEF Wait

-----------------------------------------------------------------------------
(* Steps that remove or add a container.                                   *)

\* The container of a pair is as it was, if it still exists.
Kept(p, bx, by) == p[2] \in DOMAIN by => p[2] \in DOMAIN bx /\ by[p[2]] = bx[p[2]]

\* What a command has established outlasts a change of other containers.
LEMMA GoodSteady ==
  ASSUME NEW c, NEW bx, NEW by, NEW u, Good(c, bx, u),
         \A p \in c.ids \cup c.own : Kept(p, bx, by)
  PROVE  Good(c, by, u)
<1>1. CASE c = Nobody BY <1>1 DEF Good
<1>2. CASE Base(c, bx, u) /\ Phase(c, bx)
  <2>1. OwnOK(c, by) BY <1>2 DEF Base, OwnOK, Kept
  <2>2. IdsOK(c, bx) => IdsOK(c, by) BY DEF IdsOK, Rightful, Kept
  <2>3. Base(c, by, u) BY <1>2, <2>1 DEF Base
  <2>4. Phase(c, by) BY <1>2, <2>2 DEF Phase, Removing
  <2> QED BY <2>3, <2>4 DEF Good
<1> QED BY <1>1, <1>2 DEF Good

LEMMA WriteInv ==
  ASSUME Inv, NEW o \in Ops, NEW d, Becomes(o, d), Good(d, box', up),
         DOMAIN box' \subseteq Ids, \A i \in DOMAIN box' : box'[i] \in Boxes,
         \A q \in Ops : \A p \in cmd[q].ids \cup cmd[q].own : Kept(p, box, box'),
         trouble' \in 0 .. MaxTrouble, UNCHANGED <<up, menu>>
  PROVE  Inv'
<1> DEFINE by == box'
<1>1. cmd' = [q \in Ops |-> cmd'[q]] /\ \A q \in Ops : cmd'[q] = IF q = o THEN d ELSE cmd[q]
  BY DEF Becomes, Inv
<1>2. \A q \in Ops : Good(cmd[q], by, up)
  <2> HIDE DEF by
  <2>1. \A q \in Ops : \A p \in cmd[q].ids \cup cmd[q].own : Kept(p, box, by) BY DEF by
  <2> QED BY <2>1, GoodSteady DEF Inv
<1>3. \A q \in Ops : Good(cmd'[q], by, up) BY <1>1, <1>2
<1>4. \A q \in Ops : Good(cmd[q], box, up)' BY <1>3
<1> QED BY <1>1, <1>4 DEF Inv, Exists

LEMMA GoneKeeps ==
  ASSUME Inv, NEW i
  PROVE  /\ DOMAIN Gone(i) \subseteq Ids /\ \A j \in DOMAIN Gone(i) : Gone(i)[j] \in Boxes
         /\ i \notin DOMAIN Gone(i)
         /\ \A p : Kept(p, box, Gone(i))
  BY DEF Gone, Inv, Exists, Kept

LEMMA WithKeeps ==
  ASSUME Inv, NEW i \in Ids, NEW b \in Boxes, Fresh(i)
  PROVE  /\ DOMAIN With(i, b) \subseteq Ids /\ \A j \in DOMAIN With(i, b) : With(i, b)[j] \in Boxes
         /\ With(i, b)[i] = b
         /\ \A q \in Ops : \A p \in cmd[q].ids \cup cmd[q].own : Kept(p, box, With(i, b))
<1>1. \A q \in Ops : \A p \in cmd[q].ids \cup cmd[q].own : p[2] # i
  BY DEF Fresh
<1> QED BY <1>1 DEF With, Inv, Exists, Kept

LEMMA RemoveInv == ASSUME Inv, NEW o \in Ops, Remove(o) PROVE Inv'
<1> DEFINE c == cmd[o]
           after(p) == [c EXCEPT !.pc = "absent", !.gone = @ \cup {p[2]}]
           last == [c EXCEPT !.pc = "absent"]
<1>1. c.pc = "remove" /\ UNCHANGED <<up, menu>>
  BY DEF Remove
<1>2. Base(c, box, up) /\ Phase(c, box) BY <1>1, Here
<1>3. Removing(c, box) BY <1>1, <1>2 DEF Phase
<1>4. PICK p \in Current(c) :
        \/ /\ box' = Gone(p[2]) /\ Becomes(o, after(p)) /\ UNCHANGED trouble
        \/ /\ trouble < MaxTrouble /\ box' = Gone(p[2])
           /\ Becomes(o, Failed(after(p), p, 1)) /\ trouble' = trouble + 1
        \/ /\ Becomes(o, last) /\ UNCHANGED <<box, trouble>>
        \/ /\ Becomes(o, Failed(c, p, 1)) /\ UNCHANGED <<box, trouble>>
  BY DEF Remove
<1> DEFINE d == after(p)
<1>5. p \in c.ids /\ p \in Pairs /\ p[2] \in Ids BY <1>2 DEF Current, Base, Commands, Pairs
<1>6. d \in Commands BY <1>2, <1>5 DEF Base, Commands
<1>7. /\ d.kind = c.kind /\ d.conf = c.conf /\ d.at = c.at /\ d.gone = c.gone \cup {p[2]}
      /\ d.own = c.own /\ d.mute = c.mute /\ d.ids = c.ids /\ d.rc = c.rc /\ d.pc = "absent"
      /\ d.look = c.look /\ d.todo = c.todo
  BY <1>2 DEF Base, Commands
<1> HIDE DEF after
<1>8. Heard(d) BY <1>3, <1>7 DEF Removing, Heard, Needed, Wide
<1>9. Base(d, box, up) BY <1>2, <1>3, <1>6, <1>7, <1>8 DEF Base, OwnOK, Removing
<1>10. IdsOK(d, box) BY <1>3, <1>7, SameIds DEF Removing
<1>11. Removing(d, box) BY <1>3, <1>7, <1>8, <1>10 DEF Removing
<1>12. Good(d, box, up)
  <2>1. Phase(d, box) BY <1>7, <1>11 DEF Phase
  <2> QED BY <1>9, <2>1 DEF Good
<1>13. CASE box' = Gone(p[2]) /\ Becomes(o, d) /\ UNCHANGED trouble
  <2>1. Good(d, Gone(p[2]), up) BY <1>12, GoneKeeps, GoodSteady
  <2> QED BY <1>1, <1>13, <2>1, GoneKeeps, WriteInv DEF Inv
<1>14. CASE /\ trouble < MaxTrouble /\ box' = Gone(p[2])
            /\ Becomes(o, Failed(d, p, 1)) /\ trouble' = trouble + 1
  <2> DEFINE e == Failed(d, p, 1)
  <2>1. Good(e, box, up) BY <1>7, <1>9, <1>11, FailedGood
  <2> HIDE DEF e
  <2>2. Good(e, Gone(p[2]), up) BY <2>1, GoneKeeps, GoodSteady
  <2>3. trouble' \in 0 .. MaxTrouble BY <1>14, BoundsAssumption DEF Inv
  <2>4. Becomes(o, e) BY <1>14 DEF e
  <2> QED BY <1>1, <1>14, <2>2, <2>3, <2>4, GoneKeeps, WriteInv
<1>15. CASE Becomes(o, last) /\ UNCHANGED <<box, trouble>>
  <2>1. /\ Base(last, box, up) /\ last.kind = c.kind /\ last.conf = c.conf /\ last.at = c.at
        /\ last.mute = c.mute /\ last.ids = c.ids /\ last.rc = c.rc /\ last.pc = "absent"
        /\ last.look = c.look /\ last.todo = c.todo
    BY <1>2, MovedBase
  <2> HIDE DEF last
  <2>2. Heard(last) BY <1>3, <2>1 DEF Removing, Heard, Needed, Wide
  <2>3. IdsOK(last, box) BY <1>3, <2>1, SameIds DEF Removing
  <2>4. Phase(last, box) BY <1>3, <2>1, <2>2, <2>3 DEF Phase, Removing
  <2> QED BY <1>1, <1>15, <2>1, <2>4, ReadInv DEF Good
<1>16. CASE Becomes(o, Failed(c, p, 1)) /\ UNCHANGED <<box, trouble>>
  <2>1. Good(Failed(c, p, 1), box, up) BY <1>2, <1>3, FailedGood
  <2> QED BY <1>1, <1>16, <2>1, ReadInv
<1> QED BY <1>4, <1>13, <1>14, <1>15, <1>16

LEMMA StartInv == ASSUME Inv, NEW o \in Ops, Start(o) PROVE Inv'
<1> DEFINE c == cmd[o]
           n == RemotesFirst(c.todo)
           b == Launched(c.conf, n)
           D(i) == [c EXCEPT !.own = @ \cup {<<n, i>>}, !.todo = @ \ {n}]
           W(i) == [D(i) EXCEPT !.pc = "wait"]
<1>1. c.pc = "start" /\ UNCHANGED <<up, menu>>
  BY DEF Start
<1>2. Base(c, box, up) /\ Phase(c, box) BY <1>1, Here
<1>3. c.kind = "launch" /\ c.rc = 0 /\ c.conf \in Confs BY <1>1, <1>2 DEF Phase, Base
<1>4. Good(Abandoned(c), box, up) BY <1>2, <1>3, AbandonedGood
<1>5. n \in up => n \in Nodes /\ b \in Boxes /\ b.node = n
  <2>1. n \in up => n \in Nodes BY DEF Inv
  <2>2. World[c.conf] \in 0 .. Count BY <1>3, ConfsAssumption, CountAssumption
  <2>3. (IF World[c.conf] = 1 THEN Single ELSE n) \in {n, Single} OBVIOUS
  <2> HIDE DEF n
  <2> QED BY <1>3, <2>1, <2>2, <2>3 DEF Launched, Boxes
<1>6. CASE Becomes(o, Abandoned(c)) /\ UNCHANGED <<box, trouble>>
  BY <1>1, <1>4, <1>6, ReadInv
<1>7. ASSUME NEW i \in Ids, n \in up, Fresh(i), trouble < MaxTrouble, box' = With(i, b),
             Becomes(o, Abandoned(c)), trouble' = trouble + 1
      PROVE  Inv'
  <2> DEFINE e == Abandoned(c)
  <2> HIDE DEF b
  <2>1. e.ids \cup e.own \subseteq c.ids \cup c.own
    BY <1>2 DEF Abandoned, Ended, Base, Commands
  <2> HIDE DEF e
  <2>2. Good(e, With(i, b), up) BY <1>4, <1>5, <1>7, <2>1, WithKeeps, GoodSteady DEF e
  <2>3. trouble' \in 0 .. MaxTrouble BY <1>7, BoundsAssumption DEF Inv
  <2>4. Becomes(o, e) BY <1>7 DEF e
  <2> QED BY <1>1, <1>5, <1>7, <2>2, <2>3, <2>4, WithKeeps, WriteInv
<1>8. ASSUME NEW i \in Ids, n \in up, Fresh(i), box' = With(i, b), UNCHANGED trouble,
             \/ Becomes(o, D(i)) \/ Becomes(o, W(i)) \/ Becomes(o, Ended(D(i), 0))
      PROVE  Inv'
  <2> DEFINE d == D(i)
             w == W(i)
             by == With(i, b)
  <2>1. n \in Nodes /\ b \in Boxes /\ b.node = n BY <1>5, <1>8
  <2> HIDE DEF n, b
  <2>2. d \in Commands
    <3>1. <<n, i>> \in Pairs BY <2>1 DEF Pairs
    <3> QED BY <1>2, <3>1 DEF Base, Commands
  <2>3. /\ d.kind = c.kind /\ d.conf = c.conf /\ d.at = c.at /\ d.gone = c.gone /\ d.rc = c.rc
        /\ d.own = c.own \cup {<<n, i>>} /\ d.mute = c.mute /\ d.pc = "start"
    BY <1>1, <1>2 DEF Base, Commands
  <2>4. /\ w.kind = c.kind /\ w.conf = c.conf /\ w.at = c.at /\ w.gone = c.gone /\ w.rc = c.rc
        /\ w.own = d.own /\ w.mute = c.mute /\ w.pc = "wait" /\ w \in Commands
    BY <2>2, <2>3 DEF Commands
  <2>5. Becomes(o, d) \/ Becomes(o, w) \/ Becomes(o, Ended(d, 0)) BY <1>8
  <2> HIDE DEF d, w
  <2>6. OwnOK(d, by)
    <3>1. by[i].node = n BY <1>8, <2>1, WithKeeps
    <3>2. \A p \in c.own : p[2] \in DOMAIN by => by[p[2]].node = p[1]
      BY <1>2, <1>8, <2>1, WithKeeps DEF Base, OwnOK, Kept
    <3> QED BY <2>3, <3>1, <3>2 DEF OwnOK
  <2>7. Base(d, by, up)
    BY <1>2, <1>3, <2>2, <2>3, <2>6 DEF Base, Heard, Needed, Wide
  <2>8. Good(d, by, up)
    <3>1. Phase(d, by) BY <1>3, <2>3 DEF Phase
    <3> QED BY <2>7, <3>1 DEF Good
  <2>9. Good(w, by, up)
    <3>1. Phase(w, by) BY <1>3, <2>4 DEF Phase
    <3>2. OwnOK(w, by) BY <2>4, <2>6 DEF OwnOK
    <3>3. Base(w, by, up)
      BY <1>2, <1>3, <2>4, <3>2 DEF Base, Heard, Needed, Wide
    <3> QED BY <3>1, <3>3 DEF Good
  <2>10. Good(Ended(d, 0), by, up) BY <2>7, EndedGood
  <2> DEFINE z == Ended(d, 0)
  <2>11. Becomes(o, d) \/ Becomes(o, w) \/ Becomes(o, z) BY <2>5
  <2>12. Good(z, by, up) BY <2>10
  <2> HIDE DEF z, by
  <2>13. /\ box' = by /\ DOMAIN by \subseteq Ids /\ \A j \in DOMAIN by : by[j] \in Boxes
         /\ \A q \in Ops : \A p \in cmd[q].ids \cup cmd[q].own : Kept(p, box, by)
    BY <1>8, <2>1, WithKeeps DEF by
  <2>14. trouble' \in 0 .. MaxTrouble BY <1>8 DEF Inv
  <2>15. CASE Becomes(o, d) BY <1>1, <2>8, <2>13, <2>14, <2>15, WriteInv
  <2>16. CASE Becomes(o, w) BY <1>1, <2>9, <2>13, <2>14, <2>16, WriteInv
  <2>17. CASE Becomes(o, z) BY <1>1, <2>12, <2>13, <2>14, <2>17, WriteInv
  <2> QED BY <2>11, <2>15, <2>16, <2>17
<1> HIDE DEF b, D, W
<1>9. \/ Becomes(o, Abandoned(c)) /\ UNCHANGED <<box, trouble>>
      \/ \E i \in Ids : /\ n \in up /\ Fresh(i) /\ trouble < MaxTrouble /\ box' = With(i, b)
                        /\ Becomes(o, Abandoned(c)) /\ trouble' = trouble + 1
      \/ \E i \in Ids : /\ n \in up /\ Fresh(i) /\ box' = With(i, b) /\ UNCHANGED trouble
                        /\ \/ Becomes(o, D(i)) \/ Becomes(o, W(i))
                           \/ Becomes(o, Ended(D(i), 0))
  BY DEF Start, b, D, W
<1> QED BY <1>6, <1>7, <1>8, <1>9

LEMMA AbortInv == ASSUME Inv, NEW o \in Ops, Abort(o) PROVE Inv'
<1> DEFINE c == cmd[o]
           D(p) == [c EXCEPT !.ids = @ \ {p}]
<1>1. c.pc = "abort" /\ UNCHANGED <<up, trouble, menu>>
  BY DEF Abort
<1>2. Base(c, box, up) /\ Phase(c, box) BY <1>1, Here
<1>3. PICK p \in c.ids : /\ box' = (IF p[1] \in up THEN Gone(p[2]) ELSE box)
                         /\ Becomes(o, Ended(c, 1)) \/ Becomes(o, D(p))
  BY DEF Abort
<1>4. c.kind = "launch" /\ c.rc = 0 /\ c.ids \subseteq c.own BY <1>1, <1>2 DEF Phase
<1> DEFINE d == D(p)
           z == Ended(c, 1)
<1>5. d \in Commands BY <1>2 DEF Base, Commands
<1>6. /\ d.kind = c.kind /\ d.conf = c.conf /\ d.at = c.at /\ d.gone = c.gone /\ d.rc = c.rc
      /\ d.own = c.own /\ d.mute = c.mute /\ d.pc = "abort" /\ d.ids \subseteq c.ids
  BY <1>1, <1>2 DEF Base, Commands
<1>7. Good(z, box, up) BY <1>2, EndedGood
<1>8. Becomes(o, d) \/ Becomes(o, z) BY <1>3
<1> HIDE DEF D, d, z
<1>9. Good(d, box, up)
  <2>1. Base(d, box, up) BY <1>2, <1>4, <1>5, <1>6, SameBase
  <2>2. Phase(d, box) BY <1>4, <1>6 DEF Phase
  <2> QED BY <2>1, <2>2 DEF Good
<1>10. \A x : Kept(x, box, box') BY <1>3, GoneKeeps DEF Kept
<1>11. DOMAIN box' \subseteq Ids /\ \A j \in DOMAIN box' : box'[j] \in Boxes
  BY <1>3, GoneKeeps DEF Inv, Exists
<1>12. trouble' \in 0 .. MaxTrouble BY <1>1 DEF Inv
<1>13. Good(d, box', up) /\ Good(z, box', up)
  <2> DEFINE by == box'
  <2>1. \A x : Kept(x, box, by) BY <1>10
  <2> HIDE DEF by
  <2>2. Good(d, by, up) /\ Good(z, by, up) BY <1>7, <1>9, <2>1, GoodSteady
  <2> QED BY <2>2 DEF by
<1>14. CASE Becomes(o, d) BY <1>1, <1>10, <1>11, <1>12, <1>13, <1>14, WriteInv
<1>15. CASE Becomes(o, z) BY <1>1, <1>10, <1>11, <1>12, <1>13, <1>15, WriteInv
<1> QED BY <1>8, <1>14, <1>15

-----------------------------------------------------------------------------
(* Steps of nobody's command.                                              *)

LEMMA StrangerInv == ASSUME Inv, NEW i \in Ids, Stranger(i) PROVE Inv'
<1>1. PICK b \in Found : box' = With(i, b)
  BY DEF Stranger
<1>2. /\ Fresh(i) /\ trouble < MaxTrouble /\ trouble' = trouble + 1
      /\ UNCHANGED <<up, cmd, menu>>
  BY DEF Stranger
<1>3. b \in Boxes BY FoundAssumption
<1> DEFINE by == With(i, b)
<1>4. /\ DOMAIN by \subseteq Ids /\ \A j \in DOMAIN by : by[j] \in Boxes
      /\ \A q \in Ops : \A p \in cmd[q].ids \cup cmd[q].own : Kept(p, box, by)
  BY <1>2, <1>3, WithKeeps
<1>5. trouble' \in 0 .. MaxTrouble BY <1>2, BoundsAssumption DEF Inv
<1> HIDE DEF by
<1>6. \A q \in Ops : Good(cmd[q], by, up) BY <1>4, GoodSteady DEF Inv
<1>7. \A q \in Ops : Good(cmd[q], box, up)' BY <1>1, <1>2, <1>6 DEF by
<1> QED BY <1>1, <1>2, <1>4, <1>5, <1>7 DEF Inv, Exists, by

LEMMA OutageInv == ASSUME Inv, NEW n \in Nodes, Outage(n) PROVE Inv'
<1>1. /\ up' = up \ {n} /\ trouble < MaxTrouble /\ trouble' = trouble + 1
      /\ UNCHANGED <<box, cmd, menu>>
  BY DEF Outage
<1>2. ASSUME NEW c, Good(c, box, up) PROVE Good(c, box, up \ {n})
  BY <1>2 DEF Good, Base
<1>3. \A q \in Ops : Good(cmd[q], box, up \ {n}) BY <1>2 DEF Inv
<1>4. \A q \in Ops : Good(cmd[q], box, up)' BY <1>1, <1>3
<1>5. trouble' \in 0 .. MaxTrouble BY <1>1, BoundsAssumption DEF Inv
<1>6. up' \subseteq Nodes BY <1>1 DEF Inv
<1> QED BY <1>1, <1>4, <1>5, <1>6 DEF Inv, Exists

LEMMA ReturnInv == ASSUME Inv, NEW n \in Nodes, Return(n) PROVE Inv'
<1> DEFINE D(c) == [c EXCEPT !.mute = @ \ {n}]
<1>1. /\ up' = up \cup {n} /\ UNCHANGED <<box, trouble, menu>>
      /\ cmd' = [o \in Ops |-> D(cmd[o])]
  BY DEF Return
<1>2. ASSUME NEW c, Good(c, box, up) PROVE Good(D(c), box, up \cup {n})
  <2>1. CASE c = Nobody
    <3>1. D(Nobody) = Nobody BY DEF Nobody
    <3> QED BY <2>1, <3>1 DEF Good
  <2>2. CASE Base(c, box, up) /\ Phase(c, box)
    <3> DEFINE d == D(c)
    <3>1. d \in Commands BY <2>2 DEF Base, Commands
    <3>2. /\ d.kind = c.kind /\ d.conf = c.conf /\ d.at = c.at /\ d.gone = c.gone /\ d.rc = c.rc
          /\ d.own = c.own /\ d.mute = c.mute \ {n} /\ d.pc = c.pc /\ d.ids = c.ids
          /\ d.look = c.look /\ d.todo = c.todo
      BY <2>2 DEF Base, Commands
    <3> HIDE DEF d
    <3>3. Heard(c) => Heard(d) BY <3>2 DEF Heard, Needed, Wide
    <3>4. IdsOK(c, box) => IdsOK(d, box) BY <3>2 DEF IdsOK, Rightful
    <3>5. Base(d, box, up \cup {n}) BY <2>2, <3>1, <3>2, <3>3 DEF Base, OwnOK
    <3>6. Removing(c, box) => Removing(d, box) BY <3>2, <3>3, <3>4 DEF Removing
    <3>7. Phase(d, box)
      BY <2>2, <3>2, <3>3, <3>4, <3>6 DEF Phase, Fresh0, Wide
    <3> QED BY <3>5, <3>7 DEF Good, d
  <2> QED BY <1>2, <2>1, <2>2 DEF Good
<1>3. \A q \in Ops : Good(D(cmd[q]), box, up \cup {n}) BY <1>2 DEF Inv
<1> HIDE DEF D
<1>4. \A q \in Ops : Good(cmd[q], box, up)' BY <1>1, <1>3
<1>5. up' \subseteq Nodes BY <1>1 DEF Inv
<1> QED BY <1>1, <1>4, <1>5 DEF Inv, Exists

-----------------------------------------------------------------------------
(* The invariant.                                                          *)

LEMMA InitInv == Init => Inv
<1> SUFFICES ASSUME Init PROVE Inv OBVIOUS
<1>1. DOMAIN box \subseteq Ids /\ \A i \in Exists : box[i] \in Boxes
  BY FoundAssumption DEF Init, Exists
<1>2. cmd = [o \in Ops |-> cmd[o]] /\ \A o \in Ops : Good(cmd[o], box, up)
  BY DEF Init, Good
<1>3. trouble \in 0 .. MaxTrouble BY BoundsAssumption DEF Init
<1> QED BY <1>1, <1>2, <1>3 DEF Init, Inv

LEMMA WorksInv == ASSUME Inv, NEW o \in Ops, Works(o) PROVE Inv'
  BY UnansweredInv, ProbeInv, ConfirmInv, DiscoverInv, ResolveInv, EndpointInv, ListInv,
     InspectInv, RecheckInv, RemoveInv, AbsentInv, VerifyInv, StartInv, WaitInv, AbortInv
  DEF Works

LEMMA NextInv == Inv /\ [Next]_vars => Inv'
<1> SUFFICES ASSUME Inv, [Next]_vars PROVE Inv' OBVIOUS
<1>1. CASE UNCHANGED vars BY <1>1 DEF vars, Inv, Exists, Good
<1>2. ASSUME NEW o \in Ops, Ask(o) \/ Done(o) \/ Works(o) PROVE Inv'
  BY <1>2, AskInv, DoneInv, WorksInv
<1>3. ASSUME NEW n \in Nodes, Outage(n) \/ Return(n) PROVE Inv'
  BY <1>3, OutageInv, ReturnInv
<1>4. ASSUME NEW i \in Ids, Stranger(i) PROVE Inv'
  BY <1>4, StrangerInv
<1> QED BY <1>1, <1>2, <1>3, <1>4 DEF Next

THEOREM Invariant == Spec => []Inv
<1> QED BY InitInv, NextInv, PTL DEF Spec

\* A command that stands anywhere is a well-formed one.
LEMMA InvType == Inv => TypeOK
<1>1. Nobody \in Commands BY DEF Nobody, Commands
<1> QED BY <1>1 DEF Inv, TypeOK, Good, Base, Exists

\* Every variable keeps its type.
THEOREM TypeCorrect == Spec => []TypeOK
<1> QED BY Invariant, InvType, PTL

\* A stop that refuses -- down.sh, stop-cluster.sh and the clearing half of a
\* launch with exit code 2 -- has removed nothing; only --all is excepted.
THEOREM Refusal == Spec => []RefusalRemovesNothing
<1>1. Inv => RefusalRemovesNothing
  BY DEF Inv, Good, Base, RefusalRemovesNothing, Nobody
<1> QED BY <1>1, Invariant, PTL

\* Whatever a command has removed, every node its service may have a rank on
\* had answered since the command began.
THEOREM EveryRankHeard == Spec => []NoRankStranded
<1>1. Inv => NoRankStranded
  BY DEF Inv, Good, Base, NoRankStranded, Nobody, Heard
<1> QED BY <1>1, Invariant, PTL

-----------------------------------------------------------------------------
(* What makes a container disappear.                                       *)

LEMMA AdvancedIds ==
  ASSUME NEW c \in Commands PROVE Advanced(c).ids \subseteq c.ids
<1>1. Cleared(c).ids \subseteq c.ids BY DEF Cleared, Ended, Commands
<1>2. \A pc : [c EXCEPT !.pc = pc].ids = c.ids BY DEF Commands
<1>3. Ended(c, 2).ids \subseteq c.ids BY DEF Ended, Commands
<1> QED BY <1>1, <1>2, <1>3 DEF Advanced

\* A command that fails over a container is done with it.
LEMMA FailedDrops ==
  ASSUME NEW c \in Commands, NEW p PROVE p \notin Failed(c, p, 1).ids
<1>1. CASE c.kind = "all"
  <2> DEFINE d == [c EXCEPT !.rc = Merge(@, 1)]
             e == [d EXCEPT !.ids = @ \ {p}]
  <2>1. e \in Commands /\ p \notin e.ids
    <3>1. Merge(c.rc, 1) \in 0 .. 2 BY DEF Merge, Commands
    <3> QED BY <3>1 DEF Commands
  <2>2. Failed(c, p, 1) = Advanced(e) BY <1>1 DEF Failed, Skipped
  <2> HIDE DEF d, e
  <2> QED BY <2>1, <2>2, AdvancedIds
<1>2. CASE c.kind # "all"
  <2>1. Failed(c, p, 1) = Ended(c, 1) BY <1>2 DEF Failed
  <2>2. Ended(c, 1).ids = {} BY DEF Ended, Commands
  <2> QED BY <2>1, <2>2
<1> QED BY <1>1, <1>2

LEMMA RemoveProven ==
  ASSUME Inv, NEW o \in Ops, Remove(o), NEW i \in Exists \ DOMAIN box'
  PROVE  cmd'[o] # cmd[o] /\ MayRemove(cmd[o], i)
<1> DEFINE c == cmd[o]
           after(p) == [c EXCEPT !.pc = "absent", !.gone = @ \cup {p[2]}]
           last == [c EXCEPT !.pc = "absent"]
<1>1. c.pc = "remove" BY DEF Remove
<1>2. Base(c, box, up) /\ Phase(c, box) BY <1>1, Here
<1>3. IdsOK(c, box) BY <1>1, <1>2 DEF Phase, Removing
<1>4. PICK p \in Current(c) :
        \/ /\ box' = Gone(p[2]) /\ Becomes(o, after(p))
        \/ /\ box' = Gone(p[2]) /\ Becomes(o, Failed(after(p), p, 1))
        \/ UNCHANGED box
  BY DEF Remove
<1> DEFINE d == after(p)
<1>5. p \in c.ids /\ p[2] \in Ids BY <1>2 DEF Current, Base, Commands, Pairs
<1>6. d \in Commands /\ d.pc = "absent" BY <1>2, <1>5 DEF Base, Commands
<1>7. /\ box' = Gone(p[2])
      /\ Becomes(o, d) \/ Becomes(o, Failed(d, p, 1))
  BY <1>4 DEF Exists
<1> HIDE DEF after
<1>8. i = p[2] BY <1>7 DEF Gone
<1>9. MayRemove(c, i)
  <2>1. c.kind \in {"cluster", "single", "labels", "all", "launch"}
    BY <1>2 DEF Base, Commands
  <2> QED BY <1>1, <1>3, <1>5, <1>8, <2>1 DEF IdsOK, Rightful, MayRemove, ByName, Exists
<1>10. p \notin Failed(d, p, 1).ids BY <1>6, FailedDrops
<1>11. cmd'[o] = d \/ cmd'[o] = Failed(d, p, 1) BY <1>7 DEF Becomes, Inv
<1> QED BY <1>1, <1>5, <1>6, <1>9, <1>10, <1>11

LEMMA AbortProven ==
  ASSUME Inv, NEW o \in Ops, Abort(o), NEW i \in Exists \ DOMAIN box'
  PROVE  cmd'[o] # cmd[o] /\ MayRemove(cmd[o], i)
<1> DEFINE c == cmd[o]
           d(p) == [c EXCEPT !.ids = @ \ {p}]
<1>1. c.pc = "abort" BY DEF Abort
<1>2. Base(c, box, up) /\ Phase(c, box) BY <1>1, Here
<1>3. PICK p \in c.ids : /\ box' = (IF p[1] \in up THEN Gone(p[2]) ELSE box)
                         /\ Becomes(o, Ended(c, 1)) \/ Becomes(o, d(p))
  BY DEF Abort
<1>4. i = p[2] BY <1>3 DEF Gone, Exists
<1>5. p \in c.own /\ p \in Pairs BY <1>1, <1>2 DEF Phase, Base, Commands
<1>6. <<box[i].node, i>> = p BY <1>2, <1>4, <1>5 DEF Base, OwnOK, Exists, Pairs
<1>7. MayRemove(c, i) BY <1>1, <1>5, <1>6 DEF MayRemove
<1>8. p \notin d(p).ids /\ p \notin Ended(c, 1).ids BY <1>2 DEF Ended, Base, Commands
<1>9. cmd'[o] = d(p) \/ cmd'[o] = Ended(c, 1) BY <1>3 DEF Becomes, Inv
<1> QED BY <1>7, <1>8, <1>9

\* The other steps remove nothing.
LEMMA OthersKeep ==
  ASSUME NEW o \in Ops, Works(o), ~Remove(o), ~Abort(o) PROVE DOMAIN box \subseteq DOMAIN box'
<1>1. CASE Start(o) BY <1>1 DEF Start, With, Exists
<1>2. CASE Unanswered(o) \/ Wait(o) \/ Absent(o) BY <1>2 DEF Unanswered, Wait, Absent
<1>3. CASE ~Start(o) /\ ~Unanswered(o) /\ ~Wait(o) /\ ~Absent(o)
  BY <1>3 DEF Works, Probe, Confirm, Discover, Resolve, Endpoint, List, Inspect, Recheck,
              Verify, Reading
<1> QED BY <1>1, <1>2, <1>3

\* A container disappears only through docker rm by a command whose
\* requirements its labels still meet when the call is made, or by the start
\* that created it.
THEOREM ProvenRemoved == Spec => OnlyProvenRemoved
<1> DEFINE A == \A i \in Exists \ DOMAIN box' :
                  \E o \in Ops : cmd'[o] # cmd[o] /\ MayRemove(cmd[o], i)
<1>1. Inv /\ [Next]_vars => [A]_vars
  <2> SUFFICES ASSUME Inv, Next, NEW i \in Exists \ DOMAIN box'
               PROVE  \E o \in Ops : cmd'[o] # cmd[o] /\ MayRemove(cmd[o], i)
    OBVIOUS
  <2>1. ASSUME NEW o \in Ops, Works(o)
        PROVE  cmd'[o] # cmd[o] /\ MayRemove(cmd[o], i)
    BY <2>1, RemoveProven, AbortProven, OthersKeep DEF Exists
  <2>2. \A o \in Ops : ~Ask(o) /\ ~Done(o) BY DEF Ask, Done, Exists
  <2>3. \A n \in Nodes : ~Outage(n) /\ ~Return(n) BY DEF Outage, Return, Exists
  <2>4. \A j \in Ids : ~Stranger(j) BY DEF Stranger, With, Exists
  <2> QED BY <2>1, <2>2, <2>3, <2>4 DEF Next
<1> QED BY <1>1, Invariant, PTL DEF Spec, OnlyProvenRemoved

-----------------------------------------------------------------------------
(* A stop that reports success.  Whatever of its target still exists is on *)
(* a node to be visited or among the pairs it holds, up to the last look.  *)

Aims(c, b) ==
  /\ c.kind \in {"cluster", "single", "labels", "all"}
  /\ c.kind = "cluster" => b.name = c.conf /\ b.node \in Ranks(c.conf)
  /\ c.kind = "single" => b.name = c.conf /\ c.at \in {Unset, b.node}
  /\ c.kind = "labels" => b.managed = "true" /\ b.conf = c.conf /\ c.at \in {Unset, b.node}
  /\ c.kind = "all" => b.managed = "true"
AllAimed(c, bx) == \A i \in c.seen \cap DOMAIN bx : Aims(c, bx[i])

Left(c, bx) ==
  \A i \in c.seen \cap DOMAIN bx :
    bx[i].node \in c.todo \/ <<bx[i].node, i>> \in c.look \cup c.ids

Track(c, bx) ==
  /\ AllAimed(c, bx)
  /\ c.rc = 0 /\ c.pc \in {"verify", "ended"} => c.seen \cap DOMAIN bx = {}
  /\ c.rc = 0 /\ c.pc \notin {"verify", "ended", "endpoints"} => Left(c, bx)
  /\ c.pc = "confirm" => c.look \subseteq c.ids
  /\ c.pc = "discover" => \A p, q \in c.ids : p[1] = q[1]
  /\ c.pc = "named" => \A m, n \in c.todo : m = n
  /\ c.pc = "list" => c.look = {}
  /\ c.kind = "all" => /\ \A p, q \in c.ids : p = q
                       /\ c.pc \in {"list", "inspect"} => c.ids = {}

Tracked == \A o \in Ops : Track(cmd[o], box)

LEMMA TrackSteady ==
  ASSUME NEW c, NEW bx, NEW by, Track(c, bx),
         \A i \in c.seen \cap DOMAIN by : i \in DOMAIN bx /\ by[i] = bx[i]
  PROVE  Track(c, by)
  BY DEF Track, AllAimed, Left

LEMMA TrackWrite ==
  ASSUME Inv, Tracked, NEW o \in Ops, NEW d, Becomes(o, d), Track(d, box'),
         \A q \in Ops : \A i \in cmd[q].seen \cap DOMAIN box' :
            i \in DOMAIN box /\ box'[i] = box[i]
  PROVE  Tracked'
<1> DEFINE by == box'
<1>1. \A q \in Ops : cmd'[q] = IF q = o THEN d ELSE cmd[q]
  BY DEF Becomes, Inv
<1>2. \A q \in Ops : Track(cmd[q], by)
  <2> HIDE DEF by
  <2>1. \A q \in Ops : \A i \in cmd[q].seen \cap DOMAIN by : i \in DOMAIN box /\ by[i] = box[i]
    BY DEF by
  <2> QED BY <2>1, TrackSteady DEF Tracked
<1>3. \A q \in Ops : Track(cmd'[q], by) BY <1>1, <1>2
<1> QED BY <1>3 DEF Tracked

LEMMA TrackRead ==
  ASSUME Inv, Tracked, NEW o \in Ops, NEW d, Becomes(o, d), Track(d, box), UNCHANGED box
  PROVE  Tracked'
<1>1. Track(d, box') BY DEF Track
<1> QED BY <1>1, TrackWrite

LEMMA EndedTrack ==
  ASSUME NEW c \in Commands, NEW bx, NEW r \in 0 .. 2, AllAimed(c, bx),
         c.rc = 0 /\ r = 0 => c.seen \cap DOMAIN bx = {}
  PROVE  Track(Ended(c, r), bx)
<1> DEFINE d == Ended(c, r)
<1>1. /\ d.kind = c.kind /\ d.conf = c.conf /\ d.at = c.at /\ d.pc = "ended"
      /\ d.ids = {} /\ d.rc = Merge(c.rc, r)
      /\ d.seen = IF Merge(c.rc, r) = 0 THEN c.seen ELSE {}
  BY DEF Ended, Commands
<1>2. d.rc = 0 => c.rc = 0 /\ r = 0 BY <1>1 DEF Merge, Commands
<1> HIDE DEF d
<1>3. AllAimed(d, bx) BY <1>1 DEF AllAimed, Aims
<1>4. d.seen \subseteq c.seen BY <1>1
<1> QED BY <1>1, <1>2, <1>3, <1>4 DEF Track, d

\* A launch has no target to look for.
LEMMA LaunchTrack ==
  ASSUME NEW d, NEW bx, d.kind = "launch", d.seen \cap DOMAIN bx = {},
         d.pc \notin {"confirm", "discover", "named", "list"}
  PROVE  Track(d, bx)
  BY DEF Track, AllAimed, Left

LEMMA ClearedTrack ==
  ASSUME NEW c \in Commands, NEW bx, AllAimed(c, bx),
         c.rc = 0 => c.seen \cap DOMAIN bx = {}
  PROVE  Track(Cleared(c), bx)
<1>1. CASE c.kind = "cluster"
  <2> DEFINE d == [c EXCEPT !.pc = "verify", !.todo = Ranks(c.conf)]
  <2>1. Cleared(c) = d BY <1>1 DEF Cleared
  <2>2. /\ d.kind = "cluster" /\ d.conf = c.conf /\ d.at = c.at /\ d.seen = c.seen
        /\ d.pc = "verify" /\ d.rc = c.rc
    BY <1>1 DEF Commands
  <2> HIDE DEF d
  <2> QED BY <1>1, <2>1, <2>2 DEF Track, AllAimed, Aims
<1>2. CASE c.kind = "launch"
  <2> DEFINE t == IF Wide(c) THEN Ranks(c.conf) ELSE {c.at}
             d == [c EXCEPT !.pc = "start", !.todo = t]
  <2>1. Cleared(c) = d BY <1>2 DEF Cleared
  <2>2. d.kind = "launch" /\ d.pc = "start" /\ d.seen = c.seen
    BY <1>2 DEF Commands
  <2>3. c.seen \cap DOMAIN bx = {} BY <1>2 DEF AllAimed, Aims
  <2> HIDE DEF d
  <2> QED BY <2>1, <2>2, <2>3, LaunchTrack
<1>3. CASE c.kind \notin {"cluster", "launch"}
  <2>1. Cleared(c) = Ended(c, 0) BY <1>3 DEF Cleared
  <2> QED BY <2>1, EndedTrack
<1> QED BY <1>1, <1>2, <1>3

LEMMA AdvancedTrack ==
  ASSUME NEW c \in Commands, NEW bx, AllAimed(c, bx), c.rc = 0 => Left(c, bx),
         c.kind = "all" => c.ids = {}
  PROVE  Track(Advanced(c), bx)
<1>1. ASSUME NEW pc \in {"inspect", "list", "recheck", "remove"}, pc = "list" => c.look = {}
      PROVE  Track([c EXCEPT !.pc = pc], bx)
  <2> DEFINE d == [c EXCEPT !.pc = pc]
  <2>1. /\ d.kind = c.kind /\ d.conf = c.conf /\ d.at = c.at /\ d.seen = c.seen /\ d.pc = pc
        /\ d.rc = c.rc /\ d.todo = c.todo /\ d.look = c.look /\ d.ids = c.ids
    BY DEF Commands
  <2> HIDE DEF d
  <2>2. AllAimed(d, bx) /\ (d.rc = 0 => Left(d, bx)) BY <2>1 DEF AllAimed, Aims, Left
  <2>3. Track(d, bx) BY <1>1, <2>1, <2>2 DEF Track
  <2> QED BY <2>3 DEF d
<1>2. CASE c.look # {} \/ c.todo # {}
  BY <1>1, <1>2 DEF Advanced
<1>3. CASE c.look = {} /\ c.todo = {} /\ c.kind = "labels" /\ c.rc = 2
  <2>1. Advanced(c) = Ended(c, 2) BY <1>3 DEF Advanced
  <2> QED BY <2>1, EndedTrack
<1>4. CASE c.look = {} /\ c.todo = {} /\ ~(c.kind = "labels" /\ c.rc = 2) /\ c.ids # {}
  BY <1>1, <1>4 DEF Advanced
<1>5. CASE c.look = {} /\ c.todo = {} /\ ~(c.kind = "labels" /\ c.rc = 2) /\ c.ids = {}
  <2>1. Advanced(c) = Cleared(c) BY <1>5 DEF Advanced
  <2>2. c.rc = 0 => c.seen \cap DOMAIN bx = {} BY <1>5 DEF Left
  <2> QED BY <2>1, <2>2, ClearedTrack
<1> QED BY <1>2, <1>3, <1>4, <1>5

LEMMA HereTrack ==
  ASSUME Inv, Tracked, NEW o \in Ops, cmd[o].pc # "idle"
  PROVE  /\ Base(cmd[o], box, up) /\ Phase(cmd[o], box) /\ cmd[o] \in Commands
         /\ Track(cmd[o], box) /\ AllAimed(cmd[o], box)
  BY Here DEF Tracked, Track, Base

\* Ending with an error or a refusal leaves nothing to account for.
LEMMA EndTrack ==
  ASSUME Inv, Tracked, NEW o \in Ops, cmd[o].pc # "idle", NEW r \in 1 .. 2,
         Becomes(o, Ended(cmd[o], r)), UNCHANGED box
  PROVE  Tracked'
<1>1. cmd[o] \in Commands /\ AllAimed(cmd[o], box) BY HereTrack
<1>2. Track(Ended(cmd[o], r), box) BY <1>1, EndedTrack
<1> QED BY <1>2, TrackRead

\* A launch has no target, whatever it does.
LEMMA LaunchSeen ==
  ASSUME Inv, Tracked, NEW o \in Ops, cmd[o].pc \in {"start", "wait", "abort"}
  PROVE  cmd[o].kind = "launch" /\ cmd[o].seen \cap DOMAIN box = {}
  BY HereTrack DEF Phase, AllAimed, Aims

LEMMA AskTrack == ASSUME Inv, Tracked, NEW o \in Ops, Ask(o) PROVE Tracked'
<1>1. PICK r \in menu : Becomes(o, Begun(r[1], r[2], r[3]))
  BY DEF Ask
<1>2. /\ Sensible(r) /\ r[1] \in {"cluster", "single", "labels", "all", "launch"}
      /\ r[2] \in Confs \cup {Unset} /\ r[3] \in Nodes \cup {Unset}
  BY MenusAssumption DEF Inv, Sensible
<1> DEFINE k == r[1]  f == r[2]  at == r[3]
           c == Parsed(k, f, at)
           D(pc, t) == [c EXCEPT !.pc = pc, !.todo = t]
<1>3. /\ c \in Commands
      /\ c.kind = k /\ c.conf = f /\ c.at = at /\ c.mute = Nodes \ up /\ c.rc = 0
      /\ c.own = {} /\ c.gone = {} /\ c.look = {} /\ c.ids = {} /\ c.todo = {}
  BY <1>2, ParsedOK
<1>4. c.seen = Aimed(k, f, at) BY DEF Parsed, Nobody
<1>5. Begun(r[1], r[2], r[3]) = FirstStep(c) BY DEF Begun
<1> HIDE DEF c
<1>6. \A i \in c.seen \cap DOMAIN box : Aims(c, box[i])
  BY <1>2, <1>3, <1>4 DEF Aimed, Aims, Exists
<1>7. \A i \in c.seen \cap DOMAIN box : box[i].node \in Nodes
  BY DEF Inv, Exists, Boxes
<1>8. ASSUME NEW pc \in {"probe", "discover", "named", "list", "endpoints"},
             NEW t \in SUBSET Nodes,
             \A i \in c.seen \cap DOMAIN box : box[i].node \in t,
             pc = "named" => \A m, n \in t : m = n
      PROVE  Track(D(pc, t), box)
  <2> DEFINE d == D(pc, t)
  <2>1. /\ d.pc = pc /\ d.todo = t /\ d.kind = k /\ d.conf = f /\ d.at = at /\ d.rc = 0
        /\ d.look = {} /\ d.ids = {} /\ d.seen = c.seen
    BY <1>3 DEF Commands
  <2> HIDE DEF d
  <2>2. AllAimed(d, box) BY <1>3, <1>6, <2>1 DEF AllAimed, Aims
  <2>3. Left(d, box) BY <1>8, <2>1 DEF Left
  <2>4. Track(d, box) BY <1>8, <2>1, <2>2, <2>3 DEF Track
  <2> QED BY <2>4 DEF d
<1>9. CASE c.kind \in {"cluster", "launch"} /\ Wide(c)
  <2>1. FirstStep(c) = D("probe", Ranks(c.conf)) BY <1>3, <1>9 DEF FirstStep
  <2>2. Ranks(c.conf) \in SUBSET Nodes BY <1>3, <1>9, RanksAreNodes DEF Wide, Commands
  <2>3. \A i \in c.seen \cap DOMAIN box : box[i].node \in Ranks(c.conf)
    BY <1>6, <1>9 DEF Aims
  <2>4. Track(D("probe", Ranks(c.conf)), box) BY <1>8, <2>2, <2>3
  <2> HIDE DEF D
  <2> QED BY <1>1, <1>5, <2>1, <2>4, TrackRead DEF Ask
<1>10. CASE c.kind = "single" /\ c.at = Unset
  <2>1. FirstStep(c) = D("discover", Nodes) BY <1>3, <1>10 DEF FirstStep
  <2>2. Track(D("discover", Nodes), box) BY <1>7, <1>8
  <2> HIDE DEF D
  <2> QED BY <1>1, <1>5, <2>1, <2>2, TrackRead DEF Ask
<1>11. CASE (c.kind = "single" \/ (c.kind = "launch" /\ ~Wide(c))) /\ c.at # Unset
  <2>1. FirstStep(c) = D("named", {c.at}) BY <1>3, <1>11 DEF FirstStep
  <2>2. {c.at} \in SUBSET Nodes BY <1>2, <1>3, <1>11
  <2>3. \A i \in c.seen \cap DOMAIN box : box[i].node \in {c.at}
    BY <1>6, <1>11 DEF Aims
  <2>4. Track(D("named", {c.at}), box) BY <1>8, <2>2, <2>3
  <2> HIDE DEF D
  <2> QED BY <1>1, <1>5, <2>1, <2>4, TrackRead DEF Ask
<1>12. CASE \/ c.kind \in {"labels", "all"}
            \/ c.kind = "launch" /\ ~Wide(c) /\ c.at = Unset
  <2>1. FirstStep(c) \in {D("list", Nodes), D("endpoints", Nodes)}
    BY <1>3, <1>12, LabelsAssumption DEF FirstStep
  <2>2. Track(D("list", Nodes), box) /\ Track(D("endpoints", Nodes), box) BY <1>7, <1>8
  <2> HIDE DEF D
  <2> QED BY <1>1, <1>5, <2>1, <2>2, TrackRead DEF Ask
<1>13. c.kind \in {"cluster", "launch"} => (c.kind = "cluster" => Wide(c))
  BY <1>2, <1>3, ConfsAssumption DEF Sensible, Wide
<1> QED BY <1>2, <1>3, <1>9, <1>10, <1>11, <1>12, <1>13

LEMMA DoneTrack == ASSUME Inv, Tracked, NEW o \in Ops, Done(o) PROVE Tracked'
<1>1. Track(Nobody, box) BY DEF Track, AllAimed, Left, Nobody
<1> QED BY <1>1, TrackRead DEF Done

\* Every container of the service on a node is in its listing, and an inspect
\* shows a container that exists.
LEMMA Truthful == ASSUME ~Flaky, NEW S, NEW hit \in Shown(S) PROVE hit = S
  BY DEF Shown

LEMMA UnansweredTrack == ASSUME Inv, Tracked, NEW o \in Ops, Unanswered(o) PROVE Tracked'
<1> DEFINE c == cmd[o]
           Go(d) == Becomes(o, IF c.kind = "all" THEN Advanced([d EXCEPT !.rc = 1]) ELSE Ended(c, 1))
           A == [c EXCEPT !.todo = @ \ {Asked(c)}]
           B(p) == [c EXCEPT !.look = @ \ {p}]
           E(p) == [c EXCEPT !.ids = @ \ {p}]
<1>1. c.pc # "idle" /\ UNCHANGED box BY DEF Unanswered
<1>2. /\ Base(c, box, up) /\ Phase(c, box) /\ Track(c, box) /\ c \in Commands /\ AllAimed(c, box)
  BY <1>1, HereTrack
<1>3. ASSUME NEW d \in Commands, d.kind = c.kind, d.conf = c.conf, d.at = c.at,
             d.seen = c.seen, c.kind = "all" => d.ids = {}, Go(d)
      PROVE  Tracked'
  <2> DEFINE e == [d EXCEPT !.rc = 1]
  <2>1. /\ e \in Commands /\ e.kind = c.kind /\ e.conf = c.conf /\ e.at = c.at
        /\ e.seen = c.seen /\ e.rc = 1 /\ e.ids = d.ids
    BY <1>3 DEF Commands
  <2>2. Becomes(o, IF c.kind = "all" THEN Advanced(e) ELSE Ended(c, 1)) BY <1>3
  <2> HIDE DEF e
  <2>3. CASE c.kind # "all" BY <1>1, <2>2, <2>3, EndTrack
  <2>4. CASE c.kind = "all"
    <3>1. AllAimed(e, box) BY <1>2, <2>1 DEF AllAimed, Aims
    <3>2. Track(Advanced(e), box) BY <1>3, <2>1, <2>4, <3>1, AdvancedTrack
    <3>3. Becomes(o, Advanced(e)) BY <2>2, <2>4
    <3> QED BY <1>1, <3>2, <3>3, TrackRead
  <2> QED BY <2>3, <2>4
<1>4. CASE Becomes(o, Ended(c, 1)) BY <1>1, <1>4, EndTrack
<1>5. CASE c.pc = "list" /\ Go(A)
  <2>1. /\ A \in Commands /\ A.kind = c.kind /\ A.conf = c.conf /\ A.at = c.at
        /\ A.seen = c.seen /\ A.ids = c.ids
    BY <1>2 DEF Commands
  <2>2. c.kind = "all" => c.ids = {} BY <1>2, <1>5 DEF Track
  <2> HIDE DEF A, Go
  <2> QED BY <1>3, <1>5, <2>1, <2>2
<1>6. ASSUME c.pc = "inspect", NEW p \in c.look, Go(B(p)) PROVE Tracked'
  <2>1. /\ B(p) \in Commands /\ B(p).kind = c.kind /\ B(p).conf = c.conf /\ B(p).at = c.at
        /\ B(p).seen = c.seen /\ B(p).ids = c.ids
    BY <1>2 DEF Commands
  <2>2. c.kind = "all" => c.ids = {} BY <1>2, <1>6 DEF Track
  <2> HIDE DEF B, Go
  <2> QED BY <1>3, <1>6, <2>1, <2>2
<1>7. ASSUME NEW p \in Current(c), Go(E(p)) PROVE Tracked'
  <2>1. /\ E(p) \in Commands /\ E(p).kind = c.kind /\ E(p).conf = c.conf /\ E(p).at = c.at
        /\ E(p).seen = c.seen /\ E(p).ids = c.ids \ {p}
    BY <1>2 DEF Commands
  <2>2. c.kind = "all" => c.ids \ {p} = {} BY <1>2 DEF Track, Current
  <2> HIDE DEF E, Go
  <2> QED BY <1>3, <1>7, <2>1, <2>2
<1> QED BY <1>4, <1>5, <1>6, <1>7 DEF Unanswered

LEMMA NamedAll ==
  ASSUME NEW i \in Exists PROVE <<box[i].node, i>> \in Named(box[i].node, box[i].name)
  BY DEF Named

LEMMA ProbeTrack == ASSUME ~Flaky, Inv, Tracked, NEW o \in Ops, Probe(o) PROVE Tracked'
<1> DEFINE c == cmd[o]
           n == Asked(c)
           hit == Named(n, c.conf)
           d == [c EXCEPT !.todo = @ \ {n}, !.ids = @ \cup hit]
           e == [d EXCEPT !.pc = "confirm", !.look = d.ids]
<1>1. c.pc = "probe" /\ n \in Nodes /\ UNCHANGED box
  BY DEF Probe, Reading, Inv
<1>2. \/ Becomes(o, Ended(c, 2))
      \/ d.todo # {} /\ Becomes(o, d)
      \/ d.todo = {} /\ d.ids # {} /\ Becomes(o, e)
      \/ d.todo = {} /\ d.ids = {} /\ Becomes(o, Cleared(d))
  BY Truthful DEF Probe
<1>3. /\ Base(c, box, up) /\ Phase(c, box) /\ Track(c, box) /\ c \in Commands /\ AllAimed(c, box)
  BY <1>1, HereTrack
<1>4. /\ c.kind \in {"cluster", "launch"} /\ c.rc = 0 /\ c.look = {} /\ Left(c, box)
  BY <1>1, <1>3 DEF Phase, Fresh0, Track
<1>5. hit \in SUBSET Pairs BY <1>1, NamedBox
<1>6. d \in Commands BY <1>3, <1>5 DEF Commands
<1>7. /\ d.kind = c.kind /\ d.conf = c.conf /\ d.at = c.at /\ d.seen = c.seen /\ d.rc = 0
      /\ d.pc = "probe" /\ d.todo = c.todo \ {n} /\ d.ids = c.ids \cup hit /\ d.look = {}
  BY <1>1, <1>3, <1>4 DEF Commands
<1>8. /\ e.kind = c.kind /\ e.conf = c.conf /\ e.at = c.at /\ e.seen = c.seen /\ e.rc = 0
      /\ e.pc = "confirm" /\ e.todo = d.todo /\ e.ids = d.ids /\ e.look = d.ids
  BY <1>6, <1>7 DEF Commands
<1> HIDE DEF d, e
<1>9. AllAimed(d, box) /\ AllAimed(e, box) BY <1>3, <1>7, <1>8 DEF AllAimed, Aims
<1>10. Left(d, box)
  <2>1. ASSUME NEW i \in c.seen \cap DOMAIN box, box[i].node = n
        PROVE  <<box[i].node, i>> \in hit
    BY <1>3, <1>4, <2>1, NamedAll DEF AllAimed, Aims, Exists
  <2> HIDE DEF hit
  <2> QED BY <1>4, <1>7, <2>1 DEF Left
<1>11. Left(e, box) BY <1>7, <1>8, <1>10 DEF Left
<1>12. Track(d, box) BY <1>4, <1>7, <1>9, <1>10 DEF Track
<1>13. Track(e, box) BY <1>4, <1>8, <1>9, <1>11 DEF Track
<1>14. d.todo = {} /\ d.ids = {} => Track(Cleared(d), box)
  BY <1>6, <1>7, <1>9, <1>10, ClearedTrack DEF Left
<1>15. CASE Becomes(o, Ended(c, 2)) BY <1>1, <1>15, EndTrack
<1>16. CASE Becomes(o, d) BY <1>1, <1>12, <1>16, TrackRead
<1>17. CASE Becomes(o, e) BY <1>1, <1>13, <1>17, TrackRead
<1>18. CASE d.todo = {} /\ d.ids = {} /\ Becomes(o, Cleared(d))
  BY <1>1, <1>14, <1>18, TrackRead
<1> QED BY <1>2, <1>15, <1>16, <1>17, <1>18

LEMMA ConfirmTrack == ASSUME Inv, Tracked, NEW o \in Ops, Confirm(o) PROVE Tracked'
<1> DEFINE c == cmd[o]
           D(p) == [c EXCEPT !.look = @ \ {p},
                             !.pc = IF c.look = {p} THEN "remove" ELSE "confirm"]
<1>1. c.pc = "confirm" /\ UNCHANGED box
  BY DEF Confirm, Reading
<1>2. PICK p \in c.look : Becomes(o, D(p)) \/ Becomes(o, Ended(c, 2))
  BY DEF Confirm
<1>3. /\ Base(c, box, up) /\ Phase(c, box) /\ Track(c, box) /\ c \in Commands /\ AllAimed(c, box)
  BY <1>1, HereTrack
<1>4. /\ c.kind \in {"cluster", "launch"} /\ c.rc = 0 /\ c.todo = {} /\ Left(c, box)
      /\ c.look \subseteq c.ids
  BY <1>1, <1>3 DEF Phase, Track
<1> DEFINE d == D(p)
<1>5. /\ d.kind = c.kind /\ d.conf = c.conf /\ d.at = c.at /\ d.seen = c.seen /\ d.rc = 0
      /\ d.pc \in {"remove", "confirm"} /\ d.todo = {} /\ d.ids = c.ids
      /\ d.look \subseteq c.look
  BY <1>3, <1>4 DEF Commands
<1>6. Becomes(o, d) \/ Becomes(o, Ended(c, 2)) BY <1>2
<1> HIDE DEF d, D
<1>7. AllAimed(d, box) BY <1>3, <1>5 DEF AllAimed, Aims
<1>8. Left(d, box) BY <1>4, <1>5 DEF Left
<1>9. Track(d, box) BY <1>4, <1>5, <1>7, <1>8 DEF Track
<1>10. CASE Becomes(o, d) BY <1>1, <1>9, <1>10, TrackRead
<1>11. CASE Becomes(o, Ended(c, 2)) BY <1>1, <1>11, EndTrack
<1> QED BY <1>6, <1>10, <1>11

LEMMA LowestOf ==
  ASSUME NEW S, S \subseteq Pairs, S # {} PROVE \E p \in S : Lowest(S) = p[1]
<1>1. {p[1] : p \in S} \subseteq Nodes /\ {p[1] : p \in S} # {}
  BY DEF Pairs
<1>2. Min({p[1] : p \in S}) \in {p[1] : p \in S} BY <1>1, MinIn
<1> QED BY <1>2 DEF Lowest

LEMMA DiscoverTrack == ASSUME ~Flaky, Inv, Tracked, NEW o \in Ops, Discover(o) PROVE Tracked'
<1> DEFINE c == cmd[o]
           n == Asked(c)
           hit == Named(n, c.conf)
           d == [c EXCEPT !.todo = @ \ {n}, !.ids = @ \cup hit]
           e == [d EXCEPT !.pc = "named", !.todo = {Lowest(d.ids)}, !.ids = {}]
<1>1. c.pc = "discover" /\ n \in Nodes /\ UNCHANGED box
  BY DEF Discover, Reading, Inv
<1>2. \/ Becomes(o, Ended(c, 2))
      \/ /\ hit = {} \/ c.ids = {}
         /\ \/ d.todo # {} /\ Becomes(o, d)
            \/ d.todo = {} /\ d.ids # {} /\ Becomes(o, e)
            \/ d.todo = {} /\ d.ids = {} /\ Becomes(o, Ended(d, 0))
  BY Truthful DEF Discover
<1>3. /\ Base(c, box, up) /\ Phase(c, box) /\ Track(c, box) /\ c \in Commands /\ AllAimed(c, box)
  BY <1>1, HereTrack
<1>4. /\ c.kind = "single" /\ c.rc = 0 /\ c.look = {} /\ Left(c, box)
      /\ \A p, q \in c.ids : p[1] = q[1]
  BY <1>1, <1>3 DEF Phase, Fresh0, Track
<1>5. hit \in SUBSET Pairs /\ \A p \in hit : p[1] = n BY <1>1, NamedBox
<1>6. d \in Commands BY <1>3, <1>5 DEF Commands
<1>7. /\ d.kind = c.kind /\ d.conf = c.conf /\ d.at = c.at /\ d.seen = c.seen /\ d.rc = 0
      /\ d.pc = "discover" /\ d.todo = c.todo \ {n} /\ d.ids = c.ids \cup hit /\ d.look = {}
  BY <1>1, <1>3, <1>4 DEF Commands
<1>8. /\ e.kind = c.kind /\ e.conf = c.conf /\ e.at = c.at /\ e.seen = c.seen /\ e.rc = 0
      /\ e.pc = "named" /\ e.todo = {Lowest(d.ids)} /\ e.ids = {} /\ e.look = {}
  BY <1>6, <1>7 DEF Commands
<1> HIDE DEF d, e
<1>9. AllAimed(d, box) /\ AllAimed(e, box) BY <1>3, <1>7, <1>8 DEF AllAimed, Aims
<1>10. Left(d, box)
  <2>1. ASSUME NEW i \in c.seen \cap DOMAIN box, box[i].node = n
        PROVE  <<box[i].node, i>> \in hit
    BY <1>3, <1>4, <2>1, NamedAll DEF AllAimed, Aims, Exists
  <2> HIDE DEF hit
  <2> QED BY <1>4, <1>7, <2>1 DEF Left
<1>11. CASE Becomes(o, Ended(c, 2)) BY <1>1, <1>11, EndTrack
<1>12. CASE hit = {} \/ c.ids = {}
  <2>1. \A p, q \in d.ids : p[1] = q[1] BY <1>4, <1>5, <1>7, <1>12
  <2>2. CASE Becomes(o, d)
    <3>1. Track(d, box) BY <1>4, <1>7, <1>9, <1>10, <2>1 DEF Track
    <3> QED BY <1>1, <2>2, <3>1, TrackRead
  <2>3. CASE d.todo = {} /\ d.ids # {} /\ Becomes(o, e)
    <3>1. d.ids \subseteq Pairs BY <1>6 DEF Commands
    <3>2. PICK p \in d.ids : Lowest(d.ids) = p[1] BY <2>3, <3>1, LowestOf
    <3>3. Left(e, box)
      <4> SUFFICES ASSUME NEW i \in c.seen \cap DOMAIN box PROVE box[i].node \in e.todo
        BY <1>8 DEF Left
      <4>1. <<box[i].node, i>> \in d.ids BY <1>7, <1>10, <2>3 DEF Left
      <4>2. p[1] = <<box[i].node, i>>[1] BY <2>1, <3>2, <4>1
      <4> QED BY <1>8, <3>2, <4>2
    <3>4. Track(e, box) BY <1>4, <1>8, <1>9, <3>3 DEF Track
    <3> QED BY <1>1, <2>3, <3>4, TrackRead
  <2>4. CASE d.todo = {} /\ d.ids = {} /\ Becomes(o, Ended(d, 0))
    <3>a. d.seen \cap DOMAIN box = {} BY <1>7, <1>10, <2>4 DEF Left
    <3>1. Track(Ended(d, 0), box) BY <1>6, <1>9, <3>a, EndedTrack
    <3> QED BY <1>1, <2>4, <3>1, TrackRead
  <2> HIDE DEF hit
  <2> QED BY <1>2, <1>11, <2>2, <2>3, <2>4
<1> QED BY <1>2, <1>11, <1>12

LEMMA ResolveTrack == ASSUME ~Flaky, Inv, Tracked, NEW o \in Ops, Resolve(o) PROVE Tracked'
<1> DEFINE c == cmd[o]
           n == Asked(c)
           hit == Named(n, c.conf)
           d == [c EXCEPT !.todo = {}]
           e == [c EXCEPT !.pc = "recheck", !.todo = {}, !.ids = hit]
<1>1. c.pc = "named" /\ n \in Nodes /\ UNCHANGED box
  BY DEF Resolve, Reading, Inv
<1>2. \/ hit = {} /\ Becomes(o, Cleared(d))
      \/ Becomes(o, Ended(c, 2)) \/ Becomes(o, e)
  BY Truthful DEF Resolve
<1>3. /\ Base(c, box, up) /\ Phase(c, box) /\ Track(c, box) /\ c \in Commands /\ AllAimed(c, box)
  BY <1>1, HereTrack
<1>4. /\ c.kind \in {"single", "launch"} /\ c.rc = 0 /\ c.look = {} /\ c.ids = {} /\ Left(c, box)
      /\ \A l, m \in c.todo : l = m
  BY <1>1, <1>3 DEF Phase, Fresh0, Track
<1>5. d \in Commands BY <1>3 DEF Commands
<1>6. d.kind = c.kind /\ d.conf = c.conf /\ d.at = c.at /\ d.seen = c.seen /\ d.rc = 0
  BY <1>3, <1>4 DEF Commands
<1>7. /\ e.kind = c.kind /\ e.conf = c.conf /\ e.at = c.at /\ e.seen = c.seen /\ e.rc = 0
      /\ e.pc = "recheck" /\ e.ids = hit /\ e.look = {}
  BY <1>3, <1>4 DEF Commands
<1> HIDE DEF d, e
<1>8. AllAimed(d, box) /\ AllAimed(e, box) BY <1>3, <1>6, <1>7 DEF AllAimed, Aims
<1>9. ASSUME NEW i \in c.seen \cap DOMAIN box PROVE <<box[i].node, i>> \in hit
  <2>1. box[i].node \in c.todo BY <1>4 DEF Left
  <2>2. box[i].node \in Nodes BY DEF Inv, Exists, Boxes
  <2>3. c.todo = {box[i].node} BY <1>4, <2>1
  <2>4. n = box[i].node BY <1>1, <2>2, <2>3, MinOne DEF Asked
  <2>5. box[i].name = c.conf BY <1>3, <1>4 DEF AllAimed, Aims
  <2> QED BY <2>4, <2>5, NamedAll DEF Exists
<1> HIDE DEF hit
<1>10. CASE hit = {} /\ Becomes(o, Cleared(d))
  <2>1. Track(Cleared(d), box) BY <1>5, <1>6, <1>8, <1>9, <1>10, ClearedTrack
  <2> QED BY <1>1, <1>10, <2>1, TrackRead
<1>11. CASE Becomes(o, e)
  <2>1. Left(e, box) BY <1>7, <1>9 DEF Left
  <2>2. Track(e, box) BY <1>4, <1>7, <1>8, <2>1 DEF Track
  <2> QED BY <1>1, <1>11, <2>2, TrackRead
<1>12. CASE Becomes(o, Ended(c, 2)) BY <1>1, <1>12, EndTrack
<1> QED BY <1>2, <1>10, <1>11, <1>12

LEMMA EndpointTrack == ASSUME Inv, Tracked, NEW o \in Ops, Endpoint(o) PROVE Tracked'
<1> DEFINE c == cmd[o]
           d == [c EXCEPT !.pc = "list", !.todo = Nodes]
           e == [c EXCEPT !.todo = @ \ {Asked(c)}]
<1>1. c.pc = "endpoints" /\ UNCHANGED box /\ (Becomes(o, d) \/ Becomes(o, e))
  BY DEF Endpoint, Reading
<1>2. /\ Base(c, box, up) /\ Phase(c, box) /\ Track(c, box) /\ c \in Commands /\ AllAimed(c, box)
  BY <1>1, HereTrack
<1>3. /\ c.look = {} /\ c.ids = {} /\ c.rc = 0 BY <1>1, <1>2 DEF Phase, Fresh0
<1>4. /\ d.kind = c.kind /\ d.conf = c.conf /\ d.at = c.at /\ d.seen = c.seen /\ d.rc = 0
      /\ d.pc = "list" /\ d.ids = {} /\ d.look = {} /\ d.todo = Nodes
  BY <1>2, <1>3 DEF Commands
<1>5. /\ e.kind = c.kind /\ e.conf = c.conf /\ e.at = c.at /\ e.seen = c.seen /\ e.rc = 0
      /\ e.pc = "endpoints" /\ e.ids = {}
  BY <1>1, <1>2, <1>3 DEF Commands
<1> HIDE DEF d, e
<1>6. AllAimed(d, box) /\ AllAimed(e, box) BY <1>2, <1>4, <1>5 DEF AllAimed, Aims
<1>7. Left(d, box) BY <1>4 DEF Left, Inv, Exists, Boxes
<1>8. Track(d, box) BY <1>4, <1>6, <1>7 DEF Track
<1>9. Track(e, box) BY <1>5, <1>6 DEF Track
<1> QED BY <1>1, <1>8, <1>9, TrackRead

LEMMA ListTrack == ASSUME Inv, Tracked, NEW o \in Ops, List(o) PROVE Tracked'
<1> DEFINE c == cmd[o]
           n == Asked(c)
           l == Managed(n)
           d == [c EXCEPT !.todo = @ \ {n}, !.look = l]
<1>1. c.pc = "list" /\ UNCHANGED box /\ Becomes(o, Advanced(d)) /\ n \in Nodes
  BY DEF List, Reading, Inv
<1>2. /\ Base(c, box, up) /\ Phase(c, box) /\ Track(c, box) /\ c \in Commands /\ AllAimed(c, box)
  BY <1>1, HereTrack
<1>3. /\ c.kind \in {"labels", "all"} /\ c.look = {} /\ (c.rc = 0 => Left(c, box))
      /\ c.kind = "all" => c.ids = {}
  BY <1>1, <1>2 DEF Phase, Track
<1>4. l \in SUBSET Pairs BY <1>1 DEF Managed, Pairs, Inv, Exists
<1>5. d \in Commands BY <1>2, <1>4 DEF Commands
<1>6. /\ d.kind = c.kind /\ d.conf = c.conf /\ d.at = c.at /\ d.seen = c.seen /\ d.rc = c.rc
      /\ d.ids = c.ids /\ d.look = l /\ d.todo = c.todo \ {n}
  BY <1>2 DEF Commands
<1> HIDE DEF d
<1>7. AllAimed(d, box) BY <1>2, <1>6 DEF AllAimed, Aims
<1>8. ASSUME NEW i \in c.seen \cap DOMAIN box, box[i].node = n
      PROVE  <<box[i].node, i>> \in l
  BY <1>2, <1>3, <1>8 DEF AllAimed, Aims, Managed, Exists
<1> HIDE DEF l
<1>9. d.rc = 0 => Left(d, box) BY <1>3, <1>6, <1>8 DEF Left
<1>10. Track(Advanced(d), box) BY <1>3, <1>5, <1>6, <1>7, <1>9, AdvancedTrack
<1> QED BY <1>1, <1>10, TrackRead

LEMMA PresentHere ==
  ASSUME NEW i \in Exists PROVE Present(<<box[i].node, i>>) # {}
  BY DEF Present

LEMMA InspectTrack == ASSUME ~Flaky, Inv, Tracked, NEW o \in Ops, Inspect(o) PROVE Tracked'
<1> DEFINE c == cmd[o]
           D(p) == [c EXCEPT !.look = @ \ {p}]
           mine(p) == Present(p) # {} /\ (c.kind = "labels" => Box(p).conf = c.conf)
           ranked(p) == c.at # Unset /\ Box(p).rank # Single
<1>1. c.pc = "inspect" /\ UNCHANGED box BY DEF Inspect, Reading
<1>p. PICK p \in c.look :
        \/ ~mine(p) /\ Becomes(o, Advanced(D(p)))
        \/ c.kind = "all" /\ Becomes(o, Advanced([D(p) EXCEPT !.rc = Merge(@, 2)]))
        \/ Becomes(o, Ended(c, 2))
        \/ c.kind = "all" /\ Becomes(o, [D(p) EXCEPT !.pc = "recheck", !.ids = {p}])
        \/ /\ c.kind # "all"
           /\ Becomes(o, Advanced(
                [D(p) EXCEPT !.rc = IF ranked(p) THEN 2 ELSE @,
                             !.ids = IF c.at \in {Unset, p[1]} THEN @ \cup {p} ELSE @]))
  BY Truthful DEF Inspect
<1>2. /\ Base(c, box, up) /\ Phase(c, box) /\ Track(c, box) /\ c \in Commands /\ AllAimed(c, box)
  BY <1>1, HereTrack
<1>3. /\ c.kind \in {"labels", "all"} /\ (c.rc = 0 => Left(c, box))
      /\ c.kind = "all" => c.ids = {}
  BY <1>1, <1>2 DEF Phase, Track
<1> DEFINE d == D(p)
<1>4. p \in Pairs BY <1>2 DEF Commands
<1>5. d \in Commands BY <1>2 DEF Commands
<1>6. /\ d.kind = c.kind /\ d.conf = c.conf /\ d.at = c.at /\ d.seen = c.seen /\ d.rc = c.rc
      /\ d.ids = c.ids /\ d.look = c.look \ {p} /\ d.todo = c.todo
  BY <1>2 DEF Commands
<1> HIDE DEF D
<1>7. AllAimed(d, box) BY <1>2, <1>6 DEF AllAimed, Aims
<1>8. CASE ~mine(p) /\ Becomes(o, Advanced(d))
  <2>1. ASSUME NEW i \in c.seen \cap DOMAIN box, <<box[i].node, i>> = p PROVE FALSE
    <3>1. Present(p) # {} BY <2>1, PresentHere DEF Exists
    <3>2. p[2] = i BY <2>1
    <3>3. c.kind = "labels" => box[i].conf = c.conf BY <1>2 DEF AllAimed, Aims
    <3> QED BY <1>8, <3>1, <3>2, <3>3 DEF Box
  <2>2. d.rc = 0 => Left(d, box) BY <1>3, <1>6, <2>1 DEF Left
  <2>3. Track(Advanced(d), box) BY <1>3, <1>5, <1>6, <1>7, <2>2, AdvancedTrack
  <2> QED BY <1>1, <1>8, <2>3, TrackRead
<1>9. CASE c.kind = "all" /\ Becomes(o, Advanced([d EXCEPT !.rc = Merge(@, 2)]))
  <2> DEFINE e == [d EXCEPT !.rc = Merge(@, 2)]
  <2>1. Merge(d.rc, 2) \in 1 .. 2 BY <1>5 DEF Merge, Commands
  <2>2. e \in Commands BY <1>5, <2>1 DEF Commands
  <2>3. /\ e.kind = c.kind /\ e.conf = c.conf /\ e.at = c.at /\ e.seen = c.seen
        /\ e.ids = c.ids /\ e.rc # 0
    BY <1>5, <1>6, <2>1 DEF Commands
  <2>4. Becomes(o, Advanced(e)) BY <1>9
  <2> HIDE DEF e
  <2>5. AllAimed(e, box) BY <1>2, <2>3 DEF AllAimed, Aims
  <2>6. Track(Advanced(e), box) BY <1>3, <2>2, <2>3, <2>5, AdvancedTrack
  <2> QED BY <1>1, <2>4, <2>6, TrackRead
<1>10. CASE Becomes(o, Ended(c, 2)) BY <1>1, <1>10, EndTrack
<1>11. CASE c.kind = "all" /\ Becomes(o, [d EXCEPT !.pc = "recheck", !.ids = {p}])
  <2> DEFINE e == [d EXCEPT !.pc = "recheck", !.ids = {p}]
  <2>1. /\ e.kind = c.kind /\ e.conf = c.conf /\ e.at = c.at /\ e.seen = c.seen /\ e.rc = c.rc
        /\ e.pc = "recheck" /\ e.ids = {p} /\ e.look = d.look /\ e.todo = c.todo
    BY <1>5, <1>6 DEF Commands
  <2>2. Becomes(o, e) BY <1>11
  <2> HIDE DEF e
  <2>3. AllAimed(e, box) BY <1>2, <2>1 DEF AllAimed, Aims
  <2>4. e.rc = 0 => Left(e, box) BY <1>3, <1>6, <1>11, <2>1 DEF Left
  <2>5. Track(e, box) BY <2>1, <2>3, <2>4 DEF Track
  <2> QED BY <1>1, <2>2, <2>5, TrackRead
<1>12. CASE /\ c.kind # "all"
            /\ Becomes(o, Advanced(
                [d EXCEPT !.rc = IF ranked(p) THEN 2 ELSE @,
                          !.ids = IF c.at \in {Unset, p[1]} THEN @ \cup {p} ELSE @]))
  <2> DEFINE r == IF ranked(p) THEN 2 ELSE d.rc
             I == IF c.at \in {Unset, p[1]} THEN d.ids \cup {p} ELSE d.ids
             e == [d EXCEPT !.rc = r, !.ids = I]
  <2>1. Becomes(o, Advanced(e)) BY <1>12
  <2>2. /\ r \in 0 .. 2 /\ I \in SUBSET Pairs /\ (r = 0 => c.rc = 0) /\ c.ids \subseteq I
        /\ c.at \in {Unset, p[1]} => p \in I
    BY <1>4, <1>5, <1>6 DEF Commands
  <2> HIDE DEF r, I
  <2>3. e \in Commands BY <1>5, <2>2 DEF Commands
  <2>4. /\ e.kind = c.kind /\ e.conf = c.conf /\ e.at = c.at /\ e.seen = c.seen /\ e.rc = r
        /\ e.ids = I /\ e.look = c.look \ {p} /\ e.todo = c.todo
    BY <1>5, <1>6 DEF Commands
  <2> HIDE DEF e
  <2>5. AllAimed(e, box) BY <1>2, <2>4 DEF AllAimed, Aims
  <2>6. ASSUME NEW i \in c.seen \cap DOMAIN box, <<box[i].node, i>> = p PROVE p \in I
    <3>1. p[1] = box[i].node BY <2>6
    <3>2. c.at \in {Unset, box[i].node} BY <1>2, <1>3, <1>12 DEF AllAimed, Aims
    <3> QED BY <2>2, <3>1, <3>2
  <2>7. e.rc = 0 => Left(e, box) BY <1>3, <2>2, <2>4, <2>6 DEF Left
  <2>8. Track(Advanced(e), box) BY <1>12, <2>3, <2>4, <2>5, <2>7, AdvancedTrack
  <2> QED BY <1>1, <2>1, <2>8, TrackRead
<1> HIDE DEF mine, ranked
<1> QED BY <1>p, <1>8, <1>9, <1>10, <1>11, <1>12

\* A container that is gone, or that a command gives up, is not its concern.
LEMMA SkippedTrack ==
  ASSUME NEW c \in Commands, NEW bx, AllAimed(c, bx), NEW p,
         c.rc = 0 => Left(c, bx) /\ \A i \in c.seen \cap DOMAIN bx : <<bx[i].node, i>> # p,
         c.kind = "all" => c.ids \subseteq {p}
  PROVE  Track(Skipped(c, p), bx)
<1> DEFINE d == [c EXCEPT !.ids = @ \ {p}]
<1>1. d \in Commands BY DEF Commands
<1>2. /\ d.kind = c.kind /\ d.conf = c.conf /\ d.at = c.at /\ d.seen = c.seen /\ d.rc = c.rc
      /\ d.ids = c.ids \ {p} /\ d.look = c.look /\ d.todo = c.todo
  BY DEF Commands
<1>3. Skipped(c, p) = Advanced(d) BY DEF Skipped
<1> HIDE DEF d
<1>4. AllAimed(d, bx) BY <1>2 DEF AllAimed, Aims
<1>5. d.rc = 0 => Left(d, bx) BY <1>2 DEF Left
<1>6. d.kind = "all" => d.ids = {} BY <1>2
<1> QED BY <1>1, <1>3, <1>4, <1>5, <1>6, AdvancedTrack

LEMMA FailedTrack ==
  ASSUME NEW c \in Commands, NEW bx, AllAimed(c, bx), NEW p, NEW r \in 1 .. 2,
         c.kind = "all" => c.ids \subseteq {p}
  PROVE  Track(Failed(c, p, r), bx)
<1>1. CASE c.kind = "all"
  <2> DEFINE d == [c EXCEPT !.rc = Merge(@, r)]
  <2>1. Merge(c.rc, r) \in 1 .. 2 BY DEF Merge, Commands
  <2>2. d \in Commands BY <2>1 DEF Commands
  <2>3. /\ d.kind = c.kind /\ d.conf = c.conf /\ d.at = c.at /\ d.seen = c.seen
        /\ d.ids = c.ids /\ d.rc # 0
    BY <2>1 DEF Commands
  <2>4. Failed(c, p, r) = Skipped(d, p) BY <1>1 DEF Failed
  <2> HIDE DEF d
  <2>5. AllAimed(d, bx) BY <2>3 DEF AllAimed, Aims
  <2> QED BY <2>2, <2>3, <2>4, <2>5, SkippedTrack
<1>2. CASE c.kind # "all"
  <2>1. Failed(c, p, r) = Ended(c, r) BY <1>2 DEF Failed
  <2> QED BY <2>1, EndedTrack
<1> QED BY <1>1, <1>2

LEMMA RecheckTrack == ASSUME ~Flaky, Inv, Tracked, NEW o \in Ops, Recheck(o) PROVE Tracked'
<1> DEFINE c == cmd[o]
           d == [c EXCEPT !.pc = "remove"]
<1>1. c.pc = "recheck" /\ UNCHANGED box BY DEF Recheck, Reading
<1>2. PICK p \in Current(c) :
        \/ Present(p) = {} /\ Becomes(o, Skipped(c, p))
        \/ Becomes(o, Failed(c, p, 2)) \/ Becomes(o, d)
  BY Truthful DEF Recheck
<1>3. /\ Base(c, box, up) /\ Phase(c, box) /\ Track(c, box) /\ c \in Commands /\ AllAimed(c, box)
  BY <1>1, HereTrack
<1>4. /\ c.rc = 0 => Left(c, box)
      /\ p \in c.ids
      /\ c.kind = "all" => c.ids \subseteq {p}
  BY <1>1, <1>3 DEF Track, Current
<1>5. /\ d.kind = c.kind /\ d.conf = c.conf /\ d.at = c.at /\ d.seen = c.seen /\ d.rc = c.rc
      /\ d.pc = "remove" /\ d.ids = c.ids /\ d.look = c.look /\ d.todo = c.todo
  BY <1>3 DEF Commands
<1> HIDE DEF d
<1>6. Track(d, box)
  <2>1. AllAimed(d, box) BY <1>3, <1>5 DEF AllAimed, Aims
  <2>2. d.rc = 0 => Left(d, box) BY <1>4, <1>5 DEF Left
  <2> QED BY <1>3, <1>5, <2>1, <2>2 DEF Track
<1>7. Track(Failed(c, p, 2), box) BY <1>3, <1>4, FailedTrack
<1>8. CASE Present(p) = {} /\ Becomes(o, Skipped(c, p))
  <2>1. \A i \in c.seen \cap DOMAIN box : <<box[i].node, i>> # p
    BY <1>8, PresentHere DEF Exists
  <2>2. Track(Skipped(c, p), box) BY <1>3, <1>4, <2>1, SkippedTrack
  <2> QED BY <1>1, <1>8, <2>2, TrackRead
<1>9. CASE Becomes(o, d) BY <1>1, <1>6, <1>9, TrackRead
<1>10. CASE Becomes(o, Failed(c, p, 2)) BY <1>1, <1>7, <1>10, TrackRead
<1> QED BY <1>2, <1>8, <1>9, <1>10

LEMMA RemoveTrack == ASSUME Inv, Tracked, NEW o \in Ops, Remove(o) PROVE Tracked'
<1> DEFINE c == cmd[o]
           after(p) == [c EXCEPT !.pc = "absent", !.gone = @ \cup {p[2]}]
           last == [c EXCEPT !.pc = "absent"]
<1>1. c.pc = "remove" BY DEF Remove
<1>2. PICK p \in Current(c) :
        \/ box' = Gone(p[2]) /\ Becomes(o, after(p))
        \/ box' = Gone(p[2]) /\ Becomes(o, Failed(after(p), p, 1))
        \/ UNCHANGED box /\ Becomes(o, last)
        \/ UNCHANGED box /\ Becomes(o, Failed(c, p, 1))
  BY DEF Remove
<1>3. /\ Base(c, box, up) /\ Phase(c, box) /\ Track(c, box) /\ c \in Commands /\ AllAimed(c, box)
  BY <1>1, HereTrack
<1>4. /\ c.rc = 0 => Left(c, box)
      /\ p \in c.ids /\ p[2] \in Ids
      /\ c.kind = "all" => c.ids \subseteq {p}
      /\ \A x, y \in c.ids : c.kind = "all" => x = y
  BY <1>1, <1>3 DEF Track, Current, Commands, Pairs
<1> DEFINE d == after(p)
<1>5. /\ d \in Commands /\ last \in Commands
  BY <1>3, <1>4 DEF Commands
<1>6. /\ d.kind = c.kind /\ d.conf = c.conf /\ d.at = c.at /\ d.seen = c.seen /\ d.rc = c.rc
      /\ d.pc = "absent" /\ d.ids = c.ids /\ d.look = c.look /\ d.todo = c.todo
  BY <1>3 DEF Commands
<1>7. /\ last.kind = c.kind /\ last.conf = c.conf /\ last.at = c.at /\ last.seen = c.seen
      /\ last.pc = "absent" /\ last.ids = c.ids /\ last.look = c.look /\ last.todo = c.todo
      /\ last.rc = c.rc
  BY <1>3 DEF Commands
<1> HIDE DEF after, last
<1>8. Track(d, box) /\ AllAimed(d, box)
  <2>1. AllAimed(d, box) BY <1>3, <1>6 DEF AllAimed, Aims
  <2>2. d.rc = 0 => Left(d, box) BY <1>4, <1>6 DEF Left
  <2> QED BY <1>4, <1>6, <2>1, <2>2 DEF Track
<1>9. Track(last, box)
  <2>1. AllAimed(last, box) BY <1>3, <1>7 DEF AllAimed, Aims
  <2>2. last.rc = 0 => Left(last, box) BY <1>4, <1>7 DEF Left
  <2> QED BY <1>4, <1>7, <2>1, <2>2 DEF Track
<1> DEFINE e == Failed(d, p, 1)
<1>10. Track(e, box) BY <1>4, <1>5, <1>6, <1>8, FailedTrack
<1>11. Track(Failed(c, p, 1), box) BY <1>3, <1>4, FailedTrack
<1> HIDE DEF d, e
<1>12. \A q : \A i \in cmd[q].seen \cap DOMAIN Gone(p[2]) :
          i \in DOMAIN box /\ Gone(p[2])[i] = box[i]
  BY DEF Gone, Exists
<1>13. Track(d, Gone(p[2])) /\ Track(e, Gone(p[2]))
  <2>1. \A i \in DOMAIN Gone(p[2]) : i \in DOMAIN box /\ Gone(p[2])[i] = box[i]
    BY DEF Gone, Exists
  <2> QED BY <1>8, <1>10, <2>1, TrackSteady
<1>14. CASE box' = Gone(p[2]) /\ Becomes(o, d) BY <1>12, <1>13, <1>14, TrackWrite
<1>15. CASE box' = Gone(p[2]) /\ Becomes(o, e) BY <1>12, <1>13, <1>15, TrackWrite
<1>16. CASE UNCHANGED box /\ Becomes(o, last) BY <1>9, <1>16, TrackRead
<1>17. CASE UNCHANGED box /\ Becomes(o, Failed(c, p, 1)) BY <1>11, <1>17, TrackRead
<1> QED BY <1>2, <1>14, <1>15, <1>16, <1>17 DEF d, e

LEMMA AbsentTrack == ASSUME Inv, Tracked, NEW o \in Ops, Absent(o) PROVE Tracked'
<1> DEFINE c == cmd[o]
<1>1. c.pc = "absent" /\ UNCHANGED box BY DEF Absent
<1>2. PICK p \in Current(c) :
        \/ Present(p) = {} /\ Becomes(o, Skipped(c, p))
        \/ Becomes(o, Failed(c, p, 1))
  BY DEF Absent
<1>3. /\ Base(c, box, up) /\ Phase(c, box) /\ Track(c, box) /\ c \in Commands /\ AllAimed(c, box)
  BY <1>1, HereTrack
<1>4. /\ c.rc = 0 => Left(c, box)
      /\ c.kind = "all" => c.ids \subseteq {p}
  BY <1>1, <1>3 DEF Track, Current
<1>5. Track(Failed(c, p, 1), box) BY <1>3, <1>4, FailedTrack
<1>6. CASE Present(p) = {} /\ Becomes(o, Skipped(c, p))
  <2>1. \A i \in c.seen \cap DOMAIN box : <<box[i].node, i>> # p
    BY <1>6, PresentHere DEF Exists
  <2>2. Track(Skipped(c, p), box) BY <1>3, <1>4, <2>1, SkippedTrack
  <2> QED BY <1>1, <1>6, <2>2, TrackRead
<1>7. CASE Becomes(o, Failed(c, p, 1)) BY <1>1, <1>5, <1>7, TrackRead
<1> QED BY <1>2, <1>6, <1>7

LEMMA VerifyTrack == ASSUME Inv, Tracked, NEW o \in Ops, Verify(o) PROVE Tracked'
<1> DEFINE c == cmd[o]
           D(hit) == [c EXCEPT !.todo = @ \ {Asked(c)}, !.ids = c.ids \cup hit]
<1>1. c.pc = "verify" /\ UNCHANGED box BY DEF Verify, Reading
<1>2. PICK hit \in Shown(Named(Asked(c), c.conf)) :
        Becomes(o, D(hit)) \/ Becomes(o, Ended(c, 0)) \/ Becomes(o, Ended(c, 1))
  BY DEF Verify
<1>3. /\ Base(c, box, up) /\ Phase(c, box) /\ Track(c, box) /\ c \in Commands /\ AllAimed(c, box)
  BY <1>1, HereTrack
<1>4. c.kind = "cluster" /\ c.rc = 0 /\ c.seen \cap DOMAIN box = {}
  BY <1>1, <1>3 DEF Phase, Track
<1> DEFINE d == D(hit)
<1>5. d.kind = "cluster" /\ d.seen = c.seen /\ d.pc = "verify"
  BY <1>1, <1>3, <1>4 DEF Commands
<1> HIDE DEF D
<1>6. Track(d, box) BY <1>4, <1>5 DEF Track, AllAimed
<1>7. Track(Ended(c, 0), box) /\ Track(Ended(c, 1), box) BY <1>3, <1>4, EndedTrack
<1> QED BY <1>1, <1>2, <1>6, <1>7, TrackRead

LEMMA AbandonedTrack ==
  ASSUME NEW c \in Commands, NEW bx, c.kind = "launch", c.seen \cap DOMAIN bx = {}
  PROVE  Track(Abandoned(c), bx)
<1> DEFINE d == Abandoned(c)
<1>1. d.kind = "launch" /\ d.pc \in {"ended", "abort"} /\ d.seen \subseteq c.seen
  BY DEF Abandoned, Ended, Commands
<1> HIDE DEF d
<1> QED BY <1>1, LaunchTrack DEF d

LEMMA StartTrack == ASSUME Inv, Tracked, NEW o \in Ops, Start(o) PROVE Tracked'
<1> DEFINE c == cmd[o]
           n == RemotesFirst(c.todo)
           b == Launched(c.conf, n)
           D(i) == [c EXCEPT !.own = @ \cup {<<n, i>>}, !.todo = @ \ {n}]
           W(i) == [D(i) EXCEPT !.pc = "wait"]
           by == box'
<1>1. c.pc = "start" BY DEF Start
<1>2. \/ UNCHANGED box
      \/ \E i \in Ids : Fresh(i) /\ box' = With(i, b)
  BY DEF Start
<1>3. \/ Becomes(o, Abandoned(c))
      \/ \E i \in Ids : n \in up /\
           (Becomes(o, D(i)) \/ Becomes(o, W(i)) \/ Becomes(o, Ended(D(i), 0)))
  BY DEF Start
<1>4. c \in Commands BY <1>1, HereTrack
<1>5. c.kind = "launch" /\ c.seen \cap DOMAIN box = {} BY <1>1, LaunchSeen
<1>6. \A q \in Ops : \A i \in cmd[q].seen \cap DOMAIN by : i \in DOMAIN box /\ by[i] = box[i]
  BY <1>2 DEF Fresh, With, Exists
<1>7. c.seen \cap DOMAIN by = {} BY <1>5, <1>6
<1>8. CASE Becomes(o, Abandoned(c))
  <2>1. Track(Abandoned(c), by) BY <1>4, <1>5, <1>7, AbandonedTrack
  <2> QED BY <1>6, <1>8, <2>1, TrackWrite
<1>9. ASSUME NEW i \in Ids, n \in up,
             Becomes(o, D(i)) \/ Becomes(o, W(i)) \/ Becomes(o, Ended(D(i), 0))
      PROVE  Tracked'
  <2> DEFINE d == D(i)
             w == W(i)
  <2>1. d \in Commands
    <3>1. <<n, i>> \in Pairs BY <1>9 DEF Pairs, Inv
    <3> HIDE DEF n
    <3> QED BY <1>4, <3>1 DEF Commands
  <2>2. d.kind = "launch" /\ d.seen = c.seen /\ d.pc = "start" BY <1>1, <1>4, <1>5 DEF Commands
  <2>3. w.kind = "launch" /\ w.seen = c.seen /\ w.pc = "wait" BY <2>1, <2>2 DEF Commands
  <2>4. Becomes(o, d) \/ Becomes(o, w) \/ Becomes(o, Ended(d, 0)) BY <1>9
  <2> HIDE DEF d, w, by
  <2>5. Track(d, by) /\ Track(w, by) BY <1>7, <2>2, <2>3, LaunchTrack
  <2>6. AllAimed(d, by) BY <2>5 DEF Track
  <2>7. Track(Ended(d, 0), by) BY <1>7, <2>1, <2>2, <2>6, EndedTrack
  <2> QED BY <1>6, <2>4, <2>5, <2>7, TrackWrite DEF by
<1> HIDE DEF D, W, n
<1> QED BY <1>3, <1>8, <1>9

LEMMA WaitTrack == ASSUME Inv, Tracked, NEW o \in Ops, Wait(o) PROVE Tracked'
<1> DEFINE c == cmd[o]
<1>1. c.pc = "wait" /\ UNCHANGED box BY DEF Wait
<1>2. c \in Commands /\ AllAimed(c, box) BY <1>1, HereTrack
<1>3. c.kind = "launch" /\ c.seen \cap DOMAIN box = {} BY <1>1, LaunchSeen
<1>4. Track(Abandoned(c), box) BY <1>2, <1>3, AbandonedTrack
<1>5. Track(Ended(c, 0), box) /\ Track(Ended(c, 1), box) BY <1>2, <1>3, EndedTrack
<1> QED BY <1>1, <1>4, <1>5, TrackRead DEF Wait

LEMMA AbortTrack == ASSUME Inv, Tracked, NEW o \in Ops, Abort(o) PROVE Tracked'
<1> DEFINE c == cmd[o]
           D(p) == [c EXCEPT !.ids = @ \ {p}]
           by == box'
<1>1. c.pc = "abort" BY DEF Abort
<1>2. PICK p \in c.ids : Becomes(o, D(p)) \/ Becomes(o, Ended(c, 1))
  BY DEF Abort
<1>3. \A i \in DOMAIN by : i \in DOMAIN box /\ by[i] = box[i]
  BY DEF Abort, Gone, Exists
<1>4. c \in Commands BY <1>1, HereTrack
<1>5. c.kind = "launch" /\ c.seen \cap DOMAIN by = {} BY <1>1, <1>3, LaunchSeen
<1> DEFINE d == D(p)
           z == Ended(c, 1)
<1>6. d.kind = "launch" /\ d.seen = c.seen /\ d.pc = "abort" BY <1>1, <1>4, <1>5 DEF Commands
<1>7. z.kind = "launch" /\ z.seen \subseteq c.seen /\ z.pc = "ended"
  BY <1>4, <1>5 DEF Ended, Commands
<1>8. Becomes(o, d) \/ Becomes(o, z) BY <1>2
<1> HIDE DEF d, z, by, D
<1>9. Track(d, by) /\ Track(z, by) BY <1>5, <1>6, <1>7, LaunchTrack
<1> QED BY <1>3, <1>8, <1>9, TrackWrite DEF by

\* The other users of docker, and nodes that come and go.
LEMMA AroundTrack ==
  ASSUME Inv, Tracked,
         \/ \E n \in Nodes : Outage(n) \/ Return(n)
         \/ \E i \in Ids : Stranger(i)
         \/ UNCHANGED vars
  PROVE  Tracked'
<1>1. ASSUME NEW i \in Ids, Stranger(i) PROVE Tracked'
  <2> DEFINE by == box'
  <2>1. \A q \in Ops : \A j \in cmd[q].seen \cap DOMAIN by : j \in DOMAIN box /\ by[j] = box[j]
    BY <1>1 DEF Stranger, Fresh, With, Exists
  <2>2. UNCHANGED cmd BY <1>1 DEF Stranger
  <2> HIDE DEF by
  <2>3. \A q \in Ops : Track(cmd[q], by) BY <2>1, TrackSteady DEF Tracked
  <2> QED BY <2>2, <2>3 DEF Tracked, by
<1>2. ASSUME NEW n \in Nodes, Return(n) PROVE Tracked'
  <2> DEFINE D(c) == [c EXCEPT !.mute = @ \ {n}]
  <2>1. \A q \in Ops : cmd'[q] = D(cmd[q]) BY <1>2 DEF Return
  <2>2. ASSUME NEW c \in Commands, Track(c, box) PROVE Track(D(c), box)
    <3> DEFINE d == D(c)
    <3>1. /\ d.kind = c.kind /\ d.conf = c.conf /\ d.at = c.at /\ d.seen = c.seen /\ d.rc = c.rc
          /\ d.pc = c.pc /\ d.ids = c.ids /\ d.look = c.look /\ d.todo = c.todo
      BY DEF Commands
    <3> HIDE DEF d
    <3>2. AllAimed(d, box) /\ (Left(c, box) => Left(d, box))
      BY <2>2, <3>1 DEF Track, AllAimed, Aims, Left
    <3>3. Track(d, box) BY <2>2, <3>1, <3>2 DEF Track
    <3> QED BY <3>3 DEF d
  <2> HIDE DEF D
  <2>3. \A q \in Ops : cmd[q] \in Commands
    <3>1. TypeOK BY InvType
    <3> QED BY <3>1 DEF TypeOK
  <2>4. UNCHANGED box BY <1>2 DEF Return
  <2>5. \A q \in Ops : Track(cmd'[q], box) BY <2>1, <2>2, <2>3 DEF Tracked
  <2> QED BY <2>4, <2>5 DEF Tracked
<1>3. ASSUME NEW n \in Nodes, Outage(n) PROVE Tracked'
  BY <1>3 DEF Outage, Tracked
<1>4. CASE UNCHANGED vars BY <1>4 DEF vars, Tracked
<1> QED BY <1>1, <1>2, <1>3, <1>4

LEMMA WorksTrack == ASSUME ~Flaky, Inv, Tracked, NEW o \in Ops, Works(o) PROVE Tracked'
  BY UnansweredTrack, ProbeTrack, ConfirmTrack, DiscoverTrack, ResolveTrack, EndpointTrack,
     ListTrack, InspectTrack, RecheckTrack, RemoveTrack, AbsentTrack, VerifyTrack,
     StartTrack, WaitTrack, AbortTrack
  DEF Works

\* Where an inspect fails only with its daemon, a stop that reports success
\* has left nothing it was about at its start: a node that did not answer is
\* never taken for an empty one.
THEOREM Cleanness == ASSUME ~Flaky PROVE Spec => []CleanMeansGone
<1>1. Init => Tracked
  <2>1. \A bx : Track(Nobody, bx) BY DEF Track, AllAimed, Left, Nobody
  <2> QED BY <2>1 DEF Init, Tracked
<1>2. Inv /\ Tracked /\ [Next]_vars => Tracked'
  BY WorksTrack, AskTrack, DoneTrack, AroundTrack DEF Next
<1>3. Tracked => CleanMeansGone BY DEF Tracked, Track, CleanMeansGone, Exists
<1> QED BY <1>1, <1>2, <1>3, Invariant, PTL DEF Spec

-----------------------------------------------------------------------------
(* II. Sessions.                                                           *)

-----------------------------------------------------------------------------
(* The invariant.                                                          *)

\* Box b is what became of box a.
Older(a, b) ==
  /\ a.node = b.node /\ a.name = b.name /\ a.managed = b.managed /\ a.conf = b.conf
  /\ b.running => a.running

\* A container the session remembers is in its snapshot, once its node was read.
Covered(s, bx) ==
  \A i \in (s.there \cup s.heard \cup s.busy) \cap DOMAIN bx :
    bx[i].node \in s.ok /\ Relevant(bx[i])
      => \E r \in s.rows : r.id = i /\ Older(r.box, bx[i])

\* What ran on the target for somebody else; and that it has stopped.
BusyOK(s, bx) ==
  \A i \in s.busy \cap DOMAIN bx : /\ Relevant(bx[i]) /\ Group(bx[i]) # s.conf
                                   /\ bx[i].node \in TargetOf(s.conf, s.at)
BusyOver(s, bx) == \A i \in s.busy \cap DOMAIN bx : ~bx[i].running

\* Only one service is to be stopped, or nothing runs that is known of those
\* to be stopped.
OneAtMost(s, bx) ==
  \/ \E c \in Confs : s.confirmed = {c}
  \/ \A i \in s.heard \cap DOMAIN bx :
       bx[i].managed = "true" /\ bx[i].conf \in s.confirmed => ~bx[i].running

\* The step that a session is at or, while it reads, goes on to.
At(s, places) == s.pc \in places \/ (s.pc = "read" /\ s.then \in places)

\* The session's part of the invariant; d is the command it runs.
SesOK(s, d) ==
  /\ s \in Session
  /\ s.pc = "read" => s.then # "none" /\ s.todo # {} /\ 0 \in s.ok \cup s.todo
  /\ s.pc \in {"offer", "plan", "execute", "clear"} => 0 \in s.ok
  /\ s.task = "switch" => /\ s.conf \in Released
                          /\ World[s.conf] = 1 => s.at # Unset
  /\ At(s, {"plan", "execute", "clear", "launch", "launching"}) => s.task = "switch"
  /\ s.task # "switch" => s.busy = {}
  /\ s.pending \subseteq Released /\ s.confirmed \subseteq Released
  /\ At(s, {"execute"}) => s.pending = s.confirmed
  /\ s.pc \in {"stop", "stopping"} => s.pending \subseteq s.confirmed
  /\ s.pc = "stopping" => d.kind \in {"cluster", "single"} /\ d.conf \in s.confirmed

\* And what its memory is worth among the containers.
SesKnows(s, bx) ==
  /\ Covered(s, bx)
  /\ BusyOK(s, bx)
  /\ s.pc = "confirm" /\ s.task = "switch" /\ s.pending = {} => BusyOver(s, bx)
  /\ s.pc \in {"launch", "launching"} => BusyOver(s, bx)
  /\ s.pc \in {"stop", "stopping"} /\ s.task = "switch" => OneAtMost(s, bx)

SwitchInv == Inv /\ SesOK(ses, cmd[Desk]) /\ SesKnows(ses, box)

-----------------------------------------------------------------------------
(* What commands do to their own record and to the containers.             *)

\* Command d is c at a later step, with the same removals.
Continues(c, d) == /\ {"kind", "conf", "gone"} \subseteq DOMAIN d
                   /\ d.kind = c.kind /\ d.conf = c.conf /\ d.gone = c.gone

LEMMA ContinuesSelf == ASSUME NEW c \in Commands PROVE Continues(c, c)
  BY DEF Continues, Commands

LEMMA ContinuesMoved ==
  ASSUME NEW c, NEW d, Continues(c, d)
  PROVE  /\ \A x : Continues(c, [d EXCEPT !.pc = x])
         /\ \A x : Continues(c, [d EXCEPT !.todo = x])
         /\ \A x : Continues(c, [d EXCEPT !.look = x])
         /\ \A x : Continues(c, [d EXCEPT !.ids = x])
         /\ \A x : Continues(c, [d EXCEPT !.rc = x])
         /\ \A x : Continues(c, [d EXCEPT !.own = x])
  BY DEF Continues

LEMMA ContinuesEnded ==
  ASSUME NEW c, NEW d, Continues(c, d), NEW r PROVE Continues(c, Ended(d, r))
  BY DEF Continues, Ended

LEMMA ContinuesCleared ==
  ASSUME NEW c, NEW d, Continues(c, d) PROVE Continues(c, Cleared(d))
<1>1. \A x, y : Continues(c, [d EXCEPT !.pc = x, !.todo = y]) BY DEF Continues
<1> QED BY <1>1, ContinuesEnded DEF Cleared

LEMMA ContinuesAdvanced ==
  ASSUME NEW c, NEW d, Continues(c, d) PROVE Continues(c, Advanced(d))
  BY ContinuesMoved, ContinuesEnded, ContinuesCleared DEF Advanced

LEMMA ContinuesSkipped ==
  ASSUME NEW c, NEW d, Continues(c, d), NEW p PROVE Continues(c, Skipped(d, p))
  BY ContinuesMoved, ContinuesAdvanced DEF Skipped

LEMMA ContinuesFailed ==
  ASSUME NEW c, NEW d, Continues(c, d), NEW p, NEW r PROVE Continues(c, Failed(d, p, r))
  BY ContinuesMoved, ContinuesSkipped, ContinuesEnded DEF Failed

LEMMA ContinuesAbandoned ==
  ASSUME NEW c, NEW d, Continues(c, d) PROVE Continues(c, Abandoned(d))
<1>1. \A x, y, z : Continues(c, [d EXCEPT !.pc = x, !.todo = y, !.ids = z]) BY DEF Continues
<1> QED BY <1>1, ContinuesEnded DEF Abandoned

\* One call of a command leaves its kind and profile; only docker rm adds to
\* what it has removed.
LEMMA WorksContinues ==
  ASSUME Inv, NEW o \in Ops, Works(o), ~Remove(o) PROVE Continues(cmd[o], cmd'[o])
<1> DEFINE c == cmd[o]
<1>0. ASSUME NEW d, Becomes(o, d) PROVE cmd'[o] = d BY <1>0 DEF Becomes, Inv
<1>1. c \in Commands
  <2>1. TypeOK BY InvType
  <2> QED BY <2>1 DEF TypeOK
<1>2. Continues(c, c) BY <1>1, ContinuesSelf
<1> DEFINE D(x, y) == [c EXCEPT !.todo = x, !.ids = y]
<1>3. /\ \A x : Continues(c, [c EXCEPT !.pc = x])
      /\ \A x : Continues(c, [c EXCEPT !.todo = x])
      /\ \A x : Continues(c, [c EXCEPT !.look = x])
      /\ \A x : Continues(c, [c EXCEPT !.ids = x])
  BY <1>2, ContinuesMoved
<1>4. \A r : Continues(c, Ended(c, r)) BY <1>2, ContinuesEnded
<1>5. CASE Unanswered(o)
  <2>1. ASSUME NEW d, Continues(c, d) PROVE Continues(c, Advanced([d EXCEPT !.rc = 1]))
    BY <2>1, ContinuesMoved, ContinuesAdvanced
  <2> QED BY <1>0, <1>3, <1>4, <1>5, <2>1 DEF Unanswered
<1>6. ASSUME NEW d, Continues(c, d)
      PROVE  /\ Continues(c, Cleared(d)) /\ Continues(c, Advanced(d))
             /\ \A r : Continues(c, Ended(d, r))
             /\ \A x, y : Continues(c, [d EXCEPT !.pc = x, !.look = y])
             /\ \A x, y, z : Continues(c, [d EXCEPT !.pc = x, !.todo = y, !.ids = z])
  <2>1. /\ \A x, y : Continues(c, [d EXCEPT !.pc = x, !.look = y])
        /\ \A x, y, z : Continues(c, [d EXCEPT !.pc = x, !.todo = y, !.ids = z])
    BY <1>6 DEF Continues
  <2> QED BY <1>6, <2>1, ContinuesCleared, ContinuesAdvanced, ContinuesEnded
<1>7. \A x, y : Continues(c, D(x, y)) BY <1>2 DEF Continues
<1>8. CASE Probe(o)
  <2>1. PICK hit \in Shown(Named(Asked(c), c.conf)) :
          \/ Becomes(o, LET d == [c EXCEPT !.todo = @ \ {Asked(c)}, !.ids = @ \cup hit] IN
                          CASE d.todo # {} -> d
                            [] d.todo = {} /\ d.ids # {} -> [d EXCEPT !.pc = "confirm", !.look = d.ids]
                            [] OTHER -> Cleared(d))
          \/ Becomes(o, Ended(c, 2))
    BY <1>8 DEF Probe
  <2> DEFINE d == D(c.todo \ {Asked(c)}, c.ids \cup hit)
  <2>2. Continues(c, d) BY <1>7
  <2> HIDE DEF d, D
  <2>3. \/ cmd'[o] = d
        \/ cmd'[o] = [d EXCEPT !.pc = "confirm", !.look = d.ids]
        \/ cmd'[o] = Cleared(d)
        \/ cmd'[o] = Ended(c, 2)
    BY <1>0, <2>1 DEF d, D
  <2>4. Continues(c, [d EXCEPT !.pc = "confirm", !.look = d.ids])
    BY <2>2 DEF Continues
  <2>5. Continues(c, Cleared(d)) BY <2>2, ContinuesCleared
  <2> QED BY <1>4, <2>2, <2>3, <2>4, <2>5
<1>9. CASE Discover(o)
  <2>1. PICK hit \in Shown(Named(Asked(c), c.conf)) :
          \/ Becomes(o, LET d == [c EXCEPT !.todo = @ \ {Asked(c)}, !.ids = @ \cup hit] IN
                          CASE d.todo # {} -> d
                            [] d.todo = {} /\ d.ids # {} ->
                                 [d EXCEPT !.pc = "named", !.todo = {Lowest(d.ids)}, !.ids = {}]
                            [] OTHER -> Ended(d, 0))
          \/ Becomes(o, Ended(c, 2))
    BY <1>9 DEF Discover
  <2> DEFINE d == D(c.todo \ {Asked(c)}, c.ids \cup hit)
  <2>2. Continues(c, d) BY <1>7
  <2> HIDE DEF d, D
  <2>3. \/ cmd'[o] = d
        \/ cmd'[o] = [d EXCEPT !.pc = "named", !.todo = {Lowest(d.ids)}, !.ids = {}]
        \/ cmd'[o] = Ended(d, 0)
        \/ cmd'[o] = Ended(c, 2)
    BY <1>0, <2>1 DEF d, D
  <2>4. Continues(c, [d EXCEPT !.pc = "named", !.todo = {Lowest(d.ids)}, !.ids = {}])
    BY <2>2 DEF Continues
  <2>5. Continues(c, Ended(d, 0)) BY <2>2, ContinuesEnded
  <2> QED BY <1>4, <2>2, <2>3, <2>4, <2>5
<1>10. CASE Confirm(o)
  <2>1. PICK p, pc : cmd'[o] = Ended(c, 2) \/ cmd'[o] = [c EXCEPT !.look = @ \ {p}, !.pc = pc]
    BY <1>0, <1>10 DEF Confirm
  <2>2. Continues(c, [c EXCEPT !.look = @ \ {p}, !.pc = pc]) BY <1>2 DEF Continues
  <2> QED BY <1>4, <2>1, <2>2
<1>11. CASE Resolve(o)
  <2>1. PICK hit : \/ cmd'[o] = Cleared([c EXCEPT !.todo = {}])
                   \/ cmd'[o] = Ended(c, 2)
                   \/ cmd'[o] = [c EXCEPT !.pc = "recheck", !.todo = {}, !.ids = hit]
    BY <1>0, <1>11 DEF Resolve
  <2>2. Continues(c, Cleared([c EXCEPT !.todo = {}])) BY <1>3, <1>6
  <2>3. Continues(c, [c EXCEPT !.pc = "recheck", !.todo = {}, !.ids = hit]) BY <1>2, <1>6
  <2> QED BY <1>4, <2>1, <2>2, <2>3
<1>12. CASE Endpoint(o) \/ List(o)
  <2>1. PICK t, l : \/ cmd'[o] = [c EXCEPT !.pc = "list", !.todo = t]
                   \/ cmd'[o] = [c EXCEPT !.todo = t]
                   \/ cmd'[o] = Advanced([c EXCEPT !.todo = t, !.look = l])
    BY <1>0, <1>12 DEF Endpoint, List
  <2>2. Continues(c, [c EXCEPT !.pc = "list", !.todo = t]) BY <1>2 DEF Continues
  <2>3. Continues(c, [c EXCEPT !.todo = t, !.look = l]) BY <1>2 DEF Continues
  <2>4. Continues(c, Advanced([c EXCEPT !.todo = t, !.look = l])) BY <1>6, <2>3
  <2> QED BY <1>3, <2>1, <2>2, <2>4
<1>13. CASE Inspect(o)
  <2>1. PICK p \in c.look : \E hit \in Shown(Present(p)) :
          LET d == [c EXCEPT !.look = @ \ {p}]
              mine == hit # {} /\ (c.kind = "labels" => Box(p).conf = c.conf)
              ranked == c.at # Unset /\ Box(p).rank # Single
          IN cmd'[o] =
               CASE ~mine -> Advanced(d)
                 [] mine /\ ~Stoppable(Box(p)) ->
                      IF c.kind = "all" THEN Advanced([d EXCEPT !.rc = Merge(@, 2)])
                                        ELSE Ended(c, 2)
                 [] mine /\ Stoppable(Box(p)) /\ c.kind = "all" ->
                      [d EXCEPT !.pc = "recheck", !.ids = {p}]
                 [] OTHER -> Advanced(
                      [d EXCEPT !.rc = IF ranked THEN 2 ELSE @,
                                !.ids = IF c.at \in {Unset, p[1]} THEN @ \cup {p} ELSE @])
    BY <1>0, <1>13 DEF Inspect
  <2> DEFINE d == [c EXCEPT !.look = @ \ {p}]
  <2>2. Continues(c, d) BY <1>3
  <2> HIDE DEF d
  <2>3. \E r, i : \/ cmd'[o] = Advanced(d) \/ cmd'[o] = Advanced([d EXCEPT !.rc = r])
                 \/ cmd'[o] = Ended(c, 2)
                 \/ cmd'[o] = [d EXCEPT !.pc = "recheck", !.ids = i]
                 \/ cmd'[o] = Advanced([d EXCEPT !.rc = r, !.ids = i])
    BY <2>1 DEF d
  <2>4. \A r, i : /\ Continues(c, [d EXCEPT !.rc = r])
                 /\ Continues(c, [d EXCEPT !.pc = "recheck", !.ids = i])
                 /\ Continues(c, [d EXCEPT !.rc = r, !.ids = i])
    BY <2>2 DEF Continues
  <2> QED BY <1>4, <1>6, <2>2, <2>3, <2>4
<1>14. CASE Recheck(o) \/ Absent(o)
  <2>1. PICK p : \/ cmd'[o] = Skipped(c, p) \/ \E r : cmd'[o] = Failed(c, p, r)
                \/ cmd'[o] = [c EXCEPT !.pc = "remove"]
    BY <1>0, <1>14 DEF Recheck, Absent
  <2> QED BY <1>2, <1>3, <2>1, ContinuesSkipped, ContinuesFailed
<1>15. CASE Verify(o) \/ Wait(o)
  <2>1. PICK t, i : \/ cmd'[o] = D(t, i) \/ \E r : cmd'[o] = Ended(c, r)
                   \/ cmd'[o] = Abandoned(c)
    BY <1>0, <1>15 DEF Verify, Wait
  <2> HIDE DEF D
  <2> QED BY <1>2, <1>4, <1>7, <2>1, ContinuesAbandoned
<1>16. CASE Start(o)
  <2>1. PICK w, t : LET d == [c EXCEPT !.own = w, !.todo = t] IN
          cmd'[o] = d \/ cmd'[o] = [d EXCEPT !.pc = "wait"] \/ cmd'[o] = Ended(d, 0)
          \/ cmd'[o] = Abandoned(c)
    BY <1>0, <1>16 DEF Start
  <2> DEFINE d == [c EXCEPT !.own = w, !.todo = t]
  <2>2. \/ cmd'[o] = d \/ cmd'[o] = [d EXCEPT !.pc = "wait"] \/ cmd'[o] = Ended(d, 0)
        \/ cmd'[o] = Abandoned(c)
    BY <2>1 DEF d
  <2>3. Continues(c, d) BY <1>2 DEF Continues
  <2> HIDE DEF d
  <2>4. Continues(c, [d EXCEPT !.pc = "wait"]) BY <2>3, ContinuesMoved
  <2>5. Continues(c, Ended(d, 0)) BY <1>6, <2>3
  <2>6. Continues(c, Abandoned(c)) BY <1>2, ContinuesAbandoned
  <2> QED BY <2>2, <2>3, <2>4, <2>5, <2>6
<1>17. CASE Abort(o)
  <2>1. PICK i : cmd'[o] = Ended(c, 1) \/ cmd'[o] = [c EXCEPT !.ids = i]
    BY <1>0, <1>17 DEF Abort
  <2> QED BY <1>3, <1>4, <2>1
<1> QED BY <1>5, <1>8, <1>9, <1>10, <1>11, <1>12, <1>13, <1>14, <1>15, <1>16, <1>17 DEF Works

\* No command changes a container that stays.
LEMMA WorksKeeps ==
  ASSUME NEW o \in Ops, Works(o), NEW i \in DOMAIN box, i \in DOMAIN box'
  PROVE  box'[i] = box[i]
<1>1. CASE Start(o) BY <1>1 DEF Start, With, Fresh, Exists
<1>2. CASE Remove(o) \/ Abort(o) BY <1>2 DEF Remove, Abort, Gone, Exists
<1>3. CASE Unanswered(o) \/ Wait(o) \/ Absent(o) BY <1>3 DEF Unanswered, Wait, Absent
<1>4. CASE ~Start(o) /\ ~Remove(o) /\ ~Abort(o) /\ ~Unanswered(o) /\ ~Wait(o) /\ ~Absent(o)
  BY <1>4 DEF Works, Probe, Confirm, Discover, Resolve, Endpoint, List, Inspect, Recheck,
              Verify, Reading
<1> QED BY <1>1, <1>2, <1>3, <1>4

-----------------------------------------------------------------------------
(* The invariant of the commands outlives what a session adds.             *)

\* What a command has established does not depend on who still runs.
LEMMA StoppedBox ==
  ASSUME NEW b \in Boxes
  PROVE  LET d == [b EXCEPT !.running = FALSE] IN
         /\ d \in Boxes /\ Older(b, d)
         /\ \A f : Proven(b, f) => Proven(d, f)
         /\ Stoppable(b) => Stoppable(d)
<1> DEFINE d == [b EXCEPT !.running = FALSE]
<1>1. d \in Boxes BY DEF Boxes
<1>2. /\ d.node = b.node /\ d.name = b.name /\ d.managed = b.managed /\ d.conf = b.conf
      /\ d.rank = b.rank /\ d.world = b.world /\ d.place = b.place /\ d.running = FALSE
  BY DEF Boxes
<1> HIDE DEF d
<1>3. Older(b, d) BY <1>2 DEF Older
<1>4. \A f : Proven(b, f) => Proven(d, f) BY <1>2 DEF Proven, Owned, Placed
<1>5. Stoppable(b) => Stoppable(d) BY <1>2 DEF Stoppable, RankAllowed, Placed
<1> QED BY <1>1, <1>3, <1>4, <1>5 DEF d

LEMMA GoodStopped ==
  ASSUME NEW c, NEW bx, NEW by, NEW u, Good(c, bx, u),
         \A i \in DOMAIN by : /\ i \in DOMAIN bx
                              /\ by[i].node = bx[i].node /\ by[i].conf = bx[i].conf
                              /\ \A f : Proven(bx[i], f) => Proven(by[i], f)
                              /\ Stoppable(bx[i]) => Stoppable(by[i])
  PROVE  Good(c, by, u)
<1>1. CASE c = Nobody BY <1>1 DEF Good
<1>2. CASE Base(c, bx, u) /\ Phase(c, bx)
  <2>1. OwnOK(c, by) BY <1>2 DEF Base, OwnOK
  <2>2. IdsOK(c, bx) => IdsOK(c, by) BY DEF IdsOK, Rightful
  <2>3. Base(c, by, u) BY <1>2, <2>1 DEF Base
  <2>4. Phase(c, by) BY <1>2, <2>2 DEF Phase, Removing
  <2> QED BY <2>3, <2>4 DEF Good
<1> QED BY <1>1, <1>2 DEF Good

LEMMA ExitInv == ASSUME Inv, NEW i \in Ids, Exit(i) PROVE Inv'
<1>1. /\ i \in DOMAIN box /\ box' = [box EXCEPT ![i].running = FALSE]
      /\ trouble < MaxTrouble /\ trouble' = trouble + 1 /\ UNCHANGED <<up, cmd, menu>>
  BY DEF Exit, Exists
<1> DEFINE by == box'
<1>2. DOMAIN by = DOMAIN box
  /\ \A j \in DOMAIN box : by[j] = IF j = i THEN [box[i] EXCEPT !.running = FALSE] ELSE box[j]
  BY <1>1
<1>3. \A j \in DOMAIN box : box[j] \in Boxes BY DEF Inv, Exists
<1> HIDE DEF by
<1>4. \A j \in DOMAIN by : /\ by[j] \in Boxes
                           /\ by[j].node = box[j].node /\ by[j].conf = box[j].conf
                           /\ \A f : Proven(box[j], f) => Proven(by[j], f)
                           /\ Stoppable(box[j]) => Stoppable(by[j])
  <2>1. LET d == [box[i] EXCEPT !.running = FALSE] IN
        /\ d \in Boxes /\ Older(box[i], d)
        /\ \A f : Proven(box[i], f) => Proven(d, f)
        /\ Stoppable(box[i]) => Stoppable(d)
    BY <1>1, <1>3, StoppedBox
  <2>2. /\ by[i] \in Boxes /\ Older(box[i], by[i])
        /\ \A f : Proven(box[i], f) => Proven(by[i], f)
        /\ Stoppable(box[i]) => Stoppable(by[i])
    BY <1>1, <1>2, <2>1
  <2> QED BY <1>2, <1>3, <2>2 DEF Older
<1>5. \A q \in Ops : Good(cmd[q], by, up) BY <1>2, <1>4, GoodStopped DEF Inv
<1>6. \A q \in Ops : Good(cmd[q], box, up)' BY <1>1, <1>5 DEF by
<1>7. trouble' \in 0 .. MaxTrouble BY <1>1, BoundsAssumption DEF Inv
<1> QED BY <1>1, <1>2, <1>4, <1>6, <1>7 DEF Inv, Exists, by

LEMMA SessionInv ==
  ASSUME Inv, SesOK(ses, cmd[Desk]), SessionStep PROVE Inv'
<1>0. Desk \in Ops BY DeskAssumption
<1>1. CASE Quiet BY <1>1 DEF Quiet, Inv, Exists, Good
<1>2. CASE RunDown
  <2>1. PICK c \in ses.pending : Becomes(Desk, DownCommand(c)) /\ UNCHANGED <<box, up, trouble, menu>>
    BY <1>2 DEF RunDown, Becomes
  <2>2. c \in Confs /\ World[c] \in 1 .. Count /\ Count \in Nat
    BY <2>1, ConfsAssumption, CountAssumption DEF SesOK
  <2>3. ses.at \in Nodes \cup {Unset} BY DEF SesOK, Session
  <2>4. Sensible(<<"cluster", c, Unset>>) \/ ~(World[c] > 1)
    BY <2>2, ConfsAssumption DEF Sensible
  <2>5. \A at \in Nodes \cup {Unset} : Sensible(<<"single", c, at>>)
    BY <2>2, ConfsAssumption DEF Sensible
  <2>6. Good(DownCommand(c), box, up) BY <2>3, <2>4, <2>5, BegunGood DEF DownCommand
  <2> QED BY <1>0, <2>1, <2>6, ReadInv
<1>3. CASE DownReturns \/ UpReturns
  <2>1. Becomes(Desk, Nobody) /\ UNCHANGED <<box, up, trouble, menu>>
    BY <1>3 DEF DownReturns, UpReturns, Becomes
  <2> QED BY <1>0, <2>1, ReadInv DEF Good
<1>4. CASE RunUp
  <2> DEFINE at == IF World[ses.conf] = 1 THEN ses.at ELSE Unset
  <2>1. UNCHANGED <<box, up, trouble, menu>>
        /\ (UNCHANGED cmd \/ Becomes(Desk, Begun("launch", ses.conf, at)))
    BY <1>4 DEF RunUp, Becomes
  <2>2. /\ ses.conf \in Confs /\ ses.at \in Nodes \cup {Unset}
        /\ World[ses.conf] = 1 => ses.at # Unset
    BY <1>4, ConfsAssumption DEF RunUp, SesOK, Session, At
  <2>3. Sensible(<<"launch", ses.conf, at>>) BY <2>2, ConfsAssumption DEF Sensible
  <2>4. Good(Begun("launch", ses.conf, at), box, up) BY <2>3, BegunGood
  <2>5. CASE UNCHANGED cmd BY <2>1, <2>5 DEF Inv, Exists, Good
  <2> QED BY <1>0, <2>1, <2>4, <2>5, ReadInv
<1> QED BY <1>1, <1>2, <1>3, <1>4
        DEF SessionStep, Open, ReadNode, Offer, Plan, Confirmed, Execute, Clear

LEMMA SwitchNextInv ==
  ASSUME Inv, SesOK(ses, cmd[Desk]), [SwitchNext]_svars PROVE Inv'
<1>1. CASE UNCHANGED svars BY <1>1 DEF svars, Inv, Exists, Good
<1>2. CASE SessionStep BY <1>2, SessionInv
<1>3. ASSUME NEW o \in Ops, Ask(o) \/ Done(o) \/ Works(o) PROVE Inv'
  BY <1>3, AskInv, DoneInv, WorksInv
<1>4. ASSUME NEW n \in Nodes, Outage(n) \/ Return(n) PROVE Inv'
  BY <1>4, OutageInv, ReturnInv
<1>5. ASSUME NEW i \in Ids, Exit(i) \/ Stranger(i) PROVE Inv'
  BY <1>5, ExitInv, StrangerInv
<1> QED BY <1>1, <1>2, <1>3, <1>4, <1>5 DEF SwitchNext

-----------------------------------------------------------------------------
(* Steps of the session.                                                   *)

Holds(s, d, bx) == SesOK(s, d) /\ SesKnows(s, bx)

LEMMA ClosedHolds == ASSUME NEW d, NEW bx PROVE Holds(Closed, d, bx)
<1>1. Closed \in Session BY DEF Closed, Session
<1>2. /\ Closed.task = "none" /\ Closed.pc = "closed" /\ Closed.busy = {} /\ Closed.there = {}
      /\ Closed.heard = {} /\ Closed.pending = {} /\ Closed.confirmed = {} /\ Closed.ok = {}
  BY DEF Closed
<1> HIDE DEF Holds
<1>3. SesOK(Closed, d) BY <1>1, <1>2 DEF SesOK, At
<1>4. SesKnows(Closed, bx) BY <1>2 DEF SesKnows, Covered, BusyOK
<1> QED BY <1>3, <1>4 DEF Holds

\* A session that starts to read holds on to nothing of the last snapshot.
LEMMA ReadHolds ==
  ASSUME NEW s, NEW d, NEW bx, SesOK(s, d), BusyOK(s, bx),
         NEW next \in {"offer", "plan", "execute", "clear"},
         next # "offer" => s.task = "switch", next = "execute" => s.pending = s.confirmed,
         NEW e
  PROVE  Holds(Read(s, next), e, bx)
<1> DEFINE t == Read(s, next)
<1>1. 0 \in Nodes BY CountAssumption DEF Nodes
<1>2. t \in Session BY DEF Read, SesOK, Session
<1>3. /\ t.pc = "read" /\ t.then = next /\ t.todo = Nodes /\ t.ok = {} /\ t.task = s.task
      /\ t.conf = s.conf /\ t.at = s.at /\ t.pending = s.pending /\ t.confirmed = s.confirmed
      /\ t.busy = s.busy
  BY DEF Read, SesOK, Session
<1> HIDE DEF t
<1>4. SesOK(t, e) BY <1>1, <1>2, <1>3 DEF SesOK, At
<1>5. SesKnows(t, bx) BY <1>3 DEF SesKnows, Covered, BusyOK
<1> QED BY <1>4, <1>5 DEF Holds, t

LEMMA OpenHolds ==
  ASSUME Inv, NEW d, Open PROVE Holds(ses', d, box)
<1>1. PICK t \in Sessions :
        ses' = IF t[1] = "switch"
                 THEN Read([Closed EXCEPT !.task = t[1], !.conf = t[2], !.at = t[3],
                                          !.busy = BusyOn(TargetOf(t[2], t[3]), t[2])], "plan")
                 ELSE Read([Closed EXCEPT !.task = t[1]], "offer")
  BY DEF Open, Goes
<1>2. /\ t[1] \in {"stop", "clean", "switch"}
      /\ t[1] = "switch" => /\ t[2] \in Released /\ t[3] \in Nodes \cup {Unset}
                            /\ World[t[2]] = 1 => t[3] # Unset
  BY SessionsAssumption
<1>3. CASE t[1] = "switch"
  <2> DEFINE b == BusyOn(TargetOf(t[2], t[3]), t[2])
             s == [Closed EXCEPT !.task = t[1], !.conf = t[2], !.at = t[3], !.busy = b]
  <2>1. t[2] \in Confs BY <1>2, <1>3, ConfsAssumption
  <2>2. b \in SUBSET Ids BY DEF BusyOn, Inv, Exists
  <2>3. \A i \in b \cap DOMAIN box : /\ Relevant(box[i]) /\ Group(box[i]) # t[2]
                                     /\ box[i].node \in TargetOf(t[2], t[3])
    BY DEF BusyOn
  <2> HIDE DEF b
  <2>4. s \in Session BY <1>2, <1>3, <2>1, <2>2 DEF Closed, Session
  <2>5. /\ s.task = "switch" /\ s.pc = "closed" /\ s.conf = t[2] /\ s.at = t[3] /\ s.busy = b
        /\ s.pending = {} /\ s.confirmed = {}
    BY <1>3 DEF Closed
  <2> HIDE DEF s
  <2>6. SesOK(s, d) BY <1>2, <1>3, <2>4, <2>5 DEF SesOK, At
  <2>7. BusyOK(s, box) BY <2>3, <2>5 DEF BusyOK
  <2>8. ses' = Read(s, "plan") BY <1>1, <1>3 DEF s, b
  <2> QED BY <2>5, <2>6, <2>7, <2>8, ReadHolds
<1>4. CASE t[1] # "switch"
  <2> DEFINE s == [Closed EXCEPT !.task = t[1]]
  <2>1. s \in Session BY <1>2, <1>4 DEF Closed, Session
  <2>2. /\ s.task = t[1] /\ s.pc = "closed" /\ s.busy = {} /\ s.pending = {} /\ s.confirmed = {}
    BY DEF Closed
  <2> HIDE DEF s
  <2>3. SesOK(s, d) BY <1>4, <2>1, <2>2 DEF SesOK, At
  <2>4. BusyOK(s, box) BY <2>2 DEF BusyOK
  <2>5. ses' = Read(s, "offer") BY <1>1, <1>4 DEF s
  <2> QED BY <2>3, <2>4, <2>5, ReadHolds
<1> QED BY <1>3, <1>4

LEMMA ReadNodeHolds ==
  ASSUME Inv, NEW d, Holds(ses, d, box), ReadNode PROVE Holds(ses', d, box)
<1> DEFINE n == Min(ses.todo)
           p == IF ses.todo = {n} THEN ses.then ELSE "read"
           next == [ses EXCEPT !.todo = @ \ {n}, !.pc = p]
           more == [next EXCEPT !.rows = @ \cup Listing(n), !.ok = @ \cup {n}]
<1>1. /\ ses.pc = "read" /\ ses' \in {next, more, Closed}
      /\ ses' = next => n # 0 \/ ses' \in {more, Closed}
  BY DEF ReadNode, Goes, Leave
<1>2. ses \in Session /\ ses.todo # {} /\ ses.then # "none"
  BY <1>1 DEF Holds, SesOK
<1>3. n \in ses.todo /\ n \in Nodes BY <1>2, MinIn DEF Session
<1>4. p \in {"read", "offer", "plan", "execute", "clear"} /\ (p = "read" => ses.todo \ {n} # {})
  BY <1>2, <1>3 DEF Session
<1>5. \A P : p \in P \/ (p = "read" /\ ses.then \in P) => "read" \in P \/ ses.then \in P
  OBVIOUS
<1>6. Listing(n) \subseteq [id : Ids, box : Boxes]
  BY DEF Listing, Inv, Exists
<1> HIDE DEF p
<1>7. /\ next \in Session
      /\ next.pc = p /\ next.todo = ses.todo \ {n} /\ next.then = ses.then
      /\ next.task = ses.task /\ next.conf = ses.conf /\ next.at = ses.at
      /\ next.rows = ses.rows /\ next.ok = ses.ok /\ next.pending = ses.pending
      /\ next.confirmed = ses.confirmed /\ next.there = ses.there /\ next.heard = ses.heard
      /\ next.busy = ses.busy
  BY <1>2, <1>4 DEF Session
<1> HIDE DEF next
<1>8. /\ more \in Session
      /\ more.pc = p /\ more.todo = ses.todo \ {n} /\ more.then = ses.then
      /\ more.task = ses.task /\ more.conf = ses.conf /\ more.at = ses.at
      /\ more.rows = ses.rows \cup Listing(n) /\ more.ok = ses.ok \cup {n}
      /\ more.pending = ses.pending /\ more.confirmed = ses.confirmed
      /\ more.there = ses.there /\ more.heard = ses.heard /\ more.busy = ses.busy
  BY <1>3, <1>6, <1>7 DEF Session
<1> HIDE DEF more, n
<1>9. n # 0 => SesOK(next, d) BY <1>1, <1>2, <1>4, <1>7 DEF Holds, SesOK, At, p
<1>10. SesOK(more, d) BY <1>1, <1>2, <1>4, <1>8 DEF Holds, SesOK, At, p
<1>11. SesKnows(next, box) BY <1>4, <1>7 DEF Holds, SesKnows, Covered, BusyOK
<1>12. SesKnows(more, box)
  <2>1. Covered(more, box)
    <3> SUFFICES ASSUME NEW i \in (ses.there \cup ses.heard \cup ses.busy) \cap DOMAIN box,
                        box[i].node \in ses.ok \cup {n}, Relevant(box[i])
                 PROVE  \E r \in ses.rows \cup Listing(n) : r.id = i /\ Older(r.box, box[i])
      BY <1>8 DEF Covered
    <3>1. CASE box[i].node \in ses.ok BY <3>1 DEF Holds, SesKnows, Covered
    <3>2. CASE box[i].node = n
      <4>1. [id |-> i, box |-> box[i]] \in Listing(n) BY <3>2 DEF Listing, Exists
      <4> QED BY <4>1 DEF Older
    <3> QED BY <3>1, <3>2
  <2>2. BusyOK(more, box) BY <1>8 DEF Holds, SesKnows, BusyOK
  <2> QED BY <1>4, <1>8, <2>1, <2>2 DEF SesKnows
<1> QED BY <1>1, <1>9, <1>10, <1>11, <1>12, ClosedHolds DEF Holds

LEMMA OfferHolds ==
  ASSUME NEW d, Holds(ses, d, box), Offer PROVE Holds(ses', d, box)
<1>1. /\ ses.pc = "offer"
      /\ \/ \E c \in Offered : ses' = [ses EXCEPT !.pc = "confirm", !.pending = {c}]
         \/ ses' = Closed
  BY DEF Offer, Goes, Leave
<1>2. ASSUME NEW c \in Released PROVE Holds([ses EXCEPT !.pc = "confirm", !.pending = {c}], d, box)
  <2> DEFINE t == [ses EXCEPT !.pc = "confirm", !.pending = {c}]
  <2>1. t \in Session BY ConfsAssumption DEF Holds, SesOK, Session
  <2>2. /\ t.pc = "confirm" /\ t.pending = {c} /\ t.task = ses.task /\ t.conf = ses.conf
        /\ t.at = ses.at /\ t.rows = ses.rows /\ t.ok = ses.ok /\ t.confirmed = ses.confirmed
        /\ t.there = ses.there /\ t.heard = ses.heard /\ t.busy = ses.busy
    BY DEF Holds, SesOK, Session
  <2> HIDE DEF t
  <2>3. SesOK(t, d) BY <2>1, <2>2 DEF Holds, SesOK, At
  <2>4. SesKnows(t, box) BY <2>2 DEF Holds, SesKnows, Covered, BusyOK
  <2> QED BY <2>3, <2>4 DEF Holds, t
<1> QED BY <1>1, <1>2, ClosedHolds DEF Offered

\* A plan that stops nothing has found nothing running on the target.
LEMMA PlanFree ==
  ASSUME Inv, NEW d, Holds(ses, d, box), Plan, Proposed = {}, ses' # Closed
  PROVE  BusyOver(ses, box)
<1>1. /\ ses.pc = "plan" /\ ~SameRunning /\ ~Foreign /\ ~TargetDeaf
      /\ Partial = {} /\ Others = {}
  <2>1. ses.pc = "plan" /\ (SameRunning \/ (~Foreign /\ ~TargetDeaf))
    BY DEF Plan, Leave, Goes
  <2>2. ~SameRunning /\ Partial = {} /\ Others = {} BY DEF Proposed
  <2> QED BY <2>1, <2>2
<1>2. /\ ses \in Session /\ ses.conf \in Released /\ 0 \in ses.ok
      /\ Covered(ses, box) /\ BusyOK(ses, box)
  BY <1>1 DEF Holds, SesOK, SesKnows, At
<1>3. Target \subseteq ses.ok BY <1>1, <1>2 DEF TargetDeaf
<1> SUFFICES ASSUME NEW i \in ses.busy \cap DOMAIN box, box[i].running PROVE FALSE
  BY DEF BusyOver
<1>4. Relevant(box[i]) /\ Group(box[i]) # ses.conf /\ box[i].node \in Target
  BY <1>2 DEF BusyOK, Target
<1>5. PICK r \in ses.rows : r.id = i /\ Older(r.box, box[i])
  BY <1>2, <1>3, <1>4 DEF Covered
<1> DEFINE c == Group(r.box)
<1>6. /\ r.box.running /\ r.box.node \in Target /\ c # ses.conf
  BY <1>4, <1>5 DEF Older, Group, Labelled
<1>7. c \in Released /\ ServiceOwnership(M(c)) = "managed" BY <1>1, <1>6 DEF Foreign
<1>8. r \in OnTarget(c) BY <1>6 DEF OnTarget, M, Rows
<1>9. Running(OnTarget(c)) BY <1>6, <1>8 DEF Running
<1> QED BY <1>1, <1>6, <1>7, <1>9 DEF Others

LEMMA PlanHolds ==
  ASSUME Inv, NEW d, Holds(ses, d, box), Plan PROVE Holds(ses', d, box)
<1>1. ses.pc = "plan" /\ ses' \in {[ses EXCEPT !.pc = "confirm", !.pending = Proposed], Closed}
  BY DEF Plan, Goes, Leave
<1>2. ses \in Session /\ ses.conf \in Released BY <1>1 DEF Holds, SesOK, At
<1>3. Proposed \subseteq Released
  BY <1>2 DEF Proposed, Partial, Others
<1> DEFINE P == Proposed
           t == [ses EXCEPT !.pc = "confirm", !.pending = P]
<1> HIDE DEF P
<1>4. P \subseteq Released BY <1>3 DEF P
<1>5. t \in Session BY <1>2, <1>4, ConfsAssumption DEF Session
<1>6. /\ t.pc = "confirm" /\ t.pending = P /\ t.task = ses.task /\ t.conf = ses.conf
      /\ t.at = ses.at /\ t.rows = ses.rows /\ t.ok = ses.ok /\ t.confirmed = ses.confirmed
      /\ t.there = ses.there /\ t.heard = ses.heard /\ t.busy = ses.busy
  BY <1>2 DEF Session
<1>7. ses' \in {t, Closed} BY <1>1 DEF P
<1>p. P = {} /\ ses' # Closed => BusyOver(ses, box) BY PlanFree DEF P
<1> HIDE DEF t
<1>8. SesOK(t, d) BY <1>4, <1>5, <1>6 DEF Holds, SesOK, At
<1>9. ses' # Closed => SesKnows(t, box)
  BY <1>6, <1>p DEF Holds, SesKnows, Covered, BusyOK, BusyOver
<1> QED BY <1>7, <1>8, <1>9, ClosedHolds DEF Holds

LEMMA ConfirmedHolds ==
  ASSUME Inv, NEW d, Holds(ses, d, box), Confirmed PROVE Holds(ses', d, box)
<1> DEFINE s == [ses EXCEPT !.confirmed = ses.pending, !.there = Exists]
           t(pc) == [[s EXCEPT !.rows = {}, !.ok = {}] EXCEPT !.pc = pc]
<1>1. /\ ses.pc = "confirm"
      /\ \/ ses' = Closed
         \/ ses.task # "switch" /\ ses' = t("stop")
         \/ ses.task = "switch" /\ ses' \in {Read(s, "execute"), Read(s, "clear")}
         \/ ses.task = "switch" /\ ses.pending = {} /\ ses' = t("launch")
  BY DEF Confirmed, Goes, Leave
<1>2. Exists \in SUBSET Ids BY DEF Inv, Exists
<1>3. /\ s \in Session
      /\ s.pc = "confirm" /\ s.pending = ses.pending /\ s.task = ses.task /\ s.conf = ses.conf
      /\ s.at = ses.at /\ s.confirmed = ses.pending /\ s.busy = ses.busy
  BY <1>1, <1>2 DEF Holds, SesOK, Session
<1> HIDE DEF s
<1>4. SesOK(s, d) BY <1>3 DEF Holds, SesOK, At
<1>5. /\ BusyOK(s, box)
      /\ s.task = "switch" /\ s.pending = {} => BusyOver(s, box)
  BY <1>1, <1>3 DEF Holds, SesKnows, BusyOK, BusyOver
<1>6. CASE ses.task = "switch" /\ ses' \in {Read(s, "execute"), Read(s, "clear")}
  BY <1>3, <1>4, <1>5, <1>6, ReadHolds
<1>7. ASSUME NEW pc \in {"stop", "launch"}
      PROVE  /\ t(pc) \in Session
             /\ t(pc).pc = pc /\ t(pc).pending = s.pending /\ t(pc).task = s.task
             /\ t(pc).conf = s.conf /\ t(pc).at = s.at /\ t(pc).confirmed = s.confirmed
             /\ t(pc).busy = s.busy /\ t(pc).ok = {} 
  BY <1>3 DEF Session
<1> HIDE DEF t
<1>8. CASE ses.task # "switch" /\ ses' = t("stop")
  <2>1. SesOK(t("stop"), d) BY <1>3, <1>4, <1>7, <1>8 DEF SesOK, At
  <2>2. SesKnows(t("stop"), box) BY <1>3, <1>5, <1>7, <1>8 DEF SesKnows, Covered, BusyOK
  <2> QED BY <1>8, <2>1, <2>2 DEF Holds
<1>9. CASE ses.task = "switch" /\ ses.pending = {} /\ ses' = t("launch")
  <2>1. SesOK(t("launch"), d) BY <1>3, <1>4, <1>7, <1>9 DEF SesOK, At
  <2>2. SesKnows(t("launch"), box)
    BY <1>1, <1>3, <1>5, <1>7, <1>9 DEF SesKnows, Covered, BusyOK, BusyOver
  <2> QED BY <1>9, <2>1, <2>2 DEF Holds
<1> QED BY <1>1, <1>6, <1>8, <1>9, ClosedHolds

\* What the fresh inventory showed stopped has stopped, and of several services
\* it let none run.
LEMMA ExecuteHolds ==
  ASSUME NEW d, Holds(ses, d, box), Execute PROVE Holds(ses', d, box)
<1> DEFINE h == {i \in ses.there \cap Exists : box[i].node \in ses.ok}
           t == [ses EXCEPT !.pc = "stop", !.rows = {}, !.ok = {}, !.heard = h]
<1>1. ses.pc = "execute" /\ (ses' = Closed \/ (StoppableNow /\ ses' = t))
  BY DEF Execute, Goes, Leave
<1>2. /\ ses \in Session /\ ses.pending = ses.confirmed /\ ses.confirmed \subseteq Released
      /\ Covered(ses, box) /\ BusyOK(ses, box)
  BY <1>1 DEF Holds, SesOK, SesKnows, At
<1>3. h \in SUBSET Ids /\ h \subseteq ses.there BY <1>2 DEF Session
<1>4. \A i \in h : i \in DOMAIN box /\ box[i].node \in ses.ok BY DEF Exists
<1> HIDE DEF h
<1>5. t \in Session BY <1>2, <1>3 DEF Session
<1>6. /\ t.pc = "stop" /\ t.pending = ses.pending /\ t.task = ses.task /\ t.conf = ses.conf
      /\ t.at = ses.at /\ t.rows = {} /\ t.ok = {} /\ t.confirmed = ses.confirmed
      /\ t.heard = h /\ t.busy = ses.busy
  BY <1>2 DEF Session
<1> HIDE DEF t
<1>7. SesOK(t, d) BY <1>1, <1>2, <1>5, <1>6 DEF Holds, SesOK, At
<1>8. ASSUME StoppableNow PROVE OneAtMost(t, box)
  <2> DEFINE live == {c \in ses.pending : Running(M(c))}
  <2>1. CASE live # {}
    <3>1. Cardinality(ses.pending) = 1 BY <1>8, <2>1 DEF StoppableNow
    <3>2. IsFiniteSet(ses.pending) BY <1>2, ReleasedAssumption, FS_Subset
    <3>3. \E c : ses.pending = {c} BY <3>1, <3>2, FS_Singleton
    <3>4. \E c \in Confs : ses.pending = {c} BY <1>2, <3>3, ConfsAssumption
    <3> QED BY <1>2, <1>6, <3>4 DEF OneAtMost
  <2>2. CASE live = {}
    <3> SUFFICES ASSUME NEW i \in h \cap DOMAIN box, box[i].managed = "true",
                        box[i].conf \in ses.confirmed, box[i].running
                 PROVE  FALSE
      BY <1>6 DEF OneAtMost
    <3> DEFINE c == box[i].conf
    <3>1. PICK r \in ses.rows : r.id = i /\ Older(r.box, box[i])
      BY <1>2, <1>3, <1>4 DEF Covered, Relevant, Labelled
    <3>2. r \in M(c) /\ r.box.running BY <3>1 DEF M, Rows, Group, Labelled, Older
    <3>3. c \in live BY <1>2, <3>2 DEF Running
    <3> QED BY <2>2, <3>3
  <2> QED BY <2>1, <2>2
<1>9. StoppableNow => SesKnows(t, box) BY <1>2, <1>6, <1>8 DEF SesKnows, Covered, BusyOK
<1> QED BY <1>1, <1>7, <1>9, ClosedHolds DEF Holds

LEMMA BegunIs ==
  ASSUME Inv, NEW k \in {"cluster", "single", "launch"}, NEW f \in Confs \cup {Unset},
         NEW at \in Nodes \cup {Unset}
  PROVE  Begun(k, f, at).kind = k /\ Begun(k, f, at).conf = f /\ Begun(k, f, at).gone = {}
<1> DEFINE c == Parsed(k, f, at)
<1>1. c \in Commands /\ c.kind = k /\ c.conf = f /\ c.gone = {} BY ParsedOK
<1>2. Begun(k, f, at) = FirstStep(c) BY DEF Begun
<1> HIDE DEF c
<1>3. \A x, y : Continues(c, [c EXCEPT !.pc = x, !.todo = y]) BY <1>1 DEF Continues, Commands
<1>4. Continues(c, FirstStep(c)) BY <1>3 DEF FirstStep
<1> QED BY <1>1, <1>2, <1>4 DEF Continues

LEMMA RunDownHolds ==
  ASSUME Inv, Holds(ses, cmd[Desk], box), RunDown PROVE Holds(ses', cmd'[Desk], box)
<1>1. PICK c \in ses.pending : /\ ses.pc = "stop" /\ Becomes(Desk, DownCommand(c))
                             /\ ses' = [ses EXCEPT !.pc = "stopping", !.pending = @ \ {c}]
  BY DEF RunDown, Becomes, Goes
<1> DEFINE t == [ses EXCEPT !.pc = "stopping", !.pending = @ \ {c}]
<1>2. /\ ses \in Session /\ c \in ses.confirmed /\ c \in Confs
      /\ ses.at \in Nodes \cup {Unset}
  BY <1>1, ConfsAssumption DEF Holds, SesOK, Session
<1>3. cmd'[Desk] = DownCommand(c) BY <1>1, DeskAssumption DEF Becomes, Inv
<1>4. cmd'[Desk].kind \in {"cluster", "single"} /\ cmd'[Desk].conf = c
  BY <1>2, <1>3, BegunIs DEF DownCommand
<1>5. t \in Session BY <1>2 DEF Session
<1>6. /\ t.pc = "stopping" /\ t.pending = ses.pending \ {c} /\ t.task = ses.task
      /\ t.conf = ses.conf /\ t.at = ses.at /\ t.rows = ses.rows /\ t.ok = ses.ok
      /\ t.confirmed = ses.confirmed /\ t.there = ses.there /\ t.heard = ses.heard
      /\ t.busy = ses.busy
  BY <1>2 DEF Session
<1>7. ses' = t BY <1>1
<1> HIDE DEF t
<1>8. SesOK(t, cmd'[Desk]) BY <1>1, <1>2, <1>4, <1>5, <1>6 DEF Holds, SesOK, At
<1>9. SesKnows(t, box) BY <1>1, <1>6 DEF Holds, SesKnows, Covered, BusyOK, OneAtMost
<1> QED BY <1>7, <1>8, <1>9 DEF Holds

LEMMA DownReturnsHolds ==
  ASSUME NEW e, Holds(ses, cmd[Desk], box), DownReturns PROVE Holds(ses', e, box)
<1> DEFINE t == [ses EXCEPT !.pc = "stop"]
<1>1. ses.pc = "stopping" /\ (\/ ses' \in {Closed, t}
                              \/ ses.task = "switch" /\ ses' = Read(ses, "clear"))
  BY DEF DownReturns, Goes, Leave
<1>2. ses \in Session BY DEF Holds, SesOK
<1>3. t \in Session BY <1>2 DEF Session
<1>4. /\ t.pc = "stop" /\ t.pending = ses.pending /\ t.task = ses.task
      /\ t.conf = ses.conf /\ t.at = ses.at /\ t.rows = ses.rows /\ t.ok = ses.ok
      /\ t.confirmed = ses.confirmed /\ t.there = ses.there /\ t.heard = ses.heard
      /\ t.busy = ses.busy
  BY <1>2 DEF Session
<1> HIDE DEF t
<1>5. SesOK(t, e) BY <1>1, <1>3, <1>4 DEF Holds, SesOK, At
<1>6. SesKnows(t, box) BY <1>1, <1>4 DEF Holds, SesKnows, Covered, BusyOK, OneAtMost
<1>7. ses.task = "switch" => Holds(Read(ses, "clear"), e, box)
  BY ReadHolds DEF Holds, SesKnows
<1> QED BY <1>1, <1>5, <1>6, <1>7, ClosedHolds DEF Holds

\* What the look before the launch showed stopped has stopped; of the rest
\* nothing is claimed.
LEMMA ClearHolds ==
  ASSUME NEW d, Holds(ses, d, box), Clear PROVE Holds(ses', d, box)
<1> DEFINE b == {i \in ses.busy \cap Exists : box[i].node \in ses.ok}
           t == [ses EXCEPT !.pc = "launch", !.rows = {}, !.ok = {}, !.busy = b]
<1>1. ses.pc = "clear" /\ (ses' = Closed \/ (TargetClear /\ ses' = t))
  BY DEF Clear, Goes, Leave
<1>2. ses \in Session /\ Covered(ses, box) /\ BusyOK(ses, box) /\ ses.task = "switch"
  BY <1>1 DEF Holds, SesOK, SesKnows, At
<1>3. b \in SUBSET Ids /\ b \subseteq ses.busy BY <1>2 DEF Session
<1>4. \A i \in b : i \in DOMAIN box /\ box[i].node \in ses.ok BY DEF Exists
<1> HIDE DEF b
<1>5. t \in Session BY <1>2, <1>3 DEF Session
<1>6. /\ t.pc = "launch" /\ t.pending = ses.pending /\ t.task = ses.task
      /\ t.conf = ses.conf /\ t.at = ses.at /\ t.ok = {} /\ t.confirmed = ses.confirmed
      /\ t.busy = b
  BY <1>2 DEF Session
<1> HIDE DEF t
<1>7. SesOK(t, d) BY <1>1, <1>2, <1>5, <1>6 DEF Holds, SesOK, At
<1>8. ASSUME TargetClear PROVE BusyOver(t, box)
  <2> SUFFICES ASSUME NEW i \in b PROVE ~box[i].running BY <1>6 DEF BusyOver
  <2>1. Relevant(box[i]) /\ box[i].node \in Target BY <1>2, <1>3, <1>4 DEF BusyOK, Target
  <2>2. PICK r \in ses.rows : Older(r.box, box[i]) BY <1>2, <1>3, <1>4, <2>1 DEF Covered
  <2>3. ~r.box.running BY <1>8, <2>1, <2>2 DEF TargetClear, Older
  <2> QED BY <2>2, <2>3 DEF Older
<1>9. TargetClear => SesKnows(t, box)
  BY <1>2, <1>3, <1>6, <1>8 DEF SesKnows, Covered, BusyOK
<1> QED BY <1>1, <1>7, <1>9, ClosedHolds DEF Holds

LEMMA RunUpHolds ==
  ASSUME NEW d, Holds(ses, d, box), RunUp, NEW e PROVE Holds(ses', e, box)
<1> DEFINE b == ses.busy \cap Exists
           t == [ses EXCEPT !.pc = "launching", !.there = {}, !.heard = {}, !.confirmed = {},
                            !.busy = b]
<1>1. ses.pc = "launch" /\ ses' \in {Closed, t} BY DEF RunUp, Goes, Leave
<1>2. ses \in Session /\ ses.task = "switch" BY <1>1 DEF Holds, SesOK, At
<1>3. b \in SUBSET Ids /\ b \subseteq ses.busy BY <1>2 DEF Session
<1> HIDE DEF b
<1>4. t \in Session BY <1>2, <1>3 DEF Session
<1>5. /\ t.pc = "launching" /\ t.pending = ses.pending /\ t.task = ses.task
      /\ t.conf = ses.conf /\ t.at = ses.at /\ t.rows = ses.rows /\ t.ok = ses.ok
      /\ t.confirmed = {} /\ t.there = {} /\ t.heard = {} /\ t.busy = b
  BY <1>2 DEF Session
<1> HIDE DEF t
<1>6. SesOK(t, e) BY <1>1, <1>2, <1>4, <1>5 DEF Holds, SesOK, At
<1>7. SesKnows(t, box) BY <1>1, <1>3, <1>5 DEF Holds, SesKnows, Covered, BusyOK, BusyOver
<1> QED BY <1>1, <1>6, <1>7, ClosedHolds DEF Holds

LEMMA UpReturnsHolds == ASSUME NEW e, UpReturns PROVE Holds(ses', e, box)
  BY ClosedHolds DEF UpReturns, Leave, Goes

-----------------------------------------------------------------------------
(* Steps of others: what the session remembers is what it was, or stopped. *)

LEMMA OlderSame ==
  ASSUME NEW a, NEW b, Older(a, b)
  PROVE  /\ Relevant(a) = Relevant(b) /\ Group(a) = Group(b) /\ Labelled(a) = Labelled(b)
         /\ \A r : Older(r, a) => Older(r, b)
  BY DEF Older, Relevant, Group, Labelled

LEMMA AroundHolds ==
  ASSUME NEW s, NEW d, NEW e, NEW bx, NEW by, Holds(s, d, bx),
         s.pc = "stopping" => e.kind = d.kind /\ e.conf = d.conf,
         \A i \in (s.there \cup s.heard \cup s.busy) \cap DOMAIN by :
            i \in DOMAIN bx /\ Older(bx[i], by[i])
  PROVE  Holds(s, e, by)
<1>1. SesOK(s, e) BY DEF Holds, SesOK
<1>2. Covered(s, by)
  <2> SUFFICES ASSUME NEW i \in (s.there \cup s.heard \cup s.busy) \cap DOMAIN by,
                      by[i].node \in s.ok, Relevant(by[i])
               PROVE  \E r \in s.rows : r.id = i /\ Older(r.box, by[i])
    BY DEF Covered
  <2>1. i \in DOMAIN bx /\ Older(bx[i], by[i]) OBVIOUS
  <2>2. bx[i].node \in s.ok /\ Relevant(bx[i]) BY <2>1, OlderSame DEF Older
  <2>3. PICK r \in s.rows : r.id = i /\ Older(r.box, bx[i])
    BY <2>1, <2>2 DEF Holds, SesKnows, Covered
  <2> QED BY <2>1, <2>3, OlderSame
<1>3. BusyOK(s, by)
  <2> SUFFICES ASSUME NEW i \in s.busy \cap DOMAIN by
               PROVE  /\ Relevant(by[i]) /\ Group(by[i]) # s.conf
                      /\ by[i].node \in TargetOf(s.conf, s.at)
    BY DEF BusyOK
  <2>1. i \in DOMAIN bx /\ Older(bx[i], by[i]) OBVIOUS
  <2> QED BY <2>1, OlderSame DEF Older, Holds, SesKnows, BusyOK
<1>4. BusyOver(s, bx) => BusyOver(s, by) BY DEF BusyOver, Older
<1>5. OneAtMost(s, bx) => OneAtMost(s, by)
  <2> SUFFICES ASSUME OneAtMost(s, bx), ~(\E c \in Confs : s.confirmed = {c}),
                      NEW i \in s.heard \cap DOMAIN by, by[i].managed = "true",
                      by[i].conf \in s.confirmed, by[i].running
               PROVE  FALSE
    BY DEF OneAtMost
  <2>1. i \in DOMAIN bx /\ Older(bx[i], by[i]) OBVIOUS
  <2> QED BY <2>1 DEF OneAtMost, Older
<1> QED BY <1>1, <1>2, <1>3, <1>4, <1>5 DEF Holds, SesKnows

\* A removal goes on with the same command.
LEMMA RemoveKeeps ==
  ASSUME Inv, NEW o \in Ops, Remove(o)
  PROVE  cmd'[o].kind = cmd[o].kind /\ cmd'[o].conf = cmd[o].conf
<1> DEFINE c == cmd[o]
           after(p) == [c EXCEPT !.pc = "absent", !.gone = @ \cup {p[2]}]
           last == [c EXCEPT !.pc = "absent"]
<1>1. c \in Commands
  <2>1. TypeOK BY InvType
  <2> QED BY <2>1 DEF TypeOK
<1>2. PICK p : \/ Becomes(o, after(p)) \/ Becomes(o, Failed(after(p), p, 1))
               \/ Becomes(o, last) \/ Becomes(o, Failed(c, p, 1))
  BY DEF Remove
<1> DEFINE d == after(p)
<1>3. d.kind = c.kind /\ d.conf = c.conf /\ {"kind", "conf", "gone"} \subseteq DOMAIN d
  BY <1>1 DEF Commands
<1>4. last.kind = c.kind /\ last.conf = c.conf BY <1>1 DEF Commands
<1>5. Continues(d, d) /\ Continues(c, c) BY <1>1, <1>3, ContinuesSelf DEF Continues
<1> HIDE DEF after, d, last
<1>6. Continues(d, Failed(d, p, 1)) /\ Continues(c, Failed(c, p, 1)) BY <1>5, ContinuesFailed
<1>7. cmd'[o] \in {d, Failed(d, p, 1), last, Failed(c, p, 1)}
  BY <1>2 DEF d, Becomes, Inv
<1> QED BY <1>3, <1>4, <1>6, <1>7 DEF Continues

LEMMA WorksSame ==
  ASSUME Inv, NEW o \in Ops, Works(o)
  PROVE  cmd'[o].kind = cmd[o].kind /\ cmd'[o].conf = cmd[o].conf
<1>1. CASE Remove(o) BY <1>1, RemoveKeeps
<1>2. CASE ~Remove(o) BY <1>2, WorksContinues DEF Continues
<1> QED BY <1>1, <1>2

\* A command's call rewrites the record of that command.
LEMMA WorksOwn ==
  ASSUME NEW o \in Ops, Works(o) PROVE \E d : Becomes(o, d)
<1>1. CASE Unanswered(o) BY <1>1 DEF Unanswered, Becomes
<1>2. CASE Probe(o) \/ Discover(o) BY <1>2 DEF Probe, Discover
<1>3. CASE Confirm(o) \/ Resolve(o) \/ Endpoint(o) \/ List(o) BY <1>3 DEF Confirm, Resolve, Endpoint, List
<1>4. CASE Inspect(o) \/ Recheck(o) BY <1>4 DEF Inspect, Recheck
<1>5. CASE Remove(o) BY <1>5 DEF Remove
<1>6. CASE Absent(o) \/ Verify(o) BY <1>6 DEF Absent, Verify
<1>7. CASE Start(o) BY <1>7 DEF Start
<1>8. CASE Wait(o) \/ Abort(o) BY <1>8 DEF Wait, Abort
<1> QED BY <1>1, <1>2, <1>3, <1>4, <1>5, <1>6, <1>7, <1>8 DEF Works

\* What becomes of the session's command and of the containers that stay, when
\* others move.
Apart == /\ cmd'[Desk].kind = cmd[Desk].kind /\ cmd'[Desk].conf = cmd[Desk].conf
         /\ \A i \in DOMAIN box \cap DOMAIN box' : Older(box[i], box'[i])

LEMMA OthersApart ==
  ASSUME Inv, NEW o \in Ops \ {Desk}, Ask(o) \/ Done(o) PROVE Apart
<1>1. PICK d : Becomes(o, d) /\ UNCHANGED box BY DEF Ask, Done
<1>2. cmd'[Desk] = cmd[Desk] BY <1>1, DeskAssumption DEF Becomes, Inv
<1> QED BY <1>1, <1>2 DEF Apart, Older

LEMMA WorksApart ==
  ASSUME Inv, NEW o \in Ops, Works(o) PROVE Apart
<1>1. cmd'[Desk].kind = cmd[Desk].kind /\ cmd'[Desk].conf = cmd[Desk].conf
  <2>1. CASE o = Desk BY <2>1, WorksSame
  <2>2. CASE o # Desk
    <3>1. PICK d : Becomes(o, d) BY WorksOwn
    <3>2. cmd'[Desk] = cmd[Desk] BY <2>2, <3>1, DeskAssumption DEF Becomes, Inv
    <3> QED BY <3>2
  <2> QED BY <2>1, <2>2
<1>2. \A i \in DOMAIN box \cap DOMAIN box' : box'[i] = box[i] BY WorksKeeps
<1> QED BY <1>1, <1>2 DEF Apart, Older

LEMMA NodesApart ==
  ASSUME Inv, NEW n \in Nodes, Outage(n) \/ Return(n) PROVE Apart
<1>1. UNCHANGED box BY DEF Outage, Return
<1>2. cmd[Desk] \in Commands
  <2>1. TypeOK BY InvType
  <2> QED BY <2>1, DeskAssumption DEF TypeOK
<1>3. cmd'[Desk] \in {cmd[Desk], [cmd[Desk] EXCEPT !.mute = @ \ {n}]}
  BY DeskAssumption DEF Outage, Return
<1>4. cmd'[Desk].kind = cmd[Desk].kind /\ cmd'[Desk].conf = cmd[Desk].conf
  BY <1>2, <1>3 DEF Commands
<1> QED BY <1>1, <1>4 DEF Apart, Older

LEMMA BoxesApart ==
  ASSUME Inv, NEW i \in Ids, Exit(i) \/ Stranger(i) PROVE Apart
<1>1. UNCHANGED cmd BY DEF Exit, Stranger
<1>2. ASSUME Stranger(i), NEW j \in DOMAIN box \cap DOMAIN box' PROVE box'[j] = box[j]
  BY <1>2 DEF Stranger, With, Fresh, Exists
<1>3. ASSUME Exit(i), NEW j \in DOMAIN box \cap DOMAIN box' PROVE Older(box[j], box'[j])
  <2>1. i \in DOMAIN box /\ box' = [box EXCEPT ![i].running = FALSE] BY <1>3 DEF Exit, Exists
  <2>2. box[i] \in Boxes BY <2>1 DEF Inv, Exists
  <2>3. Older(box[i], [box[i] EXCEPT !.running = FALSE]) BY <2>2, StoppedBox
  <2>4. CASE j = i BY <2>1, <2>3, <2>4
  <2>5. CASE j # i BY <2>1, <2>5 DEF Older
  <2> QED BY <2>4, <2>5
<1> QED BY <1>1, <1>2, <1>3 DEF Apart, Older

LEMMA AroundKeeps ==
  ASSUME Inv, ~SessionStep, [SwitchNext]_svars
  PROVE  /\ ses' = ses
         /\ cmd'[Desk].kind = cmd[Desk].kind /\ cmd'[Desk].conf = cmd[Desk].conf
         /\ \A i \in (ses.there \cup ses.heard \cup ses.busy) \cap DOMAIN box' :
              i \in DOMAIN box /\ Older(box[i], box'[i])
<1>1. CASE UNCHANGED svars BY <1>1 DEF svars, Older
<1>2. CASE SwitchNext
  <2>1. /\ UNCHANGED ses
        /\ \/ \E o \in Ops \ {Desk} : Ask(o) \/ Done(o)
           \/ \E o \in Ops : Works(o)
           \/ \E n \in Nodes : Outage(n) \/ Return(n)
           \/ \E i \in Ids : Exit(i) \/ Stranger(i)
        /\ Remembered \cap (DOMAIN box' \ Exists) = {}
    BY <1>2 DEF SwitchNext
  <2>2. Apart BY <2>1, OthersApart, WorksApart, NodesApart, BoxesApart
  <2>3. \A i \in (ses.there \cup ses.heard \cup ses.busy) \cap DOMAIN box' : i \in DOMAIN box
    BY <2>1 DEF Remembered, Exists
  <2> QED BY <2>1, <2>2, <2>3 DEF Apart
<1> QED BY <1>1, <1>2

-----------------------------------------------------------------------------
(* The invariant.                                                          *)

LEMMA StepHolds ==
  ASSUME SwitchInv, SessionStep PROVE Holds(ses', cmd'[Desk], box)
<1>1. Inv /\ Holds(ses, cmd[Desk], box) BY DEF SwitchInv, Holds
<1>2. CASE RunDown \/ DownReturns \/ RunUp \/ UpReturns
  BY <1>1, <1>2, RunDownHolds, DownReturnsHolds, RunUpHolds, UpReturnsHolds
<1>3. CASE Open \/ ReadNode \/ Offer \/ Plan \/ Confirmed \/ Execute \/ Clear
  <2>1. cmd' = cmd
    BY <1>3 DEF Open, ReadNode, Offer, Plan, Confirmed, Execute, Clear, Quiet
  <2> HIDE DEF Holds
  <2>2. Holds(ses', cmd[Desk], box)
    BY <1>1, <1>3, OpenHolds, ReadNodeHolds, OfferHolds, PlanHolds, ConfirmedHolds,
       ExecuteHolds, ClearHolds
  <2> QED BY <2>1, <2>2
<1> QED BY <1>2, <1>3 DEF SessionStep

LEMMA StepBox == ASSUME SessionStep PROVE box' = box
  BY DEF SessionStep, Open, ReadNode, Offer, Plan, Confirmed, Execute, RunDown, DownReturns,
         Clear, RunUp, UpReturns, Quiet

LEMMA SwitchInitInv == SwitchInit => SwitchInv
  BY InitInv, ClosedHolds DEF SwitchInit, SwitchInv, Holds

LEMMA SwitchStepInv == SwitchInv /\ [SwitchNext]_svars => SwitchInv'
<1> SUFFICES ASSUME SwitchInv, [SwitchNext]_svars PROVE SwitchInv' OBVIOUS
<1>1. Inv /\ Holds(ses, cmd[Desk], box) BY DEF SwitchInv, Holds
<1>2. Inv' BY <1>1, SwitchNextInv DEF Holds
<1>3. Holds(ses', cmd'[Desk], box')
  <2>1. CASE SessionStep
    <3> HIDE DEF Holds
    <3> QED BY <2>1, StepHolds, StepBox
  <2>2. CASE ~SessionStep
    <3> HIDE DEF Holds
    <3> QED BY <1>1, <2>2, AroundKeeps, AroundHolds
  <2> QED BY <2>1, <2>2
<1>4. SesOK(ses, cmd[Desk])' /\ SesKnows(ses, box)' BY <1>3 DEF Holds
<1> QED BY <1>2, <1>4 DEF SwitchInv

THEOREM SwitchInvariant == SwitchSpec => []SwitchInv
<1> QED BY SwitchInitInv, SwitchStepInv, PTL DEF SwitchSpec

\* Every variable keeps its type, the session's snapshot and memory included.
THEOREM SwitchTypeCorrect == SwitchSpec => []SwitchTypeOK
<1>1. SwitchInv => SwitchTypeOK BY InvType DEF SwitchInv, SesOK, SwitchTypeOK
<1> QED BY <1>1, SwitchInvariant, PTL

\* The wizard runs up.sh only where nothing of what ran on the target for
\* another service when the session began, and whose node the last look heard
\* from, runs any more.
THEOREM NothingStillRuns == SwitchSpec => []NothingStillRunning
<1>1. SwitchInv => NothingStillRunning
  BY DEF SwitchInv, SesKnows, BusyOver, NothingStillRunning, Exists
<1> QED BY <1>1, SwitchInvariant, PTL

-----------------------------------------------------------------------------
(* Of several confirmed services no running one is stopped.                *)

\* What the session's command has removed grows by docker rm only.
LEMMA GoneGrows ==
  ASSUME SwitchInv, [SwitchNext]_svars, NEW i \in cmd'[Desk].gone \ cmd[Desk].gone
  PROVE  Remove(Desk)
<1>1. Inv /\ SesOK(ses, cmd[Desk]) BY DEF SwitchInv
<1>2. TypeOK BY <1>1, InvType
<1>3. cmd[Desk] \in Commands /\ Desk \in Ops BY <1>2, DeskAssumption DEF TypeOK
<1>4. ~(UNCHANGED cmd) OBVIOUS
<1>5. ASSUME SessionStep PROVE FALSE
  <2>1. RunDown \/ DownReturns \/ RunUp \/ UpReturns
    BY <1>4, <1>5 DEF SessionStep, Open, ReadNode, Offer, Plan, Confirmed, Execute, Clear, Quiet
  <2>2. CASE DownReturns \/ UpReturns
    <3>1. cmd'[Desk] = Nobody BY <1>3, <2>2, <1>1 DEF DownReturns, UpReturns, Inv
    <3> QED BY <3>1 DEF Nobody
  <2>3. CASE RunDown
    <3>1. PICK c \in ses.pending : cmd' = [cmd EXCEPT ![Desk] = DownCommand(c)]
      BY <2>3 DEF RunDown
    <3>2. cmd'[Desk] = DownCommand(c) BY <1>1, <1>3, <3>1 DEF Inv
    <3>3. c \in Confs /\ ses.at \in Nodes \cup {Unset}
      BY <1>1, ConfsAssumption DEF SesOK, Session
    <3>4. DownCommand(c).gone = {} BY <1>1, <3>3, BegunIs DEF DownCommand
    <3> QED BY <3>2, <3>4
  <2>4. CASE RunUp
    <3> DEFINE at == IF World[ses.conf] = 1 THEN ses.at ELSE Unset
    <3>1. cmd' = [cmd EXCEPT ![Desk] = Begun("launch", ses.conf, at)]
      BY <1>4, <2>4 DEF RunUp
    <3>2. cmd'[Desk] = Begun("launch", ses.conf, at) BY <1>1, <1>3, <3>1 DEF Inv
    <3>3. ses.conf \in Confs \cup {Unset} /\ at \in Nodes \cup {Unset}
      BY <1>1 DEF SesOK, Session
    <3>4. Begun("launch", ses.conf, at).gone = {} BY <1>1, <3>3, BegunIs
    <3> QED BY <3>2, <3>4
  <2> QED BY <2>1, <2>2, <2>3, <2>4
<1>6. ASSUME NEW o \in Ops, o # Desk, Ask(o) \/ Done(o) \/ Works(o) PROVE FALSE
  <2>1. PICK d : Becomes(o, d) BY <1>6, WorksOwn DEF Ask, Done
  <2>2. cmd'[Desk] = cmd[Desk] BY <1>1, <1>3, <1>6, <2>1 DEF Becomes, Inv
  <2> QED BY <2>2
<1>7. ASSUME NEW n \in Nodes, Outage(n) \/ Return(n) PROVE FALSE
  <2>1. cmd'[Desk] \in {cmd[Desk], [cmd[Desk] EXCEPT !.mute = @ \ {n}]}
    BY <1>3, <1>7 DEF Outage, Return
  <2> QED BY <1>3, <2>1 DEF Commands
<1>8. ASSUME NEW j \in Ids, Exit(j) \/ Stranger(j) PROVE FALSE
  BY <1>4, <1>8 DEF Exit, Stranger
<1>9. ASSUME Works(Desk), ~Remove(Desk) PROVE FALSE
  BY <1>1, <1>3, <1>9, WorksContinues DEF Continues
<1>10. SwitchNext BY <1>4 DEF svars
<1>11. Works(Desk) /\ UNCHANGED ses BY <1>5, <1>6, <1>7, <1>8, <1>10 DEF SwitchNext
<1> QED BY <1>9, <1>11

\* A container that disappears by the session's down.sh is labelled with the
\* profile the command was given.
LEMMA GoneIsOwn ==
  ASSUME Inv, Remove(Desk), cmd[Desk].kind \in {"cluster", "single"},
         NEW i \in cmd'[Desk].gone \ cmd[Desk].gone
  PROVE  i \in DOMAIN box /\ box[i].managed = "true" /\ box[i].conf = cmd[Desk].conf
<1> DEFINE c == cmd[Desk]
           after(p) == [c EXCEPT !.pc = "absent", !.gone = @ \cup {p[2]}]
           last == [c EXCEPT !.pc = "absent"]
<1>0. Desk \in Ops BY DeskAssumption
<1>1. c \in Commands
  <2>1. TypeOK BY InvType
  <2> QED BY <1>0, <2>1 DEF TypeOK
<1>2. PICK p \in Current(c) :
        \/ Becomes(Desk, after(p)) /\ Present(p) # {} /\ box' = Gone(p[2])
        \/ Becomes(Desk, Failed(after(p), p, 1)) /\ Present(p) # {} /\ box' = Gone(p[2])
        \/ Becomes(Desk, last) \/ Becomes(Desk, Failed(c, p, 1))
  BY DEF Remove
<1> DEFINE d == after(p)
<1>3. d.gone = c.gone \cup {p[2]} /\ {"kind", "conf", "gone"} \subseteq DOMAIN d
  BY <1>1 DEF Commands
<1>4. last.gone = c.gone BY <1>1 DEF Commands
<1>5. Continues(d, d) /\ Continues(c, c) BY <1>1, <1>3, ContinuesSelf DEF Continues
<1>p. c.ids \subseteq Pairs BY <1>1 DEF Commands
<1>6. \A r \in Current(c) : Present(r) # {} => r[2] \in DOMAIN box
  BY <1>p, PresentBox DEF Current, Exists
<1> HIDE DEF after, last
<1>7. Continues(d, Failed(d, p, 1)) /\ Continues(c, Failed(c, p, 1)) BY <1>5, ContinuesFailed
<1>8. \A e : Becomes(Desk, e) => cmd'[Desk] = e BY <1>0 DEF Becomes, Inv
<1> HIDE DEF d
<1>9. i = p[2] /\ box' = Gone(p[2]) /\ Present(p) # {}
  BY <1>2, <1>3, <1>4, <1>7, <1>8 DEF Continues, d
<1>10. i \in Exists \ DOMAIN box' BY <1>6, <1>9 DEF Gone, Exists
<1>11. MayRemove(c, i) BY <1>0, <1>10, RemoveProven
<1>12. Proven(box[i], c.conf) BY <1>11 DEF MayRemove, Remove
<1> QED BY <1>10, <1>12 DEF Proven, Owned, Exists

\* A switch that was to stop several services stops no running one of those
\* its fresh inventory heard from.
THEOREM OneAtATime == SwitchSpec => OneRunningStopped
<1>1. SwitchInv /\ [SwitchNext]_svars => [TakesOnlyOne(ses.heard)]_svars
  <2> SUFFICES ASSUME SwitchInv, [SwitchNext]_svars,
                      NEW i \in (cmd'[Desk].gone \ cmd[Desk].gone) \cap ses.heard,
                      ses.task = "switch", ses.pc = "stopping", box[i].running
               PROVE  ses.confirmed = {box[i].conf}
    BY DEF TakesOnlyOne
  <2>1. /\ Inv /\ OneAtMost(ses, box)
        /\ cmd[Desk].kind \in {"cluster", "single"} /\ cmd[Desk].conf \in ses.confirmed
    BY DEF SwitchInv, SesOK, SesKnows
  <2>2. /\ i \in DOMAIN box /\ box[i].managed = "true" /\ box[i].conf \in ses.confirmed
    BY <2>1, GoneGrows, GoneIsOwn
  <2> QED BY <2>1, <2>2 DEF OneAtMost
<1> QED BY <1>1, SwitchInvariant, PTL DEF SwitchSpec, OneRunningStopped

-----------------------------------------------------------------------------
(* What is offered to stop is what down.sh accepts.  Docker does not keep  *)
(* the name of a container and its labels together; the launchers do.      *)

\* A container with labels bears them as serve.sh and start-cluster.sh write
\* them, under the name of its profile.
Plain(b) == Labelled(b) => /\ b.managed = "true"
                           /\ Released \cap {b.name, b.conf} # {} => b.name = b.conf
AllPlain == \A i \in DOMAIN box : Plain(box[i])
FoundPlain == \A b \in Found : Plain(b)

LEMMA LaunchedPlain == ASSUME NEW c, NEW n PROVE Plain(Launched(c, n))
  BY DEF Plain, Launched

LEMMA PlainInit == Init /\ FoundPlain => AllPlain
<1> SUFFICES ASSUME Init, FoundPlain PROVE AllPlain OBVIOUS
<1>1. PICK S : box \in [S -> Found] BY DEF Init
<1> QED BY <1>1 DEF AllPlain, FoundPlain

LEMMA PlainStep ==
  ASSUME Inv, AllPlain, FoundPlain, [SwitchNext]_svars PROVE AllPlain'
<1>1. CASE box' = box BY <1>1 DEF AllPlain
<1>2. ASSUME NEW o \in Ops, Works(o), NEW i \in DOMAIN box' PROVE Plain(box'[i])
  <2>1. CASE i \in DOMAIN box BY <1>2, <2>1, WorksKeeps DEF AllPlain
  <2>2. CASE i \notin DOMAIN box
    <3>1. ~Remove(o) /\ ~Abort(o) BY <2>2, <1>2 DEF Remove, Abort, Gone, Exists
    <3>2. Start(o)
      BY <1>2, <2>2, <3>1 DEF Works, Unanswered, Wait, Absent, Probe, Confirm, Discover,
         Resolve, Endpoint, List, Inspect, Recheck, Verify, Reading
    <3>3. PICK n, j : box' = With(j, Launched(cmd[o].conf, n))
      BY <1>2, <2>2, <3>2 DEF Start
    <3>4. box'[i] = Launched(cmd[o].conf, n) BY <1>2, <2>2, <3>3 DEF With, Exists
    <3> QED BY <3>4, LaunchedPlain
  <2> QED BY <2>1, <2>2
<1>3. ASSUME NEW j \in Ids, Stranger(j), NEW i \in DOMAIN box' PROVE Plain(box'[i])
  BY <1>3 DEF Stranger, With, Exists, AllPlain, FoundPlain
<1>4. ASSUME NEW j \in Ids, Exit(j), NEW i \in DOMAIN box' PROVE Plain(box'[i])
  <2>1. i \in DOMAIN box /\ j \in DOMAIN box /\ box' = [box EXCEPT ![j].running = FALSE]
    BY <1>4 DEF Exit, Exists
  <2>2. box[j] \in Boxes /\ Plain(box[i]) BY <2>1 DEF Inv, Exists, AllPlain
  <2>3. Older(box[j], [box[j] EXCEPT !.running = FALSE]) BY <2>2, StoppedBox
  <2>4. Older(box[i], box'[i]) BY <2>1, <2>3 DEF Older
  <2> QED BY <2>2, <2>4, OlderSame DEF Plain, Older
<1>5. SessionStep => box' = box BY StepBox
<1>6. ASSUME NEW o \in Ops, Ask(o) \/ Done(o) PROVE box' = box BY <1>6 DEF Ask, Done
<1>7. ASSUME NEW n \in Nodes, Outage(n) \/ Return(n) PROVE box' = box
  BY <1>7 DEF Outage, Return
<1>8. UNCHANGED svars => box' = box BY DEF svars
<1> QED BY <1>1, <1>2, <1>3, <1>4, <1>5, <1>6, <1>7, <1>8 DEF SwitchNext, AllPlain

LEMMA KindsFinite == ASSUME NEW found PROVE IsFiniteSet({Ownership(r.box) : r \in found})
<1>1. IsFiniteSet({"legacy", "unknown", "managed", "mismatch"})
  <2>1. IsFiniteSet({"legacy"}) BY FS_Singleton
  <2>2. IsFiniteSet({"legacy"} \cup {"unknown"}) BY <2>1, FS_AddElement
  <2>3. IsFiniteSet(({"legacy"} \cup {"unknown"}) \cup {"managed"}) BY <2>2, FS_AddElement
  <2>4. IsFiniteSet((({"legacy"} \cup {"unknown"}) \cup {"managed"}) \cup {"mismatch"})
    BY <2>3, FS_AddElement
  <2>5. (({"legacy"} \cup {"unknown"}) \cup {"managed"}) \cup {"mismatch"}
          = {"legacy", "unknown", "managed", "mismatch"}
    OBVIOUS
  <2> QED BY <2>4, <2>5
<1>2. {Ownership(r.box) : r \in found} \subseteq {"legacy", "unknown", "managed", "mismatch"}
  BY DEF Ownership
<1> QED BY <1>1, <1>2, FS_Subset

\* A service is called managed only when every container of it is.
LEMMA ManagedService ==
  ASSUME NEW found, ServiceOwnership(found) = "managed", NEW r \in found PROVE Ownership(r.box) = "managed"
<1> DEFINE kinds == {Ownership(q.box) : q \in found}
<1>1. Cardinality(kinds) = 1 /\ (CHOOSE k \in kinds : TRUE) = "managed"
  BY DEF ServiceOwnership
<1>2. IsFiniteSet(kinds) BY KindsFinite
<1>3. Ownership(r.box) \in kinds OBVIOUS
<1> HIDE DEF kinds
<1>4. PICK k : kinds = {k} BY <1>1, <1>2, FS_Singleton
<1> QED BY <1>1, <1>3, <1>4

\* The two implementations of ownership agree on one container.
LEMMA ManagedProven ==
  ASSUME NEW b \in Boxes, Ownership(b) = "managed", b.managed = "true"
  PROVE  Proven(b, b.conf) /\ (World[b.conf] = 1 => b.rank = Single)
<1>1. /\ Labelled(b) /\ b.conf \in Released /\ b.rank \in Expected(b.conf)
      /\ ExpectedNode(b) = b.node
  BY DEF Ownership
<1>2. b.conf \in Confs /\ World[b.conf] \in 1 .. Count /\ Count \in Nat
  BY <1>1, ConfsAssumption, CountAssumption
<1>3. b.node \in Nodes /\ Unset \notin Nodes BY LabelsAssumption DEF Boxes
<1>4. CASE World[b.conf] = 1
  <2>1. b.rank = Single BY <1>1, <1>4 DEF Expected
  <2>2. Placed(b) BY <1>1, <1>3, <1>4 DEF ExpectedNode, Placed
  <2> QED BY <1>4, <2>1, <2>2 DEF Proven, Owned
<1>5. CASE World[b.conf] # 1
  <2>1. World[b.conf] > 1 BY <1>2, <1>5
  <2>2. b.rank = b.node BY <1>1, <1>5, <2>1 DEF ExpectedNode
  <2> QED BY <1>5, <2>2 DEF Proven, Owned
<1> QED BY <1>4, <1>5

LEMMA NotDoubled ==
  ASSUME NEW S, NEW ok, NEW c, StopEligible(S, ok, c) \/ StaleEligible(S, ok, c)
  PROVE  ServiceOwnership(Rows(S, c)) = "managed" /\ ~Doubled(Rows(S, c))
<1>1. StopEligible(S, ok, c) => ~Doubled(Rows(S, c)) BY DEF StopEligible, Complete
<1>2. StaleEligible(S, ok, c) => ~Doubled(Rows(S, c)) BY DEF StaleEligible, State
<1> QED BY <1>1, <1>2 DEF StopEligible, StaleEligible

LEMMA PlainProceeds == Inv /\ AllPlain => OfferedStopsProceed
<1> DEFINE S == UNION {Listing(n) : n \in Nodes}
<1> SUFFICES ASSUME Inv, AllPlain, NEW c \in Released,
                    StopEligible(S, Nodes, c) \/ StaleEligible(S, Nodes, c)
             PROVE  Accepted(c) /\ \A r \in Rows(S, c) : r.box.name = c
  BY DEF OfferedStopsProceed
<1>1. ServiceOwnership(Rows(S, c)) = "managed" /\ ~Doubled(Rows(S, c)) BY NotDoubled
<1>2. ASSUME NEW r \in Rows(S, c)
      PROVE  /\ r.box \in Boxes /\ r.box.name = c /\ r.box.conf = c /\ r.box.managed = "true"
             /\ Proven(r.box, c) /\ (World[c] = 1 => r.box.rank = Single)
  <2>1. Group(r.box) = c BY DEF Rows
  <2>2. PICK j \in DOMAIN box : r.box = box[j] BY DEF Rows, Listing, Exists
  <2>3. r.box \in Boxes /\ Plain(r.box) BY <2>2 DEF Inv, Exists, AllPlain
  <2>4. Ownership(r.box) = "managed" BY <1>1, ManagedService
  <2>5. Labelled(r.box) BY <2>4 DEF Ownership
  <2>6. r.box.conf = c /\ r.box.managed = "true" /\ r.box.name = c
    BY <2>1, <2>3, <2>5 DEF Group, Plain
  <2> QED BY <2>3, <2>4, <2>6, ManagedProven
\* Whatever down.sh finds by the name c is in the inventory under c.
<1>3. ASSUME NEW n \in Nodes, NEW p \in Named(n, c)
      PROVE  [id |-> p[2], box |-> Box(p)] \in Rows(S, c) /\ p = <<Box(p).node, p[2]>>
  <2>1. PICK j \in DOMAIN box : p = <<n, j>> /\ box[j].node = n /\ box[j].name = c
    BY DEF Named, Exists
  <2>2. Box(p) = box[j] /\ Plain(box[j]) /\ c # Unset
    BY <2>1, ConfsAssumption DEF Box, AllPlain
  <2>3. Relevant(box[j]) BY <2>1, <2>2 DEF Relevant
  <2>4. Group(box[j]) = c BY <2>1, <2>2 DEF Group, Plain
  <2>5. [id |-> j, box |-> box[j]] \in Listing(n) BY <2>1, <2>3 DEF Listing, Exists
  <2>6. [id |-> j, box |-> box[j]] \in S BY <2>5
  <2> QED BY <2>1, <2>2, <2>4, <2>6 DEF Rows
<1> DEFINE where == IF World[c] = 1 THEN Nodes ELSE Ranks(c)
           all == UNION {Named(n, c) : n \in where}
<1>4. c \in Confs BY ConfsAssumption
<1>5. where \subseteq Nodes BY <1>4, RanksAreNodes
<1>6. ASSUME NEW p \in all
      PROVE  [id |-> p[2], box |-> Box(p)] \in Rows(S, c) /\ p = <<Box(p).node, p[2]>>
  BY <1>3, <1>5
<1> HIDE DEF S, all
<1>7. \A p \in all : Proven(Box(p), c) BY <1>2, <1>6
<1>8. ASSUME World[c] = 1 PROVE Cardinality(all) <= 1
  <2>1. ASSUME NEW p \in all, NEW q \in all PROVE p = q
    <3> DEFINE r == [id |-> p[2], box |-> Box(p)]
               t == [id |-> q[2], box |-> Box(q)]
    <3>1. r \in Rows(S, c) /\ t \in Rows(S, c) BY <1>6
    <3>2. r.box.rank = Single /\ t.box.rank = Single BY <1>2, <1>8, <3>1
    <3>3. r = t BY <1>1, <3>1, <3>2 DEF Doubled
    <3>4. p[2] = q[2] /\ Box(p) = Box(q) BY <3>3
    <3> QED BY <1>6, <3>4
  <2>2. CASE all = {} BY <2>2, FS_EmptySet
  <2>3. CASE all # {}
    <3>1. PICK p : p \in all BY <2>3
    <3>2. all = {p} BY <2>1, <3>1
    <3>3. Cardinality(all) = 1 BY <3>2, FS_Singleton
    <3> QED BY <3>3
  <2> QED BY <2>2, <2>3
<1>9. Accepted(c) BY <1>7, <1>8 DEF Accepted, all
<1> QED BY <1>2, <1>9

\* What the inventory of an undisturbed moment offers to stop or to clean up,
\* down.sh neither refuses nor misses: if the containers found are labelled as
\* the launchers label them, so are those that come later.
THEOREM OffersProceed ==
  ASSUME FoundPlain PROVE SwitchSpec => []OfferedStopsProceed
<1> DEFINE I == SwitchInv /\ AllPlain
<1>1. SwitchInit => I BY SwitchInitInv, PlainInit DEF SwitchInit
<1>2. I /\ [SwitchNext]_svars => I'
  BY SwitchStepInv, PlainStep DEF SwitchInv
<1>3. I => OfferedStopsProceed BY PlainProceeds DEF SwitchInv
<1> QED BY <1>1, <1>2, <1>3, PTL DEF SwitchSpec
=============================================================================
