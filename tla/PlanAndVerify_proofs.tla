------------------------- MODULE PlanAndVerify_proofs -------------------------
(***************************************************************************)
(* The two ends of a preparation, for any number of revisions, nodes,      *)
(* files, writes, commands and changes.                                    *)
(*                                                                         *)
(* PrimaryHome: the catalog never misleads a preparation, tells the        *)
(* operator what is attached as long as no home command ran since the last *)
(* refresh, and keeps his choice of a home.                                *)
(*                                                                         *)
(* ViewWitness: what a verification accepts was whole, and a witness       *)
(* vouches for the files.  The one difficulty is a launch: it accepts      *)
(* because the stored witness equals what it observed twice, and that      *)
(* witness may have been written meanwhile by a verification that began    *)
(* before it.  If the files were not whole between its two observations,   *)
(* no verification that runs can come to write that metadata (Refuted).    *)
(***************************************************************************)
EXTENDS PrimaryHome, ViewWitness, FiniteSetTheorems, WellFoundedInduction, TLAPS

-----------------------------------------------------------------------------
(* PrimaryHome: the invariant.                                             *)

Kinds == {None, "refresh", "set", "clear", "resolve", "prepare", "adopt"}
Steps == {"rest", "scan", "build", "write", "answered", "inspect", "receipt",
          "plan", "planned", "stage"}
MaybeTopology == Topologies \cup {<< >>}
Drafts == Catalogs \cup {<< >>}
Doings == [kind : Kinds, pc : Steps, rev : Revs \cup {Unknown, None}, todo : SUBSET Ranks,
           rank : Ranks, node : Nodes \cup {None}, serving : SUBSET Ranks, good : BOOLEAN,
           was : BOOLEAN, topo : MaybeTopology, found : SUBSET Homes, built : Drafts]

\* The step a command of each kind can be at.
StepsOf(k) ==
  CASE k = None -> {"rest"}
    [] k = "refresh" -> {"scan", "build", "write"}
    [] k \in {"set", "clear"} -> {"write"}
    [] k = "resolve" -> {"answered"}
    [] k = "prepare" -> {"inspect", "receipt", "plan", "planned"}
    [] k = "adopt" -> {"stage"}

\* Directories have numbers up to the last change, and an attached one its receipt.
Dated ==
  /\ \A n \in Nodes : disk[n] = NoTree \/ (disk[n] \in Trees /\ disk[n].dir \in 1 .. changes)
  /\ \A v \in Revs :
       attached[v] = NoHome \/ /\ attached[v].node \in Nodes /\ v \in receipts
                               /\ attached[v].dir \in 1 .. changes

Typed ==
  /\ disk \in [Nodes -> Trees \cup {NoTree}]
  /\ attached \in [Revs -> [node : Nodes, dir : Dirs] \cup {NoHome}]
  /\ receipts \subseteq Revs /\ topo \in Topologies /\ catalog \in Catalogs
  /\ changes \in Dirs /\ fresh \in BOOLEAN
  /\ op \in [Users -> Doings]
  /\ Dated

\* Exclusive commands are alone.
Locked ==
  \A u, w \in Users : u # w /\ op[u].kind # None /\ op[w].kind # None
                        => Compatible(op[u].kind, op[w].kind)

\* A catalog that agrees with the attachments a and the receipts rc.
Tells(c, a, rc) ==
  \A h \in c.homes :
    /\ h.node = c.topo[h.rank] /\ \A g \in c.homes : g.rank = h.rank => g = h
    /\ h.class = "occupancy" => h.complete
    /\ h.complete => (h.class = "occupancy" <=>
                        h.rev \in Revs /\ a[h.rev] = [node |-> h.node, dir |-> h.dir])
    /\ h.complete /\ h.class # "occupancy" /\ h.rev \in Revs =>
         (h.reason \in {"missing-receipt", "non-exact-revision"} <=> h.rev \notin rc)

\* What a refresh found so far.
Scans(o) ==
  o.kind = "refresh" =>
    /\ o.topo \in Topologies /\ (o.pc = "scan" => o.todo # {})
    /\ \A h \in o.found :
         /\ h.node = o.topo[h.rank] /\ h.class = "partial"
         /\ o.pc = "scan" => h.rank \notin o.todo
         /\ \A g \in o.found : g.rank = h.rank => g = h

\* What a command is about to write.
Writes(o, c, a, rc) ==
  o.pc = "write" =>
    /\ o.built \in Catalogs
    /\ o.kind = "refresh" => o.built.sel = c.sel /\ Tells(o.built, a, rc)
    /\ o.kind # "refresh" => /\ o.built.homes = c.homes /\ o.built.topo = c.topo
                             /\ \A v \in Revs \ {o.rev} : o.built.sel[v] = c.sel[v]

\* The home a command took from the catalog.
Chooses(o, c) ==
  o.kind \in {"resolve", "prepare"} =>
    /\ o.rev \in Revs /\ o.node \in Nodes
    /\ c.sel[o.rev] # None => o.node = c.sel[o.rev]

\* A home is a history; a directory that was hashed and is not the attached one
\* never will be: the attachment stays, and no directory comes back.
HomeIn(d, a, v, n) ==
  /\ a[v].node = n /\ d[n].dir = a[v].dir
  /\ d[n].rev = v /\ d[n].complete /\ d[n].good
Plans(o, d, a) ==
  o.kind = "prepare" =>
    /\ HomeIn(d, a, o.rev, o.node) => o.was
    /\ o.pc = "receipt" /\ o.good /\ ~o.was =>
         a[o.rev].node # o.node \/ a[o.rev].dir # d[o.node].dir
    /\ o.pc = "plan" /\ o.good => o.was
    /\ o.pc = "planned" => o.was

Going(o, d, a, rc, c) ==
  /\ o.pc \in StepsOf(o.kind) /\ (o.kind = None => o = AtRest)
  /\ (o.kind = "adopt" => o.rev \in Revs \cup {Unknown})
  /\ Scans(o) /\ Writes(o, c, a, rc) /\ Chooses(o, c) /\ Plans(o, d, a)

IInv ==
  /\ Typed /\ Locked
  /\ fresh => Tells(catalog, attached, receipts)
  /\ \A u \in Users : Going(op[u], disk, attached, receipts, catalog)

-----------------------------------------------------------------------------
(* Ranks, topologies, commands at rest.                                    *)

LEMMA RankMin == ASSUME NEW S, S \subseteq Ranks, S # {} PROVE Min(S) \in S
<1>0. S \subseteq Nat BY DEF Ranks
<1>1. PICK x \in S : \A y \in S : ~(<<y, x>> \in OpToRel(<, Nat))
  BY <1>0, NatLessThanWellFounded, WFMin
<1>2. ASSUME NEW y \in S PROVE x <= y
  <2>1. x \in Nat /\ y \in Nat BY <1>0
  <2>2. ~(y < x) BY <1>1, <2>1 DEF OpToRel
  <2> QED BY <2>1, <2>2
<1> QED BY <1>2 DEF Min

LEMMA TopologyIs ==
  ASSUME NEW t \in Topologies
  PROVE  /\ t \in [Ranks -> Nodes] /\ \A r \in Ranks : t[r] \in Nodes
         /\ \A r, s \in Ranks : t[r] = t[s] => r = s
<1>1. t \in [Ranks -> Nodes] /\ t[0] = Controller /\ t[1] # Controller BY DEF Topologies
<1>2. \A r, s \in Ranks : t[r] = t[s] => r = s BY <1>1 DEF Ranks
<1> QED BY <1>1, <1>2

LEMMA DirNat == Dirs \subseteq Nat /\ 0 \in Dirs /\ 1 \in Dirs
BY CatalogAssumption DEF Dirs

LEMMA NoneIs ==
  /\ NoHome.node = None /\ NoHome.dir = 0 /\ None \notin Nodes
  /\ NoTree.rev = None /\ NoTree.dir = 0 /\ None \notin Revs \cup {Unknown}
  /\ NoTree \notin Trees
<1>1. NoTree.rev = None /\ NoTree.dir = 0 /\ NoHome.node = None /\ NoHome.dir = 0
  BY DEF NoTree, NoHome
<1>2. None \notin Revs \cup {Unknown} /\ None \notin Nodes
  BY CatalogAssumption DEF None, Unknown
<1>3. \A t \in Trees : t.rev \in Revs \cup {Unknown} BY DEF Trees
<1> QED BY <1>1, <1>2, <1>3

LEMMA StepsAre ==
  /\ StepsOf(None) = {"rest"} /\ StepsOf("refresh") = {"scan", "build", "write"}
  /\ StepsOf("set") = {"write"} /\ StepsOf("clear") = {"write"}
  /\ StepsOf("resolve") = {"answered"} /\ StepsOf("adopt") = {"stage"}
  /\ StepsOf("prepare") = {"inspect", "receipt", "plan", "planned"}
BY DEF StepsOf, None

LEMMA AtRestIs ==
  /\ AtRest \in Doings /\ AtRest.kind = None /\ AtRest.pc = "rest" /\ AtRest.rev = None
  /\ AtRest.found = {} /\ AtRest.todo = {}
  /\ \A d, a, rc, c : Going(AtRest, d, a, rc, c)
<1> DEFINE mt == << >>
<1>1. mt \in MaybeTopology /\ mt \in Drafts BY DEF MaybeTopology, Drafts
<1>2. 0 \in Ranks /\ None \in Kinds /\ "rest" \in Steps BY DEF Ranks, Kinds, Steps
<1>3. AtRest = [kind |-> None, pc |-> "rest", rev |-> None, todo |-> {}, rank |-> 0,
                node |-> None, serving |-> {}, good |-> FALSE, was |-> FALSE,
                topo |-> mt, found |-> {}, built |-> mt]
  BY DEF AtRest
<1> HIDE DEF mt
<1>4. {} \in SUBSET Ranks /\ {} \in SUBSET Homes /\ FALSE \in BOOLEAN OBVIOUS
<1>5. AtRest \in Doings /\ AtRest.kind = None /\ AtRest.pc = "rest" /\ AtRest.rev = None
      /\ AtRest.found = {} /\ AtRest.todo = {}
  BY <1>1, <1>2, <1>3, <1>4 DEF Doings
<1>6. ASSUME NEW d, NEW a, NEW rc, NEW c PROVE Going(AtRest, d, a, rc, c)
  <2>1. AtRest.kind \notin {"refresh", "resolve", "prepare", "adopt"} /\ AtRest.pc # "write"
    BY <1>5 DEF None
  <2>2. AtRest.pc \in StepsOf(AtRest.kind) BY <1>5, StepsAre
  <2> QED BY <1>5, <2>1, <2>2 DEF Going, Scans, Writes, Chooses, Plans
<1> QED BY <1>5, <1>6

\* A step tells what kind of command is at it.
LEMMA StepKind ==
  ASSUME NEW o \in Doings, o.pc \in StepsOf(o.kind)
  PROVE  /\ o.pc \in {"scan", "build"} => o.kind = "refresh"
         /\ o.pc = "write" => o.kind \in {"refresh", "set", "clear"}
         /\ o.pc \in {"inspect", "receipt", "plan", "planned"} => o.kind = "prepare"
         /\ o.pc = "answered" => o.kind = "resolve"
         /\ o.pc = "stage" => o.kind = "adopt"
<1>1. o.kind \in {None, "refresh", "set", "clear", "resolve", "prepare", "adopt"}
  BY DEF Doings, Kinds
<1> QED BY <1>1, StepsAre

LEMMA CompatibleIs ==
  /\ \A k, j : Compatible(k, j) <=> Compatible(j, k)
  /\ \A k, j : k \in Exclusive => ~Compatible(k, j)
BY DEF Compatible

-----------------------------------------------------------------------------
(* Steps of one command.                                                   *)

LEMMA Here ==
  ASSUME IInv, NEW u \in Users, NEW o, o = op[u]
  PROVE  /\ o \in Doings /\ o.pc \in StepsOf(o.kind) /\ (o.kind = None => o = AtRest)
         /\ (o.kind = "adopt" => o.rev \in Revs \cup {Unknown})
         /\ Scans(o) /\ Writes(o, catalog, attached, receipts) /\ Chooses(o, catalog)
         /\ Plans(o, disk, attached)
BY DEF IInv, Typed, Going

LEMMA Moves ==
  ASSUME IInv, NEW u \in Users, NEW x \in Doings, op' = [op EXCEPT ![u] = x],
         UNCHANGED <<disk, attached, receipts, topo, catalog, changes, fresh>>,
         Going(x, disk, attached, receipts, catalog),
         \A w \in Users \ {u} : x.kind # None /\ op[w].kind # None
                                  => Compatible(x.kind, op[w].kind)
  PROVE  IInv'
<1>1. op' \in [Users -> Doings] /\ op'[u] = x /\ \A w \in Users \ {u} : op'[w] = op[w]
  BY DEF IInv, Typed
<1>2. /\ disk' = disk /\ attached' = attached /\ receipts' = receipts /\ topo' = topo
      /\ catalog' = catalog /\ changes' = changes /\ fresh' = fresh
  OBVIOUS
<1>3. Typed' BY <1>1, <1>2 DEF IInv, Typed, Dated
<1>4. Locked'
  <2> SUFFICES ASSUME NEW v \in Users, NEW w \in Users, v # w,
                      op'[v].kind # None, op'[w].kind # None
               PROVE  Compatible(op'[v].kind, op'[w].kind)
    BY DEF Locked
  <2> QED BY <1>1, CompatibleIs DEF IInv, Locked
<1>5. ASSUME NEW w \in Users PROVE Going(op'[w], disk', attached', receipts', catalog')
  BY <1>1, <1>2 DEF IInv
<1> QED BY <1>2, <1>3, <1>4, <1>5 DEF IInv

LEMMA GoesOn ==
  ASSUME IInv, NEW u \in Users, NEW x \in Doings, op' = [op EXCEPT ![u] = x],
         UNCHANGED <<disk, attached, receipts, topo, catalog, changes, fresh>>,
         Going(x, disk, attached, receipts, catalog), x.kind = op[u].kind
  PROVE  IInv'
BY Moves DEF IInv, Locked

LEMMA Leaves ==
  ASSUME IInv, NEW u \in Users, Leave(u),
         UNCHANGED <<disk, attached, receipts, topo, catalog, changes, fresh>>
  PROVE  IInv'
<1>1. op' = [op EXCEPT ![u] = AtRest] BY DEF Leave
<1> QED BY <1>1, AtRestIs, Moves

LEMMA Enters ==
  ASSUME IInv, NEW u \in Users, NEW x \in Doings, Enter(u, x.kind),
         op' = [op EXCEPT ![u] = x],
         UNCHANGED <<disk, attached, receipts, topo, catalog, changes, fresh>>,
         Going(x, disk, attached, receipts, catalog)
  PROVE  IInv'
<1>1. \A w \in Users \ {u} : op[w].kind # None => Compatible(x.kind, op[w].kind)
  BY AtRestIs DEF Enter
<1> QED BY <1>1, Moves

LEMMA NamesAre ==
  /\ {"refresh", "set", "clear", "resolve", "prepare", "adopt"} \subseteq Kinds
  /\ {"scan", "build", "write", "answered", "inspect", "receipt", "plan", "planned", "stage"}
       \subseteq Steps
  /\ Topologies \subseteq MaybeTopology /\ Catalogs \subseteq Drafts
  /\ "refresh" # None /\ "adopt" # None /\ "set" # None /\ "clear" # None
  /\ "prepare" # None /\ "resolve" # None
BY DEF Kinds, Steps, MaybeTopology, Drafts, None

-----------------------------------------------------------------------------
(* A refresh.                                                              *)

RefreshOf(u, td) == [Refreshing(u) EXCEPT !.todo = td]

LEMMA RefreshingIs ==
  ASSUME IInv, NEW u \in Users, NEW td \in SUBSET Ranks, td # {},
         NEW x, x = RefreshOf(u, td)
  PROVE  /\ x \in Doings /\ x.kind = "refresh" /\ x.pc = "scan" /\ x.topo = topo
         /\ x.found = {} /\ x.todo = td
         /\ \A d, a, rc, c : Going(x, d, a, rc, c)
<1>1. topo \in Topologies /\ topo \in MaybeTopology BY NamesAre DEF IInv, Typed
<1>2. x = [AtRest EXCEPT !.kind = "refresh", !.pc = "scan", !.topo = topo, !.todo = td]
  BY AtRestIs DEF RefreshOf, Refreshing, Doings
<1>3. "refresh" \in Kinds /\ "scan" \in Steps BY NamesAre
<1>4. x \in Doings /\ x.kind = "refresh" /\ x.pc = "scan" /\ x.topo = topo
      /\ x.found = {} /\ x.todo = td
  BY <1>1, <1>2, <1>3, AtRestIs DEF Doings
<1>5. x.pc \in StepsOf(x.kind) /\ x.kind # None BY <1>4, StepsAre, NamesAre
<1> QED BY <1>1, <1>4, <1>5 DEF Going, Scans, Writes, Chooses, Plans

LEMMA RefreshBeginStep ==
  ASSUME IInv, NEW u \in Users, RefreshBegin(u)
  PROVE  IInv'
<1>1. PICK todo \in {Ranks, {0}} : op' = [op EXCEPT ![u] = [Refreshing(u) EXCEPT !.todo = todo]]
  BY DEF RefreshBegin
<1>2. todo \in SUBSET Ranks /\ todo # {} BY DEF Ranks
<1> DEFINE x == RefreshOf(u, todo)
<1>3. x = RefreshOf(u, todo) /\ op' = [op EXCEPT ![u] = x] BY <1>1 DEF RefreshOf
<1> HIDE DEF x
<1>4. x \in Doings /\ x.kind = "refresh" /\ \A d, a, rc, c : Going(x, d, a, rc, c)
  BY <1>2, <1>3, RefreshingIs
<1> QED BY <1>3, <1>4, Enters DEF RefreshBegin

LEMMA ScannedIs ==
  ASSUME IInv, NEW r \in Ranks, NEW n \in Nodes, NEW h \in Scanned(r, n)
  PROVE  h \in Homes /\ h.rank = r /\ h.node = n /\ h.class = "partial"
         /\ \A g \in Scanned(r, n) : g = h
<1>1. disk[n] # NoTree BY DEF Scanned
<1>2. disk[n] \in Trees BY <1>1 DEF IInv, Typed
<1>3. disk[n].rev \in Revs \cup {Unknown} /\ disk[n].dir \in Dirs /\ disk[n].complete \in BOOLEAN
  BY <1>2 DEF Trees
<1> DEFINE v == disk[n].rev
           e == disk[n].dir
           whole == disk[n].complete
           k == [rank |-> r, node |-> n, rev |-> v, dir |-> e, complete |-> whole,
                 class |-> "partial", reason |-> None]
<1>4. Scanned(r, n) = {k} BY <1>1 DEF Scanned
<1>5. v \in Revs \cup {Unknown} /\ e \in Dirs /\ whole \in BOOLEAN BY <1>3
<1> HIDE DEF v, e, whole
<1>6. None \in Reasons /\ "partial" \in {"occupancy", "unbound-complete", "partial"}
  BY DEF Reasons
<1>7. k \in Homes /\ k.rank = r /\ k.node = n /\ k.class = "partial"
  BY <1>5, <1>6 DEF Homes
<1> HIDE DEF k
<1> QED BY <1>4, <1>7

LEMMA RefreshScanStep ==
  ASSUME IInv, NEW u \in Users, RefreshScan(u)
  PROVE  IInv'
<1> DEFINE o == op[u]
           r == Min(o.todo)
           left == o.todo \ {r}
           S == o.found \cup Scanned(r, o.topo[r])
           p == IF left = {} THEN "build" ELSE "scan"
           x == [o EXCEPT !.todo = left, !.found = S, !.pc = p]
<1>1. o = op[u] /\ o \in Doings /\ o.pc \in StepsOf(o.kind) /\ Scans(o) BY Here
<1>2. o.pc = "scan" BY DEF RefreshScan
<1>3. op \in [Users -> Doings] BY DEF IInv, Typed
<1>4. Leave(u) \/ op' = [op EXCEPT ![u] = x]
  BY <1>1, <1>3 DEF RefreshScan, Doings
<1> HIDE DEF o
<1>5. o.kind = "refresh" /\ o.todo # {} /\ o.topo \in Topologies
  BY <1>1, <1>2, StepKind DEF Scans
<1>6. o.todo \subseteq Ranks /\ o.found \subseteq Homes BY <1>1 DEF Doings
<1>7. r \in o.todo /\ r \in Ranks BY <1>5, <1>6, RankMin
<1>8. o.topo[r] \in Nodes BY <1>5, <1>7, TopologyIs
<1>9. \A h \in Scanned(r, o.topo[r]) :
        h \in Homes /\ h.rank = r /\ h.node = o.topo[r] /\ h.class = "partial"
        /\ \A g \in Scanned(r, o.topo[r]) : g = h
  BY <1>7, <1>8, ScannedIs
<1>10. left = o.todo \ {r} /\ left \subseteq Ranks BY <1>6
<1>11. S = o.found \cup Scanned(r, o.topo[r]) /\ S \subseteq Homes BY <1>6, <1>9
<1>12. p \in Steps /\ p \in StepsOf("refresh") /\ p # "write" /\ (p = "scan" => left # {})
  BY StepsAre, NamesAre
<1> HIDE DEF r, left, S, p
<1>13. x \in Doings /\ x.kind = o.kind /\ x.pc = p /\ x.todo = left /\ x.found = S
       /\ x.topo = o.topo
  BY <1>1, <1>10, <1>11, <1>12 DEF Doings
<1> HIDE DEF x
<1>14. \A h \in S : /\ h.node = o.topo[h.rank] /\ h.class = "partial" /\ h.rank \notin left
                    /\ \A g \in S : g.rank = h.rank => g = h
  <2>1. \A h \in o.found : /\ h.node = o.topo[h.rank] /\ h.class = "partial"
                           /\ h.rank \notin o.todo
                           /\ \A g \in o.found : g.rank = h.rank => g = h
    BY <1>1, <1>2, <1>5 DEF Scans
  <2> QED BY <1>7, <1>9, <1>10, <1>11, <2>1
<1>15. Going(x, disk, attached, receipts, catalog)
  <2>1. Scans(x) BY <1>5, <1>12, <1>13, <1>14 DEF Scans
  <2>2. x.kind \notin {"resolve", "prepare", "adopt"} /\ x.kind # None
    BY <1>5, <1>13, NamesAre
  <2> QED BY <1>5, <1>12, <1>13, <2>1, <2>2 DEF Going, Writes, Chooses, Plans
<1> QED BY <1>1, <1>4, <1>13, <1>15, GoesOn, Leaves DEF RefreshScan

LEMMA ClassifiedIs ==
  ASSUME NEW h \in Homes, h.class = "partial"
  PROVE  /\ Classified(h) \in Homes /\ Classified(h).rank = h.rank
         /\ Classified(h).node = h.node /\ Classified(h).rev = h.rev
         /\ Classified(h).dir = h.dir /\ Classified(h).complete = h.complete
         /\ Classified(h).class = "occupancy" <=> h.complete /\ Occupies(h)
         /\ h.complete /\ ~Occupies(h) => Classified(h).reason = UnboundReason(h)
<1> DEFINE w == UnboundReason(h)
           a == [h EXCEPT !.class = "occupancy"]
           b == [h EXCEPT !.class = "unbound-complete", !.reason = w]
<1>1. h.complete \in BOOLEAN BY DEF Homes
<1>2. w \in Reasons /\ w = UnboundReason(h) BY DEF UnboundReason, Reasons
<1>3. Classified(h) = IF ~h.complete THEN h ELSE IF Occupies(h) THEN a ELSE b
  BY DEF Classified
<1> HIDE DEF w
<1>4. a \in Homes /\ a.rank = h.rank /\ a.node = h.node /\ a.rev = h.rev /\ a.dir = h.dir
      /\ a.complete = h.complete /\ a.class = "occupancy"
  BY DEF Homes
<1>5. b \in Homes /\ b.rank = h.rank /\ b.node = h.node /\ b.rev = h.rev /\ b.dir = h.dir
      /\ b.complete = h.complete /\ b.class = "unbound-complete" /\ b.reason = w
  BY <1>2 DEF Homes
<1> HIDE DEF a, b
<1>6. CASE ~h.complete BY <1>3, <1>6
<1>7. CASE h.complete /\ Occupies(h) BY <1>3, <1>4, <1>7
<1>8. CASE h.complete /\ ~Occupies(h) BY <1>2, <1>3, <1>5, <1>8
<1> QED BY <1>1, <1>6, <1>7, <1>8

LEMMA UnboundIs ==
  ASSUME IInv, NEW h \in Homes, h.rev \in Revs
  PROVE  UnboundReason(h) \in {"missing-receipt", "non-exact-revision"} <=> h.rev \notin receipts
<1>1. CASE h.rev \notin receipts BY <1>1 DEF UnboundReason
<1>2. CASE h.rev \in receipts
  <2>1. UnboundReason(h) \in {"missing-occupancy", "not-current-occupancy"}
    BY <1>2 DEF UnboundReason
  <2> QED BY <1>2, <2>1
<1> QED BY <1>1, <1>2

LEMMA RefreshBuildStep ==
  ASSUME IInv, NEW u \in Users, RefreshBuild(u)
  PROVE  IInv'
<1> DEFINE o == op[u]
           H == {Classified(h) : h \in o.found}
           B == [made |-> TRUE, topo |-> o.topo, homes |-> H, sel |-> catalog.sel]
           x == [o EXCEPT !.pc = "write", !.built = B]
<1>1. o = op[u] /\ o \in Doings /\ o.pc \in StepsOf(o.kind) /\ Scans(o) BY Here
<1>2. o.pc = "build" BY DEF RefreshBuild
<1>3. op \in [Users -> Doings] BY DEF IInv, Typed
<1>4. Leave(u) \/ op' = [op EXCEPT ![u] = x]
  BY <1>1, <1>3 DEF RefreshBuild, KeptSelections, Doings
<1> HIDE DEF o
<1>5. o.kind = "refresh" /\ o.topo \in Topologies
      /\ \A h \in o.found : /\ h.node = o.topo[h.rank] /\ h.class = "partial"
                            /\ \A g \in o.found : g.rank = h.rank => g = h
  BY <1>1, <1>2, StepKind DEF Scans
<1>6. o.found \subseteq Homes BY <1>1 DEF Doings
<1>7. \A h \in o.found :
         /\ Classified(h) \in Homes /\ Classified(h).rank = h.rank
         /\ Classified(h).node = h.node /\ Classified(h).rev = h.rev
         /\ Classified(h).dir = h.dir /\ Classified(h).complete = h.complete
         /\ Classified(h).class = "occupancy" <=> h.complete /\ Occupies(h)
         /\ h.complete /\ ~Occupies(h) => Classified(h).reason = UnboundReason(h)
  BY <1>5, <1>6, ClassifiedIs
<1>8. H \subseteq Homes /\ \A k \in H : \E h \in o.found : k = Classified(h) BY <1>7
<1>9. catalog.sel \in [Revs -> Nodes \cup {None}] BY DEF IInv, Typed, Catalogs
<1> HIDE DEF H
<1>10. B \in Catalogs /\ B.homes = H /\ B.topo = o.topo /\ B.sel = catalog.sel
  BY <1>5, <1>8, <1>9 DEF Catalogs
<1> HIDE DEF B
<1>11. x \in Doings /\ x.kind = o.kind /\ x.pc = "write" /\ x.built = B /\ x.found = o.found
       /\ x.topo = o.topo
  BY <1>1, <1>10, NamesAre DEF Doings
<1> HIDE DEF x
<1>12. Tells(B, attached, receipts)
  <2> SUFFICES ASSUME NEW k \in H
               PROVE  /\ k.node = o.topo[k.rank] /\ \A g \in H : g.rank = k.rank => g = k
                      /\ k.class = "occupancy" => k.complete
                      /\ k.complete => (k.class = "occupancy" <=> Occupies(k))
                      /\ k.complete /\ k.class # "occupancy" /\ k.rev \in Revs =>
                           (k.reason \in {"missing-receipt", "non-exact-revision"}
                              <=> k.rev \notin receipts)
    BY <1>10 DEF Tells, Occupies
  <2>1. PICK h \in o.found : k = Classified(h) BY <1>8
  <2>2. /\ k.rank = h.rank /\ k.node = h.node /\ k.rev = h.rev /\ k.dir = h.dir
        /\ k.complete = h.complete
        /\ k.class = "occupancy" <=> h.complete /\ Occupies(h)
        /\ h.complete /\ ~Occupies(h) => k.reason = UnboundReason(h)
    BY <1>7, <2>1
  <2>3. Occupies(k) <=> Occupies(h) BY <2>2 DEF Occupies
  <2>4. \A g \in H : g.rank = k.rank => g = k BY <1>5, <1>7, <1>8, <2>1
  <2>5. h \in Homes /\ h.complete \in BOOLEAN BY <1>6 DEF Homes
  <2>6. k.node = o.topo[k.rank] BY <1>5, <2>2
  <2>7. k.class = "occupancy" => k.complete BY <2>2, <2>5
  <2>8. k.complete => (k.class = "occupancy" <=> Occupies(k)) BY <2>2, <2>3, <2>5
  <2>9. k.complete /\ k.class # "occupancy" /\ k.rev \in Revs =>
          (k.reason \in {"missing-receipt", "non-exact-revision"} <=> k.rev \notin receipts)
    BY <2>2, <2>5, UnboundIs
  <2> QED BY <2>4, <2>6, <2>7, <2>8, <2>9
<1>13. Going(x, disk, attached, receipts, catalog)
  <2>1. Scans(x) BY <1>5, <1>11 DEF Scans
  <2>2. x.kind \notin {"resolve", "prepare", "adopt"} /\ x.kind # None
    BY <1>5, <1>11, NamesAre
  <2>3. Writes(x, catalog, attached, receipts) BY <1>5, <1>10, <1>11, <1>12 DEF Writes
  <2>4. x.pc \in StepsOf(x.kind) BY <1>5, <1>11, StepsAre
  <2> QED BY <2>1, <2>2, <2>3, <2>4 DEF Going, Chooses, Plans
<1> QED BY <1>1, <1>4, <1>11, <1>13, GoesOn, Leaves DEF RefreshBuild

-----------------------------------------------------------------------------
(* The catalog is written, by a command that is alone.                     *)

LEMMA AloneIs ==
  ASSUME IInv, NEW u \in Users, op[u].kind \in Exclusive
  PROVE  \A w \in Users \ {u} : op[w] = AtRest
<1> TAKE w \in Users \ {u}
<1>1. op[u].kind # None BY NamesAre DEF Exclusive
<1>2. op[w].kind = None BY <1>1, CompatibleIs DEF IInv, Locked
<1> QED BY <1>2, Here

LEMMA TellsSame ==
  ASSUME NEW c, NEW k, NEW a, NEW rc, k.homes = c.homes, k.topo = c.topo, Tells(c, a, rc)
  PROVE  Tells(k, a, rc)
BY DEF Tells

\* A step after which at most one command is not at rest.
LEMMA Single ==
  ASSUME Typed', fresh' => Tells(catalog', attached', receipts'), NEW u,
         \A w \in Users \ {u} : op'[w] = AtRest,
         u \in Users => Going(op'[u], disk', attached', receipts', catalog')
  PROVE  IInv'
<1>1. Locked'
  <2>1. \A w \in Users \ {u} : op'[w].kind = None BY AtRestIs
  <2> QED BY <2>1 DEF Locked
<1>2. ASSUME NEW w \in Users PROVE Going(op'[w], disk', attached', receipts', catalog')
  BY AtRestIs
<1> QED BY <1>1, <1>2 DEF IInv

LEMMA WriteCatalogStep ==
  ASSUME IInv, NEW u \in Users, WriteCatalog(u)
  PROVE  IInv'
<1> DEFINE o == op[u]
<1>1. o = op[u] /\ o \in Doings /\ o.pc \in StepsOf(o.kind)
      /\ Writes(o, catalog, attached, receipts)
  BY Here
<1>2. /\ o.pc = "write" /\ catalog' = o.built /\ fresh' = (fresh \/ o.kind = "refresh")
      /\ op' = [op EXCEPT ![u] = AtRest]
      /\ UNCHANGED <<disk, attached, receipts, topo, changes>>
  BY DEF WriteCatalog, Leave
<1> HIDE DEF o
<1>3. o.kind \in Exclusive BY <1>1, <1>2, StepKind DEF Exclusive
<1>4. \A w \in Users \ {u} : op[w] = AtRest BY <1>1, <1>3, AloneIs
<1>5. op' \in [Users -> Doings] /\ \A w \in Users : op'[w] = AtRest
  BY <1>2, <1>4, AtRestIs DEF IInv, Typed
<1>6. catalog' \in Catalogs BY <1>1, <1>2 DEF Writes
<1>7. fresh' \in BOOLEAN BY <1>2
<1>8. Typed' BY <1>2, <1>5, <1>6, <1>7 DEF IInv, Typed, Dated
<1>9. ASSUME fresh' PROVE Tells(catalog', attached', receipts')
  <2>1. CASE o.kind = "refresh"
    <3>1. Tells(o.built, attached, receipts) BY <1>1, <1>2, <2>1 DEF Writes
    <3>2. catalog' = o.built /\ attached' = attached /\ receipts' = receipts BY <1>2
    <3> QED BY <3>1, <3>2
  <2>2. CASE o.kind # "refresh"
    <3>1. Tells(catalog, attached, receipts) BY <1>2, <1>9, <2>2 DEF IInv
    <3>2. o.built.homes = catalog.homes /\ o.built.topo = catalog.topo
      BY <1>1, <1>2, <2>2 DEF Writes
    <3>3. Tells(o.built, attached, receipts) BY <3>1, <3>2, TellsSame
    <3>4. catalog' = o.built /\ attached' = attached /\ receipts' = receipts BY <1>2
    <3> QED BY <3>3, <3>4
  <2> QED BY <2>1, <2>2
<1>10. Going(op'[u], disk', attached', receipts', catalog') BY <1>5, AtRestIs
<1> QED BY <1>5, <1>8, <1>9, <1>10, Single

-----------------------------------------------------------------------------
(* The choice of a home, and what resolves.                                *)

\* A command that is to write the catalog with another selection for v.
Setting(k, v, B) == [AtRest EXCEPT !.kind = k, !.pc = "write", !.rev = v, !.built = B]

LEMMA SettingIs ==
  ASSUME IInv, NEW u \in Users, NEW k \in {"set", "clear"}, NEW v \in Revs,
         NEW n \in Nodes \cup {None}, NEW B, B = [catalog EXCEPT !.sel[v] = n],
         Enter(u, k), op' = [op EXCEPT ![u] = Setting(k, v, B)],
         UNCHANGED <<disk, attached, receipts, topo, catalog, changes, fresh>>
  PROVE  IInv'
<1> DEFINE x == Setting(k, v, B)
           s == [catalog.sel EXCEPT ![v] = n]
<1>1. catalog \in Catalogs BY DEF IInv, Typed
<1>2. catalog.sel \in [Revs -> Nodes \cup {None}] BY <1>1 DEF Catalogs
<1>3. s \in [Revs -> Nodes \cup {None}] /\ \A w \in Revs \ {v} : s[w] = catalog.sel[w]
  BY <1>2
<1>4. B = [catalog EXCEPT !.sel = s] BY <1>1
<1> HIDE DEF s
<1>5. B \in Catalogs /\ B.homes = catalog.homes /\ B.topo = catalog.topo /\ B.sel = s
  BY <1>1, <1>3, <1>4 DEF Catalogs
<1>6. k \in Kinds /\ "write" \in Steps /\ k # None BY NamesAre
<1>7. x \in Doings /\ x.kind = k /\ x.pc = "write" /\ x.rev = v /\ x.built = B
  BY <1>5, <1>6, AtRestIs, NamesAre DEF Setting, Doings
<1> HIDE DEF x
<1>8. x.pc \in StepsOf(x.kind) BY <1>7, StepsAre
<1>9. Going(x, disk, attached, receipts, catalog)
  BY <1>3, <1>5, <1>6, <1>7, <1>8 DEF Going, Scans, Writes, Chooses, Plans
<1>10. op' = [op EXCEPT ![u] = x] /\ Enter(u, x.kind) BY <1>7 DEF x
<1> QED BY <1>7, <1>9, <1>10, Enters

LEMMA SetSteps ==
  ASSUME IInv, NEW u \in Users, NEW v \in Revs,
         PrimaryClear(u, v) \/ \E n \in Nodes : PrimarySet(u, v, n)
  PROVE  IInv'
<1>1. CASE PrimaryClear(u, v)
  <2> DEFINE B == [catalog EXCEPT !.sel[v] = None]
             x == Setting("clear", v, B)
  <2>1. op' = [op EXCEPT ![u] = x] BY <1>1 DEF PrimaryClear, Setting
  <2>2. B = [catalog EXCEPT !.sel[v] = None] OBVIOUS
  <2> HIDE DEF B
  <2>3. Enter(u, "clear") /\ UNCHANGED <<disk, attached, receipts, topo, catalog, changes, fresh>>
    BY <1>1 DEF PrimaryClear
  <2> QED BY <2>1, <2>2, <2>3, SettingIs
<1>2. ASSUME NEW n \in Nodes, PrimarySet(u, v, n) PROVE IInv'
  <2> DEFINE B == [catalog EXCEPT !.sel[v] = n]
             x == Setting("set", v, B)
  <2>1. op' = [op EXCEPT ![u] = x] BY <1>2 DEF PrimarySet, Setting
  <2>2. B = [catalog EXCEPT !.sel[v] = n] OBVIOUS
  <2> HIDE DEF B
  <2>3. Enter(u, "set") /\ UNCHANGED <<disk, attached, receipts, topo, catalog, changes, fresh>>
    BY <1>2 DEF PrimarySet
  <2> QED BY <2>1, <2>2, <2>3, SettingIs
<1> QED BY <1>1, <1>2

\* What a query resolves to is an occupied home, the selected one if there is a
\* selection, of the revision that was meant.
LEMMA ResolvedIs ==
  ASSUME NEW c \in Catalogs, NEW q, NEW h \in Resolved(c, q)
  PROVE  /\ h \in Homes /\ h.rev \in Revs /\ h.node \in Nodes /\ h.rank \in Ranks
         /\ c.sel[h.rev] # None => h.node = c.sel[h.rev]
         /\ q \in Revs => h.rev = q
<1> DEFINE M == Meant(c, q)
           v == CHOOSE w \in M : TRUE
<1>1. Cardinality(M) = 1 /\ h \in Primary(c, v) BY DEF Resolved
<1>2. M # {} BY <1>1, FS_EmptySet
<1>3. v \in M BY <1>2
<1>4. M \subseteq Revs /\ (q \in Revs => M = {q}) BY DEF Meant, Targeted
<1> HIDE DEF M, v
<1>5. h \in OccupiedHomes(c, v) /\ (c.sel[v] # None => h.node = c.sel[v])
  BY <1>1 DEF Primary
<1>6. h \in c.homes /\ h.rev = v BY <1>5 DEF OccupiedHomes
<1>7. h \in Homes BY <1>6 DEF Catalogs
<1>8. h.node \in Nodes /\ h.rank \in Ranks BY <1>7 DEF Homes
<1> QED BY <1>3, <1>4, <1>5, <1>6, <1>7, <1>8

LEMMA ResolveStep ==
  ASSUME IInv, NEW u \in Users, NEW q, Resolve(u, q)
  PROVE  IInv'
<1>1. PICK h \in Resolved(catalog, q) :
        op' = [op EXCEPT ![u] = [AtRest EXCEPT !.kind = "resolve", !.pc = "answered",
                                  !.rev = h.rev, !.rank = h.rank, !.node = h.node]]
  BY DEF Resolve
<1> DEFINE x == [AtRest EXCEPT !.kind = "resolve", !.pc = "answered",
                   !.rev = h.rev, !.rank = h.rank, !.node = h.node]
<1>2. op' = [op EXCEPT ![u] = x] BY <1>1
<1>3. /\ h \in Homes /\ h.rev \in Revs /\ h.node \in Nodes /\ h.rank \in Ranks
      /\ catalog.sel[h.rev] # None => h.node = catalog.sel[h.rev]
  BY ResolvedIs DEF IInv, Typed
<1>4. x \in Doings /\ x.kind = "resolve" /\ x.pc = "answered" /\ x.rev = h.rev
      /\ x.node = h.node
  BY <1>3, AtRestIs, NamesAre DEF Doings
<1> HIDE DEF x
<1>5. x.pc \in StepsOf(x.kind) /\ x.kind # None BY <1>4, StepsAre, NamesAre
<1>6. Going(x, disk, attached, receipts, catalog)
  BY <1>3, <1>4, <1>5 DEF Going, Scans, Writes, Chooses, Plans
<1>7. Enter(u, x.kind) BY <1>4 DEF Resolve
<1> QED BY <1>2, <1>4, <1>6, <1>7, Enters DEF Resolve

-----------------------------------------------------------------------------
(* A preparation.                                                          *)

LEMMA HomeIs ==
  ASSUME NEW v, NEW n
  PROVE  IsHome(v, n) <=> HomeIn(disk, attached, v, n)
BY DEF IsHome, IsHomeOn, HomeIn

LEMMA PrepareResolveStep ==
  ASSUME IInv, NEW u \in Users, NEW v \in Revs, NEW serving \in Asked,
         PrepareResolve(u, v, serving)
  PROVE  IInv'
<1>1. PICK h \in Resolved(catalog, v) :
        /\ topo[h.rank] = h.node
        /\ op' = [op EXCEPT ![u] = [AtRest EXCEPT !.kind = "prepare", !.pc = "inspect",
                    !.rev = v, !.rank = h.rank, !.node = h.node, !.serving = serving,
                    !.topo = topo, !.was = IsHome(v, h.node)]]
  BY DEF PrepareResolve
<1> DEFINE b == IsHome(v, h.node)
           x == [AtRest EXCEPT !.kind = "prepare", !.pc = "inspect",
                    !.rev = v, !.rank = h.rank, !.node = h.node, !.serving = serving,
                    !.topo = topo, !.was = b]
<1>2. op' = [op EXCEPT ![u] = x] BY <1>1
<1>3. /\ h \in Homes /\ h.rev = v /\ h.node \in Nodes /\ h.rank \in Ranks
      /\ catalog.sel[h.rev] # None => h.node = catalog.sel[h.rev]
  BY ResolvedIs DEF IInv, Typed
<1>4. b \in BOOLEAN /\ (b <=> HomeIn(disk, attached, v, h.node))
  BY HomeIs DEF IsHome, IsHomeOn
<1>5. serving \in SUBSET Ranks BY DEF Asked, Selected
<1>6. topo \in MaybeTopology BY NamesAre DEF IInv, Typed
<1> HIDE DEF b
<1>7. x \in Doings /\ x.kind = "prepare" /\ x.pc = "inspect" /\ x.rev = v
      /\ x.node = h.node /\ x.was = b
  BY <1>3, <1>4, <1>5, <1>6, AtRestIs, NamesAre DEF Doings
<1> HIDE DEF x
<1>8. x.pc \in StepsOf(x.kind) /\ x.kind # None BY <1>7, StepsAre, NamesAre
<1>9. Going(x, disk, attached, receipts, catalog)
  BY <1>3, <1>4, <1>7, <1>8 DEF Going, Scans, Writes, Chooses, Plans
<1>10. Enter(u, x.kind) BY <1>7 DEF PrepareResolve
<1> QED BY <1>2, <1>7, <1>9, <1>10, Enters DEF PrepareResolve

LEMMA InspectStep ==
  ASSUME IInv, NEW u \in Users, PrepareInspect(u)
  PROVE  IInv'
<1> DEFINE o == op[u]
           g == Sealed(disk[o.node], o.rev)
           x == [o EXCEPT !.pc = "receipt", !.good = g]
<1>1. o = op[u] /\ o \in Doings /\ o.pc \in StepsOf(o.kind) /\ Chooses(o, catalog)
      /\ Plans(o, disk, attached)
  BY Here
<1>2. o.pc = "inspect" BY DEF PrepareInspect
<1>3. op' = [op EXCEPT ![u] = x] BY <1>1 DEF PrepareInspect, IInv, Typed, Doings
<1> HIDE DEF o
<1>4. o.kind = "prepare" BY <1>1, <1>2, StepKind
<1>5. o.node \in Nodes BY <1>1, <1>4 DEF Chooses
<1>6. g \in BOOLEAN
      /\ (g => /\ disk[o.node].rev = o.rev /\ disk[o.node].complete /\ disk[o.node].good)
  BY DEF Sealed, SameFiles
<1> HIDE DEF g
<1>7. x \in Doings /\ x.kind = o.kind /\ x.pc = "receipt" /\ x.good = g /\ x.was = o.was
      /\ x.rev = o.rev /\ x.node = o.node
  BY <1>1, <1>6, NamesAre DEF Doings
<1> HIDE DEF x
<1>8. Plans(x, disk, attached) BY <1>1, <1>4, <1>6, <1>7 DEF Plans, HomeIn
<1>9. Chooses(x, catalog) BY <1>1, <1>7 DEF Chooses
<1>10. x.pc \in StepsOf(x.kind) /\ x.kind # None BY <1>4, <1>7, StepsAre, NamesAre
<1>11. Going(x, disk, attached, receipts, catalog)
  BY <1>4, <1>7, <1>8, <1>9, <1>10 DEF Going, Scans, Writes
<1> QED BY <1>1, <1>3, <1>7, <1>11, GoesOn DEF PrepareInspect

\* A preparation goes on to its next step.
LEMMA PrepareGoesOn ==
  ASSUME IInv, NEW u \in Users, NEW o, o = op[u], o.kind = "prepare",
         NEW s \in {"plan", "planned"}, op' = [op EXCEPT ![u].pc = s],
         UNCHANGED <<disk, attached, receipts, topo, catalog, changes, fresh>>,
         o.good => o.was, s = "planned" => o.good
  PROVE  IInv'
<1> DEFINE x == [o EXCEPT !.pc = s]
<1>1. o \in Doings /\ Chooses(o, catalog) /\ Plans(o, disk, attached) BY Here
<1>2. op' = [op EXCEPT ![u] = x] BY <1>1 DEF IInv, Typed, Doings
<1>3. s \in Steps BY NamesAre
<1>4. x \in Doings /\ x.kind = o.kind /\ x.pc = s /\ x.good = o.good /\ x.was = o.was
      /\ x.rev = o.rev /\ x.node = o.node
  BY <1>1, <1>3 DEF Doings
<1> HIDE DEF x
<1>5. Plans(x, disk, attached) BY <1>1, <1>4 DEF Plans
<1>6. Chooses(x, catalog) BY <1>1, <1>4 DEF Chooses
<1>7. x.pc \in StepsOf(x.kind) /\ x.kind # None BY <1>4, StepsAre, NamesAre
<1>8. Going(x, disk, attached, receipts, catalog)
  BY <1>4, <1>5, <1>6, <1>7 DEF Going, Scans, Writes
<1> QED BY <1>2, <1>4, <1>8, GoesOn

LEMMA PlanSteps ==
  ASSUME IInv, NEW u \in Users, PrepareReceipt(u) \/ PreparePlan(u)
  PROVE  IInv'
<1> DEFINE o == op[u]
<1>1. o = op[u] /\ o \in Doings /\ o.pc \in StepsOf(o.kind) /\ Plans(o, disk, attached)
  BY Here
<1>2. CASE PrepareReceipt(u)
  <2>1. o.pc = "receipt" BY <1>2 DEF PrepareReceipt
  <2>2. o.kind = "prepare" /\ o.good \in BOOLEAN /\ o.was \in BOOLEAN
    BY <1>1, <2>1, StepKind DEF Doings
  <2>3. CASE Attached(u)
    <3>1. o.good => o.was BY <1>1, <2>1, <2>2, <2>3 DEF Attached, Plans
    <3> QED BY <1>2, <2>2, <2>3, <3>1, PrepareGoesOn DEF PrepareReceipt
  <2>4. CASE ~Attached(u) BY <1>2, <2>4, Leaves DEF PrepareReceipt
  <2> QED BY <2>3, <2>4
<1>3. CASE PreparePlan(u)
  <2>1. o.pc = "plan" BY <1>3 DEF PreparePlan
  <2>2. o.kind = "prepare" BY <1>1, <2>1, StepKind
  <2>3. CASE PlanAccepts(u)
    <3>1. o.good /\ o.was BY <1>1, <2>1, <2>2, <2>3 DEF PlanAccepts, Plans
    <3> QED BY <1>3, <2>2, <2>3, <3>1, PrepareGoesOn DEF PreparePlan
  <2>4. CASE ~PlanAccepts(u) BY <1>3, <2>4, Leaves DEF PreparePlan
  <2> QED BY <2>3, <2>4
<1> QED BY <1>2, <1>3

LEMMA AdoptPlanStep ==
  ASSUME IInv, NEW u \in Users, NEW v \in ColdRevs, AdoptPlan(u, v)
  PROVE  IInv'
<1> DEFINE x == [AtRest EXCEPT !.kind = "adopt", !.pc = "stage", !.rev = v]
<1>1. op' = [op EXCEPT ![u] = x] BY DEF AdoptPlan
<1>2. v \in Revs \cup {Unknown} BY DEF ColdRevs
<1>3. x \in Doings /\ x.kind = "adopt" /\ x.pc = "stage" /\ x.rev = v
  BY <1>2, AtRestIs, NamesAre DEF Doings
<1> HIDE DEF x
<1>4. x.pc \in StepsOf(x.kind) /\ x.kind # None BY <1>3, StepsAre, NamesAre
<1>5. Going(x, disk, attached, receipts, catalog)
  BY <1>2, <1>3, <1>4 DEF Going, Scans, Writes, Chooses, Plans
<1>6. Enter(u, x.kind) BY <1>3 DEF AdoptPlan
<1> QED BY <1>1, <1>3, <1>5, <1>6, Enters DEF AdoptPlan

-----------------------------------------------------------------------------
(* Trees, homes and the topology.                                          *)

\* Directories that change while the attachments stay keep their numbers right.
LEMMA TreesType ==
  ASSUME IInv, NEW n \in Nodes, NEW t, t = NoTree \/ (t \in Trees /\ t.dir \in 1 .. changes + 1),
         Becoming(n, t)
  PROVE  /\ changes' = changes + 1 /\ changes' \in Dirs
         /\ disk' \in [Nodes -> Trees \cup {NoTree}] /\ disk'[n] = t
         /\ \A m \in Nodes \ {n} : disk'[m] = disk[m]
         /\ \A m \in Nodes : disk'[m] = NoTree \/ (disk'[m] \in Trees /\ disk'[m].dir \in 1 .. changes')
         /\ \A k \in 1 .. changes : k \in 1 .. changes' /\ k < changes'
<1>1. changes \in Nat /\ changes < MaxChanges /\ changes' = changes + 1
      /\ disk' = [disk EXCEPT ![n] = t]
  BY DirNat DEF Becoming, IInv, Typed
<1>2. changes' \in Dirs BY <1>1, CatalogAssumption DEF Dirs
<1>3. disk' \in [Nodes -> Trees \cup {NoTree}] /\ disk'[n] = t
      /\ \A m \in Nodes \ {n} : disk'[m] = disk[m]
  BY <1>1 DEF IInv, Typed
<1>4. \A k \in 1 .. changes : k \in 1 .. changes' /\ k < changes' BY <1>1
<1>5. ASSUME NEW m \in Nodes
      PROVE  disk'[m] = NoTree \/ (disk'[m] \in Trees /\ disk'[m].dir \in 1 .. changes')
  <2>1. CASE m = n BY <1>1, <1>3, <2>1
  <2>2. CASE m # n BY <1>3, <1>4, <2>2 DEF IInv, Typed, Dated
  <2> QED BY <2>1, <2>2
<1> QED BY <1>1, <1>2, <1>3, <1>4, <1>5

LEMMA NewTreeIs ==
  ASSUME IInv, NEW v \in Revs \cup {Unknown}, NEW whole \in BOOLEAN, NEW good \in BOOLEAN,
         changes < MaxChanges
  PROVE  /\ NewTree(v, whole, good) \in Trees /\ NewTree(v, whole, good).dir = changes + 1
         /\ NewTree(v, whole, good).dir \in 1 .. changes + 1
         /\ changes + 1 \in Dirs /\ changes + 1 \in 1 .. changes + 1
<1> DEFINE k == changes + 1
<1>1. changes \in Nat BY DirNat DEF IInv, Typed
<1>2. k = changes + 1 /\ k \in Dirs /\ k \in 1 .. changes + 1
  BY <1>1, CatalogAssumption DEF Dirs
<1>3. NewTree(v, whole, good) = [rev |-> v, dir |-> k, complete |-> whole, good |-> good]
  BY DEF NewTree
<1> HIDE DEF k
<1> QED BY <1>2, <1>3 DEF Trees

\* A step of a home command: attachments and trees change, nothing else runs, and
\* the catalog is no longer what a refresh found.
LEMMA HomeCommand ==
  ASSUME IInv, AllAtRest, fresh' = FALSE, topo' = topo, catalog' = catalog,
         changes' \in Dirs, disk' \in [Nodes -> Trees \cup {NoTree}],
         attached' \in [Revs -> [node : Nodes, dir : Dirs] \cup {NoHome}],
         receipts' \subseteq Revs, Dated',
         NEW u, op' \in [Users -> Doings], \A w \in Users \ {u} : op'[w] = op[w],
         u \in Users => Going(op'[u], disk', attached', receipts', catalog')
  PROVE  IInv'
<1>1. Typed' BY DEF IInv, Typed
<1>2. \A w \in Users \ {u} : op'[w] = AtRest BY DEF AllAtRest
<1> QED BY <1>1, <1>2, Single

LEMMA HomeAddStep ==
  ASSUME IInv, NEW n \in Nodes, NEW v \in Revs, HomeAdd(n, v)
  PROVE  IInv'
<1> DEFINE t == NewTree(v, TRUE, TRUE)
           k == changes + 1
           e == [node |-> n, dir |-> k]
<1>1. /\ AllAtRest /\ Becoming(n, t) /\ attached' = [attached EXCEPT ![v] = e]
      /\ receipts' = receipts \cup {v} /\ fresh' = FALSE
      /\ topo' = topo /\ catalog' = catalog /\ op' = op /\ changes < MaxChanges
  BY DEF HomeAdd, Becoming
<1>2. t \in Trees /\ t.dir \in 1 .. changes + 1 /\ k \in Dirs /\ k \in 1 .. changes + 1
  BY <1>1, NewTreeIs
<1> HIDE DEF t
<1>3. /\ changes' = changes + 1 /\ changes' \in Dirs
      /\ disk' \in [Nodes -> Trees \cup {NoTree}]
      /\ \A m \in Nodes : disk'[m] = NoTree \/ (disk'[m] \in Trees /\ disk'[m].dir \in 1 .. changes')
      /\ \A j \in 1 .. changes : j \in 1 .. changes' /\ j < changes'
  BY <1>1, <1>2, TreesType
<1>4. k \in 1 .. changes' /\ k \in Dirs BY <1>2, <1>3
<1> HIDE DEF k
<1>5. e \in [node : Nodes, dir : Dirs] /\ e.node = n /\ e.dir = k BY <1>4
<1> HIDE DEF e
<1>6. /\ attached' \in [Revs -> [node : Nodes, dir : Dirs] \cup {NoHome}]
      /\ attached'[v] = e /\ \A w \in Revs \ {v} : attached'[w] = attached[w]
  BY <1>1, <1>5 DEF IInv, Typed
<1>7. receipts' \subseteq Revs BY <1>1 DEF IInv, Typed
<1>8. ASSUME NEW w \in Revs
      PROVE  attached'[w] = NoHome \/ /\ attached'[w].node \in Nodes /\ w \in receipts'
                                      /\ attached'[w].dir \in 1 .. changes'
  <2>1. CASE w = v BY <1>1, <1>4, <1>5, <1>6, <2>1
  <2>2. CASE w # v
    <3>1. attached[w] = NoHome \/ /\ attached[w].node \in Nodes /\ w \in receipts
                                  /\ attached[w].dir \in 1 .. changes
      BY DEF IInv, Typed, Dated
    <3> QED BY <1>1, <1>3, <1>6, <2>2, <3>1
  <2> QED BY <2>1, <2>2
<1>9. Dated' BY <1>3, <1>8 DEF Dated
<1> DEFINE u == 0
<1>10. /\ op' \in [Users -> Doings] /\ \A w \in Users \ {u} : op'[w] = op[w]
       /\ u \in Users => op'[u] = AtRest
  BY <1>1 DEF IInv, Typed, AllAtRest
<1> HIDE DEF u
<1>11. u \in Users => Going(op'[u], disk', attached', receipts', catalog')
  BY <1>10, AtRestIs
<1> QED BY <1>1, <1>3, <1>6, <1>7, <1>9, <1>10, <1>11, HomeCommand

LEMMA HomeRelocateStep ==
  ASSUME IInv, NEW n \in Nodes, NEW v \in Revs, HomeRelocate(n, v)
  PROVE  IInv'
<1>1. /\ AllAtRest /\ fresh' = FALSE /\ topo' = topo /\ catalog' = catalog /\ op' = op
      /\ receipts' = receipts /\ v \in receipts
  BY DEF HomeRelocate
<1>2. PICK t, k :
        /\ Becoming(n, t) /\ t \in Trees /\ t.dir \in 1 .. changes + 1
        /\ k \in Dirs /\ k \in 1 .. changes + 1
        /\ attached' = [attached EXCEPT ![v] = [node |-> n, dir |-> k]]
  <2>1. CASE /\ disk[n].rev = v /\ Becoming(n, disk[n])
             /\ attached' = [attached EXCEPT ![v] = [node |-> n, dir |-> disk[n].dir]]
    <3>1. disk[n] \in Trees /\ disk[n].dir \in 1 .. changes
      BY <2>1, NoneIs DEF IInv, Typed, Dated
    <3>2. changes \in Nat BY DirNat DEF IInv, Typed
    <3>3. disk[n].dir \in 1 .. changes + 1 BY <3>1, <3>2
    <3>4. disk[n].dir \in Dirs BY <3>1 DEF Trees
    <3> QED BY <2>1, <3>1, <3>3, <3>4
  <2>2. CASE /\ Becoming(n, NewTree(v, TRUE, TRUE))
             /\ attached' = [attached EXCEPT ![v] = [node |-> n, dir |-> changes + 1]]
    <3>1. changes < MaxChanges BY <2>2 DEF Becoming
    <3>2. /\ NewTree(v, TRUE, TRUE) \in Trees
          /\ NewTree(v, TRUE, TRUE).dir \in 1 .. changes + 1
          /\ changes + 1 \in Dirs /\ changes + 1 \in 1 .. changes + 1
      BY <3>1, NewTreeIs
    <3> QED BY <2>2, <3>2
  <2> QED BY <2>1, <2>2 DEF HomeRelocate
<1> DEFINE e == [node |-> n, dir |-> k]
<1>3. /\ changes' = changes + 1 /\ changes' \in Dirs
      /\ disk' \in [Nodes -> Trees \cup {NoTree}]
      /\ \A m \in Nodes : disk'[m] = NoTree \/ (disk'[m] \in Trees /\ disk'[m].dir \in 1 .. changes')
      /\ \A j \in 1 .. changes : j \in 1 .. changes' /\ j < changes'
  BY <1>2, TreesType
<1>4. k \in 1 .. changes' BY <1>2, <1>3
<1>5. attached' = [attached EXCEPT ![v] = e] BY <1>2
<1>6. e \in [node : Nodes, dir : Dirs] /\ e.node = n /\ e.dir = k BY <1>2
<1> HIDE DEF e
<1>7. /\ attached' \in [Revs -> [node : Nodes, dir : Dirs] \cup {NoHome}]
      /\ attached'[v] = e /\ \A w \in Revs \ {v} : attached'[w] = attached[w]
  BY <1>5, <1>6 DEF IInv, Typed
<1>8. ASSUME NEW w \in Revs
      PROVE  attached'[w] = NoHome \/ /\ attached'[w].node \in Nodes /\ w \in receipts'
                                      /\ attached'[w].dir \in 1 .. changes'
  <2>1. CASE w = v BY <1>1, <1>4, <1>6, <1>7, <2>1
  <2>2. CASE w # v
    <3>1. attached[w] = NoHome \/ /\ attached[w].node \in Nodes /\ w \in receipts
                                  /\ attached[w].dir \in 1 .. changes
      BY DEF IInv, Typed, Dated
    <3> QED BY <1>1, <1>3, <1>7, <2>2, <3>1
  <2> QED BY <2>1, <2>2
<1>9. Dated' BY <1>3, <1>8 DEF Dated
<1>10. receipts' \subseteq Revs BY <1>1 DEF IInv, Typed
<1> DEFINE u == 0
<1>11. /\ op' \in [Users -> Doings] /\ \A w \in Users \ {u} : op'[w] = op[w]
       /\ u \in Users => op'[u] = AtRest
  BY <1>1 DEF IInv, Typed, AllAtRest
<1> HIDE DEF u
<1>12. u \in Users => Going(op'[u], disk', attached', receipts', catalog')
  BY <1>11, AtRestIs
<1> QED BY <1>1, <1>3, <1>7, <1>9, <1>10, <1>11, <1>12, HomeCommand

LEMMA HomeRemoveStep ==
  ASSUME IInv, NEW u \in Users, NEW n \in Nodes, HomeRemove(u, n)
  PROVE  IInv'
<1> DEFINE v == disk[n].rev
           e == IF attached[v].node = n THEN NoHome ELSE attached[v]
           x == RefreshOf(u, Ranks)
<1>1. /\ AllAtRest /\ fresh' = FALSE /\ topo' = topo /\ catalog' = catalog
      /\ receipts' = receipts /\ v \in Revs /\ Becoming(n, NoTree)
      /\ attached' = [attached EXCEPT ![v] = e]
      /\ op' = [op EXCEPT ![u] = x]
  BY DEF HomeRemove, RefreshOf
<1>2. e \in {NoHome, attached[v]} OBVIOUS
<1>3. Ranks \in SUBSET Ranks /\ Ranks # {} BY DEF Ranks
<1>4. x = RefreshOf(u, Ranks) OBVIOUS
<1> HIDE DEF e, x, v
<1>5. x \in Doings /\ \A d, a, rc, c : Going(x, d, a, rc, c)
  BY <1>3, <1>4, RefreshingIs
<1>6. /\ changes' = changes + 1 /\ changes' \in Dirs
      /\ disk' \in [Nodes -> Trees \cup {NoTree}]
      /\ \A m \in Nodes : disk'[m] = NoTree \/ (disk'[m] \in Trees /\ disk'[m].dir \in 1 .. changes')
      /\ \A j \in 1 .. changes : j \in 1 .. changes' /\ j < changes'
  BY <1>1, TreesType
<1>7. /\ attached' \in [Revs -> [node : Nodes, dir : Dirs] \cup {NoHome}]
      /\ \A w \in Revs : attached'[w] \in {NoHome, attached[w]}
  BY <1>1, <1>2 DEF IInv, Typed
<1>8. ASSUME NEW w \in Revs
      PROVE  attached'[w] = NoHome \/ /\ attached'[w].node \in Nodes /\ w \in receipts'
                                      /\ attached'[w].dir \in 1 .. changes'
  <2>1. attached[w] = NoHome \/ /\ attached[w].node \in Nodes /\ w \in receipts
                                /\ attached[w].dir \in 1 .. changes
    BY DEF IInv, Typed, Dated
  <2> QED BY <1>1, <1>6, <1>7, <2>1
<1>9. Dated' BY <1>6, <1>8 DEF Dated
<1>10. receipts' \subseteq Revs BY <1>1 DEF IInv, Typed
<1>11. /\ op' \in [Users -> Doings] /\ \A w \in Users \ {u} : op'[w] = op[w]
       /\ op'[u] = x
  BY <1>1, <1>5 DEF IInv, Typed
<1>12. Going(op'[u], disk', attached', receipts', catalog') BY <1>5, <1>11
<1> QED BY <1>1, <1>6, <1>7, <1>9, <1>10, <1>11, <1>12, HomeCommand

LEMMA AdoptPublishStep ==
  ASSUME IInv, NEW u \in Users, AdoptPublish(u)
  PROVE  IInv'
<1>1. PICK good \in BOOLEAN : Becoming(Controller, NewTree(op[u].rev, TRUE, good))
  BY DEF AdoptPublish
<1> DEFINE o == op[u]
           t == NewTree(o.rev, TRUE, good)
<1>2. o = op[u] /\ o \in Doings /\ o.pc \in StepsOf(o.kind)
      /\ (o.kind = "adopt" => o.rev \in Revs \cup {Unknown})
  BY Here
<1>3. o.pc = "stage" /\ op' = [op EXCEPT ![u] = AtRest] /\ Becoming(Controller, t)
      /\ UNCHANGED <<attached, receipts, topo, catalog, fresh>>
  BY <1>1 DEF AdoptPublish, Leave
<1> HIDE DEF o
<1>4. o.kind = "adopt" /\ o.kind \in Exclusive BY <1>2, <1>3, StepKind DEF Exclusive
<1>5. changes < MaxChanges BY <1>3 DEF Becoming
<1>6. t \in Trees /\ t.dir \in 1 .. changes + 1 BY <1>2, <1>4, <1>5, NewTreeIs
<1> HIDE DEF t
<1>7. /\ changes' \in Dirs /\ disk' \in [Nodes -> Trees \cup {NoTree}]
      /\ \A m \in Nodes : disk'[m] = NoTree \/ (disk'[m] \in Trees /\ disk'[m].dir \in 1 .. changes')
      /\ \A j \in 1 .. changes : j \in 1 .. changes' /\ j < changes'
  BY <1>3, <1>6, TreesType, CatalogAssumption
<1>8. \A w \in Users \ {u} : op[w] = AtRest BY <1>2, <1>4, AloneIs
<1>9. op' \in [Users -> Doings] /\ \A w \in Users : op'[w] = AtRest
  BY <1>3, <1>8, AtRestIs DEF IInv, Typed
<1>10. Dated'
  <2>1. \A w \in Revs : attached[w] = NoHome \/ /\ attached[w].node \in Nodes /\ w \in receipts
                                                /\ attached[w].dir \in 1 .. changes
    BY DEF IInv, Typed, Dated
  <2> QED BY <1>3, <1>7, <2>1 DEF Dated
<1>11. Typed' BY <1>3, <1>7, <1>9, <1>10 DEF IInv, Typed
<1>12. fresh' => Tells(catalog', attached', receipts')
  <2>1. fresh => Tells(catalog, attached, receipts) BY DEF IInv
  <2>2. fresh' = fresh /\ catalog' = catalog /\ attached' = attached /\ receipts' = receipts
    BY <1>3
  <2> QED BY <2>1, <2>2
<1>13. Going(op'[u], disk', attached', receipts', catalog') BY <1>9, AtRestIs
<1> QED BY <1>9, <1>11, <1>12, <1>13, Single

\* What other programs make of a directory: its number is the old one, a new one,
\* or none.
LEMMA OutsideTree ==
  ASSUME IInv, NEW n \in Nodes, Outside(n)
  PROVE  \E t : /\ Becoming(n, t)
                /\ t = NoTree \/ (t \in Trees /\ t.dir \in 1 .. changes + 1)
                /\ t.dir \in {0, disk[n].dir, changes + 1}
<1>1. changes \in Nat BY DirNat DEF IInv, Typed
<1>2. CASE Becoming(n, NoTree) BY <1>2, NoneIs
<1>3. CASE Becoming(n, [disk[n] EXCEPT !.good = FALSE]) /\ disk[n].good
  <2> DEFINE t == [disk[n] EXCEPT !.good = FALSE]
  <2>1. disk[n] \in Trees /\ disk[n].dir \in 1 .. changes
    BY <1>3 DEF IInv, Typed, Dated, NoTree
  <2>2. t \in Trees /\ t.dir = disk[n].dir BY <2>1 DEF Trees
  <2>3. t.dir \in 1 .. changes + 1 BY <1>1, <2>1, <2>2
  <2>4. Becoming(n, t) BY <1>3
  <2> HIDE DEF t
  <2> QED BY <2>2, <2>3, <2>4
<1>4. ASSUME NEW v \in Revs \cup {Unknown}, NEW whole \in BOOLEAN, NEW good \in BOOLEAN,
             Becoming(n, NewTree(v, whole, good))
      PROVE  \E t : /\ Becoming(n, t)
                    /\ t = NoTree \/ (t \in Trees /\ t.dir \in 1 .. changes + 1)
                    /\ t.dir \in {0, disk[n].dir, changes + 1}
  <2>1. changes < MaxChanges BY <1>4 DEF Becoming
  <2> QED BY <1>4, <2>1, NewTreeIs
<1> QED BY <1>2, <1>3, <1>4 DEF Outside

\* A preparation has seen what its history says.
Seen(o, b) == [o EXCEPT !.was = b]

LEMMA OutsideStep ==
  ASSUME IInv, NEW n \in Nodes, Outside(n)
  PROVE  IInv'
<1>1. PICK t : /\ Becoming(n, t)
               /\ t = NoTree \/ (t \in Trees /\ t.dir \in 1 .. changes + 1)
               /\ t.dir \in {0, disk[n].dir, changes + 1}
  BY OutsideTree
<1>2. op' = Histories(op) /\ UNCHANGED <<attached, receipts, topo, catalog, fresh>>
  BY DEF Outside
<1>3. /\ changes' = changes + 1 /\ changes' \in Dirs
      /\ disk' \in [Nodes -> Trees \cup {NoTree}] /\ disk'[n] = t
      /\ \A m \in Nodes \ {n} : disk'[m] = disk[m]
      /\ \A m \in Nodes : disk'[m] = NoTree \/ (disk'[m] \in Trees /\ disk'[m].dir \in 1 .. changes')
      /\ \A j \in 1 .. changes : j \in 1 .. changes' /\ j < changes'
  BY <1>1, TreesType
<1>4. Dated'
  <2>1. \A w \in Revs : attached[w] = NoHome \/ /\ attached[w].node \in Nodes /\ w \in receipts
                                                /\ attached[w].dir \in 1 .. changes
    BY DEF IInv, Typed, Dated
  <2> QED BY <1>2, <1>3, <2>1 DEF Dated
<1>5. changes \in Nat BY DirNat DEF IInv, Typed
<1>6. ASSUME NEW u \in Users
      PROVE  /\ op'[u] \in Doings /\ op'[u].kind = op[u].kind
             /\ Going(op'[u], disk', attached', receipts', catalog')
  <2> DEFINE o == op[u]
             b == o.was \/ IsHomeOn(disk', o.rev, o.node)
             x == Seen(o, b)
             y == op'[u]
  <2>1. o = op[u] /\ o \in Doings /\ o.pc \in StepsOf(o.kind) /\ (o.kind = None => o = AtRest)
        /\ (o.kind = "adopt" => o.rev \in Revs \cup {Unknown})
        /\ Scans(o) /\ Writes(o, catalog, attached, receipts) /\ Chooses(o, catalog)
        /\ Plans(o, disk, attached)
    BY Here
  <2>2. y = IF o.kind # "prepare" THEN o ELSE x BY <1>2 DEF Histories, Seen
  <2>3. attached' = attached /\ receipts' = receipts /\ catalog' = catalog BY <1>2
  <2>4. b \in BOOLEAN /\ (o.was => b) /\ (HomeIn(disk', attached, o.rev, o.node) => b)
    <3>1. IsHomeOn(disk', o.rev, o.node) <=> HomeIn(disk', attached, o.rev, o.node)
      BY DEF IsHomeOn, HomeIn
    <3>2. o.was \in BOOLEAN BY <2>1 DEF Doings
    <3> QED BY <3>1, <3>2
  <2>5. y = op'[u] OBVIOUS
  <2> HIDE DEF o, b, y
  <2>6. CASE o.kind # "prepare"
    <3>1. y = o BY <2>2, <2>6
    <3>2. Plans(o, disk', attached') BY <2>6 DEF Plans
    <3>3. Going(o, disk', attached', receipts', catalog') BY <2>1, <2>3, <3>2 DEF Going
    <3> QED BY <2>1, <2>5, <3>1, <3>3
  <2>7. CASE o.kind = "prepare"
    <3>1. y = x BY <2>2, <2>7
    <3>2. x \in Doings /\ x.kind = o.kind /\ x.pc = o.pc /\ x.good = o.good /\ x.was = b
          /\ x.rev = o.rev /\ x.node = o.node
      BY <2>1, <2>4 DEF Seen, Doings
    <3> HIDE DEF x
    <3>3. o.rev \in Revs /\ o.node \in Nodes BY <2>1, <2>7 DEF Chooses
    <3>4. Chooses(x, catalog) BY <2>1, <3>2 DEF Chooses
    <3>5. ASSUME o.pc = "receipt", o.good, ~b
          PROVE  attached[o.rev].node # o.node \/ attached[o.rev].dir # disk'[o.node].dir
      <4> DEFINE e == attached[o.rev]
      <4>1. ~o.was BY <2>4, <3>5
      <4>2. e.node # o.node \/ e.dir # disk[o.node].dir
        BY <2>1, <2>7, <3>5, <4>1 DEF Plans
      <4>3. CASE e.node # o.node BY <4>3
      <4>4. CASE e.node = o.node /\ o.node # n BY <1>3, <3>3, <4>2, <4>4
      <4>5. CASE e.node = o.node /\ o.node = n
        <5>1. e # NoHome BY <3>3, <4>5, NoneIs
        <5>2. e.dir \in 1 .. changes BY <3>3, <5>1 DEF IInv, Typed, Dated
        <5>3. e.dir # 0 /\ e.dir # changes + 1 BY <1>5, <5>2
        <5>4. e.dir # disk[n].dir BY <4>2, <4>5
        <5>5. disk'[n].dir \in {0, disk[n].dir, changes + 1} BY <1>1, <1>3
        <5> QED BY <4>5, <5>3, <5>4, <5>5
      <4> QED BY <4>3, <4>4, <4>5
    <3>6. Plans(x, disk', attached) BY <2>1, <2>4, <2>7, <3>2, <3>5 DEF Plans
    <3>7. x.pc \in StepsOf(x.kind) /\ x.kind # None BY <2>1, <2>7, <3>2, NamesAre
    <3>8. Going(x, disk', attached, receipts, catalog)
      <4>1. x.kind \notin {"refresh", "adopt"} BY <2>7, <3>2
      <4>2. x.pc # "write" BY <2>1, <2>7, <3>2, StepsAre
      <4> QED BY <3>4, <3>6, <3>7, <4>1, <4>2 DEF Going, Scans, Writes
    <3> QED BY <2>1, <2>3, <2>5, <3>1, <3>2, <3>8
  <2> QED BY <2>6, <2>7
<1>7. op' \in [Users -> Doings]
  <2>1. op' = [u \in Users |-> op'[u]] BY <1>2 DEF Histories
  <2> QED BY <1>6, <2>1
<1>8. Typed' BY <1>2, <1>3, <1>4, <1>7 DEF IInv, Typed
<1>9. Locked' BY <1>6 DEF IInv, Locked
<1>10. fresh' => Tells(catalog', attached', receipts')
  <2>1. fresh => Tells(catalog, attached, receipts) BY DEF IInv
  <2>2. fresh' = fresh /\ catalog' = catalog /\ attached' = attached /\ receipts' = receipts
    BY <1>2
  <2> QED BY <2>1, <2>2
<1> QED BY <1>6, <1>8, <1>9, <1>10 DEF IInv

LEMMA RediscoverStep == ASSUME IInv, Rediscover PROVE IInv'
<1>1. /\ UNCHANGED <<disk, attached, receipts, catalog, op, fresh>> /\ topo' \in Topologies
      /\ changes < MaxChanges /\ changes' = changes + 1
  BY DEF Rediscover
<1>2. changes \in Nat BY DirNat DEF IInv, Typed
<1>3. changes' \in Dirs /\ \A j \in 1 .. changes : j \in 1 .. changes'
  BY <1>1, <1>2, CatalogAssumption DEF Dirs
<1>4. Dated' BY <1>1, <1>3 DEF IInv, Typed, Dated
<1>5. Typed' BY <1>1, <1>3, <1>4 DEF IInv, Typed
<1>6. Locked' BY <1>1 DEF IInv, Locked
<1>7. fresh => Tells(catalog, attached, receipts) BY DEF IInv
<1>8. \A u \in Users : Going(op[u], disk, attached, receipts, catalog) BY DEF IInv
<1>9. /\ disk' = disk /\ attached' = attached /\ receipts' = receipts /\ catalog' = catalog
      /\ op' = op /\ fresh' = fresh
  BY <1>1
<1>10. fresh' => Tells(catalog', attached', receipts') BY <1>7, <1>9
<1>11. \A u \in Users : Going(op'[u], disk', attached', receipts', catalog') BY <1>8, <1>9
<1> QED BY <1>5, <1>6, <1>10, <1>11 DEF IInv

LEMMA StutterStep == ASSUME IInv, UNCHANGED cvars PROVE IInv'
<1>1. /\ disk' = disk /\ attached' = attached /\ receipts' = receipts /\ catalog' = catalog
      /\ op' = op /\ fresh' = fresh /\ topo' = topo /\ changes' = changes
  BY DEF cvars
<1>2. Typed' BY <1>1 DEF IInv, Typed, Dated
<1>3. Locked' BY <1>1 DEF IInv, Locked
<1>4. fresh => Tells(catalog, attached, receipts) BY DEF IInv
<1>5. \A u \in Users : Going(op[u], disk, attached, receipts, catalog) BY DEF IInv
<1>6. fresh' => Tells(catalog', attached', receipts') BY <1>1, <1>4
<1>7. \A u \in Users : Going(op'[u], disk', attached', receipts', catalog') BY <1>1, <1>5
<1> QED BY <1>2, <1>3, <1>6, <1>7 DEF IInv

LEMMA NextHolds == ASSUME IInv, [CatalogNext]_cvars PROVE IInv'
<1>1. ASSUME NEW u \in Users, Cataloging(u) PROVE IInv'
  <2>1. CASE RefreshBegin(u) BY <2>1, RefreshBeginStep
  <2>2. CASE RefreshScan(u) BY <2>2, RefreshScanStep
  <2>3. CASE RefreshBuild(u) BY <2>3, RefreshBuildStep
  <2>4. CASE WriteCatalog(u) BY <2>4, WriteCatalogStep
  <2>5. CASE Finished(u) BY <2>5, Leaves DEF Finished
  <2>6. CASE \E v \in Revs : PrimaryClear(u, v) \/ \E n \in Nodes : PrimarySet(u, v, n)
    BY <2>6, SetSteps
  <2> QED BY <1>1, <2>1, <2>2, <2>3, <2>4, <2>5, <2>6 DEF Cataloging
<1>2. ASSUME NEW u \in Users, Planning(u) PROVE IInv'
  <2>1. CASE PrepareInspect(u) BY <2>1, InspectStep
  <2>2. CASE PrepareReceipt(u) \/ PreparePlan(u) BY <2>2, PlanSteps
  <2>3. CASE \E q \in Revs \cup {"model"} : Resolve(u, q) BY <2>3, ResolveStep
  <2>4. CASE \E v \in Revs, serving \in Asked : PrepareResolve(u, v, serving)
    BY <2>4, PrepareResolveStep
  <2> QED BY <1>2, <2>1, <2>2, <2>3, <2>4 DEF Planning
<1>3. ASSUME NEW u \in Users, Moving(u) PROVE IInv'
  <2>1. CASE \E n \in Nodes : HomeRemove(u, n) BY <2>1, HomeRemoveStep
  <2>2. CASE AdoptPublish(u) BY <2>2, AdoptPublishStep
  <2>3. CASE \E v \in ColdRevs : AdoptPlan(u, v) BY <2>3, AdoptPlanStep
  <2> QED BY <1>3, <2>1, <2>2, <2>3 DEF Moving
<1>4. ASSUME NEW n \in Nodes,
             Outside(n) \/ \E v \in Revs : HomeAdd(n, v) \/ HomeRelocate(n, v)
      PROVE  IInv'
  BY <1>4, OutsideStep, HomeAddStep, HomeRelocateStep
<1>5. CASE Rediscover BY <1>5, RediscoverStep
<1>6. CASE UNCHANGED cvars BY <1>6, StutterStep
<1> QED BY <1>1, <1>2, <1>3, <1>4, <1>5, <1>6 DEF CatalogNext

LEMMA InitHolds == ASSUME CatalogInit PROVE IInv
<1> DEFINE v == CHOOSE w \in Revs : TRUE
           t == CHOOSE s \in Topologies : TRUE
           tree == [rev |-> v, dir |-> 1, complete |-> TRUE, good |-> TRUE]
           home == [rank |-> 1, node |-> t[1], rev |-> v, dir |-> 1, complete |-> TRUE,
                    class |-> "occupancy", reason |-> None]
           place == [node |-> t[1], dir |-> 1]
           none == [w \in Revs |-> None]
<1>1. PICK made \in BOOLEAN :
        /\ disk = [n \in Nodes |-> IF n = t[1] THEN tree ELSE NoTree]
        /\ attached = [w \in Revs |-> IF w = v THEN place ELSE NoHome]
        /\ receipts = {v} /\ topo = t
        /\ catalog = [made |-> made, topo |-> t, homes |-> IF made THEN {home} ELSE {},
                      sel |-> none]
        /\ op = [u \in Users |-> AtRest]
        /\ changes = 1 /\ fresh = made
  BY DEF CatalogInit
<1>2. v \in Revs BY CatalogAssumption
<1>3. t \in Topologies
  <2>1. PICK n \in Nodes : n # Controller BY CatalogAssumption
  <2>2. [r \in Ranks |-> IF r = 0 THEN Controller ELSE n] \in Topologies
    BY <2>1, CatalogAssumption DEF Topologies, Ranks
  <2> QED BY <2>2
<1>4. 1 \in Ranks BY DEF Ranks
<1>5. t[1] \in Nodes BY <1>3, <1>4, TopologyIs
<1>6. none \in [Revs -> Nodes \cup {None}] OBVIOUS
<1> HIDE DEF v, t, none
<1>7. 1 \in Dirs /\ 0 \in Dirs BY DirNat
<1>8. tree \in Trees /\ tree.dir = 1 BY <1>2, <1>7 DEF Trees
<1>9. place \in [node : Nodes, dir : Dirs] /\ place.node = t[1] /\ place.dir = 1 BY <1>5, <1>7
<1>10. None \in Reasons /\ "occupancy" \in {"occupancy", "unbound-complete", "partial"}
  BY DEF Reasons
<1>11. /\ home \in Homes /\ home.rank = 1 /\ home.node = t[1] /\ home.class = "occupancy"
       /\ home.complete /\ home.rev = v /\ home.dir = 1
  BY <1>2, <1>4, <1>5, <1>7, <1>10 DEF Homes
<1>12. place = [node |-> home.node, dir |-> home.dir] BY <1>11
<1> HIDE DEF tree, place, home
<1>13. catalog \in Catalogs /\ catalog.topo = t /\ catalog.homes \subseteq {home}
  BY <1>1, <1>3, <1>6, <1>11 DEF Catalogs
<1>14. disk \in [Nodes -> Trees \cup {NoTree}]
       /\ \A n \in Nodes : disk[n] = NoTree \/ (disk[n] \in Trees /\ disk[n].dir = 1)
  BY <1>1, <1>8
<1>15. attached \in [Revs -> [node : Nodes, dir : Dirs] \cup {NoHome}]
       /\ attached[v] = place /\ \A w \in Revs : attached[w] = NoHome \/ (w = v /\ attached[w] = place)
  BY <1>1, <1>2, <1>9
<1>16. 1 \in 1 .. changes BY <1>1
<1>17. Dated BY <1>1, <1>5, <1>9, <1>14, <1>15, <1>16 DEF Dated
<1>18. op \in [Users -> Doings] /\ \A u \in Users : op[u] = AtRest BY <1>1, AtRestIs
<1>19. Typed
  BY <1>1, <1>2, <1>3, <1>7, <1>13, <1>14, <1>15, <1>17, <1>18 DEF Typed
<1>20. Locked BY <1>18, AtRestIs DEF Locked
<1>21. Tells(catalog, attached, receipts)
  BY <1>2, <1>11, <1>12, <1>13, <1>15 DEF Tells
<1>22. \A u \in Users : Going(op[u], disk, attached, receipts, catalog) BY <1>18, AtRestIs
<1> QED BY <1>19, <1>20, <1>21, <1>22 DEF IInv

-----------------------------------------------------------------------------
(* What the invariant says.                                                *)

LEMMA OneHome ==
  ASSUME NEW c \in Catalogs, NEW a, NEW rc, Tells(c, a, rc), NEW v
  PROVE  /\ Cardinality(OccupiedHomes(c, v)) <= 1
         /\ \A h \in OccupiedHomes(c, v) :
              v \in Revs /\ a[v] = [node |-> h.node, dir |-> h.dir] /\ h.node = c.topo[h.rank]
<1>1. ASSUME NEW h \in OccupiedHomes(c, v)
      PROVE  /\ v \in Revs /\ a[v] = [node |-> h.node, dir |-> h.dir]
             /\ h.node = c.topo[h.rank] /\ h.rank \in Ranks /\ h \in c.homes
  <2>1. h \in c.homes /\ h.rev = v /\ h.complete /\ h.class = "occupancy"
    BY DEF OccupiedHomes
  <2>2. h \in Homes BY <2>1 DEF Catalogs
  <2> QED BY <2>1, <2>2 DEF Tells, Homes
<1>2. c.topo \in Topologies BY DEF Catalogs
<1>3. ASSUME NEW g \in OccupiedHomes(c, v), NEW h \in OccupiedHomes(c, v) PROVE g = h
  <2>1. g.node = h.node
    <3>1. [node |-> g.node, dir |-> g.dir] = [node |-> h.node, dir |-> h.dir] BY <1>1
    <3>2. [node |-> g.node, dir |-> g.dir].node = [node |-> h.node, dir |-> h.dir].node
      BY <3>1
    <3> QED BY <3>2
  <2>2. g.rank = h.rank
    <3>1. c.topo[g.rank] = c.topo[h.rank] /\ g.rank \in Ranks /\ h.rank \in Ranks
      BY <1>1, <2>1
    <3> QED BY <1>2, <3>1, TopologyIs
  <2> QED BY <1>1, <2>2 DEF Tells
<1>4. CASE OccupiedHomes(c, v) = {} BY <1>1, <1>4, FS_EmptySet
<1>5. CASE OccupiedHomes(c, v) # {}
  <2>1. PICK h \in OccupiedHomes(c, v) : TRUE BY <1>5
  <2>2. OccupiedHomes(c, v) = {h} BY <1>3, <2>1
  <2>3. Cardinality(OccupiedHomes(c, v)) = 1 BY <2>2, FS_Singleton
  <2> QED BY <1>1, <2>3
<1> QED BY <1>4, <1>5

LEMMA TellsType == ASSUME IInv PROVE CatalogTypeOK
<1>1. ASSUME NEW u \in Users PROVE op[u].pc \in Steps
  <2>1. op[u] \in Doings BY DEF IInv, Typed
  <2> QED BY <2>1 DEF Doings
<1> QED BY <1>1 DEF IInv, Typed, CatalogTypeOK, Steps, Dirs

LEMMA TellsFollows == ASSUME IInv PROVE CatalogFollowsHomes
<1> SUFFICES ASSUME fresh
             PROVE  /\ \A h \in catalog.homes :
                         h.class = "occupancy" => attached[h.rev] = [node |-> h.node, dir |-> h.dir]
                    /\ \A h \in RemovalAdvised(catalog) :
                         h.rev \in Revs => attached[h.rev] # [node |-> h.node, dir |-> h.dir]
                    /\ \A v \in Revs, r \in Ranks :
                         LET told == Readiness(catalog, v, r) IN
                         /\ told = "views-missing" => attached[v].node = catalog.topo[r]
                         /\ told = "unreceipted-tree" => v \notin receipts
                         /\ told = "occupancy-missing" => v \in receipts
  BY DEF CatalogFollowsHomes
<1>1. catalog \in Catalogs /\ Tells(catalog, attached, receipts) BY DEF IInv, Typed
<1>2. \A h \in catalog.homes :
        h.class = "occupancy" => attached[h.rev] = [node |-> h.node, dir |-> h.dir]
  BY <1>1 DEF Tells
<1>3. \A v, h : h \in UnboundHomes(catalog, v) =>
        h \in catalog.homes /\ h.rev = v /\ h.complete /\ h.class # "occupancy"
  BY DEF UnboundHomes
<1>4. ASSUME NEW h \in RemovalAdvised(catalog), h.rev \in Revs
      PROVE  attached[h.rev] # [node |-> h.node, dir |-> h.dir]
  <2>1. PICK v \in Revs \cup {Unknown} :
          h \in (IF Cardinality(OccupiedHomes(catalog, v)) <= 1 THEN UnboundHomes(catalog, v)
                 ELSE IF Primary(catalog, v) = {} THEN {}
                 ELSE OccupiedHomes(catalog, v) \ Primary(catalog, v))
    BY DEF RemovalAdvised
  <2>2. Cardinality(OccupiedHomes(catalog, v)) <= 1 BY <1>1, OneHome
  <2>3. h \in UnboundHomes(catalog, v) BY <2>1, <2>2
  <2> QED BY <1>1, <1>3, <1>4, <2>3 DEF Tells
<1>5. ASSUME NEW v \in Revs, NEW r \in Ranks,
             Readiness(catalog, v, r) = "views-missing"
      PROVE  attached[v].node = catalog.topo[r]
  <2>1. Refusal(catalog, v) # "views-missing" BY DEF Refusal
  <2> HIDE DEF Refusal
  <2>2. Primary(catalog, v) # {} /\ \A h \in Primary(catalog, v) : h.rank = r
    BY <1>5, <2>1 DEF Readiness
  <2>3. PICK h \in Primary(catalog, v) : h.rank = r BY <2>2
  <2>4. h \in OccupiedHomes(catalog, v) BY <2>3 DEF Primary
  <2>5. attached[v] = [node |-> h.node, dir |-> h.dir] /\ h.node = catalog.topo[h.rank]
    BY <1>1, <2>4, OneHome
  <2> QED BY <2>3, <2>5
<1>6. ASSUME NEW v \in Revs, NEW r \in Ranks,
             NEW told \in {"unreceipted-tree", "occupancy-missing"},
             Readiness(catalog, v, r) = told
      PROVE  Refusal(catalog, v) = told
  BY <1>6 DEF Readiness
<1>7. ASSUME NEW v \in Revs, NEW h \in UnboundHomes(catalog, v)
      PROVE  h.reason \in {"missing-receipt", "non-exact-revision"} <=> v \notin receipts
  <2>1. h \in catalog.homes /\ h.rev = v /\ h.complete /\ h.class # "occupancy" BY <1>3
  <2>2. h.complete /\ h.class # "occupancy" /\ h.rev \in Revs =>
          (h.reason \in {"missing-receipt", "non-exact-revision"} <=> h.rev \notin receipts)
    BY <1>1, <2>1 DEF Tells
  <2>3. h.reason \in {"missing-receipt", "non-exact-revision"} <=> h.rev \notin receipts
    BY <2>1, <2>2
  <2> QED BY <2>1, <2>3
<1>8. ASSUME NEW v \in Revs, Refusal(catalog, v) = "unreceipted-tree" PROVE v \notin receipts
  <2>1. \E h \in UnboundHomes(catalog, v) : h.reason \in {"missing-receipt", "non-exact-revision"}
    BY <1>8 DEF Refusal
  <2> QED BY <1>7, <2>1
<1>9. ASSUME NEW v \in Revs, Refusal(catalog, v) = "occupancy-missing" PROVE v \in receipts
  <2>1. /\ UnboundHomes(catalog, v) # {}
        /\ ~\E h \in UnboundHomes(catalog, v) : h.reason \in {"missing-receipt", "non-exact-revision"}
    BY <1>9 DEF Refusal
  <2> QED BY <1>7, <2>1
<1>10. ASSUME NEW v \in Revs, NEW r \in Ranks
      PROVE  LET told == Readiness(catalog, v, r) IN
             /\ told = "views-missing" => attached[v].node = catalog.topo[r]
             /\ told = "unreceipted-tree" => v \notin receipts
             /\ told = "occupancy-missing" => v \in receipts
  BY <1>5, <1>6, <1>8, <1>9
<1> QED BY <1>2, <1>4, <1>10

LEMMA TellsPlanned == ASSUME IInv PROVE PlannedIsHome
<1> SUFFICES ASSUME NEW u \in Users
             PROVE  /\ op[u].pc = "planned" => op[u].was
                    /\ op[u].pc \in {"answered", "planned"} /\ catalog.sel[op[u].rev] # None =>
                         op[u].node = catalog.sel[op[u].rev]
  BY DEF PlannedIsHome
<1> DEFINE o == op[u]
<1>1. o = op[u] /\ o \in Doings /\ o.pc \in StepsOf(o.kind) /\ Chooses(o, catalog)
      /\ Plans(o, disk, attached)
  BY Here
<1> HIDE DEF o
<1>2. o.pc = "planned" => o.was BY <1>1, StepKind DEF Plans
<1>3. o.pc \in {"answered", "planned"} /\ catalog.sel[o.rev] # None =>
        o.node = catalog.sel[o.rev]
  BY <1>1, StepKind DEF Chooses
<1> QED BY <1>1, <1>2, <1>3

Keeps ==
  \A v \in Revs : catalog'.sel[v] # catalog.sel[v] =>
    \E u \in Users : op[u].kind \in {"set", "clear"} /\ op[u].rev = v /\ op[u].pc = "write"

LEMMA TellsSelections == ASSUME IInv, [CatalogNext]_cvars PROVE Keeps
<1>1. ASSUME NEW u \in Users, WriteCatalog(u) PROVE Keeps
  <2> DEFINE o == op[u]
  <2>1. o = op[u] /\ o \in Doings /\ o.pc \in StepsOf(o.kind)
        /\ Writes(o, catalog, attached, receipts)
    BY Here
  <2>2. o.pc = "write" /\ catalog' = o.built BY <1>1 DEF WriteCatalog
  <2> HIDE DEF o
  <2>3. CASE o.kind = "refresh"
    <3>1. o.built.sel = catalog.sel BY <2>1, <2>2, <2>3 DEF Writes
    <3> QED BY <2>2, <3>1 DEF Keeps
  <2>4. CASE o.kind # "refresh"
    <3>1. o.kind \in {"set", "clear"} BY <2>1, <2>2, <2>4, StepKind
    <3>2. \A v \in Revs \ {o.rev} : o.built.sel[v] = catalog.sel[v]
      BY <2>1, <2>2, <2>4 DEF Writes
    <3> QED BY <2>1, <2>2, <3>1, <3>2 DEF Keeps
  <2> QED BY <2>3, <2>4
<1>2. CASE catalog' = catalog BY <1>2 DEF Keeps
<1>3. ASSUME NEW u \in Users, Cataloging(u) PROVE Keeps
  BY <1>1, <1>2, <1>3
     DEF Cataloging, RefreshBegin, RefreshScan, RefreshBuild, Finished, PrimaryClear, PrimarySet
<1>4. ASSUME NEW u \in Users, Planning(u) PROVE Keeps
  BY <1>2, <1>4
     DEF Planning, PrepareInspect, PrepareReceipt, PreparePlan, Resolve, PrepareResolve
<1>5. ASSUME NEW u \in Users, Moving(u) PROVE Keeps
  BY <1>2, <1>5 DEF Moving, HomeRemove, AdoptPublish, AdoptPlan
<1>6. ASSUME NEW n \in Nodes,
             Outside(n) \/ \E v \in Revs : HomeAdd(n, v) \/ HomeRelocate(n, v)
      PROVE  Keeps
  BY <1>2, <1>6 DEF Outside, HomeAdd, HomeRelocate
<1>7. CASE Rediscover BY <1>2, <1>7 DEF Rediscover
<1>8. CASE UNCHANGED cvars BY <1>2, <1>8 DEF cvars
<1> QED BY <1>3, <1>4, <1>5, <1>6, <1>7, <1>8 DEF CatalogNext

-----------------------------------------------------------------------------
(* Theorems.                                                               *)

\* The invariant: what the types, the locks, the fresh catalog and each command on
\* its way are, in every state of `catalog`, `resolve`, `prepare` and the home
\* commands beside them.
THEOREM PrimaryHome_Invariant == CatalogSpec => []IInv
<1>1. CatalogInit => IInv BY InitHolds
<1>2. IInv /\ [CatalogNext]_cvars => IInv' BY NextHolds
<1> QED BY <1>1, <1>2, PTL DEF CatalogSpec

\* Every variable keeps its type.
THEOREM PrimaryHome_TypeCorrect == CatalogSpec => []CatalogTypeOK
<1>1. IInv => CatalogTypeOK BY TellsType
<1> QED BY <1>1, PrimaryHome_Invariant, PTL

\* What the catalog tells of homes and of trees to remove is what the attachment
\* document and the receipts say, as long as no home command ran since the last
\* refresh wrote it.
THEOREM PrimaryHome_Follows == CatalogSpec => []CatalogFollowsHomes
<1>1. IInv => CatalogFollowsHomes BY TellsFollows
<1> QED BY <1>1, PrimaryHome_Invariant, PTL

\* However stale the catalog, the source of an accepted plan was the attached
\* directory with the receipt's bytes at a moment since the preparation began, and
\* no other home than the selected one is answered.
THEOREM PrimaryHome_Planned == CatalogSpec => []PlannedIsHome
<1>1. IInv => PlannedIsHome BY TellsPlanned
<1> QED BY <1>1, PrimaryHome_Invariant, PTL

\* Only `catalog primary set` and `clear` of a revision change which home is
\* selected for it.
THEOREM PrimaryHome_Selections == CatalogSpec => SelectionsKept
<1>1. IInv /\ [CatalogNext]_cvars => [Keeps]_cvars BY TellsSelections
<1> QED BY <1>1, PrimaryHome_Invariant, PTL DEF CatalogSpec, SelectionsKept, Keeps

-----------------------------------------------------------------------------
(* ViewWitness: the invariant.                                             *)

\* The verifications that a change of the files is remembered for.
Verifies(c) == c.pc \in {"observe", "load", "hash", "write"}
Observes(c, passes) == c.pc = "observe" /\ c.pass \in passes
Rem(c, b) == IF Verifies(c) THEN [c EXCEPT !.were = @ \cup WholeFiles(b),
                                          !.whole = @ \/ WholeFiles(b) = Files]
                           ELSE c

\* File f no longer has the metadata w has for it, and never will again.
Gone(w, f, b) == b[f].tick # w[f] \/ b[f].tick = Missing
Sound(f, b) == b[f].good = Halves
Vouches(w, b) == \A f \in Files : Gone(w, f, b) \/ Sound(f, b)

Blobs == [Files -> [tick : Ticks, good : SUBSET Halves]]
AllSeen(w) == \A f \in Files : w[f] # Missing
NotAfter(w, t) == \A f \in Files : w[f] <= t
Recorded(w) == w = NoWitness \/ AllSeen(w)

Ticking ==
  /\ blob \in Blobs /\ view \in Views /\ tick \in Ticks \ {0}
  /\ hangups \in 0 .. MaxHangups
  /\ cmd \in [Ops -> Commands]
  /\ \A f \in Files : blob[f].tick <= tick
  /\ NotAfter(view.witness, tick) /\ Recorded(view.witness)
  /\ \A p \in Ops : NotAfter(cmd[p].ref, tick)
                    /\ \A f \in Files : cmd[p].open[f].tick <= tick

\* What a command remembers and what it read of the files.
Remembers(c, b) ==
  /\ Verifies(c) => /\ WholeFiles(b) \subseteq c.were
                    /\ WholeFiles(b) = Files => c.whole
  /\ c.whole => c.were = Files
Opened(c, b) ==
  \A f \in Files : (c.open[f].tick # Missing /\ c.open[f].tick = b[f].tick)
                     => (c.open[f].half <=> 1 \in b[f].good)
Observing(c) ==
  /\ c.pc = "observe" => c.todo # {} /\ c.pass \in 1 .. 6
  /\ Observes(c, {1, 3}) => \A f \in Files \ c.todo : c.ref[f] # Missing
  /\ c.pc \in {"load", "write"} => AllSeen(c.ref)
  /\ Observes(c, {2, 4, 5, 6}) => AllSeen(c.ref)
  /\ c.pc = "hash" /\ c.kind # "pin" => AllSeen(c.ref)
ViewKeeps(c, b) == Remembers(c, b) /\ Opened(c, b) /\ Observing(c)

\* A verification from its hashing to its witness.
Certifies(c, b) ==
  /\ c.pc = "hash" => \A f \in Files \ c.todo :
       f \in c.were /\ (Gone(c.ref, f, b) \/ Sound(f, b))
  /\ Observes(c, {5, 6}) \/ c.pc = "write" => Vouches(c.ref, b)
  /\ Observes(c, {5}) => c.whole \/ \E f \in c.todo : Gone(c.ref, f, b)
  /\ Observes(c, {6}) \/ c.pc = "write" => c.whole
  /\ c.pc = "accepted" => c.were = Files /\ (c.kind # "pin" => c.whole)

\* No witness will ever record w: one of the files was not sound when all had
\* that metadata.
Never(c, b) ==
  /\ c.pc = "hash" => \E f \in Files : Gone(c.ref, f, b) \/ (f \in c.todo /\ ~Sound(f, b))
  /\ Observes(c, {5}) => \E f \in c.todo : Gone(c.ref, f, b)
  /\ ~Observes(c, {6}) /\ c.pc # "write"
Refuted(w, b, witness, cm) ==
  /\ \E f \in Files : Gone(w, f, b) \/ ~Sound(f, b)
  /\ witness # w
  /\ \A q \in Ops : cm[q].ref = w => Never(cm[q], b)

\* A launch about to compare what it observed twice with the stored witness.
Trusts(c, b, witness, cm) ==
  c.pc = "load" \/ Observes(c, {2}) =>
    \/ c.whole \/ Refuted(c.ref, b, witness, cm)
    \/ c.pc = "observe" /\ \E f \in c.todo : Gone(c.ref, f, b)

WInv ==
  /\ Ticking /\ Vouches(view.witness, blob)
  /\ \A p \in Ops : /\ ViewKeeps(cmd[p], blob) /\ Certifies(cmd[p], blob)
                    /\ Trusts(cmd[p], blob, view.witness, cmd)

-----------------------------------------------------------------------------
(* Numbers and sets of files.                                              *)

LEMMA MinIn == ASSUME NEW S, S \subseteq Files, S # {} PROVE Min(S) \in S
<1>1. PICK x \in S : \A y \in S : ~(<<y, x>> \in OpToRel(<, Nat))
  BY NatLessThanWellFounded, WFMin, FilesAssumption
<1>2. ASSUME NEW y \in S PROVE x <= y
  <2>1. x \in Nat /\ y \in Nat BY FilesAssumption
  <2>2. ~(y < x) BY <1>1, <2>1 DEF OpToRel
  <2> QED BY <2>1, <2>2
<1> QED BY <1>2 DEF Min

LEMMA TickNat == Ticks \subseteq Nat /\ 0 \in Ticks /\ 1 \in Ticks /\ Missing \in Ticks
BY TicksAssumption DEF Ticks, Missing

LEMMA NoFilesIs ==
  /\ NoFiles \in Blobs /\ \A f \in Files : NoFiles[f].tick = Missing
  /\ WholeFiles(NoFiles) = {} /\ WholeFiles(NoFiles) # Files
<1>1. NoFiles \in Blobs /\ \A f \in Files : NoFiles[f].tick = Missing
  BY TickNat DEF NoFiles, Blobs
<1> QED BY <1>1, FilesAssumption DEF WholeFiles

LEMMA IdleIs ==
  /\ NoWitness \in Metadata /\ Closed \in [Files -> [tick : Ticks, half : BOOLEAN]]
  /\ Idle \in Commands
  /\ Idle.pc = "idle" /\ Idle.ref = NoWitness /\ Idle.open = Closed /\ Idle.whole = FALSE
  /\ Idle.were = {} /\ Idle.todo = {} /\ Idle.pass = 0 /\ Idle.orphan = FALSE
  /\ \A f \in Files : NoWitness[f] = Missing /\ Closed[f].tick = Missing
<1>1. NoWitness \in Metadata /\ \A f \in Files : NoWitness[f] = Missing
  BY TickNat DEF NoWitness, Metadata
<1>2. Closed \in [Files -> [tick : Ticks, half : BOOLEAN]]
      /\ \A f \in Files : Closed[f].tick = Missing
  BY TickNat DEF Closed
<1>3. Idle \in Commands BY <1>1, <1>2 DEF Idle, Commands
<1> QED BY <1>1, <1>2, <1>3 DEF Idle

LEMMA NoViewIs == NoView \in Views /\ NoView.witness = NoWitness
BY IdleIs DEF NoView, Views

LEMMA CommandIs ==
  ASSUME NEW c \in Commands
  PROVE  /\ c.ref \in Metadata /\ c.todo \subseteq Files /\ c.were \subseteq Files
         /\ c.whole \in BOOLEAN /\ c.orphan \in BOOLEAN
         /\ c.open \in [Files -> [tick : Ticks, half : BOOLEAN]] /\ c.pass \in 0 .. 6
         /\ \A f \in Files : c.ref[f] \in Nat /\ c.open[f].tick \in Nat
                             /\ c.open[f].half \in BOOLEAN
<1>1. /\ c.ref \in Metadata /\ c.todo \subseteq Files /\ c.were \subseteq Files
      /\ c.whole \in BOOLEAN /\ c.orphan \in BOOLEAN
      /\ c.open \in [Files -> [tick : Ticks, half : BOOLEAN]] /\ c.pass \in 0 .. 6
  BY DEF Commands
<1>2. \A f \in Files : c.ref[f] \in Nat BY <1>1, TickNat DEF Metadata
<1>3. \A f \in Files : c.open[f].tick \in Nat /\ c.open[f].half \in BOOLEAN
  BY <1>1, TickNat
<1> QED BY <1>1, <1>2, <1>3

LEMMA RemIs ==
  ASSUME NEW c \in Commands, NEW b
  PROVE  /\ Rem(c, b) \in Commands
         /\ Rem(c, b).kind = c.kind /\ Rem(c, b).pc = c.pc /\ Rem(c, b).pass = c.pass
         /\ Rem(c, b).todo = c.todo /\ Rem(c, b).ref = c.ref /\ Rem(c, b).open = c.open
         /\ Rem(c, b).orphan = c.orphan
         /\ Verifies(c) => /\ Rem(c, b).were = c.were \cup WholeFiles(b)
                           /\ (Rem(c, b).whole <=> c.whole \/ WholeFiles(b) = Files)
         /\ ~Verifies(c) => Rem(c, b) = c
<1> DEFINE W == WholeFiles(b)
           d == [c EXCEPT !.were = @ \cup W, !.whole = @ \/ W = Files]
<1>1. W \subseteq Files BY DEF WholeFiles
<1>2. Rem(c, b) = IF Verifies(c) THEN d ELSE c BY DEF Rem
<1>3. /\ d \in Commands
      /\ d.kind = c.kind /\ d.pc = c.pc /\ d.pass = c.pass
      /\ d.todo = c.todo /\ d.ref = c.ref /\ d.open = c.open /\ d.orphan = c.orphan
      /\ d.were = c.were \cup W /\ d.whole = (c.whole \/ W = Files)
  <2> HIDE DEF W
  <2> QED BY <1>1 DEF Commands
<1> HIDE DEF d, W
<1>4. CASE Verifies(c) BY <1>2, <1>3, <1>4 DEF W
<1>5. CASE ~Verifies(c) BY <1>2, <1>5
<1> QED BY <1>4, <1>5

LEMMA RemSame ==
  ASSUME NEW c \in Commands, NEW b, Remembers(c, b) \/ WholeFiles(b) = {}
  PROVE  Rem(c, b) = c
<1>1. CASE ~Verifies(c) BY <1>1, RemIs
<1>2. CASE Verifies(c)
  <2> DEFINE W == WholeFiles(b)
  <2>1. c.were \cup W = c.were /\ (c.whole \/ W = Files) = c.whole
    <3>1. c.were \cup W = c.were BY <1>2 DEF Remembers
    <3>2. c.whole \in BOOLEAN BY CommandIs
    <3>3. W = Files => c.whole BY <1>2, FilesAssumption DEF Remembers
    <3> QED BY <3>1, <3>2, <3>3
  <2>2. Rem(c, b) = [c EXCEPT !.were = c.were \cup W, !.whole = (c.whole \/ W = Files)]
    BY <1>2 DEF Rem
  <2> HIDE DEF W
  <2>3. Rem(c, b) = [c EXCEPT !.were = c.were, !.whole = c.whole] BY <2>1, <2>2
  <2> QED BY <2>3 DEF Commands
<1> QED BY <1>1, <1>2

-----------------------------------------------------------------------------
(* Files change only to a tick they never had.                             *)

Later(b, b2, t) ==
  \A f \in Files : b2[f] = b[f] \/ b2[f].tick = Missing \/ b2[f].tick = t + 1

LEMMA GoneStays ==
  ASSUME NEW b, NEW b2, NEW t \in Nat, Later(b, b2, t), NEW w, NotAfter(w, t),
         NEW f \in Files, w[f] \in Nat
  PROVE  /\ Gone(w, f, b) => Gone(w, f, b2)
         /\ Gone(w, f, b) \/ Sound(f, b) => Gone(w, f, b2) \/ Sound(f, b2)
         /\ Gone(w, f, b) \/ ~Sound(f, b) => Gone(w, f, b2) \/ ~Sound(f, b2)
<1>1. CASE b2[f] = b[f] BY <1>1 DEF Gone, Sound
<1>2. CASE b2[f].tick = Missing BY <1>2 DEF Gone
<1>3. CASE b2[f].tick = t + 1
  <2>1. w[f] <= t BY DEF NotAfter
  <2>2. b2[f].tick # w[f] BY <1>3, <2>1
  <2> QED BY <2>2 DEF Gone
<1> QED BY <1>1, <1>2, <1>3 DEF Later

LEMMA VouchesStays ==
  ASSUME NEW b, NEW b2, NEW t \in Nat, Later(b, b2, t), NEW w \in Metadata, NotAfter(w, t),
         Vouches(w, b)
  PROVE  Vouches(w, b2)
BY GoneStays, TickNat DEF Vouches, Metadata

\* A command that is left alone but for what it remembers.
LEMMA Bystander ==
  ASSUME NEW b, NEW b2, NEW t \in Nat, Later(b, b2, t),
         NEW c \in Commands, NotAfter(c.ref, t), \A f \in Files : c.open[f].tick <= t,
         ViewKeeps(c, b), Certifies(c, b)
  PROVE  /\ ViewKeeps(Rem(c, b2), b2) /\ Certifies(Rem(c, b2), b2)
         /\ Never(c, b) => Never(Rem(c, b2), b2)
         /\ Observes(c, {2}) /\ (\E f \in c.todo : Gone(c.ref, f, b))
              => \E f \in c.todo : Gone(c.ref, f, b2)
<1> DEFINE d == Rem(c, b2)
<1>1. /\ d \in Commands /\ d.kind = c.kind /\ d.pc = c.pc /\ d.pass = c.pass
      /\ d.todo = c.todo /\ d.ref = c.ref /\ d.open = c.open
      /\ Verifies(c) => /\ d.were = c.were \cup WholeFiles(b2)
                        /\ (d.whole <=> c.whole \/ WholeFiles(b2) = Files)
      /\ ~Verifies(c) => d = c
  BY RemIs
<1>2. c.todo \subseteq Files /\ c.ref \in Metadata /\ c.were \subseteq Files
      /\ \A f \in Files : c.ref[f] \in Nat /\ c.open[f].tick \in Nat
  BY CommandIs
<1>3. c.whole => d.whole BY <1>1
<1>4. c.were \subseteq d.were BY <1>1
<1> HIDE DEF d
<1>5. \A f \in Files :
        /\ Gone(c.ref, f, b) => Gone(c.ref, f, b2)
        /\ Gone(c.ref, f, b) \/ Sound(f, b) => Gone(c.ref, f, b2) \/ Sound(f, b2)
        /\ Gone(c.ref, f, b) \/ ~Sound(f, b) => Gone(c.ref, f, b2) \/ ~Sound(f, b2)
  BY <1>2, GoneStays
<1>6. Remembers(d, b2)
  <2>1. WholeFiles(b2) \subseteq Files BY DEF WholeFiles
  <2>2. c.whole => c.were = Files BY DEF ViewKeeps, Remembers
  <2>3. CASE Verifies(c) BY <1>1, <1>2, <2>1, <2>2, <2>3 DEF Remembers
  <2>4. CASE ~Verifies(c) BY <1>1, <2>2, <2>4 DEF Remembers
  <2> QED BY <2>3, <2>4
<1>7. Opened(d, b2)
  <2> SUFFICES ASSUME NEW f \in Files, c.open[f].tick # Missing, c.open[f].tick = b2[f].tick
               PROVE  c.open[f].half <=> 1 \in b2[f].good
    BY <1>1 DEF Opened
  <2>1. b2[f] = b[f] BY <1>2 DEF Later
  <2> QED BY <2>1 DEF ViewKeeps, Opened
<1>8. Observing(d) BY <1>1 DEF ViewKeeps, Observing, Observes
<1>9. Certifies(d, b2)
  <2>1. c.pc = "hash" => \A f \in Files \ c.todo :
          f \in d.were /\ (Gone(c.ref, f, b2) \/ Sound(f, b2))
    BY <1>4, <1>5 DEF Certifies
  <2>2. Observes(c, {5, 6}) \/ c.pc = "write" => Vouches(c.ref, b2)
    BY <1>5 DEF Certifies, Vouches
  <2>3. Observes(c, {5}) => d.whole \/ \E f \in c.todo : Gone(c.ref, f, b2)
    BY <1>2, <1>3, <1>5 DEF Certifies
  <2>4. Observes(c, {6}) \/ c.pc = "write" => d.whole BY <1>3 DEF Certifies
  <2>5. c.pc = "accepted" => d.were = Files /\ (d.kind # "pin" => d.whole)
    BY <1>1 DEF Certifies, Verifies
  <2> QED BY <1>1, <2>1, <2>2, <2>3, <2>4, <2>5 DEF Certifies, Observes
<1>10. Never(c, b) => Never(d, b2)
  BY <1>1, <1>2, <1>5 DEF Never, Observes
<1> QED BY <1>2, <1>5, <1>6, <1>7, <1>8, <1>9, <1>10 DEF ViewKeeps, d

-----------------------------------------------------------------------------
(* One step of one command, and of the world.                              *)

LEMMA RefutedStays ==
  ASSUME Ticking, NEW w \in Metadata, NotAfter(w, tick), Later(blob, blob', tick),
         Refuted(w, blob, view.witness, cmd), view'.witness # w,
         \A q \in Ops : cmd'[q].ref = w => Never(cmd'[q], blob')
  PROVE  Refuted(w, blob', view'.witness, cmd')
<1>1. tick \in Nat BY TickNat DEF Ticking
<1>2. \A f \in Files : w[f] \in Nat BY TickNat DEF Metadata
<1>3. \E f \in Files : Gone(w, f, blob') \/ ~Sound(f, blob')
  BY <1>1, <1>2, GoneStays DEF Refuted
<1> QED BY <1>3 DEF Refuted

\* What the commands of M have to show for the invariant to go on.
Settled(cnew) ==
  /\ ViewKeeps(cnew, blob') /\ Certifies(cnew, blob')
  /\ \A w \in Metadata : (AllSeen(w) /\ NotAfter(w, tick) /\ cnew.ref = w
                          /\ Refuted(w, blob, view.witness, cmd)) => Never(cnew, blob')
  /\ cnew.pc = "load" \/ Observes(cnew, {2}) =>
       \/ Trusts(cnew, blob', view'.witness, cmd')
       \/ NotAfter(cnew.ref, tick) /\ Refuted(cnew.ref, blob, view.witness, cmd)

LEMMA Advance ==
  ASSUME WInv, Ticking', Later(blob, blob', tick), Vouches(view'.witness, blob'),
         \A w \in Metadata : (AllSeen(w) /\ Refuted(w, blob, view.witness, cmd))
                                => view'.witness # w,
         NEW M,
         \A q \in Ops \ M : cmd'[q] = Rem(cmd[q], blob'),
         \A q \in Ops \cap M : Settled(cmd'[q])
  PROVE  WInv'
<1>1. tick \in Nat /\ \A q \in Ops : cmd[q] \in Commands /\ cmd'[q] \in Commands
  BY TickNat DEF WInv, Ticking
<1>2. \A q \in Ops : /\ NotAfter(cmd[q].ref, tick)
                     /\ \A f \in Files : cmd[q].open[f].tick <= tick
                     /\ ViewKeeps(cmd[q], blob) /\ Certifies(cmd[q], blob)
                     /\ Trusts(cmd[q], blob, view.witness, cmd)
  BY DEF WInv, Ticking
<1>3. ASSUME NEW q \in Ops \ M
      PROVE  /\ ViewKeeps(cmd'[q], blob') /\ Certifies(cmd'[q], blob')
             /\ cmd'[q].ref = cmd[q].ref /\ (Never(cmd[q], blob) => Never(cmd'[q], blob'))
             /\ cmd'[q].pc = cmd[q].pc /\ cmd'[q].pass = cmd[q].pass
             /\ cmd'[q].todo = cmd[q].todo /\ (cmd[q].whole => cmd'[q].whole)
             /\ Observes(cmd[q], {2}) /\ (\E f \in cmd[q].todo : Gone(cmd[q].ref, f, blob))
                  => \E f \in cmd[q].todo : Gone(cmd[q].ref, f, blob')
  <2> DEFINE c == cmd[q]
  <2>1. c \in Commands /\ NotAfter(c.ref, tick) /\ (\A f \in Files : c.open[f].tick <= tick)
        /\ ViewKeeps(c, blob) /\ Certifies(c, blob) /\ cmd'[q] = Rem(c, blob')
    BY <1>1, <1>2
  <2> HIDE DEF c
  <2>2. /\ ViewKeeps(Rem(c, blob'), blob') /\ Certifies(Rem(c, blob'), blob')
        /\ Never(c, blob) => Never(Rem(c, blob'), blob')
        /\ Observes(c, {2}) /\ (\E f \in c.todo : Gone(c.ref, f, blob))
             => \E f \in c.todo : Gone(c.ref, f, blob')
    BY <1>1, <2>1, Bystander
  <2>3. /\ Rem(c, blob').ref = c.ref /\ Rem(c, blob').pc = c.pc
        /\ Rem(c, blob').pass = c.pass /\ Rem(c, blob').todo = c.todo
        /\ (c.whole => Rem(c, blob').whole)
    BY <2>1, RemIs
  <2> QED BY <2>1, <2>2, <2>3 DEF c
<1>4. ASSUME NEW w \in Metadata, AllSeen(w), NotAfter(w, tick),
             Refuted(w, blob, view.witness, cmd)
      PROVE  Refuted(w, blob', view'.witness, cmd')
  <2>1. view'.witness # w BY <1>4
  <2>2. ASSUME NEW q \in Ops, cmd'[q].ref = w PROVE Never(cmd'[q], blob')
    <3>1. CASE q \in M BY <1>4, <2>2, <3>1 DEF Settled
    <3>2. CASE q \notin M
      <4>1. cmd[q].ref = w BY <1>3, <2>2, <3>2
      <4>2. Never(cmd[q], blob) BY <1>4, <4>1 DEF Refuted
      <4> QED BY <1>3, <3>2, <4>2
    <3> QED BY <3>1, <3>2
  <2> QED BY <1>4, <2>1, <2>2, RefutedStays DEF WInv
<1>5. ASSUME NEW q \in Ops
      PROVE  ViewKeeps(cmd'[q], blob') /\ Certifies(cmd'[q], blob')
             /\ Trusts(cmd'[q], blob', view'.witness, cmd')
  <2>1. ViewKeeps(cmd'[q], blob') /\ Certifies(cmd'[q], blob') BY <1>3 DEF Settled
  <2> SUFFICES ASSUME cmd'[q].pc = "load" \/ Observes(cmd'[q], {2})
               PROVE  Trusts(cmd'[q], blob', view'.witness, cmd')
    BY <2>1 DEF Trusts
  <2>2. cmd'[q].ref \in Metadata /\ AllSeen(cmd'[q].ref)
    BY <1>1, <2>1, CommandIs DEF ViewKeeps, Observing, Observes
  <2>3. ASSUME NotAfter(cmd'[q].ref, tick), Refuted(cmd'[q].ref, blob, view.witness, cmd)
        PROVE  Trusts(cmd'[q], blob', view'.witness, cmd')
    <3> DEFINE w == cmd'[q].ref
    <3>1. w \in Metadata /\ AllSeen(w) /\ NotAfter(w, tick) /\ Refuted(w, blob, view.witness, cmd)
      BY <2>2, <2>3
    <3> HIDE DEF w
    <3>2. Refuted(w, blob', view'.witness, cmd') BY <1>4, <3>1
    <3> QED BY <3>2 DEF Trusts, w
  <2>4. CASE q \in M BY <2>3, <2>4 DEF Settled
  <2>5. CASE q \notin M
    <3>1. cmd[q].pc = "load" \/ Observes(cmd[q], {2})
      BY <1>3, <2>5 DEF Observes
    <3>2. \/ cmd[q].whole \/ Refuted(cmd[q].ref, blob, view.witness, cmd)
          \/ cmd[q].pc = "observe" /\ \E f \in cmd[q].todo : Gone(cmd[q].ref, f, blob)
      BY <1>2, <3>1 DEF Trusts
    <3>3. CASE cmd[q].whole BY <1>3, <2>5, <3>3 DEF Trusts
    <3>4. CASE Refuted(cmd[q].ref, blob, view.witness, cmd)
      BY <1>2, <1>3, <2>3, <2>5, <3>4
    <3>5. CASE cmd[q].pc = "observe" /\ \E f \in cmd[q].todo : Gone(cmd[q].ref, f, blob)
      <4>1. Observes(cmd[q], {2}) BY <3>1, <3>5 DEF Observes
      <4>2. cmd'[q].pc = "observe" /\ \E f \in cmd'[q].todo : Gone(cmd'[q].ref, f, blob')
        BY <1>3, <2>5, <3>5, <4>1
      <4> QED BY <4>2 DEF Trusts
    <3> QED BY <3>2, <3>3, <3>4, <3>5
  <2> QED BY <2>4, <2>5
<1> QED BY <1>5 DEF WInv

LEMMA BecomesIs ==
  ASSUME Ticking, NEW p \in Ops, NEW x \in Commands, NEW b, NEW e,
         e = [cmd EXCEPT ![p] = x], cmd' = Remember(e, b)
  PROVE  /\ cmd' \in [Ops -> Commands]
         /\ cmd'[p] = Rem(x, b) /\ \A q \in Ops \ {p} : cmd'[q] = Rem(cmd[q], b)
<1>1. e \in [Ops -> Commands] /\ e[p] = x /\ \A q \in Ops \ {p} : e[q] = cmd[q]
  BY DEF Ticking
<1>2. cmd' = [q \in Ops |-> Rem(e[q], b)]
  BY DEF Remember, Rem, Verifies
<1>3. \A q \in Ops : Rem(e[q], b) \in Commands BY <1>1, RemIs
<1> QED BY <1>1, <1>2, <1>3

\* What fits the files but for its histories does with them.
LEMMA RemFits ==
  ASSUME NEW x \in Commands, NEW b, x.whole => x.were = Files,
         Opened(x, b), Observing(x), Certifies(x, b)
  PROVE  /\ ViewKeeps(Rem(x, b), b) /\ Certifies(Rem(x, b), b)
         /\ Never(x, b) => Never(Rem(x, b), b)
<1> DEFINE y == Rem(x, b)
<1>1. /\ y \in Commands /\ y.kind = x.kind /\ y.pc = x.pc /\ y.pass = x.pass
      /\ y.todo = x.todo /\ y.ref = x.ref /\ y.open = x.open
      /\ Verifies(x) => /\ y.were = x.were \cup WholeFiles(b)
                        /\ (y.whole <=> x.whole \/ WholeFiles(b) = Files)
      /\ ~Verifies(x) => y = x
  BY RemIs
<1> HIDE DEF y
<1>2. x.were \subseteq Files /\ WholeFiles(b) \subseteq Files
  BY CommandIs DEF WholeFiles
<1>3. x.were \subseteq y.were /\ (x.whole => y.whole) BY <1>1
<1>4. Remembers(y, b)
  <2>1. CASE Verifies(x) BY <1>1, <1>2, <2>1 DEF Remembers
  <2>2. CASE ~Verifies(x) BY <1>1, <2>2 DEF Remembers
  <2> QED BY <2>1, <2>2
<1>5. Opened(y, b) BY <1>1 DEF Opened
<1>6. Observing(y) BY <1>1 DEF Observing, Observes
<1>7. Certifies(y, b)
  <2>1. y.pc = "accepted" => y = x BY <1>1 DEF Verifies
  <2> QED BY <1>1, <1>3, <2>1 DEF Certifies, Observes
<1>8. Never(x, b) => Never(y, b) BY <1>1 DEF Never, Observes
<1> QED BY <1>4, <1>5, <1>6, <1>7, <1>8 DEF ViewKeeps, y

\* Command p becomes x, and the files stay as they are.
LEMMA Alone ==
  ASSUME WInv, NEW p \in Ops, NEW x \in Commands, Becomes(p, x),
         blob' = blob, tick' = tick, hangups' = hangups,
         view' \in Views, NotAfter(view'.witness, tick), Recorded(view'.witness),
         Vouches(view'.witness, blob),
         \A w \in Metadata : (AllSeen(w) /\ Refuted(w, blob, view.witness, cmd))
                                => view'.witness # w,
         NotAfter(x.ref, tick), \A f \in Files : x.open[f].tick <= tick,
         x.whole => x.were = Files,
         Opened(x, blob), Observing(x), Certifies(x, blob),
         (AllSeen(x.ref) /\ Refuted(x.ref, blob, view.witness, cmd)) => Never(x, blob),
         x.pc = "load" \/ Observes(x, {2}) =>
           \/ x.whole \/ Refuted(x.ref, blob, view.witness, cmd)
           \/ WholeFiles(blob) = Files
           \/ x.pc = "observe" /\ \E f \in x.todo : Gone(x.ref, f, blob)
  PROVE  WInv'
<1> DEFINE y == Rem(x, blob)
<1>0. Ticking BY DEF WInv
<1>1. cmd' \in [Ops -> Commands] /\ cmd'[p] = y
      /\ \A q \in Ops \ {p} : cmd'[q] = Rem(cmd[q], blob)
  <2> DEFINE e == [cmd EXCEPT ![p] = x]
  <2>1. e = [cmd EXCEPT ![p] = x] /\ cmd' = Remember(e, blob) BY DEF Becomes
  <2> HIDE DEF e
  <2> QED BY <1>0, <2>1, BecomesIs
<1>2. /\ y \in Commands /\ y.kind = x.kind /\ y.pc = x.pc /\ y.pass = x.pass
      /\ y.todo = x.todo /\ y.ref = x.ref /\ y.open = x.open
      /\ Verifies(x) => /\ y.were = x.were \cup WholeFiles(blob)
                        /\ (y.whole <=> x.whole \/ WholeFiles(blob) = Files)
      /\ ~Verifies(x) => y = x
  BY RemIs
<1> HIDE DEF y
<1>5. Ticking'
  <2>1. \A q \in Ops : NotAfter(cmd'[q].ref, tick)
                       /\ \A f \in Files : cmd'[q].open[f].tick <= tick
    <3>1. TAKE q \in Ops
    <3>2. CASE q = p BY <1>1, <1>2, <3>2
    <3>3. CASE q # p
      <4>1. cmd[q] \in Commands BY <1>0 DEF Ticking
      <4>2. cmd'[q].ref = cmd[q].ref /\ cmd'[q].open = cmd[q].open
        BY <1>1, <3>3, <4>1, RemIs
      <4> QED BY <1>0, <4>2 DEF Ticking
    <3> QED BY <3>2, <3>3
  <2> QED BY <1>0, <1>1, <2>1 DEF Ticking, NotAfter, Recorded, AllSeen
<1>6. ViewKeeps(y, blob) /\ Certifies(y, blob) BY RemFits DEF y
<1>8. \A w \in Metadata : (AllSeen(w) /\ NotAfter(w, tick) /\ y.ref = w
                            /\ Refuted(w, blob, view.witness, cmd)) => Never(y, blob)
  BY <1>2 DEF Never, Observes
<1>9. y.pc = "load" \/ Observes(y, {2}) =>
       \/ Trusts(y, blob, view'.witness, cmd')
       \/ NotAfter(y.ref, tick) /\ Refuted(y.ref, blob, view.witness, cmd)
  <2>1. CASE x.pc = "load" \/ Observes(x, {2})
    <3>1. Verifies(x) BY <2>1 DEF Verifies, Observes
    <3>2. (x.whole \/ WholeFiles(blob) = Files) => y.whole BY <1>2, <3>1
    <3>3. CASE y.whole BY <3>3 DEF Trusts
    <3>4. CASE Refuted(x.ref, blob, view.witness, cmd) BY <1>2, <3>4
    <3>5. CASE x.pc = "observe" /\ \E f \in x.todo : Gone(x.ref, f, blob)
      BY <1>2, <3>5 DEF Trusts
    <3> QED BY <2>1, <3>2, <3>3, <3>4, <3>5
  <2> QED BY <1>2, <2>1 DEF Observes
<1>10. Settled(cmd'[p]) BY <1>1, <1>6, <1>8, <1>9 DEF Settled
<1>11. Later(blob, blob', tick) BY DEF Later
<1>12. \A q \in Ops \cap {p} : Settled(cmd'[q]) BY <1>10
<1>13. \A q \in Ops \ {p} : cmd'[q] = Rem(cmd[q], blob') BY <1>1
<1>14. Vouches(view'.witness, blob') OBVIOUS
<1> DEFINE M == {p}
<1>15. /\ \A q \in Ops \cap M : Settled(cmd'[q])
       /\ \A q \in Ops \ M : cmd'[q] = Rem(cmd[q], blob')
  BY <1>12, <1>13
<1> HIDE DEF M
<1> QED BY <1>5, <1>11, <1>14, <1>15, Advance

\* The same, of a step that leaves the view alone too.
LEMMA AloneStill ==
  ASSUME WInv, NEW p \in Ops, NEW x \in Commands, Becomes(p, x),
         UNCHANGED <<blob, view, tick, hangups>>,
         NotAfter(x.ref, tick), \A f \in Files : x.open[f].tick <= tick,
         x.whole => x.were = Files,
         Opened(x, blob), Observing(x), Certifies(x, blob),
         (AllSeen(x.ref) /\ Refuted(x.ref, blob, view.witness, cmd)) => Never(x, blob),
         x.pc = "load" \/ Observes(x, {2}) =>
           \/ x.whole \/ Refuted(x.ref, blob, view.witness, cmd)
           \/ WholeFiles(blob) = Files
           \/ x.pc = "observe" /\ \E f \in x.todo : Gone(x.ref, f, blob)
  PROVE  WInv'
<1>1. view' \in Views /\ NotAfter(view'.witness, tick) /\ Recorded(view'.witness)
      /\ Vouches(view'.witness, blob)
  BY DEF WInv, Ticking
<1>2. \A w \in Metadata : (AllSeen(w) /\ Refuted(w, blob, view.witness, cmd)) => view'.witness # w
  BY DEF Refuted
<1> QED BY <1>1, <1>2, Alone

\* A command that reads nothing and remembers nothing.
Resting(x) == /\ x \in Commands /\ x.pc \in {"idle", "clear", "copy", "publish", "remove"}
              /\ x.ref = NoWitness /\ x.open = Closed /\ x.whole = FALSE

LEMMA RestingIs ==
  ASSUME Ticking, NEW x, Resting(x), NEW b
  PROVE  /\ NotAfter(x.ref, tick) /\ \A f \in Files : x.open[f].tick <= tick
         /\ ViewKeeps(x, b) /\ Certifies(x, b) /\ Never(x, b) /\ Rem(x, b) = x
         /\ ~(x.pc = "load" \/ Observes(x, {2}))
<1>1. tick \in Nat BY TickNat DEF Ticking
<1>2. NotAfter(x.ref, tick) /\ \A f \in Files : x.open[f].tick <= tick
  BY <1>1, IdleIs DEF Resting, NotAfter, Missing
<1>3. ~Verifies(x) /\ x.pc \notin {"observe", "load", "hash", "write", "accepted"}
  BY DEF Resting, Verifies
<1>4. Remembers(x, b) /\ Observing(x)
  BY <1>3 DEF Resting, Remembers, Observing, Observes
<1>5. Opened(x, b) BY IdleIs DEF Resting, Opened
<1>6. Certifies(x, b) /\ Never(x, b) BY <1>3 DEF Certifies, Never, Observes
<1>7. Rem(x, b) = x BY <1>3 DEF Rem
<1> QED BY <1>2, <1>3, <1>4, <1>5, <1>6, <1>7 DEF ViewKeeps, Observes

LEMMA RestingStill ==
  ASSUME WInv, NEW p \in Ops, NEW x, Resting(x), Becomes(p, x),
         UNCHANGED <<blob, view, tick, hangups>>
  PROVE  WInv'
<1>1. x \in Commands /\ (x.whole => x.were = Files) BY DEF Resting
<1>2. /\ NotAfter(x.ref, tick) /\ \A f \in Files : x.open[f].tick <= tick
      /\ ViewKeeps(x, blob) /\ Certifies(x, blob) /\ Never(x, blob)
      /\ ~(x.pc = "load" \/ Observes(x, {2}))
  BY RestingIs DEF WInv
<1> QED BY <1>1, <1>2, AloneStill DEF ViewKeeps

LEMMA IdleRests ==
  /\ Resting(Idle)
  /\ \A k \in {"launch", "pin", "prepare"}, c \in {"clear", "copy", "publish", "remove"} :
       Resting([Idle EXCEPT !.kind = k, !.pc = c])
BY IdleIs DEF Resting, Idle, Commands

LEMMA RefusesStill ==
  ASSUME WInv, NEW p \in Ops, Refuses(p), UNCHANGED <<blob, view, tick, hangups>>
  PROVE  WInv'
<1>1. Resting(Idle) /\ Resting([Idle EXCEPT !.kind = "prepare", !.pc = "clear"])
      /\ Resting([Idle EXCEPT !.kind = "prepare", !.pc = "remove"])
  BY IdleRests
<1>2. \/ Becomes(p, Idle) \/ Becomes(p, [Idle EXCEPT !.kind = "prepare", !.pc = "clear"])
      \/ Becomes(p, [Idle EXCEPT !.kind = "prepare", !.pc = "remove"])
  BY DEF Refuses, Ends
<1> QED BY <1>1, <1>2, RestingStill

\* What the invariant says of one command.
LEMMA ViewHere ==
  ASSUME WInv, NEW p \in Ops, NEW c, c = cmd[p]
  PROVE  /\ c \in Commands /\ NotAfter(c.ref, tick) /\ \A f \in Files : c.open[f].tick <= tick
         /\ Remembers(c, blob) /\ Opened(c, blob) /\ Observing(c) /\ Certifies(c, blob)
         /\ Trusts(c, blob, view.witness, cmd)
         /\ Refuted(c.ref, blob, view.witness, cmd) => Never(c, blob)
BY DEF WInv, Ticking, ViewKeeps, Refuted

LEMMA BlobIs ==
  ASSUME WInv, NEW f \in Files
  PROVE  /\ blob[f].tick \in Ticks /\ blob[f].tick \in Nat /\ blob[f].tick <= tick
         /\ blob[f].good \subseteq Halves
BY TickNat DEF WInv, Ticking, Blobs

\* No file has lost the metadata it had in w, and w vouches: all are whole.
LEMMA AllWhole ==
  ASSUME NEW w, NEW b, Vouches(w, b), \A f \in Files : ~Gone(w, f, b)
  PROVE  WholeFiles(b) = Files
BY DEF Vouches, Gone, Sound, WholeFiles

\* If all files have the metadata of w and one of them is not sound, w is refuted.
LEMMA Refutes ==
  ASSUME WInv, NEW w, \A f \in Files : ~Gone(w, f, blob), WholeFiles(blob) # Files
  PROVE  Refuted(w, blob, view.witness, cmd)
<1>1. \E f \in Files : ~Sound(f, blob) BY DEF Gone, Sound, WholeFiles
<1>2. view.witness # w BY AllWhole DEF WInv
<1>3. ASSUME NEW q \in Ops, cmd[q].ref = w PROVE Never(cmd[q], blob)
  <2> DEFINE c == cmd[q]
  <2>1. c = cmd[q] /\ c.ref = w BY <1>3
  <2> HIDE DEF c
  <2>2. c \in Commands /\ Certifies(c, blob) /\ c.todo \subseteq Files
    BY <2>1, ViewHere, CommandIs
  <2>3. ~Vouches(c.ref, blob) BY <1>1, <2>1 DEF Vouches
  <2>4. ~(Observes(c, {5, 6}) \/ c.pc = "write") BY <2>2, <2>3 DEF Certifies
  <2>5. c.pc = "hash" => \E f \in Files : f \in c.todo /\ ~Sound(f, blob)
    BY <1>1, <2>1, <2>2 DEF Certifies
  <2> QED BY <2>1, <2>4, <2>5 DEF Never, Observes
<1> QED BY <1>1, <1>2, <1>3 DEF Refuted

\* A command that goes on with other files to read.
ViewMoves(c, k, s, n, t) == [c EXCEPT !.kind = k, !.todo = t, !.pc = s, !.pass = n]
ViewKinds == {"none", "launch", "pin", "prepare", "purge"}
ViewSteps == {"idle", "observe", "load", "hash", "write", "accepted",
          "clear", "copy", "publish", "remove"}
Passes == 0 .. 6

LEMMA MovesIs ==
  ASSUME NEW c \in Commands, NEW k \in ViewKinds, NEW s \in ViewSteps, NEW n \in Passes,
         NEW t \in SUBSET Files
  PROVE  /\ ViewMoves(c, k, s, n, t) \in Commands
         /\ ViewMoves(c, k, s, n, t).kind = k /\ ViewMoves(c, k, s, n, t).pc = s
         /\ ViewMoves(c, k, s, n, t).pass = n /\ ViewMoves(c, k, s, n, t).todo = t
         /\ ViewMoves(c, k, s, n, t).ref = c.ref /\ ViewMoves(c, k, s, n, t).open = c.open
         /\ ViewMoves(c, k, s, n, t).were = c.were /\ ViewMoves(c, k, s, n, t).whole = c.whole
<1>1. Commands = [kind : ViewKinds, pc : ViewSteps, pass : Passes, todo : SUBSET Files,
                  ref : Metadata, open : [Files -> [tick : Ticks, half : BOOLEAN]],
                  orphan : BOOLEAN, were : SUBSET Files, whole : BOOLEAN]
  BY DEF Commands, ViewKinds, ViewSteps, Passes
<1> QED BY <1>1 DEF ViewMoves

LEMMA ViewStepsAre ==
  /\ ViewKinds = {"none", "launch", "pin", "prepare", "purge"}
  /\ {"observe", "load", "hash", "write", "accepted"} \subseteq ViewSteps
  /\ 0 \in Passes /\ 1 \in Passes /\ 3 \in Passes /\ Files \in SUBSET Files
  /\ \A c \in Commands : c.kind \in ViewKinds /\ c.pc \in ViewSteps /\ c.pass \in Passes
BY DEF ViewKinds, ViewSteps, Passes, Commands

LEMMA VerifyIs ==
  /\ \A k \in {"launch", "pin", "prepare"} :
       /\ Verify(k) \in Commands /\ Verify(k).ref = NoWitness /\ Verify(k).open = Closed
       /\ Verify(k).whole = FALSE /\ Verify(k).todo = Files
  /\ Verify("launch").pc = "observe" /\ Verify("launch").pass = 1
  /\ Verify("prepare").pc = "observe" /\ Verify("prepare").pass = 3
  /\ Verify("pin").pc = "hash" /\ Verify("pin").kind = "pin"
<1> DEFINE L == [Idle EXCEPT !.kind = "launch", !.todo = Files, !.pc = "observe", !.pass = 1]
           R == [Idle EXCEPT !.kind = "prepare", !.todo = Files, !.pc = "observe", !.pass = 3]
           P == [Idle EXCEPT !.kind = "pin", !.todo = Files, !.pc = "hash"]
<1>1. Verify("launch") = L BY IdleIs DEF Verify, Commands
<1>2. Verify("prepare") = R BY IdleIs DEF Verify, Commands
<1>3. Verify("pin") = P BY IdleIs DEF Verify, Commands
<1>4. /\ "launch" \in ViewKinds /\ "prepare" \in ViewKinds /\ "observe" \in ViewSteps
      /\ 1 \in Passes /\ 3 \in Passes /\ Files \in SUBSET Files /\ Idle \in Commands
      /\ Idle.ref = NoWitness /\ Idle.open = Closed /\ Idle.whole = FALSE
  BY IdleIs, ViewStepsAre
<1>5. L = ViewMoves(Idle, "launch", "observe", 1, Files)
      /\ R = ViewMoves(Idle, "prepare", "observe", 3, Files)
  BY DEF ViewMoves
<1>6. P \in Commands /\ P.ref = NoWitness /\ P.open = Closed /\ P.whole = FALSE
      /\ P.todo = Files /\ P.pc = "hash" /\ P.kind = "pin"
  BY IdleIs DEF Commands
<1> HIDE DEF L, R, P
<1>7. L \in Commands /\ L.pc = "observe" /\ L.pass = 1 /\ L.todo = Files
      /\ L.ref = NoWitness /\ L.open = Closed /\ L.whole = FALSE
  BY <1>4, <1>5, MovesIs
<1>8. R \in Commands /\ R.pc = "observe" /\ R.pass = 3 /\ R.todo = Files
      /\ R.ref = NoWitness /\ R.open = Closed /\ R.whole = FALSE
  BY <1>4, <1>5, MovesIs
<1> QED BY <1>1, <1>2, <1>3, <1>6, <1>7, <1>8

\* A verification that begins fits everywhere, whatever the files are.
LEMMA Begins ==
  ASSUME Ticking, NEW k \in {"launch", "pin", "prepare"}, NEW x, x = Verify(k), NEW b
  PROVE  /\ x \in Commands /\ NotAfter(x.ref, tick) /\ \A f \in Files : x.open[f].tick <= tick
         /\ (x.whole => x.were = Files) /\ Opened(x, b) /\ Observing(x) /\ Certifies(x, b)
         /\ ~AllSeen(x.ref) /\ ~(x.pc = "load" \/ Observes(x, {2}))
<1>1. /\ x \in Commands /\ x.ref = NoWitness /\ x.open = Closed /\ x.whole = FALSE
      /\ x.todo = Files
      /\ (x.pc = "hash" /\ x.kind = "pin") \/ (x.pc = "observe" /\ x.pass \in {1, 3})
  BY VerifyIs
<1>2. tick \in Nat BY TickNat DEF Ticking
<1>3. NotAfter(x.ref, tick) /\ (\A f \in Files : x.open[f].tick <= tick) /\ Opened(x, b)
  BY <1>1, <1>2, IdleIs DEF NotAfter, Missing, Opened
<1>4. Observing(x) BY <1>1, FilesAssumption DEF Observing, Observes
<1>5. Certifies(x, b) BY <1>1 DEF Certifies, Observes
<1>6. ~AllSeen(x.ref) BY <1>1, IdleIs, FilesAssumption DEF AllSeen
<1> QED BY <1>1, <1>3, <1>4, <1>5, <1>6 DEF Observes

LEMMA BeginStill ==
  ASSUME WInv, NEW p \in Ops, NEW k \in {"launch", "pin", "prepare"}, Becomes(p, Verify(k)),
         UNCHANGED <<blob, view, tick, hangups>>
  PROVE  WInv'
<1> DEFINE x == Verify(k)
<1>1. x = Verify(k) /\ Becomes(p, x) OBVIOUS
<1> HIDE DEF x
<1>2. /\ x \in Commands /\ NotAfter(x.ref, tick) /\ \A f \in Files : x.open[f].tick <= tick
      /\ (x.whole => x.were = Files) /\ Opened(x, blob) /\ Observing(x) /\ Certifies(x, blob)
      /\ ~AllSeen(x.ref) /\ ~(x.pc = "load" \/ Observes(x, {2}))
  BY <1>1, Begins DEF WInv
<1> QED BY <1>1, <1>2, AloneStill

LEMMA BeginSteps ==
  ASSUME WInv, NEW p \in Ops, Check(p) \/ Pin(p) \/ Prepare(p)
  PROVE  WInv'
<1>1. CASE Check(p) BY <1>1, BeginStill DEF Check
<1>2. CASE Pin(p) BY <1>2, BeginStill DEF Pin
<1>3. CASE Prepare(p)
  <2>1. CASE Discovered BY <1>3, <2>1, BeginStill DEF Prepare
  <2>2. CASE ~Discovered
    <3>1. Becomes(p, [Idle EXCEPT !.kind = "prepare", !.pc = "clear"])
      BY <1>3, <2>2 DEF Prepare
    <3> QED BY <1>3, <3>1, IdleRests, RestingStill DEF Prepare
  <2> QED BY <2>1, <2>2
<1> QED BY <1>1, <1>2, <1>3

LEMMA LoadStep ==
  ASSUME WInv, NEW p \in Ops, Load(p)
  PROVE  WInv'
<1> DEFINE c == cmd[p]
           a == [c EXCEPT !.pc = "accepted"]
           o == [c EXCEPT !.pc = "observe", !.pass = 3, !.todo = Files]
           m == ViewMoves(c, c.kind, "observe", 3, Files)
<1>1. /\ c = cmd[p] /\ c.pc = "load" /\ UNCHANGED <<blob, view, tick, hangups>>
      /\ (view.witness = c.ref /\ Becomes(p, a)) \/ Becomes(p, o)
  BY DEF Load, Matches
<1>2. c \in Commands BY ViewHere
<1>3. /\ a \in Commands /\ a.pc = "accepted" /\ a.ref = c.ref /\ a.open = c.open
      /\ a.were = c.were /\ a.whole = c.whole
  BY <1>2 DEF Commands
<1>4. /\ o \in Commands /\ o.pc = "observe" /\ o.pass = 3 /\ o.todo = Files /\ o.ref = c.ref
      /\ o.open = c.open /\ o.were = c.were /\ o.whole = c.whole
  <2>1. 3 \in Passes /\ Files \in SUBSET Files /\ "observe" \in ViewSteps BY ViewStepsAre
  <2>2. c.kind \in ViewKinds BY <1>2, ViewStepsAre
  <2>3. o = m BY <1>2 DEF Commands, ViewMoves
  <2>4. m \in Commands /\ m.pc = "observe" /\ m.pass = 3 /\ m.todo = Files
        /\ m.ref = c.ref /\ m.open = c.open /\ m.were = c.were /\ m.whole = c.whole
    BY <1>2, <2>1, <2>2, MovesIs
  <2> HIDE DEF m, o
  <2> QED BY <2>3, <2>4
<1> HIDE DEF c, a, o
<1>5. /\ NotAfter(c.ref, tick) /\ \A f \in Files : c.open[f].tick <= tick
      /\ c.whole => c.were = Files
      /\ Opened(c, blob) /\ Trusts(c, blob, view.witness, cmd)
  BY <1>1, ViewHere DEF Remembers
<1>6. CASE view.witness = c.ref /\ Becomes(p, a)
  <2>1. c.whole BY <1>1, <1>5, <1>6 DEF Trusts, Refuted
  <2>2. Opened(a, blob) /\ Observing(a) /\ Never(a, blob) /\ Certifies(a, blob)
    BY <1>3, <1>5, <2>1 DEF Opened, Observing, Never, Certifies, Observes
  <2>3. ~(a.pc = "load" \/ Observes(a, {2})) BY <1>3 DEF Observes
  <2> QED BY <1>1, <1>3, <1>5, <1>6, <2>2, <2>3, AloneStill
<1>7. CASE Becomes(p, o)
  <2>1. Opened(o, blob) /\ Observing(o) /\ Never(o, blob) /\ Certifies(o, blob)
    BY <1>4, <1>5, FilesAssumption DEF Opened, Observing, Never, Certifies, Observes
  <2>2. ~(o.pc = "load" \/ Observes(o, {2})) BY <1>4 DEF Observes
  <2> QED BY <1>1, <1>4, <1>5, <1>7, <2>1, <2>2, AloneStill
<1> QED BY <1>1, <1>6, <1>7

LEMMA WriteWitnessStep ==
  ASSUME WInv, NEW p \in Ops, WriteWitness(p)
  PROVE  WInv'
<1> DEFINE c == cmd[p]
           a == [c EXCEPT !.pc = "accepted"]
<1>1. /\ c = cmd[p] /\ c.pc = "write" /\ Becomes(p, a)
      /\ view' = [view EXCEPT !.witness = c.ref, !.there = TRUE]
      /\ blob' = blob /\ tick' = tick /\ hangups' = hangups
  BY DEF WriteWitness
<1>2. c \in Commands BY ViewHere
<1>3. /\ a \in Commands /\ a.pc = "accepted" /\ a.ref = c.ref /\ a.open = c.open
      /\ a.were = c.were /\ a.whole = c.whole
  BY <1>2 DEF Commands
<1> HIDE DEF c, a
<1>4. /\ NotAfter(c.ref, tick) /\ \A f \in Files : c.open[f].tick <= tick
      /\ c.whole => c.were = Files
      /\ Opened(c, blob) /\ Certifies(c, blob) /\ c.ref \in Metadata /\ Recorded(c.ref)
  BY <1>1, <1>2, ViewHere, CommandIs DEF Remembers, Observing, Recorded
<1>5. c.whole /\ Vouches(c.ref, blob) BY <1>1, <1>4 DEF Certifies
<1>6. view' \in Views /\ view'.witness = c.ref
  BY <1>1, <1>4 DEF WInv, Ticking, Views
<1>7. \A w \in Metadata : (AllSeen(w) /\ Refuted(w, blob, view.witness, cmd)) => view'.witness # w
  BY <1>1, <1>6 DEF Refuted, Never
<1>8. Opened(a, blob) /\ Observing(a) /\ Never(a, blob) /\ Certifies(a, blob)
  BY <1>3, <1>4, <1>5 DEF Opened, Observing, Never, Certifies, Observes
<1>9. ~(a.pc = "load" \/ Observes(a, {2})) BY <1>3 DEF Observes
<1> QED BY <1>1, <1>3, <1>4, <1>5, <1>6, <1>7, <1>8, <1>9, Alone

\* The observation of one file.
Reads(c, f, v) == [c EXCEPT !.ref[f] = v, !.todo = @ \ {f}]

LEMMA ReadIs ==
  ASSUME NEW c \in Commands, NEW f \in Files, NEW v \in Ticks, NEW r, r = Reads(c, f, v)
  PROVE  /\ r \in Commands /\ r.pc = c.pc /\ r.pass = c.pass /\ r.kind = c.kind
         /\ r.todo = c.todo \ {f}
         /\ r.open = c.open /\ r.were = c.were /\ r.whole = c.whole
         /\ r.ref[f] = v /\ \A g \in Files \ {f} : r.ref[g] = c.ref[g]
         /\ c.ref[f] = v => r.ref = c.ref
<1>1. c.ref \in Metadata /\ c.todo \subseteq Files BY CommandIs
<1> DEFINE w == [c.ref EXCEPT ![f] = v]
<1>2. /\ w \in Metadata /\ w[f] = v /\ \A g \in Files \ {f} : w[g] = c.ref[g]
      /\ c.ref[f] = v => w = c.ref
  BY <1>1 DEF Metadata
<1>3. r = [c EXCEPT !.ref = w, !.todo = c.todo \ {f}] BY <1>1 DEF Commands, Reads
<1> HIDE DEF w
<1>4. /\ r \in Commands /\ r.pc = c.pc /\ r.pass = c.pass /\ r.kind = c.kind
      /\ r.todo = c.todo \ {f} /\ r.ref = w
      /\ r.open = c.open /\ r.were = c.were /\ r.whole = c.whole
  BY <1>1, <1>2, <1>3 DEF Commands
<1> QED BY <1>2, <1>4

LEMMA ThenIs ==
  ASSUME NEW r \in Commands, r.pass \in 1 .. 6
  PROVE  /\ Then(r) \in Commands /\ Then(r).ref = r.ref /\ Then(r).open = r.open
         /\ Then(r).were = r.were /\ Then(r).whole = r.whole
         /\ r.pass = 2 => Then(r).pc = "load"
         /\ r.pass = 4 => Then(r).pc = "hash" /\ Then(r).todo = Files
         /\ r.pass = 6 => Then(r).pc = "write"
         /\ r.pass \in {1, 3, 5} =>
              Then(r).pc = r.pc /\ Then(r).pass = r.pass + 1 /\ Then(r).todo = Files
<1> DEFINE L == [r EXCEPT !.pc = "load"]
           H == [r EXCEPT !.pc = "hash", !.todo = Files]
           W == [r EXCEPT !.pc = "write"]
           M == ViewMoves(r, r.kind, r.pc, r.pass + 1, Files)
<1>1. r.pass = 2 => Then(r) = L BY DEF Then
<1>2. r.pass = 4 => Then(r) = H BY DEF Then
<1>3. r.pass = 6 => Then(r) = W BY DEF Then
<1>4. r.pass \in {1, 3, 5} => Then(r) = M
  <2>1. r.pass \in {1, 3, 5} => Then(r) = [r EXCEPT !.pass = @ + 1, !.todo = Files]
    BY DEF Then
  <2>2. M = [r EXCEPT !.pass = @ + 1, !.todo = Files]
    <3> DEFINE n == r.pass + 1
    <3>1. M = [r EXCEPT !.kind = r.kind, !.todo = Files, !.pc = r.pc, !.pass = n] BY DEF ViewMoves
    <3> HIDE DEF M
    <3>2. n = r.pass + 1 OBVIOUS
    <3> HIDE DEF n
    <3>3. [r EXCEPT !.kind = r.kind, !.todo = Files, !.pc = r.pc, !.pass = n]
            = [r EXCEPT !.pass = n, !.todo = Files]
      BY DEF Commands
    <3> QED BY <3>1, <3>2, <3>3
  <2> QED BY <2>1, <2>2
<1>5. L \in Commands /\ L.ref = r.ref /\ L.open = r.open /\ L.were = r.were
      /\ L.whole = r.whole /\ L.pc = "load"
  BY DEF Commands
<1>6. H \in Commands /\ H.ref = r.ref /\ H.open = r.open /\ H.were = r.were
      /\ H.whole = r.whole /\ H.pc = "hash" /\ H.todo = Files
  BY DEF Commands
<1>7. W \in Commands /\ W.ref = r.ref /\ W.open = r.open /\ W.were = r.were
      /\ W.whole = r.whole /\ W.pc = "write"
  BY DEF Commands
<1>8. ASSUME r.pass \in {1, 3, 5}
      PROVE  M \in Commands /\ M.ref = r.ref /\ M.open = r.open /\ M.were = r.were
             /\ M.whole = r.whole /\ M.pc = r.pc /\ M.pass = r.pass + 1 /\ M.todo = Files
  <2> DEFINE k == r.kind
             s == r.pc
             n == r.pass + 1
  <2>1. n \in Passes /\ Files \in SUBSET Files BY <1>8 DEF Passes
  <2>2. k \in ViewKinds /\ s \in ViewSteps BY ViewStepsAre
  <2> HIDE DEF k, s, n
  <2>3. /\ ViewMoves(r, k, s, n, Files) \in Commands /\ ViewMoves(r, k, s, n, Files).ref = r.ref
        /\ ViewMoves(r, k, s, n, Files).open = r.open /\ ViewMoves(r, k, s, n, Files).were = r.were
        /\ ViewMoves(r, k, s, n, Files).whole = r.whole /\ ViewMoves(r, k, s, n, Files).pc = s
        /\ ViewMoves(r, k, s, n, Files).pass = n /\ ViewMoves(r, k, s, n, Files).todo = Files
    BY <2>1, <2>2, MovesIs
  <2> QED BY <2>3 DEF k, s, n
<1> HIDE DEF L, H, W, M
<1>9. r.pass \in {1, 2, 3, 4, 5, 6} OBVIOUS
<1> QED BY <1>1, <1>2, <1>3, <1>4, <1>5, <1>6, <1>7, <1>8, <1>9

\* The last file of a pass was read, and agreed.
LEMMA PassDone ==
  ASSUME WInv, NEW p \in Ops, NEW c, c = cmd[p], c.pc = "observe", NEW f \in Files,
         NEW r \in Commands, r.pc = c.pc, r.pass = c.pass, c.todo = {f},
         r.open = c.open, r.were = c.were, r.whole = c.whole,
         r.ref[f] = blob[f].tick, blob[f].tick # Missing,
         \A g \in Files \ {f} : r.ref[g] = c.ref[g],
         c.pass \notin {1, 3} => r.ref = c.ref,
         NEW x, x = Then(r), Becomes(p, x), UNCHANGED <<blob, view, tick, hangups>>
  PROVE  WInv'
<1>1. /\ c \in Commands /\ NotAfter(c.ref, tick) /\ \A g \in Files : c.open[g].tick <= tick
      /\ Remembers(c, blob) /\ Opened(c, blob) /\ Observing(c) /\ Certifies(c, blob)
      /\ Trusts(c, blob, view.witness, cmd)
      /\ Refuted(c.ref, blob, view.witness, cmd) => Never(c, blob)
  BY ViewHere
<1>2. c.pass \in 1 .. 6 BY <1>1 DEF Observing
<1>3. /\ x \in Commands /\ x.ref = r.ref /\ x.open = c.open
      /\ x.were = c.were /\ x.whole = c.whole
      /\ c.pass = 2 => x.pc = "load"
      /\ c.pass = 4 => x.pc = "hash" /\ x.todo = Files
      /\ c.pass = 6 => x.pc = "write"
      /\ c.pass \in {1, 3, 5} => x.pc = "observe" /\ x.pass = c.pass + 1 /\ x.todo = Files
  BY <1>2, ThenIs
<1>4. /\ c.pass = 1 => x.pc = "observe" /\ x.pass = 2 /\ x.todo = Files
      /\ c.pass = 3 => x.pc = "observe" /\ x.pass = 4 /\ x.todo = Files
      /\ c.pass = 5 => x.pc = "observe" /\ x.pass = 6 /\ x.todo = Files
  BY <1>3
<1>5. c.pass \in {1, 2, 3, 4, 5, 6} BY <1>2
<1>6. NotAfter(x.ref, tick)
  <2>1. blob[f].tick <= tick BY BlobIs
  <2> QED BY <1>1, <1>3, <2>1 DEF NotAfter
<1>7. ~Gone(r.ref, f, blob) BY DEF Gone
<1>8. /\ \A g \in Files : x.open[g].tick <= tick
      /\ x.whole => x.were = Files
      /\ Opened(x, blob)
  BY <1>1, <1>3 DEF Opened, Remembers
<1>9. Observing(x)
  <2>1. AllSeen(r.ref)
    <3>1. c.pass \in {1, 3} => \A g \in Files \ {f} : r.ref[g] # Missing
      BY <1>1 DEF Observing, Observes
    <3>2. c.pass \in {1, 3} => AllSeen(r.ref) BY <3>1 DEF AllSeen
    <3>3. c.pass \in {2, 4, 5, 6} => AllSeen(r.ref) BY <1>1 DEF Observing, Observes
    <3> QED BY <1>5, <3>2, <3>3
  <2>2. ~Observes(x, {1, 3}) BY <1>3, <1>4, <1>5 DEF Observes
  <2>3. x.pc = "observe" => x.todo # {} /\ x.pass \in 1 .. 6
    BY <1>3, <1>4, <1>5, FilesAssumption
  <2> QED BY <1>3, <2>1, <2>2, <2>3 DEF Observing
<1>10. Certifies(x, blob)
  <2>1. c.pass \in {1, 2, 3, 4} => Certifies(x, blob)
    BY <1>3, <1>4 DEF Certifies, Observes
  <2>2. c.pass = 5 => Certifies(x, blob)
    BY <1>1, <1>3, <1>4, <1>7 DEF Certifies, Observes
  <2>3. c.pass = 6 => Certifies(x, blob)
    BY <1>1, <1>3 DEF Certifies, Observes
  <2> QED BY <1>5, <2>1, <2>2, <2>3
<1>11. ASSUME Refuted(x.ref, blob, view.witness, cmd) PROVE Never(x, blob)
  <2>1. c.pass \in {1, 2, 3} => Never(x, blob) BY <1>3, <1>4 DEF Never, Observes
  <2>2. c.pass = 4 => Never(x, blob) BY <1>3, <1>11 DEF Never, Observes, Refuted
  <2>3. ~Never(c, blob) \/ c.pass \notin {5, 6} BY <1>7 DEF Never, Observes
  <2>4. c.pass \in {5, 6} => Never(c, blob) BY <1>1, <1>3, <1>11
  <2> QED BY <1>5, <2>1, <2>2, <2>3, <2>4
<1>12. ASSUME x.pc = "load" \/ Observes(x, {2})
       PROVE  \/ x.whole \/ Refuted(x.ref, blob, view.witness, cmd)
              \/ WholeFiles(blob) = Files
              \/ x.pc = "observe" /\ \E g \in x.todo : Gone(x.ref, g, blob)
  <2>1. c.pass \in {1, 2} BY <1>3, <1>4, <1>5, <1>12 DEF Observes
  <2>2. CASE c.pass = 1
    <3>1. CASE \E g \in Files : Gone(x.ref, g, blob) BY <1>4, <2>2, <3>1
    <3>2. CASE \A g \in Files : ~Gone(x.ref, g, blob)
      BY <3>2, Refutes
    <3> QED BY <3>1, <3>2
  <2>3. CASE c.pass = 2
    BY <1>1, <1>3, <1>7, <2>3 DEF Trusts, Observes
  <2> QED BY <2>1, <2>2, <2>3
<1> QED BY <1>3, <1>6, <1>8, <1>9, <1>10, <1>11, <1>12, AloneStill

\* A file was read, and agreed, and the pass goes on.
LEMMA PassGoesOn ==
  ASSUME WInv, NEW p \in Ops, NEW c, c = cmd[p], c.pc = "observe", NEW f \in c.todo,
         NEW x \in Commands, x.pc = c.pc, x.pass = c.pass, x.todo = c.todo \ {f},
         c.todo # {f}, x.open = c.open, x.were = c.were, x.whole = c.whole,
         x.ref[f] = blob[f].tick, blob[f].tick # Missing,
         \A g \in Files \ {f} : x.ref[g] = c.ref[g],
         c.pass \notin {1, 3} => x.ref = c.ref,
         Becomes(p, x), UNCHANGED <<blob, view, tick, hangups>>
  PROVE  WInv'
<1>1. /\ c \in Commands /\ NotAfter(c.ref, tick) /\ \A g \in Files : c.open[g].tick <= tick
      /\ Remembers(c, blob) /\ Opened(c, blob) /\ Observing(c) /\ Certifies(c, blob)
      /\ Trusts(c, blob, view.witness, cmd)
      /\ Refuted(c.ref, blob, view.witness, cmd) => Never(c, blob)
  BY ViewHere
<1>2. c.todo \subseteq Files BY <1>1, CommandIs
<1>3. NotAfter(x.ref, tick)
  <2>1. blob[f].tick <= tick BY <1>2, BlobIs
  <2> QED BY <1>1, <2>1 DEF NotAfter
<1>4. ~Gone(x.ref, f, blob) BY DEF Gone
<1>5. /\ \A g \in Files : x.open[g].tick <= tick
      /\ x.whole => x.were = Files
      /\ Opened(x, blob)
  BY <1>1 DEF Opened, Remembers
<1>6. Observing(x)
  <2>1. c.pass \in {1, 3} => \A g \in Files \ x.todo : x.ref[g] # Missing
    BY <1>1, <1>2 DEF Observing, Observes
  <2>2. c.pass \in {2, 4, 5, 6} => AllSeen(x.ref) BY <1>1 DEF Observing, Observes
  <2>3. x.todo # {} /\ x.pass \in 1 .. 6 BY <1>1 DEF Observing
  <2> QED BY <2>1, <2>2, <2>3 DEF Observing, Observes
<1>7. Certifies(x, blob)
  <2>1. c.pass \notin {5, 6} => Certifies(x, blob) BY DEF Certifies, Observes
  <2>2. c.pass = 5 => Certifies(x, blob) BY <1>1, <1>4 DEF Certifies, Observes
  <2>3. c.pass = 6 => Certifies(x, blob) BY <1>1 DEF Certifies, Observes
  <2> QED BY <2>1, <2>2, <2>3
<1>8. ASSUME Refuted(x.ref, blob, view.witness, cmd) PROVE Never(x, blob)
  <2>1. c.pass \notin {5, 6} => Never(x, blob) BY DEF Never, Observes
  <2>2. c.pass \in {5, 6} => Never(c, blob) BY <1>1, <1>8
  <2>3. c.pass = 5 => Never(x, blob) BY <1>4, <2>2 DEF Never, Observes
  <2>4. c.pass # 6 BY <2>2 DEF Never, Observes
  <2> QED BY <2>1, <2>3, <2>4
<1>9. x.pc = "load" \/ Observes(x, {2}) =>
        \/ x.whole \/ Refuted(x.ref, blob, view.witness, cmd)
        \/ x.pc = "observe" /\ \E g \in x.todo : Gone(x.ref, g, blob)
  BY <1>1, <1>4 DEF Trusts, Observes
<1> QED BY <1>3, <1>5, <1>6, <1>7, <1>8, <1>9, AloneStill

LEMMA ObserveStep ==
  ASSUME WInv, NEW p \in Ops, Observe(p)
  PROVE  WInv'
<1> DEFINE c == cmd[p]
           f == Min(c.todo)
           v == IF c.pass \in {1, 3} THEN blob[f].tick ELSE c.ref[f]
           r == [c EXCEPT !.ref[f] = v, !.todo = @ \ {f}]
<1>1. /\ c = cmd[p] /\ c.pc = "observe" /\ UNCHANGED <<blob, view, tick, hangups>>
      /\ \/ /\ blob[f].tick # Missing /\ Agrees(c, f)
            /\ Becomes(p, IF c.todo = {f} THEN Then(r) ELSE r)
         \/ Refuses(p)
  <2>1. c \in Commands BY ViewHere
  <2>2. [c EXCEPT !.ref[f] = IF c.pass \in {1, 3} THEN blob[f].tick ELSE @,
                  !.todo = @ \ {f}] = r
    BY <2>1
  <2> QED BY <2>2 DEF Observe
<1>2. c \in Commands /\ c.todo # {} /\ c.todo \subseteq Files
  BY <1>1, ViewHere, CommandIs DEF Observing
<1>3. f \in c.todo /\ f \in Files BY <1>2, MinIn
<1>4. v = IF c.pass \in {1, 3} THEN blob[f].tick ELSE c.ref[f] OBVIOUS
<1>5. r = Reads(c, f, v) BY DEF Reads
<1> HIDE DEF c, f, v, r
<1>6. CASE Refuses(p) BY <1>1, <1>6, RefusesStill
<1>7. CASE /\ blob[f].tick # Missing /\ Agrees(c, f)
           /\ Becomes(p, IF c.todo = {f} THEN Then(r) ELSE r)
  <2>1. v = blob[f].tick /\ (c.pass \notin {1, 3} => v = c.ref[f])
    BY <1>4, <1>7 DEF Agrees
  <2>2. v \in Ticks BY <1>3, <2>1, BlobIs
  <2>3. /\ r \in Commands /\ r.pc = c.pc /\ r.pass = c.pass /\ r.kind = c.kind
        /\ r.todo = c.todo \ {f}
        /\ r.open = c.open /\ r.were = c.were /\ r.whole = c.whole
        /\ r.ref[f] = v /\ \A g \in Files \ {f} : r.ref[g] = c.ref[g]
        /\ c.ref[f] = v => r.ref = c.ref
    BY <1>2, <1>3, <1>5, <2>2, ReadIs
  <2>4. CASE c.todo = {f}
    <3>1. Becomes(p, Then(r)) BY <1>7, <2>4
    <3> QED BY <1>1, <1>3, <1>7, <2>1, <2>3, <2>4, <3>1, PassDone
  <2>5. CASE c.todo # {f}
    <3>1. Becomes(p, r) BY <1>7, <2>5
    <3> QED BY <1>1, <1>3, <1>7, <2>1, <2>3, <2>5, <3>1, PassGoesOn
  <2> QED BY <2>4, <2>5
<1> QED BY <1>1, <1>6, <1>7

LEMMA OpenStep ==
  ASSUME WInv, NEW p \in Ops, NEW f \in Files, OpenFile(p, f)
  PROVE  WInv'
<1> DEFINE c == cmd[p]
           h == [tick |-> blob[f].tick, half |-> 1 \in blob[f].good]
           o == [c.open EXCEPT ![f] = h]
           x == [c EXCEPT !.open = o]
<1>1. c = cmd[p] /\ c \in Commands BY ViewHere
<1>2. c.open \in [Files -> [tick : Ticks, half : BOOLEAN]] BY <1>1, CommandIs
<1>3. blob[f].tick \in Ticks /\ blob[f].tick <= tick BY BlobIs
<1>4. h \in [tick : Ticks, half : BOOLEAN] /\ h.tick = blob[f].tick
      /\ (h.half <=> 1 \in blob[f].good)
  <2> DEFINE first == 1 \in blob[f].good
             v == blob[f].tick
  <2>1. first \in BOOLEAN /\ (first <=> 1 \in blob[f].good) OBVIOUS
  <2>2. v \in Ticks /\ v = blob[f].tick BY <1>3
  <2>3. h = [tick |-> v, half |-> first] OBVIOUS
  <2> HIDE DEF first, v, h
  <2>4. h \in [tick : Ticks, half : BOOLEAN] /\ h.tick = v /\ h.half = first
    BY <2>1, <2>2, <2>3
  <2> QED BY <2>1, <2>2, <2>4
<1>5. [c EXCEPT !.open[f] = h] = x BY <1>1
<1>6. /\ c.pc = "hash" /\ UNCHANGED <<blob, view, tick, hangups>>
      /\ Refuses(p) \/ Becomes(p, x)
  BY <1>5 DEF OpenFile
<1> HIDE DEF c, h
<1>7. /\ o \in [Files -> [tick : Ticks, half : BOOLEAN]]
      /\ o[f] = h /\ \A g \in Files \ {f} : o[g] = c.open[g]
  BY <1>2, <1>4
<1> HIDE DEF o
<1>8. /\ x \in Commands /\ x.pc = c.pc /\ x.pass = c.pass /\ x.kind = c.kind
      /\ x.todo = c.todo /\ x.ref = c.ref /\ x.open = o
      /\ x.were = c.were /\ x.whole = c.whole
  BY <1>1, <1>7 DEF Commands
<1> HIDE DEF x
<1>9. /\ NotAfter(c.ref, tick) /\ \A g \in Files : c.open[g].tick <= tick
      /\ Remembers(c, blob) /\ Opened(c, blob) /\ Observing(c) /\ Certifies(c, blob)
      /\ Refuted(c.ref, blob, view.witness, cmd) => Never(c, blob)
  BY <1>1, ViewHere
<1>10. CASE Refuses(p) BY <1>6, <1>10, RefusesStill
<1>11. CASE Becomes(p, x)
  <2>1. \A g \in Files : x.open[g].tick <= tick
    BY <1>3, <1>4, <1>7, <1>8, <1>9
  <2>2. Opened(x, blob) BY <1>4, <1>7, <1>8, <1>9 DEF Opened
  <2>3. Observing(x) /\ Certifies(x, blob) /\ (x.whole => x.were = Files)
    BY <1>6, <1>8, <1>9 DEF Observing, Observes, Certifies, Remembers
  <2>4. Never(c, blob) => Never(x, blob) BY <1>8 DEF Never, Observes
  <2>5. ~(x.pc = "load" \/ Observes(x, {2})) BY <1>6, <1>8 DEF Observes
  <2> QED BY <1>6, <1>8, <1>9, <1>11, <2>1, <2>2, <2>3, <2>4, <2>5, AloneStill
<1> QED BY <1>6, <1>10, <1>11

\* What the last file of the hashing leads to.
LEMMA HashedIs ==
  ASSUME NEW c \in Commands
  PROVE  /\ Hashed(c) \in Commands /\ Hashed(c).kind = c.kind /\ Hashed(c).ref = c.ref
         /\ Hashed(c).open = Closed /\ Hashed(c).were = c.were /\ Hashed(c).whole = c.whole
         /\ c.kind = "pin" => Hashed(c).pc = "accepted"
         /\ c.kind # "pin" => /\ Hashed(c).pc = "observe" /\ Hashed(c).pass = 5
                              /\ Hashed(c).todo = Files
<1> DEFINE s == IF c.kind = "pin" THEN "accepted" ELSE "observe"
           n == IF c.kind = "pin" THEN 0 ELSE 5
           t == IF c.kind = "pin" THEN {} ELSE Files
<1>1. Hashed(c) = [c EXCEPT !.open = Closed, !.pc = s, !.pass = n, !.todo = t] BY DEF Hashed
<1>2. n \in Passes /\ s \in ViewSteps /\ t \in SUBSET Files BY ViewStepsAre DEF Passes
<1>3. /\ c.kind = "pin" => s = "accepted"
      /\ c.kind # "pin" => s = "observe" /\ n = 5 /\ t = Files
  OBVIOUS
<1> HIDE DEF s, n, t
<1>4. Commands = [kind : ViewKinds, pc : ViewSteps, pass : Passes, todo : SUBSET Files,
                  ref : Metadata, open : [Files -> [tick : Ticks, half : BOOLEAN]],
                  orphan : BOOLEAN, were : SUBSET Files, whole : BOOLEAN]
  BY DEF Commands, ViewKinds, ViewSteps, Passes
<1>5. Closed \in [Files -> [tick : Ticks, half : BOOLEAN]] BY IdleIs
<1>6. /\ Hashed(c) \in Commands /\ Hashed(c).kind = c.kind /\ Hashed(c).ref = c.ref
      /\ Hashed(c).open = Closed /\ Hashed(c).were = c.were /\ Hashed(c).whole = c.whole
      /\ Hashed(c).pc = s /\ Hashed(c).pass = n /\ Hashed(c).todo = t
  BY <1>1, <1>2, <1>4, <1>5
<1> QED BY <1>3, <1>6

LEMMA CloseStep ==
  ASSUME WInv, NEW p \in Ops, NEW f \in Files, CloseFile(p, f)
  PROVE  WInv'
<1> DEFINE c == cmd[p]
           d == [c EXCEPT !.todo = @ \ {f}]
           x == Hashed(c)
<1>1. c = cmd[p] /\ c \in Commands BY ViewHere
<1>2. /\ c.pc = "hash" /\ f \in c.todo /\ UNCHANGED <<blob, view, tick, hangups>>
      /\ c.open[f].tick # Missing
      /\ \/ /\ c.open[f].tick = blob[f].tick /\ c.open[f].half /\ 2 \in blob[f].good
            /\ \/ c.todo = {f} /\ Becomes(p, x)
               \/ c.todo # {f} /\ Becomes(p, d)
         \/ Refuses(p)
  BY DEF CloseFile, Stable
<1> HIDE DEF c
<1>3. c.todo \subseteq Files BY <1>1, CommandIs
<1>4. /\ d \in Commands /\ d.pc = c.pc /\ d.kind = c.kind /\ d.todo = c.todo \ {f}
      /\ d.ref = c.ref /\ d.open = c.open /\ d.were = c.were /\ d.whole = c.whole
  BY <1>1, <1>3 DEF Commands
<1>5. /\ x \in Commands /\ x.kind = c.kind /\ x.ref = c.ref
      /\ x.open = Closed /\ x.were = c.were /\ x.whole = c.whole
      /\ c.kind = "pin" => x.pc = "accepted"
      /\ c.kind # "pin" => x.pc = "observe" /\ x.pass = 5 /\ x.todo = Files
  BY <1>1, HashedIs
<1> HIDE DEF d, x
<1>6. /\ NotAfter(c.ref, tick) /\ \A g \in Files : c.open[g].tick <= tick
      /\ Remembers(c, blob) /\ Opened(c, blob) /\ Observing(c) /\ Certifies(c, blob)
      /\ Refuted(c.ref, blob, view.witness, cmd) => Never(c, blob)
  BY <1>1, ViewHere
<1>7. CASE Refuses(p) BY <1>2, <1>7, RefusesStill
<1>8. CASE /\ c.open[f].tick = blob[f].tick /\ c.open[f].half /\ 2 \in blob[f].good
           /\ \/ c.todo = {f} /\ Becomes(p, x)
              \/ c.todo # {f} /\ Becomes(p, d)
  <2>1. 1 \in blob[f].good BY <1>2, <1>6, <1>8 DEF Opened
  <2>2. Sound(f, blob)
    <3>1. blob[f].good \subseteq {1, 2} BY BlobIs DEF Halves
    <3> QED BY <1>8, <2>1, <3>1 DEF Sound, Halves
  <2>3. f \in WholeFiles(blob) BY <1>2, <1>8, <2>2 DEF WholeFiles, Sound
  <2>4. f \in c.were BY <1>2, <1>6, <2>3 DEF Remembers, Verifies
  <2>5. \A g \in Files \ (c.todo \ {f}) : g \in c.were /\ (Gone(c.ref, g, blob) \/ Sound(g, blob))
    BY <1>2, <1>6, <2>2, <2>4 DEF Certifies
  <2>6. CASE c.todo # {f} /\ Becomes(p, d)
    <3>1. Opened(d, blob) /\ Observing(d) /\ Certifies(d, blob) /\ (d.whole => d.were = Files)
      BY <1>2, <1>4, <1>6, <2>5 DEF Opened, Observing, Observes, Certifies, Remembers
    <3>2. Never(c, blob) => Never(d, blob)
      BY <1>2, <1>4, <2>2 DEF Never, Observes
    <3>3. ~(d.pc = "load" \/ Observes(d, {2})) BY <1>2, <1>4 DEF Observes
    <3> QED BY <1>2, <1>4, <1>6, <2>6, <3>1, <3>2, <3>3, AloneStill
  <2>7. CASE c.todo = {f} /\ Becomes(p, x)
    <3>1. c.were = Files /\ Vouches(c.ref, blob)
      <4>1. \A g \in Files : g \in c.were /\ (Gone(c.ref, g, blob) \/ Sound(g, blob))
        BY <2>5, <2>7
      <4>2. c.were \subseteq Files BY <1>1, CommandIs
      <4> QED BY <4>1, <4>2 DEF Vouches
    <3>2. c.whole \/ \E g \in Files : Gone(c.ref, g, blob)
      BY <1>2, <1>6, <3>1, AllWhole DEF Remembers, Verifies
    <3>3. Opened(x, blob) /\ Observing(x) /\ (x.whole => x.were = Files)
      BY <1>2, <1>5, <1>6, <3>1, IdleIs, FilesAssumption DEF Opened, Observing, Observes
    <3>4. Certifies(x, blob)
      BY <1>5, <3>1, <3>2 DEF Certifies, Observes
    <3>5. Never(c, blob) => Never(x, blob)
      BY <1>2, <1>5, <2>2, <2>7 DEF Never, Observes
    <3>6. ~(x.pc = "load" \/ Observes(x, {2})) BY <1>5 DEF Observes
    <3>7. \A g \in Files : x.open[g].tick <= tick
      <4>1. tick \in Nat BY TickNat DEF WInv, Ticking
      <4> QED BY <1>5, <4>1, IdleIs DEF Missing
    <3> QED BY <1>2, <1>5, <1>6, <2>7, <3>3, <3>4, <3>5, <3>6, <3>7, AloneStill
  <2> QED BY <1>8, <2>6, <2>7
<1> QED BY <1>2, <1>7, <1>8

LEMMA AcceptedStep ==
  ASSUME WInv, NEW p \in Ops, Accepted(p)
  PROVE  WInv'
<1>1. Resting(Idle) /\ Resting([Idle EXCEPT !.kind = "prepare", !.pc = "publish"])
  BY IdleRests
<1>2. \/ Becomes(p, Idle) \/ Becomes(p, [Idle EXCEPT !.kind = "prepare", !.pc = "publish"])
  BY DEF Accepted, Ends
<1> QED BY <1>1, <1>2, RestingStill DEF Accepted

LEMMA PublishStep ==
  ASSUME WInv, NEW p \in Ops, Publish(p)
  PROVE  WInv'
<1>1. Becomes(p, Idle) /\ blob' = blob /\ tick' = tick /\ hangups' = hangups
      /\ view' = [view EXCEPT !.stamp = "ready", !.there = TRUE]
  BY DEF Publish, Ends
<1>2. view' \in Views /\ view'.witness = view.witness
  BY <1>1 DEF WInv, Ticking, Views
<1>3. /\ Idle \in Commands /\ (Idle.whole => Idle.were = Files)
      /\ NotAfter(Idle.ref, tick) /\ \A f \in Files : Idle.open[f].tick <= tick
      /\ Opened(Idle, blob) /\ Observing(Idle) /\ Certifies(Idle, blob) /\ Never(Idle, blob)
      /\ ~(Idle.pc = "load" \/ Observes(Idle, {2}))
  BY IdleRests, RestingIs DEF WInv, Resting, ViewKeeps
<1>4. NotAfter(view'.witness, tick) /\ Recorded(view'.witness) /\ Vouches(view'.witness, blob)
  BY <1>2 DEF WInv, Ticking
<1>5. \A w \in Metadata : (AllSeen(w) /\ Refuted(w, blob, view.witness, cmd)) => view'.witness # w
  BY <1>2 DEF Refuted
<1> QED BY <1>1, <1>2, <1>3, <1>4, <1>5, Alone

\* The files go: nothing vouches for them any more, nor has to.
LEMMA Cleared ==
  ASSUME WInv, blob' = NoFiles, tick' = tick, hangups' = hangups, view' \in Views,
         view'.witness \in {view.witness, NoWitness},
         cmd' \in [Ops -> Commands], NEW M, \A q \in Ops \ M : cmd'[q] = cmd[q],
         \A q \in Ops \cap M :
           /\ cmd'[q].pc \in {"idle", "clear", "copy", "publish", "remove"}
           /\ NotAfter(cmd'[q].ref, tick) /\ \A f \in Files : cmd'[q].open[f].tick <= tick
           /\ cmd'[q].whole => cmd'[q].were = Files
  PROVE  WInv'
<1>1. /\ blob' \in Blobs /\ \A f \in Files : blob'[f].tick = Missing
      /\ WholeFiles(blob') = {}
  BY NoFilesIs
<1>2. tick \in Nat BY TickNat DEF WInv, Ticking
<1>3. Ticking'
  <2>1. NotAfter(view'.witness, tick) BY <1>2, IdleIs DEF WInv, Ticking, NotAfter, Missing
  <2>4. Recorded(view'.witness) BY DEF WInv, Ticking, Recorded
  <2>2. \A f \in Files : blob'[f].tick <= tick BY <1>1, <1>2 DEF Missing
  <2>3. \A q \in Ops : NotAfter(cmd'[q].ref, tick)
                       /\ \A f \in Files : cmd'[q].open[f].tick <= tick
    BY DEF WInv, Ticking
  <2> QED BY <1>1, <2>1, <2>2, <2>3, <2>4 DEF WInv, Ticking, NotAfter, Recorded, AllSeen
<1>4. Later(blob, blob', tick) BY <1>1 DEF Later
<1>5. Vouches(view'.witness, blob') BY <1>1 DEF Vouches, Gone
<1>6. \A w \in Metadata : (AllSeen(w) /\ Refuted(w, blob, view.witness, cmd)) => view'.witness # w
  BY IdleIs, FilesAssumption DEF Refuted, AllSeen
<1>7. ASSUME NEW q \in Ops \ M PROVE cmd'[q] = Rem(cmd[q], blob')
  BY <1>1, <1>7, RemSame DEF WInv, Ticking
<1>8. ASSUME NEW q \in Ops \cap M PROVE Settled(cmd'[q])
  <2> DEFINE x == cmd'[q]
  <2>1. x.pc \notin {"observe", "load", "hash", "write", "accepted"}
        /\ (x.whole => x.were = Files)
    BY <1>8
  <2> HIDE DEF x
  <2>2. Remembers(x, blob') /\ Observing(x) /\ Certifies(x, blob') /\ Never(x, blob')
    BY <2>1 DEF Remembers, Observing, Certifies, Never, Observes, Verifies
  <2>3. Opened(x, blob') BY <1>1 DEF Opened
  <2>4. ~(x.pc = "load" \/ Observes(x, {2})) BY <2>1 DEF Observes
  <2> QED BY <2>2, <2>3, <2>4 DEF Settled, ViewKeeps, x
<1> QED BY <1>3, <1>4, <1>5, <1>6, <1>7, <1>8, Advance

LEMMA PurgeStep ==
  ASSUME WInv, NEW p \in Ops, Purge(p)
  PROVE  WInv'
<1>1. /\ view' = NoView /\ blob' = NoFiles /\ cmd' = cmd /\ tick' = tick /\ hangups' = hangups
  BY DEF Purge
<1>2. view' \in Views /\ view'.witness \in {view.witness, NoWitness} BY <1>1, NoViewIs
<1> DEFINE M == {}
<1>3. cmd' \in [Ops -> Commands] /\ (\A q \in Ops \ M : cmd'[q] = cmd[q]) /\ Ops \cap M = {}
  BY <1>1 DEF WInv, Ticking
<1> HIDE DEF M
<1> QED BY <1>1, <1>2, <1>3, Cleared

LEMMA RemoveStep ==
  ASSUME WInv, NEW p \in Ops, Remove(p)
  PROVE  WInv'
<1>1. /\ view' = NoView /\ blob' = NoFiles /\ tick' = tick /\ hangups' = hangups
      /\ Becomes(p, Idle)
  BY DEF Remove, Ends
<1>2. view' \in Views /\ view'.witness \in {view.witness, NoWitness} BY <1>1, NoViewIs
<1> DEFINE M == {p}
           e == [cmd EXCEPT ![p] = Idle]
<1>3. e = [cmd EXCEPT ![p] = Idle] /\ cmd' = Remember(e, blob) BY <1>1 DEF Becomes
<1> HIDE DEF e
<1>4. cmd' \in [Ops -> Commands] /\ cmd'[p] = Rem(Idle, blob)
      /\ \A q \in Ops \ {p} : cmd'[q] = Rem(cmd[q], blob)
  BY <1>3, IdleIs, BecomesIs DEF WInv
<1>5. cmd'[p] = Idle BY <1>4, IdleIs DEF Rem, Verifies
<1>6. \A q \in Ops \ {p} : cmd'[q] = cmd[q]
  BY <1>4, RemSame DEF WInv, Ticking, ViewKeeps
<1>7. NotAfter(Idle.ref, tick) /\ \A f \in Files : Idle.open[f].tick <= tick
  BY IdleRests, RestingIs DEF WInv
<1>8. \A q \in Ops \cap M :
           /\ cmd'[q].pc \in {"idle", "clear", "copy", "publish", "remove"}
           /\ NotAfter(cmd'[q].ref, tick) /\ \A f \in Files : cmd'[q].open[f].tick <= tick
           /\ cmd'[q].whole => cmd'[q].were = Files
  BY <1>5, <1>7, IdleIs
<1>9. \A q \in Ops \ M : cmd'[q] = cmd[q] BY <1>6
<1> HIDE DEF M
<1> QED BY <1>1, <1>2, <1>4, <1>8, <1>9, Cleared

LEMMA ClearStep ==
  ASSUME WInv, NEW p \in Ops, Clear(p)
  PROVE  WInv'
<1> DEFINE c == cmd[p]
           x == [c EXCEPT !.pc = "copy"]
           M == {p}
<1>1. /\ view' = [view EXCEPT !.there = TRUE] /\ blob' = NoFiles /\ tick' = tick
      /\ hangups' = hangups /\ cmd' = [cmd EXCEPT ![p].pc = "copy"]
  BY DEF Clear
<1>2. view' \in Views /\ view'.witness \in {view.witness, NoWitness}
  BY <1>1 DEF WInv, Ticking, Views
<1>3. c = cmd[p] /\ c \in Commands BY ViewHere
<1>4. cmd' = [cmd EXCEPT ![p] = x] BY <1>1, <1>3 DEF WInv, Ticking
<1> HIDE DEF c
<1>5. x \in Commands /\ x.pc = "copy" /\ x.ref = c.ref /\ x.open = c.open
      /\ x.were = c.were /\ x.whole = c.whole
  BY <1>3 DEF Commands
<1> HIDE DEF x
<1>6. cmd' \in [Ops -> Commands] /\ cmd'[p] = x /\ \A q \in Ops \ {p} : cmd'[q] = cmd[q]
  BY <1>4, <1>5 DEF WInv, Ticking
<1>7. NotAfter(c.ref, tick) /\ (\A f \in Files : c.open[f].tick <= tick)
      /\ (c.whole => c.were = Files)
  BY <1>3, ViewHere DEF Remembers
<1>8. \A q \in Ops \cap M :
           /\ cmd'[q].pc \in {"idle", "clear", "copy", "publish", "remove"}
           /\ NotAfter(cmd'[q].ref, tick) /\ \A f \in Files : cmd'[q].open[f].tick <= tick
           /\ cmd'[q].whole => cmd'[q].were = Files
  BY <1>5, <1>6, <1>7
<1>9. \A q \in Ops \ M : cmd'[q] = cmd[q] BY <1>6
<1> HIDE DEF M
<1> QED BY <1>1, <1>2, <1>6, <1>8, <1>9, Cleared

LEMMA HangupStep ==
  ASSUME WInv, NEW p \in Ops, Hangup(p)
  PROVE  WInv'
<1> DEFINE c == cmd[p]
           x == [c EXCEPT !.orphan = TRUE]
           M == {p}
<1>1. /\ view' = view /\ blob' = blob /\ tick' = tick
      /\ hangups < MaxHangups /\ hangups' = hangups + 1
      /\ cmd' = [cmd EXCEPT ![p].orphan = TRUE]
  BY DEF Hangup
<1>2. c = cmd[p] /\ c \in Commands BY ViewHere
<1>3. cmd' = [cmd EXCEPT ![p] = x] BY <1>1, <1>2 DEF WInv, Ticking
<1> HIDE DEF c
<1>4. x \in Commands /\ x.kind = c.kind /\ x.pc = c.pc /\ x.pass = c.pass
      /\ x.todo = c.todo /\ x.ref = c.ref /\ x.open = c.open
      /\ x.were = c.were /\ x.whole = c.whole
  BY <1>2 DEF Commands
<1> HIDE DEF x
<1>5. cmd' \in [Ops -> Commands] /\ cmd'[p] = x /\ \A q \in Ops \ {p} : cmd'[q] = cmd[q]
  BY <1>3, <1>4 DEF WInv, Ticking
<1>6. /\ NotAfter(c.ref, tick) /\ \A f \in Files : c.open[f].tick <= tick
      /\ Remembers(c, blob) /\ Opened(c, blob) /\ Observing(c) /\ Certifies(c, blob)
      /\ Trusts(c, blob, view.witness, cmd)
      /\ Refuted(c.ref, blob, view.witness, cmd) => Never(c, blob)
  BY <1>2, ViewHere
<1>7. Ticking'
  <2>1. hangups' \in 0 .. MaxHangups BY <1>1, TicksAssumption DEF WInv, Ticking
  <2>2. \A q \in Ops : NotAfter(cmd'[q].ref, tick)
                       /\ \A f \in Files : cmd'[q].open[f].tick <= tick
    BY <1>4, <1>5, <1>6 DEF WInv, Ticking
  <2> QED BY <1>1, <1>5, <2>1, <2>2 DEF WInv, Ticking, NotAfter, Recorded, AllSeen
<1>8. ViewKeeps(x, blob) /\ Certifies(x, blob) /\ (Never(c, blob) => Never(x, blob))
  <2>1. Remembers(x, blob) /\ Opened(x, blob) /\ Observing(x)
    BY <1>4, <1>6 DEF Remembers, Verifies, Opened, Observing, Observes
  <2>2. Certifies(x, blob) /\ (Never(c, blob) => Never(x, blob))
    BY <1>4, <1>6 DEF Certifies, Never, Observes
  <2> QED BY <2>1, <2>2 DEF ViewKeeps
<1>9. x.pc = "load" \/ Observes(x, {2}) =>
        \/ Trusts(x, blob, view.witness, cmd')
        \/ NotAfter(x.ref, tick) /\ Refuted(x.ref, blob, view.witness, cmd)
  BY <1>4, <1>6 DEF Trusts, Observes
<1>10. Settled(cmd'[p]) BY <1>1, <1>4, <1>5, <1>6, <1>8, <1>9 DEF Settled
<1>11. \A q \in Ops \ {p} : cmd'[q] = Rem(cmd[q], blob')
  BY <1>1, <1>5, RemSame DEF WInv, Ticking, ViewKeeps
<1>12. \A q \in Ops \cap M : Settled(cmd'[q]) BY <1>2, <1>10
<1>13. \A q \in Ops \ M : cmd'[q] = Rem(cmd[q], blob') BY <1>11
<1>14. Later(blob, blob', tick) /\ Vouches(view'.witness, blob')
  BY <1>1 DEF Later, WInv
<1>15. \A w \in Metadata : (AllSeen(w) /\ Refuted(w, blob, view.witness, cmd)) => view'.witness # w
  BY <1>1 DEF Refuted
<1> HIDE DEF M
<1> QED BY <1>7, <1>12, <1>13, <1>14, <1>15, Advance

\* The clock goes on: what was not after one tick is not after the next.
LEMMA TickOn ==
  ASSUME WInv, tick < MaxTicks, tick' = tick + 1
  PROVE  /\ tick' \in Ticks \ {0}
         /\ NotAfter(view.witness, tick')
         /\ \A c \in Commands :
              /\ NotAfter(c.ref, tick) => NotAfter(c.ref, tick')
              /\ (\A f \in Files : c.open[f].tick <= tick)
                   => \A f \in Files : c.open[f].tick <= tick'
<1>1. tick \in Nat /\ tick' \in Ticks \ {0} BY TicksAssumption DEF WInv, Ticking, Ticks
<1>2. tick \in Nat /\ tick' = tick + 1 /\ tick' \in Nat BY <1>1
<1>3. \A n \in Nat : n <= tick => n <= tick' BY <1>2
<1>4. NotAfter(view.witness, tick')
  <2>1. \A f \in Files : view.witness[f] \in Nat
    BY TickNat DEF WInv, Ticking, Views, Metadata
  <2> QED BY <1>3, <2>1 DEF WInv, Ticking, NotAfter, Recorded, AllSeen
<1>5. ASSUME NEW c \in Commands
      PROVE  /\ NotAfter(c.ref, tick) => NotAfter(c.ref, tick')
             /\ (\A f \in Files : c.open[f].tick <= tick)
                  => \A f \in Files : c.open[f].tick <= tick'
  <2>1. \A f \in Files : c.ref[f] \in Nat /\ c.open[f].tick \in Nat BY CommandIs
  <2> QED BY <1>3, <2>1 DEF NotAfter
<1> QED BY <1>1, <1>4, <1>5

LEMMA WriteStep ==
  ASSUME WInv, Write
  PROVE  WInv'
<1>1. PICK f \in Files, h \in Halves :
        /\ blob[f].tick # Missing
        /\ blob' = [blob EXCEPT ![f].tick = tick + 1,
                     ![f].good = IF h \in @ THEN @ \ {h} ELSE @ \cup {h}]
  BY DEF Write
<1>2. /\ tick < MaxTicks /\ tick' = tick + 1 /\ view' = view /\ hangups' = hangups
      /\ cmd' = Remember(cmd, blob')
  BY DEF Write
<1>3. /\ tick' \in Ticks \ {0} /\ NotAfter(view.witness, tick')
      /\ \A c \in Commands :
           /\ NotAfter(c.ref, tick) => NotAfter(c.ref, tick')
           /\ (\A g \in Files : c.open[g].tick <= tick)
                => \A g \in Files : c.open[g].tick <= tick'
  BY <1>2, TickOn
<1>4. blob \in Blobs /\ tick \in Nat /\ cmd \in [Ops -> Commands]
      /\ \A g \in Files : blob[g].tick <= tick /\ blob[g].tick \in Nat
  BY TickNat DEF WInv, Ticking, Blobs
<1> DEFINE G == IF h \in blob[f].good THEN blob[f].good \ {h} ELSE blob[f].good \cup {h}
           t == tick + 1
           e == [blob[f] EXCEPT !.tick = t, !.good = G]
<1>5. G \subseteq Halves BY <1>1, <1>4 DEF Blobs
<1>6. t = tick + 1 /\ t \in Ticks /\ t = tick' BY <1>2, <1>3
<1>7. blob' = [blob EXCEPT ![f] = e]
  BY <1>1, <1>4 DEF Blobs
<1> HIDE DEF G, t
<1>8. e \in [tick : Ticks, good : SUBSET Halves] /\ e.tick = t
  BY <1>4, <1>5, <1>6 DEF Blobs
<1> HIDE DEF e
<1>9. blob' \in Blobs /\ blob'[f] = e /\ \A g \in Files \ {f} : blob'[g] = blob[g]
  BY <1>4, <1>7, <1>8 DEF Blobs
<1>10. Later(blob, blob', tick) BY <1>6, <1>8, <1>9 DEF Later
<1>11. \A g \in Files : blob'[g].tick <= tick'
  <2>1. TAKE g \in Files
  <2>2. CASE g = f
    <3>1. blob'[g].tick = tick + 1 /\ tick' = tick + 1 BY <1>2, <1>6, <1>8, <1>9, <2>2
    <3> QED BY <1>4, <3>1
  <2>3. CASE g # f
    <3>1. blob'[g].tick = blob[g].tick BY <1>9, <2>3
    <3> QED BY <1>2, <1>4, <3>1
  <2> QED BY <2>2, <2>3
<1> DEFINE b == blob'
<1>12. cmd' = Remember(cmd, b) BY <1>2
<1>13. cmd' = [q \in Ops |-> Rem(cmd[q], b)]
  <2> HIDE DEF b
  <2> QED BY <1>12 DEF Remember, Rem, Verifies
<1>14. \A q \in Ops : cmd'[q] = Rem(cmd[q], blob') BY <1>13
<1>15. cmd' \in [Ops -> Commands]
  <2>1. \A q \in Ops : Rem(cmd[q], b) \in Commands BY <1>4, RemIs
  <2> HIDE DEF b
  <2> QED BY <1>13, <2>1
<1>16. \A q \in Ops : NotAfter(cmd'[q].ref, tick')
                      /\ \A g \in Files : cmd'[q].open[g].tick <= tick'
  <2>1. TAKE q \in Ops
  <2>2. cmd[q] \in Commands /\ NotAfter(cmd[q].ref, tick)
        /\ \A g \in Files : cmd[q].open[g].tick <= tick
    BY DEF WInv, Ticking
  <2>3. cmd'[q].ref = cmd[q].ref /\ cmd'[q].open = cmd[q].open BY <1>14, <2>2, RemIs
  <2> QED BY <1>3, <2>2, <2>3
<1>17. Ticking'
  BY <1>2, <1>3, <1>9, <1>11, <1>15, <1>16 DEF WInv, Ticking, NotAfter, Recorded, AllSeen
<1>18. Vouches(view'.witness, blob')
  <2>1. view.witness \in Metadata BY DEF WInv, Ticking, Views
  <2>2. Vouches(view.witness, b)
    <3>1. Later(blob, b, tick) /\ NotAfter(view.witness, tick) /\ Vouches(view.witness, blob)
      BY <1>10 DEF WInv, Ticking
    <3> HIDE DEF b
    <3> QED BY <1>4, <2>1, <3>1, VouchesStays
  <2> QED BY <1>2, <2>2
<1>19. \A w \in Metadata : (AllSeen(w) /\ Refuted(w, blob, view.witness, cmd)) => view'.witness # w
  BY <1>2 DEF Refuted
<1> DEFINE M == {}
<1>20. /\ \A q \in Ops \cap M : Settled(cmd'[q])
       /\ \A q \in Ops \ M : cmd'[q] = Rem(cmd[q], blob')
  BY <1>14
<1> HIDE DEF M, b
<1> QED BY <1>10, <1>17, <1>18, <1>19, <1>20, Advance

LEMMA CopyStep ==
  ASSUME WInv, NEW p \in Ops, Copy(p)
  PROVE  WInv'
<1>1. PICK bad \in {{}, {Min(Files)}} :
        blob' = [f \in Files |-> [tick |-> tick + 1,
                                  good |-> IF f \in bad THEN {1} ELSE Halves]]
  BY DEF Copy
<1> DEFINE x == Verify("prepare")
           e == [cmd EXCEPT ![p] = x]
           b == blob'
           t == tick + 1
           M == {p}
<1>2. /\ tick < MaxTicks /\ tick' = tick + 1 /\ hangups' = hangups
      /\ view' = [view EXCEPT !.stamp = "verifying"]
      /\ e = [cmd EXCEPT ![p] = x] /\ cmd' = Remember(e, b)
  BY DEF Copy
<1>3. /\ tick' \in Ticks \ {0} /\ NotAfter(view.witness, tick')
      /\ \A c \in Commands :
           /\ NotAfter(c.ref, tick) => NotAfter(c.ref, tick')
           /\ (\A g \in Files : c.open[g].tick <= tick)
                => \A g \in Files : c.open[g].tick <= tick'
  BY <1>2, TickOn
<1>4. tick \in Nat /\ cmd \in [Ops -> Commands] BY TickNat DEF WInv, Ticking
<1>5. t \in Ticks /\ t = tick' /\ t = tick + 1 BY <1>2, <1>3
<1>6. b \in Blobs /\ \A f \in Files : b[f].tick = t
  <2>1. b = [f \in Files |-> [tick |-> t, good |-> IF f \in bad THEN {1} ELSE Halves]]
    BY <1>1
  <2> HIDE DEF b, t
  <2>2. \A f \in Files : (IF f \in bad THEN {1} ELSE Halves) \in SUBSET Halves BY DEF Halves
  <2> QED BY <1>5, <2>1, <2>2 DEF Blobs
<1>7. Later(blob, b, tick) BY <1>5, <1>6 DEF Later
<1>8. x = Verify("prepare") OBVIOUS
<1>9. Ticking BY DEF WInv
<1> HIDE DEF e, x
<1>10. /\ x \in Commands /\ NotAfter(x.ref, tick) /\ \A f \in Files : x.open[f].tick <= tick
       /\ (x.whole => x.were = Files) /\ Opened(x, b) /\ Observing(x) /\ Certifies(x, b)
       /\ ~AllSeen(x.ref) /\ ~(x.pc = "load" \/ Observes(x, {2}))
  BY <1>8, <1>9, Begins DEF b
<1>11. cmd' \in [Ops -> Commands] /\ cmd'[p] = Rem(x, b)
       /\ \A q \in Ops \ {p} : cmd'[q] = Rem(cmd[q], b)
  <2> HIDE DEF b
  <2> QED BY <1>2, <1>9, <1>10, BecomesIs
<1>12. ViewKeeps(Rem(x, b), b) /\ Certifies(Rem(x, b), b) BY <1>10, RemFits DEF b
<1>13. /\ Rem(x, b).ref = x.ref /\ Rem(x, b).open = x.open /\ Rem(x, b).pc = x.pc
       /\ Rem(x, b).pass = x.pass
  BY <1>10, RemIs DEF b
<1>14. Settled(cmd'[p])
  BY <1>10, <1>11, <1>12, <1>13 DEF Settled, Observes
<1>15. \A q \in Ops : NotAfter(cmd'[q].ref, tick')
                      /\ \A g \in Files : cmd'[q].open[g].tick <= tick'
  <2>1. TAKE q \in Ops
  <2>2. CASE q = p
    <3>1. cmd'[q].ref = x.ref /\ cmd'[q].open = x.open BY <1>11, <1>13, <2>2
    <3> QED BY <1>3, <1>10, <3>1
  <2>3. CASE q # p
    <3>1. cmd[q] \in Commands /\ NotAfter(cmd[q].ref, tick)
          /\ \A g \in Files : cmd[q].open[g].tick <= tick
      BY <1>9 DEF Ticking
    <3>2. Rem(cmd[q], b).ref = cmd[q].ref /\ Rem(cmd[q], b).open = cmd[q].open
      BY <3>1, RemIs DEF b
    <3>3. cmd'[q] = Rem(cmd[q], b) BY <1>11, <2>3
    <3> QED BY <1>3, <3>1, <3>2, <3>3
  <2> QED BY <2>2, <2>3
<1>16. view' \in Views /\ view'.witness = view.witness
  BY <1>2, <1>9 DEF Ticking, Views
<1>17. \A f \in Files : b[f].tick <= tick'
  <2>1. \A f \in Files : b[f].tick = tick' BY <1>5, <1>6
  <2>2. tick' \in Nat BY <1>3, TickNat
  <2> HIDE DEF b
  <2> QED BY <2>1, <2>2
<1>18. hangups' \in 0 .. MaxHangups BY <1>2, <1>9 DEF Ticking
<1>19. Ticking'
  <2>1. Recorded(view'.witness) /\ NotAfter(view'.witness, tick')
    BY <1>3, <1>9, <1>16 DEF Ticking
  <2>2. blob' \in Blobs /\ \A f \in Files : blob'[f].tick <= tick' BY <1>6, <1>17
  <2> HIDE DEF b
  <2> QED BY <1>3, <1>11, <1>15, <1>16, <1>18, <2>1, <2>2
          DEF Ticking, NotAfter, Recorded, AllSeen
<1>20. Vouches(view'.witness, b)
  <2>1. view.witness \in Metadata /\ NotAfter(view.witness, tick) /\ Vouches(view.witness, blob)
    BY DEF WInv, Ticking, Views
  <2> HIDE DEF b
  <2> QED BY <1>4, <1>7, <1>16, <2>1, VouchesStays
<1>21. \A w \in Metadata : (AllSeen(w) /\ Refuted(w, blob, view.witness, cmd)) => view'.witness # w
  BY <1>16 DEF Refuted
<1>22. /\ \A q \in Ops \cap M : Settled(cmd'[q])
       /\ \A q \in Ops \ M : cmd'[q] = Rem(cmd[q], b)
  BY <1>11, <1>14
<1> HIDE DEF M, t
<1> QED BY <1>7, <1>19, <1>20, <1>21, <1>22, Advance DEF b

-----------------------------------------------------------------------------
(* The theorems.                                                           *)

LEMMA ViewInit == WitnessInit => WInv
<1> SUFFICES ASSUME WitnessInit PROVE WInv OBVIOUS
<1>1. PICK bad \in {{}, {Min(Files)}} :
        /\ blob = [f \in Files |-> [tick |-> 1, good |-> IF f \in bad THEN {1} ELSE Halves]]
        /\ view = [there |-> TRUE, stamp |-> "ready",
                   witness |-> [f \in Files |-> IF bad = {} THEN 1 ELSE Missing]]
  BY DEF WitnessInit
<1>2. cmd = [p \in Ops |-> Idle] /\ tick = 1 /\ hangups = 0 BY DEF WitnessInit
<1> DEFINE w == [f \in Files |-> IF bad = {} THEN 1 ELSE Missing]
<1>3. w \in Metadata /\ (\A f \in Files : w[f] = IF bad = {} THEN 1 ELSE Missing)
  BY TickNat DEF Metadata
<1>4. view = [there |-> TRUE, stamp |-> "ready", witness |-> w] BY <1>1
<1> HIDE DEF w
<1>5. view \in Views /\ view.witness = w BY <1>3, <1>4 DEF Views
<1>6. blob \in Blobs /\ \A f \in Files : blob[f].tick = 1
                          /\ blob[f].good = IF f \in bad THEN {1} ELSE Halves
  <2>1. \A f \in Files : (IF f \in bad THEN {1} ELSE Halves) \in SUBSET Halves BY DEF Halves
  <2> QED BY <1>1, <2>1, TickNat DEF Blobs
<1>7. Vouches(view.witness, blob)
  <2>1. CASE bad = {} BY <1>6, <2>1 DEF Vouches, Sound
  <2>2. CASE bad # {} BY <1>3, <1>5, <1>6, <2>2 DEF Vouches, Gone, Missing
  <2> QED BY <2>1, <2>2
<1>8. NotAfter(view.witness, tick)
  <2>1. \A f \in Files : w[f] \in {0, 1} BY <1>3 DEF Missing
  <2> QED BY <1>2, <1>5, <2>1 DEF NotAfter
<1>9. cmd \in [Ops -> Commands] /\ \A p \in Ops : cmd[p] = Idle BY <1>2, IdleIs
<1>10. tick \in Ticks \ {0} /\ hangups \in 0 .. MaxHangups
  BY <1>2, TickNat, TicksAssumption
<1>11. NotAfter(NoWitness, tick) /\ \A f \in Files : Closed[f].tick <= tick
  BY <1>2, IdleIs DEF NotAfter, Missing
<1>12. \A f \in Files : blob[f].tick <= tick BY <1>2, <1>6
<1>13. Recorded(view.witness)
  <2>1. \A f \in Files : w[f] = NoWitness[f] \/ bad = {} BY <1>3, IdleIs
  <2>2. bad # {} => w = NoWitness BY <1>3, <2>1, IdleIs DEF Metadata
  <2>3. bad = {} => AllSeen(w) BY <1>3 DEF AllSeen, Missing
  <2> QED BY <1>5, <2>2, <2>3 DEF Recorded
<1>14. Ticking BY <1>5, <1>6, <1>8, <1>9, <1>10, <1>11, <1>12, <1>13, IdleIs DEF Ticking
<1>15. ViewKeeps(Idle, blob) /\ Certifies(Idle, blob) /\ Trusts(Idle, blob, view.witness, cmd)
  BY <1>14, IdleRests, RestingIs DEF Trusts
<1> QED BY <1>7, <1>9, <1>14, <1>15 DEF WInv

LEMMA StillHolds == ASSUME WInv, UNCHANGED wvars PROVE WInv'
<1>1. blob' = blob /\ view' = view /\ cmd' = cmd /\ tick' = tick /\ hangups' = hangups
  BY DEF wvars
<1>2. Ticking' BY <1>1 DEF WInv, Ticking, NotAfter, Recorded, AllSeen
<1>3. Vouches(view'.witness, blob') BY <1>1 DEF WInv
<1>4. \A p \in Ops : /\ ViewKeeps(cmd'[p], blob') /\ Certifies(cmd'[p], blob')
                     /\ Trusts(cmd'[p], blob', view'.witness, cmd')
  BY <1>1 DEF WInv
<1> QED BY <1>2, <1>3, <1>4 DEF WInv

LEMMA ViewNext == ASSUME WInv, [WitnessNext]_wvars PROVE WInv'
<1>1. CASE UNCHANGED wvars BY <1>1, StillHolds
<1>2. CASE Write BY <1>2, WriteStep
<1>3. ASSUME NEW p \in Ops,
             Check(p) \/ Pin(p) \/ Purge(p) \/ Verifying(p) \/ Materializing(p) \/ Hangup(p)
      PROVE  WInv'
  <2>1. CASE Check(p) \/ Pin(p) BY <2>1, BeginSteps
  <2>2. CASE Purge(p) BY <2>2, PurgeStep
  <2>3. CASE Hangup(p) BY <2>3, HangupStep
  <2>4. CASE Verifying(p)
    <3>1. CASE Observe(p) BY <3>1, ObserveStep
    <3>2. CASE Load(p) BY <3>2, LoadStep
    <3>3. CASE WriteWitness(p) BY <3>3, WriteWitnessStep
    <3>4. CASE Accepted(p) BY <3>4, AcceptedStep
    <3>5. CASE \E f \in Files : OpenFile(p, f) \/ CloseFile(p, f)
      BY <3>5, OpenStep, CloseStep
    <3> QED BY <2>4, <3>1, <3>2, <3>3, <3>4, <3>5 DEF Verifying
  <2>5. CASE Materializing(p)
    BY <2>5, BeginSteps, ClearStep, CopyStep, PublishStep, RemoveStep DEF Materializing
  <2> QED BY <1>3, <2>1, <2>2, <2>3, <2>4, <2>5
<1> QED BY <1>1, <1>2, <1>3 DEF WitnessNext

\* The inductive invariant holds in every reachable state.
THEOREM ViewWitness_Invariant == WitnessSpec => []WInv
<1>1. WInv /\ [WitnessNext]_wvars => WInv' BY ViewNext
<1> QED BY <1>1, ViewInit, PTL DEF WitnessSpec

\* Every variable keeps its type.
THEOREM ViewWitness_TypeCorrect == WitnessSpec => []WitnessTypeOK
<1>1. WInv => WitnessTypeOK BY DEF WInv, Ticking, WitnessTypeOK, Blobs
<1> QED BY <1>1, ViewWitness_Invariant, PTL

\* What a verification accepts, by the stored witness or by hashing, was whole:
\* all files at one moment since it began, or each at some moment of its own when
\* no observations surround the hashing (pin, unpin).
THEOREM ViewWitness_Accepted == WitnessSpec => []AcceptedWasWhole
<1>1. WInv => AcceptedWasWhole BY DEF WInv, Certifies, AcceptedWasWhole
<1> QED BY <1>1, ViewWitness_Invariant, PTL

\* While the files have the metadata the stored witness records, they are what
\* the manifest says.
THEOREM ViewWitness_Vouched == WitnessSpec => []WitnessVouches
<1>1. ASSUME WInv PROVE WitnessVouches
  <2> SUFFICES ASSUME view.witness = Current, Current # NoWitness
               PROVE  WholeFiles(blob) = Files
    BY DEF WitnessVouches
  <2>1. AllSeen(view.witness) BY <1>1 DEF WInv, Ticking, Recorded
  <2>2. \A f \in Files : blob[f].tick = view.witness[f] BY DEF Current
  <2> QED BY <1>1, <2>1, <2>2 DEF WInv, Vouches, Gone, Sound, WholeFiles, AllSeen
<1> QED BY <1>1, ViewWitness_Invariant, PTL
===============================================================================
