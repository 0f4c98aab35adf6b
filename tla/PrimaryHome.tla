----------------------------- MODULE PrimaryHome -----------------------------
(***************************************************************************)
(* The distributed catalog of one model: `catalog refresh`, the operator's  *)
(* choice of a primary home (`catalog primary set | clear`), `resolve`, and *)
(* the planning half of `prepare`, up to the accepted plan.                 *)
(*                                                                         *)
(* The catalog is a file that only refresh, set and clear write; home       *)
(* commands change the homes beside it (`home remove` alone refreshes       *)
(* afterwards), other programs change the trees, and a discovery the        *)
(* topology, so the catalog is stale as a rule.  A preparation starts from  *)
(* it and must not be misled: it inspects the home live and compares the    *)
(* directory with the attachment document, under the shared lifecycle lock. *)
(*                                                                         *)
(* A rank's directory holds one revision here.  A home command is one step: *)
(* HomeLibrary has its parts.                                               *)
(***************************************************************************)
EXTENDS Naturals, FiniteSets, FiniteSetsExt

CONSTANTS
  Revs,        \* exact revisions of the model
  Nodes,       \* machines
  Controller,  \* the node that runs the commands: rank 0
  Users,       \* commands at work
  MaxChanges   \* bound on changes of trees, homes and topology

VARIABLES
  disk,        \* the model's directory on each node
  attached,    \* the attachment document of each revision
  receipts,    \* the revisions that have a download receipt
  topo,        \* the confirmed topology: the node of each rank
  catalog,     \* the catalog file
  op,          \* what each command is doing
  changes,     \* changes so far; numbers directories too
  fresh        \* history: no home command since the last refresh wrote
cvars == <<disk, attached, receipts, topo, catalog, op, changes, fresh>>

Ranks == {0, 1}
Topologies == {t \in [Ranks -> Nodes] : t[0] = Controller /\ t[1] # Controller}
None == "none"
Unknown == "cold"          \* a revision that is not a commit
ASSUME CatalogAssumption ==
  /\ Controller \in Nodes /\ Nodes # {Controller} /\ None \notin Nodes
  /\ Revs # {} /\ None \notin Revs /\ Unknown \notin Revs
  /\ MaxChanges \in Nat \ {0}

Dirs == 0..MaxChanges

\* good: the bytes are the receipt's, which are the spec's manifest's.
Trees == [rev : Revs \cup {Unknown}, dir : Dirs, complete : BOOLEAN, good : BOOLEAN]
NoTree == [rev |-> None, dir |-> 0, complete |-> FALSE, good |-> FALSE]
NoHome == [node |-> None, dir |-> 0]

Reasons == {None, "missing-receipt", "missing-occupancy", "not-current-occupancy",
            "non-exact-revision"}
Homes == [rank : Ranks, node : Nodes, rev : Revs \cup {Unknown}, dir : Dirs,
          complete : BOOLEAN, class : {"occupancy", "unbound-complete", "partial"},
          reason : Reasons]
Catalogs == [made : BOOLEAN, topo : Topologies, homes : SUBSET Homes,
             sel : [Revs -> Nodes \cup {None}]]

\* found: what a refresh scanned so far; built: the catalog a command will write;
\* good: what a preparation's inspection said; was: a history, see PlannedIsHome.
AtRest == [kind |-> None, pc |-> "rest", rev |-> None, todo |-> {}, rank |-> 0,
           node |-> None, serving |-> {}, good |-> FALSE, was |-> FALSE,
           topo |-> << >>, found |-> {}, built |-> << >>]

\* Every variable keeps its type.
CatalogTypeOK ==
  /\ disk \in [Nodes -> Trees \cup {NoTree}]
  /\ attached \in [Revs -> [node : Nodes, dir : Dirs] \cup {NoHome}]
  /\ receipts \subseteq Revs /\ topo \in Topologies
  /\ catalog \in Catalogs
  /\ \A u \in Users : op[u].pc \in {"rest", "scan", "build", "write", "answered",
                                    "inspect", "receipt", "plan", "planned", "stage"}
  /\ changes \in 0..MaxChanges /\ fresh \in BOOLEAN

\* Revision v's home on node n is the attached directory, with the right bytes.
IsHomeOn(trees, v, n) ==
  /\ attached[v].node = n /\ trees[n].dir = attached[v].dir
  /\ trees[n].rev = v /\ trees[n].complete /\ trees[n].good
IsHome(v, n) == IsHomeOn(disk, v, n)

-----------------------------------------------------------------------------
(* Locks and the start of a command.                                       *)

Exclusive == {"refresh", "set", "clear", "adopt"}

\* Mutant: catalog commands take the lifecycle lock shared.
CompatibleShared(k, j) == ~(k = "prepare" /\ j = "prepare")

\* The lifecycle lock; preparations exclude each other by the hot lock.
Compatible(k, j) ==
  k \notin Exclusive /\ j \notin Exclusive /\ ~(k = "prepare" /\ j = "prepare")

Enter(u, kind) ==
  /\ op[u] = AtRest
  /\ \A w \in Users \ {u} : op[w] # AtRest => Compatible(kind, op[w].kind)

Leave(u) == op' = [op EXCEPT ![u] = AtRest]
AllAtRest == \A u \in Users : op[u] = AtRest

-----------------------------------------------------------------------------
(* catalog refresh: scan the ranks, build, write.                          *)

Refreshing(u) == [AtRest EXCEPT !.kind = "refresh", !.pc = "scan", !.topo = topo]

\* --local-only scans the controller alone.
RefreshBegin(u) ==
  /\ Enter(u, "refresh")
  /\ \E todo \in {Ranks, {0}} : op' = [op EXCEPT ![u] = [Refreshing(u) EXCEPT !.todo = todo]]
  /\ UNCHANGED <<disk, attached, receipts, topo, catalog, changes, fresh>>

\* What scan-hub reports of a rank.
Scanned(r, n) ==
  IF disk[n] = NoTree THEN {}
    ELSE {[rank |-> r, node |-> n, rev |-> disk[n].rev, dir |-> disk[n].dir,
           complete |-> disk[n].complete, class |-> "partial", reason |-> None]}

\* A rank that does not answer ends the refresh.
RefreshScan(u) ==
  /\ op[u].pc = "scan"
  /\ LET r == Min(op[u].todo)
         left == op[u].todo \ {r} IN
       \/ r # 0 /\ Leave(u)
       \/ op' = [op EXCEPT ![u].todo = left,
                           ![u].found = @ \cup Scanned(r, op[u].topo[r]),
                           ![u].pc = IF left = {} THEN "build" ELSE "scan"]
  /\ UNCHANGED <<disk, attached, receipts, topo, catalog, changes, fresh>>

\* Mutant: the directory's identity is not compared.
OccupiesPath(h) == h.rev \in Revs /\ attached[h.rev].node = h.node

\* A complete tree is the home when node, path and directory are the attached ones.
Occupies(h) == h.rev \in Revs /\ attached[h.rev] = [node |-> h.node, dir |-> h.dir]

UnboundReason(h) ==
  CASE h.rev \notin Revs -> "non-exact-revision"
    [] h.rev \in Revs /\ h.rev \notin receipts -> "missing-receipt"
    [] h.rev \in receipts /\ attached[h.rev] = NoHome -> "missing-occupancy"
    [] OTHER -> "not-current-occupancy"

Classified(h) ==
  IF ~h.complete THEN h
  ELSE IF Occupies(h) THEN [h EXCEPT !.class = "occupancy"]
  ELSE [h EXCEPT !.class = "unbound-complete", !.reason = UnboundReason(h)]

\* The old catalog's selections, whatever the scan found.
KeptSelections(found) == catalog.sel

\* An attachment without its receipt stops the build.
RefreshBuild(u) ==
  /\ op[u].pc = "build"
  /\ LET found == op[u].found IN
       IF \E h \in found : h.rev \in Revs \ receipts /\ attached[h.rev] # NoHome
         THEN Leave(u)
         ELSE op' = [op EXCEPT ![u].pc = "write",
                       ![u].built = [made |-> TRUE, topo |-> op[u].topo,
                                     homes |-> {Classified(h) : h \in found},
                                     sel |-> KeptSelections(found)]]
  /\ UNCHANGED <<disk, attached, receipts, topo, catalog, changes, fresh>>

\* One rename.
WriteCatalog(u) ==
  /\ op[u].pc = "write"
  /\ catalog' = op[u].built
  /\ fresh' = (fresh \/ op[u].kind = "refresh")
  /\ Leave(u)
  /\ UNCHANGED <<disk, attached, receipts, topo, changes>>

-----------------------------------------------------------------------------
(* The primary home.                                                       *)

OccupiedHomes(c, v) == {h \in c.homes : h.rev = v /\ h.complete /\ h.class = "occupancy"}
UnboundHomes(c, v) == {h \in c.homes : h.rev = v /\ h.complete /\ h.class # "occupancy"}

\* The selected home if there is a selection, else the only one.
Primary(c, v) ==
  LET all == OccupiedHomes(c, v) IN
  IF c.sel[v] # None THEN {h \in all : h.node = c.sel[v]}
                     ELSE IF Cardinality(all) = 1 THEN all ELSE {}

\* The selector must name one occupied home that is where the topology says.
PrimarySet(u, v, n) ==
  /\ Enter(u, "set") /\ catalog.made /\ catalog.topo = topo
  /\ LET named == {h \in OccupiedHomes(catalog, v) : h.node = n} IN
       Cardinality(named) = 1 /\ \A h \in named : topo[h.rank] = n
  /\ catalog.sel[v] # n
  /\ op' = [op EXCEPT ![u] = [AtRest EXCEPT !.kind = "set", !.pc = "write", !.rev = v,
                                            !.built = [catalog EXCEPT !.sel[v] = n]]]
  /\ UNCHANGED <<disk, attached, receipts, topo, catalog, changes, fresh>>

\* A selection can be cleared when its model has no home any more.
PrimaryClear(u, v) ==
  /\ Enter(u, "clear") /\ catalog.made /\ catalog.topo = topo
  /\ catalog.sel[v] # None
  /\ op' = [op EXCEPT ![u] = [AtRest EXCEPT !.kind = "clear", !.pc = "write", !.rev = v,
                                            !.built = [catalog EXCEPT !.sel[v] = None]]]
  /\ UNCHANGED <<disk, attached, receipts, topo, catalog, changes, fresh>>

-----------------------------------------------------------------------------
(* resolve, and the plan of prepare.                                       *)

\* The revisions a profile stands for, and a model: those with a home, else those
\* with an unbound tree.
Targeted(c) ==
  LET occupied == {v \in Revs : OccupiedHomes(c, v) # {}} IN
  IF occupied # {} THEN occupied ELSE {v \in Revs : UnboundHomes(c, v) # {}}

Meant(c, q) == IF q \in Revs THEN {q} ELSE Targeted(c)

\* The home a query resolves to, or nothing: several revisions, a stale selection,
\* no home, or several and none selected.  No query falls through to cold storage
\* but by an explicit --cold-root, and that answer names no home.
Resolved(c, q) ==
  IF c.made /\ Cardinality(Meant(c, q)) = 1
    THEN Primary(c, CHOOSE v \in Meant(c, q) : TRUE) ELSE {}

Resolve(u, q) ==
  /\ Enter(u, "resolve")
  /\ \E h \in Resolved(catalog, q) :
       op' = [op EXCEPT ![u] = [AtRest EXCEPT !.kind = "resolve", !.pc = "answered",
                                  !.rev = h.rev, !.rank = h.rank, !.node = h.node]]
  /\ UNCHANGED <<disk, attached, receipts, topo, catalog, changes, fresh>>

\* The ranks a selector means; a node's rank, names and address are one value here.
Selected(n) == {r \in Ranks : topo[r] = n}

\* What a preparation is asked for: nothing (one rank), one rank, or all of them.
Asked == {{}, Ranks} \cup {Selected(n) : n \in Nodes}

\* The catalog's home must be on the node the confirmed topology has there.
PrepareResolve(u, v, serving) ==
  /\ Enter(u, "prepare")
  /\ \E h \in Resolved(catalog, v) :
       /\ topo[h.rank] = h.node
       /\ op' = [op EXCEPT ![u] = [AtRest EXCEPT !.kind = "prepare", !.pc = "inspect",
                    !.rev = v, !.rank = h.rank, !.node = h.node, !.serving = serving,
                    !.topo = topo, !.was = IsHome(v, h.node)]]
  /\ UNCHANGED <<disk, attached, receipts, topo, catalog, changes, fresh>>

\* The plan wants a complete tree of the catalog's revision, hashed byte by byte.
\* Receipt, spec and home have one list of files and hashes.
SameFiles(t) == t.good
Sealed(t, v) == t.rev = v /\ t.complete /\ SameFiles(t)

\* inspect-hub on the home's node.
PrepareInspect(u) ==
  /\ op[u].pc = "inspect"
  /\ op' = [op EXCEPT ![u].pc = "receipt",
                      ![u].good = Sealed(disk[op[u].node], op[u].rev)]
  /\ UNCHANGED <<disk, attached, receipts, topo, catalog, changes, fresh>>

\* Mutant: node and path are enough for a receipt to be the home's.
AttachedPath(u) == attached[op[u].rev].node = op[u].node

\* The attachment must name this node, path and live directory, and its receipt
\* must be there.
Attached(u) ==
  /\ attached[op[u].rev].node = op[u].node
  /\ attached[op[u].rev].dir = disk[op[u].node].dir
  /\ op[u].rev \in receipts

PrepareReceipt(u) ==
  /\ op[u].pc = "receipt"
  /\ IF Attached(u) THEN op' = [op EXCEPT ![u].pc = "plan"] ELSE Leave(u)
  /\ UNCHANGED <<disk, attached, receipts, topo, catalog, changes, fresh>>

\* A service of one rank runs on the home's rank unless another is asked for, which
\* is refused; a wider one runs on the first ranks.
Targets(u) == IF op[u].serving = {} THEN {op[u].rank} ELSE op[u].serving

\* The catalog is this topology's, the home among the serving ranks, and what was
\* hashed is the receipt's and the spec's file list.
PlanAccepts(u) ==
  catalog.topo = op[u].topo /\ op[u].rank \in Targets(u) /\ op[u].good

PreparePlan(u) ==
  /\ op[u].pc = "plan"
  /\ IF PlanAccepts(u) THEN op' = [op EXCEPT ![u].pc = "planned"] ELSE Leave(u)
  /\ UNCHANGED <<disk, attached, receipts, topo, catalog, changes, fresh>>

\* The command ends, or a step of it fails, or it is killed.
Finished(u) ==
  /\ op[u] # AtRest /\ Leave(u)
  /\ UNCHANGED <<disk, attached, receipts, topo, catalog, changes, fresh>>

-----------------------------------------------------------------------------
(* What the operator is told, from the catalog alone.                      *)

\* Why revision v resolves to no home.
Refusal(c, v) ==
  LET occupied == OccupiedHomes(c, v)
      unbound == UnboundHomes(c, v)
      listed == \E h \in c.homes : h.rev = v
      unknown == \E h \in unbound : h.reason \in {"missing-receipt", "non-exact-revision"} IN
  CASE listed /\ c.sel[v] # None -> "catalog-stale"
    [] c.sel[v] = None /\ occupied # {} -> "duplicate-home"
    [] c.sel[v] = None /\ occupied = {} /\ unknown -> "unreceipted-tree"
    [] c.sel[v] = None /\ occupied = {} /\ unbound # {} /\ ~unknown -> "occupancy-missing"
    [] OTHER -> "no-home"

\* Why it has no views, for a service placed on rank r.
Readiness(c, v, r) ==
  LET primary == Primary(c, v)
      current == c.made /\ c.topo = topo IN
  CASE ~c.made -> "catalog-missing"
    [] c.made /\ c.topo # topo -> "catalog-stale"
    [] current /\ primary = {} -> Refusal(c, v)
    [] current /\ \E h \in primary : h.rank # r -> "wrong-placement"
    [] OTHER -> "views-missing"

\* The trees cleanup-recommend says may be inspected and removed: unbound ones,
\* and of several homes those that are not the primary one.
RemovalAdvised(c) ==
  UNION {LET occupied == OccupiedHomes(c, v) IN
         IF Cardinality(occupied) <= 1 THEN UnboundHomes(c, v)
         ELSE IF Primary(c, v) = {} THEN {} ELSE occupied \ Primary(c, v)
         : v \in Revs \cup {Unknown}}

-----------------------------------------------------------------------------
(* Trees and homes.                                                        *)

\* Node n's directory becomes t; what the preparations will have seen.
Becoming(n, t) ==
  /\ changes < MaxChanges /\ changes' = changes + 1
  /\ disk' = [disk EXCEPT ![n] = t]
Histories(o) ==
  [u \in Users |-> IF o[u].kind # "prepare" THEN o[u]
     ELSE [o[u] EXCEPT !.was = @ \/ IsHomeOn(disk', o[u].rev, o[u].node)]]

NewTree(v, complete, good) ==
  [rev |-> v, dir |-> changes + 1, complete |-> complete, good |-> good]

\* home add: a download, its receipt and its attachment.
HomeAdd(n, v) ==
  /\ AllAtRest /\ disk[n] = NoTree /\ \E r \in Ranks : topo[r] = n
  /\ Becoming(n, NewTree(v, TRUE, TRUE))
  /\ attached' = [attached EXCEPT ![v] = [node |-> n, dir |-> changes + 1]]
  /\ receipts' = receipts \cup {v}
  /\ fresh' = FALSE
  /\ UNCHANGED <<topo, catalog, op>>

\* home relocate: a complete tree with the receipt's bytes is occupied in place,
\* or the home is copied to a node without one.  The source stays.
HomeRelocate(n, v) ==
  /\ AllAtRest /\ v \in receipts /\ \E r \in Ranks : topo[r] = n
  /\ \E h \in catalog.homes : h.rev = v
  /\ \/ /\ disk[n].rev = v /\ disk[n].complete /\ disk[n].good
        /\ Becoming(n, disk[n])
        /\ attached' = [attached EXCEPT ![v] = [node |-> n, dir |-> disk[n].dir]]
     \/ /\ disk[n] = NoTree
        /\ \E s \in Nodes \ {n} : IsHome(v, s)
        /\ Becoming(n, NewTree(v, TRUE, TRUE))
        /\ attached' = [attached EXCEPT ![v] = [node |-> n, dir |-> changes + 1]]
  /\ fresh' = FALSE
  /\ UNCHANGED <<receipts, topo, catalog, op>>

\* home remove: detached, deleted, and then a refresh under the same lock.
HomeRemove(u, n) ==
  /\ AllAtRest /\ \E r \in Ranks : topo[r] = n
  /\ disk[n].rev \in Revs
  /\ attached' = [attached EXCEPT ![disk[n].rev] = IF @.node = n THEN NoHome ELSE @]
  /\ Becoming(n, NoTree)
  /\ fresh' = FALSE
  /\ op' = [op EXCEPT ![u] = [Refreshing(u) EXCEPT !.todo = Ranks]]
  /\ UNCHANGED <<receipts, topo, catalog>>

\* A cold tree in hub layout has its commit, a flat one an invented revision.
ColdRevs == Revs \cup {Unknown}

\* cold adopt: the controller's directory must be absent when planned ...
AdoptPlan(u, v) ==
  /\ Enter(u, "adopt") /\ disk[Controller] = NoTree
  /\ op' = [op EXCEPT ![u] = [AtRest EXCEPT !.kind = "adopt", !.pc = "stage", !.rev = v]]
  /\ UNCHANGED <<disk, attached, receipts, topo, catalog, changes, fresh>>

\* ... and when the staged copy is renamed to it, which replaces nothing.
AdoptPublish(u) ==
  /\ op[u].pc = "stage"
  /\ disk[Controller] = NoTree
  /\ \E good \in BOOLEAN : Becoming(Controller, NewTree(op[u].rev, TRUE, good))
  /\ Leave(u)
  /\ UNCHANGED <<attached, receipts, topo, catalog, fresh>>

\* Other programs make, replace, damage or delete a tree.
Outside(n) ==
  /\ \/ Becoming(n, NoTree) /\ disk[n] # NoTree
     \/ Becoming(n, [disk[n] EXCEPT !.good = FALSE]) /\ disk[n].good
     \/ \E v \in Revs \cup {Unknown}, complete, good \in BOOLEAN :
          (good => complete) /\ Becoming(n, NewTree(v, complete, good))
  /\ UNCHANGED <<attached, receipts, topo, catalog, fresh>>
  /\ op' = Histories(op)

\* A discovery is confirmed; it takes no lock.
Rediscover ==
  /\ changes < MaxChanges /\ changes' = changes + 1
  /\ topo' \in Topologies \ {topo}
  /\ UNCHANGED <<disk, attached, receipts, catalog, op, fresh>>

\* One revision has its home on rank 1; the catalog is made, or not yet.  Which
\* revision and which nodes makes no difference.
CatalogInit ==
  \E made \in BOOLEAN :
    LET v == CHOOSE w \in Revs : TRUE
        t == CHOOSE s \in Topologies : TRUE
        tree == [rev |-> v, dir |-> 1, complete |-> TRUE, good |-> TRUE]
        home == [rank |-> 1, node |-> t[1], rev |-> v, dir |-> 1, complete |-> TRUE,
                 class |-> "occupancy", reason |-> None]
    IN /\ disk = [n \in Nodes |-> IF n = t[1] THEN tree ELSE NoTree]
       /\ attached = [w \in Revs |-> IF w = v THEN [node |-> t[1], dir |-> 1] ELSE NoHome]
       /\ receipts = {v} /\ topo = t
       /\ catalog = [made |-> made, topo |-> t, homes |-> IF made THEN {home} ELSE {},
                     sel |-> [w \in Revs |-> None]]
       /\ op = [u \in Users |-> AtRest]
       /\ changes = 1 /\ fresh = made

Cataloging(u) == \/ RefreshBegin(u) \/ RefreshScan(u) \/ RefreshBuild(u)
                 \/ WriteCatalog(u) \/ Finished(u)
                 \/ \E v \in Revs : PrimaryClear(u, v) \/ \E n \in Nodes : PrimarySet(u, v, n)
Planning(u) == \/ PrepareInspect(u) \/ PrepareReceipt(u) \/ PreparePlan(u)
               \/ \E q \in Revs \cup {"model"} : Resolve(u, q)
               \/ \E v \in Revs, serving \in Asked : PrepareResolve(u, v, serving)
Moving(u) == \/ \E n \in Nodes : HomeRemove(u, n)
             \/ AdoptPublish(u) \/ \E v \in ColdRevs : AdoptPlan(u, v)

CatalogNext ==
  \/ \E u \in Users : Cataloging(u) \/ Planning(u) \/ Moving(u)
  \/ \E n \in Nodes : Outside(n) \/ \E v \in Revs : HomeAdd(n, v) \/ HomeRelocate(n, v)
  \/ Rediscover

CatalogSpec == CatalogInit /\ [][CatalogNext]_cvars

-----------------------------------------------------------------------------
(* Properties                                                              *)

\* When no home command ran since the last refresh, what the catalog tells agrees
\* with the stores: it calls a tree a home only if the attachment document does; a
\* revision said to lack only its views has its attached home there, one said to
\* lack a receipt has none, one that can be occupied in place has one; and the
\* attached home is never among the trees that may be removed.
CatalogFollowsHomes ==
  fresh =>
    /\ \A h \in catalog.homes :
         h.class = "occupancy" => attached[h.rev] = [node |-> h.node, dir |-> h.dir]
    /\ \A h \in RemovalAdvised(catalog) :
         h.rev \in Revs => attached[h.rev] # [node |-> h.node, dir |-> h.dir]
    /\ \A v \in Revs, r \in Ranks :
         LET told == Readiness(catalog, v, r) IN
         /\ told = "views-missing" => attached[v].node = catalog.topo[r]
         /\ told = "unreceipted-tree" => v \notin receipts
         /\ told = "occupancy-missing" => v \in receipts

\* The operator's choice of a home changes only by a set or clear of that revision:
\* no refresh, whatever it scanned and whatever ran beside it, loses or revives one.
SelectionsKept ==
  [][\A v \in Revs : catalog'.sel[v] # catalog.sel[v] =>
       \E u \in Users : op[u].kind \in {"set", "clear"} /\ op[u].rev = v /\ op[u].pc = "write"]_cvars

\* However stale the catalog: an accepted plan's source was, at some moment since
\* the command began, the attached directory with all the receipt's bytes, and
\* resolve and prepare never answer another home than the one selected.
PlannedIsHome ==
  \A u \in Users :
    /\ op[u].pc = "planned" => op[u].was
    /\ op[u].pc \in {"answered", "planned"} /\ catalog.sel[op[u].rev] # None =>
         op[u].node = catalog.sel[op[u].rev]
=============================================================================
