------------------------- MODULE ManagedContainers -------------------------
(***************************************************************************)
(* The containers on the confirmed nodes and the commands that remove and  *)
(* start them: scripts/down.sh, cluster/stop-cluster.sh, the clearing and  *)
(* starting half of cluster/start-cluster.sh and serve.sh, and the         *)
(* ownership rules of scripts/lib.sh they all rest on.                     *)
(*                                                                         *)
(* No command holds a lock against another one: a stop, a second stop and  *)
(* a launch may interleave between any two docker calls, and any call may  *)
(* find its node unreachable.  What keeps them apart is the discipline of  *)
(* proving labels first and removing by the immutable id.                  *)
(***************************************************************************)
EXTENDS Naturals, FiniteSetsExt

CONSTANTS
  Ops,         \* shells an operator runs commands from
  Count,       \* number of confirmed nodes; node 0 is the controller
  Confs,       \* profile names that occur in labels and commands
  Released,    \* those with a released spec
  World,       \* World[c]: the nodes of c's geometry
  Single,      \* the rank label of a one-node service
  Unset,       \* a missing label, a name that is no profile's, no --node
  Ids,         \* container ids
  Found,       \* containers that others created, or earlier versions
  Menus,       \* sets of <<kind, profile, --node>>: the commands one behaviour runs
  Flaky,       \* whether an inspect may fail while its daemon answers
  MaxTrouble   \* bound on outages, lost answers and strangers

Nodes == 0 .. Count - 1

ASSUME CountAssumption == Count \in Nat \ {0}
ASSUME ConfsAssumption ==
  /\ Released \subseteq Confs
  /\ Unset \notin Confs
  /\ World \in [Confs -> 1 .. Count]
ASSUME LabelsAssumption ==
  Single \notin Nodes /\ Unset \notin Nodes /\ Single # Unset
ASSUME BoundsAssumption == MaxTrouble \in Nat /\ Flaky \in BOOLEAN

\* A container's node, name, labels and state.  The managed label is exactly
\* "true", "true" in other letters, or anything else; world is 0 without the
\* label; place tells whether the node-id and topology labels name the node
\* the container is on.
Boxes == [node : Nodes, name : Confs \cup {Unset}, managed : {"true", "True", "no"},
          conf : Confs \cup {Unset}, rank : Nodes \cup {Single, Unset},
          world : 0 .. Count, place : {"here", "none", "elsewhere"},
          running : BOOLEAN]

\* The forms of a command that down.sh, stop-cluster.sh and up.sh let through:
\* the cluster scripts run on a wide profile, serve.sh on a node for a narrow one.
Sensible(r) ==
  /\ r \in {"cluster", "single", "labels", "all", "launch"}
           \X (Confs \cup {Unset}) \X (Nodes \cup {Unset})
  /\ r[1] # "all" => r[2] # Unset
  /\ r[1] = "cluster" => World[r[2]] > 1
  /\ r[1] = "launch" /\ World[r[2]] = 1 => r[3] # Unset

ASSUME FoundAssumption == Found \subseteq Boxes
ASSUME MenusAssumption == \A m \in Menus : \A r \in m : Sensible(r)

VARIABLES
  box,      \* box[i]: the container with id i, on the ids that exist
  up,       \* nodes whose ssh and docker answer
  cmd,      \* cmd[o]: the command shell o is running
  trouble,  \* outages, lost answers and strangers so far
  menu      \* the commands of this behaviour; never changes

vars == <<box, up, cmd, trouble, menu>>

Pairs == Nodes \X Ids

\* todo: nodes the current loop still visits; look: ids listed and not yet
\* inspected; ids: ids found and not yet removed; rc: the exit code so far;
\* own: what a launch started.  Three histories serve the properties: what
\* existed of the target at the start, what the command removed, and the
\* nodes that have not answered anybody since the start.
Commands == [kind : {"idle", "cluster", "single", "labels", "all", "launch"},
             pc : {"idle", "probe", "confirm", "discover", "named", "inspect",
                   "recheck", "endpoints", "list", "remove",
                   "absent", "verify", "start", "wait", "abort", "ended"},
             conf : Confs \cup {Unset}, at : Nodes \cup {Unset},
             todo : SUBSET Nodes, look : SUBSET Pairs, ids : SUBSET Pairs,
             rc : 0 .. 2, own : SUBSET Pairs,
             seen : SUBSET Ids, gone : SUBSET Ids, mute : SUBSET Nodes]

Nobody == [kind |-> "idle", pc |-> "idle", conf |-> Unset, at |-> Unset,
           todo |-> {}, look |-> {}, ids |-> {}, rc |-> 0, own |-> {},
           seen |-> {}, gone |-> {}, mute |-> {}]

-----------------------------------------------------------------------------
(* Ownership, from the labels docker inspect returns.                      *)

Owned(b, c, r) == b.managed = "true" /\ b.conf = c /\ b.rank = r

\* A one-node container must prove the node it is on; only a historical local
\* one may lack the label.
Placed(b) == IF b.place = "none" THEN b.node = 0 ELSE b.place = "here"

\* What a stop by name may remove.
Proven(b, c) == IF World[c] = 1 THEN Owned(b, c, Single) /\ Placed(b)
                                ELSE Owned(b, c, b.node)

\* The geometry a profile with a released spec allows on a node.
RankAllowed(b) == IF World[b.conf] = 1 THEN b.rank = Single
                  ELSE b.rank = b.node /\ b.node < World[b.conf]

\* What a stop by label may remove.  A retired profile has only its labels.
Stoppable(b) ==
  /\ b.managed = "true"
  /\ b.conf # Unset
  /\ b.rank # Unset
  /\ IF b.conf \in Released
       THEN RankAllowed(b) /\ (World[b.conf] = 1 => Placed(b))
       ELSE IF b.rank = Single THEN Placed(b)
            ELSE b.world \in 2 .. Count /\ b.rank < b.world

Exists == DOMAIN box
Named(n, c) == {<<n, i>> : i \in {j \in Exists : box[j].node = n /\ box[j].name = c}}
Managed(n) == {<<n, i>> : i \in {j \in Exists : box[j].node = n /\ box[j].managed = "true"}}
Present(p) == {p} \cap {<<box[i].node, i>> : i \in Exists}
Box(p) == box[p[2]]
Ranks(c) == 0 .. World[c] - 1

\* What an inspect shows: an inspect that fails is taken for absence when
\* `docker info`, asked separately, answers.
Shown(S) == {S} \cup (IF Flaky THEN {{}} ELSE {})

-----------------------------------------------------------------------------
(* Moving through a command.                                               *)

\* Docker keeps names unique on a node.
Free(n, c) == c = Unset \/ Named(n, c) = {}

Init ==
  /\ \E S \in SUBSET Ids : box \in [S -> Found]
  /\ \A i, j \in Exists : box[i].node = box[j].node /\ box[i].name = box[j].name
                          => i = j \/ box[i].name = Unset
  /\ up = Nodes
  /\ cmd = [o \in Ops |-> Nobody]
  /\ trouble = 0
  /\ menu \in Menus

Becomes(o, c) == cmd' = [cmd EXCEPT ![o] = c]

\* 1 is an operational error, 2 a refusal; a refusal never masks an error.
Merge(a, b) == IF b = 0 THEN a ELSE IF 1 \in {a, b} THEN 1 ELSE 2

\* The histories no property reads any more end with the command.
Ended(c, r) ==
  [c EXCEPT !.pc = "ended", !.rc = Merge(@, r), !.todo = {}, !.look = {}, !.ids = {},
            !.own = {}, !.mute = {}, !.seen = IF Merge(c.rc, r) = 0 THEN @ ELSE {}]

Lowest(S) == Min({p[1] : p \in S})
RemotesFirst(S) == IF S = {0} THEN 0 ELSE Min(S \ {0})
Wide(c) == c.conf # Unset /\ World[c.conf] > 1

\* The nodes that may have a container command c is about.
Needed(c) ==
  IF c.kind \in {"cluster", "launch"} /\ Wide(c) THEN Ranks(c.conf)
  ELSE IF c.at # Unset /\ c.kind # "labels" THEN {c.at} ELSE Nodes

\* Nothing is left to remove.
Cleared(c) ==
  CASE c.kind = "cluster" -> [c EXCEPT !.pc = "verify", !.todo = Ranks(c.conf)]
    [] c.kind = "launch" ->
         [c EXCEPT !.pc = "start", !.todo = IF Wide(c) THEN Ranks(c.conf) ELSE {c.at}]
    [] OTHER -> Ended(c, 0)

\* Mutant of Advanced: each node's containers go before the next node is listed.
AdvancedEagerly(c) ==
  IF c.look # {} THEN [c EXCEPT !.pc = "inspect"]
  ELSE IF c.ids # {}
    THEN [c EXCEPT !.pc = IF c.kind = "labels" THEN "recheck" ELSE "remove"]
  ELSE IF c.todo # {} THEN [c EXCEPT !.pc = "list"]
  ELSE IF c.kind = "labels" /\ c.rc = 2 THEN Ended(c, 2)
  ELSE Cleared(c)

\* One container, or one node's listing, is dealt with: what comes next.
Advanced(c) ==
  IF c.look # {} THEN [c EXCEPT !.pc = "inspect"]
  ELSE IF c.todo # {} THEN [c EXCEPT !.pc = "list"]
  ELSE IF c.kind = "labels" /\ c.rc = 2 THEN Ended(c, 2)
  ELSE IF c.ids # {}
    THEN [c EXCEPT !.pc = IF c.kind = "labels" THEN "recheck" ELSE "remove"]
  ELSE Cleared(c)

\* A container the command could not remove ends it; --all goes on.
Skipped(c, p) == Advanced([c EXCEPT !.ids = @ \ {p}])
Failed(c, p, r) == IF c.kind = "all" THEN Skipped([c EXCEPT !.rc = Merge(@, r)], p)
                                     ELSE Ended(c, r)

\* The container handled now: stops by label go up from the controller, the
\* others reach it last.
Current(c) ==
  {p \in c.ids : \A q \in c.ids :
     IF c.kind = "labels" THEN p[1] <= q[1] ELSE p[1] >= q[1]}

\* The containers a stop is about.
Aimed(k, c, at) ==
  {i \in Exists : LET b == box[i] IN
     CASE k = "cluster" -> b.name = c /\ b.node \in Ranks(c)
       [] k = "single" -> b.name = c /\ at \in {Unset, b.node}
       [] k = "labels" -> b.managed = "true" /\ b.conf = c /\ at \in {Unset, b.node}
       [] k = "all" -> b.managed = "true"
       [] OTHER -> FALSE}

\* Mutant of FirstStep: stops by label start without hearing every endpoint.
FirstStepUnheard(c) ==
  CASE c.kind \in {"cluster", "launch"} /\ Wide(c)
         -> [c EXCEPT !.pc = "probe", !.todo = Ranks(c.conf)]
    [] c.kind = "single" /\ c.at = Unset
         -> [c EXCEPT !.pc = "discover", !.todo = Nodes]
    [] (c.kind = "single" \/ (c.kind = "launch" /\ ~Wide(c))) /\ c.at # Unset
         -> [c EXCEPT !.pc = "named", !.todo = {c.at}]
    [] OTHER -> [c EXCEPT !.pc = "list", !.todo = Nodes]

\* An operator runs down.sh <c> [--node at], down.sh --all, or up.sh <c>.
FirstStep(c) ==
  CASE c.kind \in {"cluster", "launch"} /\ Wide(c)
         -> [c EXCEPT !.pc = "probe", !.todo = Ranks(c.conf)]
    [] c.kind = "single" /\ c.at = Unset
         -> [c EXCEPT !.pc = "discover", !.todo = Nodes]
    [] (c.kind = "single" \/ (c.kind = "launch" /\ ~Wide(c))) /\ c.at # Unset
         -> [c EXCEPT !.pc = "named", !.todo = {c.at}]
    [] c.kind = "all" /\ Count = 1 -> [c EXCEPT !.pc = "list", !.todo = Nodes]
    [] OTHER -> [c EXCEPT !.pc = "endpoints", !.todo = Nodes]

Parsed(k, c, at) == [Nobody EXCEPT !.kind = k, !.conf = c, !.at = at,
                                   !.seen = Aimed(k, c, at), !.mute = Nodes \ up]
Begun(k, c, at) == FirstStep(Parsed(k, c, at))

Ask(o) ==
  /\ cmd[o].kind = "idle"
  /\ \E r \in menu : Becomes(o, Begun(r[1], r[2], r[3]))
  /\ UNCHANGED <<box, up, trouble, menu>>

\* The prompt is back.
Done(o) ==
  /\ cmd[o].pc = "ended"
  /\ Becomes(o, Nobody)
  /\ UNCHANGED <<box, up, trouble, menu>>

-----------------------------------------------------------------------------
(* Reading, before anything is removed.                                    *)

\* The node a reading step asks.
Asked(c) ==
  CASE c.pc = "probe" -> RemotesFirst(c.todo)
    [] c.pc = "confirm" -> RemotesFirst({p[1] : p \in c.look})
    [] c.pc = "inspect" -> Lowest(c.look)
    [] c.pc = "recheck" -> Lowest(Current(c))
    [] c.pc = "list" /\ c.kind = "all" -> Max(c.todo)
    [] OTHER -> Min(c.todo)

Reading(o, pc) == cmd[o].pc = pc /\ Asked(cmd[o]) \in up /\ UNCHANGED <<box, up, trouble, menu>>

\* Mutant of Unanswered: the search for a one-node service takes a node that
\* does not answer for one without it.
UnansweredIsEmpty(o) ==
  LET c == cmd[o] IN
  /\ c.pc = "discover" /\ Asked(c) \notin up
  /\ Becomes(o, IF c.todo = {Asked(c)} THEN Ended(c, 0)
                                       ELSE [c EXCEPT !.todo = @ \ {Asked(c)}])
  /\ UNCHANGED <<box, up, trouble, menu>>

\* The node does not answer: nothing more is removed, except by --all, which
\* has heard from every endpoint and goes on with the rest.
Unanswered(o) ==
  LET c == cmd[o]
      Go(d) == Becomes(o, IF c.kind = "all" THEN Advanced([d EXCEPT !.rc = 1]) ELSE Ended(c, 1))
  IN /\ \/ /\ c.pc \in {"probe", "confirm", "discover", "named", "endpoints", "verify"}
           /\ Asked(c) \notin up
           /\ Becomes(o, Ended(c, 1))
        \/ /\ c.pc = "list"
           /\ Asked(c) \notin up
           /\ Go([c EXCEPT !.todo = @ \ {Asked(c)}])
        \/ /\ c.pc = "inspect"
           /\ Asked(c) \notin up
           /\ \E p \in c.look : Go([c EXCEPT !.look = @ \ {p}])
        \/ /\ c.pc = "recheck"
           /\ Asked(c) \notin up
           /\ \E p \in Current(c) : Go([c EXCEPT !.ids = @ \ {p}])
     /\ UNCHANGED <<box, up, trouble, menu>>

\* A stop or launch of a cluster proves every rank that has the name ...
Probe(o) ==
  LET c == cmd[o]
      n == Asked(c)
      Next1(d) == CASE d.todo # {} -> d
                    [] d.todo = {} /\ d.ids # {} -> [d EXCEPT !.pc = "confirm", !.look = d.ids]
                    [] OTHER -> Cleared(d)
  IN /\ Reading(o, "probe")
     /\ \E hit \in Shown(Named(n, c.conf)) :
          Becomes(o, IF \A p \in hit : Owned(Box(p), c.conf, n)
                       THEN Next1([c EXCEPT !.todo = @ \ {n}, !.ids = @ \cup hit])
                       ELSE Ended(c, 2))

\* ... and then every id again, before it removes the first.
Confirm(o) ==
  LET c == cmd[o] IN
  /\ Reading(o, "confirm")
  /\ \E p \in c.look : \E hit \in Shown(Present(p)) :
       /\ p[1] = Asked(c)
       /\ Becomes(o, IF hit # {} /\ Owned(Box(p), c.conf, p[1])
                       THEN [c EXCEPT !.look = @ \ {p},
                               !.pc = IF c.look = {p} THEN "remove" ELSE "confirm"]
                       ELSE Ended(c, 2))

\* A one-node stop without --node looks for the one node that has the service.
Discover(o) ==
  LET c == cmd[o]
      n == Asked(c)
      Next1(d) == CASE d.todo # {} -> d
                    [] d.todo = {} /\ d.ids # {} ->
                         [d EXCEPT !.pc = "named", !.todo = {Lowest(d.ids)}, !.ids = {}]
                    [] OTHER -> Ended(d, 0)
  IN /\ Reading(o, "discover")
     /\ \E hit \in Shown(Named(n, c.conf)) :
          Becomes(o, IF \/ \E p \in hit : ~Proven(Box(p), c.conf)
                        \/ hit # {} /\ c.ids # {}
                       THEN Ended(c, 2)
                       ELSE Next1([c EXCEPT !.todo = @ \ {n}, !.ids = @ \cup hit]))

\* The name on the node that was chosen.
Resolve(o) ==
  LET c == cmd[o] IN
  /\ Reading(o, "named")
  /\ \E hit \in Shown(Named(Asked(c), c.conf)) :
       Becomes(o, CASE hit = {} -> Cleared([c EXCEPT !.todo = {}])
                    [] \E p \in hit : ~Proven(Box(p), c.conf) -> Ended(c, 2)
                    [] OTHER -> [c EXCEPT !.pc = "recheck", !.todo = {}, !.ids = hit])

\* Stops by label first make every docker endpoint answer ...
Endpoint(o) ==
  LET c == cmd[o] IN
  /\ Reading(o, "endpoints")
  /\ Becomes(o, IF c.todo = {Asked(c)} THEN [c EXCEPT !.pc = "list", !.todo = Nodes]
                                       ELSE [c EXCEPT !.todo = @ \ {Asked(c)}])

\* ... then list the managed containers of one node after the other ...
List(o) ==
  LET c == cmd[o] IN
  /\ Reading(o, "list")
  /\ Becomes(o, Advanced([c EXCEPT !.todo = @ \ {Asked(c)}, !.look = Managed(Asked(c))]))

\* ... and inspect them.  Only --all goes on after one it must refuse.  With
\* --node a rank of a cluster is refused once everything has been seen.
Inspect(o) ==
  LET c == cmd[o] IN
  /\ Reading(o, "inspect")
  /\ \E p \in c.look : \E hit \in Shown(Present(p)) :
       LET d == [c EXCEPT !.look = @ \ {p}]
           mine == hit # {} /\ (c.kind = "labels" => Box(p).conf = c.conf)
           ranked == c.at # Unset /\ Box(p).rank # Single
       IN Becomes(o,
            CASE ~mine -> Advanced(d)
              [] mine /\ ~Stoppable(Box(p)) ->
                   IF c.kind = "all" THEN Advanced([d EXCEPT !.rc = Merge(@, 2)])
                                     ELSE Ended(c, 2)
              [] mine /\ Stoppable(Box(p)) /\ c.kind = "all" ->
                   [d EXCEPT !.pc = "recheck", !.ids = {p}]
              [] OTHER -> Advanced(
                   [d EXCEPT !.rc = IF ranked THEN 2 ELSE @,
                             !.ids = IF c.at \in {Unset, p[1]} THEN @ \cup {p} ELSE @]))

\* The id is inspected once more; one that has gone needs no removal.
Recheck(o) ==
  LET c == cmd[o]
      Sure(b) == IF c.kind \in {"single", "launch"} THEN Proven(b, c.conf) ELSE Stoppable(b)
  IN /\ Reading(o, "recheck")
     /\ \E p \in Current(c) : \E hit \in Shown(Present(p)) :
          Becomes(o, CASE hit = {} -> Skipped(c, p)
                       [] hit # {} /\ ~Sure(Box(p)) -> Failed(c, p, 2)
                       [] OTHER -> [c EXCEPT !.pc = "remove"])

-----------------------------------------------------------------------------
(* Removing, by id.                                                        *)

Gone(i) == [j \in Exists \ {i} |-> box[j]]

\* Mutant of Remove: docker rm -f by the name that was proven, not by its id.
RemoveByName(o) ==
  /\ cmd[o].pc = "remove"
  /\ \E p \in Current(cmd[o]) :
       LET c == cmd[o]
           hit == IF c.conf = Unset THEN Present(p) ELSE Named(p[1], c.conf)
       IN /\ p[1] \in up
          /\ box' = [j \in {k \in Exists : <<p[1], k>> \notin hit} |-> box[j]]
          /\ Becomes(o, [c EXCEPT !.pc = "absent", !.gone = @ \cup {q[2] : q \in hit}])
  /\ UNCHANGED <<up, trouble, menu>>

\* docker rm -f on the container's node.  It may have worked although the ssh
\* that carried it failed; of an id that is gone docker versions report either.
Remove(o) ==
  /\ cmd[o].pc = "remove"
  /\ \E p \in Current(cmd[o]) :
       LET c == cmd[o]
           after == [c EXCEPT !.pc = "absent", !.gone = @ \cup {p[2]}]
       IN \/ /\ p[1] \in up /\ Present(p) # {}
             /\ box' = Gone(p[2])
             /\ Becomes(o, after)
             /\ UNCHANGED trouble
          \/ /\ p[1] \in up /\ Present(p) # {}
             /\ p[1] # 0 /\ trouble < MaxTrouble
             /\ box' = Gone(p[2])
             /\ Becomes(o, Failed(after, p, 1))
             /\ trouble' = trouble + 1
          \/ /\ p[1] \in up /\ Present(p) = {}
             /\ Becomes(o, [c EXCEPT !.pc = "absent"])
             /\ UNCHANGED <<box, trouble>>
          \/ /\ p[1] \notin up \/ Present(p) = {}
             /\ Becomes(o, Failed(c, p, 1))
             /\ UNCHANGED <<box, trouble>>
  /\ UNCHANGED <<up, menu>>

\* The id must be seen to be absent before the next one is removed.
Absent(o) ==
  /\ cmd[o].pc = "absent"
  /\ \E p \in Current(cmd[o]) :
       Becomes(o, IF p[1] \in up /\ Present(p) = {} THEN Skipped(cmd[o], p)
                                                   ELSE Failed(cmd[o], p, 1))
  /\ UNCHANGED <<box, up, trouble, menu>>

\* A stopped cluster is looked for once more, by name, controller first.
Verify(o) ==
  LET c == cmd[o]
      n == Asked(c)
  IN /\ Reading(o, "verify")
     /\ \E hit \in Shown(Named(n, c.conf)) :
          LET left == c.ids \cup hit IN
          Becomes(o, IF c.todo # {n} THEN [c EXCEPT !.todo = @ \ {n}, !.ids = left]
                                     ELSE Ended(c, IF left = {} THEN 0 ELSE 1))

-----------------------------------------------------------------------------
(* Starting, and giving up a start.                                        *)

Fresh(i) ==
  /\ i \notin Exists
  /\ \A o \in Ops : LET c == cmd[o] IN
       i \notin c.seen \cup {p[2] : p \in c.look \cup c.ids \cup c.own}

With(i, b) == [j \in Exists \cup {i} |-> IF j = i THEN b ELSE box[j]]

Launched(c, n) ==
  [node |-> n, name |-> c, managed |-> "true", conf |-> c, place |-> "here",
   running |-> TRUE, rank |-> IF World[c] = 1 THEN Single ELSE n, world |-> World[c]]

\* A cluster start that fails removes what it started; serve.sh just fails.
Abandoned(c) == IF c.own = {} THEN Ended(c, 1)
                ELSE [c EXCEPT !.pc = "abort", !.todo = {}, !.ids = c.own]

\* docker run: remote ranks up, the controller last.  It may fail for reasons of
\* its own, and must when the node does not answer or the name is taken.
Start(o) ==
  LET c == cmd[o]
      n == RemotesFirst(c.todo)
      can == n \in up /\ Free(n, c.conf)
  IN /\ c.pc = "start"
     /\ \/ \E i \in Ids :
             /\ can /\ Fresh(i)
             /\ box' = With(i, Launched(c.conf, n))
             /\ Becomes(o, LET d == [c EXCEPT !.own = @ \cup {<<n, i>>}, !.todo = @ \ {n}] IN
                           CASE d.todo # {} -> d
                             [] d.todo = {} /\ Wide(c) -> [d EXCEPT !.pc = "wait"]
                             [] OTHER -> Ended(d, 0))
             /\ UNCHANGED trouble
        \/ \E i \in Ids :
             /\ can /\ Fresh(i) /\ n # 0 /\ trouble < MaxTrouble
             /\ box' = With(i, Launched(c.conf, n))
             /\ Becomes(o, Abandoned(c))
             /\ trouble' = trouble + 1
        \/ /\ Becomes(o, Abandoned(c))
           /\ UNCHANGED <<box, trouble>>
     /\ UNCHANGED <<up, menu>>

\* The health wait ends with an answer on the port, or it gives up because a
\* rank is not running under its name, or after its attempts.  A warm-up that
\* fails after the answer fails the command and leaves the containers.
Wait(o) ==
  /\ cmd[o].pc = "wait"
  /\ \/ Becomes(o, Ended(cmd[o], 0))
     \/ Becomes(o, Ended(cmd[o], 1))
     \/ Becomes(o, Abandoned(cmd[o]))
  /\ UNCHANGED <<box, up, trouble, menu>>

\* Best effort, by the ids this start was given: controller first, then down.
Abort(o) ==
  /\ cmd[o].pc = "abort"
  /\ \E p \in cmd[o].ids :
       /\ IF Lowest(cmd[o].ids) = 0 THEN p[1] = 0 ELSE p \in Current(cmd[o])
       /\ box' = IF p[1] \in up THEN Gone(p[2]) ELSE box
       /\ Becomes(o, IF cmd[o].ids = {p} THEN Ended(cmd[o], 1)
                                         ELSE [cmd[o] EXCEPT !.ids = @ \ {p}])
  /\ UNCHANGED <<up, trouble, menu>>

-----------------------------------------------------------------------------
(* Nodes and other users of docker.                                        *)

Outage(n) ==
  /\ n \in up /\ trouble < MaxTrouble
  /\ up' = up \ {n}
  /\ trouble' = trouble + 1
  /\ UNCHANGED <<box, cmd, menu>>

Return(n) ==
  /\ n \notin up
  /\ up' = up \cup {n}
  /\ cmd' = [o \in Ops |-> [cmd[o] EXCEPT !.mute = @ \ {n}]]
  /\ UNCHANGED <<box, trouble, menu>>

Stranger(i) ==
  /\ Fresh(i) /\ trouble < MaxTrouble
  /\ \E b \in Found : Free(b.node, b.name) /\ box' = With(i, b)
  /\ trouble' = trouble + 1
  /\ UNCHANGED <<up, cmd, menu>>

-----------------------------------------------------------------------------
\* A command goes on by one call.
Works(o) ==
  \/ Unanswered(o) \/ Probe(o) \/ Confirm(o) \/ Discover(o) \/ Resolve(o)
  \/ Endpoint(o) \/ List(o) \/ Inspect(o) \/ Recheck(o)
  \/ Remove(o) \/ Absent(o) \/ Verify(o)
  \/ Start(o) \/ Wait(o) \/ Abort(o)

Next ==
  \/ \E o \in Ops : Ask(o) \/ Done(o) \/ Works(o)
  \/ \E n \in Nodes : Outage(n) \/ Return(n)
  \/ \E i \in Ids : Stranger(i)

Spec == Init /\ [][Next]_vars

-----------------------------------------------------------------------------
(* Properties.                                                             *)

\* Every variable keeps its type.
TypeOK ==
  /\ DOMAIN box \subseteq Ids /\ \A i \in Exists : box[i] \in Boxes
  /\ up \subseteq Nodes
  /\ \A o \in Ops : cmd[o] \in Commands
  /\ trouble \in 0 .. MaxTrouble
  /\ menu \in Menus

\* A container disappears only through a command that its own labels allow to
\* remove it -- the profile, the rank of that node, and for a one-node service
\* the node itself -- or by the start that created it, whatever has happened
\* to its name between the inspection and the docker rm.
MayRemove(c, i) ==
  LET b == box[i] IN
  CASE c.pc = "abort" -> <<b.node, i>> \in c.own
    [] c.pc = "remove" /\ c.kind \in {"cluster", "single", "launch"} -> Proven(b, c.conf)
    [] c.pc = "remove" /\ c.kind = "labels" -> Stoppable(b) /\ b.conf = c.conf
    [] c.pc = "remove" /\ c.kind = "all" -> Stoppable(b)
    [] OTHER -> FALSE
OnlyProvenRemoved ==
  [][\A i \in Exists \ DOMAIN box' :
       \E o \in Ops : cmd'[o] # cmd[o] /\ MayRemove(cmd[o], i)]_vars

\* A stop that refuses has removed nothing; only --all removes what it can and
\* refuses the rest.
RefusalRemovesNothing ==
  \A o \in Ops : cmd[o].pc = "ended" /\ cmd[o].rc = 2 /\ cmd[o].kind # "all"
                   => cmd[o].gone = {}

\* A stop that reports success has left none of the containers it was about
\* at its start: a node that did not answer is never taken for an empty one.
CleanMeansGone ==
  \A o \in Ops : cmd[o].pc = "ended" /\ cmd[o].rc = 0 => cmd[o].seen \cap Exists = {}

\* No command removes anything while a node its service may have a rank on has
\* not answered since the command began.
NoRankStranded ==
  \A o \in Ops :
    LET c == cmd[o] IN
    c.gone # {} => c.mute \cap Needed(c) = {}
=============================================================================
