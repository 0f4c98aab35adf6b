--------------------------- MODULE ServiceSwitch ---------------------------
(***************************************************************************)
(* Sessions of the home screen (scripts/home.sh: stop, clean up) and of    *)
(* the wizard (wizard.sh: switch to a model).  A session reads an          *)
(* inventory, lets the operator choose and confirm, and runs down.sh and   *)
(* up.sh in its own shell.  Everything it knows is a snapshot: nodes are   *)
(* read one after the other, other shells go on stopping and launching,    *)
(* containers exit and nodes fall silent between any two steps.            *)
(***************************************************************************)
EXTENDS Inventory

CONSTANTS
  Desk,      \* the shell the sessions run in
  Sessions   \* <<task, profile, node>>: the sessions that may be opened

ASSUME DeskAssumption == Desk \in Ops
ASSUME ReleasedAssumption == IsFiniteSet(Released)
\* The wizard switches to released profiles, to a one-node one on a chosen node.
ASSUME SessionsAssumption ==
  \A t \in Sessions :
    /\ t[1] \in {"stop", "clean", "switch"}
    /\ t[1] = "switch" => /\ t[2] \in Released /\ t[3] \in Nodes \cup {Unset}
                          /\ World[t[2]] = 1 => t[3] # Unset

VARIABLE
  ses        \* the session
svars == <<box, up, cmd, trouble, menu, ses>>

\* rows, ok and todo: the snapshot, the nodes that answered, those still to be
\* read; then: what follows the snapshot; pending: stops still to be made.
\* Histories: what the operator confirmed; the containers there were at that
\* moment, on the nodes the fresh inventory then heard from; and the containers
\* of other services that ran on the target when the session began.
Session == [task : {"none", "stop", "clean", "switch"},
            pc : {"closed", "read", "offer", "plan", "confirm", "execute",
                  "stop", "stopping", "clear", "launch", "launching"},
            conf : Confs \cup {Unset}, at : Nodes \cup {Unset},
            rows : SUBSET [id : Ids, box : Boxes], ok : SUBSET Nodes,
            todo : SUBSET Nodes, then : {"none", "offer", "plan", "execute", "clear"},
            pending : SUBSET Confs, confirmed : SUBSET Confs,
            there : SUBSET Ids, heard : SUBSET Ids, busy : SUBSET Ids]

Closed == [task |-> "none", pc |-> "closed", conf |-> Unset, at |-> Unset,
           rows |-> {}, ok |-> {}, todo |-> {}, then |-> "none",
           pending |-> {}, confirmed |-> {}, there |-> {}, heard |-> {}, busy |-> {}]

\* A fresh inventory, on every confirmed node.
Read(s, next) == [s EXCEPT !.pc = "read", !.todo = Nodes, !.rows = {}, !.ok = {},
                           !.then = next]
Goes(s) == ses' = s
Leave == Goes(Closed)
Quiet == UNCHANGED <<box, up, cmd, trouble, menu>>

TargetOf(c, at) == IF World[c] = 1 THEN {at} ELSE Ranks(c)
Target == TargetOf(ses.conf, ses.at)
BusyOn(nodes, c) == {i \in Exists : /\ box[i].running /\ box[i].node \in nodes
                                    /\ Relevant(box[i]) /\ Group(box[i]) # c}
M(c) == Rows(ses.rows, c)
StateOf(c) == State(M(c), c, ses.ok)
OnTarget(c) == {r \in M(c) : r.box.node \in Target}

\* ./pulsar, or ./wizard.sh for a profile on a node.  One-node targets are
\* chosen among the nodes that answer.
Open ==
  /\ ses.pc = "closed" /\ cmd[Desk] = Nobody
  /\ \E t \in Sessions :
       Goes(IF t[1] = "switch"
              THEN Read([Closed EXCEPT !.task = t[1], !.conf = t[2], !.at = t[3],
                                       !.busy = BusyOn(TargetOf(t[2], t[3]), t[2])], "plan")
              ELSE Read([Closed EXCEPT !.task = t[1]], "offer"))
  /\ Quiet

\* The controller is read first, and its docker must answer; another node that
\* does not is only marked.
ReadNode ==
  LET n == Min(ses.todo)
      next == [ses EXCEPT !.todo = @ \ {n},
                 !.pc = IF ses.todo = {n} THEN ses.then ELSE "read"]
  IN /\ ses.pc = "read"
     /\ CASE n \in up -> Goes([next EXCEPT !.rows = @ \cup Listing(n), !.ok = @ \cup {n}])
          [] n \notin up /\ n = 0 -> Leave
          [] OTHER -> Goes(next)
     /\ Quiet

-----------------------------------------------------------------------------
(* Home: one service of those offered, then a question.                    *)

Offered == {c \in Released : IF ses.task = "stop" THEN StopEligible(ses.rows, ses.ok, c)
                                                  ELSE StaleEligible(ses.rows, ses.ok, c)}
Offer ==
  /\ ses.pc = "offer"
  /\ \/ \E c \in Offered : Goes([ses EXCEPT !.pc = "confirm", !.pending = {c}])
     \/ Leave
  /\ Quiet

-----------------------------------------------------------------------------
(* The wizard's plan.                                                      *)

SameRunning == /\ StateOf(ses.conf) = "running" /\ Running(OnTarget(ses.conf))
               /\ Complete(M(ses.conf), ses.conf, ses.ok)

\* A service of another profile that runs on the target and is not managed.
Foreign ==
  \E r \in ses.rows :
    /\ r.box.node \in Target /\ r.box.running
    /\ Group(r.box) # ses.conf
    /\ Group(r.box) \in Released => ServiceOwnership(M(Group(r.box))) # "managed"

Partial ==
  {c \in Released :
     /\ M(c) # {} /\ ServiceOwnership(M(c)) = "managed"
     /\ StateOf(c) \in {"partial", "degraded"} \/ ~Complete(M(c), c, ses.ok)
     /\ IF c = ses.conf THEN OnTarget(c) # {} ELSE Running(OnTarget(c))}

Others == {c \in Released \ {ses.conf} : /\ Running(OnTarget(c))
                                         /\ ServiceOwnership(M(c)) = "managed"} \ Partial

StaleSame == /\ OnTarget(ses.conf) # {} /\ StateOf(ses.conf) = "stale"
             /\ ServiceOwnership(M(ses.conf)) = "managed"

\* The remote nodes an incomplete service needs must be in view as well.
PartialDeaf == \E c \in Partial : Deaf(c, ses.ok) # {}
TargetDeaf == (Target \ {0}) \ ses.ok # {}

Proposed ==
  CASE SameRunning -> {ses.conf}
    [] ~SameRunning /\ Partial # {} -> Partial
    [] ~SameRunning /\ Partial = {} /\ Others # {} -> Others
    [] ~SameRunning /\ Partial = {} /\ Others = {} /\ StaleSame -> {ses.conf}
    [] OTHER -> {}

\* Memory is a gate of its own only when nothing is to be stopped first.
Plan ==
  /\ ses.pc = "plan"
  /\ \/ Leave
     \/ /\ SameRunning \/ (~Foreign /\ ~TargetDeaf /\ ~PartialDeaf)
        /\ Goes([ses EXCEPT !.pc = "confirm", !.pending = Proposed])
  /\ Quiet

-----------------------------------------------------------------------------
(* Confirmed: stop, look again, launch.                                    *)

Confirmed ==
  /\ ses.pc = "confirm"
  /\ LET s == [ses EXCEPT !.confirmed = ses.pending, !.there = Exists]
         t == [s EXCEPT !.rows = {}, !.ok = {}]
     IN \/ Leave
        \/ ses.task # "switch" /\ Goes([t EXCEPT !.pc = "stop"])
        \/ ses.task = "switch" /\ ses.pending # {} /\ Goes(Read(s, "execute"))
        \/ /\ ses.task = "switch" /\ ses.pending = {}
           /\ Goes(IF World[ses.conf] = 1 THEN Read(s, "clear")
                                          ELSE [t EXCEPT !.pc = "launch"])
  /\ Quiet

\* Mutant: several running services are stopped as several stale ones are.
StoppableNowAny == \A c \in ses.pending : TRUE

\* Of the services to be stopped, those that run now: none, or the only one,
\* complete; else the wizard gives up before it stops anything.
StoppableNow ==
  LET live == {c \in ses.pending : Running(M(c))}
  IN live # {} => /\ Cardinality(ses.pending) = 1
                  /\ \A c \in live : /\ StateOf(c) = "running"
                                     /\ Complete(M(c), c, ses.ok)

Execute ==
  /\ ses.pc = "execute"
  /\ IF StoppableNow
       THEN Goes([ses EXCEPT !.pc = "stop", !.rows = {}, !.ok = {},
                    !.heard = {i \in ses.there \cap Exists : box[i].node \in ses.ok}])
       ELSE Leave
  /\ Quiet

\* down.sh <c>, with --node for the one-node profile that is restarted.
DownCommand(c) ==
  IF World[c] > 1 THEN Begun("cluster", c, Unset)
  ELSE Begun("single", c, IF ses.task = "switch" /\ c = ses.conf THEN ses.at ELSE Unset)

RunDown ==
  /\ ses.pc = "stop"
  /\ \E c \in ses.pending :
       /\ cmd' = [cmd EXCEPT ![Desk] = DownCommand(c)]
       /\ Goes([ses EXCEPT !.pc = "stopping", !.pending = @ \ {c}])
  /\ UNCHANGED <<box, up, trouble, menu>>

DownReturns ==
  /\ ses.pc = "stopping" /\ cmd[Desk].pc = "ended"
  /\ cmd' = [cmd EXCEPT ![Desk] = Nobody]
  /\ CASE cmd[Desk].rc # 0 \/ ses.task # "switch" -> Leave
       [] cmd[Desk].rc = 0 /\ ses.task = "switch" /\ ses.pending # {} ->
            Goes([ses EXCEPT !.pc = "stop"])
       [] OTHER -> Goes(Read(ses, "clear"))
  /\ UNCHANGED <<box, up, trouble, menu>>

\* Mutant: the look before the launch is at the controller only.
TargetClearController ==
  /\ \A r \in ses.rows : r.box.node = 0 => ~r.box.running
  /\ World[ses.conf] = 1 => ses.at \in ses.ok

\* A one-node target must still answer; a silent rank of a cluster is left to
\* the memory gate.
TargetClear ==
  /\ \A r \in ses.rows : r.box.node \in Target => ~r.box.running
  /\ World[ses.conf] = 1 => ses.at \in ses.ok

Clear ==
  /\ ses.pc = "clear"
  /\ IF TargetClear
       THEN Goes([ses EXCEPT !.pc = "launch", !.rows = {}, !.ok = {},
                    !.busy = {i \in @ \cap Exists : box[i].node \in ses.ok}])
       ELSE Leave
  /\ Quiet

\* check-memory.sh, which reads every target node, and up.sh.  A node that does
\* not answer has no free memory.
RunUp ==
  /\ ses.pc = "launch"
  /\ \/ Leave /\ UNCHANGED cmd
     \/ /\ Target \subseteq up
        /\ cmd' = [cmd EXCEPT ![Desk] =
                     Begun("launch", ses.conf, IF World[ses.conf] = 1 THEN ses.at ELSE Unset)]
        /\ Goes([ses EXCEPT !.pc = "launching", !.there = {}, !.heard = {}, !.confirmed = {},
                            !.busy = @ \cap Exists])
  /\ UNCHANGED <<box, up, trouble, menu>>

UpReturns ==
  /\ ses.pc = "launching" /\ cmd[Desk].pc = "ended"
  /\ cmd' = [cmd EXCEPT ![Desk] = Nobody]
  /\ Leave
  /\ UNCHANGED <<box, up, trouble, menu>>

-----------------------------------------------------------------------------
\* A service process ends, and its container with it.
Exit(i) ==
  /\ i \in Exists /\ box[i].running /\ trouble < MaxTrouble
  /\ box' = [box EXCEPT ![i].running = FALSE]
  /\ trouble' = trouble + 1
  /\ UNCHANGED <<up, cmd, menu>>

SessionStep == \/ Open \/ ReadNode \/ Offer \/ Plan \/ Confirmed \/ Execute
               \/ RunDown \/ DownReturns \/ Clear \/ RunUp \/ UpReturns

\* Docker does not give an id twice.
Remembered == {r.id : r \in ses.rows} \cup ses.there \cup ses.heard \cup ses.busy

SwitchNext ==
  \/ SessionStep
  \/ /\ UNCHANGED ses
     /\ \/ \E o \in Ops \ {Desk} : Ask(o) \/ Done(o)
        \/ \E o \in Ops : Works(o)
        \/ \E n \in Nodes : Outage(n) \/ Return(n)
        \/ \E i \in Ids : Exit(i) \/ Stranger(i)
     /\ Remembered \cap (DOMAIN box' \ Exists) = {}

SwitchInit == Init /\ ses = Closed
SwitchSpec == SwitchInit /\ [][SwitchNext]_svars

-----------------------------------------------------------------------------
(* Properties.                                                             *)

\* Every variable keeps its type.
SwitchTypeOK == TypeOK /\ ses \in Session

\* A switch that was to stop several services stops no running one: a container
\* that runs, and was there at the confirmation on a node the fresh inventory
\* heard from, is removed by the session's down.sh only if its service was the
\* only one confirmed.
TakesOnlyOne(known) ==
  \A i \in (cmd'[Desk].gone \ cmd[Desk].gone) \cap known :
    ses.task = "switch" /\ ses.pc = "stopping" /\ box[i].running
      => ses.confirmed = {box[i].conf}
OneRunningStopped == [][TakesOnlyOne(ses.heard)]_svars

\* The same for all nodes: "an operational failure is never converted into an
\* empty inventory" (docs/OPERATIONS.md).  False: a node that is silent during
\* the fresh inventory is one without running services to Execute.
OneRunningStoppedAnywhere == [][TakesOnlyOne(ses.there)]_svars

\* A launch never lands on another service that was there all along: what ran
\* on the target for somebody else when the session began, on a node the last
\* inventory heard from, has ended or is gone by the time the wizard runs up.sh.
NothingStillRunning ==
  ses.pc = "launching" => \A i \in ses.busy \cap Exists : ~box[i].running
=============================================================================
