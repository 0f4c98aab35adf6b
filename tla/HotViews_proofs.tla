--------------------------- MODULE HotViews_proofs ---------------------------
(***************************************************************************)
(* Theorems about HotViews, for every set of processes and ranks and every *)
(* bound: type correctness, the views of a service with containers, the    *)
(* pins, the purge, preparation's report and its cleanup, and that         *)
(* HotViews implements HotPromise.                                         *)
(*                                                                         *)
(* A command looks at the ranks one after another and acts on what it saw  *)
(* several steps ago.  The inductive invariant says what its finished      *)
(* loops have established (CommandOK) and why it still holds: writers run  *)
(* alone, launches change no view (Exclusion), and the workers of a killed *)
(* preparation keep everybody out (WorkersOK).                             *)
(***************************************************************************)
EXTENDS HotViews, TLAPS

-----------------------------------------------------------------------------
(* The inductive invariant.                                                *)

\* Rank r's view verifies, unless a view was disturbed.
ReadyOK(v, r, d) == d > 0 \/ (v[r].stamp = "ready" /\ v[r].data = "good")
CopiedOK(v, r, d) == d > 0 \/ (v[r].stamp # "none" /\ v[r].data = "good")

\* From the first fork on, prepare may touch every view.
Rewriting ==
  {"fork", "book", "copy", "verify", "publish", "cleanup", "cleaned"}

\* The ranks a loop has left behind.
Past(o) == Targets \ o.todo

PrepareOK(o, v, u, d) ==
  /\ o.pc \in Rewriting \cup {"skip", "reuse", "pins", "users", "done"}
  /\ o.pc \in {"skip", "reuse"} => \A r \in Past(o) : ReadyOK(v, r, d)
  /\ o.pc = "pins" => \A r \in Past(o) : ~v[r].pinned
  /\ o.pc \in Rewriting \cup {"users"} => \A r \in Targets : ~v[r].pinned
  /\ o.pc = "users" => \A r \in Past(o) : u[r] = "nobody"
  /\ o.pc \in Rewriting => \A r \in Targets : u[r] = "nobody"
  /\ o.pc \in {"skip", "reuse", "pins", "users"} => o.did = {}
  /\ o.pc \in {"fork", "book"} => o.did \cap o.todo = {}
  /\ o.pc = "cleanup" => o.todo \subseteq o.did
  /\ o.pc = "verify" => \A r \in Past(o) : CopiedOK(v, r, d)
  /\ o.pc = "publish" => /\ \A r \in Targets : CopiedOK(v, r, d)
                         /\ \A r \in Past(o) : ReadyOK(v, r, d)
  /\ o.pc = "done" => \A r \in Targets : ReadyOK(v, r, d)
  /\ o.pc = "cleanup" => \A r \in o.did \ o.todo : o.hit \/ v[r] = NoView
  /\ o.pc = "cleaned" => \A r \in o.did : o.hit \/ v[r] = NoView

PinOK(o, v, d) ==
  /\ o.pc \in {"lookup", "set", "done"}
  /\ o.pc = "lookup" =>
       \A r \in Past(o) : ReadyOK(v, r, d) /\ v[r].stamp # "verifying"
  /\ o.pc = "set" =>
       \A r \in Targets : ReadyOK(v, r, d) /\ v[r].stamp # "verifying"

PurgeOK(o, v, u) ==
  /\ o.pc \in {"list", "check", "delete", "done"}
  /\ o.pc = "list" =>
       \A r \in Past(o) :
         (v[r] # NoView => r \in o.did) /\ (v[r].pinned => o.hit)
  /\ o.pc \in {"check", "delete"} =>
       o.todo \subseteq o.did /\ \A r \in Targets : v[r] # NoView => r \in o.did
  /\ o.pc = "check" => /\ \A r \in Targets : v[r].pinned => o.hit
                       /\ \A r \in o.did \ o.todo : u[r] = "nobody"
  /\ o.pc = "delete" => /\ \A r \in o.did : u[r] = "nobody"
                        /\ o.force \/ \A r \in Targets : ~v[r].pinned

LaunchOK(o, v, d) ==
  /\ o.pc \in {"verify", "clear", "start", "wait", "abort", "done"}
  /\ o.pc = "verify" => \A r \in Past(o) : ReadyOK(v, r, d)
  /\ o.pc \in {"clear", "start"} => \A r \in Targets : ReadyOK(v, r, d)

\* What a command has established, against the views, containers and
\* disturbances.
CommandOK(o, v, u, d) ==
  /\ o \in Commands
  /\ o.kind = "idle" => o = Idle
  /\ o.kind = "prepare" => PrepareOK(o, v, u, d)
  /\ o.kind \in {"pin", "unpin"} => PinOK(o, v, d)
  /\ o.kind = "purge" => PurgeOK(o, v, u)
  /\ o.kind = "launch" => LaunchOK(o, v, d)

CommandsOK == \A p \in Ops : CommandOK(cmd[p], view, unit, disturbed)

\* A writer is the only command; launches run beside launches.
Exclusion ==
  \A p, q \in Ops :
    p # q /\ cmd[p].kind # "idle" /\ cmd[q].kind # "idle" =>
      cmd[p].kind = "launch" /\ cmd[q].kind = "launch"

\* The preparation o may have a worker copying to rank r: its own until it has
\* waited for them, in a cleanup one that it had not noted.
MayCopy(o, r) ==
  /\ o.kind = "prepare"
  /\ \/ o.pc \in {"fork", "book", "copy"}
     \/ o.pc \in {"cleanup", "cleaned"} /\ r \notin o.did

\* While a worker copies, no command but its own preparation runs, no rank
\* has a container and no view is pinned.
WorkersOK ==
  \A r \in Targets :
    /\ worker[r] \in Copying =>
         /\ \A p \in Ops :
              \/ cmd[p].kind = "idle"
              \/ MayCopy(cmd[p], r)
         /\ \A q \in Targets : unit[q] = "nobody" /\ ~view[q].pinned
    /\ worker[r] \in {"copy", "stamp"} /\ disturbed = 0 => view[r].data # "none"

IInv == TypeOK /\ CommandsOK /\ Exclusion /\ WorkersOK /\ ServedViewsUsable

-----------------------------------------------------------------------------
(* Steps of a command in general.                                          *)

\* The call counter stays within its bound, whether the call fails or not.
LEMMA Calls ==
  ASSUME TypeOK, CallWorks \/ CallFails
  PROVE  faults' \in 0..MaxFaults
BY BoundsAssumption DEF TypeOK, CallWorks, CallFails

\* A process without a command has established nothing.
LEMMA IdleOK ==
  ASSUME NEW v, NEW u, NEW d
  PROVE  CommandOK(Idle, v, u, d)
BY DEF CommandOK, Idle, Commands, Kinds, Writers, Steps

\* Process p's command becomes n.
Becomes(p, n) == cmd' = [cmd EXCEPT ![p] = n]

\* What one round of a loop makes of the command n that runs it.
Round(o, n, r, next, set) ==
  /\ n \in Commands
  /\ n.kind = o.kind /\ n.did = o.did /\ n.hit = o.hit /\ n.force = o.force
  /\ \/ o.todo = {r} /\ n.pc = next /\ n.todo = set
     \/ o.todo # {r} /\ n.pc = o.pc /\ n.todo = o.todo \ {r}

\* Leaving a rank behind is a round of the loop.
LEMMA AdvanceIsRound ==
  ASSUME NEW p, NEW o \in Commands, NEW r \in o.todo, NEW next \in Steps,
         NEW set \in SUBSET Targets, Advance(p, o, r, next, set)
  PROVE  \E n : Round(o, n, r, next, set) /\ Becomes(p, n)
<1> DEFINE last == [o EXCEPT !.pc = next, !.todo = set]
           more == [o EXCEPT !.todo = o.todo \ {r}]
<1>1. CASE o.todo \ {r} = {}
  <2>1. o.todo = {r} BY <1>1
  <2>2. Round(o, last, r, next, set) BY <2>1 DEF Round, Commands
  <2>3. Becomes(p, last) BY <1>1 DEF Advance, Becomes
  <2> QED BY <2>2, <2>3
<1>2. CASE o.todo \ {r} # {}
  <2>1. o.todo # {r} BY <1>2
  <2>2. Round(o, more, r, next, set) BY <2>1 DEF Round, Commands
  <2>3. Becomes(p, more) BY <1>2 DEF Advance, Becomes
  <2> QED BY <2>2, <2>3
<1> QED BY <1>1, <1>2

\* A command that writes is alone: every other process is idle, and workers
\* copy only for a preparation that has started them.
LEMMA WriterAlone ==
  ASSUME IInv, NEW p \in Ops, cmd[p].kind \in Writers
  PROVE  /\ \A q \in Ops : q # p => cmd[q] = Idle
         /\ \A r \in Targets : worker[r] \in Copying => MayCopy(cmd[p], r)
BY DEF IInv, CommandsOK, CommandOK, Exclusion, WorkersOK, Writers

\* A step of a writer keeps the commands right if it keeps its own right.
LEMMA WriterStep ==
  ASSUME IInv, NEW p \in Ops, cmd[p].kind \in Writers,
         NEW n, Becomes(p, n), n.kind \in {cmd[p].kind, "idle"},
         CommandOK(n, view', unit', disturbed')
  PROVE  cmd' \in [Ops -> Commands] /\ CommandsOK' /\ Exclusion'
<1>1. /\ cmd \in [Ops -> Commands]
      /\ n \in Commands
  BY DEF IInv, TypeOK, CommandOK
<1>2. cmd' \in [Ops -> Commands] /\ \A q \in Ops : q # p => cmd'[q] = Idle
  BY WriterAlone, <1>1 DEF Becomes
<1>3. cmd'[p] = n BY <1>1 DEF Becomes
<1>4. CommandsOK'
  <2> SUFFICES ASSUME NEW q \in Ops
               PROVE  CommandOK(cmd'[q], view', unit', disturbed')
    BY DEF CommandsOK
  <2> QED BY <1>2, <1>3, IdleOK
<1>5. Exclusion' BY <1>2 DEF Exclusion, Idle
<1> QED BY <1>2, <1>4, <1>5

\* A step of a writer that changes neither views, containers nor workers.
LEMMA WriterLooks ==
  ASSUME IInv, NEW p \in Ops, cmd[p].kind \in Writers,
         cmd[p].pc \notin {"fork", "book", "copy", "cleanup", "cleaned"},
         NEW n, Becomes(p, n), n.kind \in {cmd[p].kind, "idle"},
         CommandOK(n, view, unit, disturbed),
         UNCHANGED <<view, unit, worker, disturbed>>, faults' \in 0..MaxFaults
  PROVE  IInv'
<1>1. cmd' \in [Ops -> Commands] /\ CommandsOK' /\ Exclusion' BY WriterStep
<1>2. TypeOK' BY <1>1 DEF IInv, TypeOK
<1>3. WorkersOK' BY WriterAlone DEF IInv, WorkersOK, Copying, MayCopy
<1>4. ServedViewsUsable'
  BY DEF IInv, ServedViewsUsable, Usable, Verified
<1> QED BY <1>1, <1>2, <1>3, <1>4 DEF IInv

\* A step of a launch that may change containers, and only while the views of
\* all ranks verify may it add one.
LEMMA LaunchStep ==
  ASSUME IInv, NEW p \in Ops, cmd[p].kind = "launch",
         NEW n, Becomes(p, n), n.kind \in {"launch", "idle"},
         CommandOK(n, view, unit, disturbed),
         UNCHANGED <<view, worker, disturbed>>, faults' \in 0..MaxFaults,
         unit' \in [Targets -> Ops \cup {"nobody"}],
         \/ disturbed = 0 => Usable
         \/ \A r \in Targets : unit[r] = "nobody" => unit'[r] = "nobody"
  PROVE  IInv'
<1>1. /\ cmd \in [Ops -> Commands]
      /\ n \in Commands
      /\ CommandOK(n, view', unit', disturbed')
  BY DEF IInv, TypeOK, CommandOK
<1>2. cmd' \in [Ops -> Commands] /\ cmd'[p] = n
      /\ \A q \in Ops : q # p => cmd'[q] = cmd[q]
  BY <1>1 DEF Becomes
<1>3. CommandsOK'
  <2> SUFFICES ASSUME NEW q \in Ops
               PROVE  CommandOK(cmd'[q], view', unit', disturbed')
    BY DEF CommandsOK
  <2>1. CASE q = p BY <1>1, <1>2, <2>1
  <2>2. CASE q # p
    <3>1. CommandOK(cmd[q], view, unit, disturbed) BY DEF IInv, CommandsOK
    <3>2. cmd[q].kind \in {"launch", "idle"} BY <2>2 DEF IInv, Exclusion
    <3>3. CommandOK(cmd[q], view, unit', disturbed)
      BY <3>1, <3>2 DEF CommandOK
    <3> QED BY <1>2, <2>2, <3>3
  <2> QED BY <2>1, <2>2
<1>4. Exclusion' BY <1>2 DEF IInv, Exclusion
<1>5. \A r \in Targets : worker[r] \notin Copying
  BY DEF IInv, WorkersOK, MayCopy
<1>6. WorkersOK' BY <1>5 DEF IInv, WorkersOK, Copying
<1>7. TypeOK' BY <1>2 DEF IInv, TypeOK
<1>8. ServedViewsUsable'
  BY <1>7 DEF IInv, ServedViewsUsable, Usable, Verified
<1> QED BY <1>3, <1>4, <1>6, <1>7, <1>8 DEF IInv

\* A command that ends, at whatever step, leaves the others right.
LEMMA FinishKeeps ==
  ASSUME IInv, NEW p \in Ops, Finish(p),
         UNCHANGED <<view, unit, worker, disturbed>>, faults' \in 0..MaxFaults
  PROVE  IInv'
<1>1. /\ cmd \in [Ops -> Commands]
      /\ cmd' = [cmd EXCEPT ![p] = Idle]
      /\ CommandOK(Idle, view, unit, disturbed)
  BY IdleOK DEF IInv, TypeOK, Finish
<1>2. cmd' \in [Ops -> Commands] /\ \A q \in Ops : cmd'[q] \in {cmd[q], Idle}
  BY <1>1 DEF CommandOK
<1>3. CommandsOK'
  <2> SUFFICES ASSUME NEW q \in Ops
               PROVE  CommandOK(cmd'[q], view', unit', disturbed')
    BY DEF CommandsOK
  <2>1. CommandOK(cmd[q], view, unit, disturbed) BY DEF IInv, CommandsOK
  <2> QED BY <1>1, <1>2, <2>1
<1>4. Exclusion' BY <1>2 DEF IInv, Exclusion, Idle
<1>5. WorkersOK' BY <1>2 DEF IInv, WorkersOK, Idle
<1>6. TypeOK' BY <1>2 DEF IInv, TypeOK
<1>7. ServedViewsUsable' BY DEF IInv, ServedViewsUsable, Usable, Verified
<1> QED BY <1>3, <1>4, <1>5, <1>6, <1>7 DEF IInv

\* A command that begins finds nobody it could disturb.
LEMMA BeginKeeps ==
  ASSUME IInv, NEW p \in Ops, NEW kind \in Kinds \ {"idle"}, NEW first,
         Begin(p, kind, first), first.kind = kind,
         CommandOK(first, view, unit, disturbed),
         UNCHANGED <<view, unit, worker, faults, disturbed>>
  PROVE  IInv'
<1>1. /\ cmd \in [Ops -> Commands]
      /\ cmd' = [cmd EXCEPT ![p] = first]
      /\ first \in Commands
  BY DEF IInv, TypeOK, Begin, CommandOK
<1>2. cmd' \in [Ops -> Commands] /\ cmd'[p] = first
      /\ \A q \in Ops : q # p => cmd'[q] = cmd[q]
  BY <1>1
<1>3. CommandsOK'
  <2> SUFFICES ASSUME NEW q \in Ops
               PROVE  CommandOK(cmd'[q], view', unit', disturbed')
    BY DEF CommandsOK
  <2>1. CommandOK(cmd[q], view, unit, disturbed) BY DEF IInv, CommandsOK
  <2>2. CASE q = p BY <1>2, <2>2
  <2>3. CASE q # p BY <1>2, <2>1, <2>3
  <2> QED BY <2>2, <2>3
<1>4. Exclusion' BY <1>2 DEF IInv, Exclusion, Begin, HotFree
<1>5. \A r \in Targets : worker[r] \notin Copying BY DEF Begin, HotFree
<1>6. WorkersOK' BY <1>5 DEF IInv, WorkersOK, Copying
<1>7. TypeOK' BY <1>2 DEF IInv, TypeOK
<1>8. ServedViewsUsable' BY DEF IInv, ServedViewsUsable, Usable, Verified
<1> QED BY <1>3, <1>4, <1>6, <1>7, <1>8 DEF IInv

-----------------------------------------------------------------------------
(* prepare                                                                 *)

\* Cleanup is entered with no container and no pin on any rank; a worker that
\* goes on is for a rank that was not noted.
LEMMA CleanupEntered ==
  ASSUME IInv, NEW p \in Ops, cmd[p].kind = "prepare",
         cmd[p].pc \in {"fork", "book", "copy", "verify", "publish"},
         CleanUp(p), UNCHANGED <<unit, disturbed>>,
         worker' \in [Targets -> WorkerSteps],
         \A r \in Targets : worker'[r] \in Copying =>
           worker'[r] = worker[r] /\ view'[r] = view[r] /\ r \notin cmd[p].did,
         faults' \in 0..MaxFaults, view' \in [Targets -> Views],
         \A r \in Targets :
           /\ ~view'[r].pinned
           /\ view'[r].data = "none" /\ disturbed = 0 => view'[r] = NoView
  PROVE  IInv'
<1> DEFINE n == [cmd[p] EXCEPT !.todo = cmd[p].did, !.hit = FALSE,
                   !.pc = IF cmd[p].did = {} THEN "cleaned" ELSE "cleanup"]
<1>1. /\ cmd[p] \in Commands
      /\ \A r \in Targets : unit[r] = "nobody"
  BY DEF IInv, CommandsOK, CommandOK, PrepareOK, Rewriting
<1>2. n \in Commands /\ n.kind = "prepare" /\ n.todo = n.did
      /\ n.did = cmd[p].did
      /\ n.pc \in {"cleanup", "cleaned"} /\ (n.pc = "cleaned" => n.did = {})
  BY <1>1 DEF Commands, Steps
<1>3. CommandOK(n, view', unit', disturbed')
  BY <1>1, <1>2 DEF CommandOK, PrepareOK, Rewriting
<1>4. Becomes(p, n) BY DEF CleanUp, Becomes
<1> HIDE DEF n
<1>5. cmd' \in [Ops -> Commands] /\ CommandsOK' /\ Exclusion'
  BY <1>2, <1>3, <1>4, WriterStep DEF Writers
<1>6. TypeOK' BY <1>5 DEF IInv, TypeOK
<1>7. WorkersOK'
  <2> SUFFICES ASSUME NEW r \in Targets
               PROVE  /\ worker'[r] \in Copying =>
                           /\ \A q \in Ops : \/ cmd'[q].kind = "idle"
                                             \/ MayCopy(cmd'[q], r)
                           /\ \A q \in Targets :
                                unit'[q] = "nobody" /\ ~view'[q].pinned
                      /\ worker'[r] \in {"copy", "stamp"} /\ disturbed' = 0 =>
                           view'[r].data # "none"
    BY DEF WorkersOK
  <2>1. \A q \in Ops : cmd'[q] = IF q = p THEN n ELSE cmd[q]
    BY <1>4 DEF IInv, TypeOK, Becomes
  <2>2. \A q \in Ops : q # p => cmd[q].kind = "idle"
    BY WriterAlone DEF Writers, Idle
  <2>3. worker'[r] \in Copying => MayCopy(n, r) BY <1>2 DEF MayCopy
  <2>4. worker'[r] \in {"copy", "stamp"} /\ disturbed' = 0 =>
          view'[r].data # "none"
    BY DEF IInv, WorkersOK, Copying
  <2> QED BY <1>1, <2>1, <2>2, <2>3, <2>4
<1>8. ServedViewsUsable' BY <1>1 DEF ServedViewsUsable
<1> QED BY <1>5, <1>6, <1>7, <1>8 DEF IInv

\* As a rule no worker goes on.
LEMMA CleanupEnteredAlone ==
  ASSUME IInv, NEW p \in Ops, cmd[p].kind = "prepare",
         cmd[p].pc \in {"fork", "book", "copy", "verify", "publish"},
         EnterCleanup(p), UNCHANGED <<unit, disturbed>>,
         faults' \in 0..MaxFaults, view' \in [Targets -> Views],
         \A r \in Targets :
           /\ ~view'[r].pinned
           /\ view'[r].data = "none" /\ disturbed = 0 => view'[r] = NoView
  PROVE  IInv'
<1>1. CleanUp(p) /\ worker' = [r \in Targets |-> "none"] BY DEF EnterCleanup
<1>2. worker' \in [Targets -> WorkerSteps] BY <1>1 DEF WorkerSteps
<1>3. \A r \in Targets : worker'[r] \notin Copying BY <1>1 DEF Copying
<1> QED BY <1>1, <1>2, <1>3, CleanupEntered

\* Planning starts a loop and relies on nothing.
LEMMA PreparePlanKeeps ==
  ASSUME IInv, NEW p \in Ops, PreparePlan(p)
  PROVE  IInv'
<1> DEFINE n == [Idle EXCEPT !.kind = "prepare", !.todo = Targets,
                             !.pc = IF 0 \in Targets /\ view[0].stamp = "ready"
                                      THEN "skip" ELSE "reuse"]
<1>1. /\ n \in Commands /\ n.kind = "prepare" /\ n.todo = Targets
      /\ n.did = {} /\ n.pc \in {"skip", "reuse"}
  BY DEF Idle, Commands, Kinds, Writers, Steps
<1>2. CommandOK(n, view, unit, disturbed)
  BY <1>1 DEF CommandOK, PrepareOK, Rewriting, Past
<1>3. /\ Begin(p, "prepare", n)
      /\ UNCHANGED <<view, unit, worker, faults, disturbed>>
  BY DEF PreparePlan
<1> HIDE DEF n
<1> QED BY <1>1, <1>2, <1>3, BeginKeeps DEF Kinds, Writers

\* A rank that verifies is a rank of which ReadyOK holds.
LEMMA VerifiedReady ==
  ASSUME NEW r \in Targets, Verified(r)
  PROVE  ReadyOK(view, r, disturbed)
BY DEF Verified, ReadyOK

\* Confirming a plan that says the views are there.
LEMMA PrepareSkipKeeps ==
  ASSUME IInv, NEW p \in Ops, PrepareSkip(p)
  PROVE  IInv'
<1>1. /\ cmd[p].kind = "prepare" /\ cmd[p].pc = "skip"
      /\ UNCHANGED <<view, unit, worker, disturbed>>
  BY DEF PrepareSkip, At
<1>2. PICK r \in Targets :
        /\ r \in cmd[p].todo /\ faults' \in 0..MaxFaults
        /\ \/ Verified(r) /\ Advance(p, cmd[p], r, "done", {})
           \/ Finish(p)
  BY Calls DEF PrepareSkip, Ascending, IInv
<1>3. CASE Finish(p) BY <1>1, <1>2, <1>3, FinishKeeps
<1>4. CASE Verified(r) /\ Advance(p, cmd[p], r, "done", {})
  <2>1. /\ cmd[p] \in Commands /\ cmd[p].did = {}
        /\ \A q \in Past(cmd[p]) : ReadyOK(view, q, disturbed)
    BY <1>1 DEF IInv, CommandsOK, CommandOK, PrepareOK
  <2>2. PICK n : Round(cmd[p], n, r, "done", {}) /\ Becomes(p, n)
    BY <1>2, <1>4, <2>1, AdvanceIsRound DEF Steps
  <2>3. CommandOK(n, view, unit, disturbed)
    BY <1>1, <1>4, <2>1, <2>2, VerifiedReady
       DEF Round, CommandOK, PrepareOK, Rewriting, Past
  <2> QED BY <1>1, <1>2, <2>2, <2>3, WriterLooks DEF Round, Writers, At
<1> QED BY <1>2, <1>3, <1>4

\* Looking whether the views are there although the controller's stamp is not
\* ready; the first rank that fails turns to the copy.
LEMMA PrepareReuseKeeps ==
  ASSUME IInv, NEW p \in Ops, PrepareReuse(p)
  PROVE  IInv'
<1> DEFINE copy == [cmd[p] EXCEPT !.pc = "pins", !.todo = Targets]
<1>1. /\ cmd[p].kind = "prepare" /\ cmd[p].pc = "reuse"
      /\ UNCHANGED <<view, unit, worker, disturbed>>
  BY DEF PrepareReuse, At
<1>2. PICK r \in Targets :
        /\ r \in cmd[p].todo /\ faults' \in 0..MaxFaults
        /\ \/ Verified(r) /\ Advance(p, cmd[p], r, "done", {})
           \/ Becomes(p, copy)
  BY Calls DEF PrepareReuse, Ascending, IInv, Becomes
<1>3. /\ cmd[p] \in Commands /\ cmd[p].did = {}
      /\ \A q \in Past(cmd[p]) : ReadyOK(view, q, disturbed)
  BY <1>1 DEF IInv, CommandsOK, CommandOK, PrepareOK
<1>4. CASE Becomes(p, copy)
  <2>1. /\ copy \in Commands /\ copy.kind = "prepare" /\ copy.pc = "pins"
        /\ copy.todo = Targets /\ copy.did = {}
    BY <1>1, <1>3 DEF Commands, Steps
  <2>2. CommandOK(copy, view, unit, disturbed)
    BY <2>1 DEF CommandOK, PrepareOK, Rewriting, Past
  <2> HIDE DEF copy
  <2> QED BY <1>1, <1>2, <1>4, <2>1, <2>2, WriterLooks DEF Writers, At
<1>5. CASE Verified(r) /\ Advance(p, cmd[p], r, "done", {})
  <2>2. PICK n : Round(cmd[p], n, r, "done", {}) /\ Becomes(p, n)
    BY <1>2, <1>3, <1>5, AdvanceIsRound DEF Steps
  <2>3. CommandOK(n, view, unit, disturbed)
    BY <1>1, <1>3, <1>5, <2>2, VerifiedReady
       DEF Round, CommandOK, PrepareOK, Rewriting, Past
  <2> QED BY <1>1, <1>2, <2>2, <2>3, WriterLooks DEF Round, Writers, At
<1> QED BY <1>2, <1>4, <1>5

\* Looking for pins, rank by rank; nobody else can set one meanwhile.
LEMMA PreparePinsKeeps ==
  ASSUME IInv, NEW p \in Ops, PreparePins(p)
  PROVE  IInv'
<1>1. /\ cmd[p].kind = "prepare" /\ cmd[p].pc = "pins"
      /\ UNCHANGED <<view, unit, worker, disturbed>>
  BY DEF PreparePins, At
<1>2. PICK r \in Targets :
        /\ r \in cmd[p].todo /\ faults' \in 0..MaxFaults
        /\ \/ ~view[r].pinned /\ Advance(p, cmd[p], r, "users", Targets)
           \/ Finish(p)
  BY Calls DEF PreparePins, Ascending, IInv
<1>3. CASE Finish(p) BY <1>1, <1>2, <1>3, FinishKeeps
<1>4. CASE ~view[r].pinned /\ Advance(p, cmd[p], r, "users", Targets)
  <2>1. /\ cmd[p] \in Commands /\ cmd[p].did = {}
        /\ \A q \in Past(cmd[p]) : ~view[q].pinned
    BY <1>1 DEF IInv, CommandsOK, CommandOK, PrepareOK
  <2>2. PICK n : /\ Round(cmd[p], n, r, "users", Targets)
                 /\ Becomes(p, n)
    BY <1>2, <1>4, <2>1, AdvanceIsRound DEF Steps
  <2>3. CommandOK(n, view, unit, disturbed)
    BY <1>1, <1>4, <2>1, <2>2
       DEF Round, CommandOK, PrepareOK, Rewriting, Past
  <2> QED BY <1>1, <1>2, <2>2, <2>3, WriterLooks DEF Round, Writers, At
<1> QED BY <1>2, <1>3, <1>4

\* Looking for containers; launches are locked out meanwhile.
LEMMA PrepareUsersKeeps ==
  ASSUME IInv, NEW p \in Ops, PrepareUsers(p)
  PROVE  IInv'
<1>1. /\ cmd[p].kind = "prepare" /\ cmd[p].pc = "users"
      /\ UNCHANGED <<view, unit, worker, disturbed>>
  BY DEF PrepareUsers, At
<1>2. PICK r \in Targets :
        /\ r \in cmd[p].todo /\ faults' \in 0..MaxFaults
        /\ \/ unit[r] = "nobody" /\ Advance(p, cmd[p], r, "fork", Targets)
           \/ Finish(p)
  BY Calls DEF PrepareUsers, Ascending, IInv
<1>3. CASE Finish(p) BY <1>1, <1>2, <1>3, FinishKeeps
<1>4. CASE unit[r] = "nobody" /\ Advance(p, cmd[p], r, "fork", Targets)
  <2>1. /\ cmd[p] \in Commands /\ cmd[p].did = {}
        /\ \A q \in Past(cmd[p]) : unit[q] = "nobody"
        /\ \A q \in Targets : ~view[q].pinned
    BY <1>1 DEF IInv, CommandsOK, CommandOK, PrepareOK
  <2>2. PICK n : /\ Round(cmd[p], n, r, "fork", Targets)
                 /\ Becomes(p, n)
    BY <1>2, <1>4, <2>1, AdvanceIsRound DEF Steps
  <2>3. CommandOK(n, view, unit, disturbed)
    BY <1>1, <1>4, <2>1, <2>2
       DEF Round, CommandOK, PrepareOK, Rewriting, Past
  <2> QED BY <1>1, <1>2, <2>2, <2>3, WriterLooks DEF Round, Writers, At
<1> QED BY <1>2, <1>3, <1>4

\* The first write of a preparation: no container, no pin, no other command.
LEMMA PrepareForkKeeps ==
  ASSUME IInv, NEW p \in Ops, PrepareFork(p)
  PROVE  IInv'
<1> DEFINE n == [cmd[p] EXCEPT !.pc = "book"]
<1>1. /\ cmd[p].kind = "prepare" /\ cmd[p].pc = "fork"
      /\ UNCHANGED <<view, unit, faults, disturbed>>
  BY DEF PrepareFork, At
<1>2. PICK r \in Targets : worker' = [worker EXCEPT ![r] = "clear"]
  BY DEF PrepareFork
<1>3. /\ cmd[p] \in Commands /\ cmd[p].did \cap cmd[p].todo = {}
      /\ \A q \in Targets : unit[q] = "nobody" /\ ~view[q].pinned
  BY <1>1 DEF IInv, CommandsOK, CommandOK, PrepareOK, Rewriting
<1>4. /\ n \in Commands /\ n.kind = "prepare" /\ n.pc = "book"
      /\ n.did = cmd[p].did /\ n.todo = cmd[p].todo
  BY <1>1, <1>3 DEF Commands, Steps
<1>5. Becomes(p, n) BY DEF PrepareFork, Becomes
<1> HIDE DEF n
<1>6. CommandOK(n, view', unit', disturbed')
  BY <1>1, <1>3, <1>4 DEF CommandOK, PrepareOK, Rewriting
<1>7. cmd' \in [Ops -> Commands] /\ CommandsOK' /\ Exclusion'
  BY <1>1, <1>4, <1>5, <1>6, WriterStep DEF Writers
<1>8. TypeOK' BY <1>1, <1>2, <1>7 DEF IInv, TypeOK, WorkerSteps
<1>9. WorkersOK'
  <2>1. cmd \in [Ops -> Commands] BY DEF IInv, TypeOK
  <2>2. \A q \in Targets : MayCopy(cmd'[p], q)
    BY <1>4, <1>5, <2>1 DEF Becomes, MayCopy
  <2>3. \A q \in Ops : q # p => cmd'[q].kind = "idle"
    BY <1>1, <1>5, <2>1, WriterAlone DEF Becomes, Idle, Writers
  <2>4. worker \in [Targets -> WorkerSteps] BY DEF IInv, TypeOK
  <2>5. \A q \in Targets : worker'[q] \in {"copy", "stamp"} =>
          worker[q] \in {"copy", "stamp"}
    BY <1>2, <2>4
  <2> QED BY <1>1, <1>3, <2>2, <2>3, <2>5 DEF IInv, WorkersOK
<1>10. ServedViewsUsable' BY <1>1, <1>3 DEF ServedViewsUsable
<1> QED BY <1>7, <1>8, <1>9, <1>10 DEF IInv

\* Noting a worker changes no view and stops nobody.
LEMMA PrepareBookKeeps ==
  ASSUME IInv, NEW p \in Ops, PrepareBook(p)
  PROVE  IInv'
<1> DEFINE touched(r) == [cmd[p] EXCEPT !.did = @ \cup {r}, !.pc = "fork"]
<1>1. /\ cmd[p].kind = "prepare" /\ cmd[p].pc = "book"
      /\ UNCHANGED <<view, unit, worker, faults, disturbed>>
  BY DEF PrepareBook, At
<1>2. PICK r \in Targets :
        r \in cmd[p].todo /\ Advance(p, touched(r), r, "copy", {})
  BY DEF PrepareBook, Ascending
<1>3. /\ cmd[p] \in Commands /\ cmd[p].did \cap cmd[p].todo = {}
      /\ \A q \in Targets : unit[q] = "nobody" /\ ~view[q].pinned
  BY <1>1 DEF IInv, CommandsOK, CommandOK, PrepareOK, Rewriting
<1>4. /\ touched(r) \in Commands /\ touched(r).kind = "prepare"
      /\ touched(r).pc = "fork" /\ touched(r).todo = cmd[p].todo
      /\ touched(r).did = cmd[p].did \cup {r}
  BY <1>1, <1>3 DEF Commands, Steps
<1> HIDE DEF touched
<1>5. PICK n : Round(touched(r), n, r, "copy", {}) /\ Becomes(p, n)
  BY <1>2, <1>4, AdvanceIsRound DEF Steps
<1>6. CommandOK(n, view', unit', disturbed')
  BY <1>1, <1>3, <1>4, <1>5 DEF Round, CommandOK, PrepareOK, Rewriting
<1>7. cmd' \in [Ops -> Commands] /\ CommandsOK' /\ Exclusion'
  BY <1>1, <1>4, <1>5, <1>6, WriterStep DEF Round, Writers
<1>8. TypeOK' BY <1>1, <1>7 DEF IInv, TypeOK
<1>9. WorkersOK'
  <2>1. cmd \in [Ops -> Commands] BY DEF IInv, TypeOK
  <2>2. \A q \in Targets : MayCopy(cmd'[p], q)
    BY <1>4, <1>5, <2>1 DEF Round, Becomes, MayCopy
  <2>3. \A q \in Ops : q # p => cmd'[q].kind = "idle"
    BY <1>1, <1>5, <2>1, WriterAlone DEF Becomes, Idle, Writers
  <2> QED BY <1>1, <1>3, <2>2, <2>3 DEF IInv, WorkersOK
<1>10. ServedViewsUsable' BY <1>1, <1>3 DEF ServedViewsUsable
<1> QED BY <1>7, <1>8, <1>9, <1>10 DEF IInv

\* The facts a preparation that is rewriting the views relies on.
LEMMA RewritingFacts ==
  ASSUME IInv, NEW p \in Ops, cmd[p].kind = "prepare", cmd[p].pc \in Rewriting
  PROVE  /\ cmd[p] \in Commands /\ view \in [Targets -> Views]
         /\ \A r \in Targets :
              /\ ~view[r].pinned /\ unit[r] = "nobody"
              /\ view[r].data = "none" /\ disturbed = 0 => view[r] = NoView
BY DEF IInv, TypeOK, CommandsOK, CommandOK, PrepareOK

\* A preparation that gives up without writing enters its cleanup.
LEMMA GivesUp ==
  ASSUME IInv, NEW p \in Ops, cmd[p].kind = "prepare",
         cmd[p].pc \in {"fork", "book", "copy", "verify", "publish"},
         EnterCleanup(p), UNCHANGED <<view, unit, disturbed>>,
         faults' \in 0..MaxFaults
  PROVE  IInv'
BY RewritingFacts, CleanupEnteredAlone DEF Rewriting

\* An interrupt enters the cleanup, whatever the step.
LEMMA PrepareInterruptedKeeps ==
  ASSUME IInv, NEW p \in Ops, PrepareInterrupted(p)
  PROVE  IInv'
<1>1. faults' \in 0..MaxFaults BY Calls DEF PrepareInterrupted, IInv
<1> QED BY <1>1, GivesUp DEF PrepareInterrupted

\* Right after a fork it leaves a worker behind, for a rank that cleanup will
\* not touch.
LEMMA PrepareInterruptedEarlyKeeps ==
  ASSUME IInv, NEW p \in Ops, PrepareInterruptedEarly(p)
  PROVE  IInv'
<1>1. /\ cmd[p].kind = "prepare" /\ cmd[p].pc = "book"
      /\ CleanUp(p) /\ UNCHANGED <<view, unit, disturbed>>
  BY DEF PrepareInterruptedEarly, At
<1>2. faults' \in 0..MaxFaults BY Calls DEF PrepareInterruptedEarly, IInv
<1>3. PICK r \in Targets :
        /\ r \in cmd[p].todo
        /\ worker' = [q \in Targets |-> IF q = r THEN worker[q] ELSE "none"]
  BY DEF PrepareInterruptedEarly, Ascending
<1>4. r \notin cmd[p].did
  BY <1>1, <1>3 DEF IInv, CommandsOK, CommandOK, PrepareOK
<1>5. worker \in [Targets -> WorkerSteps] BY DEF IInv, TypeOK
<1>6. worker' \in [Targets -> WorkerSteps] BY <1>3, <1>5 DEF WorkerSteps
<1>7. \A q \in Targets : worker'[q] \in Copying =>
        worker'[q] = worker[q] /\ view'[q] = view[q] /\ q \notin cmd[p].did
  BY <1>1, <1>3, <1>4 DEF Copying
<1> QED BY <1>1, <1>2, <1>6, <1>7, RewritingFacts, CleanupEntered DEF Rewriting

\* The workers of all ranks are over, well or badly.
LEMMA PrepareWaitKeeps ==
  ASSUME IInv, NEW p \in Ops, PrepareWait(p)
  PROVE  IInv'
<1> DEFINE n == [cmd[p] EXCEPT !.pc = "verify", !.todo = Targets]
<1>1. /\ cmd[p].kind = "prepare" /\ cmd[p].pc = "copy"
      /\ UNCHANGED <<view, unit, faults, disturbed>>
      /\ \/ EnterCleanup(p)
         \/ worker' = [r \in Targets |-> "none"] /\ Becomes(p, n)
  BY DEF PrepareWait, At, Becomes
<1>2. CASE EnterCleanup(p)
  <2>1. faults' \in 0..MaxFaults BY <1>1 DEF IInv, TypeOK
  <2> QED BY <1>1, <1>2, <2>1, GivesUp
<1>3. CASE worker' = [r \in Targets |-> "none"] /\ Becomes(p, n)
  <2>1. /\ cmd[p] \in Commands
        /\ \A r \in Targets : ~view[r].pinned /\ unit[r] = "nobody"
    BY <1>1, RewritingFacts DEF Rewriting
  <2>2. /\ n \in Commands /\ n.kind = "prepare" /\ n.pc = "verify"
        /\ n.todo = Targets
    BY <1>1, <2>1 DEF Commands, Steps
  <2> HIDE DEF n
  <2>3. CommandOK(n, view', unit', disturbed')
    BY <1>1, <2>1, <2>2 DEF CommandOK, PrepareOK, Rewriting, Past
  <2>4. cmd' \in [Ops -> Commands] /\ CommandsOK' /\ Exclusion'
    BY <1>1, <1>3, <2>2, <2>3, WriterStep DEF Writers
  <2>5. TypeOK' BY <1>1, <1>3, <2>4 DEF IInv, TypeOK, WorkerSteps
  <2>6. WorkersOK' BY <1>3 DEF WorkersOK, Copying
  <2>7. ServedViewsUsable' BY <1>1, <2>1 DEF ServedViewsUsable
  <2> QED BY <2>4, <2>5, <2>6, <2>7 DEF IInv
<1> QED BY <1>1, <1>2, <1>3

\* The barrier leaves a rank behind only when its copy verifies.
LEMMA PrepareVerifyKeeps ==
  ASSUME IInv, NEW p \in Ops, PrepareVerify(p)
  PROVE  IInv'
<1>1. /\ cmd[p].kind = "prepare" /\ cmd[p].pc = "verify"
      /\ UNCHANGED <<view, unit, disturbed>>
  BY DEF PrepareVerify, At
<1>2. PICK r \in cmd[p].todo :
        /\ faults' \in 0..MaxFaults
        /\ \/ /\ VerifiedOrVerifying(r) /\ UNCHANGED worker
              /\ Advance(p, cmd[p], r, "publish", Targets)
           \/ EnterCleanup(p)
  BY Calls DEF PrepareVerify, IInv
<1>3. CASE EnterCleanup(p) BY <1>1, <1>2, <1>3, GivesUp
<1>4. CASE /\ VerifiedOrVerifying(r) /\ UNCHANGED worker
           /\ Advance(p, cmd[p], r, "publish", Targets)
  <2>1. /\ cmd[p] \in Commands
        /\ \A q \in Targets : ~view[q].pinned /\ unit[q] = "nobody"
        /\ \A q \in Past(cmd[p]) : CopiedOK(view, q, disturbed)
    BY <1>1 DEF IInv, CommandsOK, CommandOK, PrepareOK, Rewriting
  <2>2. PICK n : Round(cmd[p], n, r, "publish", Targets) /\ Becomes(p, n)
    BY <1>2, <1>4, <2>1, AdvanceIsRound DEF Steps
  <2>3. CopiedOK(view, r, disturbed)
    BY <1>4 DEF VerifiedOrVerifying, CopiedOK
  <2>4. CommandOK(n, view, unit, disturbed)
    BY <1>1, <2>1, <2>2, <2>3
       DEF Round, CommandOK, PrepareOK, Rewriting, Past
  <2> QED BY <1>1, <1>2, <1>4, <2>2, <2>4, WriterLooks DEF Round, Writers, At
<1> QED BY <1>2, <1>3, <1>4

\* A stamp that is written leaves the bytes alone.
LEMMA StampedIs ==
  ASSUME NEW v \in Views, NEW stamp \in {"none", "verifying", "ready"},
         NEW pinned \in BOOLEAN
  PROVE  /\ Stamped(v, stamp, pinned) \in Views
         /\ Stamped(v, stamp, pinned).stamp = stamp
         /\ Stamped(v, stamp, pinned).pinned = pinned
         /\ Stamped(v, stamp, pinned).data = v.data
BY DEF Views, Stamped

\* Publishing changes one stamp; whether it fails or not, no view is pinned
\* and none loses its bytes.
LEMMA PreparePublishKeeps ==
  ASSUME IInv, NEW p \in Ops, PreparePublish(p)
  PROVE  IInv'
<1> DEFINE ready(r) == [view EXCEPT ![r] = Stamped(@, "ready", FALSE)]
<1>1. /\ cmd[p].kind = "prepare" /\ cmd[p].pc = "publish"
      /\ UNCHANGED <<unit, disturbed>>
  BY DEF PreparePublish, At
<1>2. PICK r \in Targets :
        /\ r \in cmd[p].todo /\ faults' \in 0..MaxFaults
        /\ \/ /\ view' = ready(r) /\ UNCHANGED worker
              /\ Advance(p, cmd[p], r, "done", {})
           \/ view' \in {view, ready(r)} /\ EnterCleanup(p)
  BY Calls DEF PreparePublish, Ascending, IInv
<1>3. /\ cmd[p] \in Commands /\ view \in [Targets -> Views]
      /\ \A q \in Targets :
           /\ ~view[q].pinned /\ unit[q] = "nobody"
           /\ view[q].data = "none" /\ disturbed = 0 => view[q] = NoView
  BY <1>1, RewritingFacts DEF Rewriting
<1>4. /\ \A q \in Targets : CopiedOK(view, q, disturbed)
      /\ \A q \in Past(cmd[p]) : ReadyOK(view, q, disturbed)
  BY <1>1 DEF IInv, CommandsOK, CommandOK, PrepareOK
<1>5. /\ ready(r) \in [Targets -> Views]
      /\ ready(r)[r].stamp = "ready" /\ ready(r)[r].data = view[r].data
      /\ ~ready(r)[r].pinned
      /\ \A q \in Targets : q # r => ready(r)[q] = view[q]
  <2>1. Stamped(view[r], "ready", FALSE) \in Views BY <1>3, StampedIs
  <2> QED BY <1>3, <2>1, StampedIs
<1> HIDE DEF ready
<1>6. disturbed = 0 => view[r].data = "good"
  BY <1>4 DEF CopiedOK
<1>7. \A q \in Targets :
        /\ ~ready(r)[q].pinned
        /\ ready(r)[q].data = "none" /\ disturbed = 0 => ready(r)[q] = NoView
  BY <1>3, <1>5, <1>6
<1>8. CASE view' \in {view, ready(r)} /\ EnterCleanup(p)
  BY <1>1, <1>2, <1>3, <1>5, <1>7, <1>8, CleanupEnteredAlone
<1>9. CASE /\ view' = ready(r) /\ UNCHANGED worker
           /\ Advance(p, cmd[p], r, "done", {})
  <2>1. PICK n : Round(cmd[p], n, r, "done", {}) /\ Becomes(p, n)
    BY <1>2, <1>3, <1>9, AdvanceIsRound DEF Steps
  <2>2. CommandOK(n, view', unit', disturbed')
    <3>1. \A q \in Targets : CopiedOK(view', q, disturbed')
      BY <1>1, <1>4, <1>5, <1>9 DEF CopiedOK
    <3>2. \A q \in Past(cmd[p]) \cup {r} : ReadyOK(view', q, disturbed')
      BY <1>1, <1>4, <1>5, <1>6, <1>9, BoundsAssumption
         DEF ReadyOK, Past, IInv, TypeOK
    <3> QED BY <1>1, <1>3, <1>7, <1>9, <2>1, <3>1, <3>2
            DEF Round, CommandOK, PrepareOK, Rewriting, Past
  <2>3. cmd' \in [Ops -> Commands] /\ CommandsOK' /\ Exclusion'
    BY <1>1, <2>1, <2>2, WriterStep DEF Round, Writers
  <2>4. TypeOK'
    BY <1>1, <1>2, <1>5, <1>7, <1>9, <2>3 DEF IInv, TypeOK
  <2>5. \A q \in Targets : worker[q] \notin Copying
    BY <1>1, WriterAlone DEF Writers, MayCopy
  <2>6. WorkersOK' BY <1>9, <2>5 DEF WorkersOK, Copying
  <2>7. ServedViewsUsable' BY <1>1, <1>3 DEF ServedViewsUsable
  <2> QED BY <2>3, <2>4, <2>6, <2>7 DEF IInv
<1> QED BY <1>2, <1>8, <1>9

\* What a deletion leaves is a view without more pins or data than before.
LEMMA RemainsAre ==
  ASSUME NEW v \in Views, NEW w \in Remains(v) \cup {NoView}
  PROVE  /\ w \in Views
         /\ w.pinned => v.pinned /\ w.stamp = v.stamp
         /\ w.data \in {v.data, "partial", "none"}
         /\ w.data = "none" => w = NoView \/ w = v
         /\ w = NoView => w.data = "none" /\ ~w.pinned
<1>1. NoView \in Views /\ NoView.data = "none" /\ NoView.pinned = FALSE
  BY DEF NoView, Views
<1>2. CASE w = v \/ w = NoView BY <1>1, <1>2
<1>3. CASE w = [v EXCEPT !.data = "partial"]
  <2>1. w \in Views /\ w.data = "partial" /\ w.pinned = v.pinned
        /\ w.stamp = v.stamp
    BY <1>3 DEF Views
  <2> QED BY <1>1, <2>1
<1>4. CASE w = [stamp |-> "none", pinned |-> FALSE, data |-> "partial"]
  <2>1. w \in Views /\ w.data = "partial" /\ w.pinned = FALSE
    BY <1>4 DEF Views
  <2> QED BY <1>1, <2>1
<1> QED BY <1>2, <1>3, <1>4 DEF Remains

\* One rank's view goes, or something of it remains, while no rank has a
\* container: the views stay well formed and pins only disappear.
LEMMA RemovalKeepsViews ==
  ASSUME TypeOK, NEW r \in Targets, NEW w \in Remains(view[r]) \cup {NoView},
         view' = [view EXCEPT ![r] = w], UNCHANGED disturbed
  PROVE  /\ view' \in [Targets -> Views] /\ view'[r] = w
         /\ \A q \in Targets :
              /\ q # r => view'[q] = view[q]
              /\ view'[q].pinned => view[q].pinned /\ view'[q].stamp = "ready"
              /\ view'[q].data = "none" /\ disturbed = 0 => view'[q] = NoView
              /\ view[q] = NoView => q = r \/ view'[q] = NoView
<1>1. view \in [Targets -> Views]
  BY DEF TypeOK
<1>2. \A q \in Targets :
        /\ view[q].pinned => view[q].stamp = "ready"
        /\ view[q].data = "none" /\ disturbed = 0 => view[q] = NoView
  BY DEF TypeOK
<1>3. /\ w \in Views
      /\ w.pinned => view[r].pinned /\ w.stamp = view[r].stamp
      /\ w.data = "none" => w = NoView \/ w = view[r]
  BY <1>1, RemainsAre
<1>4. view'[r] = w /\ \A q \in Targets : q # r => view'[q] = view[q]
  BY <1>1
<1> QED BY <1>1, <1>2, <1>3, <1>4

\* Cleanup leaves a rank behind without a view, or remembers that it failed.
LEMMA PrepareCleanupKeeps ==
  ASSUME IInv, NEW p \in Ops, PrepareCleanup(p)
  PROVE  IInv'
<1> DEFINE met == [cmd[p] EXCEPT !.hit = TRUE]
<1>1. /\ cmd[p].kind = "prepare" /\ cmd[p].pc = "cleanup"
      /\ UNCHANGED <<unit, worker, disturbed>>
  BY DEF PrepareCleanup, At
<1>2. PICK r \in Targets :
         /\ r \in cmd[p].todo /\ faults' \in 0..MaxFaults
         /\ \/ /\ view' = [view EXCEPT ![r] = NoView]
               /\ Advance(p, cmd[p], r, "cleaned", {})
            \/ /\ \E left \in Remains(view[r]) :
                    view' = [view EXCEPT ![r] = left]
               /\ Advance(p, met, r, "cleaned", {})
  BY Calls DEF PrepareCleanup, Ascending, IInv
<1>3. PICK w \in Remains(view[r]) \cup {NoView}, o \in {cmd[p], met} :
        /\ view' = [view EXCEPT ![r] = w]
        /\ w = NoView \/ o = met
        /\ Advance(p, o, r, "cleaned", {})
  <2> HIDE DEF met
  <2> QED BY <1>2
<1>4. /\ cmd[p] \in Commands
      /\ \A q \in Targets : ~view[q].pinned /\ unit[q] = "nobody"
      /\ \A q \in cmd[p].did \ cmd[p].todo : cmd[p].hit \/ view[q] = NoView
      /\ cmd[p].todo \subseteq cmd[p].did
  BY <1>1 DEF IInv, CommandsOK, CommandOK, PrepareOK, Rewriting
<1>5. /\ o \in Commands /\ o.kind = "prepare" /\ o.pc = "cleanup"
      /\ o.todo = cmd[p].todo /\ o.did = cmd[p].did
      /\ cmd[p].hit \/ w # NoView => o.hit
  BY <1>1, <1>3, <1>4 DEF Commands
<1> HIDE DEF met
<1>6. PICK n : Round(o, n, r, "cleaned", {}) /\ Becomes(p, n)
  BY <1>2, <1>3, <1>5, AdvanceIsRound DEF Steps
<1>7. /\ view' \in [Targets -> Views] /\ view'[r] = w
      /\ \A q \in Targets :
           /\ q # r => view'[q] = view[q]
           /\ view'[q].pinned => view[q].pinned /\ view'[q].stamp = "ready"
           /\ view'[q].data = "none" /\ disturbed = 0 => view'[q] = NoView
  BY <1>1, <1>3, RemovalKeepsViews DEF IInv
<1>8. CommandOK(n, view', unit', disturbed')
  <2>1. \A q \in o.did \ (o.todo \ {r}) : o.hit \/ view'[q] = NoView
    BY <1>4, <1>5, <1>7 DEF Commands
  <2> QED BY <1>1, <1>4, <1>5, <1>6, <1>7, <2>1
          DEF Round, CommandOK, PrepareOK, Rewriting
<1>9. cmd' \in [Ops -> Commands] /\ CommandsOK' /\ Exclusion'
  BY <1>1, <1>5, <1>6, <1>8, WriterStep DEF Round, Writers
<1>10. TypeOK' BY <1>1, <1>2, <1>7, <1>9 DEF IInv, TypeOK
<1>11. \A q \in Targets : worker[q] \in Copying => q \notin cmd[p].did
  BY <1>1, WriterAlone DEF Writers, MayCopy
<1>12. WorkersOK'
  <2>1. cmd \in [Ops -> Commands] BY DEF IInv, TypeOK
  <2>2. /\ cmd'[p].kind = "prepare" /\ cmd'[p].did = cmd[p].did
        /\ cmd'[p].pc \in {"cleanup", "cleaned"}
    BY <1>5, <1>6, <2>1 DEF Round, Becomes
  <2>3. \A q \in Ops : q # p => cmd'[q].kind = "idle"
    BY <1>1, <1>6, <2>1, WriterAlone DEF Becomes, Idle, Writers
  <2>4. \A q \in Targets : worker[q] \in Copying =>
          MayCopy(cmd'[p], q) /\ view'[q] = view[q]
    BY <1>2, <1>4, <1>7, <1>11, <2>2 DEF MayCopy
  <2>5. \A q \in Targets : unit'[q] = "nobody" /\ ~view'[q].pinned
    BY <1>1, <1>4, <1>7
  <2> QED BY <1>1, <2>3, <2>4, <2>5 DEF IInv, WorkersOK, Copying
<1>13. ServedViewsUsable' BY <1>1, <1>4 DEF ServedViewsUsable
<1> QED BY <1>9, <1>10, <1>12, <1>13 DEF IInv

\* Commands that end or are killed establish nothing and disturb nobody.
LEMMA EndsKeep ==
  ASSUME IInv, NEW p \in Ops,
         PrepareCleaned(p) \/ Ends(p) \/ Killed(p)
  PROVE  IInv'
<1>1. faults' \in 0..MaxFaults
  BY Calls DEF PrepareCleaned, Ends, Killed, IInv, TypeOK
<1> QED BY <1>1, FinishKeeps DEF PrepareCleaned, Ends, Killed

-----------------------------------------------------------------------------
(* The rank workers.                                                       *)

\* A worker that copies may write: no command relies on a view, no rank has
\* a container, and no view is pinned.
LEMMA WorkerWrites ==
  ASSUME IInv, NEW r \in Targets, worker[r] \in Copying,
         NEW w \in Views, view' = [view EXCEPT ![r] = w],
         ~w.pinned, w.data # "none" \/ disturbed # 0,
         worker' \in [Targets -> WorkerSteps],
         worker'[r] \in {"copy", "stamp", "done"},
         \A q \in Targets : q # r => worker'[q] = worker[q],
         UNCHANGED <<unit, cmd, disturbed>>, faults' \in 0..MaxFaults
  PROVE  IInv'
<1>1. view \in [Targets -> Views] BY DEF IInv, TypeOK
<1>2. view'[r] = w /\ \A q \in Targets : q # r => view'[q] = view[q]
  BY <1>1
<1>3. /\ \A p \in Ops :
           \/ cmd[p].kind = "idle"
           \/ MayCopy(cmd[p], r)
      /\ \A q \in Targets : unit[q] = "nobody" /\ ~view[q].pinned
  BY DEF IInv, WorkersOK
<1>4. TypeOK' BY <1>1, <1>2, <1>3 DEF IInv, TypeOK
<1>5. CommandsOK'
  <2> SUFFICES ASSUME NEW p \in Ops
               PROVE  CommandOK(cmd'[p], view', unit', disturbed')
    BY DEF CommandsOK
  <2>1. CommandOK(cmd[p], view, unit, disturbed) BY DEF IInv, CommandsOK
  <2>2. \A q \in Targets : ~view'[q].pinned BY <1>2, <1>3
  <2>3. cmd[p].pc \in {"cleanup", "cleaned"} =>
          \A q \in cmd[p].did : view'[q] = view[q]
    BY <1>2, <1>3, <2>1 DEF MayCopy, CommandOK, Idle, Commands
  <2> QED BY <1>3, <2>1, <2>2, <2>3 DEF CommandOK, PrepareOK, Rewriting, MayCopy
<1>6. Exclusion' BY DEF IInv, Exclusion
<1>7. WorkersOK' BY <1>2, <1>3 DEF IInv, WorkersOK, Copying
<1>8. ServedViewsUsable' BY <1>3 DEF ServedViewsUsable
<1> QED BY <1>4, <1>5, <1>6, <1>7, <1>8 DEF IInv

\* Every step of a worker is a write nobody sees, or a failure.
LEMMA WorkerKeeps ==
  ASSUME IInv, NEW r \in Targets, Worker(r)
  PROVE  IInv'
<1>1. /\ view \in [Targets -> Views] /\ worker \in [Targets -> WorkerSteps]
      /\ faults \in 0..MaxFaults
      /\ worker[r] \in {"copy", "stamp"} /\ disturbed = 0 => view[r].data # "none"
  BY DEF IInv, TypeOK, WorkersOK
<1>2. \A data \in {"partial", "good", "bad"} :
        LET w == [view[r] EXCEPT !.data = data] IN
        w \in Views /\ w.data = data /\ w.pinned = view[r].pinned
  BY <1>1 DEF Views
<1>3. worker[r] \in Copying => ~view[r].pinned BY DEF IInv, WorkersOK
<1>4. CASE WorkerClear(r)
  <2> DEFINE w == [view[r] EXCEPT !.data = "partial"]
  <2>1. /\ worker[r] = "clear" /\ worker' = [worker EXCEPT ![r] = "copy"]
        /\ view' = [view EXCEPT ![r] = w]
        /\ UNCHANGED <<unit, cmd, faults, disturbed>>
    BY <1>4 DEF WorkerClear
  <2>2. w \in Views /\ w.data = "partial" /\ ~w.pinned
    BY <1>2, <1>3, <2>1 DEF Copying
  <2> HIDE DEF w
  <2>3. /\ worker' \in [Targets -> WorkerSteps] /\ worker'[r] = "copy"
        /\ \A q \in Targets : q # r => worker'[q] = worker[q]
    BY <1>1, <2>1 DEF WorkerSteps
  <2> QED BY <1>1, <2>1, <2>2, <2>3, WorkerWrites DEF Copying
<1>5. CASE WorkerCopy(r)
  <2>1. PICK data \in {"good", "bad"} : view' = [view EXCEPT ![r].data = data]
    BY <1>5 DEF WorkerCopy
  <2> DEFINE w == [view[r] EXCEPT !.data = data]
  <2>2. /\ worker[r] = "copy" /\ worker' = [worker EXCEPT ![r] = "stamp"]
        /\ view' = [view EXCEPT ![r] = w]
        /\ UNCHANGED <<unit, cmd, disturbed>>
    BY <1>5, <2>1 DEF WorkerCopy
  <2>3. w \in Views /\ w.data = data /\ ~w.pinned
    BY <1>2, <1>3, <2>2 DEF Copying
  <2> HIDE DEF w
  <2>4. /\ worker' \in [Targets -> WorkerSteps] /\ worker'[r] = "stamp"
        /\ \A q \in Targets : q # r => worker'[q] = worker[q]
    BY <1>1, <2>2 DEF WorkerSteps
  <2>5. faults' \in 0..MaxFaults BY <1>5, Calls DEF WorkerCopy, IInv
  <2> QED BY <2>2, <2>3, <2>4, <2>5, WorkerWrites DEF Copying
<1>6. CASE WorkerStamp(r)
  <2> DEFINE w == Stamped(view[r], "verifying", FALSE)
  <2>1. /\ worker[r] = "stamp" /\ worker' = [worker EXCEPT ![r] = "done"]
        /\ view' = [view EXCEPT ![r] = w]
        /\ UNCHANGED <<unit, cmd, faults, disturbed>>
    BY <1>6 DEF WorkerStamp
  <2>2. w \in Views /\ w.data = view[r].data /\ ~w.pinned
    BY <1>1, StampedIs
  <2> HIDE DEF w
  <2>3. /\ worker' \in [Targets -> WorkerSteps] /\ worker'[r] = "done"
        /\ \A q \in Targets : q # r => worker'[q] = worker[q]
    BY <1>1, <2>1 DEF WorkerSteps
  <2> QED BY <1>1, <2>1, <2>2, <2>3, WorkerWrites DEF Copying
<1>7. CASE WorkerFails(r)
  <2>1. /\ worker' \in [Targets -> WorkerSteps]
        /\ \A q \in Targets : worker'[q] \in {worker[q], "failed"}
        /\ UNCHANGED <<view, unit, cmd, disturbed>>
    BY <1>1, <1>7 DEF WorkerFails, WorkerSteps
  <2>2. faults' \in 0..MaxFaults BY <1>7, Calls DEF WorkerFails, IInv
  <2>3. TypeOK' BY <2>1, <2>2 DEF IInv, TypeOK
  <2>4. CommandsOK' /\ Exclusion' BY <2>1 DEF IInv, CommandsOK, Exclusion
  <2>5. WorkersOK' BY <2>1 DEF IInv, WorkersOK, Copying
  <2>6. ServedViewsUsable' BY <2>1 DEF IInv, ServedViewsUsable, Usable, Verified
  <2> QED BY <2>3, <2>4, <2>5, <2>6 DEF IInv
<1> QED BY <1>4, <1>5, <1>6, <1>7 DEF Worker

-----------------------------------------------------------------------------
(* pin and unpin                                                           *)

\* A pin starts a loop and relies on nothing.
LEMMA PinBeginKeeps ==
  ASSUME IInv, NEW p \in Ops, NEW kind \in {"pin", "unpin"}, PinBegin(p, kind)
  PROVE  IInv'
<1> DEFINE n == [Idle EXCEPT !.kind = kind, !.pc = "lookup", !.todo = Targets]
<1>1. /\ n \in Commands /\ n.kind = kind /\ n.todo = Targets
      /\ n.pc = "lookup"
  BY DEF Idle, Commands, Kinds, Writers, Steps
<1>2. CommandOK(n, view, unit, disturbed)
  BY <1>1 DEF CommandOK, PinOK, Past
<1>3. Begin(p, kind, n) /\ UNCHANGED <<view, unit, worker, faults, disturbed>>
  BY DEF PinBegin
<1> HIDE DEF n
<1> QED BY <1>1, <1>2, <1>3, BeginKeeps DEF Kinds, Writers

\* A command whose step is "lookup" or "set" is a pin or an unpin.
LEMMA PinFacts ==
  ASSUME IInv, NEW p \in Ops, cmd[p].pc \in {"lookup", "set"}
  PROVE  /\ cmd[p].kind \in {"pin", "unpin"} /\ cmd[p] \in Commands
         /\ PinOK(cmd[p], view, disturbed)
<1>1. CommandOK(cmd[p], view, unit, disturbed) BY DEF IInv, CommandsOK
<1>2. cmd[p].kind \in Kinds BY <1>1 DEF CommandOK, Commands
<1> QED BY <1>1, <1>2
        DEF CommandOK, Kinds, Writers, Idle, PrepareOK, Rewriting, PurgeOK,
            LaunchOK

\* A pin leaves a rank behind only when its view verifies.
LEMMA PinLookupKeeps ==
  ASSUME IInv, NEW p \in Ops, PinLookup(p)
  PROVE  IInv'
<1>1. cmd[p].pc = "lookup" /\ UNCHANGED <<view, unit, worker, disturbed>>
  BY DEF PinLookup
<1>2. PICK r \in Targets :
        /\ r \in cmd[p].todo /\ faults' \in 0..MaxFaults
        /\ \/ Verified(r) /\ Advance(p, cmd[p], r, "set", Targets)
           \/ Finish(p)
  BY Calls DEF PinLookup, Ascending, IInv
<1>3. CASE Finish(p) BY <1>1, <1>2, <1>3, FinishKeeps
<1>4. CASE Verified(r) /\ Advance(p, cmd[p], r, "set", Targets)
  <2>1. /\ cmd[p].kind \in {"pin", "unpin"} /\ cmd[p] \in Commands
        /\ PinOK(cmd[p], view, disturbed)
    BY <1>1, PinFacts
  <2>2. PICK n : Round(cmd[p], n, r, "set", Targets) /\ Becomes(p, n)
    BY <1>2, <1>4, <2>1, AdvanceIsRound DEF Steps
  <2>3. ReadyOK(view, r, disturbed) /\ view[r].stamp # "verifying"
    BY <1>4 DEF Verified, ReadyOK
  <2>4. CommandOK(n, view, unit, disturbed)
    BY <1>1, <2>1, <2>2, <2>3 DEF Round, CommandOK, PinOK, Past
  <2> QED BY <1>1, <1>2, <2>1, <2>2, <2>4, WriterLooks DEF Round, Writers, At
<1> QED BY <1>2, <1>3, <1>4

\* A pin that is set, and the failure that may follow it, leave every view as
\* usable as it was.
LEMMA PinSetKeeps ==
  ASSUME IInv, NEW p \in Ops, PinSet(p)
  PROVE  IInv'
<1> DEFINE set(r) == [view EXCEPT ![r] =
                        Stamped(@, "ready", cmd[p].kind = "pin")]
<1>1. cmd[p].pc = "set" /\ UNCHANGED <<unit, worker, disturbed>>
  BY DEF PinSet
<1>2. PICK r \in Targets :
        /\ r \in cmd[p].todo /\ faults' \in 0..MaxFaults
        /\ \/ UNCHANGED view /\ Finish(p)
           \/ /\ view[r].stamp # "none" /\ view' = set(r)
              /\ Advance(p, cmd[p], r, "done", {}) \/ Finish(p)
  BY Calls DEF PinSet, Ascending, IInv
<1>3. CASE UNCHANGED view /\ Finish(p) BY <1>1, <1>2, <1>3, FinishKeeps
<1>4. CASE /\ view[r].stamp # "none" /\ view' = set(r)
           /\ Advance(p, cmd[p], r, "done", {}) \/ Finish(p)
  <2>1. /\ cmd[p].kind \in {"pin", "unpin"} /\ cmd[p] \in Commands
        /\ \A q \in Targets : ReadyOK(view, q, disturbed)
                              /\ view[q].stamp # "verifying"
    BY <1>1, PinFacts DEF PinOK
  <2>2. view \in [Targets -> Views] BY DEF IInv, TypeOK
  <2>3. LET w == Stamped(view[r], "ready", cmd[p].kind = "pin") IN
        w \in Views /\ w.stamp = "ready" /\ w.data = view[r].data
    BY <2>2, StampedIs
  <2>4. /\ view' \in [Targets -> Views] /\ view'[r].stamp = "ready"
        /\ view'[r].data = view[r].data
        /\ \A q \in Targets : q # r => view'[q] = view[q]
    BY <1>4, <2>2, <2>3
  <2> HIDE DEF set
  <2>5. \A q \in Targets : ReadyOK(view', q, disturbed')
                           /\ view'[q].stamp # "verifying"
    BY <1>1, <2>1, <2>4 DEF ReadyOK
  <2>6. PICK n : /\ Becomes(p, n) /\ n.kind \in {cmd[p].kind, "idle"}
                 /\ CommandOK(n, view', unit', disturbed')
    <3>1. CASE Finish(p)
      <4>1. Becomes(p, Idle) BY <3>1 DEF Finish, Becomes
      <4>2. Idle.kind = "idle" BY DEF Idle
      <4> QED BY <4>1, <4>2, IdleOK
    <3>2. CASE Advance(p, cmd[p], r, "done", {})
      <4>1. PICK n : Round(cmd[p], n, r, "done", {}) /\ Becomes(p, n)
        BY <1>2, <2>1, <3>2, AdvanceIsRound DEF Steps
      <4>2. CommandOK(n, view', unit', disturbed')
        BY <1>1, <2>1, <2>5, <4>1 DEF Round, CommandOK, PinOK
      <4> QED BY <4>1, <4>2 DEF Round
    <3> QED BY <1>4, <3>1, <3>2
  <2>7. cmd' \in [Ops -> Commands] /\ CommandsOK' /\ Exclusion'
    BY <2>1, <2>6, WriterStep DEF Writers
  <2>8. disturbed \in 0..MaxDisturbances BY DEF IInv, TypeOK
  <2>9. \A q \in Targets :
          /\ view'[q].pinned => view'[q].stamp = "ready"
          /\ view'[q].data # "none" \/ disturbed # 0
    BY <2>1, <2>4, <2>8, BoundsAssumption DEF IInv, TypeOK, ReadyOK
  <2>10. TypeOK' BY <1>1, <1>2, <2>4, <2>7, <2>9 DEF IInv, TypeOK
  <2>11. \A q \in Targets : worker[q] \notin Copying
    BY <2>1, WriterAlone DEF Writers, MayCopy
  <2>12. WorkersOK' BY <1>1, <2>11 DEF WorkersOK, Copying
  <2>13. ServedViewsUsable'
    BY <1>1, <2>5, <2>8, BoundsAssumption
       DEF ServedViewsUsable, Usable, Verified, ReadyOK
  <2> QED BY <2>7, <2>10, <2>12, <2>13 DEF IInv
<1> QED BY <1>2, <1>3, <1>4

-----------------------------------------------------------------------------
(* purge-hot                                                               *)

\* A purge starts a loop and relies on nothing.
LEMMA PurgeBeginKeeps ==
  ASSUME IInv, NEW p \in Ops, NEW force \in BOOLEAN, PurgeBegin(p, force)
  PROVE  IInv'
<1> DEFINE n == [Idle EXCEPT !.kind = "purge", !.pc = "list",
                             !.todo = Targets, !.force = force]
<1>1. /\ n \in Commands /\ n.kind = "purge" /\ n.todo = Targets
      /\ n.pc = "list"
  BY DEF Idle, Commands, Kinds, Writers, Steps
<1>2. CommandOK(n, view, unit, disturbed)
  BY <1>1 DEF CommandOK, PurgeOK, Past
<1>3. /\ Begin(p, "purge", n)
      /\ UNCHANGED <<view, unit, worker, faults, disturbed>>
  BY DEF PurgeBegin
<1> HIDE DEF n
<1> QED BY <1>1, <1>2, <1>3, BeginKeeps DEF Kinds, Writers

\* What a purge knows of the views and of itself.
LEMMA PurgeFacts ==
  ASSUME IInv, NEW p \in Ops, cmd[p].kind = "purge"
  PROVE  cmd[p] \in Commands /\ PurgeOK(cmd[p], view, unit)
BY DEF IInv, CommandsOK, CommandOK

\* The list holds every view the loop has passed, and whether one is pinned.
LEMMA PurgeListKeeps ==
  ASSUME IInv, NEW p \in Ops, PurgeList(p)
  PROVE  IInv'
<1> DEFINE row(r) == IF view[r] = NoView THEN cmd[p]
                     ELSE [cmd[p] EXCEPT !.did = @ \cup {r},
                                         !.hit = @ \/ Protected(view[r])]
<1>1. /\ cmd[p].kind = "purge" /\ cmd[p].pc = "list"
      /\ UNCHANGED <<view, unit, worker, disturbed>>
  BY DEF PurgeList, At
<1>2. PICK r \in Targets :
        /\ r \in cmd[p].todo /\ faults' \in 0..MaxFaults
        /\ Advance(p, row(r), r, "check", row(r).did) \/ Finish(p)
  BY Calls DEF PurgeList, Ascending, IInv
<1>3. CASE Finish(p) BY <1>1, <1>2, <1>3, FinishKeeps
<1>4. CASE Advance(p, row(r), r, "check", row(r).did)
  <2>1. cmd[p] \in Commands /\ PurgeOK(cmd[p], view, unit)
    BY <1>1, PurgeFacts
  <2>2. /\ row(r) \in Commands /\ row(r).kind = "purge" /\ row(r).pc = "list"
        /\ row(r).todo = cmd[p].todo
        /\ cmd[p].did \subseteq row(r).did
        /\ view[r] # NoView => r \in row(r).did
        /\ cmd[p].hit \/ view[r].pinned => row(r).hit
    <3>1. CASE view[r] = NoView
      <4>1. NoView.pinned = FALSE BY DEF NoView
      <4> QED BY <1>1, <2>1, <3>1, <4>1
    <3>2. CASE view[r] # NoView
      BY <1>1, <2>1, <3>2 DEF Commands, Protected
    <3> QED BY <3>1, <3>2
  <2> HIDE DEF row
  <2>3. PICK n : Round(row(r), n, r, "check", row(r).did) /\ Becomes(p, n)
    <3>1. row(r).did \in SUBSET Targets BY <2>2 DEF Commands
    <3> QED BY <1>2, <1>4, <2>2, <3>1, AdvanceIsRound DEF Steps
  <2>4. CommandOK(n, view, unit, disturbed)
    BY <1>1, <2>1, <2>2, <2>3 DEF Round, CommandOK, PurgeOK, Past
  <2> QED BY <1>1, <1>2, <2>2, <2>3, <2>4, WriterLooks DEF Round, Writers, At
<1> QED BY <1>2, <1>3, <1>4

\* The check passes the containers of all listed ranks, then the pins.
LEMMA PurgeCheckKeeps ==
  ASSUME IInv, NEW p \in Ops, PurgeCheck(p)
  PROVE  IInv'
<1>1. /\ cmd[p].kind = "purge" /\ cmd[p].pc = "check"
      /\ UNCHANGED <<view, unit, worker, disturbed>>
  BY DEF PurgeCheck, At
<1>2. PICK r \in Targets :
        /\ r \in cmd[p].todo /\ faults' \in 0..MaxFaults
        /\ \/ /\ unit[r] = "nobody"
              /\ cmd[p].todo = {r} /\ cmd[p].hit => cmd[p].force
              /\ Advance(p, cmd[p], r, "delete", cmd[p].did)
           \/ Finish(p)
  BY Calls DEF PurgeCheck, Ascending, IInv
<1>3. CASE Finish(p) BY <1>1, <1>2, <1>3, FinishKeeps
<1>4. CASE /\ unit[r] = "nobody"
           /\ cmd[p].todo = {r} /\ cmd[p].hit => cmd[p].force
           /\ Advance(p, cmd[p], r, "delete", cmd[p].did)
  <2>1. cmd[p] \in Commands /\ PurgeOK(cmd[p], view, unit)
    BY <1>1, PurgeFacts
  <2>2. PICK n : Round(cmd[p], n, r, "delete", cmd[p].did) /\ Becomes(p, n)
    <3>1. cmd[p].did \in SUBSET Targets BY <2>1 DEF Commands
    <3> QED BY <1>2, <1>4, <2>1, <3>1, AdvanceIsRound DEF Steps
  <2>3. CommandOK(n, view, unit, disturbed)
    BY <1>1, <1>4, <2>1, <2>2 DEF Round, CommandOK, PurgeOK
  <2> QED BY <1>1, <1>2, <2>2, <2>3, WriterLooks DEF Round, Writers, At
<1> QED BY <1>2, <1>3, <1>4

\* A purge that deletes has seen that no listed rank has a container; a rank
\* that is not listed has no view, so no container of the service is left.
LEMMA PurgeDeleteKeeps ==
  ASSUME IInv, NEW p \in Ops, PurgeDelete(p)
  PROVE  IInv'
<1>1. /\ cmd[p].kind = "purge" /\ cmd[p].pc = "delete"
      /\ UNCHANGED <<unit, worker, disturbed>>
  BY DEF PurgeDelete, At
<1>2. PICK r \in Targets :
        /\ r \in cmd[p].todo /\ faults' \in 0..MaxFaults
        /\ \/ UNCHANGED view /\ Finish(p)
           \/ /\ \E w \in Remains(view[r]) \cup {NoView} :
                   view' = [view EXCEPT ![r] = w]
              /\ Advance(p, cmd[p], r, "done", {}) \/ Finish(p)
  BY Calls DEF PurgeDelete, Ascending, IInv
<1>3. CASE UNCHANGED view /\ Finish(p) BY <1>1, <1>2, <1>3, FinishKeeps
<1>4. CASE /\ \E w \in Remains(view[r]) \cup {NoView} :
                view' = [view EXCEPT ![r] = w]
           /\ Advance(p, cmd[p], r, "done", {}) \/ Finish(p)
  <2>1. cmd[p] \in Commands /\ PurgeOK(cmd[p], view, unit)
    BY <1>1, PurgeFacts
  <2>2. PICK w \in Remains(view[r]) \cup {NoView} :
          view' = [view EXCEPT ![r] = w]
    BY <1>4
  <2>3. /\ view' \in [Targets -> Views] /\ view'[r] = w
        /\ \A q \in Targets :
             /\ q # r => view'[q] = view[q]
             /\ view'[q].pinned => view[q].pinned /\ view'[q].stamp = "ready"
             /\ view'[q].data = "none" /\ disturbed = 0 => view'[q] = NoView
    BY <1>1, <2>2, RemovalKeepsViews DEF IInv
  <2>4. PICK n : /\ Becomes(p, n) /\ n.kind \in {cmd[p].kind, "idle"}
                 /\ CommandOK(n, view', unit', disturbed')
    <3>1. CASE Finish(p)
      <4>1. Becomes(p, Idle) BY <3>1 DEF Finish, Becomes
      <4>2. Idle.kind = "idle" BY DEF Idle
      <4> QED BY <4>1, <4>2, IdleOK
    <3>2. CASE Advance(p, cmd[p], r, "done", {})
      <4>1. PICK n : Round(cmd[p], n, r, "done", {}) /\ Becomes(p, n)
        BY <1>2, <2>1, <3>2, AdvanceIsRound DEF Steps
      <4>2. r \in cmd[p].did BY <1>1, <1>2, <2>1 DEF PurgeOK
      <4>3. CommandOK(n, view', unit', disturbed')
        BY <1>1, <2>1, <2>3, <4>1, <4>2 DEF Round, CommandOK, PurgeOK
      <4> QED BY <4>1, <4>3 DEF Round
    <3> QED BY <1>4, <3>1, <3>2
  <2>5. cmd' \in [Ops -> Commands] /\ CommandsOK' /\ Exclusion'
    BY <1>1, <2>4, WriterStep DEF Writers
  <2>6. TypeOK' BY <1>1, <1>2, <2>3, <2>5 DEF IInv, TypeOK
  <2>7. \A q \in Targets : worker[q] \notin Copying
    BY <1>1, WriterAlone DEF Writers, MayCopy
  <2>8. WorkersOK' BY <1>1, <2>7 DEF WorkersOK, Copying
  <2>9. ServedViewsUsable'
    <3>1. SUFFICES ASSUME NEW q \in Targets, unit[q] # "nobody", disturbed = 0
                   PROVE  FALSE
      BY <1>1 DEF ServedViewsUsable
    <3>2. view[q] = NoView BY <1>1, <2>1, <3>1 DEF PurgeOK
    <3>3. Verified(q) BY <3>1 DEF IInv, ServedViewsUsable, Usable
    <3> QED BY <3>2, <3>3 DEF Verified, NoView
  <2> QED BY <2>5, <2>6, <2>8, <2>9 DEF IInv
<1> QED BY <1>2, <1>3, <1>4

-----------------------------------------------------------------------------
(* Launch and stop                                                         *)

\* A launch starts a loop and relies on nothing.
LEMMA LaunchBeginKeeps ==
  ASSUME IInv, NEW p \in Ops, LaunchBegin(p)
  PROVE  IInv'
<1> DEFINE n == [Idle EXCEPT !.kind = "launch", !.pc = "verify",
                             !.todo = Targets]
<1>1. /\ n \in Commands /\ n.kind = "launch" /\ n.todo = Targets
      /\ n.pc = "verify"
  BY DEF Idle, Commands, Kinds, Writers, Steps
<1>2. CommandOK(n, view, unit, disturbed)
  BY <1>1 DEF CommandOK, LaunchOK, Past
<1>3. /\ Begin(p, "launch", n)
      /\ UNCHANGED <<view, unit, worker, faults, disturbed>>
  BY DEF LaunchBegin
<1> HIDE DEF n
<1> QED BY <1>1, <1>2, <1>3, BeginKeeps DEF Kinds, Writers

\* What a launch knows of the views and of itself.
LEMMA LaunchFacts ==
  ASSUME IInv, NEW p \in Ops, cmd[p].kind = "launch"
  PROVE  cmd[p] \in Commands /\ LaunchOK(cmd[p], view, disturbed)
BY DEF IInv, CommandsOK, CommandOK

\* A launch leaves a rank behind only when its view verifies.
LEMMA LaunchVerifyKeeps ==
  ASSUME IInv, NEW p \in Ops, LaunchVerify(p)
  PROVE  IInv'
<1>1. /\ cmd[p].kind = "launch" /\ cmd[p].pc = "verify"
      /\ UNCHANGED <<view, unit, worker, disturbed>>
  BY DEF LaunchVerify, At
<1>2. PICK r \in Targets :
        /\ r \in cmd[p].todo /\ faults' \in 0..MaxFaults
        /\ \/ Verified(r) /\ Advance(p, cmd[p], r, "clear", Targets)
           \/ Finish(p)
  BY Calls DEF LaunchVerify, Ascending, IInv
<1>3. CASE Finish(p) BY <1>1, <1>2, <1>3, FinishKeeps
<1>4. CASE Verified(r) /\ Advance(p, cmd[p], r, "clear", Targets)
  <2>1. cmd[p] \in Commands /\ LaunchOK(cmd[p], view, disturbed)
    BY <1>1, LaunchFacts
  <2>2. PICK n : Round(cmd[p], n, r, "clear", Targets) /\ Becomes(p, n)
    BY <1>2, <1>4, <2>1, AdvanceIsRound DEF Steps
  <2>3. CommandOK(n, view, unit, disturbed)
    BY <1>1, <1>4, <2>1, <2>2, VerifiedReady
       DEF Round, CommandOK, LaunchOK, Past
  <2>4. unit' \in [Targets -> Ops \cup {"nobody"}]
    BY <1>1 DEF IInv, TypeOK
  <2> QED BY <1>1, <1>2, <2>2, <2>3, <2>4, LaunchStep DEF Round
<1> QED BY <1>2, <1>3, <1>4

\* Clearing removes containers and changes no view.
LEMMA LaunchClearKeeps ==
  ASSUME IInv, NEW p \in Ops, LaunchClear(p)
  PROVE  IInv'
<1>1. /\ cmd[p].kind = "launch" /\ cmd[p].pc = "clear"
      /\ UNCHANGED <<view, worker, disturbed>>
  BY DEF LaunchClear, At
<1>2. PICK r \in Targets :
        /\ r \in cmd[p].todo /\ faults' \in 0..MaxFaults
        /\ \/ /\ unit' = [unit EXCEPT ![r] = "nobody"]
              /\ Advance(p, cmd[p], r, "start", Targets)
           \/ UNCHANGED unit /\ Finish(p)
  BY Calls DEF LaunchClear, Descending, IInv
<1>3. CASE UNCHANGED unit /\ Finish(p) BY <1>1, <1>2, <1>3, FinishKeeps
<1>4. CASE /\ unit' = [unit EXCEPT ![r] = "nobody"]
           /\ Advance(p, cmd[p], r, "start", Targets)
  <2>1. cmd[p] \in Commands /\ LaunchOK(cmd[p], view, disturbed)
    BY <1>1, LaunchFacts
  <2>2. PICK n : Round(cmd[p], n, r, "start", Targets) /\ Becomes(p, n)
    BY <1>2, <1>4, <2>1, AdvanceIsRound DEF Steps
  <2>3. CommandOK(n, view, unit, disturbed)
    BY <1>1, <2>1, <2>2 DEF Round, CommandOK, LaunchOK
  <2>4. /\ unit' \in [Targets -> Ops \cup {"nobody"}]
        /\ \A q \in Targets : unit[q] = "nobody" => unit'[q] = "nobody"
    BY <1>4 DEF IInv, TypeOK
  <2> QED BY <1>1, <1>2, <2>2, <2>3, <2>4, LaunchStep DEF Round
<1> QED BY <1>2, <1>3, <1>4

\* Entering the abort is a step of the launch, or its end.
LEMMA AbortEntered ==
  ASSUME IInv, NEW p \in Ops, cmd[p].kind = "launch", EnterAbort(p)
  PROVE  \E n : /\ Becomes(p, n) /\ n.kind \in {"launch", "idle"}
                /\ CommandOK(n, view, unit, disturbed)
<1>1. cmd[p] \in Commands BY LaunchFacts
<1>2. CASE cmd[p].did = {}
  <2>1. Becomes(p, Idle) BY <1>2 DEF EnterAbort, Becomes
  <2>2. Idle.kind = "idle" BY DEF Idle
  <2> QED BY <2>1, <2>2, IdleOK
<1>3. CASE cmd[p].did # {}
  <2> DEFINE n == [cmd[p] EXCEPT !.pc = "abort", !.todo = cmd[p].did]
  <2>1. n \in Commands /\ n.kind = "launch" /\ n.pc = "abort"
    BY <1>1 DEF Commands, Steps
  <2>2. CommandOK(n, view, unit, disturbed)
    BY <2>1 DEF CommandOK, LaunchOK
  <2>3. Becomes(p, n) BY <1>3 DEF EnterAbort, Becomes
  <2> QED BY <2>1, <2>2, <2>3
<1> QED BY <1>2, <1>3

\* A container is started only after every rank's view verified, and no view
\* has changed since.
LEMMA LaunchStartKeeps ==
  ASSUME IInv, NEW p \in Ops, LaunchStart(p)
  PROVE  IInv'
<1> DEFINE tracked(r) == [cmd[p] EXCEPT !.did = @ \cup {r}]
<1>1. /\ cmd[p].kind = "launch" /\ cmd[p].pc = "start"
      /\ UNCHANGED <<view, worker, disturbed>>
  BY DEF LaunchStart, At
<1>2. PICK r \in Targets :
        /\ r \in cmd[p].todo /\ faults' \in 0..MaxFaults
        /\ unit' = unit \/ unit' = [unit EXCEPT ![r] = p]
        /\ Advance(p, tracked(r), r, "wait", {}) \/ EnterAbort(p)
  BY Calls DEF LaunchStart, HeadLast, IInv
<1>3. cmd[p] \in Commands /\ LaunchOK(cmd[p], view, disturbed)
  BY <1>1, LaunchFacts
<1>4. disturbed = 0 => Usable
  BY <1>1, <1>3 DEF LaunchOK, ReadyOK, Usable, Verified
<1>5. unit' \in [Targets -> Ops \cup {"nobody"}]
  BY <1>2 DEF IInv, TypeOK
<1>6. tracked(r) \in Commands /\ tracked(r).kind = "launch"
      /\ tracked(r).pc = "start" /\ tracked(r).todo = cmd[p].todo
  BY <1>1, <1>3 DEF Commands
<1> HIDE DEF tracked
<1>7. \E n : /\ Becomes(p, n) /\ n.kind \in {"launch", "idle"}
             /\ CommandOK(n, view, unit, disturbed)
  <2>1. CASE EnterAbort(p) BY <1>1, <2>1, AbortEntered
  <2>2. CASE Advance(p, tracked(r), r, "wait", {})
    <3>1. PICK n : Round(tracked(r), n, r, "wait", {}) /\ Becomes(p, n)
      BY <1>2, <1>6, <2>2, AdvanceIsRound DEF Steps
    <3>2. CommandOK(n, view, unit, disturbed)
      BY <1>1, <1>3, <1>6, <3>1 DEF Round, CommandOK, LaunchOK
    <3> QED BY <1>6, <3>1, <3>2 DEF Round
  <2> QED BY <1>2, <2>1, <2>2
<1> QED BY <1>1, <1>2, <1>4, <1>5, <1>7, LaunchStep

\* Waiting ends the launch or enters its abort.
LEMMA LaunchWaitKeeps ==
  ASSUME IInv, NEW p \in Ops, LaunchWait(p)
  PROVE  IInv'
<1>1. /\ cmd[p].kind = "launch"
      /\ UNCHANGED <<view, unit, worker, faults, disturbed>>
      /\ faults' \in 0..MaxFaults /\ unit' \in [Targets -> Ops \cup {"nobody"}]
  BY DEF LaunchWait, At, IInv, TypeOK
<1>2. CASE Finish(p) BY <1>1, <1>2, FinishKeeps
<1>3. CASE EnterAbort(p)
  <2>1. PICK n : /\ Becomes(p, n) /\ n.kind \in {"launch", "idle"}
                 /\ CommandOK(n, view, unit, disturbed)
    BY <1>1, <1>3, AbortEntered
  <2> QED BY <1>1, <2>1, LaunchStep
<1> QED BY <1>2, <1>3 DEF LaunchWait

\* An abort only removes containers.
LEMMA LaunchAbortKeeps ==
  ASSUME IInv, NEW p \in Ops, LaunchAbort(p)
  PROVE  IInv'
<1>1. /\ cmd[p].kind = "launch" /\ cmd[p].pc = "abort"
      /\ UNCHANGED <<view, worker, disturbed>>
  BY DEF LaunchAbort, At
<1>2. PICK r \in Targets :
        /\ r \in cmd[p].todo /\ faults' \in 0..MaxFaults
        /\ unit' = unit \/ unit' = [unit EXCEPT ![r] = "nobody"]
        /\ Advance(p, cmd[p], r, "done", {})
  BY Calls DEF LaunchAbort, HeadFirst, IInv
<1>3. cmd[p] \in Commands BY <1>1, LaunchFacts
<1>4. PICK n : Round(cmd[p], n, r, "done", {}) /\ Becomes(p, n)
  BY <1>2, <1>3, AdvanceIsRound DEF Steps
<1>5. CommandOK(n, view, unit, disturbed)
  BY <1>1, <1>4 DEF Round, CommandOK, LaunchOK
<1>6. /\ unit' \in [Targets -> Ops \cup {"nobody"}]
      /\ \A q \in Targets : unit[q] = "nobody" => unit'[q] = "nobody"
  BY <1>2 DEF IInv, TypeOK
<1> QED BY <1>1, <1>2, <1>4, <1>5, <1>6, LaunchStep DEF Round

\* A container that goes disturbs no command.
LEMMA StopKeeps ==
  ASSUME IInv, NEW r \in Targets, Stop(r)
  PROVE  IInv'
<1>1. /\ UNCHANGED <<view, worker, cmd, faults, disturbed>>
      /\ unit' \in [Targets -> Ops \cup {"nobody"}]
      /\ \A q \in Targets : unit[q] = "nobody" => unit'[q] = "nobody"
  BY DEF Stop, IInv, TypeOK
<1>2. TypeOK' BY <1>1 DEF IInv, TypeOK
<1>3. CommandsOK'
  <2> SUFFICES ASSUME NEW p \in Ops
               PROVE  CommandOK(cmd[p], view, unit', disturbed)
    BY <1>1 DEF CommandsOK
  <2>1. CommandOK(cmd[p], view, unit, disturbed) BY DEF IInv, CommandsOK
  <2>2. cmd[p].did \subseteq Targets BY <2>1 DEF CommandOK, Commands
  <2>3. PrepareOK(cmd[p], view, unit, disturbed) =>
          PrepareOK(cmd[p], view, unit', disturbed)
    BY <1>1 DEF PrepareOK, Past
  <2>4. PurgeOK(cmd[p], view, unit) => PurgeOK(cmd[p], view, unit')
    BY <1>1, <2>2 DEF PurgeOK
  <2> QED BY <2>1, <2>3, <2>4 DEF CommandOK
<1>4. Exclusion' BY <1>1 DEF IInv, Exclusion
<1>5. WorkersOK' BY <1>1 DEF IInv, WorkersOK
<1>6. ServedViewsUsable' BY <1>1 DEF IInv, ServedViewsUsable, Usable, Verified
<1> QED BY <1>2, <1>3, <1>4, <1>5, <1>6 DEF IInv

\* A disturbance excuses the views; what commands know of pins, of views that
\* are gone and of containers stays true.
LEMMA DisturbanceKeeps ==
  ASSUME IInv, NEW r \in Targets, Disturbance(r)
  PROVE  IInv'
<1>1. /\ UNCHANGED <<unit, worker, cmd, faults>>
      /\ disturbed \in 0..MaxDisturbances
      /\ disturbed < MaxDisturbances /\ disturbed' = disturbed + 1
  BY DEF Disturbance, IInv, TypeOK
<1>2. disturbed' > 0 /\ disturbed' # 0 /\ disturbed' \in 0..MaxDisturbances
  BY <1>1, BoundsAssumption
<1>3. view \in [Targets -> Views]
      /\ \A q \in Targets : view[q].pinned => view[q].stamp = "ready"
  BY DEF IInv, TypeOK
<1>4. PICK w \in Views :
        /\ view' = [view EXCEPT ![r] = w]
        /\ w.pinned => view[r].pinned /\ w.stamp = view[r].stamp
        /\ w.stamp \in {view[r].stamp, "none"}
        /\ view[r] = NoView => w = NoView
  <2>1. NoView \in Views /\ NoView.pinned = FALSE /\ NoView.stamp = "none"
        /\ NoView.data = "none"
    BY DEF NoView, Views
  <2>2. LET w == [view[r] EXCEPT !.data = "bad"] IN
        w \in Views /\ w.pinned = view[r].pinned /\ w.stamp = view[r].stamp
    BY <1>3 DEF Views
  <2> QED BY <2>1, <2>2 DEF Disturbance
<1>5. /\ view' \in [Targets -> Views]
      /\ \A q \in Targets :
           /\ view'[q].pinned => view[q].pinned /\ view'[q].stamp = "ready"
           /\ view'[q].stamp \in {view[q].stamp, "none"}
           /\ view[q] = NoView => view'[q] = NoView
  BY <1>3, <1>4
<1>6. TypeOK' BY <1>1, <1>2, <1>5 DEF IInv, TypeOK
<1>7. CommandsOK'
  <2> SUFFICES ASSUME NEW p \in Ops
               PROVE  CommandOK(cmd[p], view', unit, disturbed')
    BY <1>1 DEF CommandsOK
  <2>1. CommandOK(cmd[p], view, unit, disturbed) BY DEF IInv, CommandsOK
  <2>2. cmd[p].did \subseteq Targets BY <2>1 DEF CommandOK, Commands
  <2>3. /\ \A q \in Targets : ReadyOK(view', q, disturbed')
        /\ \A q \in Targets : CopiedOK(view', q, disturbed')
    BY <1>2 DEF ReadyOK, CopiedOK
  <2>4. PrepareOK(cmd[p], view, unit, disturbed) =>
          PrepareOK(cmd[p], view', unit, disturbed')
    BY <1>5, <2>2, <2>3 DEF PrepareOK, Past
  <2>5. PinOK(cmd[p], view, disturbed) => PinOK(cmd[p], view', disturbed')
    BY <1>5, <2>3 DEF PinOK, Past
  <2>6. PurgeOK(cmd[p], view, unit) => PurgeOK(cmd[p], view', unit)
    BY <1>5 DEF PurgeOK, Past
  <2>7. LaunchOK(cmd[p], view, disturbed) => LaunchOK(cmd[p], view', disturbed')
    BY <2>3 DEF LaunchOK, Past
  <2> QED BY <2>1, <2>4, <2>5, <2>6, <2>7 DEF CommandOK
<1>8. Exclusion' BY <1>1 DEF IInv, Exclusion
<1>9. WorkersOK' BY <1>1, <1>2, <1>5 DEF IInv, WorkersOK
<1>10. ServedViewsUsable' BY <1>2 DEF ServedViewsUsable
<1> QED BY <1>6, <1>7, <1>8, <1>9, <1>10 DEF IInv

-----------------------------------------------------------------------------
(* The invariant.                                                          *)

\* The first state has no view, container, worker or command.
LEMMA InitInv == Init => IInv
<1> SUFFICES ASSUME Init PROVE IInv
  OBVIOUS
<1>1. NoView \in Views /\ NoView.pinned = FALSE BY DEF NoView, Views
<1>2. Idle \in Commands /\ Idle.kind = "idle" BY DEF Idle, Commands, Kinds, Writers, Steps
<1>3. TypeOK
  BY <1>1, <1>2, BoundsAssumption DEF Init, TypeOK, WorkerSteps
<1>4. CommandsOK BY IdleOK DEF Init, CommandsOK
<1>5. Exclusion BY <1>2 DEF Init, Exclusion
<1>6. WorkersOK BY DEF Init, WorkersOK, Copying
<1>7. ServedViewsUsable BY DEF Init, ServedViewsUsable
<1> QED BY <1>3, <1>4, <1>5, <1>6, <1>7 DEF IInv

\* Every step keeps the invariant.
LEMMA StepInv == IInv /\ [Next]_vars => IInv'
<1> SUFFICES ASSUME IInv, [Next]_vars PROVE IInv'
  OBVIOUS
<1>1. ASSUME NEW p \in Ops, Prepare(p) PROVE IInv'
  BY <1>1, PreparePlanKeeps, PrepareSkipKeeps, PrepareReuseKeeps,
     PreparePinsKeeps, PrepareUsersKeeps, PrepareForkKeeps, PrepareBookKeeps,
     PrepareWaitKeeps, PrepareVerifyKeeps, PreparePublishKeeps, PrepareCleanupKeeps, EndsKeep
     DEF Prepare
<1>2. ASSUME NEW p \in Ops, Pin(p) PROVE IInv'
  BY <1>2, PinBeginKeeps, PinLookupKeeps, PinSetKeeps DEF Pin
<1>3. ASSUME NEW p \in Ops, Purge(p) PROVE IInv'
  BY <1>3, PurgeBeginKeeps, PurgeListKeeps, PurgeCheckKeeps, PurgeDeleteKeeps
     DEF Purge
<1>4. ASSUME NEW p \in Ops, Launch(p) PROVE IInv'
  BY <1>4, LaunchBeginKeeps, LaunchVerifyKeeps, LaunchClearKeeps,
     LaunchStartKeeps, LaunchWaitKeeps, LaunchAbortKeeps DEF Launch
<1>5. ASSUME NEW p \in Ops, Command(p) \/ Killed(p) PROVE IInv'
  BY <1>1, <1>2, <1>3, <1>4, <1>5, PrepareInterruptedKeeps,
     PrepareInterruptedEarlyKeeps, EndsKeep
     DEF Command
<1>6. ASSUME NEW r \in Targets, Worker(r) \/ Stop(r) \/ Disturbance(r)
      PROVE  IInv'
  BY <1>6, WorkerKeeps, StopKeeps, DisturbanceKeeps
<1>7. ASSUME UNCHANGED vars PROVE IInv'
  <2>1. UNCHANGED <<view, unit, worker, cmd, faults, disturbed>>
    BY <1>7 DEF vars
  <2>2. TypeOK' BY <2>1 DEF IInv, TypeOK
  <2>3. CommandsOK' BY <2>1 DEF IInv, CommandsOK
  <2>4. Exclusion' BY <2>1 DEF IInv, Exclusion
  <2>5. WorkersOK' BY <2>1 DEF IInv, WorkersOK
  <2>6. ServedViewsUsable'
    BY <2>1 DEF IInv, ServedViewsUsable, Usable, Verified
  <2> QED BY <2>2, <2>3, <2>4, <2>5, <2>6 DEF IInv
<1> QED BY <1>5, <1>6, <1>7 DEF Next

\* The inductive invariant holds of every behaviour.
THEOREM Invariance == Spec => []IInv
<1>1. Init => IInv BY InitInv
<1>2. IInv /\ [Next]_vars => IInv' BY StepInv
<1> QED BY <1>1, <1>2, PTL DEF Spec

\* Views, containers, workers and commands keep their types and the local
\* consistency of a stamp with its data.
THEOREM TypeCorrect == Spec => []TypeOK
<1>1. IInv => TypeOK BY DEF IInv
<1> QED BY <1>1, Invariance, PTL

\* As long as nothing outside the program interferes, a service with a
\* container on any rank has a ready, intact view on every rank: the lock
\* modes, the checks of all ranks before the first write and the stop of the
\* workers before cleanup suffice, for any number of ranks and commands.
THEOREM ServedViews == Spec => []ServedViewsUsable
<1>1. IInv => ServedViewsUsable BY DEF IInv
<1> QED BY <1>1, Invariance, PTL

\* prepare's success means that every rank's view is ready and intact.
THEOREM Prepared == Spec => []PreparedIsUsable
<1>1. IInv => PreparedIsUsable
  BY DEF IInv, PreparedIsUsable, CommandsOK, CommandOK, PrepareOK, ReadyOK,
         Usable, Verified, At
<1> QED BY <1>1, Invariance, PTL

\* A preparation that failed and whose removals succeeded left no view it noted.
THEOREM CleanedUp == Spec => []CleanupLeavesNothing
<1>1. IInv => CleanupLeavesNothing
  BY DEF IInv, CleanupLeavesNothing, CommandsOK, CommandOK, PrepareOK, At
<1> QED BY <1>1, Invariance, PTL

-----------------------------------------------------------------------------
(* What a step may never do.                                               *)

\* No container sees the views, none is pinned and none will be.
Unseen ==
  /\ UNCHANGED <<unit, disturbed>>
  /\ \A r \in Targets : unit[r] = "nobody" /\ ~view[r].pinned /\ ~view'[r].pinned

\* Publishing and cleaning up go unseen.
LEMMA PrepareUnseen ==
  ASSUME IInv, NEW p \in Ops, PreparePublish(p) \/ PrepareCleanup(p)
  PROVE  Unseen
<1>1. /\ cmd[p].kind = "prepare" /\ cmd[p].pc \in Rewriting
      /\ UNCHANGED <<unit, disturbed>>
  BY DEF PreparePublish, PrepareCleanup, At, Rewriting
<1>2. /\ view \in [Targets -> Views]
      /\ \A r \in Targets : ~view[r].pinned /\ unit[r] = "nobody"
  BY <1>1, RewritingFacts
<1>3. CASE PreparePublish(p)
  <2>1. PICK r \in Targets :
          view' = view \/ view' = [view EXCEPT ![r] = Stamped(@, "ready", FALSE)]
    BY <1>3 DEF PreparePublish
  <2>2. Stamped(view[r], "ready", FALSE).pinned = FALSE BY <1>2, StampedIs
  <2> QED BY <1>1, <1>2, <2>1, <2>2 DEF Unseen
<1>4. CASE PrepareCleanup(p)
  <2>1. PICK r \in Targets :
          \E w \in Remains(view[r]) \cup {NoView} : view' = [view EXCEPT ![r] = w]
    BY <1>4 DEF PrepareCleanup
  <2>2. \A q \in Targets : view'[q].pinned => view[q].pinned
    BY <1>1, <2>1, RemovalKeepsViews DEF IInv
  <2> QED BY <1>1, <1>2, <2>2 DEF Unseen
<1> QED BY <1>3, <1>4

\* So does every worker.
LEMMA WorkerUnseen ==
  ASSUME IInv, NEW r \in Targets, Worker(r)
  PROVE  Unseen
<1>1. /\ worker[r] \in Copying /\ view \in [Targets -> Views]
      /\ UNCHANGED <<unit, disturbed>>
  BY DEF Worker, WorkerClear, WorkerCopy, WorkerStamp, WorkerFails, Copying,
         IInv, TypeOK
<1>2. \A q \in Targets : unit[q] = "nobody" /\ ~view[q].pinned
  BY <1>1 DEF IInv, WorkersOK
<1>3. \/ UNCHANGED view
      \/ \E data \in {"partial", "good", "bad"} :
           view' = [view EXCEPT ![r].data = data]
      \/ view' = [view EXCEPT ![r] = Stamped(@, "verifying", FALSE)]
  BY DEF Worker, WorkerClear, WorkerCopy, WorkerStamp, WorkerFails
<1>4. Stamped(view[r], "verifying", FALSE).pinned = FALSE
  BY <1>1, StampedIs
<1>5. \A data \in {"partial", "good", "bad"} :
        [view[r] EXCEPT !.data = data].pinned = view[r].pinned
  BY <1>1 DEF Views
<1>6. \A q \in Targets : ~view'[q].pinned BY <1>1, <1>2, <1>3, <1>4, <1>5
<1> QED BY <1>1, <1>2, <1>6 DEF Unseen

\* Views change by a disturbance, by a preparation that nobody sees, by a pin
\* that is set, or by a purge that deletes.
LEMMA ViewChanges ==
  ASSUME IInv, Next
  PROVE  \/ UNCHANGED <<view, disturbed>>
         \/ \E r \in Targets : Disturbance(r)
         \/ Unseen
         \/ \E p \in Ops : PinSet(p) \/ PurgeDelete(p)
<1>1. ASSUME NEW p \in Ops,
             \/ Prepare(p)
             \/ PrepareInterrupted(p) \/ PrepareInterruptedEarly(p)
      PROVE  UNCHANGED <<view, disturbed>> \/ Unseen
  BY <1>1, PrepareUnseen
     DEF Prepare, PrepareInterrupted, PrepareInterruptedEarly, PreparePlan,
         PrepareSkip, PrepareReuse, PreparePins, PrepareUsers, PrepareFork,
         PrepareBook, PrepareWait, PrepareVerify, PrepareCleaned
<1>2. ASSUME NEW p \in Ops, Pin(p) 
      PROVE  UNCHANGED <<view, disturbed>> \/ PinSet(p)
  BY <1>2 DEF Pin, PinBegin, PinLookup
<1>3. ASSUME NEW p \in Ops, Purge(p) 
      PROVE  UNCHANGED <<view, disturbed>> \/ PurgeDelete(p)
  BY <1>3 DEF Purge, PurgeBegin, PurgeList, PurgeCheck
<1>4. ASSUME NEW p \in Ops, Launch(p) PROVE UNCHANGED <<view, disturbed>>
  BY <1>4 DEF Launch, LaunchBegin, LaunchVerify, LaunchClear, LaunchStart,
              LaunchWait, LaunchAbort
<1>5. ASSUME NEW p \in Ops, Ends(p) \/ Killed(p)
      PROVE  UNCHANGED <<view, disturbed>>
  BY <1>5 DEF Ends, Killed
<1>6. ASSUME NEW r \in Targets, Worker(r) PROVE Unseen
  BY <1>6, WorkerUnseen
<1>7. ASSUME NEW r \in Targets, Stop(r) PROVE UNCHANGED <<view, disturbed>>
  BY <1>7 DEF Stop
<1> QED BY <1>1, <1>2, <1>3, <1>4, <1>5, <1>6, <1>7 DEF Next, Command

\* A pin that is set changes one view's pin and nothing else that can be seen.
LEMMA PinSetIs ==
  ASSUME IInv, NEW p \in Ops, PinSet(p)
  PROVE  /\ cmd[p].kind \in {"pin", "unpin"}
         /\ disturbed > 0 \/ Usable
         /\ UNCHANGED <<unit, disturbed>>
         /\ \E r \in Targets :
              \A q \in Targets :
                /\ q # r => view'[q] = view[q]
                /\ view'[q].stamp = view[q].stamp /\ view'[q].data = view[q].data
                /\ cmd[p].kind = "pin" /\ view[q].pinned => view'[q].pinned
<1>1. /\ cmd[p].kind \in {"pin", "unpin"} /\ cmd[p].pc = "set"
      /\ PinOK(cmd[p], view, disturbed)
      /\ view \in [Targets -> Views] /\ disturbed \in Nat
  BY PinFacts DEF PinSet, IInv, TypeOK
<1>2. disturbed > 0 \/ Usable BY <1>1 DEF PinOK, ReadyOK, Usable, Verified
<1>3. UNCHANGED <<unit, disturbed>> BY DEF PinSet
<1>4. PICK r \in Targets :
        \/ UNCHANGED view
        \/ /\ view[r].stamp # "none"
           /\ view' = [view EXCEPT ![r] =
                         Stamped(@, "ready", cmd[p].kind = "pin")]
  BY DEF PinSet
<1>5. CASE UNCHANGED view BY <1>1, <1>2, <1>3, <1>5
<1>6. CASE /\ view[r].stamp # "none"
           /\ view' = [view EXCEPT ![r] =
                         Stamped(@, "ready", cmd[p].kind = "pin")]
  <2>1. view[r].stamp = "ready" BY <1>1, <1>6 DEF PinOK, Views
  <2>2. LET w == Stamped(view[r], "ready", cmd[p].kind = "pin") IN
        /\ w.stamp = "ready" /\ w.data = view[r].data
        /\ cmd[p].kind = "pin" => w.pinned
    BY <1>1, StampedIs
  <2>3. \A q \in Targets :
          /\ q # r => view'[q] = view[q]
          /\ view'[q].stamp = view[q].stamp /\ view'[q].data = view[q].data
          /\ cmd[p].kind = "pin" /\ view[q].pinned => view'[q].pinned
    BY <1>1, <1>6, <2>1, <2>2
  <2> QED BY <1>1, <1>2, <1>3, <2>3
<1> QED BY <1>4, <1>5, <1>6

\* A purge that deletes finds no container on a listed rank and, unless it is
\* forced, no pin; it removes one listed view or part of it.
LEMMA PurgeDeleteIs ==
  ASSUME IInv, NEW p \in Ops, PurgeDelete(p)
  PROVE  /\ cmd[p].kind = "purge" /\ UNCHANGED <<unit, disturbed>>
         /\ \A q \in Targets : view[q] # NoView => unit[q] = "nobody"
         /\ cmd[p].force \/ \A q \in Targets : ~view[q].pinned
         /\ \/ UNCHANGED view
            \/ \E r \in Targets :
                 /\ view[r] # NoView
                 /\ \E w \in Remains(view[r]) \cup {NoView} :
                      view' = [view EXCEPT ![r] = w]
<1>1. /\ cmd[p].kind = "purge" /\ cmd[p].pc = "delete"
      /\ UNCHANGED <<unit, disturbed>>
  BY DEF PurgeDelete, At
<1>2. PurgeOK(cmd[p], view, unit) BY <1>1, PurgeFacts
<1>3. \/ UNCHANGED view
      \/ \E r \in Targets :
           /\ view[r] # NoView
           /\ \E w \in Remains(view[r]) \cup {NoView} :
                view' = [view EXCEPT ![r] = w]
  BY DEF PurgeDelete
<1> QED BY <1>1, <1>2, <1>3 DEF PurgeOK

\* The data and the stamp of a view that a container mounts stay as they are,
\* whatever the program does on this or on another rank.
THEOREM MountedViews == Spec => MountedViewKept
<1>1. ASSUME IInv, Next PROVE KeepsMounted
  <2>1. CASE UNCHANGED view BY <2>1 DEF KeepsMounted
  <2>2. CASE \E r \in Targets : Disturbance(r)
    BY <1>1, <2>2 DEF KeepsMounted, Disturbance, IInv, TypeOK
  <2>3. CASE Unseen BY <2>3 DEF Unseen, KeepsMounted
  <2>4. ASSUME NEW p \in Ops, PinSet(p) PROVE KeepsMounted
    BY <1>1, <2>4, PinSetIs DEF KeepsMounted
  <2>5. ASSUME NEW p \in Ops, PurgeDelete(p) PROVE KeepsMounted
    <3>1. CASE UNCHANGED view BY <3>1 DEF KeepsMounted
    <3>2. ASSUME NEW r \in Targets, NEW w \in Remains(view[r]) \cup {NoView},
                 view[r] # NoView, view' = [view EXCEPT ![r] = w]
          PROVE  KeepsMounted
      <4>1. \A q \in Targets : q # r => view'[q] = view[q]
        BY <1>1, <3>2 DEF IInv, TypeOK
      <4>2. unit[r] = "nobody" BY <1>1, <2>5, <3>2, PurgeDeleteIs
      <4> QED BY <4>1, <4>2 DEF KeepsMounted
    <3> QED BY <1>1, <2>5, <3>1, <3>2, PurgeDeleteIs
  <2> QED BY <1>1, <2>1, <2>2, <2>3, <2>4, <2>5, ViewChanges
<1>2. IInv /\ [Next]_vars => [KeepsMounted]_vars BY <1>1
<1> QED BY <1>2, Invariance, PTL DEF Spec, MountedViewKept

\* A pin is dropped by unpin and by a forced purge only.
THEOREM Pinned == Spec => PinKept
<1>1. ASSUME IInv, Next PROVE KeepsPins
  <2>1. CASE UNCHANGED view BY <2>1 DEF KeepsPins
  <2>2. CASE \E r \in Targets : Disturbance(r)
    BY <1>1, <2>2 DEF KeepsPins, Disturbance, IInv, TypeOK
  <2>3. CASE Unseen BY <2>3 DEF Unseen, KeepsPins
  <2>4. ASSUME NEW p \in Ops, PinSet(p) PROVE KeepsPins
    BY <1>1, <2>4, PinSetIs DEF KeepsPins
  <2>5. ASSUME NEW p \in Ops, PurgeDelete(p) PROVE KeepsPins
    BY <1>1, <2>5, PurgeDeleteIs DEF KeepsPins
  <2> QED BY <1>1, <2>1, <2>2, <2>3, <2>4, <2>5, ViewChanges
<1>2. IInv /\ [Next]_vars => [KeepsPins]_vars BY <1>1
<1> QED BY <1>2, Invariance, PTL DEF Spec, PinKept

\* Nothing goes in a purge that one pin or one container should have stopped.
THEOREM PurgeSpares == Spec => PurgeSparesAll
<1>1. ASSUME IInv, Next PROVE SparesAll
  <2> SUFFICES ASSUME NEW p \in Ops, NEW r \in Targets,
                      At(p, "purge", "delete"), view'[r] # view[r],
                      disturbed' = disturbed
               PROVE  /\ cmd[p].force \/ \A q \in Targets : ~view[q].pinned
                      /\ disturbed = 0 => \A q \in Targets : unit[q] = "nobody"
    BY DEF SparesAll
  <2>1. \A q \in Ops : q # p => cmd[q].kind = "idle"
    BY <1>1, WriterAlone DEF At, Writers, Idle, MayCopy
  <2>2. PurgeOK(cmd[p], view, unit) BY <1>1, PurgeFacts DEF At
  <2>3. cmd[p].force \/ \A q \in Targets : ~view[q].pinned
    BY <2>2 DEF PurgeOK, At
  <2>4. ASSUME disturbed = 0, NEW q \in Targets PROVE unit[q] = "nobody"
    <3>1. SUFFICES ASSUME unit[q] # "nobody" PROVE FALSE
      OBVIOUS
    <3>2. Usable BY <1>1, <2>4, <3>1 DEF IInv, ServedViewsUsable
    <3>3. view[q] # NoView BY <3>2 DEF Usable, Verified, NoView
    <3> QED BY <2>2, <3>1, <3>3 DEF PurgeOK, At
  <2> QED BY <2>3, <2>4
<1>2. IInv /\ [Next]_vars => [SparesAll]_vars BY <1>1
<1> QED BY <1>2, Invariance, PTL DEF Spec, PurgeSparesAll

\* A step of command p other than a launch's.
NotLaunching(p) ==
  \/ Prepare(p) \/ PrepareInterrupted(p) \/ PrepareInterruptedEarly(p)
  \/ Pin(p) \/ Purge(p) \/ Ends(p) \/ Killed(p)

\* Only launches and stops change containers.
LEMMA UnitsKept ==
  ASSUME NEW p \in Ops, NotLaunching(p) PROVE UNCHANGED unit
BY DEF NotLaunching, Prepare, PreparePlan, PrepareSkip, PrepareReuse,
       PreparePins, PrepareUsers, PrepareFork, PrepareBook, PrepareWait,
       PrepareVerify, PreparePublish, PrepareCleanup, PrepareCleaned,
       PrepareInterrupted, PrepareInterruptedEarly,
       Pin, PinBegin, PinLookup, PinSet, Purge, PurgeBegin, PurgeList,
       PurgeCheck, PurgeDelete, Ends, Killed

\* A launch that fails removes no container of another command.
THEOREM AbortSpares == Spec => AbortSparesOthers
<1>1. ASSUME IInv, Next PROVE SparesOthers
  <2> SUFFICES ASSUME NEW p \in Ops, NEW r \in Targets,
                      At(p, "launch", "abort"), cmd'[p] # cmd[p],
                      unit[r] \notin {"nobody", p}
               PROVE  unit'[r] = unit[r]
    BY DEF SparesOthers
  <2>1. /\ cmd \in [Ops -> Commands]
        /\ unit \in [Targets -> Ops \cup {"nobody"}]
    BY <1>1 DEF IInv, TypeOK
  <2>2. ASSUME NEW o \in Ops, NotLaunching(o) PROVE unit'[r] = unit[r]
    BY <2>2, UnitsKept
  <2>3. ASSUME NEW o \in Ops, LaunchBegin(o) \/ LaunchVerify(o) \/ LaunchWait(o)
        PROVE  unit'[r] = unit[r]
    BY <2>3 DEF LaunchBegin, LaunchVerify, LaunchWait
  <2>4. ASSUME NEW o \in Ops, LaunchClear(o) \/ LaunchStart(o) PROVE FALSE
    <3>1. o # p BY <2>4 DEF LaunchClear, LaunchStart, At
    <3>2. \E n : cmd' = [cmd EXCEPT ![o] = n]
      BY <2>4 DEF LaunchClear, LaunchStart, Advance, EnterAbort, Finish
    <3> QED BY <2>1, <3>1, <3>2
  <2>5. ASSUME NEW o \in Ops, LaunchAbort(o) PROVE unit'[r] = unit[r]
    <3>1. \E n : cmd' = [cmd EXCEPT ![o] = n] BY <2>5 DEF LaunchAbort, Advance
    <3>2. o = p BY <2>1, <3>1
    <3>3. \/ unit' = unit
          \/ \E q \in Targets : unit[q] = p /\ unit' = [unit EXCEPT ![q] = "nobody"]
      BY <2>5, <3>2 DEF LaunchAbort
    <3> QED BY <2>1, <3>3
  <2>6. ASSUME NEW q \in Targets, Worker(q) \/ Stop(q) \/ Disturbance(q)
        PROVE  unit'[r] = unit[r]
    BY <2>6 DEF Worker, WorkerClear, WorkerCopy, WorkerStamp, WorkerFails,
                Stop, Disturbance
  <2> QED BY <1>1, <2>2, <2>3, <2>4, <2>5, <2>6
          DEF Next, Command, Launch, NotLaunching
<1>2. IInv /\ [Next]_vars => [SparesOthers]_vars BY <1>1
<1> QED BY <1>2, Invariance, PTL DEF Spec, AbortSparesOthers

-----------------------------------------------------------------------------
(* The refinement.                                                         *)

\* A step that changes no view: containers come one at a time while the
\* service is usable, and go one at a time.
LEMMA UnitSteps ==
  ASSUME IInv, Next, UNCHANGED <<view, disturbed>>
  PROVE  \/ UNCHANGED unit
         \/ \E r \in Targets :
              /\ \A q \in Targets : q # r => unit'[q] = unit[q]
              /\ unit'[r] = "nobody" \/ Usable \/ disturbed > 0
<1>1. unit \in [Targets -> Ops \cup {"nobody"}] BY DEF IInv, TypeOK
<1>2. ASSUME NEW p \in Ops, NotLaunching(p) PROVE UNCHANGED unit
  BY <1>2, UnitsKept
<1>3. ASSUME NEW r \in Targets, Worker(r) \/ Disturbance(r)
      PROVE  UNCHANGED unit
  BY <1>3 DEF Worker, WorkerClear, WorkerCopy, WorkerStamp, WorkerFails,
              Disturbance
<1>4. ASSUME NEW r \in Targets, Stop(r)
      PROVE  /\ \A q \in Targets : q # r => unit'[q] = unit[q]
             /\ unit'[r] = "nobody"
  BY <1>1, <1>4 DEF Stop
<1>5. ASSUME NEW p \in Ops, Launch(p)
      PROVE  \/ UNCHANGED unit
             \/ \E r \in Targets :
                  /\ \A q \in Targets : q # r => unit'[q] = unit[q]
                  /\ unit'[r] = "nobody" \/ Usable \/ disturbed > 0
  <2>1. CASE LaunchStart(p)
    <3>1. Usable \/ disturbed > 0
      BY <2>1, LaunchFacts DEF LaunchStart, At, LaunchOK, ReadyOK, Usable,
                               Verified
    <3>2. PICK r \in Targets : unit' = unit \/ unit' = [unit EXCEPT ![r] = p]
      BY <2>1 DEF LaunchStart
    <3> QED BY <1>1, <3>1, <3>2
  <2>2. CASE LaunchClear(p)
    <3>1. PICK r \in Targets :
            unit' = unit \/ unit' = [unit EXCEPT ![r] = "nobody"]
      BY <2>2 DEF LaunchClear
    <3> QED BY <1>1, <3>1
  <2>3. CASE LaunchAbort(p)
    <3>1. PICK r \in Targets :
            unit' = unit \/ unit' = [unit EXCEPT ![r] = "nobody"]
      BY <2>3 DEF LaunchAbort
    <3> QED BY <1>1, <3>1
  <2> QED BY <1>5, <2>1, <2>2, <2>3
          DEF Launch, LaunchBegin, LaunchVerify, LaunchWait
<1> QED BY <1>2, <1>3, <1>4, <1>5 DEF Next, Command, NotLaunching

\* A service without views is not usable, not used and not pinned.
LEMMA PromiseInit ==
  ASSUME Init
  PROVE  Promise!Init
<1>1. NoView.stamp = "none" /\ NoView.pinned = FALSE BY DEF NoView
<1>2. Usable = FALSE
  BY <1>1, TargetsAssumption DEF Init, Usable, Verified
<1>3. Users = {} /\ Pins = {} BY <1>1 DEF Init, Users, Pins
<1> QED BY <1>2, <1>3 DEF Init, Promise!Init

\* The service as a whole, when containers or nothing change.
LEMMA PromiseOfUnits ==
  ASSUME IInv, Next, UNCHANGED <<view, disturbed>>
  PROVE  [Promise!Next]_(Promise!vars)
<1>1. Usable' = Usable /\ Pins' = Pins
  BY DEF Usable, Verified, Pins
<1>2. CASE UNCHANGED unit
  BY <1>1, <1>2 DEF Users, Promise!vars
<1>3. ASSUME NEW r \in Targets,
             \A q \in Targets : q # r => unit'[q] = unit[q],
             unit'[r] = "nobody" \/ Usable \/ disturbed > 0
      PROVE  [Promise!Next]_(Promise!vars)
  <2>1. CASE unit'[r] = "nobody"
    <3>1. Users' = Users \ {r} BY <1>3, <2>1 DEF Users
    <3>2. Promise!Stop(r) BY <1>1, <3>1 DEF Promise!Stop
    <3> QED BY <3>2 DEF Promise!Next
  <2>2. CASE unit'[r] # "nobody"
    <3>1. Users' = Users \cup {r} BY <1>3, <2>2 DEF Users
    <3>2. Promise!Start(r) BY <1>1, <1>3, <2>2, <3>1 DEF Promise!Start
    <3> QED BY <3>2 DEF Promise!Next
  <2> QED BY <2>1, <2>2
<1> QED BY <1>2, <1>3, UnitSteps

\* The service as a whole, when a preparation rewrites views nobody sees: it
\* is offered, withdrawn or as usable as before.
LEMMA PromiseOfPrepare ==
  ASSUME Unseen
  PROVE  [Promise!Next]_(Promise!vars)
<1>1. /\ Users = {} /\ Users' = Users /\ Pins = {} /\ Pins' = Pins
      /\ UNCHANGED disturbed
  BY DEF Unseen, Users, Pins
<1>2. CASE ~Usable /\ Usable'
  <2>1. Promise!Offer BY <1>1, <1>2 DEF Promise!Offer
  <2> QED BY <2>1 DEF Promise!Next
<1>3. CASE Usable /\ ~Usable'
  <2>1. Promise!Withdraw BY <1>1, <1>3 DEF Promise!Withdraw
  <2> QED BY <2>1 DEF Promise!Next
<1>4. CASE Usable' = Usable BY <1>1, <1>4 DEF Promise!vars
<1>5. Usable \in BOOLEAN /\ Usable' \in BOOLEAN BY DEF Usable
<1> QED BY <1>2, <1>3, <1>4, <1>5

\* The service as a whole, when a pin is set on one rank.
LEMMA PromiseOfPin ==
  ASSUME IInv, NEW p \in Ops, PinSet(p)
  PROVE  [Promise!Next]_(Promise!vars)
<1>1. PICK r \in Targets :
        \A q \in Targets :
          /\ q # r => view'[q] = view[q]
          /\ view'[q].stamp = view[q].stamp /\ view'[q].data = view[q].data
  BY PinSetIs
<1>2. /\ disturbed > 0 \/ Usable
      /\ UNCHANGED <<unit, disturbed>>
  BY PinSetIs
<1>3. Usable' = Usable /\ Users' = Users
  BY <1>1, <1>2 DEF Usable, Verified, Users
<1>4. Pins' = Pins \cup {r} \/ Pins' = Pins \ {r}
  BY <1>1 DEF Pins
<1>5. Promise!SetPin(r) BY <1>2, <1>3, <1>4 DEF Promise!SetPin
<1> QED BY <1>5 DEF Promise!Next

\* The service as a whole, when a purge deletes on one rank.
LEMMA PromiseOfPurge ==
  ASSUME IInv, NEW p \in Ops, PurgeDelete(p)
  PROVE  [Promise!Next]_(Promise!vars)
<1>1. /\ UNCHANGED <<unit, disturbed>>
      /\ \A q \in Targets : view[q] # NoView => unit[q] = "nobody"
      /\ \/ UNCHANGED view
         \/ \E r \in Targets :
              /\ view[r] # NoView
              /\ \E w \in Remains(view[r]) \cup {NoView} :
                   view' = [view EXCEPT ![r] = w]
  BY PurgeDeleteIs
<1>2. CASE UNCHANGED view
  <2>1. Usable' = Usable /\ Users' = Users /\ Pins' = Pins
    BY <1>1, <1>2 DEF Usable, Verified, Users, Pins
  <2> QED BY <1>1, <2>1 DEF Promise!vars
<1>3. ASSUME NEW r \in Targets, NEW w \in Remains(view[r]) \cup {NoView},
             view' = [view EXCEPT ![r] = w]
      PROVE  [Promise!Next]_(Promise!vars)
  <2>1. /\ view \in [Targets -> Views] /\ view'[r] = w
        /\ \A q \in Targets : q # r => view'[q] = view[q]
        /\ \A q \in Targets : view'[q].pinned => view[q].pinned
    <3>1. TypeOK BY DEF IInv
    <3>2. view \in [Targets -> Views] BY <3>1 DEF TypeOK
    <3>3. UNCHANGED disturbed BY <1>1
    <3> QED BY <1>3, <3>1, <3>2, <3>3, RemovalKeepsViews
  <2>2. w.data = "good" => w = view[r]
    BY <1>3, <2>1 DEF Remains, NoView, Views
  <2>3. Usable' => Usable
    BY <2>1, <2>2 DEF Usable, Verified
  <2>4. Pins' \in SUBSET Pins /\ Users' = Users
    BY <1>1, <2>1 DEF Pins, Users
  <2>5. Usable => Users = {}
    BY <1>1 DEF Usable, Verified, NoView, Users
  <2>6. CASE Usable /\ ~Usable'
    <3>1. Promise!Withdraw BY <1>1, <2>4, <2>5, <2>6 DEF Promise!Withdraw
    <3> QED BY <3>1 DEF Promise!Next
  <2>7. CASE ~Usable
    <3>1. ~Usable' BY <2>3, <2>7
    <3>2. Usable' = Usable BY <2>7, <3>1 DEF Usable
    <3>3. Promise!Discard BY <1>1, <2>4, <2>7, <3>2 DEF Promise!Discard
    <3> QED BY <3>3 DEF Promise!Next
  <2>8. CASE Usable'
    <3>1. w = view[r] BY <2>1, <2>2, <2>8 DEF Usable, Verified
    <3>2. Pins' = Pins BY <2>1, <3>1 DEF Pins
    <3>3. Usable' = Usable BY <2>3, <2>8
    <3> QED BY <1>1, <2>4, <3>2, <3>3 DEF Promise!vars
  <2> QED BY <2>6, <2>7, <2>8
<1> QED BY <1>1, <1>2, <1>3

\* The service as a whole, when a view is lost or damaged.
LEMMA PromiseOfDisturbance ==
  ASSUME IInv, NEW r \in Targets, Disturbance(r)
  PROVE  [Promise!Next]_(Promise!vars)
<1>1. /\ UNCHANGED unit /\ disturbed' = disturbed + 1
      /\ view \in [Targets -> Views]
      /\ \/ view' = [view EXCEPT ![r] = NoView]
         \/ view' = [view EXCEPT ![r].data = "bad"]
  BY DEF Disturbance, IInv, TypeOK
<1>2. [view[r] EXCEPT !.data = "bad"].data = "bad"
      /\ [view[r] EXCEPT !.data = "bad"].pinned = view[r].pinned
      /\ NoView.data = "none" /\ NoView.pinned = FALSE
  BY <1>1 DEF NoView, Views
<1>3. ~Usable' BY <1>1, <1>2 DEF Usable, Verified
<1>4. Usable' = FALSE BY <1>3
<1>5. Users' = Users BY <1>1 DEF Users
<1>6. \A q \in Targets : view'[q].pinned => view[q].pinned
  BY <1>1, <1>2
<1>7. Pins' \in SUBSET Pins BY <1>6 DEF Pins
<1>8. Promise!Disturb BY <1>1, <1>4, <1>5, <1>7 DEF Promise!Disturb
<1> QED BY <1>8 DEF Promise!Next

\* The commands, with all their failures, interrupts and kills, implement the
\* promise: every step is one of HotPromise or changes nothing it can see.
THEOREM Implementation == Spec => KeepsPromise
<1>1. Init => Promise!Init BY PromiseInit
<1>2. ASSUME IInv, Next PROVE [Promise!Next]_(Promise!vars)
  BY <1>2, ViewChanges, PromiseOfUnits, PromiseOfPrepare, PromiseOfPin,
     PromiseOfPurge, PromiseOfDisturbance
<1>3. ASSUME UNCHANGED vars PROVE UNCHANGED Promise!vars
  BY <1>3 DEF vars, Promise!vars, Usable, Verified, Users, Pins
<1>4. IInv /\ [Next]_vars => [Promise!Next]_(Promise!vars) BY <1>2, <1>3
<1> QED BY <1>1, <1>4, Invariance, PTL DEF Spec, KeepsPromise, Promise!Spec
=============================================================================
