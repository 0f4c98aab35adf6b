------------------------------ MODULE HotViews ------------------------------
(***************************************************************************)
(* The hot views of one released spec on its serving ranks: prepare, pin,  *)
(* unpin and purge-hot of scripts/model-library.sh, and the launches and   *)
(* stops that mount and release the views.                                 *)
(*                                                                         *)
(* A view is one directory per rank: the model's data (a link to the       *)
(* durable home on the home's rank, a copy elsewhere) and the stamp        *)
(* .pulsar/hot.json.  The data and the stamp are written separately, rank  *)
(* by rank, by commands that may fail, be interrupted or be killed between *)
(* any two steps; preparation is nevertheless to be all or nothing.        *)
(***************************************************************************)
EXTENDS Naturals, FiniteSets

CONSTANTS
  Ops,             \* processes an operator starts commands from
  Targets,         \* the serving ranks; rank 0 is the controller
  MaxFaults,       \* bound on failing calls, bad copies, interrupts and kills
  MaxDisturbances  \* bound on views lost or damaged outside the program

ASSUME TargetsAssumption == Targets \subseteq Nat /\ Targets # {}
ASSUME OpsAssumption == "nobody" \notin Ops
ASSUME BoundsAssumption == MaxFaults \in Nat /\ MaxDisturbances \in Nat

VARIABLES
  view,       \* view[r]: the data and the stamp of the view on rank r
  unit,       \* unit[r]: the launch whose container mounts r's view
  worker,     \* worker[r]: the copy a preparation started for rank r
  cmd,        \* cmd[p]: the command process p is running
  faults,     \* failures so far
  disturbed   \* disturbances so far

vars == <<view, unit, worker, cmd, faults, disturbed>>

Views == [stamp : {"none", "verifying", "ready"}, pinned : BOOLEAN,
          data : {"none", "partial", "good", "bad"}]
NoView == [stamp |-> "none", pinned |-> FALSE, data |-> "none"]
Stamped(v, stamp, pinned) == [v EXCEPT !.stamp = stamp, !.pinned = pinned]

Writers == {"prepare", "pin", "unpin", "purge"}
Kinds == Writers \cup {"launch", "idle"}
Steps == {"idle", "skip", "reuse", "pins", "users", "fork", "book", "copy",
          "verify", "publish", "cleanup", "cleaned", "lookup", "set", "list", "check",
          "delete", "clear", "start", "wait", "abort", "done"}
WorkerSteps == {"none", "clear", "copy", "stamp", "done", "failed"}
Copying == {"clear", "copy", "stamp"}

\* todo: ranks the current loop still visits; did: ranks a preparation
\* touched, a purge listed or a launch started; hit: what a loop met.
Commands == [kind : Kinds, pc : Steps, todo : SUBSET Targets,
             did : SUBSET Targets, hit : BOOLEAN, force : BOOLEAN]
Idle == [kind |-> "idle", pc |-> "idle", todo |-> {}, did |-> {},
         hit |-> FALSE, force |-> FALSE]

-----------------------------------------------------------------------------
(* Steps of a command.                                                     *)

At(p, kind, pc) == cmd[p].kind = kind /\ cmd[p].pc = pc
Finish(p) == cmd' = [cmd EXCEPT ![p] = Idle]

\* Process p's loop leaves rank r; after the last rank it goes on to next,
\* which loops over the ranks of set.
Advance(p, o, r, next, set) ==
  LET rest == o.todo \ {r} IN
  cmd' = [cmd EXCEPT ![p] =
            IF rest = {} THEN [o EXCEPT !.pc = next, !.todo = set]
                         ELSE [o EXCEPT !.todo = rest]]

Ascending(p, r) == r \in cmd[p].todo /\ \A q \in cmd[p].todo : r <= q
Descending(p, r) == r \in cmd[p].todo /\ \A q \in cmd[p].todo : q <= r

\* Docker runs the workers first and the head, rank 0, last.
HeadLast(p, r) ==
  /\ r \in cmd[p].todo
  /\ \A q \in cmd[p].todo : q = 0 \/ (r # 0 /\ r <= q)
HeadFirst(p, r) ==
  /\ r \in cmd[p].todo
  /\ r = 0 \/ (0 \notin cmd[p].todo /\ \A q \in cmd[p].todo : q <= r)

CallFails == faults < MaxFaults /\ faults' = faults + 1
CallWorks == UNCHANGED faults

\* verify-hot: a stamp in one of the allowed states over bytes that match the
\* spec's manifest.
Verified(r) == view[r].stamp = "ready" /\ view[r].data = "good"
VerifiedOrVerifying(r) == view[r].stamp # "none" /\ view[r].data = "good"

\* Mutant: purge-hot takes the lock in shared mode.
HotFreePurgeShared(p, kind) ==
  /\ \A q \in Ops \ {p} :
       cmd[q].kind # "idle" =>
         {kind, cmd[q].kind} \subseteq {"launch", "purge"}
  /\ \A r \in Targets : worker[r] \notin Copying

\* The hot lock.  The rank workers inherit its descriptor, so a preparation
\* that is killed keeps the lock until its last worker has ended.
HotFree(p, kind) ==
  /\ \A q \in Ops \ {p} :
       cmd[q].kind # "idle" => kind = "launch" /\ cmd[q].kind = "launch"
  /\ \A r \in Targets : worker[r] \notin Copying

Begin(p, kind, first) ==
  /\ cmd[p] = Idle
  /\ HotFree(p, kind)
  /\ cmd' = [cmd EXCEPT ![p] = first]

\* What a deletion that fails may leave: nothing was removed, or some of the
\* data, or the stamp as well.
Remains(v) == {v, [v EXCEPT !.data = "partial"],
               [stamp |-> "none", pinned |-> FALSE, data |-> "partial"]}

-----------------------------------------------------------------------------
(* prepare                                                                 *)

\* The plan sees the controller's stamp alone: one in state ready means skip.
PreparePlan(p) ==
  /\ Begin(p, "prepare",
           [Idle EXCEPT !.kind = "prepare", !.todo = Targets,
                        !.pc = IF 0 \in Targets /\ view[0].stamp = "ready"
                                 THEN "skip" ELSE "reuse"])
  /\ UNCHANGED <<view, unit, worker, faults, disturbed>>

\* A skip is confirmed on every rank; a rank that fails ends the command.
PrepareSkip(p) ==
  /\ At(p, "prepare", "skip")
  /\ \E r \in Targets :
       /\ Ascending(p, r)
       /\ \/ Verified(r) /\ Advance(p, cmd[p], r, "done", {}) /\ CallWorks
          \/ ~Verified(r) /\ Finish(p) /\ CallWorks
          \/ Finish(p) /\ CallFails
  /\ UNCHANGED <<view, unit, worker, disturbed>>

\* A complete preparation is left untouched.
PrepareReuse(p) ==
  /\ At(p, "prepare", "reuse")
  /\ LET copy == [cmd EXCEPT ![p] =
                    [cmd[p] EXCEPT !.pc = "pins", !.todo = Targets]] IN
     \E r \in Targets :
       /\ Ascending(p, r)
       /\ \/ Verified(r) /\ Advance(p, cmd[p], r, "done", {}) /\ CallWorks
          \/ ~Verified(r) /\ cmd' = copy /\ CallWorks
          \/ cmd' = copy /\ CallFails
  /\ UNCHANGED <<view, unit, worker, disturbed>>

\* Mutant: a pin on the controller alone refuses.
PreparePinsLocal(p) ==
  /\ At(p, "prepare", "pins")
  /\ \E r \in Targets :
       /\ Ascending(p, r)
       /\ IF view[r].pinned /\ r = 0
            THEN Finish(p)
            ELSE Advance(p, cmd[p], r, "users", Targets)
  /\ UNCHANGED <<view, unit, worker, faults, disturbed>>

\* Re-materialization would clear a pin, so one pinned rank refuses it.  The
\* hot budget is admitted after this look; a refusal counts as a failed call.
PreparePins(p) ==
  /\ At(p, "prepare", "pins")
  /\ \E r \in Targets :
       /\ Ascending(p, r)
       /\ \/ ~view[r].pinned /\ Advance(p, cmd[p], r, "users", Targets) /\ CallWorks
          \/ view[r].pinned /\ Finish(p) /\ CallWorks
          \/ Finish(p) /\ CallFails
  /\ UNCHANGED <<view, unit, worker, disturbed>>

\* Mutant: only the controller's containers are looked at.
PrepareUsersLocal(p) ==
  /\ At(p, "prepare", "users")
  /\ \E r \in Targets :
       /\ Ascending(p, r)
       /\ IF unit[r] = "nobody" \/ r # 0
            THEN Advance(p, cmd[p], r, "fork", Targets)
            ELSE Finish(p)
  /\ UNCHANGED <<view, unit, worker, faults, disturbed>>

\* Data is replaced in place: never beneath a container, running or stopped.
PrepareUsers(p) ==
  /\ At(p, "prepare", "users")
  /\ \E r \in Targets :
       /\ Ascending(p, r)
       /\ \/ /\ unit[r] = "nobody"
             /\ Advance(p, cmd[p], r, "fork", Targets) /\ CallWorks
          \/ unit[r] # "nobody" /\ Finish(p) /\ CallWorks
          \/ Finish(p) /\ CallFails
  /\ UNCHANGED <<view, unit, worker, disturbed>>

\* One worker per rank, each in a process group of its own.
PrepareFork(p) ==
  /\ At(p, "prepare", "fork")
  /\ \E r \in Targets :
       /\ Ascending(p, r)
       /\ worker' = [worker EXCEPT ![r] = "clear"]
  /\ cmd' = [cmd EXCEPT ![p].pc = "book"]
  /\ UNCHANGED <<view, unit, faults, disturbed>>

\* Its process group and its rank are noted after the fork.
PrepareBook(p) ==
  /\ At(p, "prepare", "book")
  /\ \E r \in Targets :
       /\ Ascending(p, r)
       /\ Advance(p, [cmd[p] EXCEPT !.did = @ \cup {r}, !.pc = "fork"], r,
                  "copy", {})
  /\ UNCHANGED <<view, unit, worker, faults, disturbed>>

\* The view of every rank that was noted will be removed.
CleanUp(p) ==
  cmd' = [cmd EXCEPT ![p] =
            [cmd[p] EXCEPT !.todo = cmd[p].did, !.hit = FALSE,
              !.pc = IF cmd[p].did = {} THEN "cleaned" ELSE "cleanup"]]

\* Mutant: the workers outlive the wrapper that cleans up after them.
EnterCleanupUnstopped(p) == UNCHANGED worker /\ CleanUp(p)

\* Cleanup stops the workers first.  A call that a worker had running on its
\* rank is taken to end with the worker.
EnterCleanup(p) == worker' = [r \in Targets |-> "none"] /\ CleanUp(p)

PrepareWait(p) ==
  /\ At(p, "prepare", "copy")
  /\ \A r \in Targets : worker[r] \notin Copying
  /\ IF \E r \in Targets : worker[r] = "failed"
       THEN EnterCleanup(p)
       ELSE /\ worker' = [r \in Targets |-> "none"]
            /\ cmd' = [cmd EXCEPT ![p] =
                         [cmd[p] EXCEPT !.pc = "verify", !.todo = Targets]]
  /\ UNCHANGED <<view, unit, faults, disturbed>>

\* The verify barrier: the ranks hash in parallel, all must pass.
PrepareVerify(p) ==
  /\ At(p, "prepare", "verify")
  /\ \E r \in cmd[p].todo :
       \/ /\ VerifiedOrVerifying(r)
          /\ Advance(p, cmd[p], r, "publish", Targets)
          /\ UNCHANGED worker /\ CallWorks
       \/ ~VerifiedOrVerifying(r) /\ EnterCleanup(p) /\ CallWorks
       \/ EnterCleanup(p) /\ CallFails
  /\ UNCHANGED <<view, unit, disturbed>>

\* Only then is the ready stamp written, rank by rank; a write that is
\* reported failed may have happened.
PreparePublish(p) ==
  /\ At(p, "prepare", "publish")
  /\ \E r \in Targets :
       /\ Ascending(p, r)
       /\ LET ready == [view EXCEPT ![r] = Stamped(@, "ready", FALSE)] IN
          \/ /\ view' = ready
             /\ Advance(p, cmd[p], r, "done", {})
             /\ UNCHANGED worker /\ CallWorks
          \/ view' \in {view, ready} /\ EnterCleanup(p) /\ CallFails
  /\ UNCHANGED <<unit, disturbed>>

\* INT or TERM: the traps are set from the first fork to the last publish.  At
\* "book" the last worker's process group is noted, its rank is not.
PrepareInterrupted(p) ==
  /\ cmd[p].kind = "prepare"
  /\ cmd[p].pc \in {"fork", "book", "copy", "verify", "publish"}
  /\ EnterCleanup(p)
  /\ CallFails
  /\ UNCHANGED <<view, unit, disturbed>>

\* A signal right after the fork: the worker is in neither list and goes on.
PrepareInterruptedEarly(p) ==
  /\ At(p, "prepare", "book")
  /\ \E r \in Targets :
       /\ Ascending(p, r)
       /\ worker' = [q \in Targets |-> IF q = r THEN worker[q] ELSE "none"]
  /\ CleanUp(p)
  /\ CallFails
  /\ UNCHANGED <<view, unit, disturbed>>

\* Removal of a touched rank's view; a rank that fails keeps what remains.
PrepareCleanup(p) ==
  /\ At(p, "prepare", "cleanup")
  /\ \E r \in Targets :
       /\ Ascending(p, r)
       /\ \/ /\ view' = [view EXCEPT ![r] = NoView]
             /\ Advance(p, cmd[p], r, "cleaned", {})
             /\ CallWorks
          \/ /\ view[r] # NoView
             /\ \E left \in Remains(view[r]) : view' = [view EXCEPT ![r] = left]
             /\ Advance(p, [cmd[p] EXCEPT !.hit = TRUE], r, "cleaned", {})
             /\ CallFails
  /\ UNCHANGED <<unit, worker, disturbed>>

PrepareCleaned(p) ==
  /\ At(p, "prepare", "cleaned")
  /\ Finish(p)
  /\ UNCHANGED <<view, unit, worker, faults, disturbed>>

\* The last step of prepare, pin, unpin, purge and launch.
Ends(p) ==
  /\ cmd[p].pc = "done"
  /\ Finish(p)
  /\ UNCHANGED <<view, unit, worker, faults, disturbed>>

Prepare(p) ==
  \/ PreparePlan(p) \/ PrepareSkip(p) \/ PrepareReuse(p) \/ PreparePins(p)
  \/ PrepareUsers(p) \/ PrepareFork(p) \/ PrepareBook(p) \/ PrepareWait(p)
  \/ PrepareVerify(p) \/ PreparePublish(p) \/ PrepareCleanup(p) \/ PrepareCleaned(p)

-----------------------------------------------------------------------------
(* The rank workers.  They go on when the command is killed.               *)

\* The old data is removed first; the old stamp stays beside what is copied.
WorkerClear(r) ==
  /\ worker[r] = "clear"
  /\ view' = [view EXCEPT ![r].data = "partial"]
  /\ worker' = [worker EXCEPT ![r] = "copy"]
  /\ UNCHANGED <<unit, cmd, faults, disturbed>>

\* The copy, or the link; a home that is damaged meanwhile yields bad bytes.
WorkerCopy(r) ==
  /\ worker[r] = "copy"
  /\ worker' = [worker EXCEPT ![r] = "stamp"]
  /\ \/ view' = [view EXCEPT ![r].data = "good"] /\ CallWorks
     \/ view' = [view EXCEPT ![r].data = "bad"] /\ CallFails
  /\ UNCHANGED <<unit, cmd, disturbed>>

\* The provisional stamp, never discoverable as ready and never pinned.
WorkerStamp(r) ==
  /\ worker[r] = "stamp"
  /\ view' = [view EXCEPT ![r] = Stamped(@, "verifying", FALSE)]
  /\ worker' = [worker EXCEPT ![r] = "done"]
  /\ UNCHANGED <<unit, cmd, faults, disturbed>>

WorkerFails(r) ==
  /\ worker[r] \in Copying
  /\ worker' = [worker EXCEPT ![r] = "failed"]
  /\ CallFails
  /\ UNCHANGED <<view, unit, cmd, disturbed>>

Worker(r) == WorkerClear(r) \/ WorkerCopy(r) \/ WorkerStamp(r) \/ WorkerFails(r)

-----------------------------------------------------------------------------
(* pin and unpin                                                           *)

PinBegin(p, kind) ==
  /\ Begin(p, kind, [Idle EXCEPT !.kind = kind, !.pc = "lookup",
                                 !.todo = Targets])
  /\ UNCHANGED <<view, unit, worker, faults, disturbed>>

\* Every rank is verified before any stamp changes.
PinLookup(p) ==
  /\ cmd[p].pc = "lookup"
  /\ \E r \in Targets :
       /\ Ascending(p, r)
       /\ \/ Verified(r) /\ Advance(p, cmd[p], r, "set", Targets) /\ CallWorks
          \/ ~Verified(r) /\ Finish(p) /\ CallWorks
          \/ Finish(p) /\ CallFails
  /\ UNCHANGED <<view, unit, worker, disturbed>>

\* The stamps change rank by rank; a failure leaves some ranks changed.
PinSet(p) ==
  /\ cmd[p].pc = "set"
  /\ \E r \in Targets :
       /\ Ascending(p, r)
       /\ LET set == [view EXCEPT ![r] =
                        Stamped(@, "ready", cmd[p].kind = "pin")] IN
          \/ /\ view[r].stamp # "none"
             /\ view' = set
             /\ Advance(p, cmd[p], r, "done", {})
             /\ CallWorks
          \/ /\ view[r].stamp = "none"
             /\ Finish(p) /\ UNCHANGED view /\ CallWorks
          \/ /\ view[r].stamp # "none"
             /\ view' \in {view, set}
             /\ Finish(p) /\ CallFails
  /\ UNCHANGED <<unit, worker, disturbed>>

Pin(p) ==
  (\E kind \in {"pin", "unpin"} : PinBegin(p, kind)) \/ PinLookup(p) \/ PinSet(p)

-----------------------------------------------------------------------------
(* purge-hot                                                               *)

PurgeBegin(p, force) ==
  /\ Begin(p, "purge", [Idle EXCEPT !.kind = "purge", !.pc = "list",
                                    !.todo = Targets, !.force = force])
  /\ UNCHANGED <<view, unit, worker, faults, disturbed>>

\* A view without a stamp counts as pinned.
Protected(v) == v.pinned \/ v.stamp = "none"

\* Mutant: a rank without the view ends the purge, as it ends a pin.
PurgeListStrict(p) ==
  /\ At(p, "purge", "list")
  /\ \E r \in Targets :
       /\ Ascending(p, r)
       /\ LET row == [cmd[p] EXCEPT !.did = @ \cup {r},
                                    !.hit = @ \/ Protected(view[r])] IN
          IF view[r] = NoView
            THEN Finish(p)
            ELSE Advance(p, row, r, "check", row.did)
  /\ UNCHANGED <<view, unit, worker, faults, disturbed>>

\* Every view under the name is enumerated, in whatever state; a rank that
\* cannot be inspected ends the command.
PurgeList(p) ==
  /\ At(p, "purge", "list")
  /\ \E r \in Targets :
       /\ Ascending(p, r)
       /\ LET row == IF view[r] = NoView THEN cmd[p]
                     ELSE [cmd[p] EXCEPT !.did = @ \cup {r},
                                         !.hit = @ \/ Protected(view[r])] IN
          \/ /\ cmd[p].todo = {r} /\ row.did = {}
             /\ Finish(p) /\ CallWorks
          \/ /\ cmd[p].todo # {r} \/ row.did # {}
             /\ Advance(p, row, r, "check", row.did) /\ CallWorks
          \/ Finish(p) /\ CallFails
  /\ UNCHANGED <<view, unit, worker, disturbed>>

\* Pins and containers are checked for all of them before any goes.
PurgeCheck(p) ==
  /\ At(p, "purge", "check")
  /\ \E r \in Targets :
       /\ Ascending(p, r)
       /\ LET refused == \/ unit[r] # "nobody"
                         \/ cmd[p].todo = {r} /\ cmd[p].hit /\ ~cmd[p].force IN
          \/ /\ ~refused
             /\ Advance(p, cmd[p], r, "delete", cmd[p].did) /\ CallWorks
          \/ refused /\ Finish(p) /\ CallWorks
          \/ Finish(p) /\ CallFails
  /\ UNCHANGED <<view, unit, worker, disturbed>>

\* Rank by rank; a failure stops the purge where it is.
PurgeDelete(p) ==
  /\ At(p, "purge", "delete")
  /\ \E r \in Targets :
       /\ Ascending(p, r)
       /\ LET refused == view[r] = NoView \/ (view[r].pinned /\ ~cmd[p].force) IN
          \/ /\ ~refused
             /\ view' = [view EXCEPT ![r] = NoView]
             /\ Advance(p, cmd[p], r, "done", {}) /\ CallWorks
          \/ refused /\ Finish(p) /\ UNCHANGED view /\ CallWorks
          \/ /\ ~refused
             /\ \E left \in Remains(view[r]) : view' = [view EXCEPT ![r] = left]
             /\ Finish(p) /\ CallFails
  /\ UNCHANGED <<unit, worker, disturbed>>

Purge(p) ==
  \/ \E force \in BOOLEAN : PurgeBegin(p, force)
  \/ PurgeList(p) \/ PurgeCheck(p) \/ PurgeDelete(p)

-----------------------------------------------------------------------------
(* Launch and stop                                                         *)

LaunchBegin(p) ==
  /\ Begin(p, "launch", [Idle EXCEPT !.kind = "launch", !.pc = "verify",
                                     !.todo = Targets])
  /\ UNCHANGED <<view, unit, worker, faults, disturbed>>

\* Mutant: the other ranks are trusted once the controller's view verifies.
LaunchVerifyLocal(p) ==
  /\ At(p, "launch", "verify")
  /\ \E r \in Targets :
       /\ Ascending(p, r)
       /\ IF Verified(r) \/ r # 0
            THEN Advance(p, cmd[p], r, "clear", Targets)
            ELSE Finish(p)
  /\ UNCHANGED <<view, unit, worker, faults, disturbed>>

\* Every rank's view is verified; there is no fallback.
LaunchVerify(p) ==
  /\ At(p, "launch", "verify")
  /\ \E r \in Targets :
       /\ Ascending(p, r)
       /\ \/ Verified(r) /\ Advance(p, cmd[p], r, "clear", Targets) /\ CallWorks
          \/ ~Verified(r) /\ Finish(p) /\ CallWorks
          \/ Finish(p) /\ CallFails
  /\ UNCHANGED <<view, unit, worker, disturbed>>

\* Stale containers of the service go, remote ranks first.
LaunchClear(p) ==
  /\ At(p, "launch", "clear")
  /\ \E r \in Targets :
       /\ Descending(p, r)
       /\ \/ /\ unit' = [unit EXCEPT ![r] = "nobody"]
             /\ Advance(p, cmd[p], r, "start", Targets) /\ CallWorks
          \/ UNCHANGED unit /\ Finish(p) /\ CallFails
  /\ UNCHANGED <<view, worker, disturbed>>

\* A launch that fails removes the containers it tracked.
EnterAbort(p) ==
  cmd' = [cmd EXCEPT ![p] =
            IF cmd[p].did = {} THEN Idle
            ELSE [cmd[p] EXCEPT !.pc = "abort", !.todo = cmd[p].did]]

\* docker run refuses a name in use; a run that is reported failed may have
\* left its container, which nobody tracks.
LaunchStart(p) ==
  /\ At(p, "launch", "start")
  /\ \E r \in Targets :
       /\ HeadLast(p, r)
       /\ LET run == [unit EXCEPT ![r] = p] IN
          \/ /\ unit[r] = "nobody"
             /\ unit' = run
             /\ Advance(p, [cmd[p] EXCEPT !.did = @ \cup {r}], r, "wait", {})
             /\ CallWorks
          \/ /\ unit[r] # "nobody"
             /\ EnterAbort(p) /\ UNCHANGED unit /\ CallWorks
          \/ /\ unit[r] = "nobody"
             /\ unit' \in {unit, run}
             /\ EnterAbort(p) /\ CallFails
  /\ UNCHANGED <<view, worker, disturbed>>

\* The head answers, or a container dies or time runs out.
LaunchWait(p) ==
  /\ At(p, "launch", "wait")
  /\ Finish(p) \/ EnterAbort(p)
  /\ UNCHANGED <<view, unit, worker, faults, disturbed>>

\* Mutant: whatever has the service's name is removed.
LaunchAbortByName(p) ==
  /\ At(p, "launch", "abort")
  /\ \E r \in Targets :
       /\ HeadFirst(p, r)
       /\ \/ unit' = [unit EXCEPT ![r] = "nobody"] /\ CallWorks
          \/ UNCHANGED unit /\ CallFails
       /\ Advance(p, cmd[p], r, "done", {})
  /\ UNCHANGED <<view, worker, disturbed>>

\* Best effort, by the immutable container ids of this launch.
LaunchAbort(p) ==
  /\ At(p, "launch", "abort")
  /\ \E r \in Targets :
       /\ HeadFirst(p, r)
       /\ \/ /\ unit' = IF unit[r] = p THEN [unit EXCEPT ![r] = "nobody"]
                        ELSE unit
             /\ CallWorks
          \/ UNCHANGED unit /\ CallFails
       /\ Advance(p, cmd[p], r, "done", {})
  /\ UNCHANGED <<view, worker, disturbed>>

Launch(p) ==
  \/ LaunchBegin(p) \/ LaunchVerify(p) \/ LaunchClear(p) \/ LaunchStart(p)
  \/ LaunchWait(p) \/ LaunchAbort(p)

\* down.sh removes a container without any library lock.
Stop(r) ==
  /\ unit[r] # "nobody"
  /\ unit' = [unit EXCEPT ![r] = "nobody"]
  /\ UNCHANGED <<view, worker, cmd, faults, disturbed>>

-----------------------------------------------------------------------------
(* The environment.                                                        *)

\* A view disappears, or its bytes change.
Disturbance(r) ==
  /\ disturbed < MaxDisturbances
  /\ disturbed' = disturbed + 1
  /\ \/ view[r] # NoView /\ view' = [view EXCEPT ![r] = NoView]
     \/ view[r].data = "good" /\ view' = [view EXCEPT ![r].data = "bad"]
  /\ UNCHANGED <<unit, worker, cmd, faults>>

\* The process is killed, or its controller restarts: no trap runs.
Killed(p) ==
  /\ cmd[p] # Idle
  /\ Finish(p)
  /\ CallFails
  /\ UNCHANGED <<view, unit, worker, disturbed>>

Init ==
  /\ view = [r \in Targets |-> NoView]
  /\ unit = [r \in Targets |-> "nobody"]
  /\ worker = [r \in Targets |-> "none"]
  /\ cmd = [p \in Ops |-> Idle]
  /\ faults = 0
  /\ disturbed = 0

Command(p) ==
  \/ Prepare(p) \/ PrepareInterrupted(p) \/ PrepareInterruptedEarly(p)
  \/ Pin(p) \/ Purge(p) \/ Launch(p) \/ Ends(p)

Next ==
  \/ \E p \in Ops : Command(p) \/ Killed(p)
  \/ \E r \in Targets : Worker(r) \/ Stop(r) \/ Disturbance(r)

Spec == Init /\ [][Next]_vars

\* An operator who follows the messages: what was begun goes on, containers
\* of a broken service are stopped, and purge-hot --force-unpin and prepare
\* are tried again and again.
Repair ==
  /\ \A p \in Ops : WF_vars(Command(p) /\ cmd[p] # Idle)
  /\ \A r \in Targets : WF_vars(Worker(r)) /\ WF_vars(Stop(r))
  /\ SF_vars(\E p \in Ops : PurgeBegin(p, TRUE))
  /\ SF_vars(\E p \in Ops : PreparePlan(p))

RepairSpec == Spec /\ Repair

-----------------------------------------------------------------------------
TypeOK ==
  /\ view \in [Targets -> Views]
  /\ \A r \in Targets :
       /\ view[r].pinned => view[r].stamp = "ready"
       /\ view[r].data = "none" /\ disturbed = 0 => view[r] = NoView
  /\ unit \in [Targets -> Ops \cup {"nobody"}]
  /\ worker \in [Targets -> WorkerSteps]
  /\ cmd \in [Ops -> Commands]
  /\ faults \in 0..MaxFaults
  /\ disturbed \in 0..MaxDisturbances

\* The service can be launched: every rank's view is ready and intact.
Usable == \A r \in Targets : Verified(r)

\* While any container of the service exists, on whatever rank and running or
\* not, every rank's view stays ready and intact unless something outside the
\* program disturbed one: no preparation, cleanup or purge of any rank slips in.
ServedViewsUsable ==
  (\E r \in Targets : unit[r] # "nobody") /\ disturbed = 0 => Usable

\* Nothing the program does changes the data or the stamp of a view that a
\* container on its rank mounts; a pin may come and go.
KeepsMounted ==
  \A r \in Targets :
    unit[r] # "nobody" /\ disturbed' = disturbed =>
      view'[r].data = view[r].data /\ view'[r].stamp = view[r].stamp

\* No step of the program replaces, restamps or removes a mounted view.
MountedViewKept == [][KeepsMounted]_vars

\* A pin is dropped by unpin or by a forced purge, never as a side effect of
\* preparing, repairing or cleaning up another rank.
KeepsPins ==
  \A r \in Targets :
    view[r].pinned /\ ~view'[r].pinned /\ disturbed' = disturbed =>
      \E p \in Ops :
        \/ cmd[p].kind = "unpin"
        \/ cmd[p].kind = "purge" /\ cmd[p].force

\* Every step keeps the pins that nobody asked to drop.
PinKept == [][KeepsPins]_vars

\* One protected view stops a purge with nothing removed: while an unforced
\* purge deletes, no rank holds a pinned view, and no rank has a container.
SparesAll ==
  \A p \in Ops, r \in Targets :
    At(p, "purge", "delete") /\ view'[r] # view[r] /\ disturbed' = disturbed =>
      /\ cmd[p].force \/ \A q \in Targets : ~view[q].pinned
      /\ disturbed = 0 => \A q \in Targets : unit[q] = "nobody"

\* Every deletion of a purge happens after all views passed its checks.
PurgeSparesAll == [][SparesAll]_vars

\* A launch that fails removes only containers it started: the service may
\* have been stopped and launched by another command while this one waited.
SparesOthers ==
  \A p \in Ops, r \in Targets :
    At(p, "launch", "abort") /\ cmd'[p] # cmd[p] /\ unit[r] \notin {"nobody", p} =>
      unit'[r] = unit[r]

\* Every step of an abort leaves the other commands' containers running.
AbortSparesOthers == [][SparesOthers]_vars

\* A preparation reports success, on any of its three paths, only when every
\* rank's view is ready and intact.
PreparedIsUsable ==
  \A p \in Ops : At(p, "prepare", "done") /\ disturbed = 0 => Usable

\* A failed or interrupted preparation whose removals all succeeded leaves no
\* view on any rank it had noted: no worker of theirs writes after its cleanup.
CleanupLeavesNothing ==
  \A p \in Ops :
    At(p, "prepare", "cleaned") /\ ~cmd[p].hit =>
      \A r \in cmd[p].did : view[r] = NoView

\* As cleanup_partial's comment has it: once it is done, no worker is left that
\* could recreate files.
NoWorkerOutlivesCleanup ==
  \A p \in Ops, r \in Targets :
    At(p, "prepare", "cleaned") => worker[r] \notin Copying

\* No residue of failures wedges the tools: with the operator's repeated
\* attempts the service becomes launchable again once failures stop.
Repairable == []<>Usable

\* The ranks with a container, and those with a pinned view.
Users == {r \in Targets : unit[r] # "nobody"}
Pins == {r \in Targets : view[r].pinned}

Promise == INSTANCE HotPromise
  WITH Ranks <- Targets, usable <- Usable, users <- Users, pins <- Pins

\* The views, stamps, locks and per-rank steps implement the promise of
\* HotPromise: one service that is usable as a whole, started only while it
\* is, and withdrawn or offered again only while no rank uses it.
KeepsPromise == Promise!Spec
=============================================================================
