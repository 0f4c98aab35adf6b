----------------------------- MODULE ColdStorage -----------------------------
(***************************************************************************)
(* Which root holds the cold recovery sets: the operator's configuration   *)
(* (model_library_cold_storage.py, configure-cold-storage.sh) against the  *)
(* commands that queue, archive and back up under it (model-library.sh).   *)
(*                                                                         *)
(* A library command takes the root from its environment, filled when the  *)
(* process starts: a value it was started with wins over the .env file     *)
(* (lib.sh).  Only later does it take the shared configuration lock.  A    *)
(* writer of .env plans without a lock, shows the plan, and plans again    *)
(* under the exclusive lock.                                               *)
(***************************************************************************)
EXTENDS Naturals, FiniteSets

CONSTANTS
  Roots,        \* directories the operator may choose
  Receipts,     \* receipts in the library
  Procs,        \* processes: commands and detached archive workers
  MaxTrouble    \* bound on overrides, outages and kills together

ASSUME BoundsAssumption == MaxTrouble \in Nat
ASSUME ProcsAssumption == IsFiniteSet(Procs)
ASSUME RootsAssumption == {"absent", "empty"} \cap Roots = {}

VARIABLES
  persisted,    \* the assignment in .env
  override,     \* override[p]: what the shell that runs p exports
  root,         \* root[r]: "ok", "gone" or "unreadable"
  store,        \* store[r]: receipt replicas and model archives under r
  jobs,         \* jobs[x]: state of the archive job document of receipt x
  launches,     \* detached workers that were started and do not run yet
  proc,         \* proc[p]: the command of p
  outages, kills,
  moved         \* history: the configuration changed under a running command

vars == <<persisted, override, root, store, jobs, launches, proc, outages,
          kills, moved>>
faults == <<override, root, outages>>

Assignments == Roots \cup {"absent", "empty"}
JobStates == {"none", "pending", "running", "complete", "failed", "unavailable"}
NoPlan == [action |-> "none"]
Idle == [pc |-> "idle", kind |-> "none", env |-> "absent", x |-> "none",
         requested |-> "absent", plan |-> NoPlan]

Overridden == {p \in Procs : override[p] # "absent"}
Untroubled == Cardinality(Overridden) + outages + kills < MaxTrouble
Effective(p) == IF override[p] # "absent" THEN override[p] ELSE persisted

Becomes(p, next) == proc' = [proc EXCEPT ![p] = next]
Goes(p, pc) == proc' = [proc EXCEPT ![p].pc = pc]
Exit(p) == Becomes(p, Idle)

-----------------------------------------------------------------------------
(* Configuration.                                                          *)

\* What a look at root v finds.  A root that is gone reads as empty.
Readable(v) == v \in Roots => root[v] # "unreadable"
Listed(v, what) == IF v \in Roots /\ root[v] = "ok" THEN store[v][what] ELSE {}
Objects(v) == Listed(v, "replicas") \cup Listed(v, "archives")

\* Mutant: a receipt replica alone is no recovery object.
SeenArchives(v) == Listed(v, "archives")
Seen(v) == Objects(v)

Queued == {x \in Receipts : jobs[x] # "none"}

Plan(p, requested) ==
  LET current == {persisted, Effective(p)}
      abandoned == {v \in current : v \in Roots /\ v # requested}
      views == IF abandoned # {} THEN abandoned ELSE current
      ok == \A v \in views : Readable(v)
      objects == UNION {Seen(v) : v \in views}
      abandoning == abandoned # {} \/ (requested = "empty" /\ persisted # "empty")
      strands == abandoning /\ Queued \cup objects # {}
      usable == requested \in Roots => root[requested] = "ok"
  IN [action |-> IF requested = persisted THEN "keep"
                 ELSE IF ~ok \/ strands \/ ~usable THEN "change-blocked"
                 ELSE "set-new",
      requested |-> requested, persisted |-> persisted,
      effective |-> Effective(p),
      health |-> [v \in (current \cup {requested}) \cap Roots |-> root[v]],
      queued |-> Queued, objects |-> objects]

Preview(p, requested) ==
  LET plan == Plan(p, requested) IN
  /\ proc[p].pc = "idle" /\ plan.action # "change-blocked"
  /\ Becomes(p, [Idle EXCEPT !.pc = "confirm", !.kind = "configure",
                             !.requested = requested, !.plan = plan])
  /\ UNCHANGED <<persisted, faults, store, jobs, launches, kills, moved>>

\* Commands that hold the shared lock, and those that have read the root.
Held == {p \in Procs : proc[p].pc \notin {"idle", "confirm", "lock"}}
InFlight == {p \in Procs : proc[p].pc \notin {"idle", "confirm"}}

Assign(p) ==
  /\ persisted' = proc[p].requested
  /\ moved' = (moved \/ InFlight # {} \/ launches # {})

\* Mutant: the new plan need not be the one that was shown.
WriteAnyPlan(p) ==
  LET plan == Plan(p, proc[p].requested) IN
  /\ proc[p].pc = "confirm" /\ Held = {}
  /\ IF plan.action = "set-new"
     THEN Assign(p) ELSE UNCHANGED <<persisted, moved>>
  /\ Exit(p)
  /\ UNCHANGED <<faults, store, jobs, launches, kills>>

\* Under the exclusive lock: plan again, compare, replace the file.
Write(p) ==
  LET plan == Plan(p, proc[p].requested) IN
  /\ proc[p].pc = "confirm" /\ Held = {}
  /\ IF plan = proc[p].plan /\ plan.action = "set-new"
     THEN Assign(p) ELSE UNCHANGED <<persisted, moved>>
  /\ Exit(p)
  /\ UNCHANGED <<faults, store, jobs, launches, kills>>

-----------------------------------------------------------------------------
(* Library commands: home add once its receipt is written, home archive    *)
(* run, home receipt backup.                                               *)

Start(p, kind, x) ==
  /\ proc[p].pc = "idle"
  /\ Becomes(p, [Idle EXCEPT !.pc = "lock", !.kind = kind, !.x = x,
                             !.env = Effective(p)])
  /\ UNCHANGED <<persisted, faults, store, jobs, launches, kills, moved>>

\* A detached worker was started with its parent's environment.
WorkerStart(p, w) ==
  /\ proc[p].pc = "idle" /\ w \in launches
  /\ launches' = launches \ {w}
  /\ Becomes(p, [Idle EXCEPT !.pc = "lock", !.kind = "archive", !.x = w.x,
                             !.env = w.env])
  /\ UNCHANGED <<persisted, faults, store, jobs, kills, moved>>

LockShared(p) ==
  /\ proc[p].pc = "lock"
  /\ Goes(p, "locked")
  /\ UNCHANGED <<persisted, faults, store, jobs, launches, kills, moved>>

SetJob(x, state) == jobs' = [jobs EXCEPT ![x] = state]

\* The job document is written whatever its state was.
Enqueue(p) ==
  LET me == proc[p] IN
  /\ me.pc = "locked" /\ me.kind = "add"
  /\ IF me.env \in Roots /\ root[me.env] = "ok"
     THEN SetJob(me.x, "pending") /\ Goes(p, "spawn")
     ELSE SetJob(me.x, "unavailable") /\ Exit(p)
  /\ UNCHANGED <<persisted, faults, store, launches, kills, moved>>

Spawn(p) ==
  /\ proc[p].pc = "spawn"
  /\ launches' = launches \cup {[x |-> proc[p].x, env |-> proc[p].env]}
  /\ Exit(p)
  /\ UNCHANGED <<persisted, faults, store, jobs, kills, moved>>

JobLocked(x) == \E q \in Procs : /\ proc[q].kind = "archive" /\ proc[q].x = x
                                 /\ proc[q].pc \in {"replica", "archive", "finish"}

ArchiveBegin(p) ==
  LET me == proc[p] IN
  /\ me.pc = "locked" /\ me.kind = "archive"
  /\ IF me.env \notin Roots \/ JobLocked(me.x)
     THEN Exit(p) /\ UNCHANGED jobs
     ELSE SetJob(me.x, "running") /\ Goes(p, "replica")
  /\ UNCHANGED <<persisted, faults, store, launches, kills, moved>>

BackupBegin(p) ==
  /\ proc[p].pc = "locked" /\ proc[p].kind = "backup"
  /\ IF proc[p].env \in Roots THEN Goes(p, "replica") ELSE Exit(p)
  /\ UNCHANGED <<persisted, faults, store, jobs, launches, kills, moved>>

PublishReplica(p) ==
  LET me == proc[p] IN
  /\ me.pc = "replica" /\ root[me.env] = "ok"
  /\ store' = [store EXCEPT ![me.env].replicas = @ \cup {me.x}]
  /\ IF me.kind = "backup" THEN Exit(p) ELSE Goes(p, "archive")
  /\ UNCHANGED <<persisted, faults, jobs, launches, kills, moved>>

\* Mutant: the job is complete once the archive's copy is begun.
PublishArchiveLater(p) ==
  LET me == proc[p] IN
  /\ me.pc = "archive" /\ root[me.env] = "ok"
  /\ Goes(p, "finish")
  /\ UNCHANGED <<persisted, faults, store, jobs, launches, kills, moved>>

\* A copy in staging, hashed and renamed; or the archive there is, verified.
PublishArchive(p) ==
  LET me == proc[p] IN
  /\ me.pc = "archive" /\ root[me.env] = "ok"
  /\ store' = [store EXCEPT ![me.env].archives = @ \cup {me.x}]
  /\ Goes(p, "finish")
  /\ UNCHANGED <<persisted, faults, jobs, launches, kills, moved>>

ArchiveFinish(p) ==
  /\ proc[p].pc = "finish"
  /\ SetJob(proc[p].x, "complete") /\ Exit(p)
  /\ UNCHANGED <<persisted, faults, store, launches, kills, moved>>

\* The home is missing, a copy, a hash or a write fails.
PublishFails(p) ==
  /\ proc[p].pc \in {"replica", "archive"}
  /\ IF proc[p].kind = "archive" THEN SetJob(proc[p].x, "failed") ELSE UNCHANGED jobs
  /\ Exit(p)
  /\ UNCHANGED <<persisted, faults, store, launches, kills, moved>>

Kill(p) ==
  /\ proc[p].pc # "idle" /\ Untroubled
  /\ kills' = kills + 1 /\ Exit(p)
  /\ UNCHANGED <<persisted, faults, store, jobs, launches, moved>>

-----------------------------------------------------------------------------
Outage(r, state) ==
  /\ root[r] = "ok" /\ Untroubled
  /\ root' = [root EXCEPT ![r] = state] /\ outages' = outages + 1
  /\ UNCHANGED <<persisted, override, store, jobs, launches, proc, kills, moved>>

Return(r) ==
  /\ root[r] # "ok" /\ root' = [root EXCEPT ![r] = "ok"]
  /\ UNCHANGED <<persisted, override, store, jobs, launches, proc, outages,
                 kills, moved>>

Init ==
  /\ persisted = "absent"
  /\ override \in [Procs -> Assignments] /\ Cardinality(Overridden) <= MaxTrouble
  /\ root = [r \in Roots |-> "ok"]
  /\ store = [r \in Roots |-> [replicas |-> {}, archives |-> {}]]
  /\ jobs = [x \in Receipts |-> "none"]
  /\ launches = {}
  /\ proc = [p \in Procs |-> Idle]
  /\ outages = 0 /\ kills = 0 /\ moved = FALSE

Command(p) ==
  \/ \E requested \in Roots \cup {"empty"} : Preview(p, requested)
  \/ Write(p)
  \/ \E kind \in {"add", "archive", "backup"}, x \in Receipts : Start(p, kind, x)
  \/ \E w \in launches : WorkerStart(p, w)
  \/ LockShared(p) \/ Enqueue(p) \/ Spawn(p) \/ ArchiveBegin(p)
  \/ BackupBegin(p) \/ PublishReplica(p) \/ PublishArchive(p)
  \/ ArchiveFinish(p) \/ PublishFails(p) \/ Kill(p)

Next ==
  \/ \E p \in Procs : Command(p)
  \/ \E r \in Roots : Return(r) \/ \E state \in {"gone", "unreadable"} : Outage(r, state)

Spec == Init /\ [][Next]_vars

-----------------------------------------------------------------------------
(* Properties.                                                             *)

\* Every variable keeps its type; who is past the lock has a root to use.
TypeOK ==
  /\ persisted \in Assignments /\ override \in [Procs -> Assignments]
  /\ root \in [Roots -> {"ok", "gone", "unreadable"}]
  /\ store \in [Roots -> [replicas : SUBSET Receipts, archives : SUBSET Receipts]]
  /\ jobs \in [Receipts -> JobStates]
  /\ launches \subseteq [x : Receipts, env : Roots]
  /\ DOMAIN proc = Procs
  /\ \A p \in Procs :
       /\ proc[p].pc \in {"idle", "confirm", "lock", "locked", "spawn",
                          "replica", "archive", "finish"}
       /\ proc[p].kind \in {"none", "configure", "add", "archive", "backup"}
       /\ proc[p].env \in Assignments /\ proc[p].requested \in Assignments
       /\ proc[p].x \in Receipts \cup {"none"}
       /\ proc[p].pc \in {"spawn", "replica", "archive", "finish"} =>
            proc[p].env \in Roots /\ proc[p].x \in Receipts
  /\ outages \in 0..MaxTrouble /\ kills \in 0..MaxTrouble /\ moved \in BOOLEAN

\* What is written is what was shown, in the state it was shown in
\* (write_dotenv_assignment, expected_plan_id).
WrittenAsShown ==
  [][persisted' # persisted =>
     \E p \in Procs :
       LET shown == proc[p].plan IN
       /\ shown.action = "set-new" /\ shown.requested = persisted'
       /\ shown.persisted = persisted
       /\ \A v \in DOMAIN shown.health : shown.health[v] = root[v]]_vars

\* A complete job has a replica and an archive under one root, whatever
\* workers, requeues and kills happen (publish_verified_recovery_set).
CompleteJobRecoverable ==
  \A x \in Receipts : jobs[x] = "complete" =>
    \E r \in Roots : x \in store[r].replicas /\ x \in store[r].archives

\* Without overrides and outages, every recovery object is under the
\* configured root unless the configuration changed while a command that had
\* read the old one was still to run: planning sees all other state.
StrandedOnlyInFlight ==
  (Overridden = {} /\ outages = 0 /\ ~moved) =>
  \A r \in Roots : store[r].replicas \cup store[r].archives # {} => persisted = r

\* The documented precedence and strand guard: without overrides a complete
\* job's recovery set is under the configured root.
CompleteJobConfigured ==
  Overridden = {} => \A x \in Receipts : jobs[x] = "complete" =>
    /\ persisted \in Roots
    /\ x \in store[persisted].replicas /\ x \in store[persisted].archives
=============================================================================
