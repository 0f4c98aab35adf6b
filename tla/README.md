# Formal models of the Pulsar GB10 stack

TLA+ models, TLC runs and TLAPS proofs for the programs under `scripts/`,
`cluster/`, `serve.sh` and `wizard.sh`.

| module | models | runs | section |
|---|---|---|---|
| `HomeLibrary`, `HomeLibrary_proofs` | where the one durable copy of a model lives, when it may be deleted, its archive jobs and its users | `home_users`, `home_jobs`, `home_lost` | 3, 4 |
| `HotViews`, `HotPromise`, `HotViews_proofs` | the views a cluster serves from, prepared on all ranks or on none | `views_all`, `views_repair` | 5, 6 |
| `HotBudget`, `HotBudget_proofs` | the space of several models' views: cap, reserve, relay, what a copy writes beyond its charge | `budget` | 7 |
| `ValidationOutcome`, `ReleaseRegistry`, `ReleaseRegistry_proofs` | from result files to a validation status; capture, review and stage into the registry | `release_stage` | 8 |
| `ColdStorage`, `ColdStorage_proofs` | the configured cold root against the commands that use it | `cold` | 9 |
| `TopologyTrust`, `TopologyTrust_proofs` | discovery, ranks, SSH enrollment | `topology` | 10 |
| `ManagedContainers`, `ServiceSwitch_proofs` | stops, launches, ownership labels, silent nodes | `containers` | 11 |
| `Inventory`, `ServiceSwitch`, `ServiceSwitch_proofs` | the inventory's classification; sessions of the home screen and the wizard | `switch` | 12 |
| `ViewWitness`, `PlanAndVerify_proofs` | verification of a view's files and the serve witness | `plan_and_verify` | 13 |
| `PrimaryHome`, `PlanAndVerify_proofs` | catalog, primary home, resolution, the plan of a preparation | `plan_and_verify` | 14 |

Each `MC` module gives the instance of the module it is named after.  Run a model
with `tlc -workers 2 -config home_users.cfg MCHomeLibrary.tla`, check proofs with
`tlapm HomeLibrary_proofs.tla`.

## 1. The system

| component | state it keeps | operations | interacts with |
|---|---|---|---|
| durable-home library (`model-library.sh home …`, `model_library.py`, `model_library_receipt.py`) | hub trees on the ranks; immutable download receipts; one current-home attachment ("occupancy") per revision | add, relocate, restore, remove, check, verify, receipt backup and recovery | runs Python on each rank over SSH; holds the lifecycle lock; queues archive jobs |
| catalog and resolution (`catalog …`, `resolve`) | `catalog.json`: homes last scanned, the operator's primary selections | refresh, primary set and clear, resolve, plan of prepare and removal | reads the attachment and the ranks; read by every plan |
| cold archive (`model_library_cold_archive.py`, `home archive run`) | job file and job lock per receipt; receipt replica and archive under the cold root | enqueue, worker run, publish, verify | detached worker, reads attachment and home without the lifecycle lock |
| cold-storage configuration (`model_library_cold_storage.py`) | the root in `.env` | plan, confirm, write | exclusive side of the cold-configuration lock; commands read the root when they start |
| locks (`lib.sh`) | lifecycle flock, hot flock, cold-configuration flock | shared and exclusive acquisition with a timeout, inheritance by child commands | every command |
| hot views (`prepare`, `pin`, `unpin`, `purge-hot`, budget, `verify-hot`) | a stamped view per rank: a link to the home on its rank, a full copy elsewhere; a witness of its files' metadata | all-rank prepare with admission and cleanup, pin, purge, verify | reads the attachment; mounted by containers |
| launch and stop (`up.sh`, `serve.sh`, `down.sh`, `cluster/*.sh`) | managed containers on the ranks, known by labels and ids | start with abort, health wait, stop | shared locks while starting, none while stopping |
| inventory and service switch (`inventory.sh`, `home.sh`, `wizard.sh`) | snapshots of the nodes; the stops a session has pending | classify, offer, confirm, stop, launch | runs `down.sh` and `up.sh`; another shell may do the same |
| topology and trust (`detect-fabric.sh`, `topology_manifest.py`, `topology-ssh-trust.sh`) | `.cluster-topology.json`, `.cluster-ssh-config`, known hosts | discover, enroll, load | ranks index everything else |
| releases and evidence (`model_serving_release*.py`, `model_validation_evidence.py`) | attempts, candidates, content-addressed registry files in the checkout | capture, assemble, review, stage, verify | files and Git only |
| launch plan, memory checks, experiment monitor, doctor, tools | reports | compute, render | read the rest |

`PROJECT.json` lists every component with its status and the reason for what is
not modelled, and every hazard at its line.

What is hard here: commands of several operators interleave under reader/writer
file locks; the archive worker runs beside all of them; the catalog a removal is
planned from is a snapshot that most commands do not refresh; every command is a
sequence of remote calls that can fail or be killed between any two; and trees on
the ranks can appear, disappear, be replaced or change bytes outside the program.

What correctness means, per component:

- **home library**: the occupied home is never destroyed by the program; a tree
  goes only by the command that inspected it; occupancy is granted to verified
  bytes only; giving up the last home needs a verified recovery set or an
  explicit acknowledgement; documents agree with the stores they point into.
- **cold archive**: a complete job has its recovery set; every job settles.
- **locks**: exclusive home commands run alone, hot writers are the only hot
  users, no two commands wait for each other.
- **hot views**: offered only when ready and verified on all ranks; never
  replaced or purged under a container; a pin goes only when asked; failures never
  leave a state the tools cannot repair; what is admitted stays below the cap and
  leaves the reserve, and what a copy writes beyond its charge never adds up.
- **verification**: what is accepted was whole at one moment; a witness never
  vouches for bytes that nobody hashed.
- **catalog**: right after a refresh it tells what the stores say; a stale one
  misleads no preparation; selections change only when the operator changes them.
- **launch and stop**: a container goes only when its own labels, or the start that
  made it, say so; a refusal removes nothing; a silent node is not an empty one.
- **service switch**: at most one running service is stopped for a new one, and
  nothing is launched over a service that runs.
- **cold configuration**: no change strands a recovery set; what is written is what
  was confirmed.
- **topology**: a node that stays keeps its place; a killed enrollment can be
  repaired.
- **releases**: a release is shown as validated only if the raw result files bear
  it out; stages that overlap or are killed leave a registry that verifies or can
  be resumed.

## 2. Plan

Done: the modules of the table above, and a proof of every safety property and
action property the runs check.  Next, in this order:

1. `HotViews` composed with `ManagedContainers`, so that the views and the labels
   of one launch are in one state, with remote calls that outlive their local
   process;
2. the onboarding journal, whose appends hold no lock.

Only model-checked are the four liveness properties (`PendingJobSettles`,
`RetriedJobSettles`, `Repairable`, `EnrollmentRepairs`): they rest on fairness,
hence on ENABLED, which the prover cannot treat.  What a theorem assumes of the
constants beyond what TLC is given is said in the section of its module.

Constants are parameters with named assumptions, each operation is one action,
invariants are conjunctions of named parts, and no module uses a RECURSIVE
operator.

## 3. HomeLibrary

One model at one revision. A command is a record in `op[p]` that moves through
the steps its shell function takes; the steps are the remote calls and store
writes that another process, or a kill, can come between.

| state | in the code |
|---|---|
| `tree[r]` | `models--…` under the hub of rank r: identity (device, inode, ctime) and content |
| `receipts` | `download-receipts/*.json` of the controller's library directory |
| `attachment` | the current-home attachment document: rank, directory identity, receipt |
| `catalog` | `catalog.json`, as the class of each rank's tree when last scanned |
| `job`, `worker` | `cold-archive-jobs/<receipt>.json` and the process that holds its `.lock` |
| `replica`, `archive` | the receipt copy and `pulsar-receipts/<receipt>/home` under the cold root |
| `views`, `serving` | the prepared view on the home's rank, and whether a container mounts it |
| `op[p]` | the locals of the running command |

| actions | code |
|---|---|
| `Add…` | `cmd_home_add_source_attested`: plan, download, verify, recheck, receipt, publish, attach, enqueue |
| `Relocate…` | `cmd_home_relocate`: in place or copied, hash, identity, occupy, retire the source |
| `Remove…` | `build_home_removal_plan`, `reverify_last_home_archive`, detach, `execute_home_removal_plan`, refresh |
| `Restore…` | `cmd_home_restore`: verified archive to staging, hash, recheck, publish, occupy |
| `Archive…` | `cmd_home_archive_run` and `publish_verified_recovery_set` |
| `CatalogRefresh`, `ReceiptBackup`, `ReceiptRecover` | the short commands, one step each under the exclusive lock |
| `Prepare…`, `Purge…`, `Launch…`, `Stop` | the users of a home, for a released spec |
| environment | trees that appear, vanish, are replaced or tampered with; archive decay; loss of the library directory; `CommandAborts` and `WorkerKilled` for a kill or any failing call |

Abstractions. Bytes are good, bad or partial against the one manifest all
receipts of a revision share (the stores refuse another). The two flocks are read
off the running commands, since a flock lives exactly as long as the process that
holds it; a waiter that times out changes nothing. Staging directories are made
by `mkdtemp` and reached by no other command, so they are part of `op[p]`.
Directory identities are small numbers that are never reused while something
still names them.

Left out: other models (`PrimaryHome` has several revisions), cold adopt, capacity
and geometry admission, `home verify` (it writes nothing), store documents that
are themselves corrupt, the safety check of the cold root's location, pins, and a
change of the cold root (`ColdStorage`).

### Properties

- `OccupiedHomeKept`: no program step deletes or overwrites the tree the
  attachment names.
- `OnlyInspectedTreesGo`: a tree is deleted by the command that fingerprinted
  that directory, or by a relocation into its path.
- `UsedHomeKept`, `ServingHasView`: homes in use keep their bytes, services keep
  their view.
- `OccupancyVerified`: occupancy is granted to bytes that match the receipt, though
  the tree may vanish before the attachment is written. Checked without trees that
  are replaced or tampered with, which the code does not claim to survive between
  its hash and its identity reading (see below).
- `DetachKeepsRecovery`: occupancy is given up against a recovery set or an
  acknowledgement.
- `CompleteJobHasRecoverySet`: a complete job's replica and archive are there.
- `PendingJobSettles`, `RetriedJobSettles`: liveness of archive jobs; a job whose
  worker was killed settles once it is run again by `home archive run`.
- `TypeOK`, `AttachmentHasReceipt`: proved (section 4), in no run.

### Runs

| run | instance | shows |
|---|---|---|
| `home_users` | 2 operators, 2 ranks with one path string, hot users, trees that appear, are replaced or tampered with, aborts: 2 of them | `ServingHasView`, `OnlyInspectedTreesGo`, `UsedHomeKept`, `OccupiedHomeKept` |
| `home_jobs` | every home command, workers queued and run by hand, a vanishing tree, archive decay, controller loss, a kill: 1 of them; fair workers | `CompleteJobHasRecoverySet`, `OccupancyVerified`, `DetachKeepsRecovery`, `PendingJobSettles`, `RetriedJobSettles` |
| `home_lost` | expected violation | the first disagreement below |

Bounds. Two ranks suffice for one home and one copy. Two operators suffice because
exclusive commands exclude everybody and the hot lock lets in one writer; in
`home_jobs` one operator acts beside the detached worker, which holds no lifecycle
lock. `Ids` is large enough that a fresh identity always exists (documents, trees
and commands name at most five at once); a smaller set would show up as a deadlock.
`MaxDisturbances` bounds what happens outside the program; one or two are enough
because between disturbances the commands repair or report the state, and each run
names the kinds it lets in. `Offered` restricts a run to the commands its question
is about. No run of this module switches deadlock checking off: some command can
always begin.

Fairness. Only `FairSpec` has any: weak fairness of each archive worker, which
runs detached (`setsid nohup`) and blocks on nothing. Operators need not act, and
disturbances need not happen. A worker killed by a signal leaves its job `running`
(the interactive retry refuses such a job, `model_library_cold_storage.py:68`), so
`PendingJobSettles` excuses a job that a disturbance left without a worker, and
`RetriedJobSettles` is about an operator who runs it by hand again and again.

### Disagreements with the documents

`home_lost` is a run; the other three formulas are in the module and TLC refutes
them within a minute with the constants named here.

- `LostHomeRestorable` (`home_lost`): ADR 0011, decision 7, promises recovery of a
  lost home from a verified archive. A home lost without `home remove` leaves its
  attachment document; `home restore` then refuses, and no command removes the
  document.
- `OccupiedTreeWasHashed` (`Offered` add and relocate, `Disturbances` replace):
  decision 3 promises a hash of the exact tree that is occupied. `home relocate`
  reads the directory identity in a later call than the hash.
- `AddOnlyWithoutRecoverySet` (`Offered` add, remove, restore, `ColdAnswers`
  pending): decision 7 allows `home add` when no receipt and no archive exist.
  `home add` looks at neither.
- `BlockerNamesLiveHome` (`SamePath` TRUE, `Disturbances` appear): the
  `current-home-attached` blocker says the attachment names this live directory; it
  compares path strings and not nodes, so with the usual common path it names
  another rank's home.

## 4. Proofs about HomeLibrary

`HomeLibrary_proofs` proves, for every set of ranks, operators, receipts and
identities and every disturbance budget:

| theorem | states | rests on | where |
|---|---|---|---|
| `TypeCorrect` | `[]TypeOK` | `IInv` | |
| `LocksExclude` | a home command runs alone, a hot writer is the only hot user | `IInv` | |
| `AttachmentReceiptHeld` | `[]AttachmentHasReceipt` | `IInv` | |
| `OccupiedHomesKept` | `OccupiedHomeKept` | `IInv` | |
| `InspectedTreesGo` | `OnlyInspectedTreesGo` | `IInv` | |
| `ServingViewsHeld` | `[]ServingHasView` | `HotInv` | |
| `CompleteJobsRecoverable` | `[]CompleteJobHasRecoverySet` | `RecoveryInv` | |
| `DetachesRecoverable` | `DetachKeepsRecovery` | `DetachInv` | |
| `UsedHomesKept` | `UsedHomeKept` | `HotInv`, `UseInv` | no tree vanishes |
| `OccupancyVerifies` | `OccupancyVerified` | `OccupyInv` | no tree appears, is replaced or tampered with |

They rest on the named assumptions of `HomeLibrary`: the controller is a rank,
`"none"` is not, identities and receipts are positive numbers. The hypotheses in the
last column are on `Disturbances`; every other kind may happen, and the runs that
check the two properties have the same restriction:

- a tree that vanishes leaves its hot view behind, and with the view on record the
  program no longer has a home there to inspect; a relocation into that rank's path
  then copies under the view without finding a user. TLC has the counterexample;
  with trees that only change or come, the theorem holds.
- an add reads no byte after it has published, and a relocation none after its
  hash, so whoever changes the tree between that and the attachment is not noticed
  (`OccupiedTreeWasHashed`, section 3). A tree may still vanish there.

The inductive invariant is `IInv == StoresInv /\ ColdInv /\ OpInv`. Types are not
enough, because a later step of a command writes what an earlier one read:
`CommandOK` says what each command has established at each of its steps (an add
that publishes has good bytes and a stored receipt; a relocation that copies has
a destination that is not the occupied rank; a removal at its deletion no longer
has the occupancy on its rank), and `Locks` says why nobody else has undone it
(only exclusive commands write the two documents, and they run alone).
`OccupiedHomesKept` and `InspectedTreesGo` then need only the four steps that write
a tree. The other properties add an invariant of their own over `IInv`:

- `HotInv`: what a hot command read under the hot lock still holds when it writes.
- `RecoveryInv`: a worker past its replica has the replica, past its archive the
  archive; nothing takes either away, decay only makes an archive bad. A requeue
  resets the job and not what the running worker has done.
- `UseInv`: no view outlives its home, and a removal or relocation past its user
  check has no view on its rank, because a preparation, which could make one,
  excludes it.
- `DetachInv`: a removal at its detach has rehashed the archive of the very receipt
  that is still attached, was acknowledged, or has nothing complete to give up. A
  medium that decays between that rehash and the detach is left out of the model
  (`ArchiveRots`).
- `OccupyInv`: the tree a command is about to occupy is what it published or
  hashed, or is gone.

Each action has a lemma of its own; `CommandStep`, `OwnStep`, `WorkerStep`,
`HotStepInv` and, for the smaller invariants, `AloneMoves`, `HotMoves`, `TreeWriter`,
`AttachmentGoes` and `AttachmentComes` carry what the steps of one kind have in
common.

Checked by TLC only: `PendingJobSettles` and `RetriedJobSettles`.

## 5. HotViews

One released spec, placed on the ranks `Targets` under one topology, so every
rank has one directory for its view. A command is a record in `cmd[p]`: the step
it is at, the ranks its current loop still visits (`todo`), and what it has
touched, listed or started (`did`).

| state | in the code |
|---|---|
| `view[r].data` | the hub tree in the view: a link to the home on its rank, a copy elsewhere; absent, partial, good or bad against the spec's manifest |
| `view[r].stamp`, `.pinned` | `.pulsar/hot.json`: absent, state `verifying`, or state `ready`/`pinned` |
| `unit[r]` | the container on rank r that mounts the view, running or stopped, and the launch that created it (its immutable id) |
| `worker[r]` | the background copy of rank r, in a process group of its own |
| `cmd[p]` | the shell function the process runs |

| actions | code |
|---|---|
| `PreparePlan` … `PreparePublish` | `plan_prepare` and `cmd_prepare`: skip or reuse a complete preparation, refuse pins and users, fork the workers and note each, wait, verify barrier, publish |
| `EnterCleanup`, `PrepareCleanup`, `PrepareCleaned`, `PrepareInterrupted`, `PrepareInterruptedEarly` | `cleanup_partial` and its traps; a signal before the last fork was noted |
| `WorkerClear`, `WorkerCopy`, `WorkerStamp`, `WorkerFails` | `copy_hub_to_rank`, `materialize_tree_on_rank`, `write_stamp_on_rank` |
| `Pin…` | `cmd_pin`, `cmd_unpin`: strict lookup on all ranks, then stamp by stamp |
| `Purge…` | `cmd_purge_hot`: list all ranks, check all views, delete rank by rank |
| `Launch…`, `Stop` | `cluster/start-cluster.sh` (verify, clear, start, wait, abort); `down.sh` and `stop-cluster.sh` |
| `Killed`, `Disturbance` | a killed process, after which no trap runs; a view lost or damaged outside the program |

A call that fails may have done all, part or none of its work: a failed removal
leaves some of the view, a stamp write or `docker run` reported failed may have
happened. Every loop visits the ranks in the code's order.

Abstractions. Verification is exact: the serve-time witness, whose metadata match
stands for the full hash and whose mismatch falls back to it, is `Verified`
(`ViewWitness` has both). The
hot lock is read off the running commands and workers: the workers are forked
subshells and share the lock's open file, so a killed preparation keeps the lock
until the last of them has ended. `PrepareFork` and `PrepareBook` are two steps, as the
fork and the notes of its process group and rank are: a signal between them stops the
worker without its view being removed, or leaves it running. A remote call that a
killed worker had running is taken to end with it, before cleanup removes the view; a
write that arrives later is listed as a hazard and not covered. A refusal of the hot
budget is a failing call here (`HotBudget` has the budget). `ready` with the pin and
`pinned` are one state, as every reader treats them.

Left out: conf-named views (`load_conf` refuses confs), several spec ids or
content ids that share a rank's disk, the stale controller stamp of a one-rank
service placed elsewhere, the closing recheck of `purge-hot` (it only reports),
legacy views. The home the copies come from belongs to `HomeLibrary`; here a home
that is damaged meanwhile gives bad bytes.

### Properties

- `ServedViewsUsable`: while a container exists on any rank, every rank's view is
  ready and intact, unless something outside the program disturbed one.
- `MountedViewKept`: even then, no step of the program changes data or stamp of a
  view that a container on its rank mounts.
- `PreparedIsUsable`: a preparation reports success only for a usable service
  (proved, in no run).
- `CleanupLeavesNothing`: cleanup whose removals succeeded leaves no view on the
  ranks it had noted.
- `PinKept`: only unpin and a forced purge drop a pin.
- `PurgeSparesAll`: one protected view stops a purge with nothing removed
  (proved, in no run).
- `AbortSparesOthers`: a launch that fails removes only containers it started.
- `KeepsPromise`: `HotViews` implements `HotPromise` under the mapping "usable =
  every rank verified, users = ranks with a container, pins = pinned ranks". The
  abstract service is offered only while nobody uses it and nothing is pinned,
  withdrawn only while nobody uses it, and started and pinned only while usable.
- `Repairable`: no residue of failures refuses both prepare and purge for good.
- `NoWorkerOutlivesCleanup`: once cleanup has ended no worker copies (in no run:
  false of the code, see below).

### Runs

| run | instance | shows |
|---|---|---|
| `views_all` | 2 operators, ranks 0, 1, 2, 2 faults, 1 disturbance | the safety properties above |
| `views_repair` | 1 operator, ranks 0 and 1, 1 fault, 1 disturbance | `Repairable` |

Bounds. Three ranks give a controller, a rank in the middle of every loop and a
last one, so that loops can stop after some but not all ranks. Two processes
suffice for the conflicts the locks decide (writer against writer, writer against
launch, two launches); a process that is killed can begin again beside its own
orphaned workers. `MaxFaults` counts failing calls, bad copies, interrupts and
kills; two let a preparation fail and its cleanup fail, or the next command be
killed. The inductive invariant of section 6 was also checked with one fault and
two disturbances. A placement without the controller, where the plan sees no stamp
of a serving rank, is covered by the proofs, which are for every set `Targets`.
Between faults and disturbances commands run unboundedly often. Deadlock is
checked in every run. The two operators are symmetric in `views_all`;
`views_repair` uses no symmetry.

Fairness. Only `RepairSpec` has any, and it says what an operator who follows the
error messages does: a begun command goes on (the shell is scheduled, remote calls
return or time out), workers go on, containers are eventually stopped
(`down.sh`), and whenever the lock is free again and again, `purge-hot
--force-unpin` and `prepare` are eventually tried. Faults and disturbances are
finite by their bounds. Nothing requires a launch.

Disagreement. The comment of `cleanup_partial` (`model-library.sh:3549-3551`) has it
that no child outlives the wrapper and recreates files. A signal that arrives after
the fork of a worker and before the command that notes its process group (3672)
leaves that worker running, and it copies on after the cleanup: TLC refutes
`NoWorkerOutlivesCleanup` with the constants of `views_repair`. It
does no further harm: it holds the hot lock, and the rank it writes is none that the
cleanup removes. What it leaves is repaired as any residue is (`Repairable`).

## 6. Proofs about HotViews

`HotViews_proofs` proves, for every set of ranks and operators and all bounds:

- `TypeCorrect`, `ServedViews`, `Prepared`, `CleanedUp`: the four invariants
- `MountedViews`, `Pinned`, `PurgeSpares`, `AbortSpares`: the four action
  properties
- `Implementation`: `Spec => KeepsPromise`

from the assumptions of `HotViews`: ranks are natural numbers and there is at
least one, `"nobody"` is no operator, the bounds are natural numbers.

All follow from one inductive invariant, `IInv`. Types are not enough, since each
command acts on what it saw several steps ago on several ranks. `CommandsOK` says
what a command has established at each step and still relies on: a launch that
clears or starts has a usable service; a preparation past its user check
has no container on the ranks it has passed; a purge that deletes has no container
on any listed rank and, unless forced, no pin. `Exclusion` says why nobody undoes
it: beside a writer no other command runs. `WorkersOK` extends that to orphans: a
copying worker belongs to the running preparation or keeps every command out, and
no container exists meanwhile; beside a cleanup it copies to a rank that was not
noted, so the cleanup removes nothing of its. `Stop` only removes containers and `Disturbance`
is excused by name in the properties that do not survive it.

There is one lemma per action and invariant part; `Implementation` shows which
abstract step each action is, using `IInv` for what an action cannot see by
itself (that a deletion under an offered service has no users, and that publishing
the last stamp has neither users nor pins).

Checked by TLC only: `Repairable`, which rests on fairness.

## 7. HotBudget

Two or more models on all serving ranks; space in small units.

| state | in the code |
|---|---|
| `held[r][m]`, `stamp[r][m]` | model bytes below model m's instance directory on rank r, and its `.pulsar/hot.json` |
| `staged[r]` | the tree a relay keeps under the controller's `TMPDIR` for rank r |
| `other[r]` | bytes other programs wrote |
| `job` | the preparation that holds the hot lock, and its workers |

| actions | code |
|---|---|
| `Plan`, `Observe`, `Admit` | `plan_prepare`, `build_hot_budget_plan_from_activation`, `hot_budget_admission`: observe rank by rank, admit all or none |
| `WorkerClear`, `WorkerStage`, `WorkerCopy`, `WorkerStamp`, `WorkerFails` | `copy_hub_to_rank` and its relay, `write_stamp_on_rank` |
| `Join`, `Cleanup`, `Killed`, `Purge` | wait, `cleanup_partial`, kill without traps, `purge-hot` |

What is charged and what is written are two amounts. `Size[m]` is the
`total_bytes` of the admitted snapshot's manifest, which `Required` charges a rank
that is not the home. `Hub[m]` is the home's whole hub directory, which `WorkerCopy`
and `WorkerStage` write: `rsync -a --delete` takes other revisions and unreferenced
blobs with it. `Meta` is the size of a view's `.pulsar`, which `tree_bytes` counts
with the rest and nothing charges. `Excess(m, r)` is what an instance holds beyond
its charge, `Uncharged(m, r)` the most a copy can leave there: what the hub has
beyond the snapshot, and the metadata.

- `CapKept`: a rank owns at most the cap and the excess of one instance, which is
  at most its uncharged bytes. An admission counts what earlier copies wrote in
  excess, so excesses do not add up, whatever residues failures left.
- `ReserveKept`: while an admitted preparation writes, each rank keeps the reserve,
  but for what its copy wrote in excess, what others wrote since its observation,
  and the relay.
- `HardCapKept`: no excess at all, as the documents have it (in no run: false of the
  code, see below).

Run `budget`: three ranks, a small model (1) and a large one (2) whose hub has one
unit more than its snapshot, metadata 1, disk 6, cap 3, reserve 2, at most two units
of foreign writes and two faults. With these the large model is refused beside the
small one, its copy ends above the cap, a residue of a copy may refuse the next
preparation or just fit beside its charge, and one foreign unit takes a finished copy
below the reserve. Deadlock checking is
off: with the faults used up and the disk full, no command may be admitted.

### Proof

`HotBudget_proofs` proves `Capped` (`[]CapKept`) and `Reserved` (`[]ReserveKept`) for
any finite sets of ranks and models, any sizes, hubs, homes, limits and bounds, from
`SizeAssumption`, `RanksAssumption` (there is a model) and `LimitsAssumption`
(`budget_report` refuses a cap below one and a negative reserve). `HardCapped` adds
that no hub is larger than its snapshot and metadata has no size, and then no rank
exceeds the cap at any time (`[]HardCapKept`): nothing else breaks it.

None of them is inductive: a copy may add a unit because of what was admitted before
the first write. `Fits` keeps that for each observed rank as `Room`: what it holds of
the other models (`Rest`), which nobody writes under the hot lock, leaves room for
the charge below the cap and above the reserve. `HubsCopied` bounds a copy by the
hub. While workers write, `Room` gives the cap but for the excess of the model being
written (`OneExcess`); between preparations a removal, a residue or a kill only
lowers what a rank holds, so the bound stays true with the same instance or with
none (`Shrinks`).

A sum of amounts (`Total`) is the number of its units, as a set, so that the theorems
on finite sets apply: `TotalSplit` takes one term out of a sum, `TotalSame` says a sum
depends on its terms. A fold would need an induction the provers do not offer.

Abstractions. A home's hub does not change while it is copied, nor between two
preparations. A plan that skips carries a copy's requirements; the capacity check
of `home add` ignores the hot reserve, so a home is "other programs" here; failed
verification is a failing worker; pins add no bytes.

Disagreements. TLC refutes `HardCapKept` with the constants of `budget`, and also with
metadata of no size, cap 2 and disk 5, where the hub alone breaks the cap: admission
charges one snapshot (`model_library.py:3693`, 3742-3749, 3804), the copy is the whole hub
(`model-library.sh:3049-3050`, 3067-3068, 3082-3085), and nothing refuses a home with
other revisions or stray blobs. `docs/OPERATIONS.md:1032` has a per-rank hard cap. The
reserve (`docs/OPERATIONS.md:1024-1026`) is broken by the same bytes; `ReserveKept`
excuses them by name.

`ReserveKeptWhileRelaying` is false also where hubs hold one snapshot and metadata has
no size (cap 2, disk 5). When neither the home nor the target of a copy is the
controller, `copy_hub_to_rank` (`model-library.sh:3079-3083`) pulls the whole hub into `mktemp -d
"${TMPDIR:-/tmp}/…"`, one tree per such target and in parallel, and the admission
charges the controller for its own copy only; `docs/OPERATIONS.md:1024-1027` says
the reserve is preserved on each selected rank. Where `TMPDIR` is on the filesystem
of the hot root (`SharedTmp`), an admitted preparation takes the controller below
it. A relay that fails leaves its tree: the subshell ends by `set -e` and its
RETURN trap does not run.

## 8. ValidationOutcome and ReleaseRegistry

`ValidationOutcome` is the pure part: `Compose` turns one result file of an
operation (compare, bench, accuracy, soak) into a run record, `Aggregate` and
`Status` adjudicate run records, exclusions and a review. A metric and its
threshold are one verdict, a sample size how it compares with the required one.

`ReleaseRegistry` is the state machine:

| state | in the code |
|---|---|
| `captured`, `candidates` | run records and candidate directories under the attempts root |
| `evidence` | whether an evidence file is still what was captured |
| `decided` | every decision ever proposed |
| `tree`, `torn`, `head` | registry files of the checkout, files created and not filled, files of the commit |
| `stager[s]` | a process that runs `stage` |

| actions | code |
|---|---|
| `Capture`, `Assemble` | `model_serving_release_capture.py` |
| `Stage` | `stage_issue_plan`: plan over the loaded registry, Git check, create and fill file by file, final load |
| `Commit`, `Discard`, `Drift`, `Kill` | Git, an edited evidence file, a killed stage |

- `StatusFollowsTable`: stored results and status are the table's of decision 0004,
  stated independently; no attempt outvotes a failure.
- `ValidatedEarned`: a release shown as validated has raw result files that show
  every criterion met (`Shows`), kept evidence and a passed review.
- `QuietRegistryVerifies`: at rest, without a reported failure, the checkout loads,
  though stages overlapped.
- `InterruptedStageResumes`: a stage that a kill left between two files can be run
  again.
- `LaterReviewSupersedes`: the effective decision is replaced only by a later review
  that supersedes it.

Run `release_stage`: two attempts out of nine contents under two soak criteria (one
strict about the server boot), three decisions, two review times, two stagers, one
kill, one drift. The contents cover all-met, each kind of failure, exclusion by a
partial run, an interrupted, an unreadable and a pre-barrier attempt; `focus` keeps
one behaviour to many contents of one decision, to the order of several, or to
kills, so that the product of the three is not explored. The assumption
`PassIsShown` of the MC module is evaluated on 3·10^3 result files of each of the
four operations: a criterion passes only if its file shows it. Deadlock is off: a
registry may be complete.

### Proof

`ReleaseRegistry_proofs` proves all five properties (`Adjudicated`, `Earned`,
`QuietVerifies`, `Resumes`, `Supersedes`) for any criteria, attempts, stages and
bounds. The pure half needs no state: `AggregateTable` and its neighbours show that
aggregation is the table, and `PassShown` that a criterion passes only if its result
file shows it, for every file `Measured` admits and not only for those of the MC
module.

The invariant is `IInv`. `Sound` says of every decision ever proposed what the
review that proposed it established: its results and status follow from the records
and a privacy review, every strict criterion holds, and it supersedes only older
decisions. `Typed`, `Placed` and `Staging` say that files, also half-made ones,
belong to proposed decisions and that a running stage writes one of its own;
`Distinct` that a decision has one number. At rest after stages that all reported
success (`Quiet`) the checkout loads: the last one to finish loaded the registry
with all files in place, and what is committed verifies. A drift of evidence is
outside `Quiet`, since nothing notices it before the next load.

`AttemptsAssumption` (`Attempted`) says an attempt is what its operation's result
file composes to, or ended before it observed anything: how `capture` builds run
records. `MaxTime` positive gives every review a time; `CriteriaAssumption` keeps
the built-in provenance criterion apart from the declared ones.

Plan, Git check and final load are single steps. Branches that are sound each and
superseded the same decision before a merge are out of stage's reach.

Disagreement. `InterruptedStageRetries` (one stager, one run, one kill) is false: a
file is created with `O_EXCL` and then filled, a kill between leaves a torn file,
and the retry refuses it; `docs/MODEL_SERVING_RELEASE_ISSUANCE.md:193-199` says an
interrupted stage is run again.

## 9. ColdStorage

| state | in the code |
|---|---|
| `persisted`, `override[p]` | `PULSAR_MODEL_COLD_ROOT` in `.env`, and in the shell that runs p |
| `root[r]`, `store[r]` | whether a root is mounted and readable; replicas and archives under it |
| `jobs`, `launches` | archive job documents; detached workers not yet running |
| `proc[p]` | a command: what it read, what it shows, where it is |

Actions: preview and confirm (`build_plan`), write under the exclusive lock with the
plan's id (`write_dotenv_assignment`), queueing and spawning, the worker's replica,
archive and finish, receipt backup, kills, outages and returns of roots. The
environment is read when the process starts (`lib.sh:42-51`), the shared lock is
taken later (`model-library.sh:2217`, 2284, 2392).

- `CompleteJobRecoverable`: a complete job has replica and archive under one root.
- `StrandedOnlyInFlight`: without overrides and outages, recovery objects are under
  the configured root, unless it changed while a command that had read the old one
  was still to run. An override or an outage strands objects by itself, which the
  property leaves out.
- `WrittenAsShown`: what is written is what was confirmed, in the state it was
  confirmed in.

Run `cold`: two roots, one receipt, two processes, one override, outage or kill.
Two processes suffice for a writer against a worker, and for two workers of one
receipt. Roots and processes are symmetric. Deadlock is off: with the only root
gone and the trouble used up nothing needs to happen.

A root that is not mounted reads as empty, as the code has it. A kill ends a
command's whole process group.

### Proof

`ColdStorage_proofs` proves the three properties (`Recoverable`, `Stranding`,
`Shown`) for any roots, receipts and processes. `Published` is what a worker has put
under the root it was started with, step by step, so that a job is completed over a
full recovery set (`Recoverable`). `Stranding`, about the histories without overrides and
outages only, adds `Settled`: while nothing was
overridden, no root went out and no configuration moved under a command in flight,
every process and every launch carries the root that is configured now.
`RootsAssumption` keeps the two ways of an assignment to name no root apart from the
roots; `ProcsAssumption` (finitely many processes) lets the budget of trouble count
the shells that export a root of their own.

Disagreement. `CompleteJobConfigured` is false: a command started before a change
publishes under the old root after it, and an unmounted root does not block the
change; `docs/decisions/0015-explicit-cold-recovery-root.md`, points 1 and 5, has
the current root as the one recovery root.

## 10. TopologyTrust

| state | in the code |
|---|---|
| `link`, `key`, `busy` | what probes find: links, host keys, running containers |
| `manifest`, `config` | `.cluster-topology.json`, `.cluster-ssh-config` |
| `disc`, `enr` | the discovery and the enrollment that run |

Actions: discovery (`detect-fabric.sh`, `assemble`) with rank order, largest mesh
(`Largest`; `Greedy` where more hosts answer than `Exhaustive`, 14 in the code),
pings and idle check, and its write; enrollment from `Collect` (idle, load) over the
probe, the candidate config, the check with it, to the two files; changes of links
and keys; kills.

- `RanksKept`: a node that stays moves down only past nodes that left, and nodes
  that join come after it.
- `EnrollmentRepairs`: where hosts and links stay fit (`Fit`), an operator who keeps
  enrolling with new keys accepted makes a manifest loadable that a kill between
  the two files left unloadable.

Run `topology`: four nodes of which one may be away, a fifth key, one change, one
kill, and `Exhaustive` two, so that of the two or three hosts that answer both ways
of choosing a mesh occur. Fairness (`Retries`): strong fairness of starting the enrollment, since the
idle check may refuse it on and off, and weak fairness of its later steps. Deadlock
is off: after the last change nothing needs to happen.

No lock is held between discovery and enrollment, the idle check precedes the
confirmation, and a discovery rewrites the manifest without the enrolled keys; all
three are in the model. A node's identity, alias and address are one value.

### Proof

`TopologyTrust_proofs` proves `Renumbered` (`RanksKept`) and `Ranked` for any finite
set of hosts, any links, keys, answers and changes, and any `Exhaustive`: which group
is chosen does not matter, only that its members are ranked in candidate order
(`Ordered`). `TrustInv` says that every topology in a file, in a discovery or in an
enrollment lists this node first and no node twice, without which a rank would not
be a place. `PlacesKept` is the argument: a host that comes before a saved member is
itself saved, with a smaller rank (`BeforeMember`). `NodesAssumption`: finitely many
nodes, this one among them, numbered in the order of their host names.

## 11. ManagedContainers

| state | in the code |
|---|---|
| `box[i]` | a container: node, name, labels, running; ids are docker's and are not reused |
| `up` | nodes whose ssh and docker answer |
| `cmd[o]` | the stop or launch of shell o: what it asked, found, confirmed, removed |

| actions | code |
|---|---|
| `Ask`, `Endpoint`, `Probe`, `Confirm`, `Discover`, `Resolve`, `List`, `Inspect` | `down.sh`, `cluster/stop-cluster.sh`, `remove_stack_owned_cluster` and the other stops of `lib.sh`, up to the first removal |
| `Recheck`, `Remove`, `Absent`, `Verify` | inspection again by id, `docker rm` by id, proof of absence |
| `Start`, `Wait`, `Abort` | `cluster/start-cluster.sh` and `serve.sh` |
| `Outage`, `Return`, `Stranger` | the world |

- `OnlyProvenRemoved`: a container disappears only through a command its own labels
  allow to remove it, or the start that created it.
- `RefusalRemovesNothing`: a stop of one profile that refuses has removed nothing.
- `CleanMeansGone`: a stop that reports success has left nothing it was about.
- `NoRankStranded`: nothing is removed while a node the service may have a rank on
  has not answered.

Run `containers`: two operators, two nodes, a cluster, a one-node service and a
profile without a released spec, three ids, one outage, lost answer or stranger;
three menus of commands, so that each kind meets the kinds it can conflict with.
Three ids let a service of two ranks stand beside one foreign container. The
foreign containers are an unlabelled rank, a service with another node's label and
one without, and a rank of a retired profile. Each call reads one node; a listing
is one step. Left out: `remove_stack_owned_cluster_pair`, which nothing calls, a
`docker run` that returns no id (as a lost answer), foreground `serve`, ports and
preflight (a failing start).

### Proof

Part I of `ServiceSwitch_proofs` proves all four properties for any number of nodes,
profiles, shells and containers, and any budget of trouble: `ProvenRemoved`,
`Refusal`, `EveryRankHeard`, and `Cleanness` where `Flaky` is FALSE.

A command removes by an id it found several calls ago. `Base` and `Phase` say what
it has established by the place it is at: the ids it holds are still containers whose
labels allow it to remove them, or are gone (`Rightful`: ids are not reused, labels
and nodes do not change); no needed node was mute (`Heard`) before the first removal;
`gone` is empty while a refusal is possible. Other shells take containers away and
add new ones, which disturbs neither. `Cleanness` adds `Tracked`: of the containers
that stood when the command began (`seen`), all of which it is about (`AllAimed`),
each one left is on a node still to visit or among what it is still looking at
(`Left`). With `Flaky` a call may fail for one container alone and is read as its
absence, and `CleanMeansGone` is false (below); hence the hypothesis.

`FoundAssumption` says that containers found at the start have the shape `Boxes`;
`MenusAssumption` that a command names a profile where its kind takes one, as the
argument parsers require.

What the code leaves open, seen while modelling:

- `docker inspect` that fails while `docker info` answers is read as an absent
  container (`lib.sh:2267-2280`, 2284-2315); with `Flaky` TRUE `CleanMeansGone` is
  false. The comment at `lib.sh:2283` promises that a docker failure is never masked
  as absence.
- two launches of one profile, which hold no lock against each other, may mix the
  ranks of two starts.

## 12. Inventory and ServiceSwitch

`Inventory` is `inventory.sh`: a snapshot (rows and nodes that answered) is
classified into ownership, services, states, and what may be stopped or cleaned. It
is a second implementation of the ownership rules of `lib.sh`. `ServiceSwitch` adds
one session `ses` of the home screen or the wizard to `ManagedContainers`: it reads
the nodes one by one, offers or plans, is confirmed, reads again, runs `down.sh` in
its own shell (a command of `ManagedContainers`), reads again, checks that the
target is clear, and runs `up.sh`.

- `OfferedStopsProceed`: what is offered to stop, the stop's own rules accept.
- `OneRunningStopped`: a session never stops a running service it heard of unless
  it is the only one that was confirmed.
- `NothingStillRunning`: what ran on the target for another service at the start of
  the session, on a node the last inventory heard, no longer runs when `up.sh` is
  run.

Run `switch`: a two-node cluster and two one-node services, seven kinds of found
containers (stopped, misplaced, unlabelled), four sessions, another shell that may
stop the cluster, one exit, outage or stranger. The memory gate is a free choice.

### Proof

Part II of `ServiceSwitch_proofs` proves `OneAtATime` (`OneRunningStopped`),
`NothingStillRuns` (`NothingStillRunning`), `OffersProceed` (`OfferedStopsProceed`)
and `SwitchTypeCorrect` for any number of nodes, shells, profiles and containers and
any sessions. It builds on `Inv` of part I, where what a command has established does
not depend on who runs it.

A session acts on snapshots while others go on. What makes a snapshot useful is that
a container only ever stops or goes, and its id is not reused: a container it
remembers that still exists is as it was, except that it may have stopped (`Older`,
`Covered`), so what a snapshot shows stopped has stopped. `SesKnows` says what follows
at each step of the session: `BusyOver`, once the second inventory showed the target
clear, and `OneAtMost`, once one service at most was found running. `SesOK` ties the
session to the stop it runs: that command keeps its kind and profile
(`WorksContinues`), and what it counts as gone grows only by what it removed itself
(`GoneGrows`, `GoneIsOwn`). No other shell disturbs any of this (`AroundKeeps`).

`OffersProceed` supposes `FoundPlain`: a container found at the start that has a
managed label has it as the launchers write it, `true`, under the name of its
profile; docker itself does not keep names and labels together. The containers of
the run are plain. Without it the property is false: the second point below is such a
label. `ReleasedAssumption` and `SessionsAssumption`: finitely many released
profiles; a session has one of three tasks, and a switch has a released target.

What the code leaves open:

- `OneRunningStoppedAnywhere` is false. `running_pending_services`
  (`wizard.sh:1360-1376`) looks at the services a fresh inventory shows; a node that
  is silent just then shows none, so a switch with two running services passes for
  one with fewer. `docs/OPERATIONS.md:461` says several running stop targets leave
  the services running, and 386-387 that a failure never becomes an empty inventory.
  The check before the launch has the same weakness.
- `inventory.sh:624` takes the managed label `True` for managed, `lib.sh:1945` only
  `true`; such a service is offered and its stop is refused.
- every managed service is safe to stop, so the wizard's branches for unsafe ones
  are never taken; a partial service with a running rank is offered and always
  refused at execution (the selftest expects so).
- a cleanup decided on an older inventory may remove a service launched since.

## 13. ViewWitness

One rank's view, file by file. `blob[f]` is a file's metadata (one tick) and which
of its halves are right; `view` the directory, its stamp and the witness; `cmd[p]`
a launch, pin, preparation or purge. A verification (`verify_hot_ready`) observes
all metadata, compares with a witness or hashes each file in two reads, observes
again, and may write the witness; other programs write files meanwhile, and a
verification whose ssh connection is lost goes on after its command let the hot
lock go.

- `AcceptedWasWhole`: what is accepted was whole, all files at one moment since the
  verification began; for pin and unpin, which do not observe around the hashes,
  each file at some moment.
- `WitnessVouches`: while the files have the metadata of the stored witness they are
  as the manifest says.

### Proof

`PlanAndVerify_proofs` proves both properties, `ViewWitness_Accepted` and
`ViewWitness_Vouched`, for any number of files, verifications, writers and lost
connections. For a verification that hashes, `Certifies` is the step-by-step claim:
a file hashed so far was right and has been right while it had the metadata observed
first, so metadata that is unchanged at the end means all files were right together.
A launch hashes nothing: it accepts because the stored witness equals what it
observed twice, and that witness may have been written between its observations by
a verification that began earlier. `Trusts` has the argument: either all files were
whole since the launch began, or one of its observations is already refuted. An
observation is `Refuted` if some file has left that metadata for good or was wrong
under it, no witness records it, and none of the running verifications can come to
write it (`Never`), since each has the file still to hash or to observe again.

`FilesAssumption` has at least one file: a manifest without files is refused and
so is a witness without entries (`model_library.py:2406`, 2555, 3217), and a launch
would accept an empty view at once. `TicksAssumption` bounds writes and lost
connections.

Every write is taken to give a ctime never seen before; a clock coarser than two
writes would break `WitnessVouches`. An orphaned verification may write
`witness.json` after a purge (`atomic_write_json` creates the parents,
`model_library.py:145-147`) and so leave an unstamped directory. Removal is one
step; symlinks and unreadable entries are left out.

## 14. PrimaryHome

Revisions of one model on the ranks of a topology.

| state | in the code |
|---|---|
| `disk`, `attached`, `receipts` | trees, attachment documents, receipts |
| `topo` | the confirmed topology |
| `catalog` | `catalog.json`: homes as scanned, selections |
| `op[u]` | a refresh, set, clear, resolve, or the planning half of a preparation |

| actions | code |
|---|---|
| `Refresh…` | `cmd_build` over a scan node by node, selections kept (`--preserve-primary-from`) |
| `PrimarySet`, `PrimaryClear`, `Resolve` | `catalog primary set`, `clear`; `resolve_entry` |
| `PrepareResolve`, `PrepareInspect`, `PrepareReceipt`, `PreparePlan` | `inspect_catalog_home`, the remote inventory, `resolve_attached_source_attested_receipt`, `plan_prepare` |
| `HomeAdd`, `HomeRelocate`, `HomeRemove`, `Adopt…`, `Outside`, `Rediscover` | what changes beside the catalog; a home command is one step, `HomeLibrary` has its parts |

- `CatalogFollowsHomes`: right after a refresh, classes, readiness and removal
  advice agree with the stores.
- `SelectionsKept`: a selection changes only by a set or clear of that revision.
- `PlannedIsHome`: however stale the catalog, an accepted plan's source was the
  attached directory with the receipt's bytes at some moment since the command
  began, and neither resolve nor prepare answers another home than the selected one.

Run `plan_and_verify` (with section 13, to which it shares no state: `focus` picks
one of the two): two revisions, three nodes on two ranks, two commands, three
changes; and two files, two commands, three writes, one lost connection. Two files
are what a mix of old and new bytes needs, three writes a change, its undoing and
another; three changes are a home, its move and a disturbance. The two commands are
symmetric. Deadlock is off, since the bounds end every behaviour.

### Proof

`PlanAndVerify_proofs` proves `PrimaryHome_Follows`, `PrimaryHome_Planned` and
`PrimaryHome_Selections` for any revisions, nodes, commands and changes. `Locked`
lets the two sides of the lock be used one action at a time; `Tells` is what a
catalog says that was scanned from the present stores; `Going` what each command has
read by its step: a refresh found one entry for each rank it visited (`Scans`), what
is about to be written keeps the selections it read (`Writes`), and a resolution's
home is the selected one (`Chooses`). `Plans` is the difficult part: a preparation
reads the directory, then the receipt, at different moments. Attachments change only
when no command holds the shared lock, and directory numbers never come back; so a
directory that was good and is not the attached one while the command runs never
will be, and the receipt check that succeeds later proves it was the home all along.

`CatalogAssumption`: `None` and `Unknown` encode what is absent and are no node or
revision; there is a controller and another node, since a topology has two ranks.

Only `home remove` refreshes the catalog afterwards; a `--local-only` refresh drops
remote homes. One attachment per revision makes duplicates impossible right after a
refresh. Seen while modelling: for a stale selection whose model has no home,
check-weights advises a refresh and `catalog primary set`, which cannot succeed; the
advice of "occupancy-missing" is a relocation, without the refresh it needs
afterwards. Left out: conf paths, several homes of one rank's directory; a rank's
number, names and address are one selector.

## 15. Not modelled

- the replacement transaction: `wizard.sh` no longer captures one, so only a record
  of an older version is recovered or archived. `ROLLBACK_ACTIVE` is set at
  `wizard.sh:1480` and reset only at 1514, and `up.sh` refuses the speculative-decode
  flags for released specs, so a rollback launch is always refused.
- the onboarding journal (`skills/pulsar-model-onboarding/scripts/onboarding_journal.py`):
  hash-chained appends of one interactive author. `SKILL.md:97` uses `--id spec_id=`,
  which its `ALLOWED_ID_KEYS` lacks.
- launch plan and memory checks, release specs and consumers, experiment monitor,
  benchmarks, doctor, health report, privacy and publishing tools: computations over
  documents one command reads, or floating-point statistics.
- remote calls, other than a verification, that outlive their local process
  (`model-library.sh:3554`).
