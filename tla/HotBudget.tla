------------------------------ MODULE HotBudget ------------------------------
(***************************************************************************)
(* The space of the hot views: on every rank a preparation is admitted     *)
(* against a hard cap on the bytes below the hot root and a reserve of     *)
(* free space (budget_report, hot_budget_admission), all ranks before the  *)
(* first write.  Copies fail, processes are killed and removals leave      *)
(* residues; other programs write to the same filesystems meanwhile.       *)
(*                                                                         *)
(* What is admitted is not what is written: the admission charges the      *)
(* bytes of one exact snapshot, the copy takes the home's whole hub        *)
(* directory, with its other revisions and unreferenced blobs, and the     *)
(* view's own metadata comes on top.                                       *)
(*                                                                         *)
(* A model that moves between two remote ranks passes through the          *)
(* controller's temporary directory.  Space is counted in small units.     *)
(***************************************************************************)
EXTENDS Integers, FiniteSets

CONSTANTS
  Ranks,       \* the serving ranks; rank 0 is the controller
  Models,      \* the models prepared
  Size,        \* Size[m]: bytes of model m's snapshot, by its manifest
  Hub,         \* Hub[m]: bytes of the hub directory that is its home
  Meta,        \* bytes of a view's .pulsar directory
  Home,        \* Home[m]: the rank of its durable home
  Disk,        \* free space of a rank before anything was prepared
  Cap,         \* hard cap on the owned hot bytes of a rank
  Reserve,     \* free space a preparation has to leave
  SharedTmp,   \* the controller's TMPDIR is on the filesystem of its hot root
  MaxOutside,  \* bound on bytes written by other programs, all ranks
  MaxFaults    \* bound on failed calls and kills

\* A hub usually has more bytes than one of its snapshots; where files of the
\* snapshot share a blob it may have fewer.
ASSUME SizeAssumption ==
  /\ Size \in [Models -> Nat] /\ Hub \in [Models -> Nat] /\ Meta \in Nat
  /\ Home \in [Models -> Ranks]

ASSUME RanksAssumption ==
  /\ IsFiniteSet(Ranks) /\ Ranks \subseteq Nat /\ 0 \in Ranks
  /\ IsFiniteSet(Models) /\ Models # {}

\* budget_report refuses a cap below one and a negative reserve.
ASSUME LimitsAssumption == Disk \in Nat /\ Cap \in Nat \ {0} /\ Reserve \in Nat

VARIABLES
  held,     \* held[r][m]: model bytes below m's instance directory on rank r
  stamp,    \* stamp[r][m]: its .pulsar/hot.json
  staged,   \* staged[r]: bytes in the controller's TMPDIR for rank r
  other,    \* other[r]: bytes other programs wrote on rank r
  job,      \* the preparation that holds the hot lock
  faults

vars == <<held, stamp, staged, other, job, faults>>

Controller == 0

\* seen[r]: the other programs' bytes when rank r was observed.
Idle == [pc |-> "idle", model |-> "none", skip |-> FALSE, killed |-> FALSE,
         todo |-> {}, blocked |-> FALSE, seen |-> [r \in Ranks |-> 0],
         worker |-> [r \in Ranks |-> "none"]]

-----------------------------------------------------------------------------
(* Observation and admission of one rank.                                  *)

\* The sum of a table of amounts over keys ks: its units, one by one.
Total(table, ks) == Cardinality(UNION {{k} \X (1..table[k]) : k \in ks})

\* What m's instance directory holds on rank r; a link has no bytes.
Bytes(r, m) == held[r][m] + (IF stamp[r][m] = "none" THEN 0 ELSE Meta)

Below(r, ms) == Total([m \in Models |-> Bytes(r, m)], ms)

\* Mutant: only stamped instances are counted.
OwnedStamped(r) == Below(r, {m \in Models : stamp[r][m] # "none"})

\* Everything below the hot root, stamped or not.
Owned(r) == Below(r, Models)

\* What the relays hold on the filesystem of rank r's hot root.
Staging(r) == IF r = Controller /\ SharedTmp
              THEN Total(staged, Ranks) ELSE 0
Free(r) == Disk - other[r] - Below(r, Models) - Staging(r)

\* What the admission charges: nothing for the link of the home rank, the
\* manifest's total_bytes elsewhere.
Required(m, r) == IF r = Home[m] THEN 0 ELSE Size[m]

\* What rsync writes: the whole hub directory, whatever it contains.
Written(m, r) == IF r = Home[m] THEN 0 ELSE Hub[m]

\* Mutant: the space that is left now is compared, not what the copy leaves.
UnderReserveNow(m, r) == Free(r) < Reserve

\* The replaced instance is not credited before it is deleted.
UnderReserve(m, r) == Free(r) < Reserve + Required(m, r)

OverCap(m, r) == (Owned(r) - Bytes(r, m)) + Required(m, r) > Cap
Blocked(m, r) == OverCap(m, r) \/ UnderReserve(m, r)

-----------------------------------------------------------------------------
(* Preparation.                                                            *)

\* The controller's ready stamp makes the plan a skip, anything else a copy on
\* every rank.  The requirements are those of a copy.
Plan(m) ==
  /\ job = Idle
  /\ job' = [Idle EXCEPT !.pc = "observe", !.model = m, !.todo = Ranks,
                         !.skip = stamp[Controller][m] = "ready"]
  /\ UNCHANGED <<held, stamp, staged, other, faults>>

Observe(r) ==
  /\ job.pc = "observe" /\ r \in job.todo /\ \A q \in job.todo : r <= q
  /\ job' = [job EXCEPT !.todo = @ \ {r},
                        !.blocked = @ \/ Blocked(job.model, r),
                        !.seen[r] = other[r]]
  /\ UNCHANGED <<held, stamp, staged, other, faults>>

\* One blocked rank stops the preparation of all; a skip only verifies.
Admit ==
  /\ job.pc = "observe" /\ job.todo = {}
  /\ job' = IF job.blocked \/ job.skip THEN Idle
            ELSE [job EXCEPT !.pc = "copy", !.worker = [r \in Ranks |-> "clear"]]
  /\ UNCHANGED <<held, stamp, staged, other, faults>>

Relayed(m, r) == Controller \notin {r, Home[m]} /\ r # Home[m]

At(r, step) == job.pc = "copy" /\ job.worker[r] = step

\* The destination goes first; the stamp beside it stays.
WorkerClear(r) ==
  /\ At(r, "clear")
  /\ held' = [held EXCEPT ![r][job.model] = 0]
  /\ job' = [job EXCEPT !.worker[r] =
               IF Relayed(job.model, r) THEN "stage" ELSE "copy"]
  /\ UNCHANGED <<stamp, staged, other, faults>>

\* The relay pulls the whole hub before it pushes it.
WorkerStage(r) ==
  /\ At(r, "stage")
  /\ IF staged[r] < Hub[job.model]
       THEN /\ Free(Controller) > 0 \/ ~SharedTmp
            /\ staged' = [staged EXCEPT ![r] = @ + 1] /\ UNCHANGED job
       ELSE job' = [job EXCEPT !.worker[r] = "copy"] /\ UNCHANGED staged
  /\ UNCHANGED <<held, stamp, other, faults>>

WorkerCopy(r) ==
  LET m == job.model IN
  /\ At(r, "copy")
  /\ IF held[r][m] < Written(m, r)
       THEN /\ Free(r) > 0
            /\ held' = [held EXCEPT ![r][m] = @ + 1] /\ UNCHANGED <<staged, job>>
       ELSE /\ staged' = [staged EXCEPT ![r] = 0]
            /\ job' = [job EXCEPT !.worker[r] = "stamp"] /\ UNCHANGED held
  /\ UNCHANGED <<stamp, other, faults>>

\* The stamp, and the witness verification will put beside it.
WorkerStamp(r) ==
  /\ At(r, "stamp")
  /\ stamp[r][job.model] = "none" => Free(r) >= Meta
  /\ stamp' = [stamp EXCEPT ![r][job.model] = "verifying"]
  /\ job' = [job EXCEPT !.worker[r] = "done"]
  /\ UNCHANGED <<held, staged, other, faults>>

Full(r) ==
  \/ At(r, "copy") /\ held[r][job.model] < Written(job.model, r) /\ Free(r) = 0
  \/ At(r, "stamp") /\ stamp[r][job.model] = "none" /\ Free(r) < Meta
  \/ At(r, "stage") /\ SharedTmp /\ Free(Controller) = 0

\* A worker fails, for want of space or otherwise.  What it staged stays: its
\* subshell ends without the function's return.
WorkerFails(r) ==
  /\ job.pc = "copy" /\ job.worker[r] \notin {"done", "failed"}
  /\ \/ Full(r) /\ UNCHANGED faults
     \/ faults < MaxFaults /\ faults' = faults + 1
  /\ job' = [job EXCEPT !.worker[r] = "failed"]
  /\ UNCHANGED <<held, stamp, staged, other>>

\* Killed: the workers go on without it and nobody cleans up.
Killed ==
  /\ job # Idle /\ ~job.killed /\ faults < MaxFaults
  /\ faults' = faults + 1
  /\ job' = IF job.pc = "copy" THEN [job EXCEPT !.killed = TRUE] ELSE Idle
  /\ UNCHANGED <<held, stamp, staged, other>>

\* All ranks were copied and pass verification, or every rank is cleaned up.
Join ==
  LET failed == \E r \in Ranks : job.worker[r] = "failed" IN
  /\ job.pc = "copy"
  /\ \A r \in Ranks : job.worker[r] \in {"done", "failed"}
  /\ IF job.killed \/ ~failed
       THEN job' = Idle
       ELSE job' = [job EXCEPT !.pc = "cleanup", !.todo = Ranks]
  /\ stamp' = IF job.killed \/ failed THEN stamp
              ELSE [r \in Ranks |-> [stamp[r] EXCEPT ![job.model] = "ready"]]
  /\ UNCHANGED <<held, staged, other, faults>>

\* A removal that fails leaves some of the bytes, with or without the stamp.
Cleanup(r) ==
  LET m == job.model IN
  /\ job.pc = "cleanup" /\ r \in job.todo /\ \A q \in job.todo : r <= q
  /\ job' = IF job.todo = {r} THEN Idle ELSE [job EXCEPT !.todo = @ \ {r}]
  /\ \/ /\ held' = [held EXCEPT ![r][m] = 0]
        /\ stamp' = [stamp EXCEPT ![r][m] = "none"]
        /\ UNCHANGED faults
     \/ /\ faults < MaxFaults /\ faults' = faults + 1
        /\ \E left \in 0..held[r][m] : held' = [held EXCEPT ![r][m] = left]
        /\ \E s \in {"none", stamp[r][m]} : stamp' = [stamp EXCEPT ![r][m] = s]
  /\ UNCHANGED <<staged, other>>

\* purge-hot takes the same lock.
Purge(m) ==
  /\ job = Idle
  /\ held' = [r \in Ranks |-> [held[r] EXCEPT ![m] = 0]]
  /\ stamp' = [r \in Ranks |-> [stamp[r] EXCEPT ![m] = "none"]]
  /\ UNCHANGED <<staged, other, job, faults>>

\* A download into the durable library, or anything else on the filesystem.
Outside(r) ==
  /\ Total(other, Ranks) < MaxOutside /\ Free(r) > 0
  /\ other' = [other EXCEPT ![r] = @ + 1]
  /\ UNCHANGED <<held, stamp, staged, job, faults>>

Init ==
  /\ held = [r \in Ranks |-> [m \in Models |-> 0]]
  /\ stamp = [r \in Ranks |-> [m \in Models |-> "none"]]
  /\ staged = [r \in Ranks |-> 0]
  /\ other = [r \in Ranks |-> 0]
  /\ job = Idle
  /\ faults = 0

Worker(r) ==
  WorkerClear(r) \/ WorkerStage(r) \/ WorkerCopy(r) \/ WorkerStamp(r) \/ WorkerFails(r)

Next ==
  \/ \E m \in Models : Plan(m) \/ Purge(m)
  \/ Admit \/ Join \/ Killed
  \/ \E r \in Ranks : Observe(r) \/ Worker(r) \/ Cleanup(r) \/ Outside(r)

Spec == Init /\ [][Next]_vars

-----------------------------------------------------------------------------
(* Properties.                                                             *)

Beyond(a, b) == IF a > b THEN a - b ELSE 0

\* What m's instance on rank r holds beyond its charge, and the most a copy
\* can leave beyond it: what the hub has beyond the snapshot, and metadata.
Excess(m, r) == Beyond(Bytes(r, m), Required(m, r))
Uncharged(m, r) == Meta + Beyond(Written(m, r), Required(m, r))

\* No rank owns more hot bytes than the hard cap and the uncharged bytes of one
\* instance: residues of failed, killed and repeated preparations are counted,
\* and what several copies hold beyond their charges never adds up.
CapKept ==
  \A r \in Ranks :
    /\ \E m \in Models : Below(r, Models) <= Cap + Excess(m, r)
    /\ \A m \in Models : Excess(m, r) <= Uncharged(m, r)

\* What rank r would have free had nothing but hot copies been written since
\* its observation.
FreeButOthers(r) == Free(r) + (other[r] - job.seen[r])

\* While an admitted preparation writes, every rank keeps the reserve but for
\* what its copy wrote beyond the charge, what other programs wrote since that
\* rank was observed and what the relays stage on the controller.
ReserveKept ==
  job.pc = "copy" => \A r \in Ranks :
    FreeButOthers(r) + Staging(r) + Excess(job.model, r) >= Reserve

\* As docs/OPERATIONS.md has it: no rank exceeds its hard cap.
HardCapKept == \A r \in Ranks : Below(r, Models) <= Cap

\* As docs/OPERATIONS.md has it: a preparation preserves the reserve on every
\* selected rank.
ReserveKeptWhileRelaying ==
  job.pc = "copy" => \A r \in Ranks : FreeButOthers(r) >= Reserve
=============================================================================
