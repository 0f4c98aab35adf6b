---------------------------- MODULE HomeLibrary ----------------------------
(***************************************************************************)
(* The durable-home library of scripts/model-library.sh for one            *)
(* model@revision: the home trees on the ranks, the immutable download     *)
(* receipts, the one current-home attachment (occupancy), the catalog, the *)
(* receipt-indexed cold archive with its jobs, and the hot views and       *)
(* services that depend on a home.                                         *)
(*                                                                         *)
(* The commands run as processes (Ops) under two reader/writer file locks; *)
(* the archive workers run beside them under a per-receipt job lock only.  *)
(* The environment may disturb the trees, the archive or the controller,   *)
(* and may abort any command between two of its steps.                     *)
(*                                                                         *)
(* All receipts of one revision are content-compatible: the stores refuse  *)
(* another one.  So one manifest exists, and a tree's bytes are "good"     *)
(* (they match it), "bad" (a complete snapshot of other bytes) or          *)
(* "partial" (not a complete snapshot).                                    *)
(***************************************************************************)
EXTENDS Naturals, FiniteSets

CONSTANTS
  Ops,              \* processes an operator starts commands from
  Ranks,            \* confirmed topology ranks
  Controller,       \* the rank the controller runs on (rank 0)
  Receipts,         \* download-receipt identities
  Ids,              \* live directory identities (device, inode, ctime)
  SamePath,         \* TRUE when every rank keeps its hub under one path string
  Offered,          \* the commands this instance's operators start
  ColdAnswers,      \* how the cold root answers an enqueue in this instance
  Disturbances,     \* what the environment does in this instance
  MaxDisturbances   \* and how often, in all

ASSUME RanksAssumption == Controller \in Ranks /\ "none" \notin Ranks
ASSUME IdsAssumption == Ids \subseteq Nat \ {0}
ASSUME ReceiptsAssumption == Receipts \subseteq Nat \ {0}
ASSUME PathAssumption == SamePath \in BOOLEAN
ASSUME ColdAnswersAssumption == ColdAnswers \subseteq {"pending", "unavailable"}
ASSUME DisturbancesAssumption ==
  /\ Disturbances \subseteq {"appear", "vanish", "replace", "tamper",
                             "archive-rot", "controller-loss", "abort"}
  /\ MaxDisturbances \in Nat

VARIABLES
  tree,        \* tree[r]: the hub repository on rank r, or NoTree
  receipts,    \* receipts in the controller store
  attachment,  \* the current-home attachment document, or NoHome
  catalog,     \* NoCatalog or the class of each rank's tree when last scanned
  job,         \* job[c]: the cold-archive job file of receipt c
  replica,     \* receipts with a control-state replica under the cold root
  archive,     \* archive[c]: the published archive of receipt c
  worker,      \* worker[c]: the archive worker that holds c's job lock
  views,       \* views[r]: the retained hot view whose home is on rank r
  serving,     \* ranks a running service reads its weights from
  op,          \* op[p]: the command process p is running
  disturbed    \* disturbances so far

storeVars == <<receipts, attachment, catalog>>
coldVars == <<job, replica, archive, worker>>
userVars == <<views, serving>>
vars == <<tree, storeVars, coldVars, userVars, op, disturbed>>

-----------------------------------------------------------------------------
Contents == {"good", "bad", "partial"}
NoTree == [id |-> 0, content |-> "none"]
Trees == [id : Ids, content : Contents]

NoHome == [rank |-> "none", id |-> 0, rc |-> 0]
Homes == [rank : Ranks, id : Ids, rc : Receipts]

Classes == {"absent", "incomplete", "unbound", "occupancy"}
NoCatalog == [r \in Ranks |-> "unscanned"]

JobStates == {"missing", "pending", "running", "complete", "failed",
              "unavailable"}

ExclusiveKinds == {"add", "relocate", "remove", "restore"}
HotWriterKinds == {"prepare", "purge"}
HotKinds == HotWriterKinds \cup {"launch"}
Kinds == ExclusiveKinds \cup HotKinds \cup {"idle"}
ViewStates == {"none", "verifying", "ready"}
Steps == {"idle", "start", "download", "verify", "recheck", "receipt",
          "publish", "attach", "enqueue", "copy", "copying", "hash",
          "identity", "occupy", "retire", "reverify", "detach", "execute",
          "refresh"}
Acks == SUBSET {"last-home", "unarchived"}

(***************************************************************************)
(* A command's local state: its step, the rank it acts on, the rank it     *)
(* copies from, its receipt, the content it staged, hashed or inspected,   *)
(* the directory identity it recorded, its acknowledgement flags, whether  *)
(* its plan selected the occupancy and whether the plan counts it as the   *)
(* last durable home.                                                      *)
(***************************************************************************)
Commands ==
  [kind : Kinds, pc : Steps, rank : Ranks \cup {"none"},
   src : Ranks \cup {"none"}, rc : Receipts \cup {0},
   content : Contents \cup {"none"}, id : Ids \cup {0}, ack : Acks,
   occupancy : BOOLEAN, last : BOOLEAN]
Idle ==
  [kind |-> "idle", pc |-> "idle", rank |-> "none", src |-> "none",
   rc |-> 0, content |-> "none", id |-> 0, ack |-> {},
   occupancy |-> FALSE, last |-> FALSE]

WorkerSteps == {"idle", "start", "read", "copy", "replica", "archive",
                "complete"}
Workers == [pc : WorkerSteps, rank : Ranks \cup {"none"},
            content : Contents \cup {"none"}]
NoWorker == [pc |-> "idle", rank |-> "none", content |-> "none"]

At(p, kind, pc) == op[p].kind = kind /\ op[p].pc = pc
Finish(p) == op' = [op EXCEPT ![p] = Idle]
Goto(p, pc) == op' = [op EXCEPT ![p].pc = pc]

-----------------------------------------------------------------------------
(* The lifecycle lock and the hot lock.  Each is a flock held by an open   *)
(* descriptor for as long as its command runs, so who holds it is read off *)
(* the running commands; a waiter that times out changes nothing.          *)

\* Mutant: views and services come without the lifecycle lock.
LifecycleFreeUnshared(p, kind) ==
  \A q \in Ops \ {p} :
    kind \in ExclusiveKinds => op[q].kind \notin ExclusiveKinds

LifecycleFree(p, kind) ==
  \A q \in Ops \ {p} :
    op[q].kind # "idle" =>
      kind \notin ExclusiveKinds /\ op[q].kind \notin ExclusiveKinds

\* Mutant: no hot lock.
HotFreeUnlocked(p, kind) == p \in Ops /\ kind \in Kinds

HotFree(p, kind) ==
  \A q \in Ops \ {p} :
    (kind \in HotKinds /\ op[q].kind \in HotKinds) =>
      kind \notin HotWriterKinds /\ op[q].kind \notin HotWriterKinds

Begin(p, kind, first) ==
  /\ kind \in Offered
  /\ op[p] = Idle
  /\ LifecycleFree(p, kind)
  /\ HotFree(p, kind)
  /\ op' = [op EXCEPT ![p] = first]

\* A short command that takes the exclusive lock and ends in one step.
NobodyRuns == \A q \in Ops : op[q] = Idle

-----------------------------------------------------------------------------
(* What the commands read.                                                 *)

Absent(r) == tree[r] = NoTree
Complete(r) == tree[r].content \in {"good", "bad"}
SamePathString(r, s) == r = s \/ SamePath

\* The live inspection of a removable home finds a directory, else it stops;
\* links, foreign paths and other snapshots block it, and are left out.
Inspectable(r) == ~Absent(r)

\* Its class: absent trees are "unavailable".
LiveClass(r) ==
  IF Absent(r) THEN "unavailable"
  ELSE IF Complete(r) THEN "complete" ELSE "incomplete"

\* The catalog class of each tree, from the stores at the time of the scan.
MatchesAttachment(r) ==
  /\ attachment # NoHome
  /\ attachment.rank = r
  /\ attachment.id = tree[r].id

Classified ==
  [r \in Ranks |->
     CASE Absent(r) -> "absent"
       [] ~Absent(r) /\ ~Complete(r) -> "incomplete"
       [] ~Absent(r) /\ Complete(r) /\ MatchesAttachment(r) -> "occupancy"
       [] OTHER -> "unbound"]

\* Refresh fails, and keeps the old catalog, on an attachment whose receipt is
\* missing while the revision has a tree to classify.
RefreshFails ==
  /\ \E r \in Ranks : ~Absent(r)
  /\ attachment # NoHome
  /\ attachment.rc \notin receipts

RefreshedCatalog == IF RefreshFails THEN catalog ELSE Classified

\* Of several compatible receipts, the store finds the smallest identity.
FirstReceipt(c) == c \in receipts /\ \A d \in receipts : c <= d

\* A directory identity no document or tree holds; the smallest one, since
\* identities are only ever compared for equality.
UsedIds ==
  {tree[r].id : r \in Ranks} \cup {attachment.id} \cup {op[p].id : p \in Ops}
Fresh(i) ==
  /\ i \notin UsedIds
  /\ \A j \in Ids : j < i => j \in UsedIds

\* The recovery set of receipt c: its replica and an archive that rehashes.
RecoverySet(c) == c \in replica /\ archive[c] = "good"

-----------------------------------------------------------------------------
(* The removal plan, shared by home check, home remove and the retirement  *)
(* of a relocated home's source.                                           *)

CatalogNames(r) == catalog[r] \in {"incomplete", "unbound", "occupancy"}

Others(r, classes) == \E s \in Ranks \ {r} : catalog[s] \in classes

LastDurableHome(r) ==
  IF catalog[r] = "incomplete"
    THEN /\ ~Others(r, {"occupancy", "incomplete"})
         /\ LiveClass(r) = "incomplete" => ~Others(r, {"occupancy", "unbound"})
    ELSE /\ catalog[r] = "occupancy"
         /\ LiveClass(r) = "incomplete" => ~Others(r, {"occupancy", "unbound"})

\* Mutant: trust the catalog's class and do not look for an attachment.
CurrentHomeAttachedBlocksNever(r) == r \notin Ranks

CurrentHomeAttachedBlocks(r) ==
  /\ catalog[r] # "occupancy"
  /\ attachment # NoHome
  /\ SamePathString(attachment.rank, r)

\* The receipt whose recovery set must exist: the attached one, otherwise the
\* store's first, or 0 when the store is empty.
LastOccupancyReceipt(c) ==
  \/ receipts = {} /\ c = 0
  \/ receipts # {} /\ attachment # NoHome /\ c = attachment.rc
  \/ attachment = NoHome /\ FirstReceipt(c)

UnarchivedBlocks(r, c, ack) ==
  /\ LastDurableHome(r)
  /\ LiveClass(r) # "incomplete"
  /\ c # 0
  /\ "unarchived" \notin ack
  /\ ~(c \in receipts /\ RecoverySet(c))

\* A stamp below the hot root names this home; a managed container of the
\* model runs on its node or owns its weights.
HotReference(r) == views[r] # "none"
ContainerReference(r) == r \in serving

\* The operator acknowledges what the removal gives up.
Acknowledged(r, c, ack) ==
  /\ LastDurableHome(r) => "last-home" \in ack
  /\ ~UnarchivedBlocks(r, c, ack)

RemovalEligible(r, c, ack) ==
  /\ CatalogNames(r)
  /\ Inspectable(r)
  /\ LastOccupancyReceipt(c)
  /\ ~CurrentHomeAttachedBlocks(r)
  /\ ~HotReference(r)
  /\ ~ContainerReference(r)
  /\ Acknowledged(r, c, ack)

\* Mutant: compare the class and not the directory identity.
SameFingerprintClassOnly(p) ==
  LiveClass(op[p].rank) =
    (IF op[p].content = "partial" THEN "incomplete" ELSE "complete")

\* Directory identities and class, hashed into one value.
Fingerprint(r) == <<tree[r].id, LiveClass(r)>>

\* The inspected tree is still the one the plan fingerprinted.
SameFingerprint(p) ==
  Fingerprint(op[p].rank) =
    <<op[p].id, IF op[p].content = "partial" THEN "incomplete" ELSE "complete">>

-----------------------------------------------------------------------------
(* home add: download into private staging, verify, recheck that no rank   *)
(* holds the repository, write the receipt, publish without replacement,   *)
(* attach, queue the cold archive.  The staging directory is made by       *)
(* mkdtemp, so no other command can reach it: it is op[p].content.         *)

AddPlan(p) ==
  /\ \A r \in Ranks : Absent(r)
  /\ \E r \in Ranks :
       Begin(p, "add", [Idle EXCEPT !.kind = "add", !.pc = "download",
                                    !.rank = r])
  /\ UNCHANGED <<tree, storeVars, coldVars, userVars, disturbed>>

AddDownload(p) ==
  /\ At(p, "add", "download")
  /\ \E c \in Contents :
       op' = [op EXCEPT ![p].pc = "verify", ![p].content = c]
  /\ UNCHANGED <<tree, storeVars, coldVars, userVars, disturbed>>

\* Hash the staged blobs, compare with the upstream inventory and manifest.
AddVerify(p) ==
  /\ At(p, "add", "verify")
  /\ IF op[p].content = "good" THEN Goto(p, "recheck") ELSE Finish(p)
  /\ UNCHANGED <<tree, storeVars, coldVars, userVars, disturbed>>

\* Every confirmed rank must still be without the repository.
Recheck(p, kind, next) ==
  /\ At(p, kind, "recheck")
  /\ IF \A r \in Ranks : Absent(r) THEN Goto(p, next) ELSE Finish(p)
  /\ UNCHANGED <<tree, storeVars, coldVars, userVars, disturbed>>

AddRecheck(p) == Recheck(p, "add", "receipt")

AddReceipt(p) ==
  /\ At(p, "add", "receipt")
  /\ \E c \in Receipts :
       /\ receipts' = receipts \cup {c}
       /\ op' = [op EXCEPT ![p].pc = "publish", ![p].rc = c]
  /\ UNCHANGED <<tree, attachment, catalog, coldVars, userVars, disturbed>>

\* Rename staging into place; an existing target is never replaced.
Publish(p, kind, next) ==
  /\ At(p, kind, "publish")
  /\ LET r == op[p].rank IN
       IF Absent(r)
         THEN \E i \in Ids :
                /\ Fresh(i)
                /\ tree' = [tree EXCEPT ![r] = [id |-> i,
                                               content |-> op[p].content]]
                /\ op' = [op EXCEPT ![p].pc = next, ![p].id = i]
         ELSE Finish(p) /\ UNCHANGED tree
  /\ UNCHANGED <<storeVars, coldVars, userVars, disturbed>>

AddPublish(p) == Publish(p, "add", "attach")

\* The document replaces any earlier one: one occupancy per revision.
Attach(p, next) ==
  /\ attachment' = [rank |-> op[p].rank, id |-> op[p].id, rc |-> op[p].rc]
  /\ op' = next
  /\ UNCHANGED <<tree, receipts, catalog, coldVars, userVars, disturbed>>

AddAttach(p) ==
  /\ At(p, "add", "attach")
  /\ Attach(p, [op EXCEPT ![p].pc = "enqueue"])

\* Queue the archive job, overwriting any earlier one, and start a worker
\* unless the cold root is unavailable or a worker holds the job lock.
AddEnqueue(p) ==
  /\ At(p, "add", "enqueue")
  /\ LET c == op[p].rc IN
       \E state \in ColdAnswers :
         /\ job' = [job EXCEPT ![c] = state]
         /\ IF state = "pending" /\ worker[c] = NoWorker
              THEN worker' = [worker EXCEPT ![c].pc = "start"]
              ELSE UNCHANGED worker
  /\ Finish(p)
  /\ UNCHANGED <<tree, storeVars, replica, archive, userVars, disturbed>>

HomeAdd(p) ==
  \/ AddPlan(p) \/ AddDownload(p) \/ AddVerify(p) \/ AddRecheck(p)
  \/ AddReceipt(p) \/ AddPublish(p) \/ AddAttach(p) \/ AddEnqueue(p)

-----------------------------------------------------------------------------
(* home relocate: occupy the destination's tree in place, or copy it there *)
(* from the current home; hash it; read its directory identity; occupy;    *)
(* then try to retire the source.                                          *)

RelocatePlan(p) ==
  /\ \E s \in Ranks : CatalogNames(s)
  /\ \E r \in Ranks, c \in Receipts :
       /\ FirstReceipt(c)
       /\ \/ ~Absent(r)
          \/ attachment # NoHome /\ attachment.rank # r
       /\ Begin(p, "relocate",
                [Idle EXCEPT !.kind = "relocate", !.rank = r, !.rc = c,
                             !.src = attachment.rank,
                             !.pc = IF Absent(r) THEN "copy" ELSE "hash"])
  /\ UNCHANGED <<tree, storeVars, coldVars, userVars, disturbed>>

\* copy_hub_to_rank removes whatever is at the destination, then makes it anew.
RelocateCopy(p) ==
  /\ At(p, "relocate", "copy")
  /\ \E i \in Ids :
       /\ Fresh(i)
       /\ tree' = [tree EXCEPT ![op[p].rank] = [id |-> i,
                                                content |-> "partial"]]
  /\ Goto(p, "copying")
  /\ UNCHANGED <<storeVars, coldVars, userVars, disturbed>>

RelocateCopied(p) ==
  /\ At(p, "relocate", "copying")
  /\ LET r == op[p].rank  s == op[p].src IN
       IF Absent(r) \/ Absent(s)
         THEN Finish(p) /\ UNCHANGED tree
         ELSE /\ tree' = [tree EXCEPT ![r].content = tree[s].content]
              /\ Goto(p, "hash")
  /\ UNCHANGED <<storeVars, coldVars, userVars, disturbed>>

\* inspect-snapshot-blob-identities fails on a snapshot that is not complete.
RelocateHash(p) ==
  /\ At(p, "relocate", "hash")
  /\ IF Complete(op[p].rank)
       THEN op' = [op EXCEPT ![p].pc = "identity",
                             ![p].content = tree[op[p].rank].content]
       ELSE Finish(p)
  /\ UNCHANGED <<tree, storeVars, coldVars, userVars, disturbed>>

RelocateIdentity(p) ==
  /\ At(p, "relocate", "identity")
  /\ IF Absent(op[p].rank)
       THEN Finish(p)
       ELSE op' = [op EXCEPT ![p].pc = "occupy", ![p].id = tree[op[p].rank].id]
  /\ UNCHANGED <<tree, storeVars, coldVars, userVars, disturbed>>

\* The hashed manifest must be the receipt's; then the document is replaced.
\* The source is retired only when there was one and its path string differs.
RelocateOccupy(p) ==
  /\ At(p, "relocate", "occupy")
  /\ LET retire == op[p].src # "none" /\ ~SamePathString(op[p].src, op[p].rank)
     IN IF op[p].content = "good"
          THEN Attach(p, [op EXCEPT ![p] =
                            IF retire THEN [op[p] EXCEPT !.pc = "retire"]
                                      ELSE Idle])
          ELSE /\ Finish(p)
               /\ UNCHANGED <<tree, storeVars, coldVars, userVars, disturbed>>

\* Plan the source's removal without any acknowledgement.
RelocateRetire(p) ==
  /\ At(p, "relocate", "retire")
  /\ LET s == op[p].src IN
       \E c \in Receipts \cup {0} :
         /\ LastOccupancyReceipt(c)
         /\ IF RemovalEligible(s, c, {})
              THEN op' = [op EXCEPT ![p].pc = "execute", ![p].rank = s,
                                    ![p].content = tree[s].content,
                                    ![p].id = tree[s].id]
              ELSE Finish(p)
  /\ UNCHANGED <<tree, storeVars, coldVars, userVars, disturbed>>

\* execute_home_removal_plan: inspect again, rename away, delete.
Execute(p, next) ==
  /\ op[p].pc = "execute"
  /\ IF SameFingerprint(p)
       THEN /\ tree' = [tree EXCEPT ![op[p].rank] = NoTree]
            /\ op' = next
       ELSE Finish(p) /\ UNCHANGED tree
  /\ UNCHANGED <<storeVars, coldVars, userVars, disturbed>>

RelocateExecute(p) ==
  /\ At(p, "relocate", "execute")
  /\ Execute(p, [op EXCEPT ![p] = Idle])

HomeRelocate(p) ==
  \/ RelocatePlan(p) \/ RelocateCopy(p) \/ RelocateCopied(p)
  \/ RelocateHash(p) \/ RelocateIdentity(p) \/ RelocateOccupy(p)
  \/ RelocateRetire(p) \/ RelocateExecute(p)

-----------------------------------------------------------------------------
(* home remove: plan, verify the last home's archive again, detach, delete *)
(* the inspected tree, refresh the catalog.                                *)

RemovePlan(p) ==
  /\ \E r \in Ranks, c \in Receipts \cup {0}, ack \in Acks :
       /\ RemovalEligible(r, c, ack)
       /\ Begin(p, "remove",
                [Idle EXCEPT !.kind = "remove", !.pc = "reverify",
                             !.rank = r, !.rc = c, !.ack = ack,
                             !.content = tree[r].content, !.id = tree[r].id,
                             !.occupancy = (catalog[r] = "occupancy"),
                             !.last = LastDurableHome(r)])
  /\ UNCHANGED <<tree, storeVars, coldVars, userVars, disturbed>>

\* Mutant: the plan's word is enough.
ReverifyFailsNever(p) == p \notin Ops

ReverifyFails(p) ==
  /\ op[p].last
  /\ op[p].content # "partial"
  /\ "unarchived" \notin op[p].ack
  /\ \/ ~LastOccupancyReceipt(op[p].rc)
     \/ op[p].rc # 0 /\ ~RecoverySet(op[p].rc)

RemoveReverify(p) ==
  /\ At(p, "remove", "reverify")
  /\ IF ReverifyFails(p)
       THEN Finish(p)
       ELSE Goto(p, IF op[p].occupancy THEN "detach" ELSE "execute")
  /\ UNCHANGED <<tree, storeVars, coldVars, userVars, disturbed>>

\* Only an attachment that names this node and path is unlinked.
RemoveDetach(p) ==
  /\ At(p, "remove", "detach")
  /\ attachment' = IF attachment.rank = op[p].rank THEN NoHome ELSE attachment
  /\ Goto(p, "execute")
  /\ UNCHANGED <<tree, receipts, catalog, coldVars, userVars, disturbed>>

RemoveExecute(p) ==
  /\ At(p, "remove", "execute")
  /\ Execute(p, [op EXCEPT ![p].pc = "refresh"])

RemoveRefresh(p) ==
  /\ At(p, "remove", "refresh")
  /\ catalog' = RefreshedCatalog
  /\ Finish(p)
  /\ UNCHANGED <<tree, receipts, attachment, coldVars, userVars, disturbed>>

HomeRemove(p) ==
  \/ RemovePlan(p) \/ RemoveReverify(p) \/ RemoveDetach(p)
  \/ RemoveExecute(p) \/ RemoveRefresh(p)

-----------------------------------------------------------------------------
(* home restore: verify the recovery set, copy the archive into private    *)
(* staging, hash it, recheck, publish without replacement, occupy.         *)

RestoreAdmitted(r, c) ==
  /\ c \in receipts
  /\ RecoverySet(c)
  /\ attachment = NoHome
  /\ \A s \in Ranks : Absent(s)

RestorePlan(p) ==
  /\ \E r \in Ranks, c \in Receipts :
       /\ RestoreAdmitted(r, c)
       /\ Begin(p, "restore", [Idle EXCEPT !.kind = "restore", !.pc = "copy",
                                           !.rank = r, !.rc = c])
  /\ UNCHANGED <<tree, storeVars, coldVars, userVars, disturbed>>

RestoreCopy(p) ==
  /\ At(p, "restore", "copy")
  /\ op' = [op EXCEPT ![p].pc = "hash", ![p].content = archive[op[p].rc]]
  /\ UNCHANGED <<tree, storeVars, coldVars, userVars, disturbed>>

\* Mutant: the plan rehashed the archive, so its copy is not hashed.
RestoreHashSkipped(p) ==
  /\ At(p, "restore", "hash")
  /\ Goto(p, "recheck")
  /\ UNCHANGED <<tree, storeVars, coldVars, userVars, disturbed>>

RestoreHash(p) ==
  /\ At(p, "restore", "hash")
  /\ IF op[p].content = "good" THEN Goto(p, "recheck") ELSE Finish(p)
  /\ UNCHANGED <<tree, storeVars, coldVars, userVars, disturbed>>

RestoreRecheck(p) == Recheck(p, "restore", "publish")

\* The identity comes from the descriptor that was renamed into place.
RestorePublish(p) == Publish(p, "restore", "occupy")

RestoreOccupy(p) ==
  /\ At(p, "restore", "occupy")
  /\ Attach(p, [op EXCEPT ![p] = Idle])

HomeRestore(p) ==
  \/ RestorePlan(p) \/ RestoreCopy(p) \/ RestoreHash(p)
  \/ RestoreRecheck(p) \/ RestorePublish(p) \/ RestoreOccupy(p)

-----------------------------------------------------------------------------
(* Short commands under the exclusive lock, each one step.                 *)

CatalogRefresh ==
  /\ NobodyRuns
  /\ catalog' = RefreshedCatalog
  /\ UNCHANGED <<tree, receipts, attachment, coldVars, userVars, op, disturbed>>

ReceiptBackup ==
  /\ "receipt" \in Offered
  /\ NobodyRuns
  /\ \E c \in receipts : replica' = replica \cup {c}
  /\ UNCHANGED <<tree, storeVars, job, archive, worker, userVars, op, disturbed>>

ReceiptRecover ==
  /\ "receipt" \in Offered
  /\ NobodyRuns
  /\ \E c \in replica : receipts' = receipts \cup {c}
  /\ UNCHANGED <<tree, attachment, catalog, coldVars, userVars, op, disturbed>>

HomeReceipt == ReceiptBackup \/ ReceiptRecover

-----------------------------------------------------------------------------
(* home archive run: no lifecycle lock, the job lock of its receipt.       *)

ArchiveRun(c) ==
  /\ "archive" \in Offered
  /\ c \in receipts
  /\ worker[c] = NoWorker
  /\ worker' = [worker EXCEPT ![c].pc = "start"]
  /\ UNCHANGED <<tree, storeVars, job, replica, archive, userVars, op, disturbed>>

\* Mutant: a job that is running is taken to be another worker's.
ArchiveStartUnlessRunning(c) ==
  /\ worker[c].pc = "start"
  /\ IF c \in receipts /\ job[c] # "running"
       THEN /\ job' = [job EXCEPT ![c] = "running"]
            /\ worker' = [worker EXCEPT ![c].pc = "read"]
       ELSE /\ worker' = [worker EXCEPT ![c] = NoWorker]
            /\ UNCHANGED job
  /\ UNCHANGED <<tree, storeVars, replica, archive, userVars, op, disturbed>>

\* A spawned worker dies at once when the receipt is gone from the store.
ArchiveStart(c) ==
  /\ worker[c].pc = "start"
  /\ IF c \in receipts
       THEN /\ job' = [job EXCEPT ![c] = "running"]
            /\ worker' = [worker EXCEPT ![c].pc = "read"]
       ELSE /\ worker' = [worker EXCEPT ![c] = NoWorker]
            /\ UNCHANGED job
  /\ UNCHANGED <<tree, storeVars, replica, archive, userVars, op, disturbed>>

ArchiveFails(c) ==
  /\ job' = [job EXCEPT ![c] = "failed"]
  /\ worker' = [worker EXCEPT ![c] = NoWorker]

\* Mutant: the worker exits on a missing home and leaves its job running.
ArchiveReadExits(c) ==
  /\ worker[c].pc = "read"
  /\ worker' = [worker EXCEPT ![c] =
                  IF attachment = NoHome
                    THEN NoWorker
                    ELSE [pc |-> "copy", rank |-> attachment.rank,
                          content |-> "none"]]
  /\ UNCHANGED <<tree, storeVars, job, replica, archive, userVars, op, disturbed>>

ArchiveRead(c) ==
  /\ worker[c].pc = "read"
  /\ IF attachment = NoHome
       THEN ArchiveFails(c)
       ELSE /\ worker' = [worker EXCEPT
                            ![c].rank = attachment.rank,
                            ![c].pc = IF attachment.rank = Controller
                                        THEN "replica" ELSE "copy"]
            /\ UNCHANGED job
  /\ UNCHANGED <<tree, storeVars, replica, archive, userVars, op, disturbed>>

\* A remote home is first copied to the controller.
ArchiveCopy(c) ==
  /\ worker[c].pc = "copy"
  /\ IF Absent(worker[c].rank)
       THEN ArchiveFails(c)
       ELSE /\ worker' = [worker EXCEPT
                            ![c].pc = "replica",
                            ![c].content = tree[worker[c].rank].content]
            /\ UNCHANGED job
  /\ UNCHANGED <<tree, storeVars, replica, archive, userVars, op, disturbed>>

\* Mutant: the archive is published without its receipt's replica.
ArchiveReplicaSkipped(c) ==
  /\ worker[c].pc = "replica"
  /\ worker' = [worker EXCEPT ![c].pc = "archive"]
  /\ UNCHANGED <<tree, storeVars, job, replica, archive, userVars, op, disturbed>>

ArchiveReplica(c) ==
  /\ worker[c].pc = "replica"
  /\ IF c \in receipts
       THEN /\ replica' = replica \cup {c}
            /\ worker' = [worker EXCEPT ![c].pc = "archive"]
            /\ UNCHANGED job
       ELSE ArchiveFails(c) /\ UNCHANGED replica
  /\ UNCHANGED <<tree, storeVars, archive, userVars, op, disturbed>>

\* An existing archive is rehashed and kept; a new one is copied to private
\* staging, hashed there and renamed into place.
ArchiveSource(c) ==
  IF worker[c].rank = Controller THEN tree[Controller].content
                                 ELSE worker[c].content

ArchivePublish(c) ==
  /\ worker[c].pc = "archive"
  /\ LET bytes == IF archive[c] = "none" THEN ArchiveSource(c) ELSE archive[c]
     IN IF bytes = "good"
          THEN /\ archive' = [archive EXCEPT ![c] = "good"]
               /\ worker' = [worker EXCEPT ![c].pc = "complete"]
               /\ UNCHANGED job
          ELSE ArchiveFails(c) /\ UNCHANGED archive
  /\ UNCHANGED <<tree, storeVars, replica, userVars, op, disturbed>>

ArchiveComplete(c) ==
  /\ worker[c].pc = "complete"
  /\ job' = [job EXCEPT ![c] = "complete"]
  /\ worker' = [worker EXCEPT ![c] = NoWorker]
  /\ UNCHANGED <<tree, storeVars, replica, archive, userVars, op, disturbed>>

HomeArchive(c) ==
  \/ ArchiveStart(c) \/ ArchiveRead(c) \/ ArchiveCopy(c)
  \/ ArchiveReplica(c) \/ ArchivePublish(c) \/ ArchiveComplete(c)

-----------------------------------------------------------------------------
(* The users of a home: prepare and purge-hot (shared lifecycle lock,      *)
(* exclusive hot lock), launch (both shared), stop (no lock).  The views   *)
(* and services are those of a released spec, whose prepare looks at every *)
(* target rank; views[r] is the view on the home's own rank, which links   *)
(* to the home instead of copying it.                                      *)

\* prepare resolves the catalog's occupancy and its live receipt.  A view that
\* verifies is left alone, and one that a container mounts is never replaced.
PreparePlan(p) ==
  /\ \E r \in Ranks :
       /\ catalog[r] = "occupancy"
       /\ Complete(r)
       /\ MatchesAttachment(r)
       /\ attachment.rc \in receipts
       /\ ~(views[r] = "ready" /\ tree[r].content = "good")
       /\ r \notin serving
       /\ Begin(p, "prepare", [Idle EXCEPT !.kind = "prepare", !.pc = "copy",
                                           !.rank = r])
  /\ UNCHANGED <<tree, storeVars, coldVars, userVars, disturbed>>

PrepareCopy(p) ==
  /\ At(p, "prepare", "copy")
  /\ views' = [views EXCEPT ![op[p].rank] = "verifying"]
  /\ Goto(p, "verify")
  /\ UNCHANGED <<tree, storeVars, coldVars, serving, disturbed>>

\* Full SHA-256 of the view, which on the home rank is the home itself; a
\* failure removes the view.
PrepareVerify(p) ==
  /\ At(p, "prepare", "verify")
  /\ views' = [views EXCEPT ![op[p].rank] =
                 IF tree[op[p].rank].content = "good" THEN "ready" ELSE "none"]
  /\ Finish(p)
  /\ UNCHANGED <<tree, storeVars, coldVars, serving, disturbed>>

PurgePlan(p) ==
  /\ \E r \in Ranks :
       /\ views[r] # "none"
       /\ r \notin serving
       /\ Begin(p, "purge", [Idle EXCEPT !.kind = "purge", !.pc = "execute",
                                         !.rank = r])
  /\ UNCHANGED <<tree, storeVars, coldVars, userVars, disturbed>>

PurgeExecute(p) ==
  /\ At(p, "purge", "execute")
  /\ views' = [views EXCEPT ![op[p].rank] = "none"]
  /\ Finish(p)
  /\ UNCHANGED <<tree, storeVars, coldVars, serving, disturbed>>

LaunchPlan(p) ==
  /\ \E r \in Ranks :
       /\ views[r] = "ready"
       /\ r \notin serving
       /\ Begin(p, "launch", [Idle EXCEPT !.kind = "launch", !.pc = "start",
                                          !.rank = r])
  /\ UNCHANGED <<tree, storeVars, coldVars, userVars, disturbed>>

LaunchStart(p) ==
  /\ At(p, "launch", "start")
  /\ serving' = serving \cup {op[p].rank}
  /\ Finish(p)
  /\ UNCHANGED <<tree, storeVars, coldVars, views, disturbed>>

HotUse(p) ==
  \/ PreparePlan(p) \/ PrepareCopy(p) \/ PrepareVerify(p)
  \/ PurgePlan(p) \/ PurgeExecute(p)
  \/ LaunchPlan(p) \/ LaunchStart(p)

Stop(r) ==
  /\ r \in serving
  /\ serving' = serving \ {r}
  /\ UNCHANGED <<tree, storeVars, coldVars, views, op, disturbed>>

-----------------------------------------------------------------------------
(* The environment.  An abort is a kill, or any failing call that ends the *)
(* command: both release its locks and lose its private state.             *)

Disturb(what) ==
  /\ what \in Disturbances
  /\ disturbed < MaxDisturbances
  /\ disturbed' = disturbed + 1

\* Someone puts another tree where there was none.
TreeAppears(r) ==
  /\ Disturb("appear")
  /\ Absent(r)
  /\ \E i \in Ids, c \in Contents :
       /\ Fresh(i)
       /\ tree' = [tree EXCEPT ![r] = [id |-> i, content |-> c]]
  /\ UNCHANGED <<storeVars, coldVars, userVars, op>>

TreeVanishes(r) ==
  /\ Disturb("vanish")
  /\ ~Absent(r)
  /\ tree' = [tree EXCEPT ![r] = NoTree]
  /\ UNCHANGED <<storeVars, coldVars, userVars, op>>

TreeReplaced(r) ==
  /\ Disturb("replace")
  /\ ~Absent(r)
  /\ \E i \in Ids, c \in Contents :
       /\ Fresh(i)
       /\ tree' = [tree EXCEPT ![r] = [id |-> i, content |-> c]]
  /\ UNCHANGED <<storeVars, coldVars, userVars, op>>

\* The bytes of a blob change and the directory keeps its identity.
TreeTampered(r) ==
  /\ Disturb("tamper")
  /\ tree[r].content = "good"
  /\ tree' = [tree EXCEPT ![r].content = "bad"]
  /\ UNCHANGED <<storeVars, coldVars, userVars, op>>

\* A medium that decays after the last rehash and before the detach that
\* relies on it is beyond any check, so that window is left out.
ArchiveRots(c) ==
  /\ Disturb("archive-rot")
  /\ archive[c] = "good"
  /\ \A p \in Ops : ~At(p, "remove", "detach")
  /\ archive' = [archive EXCEPT ![c] = "bad"]
  /\ UNCHANGED <<tree, storeVars, job, replica, worker, userVars, op>>

\* The controller loses its library directory and everything running on it.
ControllerLost ==
  /\ Disturb("controller-loss")
  /\ receipts' = {}
  /\ attachment' = NoHome
  /\ catalog' = NoCatalog
  /\ job' = [c \in Receipts |-> "missing"]
  /\ worker' = [c \in Receipts |-> NoWorker]
  /\ op' = [p \in Ops |-> Idle]
  /\ UNCHANGED <<tree, replica, archive, userVars>>

CommandAborts(p) ==
  /\ Disturb("abort")
  /\ op[p] # Idle
  /\ Finish(p)
  /\ UNCHANGED <<tree, storeVars, coldVars, userVars>>

WorkerKilled(c) ==
  /\ Disturb("abort")
  /\ worker[c] # NoWorker
  /\ worker' = [worker EXCEPT ![c] = NoWorker]
  /\ UNCHANGED <<tree, storeVars, job, replica, archive, userVars, op>>

TreeDisturbed(r) ==
  TreeAppears(r) \/ TreeVanishes(r) \/ TreeReplaced(r) \/ TreeTampered(r)

Environment ==
  \/ \E r \in Ranks : TreeDisturbed(r)
  \/ \E c \in Receipts : ArchiveRots(c) \/ WorkerKilled(c)
  \/ \E p \in Ops : CommandAborts(p)
  \/ ControllerLost

-----------------------------------------------------------------------------
Init ==
  /\ tree = [r \in Ranks |-> NoTree]
  /\ receipts = {}
  /\ attachment = NoHome
  /\ catalog = NoCatalog
  /\ job = [c \in Receipts |-> "missing"]
  /\ replica = {}
  /\ archive = [c \in Receipts |-> "none"]
  /\ worker = [c \in Receipts |-> NoWorker]
  /\ views = [r \in Ranks |-> "none"]
  /\ serving = {}
  /\ op = [p \in Ops |-> Idle]
  /\ disturbed = 0

Command(p) ==
  HomeAdd(p) \/ HomeRelocate(p) \/ HomeRemove(p) \/ HomeRestore(p) \/ HotUse(p)

Next ==
  \/ \E p \in Ops : Command(p)
  \/ \E c \in Receipts : ArchiveRun(c) \/ HomeArchive(c)
  \/ CatalogRefresh \/ HomeReceipt
  \/ \E r \in Ranks : Stop(r)
  \/ Environment

Spec == Init /\ [][Next]_vars

-----------------------------------------------------------------------------
TypeOK ==
  /\ tree \in [Ranks -> Trees \cup {NoTree}]
  /\ receipts \subseteq Receipts
  /\ attachment \in Homes \cup {NoHome}
  /\ catalog \in [Ranks -> Classes \cup {"unscanned"}]
  /\ job \in [Receipts -> JobStates]
  /\ replica \subseteq Receipts
  /\ archive \in [Receipts -> {"none", "good", "bad"}]
  /\ worker \in [Receipts -> Workers]
  /\ views \in [Ranks -> ViewStates]
  /\ serving \subseteq Ranks
  /\ op \in [Ops -> Commands]
  /\ disturbed \in Nat

(* The deletion of a home is decided several steps before it happens, from *)
(* a catalog that may be stale.                                            *)

ProgramStep == disturbed' = disturbed

\* Every attachment document names a receipt the controller store holds;
\* otherwise catalog refresh refuses to classify, and nothing can be served.
AttachmentHasReceipt == attachment # NoHome => attachment.rc \in receipts

\* No step of the program deletes or overwrites the tree that the current-home
\* attachment names, however stale the catalog its command planned from:
\* removal detaches first, and relocation never copies over the occupancy.
OccupiedHomeKept ==
  [][ /\ ProgramStep
      /\ attachment # NoHome
      /\ tree[attachment.rank].id = attachment.id
      => tree'[attachment.rank] = tree[attachment.rank] ]_vars

\* A tree goes only by the command that inspected exactly that directory, or
\* under a relocation into its path: publication never replaces a tree that
\* appeared meanwhile, and a removal never takes a tree that replaced its own.
OnlyInspectedTreesGo ==
  [][ \A r \in Ranks :
        ProgramStep /\ ~Absent(r) /\ tree'[r] # tree[r] =>
          \E p \in Ops :
            /\ op[p].rank = r
            /\ \/ op[p].pc = "execute" /\ op[p].id = tree[r].id
               \/ op[p].kind = "relocate" /\ op[p].pc \in {"copy", "copying"}
    ]_vars

\* While a hot view or a running service depends on a home, no command deletes
\* or rewrites that home, although views come and services start under locks
\* of their own while removals are planned.
UsedHomeKept ==
  [][ \A r \in Ranks :
        ProgramStep /\ ~Absent(r) /\ (views[r] # "none" \/ r \in serving) =>
          tree'[r] = tree[r] ]_vars

\* Removal gives up the occupancy of a complete home only when its attached
\* receipt has a replica and an archive that still rehashes, or the operator
\* acknowledged an unarchived last home: never on the word of a stale plan.
DetachKeepsRecovery ==
  [][ ProgramStep /\ attachment # NoHome /\ attachment' = NoHome =>
        \/ RecoverySet(attachment.rc)
        \/ \E p \in Ops :
             /\ At(p, "remove", "detach")
             /\ "unarchived" \in op[p].ack \/ op[p].content = "partial" ]_vars

\* Occupancy is granted only to the directory whose bytes matched the receipt:
\* whatever was downloaded, copied or restored, whatever tree was there before,
\* and though the tree may vanish before its attachment is written.
OccupancyVerified ==
  [][ /\ attachment' # attachment
      /\ attachment' # NoHome
      /\ tree'[attachment'.rank] # NoTree
      => tree'[attachment'.rank] = [id |-> attachment'.id, content |-> "good"]
    ]_vars

\* A running service always has its ready view: purge and launch exclude each
\* other between the check of one and the effect of the other.
ServingHasView == \A r \in serving : views[r] = "ready"

\* A job reported complete has a receipt replica and a published archive,
\* although jobs are requeued and workers killed at any step.
CompleteJobHasRecoverySet ==
  \A c \in Receipts :
    job[c] = "complete" => c \in replica /\ archive[c] # "none"

Unsettled(c) == job[c] \in {"pending", "running"}

\* A queued archive job is settled in the end, whatever happens to the home
\* meanwhile and although a second add may requeue it under a running worker;
\* only a disturbance may leave it without a worker.
PendingJobSettles ==
  \A c \in Receipts :
    Unsettled(c) ~> (~Unsettled(c) \/ (worker[c] = NoWorker /\ disturbed > 0))

\* A job whose worker was killed, running or still pending, settles when the
\* operator runs it again as long as it is not settled (home archive run).
RetriedJobSettles ==
  \A c \in Receipts :
    []<>(worker[c] # NoWorker \/ ~Unsettled(c)) => (Unsettled(c) ~> ~Unsettled(c))

\* Claim of decision 3 of docs/decisions/0011: the directory an occupancy names
\* is the one whose bytes were hashed.  home relocate reads the directory
\* identity after the hash, so a tree swapped in between is occupied unhashed.
OccupiedTreeWasHashed ==
  [][ /\ attachment' # attachment
      /\ attachment' # NoHome
      /\ tree'[attachment'.rank].id = attachment'.id
      => tree'[attachment'.rank].content = "good" ]_vars

\* Claim of decision 7 of docs/decisions/0011: a lost home with a verified
\* recovery set can be restored.  home restore refuses it while the lost home's
\* attachment document is still there, and no command removes that document.
LostHomeRestorable ==
  (\A r \in Ranks : Absent(r)) /\ NobodyRuns =>
    \A c \in receipts :
      RecoverySet(c) => \E r \in Ranks : RestoreAdmitted(r, c)

\* Claim of the same decision: a fresh download is for a model that has no
\* receipt and no archive.  home add never looks at either store.
AddOnlyWithoutRecoverySet ==
  [][ \A p \in Ops :
        op[p].kind # "add" /\ op'[p].kind = "add" =>
          ~\E c \in receipts : RecoverySet(c) ]_vars

\* Claim of the blocker's own detail text: it stops a removal because an
\* attachment still names this live directory.  It compares path strings only.
BlockerNamesLiveHome ==
  \A r \in Ranks :
    CatalogNames(r) /\ ~Absent(r) /\ CurrentHomeAttachedBlocks(r) =>
      attachment.rank = r

\* Workers run detached from the command that started them.
FairSpec == Spec /\ \A c \in Receipts : WF_vars(HomeArchive(c))

=============================================================================
