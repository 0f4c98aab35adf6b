------------------------- MODULE ColdStorage_proofs -------------------------
(***************************************************************************)
(* What holds of the cold roots for every set of roots, receipts and       *)
(* processes: complete jobs are recoverable, what is written is what was   *)
(* shown, and the only way to strand a recovery object is to move the      *)
(* configuration under a command that read the old one.                    *)
(***************************************************************************)
EXTENDS ColdStorage, FiniteSetTheorems, TLAPS

Publishing == {"spawn", "replica", "archive", "finish"}

\* A command of the record's shape; what a command past the lock works on.
CommandOK(c) ==
  /\ c = [pc |-> c.pc, kind |-> c.kind, env |-> c.env, x |-> c.x,
          requested |-> c.requested, plan |-> c.plan]
  /\ c.pc \in {"idle", "confirm", "lock", "locked"} \cup Publishing
  /\ c.kind \in {"none", "configure", "add", "archive", "backup"}
  /\ c.env \in Assignments /\ c.requested \in Assignments
  /\ c.x \in Receipts \cup {"none"}
  /\ c.pc \notin {"idle", "confirm"} => c.x \in Receipts
  /\ c.pc \in Publishing => c.env \in Roots

ProcOK == proc = [p \in Procs |-> proc[p]] /\ \A p \in Procs : CommandOK(proc[p])

\* What an archive worker has published so far.
Published ==
  \A p \in Procs :
    LET c == proc[p] IN
    /\ c.pc = "archive" => c.x \in store[c.env].replicas
    /\ c.pc = "finish" => c.x \in store[c.env].replicas \cap store[c.env].archives

\* The configuration has had no reason to differ from what anybody read.
Calm == Overridden = {} /\ outages = 0 /\ ~moved
Settled ==
  Calm =>
    /\ \A r \in Roots : root[r] = "ok"
    /\ \A p \in InFlight : proc[p].env = persisted
    /\ \A w \in launches : w.env = persisted

-----------------------------------------------------------------------------
(* Types.                                                                  *)

Data ==
  /\ persisted \in Assignments /\ override \in [Procs -> Assignments]
  /\ root \in [Roots -> {"ok", "gone", "unreadable"}]
  /\ store \in [Roots -> [replicas : SUBSET Receipts, archives : SUBSET Receipts]]
  /\ jobs \in [Receipts -> JobStates]
  /\ launches \subseteq [x : Receipts, env : Roots]
  /\ outages \in 0..MaxTrouble /\ kills \in 0..MaxTrouble /\ moved \in BOOLEAN

LEMMA DataIsTyped == Data /\ ProcOK => TypeOK
  BY DEF Data, ProcOK, CommandOK, TypeOK, Publishing

\* A process takes one well-shaped command; the others keep theirs.
LEMMA BecomesOK ==
  ASSUME ProcOK, NEW p \in Procs, NEW c, CommandOK(c), Becomes(p, c)
  PROVE  /\ ProcOK'
         /\ \A q \in Procs : proc'[q] = IF q = p THEN c ELSE proc[q]
<1>1. \A q \in Procs : proc'[q] = IF q = p THEN c ELSE proc[q]
  BY DEF ProcOK, Becomes
<1>2. proc' = [q \in Procs |-> proc'[q]]
  BY DEF ProcOK, Becomes
<1>3. ASSUME NEW q \in Procs PROVE CommandOK(proc[q])' 
  BY <1>1, <1>3 DEF ProcOK, CommandOK, Publishing, Assignments
<1> QED BY <1>1, <1>2, <1>3 DEF ProcOK

\* The same, for a command that only goes on.
LEMMA GoesOK ==
  ASSUME ProcOK, NEW p \in Procs, NEW pc \in {"locked"} \cup Publishing,
         proc[p].pc \notin {"idle", "confirm"},
         pc \in Publishing => proc[p].env \in Roots,
         Goes(p, pc)
  PROVE  /\ CommandOK([proc[p] EXCEPT !.pc = pc])
         /\ Becomes(p, [proc[p] EXCEPT !.pc = pc])
         /\ ProcOK'
<1>1. CommandOK([proc[p] EXCEPT !.pc = pc])
  BY DEF ProcOK, CommandOK, Publishing
<1>2. Becomes(p, [proc[p] EXCEPT !.pc = pc])
  BY DEF Goes, Becomes, ProcOK
<1> QED BY <1>1, <1>2, BecomesOK

LEMMA IdleOK == CommandOK(Idle)
  BY DEF CommandOK, Idle, Publishing, Assignments

\* A command that has just been asked for.
LEMMA PreviewOK ==
  ASSUME NEW requested \in Assignments, NEW plan, NEW c,
         c = [Idle EXCEPT !.pc = "confirm", !.kind = "configure",
                          !.requested = requested, !.plan = plan]
  PROVE  CommandOK(c)
<1>1. c = [pc |-> c.pc, kind |-> c.kind, env |-> c.env, x |-> c.x,
           requested |-> c.requested, plan |-> c.plan]
  BY DEF Idle
<1>2. /\ c.pc = "confirm" /\ c.kind = "configure" /\ c.env = "absent" /\ c.x = "none"
      /\ c.requested = requested
  BY DEF Idle
<1> QED BY <1>1, <1>2 DEF CommandOK, Publishing, Assignments

LEMMA StartOK ==
  ASSUME NEW kind \in {"add", "archive", "backup"}, NEW x \in Receipts,
         NEW env \in Assignments, NEW c,
         c = [Idle EXCEPT !.pc = "lock", !.kind = kind, !.x = x, !.env = env]
  PROVE  CommandOK(c)
<1>1. c = [pc |-> c.pc, kind |-> c.kind, env |-> c.env, x |-> c.x,
           requested |-> c.requested, plan |-> c.plan]
  BY DEF Idle
<1>2. /\ c.pc = "lock" /\ c.kind = kind /\ c.env = env /\ c.x = x
      /\ c.requested = "absent"
  BY DEF Idle
<1> QED BY <1>1, <1>2 DEF CommandOK, Publishing, Assignments

LEMMA ExitOK ==
  ASSUME ProcOK, NEW p \in Procs, Exit(p)
  PROVE  ProcOK' /\ \A q \in Procs : proc'[q] = IF q = p THEN Idle ELSE proc[q]
  BY IdleOK, BecomesOK DEF Exit

LEMMA EffectiveType ==
  ASSUME Data, NEW p \in Procs PROVE Effective(p) \in Assignments
  BY DEF Data, Effective, Assignments

LEMMA BoundKept ==
  ASSUME Data, Untroubled PROVE outages + 1 \in 0..MaxTrouble /\ kills + 1 \in 0..MaxTrouble
<1>1. Cardinality(Overridden) \in Nat
  BY ProcsAssumption, FS_Subset, FS_CardinalityType DEF Overridden
<1> QED BY <1>1, BoundsAssumption DEF Data, Untroubled

LEMMA TypeInit == Init => Data /\ ProcOK
<1> SUFFICES ASSUME Init PROVE Data /\ ProcOK OBVIOUS
<1>1. /\ persisted \in Assignments /\ override \in [Procs -> Assignments]
      /\ root \in [Roots -> {"ok", "gone", "unreadable"}]
      /\ jobs \in [Receipts -> JobStates]
  BY DEF Init, Assignments, JobStates
<1>2. store \in [Roots -> [replicas : SUBSET Receipts, archives : SUBSET Receipts]]
  BY DEF Init
<1>3. launches \subseteq [x : Receipts, env : Roots]
  BY DEF Init
<1>4. outages \in 0..MaxTrouble /\ kills \in 0..MaxTrouble /\ moved \in BOOLEAN
  <2>1. outages = 0 /\ kills = 0 /\ moved = FALSE BY DEF Init
  <2>2. 0 \in 0..MaxTrouble BY BoundsAssumption
  <2> QED BY <2>1, <2>2
<1>5. ProcOK
  BY IdleOK DEF Init, ProcOK
<1> QED BY <1>1, <1>2, <1>3, <1>4, <1>5 DEF Data

LEMMA TypeStep ==
  ASSUME Data, ProcOK, [Next]_vars PROVE Data' /\ ProcOK'
<1> USE DEF SetJob, JobStates, faults
<1>1. ASSUME NEW p \in Procs, NEW v \in Roots \cup {"empty"}, Preview(p, v)
      PROVE  Data' /\ ProcOK'
  <2>1. CommandOK([Idle EXCEPT !.pc = "confirm", !.kind = "configure",
                               !.requested = v, !.plan = Plan(p, v)])
    BY PreviewOK DEF Assignments
  <2>2. ProcOK'
    BY <1>1, <2>1, BecomesOK DEF Preview
  <2> QED BY <1>1, <2>2 DEF Preview, Data
<1>2. ASSUME NEW p \in Procs, Write(p) PROVE Data' /\ ProcOK'
  <2>1. ProcOK' BY <1>2, ExitOK DEF Write
  <2>2. proc[p].requested \in Assignments BY DEF ProcOK, CommandOK
  <2>3. persisted' \in Assignments /\ moved' \in BOOLEAN
    BY <1>2, <2>2 DEF Write, Assign, Data
  <2> QED BY <1>2, <2>1, <2>3 DEF Write, Data
<1>3. ASSUME NEW p \in Procs, NEW k \in {"add", "archive", "backup"}, NEW x \in Receipts,
             Start(p, k, x)
      PROVE  Data' /\ ProcOK'
  <2>1. CommandOK([Idle EXCEPT !.pc = "lock", !.kind = k, !.x = x, !.env = Effective(p)])
    BY EffectiveType, StartOK
  <2>2. ProcOK' BY <1>3, <2>1, BecomesOK DEF Start
  <2> QED BY <1>3, <2>2 DEF Start, Data
<1>4. ASSUME NEW p \in Procs, NEW w \in launches, WorkerStart(p, w)
      PROVE  Data' /\ ProcOK'
  <2>1. w.x \in Receipts /\ w.env \in Roots BY DEF Data
  <2>2. CommandOK([Idle EXCEPT !.pc = "lock", !.kind = "archive", !.x = w.x, !.env = w.env])
    BY <2>1, StartOK DEF Assignments
  <2>3. ProcOK' BY <1>4, <2>2, BecomesOK DEF WorkerStart
  <2> QED BY <1>4, <2>3 DEF WorkerStart, Data
<1>5. ASSUME NEW p \in Procs, LockShared(p) PROVE Data' /\ ProcOK'
  <2>1. ProcOK' BY <1>5, GoesOK DEF LockShared, Publishing
  <2> QED BY <1>5, <2>1 DEF LockShared, Data
<1>6. ASSUME NEW p \in Procs, Enqueue(p) PROVE Data' /\ ProcOK'
  <2>1. ProcOK' BY <1>6, GoesOK, ExitOK DEF Enqueue, Publishing
  <2>2. jobs' \in [Receipts -> JobStates] BY <1>6 DEF Enqueue, Data
  <2> QED BY <1>6, <2>1, <2>2 DEF Enqueue, Data
<1>7. ASSUME NEW p \in Procs, Spawn(p) PROVE Data' /\ ProcOK'
  <2>1. ProcOK' BY <1>7, ExitOK DEF Spawn
  <2>2. proc[p].x \in Receipts /\ proc[p].env \in Roots
    BY <1>7 DEF Spawn, ProcOK, CommandOK, Publishing
  <2> QED BY <1>7, <2>1, <2>2 DEF Spawn, Data
<1>8. ASSUME NEW p \in Procs, ArchiveBegin(p) PROVE Data' /\ ProcOK'
  <2>1. ProcOK' BY <1>8, GoesOK, ExitOK DEF ArchiveBegin, Publishing
  <2>2. jobs' \in [Receipts -> JobStates] BY <1>8 DEF ArchiveBegin, Data
  <2> QED BY <1>8, <2>1, <2>2 DEF ArchiveBegin, Data
<1>9. ASSUME NEW p \in Procs, BackupBegin(p) PROVE Data' /\ ProcOK'
  <2>1. ProcOK' BY <1>9, GoesOK, ExitOK DEF BackupBegin, Publishing
  <2> QED BY <1>9, <2>1 DEF BackupBegin, Data
<1>10. ASSUME NEW p \in Procs, PublishReplica(p) PROVE Data' /\ ProcOK'
  <2>1. proc[p].x \in Receipts /\ proc[p].env \in Roots
    BY <1>10 DEF PublishReplica, ProcOK, CommandOK, Publishing
  <2>2. ProcOK' BY <1>10, <2>1, GoesOK, ExitOK DEF PublishReplica, Publishing
  <2>3. store' \in [Roots -> [replicas : SUBSET Receipts, archives : SUBSET Receipts]]
    BY <1>10, <2>1 DEF PublishReplica, Data
  <2> QED BY <1>10, <2>2, <2>3 DEF PublishReplica, Data
<1>11. ASSUME NEW p \in Procs, PublishArchive(p) PROVE Data' /\ ProcOK'
  <2>1. proc[p].x \in Receipts /\ proc[p].env \in Roots
    BY <1>11 DEF PublishArchive, ProcOK, CommandOK, Publishing
  <2>2. ProcOK' BY <1>11, <2>1, GoesOK DEF PublishArchive, Publishing
  <2>3. store' \in [Roots -> [replicas : SUBSET Receipts, archives : SUBSET Receipts]]
    BY <1>11, <2>1 DEF PublishArchive, Data
  <2> QED BY <1>11, <2>2, <2>3 DEF PublishArchive, Data
<1>12. ASSUME NEW p \in Procs, ArchiveFinish(p) PROVE Data' /\ ProcOK'
  <2>1. ProcOK' BY <1>12, ExitOK DEF ArchiveFinish
  <2> QED BY <1>12, <2>1 DEF ArchiveFinish, Data
<1>13. ASSUME NEW p \in Procs, PublishFails(p) PROVE Data' /\ ProcOK'
  <2>1. ProcOK' BY <1>13, ExitOK DEF PublishFails
  <2>2. jobs' \in [Receipts -> JobStates] BY <1>13 DEF PublishFails, Data
  <2> QED BY <1>13, <2>1, <2>2 DEF PublishFails, Data
<1>14. ASSUME NEW p \in Procs, Kill(p) PROVE Data' /\ ProcOK'
  <2>1. ProcOK' BY <1>14, ExitOK DEF Kill
  <2> QED BY <1>14, <2>1, BoundKept DEF Kill, Data
<1>15. ASSUME NEW r \in Roots, NEW s \in {"gone", "unreadable"}, Outage(r, s)
       PROVE  Data' /\ ProcOK'
  <2>1. ProcOK' BY <1>15 DEF Outage, ProcOK, CommandOK
  <2> QED BY <1>15, <2>1, BoundKept DEF Outage, Data
<1>16. ASSUME NEW r \in Roots, Return(r) PROVE Data' /\ ProcOK'
  BY <1>16 DEF Return, Data, ProcOK, CommandOK
<1>17. CASE UNCHANGED vars
  BY <1>17 DEF vars, Data, ProcOK, CommandOK
<1> QED
  BY <1>1, <1>2, <1>3, <1>4, <1>5, <1>6, <1>7, <1>8, <1>9, <1>10, <1>11, <1>12,
     <1>13, <1>14, <1>15, <1>16, <1>17 DEF Next, Command

-----------------------------------------------------------------------------
(* What is recoverable.                                                    *)

\* Nothing is taken out of a root.
StoreGrows ==
  \A r \in Roots : /\ store[r].replicas \subseteq store'[r].replicas
                   /\ store[r].archives \subseteq store'[r].archives

LEMMA PublishedKept ==
  ASSUME Published, StoreGrows, ProcOK, NEW p \in Procs, NEW c,
         \A q \in Procs : proc'[q] = IF q = p THEN c ELSE proc[q],
         c.pc = "archive" => c.x \in store'[c.env].replicas,
         c.pc = "finish" => c.x \in store'[c.env].replicas \cap store'[c.env].archives
  PROVE  Published'
<1> SUFFICES ASSUME NEW q \in Procs
             PROVE  LET d == proc'[q] IN
                    /\ d.pc = "archive" => d.x \in store'[d.env].replicas
                    /\ d.pc = "finish" => d.x \in store'[d.env].replicas \cap store'[d.env].archives
  BY DEF Published
<1>1. CASE q = p BY <1>1
<1>2. CASE q # p
  <2>1. proc'[q] = proc[q] BY <1>2
  <2>2. proc[q].pc \in {"archive", "finish"} => proc[q].env \in Roots
    BY DEF ProcOK, CommandOK, Publishing
  <2> QED BY <2>1, <2>2 DEF Published, StoreGrows
<1> QED BY <1>1, <1>2

LEMMA RecoverableKept ==
  ASSUME CompleteJobRecoverable, StoreGrows,
         \A x \in Receipts : jobs'[x] = "complete" => jobs[x] = "complete"
  PROVE  CompleteJobRecoverable'
  BY DEF CompleteJobRecoverable, StoreGrows

LEMMA RecoverStep ==
  ASSUME Data, ProcOK, Published, CompleteJobRecoverable, [Next]_vars
  PROVE  Published' /\ CompleteJobRecoverable'
<1> USE DEF SetJob, faults
<1>0. ASSUME UNCHANGED store PROVE StoreGrows BY <1>0 DEF StoreGrows
<1>a. Idle.pc = "idle" BY DEF Idle
<1>1. ASSUME NEW p \in Procs, NEW v \in Roots \cup {"empty"}, Preview(p, v)
      PROVE  Published' /\ CompleteJobRecoverable'
  <2> DEFINE c == [Idle EXCEPT !.pc = "confirm", !.kind = "configure",
                               !.requested = v, !.plan = Plan(p, v)]
  <2>1. c.pc = "confirm" BY DEF Idle
  <2>2. CommandOK(c) BY PreviewOK DEF Assignments
  <2>3. Becomes(p, c) /\ UNCHANGED <<store, jobs>> BY <1>1 DEF Preview
  <2>4. \A q \in Procs : proc'[q] = IF q = p THEN c ELSE proc[q]
    BY <2>2, <2>3, BecomesOK
  <2> HIDE DEF c
  <2> QED BY <1>0, <2>1, <2>3, <2>4, PublishedKept, RecoverableKept
<1>2. ASSUME NEW p \in Procs, UNCHANGED <<store, jobs>>, Exit(p)
      PROVE  Published' /\ CompleteJobRecoverable'
  BY <1>0, <1>a, <1>2, ExitOK, PublishedKept, RecoverableKept
<1>3. ASSUME NEW p \in Procs, NEW k \in {"add", "archive", "backup"}, NEW x \in Receipts,
             Start(p, k, x)
      PROVE  Published' /\ CompleteJobRecoverable'
  <2> DEFINE c == [Idle EXCEPT !.pc = "lock", !.kind = k, !.x = x, !.env = Effective(p)]
  <2>1. c.pc = "lock" BY DEF Idle
  <2>2. CommandOK(c) BY EffectiveType, StartOK
  <2>3. Becomes(p, c) /\ UNCHANGED <<store, jobs>> BY <1>3 DEF Start
  <2>4. \A q \in Procs : proc'[q] = IF q = p THEN c ELSE proc[q]
    BY <2>2, <2>3, BecomesOK
  <2> HIDE DEF c
  <2> QED BY <1>0, <2>1, <2>3, <2>4, PublishedKept, RecoverableKept
<1>4. ASSUME NEW p \in Procs, NEW w \in launches, WorkerStart(p, w)
      PROVE  Published' /\ CompleteJobRecoverable'
  <2> DEFINE c == [Idle EXCEPT !.pc = "lock", !.kind = "archive", !.x = w.x, !.env = w.env]
  <2>0. w.x \in Receipts /\ w.env \in Assignments BY DEF Data, Assignments
  <2>1. c.pc = "lock" BY DEF Idle
  <2>2. CommandOK(c) BY <2>0, StartOK
  <2>3. Becomes(p, c) /\ UNCHANGED <<store, jobs>> BY <1>4 DEF WorkerStart
  <2>4. \A q \in Procs : proc'[q] = IF q = p THEN c ELSE proc[q]
    BY <2>2, <2>3, BecomesOK
  <2> HIDE DEF c
  <2> QED BY <1>0, <2>1, <2>3, <2>4, PublishedKept, RecoverableKept
\* A step that leaves the store alone and makes no job complete.
<1>5. ASSUME NEW p \in Procs, NEW pc \in {"locked", "spawn", "replica"},
             proc[p].pc \notin {"idle", "confirm"}, pc # "locked" => proc[p].env \in Roots,
             Goes(p, pc), UNCHANGED store,
             \A x \in Receipts : jobs'[x] = "complete" => jobs[x] = "complete"
      PROVE  Published' /\ CompleteJobRecoverable'
  <2> DEFINE c == [proc[p] EXCEPT !.pc = pc]
  <2>1. CommandOK(c) /\ Becomes(p, c) BY <1>5, GoesOK DEF Publishing
  <2>2. c.pc = pc BY DEF ProcOK, CommandOK
  <2>3. \A q \in Procs : proc'[q] = IF q = p THEN c ELSE proc[q]
    BY <2>1, BecomesOK
  <2> HIDE DEF c
  <2> QED BY <1>0, <1>5, <2>2, <2>3, PublishedKept, RecoverableKept
<1>6. ASSUME NEW p \in Procs, Exit(p), UNCHANGED store,
             \A x \in Receipts : jobs'[x] = "complete" => jobs[x] = "complete"
      PROVE  Published' /\ CompleteJobRecoverable'
  BY <1>0, <1>a, <1>6, ExitOK, PublishedKept, RecoverableKept
<1>7. ASSUME NEW p \in Procs, NEW x \in Receipts, NEW s \in JobStates \ {"complete"},
             SetJob(x, s)
      PROVE  \A y \in Receipts : jobs'[y] = "complete" => jobs[y] = "complete"
  BY <1>7 DEF Data
<1>8. ASSUME NEW p \in Procs, Enqueue(p) PROVE Published' /\ CompleteJobRecoverable'
  <2>1. proc[p].x \in Receipts BY <1>8 DEF Enqueue, ProcOK, CommandOK
  <2>2. PICK s \in {"pending", "unavailable"} : SetJob(proc[p].x, s)
    BY <1>8 DEF Enqueue
  <2>3. \A y \in Receipts : jobs'[y] = "complete" => jobs[y] = "complete"
    BY <1>7, <2>1, <2>2 DEF JobStates
  <2> QED BY <1>5, <1>6, <1>8, <2>3 DEF Enqueue
<1>9. ASSUME NEW p \in Procs, ArchiveBegin(p) PROVE Published' /\ CompleteJobRecoverable'
  <2>1. proc[p].x \in Receipts /\ proc[p].env \in Assignments
    BY <1>9 DEF ArchiveBegin, ProcOK, CommandOK
  <2>2. \A y \in Receipts : jobs'[y] = "complete" => jobs[y] = "complete"
    BY <1>7, <1>9, <2>1 DEF ArchiveBegin, JobStates
  <2> QED BY <1>5, <1>6, <1>9, <2>1, <2>2 DEF ArchiveBegin
<1>10. ASSUME NEW p \in Procs, PublishFails(p) PROVE Published' /\ CompleteJobRecoverable'
  <2>1. proc[p].x \in Receipts BY <1>10 DEF PublishFails, ProcOK, CommandOK
  <2>2. \A y \in Receipts : jobs'[y] = "complete" => jobs[y] = "complete"
    BY <1>7, <1>10, <2>1 DEF PublishFails, JobStates
  <2> QED BY <1>6, <1>10, <2>2 DEF PublishFails
<1>11. ASSUME NEW p \in Procs, PublishReplica(p) PROVE Published' /\ CompleteJobRecoverable'
  <2>1. proc[p].x \in Receipts /\ proc[p].env \in Roots
    BY <1>11 DEF PublishReplica, ProcOK, CommandOK, Publishing
  <2>2. StoreGrows /\ proc[p].x \in store'[proc[p].env].replicas /\ UNCHANGED jobs
    BY <1>11, <2>1 DEF PublishReplica, Data, StoreGrows
  <2>3. CASE Exit(p) BY <1>a, <2>2, <2>3, ExitOK, PublishedKept, RecoverableKept
  <2>4. CASE Goes(p, "archive")
    <3> DEFINE c == [proc[p] EXCEPT !.pc = "archive"]
    <3>1. CommandOK(c) /\ Becomes(p, c) BY <1>11, <2>1, <2>4, GoesOK DEF Publishing, PublishReplica
    <3>2. c.pc = "archive" /\ c.x = proc[p].x /\ c.env = proc[p].env BY DEF ProcOK, CommandOK
    <3>3. \A q \in Procs : proc'[q] = IF q = p THEN c ELSE proc[q]
      BY <3>1, BecomesOK
    <3> HIDE DEF c
    <3> QED BY <2>2, <3>2, <3>3, PublishedKept, RecoverableKept
  <2> QED BY <1>11, <2>3, <2>4 DEF PublishReplica
<1>12. ASSUME NEW p \in Procs, PublishArchive(p) PROVE Published' /\ CompleteJobRecoverable'
  <2>1. proc[p].x \in Receipts /\ proc[p].env \in Roots
    BY <1>12 DEF PublishArchive, ProcOK, CommandOK, Publishing
  <2>2. StoreGrows /\ proc[p].x \in store'[proc[p].env].archives /\ UNCHANGED jobs
    BY <1>12, <2>1 DEF PublishArchive, Data, StoreGrows
  <2>3. proc[p].x \in store'[proc[p].env].replicas
    BY <1>12, <2>1, <2>2 DEF PublishArchive, Published, StoreGrows
  <2> DEFINE c == [proc[p] EXCEPT !.pc = "finish"]
  <2>4. CommandOK(c) /\ Becomes(p, c) BY <1>12, <2>1, GoesOK DEF Publishing, PublishArchive
  <2>5. c.pc = "finish" /\ c.x = proc[p].x /\ c.env = proc[p].env BY DEF ProcOK, CommandOK
  <2>6. \A q \in Procs : proc'[q] = IF q = p THEN c ELSE proc[q]
    BY <2>4, BecomesOK
  <2> HIDE DEF c
  <2> QED BY <2>2, <2>3, <2>5, <2>6, PublishedKept, RecoverableKept
<1>13. ASSUME NEW p \in Procs, ArchiveFinish(p) PROVE Published' /\ CompleteJobRecoverable'
  <2>1. proc[p].x \in Receipts /\ proc[p].env \in Roots
    BY <1>13 DEF ArchiveFinish, ProcOK, CommandOK, Publishing
  <2>2. proc[p].x \in store[proc[p].env].replicas /\ proc[p].x \in store[proc[p].env].archives
    BY <1>13 DEF ArchiveFinish, Published
  <2>3. UNCHANGED store /\ Exit(p) BY <1>13 DEF ArchiveFinish
  <2>4. Published' BY <1>0, <1>a, <2>3, ExitOK, PublishedKept
  <2>5. CompleteJobRecoverable'
    BY <1>13, <2>1, <2>2, <2>3 DEF ArchiveFinish, CompleteJobRecoverable, Data
  <2> QED BY <2>4, <2>5
<1>14. ASSUME UNCHANGED <<proc, store, jobs>> PROVE Published' /\ CompleteJobRecoverable'
  BY <1>14 DEF Published, CompleteJobRecoverable
<1>15. ASSUME NEW p \in Procs, Command(p) PROVE Published' /\ CompleteJobRecoverable'
  <2>1. CASE Write(p) BY <1>2, <2>1 DEF Write
  <2>2. CASE LockShared(p) BY <1>5, <2>2 DEF LockShared
  <2>3. CASE Spawn(p) BY <1>2, <2>3 DEF Spawn
  <2>4. CASE BackupBegin(p) BY <1>5, <1>6, <2>4 DEF BackupBegin
  <2>5. CASE Kill(p) BY <1>2, <2>5 DEF Kill
  <2> QED BY <1>1, <1>3, <1>4, <1>8, <1>9, <1>10, <1>11, <1>12, <1>13, <1>15,
             <2>1, <2>2, <2>3, <2>4, <2>5 DEF Command
<1> QED BY <1>14, <1>15 DEF Next, Outage, Return, vars

-----------------------------------------------------------------------------
(* What can be stranded.                                                   *)

Running(c) == c.pc \notin {"idle", "confirm"}

\* A step of a process that leaves the configuration and the roots alone, and
\* publishes, starts and goes on only under what it or a launch has read.
LEMMA CalmKept ==
  ASSUME Data, ProcOK, Settled, StrandedOnlyInFlight,
         UNCHANGED <<persisted, override, root, outages, moved>>,
         NEW p \in Procs, NEW c,
         \A q \in Procs : proc'[q] = IF q = p THEN c ELSE proc[q],
         Calm /\ Running(c) => c.env = persisted,
         Calm => \A w \in launches' : w.env = persisted,
         Calm => \A r \in Roots : r = persisted \/ store'[r] = store[r]
  PROVE  Settled' /\ StrandedOnlyInFlight'
<1>1. Calm' => Calm BY DEF Calm, Overridden
<1>2. ASSUME Calm, NEW r \in Roots PROVE root'[r] = "ok"
  BY <1>2 DEF Settled, Calm, Data
<1>3. ASSUME Calm, NEW q \in Procs, Running(proc'[q]) PROVE proc'[q].env = persisted
  <2>1. CASE q = p BY <1>3, <2>1
  <2>2. CASE q # p
    <3>1. proc'[q] = proc[q] BY <2>2
    <3>2. q \in InFlight BY <1>3, <3>1 DEF InFlight, Running
    <3> QED BY <1>3, <3>1, <3>2 DEF Settled
  <2> QED BY <2>1, <2>2
<1>4. Settled'
  BY <1>1, <1>2, <1>3 DEF Settled, InFlight, Running
<1>5. StrandedOnlyInFlight'
  BY <1>1 DEF StrandedOnlyInFlight, Calm
<1> QED BY <1>4, <1>5

\* The configuration changes with nothing in flight and nothing left behind.
LEMMA CalmWrite ==
  ASSUME Data, ProcOK, Settled, StrandedOnlyInFlight, NEW p \in Procs, Write(p),
         persisted' # persisted, Calm'
  PROVE  /\ InFlight = {} /\ launches = {}
         /\ \A r \in Roots : store[r].replicas \cup store[r].archives = {}
<1> DEFINE v == proc[p].requested
           plan == Plan(p, v)
<1>1. /\ plan.action = "set-new" /\ InFlight = {} /\ launches = {} /\ Calm
  BY DEF Write, Assign, Calm, Overridden, faults, Data
<1>2. v \in Assignments /\ persisted \in Assignments BY DEF ProcOK, CommandOK, Data
<1>3. Effective(p) = persisted
  BY <1>1 DEF Effective, Calm, Overridden
<1> DEFINE current == {persisted, Effective(p)}
           abandoned == {u \in current : u \in Roots /\ u # v}
           views == IF abandoned # {} THEN abandoned ELSE current
           objects == UNION {Seen(u) : u \in views}
           abandoning == abandoned # {} \/ (v = "empty" /\ persisted # "empty")
<1>4. v # persisted /\ ~(abandoning /\ Queued \cup objects # {})
  <2>1. plan.action = IF v = persisted THEN "keep"
                 ELSE IF \/ ~(\A u \in views : Readable(u))
                         \/ abandoning /\ Queued \cup objects # {}
                         \/ ~(v \in Roots => root[v] = "ok")
                      THEN "change-blocked" ELSE "set-new"
    BY DEF Plan
  <2> HIDE DEF abandoning, objects, views, plan
  <2> QED BY <1>1, <2>1
<1>5. CASE persisted \in Roots
  <2>1. abandoned = {persisted} BY <1>3, <1>4, <1>5
  <2>2. objects = Seen(persisted) BY <2>1
  <2>3. Seen(persisted) = {} BY <1>4, <2>1, <2>2
  <2>4. root[persisted] = "ok" BY <1>1, <1>5 DEF Settled
  <2>5. store[persisted].replicas \cup store[persisted].archives = {}
    BY <1>5, <2>3, <2>4 DEF Seen, Objects, Listed
  <2> QED BY <1>1, <2>5 DEF StrandedOnlyInFlight, Calm
<1>6. CASE persisted \notin Roots
  BY <1>1, <1>6 DEF StrandedOnlyInFlight, Calm
<1> QED BY <1>1, <1>5, <1>6

LEMMA SettledStep ==
  ASSUME Data, ProcOK, Settled, StrandedOnlyInFlight, [Next]_vars
  PROVE  Settled' /\ StrandedOnlyInFlight'
<1> USE DEF SetJob, faults
<1>0. Idle.pc = "idle" BY DEF Idle
<1>1. ASSUME NEW p \in Procs, NEW v \in Roots \cup {"empty"}, Preview(p, v)
      PROVE  Settled' /\ StrandedOnlyInFlight'
  <2> DEFINE c == [Idle EXCEPT !.pc = "confirm", !.kind = "configure",
                               !.requested = v, !.plan = Plan(p, v)]
  <2>1. c.pc = "confirm" BY DEF Idle
  <2>2. CommandOK(c) BY PreviewOK DEF Assignments
  <2>3. Becomes(p, c) /\ UNCHANGED <<persisted, faults, store, launches, moved>>
    BY <1>1 DEF Preview
  <2>4. \A q \in Procs : proc'[q] = IF q = p THEN c ELSE proc[q]
    BY <2>2, <2>3, BecomesOK
  <2>5. Calm => \A w \in launches' : w.env = persisted BY <2>3 DEF Settled
  <2> HIDE DEF c
  <2> QED BY <2>1, <2>3, <2>4, <2>5, CalmKept DEF Running
<1>2. ASSUME NEW p \in Procs, UNCHANGED <<persisted, faults, store, launches, moved>>, Exit(p)
      PROVE  Settled' /\ StrandedOnlyInFlight'
  <2>1. \A q \in Procs : proc'[q] = IF q = p THEN Idle ELSE proc[q] BY <1>2, ExitOK
  <2>2. Calm => \A w \in launches' : w.env = persisted BY <1>2 DEF Settled
  <2> QED BY <1>0, <1>2, <2>1, <2>2, CalmKept DEF Running
<1>3. ASSUME NEW p \in Procs, NEW k \in {"add", "archive", "backup"}, NEW x \in Receipts,
             Start(p, k, x)
      PROVE  Settled' /\ StrandedOnlyInFlight'
  <2> DEFINE c == [Idle EXCEPT !.pc = "lock", !.kind = k, !.x = x, !.env = Effective(p)]
  <2>1. c.env = Effective(p) BY DEF Idle
  <2>2. CommandOK(c) BY EffectiveType, StartOK
  <2>3. Becomes(p, c) /\ UNCHANGED <<persisted, faults, store, launches, moved>>
    BY <1>3 DEF Start
  <2>4. \A q \in Procs : proc'[q] = IF q = p THEN c ELSE proc[q]
    BY <2>2, <2>3, BecomesOK
  <2>5. Calm => Effective(p) = persisted BY DEF Calm, Overridden, Effective
  <2>6. Calm => \A w \in launches' : w.env = persisted BY <2>3 DEF Settled
  <2> HIDE DEF c
  <2> QED BY <2>1, <2>3, <2>4, <2>5, <2>6, CalmKept
<1>4. ASSUME NEW p \in Procs, NEW w \in launches, WorkerStart(p, w)
      PROVE  Settled' /\ StrandedOnlyInFlight'
  <2> DEFINE c == [Idle EXCEPT !.pc = "lock", !.kind = "archive", !.x = w.x, !.env = w.env]
  <2>0. w.x \in Receipts /\ w.env \in Assignments BY DEF Data, Assignments
  <2>1. c.env = w.env BY DEF Idle
  <2>2. CommandOK(c) BY <2>0, StartOK
  <2>3. /\ Becomes(p, c) /\ UNCHANGED <<persisted, faults, store, moved>>
        /\ launches' \subseteq launches
    BY <1>4 DEF WorkerStart
  <2>4. \A q \in Procs : proc'[q] = IF q = p THEN c ELSE proc[q]
    BY <2>2, <2>3, BecomesOK
  <2>5. Calm => \A u \in launches : u.env = persisted BY DEF Settled
  <2> HIDE DEF c
  <2> QED BY <2>1, <2>3, <2>4, <2>5, CalmKept
\* A command that goes on, publishing at most under the root it has read.
<1>5. ASSUME NEW p \in Procs, NEW pc \in {"locked"} \cup Publishing,
             proc[p].pc \notin {"idle", "confirm"}, pc # "locked" => proc[p].env \in Roots,
             Goes(p, pc), UNCHANGED <<persisted, faults, launches, moved>>,
             \A r \in Roots : r = proc[p].env \/ store'[r] = store[r]
      PROVE  Settled' /\ StrandedOnlyInFlight'
  <2> DEFINE c == [proc[p] EXCEPT !.pc = pc]
  <2>1. CommandOK(c) /\ Becomes(p, c) BY <1>5, GoesOK DEF Publishing
  <2>2. c.env = proc[p].env BY DEF ProcOK, CommandOK
  <2>3. \A q \in Procs : proc'[q] = IF q = p THEN c ELSE proc[q]
    BY <2>1, BecomesOK
  <2>4. Calm => proc[p].env = persisted BY <1>5 DEF Settled, InFlight
  <2>5. Calm => \A w \in launches' : w.env = persisted BY <1>5 DEF Settled
  <2> HIDE DEF c
  <2> QED BY <1>5, <2>2, <2>3, <2>4, <2>5, CalmKept
\* A command that ends, having published or launched under that root.
<1>6. ASSUME NEW p \in Procs, proc[p].pc \notin {"idle", "confirm"}, Exit(p),
             UNCHANGED <<persisted, faults, moved>>,
             \A w \in launches' : w \in launches \/ w.env = proc[p].env,
             \A r \in Roots : r = proc[p].env \/ store'[r] = store[r]
      PROVE  Settled' /\ StrandedOnlyInFlight'
  <2>1. \A q \in Procs : proc'[q] = IF q = p THEN Idle ELSE proc[q] BY <1>6, ExitOK
  <2>2. Calm => proc[p].env = persisted BY <1>6 DEF Settled, InFlight
  <2>3. Calm => \A w \in launches' : w.env = persisted BY <1>6, <2>2 DEF Settled
  <2> QED BY <1>0, <1>6, <2>1, <2>2, <2>3, CalmKept DEF Running
<1>7. ASSUME NEW p \in Procs, Write(p) PROVE Settled' /\ StrandedOnlyInFlight'
  <2>1. CASE persisted' = persisted
    <3>1. moved' = moved \/ moved' = TRUE BY <1>7 DEF Write, Assign, Data
    <3>2. CASE moved' = moved BY <1>2, <1>7, <2>1, <3>2 DEF Write
    <3>3. CASE moved' = TRUE BY <3>3 DEF Settled, StrandedOnlyInFlight, Calm
    <3> QED BY <3>1, <3>2, <3>3
  <2>2. CASE persisted' # persisted
    <3> SUFFICES ASSUME Calm' PROVE Settled' /\ StrandedOnlyInFlight'
      BY DEF Settled, StrandedOnlyInFlight, Calm
    <3>1. /\ InFlight = {} /\ launches = {}
          /\ \A r \in Roots : store[r].replicas \cup store[r].archives = {}
      BY <1>7, <2>2, CalmWrite
    <3>2. UNCHANGED <<faults, store, launches>> /\ Exit(p) BY <1>7 DEF Write
    <3>3. Calm BY <1>7, <3>2 DEF Write, Assign, Calm, Overridden, Data
    <3>4. \A q \in Procs : proc'[q] = IF q = p THEN Idle ELSE proc[q] BY <3>2, ExitOK
    <3>5. InFlight' = {} BY <1>0, <3>1, <3>4 DEF InFlight
    <3> QED BY <3>1, <3>2, <3>3, <3>5 DEF Settled, StrandedOnlyInFlight
  <2> QED BY <2>1, <2>2
<1>8. ASSUME NEW p \in Procs, PublishReplica(p) PROVE Settled' /\ StrandedOnlyInFlight'
  <2>1. proc[p].env \in Roots /\ proc[p].pc = "replica"
    BY <1>8 DEF PublishReplica, ProcOK, CommandOK, Publishing
  <2>2. \A r \in Roots : r = proc[p].env \/ store'[r] = store[r]
    BY <1>8 DEF PublishReplica, Data
  <2>3. UNCHANGED <<persisted, faults, launches, moved>> /\ (Exit(p) \/ Goes(p, "archive"))
    BY <1>8 DEF PublishReplica
  <2> QED BY <1>5, <1>6, <2>1, <2>2, <2>3 DEF Publishing
<1>9. ASSUME NEW p \in Procs, PublishArchive(p) PROVE Settled' /\ StrandedOnlyInFlight'
  <2>1. proc[p].env \in Roots /\ proc[p].pc = "archive"
    BY <1>9 DEF PublishArchive, ProcOK, CommandOK, Publishing
  <2>2. \A r \in Roots : r = proc[p].env \/ store'[r] = store[r]
    BY <1>9 DEF PublishArchive, Data
  <2>3. UNCHANGED <<persisted, faults, launches, moved>> /\ Goes(p, "finish")
    BY <1>9 DEF PublishArchive
  <2> QED BY <1>5, <2>1, <2>2, <2>3 DEF Publishing
<1>10. ASSUME NEW p \in Procs, Spawn(p) PROVE Settled' /\ StrandedOnlyInFlight'
  BY <1>6, <1>10 DEF Spawn
<1>11. ASSUME NEW p \in Procs,
              Enqueue(p) \/ ArchiveBegin(p) \/ BackupBegin(p) \/ LockShared(p)
       PROVE  Settled' /\ StrandedOnlyInFlight'
  <2>1. /\ proc[p].pc \in {"locked", "lock"} /\ UNCHANGED <<persisted, faults, store, launches, moved>>
        /\ \/ Exit(p) \/ Goes(p, "locked")
           \/ proc[p].env \in Roots /\ (Goes(p, "spawn") \/ Goes(p, "replica"))
    BY <1>11 DEF Enqueue, ArchiveBegin, BackupBegin, LockShared, ProcOK, CommandOK, Assignments
  <2> QED BY <1>2, <1>5, <2>1 DEF Publishing
<1>12. ASSUME NEW p \in Procs, ArchiveFinish(p) \/ PublishFails(p) \/ Kill(p)
       PROVE  Settled' /\ StrandedOnlyInFlight'
  BY <1>2, <1>12 DEF ArchiveFinish, PublishFails, Kill
<1>13. ASSUME NEW r \in Roots, NEW s \in {"gone", "unreadable"}, Outage(r, s)
       PROVE  Settled' /\ StrandedOnlyInFlight'
  <2>1. outages' # 0 BY <1>13 DEF Outage, Data
  <2> QED BY <2>1 DEF Settled, StrandedOnlyInFlight, Calm
<1>14. ASSUME NEW r \in Roots, Return(r) PROVE Settled' /\ StrandedOnlyInFlight'
  <2>1. Calm' => Calm BY <1>14 DEF Return, Calm, Overridden
  <2>2. ~Calm BY <1>14 DEF Return, Settled
  <2> QED BY <1>14, <2>1, <2>2 DEF Return, Settled, StrandedOnlyInFlight, Calm
<1>15. CASE UNCHANGED vars
  BY <1>15 DEF vars, Settled, StrandedOnlyInFlight, Calm, Overridden, InFlight
<1> QED
  BY <1>1, <1>3, <1>4, <1>7, <1>8, <1>9, <1>10, <1>11, <1>12, <1>13, <1>14, <1>15
     DEF Next, Command

-----------------------------------------------------------------------------
(* Theorems.                                                               *)

LEMMA Invariant == Spec => [](Data /\ ProcOK /\ Published /\ Settled
                              /\ CompleteJobRecoverable /\ StrandedOnlyInFlight)
<1> DEFINE I == Data /\ ProcOK /\ Published /\ Settled
                /\ CompleteJobRecoverable /\ StrandedOnlyInFlight
<1>1. ASSUME Init PROVE I
  <2>1. Data /\ ProcOK BY <1>1, TypeInit
  <2>2. proc = [p \in Procs |-> Idle] /\ Idle.pc = "idle" BY <1>1 DEF Init, Idle
  <2>3. root = [r \in Roots |-> "ok"] /\ launches = {} /\ jobs = [x \in Receipts |-> "none"]
    BY <1>1 DEF Init
  <2>4. store = [r \in Roots |-> [replicas |-> {}, archives |-> {}]] BY <1>1 DEF Init
  <2>5. Published BY <2>2 DEF Published
  <2>6. Settled BY <2>2, <2>3 DEF Settled, InFlight
  <2>7. CompleteJobRecoverable BY <2>3 DEF CompleteJobRecoverable
  <2>8. StrandedOnlyInFlight BY <2>4 DEF StrandedOnlyInFlight
  <2> QED BY <2>1, <2>5, <2>6, <2>7, <2>8
<1>2. I /\ [Next]_vars => I'
  BY TypeStep, RecoverStep, SettledStep
<1> QED BY <1>1, <1>2, PTL DEF Spec

\* Every variable keeps its type, and whoever is past the lock has a root.
THEOREM TypeCorrect == Spec => []TypeOK
  BY Invariant, DataIsTyped, PTL

\* A complete job's receipt replica and archive are under one root, whatever
\* workers, requeues, kills and outages happened (publish_verified_recovery_set).
THEOREM Recoverable == Spec => []CompleteJobRecoverable
  BY Invariant, PTL

\* In a history without overrides and outages the guard of the writer leaves
\* one way to strand a recovery object: the configuration was changed while a
\* command that had read the old root was still to run.  Of overrides and
\* outages, which strand objects by themselves, nothing is said.
THEOREM Stranding == Spec => []StrandedOnlyInFlight
  BY Invariant, PTL

\* What write_dotenv_assignment writes is the plan that was shown, in the
\* state it was shown in; the comparison under the lock is enough for that.
THEOREM Shown == Spec => WrittenAsShown
<1>1. ASSUME [Next]_vars, persisted' # persisted
      PROVE  \E p \in Procs :
               LET shown == proc[p].plan IN
               /\ shown.action = "set-new" /\ shown.requested = persisted'
               /\ shown.persisted = persisted
               /\ \A v \in DOMAIN shown.health : shown.health[v] = root[v]
  <2>1. PICK p \in Procs : Write(p)
    BY <1>1 DEF Next, Command, Preview, Start, WorkerStart, LockShared, Enqueue, Spawn,
       ArchiveBegin, BackupBegin, PublishReplica, PublishArchive, ArchiveFinish,
       PublishFails, Kill, Outage, Return, vars
  <2> DEFINE v == proc[p].requested
             plan == Plan(p, v)
  <2>2. plan = proc[p].plan /\ plan.action = "set-new" /\ persisted' = v
    BY <1>1, <2>1 DEF Write, Assign
  <2>3. /\ plan.requested = v /\ plan.persisted = persisted
        /\ plan.health = [u \in ({persisted, Effective(p)} \cup {v}) \cap Roots |-> root[u]]
    BY DEF Plan
  <2> HIDE DEF plan
  <2> QED BY <2>2, <2>3
<1> QED BY <1>1, PTL DEF Spec, WrittenAsShown
=============================================================================
