------------------------ MODULE HomeLibrary_proofs ------------------------
(***************************************************************************)
(* Theorems about HomeLibrary, for every set of processes, ranks, receipts *)
(* and disturbances: type correctness, the locks' exclusion, and every     *)
(* safety property its runs check.                                         *)
(*                                                                         *)
(* None of them is inductive.  CommandOK adds what every running command   *)
(* has established by the step it is at; it survives the other commands'   *)
(* steps because the locks exclude them (Locks).  On that invariant, IInv, *)
(* rest the smaller ones of the single properties: HotInv for services and *)
(* their views, RecoveryInv for the archive jobs, UseInv for used homes,   *)
(* DetachInv for detached ones, OccupyInv for verified ones.               *)
(***************************************************************************)
EXTENDS HomeLibrary, TLAPS

-----------------------------------------------------------------------------
(* The inductive invariant.                                                *)

\* What a command has established, against a receipt store and an attachment.
CommandOK(o, rcs, att) ==
  /\ o \in Commands
  /\ o.kind # "idle" => o.rank \in Ranks
  /\ o.kind \in {"relocate", "restore"} => o.rc \in rcs
  /\ o.kind = "add" /\ o.pc \in {"publish", "attach", "enqueue"} => o.rc \in rcs
  /\ o.kind \in {"add", "restore"} /\ o.pc \in {"recheck", "receipt", "publish"}
       => o.content = "good"
  /\ o.kind \in {"add", "relocate", "restore"} /\ o.pc \in {"attach", "occupy"}
       => o.id \in Ids
  /\ o.kind = "relocate" /\ o.pc \in {"copy", "copying"} =>
       o.src \in Ranks /\ att.rank # o.rank
  /\ o.kind = "relocate" /\ o.pc = "retire" =>
       o.src \in Ranks /\ att.rank = o.rank /\ o.src # o.rank
  /\ o.kind = "remove" /\ o.pc = "reverify" =>
       o.occupancy \/ att.rank # o.rank
  /\ o.kind \in {"remove", "relocate"} /\ o.pc = "execute" => att.rank # o.rank

\* A command with an exclusive lifecycle lock runs alone.
ExclusiveAlone ==
  \A p, q \in Ops :
    p # q /\ op[p].kind \in ExclusiveKinds => op[q].kind = "idle"

\* A command with the exclusive hot lock is the only user of hot state.
HotWriterAlone ==
  \A p, q \in Ops :
    p # q /\ op[p].kind \in HotWriterKinds => op[q].kind \notin HotKinds

Locks == ExclusiveAlone /\ HotWriterAlone

OpInv ==
  /\ op \in [Ops -> Commands]
  /\ \A p \in Ops : CommandOK(op[p], receipts, attachment)
  /\ Locks

StoresInv ==
  /\ tree \in [Ranks -> Trees \cup {NoTree}]
  /\ receipts \subseteq Receipts
  /\ attachment \in Homes \cup {NoHome}
  /\ AttachmentHasReceipt
  /\ catalog \in [Ranks -> Classes \cup {"unscanned"}]
  /\ views \in [Ranks -> ViewStates]
  /\ serving \subseteq Ranks
  /\ disturbed \in Nat

ColdInv ==
  /\ job \in [Receipts -> JobStates]
  /\ replica \subseteq Receipts
  /\ archive \in [Receipts -> {"none", "good", "bad"}]
  /\ worker \in [Receipts -> Workers]
  /\ \A c \in Receipts : worker[c].pc = "copy" => worker[c].rank \in Ranks

IInv == StoresInv /\ ColdInv /\ OpInv

-----------------------------------------------------------------------------
(* How a step of one command preserves OpInv.                              *)

\* A process without a command keeps every promise a command makes.
LEMMA IdleOK ==
  ASSUME NEW rcs, NEW att
  PROVE  CommandOK(Idle, rcs, att) /\ Idle.kind = "idle"
BY DEF CommandOK, Idle, Commands, Kinds, Steps, Acks

\* An idle record is in order whatever the stores hold.
LEMMA IdleKindOK ==
  ASSUME NEW o \in Commands, o.kind = "idle", NEW rcs, NEW att
  PROVE  CommandOK(o, rcs, att)
BY DEF CommandOK

\* Process p's command record becomes o; the documents change only under the
\* exclusive lock.
LEMMA CommandStep ==
  ASSUME OpInv, NEW p \in Ops, NEW o, op' = [op EXCEPT ![p] = o],
         CommandOK(o, receipts', attachment'),
         \/ o.kind \in {op[p].kind, "idle"}
         \/ LifecycleFree(p, o.kind) /\ HotFree(p, o.kind),
         \/ UNCHANGED <<receipts, attachment>>
         \/ op[p].kind \in ExclusiveKinds
  PROVE  OpInv'
<1>1. /\ op' \in [Ops -> Commands]
      /\ op'[p] = o
      /\ \A q \in Ops \ {p} : op'[q] = op[q]
  BY DEF OpInv, CommandOK
<1>2. ASSUME NEW q \in Ops
      PROVE  CommandOK(op'[q], receipts', attachment')
  <2>1. CASE q = p
    BY <2>1, <1>1
  <2>2. CASE q # p /\ UNCHANGED <<receipts, attachment>>
    BY <2>2, <1>1 DEF OpInv
  <2>3. CASE q # p /\ op[p].kind \in ExclusiveKinds
    <3>1. op[q] \in Commands /\ op[q].kind = "idle"
      BY <2>3 DEF OpInv, Locks, ExclusiveAlone
    <3> QED BY <2>3, <3>1, <1>1, IdleKindOK
  <2> QED BY <2>1, <2>2, <2>3
<1>3. ExclusiveAlone'
  BY <1>1 DEF OpInv, Locks, ExclusiveAlone, LifecycleFree, ExclusiveKinds
<1>4. HotWriterAlone'
  BY <1>1 DEF OpInv, Locks, HotWriterAlone, HotFree, HotKinds, HotWriterKinds
<1> QED BY <1>1, <1>2, <1>3, <1>4 DEF OpInv, Locks

\* A command that ends, and releases its locks, disturbs no other.
LEMMA FinishStep ==
  ASSUME OpInv, NEW p \in Ops, Finish(p), UNCHANGED <<receipts, attachment>>
  PROVE  OpInv'
<1>1. CommandOK(Idle, receipts', attachment') /\ Idle.kind = "idle"
  BY IdleOK
<1> QED BY <1>1, CommandStep DEF Finish

\* Goto changes the program counter alone.
LEMMA GotoStep ==
  ASSUME OpInv, NEW p \in Ops, NEW s, Goto(p, s),
         CommandOK([op[p] EXCEPT !.pc = s], receipts, attachment),
         UNCHANGED <<receipts, attachment>>
  PROVE  OpInv'
<1>1. [op[p] EXCEPT !.pc = s].kind = op[p].kind
  BY DEF OpInv, Commands
<1> QED BY <1>1, CommandStep DEF Goto

\* A command that begins holds the locks its kind asks for.
LEMMA BeginStep ==
  ASSUME OpInv, NEW p \in Ops, NEW kind, NEW first, Begin(p, kind, first),
         first.kind = kind, CommandOK(first, receipts, attachment),
         UNCHANGED <<receipts, attachment>>
  PROVE  OpInv'
BY CommandStep DEF Begin

\* What the commands hold depends on the two documents they read.
LEMMA OpStutter ==
  ASSUME OpInv, UNCHANGED <<op, receipts, attachment>>
  PROVE  OpInv'
BY DEF OpInv, Locks, ExclusiveAlone, HotWriterAlone

\* The step of a command that writes nothing but its own record.
LEMMA OwnStep ==
  ASSUME IInv, UNCHANGED <<tree, storeVars, coldVars, userVars, disturbed>>
  PROVE  StoresInv' /\ ColdInv'
BY DEF IInv, StoresInv, ColdInv, AttachmentHasReceipt, storeVars, coldVars,
       userVars

\* The recovery state is untouched.
LEMMA ColdStutter ==
  ASSUME IInv, UNCHANGED coldVars
  PROVE  ColdInv'
BY DEF IInv, ColdInv, coldVars

-----------------------------------------------------------------------------
(* home add and the sub-actions it shares with home restore.               *)

\* The last look at every rank before add and restore publish.
LEMMA RecheckInv ==
  ASSUME IInv, NEW p \in Ops, NEW kind \in {"add", "restore"},
         NEW next \in {"receipt", "publish"}, kind = "add" => next = "receipt",
         Recheck(p, kind, next)
  PROVE  IInv'
<1>1. UNCHANGED <<receipts, attachment>>
  BY DEF Recheck, storeVars
<1>2. ASSUME Goto(p, next) PROVE OpInv'
  <2>1. CommandOK([op[p] EXCEPT !.pc = next], receipts, attachment)
    BY DEF IInv, OpInv, CommandOK, Recheck, At, Commands, Steps
  <2> QED BY <1>1, <1>2, <2>1, GotoStep DEF IInv
<1>3. ASSUME Finish(p) PROVE OpInv'
  BY <1>1, <1>3, FinishStep DEF IInv
<1>4. OpInv'
  BY <1>2, <1>3 DEF Recheck
<1> QED BY <1>4, OwnStep DEF IInv, Recheck

\* Publication without replacement, shared by add and restore.
LEMMA PublishInv ==
  ASSUME IInv, NEW p \in Ops, NEW kind, NEW next,
         <<kind, next>> \in {<<"add", "attach">>, <<"restore", "occupy">>},
         Publish(p, kind, next)
  PROVE  IInv'
<1> DEFINE r == op[p].rank
<1>1. UNCHANGED <<receipts, attachment>> /\ UNCHANGED coldVars
  BY DEF Publish, storeVars
<1>2. r \in Ranks /\ op[p].content = "good"
  BY DEF IInv, OpInv, CommandOK, Publish, At
<1>3. ASSUME NEW i \in Ids,
             tree' = [tree EXCEPT ![r] = [id |-> i, content |-> op[p].content]],
             op' = [op EXCEPT ![p].pc = next, ![p].id = i]
      PROVE  IInv'
  <2> DEFINE o == [op[p] EXCEPT !.pc = next, !.id = i]
  <2>1. CommandOK(o, receipts, attachment)
    <3>1. op[p] \in Commands /\ op[p].kind = kind
      BY DEF IInv, OpInv, CommandOK, Publish, At
    <3>2. op[p].rc \in receipts
      BY DEF IInv, OpInv, CommandOK, Publish, At
    <3>3. next \in Steps /\ next \in {"attach", "occupy"}
      BY DEF Steps
    <3>4. /\ o \in Commands
          /\ o.kind = kind /\ o.pc = next /\ o.id = i
          /\ o.rank = r /\ o.rc = op[p].rc
      BY <3>1, <3>3 DEF Commands
    <3> QED BY <3>2, <3>3, <3>4, <1>2 DEF CommandOK
  <2>2. [op[p] EXCEPT !.pc = next, !.id = i].kind = op[p].kind
    BY DEF IInv, OpInv, Commands
  <2>3. OpInv'
    BY <1>1, <1>3, <2>1, <2>2, CommandStep DEF IInv
  <2>4. StoresInv'
    BY <1>2, <1>3 DEF IInv, StoresInv, Publish, storeVars, userVars, Trees,
       Contents, AttachmentHasReceipt
  <2> QED BY <1>1, <2>3, <2>4, ColdStutter DEF IInv
<1>4. CASE Finish(p) /\ UNCHANGED tree
  BY <1>1, <1>4, FinishStep, OwnStep DEF IInv, Publish
<1> QED BY <1>3, <1>4 DEF Publish

\* The document that add, relocate and restore write.
LEMMA AttachStores ==
  ASSUME IInv, NEW p \in Ops, NEW next, Attach(p, next),
         op[p].rank \in Ranks, op[p].id \in Ids, op[p].rc \in receipts
  PROVE  /\ StoresInv' /\ ColdInv'
         /\ receipts' = receipts
         /\ attachment'.rank = op[p].rank
         /\ op' = next
BY DEF IInv, StoresInv, ColdInv, Attach, AttachmentHasReceipt, Homes, coldVars,
   userVars

\* Every step of home add preserves the invariant.
LEMMA HomeAddInv ==
  ASSUME IInv, NEW p \in Ops, HomeAdd(p)
  PROVE  IInv'
<1>1. CASE AddPlan(p)
  <2>1. PICK r \in Ranks :
          Begin(p, "add", [Idle EXCEPT !.kind = "add", !.pc = "download",
                                       !.rank = r])
    BY <1>1 DEF AddPlan
  <2>2. CommandOK([Idle EXCEPT !.kind = "add", !.pc = "download", !.rank = r],
                  receipts, attachment)
    BY DEF CommandOK, Idle, Commands, Kinds, ExclusiveKinds, Steps, Acks
  <2>3. [Idle EXCEPT !.kind = "add", !.pc = "download", !.rank = r].kind = "add"
    BY DEF Idle
  <2>4. OpInv'
    BY <1>1, <2>1, <2>2, <2>3, BeginStep DEF IInv, AddPlan, storeVars
  <2> QED BY <1>1, <2>4, OwnStep DEF IInv, AddPlan
<1>2. CASE AddDownload(p)
  <2>1. PICK c \in Contents :
          op' = [op EXCEPT ![p] = [op[p] EXCEPT !.pc = "verify", !.content = c]]
    BY <1>2 DEF AddDownload
  <2>2. CommandOK([op[p] EXCEPT !.pc = "verify", !.content = c],
                  receipts, attachment)
    <3>1. /\ op[p] \in Commands
          /\ op[p].kind = "add" /\ op[p].rank \in Ranks
      BY <1>2 DEF IInv, OpInv, CommandOK, AddDownload, At
    <3> DEFINE o == [op[p] EXCEPT !.pc = "verify", !.content = c]
    <3>2. o \in Commands /\ o.kind = "add" /\ o.pc = "verify"
          /\ o.rank = op[p].rank
      BY <3>1 DEF Commands, Steps
    <3> QED BY <3>1, <3>2 DEF CommandOK
  <2> [op[p] EXCEPT !.pc = "verify", !.content = c].kind = op[p].kind
    BY DEF IInv, OpInv, Commands
  <2>3. OpInv'
    BY <1>2, <2>1, <2>2, CommandStep DEF IInv, AddDownload, storeVars
  <2> QED BY <1>2, <2>3, OwnStep DEF IInv, AddDownload
<1>3. CASE AddVerify(p)
  <2>1. CASE op[p].content = "good" /\ Goto(p, "recheck")
    <3>1. CommandOK([op[p] EXCEPT !.pc = "recheck"], receipts, attachment)
      BY <1>3, <2>1 DEF IInv, OpInv, CommandOK, AddVerify, At, Commands, Steps
    <3> QED BY <1>3, <2>1, <3>1, GotoStep, OwnStep DEF IInv, AddVerify, storeVars
  <2>2. CASE Finish(p)
    BY <1>3, <2>2, FinishStep, OwnStep DEF IInv, AddVerify, storeVars
  <2> QED BY <1>3, <2>1, <2>2 DEF AddVerify
<1>4. CASE AddRecheck(p)
  BY <1>4, RecheckInv DEF AddRecheck
<1>5. CASE AddReceipt(p)
  <2>1. PICK c \in Receipts :
          /\ receipts' = receipts \cup {c}
          /\ op' = [op EXCEPT ![p] = [op[p] EXCEPT !.pc = "publish", !.rc = c]]
    BY <1>5 DEF AddReceipt
  <2> [op[p] EXCEPT !.pc = "publish", !.rc = c].kind = op[p].kind
    BY DEF IInv, OpInv, Commands
  <2>2. CommandOK([op[p] EXCEPT !.pc = "publish", !.rc = c],
                  receipts', attachment')
    BY <1>5, <2>1 DEF IInv, OpInv, CommandOK, AddReceipt, At, Commands, Steps
  <2>3. op[p].kind \in ExclusiveKinds
    BY <1>5 DEF AddReceipt, At, ExclusiveKinds
  <2>4. OpInv'
    BY <2>1, <2>2, <2>3, CommandStep DEF IInv
  <2>5. StoresInv'
    BY <1>5, <2>1 DEF IInv, StoresInv, AddReceipt, userVars, AttachmentHasReceipt
  <2> QED BY <1>5, <2>4, <2>5, ColdStutter DEF IInv, AddReceipt
<1>6. CASE AddPublish(p)
  BY <1>6, PublishInv DEF AddPublish
<1>7. CASE AddAttach(p)
  <2>1. /\ At(p, "add", "attach")
        /\ Attach(p, [op EXCEPT ![p].pc = "enqueue"])
    BY <1>7 DEF AddAttach
  <2>2. op[p].rank \in Ranks /\ op[p].id \in Ids /\ op[p].rc \in receipts
    BY <2>1 DEF IInv, OpInv, CommandOK, At
  <2>3. /\ StoresInv' /\ ColdInv' /\ receipts' = receipts
        /\ op' = [op EXCEPT ![p].pc = "enqueue"]
    BY <2>1, <2>2, AttachStores
  <2>4. /\ CommandOK([op[p] EXCEPT !.pc = "enqueue"], receipts', attachment')
        /\ [op[p] EXCEPT !.pc = "enqueue"].kind = op[p].kind
    BY <2>1, <2>3 DEF IInv, OpInv, CommandOK, At, Commands, Steps
  <2>5. OpInv'
    BY <2>1, <2>3, <2>4, CommandStep DEF IInv, At, ExclusiveKinds
  <2> QED BY <2>3, <2>5 DEF IInv
<1>8. CASE AddEnqueue(p)
  <2>1. OpInv' /\ StoresInv'
    BY <1>8, FinishStep DEF IInv, AddEnqueue, StoresInv, AttachmentHasReceipt,
       storeVars, userVars
  <2>2. ColdInv'
    <3>1. PICK state \in ColdAnswers :
            /\ job' = [job EXCEPT ![op[p].rc] = state]
            /\ IF state = "pending" /\ worker[op[p].rc] = NoWorker
                 THEN worker' = [worker EXCEPT ![op[p].rc].pc = "start"]
                 ELSE UNCHANGED worker
      BY <1>8 DEF AddEnqueue
    <3>2. state \in JobStates /\ op[p].rc \in Receipts
      BY <1>8, ColdAnswersAssumption
      DEF JobStates, AddEnqueue, At, IInv, StoresInv, OpInv, CommandOK
    <3>3. /\ worker' \in [Receipts -> Workers]
          /\ \A c \in Receipts :
               worker'[c].pc = "copy" => worker'[c].rank \in Ranks
      BY <3>1, <3>2 DEF IInv, ColdInv, Workers, WorkerSteps
    <3> QED BY <1>8, <3>1, <3>2, <3>3 DEF AddEnqueue, IInv, ColdInv
  <2> QED BY <2>1, <2>2 DEF IInv
<1> QED BY <1>1, <1>2, <1>3, <1>4, <1>5, <1>6, <1>7, <1>8 DEF HomeAdd

-----------------------------------------------------------------------------
(* home relocate, and the deletion it shares with home remove.             *)

\* An inspected tree is renamed away and deleted, or the command fails.
LEMMA ExecuteInv ==
  ASSUME IInv, NEW p \in Ops, NEW next, Execute(p, next),
         op' = next => OpInv'
  PROVE  IInv'
<1>1. CASE UNCHANGED tree /\ Finish(p)
  BY <1>1, FinishStep, OwnStep DEF IInv, Execute, storeVars
<1>2. CASE tree' = [tree EXCEPT ![op[p].rank] = NoTree] /\ op' = next
  <2>1. StoresInv'
    BY <1>2 DEF IInv, StoresInv, Execute, storeVars, userVars,
       AttachmentHasReceipt
  <2> QED BY <1>2, <2>1, ColdStutter DEF IInv, Execute
<1> QED BY <1>1, <1>2 DEF Execute

\* Every step of home relocate preserves the invariant.
LEMMA HomeRelocateInv ==
  ASSUME IInv, NEW p \in Ops, HomeRelocate(p)
  PROVE  IInv'
<1>1. CASE RelocatePlan(p)
  <2>1. PICK r \in Ranks, c \in Receipts :
          /\ FirstReceipt(c)
          /\ \/ ~Absent(r)
             \/ attachment # NoHome /\ attachment.rank # r
          /\ Begin(p, "relocate",
                   [Idle EXCEPT !.kind = "relocate", !.rank = r, !.rc = c,
                                !.src = attachment.rank,
                                !.pc = IF Absent(r) THEN "copy" ELSE "hash"])
    BY <1>1 DEF RelocatePlan
  <2> DEFINE first == [Idle EXCEPT !.kind = "relocate", !.rank = r, !.rc = c,
                         !.src = attachment.rank,
                         !.pc = IF Absent(r) THEN "copy" ELSE "hash"]
  <2>2. first.kind = "relocate"
    BY DEF Idle
  <2>3. CommandOK(first, receipts, attachment)
    <3>1. /\ attachment.rank \in Ranks \cup {"none"}
          /\ attachment # NoHome => attachment.rank \in Ranks
      BY DEF IInv, StoresInv, Homes, NoHome
    <3>2. c \in receipts
      BY <2>1 DEF FirstReceipt
    <3> QED BY <2>1, <3>1, <3>2 DEF CommandOK, Idle, Commands, Kinds,
            ExclusiveKinds, Steps, Acks
  <2>4. OpInv'
    BY <1>1, <2>1, <2>2, <2>3, BeginStep DEF IInv, RelocatePlan, storeVars
  <2> QED BY <1>1, <2>4, OwnStep DEF IInv, RelocatePlan
<1>2. CASE RelocateCopy(p)
  <2>1. /\ op[p] \in Commands
        /\ op[p].kind = "relocate" /\ op[p].pc = "copy"
        /\ CommandOK(op[p], receipts, attachment)
    BY <1>2 DEF IInv, OpInv, CommandOK, RelocateCopy, At
  <2>2. CommandOK([op[p] EXCEPT !.pc = "copying"], receipts, attachment)
    BY <2>1 DEF CommandOK, Commands, Steps
  <2>3. OpInv'
    BY <1>2, <2>2, GotoStep DEF IInv, RelocateCopy, storeVars
  <2>4. tree' \in [Ranks -> Trees \cup {NoTree}]
    <3>1. PICK i \in Ids :
            tree' = [tree EXCEPT ![op[p].rank] = [id |-> i,
                                                  content |-> "partial"]]
      BY <1>2 DEF RelocateCopy
    <3>2. [id |-> i, content |-> "partial"] \in Trees
      BY DEF Trees, Contents
    <3> QED BY <3>1, <3>2 DEF IInv, StoresInv
  <2>5. StoresInv'
    BY <1>2, <2>4 DEF IInv, StoresInv, RelocateCopy, storeVars, userVars,
       AttachmentHasReceipt
  <2> QED BY <1>2, <2>3, <2>5, ColdStutter DEF IInv, RelocateCopy
<1>3. CASE RelocateCopied(p)
  <2>1. /\ op[p] \in Commands
        /\ op[p].kind = "relocate" /\ op[p].pc = "copying"
        /\ op[p].rank \in Ranks /\ op[p].src \in Ranks
        /\ CommandOK(op[p], receipts, attachment)
    BY <1>3 DEF IInv, OpInv, CommandOK, RelocateCopied, At
  <2>2. CASE Finish(p) /\ UNCHANGED tree
    BY <1>3, <2>2, FinishStep, OwnStep DEF IInv, RelocateCopied, storeVars
  <2>3. CASE /\ ~Absent(op[p].rank) /\ ~Absent(op[p].src)
             /\ tree' = [tree EXCEPT ![op[p].rank].content =
                                       tree[op[p].src].content]
             /\ Goto(p, "hash")
    <3>1. CommandOK([op[p] EXCEPT !.pc = "hash"], receipts, attachment)
      BY <2>1 DEF CommandOK, Commands, Steps
    <3>2. OpInv'
      BY <1>3, <2>3, <3>1, GotoStep DEF IInv, RelocateCopied, storeVars
    <3>3. tree' \in [Ranks -> Trees \cup {NoTree}]
      BY <2>1, <2>3 DEF IInv, StoresInv, Absent, Trees
    <3>4. StoresInv'
      BY <1>3, <3>3 DEF IInv, StoresInv, RelocateCopied, storeVars, userVars,
         AttachmentHasReceipt
    <3> QED BY <1>3, <3>2, <3>4, ColdStutter DEF IInv, RelocateCopied
  <2> QED BY <1>3, <2>2, <2>3 DEF RelocateCopied
<1>4. CASE RelocateHash(p)
  <2>1. /\ op[p] \in Commands
        /\ op[p].kind = "relocate" /\ op[p].rank \in Ranks
        /\ op[p].rc \in receipts
    BY <1>4 DEF IInv, OpInv, CommandOK, RelocateHash, At
  <2>2. CASE Finish(p)
    BY <1>4, <2>2, FinishStep, OwnStep DEF IInv, RelocateHash, storeVars
  <2>3. CASE /\ Complete(op[p].rank)
             /\ op' = [op EXCEPT ![p] =
                         [op[p] EXCEPT !.pc = "identity",
                                       !.content = tree[op[p].rank].content]]
    <3> DEFINE o == [op[p] EXCEPT !.pc = "identity",
                                  !.content = tree[op[p].rank].content]
    <3>1. o.kind = op[p].kind
      BY <2>1 DEF Commands
    <3>2. CommandOK(o, receipts, attachment)
      <4>1. tree[op[p].rank].content \in Contents
        BY <2>3 DEF Complete, Contents
      <4>2. /\ o \in Commands
            /\ o.kind = "relocate" /\ o.pc = "identity"
            /\ o.rank = op[p].rank /\ o.rc = op[p].rc
        BY <2>1, <4>1 DEF Commands, Steps
      <4> QED BY <2>1, <4>2 DEF CommandOK
    <3>3. OpInv'
      BY <1>4, <2>3, <3>1, <3>2, CommandStep DEF IInv, RelocateHash, storeVars
    <3> QED BY <1>4, <3>3, OwnStep DEF IInv, RelocateHash
  <2> QED BY <1>4, <2>2, <2>3 DEF RelocateHash
<1>5. CASE RelocateIdentity(p)
  <2>1. /\ op[p] \in Commands
        /\ op[p].kind = "relocate" /\ op[p].rank \in Ranks
        /\ op[p].rc \in receipts
    BY <1>5 DEF IInv, OpInv, CommandOK, RelocateIdentity, At
  <2>2. CASE Finish(p)
    BY <1>5, <2>2, FinishStep, OwnStep DEF IInv, RelocateIdentity, storeVars
  <2>3. CASE /\ ~Absent(op[p].rank)
             /\ op' = [op EXCEPT ![p] =
                         [op[p] EXCEPT !.pc = "occupy",
                                       !.id = tree[op[p].rank].id]]
    <3> DEFINE o == [op[p] EXCEPT !.pc = "occupy", !.id = tree[op[p].rank].id]
    <3>1. o.kind = op[p].kind
      BY <2>1 DEF Commands
    <3>2. tree[op[p].rank].id \in Ids
      BY <2>1, <2>3 DEF IInv, StoresInv, Absent, Trees
    <3>3. CommandOK(o, receipts, attachment)
      BY <2>1, <3>2 DEF CommandOK, Commands, Steps
    <3>4. OpInv'
      BY <1>5, <2>3, <3>1, <3>3, CommandStep DEF IInv, RelocateIdentity, storeVars
    <3> QED BY <1>5, <3>4, OwnStep DEF IInv, RelocateIdentity
  <2> QED BY <1>5, <2>2, <2>3 DEF RelocateIdentity
<1>6. CASE RelocateOccupy(p)
  <2>1. /\ op[p] \in Commands
        /\ op[p].kind = "relocate" /\ op[p].rank \in Ranks
        /\ op[p].rc \in receipts /\ op[p].id \in Ids
    BY <1>6 DEF IInv, OpInv, CommandOK, RelocateOccupy, At
  <2> DEFINE retire == /\ op[p].src # "none"
                       /\ ~SamePathString(op[p].src, op[p].rank)
             o == IF retire THEN [op[p] EXCEPT !.pc = "retire"] ELSE Idle
  <2>2. CASE /\ Finish(p)
             /\ UNCHANGED <<tree, storeVars, coldVars, userVars, disturbed>>
    BY <2>2, FinishStep, OwnStep DEF IInv, storeVars
  <2>3. CASE Attach(p, [op EXCEPT ![p] = o])
    <3>1. /\ StoresInv' /\ ColdInv' /\ receipts' = receipts
          /\ attachment'.rank = op[p].rank
          /\ op' = [op EXCEPT ![p] = o]
      BY <2>1, <2>3, AttachStores
    <3>2. CASE retire
      <4>1. op[p].src \in Ranks /\ op[p].src # op[p].rank
        BY <2>1, <3>2 DEF Commands, SamePathString
      <4>2. CommandOK([op[p] EXCEPT !.pc = "retire"], receipts', attachment')
        BY <2>1, <3>1, <4>1 DEF CommandOK, Commands, Steps
      <4>3. [op[p] EXCEPT !.pc = "retire"].kind = op[p].kind
        BY <2>1 DEF Commands
      <4>4. OpInv'
        BY <2>1, <3>1, <3>2, <4>2, <4>3, CommandStep DEF IInv, ExclusiveKinds
      <4> QED BY <3>1, <4>4 DEF IInv
    <3>3. CASE ~retire
      <4>1. CommandOK(Idle, receipts', attachment') /\ Idle.kind = "idle"
        BY IdleOK
      <4>2. OpInv'
        BY <2>1, <3>1, <3>3, <4>1, CommandStep DEF IInv, ExclusiveKinds
      <4> QED BY <3>1, <4>2 DEF IInv
    <3> QED BY <3>2, <3>3
  <2> QED BY <1>6, <2>2, <2>3 DEF RelocateOccupy
<1>7. CASE RelocateRetire(p)
  <2>1. /\ op[p] \in Commands
        /\ op[p].kind = "relocate" /\ op[p].src \in Ranks
        /\ op[p].rc \in receipts
        /\ attachment.rank = op[p].rank /\ op[p].src # op[p].rank
    BY <1>7 DEF IInv, OpInv, CommandOK, RelocateRetire, At
  <2> DEFINE s == op[p].src
             o == [op[p] EXCEPT !.pc = "execute", !.rank = s,
                                !.content = tree[s].content, !.id = tree[s].id]
  <2>2. CASE Finish(p)
    BY <1>7, <2>2, FinishStep, OwnStep DEF IInv, RelocateRetire, storeVars
  <2>3. CASE ~Absent(s) /\ op' = [op EXCEPT ![p] = o]
    <3>1. o.kind = op[p].kind
      BY <2>1 DEF Commands
    <3>2. tree[s].id \in Ids /\ tree[s].content \in Contents
      BY <2>1, <2>3 DEF IInv, StoresInv, Absent, Trees
    <3>3. CommandOK(o, receipts, attachment)
      BY <2>1, <3>2 DEF CommandOK, Commands, Steps
    <3>4. OpInv'
      BY <1>7, <2>3, <3>1, <3>3, CommandStep DEF IInv, RelocateRetire, storeVars
    <3> QED BY <1>7, <3>4, OwnStep DEF IInv, RelocateRetire
  <2> QED BY <1>7, <2>2, <2>3 DEF RelocateRetire, RemovalEligible, Inspectable
<1>8. CASE RelocateExecute(p)
  <2>1. op' = [op EXCEPT ![p] = Idle] => OpInv'
    BY <1>8, FinishStep DEF IInv, RelocateExecute, Execute, storeVars, Finish
  <2> QED BY <1>8, <2>1, ExecuteInv DEF RelocateExecute
<1> QED BY <1>1, <1>2, <1>3, <1>4, <1>5, <1>6, <1>7, <1>8 DEF HomeRelocate

-----------------------------------------------------------------------------
(* home remove and home restore.                                           *)

\* Every step of home remove preserves the invariant.
LEMMA HomeRemoveInv ==
  ASSUME IInv, NEW p \in Ops, HomeRemove(p)
  PROVE  IInv'
<1>1. CASE RemovePlan(p)
  <2>1. PICK r \in Ranks, c \in Receipts \cup {0}, ack \in Acks :
          /\ RemovalEligible(r, c, ack)
          /\ Begin(p, "remove",
                   [Idle EXCEPT !.kind = "remove", !.pc = "reverify",
                                !.rank = r, !.rc = c, !.ack = ack,
                                !.content = tree[r].content, !.id = tree[r].id,
                                !.occupancy = (catalog[r] = "occupancy"),
                                !.last = LastDurableHome(r)])
    BY <1>1 DEF RemovePlan
  <2> DEFINE first ==
               [Idle EXCEPT !.kind = "remove", !.pc = "reverify",
                            !.rank = r, !.rc = c, !.ack = ack,
                            !.content = tree[r].content, !.id = tree[r].id,
                            !.occupancy = (catalog[r] = "occupancy"),
                            !.last = LastDurableHome(r)]
  <2>2. first.kind = "remove"
    BY DEF Idle
  <2>3. tree[r].id \in Ids /\ tree[r].content \in Contents
    BY <2>1 DEF RemovalEligible, Inspectable, Absent, IInv, StoresInv, Trees
  <2>4. catalog[r] = "occupancy" \/ attachment.rank # r
    BY <2>1, RanksAssumption
    DEF RemovalEligible, CurrentHomeAttachedBlocks, SamePathString, NoHome
  <2>5. LastDurableHome(r) \in BOOLEAN
    BY DEF LastDurableHome
  <2>6. first \in Commands
    BY <2>3, <2>5 DEF Commands, Idle, Kinds, ExclusiveKinds, Steps
  <2>7. CommandOK(first, receipts, attachment)
    BY <2>4, <2>6 DEF CommandOK, Idle
  <2>8. OpInv'
    BY <1>1, <2>1, <2>2, <2>7, BeginStep DEF IInv, RemovePlan, storeVars
  <2> QED BY <1>1, <2>8, OwnStep DEF IInv, RemovePlan
<1>2. CASE RemoveReverify(p)
  <2>1. /\ op[p] \in Commands
        /\ op[p].kind = "remove" /\ op[p].pc = "reverify"
        /\ CommandOK(op[p], receipts, attachment)
    BY <1>2 DEF IInv, OpInv, CommandOK, RemoveReverify, At
  <2>2. CASE Finish(p)
    BY <1>2, <2>2, FinishStep, OwnStep DEF IInv, RemoveReverify, storeVars
  <2>3. CASE Goto(p, IF op[p].occupancy THEN "detach" ELSE "execute")
    <3>1. ASSUME NEW pc \in {"detach", "execute"}, Goto(p, pc),
                 pc = "execute" => ~op[p].occupancy
          PROVE  IInv'
      <4>1. CommandOK([op[p] EXCEPT !.pc = pc], receipts, attachment)
        BY <2>1, <3>1 DEF CommandOK, Commands, Steps
      <4>2. OpInv'
        BY <1>2, <3>1, <4>1, GotoStep DEF IInv, RemoveReverify, storeVars
      <4> QED BY <1>2, <4>2, OwnStep DEF IInv, RemoveReverify
    <3> QED BY <2>3, <3>1
  <2> QED BY <1>2, <2>2, <2>3 DEF RemoveReverify
<1>3. CASE RemoveDetach(p)
  <2>1. /\ op[p] \in Commands
        /\ op[p].kind = "remove" /\ op[p].rank \in Ranks
    BY <1>3 DEF IInv, OpInv, CommandOK, RemoveDetach, At
  <2>2. attachment' \in {attachment, NoHome} /\ attachment'.rank # op[p].rank
    BY <1>3, <2>1, RanksAssumption DEF RemoveDetach, NoHome
  <2>3. CommandOK([op[p] EXCEPT !.pc = "execute"], receipts', attachment')
    BY <2>1, <2>2 DEF CommandOK, Commands, Steps
  <2>4. [op[p] EXCEPT !.pc = "execute"].kind = op[p].kind
    BY <2>1 DEF Commands
  <2>5. OpInv'
    BY <1>3, <2>1, <2>3, <2>4, CommandStep
    DEF IInv, RemoveDetach, Goto, ExclusiveKinds
  <2>6. StoresInv'
    BY <1>3, <2>2 DEF IInv, StoresInv, RemoveDetach, userVars,
       AttachmentHasReceipt
  <2> QED BY <1>3, <2>5, <2>6, ColdStutter DEF IInv, RemoveDetach
<1>4. CASE RemoveExecute(p)
  <2>1. /\ op[p] \in Commands
        /\ op[p].kind = "remove" /\ op[p].rank \in Ranks
    BY <1>4 DEF IInv, OpInv, CommandOK, RemoveExecute, At
  <2>2. CommandOK([op[p] EXCEPT !.pc = "refresh"], receipts, attachment)
    BY <2>1 DEF CommandOK, Commands, Steps
  <2>3. op' = [op EXCEPT ![p].pc = "refresh"] => OpInv'
    BY <1>4, <2>2, GotoStep DEF IInv, RemoveExecute, Execute, storeVars, Goto
  <2> QED BY <1>4, <2>3, ExecuteInv DEF RemoveExecute
<1>5. CASE RemoveRefresh(p)
  <2>1. RefreshedCatalog \in [Ranks -> Classes \cup {"unscanned"}]
    BY DEF RefreshedCatalog, Classified, Classes, IInv, StoresInv
  <2>2. OpInv'
    BY <1>5, FinishStep DEF IInv, RemoveRefresh
  <2>3. StoresInv'
    BY <1>5, <2>1 DEF IInv, StoresInv, RemoveRefresh, userVars,
       AttachmentHasReceipt
  <2> QED BY <1>5, <2>2, <2>3, ColdStutter DEF IInv, RemoveRefresh
<1> QED BY <1>1, <1>2, <1>3, <1>4, <1>5 DEF HomeRemove

\* Every step of home restore preserves the invariant.
LEMMA HomeRestoreInv ==
  ASSUME IInv, NEW p \in Ops, HomeRestore(p)
  PROVE  IInv'
<1>1. CASE RestorePlan(p)
  <2>1. PICK r \in Ranks, c \in Receipts :
          /\ RestoreAdmitted(r, c)
          /\ Begin(p, "restore", [Idle EXCEPT !.kind = "restore", !.pc = "copy",
                                              !.rank = r, !.rc = c])
    BY <1>1 DEF RestorePlan
  <2> DEFINE first == [Idle EXCEPT !.kind = "restore", !.pc = "copy",
                                   !.rank = r, !.rc = c]
  <2>2. first.kind = "restore"
    BY DEF Idle
  <2>3. CommandOK(first, receipts, attachment)
    BY <2>1 DEF CommandOK, Idle, Commands, Kinds, ExclusiveKinds, Steps, Acks,
       RestoreAdmitted
  <2>4. OpInv'
    BY <1>1, <2>1, <2>2, <2>3, BeginStep DEF IInv, RestorePlan, storeVars
  <2> QED BY <1>1, <2>4, OwnStep DEF IInv, RestorePlan
<1>2. CASE RestoreCopy(p)
  <2>1. /\ op[p] \in Commands
        /\ op[p].kind = "restore" /\ op[p].rank \in Ranks
        /\ op[p].rc \in receipts
    BY <1>2 DEF IInv, OpInv, CommandOK, RestoreCopy, At
  <2> DEFINE o == [op[p] EXCEPT !.pc = "hash", !.content = archive[op[p].rc]]
  <2>2. op' = [op EXCEPT ![p] = o] /\ o.kind = op[p].kind
    BY <1>2, <2>1 DEF RestoreCopy, Commands
  <2>3. archive[op[p].rc] \in Contents \cup {"none"}
    BY <2>1 DEF IInv, StoresInv, ColdInv, Contents
  <2>4. CommandOK(o, receipts, attachment)
    BY <2>1, <2>3 DEF CommandOK, Commands, Steps
  <2>5. OpInv'
    BY <1>2, <2>2, <2>4, CommandStep DEF IInv, RestoreCopy, storeVars
  <2> QED BY <1>2, <2>5, OwnStep DEF IInv, RestoreCopy
<1>3. CASE RestoreHash(p)
  <2>1. CASE op[p].content = "good" /\ Goto(p, "recheck")
    <3>1. CommandOK([op[p] EXCEPT !.pc = "recheck"], receipts, attachment)
      BY <1>3, <2>1 DEF IInv, OpInv, CommandOK, RestoreHash, At, Commands, Steps
    <3> QED BY <1>3, <2>1, <3>1, GotoStep, OwnStep
            DEF IInv, RestoreHash, storeVars
  <2>2. CASE Finish(p)
    BY <1>3, <2>2, FinishStep, OwnStep DEF IInv, RestoreHash, storeVars
  <2> QED BY <1>3, <2>1, <2>2 DEF RestoreHash
<1>4. CASE RestoreRecheck(p)
  BY <1>4, RecheckInv DEF RestoreRecheck
<1>5. CASE RestorePublish(p)
  BY <1>5, PublishInv DEF RestorePublish
<1>6. CASE RestoreOccupy(p)
  <2>1. /\ At(p, "restore", "occupy")
        /\ Attach(p, [op EXCEPT ![p] = Idle])
    BY <1>6 DEF RestoreOccupy
  <2>2. op[p].rank \in Ranks /\ op[p].id \in Ids /\ op[p].rc \in receipts
    BY <2>1 DEF IInv, OpInv, CommandOK, At
  <2>3. /\ StoresInv' /\ ColdInv' /\ receipts' = receipts
        /\ op' = [op EXCEPT ![p] = Idle]
    BY <2>1, <2>2, AttachStores
  <2>4. CommandOK(Idle, receipts', attachment') /\ Idle.kind = "idle"
    BY IdleOK
  <2>5. OpInv'
    BY <2>1, <2>3, <2>4, CommandStep DEF IInv, At, ExclusiveKinds
  <2> QED BY <2>3, <2>5 DEF IInv
<1> QED BY <1>1, <1>2, <1>3, <1>4, <1>5, <1>6 DEF HomeRestore

-----------------------------------------------------------------------------
(* The users of a home.                                                    *)

\* A hot command's plan, which only begins the command.
LEMMA HotPlanInv ==
  ASSUME IInv, NEW p \in Ops, NEW r \in Ranks, NEW kind \in HotKinds,
         NEW pc \in Steps,
         Begin(p, kind, [Idle EXCEPT !.kind = kind, !.pc = pc, !.rank = r]),
         UNCHANGED <<tree, storeVars, coldVars, userVars, disturbed>>
  PROVE  IInv'
<1> DEFINE first == [Idle EXCEPT !.kind = kind, !.pc = pc, !.rank = r]
<1>1. first.kind = kind
  BY DEF Idle
<1>2. CommandOK(first, receipts, attachment)
  BY DEF CommandOK, Idle, Commands, Kinds, HotKinds, HotWriterKinds, Acks
<1>3. OpInv'
  BY <1>1, <1>2, BeginStep DEF IInv, storeVars
<1> QED BY <1>3, OwnStep DEF IInv

\* A hot command's step: it may change a view or the services.
LEMMA HotStepInv ==
  ASSUME IInv, NEW p \in Ops, UNCHANGED <<tree, storeVars, coldVars, disturbed>>,
         views' \in [Ranks -> ViewStates], serving' \subseteq Ranks,
         UNCHANGED <<receipts, attachment>> => OpInv'
  PROVE  IInv'
<1>1. OpInv' /\ StoresInv'
  BY DEF IInv, StoresInv, storeVars, AttachmentHasReceipt
<1> QED BY <1>1, ColdStutter DEF IInv

\* Every step of prepare, purge-hot and launch preserves the invariant.
LEMMA HotUseInv ==
  ASSUME IInv, NEW p \in Ops, HotUse(p)
  PROVE  IInv'
<1>1. CASE PreparePlan(p)
  BY <1>1, HotPlanInv DEF PreparePlan, HotKinds, HotWriterKinds, Steps
<1>2. CASE PrepareCopy(p)
  <2>1. op[p] \in Commands /\ op[p].kind = "prepare" /\ op[p].rank \in Ranks
    BY <1>2 DEF IInv, OpInv, CommandOK, PrepareCopy, At
  <2>2. CommandOK([op[p] EXCEPT !.pc = "verify"], receipts, attachment)
    BY <2>1 DEF CommandOK, Commands, Steps
  <2>3. UNCHANGED <<receipts, attachment>> => OpInv'
    BY <1>2, <2>2, GotoStep DEF IInv, PrepareCopy
  <2>4. views' \in [Ranks -> ViewStates] /\ serving' \subseteq Ranks
    BY <1>2 DEF IInv, StoresInv, PrepareCopy, ViewStates
  <2> QED BY <1>2, <2>3, <2>4, HotStepInv DEF PrepareCopy
<1>3. CASE PrepareVerify(p)
  <2>1. UNCHANGED <<receipts, attachment>> => OpInv'
    BY <1>3, FinishStep DEF IInv, PrepareVerify
  <2>2. views' \in [Ranks -> ViewStates] /\ serving' \subseteq Ranks
    BY <1>3 DEF IInv, StoresInv, PrepareVerify, ViewStates
  <2> QED BY <1>3, <2>1, <2>2, HotStepInv DEF PrepareVerify
<1>4. CASE PurgePlan(p)
  BY <1>4, HotPlanInv DEF PurgePlan, HotKinds, HotWriterKinds, Steps
<1>5. CASE PurgeExecute(p)
  <2>1. UNCHANGED <<receipts, attachment>> => OpInv'
    BY <1>5, FinishStep DEF IInv, PurgeExecute
  <2>2. views' \in [Ranks -> ViewStates] /\ serving' \subseteq Ranks
    BY <1>5 DEF IInv, StoresInv, PurgeExecute, ViewStates
  <2> QED BY <1>5, <2>1, <2>2, HotStepInv DEF PurgeExecute
<1>6. CASE LaunchPlan(p)
  BY <1>6, HotPlanInv DEF LaunchPlan, HotKinds, HotWriterKinds, Steps
<1>7. CASE LaunchStart(p)
  <2>1. UNCHANGED <<receipts, attachment>> => OpInv'
    BY <1>7, FinishStep DEF IInv, LaunchStart
  <2>2. op[p].rank \in Ranks
    BY <1>7 DEF IInv, OpInv, CommandOK, LaunchStart, At
  <2>3. views' \in [Ranks -> ViewStates] /\ serving' \subseteq Ranks
    BY <1>7, <2>2 DEF IInv, StoresInv, LaunchStart
  <2> QED BY <1>7, <2>1, <2>3, HotStepInv DEF LaunchStart
<1> QED BY <1>1, <1>2, <1>3, <1>4, <1>5, <1>6, <1>7 DEF HotUse

-----------------------------------------------------------------------------
(* The short commands, the archive workers and the environment.            *)

\* Catalog refresh and the receipt commands preserve the invariant.
LEMMA ShortCommandInv ==
  ASSUME IInv, CatalogRefresh \/ HomeReceipt
  PROVE  IInv'
<1>1. CASE CatalogRefresh
  <2>1. RefreshedCatalog \in [Ranks -> Classes \cup {"unscanned"}]
    BY DEF RefreshedCatalog, Classified, Classes, IInv, StoresInv
  <2>2. OpInv'
    BY <1>1, OpStutter DEF IInv, CatalogRefresh
  <2>3. StoresInv'
    BY <1>1, <2>1 DEF IInv, StoresInv, CatalogRefresh, userVars,
       AttachmentHasReceipt
  <2> QED BY <1>1, <2>2, <2>3, ColdStutter DEF IInv, CatalogRefresh
<1>2. CASE ReceiptBackup
  <2>1. OpInv' /\ StoresInv'
    BY <1>2, OpStutter DEF IInv, StoresInv, ReceiptBackup, storeVars, userVars,
       AttachmentHasReceipt
  <2>2. ColdInv'
    BY <1>2 DEF IInv, StoresInv, ColdInv, ReceiptBackup
  <2> QED BY <2>1, <2>2 DEF IInv
<1>3. CASE ReceiptRecover
  <2>1. PICK c \in Receipts : receipts' = receipts \cup {c}
    BY <1>3 DEF IInv, ColdInv, ReceiptRecover
  <2>2. \A q \in Ops : CommandOK(Idle, receipts', attachment')
    BY IdleOK
  <2>3. OpInv'
    BY <1>3, <2>2 DEF IInv, OpInv, ReceiptRecover, NobodyRuns, Locks,
       ExclusiveAlone, HotWriterAlone
  <2>4. StoresInv'
    BY <1>3, <2>1 DEF IInv, StoresInv, ReceiptRecover, userVars,
       AttachmentHasReceipt
  <2> QED BY <1>3, <2>3, <2>4, ColdStutter DEF IInv, ReceiptRecover
<1> QED BY <1>1, <1>2, <1>3 DEF HomeReceipt

\* A worker writes only its job, the replicas, its archive and its own state.
LEMMA WorkerStep ==
  ASSUME IInv, UNCHANGED <<tree, storeVars, userVars, op, disturbed>>
  PROVE  OpInv' /\ StoresInv'
BY OpStutter DEF IInv, StoresInv, AttachmentHasReceipt, storeVars, userVars

\* A worker that fails leaves its receipt's job settled.
LEMMA ArchiveFailsInv ==
  ASSUME IInv, NEW c \in Receipts, ArchiveFails(c), UNCHANGED <<replica, archive>>
  PROVE  ColdInv'
BY DEF IInv, ColdInv, ArchiveFails, NoWorker, Workers, WorkerSteps, JobStates

\* Every step of an archive worker preserves the invariant.
LEMMA HomeArchiveInv ==
  ASSUME IInv, NEW c \in Receipts, ArchiveRun(c) \/ HomeArchive(c)
  PROVE  IInv'
<1>1. CASE ArchiveRun(c)
  <2>1. ColdInv'
    <3>1. /\ worker' \in [Receipts -> Workers]
          /\ \A d \in Receipts :
               worker'[d].pc = "copy" => worker'[d].rank \in Ranks
      BY <1>1 DEF IInv, ColdInv, ArchiveRun, Workers, WorkerSteps
    <3> QED BY <1>1, <3>1 DEF IInv, ColdInv, ArchiveRun
  <2> QED BY <1>1, <2>1, WorkerStep DEF IInv, ArchiveRun
<1>2. CASE ArchiveStart(c)
  <2>1. ColdInv'
    <3>1. CASE /\ job' = [job EXCEPT ![c] = "running"]
               /\ worker' = [worker EXCEPT ![c].pc = "read"]
      <4>1. job' \in [Receipts -> JobStates]
        BY <3>1 DEF IInv, ColdInv, JobStates
      <4>2. /\ worker' \in [Receipts -> Workers]
            /\ \A d \in Receipts :
                 worker'[d].pc = "copy" => worker'[d].rank \in Ranks
        BY <3>1 DEF IInv, ColdInv, Workers, WorkerSteps
      <4> QED BY <1>2, <4>1, <4>2 DEF IInv, ColdInv, ArchiveStart
    <3>2. CASE worker' = [worker EXCEPT ![c] = NoWorker] /\ UNCHANGED job
      BY <1>2, <3>2 DEF IInv, ColdInv, ArchiveStart, Workers, WorkerSteps,
         NoWorker
    <3> QED BY <1>2, <3>1, <3>2 DEF ArchiveStart
  <2> QED BY <1>2, <2>1, WorkerStep DEF IInv, ArchiveStart
<1>3. CASE ArchiveRead(c)
  <2>1. CASE ArchiveFails(c)
    BY <1>3, <2>1, WorkerStep, ArchiveFailsInv DEF IInv, ArchiveRead
  <2>2. CASE /\ attachment # NoHome
             /\ worker' = [worker EXCEPT
                             ![c].rank = attachment.rank,
                             ![c].pc = IF attachment.rank = Controller
                                         THEN "replica" ELSE "copy"]
             /\ UNCHANGED job
    <3>1. attachment.rank \in Ranks
      BY <2>2 DEF IInv, StoresInv, Homes
    <3>2. ColdInv'
      BY <1>3, <2>2, <3>1 DEF IInv, ColdInv, ArchiveRead, Workers, WorkerSteps
    <3> QED BY <1>3, <3>2, WorkerStep DEF IInv, ArchiveRead
  <2> QED BY <1>3, <2>1, <2>2 DEF ArchiveRead
<1>4. CASE ArchiveCopy(c)
  <2>1. CASE ArchiveFails(c)
    BY <1>4, <2>1, WorkerStep, ArchiveFailsInv DEF IInv, ArchiveCopy
  <2>2. CASE /\ ~Absent(worker[c].rank)
             /\ worker' = [worker EXCEPT
                             ![c].pc = "replica",
                             ![c].content = tree[worker[c].rank].content]
             /\ UNCHANGED job
    <3>1. tree[worker[c].rank].content \in Contents
      BY <1>4, <2>2 DEF IInv, StoresInv, ColdInv, ArchiveCopy, Absent, Trees
    <3>2. ColdInv'
      <4>1. /\ worker' \in [Receipts -> Workers]
            /\ \A d \in Receipts :
                 worker'[d].pc = "copy" => worker'[d].rank \in Ranks
        <5> DEFINE w == [worker[c] EXCEPT
                           !.pc = "replica",
                           !.content = tree[worker[c].rank].content]
        <5>1. w \in Workers /\ w.pc = "replica"
          BY <3>1 DEF IInv, ColdInv, Workers, WorkerSteps
        <5>2. worker' = [worker EXCEPT ![c] = w]
          BY <2>2 DEF IInv, ColdInv, Workers
        <5> HIDE DEF w
        <5> QED BY <5>1, <5>2 DEF IInv, ColdInv
      <4> QED BY <1>4, <2>2, <4>1 DEF IInv, ColdInv, ArchiveCopy
    <3> QED BY <1>4, <3>2, WorkerStep DEF IInv, ArchiveCopy
  <2> QED BY <1>4, <2>1, <2>2 DEF ArchiveCopy
<1>5. CASE ArchiveReplica(c)
  <2>1. CASE ArchiveFails(c) /\ UNCHANGED replica
    BY <1>5, <2>1, WorkerStep, ArchiveFailsInv DEF IInv, ArchiveReplica
  <2>2. CASE /\ replica' = replica \cup {c}
             /\ worker' = [worker EXCEPT ![c].pc = "archive"]
             /\ UNCHANGED job
    <3>1. ColdInv'
      BY <1>5, <2>2 DEF IInv, ColdInv, ArchiveReplica, Workers, WorkerSteps
    <3> QED BY <1>5, <3>1, WorkerStep DEF IInv, ArchiveReplica
  <2> QED BY <1>5, <2>1, <2>2 DEF ArchiveReplica
<1>6. CASE ArchivePublish(c)
  <2>1. CASE ArchiveFails(c) /\ UNCHANGED archive
    BY <1>6, <2>1, WorkerStep, ArchiveFailsInv DEF IInv, ArchivePublish
  <2>2. CASE /\ archive' = [archive EXCEPT ![c] = "good"]
             /\ worker' = [worker EXCEPT ![c].pc = "complete"]
             /\ UNCHANGED job
    <3>1. ColdInv'
      BY <1>6, <2>2 DEF IInv, ColdInv, ArchivePublish, Workers, WorkerSteps
    <3> QED BY <1>6, <3>1, WorkerStep DEF IInv, ArchivePublish
  <2> QED BY <1>6, <2>1, <2>2 DEF ArchivePublish
<1>7. CASE ArchiveComplete(c)
  <2>1. ColdInv'
    BY <1>7 DEF IInv, ColdInv, ArchiveComplete, Workers, WorkerSteps, NoWorker,
       JobStates
  <2> QED BY <1>7, <2>1, WorkerStep DEF IInv, ArchiveComplete
<1> QED BY <1>1, <1>2, <1>3, <1>4, <1>5, <1>6, <1>7 DEF HomeArchive

\* A disturbance that touches the trees alone.
LEMMA TreeDisturbedInv ==
  ASSUME IInv, NEW r \in Ranks, TreeDisturbed(r)
  PROVE  IInv'
<1>1. disturbed' \in Nat
  BY DEF IInv, StoresInv, TreeDisturbed, TreeAppears, TreeVanishes,
     TreeReplaced, TreeTampered, Disturb
<1>2. UNCHANGED <<storeVars, coldVars, userVars, op>>
  BY DEF TreeDisturbed, TreeAppears, TreeVanishes, TreeReplaced, TreeTampered
<1>3. tree' \in [Ranks -> Trees \cup {NoTree}]
  <2>1. ASSUME NEW i \in Ids, NEW c \in Contents,
               tree' = [tree EXCEPT ![r] = [id |-> i, content |-> c]]
        PROVE  tree' \in [Ranks -> Trees \cup {NoTree}]
    BY <2>1 DEF IInv, StoresInv, Trees
  <2>2. CASE TreeAppears(r) \/ TreeReplaced(r)
    BY <2>1, <2>2 DEF TreeAppears, TreeReplaced
  <2>3. CASE TreeVanishes(r)
    BY <2>3 DEF IInv, StoresInv, TreeVanishes
  <2>4. CASE TreeTampered(r)
    <3>1. tree[r] \in Trees
      BY <2>4 DEF IInv, StoresInv, TreeTampered, NoTree
    <3> QED BY <2>4, <3>1 DEF IInv, StoresInv, TreeTampered, Trees, Contents
  <2> QED BY <2>2, <2>3, <2>4 DEF TreeDisturbed
<1>4. OpInv' /\ StoresInv'
  BY <1>1, <1>2, <1>3, OpStutter DEF IInv, StoresInv, AttachmentHasReceipt,
     storeVars, userVars
<1> QED BY <1>2, <1>4, ColdStutter DEF IInv

\* No disturbance breaks the invariant: what it destroys, it destroys whole.
LEMMA EnvironmentInv ==
  ASSUME IInv, Environment
  PROVE  IInv'
<1>1. ASSUME NEW c \in Receipts, ArchiveRots(c)
      PROVE  IInv'
  <2>1. ColdInv'
    BY <1>1 DEF IInv, ColdInv, ArchiveRots
  <2>2. OpInv' /\ StoresInv'
    BY <1>1, OpStutter DEF IInv, StoresInv, ArchiveRots, Disturb, storeVars,
       userVars, AttachmentHasReceipt
  <2> QED BY <2>1, <2>2 DEF IInv
<1>2. ASSUME NEW c \in Receipts, WorkerKilled(c)
      PROVE  IInv'
  <2>1. ColdInv'
    BY <1>2 DEF IInv, ColdInv, WorkerKilled, NoWorker, Workers, WorkerSteps
  <2>2. OpInv' /\ StoresInv'
    BY <1>2, OpStutter DEF IInv, StoresInv, WorkerKilled, Disturb, storeVars,
       userVars, AttachmentHasReceipt
  <2> QED BY <2>1, <2>2 DEF IInv
<1>3. ASSUME NEW p \in Ops, CommandAborts(p)
      PROVE  IInv'
  <2>1. OpInv' /\ StoresInv'
    BY <1>3, FinishStep DEF IInv, StoresInv, CommandAborts, Disturb, storeVars,
       userVars, AttachmentHasReceipt
  <2> QED BY <1>3, <2>1, ColdStutter DEF IInv, CommandAborts
<1>4. CASE ControllerLost
  <2>1. StoresInv'
    BY <1>4 DEF IInv, StoresInv, ControllerLost, Disturb, NoCatalog, userVars,
       AttachmentHasReceipt
  <2>2. ColdInv'
    BY <1>4 DEF IInv, ColdInv, ControllerLost, NoWorker, Workers, WorkerSteps,
       JobStates
  <2>3. CommandOK(Idle, receipts', attachment') /\ Idle.kind = "idle"
    BY IdleOK
  <2>4. OpInv'
    BY <1>4, <2>3 DEF OpInv, ControllerLost, Locks, ExclusiveAlone,
       HotWriterAlone, HotKinds, HotWriterKinds, CommandOK
  <2> QED BY <2>1, <2>2, <2>4 DEF IInv
<1> QED BY <1>1, <1>2, <1>3, <1>4, TreeDisturbedInv DEF Environment

-----------------------------------------------------------------------------
(* The invariant holds.                                                    *)

\* The invariant holds before the first command.
LEMMA InitInv == Init => IInv
<1> SUFFICES ASSUME Init PROVE IInv
  OBVIOUS
<1>1. StoresInv
  BY DEF Init, StoresInv, NoCatalog, ViewStates, AttachmentHasReceipt
<1>2. ColdInv
  BY DEF Init, ColdInv, JobStates, NoWorker, Workers, WorkerSteps
<1>3. CommandOK(Idle, receipts, attachment) /\ Idle.kind = "idle"
  BY IdleOK
<1>4. OpInv
  BY <1>3 DEF Init, OpInv, Locks, ExclusiveAlone, HotWriterAlone, CommandOK,
     HotKinds, HotWriterKinds
<1> QED BY <1>1, <1>2, <1>4 DEF IInv

\* The invariant is inductive.
LEMMA NextInv == IInv /\ [Next]_vars => IInv'
<1> SUFFICES ASSUME IInv, [Next]_vars PROVE IInv'
  OBVIOUS
<1>1. ASSUME NEW p \in Ops, Command(p)
      PROVE  IInv'
  BY <1>1, HomeAddInv, HomeRelocateInv, HomeRemoveInv, HomeRestoreInv, HotUseInv
  DEF Command
<1>2. ASSUME NEW c \in Receipts, ArchiveRun(c) \/ HomeArchive(c)
      PROVE  IInv'
  BY <1>2, HomeArchiveInv
<1>3. CASE CatalogRefresh \/ HomeReceipt
  BY <1>3, ShortCommandInv
<1>4. ASSUME NEW r \in Ranks, Stop(r)
      PROVE  IInv'
  BY <1>4, OpStutter, ColdStutter
  DEF IInv, StoresInv, Stop, storeVars, AttachmentHasReceipt
<1>5. CASE Environment
  BY <1>5, EnvironmentInv
<1>6. CASE UNCHANGED vars
  BY <1>6, OpStutter, OwnStep DEF IInv, vars, storeVars
<1> QED BY <1>1, <1>2, <1>3, <1>4, <1>5, <1>6 DEF Next

\* The stores, the recovery state and the commands stay consistent in every
\* reachable state, for every set of ranks, processes, receipts and identities.
THEOREM Invariance == Spec => []IInv
BY InitInv, NextInv, PTL DEF Spec

\* Every variable keeps its type, for every instance: whatever a command copies
\* from its own record into a tree, a view or a document has been set by then.
THEOREM TypeCorrect == Spec => []TypeOK
<1>1. IInv => TypeOK
  BY DEF IInv, StoresInv, ColdInv, OpInv, TypeOK
<1> QED BY <1>1, Invariance, PTL

\* The lifecycle lock and the hot lock exclude what model-library.sh and up.sh
\* rely on them to exclude.
THEOREM LocksExclude == Spec => []Locks
<1>1. IInv => Locks
  BY DEF IInv, OpInv
<1> QED BY <1>1, Invariance, PTL

\* The attachment document always names a receipt the controller store holds,
\* across every add, relocate, restore, removal, abort and controller loss.
THEOREM AttachmentReceiptHeld == Spec => []AttachmentHasReceipt
<1>1. IInv => AttachmentHasReceipt
  BY DEF IInv, StoresInv
<1> QED BY <1>1, Invariance, PTL

-----------------------------------------------------------------------------
(* An occupied home is kept.                                               *)

\* The four ways a command writes a tree, each at another rank than the live
\* occupancy's.
LEMMA WrittenElsewhere ==
  ASSUME IInv, attachment # NoHome,
         tree[attachment.rank].id = attachment.id,
         NEW p \in Ops,
         \/ \E kind, next : Publish(p, kind, next)
         \/ RelocateCopy(p)
         \/ RelocateCopied(p)
         \/ RelocateExecute(p) \/ RemoveExecute(p)
  PROVE  tree'[attachment.rank] = tree[attachment.rank]
<1> DEFINE a == attachment.rank
<1>1. a \in Ranks /\ attachment.id \in Ids /\ ~Absent(a)
  BY IdsAssumption DEF IInv, StoresInv, Homes, Absent, NoTree
<1>2. CASE \E kind, next : Publish(p, kind, next)
  <2>1. UNCHANGED tree \/ Absent(op[p].rank)
    BY <1>2 DEF Publish
  <2>2. ASSUME Absent(op[p].rank)
        PROVE  tree'[a] = tree[a]
    <3>1. PICK kind, next : Publish(p, kind, next)
      BY <1>2
    <3>2. op[p].rank # a
      BY <1>1, <2>2
    <3> QED BY <1>1, <2>2, <3>1, <3>2 DEF Publish, IInv, StoresInv
  <2> QED BY <2>1, <2>2
<1>3. CASE RelocateCopy(p) \/ RelocateCopied(p)
  <2>1. op[p].rank # a
    BY <1>3 DEF IInv, OpInv, CommandOK, RelocateCopy, RelocateCopied, At
  <2> QED BY <1>1, <1>3, <2>1 DEF RelocateCopy, RelocateCopied, IInv, StoresInv
<1>4. CASE RelocateExecute(p) \/ RemoveExecute(p)
  <2>1. op[p].rank # a
    BY <1>4 DEF IInv, OpInv, CommandOK, RelocateExecute, RemoveExecute, At
  <2> QED BY <1>1, <1>4, <2>1 DEF RelocateExecute, RemoveExecute, Execute, IInv,
          StoresInv
<1> QED BY <1>2, <1>3, <1>4

\* Every other step of the program leaves the trees alone.
LEMMA OtherStepsKeepTrees ==
  ASSUME Next, ProgramStep, IInv,
         \A p \in Ops :
           /\ \A kind, next : ~Publish(p, kind, next)
           /\ ~RelocateCopy(p) /\ ~RelocateCopied(p)
           /\ ~RelocateExecute(p) /\ ~RemoveExecute(p)
  PROVE  UNCHANGED tree
<1>1. ASSUME NEW p \in Ops, HomeAdd(p)
      PROVE  UNCHANGED tree
  BY <1>1 DEF HomeAdd, AddPlan, AddDownload, AddVerify, AddRecheck, Recheck,
     AddReceipt, AddPublish, AddAttach, Attach, AddEnqueue
<1>2. ASSUME NEW p \in Ops, HomeRelocate(p)
      PROVE  UNCHANGED tree
  BY <1>2 DEF HomeRelocate, RelocatePlan, RelocateHash, RelocateIdentity,
     RelocateOccupy, Attach, RelocateRetire
<1>3. ASSUME NEW p \in Ops, HomeRemove(p) \/ HomeRestore(p)
      PROVE  UNCHANGED tree
  BY <1>3 DEF HomeRemove, RemovePlan, RemoveReverify, RemoveDetach,
     RemoveRefresh, HomeRestore, RestorePlan, RestoreCopy, RestoreHash,
     RestoreRecheck, Recheck, RestorePublish, RestoreOccupy, Attach
<1>4. ASSUME NEW p \in Ops, HotUse(p)
      PROVE  UNCHANGED tree
  BY <1>4 DEF HotUse, PreparePlan, PrepareCopy, PrepareVerify, PurgePlan,
     PurgeExecute, LaunchPlan, LaunchStart
<1>5. ASSUME NEW c \in Receipts, ArchiveRun(c) \/ HomeArchive(c)
      PROVE  UNCHANGED tree
  BY <1>5 DEF ArchiveRun, HomeArchive, ArchiveStart, ArchiveRead, ArchiveCopy,
     ArchiveReplica, ArchivePublish, ArchiveComplete
<1>6. CASE CatalogRefresh \/ HomeReceipt \/ \E r \in Ranks : Stop(r)
  BY <1>6 DEF CatalogRefresh, HomeReceipt, ReceiptBackup, ReceiptRecover, Stop
<1>7. ~Environment
  <2>1. \A what : ~Disturb(what)
    BY DEF Disturb, ProgramStep, IInv, StoresInv
  <2> QED BY <2>1 DEF Environment, TreeDisturbed, TreeAppears, TreeVanishes,
          TreeReplaced, TreeTampered, ArchiveRots, WorkerKilled, CommandAborts,
          ControllerLost
<1> QED BY <1>1, <1>2, <1>3, <1>4, <1>5, <1>6, <1>7 DEF Next, Command

\* No step of the program deletes or overwrites the tree the current-home
\* attachment names, for every cluster, catalog age and interleaving.
THEOREM OccupiedHomesKept == Spec => OccupiedHomeKept
<1>1. ASSUME IInv, Next, ProgramStep, attachment # NoHome,
             tree[attachment.rank].id = attachment.id
      PROVE  tree'[attachment.rank] = tree[attachment.rank]
  <2>1. CASE \E p \in Ops :
               \/ \E kind, next : Publish(p, kind, next)
               \/ RelocateCopy(p)
               \/ RelocateCopied(p)
               \/ RelocateExecute(p) \/ RemoveExecute(p)
    BY <1>1, <2>1, WrittenElsewhere
  <2>2. CASE \A p \in Ops :
               /\ \A kind, next : ~Publish(p, kind, next)
               /\ ~RelocateCopy(p) /\ ~RelocateCopied(p)
               /\ ~RelocateExecute(p) /\ ~RemoveExecute(p)
    BY <1>1, <2>2, OtherStepsKeepTrees
  <2> QED BY <2>1, <2>2
<1>2. IInv /\ [Next]_vars =>
        [ /\ ProgramStep
          /\ attachment # NoHome
          /\ tree[attachment.rank].id = attachment.id
          => tree'[attachment.rank] = tree[attachment.rank] ]_vars
  BY <1>1
<1> QED BY <1>2, Invariance, PTL DEF Spec, OccupiedHomeKept

-----------------------------------------------------------------------------
(* A running service has its view.                                         *)

\* What a hot command has established, against the views and the services.
HotOK(o, vs, srv) ==
  /\ o.kind = "launch" => vs[o.rank] = "ready"
  /\ o.kind \in HotWriterKinds => o.rank \notin srv

HotInv == ServingHasView /\ \A p \in Ops : HotOK(op[p], views, serving)

\* A step of anything but a hot command.
LEMMA ColdStepHotInv ==
  ASSUME HotInv, UNCHANGED userVars,
         \A q \in Ops : op'[q] = op[q] \/ op'[q].kind \notin HotKinds
  PROVE  HotInv'
BY DEF HotInv, HotOK, ServingHasView, userVars, HotKinds, HotWriterKinds

\* A publication continues its command or ends it.
LEMMA PublishKeepsKind ==
  ASSUME IInv, NEW p \in Ops, NEW kind \in {"add", "restore"}, NEW next,
         Publish(p, kind, next)
  PROVE  /\ UNCHANGED userVars
         /\ \A q \in Ops : op'[q] = op[q] \/ op'[q].kind \notin HotKinds
<1>1. op \in [Ops -> Commands] /\ op[p].kind = kind /\ UNCHANGED userVars
  BY DEF IInv, OpInv, Publish, At
<1>2. CASE Finish(p)
  BY <1>1, <1>2 DEF Finish, Idle, HotKinds, HotWriterKinds
<1>3. CASE \E i \in Ids : op' = [op EXCEPT ![p].pc = next, ![p].id = i]
  <2>1. PICK i \in Ids :
          op' = [op EXCEPT ![p] = [op[p] EXCEPT !.pc = next, !.id = i]]
    BY <1>3
  <2>2. [op[p] EXCEPT !.pc = next, !.id = i].kind = kind
    BY <1>1 DEF Commands
  <2> QED BY <1>1, <2>1, <2>2 DEF HotKinds, HotWriterKinds
<1> QED BY <1>1, <1>2, <1>3 DEF Publish

\* The home commands stay what they are or end.
LEMMA HomeCommandsKeepKind ==
  ASSUME IInv, NEW p \in Ops,
         HomeAdd(p) \/ HomeRelocate(p) \/ HomeRemove(p) \/ HomeRestore(p)
  PROVE  /\ UNCHANGED userVars
         /\ \A q \in Ops : op'[q] = op[q] \/ op'[q].kind \notin HotKinds
<1> DEFINE Stays == \A q \in Ops : op'[q] = op[q] \/ op'[q].kind \notin HotKinds
<1> USE DEF At, Begin, Finish, Goto, Idle, Commands, HotKinds, HotWriterKinds
<1>1. op \in [Ops -> Commands]
  BY DEF IInv, OpInv
<1>2. ASSUME HomeAdd(p) PROVE UNCHANGED userVars /\ Stays
  <2>1. CASE AddPlan(p)
    BY <1>1, <2>1 DEF AddPlan
  <2>2. CASE AddDownload(p)
    BY <1>1, <2>2 DEF AddDownload
  <2>3. CASE AddVerify(p)
    BY <1>1, <2>3 DEF AddVerify
  <2>4. CASE AddRecheck(p)
    BY <1>1, <2>4 DEF AddRecheck, Recheck
  <2>5. CASE AddReceipt(p)
    BY <1>1, <2>5 DEF AddReceipt
  <2>6. CASE AddPublish(p)
    BY <2>6, PublishKeepsKind DEF AddPublish
  <2>7. CASE AddAttach(p)
    BY <1>1, <2>7 DEF AddAttach, Attach
  <2>8. CASE AddEnqueue(p)
    BY <1>1, <2>8 DEF AddEnqueue
  <2> QED BY <1>2, <2>1, <2>2, <2>3, <2>4, <2>5, <2>6, <2>7, <2>8 DEF HomeAdd
<1>3. ASSUME HomeRelocate(p) PROVE UNCHANGED userVars /\ Stays
  <2>1. CASE RelocatePlan(p)
    BY <1>1, <2>1 DEF RelocatePlan
  <2>2. CASE RelocateCopy(p)
    BY <1>1, <2>2 DEF RelocateCopy
  <2>3. CASE RelocateCopied(p)
    BY <1>1, <2>3 DEF RelocateCopied
  <2>4. CASE RelocateHash(p)
    BY <1>1, <2>4 DEF RelocateHash
  <2>5. CASE RelocateIdentity(p)
    BY <1>1, <2>5 DEF RelocateIdentity
  <2>6. CASE RelocateOccupy(p)
    BY <1>1, <2>6 DEF RelocateOccupy, Attach
  <2>7. CASE RelocateRetire(p)
    BY <1>1, <2>7 DEF RelocateRetire
  <2>8. CASE RelocateExecute(p)
    BY <1>1, <2>8 DEF RelocateExecute, Execute
  <2> QED BY <1>3, <2>1, <2>2, <2>3, <2>4, <2>5, <2>6, <2>7, <2>8 DEF HomeRelocate
<1>4. ASSUME HomeRemove(p) PROVE UNCHANGED userVars /\ Stays
  <2>1. CASE RemovePlan(p)
    BY <1>1, <2>1 DEF RemovePlan
  <2>2. CASE RemoveReverify(p)
    BY <1>1, <2>2 DEF RemoveReverify
  <2>3. CASE RemoveDetach(p)
    BY <1>1, <2>3 DEF RemoveDetach
  <2>4. CASE RemoveExecute(p)
    BY <1>1, <2>4 DEF RemoveExecute, Execute
  <2>5. CASE RemoveRefresh(p)
    BY <1>1, <2>5 DEF RemoveRefresh
  <2> QED BY <1>4, <2>1, <2>2, <2>3, <2>4, <2>5 DEF HomeRemove
<1>5. ASSUME HomeRestore(p) PROVE UNCHANGED userVars /\ Stays
  <2>1. CASE RestorePlan(p)
    BY <1>1, <2>1 DEF RestorePlan
  <2>2. CASE RestoreCopy(p)
    BY <1>1, <2>2 DEF RestoreCopy
  <2>3. CASE RestoreHash(p)
    BY <1>1, <2>3 DEF RestoreHash
  <2>4. CASE RestoreRecheck(p)
    BY <1>1, <2>4 DEF RestoreRecheck, Recheck
  <2>5. CASE RestorePublish(p)
    BY <2>5, PublishKeepsKind DEF RestorePublish
  <2>6. CASE RestoreOccupy(p)
    BY <1>1, <2>6 DEF RestoreOccupy, Attach
  <2> QED BY <1>5, <2>1, <2>2, <2>3, <2>4, <2>5, <2>6 DEF HomeRestore
<1> HIDE DEF At, Begin, Finish, Goto, Idle, Commands, HotKinds, HotWriterKinds
<1> QED BY <1>1, <1>2, <1>3, <1>4, <1>5

\* A hot command begins, with what its plan has just read.
LEMMA HotPlanHotInv ==
  ASSUME IInv, HotInv, NEW p \in Ops, NEW first,
         HotOK(first, views, serving), op' = [op EXCEPT ![p] = first],
         UNCHANGED userVars
  PROVE  HotInv'
BY DEF IInv, OpInv, HotInv, HotOK, ServingHasView, userVars

\* A view changes under the exclusive hot lock, and no service reads it.
LEMMA ViewHotInv ==
  ASSUME IInv, HotInv, NEW p \in Ops, op[p].kind \in HotWriterKinds,
         NEW o, op' = [op EXCEPT ![p] = o], HotOK(o, views', serving),
         op[p].rank \notin serving, UNCHANGED serving,
         NEW v, views' = [views EXCEPT ![op[p].rank] = v]
  PROVE  HotInv'
<1>1. op \in [Ops -> Commands] /\ views \in [Ranks -> ViewStates]
  BY DEF IInv, OpInv, StoresInv
<1>2. ServingHasView'
  BY <1>1 DEF HotInv, ServingHasView, IInv, StoresInv
<1>3. ASSUME NEW q \in Ops
      PROVE  HotOK(op'[q], views', serving)
  <2>1. CASE q = p
    BY <1>1, <2>1
  <2>2. CASE q # p
    <3>1. op[q].kind \notin HotKinds
      BY <2>2 DEF IInv, OpInv, Locks, HotWriterAlone
    <3> QED BY <1>1, <2>2, <3>1 DEF HotOK, HotKinds, HotWriterKinds
  <2> QED BY <2>1, <2>2
<1> QED BY <1>2, <1>3 DEF HotInv

\* The hot commands keep views and services together.
LEMMA HotUseHotInv ==
  ASSUME IInv, HotInv, NEW p \in Ops, HotUse(p)
  PROVE  HotInv'
<1>1. CASE PreparePlan(p)
  <2>1. PICK r \in Ranks :
          /\ r \notin serving
          /\ op' = [op EXCEPT ![p] = [Idle EXCEPT !.kind = "prepare",
                                         !.pc = "copy", !.rank = r]]
    BY <1>1 DEF PreparePlan, Begin
  <2>2. HotOK([Idle EXCEPT !.kind = "prepare", !.pc = "copy", !.rank = r],
              views, serving)
    BY <2>1 DEF HotOK, Idle, HotWriterKinds
  <2> QED BY <1>1, <2>1, <2>2, HotPlanHotInv DEF PreparePlan
<1>2. CASE PurgePlan(p)
  <2>1. PICK r \in Ranks :
          /\ r \notin serving
          /\ op' = [op EXCEPT ![p] = [Idle EXCEPT !.kind = "purge",
                                         !.pc = "execute", !.rank = r]]
    BY <1>2 DEF PurgePlan, Begin
  <2>2. HotOK([Idle EXCEPT !.kind = "purge", !.pc = "execute", !.rank = r],
              views, serving)
    BY <2>1 DEF HotOK, Idle, HotWriterKinds
  <2> QED BY <1>2, <2>1, <2>2, HotPlanHotInv DEF PurgePlan
<1>3. CASE LaunchPlan(p)
  <2>1. PICK r \in Ranks :
          /\ views[r] = "ready"
          /\ op' = [op EXCEPT ![p] = [Idle EXCEPT !.kind = "launch",
                                         !.pc = "start", !.rank = r]]
    BY <1>3 DEF LaunchPlan, Begin
  <2>2. HotOK([Idle EXCEPT !.kind = "launch", !.pc = "start", !.rank = r],
              views, serving)
    BY <2>1 DEF HotOK, Idle, HotWriterKinds
  <2> QED BY <1>3, <2>1, <2>2, HotPlanHotInv DEF LaunchPlan
<1>4. CASE PrepareCopy(p)
  <2>1. op[p] \in Commands /\ op[p].kind = "prepare" /\ op[p].rank \in Ranks
    BY <1>4 DEF IInv, OpInv, CommandOK, PrepareCopy, At
  <2>2. op[p].rank \notin serving
    BY <2>1 DEF HotInv, HotOK, HotWriterKinds
  <2>3. HotOK([op[p] EXCEPT !.pc = "verify"], views', serving)
    BY <2>1, <2>2 DEF HotOK, Commands
  <2>4. /\ op' = [op EXCEPT ![p] = [op[p] EXCEPT !.pc = "verify"]]
        /\ op[p].kind \in HotWriterKinds
        /\ views' = [views EXCEPT ![op[p].rank] = "verifying"]
        /\ UNCHANGED serving
    BY <1>4, <2>1 DEF PrepareCopy, Goto, HotWriterKinds
  <2> QED BY <2>2, <2>3, <2>4, ViewHotInv
<1>5. CASE PrepareVerify(p)
  <2>1. /\ op[p].kind = "prepare" /\ op' = [op EXCEPT ![p] = Idle]
        /\ op[p].kind \in HotWriterKinds /\ UNCHANGED serving
    BY <1>5 DEF PrepareVerify, At, Finish, HotWriterKinds
  <2>2. op[p].rank \notin serving
    BY <2>1 DEF HotInv, HotOK, HotWriterKinds
  <2>3. HotOK(Idle, views', serving)
    BY DEF HotOK, Idle, HotWriterKinds
  <2> QED BY <1>5, <2>1, <2>2, <2>3, ViewHotInv DEF PrepareVerify
<1>6. CASE PurgeExecute(p)
  <2>1. /\ op[p].kind = "purge" /\ op' = [op EXCEPT ![p] = Idle]
        /\ op[p].kind \in HotWriterKinds /\ UNCHANGED serving
    BY <1>6 DEF PurgeExecute, At, Finish, HotWriterKinds
  <2>2. op[p].rank \notin serving
    BY <2>1 DEF HotInv, HotOK, HotWriterKinds
  <2>3. HotOK(Idle, views', serving)
    BY DEF HotOK, Idle, HotWriterKinds
  <2> QED BY <1>6, <2>1, <2>2, <2>3, ViewHotInv DEF PurgeExecute
<1>7. CASE LaunchStart(p)
  <2>1. /\ op[p].kind = "launch" /\ op' = [op EXCEPT ![p] = Idle]
        /\ serving' = serving \cup {op[p].rank} /\ UNCHANGED views
    BY <1>7 DEF LaunchStart, At, Finish
  <2>2. ServingHasView'
    BY <2>1 DEF HotInv, HotOK, ServingHasView
  <2>3. ASSUME NEW q \in Ops
        PROVE  HotOK(op'[q], views, serving')
    <3>1. CASE q = p
      BY <2>1, <3>1 DEF IInv, OpInv, HotOK, Idle, HotWriterKinds
    <3>2. CASE q # p
      <4>1. op[q].kind \notin HotWriterKinds
        BY <2>1, <3>2 DEF IInv, OpInv, Locks, HotWriterAlone, HotKinds
      <4>2. op'[q] = op[q]
        BY <2>1, <3>2 DEF IInv, OpInv
      <4> QED BY <4>1, <4>2 DEF HotInv, HotOK, HotWriterKinds
    <3> QED BY <3>1, <3>2
  <2> QED BY <2>1, <2>2, <2>3 DEF HotInv
<1> QED BY <1>1, <1>2, <1>3, <1>4, <1>5, <1>6, <1>7 DEF HotUse

\* Views and services stay together under every step.
LEMMA NextHotInv == IInv /\ HotInv /\ [Next]_vars => HotInv'
<1> SUFFICES ASSUME IInv, HotInv, [Next]_vars PROVE HotInv'
  OBVIOUS
<1>1. ASSUME NEW p \in Ops, Command(p)
      PROVE  HotInv'
  BY <1>1, HomeCommandsKeepKind, ColdStepHotInv, HotUseHotInv DEF Command
<1>2. ASSUME NEW c \in Receipts, ArchiveRun(c) \/ HomeArchive(c)
      PROVE  HotInv'
  <2>1. UNCHANGED <<userVars, op>>
    BY <1>2 DEF ArchiveRun, HomeArchive, ArchiveStart, ArchiveRead, ArchiveCopy,
       ArchiveReplica, ArchivePublish, ArchiveComplete
  <2> QED BY <2>1, ColdStepHotInv
<1>3. CASE CatalogRefresh \/ HomeReceipt \/ UNCHANGED vars
  <2>1. UNCHANGED <<userVars, op>>
    BY <1>3 DEF CatalogRefresh, HomeReceipt, ReceiptBackup, ReceiptRecover, vars
  <2> QED BY <2>1, ColdStepHotInv
<1>4. ASSUME NEW r \in Ranks, Stop(r)
      PROVE  HotInv'
  BY <1>4 DEF Stop, HotInv, HotOK, ServingHasView
<1>5. CASE Environment
  <2>1. /\ UNCHANGED userVars
        /\ \A q \in Ops : op'[q] = op[q] \/ op'[q].kind \notin HotKinds
    BY <1>5 DEF Environment, TreeDisturbed, TreeAppears, TreeVanishes,
       TreeReplaced, TreeTampered, ArchiveRots, WorkerKilled, CommandAborts,
       Finish, ControllerLost, Idle, HotKinds, HotWriterKinds, IInv, OpInv
  <2> QED BY <2>1, ColdStepHotInv
<1> QED BY <1>1, <1>2, <1>3, <1>4, <1>5 DEF Next

\* A running service always has its ready view: purge-hot and a launch exclude
\* each other between the check of one and the effect of the other.
THEOREM ServingViewsHeld == Spec => []ServingHasView
<1>1. Init => HotInv
  BY DEF Init, HotInv, HotOK, ServingHasView, Idle
<1>2. HotInv => ServingHasView
  BY DEF HotInv
<1> QED BY <1>1, <1>2, NextHotInv, Invariance, PTL DEF Spec

-----------------------------------------------------------------------------
(* A command's step changes its own record alone.                          *)

\* A command of these kinds goes on, ends or begins, and no other moves.
Moved(p, kinds) ==
  /\ \A q \in Ops \ {p} : op'[q] = op[q]
  /\ op'[p].kind \in kinds \cup {"idle"}
  /\ op[p].kind \in kinds \/ \E k \in kinds : LifecycleFree(p, k)

\* A publication continues its command or ends it.
LEMMA PublishMoves ==
  ASSUME IInv, NEW p \in Ops, NEW kind, NEW next, Publish(p, kind, next)
  PROVE  Moved(p, {kind})
<1>1. op \in [Ops -> Commands] /\ op[p].kind = kind
  BY DEF IInv, OpInv, Publish, At
<1>2. CASE Finish(p)
  BY <1>1, <1>2 DEF Finish, Idle, Moved
<1>3. CASE \E i \in Ids : op' = [op EXCEPT ![p].pc = next, ![p].id = i]
  <2>1. PICK i \in Ids :
          op' = [op EXCEPT ![p] = [op[p] EXCEPT !.pc = next, !.id = i]]
    BY <1>3
  <2>2. [op[p] EXCEPT !.pc = next, !.id = i].kind = kind
    BY <1>1 DEF Commands
  <2> QED BY <1>1, <2>1, <2>2 DEF Moved
<1> QED BY <1>1, <1>2, <1>3 DEF Publish

\* Every step of a command is its own.
LEMMA CommandMoves ==
  ASSUME IInv, NEW p \in Ops
  PROVE  /\ HomeAdd(p) => Moved(p, {"add"})
         /\ HomeRelocate(p) => Moved(p, {"relocate"})
         /\ HomeRemove(p) => Moved(p, {"remove"})
         /\ HomeRestore(p) => Moved(p, {"restore"})
         /\ HotUse(p) => Moved(p, HotKinds)
<1> USE DEF At, Begin, Finish, Goto, Idle, Commands, HotKinds, HotWriterKinds, Moved
<1>1. op \in [Ops -> Commands]
  BY DEF IInv, OpInv
<1>2. ASSUME HomeAdd(p) PROVE Moved(p, {"add"})
  <2>1. CASE AddPlan(p)
    BY <1>1, <2>1 DEF AddPlan
  <2>2. CASE AddDownload(p)
    BY <1>1, <2>2 DEF AddDownload
  <2>3. CASE AddVerify(p)
    BY <1>1, <2>3 DEF AddVerify
  <2>4. CASE AddRecheck(p)
    BY <1>1, <2>4 DEF AddRecheck, Recheck
  <2>5. CASE AddReceipt(p)
    BY <1>1, <2>5 DEF AddReceipt
  <2>6. CASE AddPublish(p)
    BY <2>6, PublishMoves DEF AddPublish
  <2>7. CASE AddAttach(p)
    BY <1>1, <2>7 DEF AddAttach, Attach
  <2>8. CASE AddEnqueue(p)
    BY <1>1, <2>8 DEF AddEnqueue
  <2> QED BY <1>2, <2>1, <2>2, <2>3, <2>4, <2>5, <2>6, <2>7, <2>8 DEF HomeAdd
<1>3. ASSUME HomeRelocate(p) PROVE Moved(p, {"relocate"})
  <2>1. CASE RelocatePlan(p)
    BY <1>1, <2>1 DEF RelocatePlan
  <2>2. CASE RelocateCopy(p)
    BY <1>1, <2>2 DEF RelocateCopy
  <2>3. CASE RelocateCopied(p)
    BY <1>1, <2>3 DEF RelocateCopied
  <2>4. CASE RelocateHash(p)
    BY <1>1, <2>4 DEF RelocateHash
  <2>5. CASE RelocateIdentity(p)
    BY <1>1, <2>5 DEF RelocateIdentity
  <2>6. CASE RelocateOccupy(p)
    BY <1>1, <2>6 DEF RelocateOccupy, Attach
  <2>7. CASE RelocateRetire(p)
    BY <1>1, <2>7 DEF RelocateRetire
  <2>8. CASE RelocateExecute(p)
    BY <1>1, <2>8 DEF RelocateExecute, Execute
  <2> QED BY <1>3, <2>1, <2>2, <2>3, <2>4, <2>5, <2>6, <2>7, <2>8 DEF HomeRelocate
<1>4. ASSUME HomeRemove(p) PROVE Moved(p, {"remove"})
  <2>1. CASE RemovePlan(p)
    BY <1>1, <2>1 DEF RemovePlan
  <2>2. CASE RemoveReverify(p)
    BY <1>1, <2>2 DEF RemoveReverify
  <2>3. CASE RemoveDetach(p)
    BY <1>1, <2>3 DEF RemoveDetach
  <2>4. CASE RemoveExecute(p)
    BY <1>1, <2>4 DEF RemoveExecute, Execute
  <2>5. CASE RemoveRefresh(p)
    BY <1>1, <2>5 DEF RemoveRefresh
  <2> QED BY <1>4, <2>1, <2>2, <2>3, <2>4, <2>5 DEF HomeRemove
<1>5. ASSUME HomeRestore(p) PROVE Moved(p, {"restore"})
  <2>1. CASE RestorePlan(p)
    BY <1>1, <2>1 DEF RestorePlan
  <2>2. CASE RestoreCopy(p)
    BY <1>1, <2>2 DEF RestoreCopy
  <2>3. CASE RestoreHash(p)
    BY <1>1, <2>3 DEF RestoreHash
  <2>4. CASE RestoreRecheck(p)
    BY <1>1, <2>4 DEF RestoreRecheck, Recheck
  <2>5. CASE RestorePublish(p)
    BY <2>5, PublishMoves DEF RestorePublish
  <2>6. CASE RestoreOccupy(p)
    BY <1>1, <2>6 DEF RestoreOccupy, Attach
  <2> QED BY <1>5, <2>1, <2>2, <2>3, <2>4, <2>5, <2>6 DEF HomeRestore
<1>6. ASSUME HotUse(p) PROVE Moved(p, HotKinds)
  <2>1. CASE PreparePlan(p)
    BY <1>1, <2>1 DEF PreparePlan
  <2>2. CASE PrepareCopy(p)
    BY <1>1, <2>2 DEF PrepareCopy
  <2>3. CASE PrepareVerify(p)
    BY <1>1, <2>3 DEF PrepareVerify
  <2>4. CASE PurgePlan(p)
    BY <1>1, <2>4 DEF PurgePlan
  <2>5. CASE PurgeExecute(p)
    BY <1>1, <2>5 DEF PurgeExecute
  <2>6. CASE LaunchPlan(p)
    BY <1>1, <2>6 DEF LaunchPlan
  <2>7. CASE LaunchStart(p)
    BY <1>1, <2>7 DEF LaunchStart
  <2> QED BY <1>6, <2>1, <2>2, <2>3, <2>4, <2>5, <2>6, <2>7 DEF HotUse
<1> HIDE DEF At, Begin, Finish, Goto, Idle, Commands, HotKinds, HotWriterKinds, Moved
<1> QED BY <1>2, <1>3, <1>4, <1>5, <1>6

\* Beside a command with the exclusive lock no command moves.
LEMMA ExclusiveMoves ==
  ASSUME IInv, NEW p \in Ops, NEW q \in Ops, NEW kinds, Moved(q, kinds),
         op[p].kind \in ExclusiveKinds, "idle" \notin kinds
  PROVE  p = q
<1> SUFFICES ASSUME p # q PROVE FALSE OBVIOUS
<1>1. op[q].kind = "idle" BY DEF IInv, OpInv, Locks, ExclusiveAlone
<1>2. PICK k \in kinds : LifecycleFree(q, k) BY <1>1 DEF Moved
<1>3. op[p].kind # "idle" BY DEF ExclusiveKinds
<1> QED BY <1>2, <1>3 DEF LifecycleFree

-----------------------------------------------------------------------------
(* A complete job has its recovery set.                                    *)

\* Job state j, worker step w and archive a of receipt c, with the replicas.
RecoveryOK(c, j, w, reps, a) ==
  /\ j = "complete" => c \in reps /\ a # "none"
  /\ w \in {"archive", "complete"} => c \in reps
  /\ w = "complete" => a # "none"

RecoveryInv ==
  \A c \in Receipts : RecoveryOK(c, job[c], worker[c].pc, replica, archive[c])

\* A step of the worker of c, its queue or its killer concerns c alone.
LEMMA WorkerOf ==
  ASSUME IInv, RecoveryInv, NEW c \in Receipts, NEW j, NEW w, NEW a,
         job' = [job EXCEPT ![c] = j], worker' = [worker EXCEPT ![c] = w],
         archive' = [archive EXCEPT ![c] = a], replica \subseteq replica',
         RecoveryOK(c, j, w.pc, replica', a)
  PROVE  RecoveryInv'
<1> SUFFICES ASSUME NEW d \in Receipts
             PROVE  RecoveryOK(d, job'[d], worker'[d].pc, replica', archive'[d])
  BY DEF RecoveryInv
<1>1. job \in [Receipts -> JobStates] /\ worker \in [Receipts -> Workers]
      /\ archive \in [Receipts -> {"none", "good", "bad"}]
  BY DEF IInv, ColdInv
<1>2. CASE d = c
  <2>1. job'[d] = j /\ worker'[d] = w /\ archive'[d] = a BY <1>1, <1>2
  <2> QED BY <1>2, <2>1
<1>3. CASE d # c
  <2>1. job'[d] = job[d] /\ worker'[d] = worker[d] /\ archive'[d] = archive[d]
    BY <1>1, <1>3
  <2>2. RecoveryOK(d, job[d], worker[d].pc, replica, archive[d]) BY DEF RecoveryInv
  <2> QED BY <2>1, <2>2 DEF RecoveryOK
<1> QED BY <1>2, <1>3

LEMMA RecoveryStutter ==
  ASSUME RecoveryInv, UNCHANGED coldVars
  PROVE  RecoveryInv'
BY DEF RecoveryInv, RecoveryOK, coldVars

\* Only enqueue, among the commands, writes recovery state.
LEMMA CommandRecovery ==
  ASSUME IInv, RecoveryInv, NEW p \in Ops, Command(p)
  PROVE  RecoveryInv'
<1>1. CASE AddEnqueue(p)
  <2> DEFINE c == op[p].rc
  <2>1. PICK state \in ColdAnswers :
          /\ job' = [job EXCEPT ![c] = state]
          /\ IF state = "pending" /\ worker[c] = NoWorker
               THEN worker' = [worker EXCEPT ![c].pc = "start"]
               ELSE UNCHANGED worker
    BY <1>1 DEF AddEnqueue
  <2>2. c \in Receipts /\ UNCHANGED <<replica, archive>>
    BY <1>1 DEF AddEnqueue, At, IInv, StoresInv, OpInv, CommandOK
  <2>3. state # "complete" BY ColdAnswersAssumption
  <2>4. /\ worker \in [Receipts -> Workers] /\ archive \in [Receipts -> {"none", "good", "bad"}]
        /\ RecoveryOK(c, job[c], worker[c].pc, replica, archive[c])
    BY <2>2 DEF IInv, ColdInv, RecoveryInv
  <2> HIDE DEF c
  <2>5. PICK w : /\ worker' = [worker EXCEPT ![c] = w]
                 /\ w.pc = "start" \/ w = worker[c]
    <3>1. CASE worker' = [worker EXCEPT ![c].pc = "start"]
      <4> DEFINE w == [worker[c] EXCEPT !.pc = "start"]
      <4>1. worker' = [worker EXCEPT ![c] = w] BY <3>1
      <4>2. w.pc = "start" BY <2>2, <2>4 DEF Workers
      <4> QED BY <4>1, <4>2
    <3>2. CASE UNCHANGED worker
      <4>1. worker' = [worker EXCEPT ![c] = worker[c]] BY <2>2, <2>4, <3>2
      <4> QED BY <4>1
    <3> QED BY <2>1, <3>1, <3>2
  <2>6. archive' = [archive EXCEPT ![c] = archive[c]] BY <2>2, <2>4
  <2>7. RecoveryOK(c, state, w.pc, replica', archive[c])
    BY <2>2, <2>3, <2>4, <2>5 DEF RecoveryOK
  <2> QED BY <2>1, <2>2, <2>5, <2>6, <2>7, WorkerOf
<1>2. CASE ~AddEnqueue(p)
  <2>1. ASSUME HomeAdd(p) PROVE UNCHANGED coldVars
    BY <1>2, <2>1 DEF HomeAdd, AddPlan, AddDownload, AddVerify, AddRecheck, Recheck,
       AddReceipt, AddPublish, Publish, AddAttach, Attach
  <2>2. ASSUME HomeRelocate(p) PROVE UNCHANGED coldVars
    BY <2>2 DEF HomeRelocate, RelocatePlan, RelocateCopy, RelocateCopied, RelocateHash,
       RelocateIdentity, RelocateOccupy, Attach, RelocateRetire, RelocateExecute, Execute
  <2>3. ASSUME HomeRemove(p) \/ HomeRestore(p) PROVE UNCHANGED coldVars
    BY <2>3 DEF HomeRemove, RemovePlan, RemoveReverify, RemoveDetach, RemoveExecute,
       Execute, RemoveRefresh, HomeRestore, RestorePlan, RestoreCopy, RestoreHash,
       RestoreRecheck, Recheck, RestorePublish, Publish, RestoreOccupy, Attach
  <2>4. ASSUME HotUse(p) PROVE UNCHANGED coldVars
    BY <2>4 DEF HotUse, PreparePlan, PrepareCopy, PrepareVerify, PurgePlan,
       PurgeExecute, LaunchPlan, LaunchStart
  <2> QED BY <2>1, <2>2, <2>3, <2>4, RecoveryStutter DEF Command
<1> QED BY <1>1, <1>2

\* A worker writes its receipt's replica before its archive and its archive before
\* its job.
LEMMA ArchiveRecovery ==
  ASSUME IInv, RecoveryInv, NEW c \in Receipts, ArchiveRun(c) \/ HomeArchive(c)
  PROVE  RecoveryInv'
<1>1. /\ job \in [Receipts -> JobStates] /\ worker \in [Receipts -> Workers]
      /\ archive \in [Receipts -> {"none", "good", "bad"}]
      /\ RecoveryOK(c, job[c], worker[c].pc, replica, archive[c])
  BY DEF IInv, ColdInv, RecoveryInv
<1> DEFINE \* the worker goes on at step s
           On(s) == worker' = [worker EXCEPT ![c] = [worker[c] EXCEPT !.pc = s]]
           keepA == archive' = [archive EXCEPT ![c] = archive[c]]
           keepJ == job' = [job EXCEPT ![c] = job[c]]
<1>2. /\ UNCHANGED archive => keepA
      /\ UNCHANGED job => keepJ
  BY <1>1
<1>3. \A s : [worker[c] EXCEPT !.pc = s].pc = s
  BY <1>1 DEF Workers
<1>4. NoWorker.pc = "idle" BY DEF NoWorker
<1>5. ASSUME ArchiveFails(c), keepA, UNCHANGED replica PROVE RecoveryInv'
  <2>1. RecoveryOK(c, "failed", NoWorker.pc, replica', archive[c])
    BY <1>4 DEF RecoveryOK
  <2> QED BY <1>5, <2>1, WorkerOf DEF ArchiveFails
<1>6. ASSUME NEW j, NEW w, NEW a, job' = [job EXCEPT ![c] = j],
             worker' = [worker EXCEPT ![c] = w], archive' = [archive EXCEPT ![c] = a],
             replica \subseteq replica', RecoveryOK(c, j, w.pc, replica', a)
      PROVE  RecoveryInv'
  BY <1>6, WorkerOf
<1>7. CASE ArchiveRun(c)
  <2> DEFINE w == [worker[c] EXCEPT !.pc = "start"]
  <2>1. worker' = [worker EXCEPT ![c] = w] /\ w.pc = "start" /\ keepJ /\ keepA
        /\ UNCHANGED replica
    BY <1>2, <1>3, <1>7 DEF ArchiveRun
  <2> HIDE DEF w
  <2>2. RecoveryOK(c, job[c], w.pc, replica', archive[c]) BY <1>1, <2>1 DEF RecoveryOK
  <2> QED BY <1>6, <2>1, <2>2
<1>8. CASE ArchiveStart(c)
  <2>1. CASE /\ job' = [job EXCEPT ![c] = "running"]
             /\ worker' = [worker EXCEPT ![c].pc = "read"]
    <3> DEFINE w == [worker[c] EXCEPT !.pc = "read"]
    <3>1. worker' = [worker EXCEPT ![c] = w] /\ w.pc = "read" /\ keepA /\ UNCHANGED replica
      BY <1>2, <1>3, <1>8, <2>1 DEF ArchiveStart
    <3> HIDE DEF w
    <3>2. RecoveryOK(c, "running", w.pc, replica', archive[c]) BY <1>1, <3>1 DEF RecoveryOK
    <3> QED BY <1>6, <2>1, <3>1, <3>2
  <2>2. CASE worker' = [worker EXCEPT ![c] = NoWorker] /\ UNCHANGED job
    <3>1. keepJ /\ keepA /\ UNCHANGED replica BY <1>2, <1>8, <2>2 DEF ArchiveStart
    <3>2. RecoveryOK(c, job[c], NoWorker.pc, replica', archive[c])
      BY <1>1, <1>4, <3>1 DEF RecoveryOK
    <3> QED BY <1>6, <2>2, <3>1, <3>2
  <2> QED BY <1>8, <2>1, <2>2 DEF ArchiveStart
<1>9. CASE ArchiveRead(c)
  <2>1. CASE ArchiveFails(c) BY <1>2, <1>5, <1>9, <2>1 DEF ArchiveRead
  <2>2. CASE /\ worker' = [worker EXCEPT
                             ![c].rank = attachment.rank,
                             ![c].pc = IF attachment.rank = Controller
                                         THEN "replica" ELSE "copy"]
             /\ UNCHANGED job
    <3> DEFINE s == IF attachment.rank = Controller THEN "replica" ELSE "copy"
               w == [worker[c] EXCEPT !.rank = attachment.rank, !.pc = s]
    <3>1. worker' = [worker EXCEPT ![c] = w] BY <1>1, <2>2
    <3>2. w.pc = s /\ s \notin {"archive", "complete"} BY <1>1 DEF Workers
    <3> HIDE DEF w, s
    <3>3. keepJ /\ keepA /\ UNCHANGED replica BY <1>2, <1>9, <2>2 DEF ArchiveRead
    <3>4. RecoveryOK(c, job[c], w.pc, replica', archive[c])
      BY <1>1, <3>2, <3>3 DEF RecoveryOK
    <3> QED BY <1>6, <3>1, <3>3, <3>4
  <2> QED BY <1>9, <2>1, <2>2 DEF ArchiveRead
<1>10. CASE ArchiveCopy(c)
  <2>1. CASE ArchiveFails(c) BY <1>2, <1>5, <1>10, <2>1 DEF ArchiveCopy
  <2>2. CASE /\ worker' = [worker EXCEPT
                             ![c].pc = "replica",
                             ![c].content = tree[worker[c].rank].content]
             /\ UNCHANGED job
    <3> DEFINE b == tree[worker[c].rank].content
               w == [worker[c] EXCEPT !.pc = "replica", !.content = b]
    <3>1. worker' = [worker EXCEPT ![c] = w] BY <1>1, <2>2
    <3>2. w.pc = "replica" BY <1>1 DEF Workers
    <3> HIDE DEF w, b
    <3>3. keepJ /\ keepA /\ UNCHANGED replica BY <1>2, <1>10, <2>2 DEF ArchiveCopy
    <3>4. RecoveryOK(c, job[c], w.pc, replica', archive[c])
      BY <1>1, <3>2, <3>3 DEF RecoveryOK
    <3> QED BY <1>6, <3>1, <3>3, <3>4
  <2> QED BY <1>10, <2>1, <2>2 DEF ArchiveCopy
<1>11. CASE ArchiveReplica(c)
  <2>1. CASE ArchiveFails(c) /\ UNCHANGED replica
    BY <1>2, <1>5, <1>11, <2>1 DEF ArchiveReplica
  <2>2. CASE /\ replica' = replica \cup {c}
             /\ worker' = [worker EXCEPT ![c].pc = "archive"]
             /\ UNCHANGED job
    <3> DEFINE w == [worker[c] EXCEPT !.pc = "archive"]
    <3>1. worker' = [worker EXCEPT ![c] = w] /\ w.pc = "archive" BY <1>1, <1>3, <2>2
    <3> HIDE DEF w
    <3>2. keepJ /\ keepA BY <1>2, <1>11, <2>2 DEF ArchiveReplica
    <3>3. RecoveryOK(c, job[c], w.pc, replica', archive[c])
      BY <1>1, <2>2, <3>1 DEF RecoveryOK
    <3> QED BY <1>6, <2>2, <3>1, <3>2, <3>3
  <2> QED BY <1>11, <2>1, <2>2 DEF ArchiveReplica
<1>12. CASE ArchivePublish(c)
  <2>1. CASE ArchiveFails(c) /\ UNCHANGED archive
    BY <1>2, <1>5, <1>12, <2>1 DEF ArchivePublish
  <2>2. CASE /\ archive' = [archive EXCEPT ![c] = "good"]
             /\ worker' = [worker EXCEPT ![c].pc = "complete"]
             /\ UNCHANGED job
    <3> DEFINE w == [worker[c] EXCEPT !.pc = "complete"]
    <3>1. worker' = [worker EXCEPT ![c] = w] /\ w.pc = "complete" BY <1>1, <1>3, <2>2
    <3> HIDE DEF w
    <3>2. keepJ /\ UNCHANGED replica /\ worker[c].pc = "archive"
      BY <1>2, <1>12, <2>2 DEF ArchivePublish
    <3>3. RecoveryOK(c, job[c], w.pc, replica', "good")
      BY <1>1, <3>1, <3>2 DEF RecoveryOK
    <3> QED BY <1>6, <2>2, <3>1, <3>2, <3>3
  <2> QED BY <1>12, <2>1, <2>2 DEF ArchivePublish
<1>13. CASE ArchiveComplete(c)
  <2>1. keepA /\ UNCHANGED replica /\ worker[c].pc = "complete"
    BY <1>2, <1>13 DEF ArchiveComplete
  <2>2. RecoveryOK(c, "complete", NoWorker.pc, replica', archive[c])
    BY <1>1, <1>4, <2>1 DEF RecoveryOK
  <2> QED BY <1>6, <1>13, <2>1, <2>2 DEF ArchiveComplete
<1> QED BY <1>7, <1>8, <1>9, <1>10, <1>11, <1>12, <1>13 DEF HomeArchive

\* What is recorded complete stays recoverable under every step.
LEMMA NextRecoveryInv == IInv /\ RecoveryInv /\ [Next]_vars => RecoveryInv'
<1> SUFFICES ASSUME IInv, RecoveryInv, [Next]_vars PROVE RecoveryInv'
  OBVIOUS
<1>1. ASSUME NEW c \in Receipts, ArchiveRots(c) PROVE RecoveryInv'
  <2>1. /\ job' = [job EXCEPT ![c] = job[c]] /\ worker' = [worker EXCEPT ![c] = worker[c]]
        /\ archive' = [archive EXCEPT ![c] = "bad"] /\ UNCHANGED replica
    BY <1>1 DEF ArchiveRots, IInv, ColdInv
  <2>2. archive[c] = "good" /\ RecoveryOK(c, job[c], worker[c].pc, replica, archive[c])
    BY <1>1 DEF ArchiveRots, RecoveryInv
  <2>3. RecoveryOK(c, job[c], worker[c].pc, replica', "bad")
    BY <2>1, <2>2 DEF RecoveryOK
  <2> QED BY <2>1, <2>3, WorkerOf
<1>2. ASSUME NEW c \in Receipts, WorkerKilled(c) PROVE RecoveryInv'
  <2>1. /\ job' = [job EXCEPT ![c] = job[c]] /\ worker' = [worker EXCEPT ![c] = NoWorker]
        /\ archive' = [archive EXCEPT ![c] = archive[c]] /\ UNCHANGED replica
    BY <1>2 DEF WorkerKilled, IInv, ColdInv
  <2>2. RecoveryOK(c, job[c], worker[c].pc, replica, archive[c]) BY DEF RecoveryInv
  <2>3. RecoveryOK(c, job[c], NoWorker.pc, replica', archive[c])
    BY <2>1, <2>2 DEF RecoveryOK, NoWorker
  <2> QED BY <2>1, <2>3, WorkerOf
<1>3. CASE ControllerLost
  BY <1>3 DEF ControllerLost, RecoveryInv, RecoveryOK, NoWorker
<1>4. CASE Environment
  <2>1. CASE \E r \in Ranks : TreeDisturbed(r)
    BY <2>1, RecoveryStutter
    DEF TreeDisturbed, TreeAppears, TreeVanishes, TreeReplaced, TreeTampered
  <2>2. CASE \E p \in Ops : CommandAborts(p)
    BY <2>2, RecoveryStutter DEF CommandAborts
  <2> QED BY <1>1, <1>2, <1>3, <1>4, <2>1, <2>2 DEF Environment
<1>5. ASSUME NEW c \in Receipts, ArchiveRun(c) \/ HomeArchive(c) PROVE RecoveryInv'
  BY <1>5, ArchiveRecovery
<1>6. CASE HomeReceipt
  <2>1. CASE ReceiptBackup
    BY <2>1 DEF ReceiptBackup, RecoveryInv, RecoveryOK
  <2>2. CASE ReceiptRecover
    BY <2>2, RecoveryStutter DEF ReceiptRecover
  <2> QED BY <1>6, <2>1, <2>2 DEF HomeReceipt
<1>7. CASE CatalogRefresh \/ UNCHANGED vars \/ \E r \in Ranks : Stop(r)
  BY <1>7, RecoveryStutter DEF CatalogRefresh, Stop, vars
<1>8. ASSUME NEW p \in Ops, Command(p) PROVE RecoveryInv'
  BY <1>8, CommandRecovery
<1> QED BY <1>4, <1>5, <1>6, <1>7, <1>8 DEF Next

\* A job recorded complete has its receipt's replica and a published archive,
\* whoever requeues it and wherever its workers are killed.
THEOREM CompleteJobsRecoverable == Spec => []CompleteJobHasRecoverySet
<1>1. Init => RecoveryInv
  BY DEF Init, RecoveryInv, RecoveryOK, NoWorker
<1>2. RecoveryInv => CompleteJobHasRecoverySet
  BY DEF RecoveryInv, RecoveryOK, CompleteJobHasRecoverySet
<1> QED BY <1>1, <1>2, NextRecoveryInv, Invariance, PTL DEF Spec

-----------------------------------------------------------------------------
(* What a step of one command leaves of the others, and of the trees.      *)

\* A command with the exclusive lifecycle lock moves among idle processes.
LEMMA AloneMoves ==
  ASSUME IInv, NEW p \in Ops, NEW kinds \in SUBSET ExclusiveKinds, Moved(p, kinds)
  PROVE  \A q \in Ops \ {p} : op[q].kind = "idle" /\ op'[q] = op[q]
<1>1. op[p].kind \in kinds => \A q \in Ops \ {p} : op[q].kind = "idle"
  BY DEF IInv, OpInv, Locks, ExclusiveAlone
<1>2. ASSUME NEW k \in kinds, LifecycleFree(p, k)
      PROVE  \A q \in Ops \ {p} : op[q].kind = "idle"
  BY <1>2 DEF LifecycleFree
<1> QED BY <1>1, <1>2 DEF Moved

\* A hot command moves beside commands without the exclusive lifecycle lock.
LEMMA HotMoves ==
  ASSUME IInv, NEW p \in Ops, HotUse(p)
  PROVE  /\ \A q \in Ops \ {p} : op[q].kind \notin ExclusiveKinds /\ op'[q] = op[q]
         /\ op'[p].kind \notin ExclusiveKinds
<1>1. Moved(p, HotKinds) /\ "idle" \notin HotKinds
  BY CommandMoves DEF HotKinds, HotWriterKinds
<1>2. ASSUME NEW q \in Ops, op[q].kind \in ExclusiveKinds PROVE q = p
  BY <1>1, <1>2, ExclusiveMoves
<1> QED BY <1>1, <1>2 DEF Moved, HotKinds, HotWriterKinds, ExclusiveKinds

\* The commands of the home write a tree in three ways: they replace it or fill
\* it in, or they delete the one they inspected.
LEMMA TreeWriter ==
  ASSUME IInv, Next, ProgramStep, NEW r \in Ranks, ~Absent(r), tree'[r] # tree[r]
  PROVE  \E p \in Ops :
           /\ op[p].rank = r
           /\ \/ RelocateCopy(p) \/ RelocateCopied(p)
              \/ (RelocateExecute(p) \/ RemoveExecute(p)) /\ SameFingerprint(p)
<1>1. tree \in [Ranks -> Trees \cup {NoTree}]
  BY DEF IInv, StoresInv
<1>2. PICK p \in Ops :
             \/ \E kind, next : Publish(p, kind, next)
             \/ RelocateCopy(p) \/ RelocateCopied(p)
             \/ RelocateExecute(p) \/ RemoveExecute(p)
  BY OtherStepsKeepTrees
<1>3. CASE \E kind, next : Publish(p, kind, next)
  BY <1>1, <1>3 DEF Publish, Absent
<1>4. CASE RelocateCopy(p) \/ RelocateCopied(p)
  BY <1>1, <1>4 DEF RelocateCopy, RelocateCopied
<1>5. CASE RelocateExecute(p) \/ RemoveExecute(p)
  BY <1>1, <1>5 DEF RelocateExecute, RemoveExecute, Execute
<1> QED BY <1>2, <1>3, <1>4, <1>5

-----------------------------------------------------------------------------
(* A tree goes only by the command that inspected it.                      *)

\* Publication never replaces a tree that appeared meanwhile and a removal never
\* takes a tree that replaced the one it inspected, whatever the disturbances.
THEOREM InspectedTreesGo == Spec => OnlyInspectedTreesGo
<1> DEFINE Takes(p, r) ==
      /\ op[p].rank = r
      /\ \/ op[p].pc = "execute" /\ op[p].id = tree[r].id
         \/ op[p].kind = "relocate" /\ op[p].pc \in {"copy", "copying"}
<1>1. ASSUME IInv, Next, NEW r \in Ranks, ProgramStep /\ ~Absent(r) /\ tree'[r] # tree[r]
      PROVE  \E p \in Ops : Takes(p, r)
  <2>1. PICK p \in Ops :
           /\ op[p].rank = r
           /\ \/ RelocateCopy(p) \/ RelocateCopied(p)
              \/ (RelocateExecute(p) \/ RemoveExecute(p)) /\ SameFingerprint(p)
    BY <1>1, TreeWriter
  <2> QED BY <2>1 DEF RelocateCopy, RelocateCopied, RelocateExecute, RemoveExecute,
             SameFingerprint, Fingerprint, At
<1>2. IInv /\ [Next]_vars =>
        [\A r \in Ranks :
           ProgramStep /\ ~Absent(r) /\ tree'[r] # tree[r] =>
             \E p \in Ops : Takes(p, r)]_vars
  BY <1>1
<1> QED BY <1>2, Invariance, PTL DEF Spec, OnlyInspectedTreesGo

-----------------------------------------------------------------------------
(* A used home is kept.                                                    *)

\* No view outlives its home, and the commands that take a tree have found it
\* unused, against trees and views.
UseOK(o, trs, vs) ==
  /\ o.kind = "prepare" => trs[o.rank] # NoTree
  /\ o.kind = "remove" /\ o.pc \in {"reverify", "detach", "execute"} =>
       vs[o.rank] = "none"
  /\ o.kind = "relocate" /\ o.pc \in {"copy", "copying", "execute"} =>
       vs[o.rank] = "none"

UseInv ==
  /\ \A p \in Ops : UseOK(op[p], tree, views)
  /\ \A r \in Ranks : Absent(r) => views[r] = "none"

\* What remains to show of a home command's step: its own promise, and that it
\* deletes no tree under a view.
LEMMA AloneUse ==
  ASSUME IInv, UseInv, NEW p \in Ops, NEW kinds \in SUBSET ExclusiveKinds,
         Moved(p, kinds), UNCHANGED views, UseOK(op'[p], tree', views),
         \A r \in Ranks : tree'[r] = NoTree => Absent(r) \/ views[r] = "none"
  PROVE  UseInv'
<1>1. \A q \in Ops \ {p} : op'[q].kind = "idle"
  BY AloneMoves
<1> QED BY <1>1 DEF UseInv, UseOK, Absent

\* home add and home restore put trees where there were none.
LEMMA AddRestoreUse ==
  ASSUME IInv, UseInv, NEW p \in Ops, HomeAdd(p) \/ HomeRestore(p)
  PROVE  UseInv'
<1>1. PICK kind \in {"add", "restore"} : Moved(p, {kind})
  BY CommandMoves
<1>2. UseOK(op'[p], tree', views)
  BY <1>1 DEF Moved, UseOK
<1>3. tree \in [Ranks -> Trees \cup {NoTree}] /\ \A i \in Ids : i # 0
  BY IdsAssumption DEF IInv, StoresInv
<1>4. ASSUME NEW k, NEW next, Publish(p, k, next)
      PROVE  /\ UNCHANGED views
             /\ \A r \in Ranks : tree'[r] = NoTree => Absent(r)
  BY <1>3, <1>4 DEF Publish, NoTree, Absent, userVars
<1>5. /\ UNCHANGED views
      /\ \A r \in Ranks : tree'[r] = NoTree => Absent(r)
  <2>1. CASE AddPublish(p) \/ RestorePublish(p)
    BY <1>4, <2>1 DEF AddPublish, RestorePublish
  <2>2. CASE ~AddPublish(p) /\ HomeAdd(p)
    BY <2>2 DEF HomeAdd, AddPlan, AddDownload, AddVerify, AddRecheck, Recheck,
       AddReceipt, AddAttach, Attach, AddEnqueue, userVars, Absent
  <2>3. CASE ~RestorePublish(p) /\ HomeRestore(p)
    BY <2>3 DEF HomeRestore, RestorePlan, RestoreCopy, RestoreHash, RestoreRecheck,
       Recheck, RestoreOccupy, Attach, userVars, Absent
  <2> QED BY <2>1, <2>2, <2>3
<1> QED BY <1>1, <1>2, <1>5, AloneUse DEF ExclusiveKinds

\* home relocate copies only to an absent home and retires only an unused one.
LEMMA RelocateUse ==
  ASSUME IInv, UseInv, NEW p \in Ops, HomeRelocate(p)
  PROVE  UseInv'
<1> DEFINE Kept == \A r \in Ranks : tree'[r] = NoTree => Absent(r) \/ views[r] = "none"
<1>1. Moved(p, {"relocate"}) /\ {"relocate"} \in SUBSET ExclusiveKinds
  BY CommandMoves DEF ExclusiveKinds
<1>2. /\ tree \in [Ranks -> Trees \cup {NoTree}] /\ \A i \in Ids : i # 0
      /\ op \in [Ops -> Commands] /\ UseOK(op[p], tree, views)
      /\ op[p].kind # "idle" => op[p].rank \in Ranks
  BY IdsAssumption DEF IInv, StoresInv, OpInv, CommandOK, UseInv
<1>3. UNCHANGED views
  BY DEF HomeRelocate, RelocatePlan, RelocateCopy, RelocateCopied, RelocateHash,
     RelocateIdentity, RelocateOccupy, Attach, RelocateRetire, RelocateExecute,
     Execute, userVars
<1>4. op'[p].kind \in {"relocate", "idle"}
  BY <1>1 DEF Moved
<1>5. ASSUME op'[p].pc \notin {"copy", "copying", "execute"} \/ op'[p].kind = "idle"
      PROVE  UseOK(op'[p], tree', views)
  BY <1>4, <1>5 DEF UseOK
<1>6. UNCHANGED tree => Kept
  BY DEF Absent
<1>7. CASE RelocatePlan(p)
  <2>1. PICK r \in Ranks, c \in Receipts :
          op'[p] = [Idle EXCEPT !.kind = "relocate", !.rank = r, !.rc = c,
                                !.src = attachment.rank,
                                !.pc = IF Absent(r) THEN "copy" ELSE "hash"]
    BY <1>2, <1>7 DEF RelocatePlan, Begin
  <2>2. op'[p].rank = r /\ op'[p].pc = IF Absent(r) THEN "copy" ELSE "hash"
    BY <2>1 DEF Idle
  <2>3. Absent(r) => views[r] = "none"
    BY DEF UseInv
  <2>4. UseOK(op'[p], tree', views)
    BY <1>4, <2>2, <2>3 DEF UseOK
  <2> QED BY <1>1, <1>3, <1>6, <1>7, <2>4, AloneUse DEF RelocatePlan
<1>8. CASE RelocateCopy(p)
  <2>1. /\ op'[p] = [op[p] EXCEPT !.pc = "copying"]
        /\ op[p].kind = "relocate" /\ op[p].pc = "copy"
    BY <1>2, <1>8 DEF RelocateCopy, Goto, At
  <2>2. op'[p].rank = op[p].rank /\ op'[p].kind = "relocate"
    BY <1>2, <2>1 DEF Commands
  <2>3. UseOK(op'[p], tree', views)
    BY <1>2, <2>1, <2>2 DEF UseOK
  <2>4. Kept
    BY <1>2, <1>8 DEF RelocateCopy, NoTree, Absent
  <2> QED BY <1>1, <1>3, <2>3, <2>4, AloneUse
<1>9. CASE RelocateCopied(p)
  <2>1. /\ op'[p] = Idle \/ op'[p] = [op[p] EXCEPT !.pc = "hash"]
        /\ op[p].kind = "relocate" /\ op[p].rank \in Ranks
    BY <1>2, <1>9 DEF RelocateCopied, Goto, Finish, At
  <2>2. op'[p].kind = "idle" \/ op'[p].pc = "hash"
    BY <1>2, <2>1 DEF Commands, Idle
  <2>3. UseOK(op'[p], tree', views)
    BY <1>5, <2>2
  <2>4. Kept
    <3>1. CASE UNCHANGED tree
      BY <1>6, <3>1
    <3>2. CASE /\ ~Absent(op[p].rank)
               /\ tree' = [tree EXCEPT ![op[p].rank].content =
                                         tree[op[p].src].content]
      <4>1. tree[op[p].rank] \in Trees
        BY <1>2, <2>1, <3>2 DEF Absent
      <4>2. tree'[op[p].rank].id \in Ids
        BY <1>2, <2>1, <3>2, <4>1 DEF Trees
      <4>3. \A r \in Ranks : r # op[p].rank => tree'[r] = tree[r]
        BY <1>2, <3>2
      <4>4. NoTree.id = 0
        BY DEF NoTree
      <4> QED BY <1>2, <4>2, <4>3, <4>4 DEF Absent
    <3> QED BY <1>9, <3>1, <3>2 DEF RelocateCopied
  <2> QED BY <1>1, <1>3, <2>3, <2>4, AloneUse
<1>10. CASE RelocateHash(p) \/ RelocateIdentity(p) \/ RelocateOccupy(p)
  <2>1. op'[p].kind = "idle" \/ op'[p].pc \in {"identity", "occupy", "retire"}
    BY <1>2, <1>10 DEF RelocateHash, RelocateIdentity, RelocateOccupy, Attach, Finish,
       Idle, Commands
  <2>2. UNCHANGED tree
    BY <1>10 DEF RelocateHash, RelocateIdentity, RelocateOccupy, Attach
  <2>3. UseOK(op'[p], tree', views)
    BY <1>5, <2>1
  <2> QED BY <1>1, <1>3, <1>6, <2>2, <2>3, AloneUse
<1>11. CASE RelocateRetire(p)
  <2>1. CASE Finish(p)
    <3>1. UseOK(op'[p], tree', views)
      BY <1>2, <1>5, <2>1 DEF Finish, Idle
    <3> QED BY <1>1, <1>3, <1>6, <1>11, <3>1, AloneUse DEF RelocateRetire
  <2>2. CASE \E c \in Receipts \cup {0} :
               /\ RemovalEligible(op[p].src, c, {})
               /\ op' = [op EXCEPT ![p].pc = "execute", ![p].rank = op[p].src,
                                   ![p].content = tree[op[p].src].content,
                                   ![p].id = tree[op[p].src].id]
    <3>1. op'[p].rank = op[p].src
      BY <1>2, <2>2 DEF Commands
    <3>2. views[op[p].src] = "none"
      BY <2>2 DEF RemovalEligible, HotReference
    <3>3. UseOK(op'[p], tree', views)
      BY <1>4, <3>1, <3>2 DEF UseOK
    <3> QED BY <1>1, <1>3, <1>6, <1>11, <3>3, AloneUse DEF RelocateRetire
  <2> QED BY <1>11, <2>1, <2>2 DEF RelocateRetire
<1>12. CASE RelocateExecute(p)
  <2>1. op'[p] = Idle
    BY <1>2, <1>12 DEF RelocateExecute, Execute, Finish
  <2>2. UseOK(op'[p], tree', views)
    BY <1>5, <2>1 DEF Idle
  <2>3. views[op[p].rank] = "none"
    BY <1>2, <1>12 DEF RelocateExecute, At, UseOK
  <2>4. Kept
    BY <1>2, <1>12, <2>3 DEF RelocateExecute, Execute, Absent
  <2> QED BY <1>1, <1>3, <2>2, <2>4, AloneUse
<1> QED BY <1>7, <1>8, <1>9, <1>10, <1>11, <1>12 DEF HomeRelocate

\* What home remove records when it plans.
LEMMA RemovePlanned ==
  ASSUME IInv, NEW p \in Ops, RemovePlan(p)
  PROVE  \E r \in Ranks, c \in Receipts \cup {0}, ack \in Acks :
           /\ RemovalEligible(r, c, ack)
           /\ op'[p].kind = "remove" /\ op'[p].pc = "reverify" /\ op'[p].rank = r
           /\ op'[p].content = tree[r].content
           /\ op'[p].occupancy => catalog[r] = "occupancy"
           /\ LastDurableHome(r) => op'[p].last
<1>1. PICK r \in Ranks, c \in Receipts \cup {0}, ack \in Acks :
        /\ RemovalEligible(r, c, ack)
        /\ Begin(p, "remove",
                 [Idle EXCEPT !.kind = "remove", !.pc = "reverify",
                              !.rank = r, !.rc = c, !.ack = ack,
                              !.content = tree[r].content, !.id = tree[r].id,
                              !.occupancy = (catalog[r] = "occupancy"),
                              !.last = LastDurableHome(r)])
  BY DEF RemovePlan
<1> DEFINE first ==
             [Idle EXCEPT !.kind = "remove", !.pc = "reverify",
                          !.rank = r, !.rc = c, !.ack = ack,
                          !.content = tree[r].content, !.id = tree[r].id,
                          !.occupancy = (catalog[r] = "occupancy"),
                          !.last = LastDurableHome(r)]
<1>2. first.kind = "remove" /\ first.pc = "reverify" /\ first.rank = r
      /\ first.content = tree[r].content
  BY DEF Idle
<1>3. /\ first.occupancy => catalog[r] = "occupancy"
      /\ LastDurableHome(r) => first.last
  BY DEF Idle
<1> HIDE DEF first
<1>4. op' = [op EXCEPT ![p] = first]
  BY <1>1 DEF Begin, first
<1>5. op'[p] = first
  BY <1>4 DEF IInv, OpInv
<1> QED BY <1>1, <1>2, <1>3, <1>5

\* home remove found no view before it planned, and none can come.
LEMMA RemoveUse ==
  ASSUME IInv, UseInv, NEW p \in Ops, HomeRemove(p)
  PROVE  UseInv'
<1> DEFINE Kept == \A r \in Ranks : tree'[r] = NoTree => Absent(r) \/ views[r] = "none"
<1>1. Moved(p, {"remove"}) /\ {"remove"} \in SUBSET ExclusiveKinds
  BY CommandMoves DEF ExclusiveKinds
<1>2. /\ tree \in [Ranks -> Trees \cup {NoTree}]
      /\ op \in [Ops -> Commands] /\ UseOK(op[p], tree, views)
  BY DEF IInv, StoresInv, OpInv, UseInv
<1>3. UNCHANGED views
  BY DEF HomeRemove, RemovePlan, RemoveReverify, RemoveDetach, RemoveExecute, Execute,
     RemoveRefresh, userVars
<1>4. op'[p].kind \in {"remove", "idle"}
  BY <1>1 DEF Moved
<1>5. UNCHANGED tree => Kept
  BY DEF Absent
<1>6. CASE RemovePlan(p)
  <2>1. PICK r \in Ranks, c \in Receipts \cup {0}, ack \in Acks :
          RemovalEligible(r, c, ack) /\ op'[p].rank = r
    BY <1>6, RemovePlanned
  <2>2. op'[p].rank = r /\ views[r] = "none"
    BY <2>1 DEF RemovalEligible, HotReference
  <2>4. UseOK(op'[p], tree', views)
    BY <1>4, <2>2 DEF UseOK
  <2> QED BY <1>1, <1>3, <1>5, <1>6, <2>4, AloneUse DEF RemovePlan
<1>7. CASE RemoveReverify(p) \/ RemoveDetach(p)
  <2>1. /\ op'[p] = Idle \/ \E s : op'[p] = [op[p] EXCEPT !.pc = s]
        /\ op[p].kind = "remove" /\ op[p].pc \in {"reverify", "detach"}
        /\ UNCHANGED tree
    BY <1>2, <1>7 DEF RemoveReverify, RemoveDetach, Goto, Finish, At
  <2>2. op'[p].kind = "idle" \/ op'[p].rank = op[p].rank
    <3>1. op'[p] = Idle => op'[p].kind = "idle"
      BY DEF Idle
    <3>2. \A s : [op[p] EXCEPT !.pc = s].rank = op[p].rank
      BY <1>2 DEF Commands
    <3> QED BY <2>1, <3>1, <3>2
  <2>3. UseOK(op'[p], tree', views)
    BY <1>2, <1>4, <2>1, <2>2 DEF UseOK
  <2> QED BY <1>1, <1>3, <1>5, <2>1, <2>3, AloneUse
<1>8. CASE RemoveExecute(p)
  <2>1. op'[p] = Idle \/ op'[p] = [op[p] EXCEPT !.pc = "refresh"]
    BY <1>2, <1>8 DEF RemoveExecute, Execute, Finish
  <2>2. op'[p].kind = "idle" \/ op'[p].pc = "refresh"
    BY <1>2, <2>1 DEF Commands, Idle
  <2>3. UseOK(op'[p], tree', views)
    BY <1>4, <2>2 DEF UseOK
  <2>4. views[op[p].rank] = "none"
    BY <1>2, <1>8 DEF RemoveExecute, At, UseOK
  <2>5. Kept
    BY <1>2, <1>8, <2>4 DEF RemoveExecute, Execute, Absent
  <2> QED BY <1>1, <1>3, <2>3, <2>5, AloneUse
<1>9. CASE RemoveRefresh(p)
  <2>1. op'[p].kind = "idle" /\ UNCHANGED tree
    BY <1>2, <1>9 DEF RemoveRefresh, Finish, Idle
  <2>2. UseOK(op'[p], tree', views)
    BY <2>1 DEF UseOK
  <2> QED BY <1>1, <1>3, <1>5, <2>1, <2>2, AloneUse
<1> QED BY <1>6, <1>7, <1>8, <1>9 DEF HomeRemove

\* A view is made of a home that is there, and no command that could take the
\* home runs beside prepare.
LEMMA HotUseUse ==
  ASSUME IInv, UseInv, NEW p \in Ops, HotUse(p)
  PROVE  UseInv'
<1>1. /\ \A q \in Ops \ {p} : op[q].kind \notin ExclusiveKinds /\ op'[q] = op[q]
      /\ op'[p].kind \notin ExclusiveKinds
  BY HotMoves
<1>2. /\ tree \in [Ranks -> Trees \cup {NoTree}] /\ views \in [Ranks -> ViewStates]
      /\ op \in [Ops -> Commands] /\ UseOK(op[p], tree, views)
  BY DEF IInv, StoresInv, OpInv, UseInv
<1>3. UNCHANGED tree
  BY DEF HotUse, PreparePlan, PrepareCopy, PrepareVerify, PurgePlan, PurgeExecute,
     LaunchPlan, LaunchStart
<1>4. op'[p].kind = "prepare" => tree[op'[p].rank] # NoTree
  <2>1. CASE PreparePlan(p)
    <3>1. PICK r \in Ranks :
            /\ Complete(r)
            /\ op'[p] = [Idle EXCEPT !.kind = "prepare", !.pc = "copy", !.rank = r]
      BY <1>2, <2>1 DEF PreparePlan, Begin
    <3>2. op'[p].rank = r
      BY <3>1 DEF Idle
    <3> QED BY <3>1, <3>2 DEF Complete, NoTree
  <2>2. CASE PrepareCopy(p)
    <3>1. op'[p] = [op[p] EXCEPT !.pc = "verify"] /\ op[p].kind = "prepare"
      BY <1>2, <2>2 DEF PrepareCopy, Goto, At
    <3>2. op'[p].rank = op[p].rank
      BY <1>2, <3>1 DEF Commands
    <3> QED BY <1>2, <3>1, <3>2 DEF UseOK
  <2>3. CASE PrepareVerify(p) \/ PurgeExecute(p) \/ LaunchStart(p)
    BY <1>2, <2>3 DEF PrepareVerify, PurgeExecute, LaunchStart, Finish, Idle
  <2>4. CASE PurgePlan(p) \/ LaunchPlan(p)
    BY <1>2, <2>4 DEF PurgePlan, LaunchPlan, Begin, Idle
  <2> QED BY <2>1, <2>2, <2>3, <2>4 DEF HotUse
<1>5. ASSUME NEW q \in Ops PROVE UseOK(op'[q], tree', views')
  <2>1. CASE q = p
    BY <1>1, <1>3, <1>4, <2>1 DEF UseOK, ExclusiveKinds
  <2>2. CASE q # p
    <3>1. UseOK(op[q], tree, views)
      BY DEF UseInv
    <3> QED BY <1>1, <1>3, <2>2, <3>1 DEF UseOK, ExclusiveKinds
  <2> QED BY <2>1, <2>2
<1>6. ASSUME NEW r \in Ranks, Absent(r) PROVE views'[r] = "none"
  <2>1. views[r] = "none" /\ tree[r] = NoTree /\ tree[r].content # "good"
    BY <1>6 DEF UseInv, Absent, NoTree
  <2>2. CASE PrepareCopy(p)
    <3>1. op[p].rank # r
      BY <1>2, <2>1, <2>2 DEF PrepareCopy, At, UseOK
    <3> QED BY <1>2, <2>1, <2>2, <3>1 DEF PrepareCopy
  <2>3. CASE PrepareVerify(p)
    BY <1>2, <2>1, <2>3 DEF PrepareVerify
  <2>4. CASE PurgeExecute(p)
    BY <1>2, <2>1, <2>4 DEF PurgeExecute
  <2>5. CASE PreparePlan(p) \/ PurgePlan(p) \/ LaunchPlan(p) \/ LaunchStart(p)
    BY <2>1, <2>5 DEF PreparePlan, PurgePlan, LaunchPlan, LaunchStart, userVars
  <2> QED BY <2>2, <2>3, <2>4, <2>5 DEF HotUse
<1> QED BY <1>3, <1>5, <1>6 DEF UseInv, Absent

\* Nothing but a vanishing tree leaves a view behind.
LEMMA NextUseInv ==
  ASSUME "vanish" \notin Disturbances, IInv, UseInv, [Next]_vars
  PROVE  UseInv'
<1>1. ASSUME NEW p \in Ops, Command(p) PROVE UseInv'
  BY <1>1, AddRestoreUse, RelocateUse, RemoveUse, HotUseUse DEF Command
<1>2. ASSUME UNCHANGED <<tree, views, op>> PROVE UseInv'
  BY <1>2 DEF UseInv, UseOK, Absent
<1>3. ASSUME NEW c \in Receipts, ArchiveRun(c) \/ HomeArchive(c) PROVE UseInv'
  <2>1. UNCHANGED <<tree, views, op>>
    BY <1>3 DEF ArchiveRun, HomeArchive, ArchiveStart, ArchiveRead, ArchiveCopy,
       ArchiveReplica, ArchivePublish, ArchiveComplete, userVars
  <2> QED BY <1>2, <2>1
<1>4. CASE CatalogRefresh \/ HomeReceipt \/ (\E r \in Ranks : Stop(r)) \/ UNCHANGED vars
  <2>1. UNCHANGED <<tree, views, op>>
    BY <1>4 DEF CatalogRefresh, HomeReceipt, ReceiptBackup, ReceiptRecover, Stop, vars,
       userVars
  <2> QED BY <1>2, <2>1
<1>5. ASSUME NEW r \in Ranks, TreeDisturbed(r) PROVE UseInv'
  <2>1. ~TreeVanishes(r)
    BY DEF TreeVanishes, Disturb
  <2>2. UNCHANGED <<views, op>>
    BY <1>5 DEF TreeDisturbed, TreeAppears, TreeVanishes, TreeReplaced, TreeTampered,
       userVars
  <2>3. /\ tree \in [Ranks -> Trees \cup {NoTree}]
        /\ \A i \in Ids : i # 0
    BY IdsAssumption DEF IInv, StoresInv
  <2>4. \A s \in Ranks : tree'[s] = NoTree => Absent(s)
    BY <1>5, <2>1, <2>3
    DEF TreeDisturbed, TreeAppears, TreeReplaced, TreeTampered, NoTree, Absent, Trees
  <2>5. \A q \in Ops : op[q].kind = "prepare" => op[q].rank \in Ranks
    BY DEF IInv, OpInv, CommandOK
  <2> QED BY <2>2, <2>4, <2>5 DEF UseInv, UseOK, Absent
<1>6. ASSUME NEW p \in Ops, CommandAborts(p) PROVE UseInv'
  <2>1. UNCHANGED <<tree, views>> /\ \A q \in Ops : op'[q] = op[q] \/ op'[q].kind = "idle"
    BY <1>6 DEF CommandAborts, Finish, Idle, IInv, OpInv, userVars
  <2> QED BY <2>1 DEF UseInv, UseOK, Absent
<1>7. CASE ControllerLost
  <2>1. UNCHANGED <<tree, views>> /\ \A q \in Ops : op'[q].kind = "idle"
    BY <1>7 DEF ControllerLost, Idle, userVars
  <2> QED BY <2>1 DEF UseInv, UseOK, Absent
<1>8. ASSUME NEW c \in Receipts, ArchiveRots(c) \/ WorkerKilled(c) PROVE UseInv'
  <2>1. UNCHANGED <<tree, views, op>>
    BY <1>8 DEF ArchiveRots, WorkerKilled, userVars
  <2> QED BY <1>2, <2>1
<1> QED BY <1>1, <1>3, <1>4, <1>5, <1>6, <1>7, <1>8 DEF Next, Environment

\* No step of the program deletes or rewrites a home that a view or a service
\* depends on, as long as no tree vanishes under its view: after that, a home
\* relocated to the vanished path is copied under the view that was left.
THEOREM UsedHomesKept ==
  ASSUME "vanish" \notin Disturbances
  PROVE  Spec => UsedHomeKept
<1>1. ASSUME IInv, HotInv, UseInv, Next, NEW r \in Ranks,
             ProgramStep /\ ~Absent(r) /\ (views[r] # "none" \/ r \in serving)
      PROVE  tree'[r] = tree[r]
  <2> SUFFICES ASSUME tree'[r] # tree[r] PROVE FALSE
    OBVIOUS
  <2>1. PICK p \in Ops :
           /\ op[p].rank = r
           /\ \/ RelocateCopy(p) \/ RelocateCopied(p)
              \/ (RelocateExecute(p) \/ RemoveExecute(p)) /\ SameFingerprint(p)
    BY <1>1, TreeWriter
  <2>2. views[r] # "none"
    BY <1>1 DEF HotInv, ServingHasView
  <2>3. UseOK(op[p], tree, views)
    BY <1>1 DEF UseInv
  <2> QED BY <2>1, <2>2, <2>3 DEF RelocateCopy, RelocateCopied, RelocateExecute,
             RemoveExecute, At, UseOK
<1>2. IInv /\ HotInv /\ UseInv /\ [Next]_vars =>
        [\A r \in Ranks :
           ProgramStep /\ ~Absent(r) /\ (views[r] # "none" \/ r \in serving) =>
             tree'[r] = tree[r]]_vars
  BY <1>1
<1>3. Init => HotInv /\ UseInv
  BY DEF Init, HotInv, HotOK, ServingHasView, Idle, UseInv, UseOK, Absent, HotWriterKinds
<1>4. IInv /\ UseInv /\ [Next]_vars => UseInv'
  BY NextUseInv
<1> QED BY <1>2, <1>3, <1>4, NextHotInv, Invariance, PTL DEF Spec, UsedHomeKept

-----------------------------------------------------------------------------
(* A detached home keeps its recovery set.                                 *)

\* What home remove has shown before it detaches, against the attachment, the
\* replicas and the archives.
DetachOK(o, att, reps, arch) ==
  /\ o.kind = "remove" /\ o.pc = "reverify" /\ o.occupancy
       /\ o.content # "partial" => o.last
  /\ o.kind = "remove" /\ o.pc = "detach" =>
       \/ att.rank # o.rank \/ o.content = "partial" \/ "unarchived" \in o.ack
       \/ att.rc \in reps /\ arch[att.rc] = "good"

DetachInv == \A p \in Ops : DetachOK(op[p], attachment, replica, archive)

\* An idle process, and any command but a removal, has nothing to show.
LEMMA AloneDetach ==
  ASSUME IInv, DetachInv, NEW p \in Ops, NEW kinds \in SUBSET ExclusiveKinds,
         Moved(p, kinds), DetachOK(op'[p], attachment', replica', archive')
  PROVE  DetachInv'
<1>1. \A q \in Ops \ {p} : op'[q].kind = "idle"
  BY AloneMoves
<1> QED BY <1>1 DEF DetachInv, DetachOK

\* Replicas are added and good archives stay good.
LEMMA GrowDetach ==
  ASSUME DetachInv, UNCHANGED <<op, attachment>>, replica \subseteq replica',
         \A c : archive[c] = "good" => archive'[c] = "good"
  PROVE  DetachInv'
BY DEF DetachInv, DetachOK

\* The removal checks the attached receipt's recovery set just before it detaches.
LEMMA RemoveDetachOK ==
  ASSUME IInv, DetachInv, NEW p \in Ops, HomeRemove(p)
  PROVE  DetachOK(op'[p], attachment', replica', archive')
<1>1. op \in [Ops -> Commands] /\ DetachOK(op[p], attachment, replica, archive)
  BY DEF IInv, OpInv, DetachInv
<1>2. CASE RemovePlan(p)
  <2>1. PICK r \in Ranks, c \in Receipts \cup {0}, ack \in Acks :
           /\ RemovalEligible(r, c, ack)
           /\ op'[p].kind = "remove" /\ op'[p].pc = "reverify" /\ op'[p].rank = r
           /\ op'[p].content = tree[r].content
           /\ op'[p].occupancy => catalog[r] = "occupancy"
           /\ LastDurableHome(r) => op'[p].last
    BY <1>2, RemovePlanned
  <2>2. tree[r].content \in Contents
    BY <2>1 DEF RemovalEligible, Inspectable, Absent, IInv, StoresInv, Trees
  <2>3. ASSUME op'[p].occupancy, op'[p].content # "partial" PROVE LastDurableHome(r)
    <3>1. LiveClass(r) = "complete"
      BY <2>1, <2>2, <2>3 DEF RemovalEligible, Inspectable, LiveClass, Complete, Contents
    <3> QED BY <2>1, <2>3, <3>1 DEF LastDurableHome
  <2> QED BY <2>1, <2>3 DEF DetachOK
<1>3. CASE RemoveReverify(p) /\ ~Finish(p)
  <2> DEFINE next == IF op[p].occupancy THEN "detach" ELSE "execute"
             o == [op[p] EXCEPT !.pc = next]
  <2>1. /\ op[p].kind = "remove" /\ op[p].pc = "reverify"
        /\ ~ReverifyFails(p) /\ Goto(p, next)
        /\ UNCHANGED <<attachment, replica, archive>>
    BY <1>3 DEF RemoveReverify, At, storeVars, coldVars
  <2>2. op'[p] = o
    BY <1>1, <2>1 DEF Goto
  <2>3. /\ o.pc = next /\ o.rank = op[p].rank /\ o.content = op[p].content
        /\ o.ack = op[p].ack
    BY <1>1 DEF Commands
  <2> HIDE DEF o
  <2>4. CASE ~op[p].occupancy
    BY <2>2, <2>3, <2>4 DEF DetachOK
  <2>5. CASE op[p].occupancy
    <3> SUFFICES ASSUME attachment.rank = op[p].rank, op[p].content # "partial",
                        "unarchived" \notin op[p].ack
                 PROVE  RecoverySet(attachment.rc)
      BY <2>1, <2>2, <2>3, <2>5 DEF DetachOK, RecoverySet
    <3>1. LastOccupancyReceipt(op[p].rc) /\ (op[p].rc # 0 => RecoverySet(op[p].rc))
      BY <1>1, <2>1, <2>5 DEF ReverifyFails, DetachOK
    <3>2. attachment # NoHome /\ attachment \in Homes \cup {NoHome}
      BY <2>1, RanksAssumption DEF IInv, StoresInv, OpInv, CommandOK, NoHome
    <3>3. receipts # {} /\ attachment.rc \in Receipts
      BY <3>2 DEF IInv, StoresInv, AttachmentHasReceipt, Homes
    <3>4. op[p].rc = attachment.rc
      BY <3>1, <3>2, <3>3 DEF LastOccupancyReceipt
    <3>5. attachment.rc # 0
      BY <3>3, ReceiptsAssumption
    <3> QED BY <3>1, <3>4, <3>5
  <2> QED BY <2>4, <2>5
<1>4. CASE Finish(p)
  BY <1>1, <1>4 DEF Finish, Idle, DetachOK
<1>5. CASE RemoveDetach(p)
  <2>1. op'[p] = [op[p] EXCEPT !.pc = "execute"]
    BY <1>1, <1>5 DEF RemoveDetach, Goto
  <2>2. op'[p].pc = "execute"
    BY <1>1, <2>1 DEF Commands
  <2> QED BY <2>2 DEF DetachOK
<1>6. CASE RemoveExecute(p) /\ ~Finish(p)
  <2>1. op'[p] = [op[p] EXCEPT !.pc = "refresh"]
    BY <1>1, <1>6 DEF RemoveExecute, Execute
  <2>2. op'[p].pc = "refresh"
    BY <1>1, <2>1 DEF Commands
  <2> QED BY <2>2 DEF DetachOK
<1>7. CASE RemoveRefresh(p)
  BY <1>4, <1>7 DEF RemoveRefresh
<1> QED BY <1>2, <1>3, <1>4, <1>5, <1>6, <1>7 DEF HomeRemove

\* The other commands do not come between the check and the detach.
LEMMA CommandDetach ==
  ASSUME IInv, DetachInv, NEW p \in Ops, Command(p)
  PROVE  DetachInv'
<1>1. ASSUME NEW kind \in {"add", "relocate", "restore"}, Moved(p, {kind})
      PROVE  DetachInv'
  <2>1. op'[p].kind # "remove"
    BY <1>1 DEF Moved
  <2>2. DetachOK(op'[p], attachment', replica', archive')
    BY <2>1 DEF DetachOK
  <2>3. {kind} \in SUBSET ExclusiveKinds
    BY DEF ExclusiveKinds
  <2> QED BY <1>1, <2>2, <2>3, AloneDetach
<1>2. CASE HomeRemove(p)
  <2>1. Moved(p, {"remove"}) /\ {"remove"} \in SUBSET ExclusiveKinds
    BY <1>2, CommandMoves DEF ExclusiveKinds
  <2> QED BY <1>2, <2>1, RemoveDetachOK, AloneDetach
<1>3. CASE HotUse(p)
  <2>1. /\ \A q \in Ops \ {p} : op'[q] = op[q]
        /\ op'[p].kind \notin ExclusiveKinds
    BY <1>3, HotMoves
  <2>2. UNCHANGED <<attachment, replica, archive>>
    BY <1>3 DEF HotUse, PreparePlan, PrepareCopy, PrepareVerify, PurgePlan,
       PurgeExecute, LaunchPlan, LaunchStart, storeVars, coldVars
  <2> QED BY <2>1, <2>2 DEF DetachInv, DetachOK, ExclusiveKinds
<1> QED BY <1>1, <1>2, <1>3, CommandMoves DEF Command

\* Nor do the archive workers, the short commands or the disturbances undo it.
LEMMA NextDetachInv == IInv /\ DetachInv /\ [Next]_vars => DetachInv'
<1> SUFFICES ASSUME IInv, DetachInv, [Next]_vars PROVE DetachInv'
  OBVIOUS
<1>1. archive \in [Receipts -> {"none", "good", "bad"}] /\ op \in [Ops -> Commands]
  BY DEF IInv, ColdInv, OpInv
<1>2. ASSUME NEW p \in Ops, Command(p) PROVE DetachInv'
  BY <1>2, CommandDetach
<1>3. ASSUME UNCHANGED <<op, attachment, replica, archive>> PROVE DetachInv'
  BY <1>3, GrowDetach
<1>4. ASSUME NEW c \in Receipts, ArchiveRun(c) \/ HomeArchive(c) PROVE DetachInv'
  <2>1. UNCHANGED <<op, attachment>> /\ replica \subseteq replica'
    BY <1>4 DEF ArchiveRun, HomeArchive, ArchiveStart, ArchiveRead, ArchiveCopy,
       ArchiveReplica, ArchivePublish, ArchiveComplete, storeVars
  <2>2. UNCHANGED archive \/ archive' = [archive EXCEPT ![c] = "good"]
    BY <1>4 DEF ArchiveRun, HomeArchive, ArchiveStart, ArchiveRead, ArchiveCopy,
       ArchiveReplica, ArchivePublish, ArchiveComplete
  <2>3. ASSUME archive' = [archive EXCEPT ![c] = "good"]
        PROVE  \A d \in Receipts : archive[d] = "good" => archive'[d] = "good"
    BY <1>1, <2>3
  <2>4. ASSUME NEW q \in Ops PROVE DetachOK(op'[q], attachment', replica', archive')
    <3>1. DetachOK(op[q], attachment, replica, archive)
      BY DEF DetachInv
    <3>2. attachment.rank \in Ranks => attachment.rc \in Receipts
      BY RanksAssumption DEF IInv, StoresInv, Homes, NoHome
    <3>3. op[q].kind = "remove" => op[q].rank \in Ranks
      BY DEF IInv, OpInv, CommandOK
    <3> QED BY <2>1, <2>2, <2>3, <3>1, <3>2, <3>3 DEF DetachOK
  <2> QED BY <2>4 DEF DetachInv
<1>5. CASE CatalogRefresh \/ HomeReceipt \/ (\E r \in Ranks : Stop(r)) \/ UNCHANGED vars
  <2>1. UNCHANGED <<op, attachment, archive>> /\ replica \subseteq replica'
    BY <1>5 DEF CatalogRefresh, HomeReceipt, ReceiptBackup, ReceiptRecover, Stop, vars,
       storeVars, coldVars
  <2> QED BY <2>1, GrowDetach
<1>6. ASSUME NEW r \in Ranks, TreeDisturbed(r) PROVE DetachInv'
  <2>1. UNCHANGED <<op, attachment, replica, archive>>
    BY <1>6 DEF TreeDisturbed, TreeAppears, TreeVanishes, TreeReplaced, TreeTampered,
       storeVars, coldVars
  <2> QED BY <1>3, <2>1
<1>7. ASSUME NEW p \in Ops, CommandAborts(p) PROVE DetachInv'
  <2>1. /\ UNCHANGED <<attachment, replica, archive>>
        /\ \A q \in Ops : op'[q] = op[q] \/ op'[q].kind = "idle"
    BY <1>1, <1>7 DEF CommandAborts, Finish, Idle, storeVars, coldVars
  <2> QED BY <2>1 DEF DetachInv, DetachOK
<1>8. CASE ControllerLost
  BY <1>8 DEF ControllerLost, Idle, DetachInv, DetachOK
<1>9. ASSUME NEW c \in Receipts, ArchiveRots(c) PROVE DetachInv'
  <2>1. UNCHANGED op /\ \A q \in Ops : ~At(q, "remove", "detach")
    BY <1>9 DEF ArchiveRots
  <2> QED BY <2>1 DEF DetachInv, DetachOK, At
<1>10. ASSUME NEW c \in Receipts, WorkerKilled(c) PROVE DetachInv'
  <2>1. UNCHANGED <<op, attachment, replica, archive>>
    BY <1>10 DEF WorkerKilled, storeVars
  <2> QED BY <1>3, <2>1
<1> QED BY <1>2, <1>4, <1>5, <1>6, <1>7, <1>8, <1>9, <1>10 DEF Next, Environment

\* Only a removal at its detach step gives up an attachment.
LEMMA AttachmentGoes ==
  ASSUME IInv, Next, ProgramStep, attachment # NoHome, attachment' = NoHome
  PROVE  \E p \in Ops : RemoveDetach(p) /\ attachment.rank = op[p].rank
<1>1. ASSUME NEW p \in Ops, NEW next, Attach(p, next), op[p].rank \in Ranks PROVE FALSE
  BY <1>1, RanksAssumption DEF Attach, NoHome
<1>2. \A p \in Ops : op[p].kind # "idle" => op[p].rank \in Ranks
  BY DEF IInv, OpInv, CommandOK
<1>3. ASSUME NEW p \in Ops, HomeAdd(p) PROVE FALSE
  <2>1. CASE AddAttach(p)
    BY <1>1, <1>2, <2>1 DEF AddAttach, At
  <2>2. CASE ~AddAttach(p)
    BY <1>3, <2>2 DEF HomeAdd, AddPlan, AddDownload, AddVerify, AddRecheck, Recheck,
       AddReceipt, AddPublish, Publish, AddEnqueue, storeVars
  <2> QED BY <2>1, <2>2
<1>4. ASSUME NEW p \in Ops, HomeRelocate(p) PROVE FALSE
  <2>1. CASE RelocateOccupy(p)
    <3>1. UNCHANGED attachment \/ \E next : Attach(p, next)
      BY <2>1 DEF RelocateOccupy, storeVars
    <3> QED BY <1>1, <1>2, <2>1, <3>1 DEF RelocateOccupy, At
  <2>2. CASE ~RelocateOccupy(p)
    BY <1>4, <2>2 DEF HomeRelocate, RelocatePlan, RelocateCopy, RelocateCopied,
       RelocateHash, RelocateIdentity, RelocateRetire, RelocateExecute, Execute, storeVars
  <2> QED BY <2>1, <2>2
<1>5. ASSUME NEW p \in Ops, HomeRestore(p) PROVE FALSE
  <2>1. CASE RestoreOccupy(p)
    BY <1>1, <1>2, <2>1 DEF RestoreOccupy, At
  <2>2. CASE ~RestoreOccupy(p)
    BY <1>5, <2>2 DEF HomeRestore, RestorePlan, RestoreCopy, RestoreHash,
       RestoreRecheck, Recheck, RestorePublish, Publish, storeVars
  <2> QED BY <2>1, <2>2
<1>6. ASSUME NEW p \in Ops, HomeRemove(p)
      PROVE  RemoveDetach(p) /\ attachment.rank = op[p].rank
  <2>1. RemoveDetach(p)
    BY <1>6 DEF HomeRemove, RemovePlan, RemoveReverify, RemoveExecute, Execute,
       RemoveRefresh, storeVars
  <2> QED BY <2>1 DEF RemoveDetach
<1>7. ASSUME NEW p \in Ops, HotUse(p) PROVE FALSE
  BY <1>7 DEF HotUse, PreparePlan, PrepareCopy, PrepareVerify, PurgePlan, PurgeExecute,
     LaunchPlan, LaunchStart, storeVars
<1>8. ASSUME NEW c \in Receipts, ArchiveRun(c) \/ HomeArchive(c) PROVE FALSE
  BY <1>8 DEF ArchiveRun, HomeArchive, ArchiveStart, ArchiveRead, ArchiveCopy,
     ArchiveReplica, ArchivePublish, ArchiveComplete, storeVars
<1>9. ~CatalogRefresh /\ ~HomeReceipt /\ \A r \in Ranks : ~Stop(r)
  BY DEF CatalogRefresh, HomeReceipt, ReceiptBackup, ReceiptRecover, Stop, storeVars
<1>10. ~Environment
  <2>1. \A what : ~Disturb(what)
    BY DEF Disturb, ProgramStep, IInv, StoresInv
  <2> QED BY <2>1 DEF Environment, TreeDisturbed, TreeAppears, TreeVanishes,
          TreeReplaced, TreeTampered, ArchiveRots, WorkerKilled, CommandAborts,
          ControllerLost
<1> QED BY <1>3, <1>4, <1>5, <1>6, <1>7, <1>8, <1>9, <1>10 DEF Next, Command

\* Removal gives up the occupancy of a complete home only with its receipt's
\* recovery set in place or the operator's word, however stale its plan and
\* whatever the workers and the disturbances do meanwhile.
THEOREM DetachesRecoverable == Spec => DetachKeepsRecovery
<1> DEFINE Excused ==
      \E p \in Ops : /\ At(p, "remove", "detach")
                     /\ "unarchived" \in op[p].ack \/ op[p].content = "partial"
<1>1. ASSUME IInv, DetachInv, Next,
             ProgramStep /\ attachment # NoHome /\ attachment' = NoHome
      PROVE  RecoverySet(attachment.rc) \/ Excused
  <2>1. PICK p \in Ops : RemoveDetach(p) /\ attachment.rank = op[p].rank
    BY <1>1, AttachmentGoes
  <2>2. DetachOK(op[p], attachment, replica, archive)
    BY <1>1 DEF DetachInv
  <2> QED BY <2>1, <2>2 DEF RemoveDetach, At, DetachOK, RecoverySet
<1>2. IInv /\ DetachInv /\ [Next]_vars =>
        [ProgramStep /\ attachment # NoHome /\ attachment' = NoHome =>
           RecoverySet(attachment.rc) \/ Excused]_vars
  BY <1>1 DEF vars, storeVars
<1>3. Init => DetachInv
  BY DEF Init, DetachInv, DetachOK, Idle
<1> QED BY <1>2, <1>3, NextDetachInv, Invariance, PTL DEF Spec, DetachKeepsRecovery

-----------------------------------------------------------------------------
(* Occupancy is granted to verified bytes.                                 *)

\* The tree a command is about to occupy is the one it published or hashed, or
\* it is gone.
OccupyOK(o, trs) ==
  /\ (o.kind = "add" /\ o.pc = "attach") \/ (o.kind = "restore" /\ o.pc = "occupy") =>
       trs[o.rank] = NoTree \/ trs[o.rank] = [id |-> o.id, content |-> "good"]
  /\ o.kind = "relocate" /\ o.pc \in {"identity", "occupy"} =>
       trs[o.rank] = NoTree \/ trs[o.rank].content = o.content
  /\ o.kind = "relocate" /\ o.pc = "occupy" =>
       trs[o.rank] = NoTree \/ trs[o.rank].id = o.id

OccupyInv == \A p \in Ops : OccupyOK(op[p], tree)

\* A command under the exclusive lock answers for itself alone.
LEMMA AloneOccupy ==
  ASSUME IInv, NEW p \in Ops, NEW kinds \in SUBSET ExclusiveKinds, Moved(p, kinds),
         OccupyOK(op'[p], tree')
  PROVE  OccupyInv'
<1>1. \A q \in Ops \ {p} : op'[q].kind = "idle"
  BY AloneMoves
<1> QED BY <1>1 DEF OccupyInv, OccupyOK

\* What add and restore publish is what they verified in private.
LEMMA PublishOccupy ==
  ASSUME IInv, NEW p \in Ops, NEW kind \in {"add", "restore"}, NEW next,
         Publish(p, kind, next)
  PROVE  OccupyOK(op'[p], tree')
<1>1. /\ op \in [Ops -> Commands] /\ tree \in [Ranks -> Trees \cup {NoTree}]
      /\ op[p].rank \in Ranks /\ op[p].content = "good" /\ op[p].kind = kind
  BY DEF IInv, OpInv, StoresInv, CommandOK, Publish, At
<1>2. CASE Finish(p)
  BY <1>1, <1>2 DEF Finish, Idle, OccupyOK
<1>3. ASSUME NEW i \in Ids,
             tree' = [tree EXCEPT ![op[p].rank] = [id |-> i,
                                                   content |-> op[p].content]],
             op' = [op EXCEPT ![p].pc = next, ![p].id = i]
      PROVE  OccupyOK(op'[p], tree')
  <2> DEFINE o == [op[p] EXCEPT !.pc = next, !.id = i]
  <2>1. op'[p] = o
    BY <1>1, <1>3
  <2>2. o.id = i /\ o.rank = op[p].rank /\ o.kind = kind
    BY <1>1 DEF Commands
  <2> HIDE DEF o
  <2>3. tree'[o.rank] = [id |-> o.id, content |-> "good"]
    BY <1>1, <1>3, <2>2
  <2> QED BY <2>1, <2>2, <2>3 DEF OccupyOK
<1> QED BY <1>2, <1>3 DEF Publish

\* home add and home restore attach what they have just published.
LEMMA AddRestoreOccupy ==
  ASSUME IInv, NEW p \in Ops, HomeAdd(p) \/ HomeRestore(p)
  PROVE  OccupyInv'
<1>1. PICK kind \in {"add", "restore"} : Moved(p, {kind})
  BY CommandMoves
<1> SUFFICES OccupyOK(op'[p], tree')
  BY <1>1, AloneOccupy DEF ExclusiveKinds
<1>2. op \in [Ops -> Commands]
  BY DEF IInv, OpInv
<1>3. ASSUME op'[p].kind = "idle" \/ op'[p].pc \notin {"attach", "occupy"}
      PROVE  OccupyOK(op'[p], tree')
  BY <1>1, <1>3 DEF Moved, OccupyOK
<1>4. CASE AddPublish(p) \/ RestorePublish(p)
  BY <1>4, PublishOccupy DEF AddPublish, RestorePublish
<1>5. CASE AddPlan(p) \/ RestorePlan(p)
  <2>1. ASSUME AddPlan(p) PROVE op'[p].pc = "download"
    <3>1. PICK r \in Ranks :
            op'[p] = [Idle EXCEPT !.kind = "add", !.pc = "download", !.rank = r]
      BY <1>2, <2>1 DEF AddPlan, Begin
    <3> QED BY <3>1 DEF Idle
  <2>2. ASSUME RestorePlan(p) PROVE op'[p].pc = "copy"
    <3>1. PICK r \in Ranks, c \in Receipts :
            op'[p] = [Idle EXCEPT !.kind = "restore", !.pc = "copy", !.rank = r,
                                  !.rc = c]
      BY <1>2, <2>2 DEF RestorePlan, Begin
    <3> QED BY <3>1 DEF Idle
  <2> QED BY <1>3, <1>5, <2>1, <2>2
<1>6. CASE AddRecheck(p) \/ RestoreRecheck(p)
  BY <1>2, <1>3, <1>6 DEF AddRecheck, RestoreRecheck, Recheck, Goto, Finish, Idle, Commands
<1>7. CASE AddDownload(p) \/ RestoreCopy(p)
  <2>1. ASSUME AddDownload(p) PROVE op'[p].pc = "verify"
    <3>1. PICK c \in Contents : op'[p] = [op[p] EXCEPT !.pc = "verify", !.content = c]
      BY <1>2, <2>1 DEF AddDownload
    <3> QED BY <1>2, <3>1 DEF Commands
  <2>2. ASSUME RestoreCopy(p) PROVE op'[p].pc = "hash"
    <3>1. op'[p] = [op[p] EXCEPT !.pc = "hash", !.content = archive[op[p].rc]]
      BY <1>2, <2>2 DEF RestoreCopy
    <3> QED BY <1>2, <3>1 DEF Commands
  <2> QED BY <1>3, <1>7, <2>1, <2>2
<1>8. CASE AddReceipt(p)
  <2>1. PICK c \in Receipts : op'[p] = [op[p] EXCEPT !.pc = "publish", !.rc = c]
    BY <1>2, <1>8 DEF AddReceipt
  <2>2. op'[p].pc = "publish"
    BY <1>2, <2>1 DEF Commands
  <2> QED BY <1>3, <2>2
<1>9. CASE AddVerify(p) \/ RestoreHash(p) \/ AddAttach(p)
  <2>1. op'[p] = Idle \/ op'[p] = [op[p] EXCEPT !.pc = "recheck"]
          \/ op'[p] = [op[p] EXCEPT !.pc = "enqueue"]
    BY <1>2, <1>9 DEF AddVerify, RestoreHash, AddAttach, Attach, Goto, Finish
  <2>2. op'[p].kind = "idle" \/ op'[p].pc \in {"recheck", "enqueue"}
    BY <1>2, <2>1 DEF Commands, Idle
  <2> QED BY <1>3, <2>2
<1>10. CASE AddEnqueue(p) \/ RestoreOccupy(p)
  BY <1>2, <1>3, <1>10 DEF AddEnqueue, RestoreOccupy, Attach, Finish, Idle
<1> QED BY <1>4, <1>5, <1>6, <1>7, <1>8, <1>9, <1>10 DEF HomeAdd, HomeRestore

\* home relocate hashes the tree, then reads its identity.
LEMMA RelocateOccupies ==
  ASSUME IInv, OccupyInv, NEW p \in Ops, HomeRelocate(p)
  PROVE  OccupyInv'
<1>1. Moved(p, {"relocate"}) /\ {"relocate"} \in SUBSET ExclusiveKinds
  BY CommandMoves DEF ExclusiveKinds
<1> SUFFICES OccupyOK(op'[p], tree')
  BY <1>1, AloneOccupy
<1>2. op \in [Ops -> Commands] /\ OccupyOK(op[p], tree)
  BY DEF IInv, OpInv, OccupyInv
<1>3. ASSUME op'[p].kind = "idle" \/ op'[p].pc \notin {"identity", "occupy"}
      PROVE  OccupyOK(op'[p], tree')
  BY <1>1, <1>3 DEF Moved, OccupyOK
<1>4. CASE RelocatePlan(p)
  <2>1. PICK r \in Ranks, c \in Receipts :
          op'[p] = [Idle EXCEPT !.kind = "relocate", !.rank = r, !.rc = c,
                                !.src = attachment.rank,
                                !.pc = IF Absent(r) THEN "copy" ELSE "hash"]
    BY <1>2, <1>4 DEF RelocatePlan, Begin
  <2>2. op'[p].pc \in {"copy", "hash"}
    BY <2>1 DEF Idle
  <2> QED BY <1>3, <2>2
<1>5. CASE RelocateCopy(p) \/ RelocateCopied(p)
  BY <1>2, <1>3, <1>5 DEF RelocateCopy, RelocateCopied, Goto, Finish, Idle, Commands
<1>6. CASE RelocateHash(p) /\ ~Finish(p)
  <2> DEFINE o == [op[p] EXCEPT !.pc = "identity", !.content = tree[op[p].rank].content]
  <2>1. op'[p] = o /\ UNCHANGED tree /\ op[p].kind = "relocate"
    BY <1>2, <1>6 DEF RelocateHash, At
  <2>2. /\ o.content = tree[op[p].rank].content /\ o.rank = op[p].rank
        /\ o.pc = "identity" /\ o.kind = "relocate"
    BY <1>2, <2>1 DEF Commands
  <2> HIDE DEF o
  <2> QED BY <2>1, <2>2 DEF OccupyOK
<1>7. CASE RelocateIdentity(p) /\ ~Finish(p)
  <2> DEFINE o == [op[p] EXCEPT !.pc = "occupy", !.id = tree[op[p].rank].id]
  <2>1. /\ op'[p] = o /\ UNCHANGED tree
        /\ op[p].kind = "relocate" /\ op[p].pc = "identity"
    BY <1>2, <1>7 DEF RelocateIdentity, At
  <2>2. /\ o.content = op[p].content /\ o.rank = op[p].rank
        /\ o.id = tree[op[p].rank].id
        /\ o.pc = "occupy" /\ o.kind = "relocate"
    BY <1>2, <2>1 DEF Commands
  <2> HIDE DEF o
  <2> QED BY <1>2, <2>1, <2>2 DEF OccupyOK
<1>8. CASE Finish(p)
  BY <1>2, <1>3, <1>8 DEF Finish, Idle
<1>9. CASE RelocateOccupy(p)
  BY <1>2, <1>3, <1>9 DEF RelocateOccupy, Attach, Finish, Idle, Commands
<1>10. CASE RelocateRetire(p)
  BY <1>2, <1>3, <1>10 DEF RelocateRetire, Finish, Idle, Commands
<1>11. CASE RelocateExecute(p)
  BY <1>2, <1>3, <1>11 DEF RelocateExecute, Execute, Finish, Idle
<1> QED BY <1>4, <1>5, <1>6, <1>7, <1>8, <1>9, <1>10, <1>11 DEF HomeRelocate

\* The three disturbances that put other bytes under a command.
Swaps == {"appear", "replace", "tamper"}

\* Without those, nothing changes a tree between its hash and its occupancy but
\* its disappearance.
LEMMA NextOccupyInv ==
  ASSUME Disturbances \cap Swaps = {}, IInv, OccupyInv, [Next]_vars
  PROVE  OccupyInv'
<1>1. ASSUME UNCHANGED <<tree, op>> PROVE OccupyInv'
  BY <1>1 DEF OccupyInv, OccupyOK
<1>2. ASSUME UNCHANGED tree, \A q \in Ops : op'[q] = op[q] \/ op'[q].kind = "idle"
      PROVE  OccupyInv'
  BY <1>2 DEF OccupyInv, OccupyOK
<1>3. ASSUME NEW p \in Ops, Command(p) PROVE OccupyInv'
  <2>1. CASE HomeRemove(p)
    <3>1. Moved(p, {"remove"}) /\ {"remove"} \in SUBSET ExclusiveKinds
      BY <2>1, CommandMoves DEF ExclusiveKinds
    <3>2. OccupyOK(op'[p], tree')
      BY <3>1 DEF Moved, OccupyOK
    <3> QED BY <3>1, <3>2, AloneOccupy
  <2>2. CASE HotUse(p)
    <3>1. /\ \A q \in Ops \ {p} : op'[q] = op[q]
          /\ op'[p].kind \notin ExclusiveKinds
      BY <2>2, HotMoves
    <3>2. UNCHANGED tree
      BY <2>2 DEF HotUse, PreparePlan, PrepareCopy, PrepareVerify, PurgePlan,
         PurgeExecute, LaunchPlan, LaunchStart
    <3> QED BY <3>1, <3>2 DEF OccupyInv, OccupyOK, ExclusiveKinds
  <2> QED BY <1>3, <2>1, <2>2, AddRestoreOccupy, RelocateOccupies DEF Command
<1>4. ASSUME NEW c \in Receipts, ArchiveRun(c) \/ HomeArchive(c) PROVE OccupyInv'
  <2>1. UNCHANGED <<tree, op>>
    BY <1>4 DEF ArchiveRun, HomeArchive, ArchiveStart, ArchiveRead, ArchiveCopy,
       ArchiveReplica, ArchivePublish, ArchiveComplete
  <2> QED BY <1>1, <2>1
<1>5. CASE CatalogRefresh \/ HomeReceipt \/ (\E r \in Ranks : Stop(r)) \/ UNCHANGED vars
  <2>1. UNCHANGED <<tree, op>>
    BY <1>5 DEF CatalogRefresh, HomeReceipt, ReceiptBackup, ReceiptRecover, Stop, vars
  <2> QED BY <1>1, <2>1
<1>6. ASSUME NEW r \in Ranks, TreeDisturbed(r) PROVE OccupyInv'
  <2>1. TreeVanishes(r)
    BY <1>6 DEF TreeDisturbed, TreeAppears, TreeReplaced, TreeTampered, Disturb, Swaps
  <2>2. UNCHANGED op /\ \A s \in Ranks : tree'[s] = tree[s] \/ tree'[s] = NoTree
    BY <2>1 DEF TreeVanishes, IInv, StoresInv
  <2>3. \A q \in Ops : op[q].kind # "idle" => op[q].rank \in Ranks
    BY DEF IInv, OpInv, CommandOK
  <2> QED BY <2>2, <2>3 DEF OccupyInv, OccupyOK
<1>7. ASSUME NEW p \in Ops, CommandAborts(p) PROVE OccupyInv'
  <2>1. UNCHANGED tree /\ \A q \in Ops : op'[q] = op[q] \/ op'[q].kind = "idle"
    BY <1>7 DEF CommandAborts, Finish, Idle, IInv, OpInv
  <2> QED BY <1>2, <2>1
<1>8. CASE ControllerLost
  <2>1. UNCHANGED tree /\ \A q \in Ops : op'[q].kind = "idle"
    BY <1>8 DEF ControllerLost, Idle
  <2> QED BY <1>2, <2>1
<1>9. ASSUME NEW c \in Receipts, ArchiveRots(c) \/ WorkerKilled(c) PROVE OccupyInv'
  <2>1. UNCHANGED <<tree, op>>
    BY <1>9 DEF ArchiveRots, WorkerKilled
  <2> QED BY <1>1, <2>1
<1> QED BY <1>3, <1>4, <1>5, <1>6, <1>7, <1>8, <1>9 DEF Next, Environment

\* The three steps that write an attachment.
LEMMA AttachmentComes ==
  ASSUME IInv, [Next]_vars, attachment' # attachment, attachment' # NoHome
  PROVE  \E p \in Ops :
           /\ \/ At(p, "add", "attach") \/ At(p, "restore", "occupy")
              \/ At(p, "relocate", "occupy") /\ op[p].content = "good"
           /\ UNCHANGED tree
           /\ attachment' = [rank |-> op[p].rank, id |-> op[p].id, rc |-> op[p].rc]
<1> DEFINE Comes ==
      \E p \in Ops :
        /\ \/ At(p, "add", "attach") \/ At(p, "restore", "occupy")
           \/ At(p, "relocate", "occupy") /\ op[p].content = "good"
        /\ UNCHANGED tree
        /\ attachment' = [rank |-> op[p].rank, id |-> op[p].id, rc |-> op[p].rc]
<1>1. ASSUME NEW p \in Ops, AddAttach(p) \/ RestoreOccupy(p) \/ RelocateOccupy(p)
      PROVE  Comes
  BY <1>1 DEF AddAttach, RestoreOccupy, RelocateOccupy, Attach, storeVars
<1>2. ASSUME NEW p \in Ops, HomeAdd(p) PROVE AddAttach(p)
  BY <1>2 DEF HomeAdd, AddPlan, AddDownload, AddVerify, AddRecheck, Recheck,
     AddReceipt, AddPublish, Publish, AddEnqueue, storeVars
<1>3. ASSUME NEW p \in Ops, HomeRelocate(p) PROVE RelocateOccupy(p)
  BY <1>3 DEF HomeRelocate, RelocatePlan, RelocateCopy, RelocateCopied,
     RelocateHash, RelocateIdentity, RelocateRetire, RelocateExecute, Execute, storeVars
<1>4. ASSUME NEW p \in Ops, HomeRestore(p) PROVE RestoreOccupy(p)
  BY <1>4 DEF HomeRestore, RestorePlan, RestoreCopy, RestoreHash,
     RestoreRecheck, Recheck, RestorePublish, Publish, storeVars
<1>5. ASSUME NEW p \in Ops, HomeRemove(p) \/ HotUse(p) PROVE FALSE
  <2>1. ~HotUse(p)
    BY DEF HotUse, PreparePlan, PrepareCopy, PrepareVerify, PurgePlan, PurgeExecute,
       LaunchPlan, LaunchStart, storeVars
  <2> QED BY <1>5, <2>1 DEF HomeRemove, RemovePlan, RemoveReverify, RemoveDetach,
         RemoveExecute, Execute, RemoveRefresh, storeVars
<1>6. ASSUME NEW c \in Receipts, ArchiveRun(c) \/ HomeArchive(c) PROVE FALSE
  BY <1>6 DEF ArchiveRun, HomeArchive, ArchiveStart, ArchiveRead, ArchiveCopy,
     ArchiveReplica, ArchivePublish, ArchiveComplete, storeVars
<1>7. ~CatalogRefresh /\ ~HomeReceipt /\ ~UNCHANGED vars /\ \A r \in Ranks : ~Stop(r)
  BY DEF CatalogRefresh, HomeReceipt, ReceiptBackup, ReceiptRecover, Stop, storeVars, vars
<1>8. ~Environment
  BY DEF Environment, TreeDisturbed, TreeAppears, TreeVanishes, TreeReplaced,
     TreeTampered, ArchiveRots, WorkerKilled, CommandAborts, ControllerLost, storeVars
<1> QED BY <1>1, <1>2, <1>3, <1>4, <1>5, <1>6, <1>7, <1>8 DEF Next, Command

\* Occupancy is granted only to the directory whose bytes matched the receipt, as
\* long as nobody else puts bytes under the command's hands: home add reads no
\* byte again after publication, home relocate none after its hash.
THEOREM OccupancyVerifies ==
  ASSUME Disturbances \cap {"appear", "replace", "tamper"} = {}
  PROVE  Spec => OccupancyVerified
<1>1. ASSUME IInv, OccupyInv, [Next]_vars,
             /\ attachment' # attachment
             /\ attachment' # NoHome
             /\ tree'[attachment'.rank] # NoTree
      PROVE  tree'[attachment'.rank] = [id |-> attachment'.id, content |-> "good"]
  <2>1. PICK p \in Ops :
           /\ \/ At(p, "add", "attach") \/ At(p, "restore", "occupy")
              \/ At(p, "relocate", "occupy") /\ op[p].content = "good"
           /\ UNCHANGED tree
           /\ attachment' = [rank |-> op[p].rank, id |-> op[p].id, rc |-> op[p].rc]
    BY <1>1, AttachmentComes
  <2>2. attachment'.rank = op[p].rank /\ attachment'.id = op[p].id
    BY <2>1
  <2>3. OccupyOK(op[p], tree) /\ tree[op[p].rank] # NoTree
    BY <1>1, <2>1, <2>2 DEF OccupyInv
  <2>4. tree[op[p].rank] \in Trees
    BY <1>1, <2>1, <2>3 DEF IInv, StoresInv, OpInv, CommandOK, At
  <2>5. tree[op[p].rank] = [id |-> tree[op[p].rank].id,
                            content |-> tree[op[p].rank].content]
    BY <2>4 DEF Trees
  <2> QED BY <2>1, <2>2, <2>3, <2>5 DEF OccupyOK, At
<1>2. IInv /\ OccupyInv /\ [Next]_vars =>
        [/\ attachment' # attachment
         /\ attachment' # NoHome
         /\ tree'[attachment'.rank] # NoTree
         => tree'[attachment'.rank] = [id |-> attachment'.id, content |-> "good"]]_vars
  BY <1>1
<1>3. Init => OccupyInv
  BY DEF Init, OccupyInv, OccupyOK, Idle
<1>4. IInv /\ OccupyInv /\ [Next]_vars => OccupyInv'
  BY NextOccupyInv DEF Swaps
<1> QED BY <1>2, <1>3, <1>4, Invariance, PTL DEF Spec, OccupancyVerified
=============================================================================
