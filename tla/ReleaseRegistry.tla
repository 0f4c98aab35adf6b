--------------------------- MODULE ReleaseRegistry ---------------------------
(***************************************************************************)
(* The tracked registry of one model-serving release under one frozen      *)
(* contract: attempts are captured into immutable candidates and assembled *)
(* into bundles (model_serving_release_capture.py), a review declaration   *)
(* turns a candidate into a proposal of content-addressed files, and stage *)
(* writes them into the checkout (model_serving_release_issue.py) beside   *)
(* what the registry already stores (model_serving_release_registry.py).   *)
(*                                                                         *)
(* Nothing locks the checkout: several stages may run at once, any of them *)
(* may be killed between two steps, and a file is created under its final  *)
(* name before its bytes are written.  A plan, the Git check and the final *)
(* verification each read the checkout in one step.                        *)
(***************************************************************************)
EXTENDS Naturals, Sequences, FiniteSets, ValidationOutcome

CONSTANTS
  Runs,            \* attempt numbers; attempt r ends at time r
  Criteria,        \* the measured criteria of the contract
  Strict,          \* those that need evidence of one server boot
  Attempts,        \* run contents the operator may capture
  Plain,           \* the content captured when only the order matters
  Stagers,         \* processes that run stage in one checkout
  MaxDecisions,    \* bound on distinct decisions ever proposed
  MaxTime,         \* bound on review times
  MaxKills,        \* bound on killed stages
  MaxDrifts        \* bound on evidence files edited after capture

ASSUME RunsAssumption == Runs \subseteq Nat
ASSUME CriteriaAssumption == Provenance \notin Criteria /\ Strict \subseteq Criteria
\* An attempt that ended before the barrier observed nothing; every other one
\* is what its operation's result file amounts to.
Attempted(a) ==
  /\ a.completion \in Completions /\ a.barrier \in BOOLEAN /\ a.review \in BOOLEAN
  /\ \/ a.completion # "completed" /\ DOMAIN a.observed = {}
     \/ LET composed == Compose(a.op, Criteria, a.file) IN
        /\ a.op \in Operations /\ Measured(a.op, Criteria, a.file)
        /\ a.completion = composed.completion /\ a.observed = composed.observed
ASSUME AttemptsAssumption == \A a \in Attempts : Attempted(a)
ASSUME PlainAssumption == Plain \in Attempts
ASSUME BoundsAssumption ==
  /\ MaxDecisions \in Nat /\ MaxTime \in Nat \ {0}
  /\ MaxKills \in Nat /\ MaxDrifts \in Nat

VARIABLES
  captured,    \* captured[r]: the run record of attempt r, or NoAttempt
  candidates,  \* candidate directories, each the set of attempts it holds
  evidence,    \* evidence[r]: whether r's evidence file is what was captured
  decided,     \* content of every decision ever proposed; its index is its id
  tree,        \* whole registry files of the checkout
  torn,        \* registry files created but not written to the end
  head,        \* registry files of the commit the branch started from
  stager,      \* stager[s]: the stage process s is running
  kills, drifts,
  focus        \* a bound of the check: vary the content of one decision, or
               \* the order of several, or of two with killed stages

vars == <<captured, candidates, evidence, decided, tree, torn, head, stager,
          kills, drifts, focus>>
registry == <<tree, torn, head>>
inputs == <<captured, candidates, evidence>>

NoAttempt == [completion |-> "none"]
Kinds == {"release", "contract", "run", "bundle", "decision"}
Unreviewed == [r \in Runs |-> "pending"]

\* A registry file: its namespace and what its content id binds.
Files == [kind : Kinds, runs : SUBSET Runs, privacy : [Runs -> Privacies],
          id : Nat]
Decisions == [runs : SUBSET Runs, privacy : [Runs -> Privacies],
              component : Components, excluded : SUBSET (Criteria \X Runs),
              supersedes : SUBSET Nat, at : 1..MaxTime,
              results : [Criteria \cup {Provenance} -> Outcomes],
              status : Statuses]

Release == [kind |-> "release", runs |-> {}, privacy |-> Unreviewed, id |-> 0]
Contract == [Release EXCEPT !.kind = "contract"]

\* A privacy verdict changes the artifact's id and with it the run record's
\* and the bundle's.
Reviewed(B, privacy) == [r \in Runs |-> IF r \in B THEN privacy[r] ELSE "pending"]
RunFile(r, privacy) == [Release EXCEPT !.kind = "run", !.runs = {r},
                                       !.privacy = Reviewed({r}, privacy)]
BundleFile(B, privacy) == [Release EXCEPT !.kind = "bundle", !.runs = B,
                                          !.privacy = Reviewed(B, privacy)]
DecisionFile(d) == [Release EXCEPT !.kind = "decision", !.id = d]

RunFiles(B, privacy) == {RunFile(r, privacy) : r \in B}
Proposed(B, privacy, d) ==
  {Release, Contract, BundleFile(B, privacy), DecisionFile(d)}
    \cup RunFiles(B, privacy)
Proposal(d) == Proposed(decided[d].runs, decided[d].privacy, d)

OfKind(T, kind) == {f \in T : f.kind = kind}
Stored(T) == {f.id : f \in OfKind(T, "decision")}

-----------------------------------------------------------------------------
(* Verification of a registry graph.                                       *)

\* Mutant: a reviewed artifact is not hashed again.
EvidenceKeptTrusted(B, privacy) == TRUE

EvidenceKept(B, privacy) ==
  \A r \in B : privacy[r] = "passed" => evidence[r] = "kept"

BundleVerifies(T, f) ==
  /\ {Release, Contract} \subseteq T
  /\ RunFiles(f.runs, f.privacy) \subseteq T
  /\ EvidenceKept(f.runs, f.privacy)

Superseders(T, D, d) == {e \in Stored(T) : d \in D[e].supersedes}

Verifies(T, D) ==
  /\ Contract \in T => Release \in T
  /\ \A b \in OfKind(T, "bundle") : BundleVerifies(T, b)
  /\ OfKind(T, "run") \subseteq
       UNION {RunFiles(b.runs, b.privacy) : b \in OfKind(T, "bundle")}
  /\ \A d \in Stored(T) :
       /\ BundleFile(D[d].runs, D[d].privacy) \in T
       /\ D[d].supersedes \subseteq Stored(T)
       /\ Cardinality(Superseders(T, D, d)) <= 1

\* load_registry of the checkout; a torn file is not readable JSON.
Loads == torn = {} /\ Verifies(tree, decided)

\* Mutant: planning wants a complete graph.
PlanLoadsWhole == Loads

\* Planning falls back on a scan when the graph is incomplete.
PlanLoads == Loads \/ torn = {}

Heads(T) == {d \in Stored(T) : Superseders(T, decided, d) = {}}
Inspection ==
  IF Cardinality(Heads(tree)) > 1 THEN "ambiguous"
  ELSE IF Heads(tree) = {} THEN "none"
  ELSE decided[CHOOSE d \in Heads(tree) : TRUE].status

CandidateVerifies(B) == B \in candidates /\ \A r \in B : evidence[r] = "kept"

-----------------------------------------------------------------------------
(* Capture and assembly.                                                   *)

Capture(r, a) ==
  /\ captured[r] = NoAttempt
  /\ focus # "content" => a = Plain /\ decided = <<>>
  /\ captured' = [captured EXCEPT ![r] = a]
  /\ candidates' = candidates \cup {{r}}
  /\ UNCHANGED <<evidence, decided, registry, stager, kills, drifts, focus>>

\* A destination that exists is never replaced.
Assemble(A, B) ==
  /\ CandidateVerifies(A) /\ CandidateVerifies(B)
  /\ A \cup B \notin candidates /\ focus = "content"
  /\ candidates' = candidates \cup {A \cup B}
  /\ UNCHANGED <<captured, evidence, decided, registry, stager, kills, drifts,
                 focus>>

-----------------------------------------------------------------------------
(* A review declaration and the decision it yields.                        *)

Records(B) == [r \in B |-> captured[r]]

Built(B, privacy, component, excluded, supersedes, at) ==
  LET results == Results(Criteria, Records(B), excluded,
                         [r \in B |-> privacy[r]], component)
  IN [runs |-> B, privacy |-> Reviewed(B, privacy), component |-> component,
      excluded |-> excluded, supersedes |-> supersedes, at |-> at,
      results |-> results,
      status |-> DerivedStatus(Started(Records(B)), results)]

\* Mutant: a later decision is one that is not earlier.
DecisionAdmittedSameTime(d) ==
  LET recs == Records(d.runs) IN
  /\ ReviewAdmitted(Criteria, recs, d.excluded,
                    [r \in d.runs |-> d.privacy[r]], d.component)
  /\ \A c \in Strict : StrictHolds(recs, c, d.excluded)
  /\ \A r \in d.runs : r <= d.at
  /\ d.supersedes \subseteq Stored(tree)
  /\ \A e \in d.supersedes : decided[e].at <= d.at

DecisionAdmitted(d) ==
  LET recs == Records(d.runs) IN
  /\ ReviewAdmitted(Criteria, recs, d.excluded,
                    [r \in d.runs |-> d.privacy[r]], d.component)
  /\ \A c \in Strict : StrictHolds(recs, c, d.excluded)
  /\ \A r \in d.runs : r <= d.at
  /\ d.supersedes \subseteq Stored(tree)
  /\ \A e \in d.supersedes : decided[e].at < d.at

\* Bounds of the check.  Under "order" and "kill" a review only chooses its
\* candidate, its time and what it supersedes; under "content" one decision varies in one
\* of the privacy verdicts, the components and the exclusions.
AllPassed(B) == [r \in B |-> "passed"]
Verdicts(B) ==
  IF focus # "content" THEN {<<AllPassed(B), "pass", {}>>}
  ELSE ([B -> Privacies] \X {"pass"} \X {{}})
         \cup ({AllPassed(B)} \X Components \X {{}})
         \cup ({AllPassed(B)} \X {"pass"} \X {{x} : x \in Criteria \X B})
Superseded == IF focus # "content" THEN SUBSET Stored(tree) ELSE {{}}
DecisionBound == CASE focus = "order" -> MaxDecisions [] focus = "kill" -> 2
                   [] focus = "content" -> 1
Times == IF focus # "content" THEN 1..MaxTime ELSE {MaxTime}

-----------------------------------------------------------------------------
(* stage: plan, Git check, writes in dependency order, final verification. *)

Idle == [pc |-> "idle", id |-> 0, file |-> Release, result |-> "none"]
Busy == {s \in Stagers : stager[s].pc # "idle"}
Finish(s, result) == stager' = [stager EXCEPT ![s] = [Idle EXCEPT !.result = result]]

\* Equal content has the same id.
IdOf(d) == IF \E i \in 1..Len(decided) : decided[i] = d
           THEN CHOOSE i \in 1..Len(decided) : decided[i] = d
           ELSE Len(decided) + 1
With(d) == IF IdOf(d) <= Len(decided) THEN decided ELSE Append(decided, d)

PlanAdmits(d) ==
  /\ CandidateVerifies(d.runs)
  /\ PlanLoads
  /\ DecisionAdmitted(d)
  /\ Verifies(tree \cup Proposed(d.runs, d.privacy, IdOf(d)), With(d))

Plan(s, d) ==
  /\ stager[s].pc = "idle"
  /\ IdOf(d) <= DecisionBound
  /\ PlanAdmits(d)
  /\ decided' = With(d)
  /\ stager' = [stager EXCEPT ![s] = [Idle EXCEPT !.pc = "git", !.id = IdOf(d)]]
  /\ UNCHANGED <<inputs, registry, kills, drifts, focus>>

\* The worktree is clean but for equal files of this proposal.
GitAdmits(files) ==
  /\ torn = {} /\ tree \ head \subseteq files
  /\ \A r \in Runs : evidence[r] = "kept"

GitCheck(s) ==
  /\ stager[s].pc = "git"
  /\ IF GitAdmits(Proposal(stager[s].id))
     THEN stager' = [stager EXCEPT ![s].pc = "write"]
     ELSE Finish(s, "failed")
  /\ UNCHANGED <<inputs, decided, registry, kills, drifts, focus>>

Rank(f) == CASE f.kind = "release" -> 1 [] f.kind = "contract" -> 2
             [] f.kind = "run" -> 3 [] f.kind = "bundle" -> 4
             [] f.kind = "decision" -> 5

\* Files that exist with the planned bytes are reused.
Missing(s) == Proposal(stager[s].id) \ tree
NextFiles(s) == {f \in Missing(s) : \A g \in Missing(s) : Rank(f) <= Rank(g)}

\* A file is created exclusively; one that exists with other bytes refuses.
Create(s, f) ==
  /\ stager[s].pc = "write" /\ f \in NextFiles(s)
  /\ IF f \in torn
     THEN Finish(s, "failed") /\ torn' = torn
     ELSE /\ torn' = torn \cup {f}
          /\ stager' = [stager EXCEPT ![s].pc = "writing", ![s].file = f]
  /\ UNCHANGED <<inputs, decided, tree, head, kills, drifts, focus>>

FillFile(s) ==
  LET f == stager[s].file IN
  /\ stager[s].pc = "writing"
  /\ torn' = torn \ {f} /\ tree' = tree \cup {f}
  /\ stager' = [stager EXCEPT ![s].pc = "write"]
  /\ UNCHANGED <<inputs, decided, head, kills, drifts, focus>>

\* Mutant: the checkout is not loaded again after the last file.
FinalLoadSkipped(s) ==
  /\ stager[s].pc = "write" /\ Missing(s) = {}
  /\ Finish(s, "ok")
  /\ UNCHANGED <<inputs, decided, registry, kills, drifts, focus>>

FinalLoad(s) ==
  /\ stager[s].pc = "write" /\ Missing(s) = {}
  /\ Finish(s, IF Loads /\ CandidateVerifies(decided[stager[s].id].runs)
               THEN "ok" ELSE "failed")
  /\ UNCHANGED <<inputs, decided, registry, kills, drifts, focus>>

\* A signal, a crash or a lost session between any two steps.
Kill(s) ==
  /\ stager[s].pc # "idle" /\ kills < MaxKills /\ focus = "kill"
  /\ kills' = kills + 1
  /\ Finish(s, "killed")
  /\ UNCHANGED <<inputs, decided, registry, drifts, focus>>

-----------------------------------------------------------------------------
(* The maintainer and the environment.                                     *)

\* The proposal is reviewed and merged; work goes on from the merge.
Commit ==
  /\ Busy = {} /\ Loads /\ tree # head /\ focus # "content"
  /\ head' = tree
  /\ stager' = [s \in Stagers |-> Idle]
  /\ UNCHANGED <<inputs, decided, tree, torn, kills, drifts, focus>>

\* The operator abandons the proposal (git clean).
Discard ==
  /\ Busy = {} /\ (tree # head \/ torn # {})
  /\ tree' = head /\ torn' = {}
  /\ stager' = [s \in Stagers |-> Idle]
  /\ UNCHANGED <<inputs, decided, head, kills, drifts, focus>>

Drift(r) ==
  /\ captured[r] = Plain /\ evidence[r] = "kept" /\ drifts < MaxDrifts
  /\ focus = "content" /\ decided # <<>>
  /\ evidence' = [evidence EXCEPT ![r] = "drifted"]
  /\ drifts' = drifts + 1
  /\ UNCHANGED <<captured, candidates, decided, registry, stager, kills, focus>>

Init ==
  /\ captured = [r \in Runs |-> NoAttempt]
  /\ candidates = {}
  /\ evidence = [r \in Runs |-> "kept"]
  /\ decided = <<>>
  /\ tree = {} /\ torn = {} /\ head = {}
  /\ stager = [s \in Stagers |-> Idle]
  /\ kills = 0 /\ drifts = 0
  /\ focus \in {"content", "order", "kill"}

StagePlan(s) ==
  /\ stager[s].pc = "idle" /\ focus = "content" => Busy = {}
  /\ \E B \in candidates : \E v \in Verdicts(B), old \in Superseded, at \in Times :
       Plan(s, Built(B, v[1], v[2], v[3], old, at))

Stage(s) ==
  \/ StagePlan(s) \/ GitCheck(s)
  \/ stager[s].pc = "write" /\ \E f \in NextFiles(s) : Create(s, f)
  \/ FillFile(s) \/ FinalLoad(s)

Next ==
  \/ \E r \in Runs, a \in Attempts : Capture(r, a)
  \/ \E A, B \in candidates : Assemble(A, B)
  \/ \E s \in Stagers : Stage(s) \/ Kill(s)
  \/ Commit \/ Discard
  \/ \E r \in Runs : Drift(r)

Spec == Init /\ [][Next]_vars

-----------------------------------------------------------------------------
(* Properties.                                                             *)

\* Every variable keeps its type.
TypeOK ==
  /\ captured \in [Runs -> Attempts \cup {NoAttempt}]
  /\ candidates \subseteq SUBSET Runs
  /\ evidence \in [Runs -> {"kept", "drifted"}]
  /\ \A i \in 1..Len(decided) : decided[i] \in Decisions
  /\ tree \subseteq Files /\ torn \subseteq Files /\ head \subseteq Files
  /\ stager \in [Stagers -> [pc : {"idle", "git", "write", "writing"}, id : Nat,
                             file : Files,
                             result : {"none", "ok", "failed", "killed"}]]
  /\ kills \in 0..MaxKills /\ drifts \in 0..MaxDrifts
  /\ focus \in {"content", "order", "kill"}

\* The adjudication table of decision 0004, as an independent reference.
TableOutcome(S) ==
  IF S = {} THEN "not-evaluated"
  ELSE IF Cardinality(S) = 1 THEN CHOOSE o \in S : TRUE
  ELSE IF S = {"fail", "inconclusive"} THEN "fail"
  ELSE "inconclusive"

\* The stored result of every criterion is the table's, over all runs of the
\* bundle that observe it and are not excluded with review evidence, and the
\* stored status is the first of not-met, inconclusive, incomplete, validated
\* that the results admit: no attempt outvotes a failure
\* (_aggregate_observation_outcomes, derive_validation_status).
StatusFollowsTable ==
  \A i \in 1..Len(decided) :
    LET d == decided[i]
        observing(c) == {r \in d.runs : c \in DOMAIN captured[r].observed}
        included(c) == {r \in observing(c) : <<c, r>> \notin d.excluded}
        outcomes(c) == {RunOutcome(captured[r], c) : r \in included(c)}
        found(o) == \E c \in Criteria \cup {Provenance} : d.results[c] = o
    IN /\ \A c \in Criteria : "not-evaluated" \notin outcomes(c) =>
            d.results[c] = TableOutcome(outcomes(c))
       /\ \A r \in d.runs, c \in Criteria :
            (r \in included(c) /\ captured[r].observed[c].nested = "fail") =>
               d.results[c] \in {"fail", "inconclusive"}
       /\ (\A r \in d.runs : ~captured[r].barrier) <=> d.status = "untested"
       /\ d.status # "untested" =>
            /\ found("fail") <=> d.status = "tested-criteria-not-met"
            /\ (found("inconclusive") /\ ~found("fail"))
                 <=> d.status = "tested-inconclusive"

\* The result file shows criterion c to be met: it ended by itself, followed c's
\* protocol, and has the whole sample and the metrics, within the thresholds.
Shows(op, m, c) ==
  /\ m.reason = "completed"
  /\ c \in m.fits \cap m.known \cap m.met
  /\ m.sample[c] \in (IF op = "soak" THEN {"exact", "over"} ELSE {"exact"})
  /\ m.nested[c] = "pass" /\ m.relative[c] = "pass"

\* A release the registry shows as validated has, for every criterion, an
\* attempt whose result file shows it met, no included attempt whose file does
\* not, evidence that passed the privacy review and still has its captured bytes
\* (compose_attempt_spec, validate_validation_decision,
\* verify_publishable_evidence_artifact).
ValidatedEarned ==
  (Inspection = "validated" /\ Loads) =>
  \E d \in {decided[i] : i \in Heads(tree)} :
    /\ \A c \in Criteria :
         LET included == {r \in d.runs : c \in DOMAIN captured[r].observed
                                           /\ <<c, r>> \notin d.excluded} IN
         /\ included # {}
         /\ \A r \in included : Shows(captured[r].op, captured[r].file, c)
    /\ \A r \in d.runs : d.privacy[r] = "passed" /\ evidence[r] = "kept"
    /\ d.component = "pass"
    /\ \E r \in d.runs : captured[r].review

\* When no stage runs and none that ran last reported a failure or was
\* killed, the checkout verifies, also when stages of different proposals
\* overlapped: the one that wrote last has loaded what all wrote
\* (stage_issue_plan).
QuietRegistryVerifies ==
  (/\ Busy = {} /\ drifts = 0
   /\ \A s \in Stagers : stager[s].result \in {"none", "ok"}) => Loads

\* A stage interrupted between two files can be run again: while what it
\* left is part of one proposal that is sound over the commit, planning and
\* the Git check admit that proposal (load_registry_for_issue_plan).
InterruptedStageResumes ==
  (Busy = {} /\ torn = {} /\ drifts = 0) =>
  \A i \in 1..Len(decided) :
    (/\ tree \ head \subseteq Proposal(i)
     /\ Verifies(head \cup Proposal(i), decided)
     /\ decided[i].supersedes \subseteq Stored(head))
    => PlanAdmits(decided[i]) /\ GitAdmits(Proposal(i))

\* The documented promise: an interrupted stage can be run again wherever it
\* was interrupted.
InterruptedStageRetries ==
  (Busy = {} /\ drifts = 0 /\ Cardinality(Stagers) = 1) =>
  \A i \in 1..Len(decided) :
    (/\ (tree \cup torn) \ head \subseteq Proposal(i)
     /\ Verifies(head \cup Proposal(i), decided))
    => PlanAdmits(decided[i]) /\ GitAdmits(Proposal(i))

\* Unless a proposal is discarded, the one effective decision of a checkout
\* that loads is replaced only by a strictly later review that supersedes it
\* (_supersession_lineage_closure, effective_validation_status).
LaterReviewSupersedes ==
  [][\A d \in Stored(tree), e \in Stored(tree') \ Stored(tree) :
       (Heads(tree) = {d} /\ Heads(tree)' = {e}
        /\ Verifies(tree, decided) /\ Verifies(tree', decided')) =>
       /\ d \in decided'[e].supersedes
       /\ decided'[e].at > decided'[d].at]_vars
=============================================================================
