-------------------------- MODULE ValidationOutcome --------------------------
(***************************************************************************)
(* From measurements to a validation status: how                           *)
(* model_serving_release_attempt.py turns one measurement into a run       *)
(* record and how model_validation_evidence.py adjudicates the run records *)
(* of an evidence bundle and a review into criterion results and a status. *)
(* Pure operators; ReleaseRegistry is the state machine that uses them.    *)
(*                                                                         *)
(* Abstracted: a metric and its threshold are one verdict (met), a sample  *)
(* size how it compares with the required one; a context or soak           *)
(* requirement, or a predecessor's baseline, is the outcome its comparison *)
(* yields ("pass" where the contract requires nothing).                    *)
(***************************************************************************)
EXTENDS Naturals, FiniteSets

Outcomes == {"pass", "fail", "inconclusive", "not-evaluated"}
Completions == {"completed", "failed", "interrupted", "inconclusive"}
Statuses == {"untested", "testing-incomplete", "tested-criteria-not-met",
             "tested-inconclusive", "validated"}
Components == {"pass", "fail", "pending"}   \* a review component's result
Privacies == {"passed", "pending", "failed"}
Provenance == "provenance-security"         \* the one criterion no run observes

\* The first of fail, inconclusive and not-evaluated that occurs in S.
Worst(S) ==
  IF "fail" \in S THEN "fail"
  ELSE IF "inconclusive" \in S THEN "inconclusive"
  ELSE IF "not-evaluated" \in S THEN "not-evaluated"
  ELSE "pass"

-----------------------------------------------------------------------------
(* One attempt: the result file of one operation of the validator.         *)
(*   reason   why it ended; a file that cannot be parsed is corrupt        *)
(*   fits     the criteria whose workload and protocol it followed         *)
(*   sample   how much it measured of what each criterion wants            *)
(*   known    the criteria whose metrics it has; met: within thresholds    *)
(*   nested, relative   the verdicts of its requirements, per criterion    *)

Operations == {"compare", "bench", "accuracy", "soak"}
Samples == {"exact", "short", "over", "cut"}   \* cut: a benchmark level's end

\* The file of an operation covers every criterion of the contract; only the
\* levels of a benchmark have ends of their own.
Measured(op, criteria, m) ==
  /\ m.sample \in [criteria -> Samples]
  /\ m.nested \in [criteria -> Outcomes] /\ m.relative \in [criteria -> Outcomes]
  /\ op # "bench" => \A c \in criteria : m.sample[c] # "cut"

Readable(m) == m.reason # "corrupt-measurement"
Whole(m) == m.reason = "completed"

\* Every criterion of the operation, or those a gsm8k or soak result was made for.
Declared(op, criteria, m) ==
  LET exact == criteria \cap m.fits IN
  IF op \in {"accuracy", "soak"} /\ Readable(m) /\ exact # {} THEN exact ELSE criteria

SampleReason(s) == IF s = "short" THEN "short-sample" ELSE "protocol-mismatch"
MetricReason(m, c) == IF c \in m.known THEN "completed" ELSE "unsupported-metric"

\* A comparison's protocol is the contract's alone, so it is asked first.
CompareReason(m, c) ==
  IF c \notin m.fits THEN "protocol-mismatch"
  ELSE IF ~Whole(m) THEN m.reason
  ELSE IF m.sample[c] # "exact" THEN SampleReason(m.sample[c])
  ELSE MetricReason(m, c)

\* A benchmark has a level per concurrency, each with its own end.
BenchReason(m, c) ==
  IF ~Whole(m) THEN m.reason
  ELSE IF c \notin m.fits THEN "protocol-mismatch"
  ELSE IF m.sample[c] = "cut" THEN "interrupted"
  ELSE IF m.sample[c] # "exact" THEN SampleReason(m.sample[c])
  ELSE MetricReason(m, c)

AccuracyReason(m, c) ==
  IF ~Whole(m) THEN m.reason
  ELSE IF c \notin m.fits THEN "protocol-mismatch"
  ELSE IF m.sample[c] # "exact" THEN SampleReason(m.sample[c])
  ELSE MetricReason(m, c)

\* A soak may do more requests than wanted.
SoakReason(m, c) ==
  IF ~Whole(m) THEN m.reason
  ELSE IF c \notin m.fits THEN "protocol-mismatch"
  ELSE IF m.sample[c] = "short" THEN "short-sample"
  ELSE MetricReason(m, c)

Reason(op, m, c) ==
  CASE op = "compare" -> CompareReason(m, c)
    [] op = "bench" -> BenchReason(m, c)
    [] op = "accuracy" -> AccuracyReason(m, c)
    [] op = "soak" -> SoakReason(m, c)

\* A soak that ran its protocol to the end keeps its verdict, whatever the sample.
KeepsVerdict(op, m, c) == op = "soak" /\ Whole(m) /\ c \in m.fits

AttemptCompletion(m, reasons) ==
  IF "interrupted" \in reasons \cup {m.reason} THEN "interrupted"
  ELSE IF ~Readable(m) \/ m.reason = "unusable-input" THEN "failed"
  ELSE IF reasons \cup {m.reason} # {"completed"} THEN "inconclusive"
  ELSE "completed"

\* All observations of an attempt that did not complete are inconclusive.
Compose(op, criteria, m) ==
  LET declared == Declared(op, criteria, m)
      done == AttemptCompletion(m, {Reason(op, m, c) : c \in declared}) IN
  [completion |-> done,
   observed   |-> [c \in declared |->
                     [complete |-> done = "completed", met |-> c \in m.met,
                      nested |-> IF done = "completed" \/ KeepsVerdict(op, m, c)
                                   THEN m.nested[c] ELSE "pass",
                      relative |-> m.relative[c]]]]

-----------------------------------------------------------------------------
(* One criterion.  recs[r] is the run record of attempt r of the bundle.   *)

Evaluated(o) ==
  IF ~o.complete THEN IF o.nested = "fail" THEN "fail" ELSE "inconclusive"
  ELSE IF ~o.met THEN "fail"
  ELSE Worst({o.nested, o.relative})

RunOutcome(rec, c) ==
  LET outcome == Evaluated(rec.observed[c]) IN
  IF outcome = "pass" /\ rec.completion # "completed"
  THEN "inconclusive" ELSE outcome

Observing(recs, c) == {r \in DOMAIN recs : c \in DOMAIN recs[r].observed}
Included(recs, c, excluded) ==
  {r \in Observing(recs, c) : <<c, r>> \notin excluded}

\* Mutant: one passing attempt is enough.
AggregateAnyPass(S) == IF "pass" \in S THEN "pass" ELSE Worst(S)

Aggregate(S) ==
  IF "pass" \in S /\ S \cap {"fail", "inconclusive"} # {}
  THEN "inconclusive" ELSE Worst(S)

CriterionResult(recs, c, excluded) ==
  LET included == Included(recs, c, excluded)
      outcomes == {RunOutcome(recs[r], c) : r \in included} IN
  IF included = {} THEN "not-evaluated" ELSE Aggregate(outcomes)

\* Passing evidence of a strict criterion must come from one server boot.
StrictHolds(recs, c, excluded) ==
  LET included == Included(recs, c, excluded) IN
  (\A r \in included : RunOutcome(recs[r], c) = "pass") =>
  Cardinality({recs[r].boot : r \in included}) <= 1

-----------------------------------------------------------------------------
(* The review and the status.  privacy[r] is the review of the evidence of *)
(* attempt r; component stands for the other provenance components.        *)

PrivacyDisposition(privacy) ==
  LET values == {privacy[r] : r \in DOMAIN privacy} IN
  IF "failed" \in values THEN "fail"
  ELSE IF values = {"passed"} THEN "pass" ELSE "pending"

ProvenanceDisposition(privacy, component) ==
  LET values == {PrivacyDisposition(privacy), component} IN
  IF "fail" \in values THEN "fail"
  ELSE IF values = {"pass"} THEN "pass" ELSE "not-evaluated"

Started(recs) == \E r \in DOMAIN recs : recs[r].barrier

Results(criteria, recs, excluded, privacy, component) ==
  [c \in criteria \cup {Provenance} |->
     IF c = Provenance THEN ProvenanceDisposition(privacy, component)
     ELSE CriterionResult(recs, c, excluded)]

DerivedStatus(started, results) ==
  LET dispositions == {results[c] : c \in DOMAIN results} IN
  IF ~started THEN "untested"
  ELSE IF "fail" \in dispositions THEN "tested-criteria-not-met"
  ELSE IF "inconclusive" \in dispositions THEN "tested-inconclusive"
  ELSE IF dispositions = {"pass"} THEN "validated"
  ELSE "testing-incomplete"

\* A conclusive component and an exclusion need review evidence in the
\* bundle; an exclusion names an observation of the bundle.
ReviewAdmitted(criteria, recs, excluded, privacy, component) ==
  LET cited == \E r \in DOMAIN recs : recs[r].review IN
  /\ {PrivacyDisposition(privacy), component} # {"pending"} => cited
  /\ excluded # {} => cited
  /\ \A x \in excluded : x[2] \in Observing(recs, x[1])
=============================================================================
