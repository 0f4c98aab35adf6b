----------------------- MODULE ReleaseRegistry_proofs -----------------------
(***************************************************************************)
(* What holds of the registry for any criteria, attempts and number of     *)
(* stages: statuses follow the adjudication table, a validated release is  *)
(* borne out by its result files, the checkout verifies at rest, and an    *)
(* interrupted stage resumes.                                              *)
(***************************************************************************)
EXTENDS ReleaseRegistry, FiniteSetTheorems, TLAPS

-----------------------------------------------------------------------------
(* Adjudication.                                                           *)

LEMMA AggregateTable ==
  ASSUME NEW S, S \subseteq {"pass", "fail", "inconclusive"}, S # {}
  PROVE  Aggregate(S) = TableOutcome(S)
<1>1. IsFiniteSet({"pass", "fail", "inconclusive"})
  <2>1. IsFiniteSet({}) BY FS_EmptySet
  <2>2. IsFiniteSet({} \cup {"pass"}) BY <2>1, FS_AddElement
  <2>3. IsFiniteSet(({} \cup {"pass"}) \cup {"fail"}) BY <2>2, FS_AddElement
  <2>4. IsFiniteSet((({} \cup {"pass"}) \cup {"fail"}) \cup {"inconclusive"})
    BY <2>3, FS_AddElement
  <2>5. (({} \cup {"pass"}) \cup {"fail"}) \cup {"inconclusive"} = {"pass", "fail", "inconclusive"}
    OBVIOUS
  <2> QED BY <2>4, <2>5
<1>2. IsFiniteSet(S) BY <1>1, FS_Subset
<1>3. Cardinality(S) = 1 <=> \E x : S = {x} BY <1>2, FS_Singleton
<1>4. ASSUME NEW x \in S, S = {x} PROVE Aggregate(S) = x /\ TableOutcome(S) = x
  <2>1. x \in {"pass", "fail", "inconclusive"} OBVIOUS
  <2>2. TableOutcome(S) = x BY <1>3, <1>4 DEF TableOutcome
  <2>3. Aggregate({x}) = x
    <3>1. ~("pass" \in {x} /\ {x} \cap {"fail", "inconclusive"} # {}) OBVIOUS
    <3>2. Aggregate({x}) = Worst({x}) BY <3>1 DEF Aggregate
    <3>3. Worst({x}) = x BY <2>1 DEF Worst
    <3> QED BY <3>2, <3>3
  <2> QED BY <1>4, <2>2, <2>3
<1>5. CASE Cardinality(S) # 1
  <2>1. "pass" \in S => "fail" \in S \/ "inconclusive" \in S BY <1>3, <1>5
  <2>2. "pass" \notin S => S = {"fail", "inconclusive"}
    <3>1. S # {"fail"} /\ S # {"inconclusive"} BY <1>3, <1>5
    <3> QED BY <3>1
  <2>3. CASE "pass" \in S
    <3>1. S # {"fail", "inconclusive"} BY <2>3
    <3> QED BY <1>5, <2>1, <2>3, <3>1 DEF TableOutcome, Aggregate
  <2>4. CASE "pass" \notin S
    BY <1>5, <2>2, <2>4 DEF TableOutcome, Aggregate, Worst
  <2> QED BY <2>3, <2>4
<1>6. CASE Cardinality(S) = 1
  <2>1. PICK x : S = {x} BY <1>3, <1>6
  <2> QED BY <1>4, <2>1
<1> QED BY <1>5, <1>6

LEMMA OutcomeType == ASSUME NEW rec, NEW c PROVE RunOutcome(rec, c) \in Outcomes
<1>1. \A S : Worst(S) \in Outcomes BY DEF Worst, Outcomes
<1>2. \A o : Evaluated(o) \in Outcomes BY <1>1 DEF Evaluated, Outcomes
<1> QED BY <1>2 DEF RunOutcome, Outcomes

\* A criterion passes only if the result file shows it to be met.
LEMMA PassShown ==
  ASSUME NEW op \in Operations, NEW m, NEW criteria, Measured(op, criteria, m),
         NEW c \in Declared(op, criteria, m),
         Evaluated(Compose(op, criteria, m).observed[c]) = "pass"
  PROVE  Shows(op, m, c)
<1> DEFINE done == AttemptCompletion(m, {Reason(op, m, x) : x \in Declared(op, criteria, m)})
           nested == IF done = "completed" \/ KeepsVerdict(op, m, c) THEN m.nested[c] ELSE "pass"
           o == [complete |-> done = "completed", met |-> c \in m.met,
                 nested |-> nested, relative |-> m.relative[c]]
<1>1. Compose(op, criteria, m).observed[c] = o BY DEF Compose
<1>2. o.complete = (done = "completed") /\ o.met = (c \in m.met)
      /\ o.nested = nested /\ o.relative = m.relative[c]
  OBVIOUS
<1> HIDE DEF o
<1>3. c \in criteria BY DEF Declared
<1>4. o.complete /\ o.met /\ Worst({o.nested, o.relative}) = "pass" BY <1>1 DEF Evaluated
<1>5. done = "completed" BY <1>2, <1>4
<1>6. m.reason = "completed" /\ Reason(op, m, c) = "completed"
  <2> DEFINE R == {Reason(op, m, x) : x \in Declared(op, criteria, m)}
  <2>1. R \cup {m.reason} = {"completed"} BY <1>5 DEF AttemptCompletion
  <2>2. Reason(op, m, c) \in R OBVIOUS
  <2> QED BY <2>1, <2>2
<1>7. m.nested[c] = "pass" /\ m.relative[c] = "pass"
  <2>1. o.nested = m.nested[c] BY <1>2, <1>5
  <2>2. m.nested[c] \in Outcomes /\ m.relative[c] \in Outcomes BY <1>3 DEF Measured
  <2> QED BY <1>2, <1>4, <2>1, <2>2 DEF Worst, Outcomes
<1>8. m.sample[c] \in Samples /\ (op # "bench" => m.sample[c] # "cut") BY <1>3 DEF Measured
<1>9. c \in m.fits /\ c \in m.known
      /\ m.sample[c] \in (IF op = "soak" THEN {"exact", "over"} ELSE {"exact"})
  <2>1. Whole(m) BY <1>6 DEF Whole
  <2>2. ASSUME NEW s PROVE SampleReason(s) # "completed" BY DEF SampleReason
  <2>3. MetricReason(m, c) = "completed" => c \in m.known BY DEF MetricReason
  <2>4. CASE op = "compare"
    BY <1>6, <2>1, <2>2, <2>3, <2>4 DEF Reason, CompareReason
  <2>5. CASE op = "bench"
    BY <1>6, <2>1, <2>2, <2>3, <2>5 DEF Reason, BenchReason
  <2>6. CASE op = "accuracy"
    BY <1>6, <2>1, <2>2, <2>3, <2>6 DEF Reason, AccuracyReason
  <2>7. CASE op = "soak"
    BY <1>6, <1>8, <2>1, <2>2, <2>3, <2>7 DEF Reason, SoakReason, Samples
  <2> QED BY <2>4, <2>5, <2>6, <2>7 DEF Operations
<1> QED BY <1>2, <1>4, <1>6, <1>7, <1>9 DEF Shows

-----------------------------------------------------------------------------
(* The invariant.                                                          *)

\* A decision of the checkout's past, as the review that was planned left it.
Follows(d, privacy) ==
  /\ d.privacy = Reviewed(d.runs, privacy)
  /\ d.component \in Components
  /\ d.results = Results(Criteria, Records(d.runs), d.excluded,
                         [r \in d.runs |-> privacy[r]], d.component)
  /\ d.status = DerivedStatus(Started(Records(d.runs)), d.results)
Known(D) == 1 .. Len(D)
Sound(d) ==
  /\ d.runs \in candidates
  /\ \E privacy \in [d.runs -> Privacies] : Follows(d, privacy)
  /\ ReviewAdmitted(Criteria, Records(d.runs), d.excluded,
                    [r \in d.runs |-> d.privacy[r]], d.component)
  /\ \A c \in Strict : StrictHolds(Records(d.runs), c, d.excluded)
  /\ d.at \in 1 .. MaxTime /\ \A r \in d.runs : r <= d.at
  /\ \A e \in d.supersedes : e \in Known(decided) /\ decided[e].at < d.at

Distinct(D) == \A i, j \in Known(D) : D[i] = D[j] => i = j
Quiet == drifts = 0 /\ Busy = {} /\ \A s \in Stagers : stager[s].result \in {"none", "ok"}

Typed ==
  /\ captured \in [Runs -> Attempts \cup {NoAttempt}]
  /\ candidates \subseteq SUBSET Runs
  /\ \A B \in candidates : \A r \in B : captured[r] \in Attempts
  /\ evidence \in [Runs -> {"kept", "drifted"}]
  /\ decided \in Seq(Decisions)
  /\ stager \in [Stagers -> [pc : {"idle", "git", "write", "writing"}, id : Nat,
                             file : Files,
                             result : {"none", "ok", "failed", "killed"}]]
  /\ kills \in 0 .. MaxKills /\ drifts \in 0 .. MaxDrifts
  /\ focus \in {"content", "order", "kill"}

\* A file of the checkout belongs to a decision that was proposed.
Placed(T) == T \subseteq Files /\ Stored(T) \subseteq Known(decided)

Staging ==
  /\ Placed(tree) /\ Placed(torn) /\ Placed(head) /\ head \subseteq tree
  /\ \A s \in Stagers : stager[s].pc # "idle" =>
       /\ stager[s].id \in Known(decided)
       /\ stager[s].pc = "writing" => Placed({stager[s].file})

IInv ==
  /\ Typed /\ Staging /\ Distinct(decided)
  /\ \A i \in Known(decided) : Sound(decided[i])
  /\ drifts = 0 => /\ \A r \in Runs : evidence[r] = "kept"
                   /\ Verifies(head, decided)
  /\ Quiet => Loads

-----------------------------------------------------------------------------
(* What a decision of the invariant says.                                  *)

IncludedRuns(d, c) ==
  {r \in d.runs : c \in DOMAIN captured[r].observed /\ <<c, r>> \notin d.excluded}
OutcomesOf(d, c) == {RunOutcome(captured[r], c) : r \in IncludedRuns(d, c)}

LEMMA ResultIs ==
  ASSUME NEW d, NEW privacy, Follows(d, privacy)
  PROVE  /\ DOMAIN d.results = Criteria \cup {Provenance}
         /\ d.results[Provenance]
              = ProvenanceDisposition([r \in d.runs |-> privacy[r]], d.component)
         /\ \A c \in Criteria :
              d.results[c] = IF IncludedRuns(d, c) = {} THEN "not-evaluated"
                                                    ELSE Aggregate(OutcomesOf(d, c))
<1> DEFINE recs == Records(d.runs)
<1>1. /\ DOMAIN d.results = Criteria \cup {Provenance}
      /\ d.results[Provenance]
           = ProvenanceDisposition([r \in d.runs |-> privacy[r]], d.component)
      /\ \A c \in Criteria : d.results[c] = CriterionResult(recs, c, d.excluded)
  BY CriteriaAssumption DEF Follows, Results
<1>2. DOMAIN recs = d.runs /\ \A r \in d.runs : recs[r] = captured[r]
  BY DEF Records
<1> HIDE DEF recs
<1>3. ASSUME NEW c \in Criteria
      PROVE  /\ Included(recs, c, d.excluded) = IncludedRuns(d, c)
             /\ {RunOutcome(recs[r], c) : r \in IncludedRuns(d, c)} = OutcomesOf(d, c)
  <2>1. Included(recs, c, d.excluded) = IncludedRuns(d, c)
    BY <1>2 DEF Included, Observing, IncludedRuns
  <2>2. \A r \in IncludedRuns(d, c) : recs[r] = captured[r] BY <1>2 DEF IncludedRuns
  <2> QED BY <2>1, <2>2 DEF OutcomesOf
<1>4. \A c \in Criteria :
        CriterionResult(recs, c, d.excluded)
          = IF IncludedRuns(d, c) = {} THEN "not-evaluated" ELSE Aggregate(OutcomesOf(d, c))
  BY <1>3 DEF CriterionResult
<1> QED BY <1>1, <1>4

LEMMA FollowsTable ==
  ASSUME NEW d, NEW privacy, Follows(d, privacy), NEW c \in Criteria,
         "not-evaluated" \notin OutcomesOf(d, c)
  PROVE  d.results[c] = TableOutcome(OutcomesOf(d, c))
<1>1. CASE IncludedRuns(d, c) = {}
  <2>1. OutcomesOf(d, c) = {} BY <1>1 DEF OutcomesOf
  <2> QED BY <1>1, <2>1, ResultIs DEF TableOutcome
<1>2. CASE IncludedRuns(d, c) # {}
  <2>1. OutcomesOf(d, c) # {} BY <1>2 DEF OutcomesOf
  <2>2. OutcomesOf(d, c) \subseteq {"pass", "fail", "inconclusive"}
    BY OutcomeType DEF OutcomesOf, Outcomes
  <2> QED BY <1>2, <2>1, <2>2, AggregateTable, ResultIs
<1> QED BY <1>1, <1>2

\* No attempt outvotes a failed requirement.
LEMMA FailureCounts ==
  ASSUME NEW d, NEW privacy, Follows(d, privacy), NEW c \in Criteria,
         NEW r \in IncludedRuns(d, c), captured[r].observed[c].nested = "fail"
  PROVE  d.results[c] \in {"fail", "inconclusive"}
<1>1. RunOutcome(captured[r], c) = "fail"
  <2> DEFINE o == captured[r].observed[c]
  <2>1. Worst({o.nested, o.relative}) = "fail" BY DEF Worst
  <2>2. Evaluated(o) = "fail" BY <2>1 DEF Evaluated
  <2> QED BY <2>2 DEF RunOutcome
<1>2. "fail" \in OutcomesOf(d, c) BY <1>1 DEF OutcomesOf
<1>3. \A S : "fail" \in S => Aggregate(S) \in {"fail", "inconclusive"}
  BY DEF Aggregate, Worst
<1> QED BY <1>2, <1>3, ResultIs

LEMMA StatusIs ==
  ASSUME NEW d, NEW privacy, Follows(d, privacy)
  PROVE  /\ (\A r \in d.runs : ~captured[r].barrier) <=> d.status = "untested"
         /\ d.status # "untested" =>
              LET found(o) == \E c \in Criteria \cup {Provenance} : d.results[c] = o IN
              /\ found("fail") <=> d.status = "tested-criteria-not-met"
              /\ (found("inconclusive") /\ ~found("fail")) <=> d.status = "tested-inconclusive"
<1> DEFINE S == {d.results[c] : c \in DOMAIN d.results}
           started == Started(Records(d.runs))
<1>1. started <=> \E r \in d.runs : captured[r].barrier BY DEF Started, Records
<1>2. \A o : o \in S <=> \E c \in Criteria \cup {Provenance} : d.results[c] = o
  BY ResultIs
<1>3. d.status = IF ~started THEN "untested"
                 ELSE IF "fail" \in S THEN "tested-criteria-not-met"
                 ELSE IF "inconclusive" \in S THEN "tested-inconclusive"
                 ELSE IF S = {"pass"} THEN "validated"
                 ELSE "testing-incomplete"
  BY DEF Follows, DerivedStatus
<1> HIDE DEF S, started
<1>4. started <=> d.status # "untested" BY <1>3
<1>5. started => /\ "fail" \in S <=> d.status = "tested-criteria-not-met"
                 /\ ("inconclusive" \in S /\ "fail" \notin S) <=> d.status = "tested-inconclusive"
  BY <1>3
<1>6. (\A r \in d.runs : ~captured[r].barrier) <=> ~started BY <1>1
<1> QED BY <1>2, <1>4, <1>5, <1>6

LEMMA TableInv == IInv => StatusFollowsTable
<1> SUFFICES ASSUME IInv, NEW i \in 1 .. Len(decided)
             PROVE  LET d == decided[i]
                        observing(c) == {r \in d.runs : c \in DOMAIN captured[r].observed}
                        included(c) == {r \in observing(c) : <<c, r>> \notin d.excluded}
                        outcomes(c) == {RunOutcome(captured[r], c) : r \in included(c)}
                        found(o) == \E c \in Criteria \cup {Provenance} : d.results[c] = o
                    IN /\ \A c \in Criteria : "not-evaluated" \notin outcomes(c) =>
                            d.results[c] = TableOutcome(outcomes(c))
                       /\ \A r \in d.runs, c \in Criteria :
                            (r \in included(c) /\ captured[r].observed[c].nested = "fail") =>
                               d.results[c] \in {"fail", "inconclusive"}
                       /\ (\A r \in d.runs : ~captured[r].barrier) <=> d.status = "untested"
                       /\ d.status # "untested" =>
                            /\ found("fail") <=> d.status = "tested-criteria-not-met"
                            /\ (found("inconclusive") /\ ~found("fail"))
                                 <=> d.status = "tested-inconclusive"
  BY DEF StatusFollowsTable
<1> DEFINE d == decided[i]
           observing(c) == {r \in d.runs : c \in DOMAIN captured[r].observed}
           included(c) == {r \in observing(c) : <<c, r>> \notin d.excluded}
           outcomes(c) == {RunOutcome(captured[r], c) : r \in included(c)}
<1>1. PICK privacy : Follows(d, privacy) BY DEF IInv, Sound, Known
<1>2. \A c : included(c) = IncludedRuns(d, c) BY DEF IncludedRuns
<1>3. \A c : outcomes(c) = OutcomesOf(d, c) BY <1>2 DEF OutcomesOf
<1> HIDE DEF d
<1>4. \A c \in Criteria : "not-evaluated" \notin outcomes(c) =>
          d.results[c] = TableOutcome(outcomes(c))
  <2> HIDE DEF outcomes
  <2> QED BY <1>1, <1>3, FollowsTable
<1>5. \A r \in d.runs, c \in Criteria :
          (r \in included(c) /\ captured[r].observed[c].nested = "fail") =>
             d.results[c] \in {"fail", "inconclusive"}
  BY <1>1, <1>2, FailureCounts
<1>6. /\ (\A r \in d.runs : ~captured[r].barrier) <=> d.status = "untested"
      /\ d.status # "untested" =>
           LET found(o) == \E c \in Criteria \cup {Provenance} : d.results[c] = o IN
           /\ found("fail") <=> d.status = "tested-criteria-not-met"
           /\ (found("inconclusive") /\ ~found("fail")) <=> d.status = "tested-inconclusive"
  BY <1>1, StatusIs
<1> QED BY <1>4, <1>5, <1>6 DEF d

\* What "validated" means for one decision.
LEMMA ValidatedMeans ==
  ASSUME NEW d, NEW privacy, Follows(d, privacy), d.status = "validated"
  PROVE  /\ \A c \in Criteria : IncludedRuns(d, c) # {} /\ OutcomesOf(d, c) = {"pass"}
         /\ \A r \in d.runs : privacy[r] = "passed"
         /\ d.runs # {} /\ d.component = "pass"
<1> DEFINE S == {d.results[c] : c \in DOMAIN d.results}
<1>1. S = {"pass"} BY DEF Follows, DerivedStatus
<1>2. \A c \in Criteria \cup {Provenance} : d.results[c] = "pass"
  <2>1. \A c \in DOMAIN d.results : d.results[c] \in S OBVIOUS
  <2> HIDE DEF S
  <2> QED BY <1>1, <2>1, ResultIs
<1>3. ASSUME NEW c \in Criteria
      PROVE  IncludedRuns(d, c) # {} /\ OutcomesOf(d, c) = {"pass"}
  <2>1. d.results[c] = "pass" BY <1>2
  <2>2. IncludedRuns(d, c) # {} /\ Aggregate(OutcomesOf(d, c)) = "pass"
    BY <2>1, ResultIs
  <2>3. OutcomesOf(d, c) # {} BY <2>2 DEF OutcomesOf
  <2>4. OutcomesOf(d, c) \subseteq Outcomes BY OutcomeType DEF OutcomesOf
  <2>5. ~("pass" \in OutcomesOf(d, c) /\ OutcomesOf(d, c) \cap {"fail", "inconclusive"} # {})
        /\ Worst(OutcomesOf(d, c)) = "pass"
    BY <2>2 DEF Aggregate
  <2>6. "fail" \notin OutcomesOf(d, c) /\ "inconclusive" \notin OutcomesOf(d, c)
        /\ "not-evaluated" \notin OutcomesOf(d, c)
    BY <2>5 DEF Worst
  <2> QED BY <2>2, <2>3, <2>4, <2>6 DEF Outcomes
<1>4. ProvenanceDisposition([r \in d.runs |-> privacy[r]], d.component) = "pass"
  BY <1>2, ResultIs
<1> DEFINE P == [r \in d.runs |-> privacy[r]]
           V == {P[r] : r \in DOMAIN P}
<1>5. {PrivacyDisposition(P), d.component} = {"pass"}
  BY <1>4 DEF ProvenanceDisposition
<1>6. PrivacyDisposition(P) = "pass" /\ d.component = "pass" BY <1>5
<1>7. V = {"passed"} BY <1>6 DEF PrivacyDisposition
<1>8. \A r \in d.runs : privacy[r] \in V OBVIOUS
<1>9. d.runs # {} BY <1>7
<1> QED BY <1>3, <1>6, <1>7, <1>8, <1>9

LEMMA PassOfAttempt ==
  ASSUME NEW a \in Attempts, NEW c \in DOMAIN a.observed, RunOutcome(a, c) = "pass"
  PROVE  Shows(a.op, a.file, c)
<1>1. a.completion = "completed" /\ Evaluated(a.observed[c]) = "pass"
  BY DEF RunOutcome
<1>2. Attempted(a) BY AttemptsAssumption
<1>3. /\ a.op \in Operations /\ Measured(a.op, Criteria, a.file)
      /\ a.observed = Compose(a.op, Criteria, a.file).observed
  BY <1>1, <1>2 DEF Attempted
<1>4. DOMAIN a.observed = Declared(a.op, Criteria, a.file) BY <1>3 DEF Compose
<1>5. c \in Declared(a.op, Criteria, a.file) BY <1>4
<1>6. Evaluated(Compose(a.op, Criteria, a.file).observed[c]) = "pass" BY <1>1, <1>3
<1> QED BY <1>3, <1>5, <1>6, PassShown

LEMMA ReviewedIs ==
  ASSUME NEW B, B \subseteq Runs, NEW privacy, NEW r \in B
  PROVE  Reviewed(B, privacy)[r] = privacy[r]
BY DEF Reviewed

LEMMA DecisionType ==
  ASSUME Typed, NEW i \in Known(decided)
  PROVE  decided[i] \in Decisions /\ decided[i].runs \subseteq Runs
         /\ decided[i].privacy \in [Runs -> Privacies]
         /\ decided[i].supersedes \subseteq Nat /\ decided[i].at \in Nat
<1>1. decided[i] \in Decisions BY DEF Typed, Known
<1> QED BY <1>1, BoundsAssumption DEF Decisions

\* The stored decisions are finitely many.
LEMMA HeadsFinite ==
  ASSUME Typed, Placed(tree) PROVE IsFiniteSet(Heads(tree))
<1>1. Len(decided) \in Nat BY DEF Typed
<1>2. IsFiniteSet(1 .. Len(decided)) BY <1>1, FS_Interval
<1>3. Heads(tree) \subseteq 1 .. Len(decided) BY DEF Heads, Placed, Known
<1> QED BY <1>2, <1>3, FS_Subset

LEMMA EarnedInv == IInv => ValidatedEarned
<1> SUFFICES ASSUME IInv, Inspection = "validated", Loads
             PROVE  \E d \in {decided[i] : i \in Heads(tree)} :
                      /\ \A c \in Criteria :
                           LET included == {r \in d.runs : c \in DOMAIN captured[r].observed
                                                             /\ <<c, r>> \notin d.excluded} IN
                           /\ included # {}
                           /\ \A r \in included : Shows(captured[r].op, captured[r].file, c)
                      /\ \A r \in d.runs : d.privacy[r] = "passed" /\ evidence[r] = "kept"
                      /\ d.component = "pass"
                      /\ \E r \in d.runs : captured[r].review
  BY DEF ValidatedEarned
<1>1. Typed /\ Placed(tree) /\ \A i \in Known(decided) : Sound(decided[i])
  BY DEF IInv, Staging
<1>2. ~(Cardinality(Heads(tree)) > 1) /\ Heads(tree) # {}
      /\ decided[CHOOSE i \in Heads(tree) : TRUE].status = "validated"
  BY DEF Inspection
<1> DEFINE i == CHOOSE x \in Heads(tree) : TRUE
           d == decided[i]
<1>3. i \in Heads(tree) BY <1>2
<1>4. i \in Stored(tree) /\ i \in Known(decided) BY <1>1, <1>3 DEF Heads, Placed
<1>5. d.status = "validated" BY <1>2
<1>6. Sound(d) BY <1>1, <1>4
<1>7. PICK privacy \in [d.runs -> Privacies] : Follows(d, privacy) BY <1>6 DEF Sound
<1>8. d.runs \subseteq Runs /\ d.runs \in candidates
  BY <1>1, <1>4, <1>6, DecisionType DEF Sound
<1> HIDE DEF i, d
<1>9. /\ \A c \in Criteria : IncludedRuns(d, c) # {} /\ OutcomesOf(d, c) = {"pass"}
      /\ \A r \in d.runs : privacy[r] = "passed"
      /\ d.runs # {} /\ d.component = "pass"
  BY <1>5, <1>7, ValidatedMeans
<1>10. ASSUME NEW c \in Criteria, NEW r \in IncludedRuns(d, c)
       PROVE  Shows(captured[r].op, captured[r].file, c)
  <2>1. RunOutcome(captured[r], c) \in OutcomesOf(d, c) BY DEF OutcomesOf
  <2>2. RunOutcome(captured[r], c) = "pass" BY <1>9, <2>1
  <2>3. r \in d.runs /\ c \in DOMAIN captured[r].observed BY DEF IncludedRuns
  <2>4. captured[r] \in Attempts BY <1>1, <1>8, <2>3 DEF Typed
  <2> QED BY <2>2, <2>3, <2>4, PassOfAttempt
<1>11. \A r \in d.runs : d.privacy[r] = "passed"
  <2>1. d.privacy = Reviewed(d.runs, privacy) BY <1>7 DEF Follows
  <2> QED BY <1>8, <1>9, <2>1, ReviewedIs
<1>12. \A r \in d.runs : evidence[r] = "kept"
  <2>1. Verifies(tree, decided) BY DEF Loads
  <2> DEFINE b == BundleFile(d.runs, d.privacy)
  <2>2. b \in tree BY <1>4, <2>1 DEF Verifies, d
  <2>3. b.kind = "bundle" /\ b.runs = d.runs /\ b.privacy = Reviewed(d.runs, d.privacy)
    BY DEF BundleFile, Release
  <2> HIDE DEF b
  <2>4. BundleVerifies(tree, b) BY <2>1, <2>2, <2>3 DEF Verifies, OfKind
  <2>5. EvidenceKept(b.runs, b.privacy) BY <2>4 DEF BundleVerifies
  <2>6. \A r \in d.runs : Reviewed(d.runs, d.privacy)[r] = "passed"
    BY <1>8, <1>11, ReviewedIs
  <2> QED BY <2>3, <2>5, <2>6 DEF EvidenceKept
<1>13. \E r \in d.runs : captured[r].review
  <2>1. ReviewAdmitted(Criteria, Records(d.runs), d.excluded,
                       [r \in d.runs |-> d.privacy[r]], d.component)
    BY <1>6 DEF Sound
  <2>2. {PrivacyDisposition([r \in d.runs |-> d.privacy[r]]), d.component} # {"pending"}
    BY <1>9
  <2>3. \E r \in DOMAIN Records(d.runs) : Records(d.runs)[r].review
    BY <2>1, <2>2 DEF ReviewAdmitted
  <2> QED BY <2>3 DEF Records
<1>14. \A c \in Criteria :
         {r \in d.runs : c \in DOMAIN captured[r].observed /\ <<c, r>> \notin d.excluded}
           = IncludedRuns(d, c)
  BY DEF IncludedRuns
<1>15. d \in {decided[x] : x \in Heads(tree)} BY <1>3 DEF d
<1> QED BY <1>9, <1>10, <1>11, <1>12, <1>13, <1>14, <1>15

LEMMA QuietInv == IInv => QuietRegistryVerifies
BY DEF IInv, QuietRegistryVerifies, Quiet

LEMMA ResumesInv == IInv => InterruptedStageResumes
<1> SUFFICES ASSUME IInv, Busy = {}, torn = {}, drifts = 0, NEW i \in 1 .. Len(decided),
                    tree \ head \subseteq Proposal(i),
                    Verifies(head \cup Proposal(i), decided),
                    decided[i].supersedes \subseteq Stored(head)
             PROVE  PlanAdmits(decided[i]) /\ GitAdmits(Proposal(i))
  BY DEF InterruptedStageResumes
<1> DEFINE d == decided[i]
<1>1. Typed /\ head \subseteq tree /\ Sound(d) /\ i \in Known(decided)
  BY DEF IInv, Staging, Known
<1>2. d.runs \subseteq Runs /\ d.runs \in candidates /\ Len(decided) \in Nat
  BY <1>1, DecisionType DEF Sound, Typed
<1>3. \A r \in Runs : evidence[r] = "kept" BY DEF IInv
<1>4. CandidateVerifies(d.runs) BY <1>2, <1>3 DEF CandidateVerifies
<1>5. Stored(head) \subseteq Stored(tree) BY <1>1 DEF Stored, OfKind
<1>6. DecisionAdmitted(d)
  <2>1. d.supersedes \subseteq Stored(tree) BY <1>5
  <2> HIDE DEF d
  <2> QED BY <1>1, <2>1 DEF Sound, DecisionAdmitted
<1>7. IdOf(d) = i /\ With(d) = decided
  <2>1. Distinct(decided) BY DEF IInv
  <2>2. IdOf(d) \in 1 .. Len(decided) /\ decided[IdOf(d)] = d BY DEF IdOf
  <2>3. IdOf(d) = i BY <2>1, <2>2 DEF Distinct, Known
  <2> HIDE DEF d
  <2> QED BY <1>2, <2>2, <2>3 DEF With
<1>8. tree \cup Proposed(d.runs, d.privacy, IdOf(d)) = head \cup Proposal(i)
  <2>1. Proposed(d.runs, d.privacy, IdOf(d)) = Proposal(i) BY <1>7 DEF Proposal
  <2> QED BY <1>1, <2>1
<1>9. PlanAdmits(d) BY <1>4, <1>6, <1>7, <1>8 DEF PlanAdmits, PlanLoads
<1> QED BY <1>3, <1>9 DEF GitAdmits

-----------------------------------------------------------------------------
(* The graph as decisions are added and files stay.                        *)

LEMMA VerifiesGrows ==
  ASSUME NEW T, NEW D \in Seq(Decisions), NEW E \in Seq(Decisions),
         Stored(T) \subseteq Known(D), \A i \in Known(D) : E[i] = D[i],
         Verifies(T, D)
  PROVE  Verifies(T, E)
<1>1. \A d : Superseders(T, E, d) = Superseders(T, D, d)
  BY DEF Superseders
<1>2. ASSUME NEW d \in Stored(T)
      PROVE  /\ BundleFile(E[d].runs, E[d].privacy) \in T
             /\ E[d].supersedes \subseteq Stored(T)
             /\ Cardinality(Superseders(T, E, d)) <= 1
  <2>1. E[d] = D[d] OBVIOUS
  <2>2. /\ BundleFile(D[d].runs, D[d].privacy) \in T
        /\ D[d].supersedes \subseteq Stored(T)
        /\ Cardinality(Superseders(T, D, d)) <= 1
    BY DEF Verifies
  <2> QED BY <1>1, <2>1, <2>2
<1> QED BY <1>2 DEF Verifies

\* Verification reads only the checkout, the decisions and the evidence.
LEMMA VerifiesPrime ==
  ASSUME evidence' = evidence
  PROVE  /\ Verifies(head, decided)' <=> Verifies(head', decided')
         /\ Verifies(tree, decided)' <=> Verifies(tree', decided')
BY DEF Verifies, OfKind, BundleVerifies, RunFiles, RunFile, BundleFile, Release, Contract,
       Reviewed, EvidenceKept, Stored, Superseders, Unreviewed

LEMMA SoundKept ==
  ASSUME IInv, candidates \subseteq candidates',
         \A B \in candidates : \A r \in B : captured'[r] = captured[r],
         \A i \in Known(decided) : i \in Known(decided') /\ decided'[i] = decided[i],
         NEW i \in Known(decided)
  PROVE  Sound(decided[i])'
<1> DEFINE d == decided[i]
<1>1. Sound(d) BY DEF IInv
<1>2. decided'[i] = d OBVIOUS
<1>3. d.runs \in candidates /\ d.runs \in candidates' BY <1>1 DEF Sound
<1>4. \A B : Records(B)' = [r \in B |-> captured'[r]] BY DEF Records
<1>5. Records(d.runs) = [r \in d.runs |-> captured'[r]] BY <1>3 DEF Records
<1> HIDE DEF d
<1>6. PICK privacy \in [d.runs -> Privacies] : Follows(d, privacy) BY <1>1 DEF Sound
<1> DEFINE recs == [r \in d.runs |-> captured'[r]]
<1>7. /\ d.privacy = Reviewed(d.runs, privacy)
      /\ d.component \in Components
      /\ d.results = Results(Criteria, recs, d.excluded,
                             [r \in d.runs |-> privacy[r]], d.component)
      /\ d.status = DerivedStatus(Started(recs), d.results)
  BY <1>5, <1>6 DEF Follows
<1>8. /\ ReviewAdmitted(Criteria, recs, d.excluded,
                        [r \in d.runs |-> d.privacy[r]], d.component)
      /\ \A c \in Strict : StrictHolds(recs, c, d.excluded)
      /\ d.at \in 1 .. MaxTime /\ \A r \in d.runs : r <= d.at
      /\ \A e \in d.supersedes : e \in Known(decided) /\ decided[e].at < d.at
  BY <1>1, <1>5 DEF Sound
<1>9. \A e \in d.supersedes : e \in Known(decided') /\ decided'[e].at < d.at
  <2> TAKE e \in d.supersedes
  <2>1. e \in Known(decided) /\ decided[e].at < d.at BY <1>8
  <2>2. e \in Known(decided') /\ decided'[e] = decided[e] BY <2>1
  <2> QED BY <2>1, <2>2
<1> QED BY <1>2, <1>3, <1>6, <1>7, <1>8, <1>9 DEF Sound, Follows, Records, Known

LEMMA DecisionsStay ==
  ASSUME IInv, candidates \subseteq candidates', decided' = decided,
         \A B \in candidates : \A r \in B : captured'[r] = captured[r]
  PROVE  Distinct(decided)' /\ (\A i \in Known(decided) : Sound(decided[i]))'
<1>1. \A i \in Known(decided) : i \in Known(decided') /\ decided'[i] = decided[i] OBVIOUS
<1>2. \A i \in Known(decided') : Sound(decided[i])' BY <1>1, SoundKept
<1> QED BY <1>2 DEF IInv, Distinct, Known

LEMMA HeadStays ==
  ASSUME IInv, UNCHANGED <<evidence, decided, head, drifts>>
  PROVE  (drifts = 0 => /\ \A r \in Runs : evidence[r] = "kept"
                        /\ Verifies(head, decided))'
BY VerifiesPrime DEF IInv

LEMMA TreeStays ==
  ASSUME Loads, UNCHANGED <<evidence, decided, tree, torn>> PROVE Loads'
BY VerifiesPrime DEF Loads

-----------------------------------------------------------------------------
(* The invariant is inductive.                                             *)

LEMMA FilesTyped ==
  /\ Unreviewed \in [Runs -> Privacies]
  /\ Release \in Files /\ Contract \in Files /\ Idle.file \in Files
  /\ Idle.pc = "idle" /\ Idle.id = 0 /\ Idle.result = "none"
<1>1. Unreviewed \in [Runs -> Privacies] BY DEF Unreviewed, Privacies
<1>2. Release \in Files BY <1>1 DEF Release, Files, Kinds
<1>3. Contract \in Files BY <1>1 DEF Contract, Release, Files, Kinds
<1> QED BY <1>1, <1>2, <1>3 DEF Idle

LEMMA ReviewedTyped ==
  ASSUME NEW B, NEW privacy, \A r \in B : privacy[r] \in Privacies
  PROVE  Reviewed(B, privacy) \in [Runs -> Privacies]
BY DEF Reviewed, Privacies

LEMMA PlacedIs ==
  ASSUME NEW T
  PROVE  Placed(T) <=> /\ T \subseteq Files
                       /\ \A f \in T : f.kind = "decision" => f.id \in Known(decided)
BY DEF Placed, Stored, OfKind

\* A proposal writes its own decision and no other.
LEMMA ProposalPlaced ==
  ASSUME Typed, NEW i \in Known(decided)
  PROVE  Placed(Proposal(i))
<1> DEFINE d == decided[i]
<1>1. d.runs \subseteq Runs /\ d.privacy \in [Runs -> Privacies] BY DecisionType
<1>2. i \in Nat BY DEF Known
<1> HIDE DEF d
<1>3. ASSUME NEW B, B \subseteq Runs
      PROVE  Reviewed(B, d.privacy) \in [Runs -> Privacies]
  BY <1>1, <1>3, ReviewedTyped
<1>4. BundleFile(d.runs, d.privacy) \in Files /\ BundleFile(d.runs, d.privacy).kind = "bundle"
  <2> DEFINE v == Reviewed(d.runs, d.privacy)
  <2>1. v \in [Runs -> Privacies] BY <1>1, <1>3
  <2> HIDE DEF v
  <2>2. BundleFile(d.runs, d.privacy)
          = [Release EXCEPT !.kind = "bundle", !.runs = d.runs, !.privacy = v]
    BY DEF BundleFile, v
  <2> QED BY <1>1, <2>1, <2>2, FilesTyped DEF Files, Kinds
<1>5. ASSUME NEW r \in d.runs
      PROVE  RunFile(r, d.privacy) \in Files /\ RunFile(r, d.privacy).kind = "run"
  <2> DEFINE R == {r}
             v == Reviewed(R, d.privacy)
  <2>1. R \in SUBSET Runs BY <1>1
  <2>2. v \in [Runs -> Privacies] BY <1>3, <2>1
  <2>3. RunFile(r, d.privacy)
          = [Release EXCEPT !.kind = "run", !.runs = R, !.privacy = v]
    BY DEF RunFile
  <2> HIDE DEF R, v
  <2> QED BY <2>1, <2>2, <2>3, FilesTyped DEF Files, Kinds
<1>6. DecisionFile(i) \in Files /\ DecisionFile(i).id = i
  <2>1. DecisionFile(i) = [Release EXCEPT !.kind = "decision", !.id = i] BY DEF DecisionFile
  <2> QED BY <1>2, <2>1, FilesTyped DEF Files, Kinds
<1>7. Release.kind = "release" /\ Contract.kind = "contract" BY DEF Release, Contract
<1>8. Proposal(i) = {Release, Contract, BundleFile(d.runs, d.privacy), DecisionFile(i)}
                      \cup {RunFile(r, d.privacy) : r \in d.runs}
  BY DEF Proposal, Proposed, RunFiles, d
<1>9. ASSUME NEW f \in Proposal(i)
      PROVE  f \in Files /\ (f.kind = "decision" => f.id \in Known(decided))
  BY <1>4, <1>5, <1>6, <1>7, <1>8, FilesTyped
<1> QED BY <1>9, PlacedIs

LEMMA InitInv == Init => IInv
<1> SUFFICES ASSUME Init PROVE IInv OBVIOUS
<1>1. Len(decided) = 0 /\ decided \in Seq(Decisions) BY DEF Init
<1>2. Known(decided) = {} BY <1>1 DEF Known
<1>3. Typed
  <2>1. stager \in [Stagers -> [pc : {"idle", "git", "write", "writing"}, id : Nat,
                                file : Files, result : {"none", "ok", "failed", "killed"}]]
    <3>1. Idle \in [pc : {"idle", "git", "write", "writing"}, id : Nat,
                    file : Files, result : {"none", "ok", "failed", "killed"}]
      BY FilesTyped DEF Idle
    <3> QED BY <3>1 DEF Init
  <2>2. kills \in 0 .. MaxKills /\ drifts \in 0 .. MaxDrifts BY BoundsAssumption DEF Init
  <2>3. captured \in [Runs -> Attempts \cup {NoAttempt}]
        /\ evidence \in [Runs -> {"kept", "drifted"}]
        /\ candidates = {} /\ focus \in {"content", "order", "kill"}
    BY DEF Init
  <2> QED BY <1>1, <2>1, <2>2, <2>3 DEF Typed
<1>4. Staging
  <2>1. \A s \in Stagers : stager[s].pc = "idle" BY FilesTyped DEF Init
  <2>2. tree = {} /\ torn = {} /\ head = {} BY DEF Init
  <2> QED BY <2>1, <2>2, PlacedIs DEF Staging
<1>5. Verifies({}, decided) BY DEF Verifies, OfKind, Stored
<1>6. Verifies(head, decided) /\ Loads BY <1>5 DEF Init, Loads
<1>7. \A r \in Runs : evidence[r] = "kept" BY DEF Init
<1> QED BY <1>2, <1>3, <1>4, <1>6, <1>7 DEF IInv, Distinct

\* A process that does not end well keeps the checkout from being quiet.
Ok(s) == stager[s].pc = "idle" /\ stager[s].result \in {"none", "ok"}
LEMMA QuietIs == Quiet <=> drifts = 0 /\ \A s \in Stagers : Ok(s)
BY DEF Quiet, Busy, Ok

Process == [pc : {"idle", "git", "write", "writing"}, id : Nat, file : Files,
            result : {"none", "ok", "failed", "killed"}]

LEMMA Finished ==
  ASSUME Typed, NEW s \in Stagers, NEW result \in {"none", "ok", "failed", "killed"},
         Finish(s, result)
  PROVE  /\ stager' \in [Stagers -> Process]
         /\ stager'[s].pc = "idle" /\ stager'[s].result = result
         /\ \A t \in Stagers \ {s} : stager'[t] = stager[t]
<1> DEFINE p == [Idle EXCEPT !.result = result]
<1>1. p \in Process /\ p.pc = "idle" /\ p.result = result BY FilesTyped DEF Idle, Process
<1> HIDE DEF p
<1>2. stager' = [stager EXCEPT ![s] = p] BY DEF Finish, p
<1>3. stager \in [Stagers -> Process] BY DEF Typed, Process
<1> QED BY <1>1, <1>2, <1>3

LEMMA FinishedStaging ==
  ASSUME IInv, NEW s \in Stagers, NEW result \in {"none", "ok", "failed", "killed"},
         Finish(s, result), UNCHANGED <<decided, registry>>
  PROVE  Staging'
<1>1. stager'[s].pc = "idle" /\ \A t \in Stagers \ {s} : stager'[t] = stager[t]
  BY Finished DEF IInv
<1>2. Known(decided') = Known(decided) /\ tree' = tree /\ torn' = torn /\ head' = head
  BY DEF registry
<1> QED BY <1>1, <1>2 DEF IInv, Staging, Placed, Stored, OfKind, Known, registry

\* A step of a process that leaves inputs and decisions alone.
LEMMA StagerStep ==
  ASSUME IInv, UNCHANGED <<inputs, decided, head, drifts>>, kills' \in 0 .. MaxKills,
         focus' = focus, stager' \in [Stagers -> Process], Staging', Quiet' => Loads'
  PROVE  IInv'
<1>1. captured' = captured /\ candidates' = candidates /\ evidence' = evidence
      /\ decided' = decided /\ head' = head /\ drifts' = drifts
  BY DEF inputs
<1>2. Typed' BY <1>1 DEF IInv, Typed, Process
<1>3. Distinct(decided)' /\ (\A i \in Known(decided) : Sound(decided[i]))'
  BY <1>1, DecisionsStay
<1>4. (drifts = 0 => /\ \A r \in Runs : evidence[r] = "kept"
                     /\ Verifies(head, decided))'
  BY <1>1, HeadStays
<1> QED BY <1>2, <1>3, <1>4 DEF IInv

LEMMA CaptureStep ==
  ASSUME IInv, NEW r \in Runs, NEW a \in Attempts, Capture(r, a) PROVE IInv'
<1>1. /\ captured[r] = NoAttempt /\ captured' = [captured EXCEPT ![r] = a]
      /\ candidates' = candidates \cup {{r}}
      /\ UNCHANGED <<evidence, decided, tree, torn, head, stager, kills, drifts, focus>>
  BY DEF Capture, registry
<1>2. NoAttempt \notin Attempts
  <2>1. NoAttempt.completion \notin Completions BY DEF NoAttempt, Completions
  <2> QED BY <2>1, AttemptsAssumption DEF Attempted
<1>3. \A B \in candidates : \A x \in B : captured'[x] = captured[x]
  <2> TAKE B \in candidates
  <2> TAKE x \in B
  <2>1. x \in Runs /\ captured[x] \in Attempts BY DEF IInv, Typed
  <2>2. x # r BY <1>1, <1>2, <2>1
  <2> QED BY <1>1, <2>1, <2>2 DEF IInv, Typed
<1>4. Typed'
  <2>1. captured' \in [Runs -> Attempts \cup {NoAttempt}] BY <1>1 DEF IInv, Typed
  <2>2. candidates' \subseteq SUBSET Runs BY <1>1 DEF IInv, Typed
  <2>3. captured'[r] = a BY <1>1 DEF IInv, Typed
  <2>4. \A B \in candidates' : \A x \in B : captured'[x] \in Attempts
    BY <1>1, <1>3, <2>3 DEF IInv, Typed
  <2> QED BY <1>1, <2>1, <2>2, <2>4 DEF IInv, Typed
<1>5. Staging' BY <1>1 DEF IInv, Staging, Placed, Stored, OfKind, Known
<1>6. Distinct(decided)' /\ (\A i \in Known(decided) : Sound(decided[i]))'
  BY <1>1, <1>3, DecisionsStay
<1>7. (drifts = 0 => /\ \A x \in Runs : evidence[x] = "kept"
                     /\ Verifies(head, decided))'
  BY <1>1, HeadStays
<1>8. Quiet' => Loads' BY <1>1, TreeStays DEF IInv, Quiet, Busy
<1> QED BY <1>4, <1>5, <1>6, <1>7, <1>8 DEF IInv

LEMMA AssembleStep ==
  ASSUME IInv, NEW A \in candidates, NEW B \in candidates, Assemble(A, B) PROVE IInv'
<1>1. /\ candidates' = candidates \cup {A \cup B}
      /\ UNCHANGED <<captured, evidence, decided, tree, torn, head, stager, kills, drifts,
                     focus>>
  BY DEF Assemble, registry
<1>2. Typed'
  <2>1. candidates' \subseteq SUBSET Runs BY <1>1 DEF IInv, Typed
  <2>2. \A C \in candidates' : \A x \in C : captured'[x] \in Attempts
    BY <1>1 DEF IInv, Typed
  <2> QED BY <1>1, <2>1, <2>2 DEF IInv, Typed
<1>3. Staging' BY <1>1 DEF IInv, Staging, Placed, Stored, OfKind, Known
<1>4. Distinct(decided)' /\ (\A i \in Known(decided) : Sound(decided[i]))'
  BY <1>1, DecisionsStay
<1>5. (drifts = 0 => /\ \A x \in Runs : evidence[x] = "kept"
                     /\ Verifies(head, decided))'
  BY <1>1, HeadStays
<1>6. Quiet' => Loads' BY <1>1, TreeStays DEF IInv, Quiet, Busy
<1> QED BY <1>2, <1>3, <1>4, <1>5, <1>6 DEF IInv

\* What a review yields is a decision.
LEMMA ResultsTyped ==
  ASSUME NEW recs, NEW excluded, NEW privacy, NEW component
  PROVE  /\ Results(Criteria, recs, excluded, privacy, component)
              \in [Criteria \cup {Provenance} -> Outcomes]
         /\ \A started, results : DerivedStatus(started, results) \in Statuses
<1>1. \A S : Aggregate(S) \in Outcomes BY DEF Aggregate, Worst, Outcomes
<1>2. \A c : CriterionResult(recs, c, excluded) \in Outcomes
  BY <1>1 DEF CriterionResult, Outcomes
<1>3. ProvenanceDisposition(privacy, component) \in Outcomes
  BY DEF ProvenanceDisposition, Outcomes
<1>4. \A started, results : DerivedStatus(started, results) \in Statuses
  BY DEF DerivedStatus, Statuses
<1> QED BY <1>2, <1>3, <1>4 DEF Results

LEMMA BuiltTyped ==
  ASSUME IInv, NEW B \in candidates, NEW v \in Verdicts(B), NEW old \in Superseded,
         NEW at \in Times
  PROVE  LET d == Built(B, v[1], v[2], v[3], old, at) IN
         d \in Decisions /\ d.runs = B /\ d.supersedes = old /\ d.at = at
         /\ v[1] \in [B -> Privacies] /\ Follows(d, v[1])
<1> DEFINE d == Built(B, v[1], v[2], v[3], old, at)
           res == Results(Criteria, Records(B), v[3], [r \in B |-> v[1][r]], v[2])
           st == DerivedStatus(Started(Records(B)), res)
           pr == Reviewed(B, v[1])
<1>1. B \subseteq Runs BY DEF IInv, Typed
<1>2. v[1] \in [B -> Privacies] /\ v[2] \in Components /\ v[3] \in SUBSET (Criteria \X Runs)
  <2>1. AllPassed(B) \in [B -> Privacies] BY DEF AllPassed, Privacies
  <2>2. "pass" \in Components BY DEF Components
  <2>3. CASE focus # "content" BY <2>1, <2>2, <2>3 DEF Verdicts
  <2>4. CASE focus = "content"
    <3>1. CASE v \in [B -> Privacies] \X {"pass"} \X {{}} BY <2>2, <3>1
    <3>2. CASE v \in {AllPassed(B)} \X Components \X {{}} BY <2>1, <3>2
    <3>3. CASE v \in {AllPassed(B)} \X {"pass"} \X {{x} : x \in Criteria \X B}
      BY <1>1, <2>1, <2>2, <3>3
    <3> QED BY <2>4, <3>1, <3>2, <3>3 DEF Verdicts
  <2> QED BY <2>3, <2>4
<1>3. old \in SUBSET Nat
  <2>1. Stored(tree) \subseteq Known(decided) BY DEF IInv, Staging, Placed
  <2> QED BY <2>1 DEF Superseded, Known
<1>4. at \in 1 .. MaxTime BY BoundsAssumption DEF Times
<1>5. res \in [Criteria \cup {Provenance} -> Outcomes] /\ st \in Statuses BY ResultsTyped
<1>6. pr \in [Runs -> Privacies] BY <1>2, ReviewedTyped
<1>7. d = [runs |-> B, privacy |-> pr, component |-> v[2], excluded |-> v[3],
           supersedes |-> old, at |-> at, results |-> res, status |-> st]
  BY DEF Built
<1> HIDE DEF d
<1>8. /\ d.runs = B /\ d.privacy = pr /\ d.component = v[2] /\ d.excluded = v[3]
      /\ d.supersedes = old /\ d.at = at /\ d.results = res /\ d.status = st
  BY <1>7
<1>9. d \in Decisions
  <2> HIDE DEF pr, res, st
  <2> QED BY <1>1, <1>2, <1>3, <1>4, <1>5, <1>6, <1>7 DEF Decisions
<1>10. Follows(d, v[1]) BY <1>2, <1>8 DEF Follows
<1> QED BY <1>2, <1>8, <1>9, <1>10 DEF d

LEMMA AppendIs ==
  ASSUME Typed, NEW d \in Decisions
  PROVE  LET E == Append(decided, d) IN
         /\ E \in Seq(Decisions) /\ Len(E) = Len(decided) + 1
         /\ \A i \in Known(decided) : i \in Known(E) /\ E[i] = decided[i]
         /\ \A i \in Known(E) : i \in Known(decided) \/ i = Len(decided) + 1
         /\ E[Len(decided) + 1] = d /\ Len(decided) + 1 \in Known(E)
BY DEF Typed, Known

LEMMA PlanStep == ASSUME IInv, NEW s \in Stagers, StagePlan(s) PROVE IInv'
<1>1. PICK B \in candidates :
        \E v \in Verdicts(B), old \in Superseded, at \in Times :
          Plan(s, Built(B, v[1], v[2], v[3], old, at))
  BY DEF StagePlan
<1>2. PICK v \in Verdicts(B), old \in Superseded, at \in Times :
        Plan(s, Built(B, v[1], v[2], v[3], old, at))
  BY <1>1
<1> DEFINE d == Built(B, v[1], v[2], v[3], old, at)
           id == IdOf(d)
<1>3. d \in Decisions /\ d.runs = B /\ d.supersedes = old /\ d.at = at
      /\ v[1] \in [B -> Privacies] /\ Follows(d, v[1])
  BY BuiltTyped
<1>4. Plan(s, d) BY <1>2
<1> HIDE DEF d
<1>5. /\ decided' = With(d)
      /\ stager' = [stager EXCEPT ![s] = [Idle EXCEPT !.pc = "git", !.id = id]]
      /\ UNCHANGED <<captured, candidates, evidence, tree, torn, head, kills, drifts, focus>>
      /\ DecisionAdmitted(d)
  BY <1>4 DEF Plan, inputs, registry, PlanAdmits
<1>6. Typed /\ Len(decided) \in Nat BY DEF IInv, Typed
<1>7. IF \E i \in 1 .. Len(decided) : decided[i] = d
      THEN decided' = decided /\ id \in Known(decided)
      ELSE decided' = Append(decided, d) /\ id = Len(decided) + 1
  <2>1. CASE \E i \in 1 .. Len(decided) : decided[i] = d
    <3>1. id \in 1 .. Len(decided) BY <2>1 DEF IdOf
    <3> HIDE DEF id
    <3>2. id <= Len(decided) BY <1>6, <3>1
    <3> QED BY <1>5, <2>1, <3>1, <3>2 DEF With, Known, id
  <2>2. CASE ~\E i \in 1 .. Len(decided) : decided[i] = d
    <3>1. id = Len(decided) + 1 BY <2>2 DEF IdOf
    <3>2. ~(id <= Len(decided)) BY <1>6, <3>1
    <3> QED BY <1>5, <2>2, <3>1, <3>2 DEF With
  <2> QED BY <2>1, <2>2
<1> HIDE DEF id
<1>8. /\ decided' \in Seq(Decisions)
      /\ \A i \in Known(decided) : i \in Known(decided') /\ decided'[i] = decided[i]
      /\ id \in Known(decided')
  <2>1. CASE \E i \in 1 .. Len(decided) : decided[i] = d
    BY <1>6, <1>7, <2>1 DEF Typed
  <2>2. CASE ~\E i \in 1 .. Len(decided) : decided[i] = d
    BY <1>3, <1>6, <1>7, <2>2, AppendIs
  <2> QED BY <2>1, <2>2
<1>9. id \in Nat BY <1>8 DEF Known
<1> DEFINE p == [Idle EXCEPT !.pc = "git", !.id = id]
<1>10. p \in Process /\ p.pc = "git" /\ p.id = id BY <1>9, FilesTyped DEF Idle, Process
<1> HIDE DEF p
<1>11. /\ stager' \in [Stagers -> Process] /\ stager'[s] = p
       /\ \A t \in Stagers \ {s} : stager'[t] = stager[t]
  BY <1>5, <1>6, <1>10 DEF Typed, Process, p
<1>12. Typed' BY <1>5, <1>6, <1>8, <1>11 DEF Typed, Process
<1>13. Staging'
  <2>1. \A T : Placed(T) => T \subseteq Files /\ Stored(T) \subseteq Known(decided')
    BY <1>8 DEF Placed
  <2>2. Placed(tree)' /\ Placed(torn)' /\ Placed(head)' /\ head' \subseteq tree'
    BY <1>5, <2>1 DEF IInv, Staging, Placed, Stored, OfKind
  <2>3. ASSUME NEW t \in Stagers, stager'[t].pc # "idle"
        PROVE  stager'[t].id \in Known(decided')
               /\ (stager'[t].pc = "writing" => Placed({stager[t].file})')
    <3>1. CASE t = s BY <1>8, <1>10, <1>11, <3>1
    <3>2. CASE t # s
      <4>1. stager'[t] = stager[t] BY <1>11, <3>2
      <4>2. stager[t].id \in Known(decided)
            /\ (stager[t].pc = "writing" => Placed({stager[t].file}))
        BY <2>3, <4>1 DEF IInv, Staging
      <4> QED BY <1>8, <2>1, <4>1, <4>2 DEF Placed, Stored, OfKind
    <3> QED BY <3>1, <3>2
  <2> QED BY <2>2, <2>3 DEF Staging, Known
<1>14. Distinct(decided)'
  <2>1. CASE \E i \in 1 .. Len(decided) : decided[i] = d
    BY <1>7, <2>1 DEF IInv, Distinct, Known
  <2>2. CASE ~\E i \in 1 .. Len(decided) : decided[i] = d
    <3>1. \A i \in Known(decided) : decided[i] # d BY <2>2 DEF Known
    <3>2. decided' = Append(decided, d) BY <1>7, <2>2
    <3>3. /\ \A i \in Known(decided) : decided'[i] = decided[i]
          /\ \A i \in Known(decided') : i \in Known(decided) \/ i = Len(decided) + 1
          /\ decided'[Len(decided) + 1] = d
      BY <1>3, <1>6, <3>2, AppendIs
    <3>4. \A i, j \in Known(decided) : decided[i] = decided[j] => i = j
      BY DEF IInv, Distinct
    <3>5. \A i, j \in Known(decided') : decided'[i] = decided'[j] => i = j
      BY <3>1, <3>3, <3>4
    <3> QED BY <3>5 DEF Distinct, Known
  <2> QED BY <2>1, <2>2
<1>15. ASSUME NEW i \in Known(decided') PROVE Sound(decided[i])'
  <2>1. CASE i \in Known(decided) BY <1>5, <1>8, <2>1, SoundKept
  <2>2. CASE i \notin Known(decided)
    <3>1. decided' = Append(decided, d) BY <1>7, <2>2
    <3>2. decided'[i] = d BY <1>3, <1>6, <2>2, <3>1, AppendIs
    <3> DEFINE recs == [r \in d.runs |-> captured'[r]]
    <3>3. Records(d.runs) = recs BY <1>5 DEF Records
    <3>4. \A e \in d.supersedes : e \in Known(decided) /\ decided[e].at < d.at
      BY <1>5 DEF DecisionAdmitted, IInv, Staging, Placed
    <3>5. \A e \in d.supersedes : e \in Known(decided') /\ decided'[e].at < d.at
      <4> TAKE e \in d.supersedes
      <4>1. e \in Known(decided) /\ decided[e].at < d.at BY <3>4
      <4>2. e \in Known(decided') /\ decided'[e] = decided[e] BY <1>8, <4>1
      <4> QED BY <4>1, <4>2
    <3>6. /\ ReviewAdmitted(Criteria, Records(d.runs), d.excluded,
                            [r \in d.runs |-> d.privacy[r]], d.component)
          /\ \A c \in Strict : StrictHolds(Records(d.runs), c, d.excluded)
          /\ \A r \in d.runs : r <= d.at
      BY <1>5 DEF DecisionAdmitted
    <3>7. d.at \in 1 .. MaxTime /\ d.runs \in candidates'
      BY <1>3, <1>5 DEF Decisions
    <3>8. v[1] \in [d.runs -> Privacies] BY <1>3
    <3>9. /\ d.privacy = Reviewed(d.runs, v[1])
          /\ d.component \in Components
          /\ d.results = Results(Criteria, recs, d.excluded,
                                 [r \in d.runs |-> v[1][r]], d.component)
          /\ d.status = DerivedStatus(Started(recs), d.results)
      BY <1>3, <3>3 DEF Follows
    <3>10. Records(decided[i].runs)' = recs BY <3>2 DEF Records
    <3>11. Follows(decided[i], v[1])' BY <3>2, <3>9, <3>10 DEF Follows
    <3>12. /\ ReviewAdmitted(Criteria, recs, d.excluded,
                             [r \in d.runs |-> d.privacy[r]], d.component)
           /\ \A c \in Strict : StrictHolds(recs, c, d.excluded)
      BY <3>3, <3>6
    <3>13. /\ ReviewAdmitted(Criteria, Records(decided[i].runs)', decided'[i].excluded,
                             [r \in decided'[i].runs |-> decided'[i].privacy[r]],
                             decided'[i].component)
           /\ \A c \in Strict : StrictHolds(Records(decided[i].runs)', c, decided'[i].excluded)
      BY <3>2, <3>10, <3>12
    <3>14. /\ decided'[i].runs \in candidates'
           /\ \E privacy \in [decided'[i].runs -> Privacies] : Follows(decided[i], privacy)'
      BY <3>2, <3>7, <3>8, <3>11
    <3>15. /\ decided'[i].at \in 1 .. MaxTime /\ \A r \in decided'[i].runs : r <= decided'[i].at
           /\ \A e \in decided'[i].supersedes :
                e \in Known(decided') /\ decided'[e].at < decided'[i].at
      BY <3>2, <3>5, <3>6, <3>7
    <3> QED BY <3>13, <3>14, <3>15 DEF Sound, Known, Follows
  <2> QED BY <2>1, <2>2
<1>16. (drifts = 0 => /\ \A r \in Runs : evidence[r] = "kept"
                      /\ Verifies(head, decided))'
  <2> SUFFICES ASSUME drifts' = 0
               PROVE  (\A r \in Runs : evidence'[r] = "kept") /\ Verifies(head, decided)'
    OBVIOUS
  <2>1. (\A r \in Runs : evidence'[r] = "kept") /\ Verifies(head, decided)
    BY <1>5 DEF IInv
  <2>2. Stored(head) \subseteq Known(decided) BY DEF IInv, Staging, Placed
  <2>3. Verifies(head, decided') BY <1>6, <1>8, <2>1, <2>2, VerifiesGrows DEF Typed
  <2> QED BY <1>5, <2>1, <2>3, VerifiesPrime
<1>17. ~Quiet' BY <1>10, <1>11 DEF Quiet, Busy
<1>18. (\A i \in Known(decided) : Sound(decided[i]))' BY <1>15 DEF Known
<1> QED BY <1>12, <1>13, <1>14, <1>16, <1>17, <1>18 DEF IInv

\* A step that only moves a process on keeps the stages placed.
LEMMA MovedStaging ==
  ASSUME IInv, NEW s \in Stagers, decided' = decided, head' = head,
         Placed(tree)', Placed(torn)', head \subseteq tree',
         stager[s].pc # "idle", stager'[s].id = stager[s].id,
         stager'[s].pc = "writing" => Placed({stager'[s].file}),
         \A t \in Stagers \ {s} : stager'[t] = stager[t]
  PROVE  Staging'
<1>1. Known(decided') = Known(decided) /\ Placed(head)'
  BY DEF IInv, Staging, Placed, Stored, OfKind, Known
<1>2. ASSUME NEW t \in Stagers, stager'[t].pc # "idle"
      PROVE  stager'[t].id \in Known(decided)
             /\ (stager'[t].pc = "writing" => Placed({stager'[t].file}))
  <2>1. CASE t = s BY <2>1 DEF IInv, Staging
  <2>2. CASE t # s BY <1>2, <2>2 DEF IInv, Staging
  <2> QED BY <2>1, <2>2
<1>3. \A T : Placed(T) <=> T \subseteq Files /\ Stored(T) \subseteq Known(decided')
  BY <1>1 DEF Placed
<1> QED BY <1>1, <1>2, <1>3 DEF Staging, Placed, Known, Stored, OfKind

LEMMA GitStep == ASSUME IInv, NEW s \in Stagers, GitCheck(s) PROVE IInv'
<1>1. /\ UNCHANGED <<inputs, decided, tree, torn, head, kills, drifts, focus>>
      /\ stager[s].pc = "git"
  BY DEF GitCheck, registry
<1>2. kills' \in 0 .. MaxKills /\ stager \in [Stagers -> Process]
  BY <1>1 DEF IInv, Typed, Process
<1>3. CASE GitAdmits(Proposal(stager[s].id))
  <2>1. stager' = [stager EXCEPT ![s].pc = "write"] BY <1>3 DEF GitCheck
  <2>2. /\ stager' \in [Stagers -> Process] /\ stager'[s].pc = "write"
        /\ stager'[s].id = stager[s].id
        /\ \A t \in Stagers \ {s} : stager'[t] = stager[t]
    BY <1>2, <2>1 DEF Process
  <2>3. Placed(tree)' /\ Placed(torn)' /\ head \subseteq tree'
    BY <1>1 DEF IInv, Staging, Placed, Stored, OfKind, Known
  <2>4. Staging' BY <1>1, <2>2, <2>3, MovedStaging
  <2>5. ~Quiet' BY <2>2 DEF Quiet, Busy
  <2> QED BY <1>1, <1>2, <2>2, <2>4, <2>5, StagerStep
<1>4. CASE ~GitAdmits(Proposal(stager[s].id))
  <2>1. Finish(s, "failed") BY <1>4 DEF GitCheck
  <2>2. stager' \in [Stagers -> Process] /\ stager'[s].result = "failed"
    BY <2>1, Finished DEF IInv
  <2>3. Staging' BY <1>1, <2>1, FinishedStaging DEF registry
  <2>4. ~Quiet' BY <2>2 DEF Quiet
  <2> QED BY <1>1, <1>2, <2>2, <2>3, <2>4, StagerStep
<1> QED BY <1>3, <1>4

LEMMA CreateStep ==
  ASSUME IInv, NEW s \in Stagers, NEW f \in NextFiles(s), Create(s, f) PROVE IInv'
<1>1. /\ UNCHANGED <<inputs, decided, tree, head, kills, drifts, focus>>
      /\ stager[s].pc = "write"
  BY DEF Create
<1>2. kills' \in 0 .. MaxKills /\ stager \in [Stagers -> Process] /\ Typed
  BY <1>1 DEF IInv, Typed, Process
<1>3. stager[s].id \in Known(decided) BY <1>1 DEF IInv, Staging
<1>4. f \in Files /\ Placed({f})
  <2>1. f \in Proposal(stager[s].id) BY DEF NextFiles, Missing
  <2> QED BY <1>2, <1>3, <2>1, ProposalPlaced, PlacedIs
<1>5. CASE f \in torn
  <2>1. Finish(s, "failed") /\ torn' = torn BY <1>5 DEF Create
  <2>2. stager' \in [Stagers -> Process] /\ stager'[s].result = "failed"
    BY <2>1, Finished DEF IInv
  <2>3. Staging' BY <1>1, <2>1, FinishedStaging DEF registry
  <2>4. ~Quiet' BY <2>2 DEF Quiet
  <2> QED BY <1>1, <1>2, <2>2, <2>3, <2>4, StagerStep
<1>6. CASE f \notin torn
  <2>1. /\ torn' = torn \cup {f}
        /\ stager' = [stager EXCEPT ![s].pc = "writing", ![s].file = f]
    BY <1>6 DEF Create
  <2>2. /\ stager' \in [Stagers -> Process] /\ stager'[s].pc = "writing"
        /\ stager'[s].id = stager[s].id /\ stager'[s].file = f
        /\ \A t \in Stagers \ {s} : stager'[t] = stager[t]
    BY <1>2, <1>4, <2>1 DEF Process
  <2>3. Placed(tree)' /\ head \subseteq tree'
    BY <1>1 DEF IInv, Staging, Placed, Stored, OfKind, Known
  <2>4. Placed(torn)'
    <3>1. torn' \subseteq Files
          /\ \A g \in torn' : g.kind = "decision" => g.id \in Known(decided')
      BY <1>1, <1>4, <2>1, PlacedIs DEF IInv, Staging
    <3> QED BY <3>1 DEF Placed, Stored, OfKind, Known
  <2>5. Staging' BY <1>1, <1>4, <2>2, <2>3, <2>4, MovedStaging
  <2>6. ~Quiet' BY <2>2 DEF Quiet, Busy
  <2> QED BY <1>1, <1>2, <2>2, <2>5, <2>6, StagerStep
<1> QED BY <1>5, <1>6

LEMMA FillStep == ASSUME IInv, NEW s \in Stagers, FillFile(s) PROVE IInv'
<1> DEFINE f == stager[s].file
<1>1. /\ UNCHANGED <<inputs, decided, head, kills, drifts, focus>>
      /\ stager[s].pc = "writing" /\ torn' = torn \ {f} /\ tree' = tree \cup {f}
      /\ stager' = [stager EXCEPT ![s].pc = "write"]
  BY DEF FillFile
<1>2. kills' \in 0 .. MaxKills /\ stager \in [Stagers -> Process]
  BY <1>1 DEF IInv, Typed, Process
<1>3. /\ stager' \in [Stagers -> Process] /\ stager'[s].pc = "write"
      /\ stager'[s].id = stager[s].id
      /\ \A t \in Stagers \ {s} : stager'[t] = stager[t]
  BY <1>1, <1>2 DEF Process
<1>4. Placed({f}) BY <1>1 DEF IInv, Staging
<1> HIDE DEF f
<1>5. Placed(tree)' /\ Placed(torn)' /\ head \subseteq tree'
  <2>1. \A g \in tree \cup torn \cup {f} :
          g \in Files /\ (g.kind = "decision" => g.id \in Known(decided'))
    BY <1>1, <1>4, PlacedIs DEF IInv, Staging
  <2>2. tree' \subseteq tree \cup torn \cup {f} /\ torn' \subseteq tree \cup torn \cup {f}
    BY <1>1
  <2>3. head \subseteq tree' BY <1>1 DEF IInv, Staging
  <2> QED BY <2>1, <2>2, <2>3 DEF Placed, Stored, OfKind, Known
<1>6. Staging' BY <1>1, <1>3, <1>5, MovedStaging
<1>7. ~Quiet' BY <1>3 DEF Quiet, Busy
<1> QED BY <1>1, <1>2, <1>3, <1>6, <1>7, StagerStep

LEMMA FinalStep == ASSUME IInv, NEW s \in Stagers, FinalLoad(s) PROVE IInv'
<1> DEFINE result == IF Loads /\ CandidateVerifies(decided[stager[s].id].runs)
                     THEN "ok" ELSE "failed"
<1>1. /\ UNCHANGED <<inputs, decided, tree, torn, head, kills, drifts, focus>>
      /\ Finish(s, result)
  BY DEF FinalLoad, registry
<1>2. kills' \in 0 .. MaxKills BY <1>1 DEF IInv, Typed
<1>3. result \in {"ok", "failed"} /\ (result = "ok" => Loads) OBVIOUS
<1> HIDE DEF result
<1>4. stager' \in [Stagers -> Process] /\ stager'[s].result = result
  BY <1>1, <1>3, Finished DEF IInv
<1>5. Staging' BY <1>1, <1>3, FinishedStaging DEF registry
<1>6. Quiet' => Loads'
  <2>1. Quiet' => result = "ok" BY <1>3, <1>4 DEF Quiet
  <2> QED BY <1>1, <1>3, <2>1, TreeStays DEF inputs
<1> QED BY <1>1, <1>2, <1>4, <1>5, <1>6, StagerStep

LEMMA KillStep == ASSUME IInv, NEW s \in Stagers, Kill(s) PROVE IInv'
<1>1. /\ UNCHANGED <<inputs, decided, tree, torn, head, drifts, focus>>
      /\ Finish(s, "killed") /\ kills < MaxKills /\ kills' = kills + 1
  BY DEF Kill, registry
<1>2. kills' \in 0 .. MaxKills BY <1>1, BoundsAssumption DEF IInv, Typed
<1>3. stager' \in [Stagers -> Process] /\ stager'[s].result = "killed"
  BY <1>1, Finished DEF IInv
<1>4. Staging' BY <1>1, FinishedStaging DEF registry
<1>5. ~Quiet' BY <1>3 DEF Quiet
<1> QED BY <1>1, <1>2, <1>3, <1>4, <1>5, StagerStep

LEMMA AllIdle ==
  ASSUME stager' = [s \in Stagers |-> Idle]
  PROVE  stager' \in [Stagers -> Process] /\ \A s \in Stagers : stager'[s].pc = "idle"
<1>1. Idle \in Process BY FilesTyped DEF Idle, Process
<1> QED BY <1>1, FilesTyped

LEMMA CommitStep == ASSUME IInv, Commit PROVE IInv'
<1>1. /\ UNCHANGED <<captured, candidates, evidence, decided, tree, torn, kills, drifts, focus>>
      /\ head' = tree /\ stager' = [s \in Stagers |-> Idle] /\ Loads
  BY DEF Commit, inputs
<1>2. stager' \in [Stagers -> Process] /\ \A s \in Stagers : stager'[s].pc = "idle"
  BY <1>1, AllIdle
<1>3. Typed' BY <1>1, <1>2 DEF IInv, Typed, Process
<1>4. Staging' BY <1>1, <1>2 DEF IInv, Staging, Placed, Stored, OfKind, Known
<1>5. Distinct(decided)' /\ (\A i \in Known(decided) : Sound(decided[i]))'
  BY <1>1, DecisionsStay
<1>6. (drifts = 0 => /\ \A r \in Runs : evidence[r] = "kept"
                     /\ Verifies(head, decided))'
  BY <1>1, VerifiesPrime DEF IInv, Loads
<1>7. Loads' BY <1>1, TreeStays
<1> QED BY <1>3, <1>4, <1>5, <1>6, <1>7 DEF IInv

LEMMA DiscardStep == ASSUME IInv, Discard PROVE IInv'
<1>1. /\ UNCHANGED <<captured, candidates, evidence, decided, head, kills, drifts, focus>>
      /\ tree' = head /\ torn' = {} /\ stager' = [s \in Stagers |-> Idle]
  BY DEF Discard, inputs
<1>2. stager' \in [Stagers -> Process] /\ \A s \in Stagers : stager'[s].pc = "idle"
  BY <1>1, AllIdle
<1>3. Typed' BY <1>1, <1>2 DEF IInv, Typed, Process
<1>4. Staging' BY <1>1, <1>2 DEF IInv, Staging, Placed, Stored, OfKind, Known
<1>5. Distinct(decided)' /\ (\A i \in Known(decided) : Sound(decided[i]))'
  BY <1>1, DecisionsStay
<1>6. (drifts = 0 => /\ \A r \in Runs : evidence[r] = "kept"
                     /\ Verifies(head, decided))'
  BY <1>1, HeadStays
<1>7. Quiet' => Loads'
  <2>1. Quiet' => drifts' = 0 BY DEF Quiet
  <2>2. drifts' = 0 => Verifies(head', decided') BY <1>1, <1>6, VerifiesPrime
  <2>3. drifts' = 0 => Verifies(tree, decided)' BY <1>1, <2>2, VerifiesPrime
  <2> QED BY <1>1, <2>1, <2>3 DEF Loads
<1> QED BY <1>3, <1>4, <1>5, <1>6, <1>7 DEF IInv

LEMMA DriftStep == ASSUME IInv, NEW r \in Runs, Drift(r) PROVE IInv'
<1>1. /\ UNCHANGED <<captured, candidates, decided, tree, torn, head, stager, kills, focus>>
      /\ evidence' = [evidence EXCEPT ![r] = "drifted"]
      /\ drifts' = drifts + 1 /\ drifts < MaxDrifts
  BY DEF Drift, registry
<1>2. Typed' /\ drifts' # 0 BY <1>1, BoundsAssumption DEF IInv, Typed
<1>3. Staging' BY <1>1 DEF IInv, Staging, Placed, Stored, OfKind, Known
<1>4. Distinct(decided)' /\ (\A i \in Known(decided) : Sound(decided[i]))'
  BY <1>1, DecisionsStay
<1>5. ~Quiet' BY <1>2 DEF Quiet
<1> QED BY <1>2, <1>3, <1>4, <1>5 DEF IInv

LEMMA StutterStep == ASSUME IInv, UNCHANGED vars PROVE IInv'
<1>1. UNCHANGED <<captured, candidates, evidence, decided, tree, torn, head, stager,
                  kills, drifts, focus>>
  BY DEF vars
<1>2. Typed' BY <1>1 DEF IInv, Typed
<1>3. Staging' BY <1>1 DEF IInv, Staging, Placed, Stored, OfKind, Known
<1>4. Distinct(decided)' /\ (\A i \in Known(decided) : Sound(decided[i]))'
  BY <1>1, DecisionsStay
<1>5. (drifts = 0 => /\ \A r \in Runs : evidence[r] = "kept"
                     /\ Verifies(head, decided))'
  BY <1>1, HeadStays
<1>6. Quiet' => Loads' BY <1>1, TreeStays DEF IInv, Quiet, Busy
<1> QED BY <1>2, <1>3, <1>4, <1>5, <1>6 DEF IInv

LEMMA NextInv == IInv /\ [Next]_vars => IInv'
<1> SUFFICES ASSUME IInv, [Next]_vars PROVE IInv' OBVIOUS
<1>1. CASE \E r \in Runs, a \in Attempts : Capture(r, a) BY <1>1, CaptureStep
<1>2. CASE \E A, B \in candidates : Assemble(A, B) BY <1>2, AssembleStep
<1>3. ASSUME NEW s \in Stagers, Stage(s) \/ Kill(s) PROVE IInv'
  <2>1. CASE StagePlan(s) BY <2>1, PlanStep
  <2>2. CASE GitCheck(s) BY <2>2, GitStep
  <2>3. CASE \E f \in NextFiles(s) : Create(s, f) BY <2>3, CreateStep
  <2>4. CASE FillFile(s) BY <2>4, FillStep
  <2>5. CASE FinalLoad(s) BY <2>5, FinalStep
  <2>6. CASE Kill(s) BY <2>6, KillStep
  <2> QED BY <1>3, <2>1, <2>2, <2>3, <2>4, <2>5, <2>6 DEF Stage
<1>4. CASE Commit BY <1>4, CommitStep
<1>5. CASE Discard BY <1>5, DiscardStep
<1>6. CASE \E r \in Runs : Drift(r) BY <1>6, DriftStep
<1>7. CASE UNCHANGED vars BY <1>7, StutterStep
<1> QED BY <1>1, <1>2, <1>3, <1>4, <1>5, <1>6, <1>7 DEF Next

Dated == \A i \in Known(decided) :
           /\ decided[i].at \in Nat
           /\ \A e \in decided[i].supersedes :
                e \in Known(decided) /\ decided[e].at < decided[i].at
LEMMA DatedInv == IInv => Dated
<1> SUFFICES ASSUME IInv, NEW i \in Known(decided)
             PROVE  /\ decided[i].at \in Nat
                    /\ \A e \in decided[i].supersedes :
                         e \in Known(decided) /\ decided[e].at < decided[i].at
  BY DEF Dated
<1>1. decided[i].at \in Nat BY DecisionType DEF IInv
<1>2. Sound(decided[i]) BY DEF IInv
<1> QED BY <1>1, <1>2 DEF Sound

\* A later review replaces an effective decision only by superseding it.
LEMMA SupersedesStep ==
  ASSUME IInv, IInv', [Next]_vars,
         NEW d \in Stored(tree), NEW e \in Stored(tree') \ Stored(tree),
         Heads(tree) = {d}, Heads(tree)' = {e},
         Verifies(tree, decided), Verifies(tree', decided')
  PROVE  d \in decided'[e].supersedes /\ decided'[e].at > decided'[d].at
<1>1. PICK s \in Stagers : FillFile(s)
  <2>1. tree' # tree OBVIOUS
  <2>2. ASSUME Discard PROVE FALSE
    <3>1. tree' \subseteq tree BY <2>2 DEF Discard, IInv, Staging
    <3> QED BY <3>1 DEF Stored, OfKind
  <2>3. CASE \E r \in Runs, a \in Attempts : Capture(r, a)
    BY <2>1, <2>3 DEF Capture, registry
  <2>4. CASE \E A, B \in candidates : Assemble(A, B)
    BY <2>1, <2>4 DEF Assemble, registry
  <2>5. ASSUME NEW t \in Stagers, StagePlan(t) PROVE FALSE
    BY <2>1, <2>5 DEF StagePlan, Plan, registry
  <2>6. ASSUME NEW t \in Stagers, GitCheck(t) \/ FinalLoad(t) \/ Kill(t) PROVE FALSE
    BY <2>1, <2>6 DEF GitCheck, FinalLoad, Kill, registry
  <2>7. ASSUME NEW t \in Stagers, NEW f \in NextFiles(t), Create(t, f) PROVE FALSE
    BY <2>1, <2>7 DEF Create
  <2>8. CASE Commit BY <2>1, <2>8 DEF Commit
  <2>9. CASE \E r \in Runs : Drift(r) BY <2>1, <2>9 DEF Drift, registry
  <2>10. CASE UNCHANGED vars BY <2>1, <2>10 DEF vars
  <2> QED BY <2>2, <2>3, <2>4, <2>5, <2>6, <2>7, <2>8, <2>9, <2>10 DEF Next, Stage
<1> DEFINE f == stager[s].file
<1>2. tree' = tree \cup {f} /\ decided' = decided BY <1>1 DEF FillFile
<1> HIDE DEF f
<1>3. \A x \in Stored(tree') : x \in Stored(tree) \/ x = f.id
  BY <1>2 DEF Stored, OfKind
<1>4. e = f.id /\ d \in Stored(tree') /\ d # e
  BY <1>2, <1>3 DEF Stored, OfKind
<1>5. Heads(tree)' = {x \in Stored(tree') : Superseders(tree', decided', x) = {}}
  BY DEF Heads, Superseders, Stored, OfKind
<1>6. PICK x \in Stored(tree') : d \in decided'[x].supersedes
  BY <1>4, <1>5 DEF Superseders
<1>7. x \notin Stored(tree)
  <2>1. Superseders(tree, decided, d) = {} BY DEF Heads
  <2> QED BY <1>2, <1>6, <2>1 DEF Superseders
<1>8. d \in decided'[e].supersedes BY <1>3, <1>4, <1>6, <1>7
<1>9. e \in Known(decided') BY DEF IInv, Staging, Placed, Stored, OfKind, Known
<1>10. Dated' BY DatedInv, PTL
<1>11. e \in Known(decided)' /\ d \in Known(decided)'
       /\ decided'[e].at \in Nat /\ decided'[d].at \in Nat /\ decided'[d].at < decided'[e].at
  <2>1. \A i \in Known(decided') :
          /\ decided'[i].at \in Nat
          /\ \A y \in decided'[i].supersedes :
               y \in Known(decided') /\ decided'[y].at < decided'[i].at
    BY <1>10 DEF Dated, Known
  <2>2. d \in Known(decided') /\ decided'[d].at < decided'[e].at BY <1>8, <1>9, <2>1
  <2>3. decided'[d].at \in Nat /\ decided'[e].at \in Nat BY <1>9, <2>1, <2>2
  <2> QED BY <1>9, <2>2, <2>3 DEF Known
<1> QED BY <1>8, <1>11

-----------------------------------------------------------------------------
(* The theorems.                                                           *)

THEOREM Invariant == Spec => []IInv
BY InitInv, NextInv, PTL DEF Spec

LEMMA TypeInv == IInv => TypeOK
BY DEF IInv, Typed, Staging, Placed, TypeOK

\* Every variable keeps its type.
THEOREM TypeCorrect == Spec => []TypeOK
BY Invariant, TypeInv, PTL

\* Results and statuses are those of the adjudication table
\* (_aggregate_observation_outcomes, derive_validation_status).
THEOREM Adjudicated == Spec => []StatusFollowsTable
BY Invariant, TableInv, PTL

\* "validated" is borne out by result files that show every criterion met and
\* by evidence that still has its captured bytes (compose_attempt_spec,
\* validate_validation_decision, verify_publishable_evidence_artifact).
THEOREM Earned == Spec => []ValidatedEarned
BY Invariant, EarnedInv, PTL

\* After stages that all report success the checkout verifies, however many
\* overlapped (stage_issue_plan).
THEOREM QuietVerifies == Spec => []QuietRegistryVerifies
BY Invariant, QuietInv, PTL

\* A stage interrupted between two files is admitted again
\* (load_registry_for_issue_plan).
THEOREM Resumes == Spec => []InterruptedStageResumes
BY Invariant, ResumesInv, PTL

\* An effective decision is replaced only by a later one that supersedes it
\* (_supersession_lineage_closure).
THEOREM Supersedes == Spec => LaterReviewSupersedes
<1> DEFINE Step == \A d \in Stored(tree), e \in Stored(tree') \ Stored(tree) :
                     (Heads(tree) = {d} /\ Heads(tree)' = {e}
                      /\ Verifies(tree, decided) /\ Verifies(tree', decided')) =>
                     /\ d \in decided'[e].supersedes
                     /\ decided'[e].at > decided'[d].at
<1>1. IInv /\ IInv' /\ [Next]_vars => Step BY SupersedesStep
<1>2. IInv /\ IInv' /\ [Next]_vars => [Step]_vars BY <1>1
<1> QED BY <1>2, Invariant, PTL DEF Spec, LaterReviewSupersedes
=============================================================================
