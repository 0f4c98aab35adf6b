-------------------------- MODULE MCReleaseRegistry --------------------------
(* The contract has two soak criteria: one of few requests, and the one that    *)
(* carries the contract's soak requirement.                                     *)
EXTENDS ReleaseRegistry, TLC

Symmetry == Permutations(Stagers)

Soaks == {"errors", "soak"}
Both(x, y) == ("errors" :> x) @@ ("soak" :> y)

Soaked == [reason |-> "completed", fits |-> Soaks, sample |-> Both("exact", "over"),
           known |-> Soaks, met |-> Soaks,
           nested |-> Both("pass", "pass"), relative |-> Both("pass", "pass")]

Attempt(file, review, boot) ==
  LET composed == Compose("soak", Soaks, file) IN
  [completion |-> composed.completion, observed |-> composed.observed,
   barrier |-> TRUE, review |-> review, boot |-> boot, op |-> "soak", file |-> file]

PlainAttempt == Attempt(Soaked, TRUE, 1)
\* All met; an error too many; a soak that failed its requirement, one that was
\* too short for its sample as well, and a short one that did not; a run for one
\* criterion only, on a later boot; a requirement without its evidence; an
\* interrupted, an unreadable and a pre-barrier attempt.
SomeAttempts ==
  {PlainAttempt,
   Attempt([Soaked EXCEPT !.met = {"soak"}], TRUE, 1),
   Attempt([Soaked EXCEPT !.nested["soak"] = "fail"], FALSE, 1),
   Attempt([Soaked EXCEPT !.sample["soak"] = "short", !.nested["soak"] = "fail"], TRUE, 1),
   Attempt([Soaked EXCEPT !.sample["soak"] = "short"], TRUE, 1),
   Attempt([Soaked EXCEPT !.fits = {"errors"}], TRUE, 2),
   Attempt([Soaked EXCEPT !.fits = {"soak"}, !.nested["soak"] = "not-evaluated"], TRUE, 1),
   Attempt([Soaked EXCEPT !.reason = "interrupted"], FALSE, 1),
   [completion |-> "failed", observed |-> << >>, barrier |-> FALSE, review |-> TRUE,
    boot |-> 1, op |-> "soak", file |-> [Soaked EXCEPT !.reason = "corrupt-measurement"]]}

\* Result files of every operation, for the check below; only levels are cut.
SomeFiles ==
  {[Soaked EXCEPT !.reason = reason, !.fits = fits, !.sample = Both(x, y),
                  !.known = known, !.met = met, !.nested = Both("pass", nested)] :
     reason \in {"completed", "interrupted", "request-failed", "corrupt-measurement"},
     fits \in SUBSET Soaks, known \in {Soaks, {"soak"}}, met \in {Soaks, {"errors"}},
     x \in Samples, y \in {"exact", "short"}, nested \in {"pass", "fail"}}

\* Of every operation and every such file: a criterion passes only if the file
\* shows it met, and an interrupted file is never a failure of the service
\* (_map_compare_criterion, _map_bench_criterion, _map_accuracy_criterion,
\* _map_soak_criterion, compose_attempt_spec).
ASSUME PassIsShown ==
  \A op \in Operations, file \in SomeFiles :
    LET composed == Compose(op, Soaks, file) IN
    (file.sample["errors"] = "cut" => op = "bench") => \A c \in DOMAIN composed.observed :
      /\ Evaluated(composed.observed[c]) = "pass" => Shows(op, file, c)
      /\ file.reason = "interrupted" => Evaluated(composed.observed[c]) = "inconclusive"
=============================================================================
