------------------------------- MODULE Policy -------------------------------
(***************************************************************************)
(* The policy decision: evaluate_policy of policy/evaluate.py.             *)
(*                                                                         *)
(* A decision starts at "pass" and every configured condition that the     *)
(* report does not meet can only make it worse.  A ratio of the report is  *)
(* an integer on some scale; Null is a ratio that could not be computed,   *)
(* and a threshold that is not configured.                                 *)
(***************************************************************************)
EXTENDS Integers

Null == -1

StageNames == {"preflight", "git", "provenance", "requirements",
               "generation", "mutation", "behavior", "policy"}

Decisions == {"block", "review", "not_evaluated", "pass"}

\* POLICY_PRECEDENCE, by position.
Precedence == [block |-> 0, review |-> 1, not_evaluated |-> 2, pass |-> 3]

Worse(left, right) == IF Precedence[left] < Precedence[right] THEN left ELSE right

When(condition, verdict, decision) ==
  IF condition THEN Worse(decision, verdict) ELSE decision

\* Mutant: a null metric is not compared at all.
NullMeetsThreshold(value, minimum, incomplete, decision) ==
  When(minimum # Null /\ value # Null /\ value < minimum, "block", decision)

\* A numeric threshold.  A null metric is not evaluated, and at least as bad as
\* what policy.incomplete says.
Threshold(value, minimum, incomplete, decision) ==
  IF minimum = Null THEN decision
  ELSE IF value = Null THEN Worse(Worse(decision, "not_evaluated"), incomplete)
  ELSE When(value < minimum, "block", decision)

\* r.complete: the stages whose status is "complete"; none in a report without a
\* pipeline (schema 1).
Incomplete(r, name) == name \notin r.complete

EvaluatePolicy(r, c) ==
  LET coverage   == Threshold(r.coverage, c.minCoverage, c.incomplete, "pass")
      score      == Threshold(r.score, c.minScore, c.incomplete, coverage)
      blocked    == When(c.blockOn \cap r.findings # {}, "block", score)
      reviewed   == When(c.reviewOn \cap r.findings # {}, "review", blocked)
      deleted    == When(c.blockDeleted /\ r.removed, "block", reviewed)
      generated  == When(c.blockGenerated /\ "failed" \in r.generated, "block", deleted)
      regression == When(c.blockRegressions /\ r.regression, "block", generated)
  IN  When(\E name \in c.requireStages : Incomplete(r, name), c.incomplete, regression)
=============================================================================
