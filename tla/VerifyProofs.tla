---------------------------- MODULE VerifyProofs ----------------------------
(***************************************************************************)
(* Proofs about Verify for any policies, thresholds, findings and merge    *)
(* bases, and for any number of requirements: what a decision, a score, a  *)
(* citation and an exit status mean in the reports of every workflow.      *)
(***************************************************************************)
EXTENDS Verify, TLAPS

\* A report as a record, whatever step of whatever command holds it.
Reports ==
  [schema : {1, 2}, status : {"complete", "incomplete", "error"},
   base : MergeBases \cup {NoBase}, failing : BOOLEAN, coverage : Ratios \cup {Null},
   findings : SUBSET FindingIds, removed : BOOLEAN, items : SUBSET Item,
   fromFile : BOOLEAN, generated : SUBSET {"passed", "failed", "other"},
   score : Ratios \cup {Null}, regression : BOOLEAN, complete : SUBSET StageNames,
   decision : Decisions, policy : Policies]

\* The steps of a verify run after run_check, before the report is written.
Optional == {"requirements", "generation", "mutation", "behavior", "policy"}

Typed ==
  /\ pc \in {"idle", "check", "extract", "write"} \cup Optional
  /\ command \in {"none", "requirements", "check", "verify", "policy"}
  /\ report \in Reports
  /\ file = Nothing \/ \E r \in Reports : file = <<r>>
  /\ saved = Nothing \/ \E r \in Reports : saved = <<r>>
  /\ enforce \in BOOLEAN
  /\ raised \in {"none", "check", "requirements", "generation", "mutation",
                 "extract", "write"}
  /\ exit \in {Null, 0, 1, 2, 3}

\* What the steps that have not been taken leave in the report.
Progress ==
  /\ pc \in {"idle", "check", "extract"} => report = EmptyReport
  /\ pc \in Optional =>
       /\ command = "verify" /\ report.schema = 2
       /\ report.decision = "not_evaluated" /\ "policy" \notin report.complete
  /\ pc = "requirements" =>
       report.items = {} /\ (report.base = NoBase => report.status = "error")
  /\ pc \in {"requirements", "generation"} => report.generated = {}
  /\ pc \in {"requirements", "generation", "mutation"} => report.score = Null
  /\ pc # "idle" => raised = "none"
  /\ pc = "extract" => command = "requirements"
  /\ pc = "check" => command \in {"check", "verify"}

\* A score rests on a green baseline.
Green(r) == r.score # Null => r.status # "error" /\ ~r.failing /\ "failed" \notin r.generated

\* Requirements cite the merge base of their report.
Cited(r) == r.status # "error" => \A i \in r.items : i.base = r.base

\* A decision made with all stages in place is the one the policy makes of the
\* report as it is, unless the policy stage itself is required.
Agrees(r) ==
  "policy" \in r.complete \ r.policy.requireStages => r.decision = EvaluatePolicy(r, r.policy)

\* Which stages are complete: none in a report of schema 1, and provenance only
\* in a report that is itself complete.
Staged(r) ==
  /\ r.schema = 1 => r.complete = {}
  /\ "provenance" \in r.complete => r.status = "complete"

Good(r) ==
  Green(r) /\ Cited(r) /\ Agrees(r) /\ Staged(r) /\ (r.decision = "pass" => Earned(r))

IInv ==
  /\ Typed /\ Progress /\ Good(report) /\ (\A r \in Saved : Good(r)) /\ ExitMeaning
-----------------------------------------------------------------------------
(* The policy.                                                             *)

\* A condition that holds makes a decision no better than its verdict.
LEMMA WhenPasses ==
  ASSUME NEW condition \in BOOLEAN, NEW verdict \in Decisions, NEW decision \in Decisions
  PROVE  /\ When(condition, verdict, decision) \in Decisions
         /\ When(condition, verdict, decision) = "pass" =>
              decision = "pass" /\ (condition => verdict = "pass")
BY DEF When, Worse, Precedence, Decisions

\* A threshold is not configured, or met.
Met(value, minimum) == minimum # Null => value # Null /\ value >= minimum

\* A threshold that is configured is met by a metric that is not null.
LEMMA ThresholdPasses ==
  ASSUME NEW value \in Nat \cup {Null}, NEW minimum \in Nat \cup {Null},
         NEW incomplete \in Decisions, NEW decision \in Decisions
  PROVE  /\ Threshold(value, minimum, incomplete, decision) \in Decisions
         /\ Threshold(value, minimum, incomplete, decision) = "pass" =>
              decision = "pass" /\ Met(value, minimum)
<1>1. \A x, y \in Decisions : Worse(x, y) \in Decisions /\ (Worse(x, y) = "pass" => x = "pass" /\ y = "pass")
  BY DEF Worse, Precedence, Decisions
<1>2. {"not_evaluated", "block"} \subseteq Decisions /\ "not_evaluated" # "pass" /\ "block" # "pass"
  BY DEF Decisions
<1>3. CASE minimum = Null
  BY <1>3 DEF Threshold, Met
<1>4. CASE minimum # Null /\ value = Null
  <2>1. Threshold(value, minimum, incomplete, decision) =
          Worse(Worse(decision, "not_evaluated"), incomplete)
    BY <1>4 DEF Threshold
  <2> QED
    BY <1>1, <1>2, <2>1
<1>5. CASE minimum # Null /\ value # Null
  <2>1. Threshold(value, minimum, incomplete, decision) =
          IF value < minimum THEN Worse(decision, "block") ELSE decision
    BY <1>5 DEF Threshold, When
  <2>2. value \in Nat /\ minimum \in Nat
    BY <1>5
  <2>3. CASE value < minimum
    <3>1. Threshold(value, minimum, incomplete, decision) = Worse(decision, "block")
      BY <2>1, <2>3
    <3> QED
      BY <1>1, <1>2, <3>1
  <2>4. CASE ~(value < minimum)
    <3>1. value >= minimum
      BY <2>2, <2>4
    <3>2. Threshold(value, minimum, incomplete, decision) = decision
      BY <2>1, <2>4
    <3> QED
      BY <1>5, <3>1, <3>2 DEF Met
  <2> QED
    BY <2>3, <2>4
<1> QED
  BY <1>3, <1>4, <1>5

\* The fields of a policy.
LEMMA PolicyFields ==
  ASSUME NEW c \in Policies
  PROVE  /\ c.incomplete \in Decisions
         /\ c.minCoverage \in Nat \cup {Null} /\ c.minScore \in Nat \cup {Null}
         /\ c.blockOn \subseteq FindingIds /\ c.reviewOn \subseteq FindingIds
         /\ c.blockDeleted \in BOOLEAN /\ c.blockGenerated \in BOOLEAN
         /\ c.blockRegressions \in BOOLEAN /\ c.requireStages \subseteq StageNames
BY VerifyAssumption

\* A pass means that every condition of the policy is met.
LEMMA PassMeans ==
  ASSUME NEW r \in Reports, NEW c \in Policies
  PROVE  /\ EvaluatePolicy(r, c) \in Decisions
         /\ EvaluatePolicy(r, c) = "pass" => Earned([r EXCEPT !.policy = c])
<1> DEFINE coverage   == Threshold(r.coverage, c.minCoverage, c.incomplete, "pass")
           score      == Threshold(r.score, c.minScore, c.incomplete, coverage)
           blocked    == When(c.blockOn \cap r.findings # {}, "block", score)
           reviewed   == When(c.reviewOn \cap r.findings # {}, "review", blocked)
           deleted    == When(c.blockDeleted /\ r.removed, "block", reviewed)
           generated  == When(c.blockGenerated /\ "failed" \in r.generated, "block", deleted)
           regression == When(c.blockRegressions /\ r.regression, "block", generated)
           missing    == \E name \in c.requireStages : Incomplete(r, name)
           final      == When(missing, c.incomplete, regression)
<1>1. EvaluatePolicy(r, c) = final
  BY DEF EvaluatePolicy
<1>2. {"pass", "block", "review"} \subseteq Decisions /\ "block" # "pass" /\ "review" # "pass"
  BY DEF Decisions
<1>3. /\ r.coverage \in Nat \cup {Null} /\ r.score \in Nat \cup {Null}
      /\ r.removed \in BOOLEAN /\ r.regression \in BOOLEAN
  BY VerifyAssumption DEF Reports
<1>a. /\ c.minCoverage \in Nat \cup {Null} /\ c.minScore \in Nat \cup {Null}
      /\ c.incomplete \in Decisions
  BY PolicyFields
<1>4. coverage \in Decisions /\ (coverage = "pass" => Met(r.coverage, c.minCoverage))
  <2>1. "pass" \in Decisions
    BY <1>2
  <2>2. \A d \in Decisions :
          LET t == Threshold(r.coverage, c.minCoverage, c.incomplete, d)
          IN  t \in Decisions /\ (t = "pass" => Met(r.coverage, c.minCoverage))
    BY <1>3, <1>a, ThresholdPasses
  <2> QED
    BY <2>1, <2>2
<1> HIDE DEF coverage
<1>5. score \in Decisions /\ (score = "pass" => coverage = "pass" /\ Met(r.score, c.minScore))
  BY <1>3, <1>4, <1>a, ThresholdPasses
<1> HIDE DEF score
<1>6. blocked \in Decisions /\ (blocked = "pass" => score = "pass" /\ c.blockOn \cap r.findings = {})
  BY <1>2, <1>5, WhenPasses
<1> HIDE DEF blocked
<1>7. reviewed \in Decisions /\
      (reviewed = "pass" => blocked = "pass" /\ c.reviewOn \cap r.findings = {})
  BY <1>2, <1>6, WhenPasses
<1> HIDE DEF reviewed
<1>8. deleted \in Decisions /\ (deleted = "pass" => reviewed = "pass" /\ ~(c.blockDeleted /\ r.removed))
  BY <1>2, <1>7, WhenPasses
<1> HIDE DEF deleted
<1>9. generated \in Decisions /\
      (generated = "pass" => deleted = "pass" /\ ~(c.blockGenerated /\ "failed" \in r.generated))
  BY <1>2, <1>8, WhenPasses
<1> HIDE DEF generated
<1>10. regression \in Decisions /\
       (regression = "pass" => generated = "pass" /\ ~(c.blockRegressions /\ r.regression))
  BY <1>2, <1>9, WhenPasses
<1> HIDE DEF regression
<1>11. final \in Decisions /\ (final = "pass" => regression = "pass" /\ (missing => c.incomplete = "pass"))
  BY <1>10, PolicyFields, WhenPasses
<1>12. ~missing => c.requireStages \subseteq r.complete
  BY DEF Incomplete
<1> HIDE DEF final, missing
<1>13. ASSUME final = "pass" PROVE Earned([r EXCEPT !.policy = c])
  <2> DEFINE q == [r EXCEPT !.policy = c]
  <2>1. /\ q.policy = c /\ q.coverage = r.coverage /\ q.score = r.score
        /\ q.findings = r.findings /\ q.removed = r.removed /\ q.generated = r.generated
        /\ q.regression = r.regression /\ q.complete = r.complete
    BY DEF Reports
  <2> HIDE DEF q
  <2>2. (c.blockOn \cup c.reviewOn) \cap q.findings = {}
    BY <1>6, <1>7, <1>8, <1>9, <1>10, <1>11, <1>13, <2>1
  <2>3. /\ c.minCoverage # Null => q.coverage # Null /\ q.coverage >= c.minCoverage
        /\ c.minScore # Null => q.score # Null /\ q.score >= c.minScore
    BY <1>4, <1>5, <1>6, <1>7, <1>8, <1>9, <1>10, <1>11, <1>13, <2>1 DEF Met
  <2>4. /\ c.blockDeleted => ~q.removed
        /\ c.blockGenerated => "failed" \notin q.generated
        /\ c.blockRegressions => ~q.regression
    BY <1>8, <1>9, <1>10, <1>11, <1>13, <2>1
  <2>5. c.incomplete # "pass" => c.requireStages \subseteq q.complete
    BY <1>11, <1>12, <1>13, <2>1
  <2>6. Earned(q)
    BY <2>1, <2>2, <2>3, <2>4, <2>5 DEF Earned
  <2> QED
    BY <2>6 DEF q
<1> QED
  BY <1>1, <1>11, <1>13

\* What a policy looks at in a report.
SameEvidence(q, r) ==
  /\ q.coverage = r.coverage /\ q.score = r.score /\ q.findings = r.findings
  /\ q.removed = r.removed /\ q.generated = r.generated /\ q.regression = r.regression

\* The decision depends on nothing else, and on the completed stages only as far
\* as the policy requires them.
LEMMA PolicyFrame ==
  ASSUME NEW q, NEW r, NEW c, SameEvidence(q, r),
         c.requireStages \cap q.complete = c.requireStages \cap r.complete
  PROVE  EvaluatePolicy(q, c) = EvaluatePolicy(r, c)
<1>1. (\E name \in c.requireStages : Incomplete(q, name))
        <=> (\E name \in c.requireStages : Incomplete(r, name))
  BY DEF Incomplete
<1>2. CASE \E name \in c.requireStages : Incomplete(q, name)
  BY <1>1, <1>2 DEF EvaluatePolicy, SameEvidence, When
<1>3. CASE ~(\E name \in c.requireStages : Incomplete(q, name))
  BY <1>1, <1>3 DEF EvaluatePolicy, SameEvidence, When
<1> QED
  BY <1>2, <1>3

\* A pass stays earned when more stages are complete.
LEMMA EarnedFrame ==
  ASSUME NEW q, NEW r, SameEvidence(q, r), q.policy = r.policy,
         r.complete \subseteq q.complete, Earned(r)
  PROVE  Earned(q)
BY DEF Earned, SameEvidence

\* A report that nobody has decided about is good when its score and its
\* citations are.
LEMMA Undecided ==
  ASSUME NEW r, r.decision = "not_evaluated", "policy" \notin r.complete,
         Green(r), Cited(r), Staged(r)
  PROVE  Good(r)
BY DEF Good, Agrees

\* The report a command starts from.
LEMMA EmptyIsGood == EmptyReport \in Reports /\ Good(EmptyReport)
<1>1. (CHOOSE c \in Policies : TRUE) \in Policies
  BY VerifyAssumption
<1>2. EmptyReport \in Reports
  BY <1>1 DEF EmptyReport, Reports, Decisions, StageNames
<1>3. Good(EmptyReport)
  BY Undecided DEF EmptyReport, Green, Cited, Staged
<1> QED
  BY <1>2, <1>3
-----------------------------------------------------------------------------
(* The invariant.                                                          *)

\* Every command of a workflow starts with the invariant.
LEMMA InitInv == Init => IInv
<1> SUFFICES ASSUME Init PROVE IInv
  OBVIOUS
<1>1. Typed
  BY EmptyIsGood DEF Init, Typed
<1>2. Progress
  BY DEF Init, Progress, Optional
<1>3. Good(report) /\ \A r \in Saved : Good(r)
  BY EmptyIsGood DEF Init, Saved
<1>4. ExitMeaning
  BY DEF Init, ExitMeaning
<1> QED
  BY <1>1, <1>2, <1>3, <1>4 DEF IInv

\* A step inside a command need only be looked at for the report it builds.
LEMMA StepFrame ==
  ASSUME IInv, NEW at, NEW next, Step(at, next),
         next \in {"write"} \cup Optional, report' \in Reports, Good(report'), Progress'
  PROVE  IInv'
<1>1. Typed'
  BY DEF IInv, Typed, Step, disk
<1>2. (\A r \in Saved : Good(r))'
  BY DEF IInv, Step, disk, Saved
<1>3. ExitMeaning'
  BY DEF Step, Optional, ExitMeaning
<1> QED
  BY <1>1, <1>2, <1>3 DEF IInv

\* run_check with an error report: no metric, no requirement.
LEMMA CheckFailsInv == IInv /\ CheckFails => IInv'
<1> SUFFICES ASSUME IInv, CheckFails PROVE IInv'
  OBVIOUS
<1>1. PICK base \in MergeBases \cup {NoBase}, schema \in Schemas :
        report' = [report EXCEPT !.schema = schema, !.status = "error", !.base = base,
                                 !.complete = StagesOfCheck("error", base)]
  BY DEF CheckFails
<1>2. Step("check", AfterCheck) /\ pc = "check" /\ report = EmptyReport
      /\ command \in {"check", "verify"} /\ raised = "none"
  BY DEF CheckFails, Step, IInv, Progress
<1>3. /\ AfterCheck \in {"write"} \cup Optional /\ AfterCheck \in {"write", "requirements"}
      /\ AfterCheck = "requirements" => command = "verify"
      /\ schema \in {1, 2} /\ (command = "verify" => schema = 2)
      /\ StagesOfCheck("error", base) \subseteq StageNames \ {"policy"}
      /\ schema = 1 => StagesOfCheck("error", base) = {}
      /\ "provenance" \notin StagesOfCheck("error", base)
  BY <1>2 DEF AfterCheck, Optional, Schemas, StagesOfCheck, StageNames
<1>4. report' \in Reports
  BY <1>1, <1>2, <1>3, EmptyIsGood DEF Reports
<1>5. /\ report'.items = {} /\ report'.generated = {} /\ report'.score = Null
      /\ report'.decision = "not_evaluated" /\ report'.status = "error"
      /\ report'.schema = schema /\ report'.complete = StagesOfCheck("error", base)
  BY <1>1, <1>2 DEF EmptyReport
<1>6. Good(report')
  BY <1>3, <1>5, Undecided DEF Green, Cited, Staged
<1>7. Progress'
  BY <1>2, <1>3, <1>5 DEF Step, Progress, Optional
<1> QED
  BY <1>2, <1>3, <1>4, <1>6, <1>7, StepFrame

\* run_check with a result: the failing tests, the coverage and the findings.
LEMMA CheckReportsInv == IInv /\ CheckReports => IInv'
<1> SUFFICES ASSUME IInv, CheckReports PROVE IInv'
  OBVIOUS
<1>1. PICK status \in {"complete", "incomplete"}, base \in MergeBases, schema \in Schemas,
           failing, removed \in BOOLEAN, coverage \in Ratios \cup {Null},
           findings \in SUBSET FindingIds :
        report' = [report EXCEPT !.schema = schema, !.status = status, !.base = base,
          !.failing = failing, !.removed = removed,
          !.coverage = coverage, !.findings = findings,
          !.complete = StagesOfCheck(status, base)]
  BY DEF CheckReports
<1>2. Step("check", AfterCheck) /\ pc = "check" /\ report = EmptyReport
      /\ command \in {"check", "verify"} /\ raised = "none"
  BY DEF CheckReports, Step, IInv, Progress
<1>3. /\ AfterCheck \in {"write"} \cup Optional /\ AfterCheck \in {"write", "requirements"}
      /\ AfterCheck = "requirements" => command = "verify"
      /\ schema \in {1, 2} /\ (command = "verify" => schema = 2)
      /\ StagesOfCheck(status, base) \subseteq StageNames \ {"policy"}
      /\ schema = 1 => StagesOfCheck(status, base) = {}
      /\ "provenance" \in StagesOfCheck(status, base) => status = "complete"
  BY <1>2 DEF AfterCheck, Optional, Schemas, StagesOfCheck, StageNames
<1>4. report' \in Reports
  <2>1. StagesOfCheck(status, base) \in SUBSET StageNames /\ report \in Reports
    BY <1>2, <1>3, EmptyIsGood
  <2>2. [report EXCEPT !.schema = schema, !.status = status, !.base = base] \in Reports
    BY <1>3, <2>1 DEF Reports
  <2>3. \A r \in Reports :
          [r EXCEPT !.failing = failing, !.removed = removed, !.coverage = coverage,
                    !.findings = findings, !.complete = StagesOfCheck(status, base)] \in Reports
    BY <2>1 DEF Reports
  <2>4. report' = [[report EXCEPT !.schema = schema, !.status = status, !.base = base]
                    EXCEPT !.failing = failing, !.removed = removed, !.coverage = coverage,
                           !.findings = findings, !.complete = StagesOfCheck(status, base)]
    BY <1>1, <2>1 DEF Reports
  <2> QED
    BY <2>2, <2>3, <2>4
<1>5. /\ report'.items = {} /\ report'.generated = {} /\ report'.score = Null
      /\ report'.decision = "not_evaluated" /\ report'.base \in MergeBases
      /\ report'.status = status
      /\ report'.schema = schema /\ report'.complete = StagesOfCheck(status, base)
  BY <1>1, <1>2 DEF EmptyReport
<1>6. Good(report')
  BY <1>3, <1>5, Undecided DEF Green, Cited, Staged
<1>7. Progress'
  BY <1>2, <1>3, <1>5, VerifyAssumption DEF Step, Progress, Optional
<1> QED
  BY <1>2, <1>3, <1>4, <1>6, <1>7, StepFrame

\* The requirements of a verify run cite its merge base, also when they come
\* from a file.
LEMMA RequirementsCite ==
  ASSUME IInv, pc = "requirements", NEW enabled \in BOOLEAN, NEW useFile \in BOOLEAN,
         NEW result \in IF useFile THEN {Loaded(report.base)} ELSE Extracted(enabled, report.base)
  PROVE  /\ result.items \subseteq Item
         /\ report.status # "error" => \A i \in result.items : i.base = report.base
<1>1. /\ report.base = NoBase => report.status = "error"
      /\ file = Nothing \/ file[1].items \subseteq Item
  BY DEF IInv, Typed, Progress, Reports
<1>2. CASE useFile
  BY <1>1, <1>2 DEF Loaded
<1>3. CASE ~useFile
  <2>1. \/ result.items = {}
        \/ \E items \in SUBSET {i \in Item : i.base = report.base} : result.items = items
    BY <1>3 DEF Extracted, Answer
  <2> QED
    BY <2>1
<1> QED
  BY <1>2, <1>3

\* The requirements stage of verify.
LEMMA RequirementsInv ==
  ASSUME IInv, NEW enabled \in BOOLEAN, NEW useFile \in BOOLEAN, Requirements(enabled, useFile)
  PROVE  IInv'
<1>1. PICK result \in IF useFile THEN {Loaded(report.base)} ELSE Extracted(enabled, report.base) :
        report' = [report EXCEPT !.items = result.items, !.fromFile = useFile,
                                 !.complete = With("requirements", result.status = "complete")]
  BY DEF Requirements
<1>2. /\ Step("requirements", "generation") /\ pc = "requirements" /\ pc' = "generation"
      /\ raised' = raised /\ command' = command
  BY DEF Requirements, Step
<1>3. /\ report \in Reports /\ command = "verify" /\ report.schema = 2 /\ raised = "none"
      /\ report.decision = "not_evaluated" /\ "policy" \notin report.complete
      /\ report.generated = {} /\ report.score = Null /\ Staged(report)
  BY <1>2 DEF IInv, Typed, Progress, Optional, Good
<1>4. /\ With("requirements", result.status = "complete") \subseteq StageNames
      /\ "policy" \notin With("requirements", result.status = "complete")
      /\ "provenance" \in With("requirements", result.status = "complete")
           => "provenance" \in report.complete
  BY <1>3 DEF With, Reports, StageNames
<1>5. /\ result.items \subseteq Item
      /\ report.status # "error" => \A i \in result.items : i.base = report.base
  BY <1>2, RequirementsCite
<1>6. report' \in Reports
  BY <1>1, <1>3, <1>4, <1>5 DEF Reports
<1>7. /\ report'.items = result.items /\ report'.generated = {} /\ report'.score = Null
      /\ report'.decision = "not_evaluated" /\ report'.schema = 2
      /\ report'.base = report.base /\ report'.status = report.status
      /\ "policy" \notin report'.complete /\ Staged(report')
  BY <1>1, <1>3, <1>4 DEF Reports, Staged
<1>8. Good(report')
  BY <1>5, <1>7, Undecided DEF Green, Cited, Staged
<1>9. Progress'
  BY <1>2, <1>3, <1>7 DEF Progress, Optional
<1> QED
  BY <1>2, <1>6, <1>8, <1>9, StepFrame DEF Optional

\* What no optional stage after the requirements changes, before the policy.
Continues ==
  /\ report' \in Reports
  /\ report'.items = report.items /\ report'.base = report.base
  /\ report'.status = report.status /\ report'.failing = report.failing
  /\ report'.decision = "not_evaluated" /\ report'.schema = 2
  /\ "policy" \notin report'.complete /\ Staged(report')

\* The generation stage: no score exists yet.
LEMMA GenerationInv ==
  ASSUME IInv, NEW enabled \in BOOLEAN, Generation(enabled)
  PROVE  IInv'
<1>1. /\ Step("generation", "mutation") /\ pc = "generation" /\ pc' = "mutation"
      /\ raised' = raised /\ command' = command
  BY DEF Generation, Step
<1>2. /\ report \in Reports /\ command = "verify" /\ report.schema = 2 /\ raised = "none"
      /\ report.decision = "not_evaluated" /\ "policy" \notin report.complete
      /\ report.score = Null /\ Cited(report) /\ Staged(report)
  BY <1>1 DEF IInv, Typed, Progress, Optional, Good
<1>3. /\ With("generation", TRUE) \subseteq StageNames /\ "policy" \notin With("generation", TRUE)
      /\ "provenance" \in With("generation", TRUE) => "provenance" \in report.complete
  BY <1>2 DEF With, Reports, StageNames
<1>4. \/ report' = report
      \/ \E o \in SUBSET {"passed", "failed", "other"} :
           report' = [report EXCEPT !.generated = o, !.complete = With("generation", TRUE)]
  BY DEF Generation
<1>5. Continues /\ report'.score = Null
  <2>1. CASE report' = report
    BY <1>2, <2>1 DEF Continues
  <2>2. ASSUME NEW o \in SUBSET {"passed", "failed", "other"}, NEW stages \in SUBSET StageNames,
               "policy" \notin stages, "provenance" \in stages => "provenance" \in report.complete,
               report' = [report EXCEPT !.generated = o, !.complete = stages]
        PROVE  Continues /\ report'.score = Null
    <3>1. report'.schema = 2 /\ report'.complete = stages /\ report'.status = report.status
      BY <1>2, <2>2 DEF Reports
    <3>2. Staged(report')
      BY <1>2, <2>2, <3>1 DEF Staged
    <3> QED
      BY <1>2, <2>2, <3>2 DEF Continues, Reports
  <2> QED
    BY <1>3, <1>4, <2>1, <2>2
<1>6. Good(report')
  BY <1>2, <1>5, Undecided DEF Continues, Green, Cited, Staged
<1>7. Progress'
  BY <1>1, <1>2, <1>5 DEF Continues, Progress, Optional
<1> QED
  BY <1>1, <1>5, <1>6, <1>7, StepFrame DEF Continues, Optional

\* The mutation stage: a score only on a green baseline.
LEMMA MutateInv ==
  ASSUME IInv, NEW enabled \in BOOLEAN, Mutate(enabled)
  PROVE  IInv'
<1>1. /\ Step("mutation", "behavior") /\ pc = "mutation" /\ pc' = "behavior"
      /\ raised' = raised /\ command' = command
  BY DEF Mutate, Step
<1>2. /\ report \in Reports /\ command = "verify" /\ report.schema = 2 /\ raised = "none"
      /\ report.decision = "not_evaluated" /\ "policy" \notin report.complete
      /\ Cited(report) /\ Green(report) /\ Staged(report)
  BY <1>1 DEF IInv, Typed, Progress, Optional, Good
<1>3. /\ With("mutation", TRUE) \subseteq StageNames /\ "policy" \notin With("mutation", TRUE)
      /\ "provenance" \in With("mutation", TRUE) => "provenance" \in report.complete
  BY <1>2 DEF With, Reports, StageNames
<1>4. \/ report' = report
      \/ /\ report.status # "error" /\ ~report.failing /\ "failed" \notin report.generated
         /\ \E score \in Ratios \cup {Null} :
              report' = [report EXCEPT !.score = score, !.complete = With("mutation", TRUE)]
  BY DEF Mutate, BaselineFailed
<1>5. Continues /\ Green(report')
  <2>1. CASE report' = report
    BY <1>2, <2>1 DEF Continues
  <2>2. ASSUME NEW score \in Ratios \cup {Null}, NEW stages \in SUBSET StageNames,
               "policy" \notin stages, "provenance" \in stages => "provenance" \in report.complete,
               report.status # "error", ~report.failing, "failed" \notin report.generated,
               report' = [report EXCEPT !.score = score, !.complete = stages]
        PROVE  Continues /\ Green(report')
    <3>1. report'.schema = 2 /\ report'.complete = stages /\ report'.status = report.status
      BY <1>2, <2>2 DEF Reports
    <3>2. Staged(report')
      BY <1>2, <2>2, <3>1 DEF Staged
    <3> QED
      BY <1>2, <2>2, <3>2 DEF Continues, Green, Reports
  <2> QED
    BY <1>3, <1>4, <2>1, <2>2
<1>6. Good(report')
  BY <1>2, <1>5, Undecided DEF Continues, Cited, Staged
<1>7. Progress'
  BY <1>1, <1>2, <1>5 DEF Continues, Progress, Optional
<1> QED
  BY <1>1, <1>5, <1>6, <1>7, StepFrame DEF Continues, Optional

\* The behavior stage disturbs neither the score nor the citations.
LEMMA CompareInv ==
  ASSUME IInv, NEW enabled \in BOOLEAN, Compare(enabled)
  PROVE  IInv'
<1>1. /\ Step("behavior", "policy") /\ pc = "behavior" /\ pc' = "policy"
      /\ raised' = raised /\ command' = command
  BY DEF Compare, Step
<1>2. /\ report \in Reports /\ command = "verify" /\ report.schema = 2 /\ raised = "none"
      /\ report.decision = "not_evaluated" /\ "policy" \notin report.complete
      /\ Cited(report) /\ Green(report) /\ Staged(report)
  BY <1>1 DEF IInv, Typed, Progress, Optional, Good
<1>3. \A complete \in BOOLEAN : With("behavior", complete) \subseteq StageNames
                                /\ "policy" \notin With("behavior", complete)
                                /\ ("provenance" \in With("behavior", complete)
                                      => "provenance" \in report.complete)
  BY <1>2 DEF With, Reports, StageNames
<1>4. \/ report' = report
      \/ \E regression, complete \in BOOLEAN :
           report' = [report EXCEPT !.regression = regression,
                                    !.complete = With("behavior", complete)]
  <2>1. {FALSE, report.items # {}} \subseteq BOOLEAN
    OBVIOUS
  <2> QED
    BY <2>1 DEF Compare
<1>5. Continues /\ Green(report')
  <2>1. CASE report' = report
    BY <1>2, <2>1 DEF Continues
  <2>2. ASSUME NEW regression \in BOOLEAN, NEW stages \in SUBSET StageNames,
               "policy" \notin stages, "provenance" \in stages => "provenance" \in report.complete,
               report' = [report EXCEPT !.regression = regression, !.complete = stages]
        PROVE  Continues /\ Green(report')
    <3>1. report'.schema = 2 /\ report'.complete = stages /\ report'.status = report.status
      BY <1>2, <2>2 DEF Reports
    <3>2. Staged(report')
      BY <1>2, <2>2, <3>1 DEF Staged
    <3> QED
      BY <1>2, <2>2, <3>2 DEF Continues, Green, Reports
  <2> QED
    BY <1>3, <1>4, <2>1, <2>2
<1>6. Good(report')
  BY <1>2, <1>5, Undecided DEF Continues, Cited, Staged
<1>7. Progress'
  BY <1>1, <1>2, <1>5 DEF Continues, Progress, Optional
<1> QED
  BY <1>1, <1>5, <1>6, <1>7, StepFrame DEF Continues, Optional

\* The decision, made while the policy stage is not complete yet.
LEMMA DecideInv ==
  ASSUME IInv, NEW c \in Policies, Decide(c)
  PROVE  IInv'
<1> DEFINE decision == EvaluatePolicy(report, c)
           decided  == [report EXCEPT !.policy = c]
<1>1. /\ Step("policy", "write") /\ pc = "policy" /\ pc' = "write" /\ raised' = raised
      /\ report' = [report EXCEPT !.decision = decision, !.policy = c,
                                  !.complete = With("policy", TRUE)]
  BY DEF Decide, Step
<1>2. /\ report \in Reports /\ report.schema = 2 /\ raised = "none"
      /\ Cited(report) /\ Green(report) /\ Staged(report)
  BY <1>1 DEF IInv, Typed, Progress, Optional, Good
<1>3. decision \in Decisions /\ (decision = "pass" => Earned(decided))
  BY <1>2, PassMeans
<1> HIDE DEF decision
<1>4. With("policy", TRUE) = report.complete \cup {"policy"} /\ report.complete \subseteq StageNames
  BY <1>2 DEF With, Reports
<1>5. report' \in Reports
  BY <1>1, <1>2, <1>3, <1>4 DEF Reports, StageNames
<1>6. /\ report'.items = report.items /\ report'.base = report.base /\ report'.schema = 2
      /\ report'.status = report.status /\ report'.failing = report.failing
      /\ SameEvidence(report', report) /\ report'.policy = c /\ report'.decision = decision
      /\ report'.complete = report.complete \cup {"policy"}
  BY <1>1, <1>2, <1>4 DEF Reports, SameEvidence
<1>7. decided.policy = c /\ decided.complete = report.complete /\ SameEvidence(decided, report)
  BY <1>2 DEF Reports, SameEvidence
<1> HIDE DEF decided
<1>8. Agrees(report')
  <2>1. SUFFICES ASSUME "policy" \notin c.requireStages
                 PROVE  decision = EvaluatePolicy(report', c)
    BY <1>6 DEF Agrees
  <2>2. c.requireStages \cap report'.complete = c.requireStages \cap report.complete
    BY <1>6, <2>1
  <2> QED
    BY <1>6, <2>2, PolicyFrame DEF decision
<1>9. report'.decision = "pass" => Earned(report')
  <2>1. SameEvidence(report', decided)
    BY <1>6, <1>7 DEF SameEvidence
  <2>2. decided.complete \subseteq report'.complete
    BY <1>6, <1>7
  <2> QED
    BY <1>3, <1>6, <1>7, <2>1, <2>2, EarnedFrame
<1>10. Good(report')
  <2>1. Green(report') /\ Cited(report') /\ Staged(report')
    BY <1>2, <1>6 DEF Green, Cited, Staged, SameEvidence
  <2> QED
    BY <1>8, <1>9, <2>1 DEF Good
<1>11. Progress'
  BY <1>1, <1>2 DEF Progress, Optional
<1> QED
  BY <1>1, <1>5, <1>10, <1>11, StepFrame

\* Extraction without verification: citations are those of the resolved base.
LEMMA ExtractInv == IInv /\ Extract => IInv'
<1> SUFFICES ASSUME IInv, Extract PROVE IInv'
  OBVIOUS
<1>1. Step("extract", "write") /\ pc = "extract" /\ pc' = "write" /\ raised' = raised
  BY DEF Extract, Step
<1>2. report = EmptyReport /\ raised = "none"
  BY <1>1 DEF IInv, Progress
<1>3. PICK base \in MergeBases : \E result \in Extracted(TRUE, base) :
        report' = [report EXCEPT !.base = base, !.items = result.items,
          !.status = IF result.status \in {"complete", "skipped"}
                     THEN "complete" ELSE "incomplete",
          !.complete = {"preflight", "git"} \cup
                         IF result.status = "complete" THEN {"requirements"} ELSE {}]
  BY DEF Extract
<1>4. PICK result \in Extracted(TRUE, base) :
        report' = [report EXCEPT !.base = base, !.items = result.items,
          !.status = IF result.status \in {"complete", "skipped"}
                     THEN "complete" ELSE "incomplete",
          !.complete = {"preflight", "git"} \cup
                         IF result.status = "complete" THEN {"requirements"} ELSE {}]
  BY <1>3
<1>5. result.items \subseteq Item /\ \A i \in result.items : i.base = base
  <2>1. \/ result.items = {}
        \/ \E items \in SUBSET {i \in Item : i.base = base} : result.items = items
    BY VerifyAssumption DEF Extracted, Answer
  <2> QED
    BY <2>1
<1>6. \E status \in {"complete", "incomplete"}, stages \in SUBSET (StageNames \ {"policy"}) :
        report' = [report EXCEPT !.base = base, !.items = result.items,
                                 !.status = status, !.complete = stages]
  <2>1. (IF result.status \in {"complete", "skipped"} THEN "complete" ELSE "incomplete")
          \in {"complete", "incomplete"}
    OBVIOUS
  <2>2. {"preflight", "git"} \cup (IF result.status = "complete" THEN {"requirements"} ELSE {})
          \in SUBSET (StageNames \ {"policy"})
    BY DEF StageNames
  <2> QED
    BY <1>4, <2>1, <2>2
<1>7. PICK status \in {"complete", "incomplete"}, stages \in SUBSET (StageNames \ {"policy"}) :
        report' = [report EXCEPT !.base = base, !.items = result.items,
                                 !.status = status, !.complete = stages]
  BY <1>6
<1>8. report' \in Reports
  BY <1>2, <1>5, <1>7, EmptyIsGood DEF Reports
<1>9. /\ report'.items = result.items /\ report'.base = base /\ report'.score = Null
      /\ report'.decision = "not_evaluated" /\ report'.schema = 2
      /\ "policy" \notin report'.complete /\ "provenance" \notin report'.complete
  BY <1>2, <1>4, <1>7 DEF EmptyReport
<1>10. Good(report')
  BY <1>5, <1>9, Undecided DEF Green, Cited, Staged
<1>11. Progress'
  BY <1>1, <1>2 DEF Progress, Optional
<1> QED
  BY <1>1, <1>8, <1>10, <1>11, StepFrame

\* A command starts from an empty report and the files that are there.
LEMMA StartInv ==
  ASSUME IInv, NEW name, NEW first, Start(name, first), UNCHANGED report,
         \/ name = "requirements" /\ first = "extract"
         \/ name \in {"check", "verify"} /\ first = "check"
  PROVE  IInv'
<1>1. Typed'
  BY DEF IInv, Typed, Start, Optional
<1>2. Progress'
  BY DEF IInv, Progress, Start, Optional
<1>3. Good(report')
  BY DEF IInv
<1>4. (\A r \in Saved : Good(r))'
  BY DEF IInv, Start, Saved
<1>5. ExitMeaning'
  BY DEF Start, ExitMeaning
<1> QED
  BY <1>1, <1>2, <1>3, <1>4, <1>5 DEF IInv

\* policy decides about the saved report.
LEMMA StartPolicyInv ==
  ASSUME IInv, NEW c \in Policies, StartPolicy(c)
  PROVE  IInv'
<1> DEFINE decision == EvaluatePolicy(Rebuilt, c)
           decided  == [Rebuilt EXCEPT !.policy = c]
<1>1. Rebuilt \in Reports /\ Green(Rebuilt) /\ Staged(Rebuilt) /\ Rebuilt.items = {}
  <2>1. PICK r \in Reports : saved = <<r>>
    BY DEF IInv, Typed, StartPolicy
  <2>2. saved[1] = r /\ Rebuilt = [r EXCEPT !.items = {}] /\ Green(r) /\ Staged(r)
    BY <2>1 DEF IInv, Saved, Nothing, Rebuilt, Good
  <2> QED
    BY <2>1, <2>2 DEF Green, Staged, Reports
<1>2. report' = [Rebuilt EXCEPT !.decision = decision, !.policy = c] /\ Start("policy", "write")
  BY DEF StartPolicy
<1>3. decision \in Decisions /\ (decision = "pass" => Earned(decided))
  BY <1>1, PassMeans
<1> HIDE DEF decision
<1>4. report' \in Reports
  BY <1>1, <1>2, <1>3 DEF Reports
<1>5. /\ report'.items = {} /\ report'.schema = Rebuilt.schema
      /\ report'.status = Rebuilt.status /\ report'.failing = Rebuilt.failing
      /\ SameEvidence(report', Rebuilt) /\ report'.policy = c /\ report'.decision = decision
      /\ report'.complete = Rebuilt.complete
  BY <1>1, <1>2 DEF Reports, SameEvidence
<1>6. decided.policy = c /\ decided.complete = Rebuilt.complete /\ SameEvidence(decided, Rebuilt)
  BY <1>1 DEF Reports, SameEvidence
<1> HIDE DEF decided
<1>7. Agrees(report')
  BY <1>5, PolicyFrame DEF Agrees, decision
<1>8. report'.decision = "pass" => Earned(report')
  <2>1. SameEvidence(report', decided) /\ decided.complete \subseteq report'.complete
    BY <1>5, <1>6 DEF SameEvidence
  <2> QED
    BY <1>3, <1>5, <1>6, <2>1, EarnedFrame
<1>9. Good(report')
  <2>1. Green(report') /\ Cited(report') /\ Staged(report')
    BY <1>1, <1>5 DEF Green, Cited, Staged, SameEvidence
  <2> QED
    BY <1>7, <1>8, <2>1 DEF Good
<1>10. Typed'
  BY <1>2, <1>4 DEF IInv, Typed, Start
<1>11. Progress'
  BY <1>2 DEF Progress, Start, Optional
<1>12. (\A r \in Saved : Good(r))'
  BY <1>2 DEF IInv, Start, Saved
<1>13. ExitMeaning'
  BY <1>2 DEF Start, ExitMeaning
<1> QED
  BY <1>9, <1>10, <1>11, <1>12, <1>13 DEF IInv

\* A command that ends leaves nothing of its report but what it wrote.
LEMMA EndFrame ==
  ASSUME IInv, pc' = "idle", report' = EmptyReport, command' = command,
         exit' \in {0, 1, 2, 3}, enforce' \in BOOLEAN,
         raised' \in {"none", "check", "requirements", "generation", "mutation",
                      "extract", "write"},
         file' = Nothing \/ \E r \in Reports : file' = <<r>>,
         saved' = Nothing \/ \E r \in Reports : saved' = <<r>>,
         (\A r \in Saved : Good(r))', ExitMeaning'
  PROVE  IInv'
<1>1. Typed'
  BY EmptyIsGood DEF IInv, Typed
<1>2. Progress'
  BY DEF Progress, Optional
<1> QED
  BY <1>1, <1>2, EmptyIsGood DEF IInv

\* An exception leaves the files as they are.
LEMMA RaiseInv ==
  ASSUME IInv,
         NEW at \in {"check", "requirements", "generation", "mutation", "extract", "write"},
         Raise(at)
  PROVE  IInv'
<1>1. /\ pc' = "idle" /\ report' = EmptyReport /\ exit' \in {1, 2} /\ raised' = at
      /\ command' = command /\ file' = file /\ saved' = saved /\ enforce' = enforce
  BY DEF Raise, Exit, disk
<1>2. (\A r \in Saved : Good(r))'
  BY <1>1 DEF IInv, Saved
<1>3. ExitMeaning'
  BY <1>1 DEF ExitMeaning
<1>4. (file = Nothing \/ \E r \in Reports : file = <<r>>)
      /\ (saved = Nothing \/ \E r \in Reports : saved = <<r>>) /\ enforce \in BOOLEAN
  BY DEF IInv, Typed
<1> QED
  BY <1>1, <1>2, <1>3, <1>4, EndFrame

\* What reaches the file is as good as the report: schema 1 drops the decision,
\* and has no stages that one would have to agree with.
LEMMA JsonIsGood ==
  ASSUME IInv
  PROVE  Json \in Reports /\ Good(Json)
<1>1. report \in Reports /\ Good(report)
  BY DEF IInv, Typed
<1>2. CASE report.schema = 2
  BY <1>1, <1>2 DEF Json
<1>3. CASE report.schema # 2
  <2> DEFINE q == [report EXCEPT !.decision = "not_evaluated"]
  <2>1. Json = q
    BY <1>3 DEF Json
  <2>2. q \in Reports
    BY <1>1 DEF Reports, Decisions
  <2>3. /\ q.decision = "not_evaluated" /\ q.complete = {} /\ q.score = report.score
        /\ q.status = report.status /\ q.failing = report.failing
        /\ q.generated = report.generated /\ q.items = report.items /\ q.base = report.base
    BY <1>1, <1>3 DEF Good, Staged, Reports
  <2> HIDE DEF q
  <2>4. Good(q)
    <3>1. Green(q) /\ Cited(q) /\ Staged(q)
      BY <1>1, <2>3 DEF Good, Green, Cited, Staged
    <3> QED
      BY <2>3, <3>1, Undecided
  <2> QED
    BY <2>1, <2>2, <2>4
<1> QED
  BY <1>2, <1>3

\* The files after write_reports has written the JSON file.
LEMMA WriteJsonFiles ==
  ASSUME IInv, WriteJson
  PROVE  /\ file' = Nothing \/ \E r \in Reports : file' = <<r>>
         /\ saved' = Nothing \/ \E r \in Reports : saved' = <<r>>
         /\ (\A r \in Saved : Good(r))'
         /\ command # "requirements" => Saved' = {Json}
<1>1. Json \in Reports /\ Good(Json)
  BY JsonIsGood
<1>2. (file = Nothing \/ \E r \in Reports : file = <<r>>)
      /\ (saved = Nothing \/ \E r \in Reports : saved = <<r>>) /\ \A r \in Saved : Good(r)
  BY DEF IInv, Typed
<1>3. CASE command = "requirements"
  <2>1. file' = <<Json>> /\ saved' = saved
    BY <1>3 DEF WriteJson
  <2>2. Saved' = Saved
    BY <2>1 DEF Saved
  <2> QED
    BY <1>1, <1>2, <1>3, <2>1, <2>2
<1>4. CASE command # "requirements"
  <2>1. file' = file /\ saved' = <<Json>>
    BY <1>4 DEF WriteJson
  <2>2. Saved' = {Json}
    BY <2>1 DEF Saved, Nothing
  <2> QED
    BY <1>1, <1>2, <1>4, <2>1, <2>2
<1> QED
  BY <1>3, <1>4

\* The report is written: the exit status follows from it and from --enforce.
LEMMA WriteInv ==
  ASSUME IInv, NEW enforced \in BOOLEAN, Write(enforced)
  PROVE  IInv'
<1>1. /\ WriteJson /\ enforce' = enforced /\ pc' = "idle" /\ exit' = ExitStatus(enforced)
      /\ report' = EmptyReport /\ command' = command /\ raised' = raised /\ pc = "write"
  BY DEF Write, WriteJson, Exit
<1>2. raised = "none"
  BY <1>1 DEF IInv, Progress
<1>3. ExitStatus(enforced) \in {0, 2, 3}
      /\ (ExitStatus(enforced) = 3 =>
            report.status # "error" /\ enforced /\ report.decision = "block")
      /\ (ExitStatus(enforced) = 0 =>
            report.status # "error" /\ ~(enforced /\ report.decision = "block"))
  BY DEF ExitStatus
<1>4. /\ Json.status = report.status
      /\ Json.decision = report.decision \/ (Json.decision = "not_evaluated" /\ Json.schema = 1)
  BY DEF IInv, Typed, Reports, Json
<1>5. ExitMeaning'
  <2>1. SUFFICES ASSUME command # "requirements" PROVE ExitMeaning'
    BY <1>1 DEF ExitMeaning
  <2>2. Saved' = {Json}
    BY <1>1, <2>1, WriteJsonFiles
  <2> QED
    BY <1>1, <1>2, <1>3, <1>4, <2>2 DEF ExitMeaning
<1> QED
  BY <1>1, <1>2, <1>3, <1>5, WriteJsonFiles, EndFrame

\* Only the JSON file could be written.
LEMMA WriteBreaksInv == IInv /\ WriteBreaks => IInv'
<1> SUFFICES ASSUME IInv, WriteBreaks PROVE IInv'
  OBVIOUS
<1>1. /\ WriteJson /\ enforce' = enforce /\ pc' = "idle" /\ exit' = 1
      /\ report' = EmptyReport /\ command' = command /\ raised' = "write"
  BY DEF WriteBreaks, Exit
<1>2. ExitMeaning'
  BY <1>1 DEF ExitMeaning
<1>3. enforce \in BOOLEAN
  BY DEF IInv, Typed
<1> QED
  BY <1>1, <1>2, <1>3, WriteJsonFiles, EndFrame

\* Every step of every command keeps the invariant.
LEMMA StepInv == IInv /\ [Next]_vars => IInv'
<1> SUFFICES ASSUME IInv, [Next]_vars PROVE IInv'
  OBVIOUS
<1>1. CASE UNCHANGED vars
  BY <1>1 DEF vars, disk, IInv, Typed, Progress, Saved, ExitMeaning
<1>2. CASE Stages
  <2>1. CASE CheckFails \/ CheckReports
    BY <2>1, CheckFailsInv, CheckReportsInv
  <2>2. ASSUME NEW enabled \in BOOLEAN, NEW useFile \in BOOLEAN, Requirements(enabled, useFile)
        PROVE  IInv'
    BY <2>2, RequirementsInv
  <2>3. ASSUME NEW enabled \in BOOLEAN, Generation(enabled) \/ Mutate(enabled) \/ Compare(enabled)
        PROVE  IInv'
    BY <2>3, GenerationInv, MutateInv, CompareInv
  <2>4. ASSUME NEW c \in Policies, Decide(c) PROVE IInv'
    BY <2>4, DecideInv
  <2>5. ASSUME NEW at \in {"check", "requirements", "generation", "mutation", "extract"}, Raise(at)
        PROVE  IInv'
    BY <2>5, RaiseInv
  <2> QED
    BY <1>2, <2>1, <2>2, <2>3, <2>4, <2>5 DEF Stages
<1>3. CASE Commands
  <2>1. CASE StartExtract
    BY <2>1, StartInv DEF StartExtract
  <2>2. CASE StartCheck \/ StartVerify
    BY <2>2, StartInv DEF StartCheck, StartVerify
  <2>3. CASE Extract
    BY <2>3, ExtractInv
  <2>4. ASSUME NEW c \in Policies, StartPolicy(c) PROVE IInv'
    BY <2>4, StartPolicyInv
  <2>5. ASSUME NEW enforced \in BOOLEAN, Write(enforced) PROVE IInv'
    BY <2>5, WriteInv
  <2>6. CASE WriteFails \/ WriteBreaks
    BY <2>6, RaiseInv, WriteBreaksInv DEF WriteFails
  <2> QED
    BY <1>3, <2>1, <2>2, <2>3, <2>4, <2>5, <2>6 DEF Commands
<1> QED
  BY <1>1, <1>2, <1>3 DEF Next

\* The inductive invariant holds in every workflow.
THEOREM Invariant == Spec => []IInv
BY InitInv, StepInv, PTL DEF Spec
-----------------------------------------------------------------------------
(* What the invariant means.                                               *)

\* The state has its types.
THEOREM TypeCorrect == Spec => []TypeOK
<1>1. IInv => TypeOK
  <2> SUFFICES ASSUME IInv PROVE TypeOK
    OBVIOUS
  <2>1. \A r \in Reports : ReportType(r)
    BY DEF Reports, ReportType
  <2>2. Saved \subseteq Reports /\ report \in Reports /\ (file # Nothing => file[1] \in Reports)
    BY DEF IInv, Typed, Saved
  <2>3. command \in DOMAIN Order
    BY DEF IInv, Typed, Order
  <2> QED
    BY <2>1, <2>2, <2>3 DEF IInv, Typed, TypeOK, Optional
<1> QED
  BY <1>1, Invariant, PTL

\* A saved pass was earned, whatever the policy and whichever command decided.
THEOREM PassEarned == Spec => []PassIsEarned
<1>1. IInv => PassIsEarned
  BY DEF IInv, Good, Staged, Earned, Attributed, PassIsEarned
<1> QED
  BY <1>1, Invariant, PTL

\* A mutation score was computed on a green baseline.
THEOREM GreenBaseline == Spec => []ScoreOnGreenBaseline
<1>1. IInv => ScoreOnGreenBaseline
  BY DEF IInv, Good, Green, ScoreOnGreenBaseline
<1> QED
  BY <1>1, Invariant, PTL

\* Generated tests and regressions rest on requirements of their merge base.
THEOREM CitationsMatch == Spec => []EvidenceIsCited
<1>1. IInv => EvidenceIsCited
  BY DEF IInv, Good, Cited, EvidenceIsCited
<1> QED
  BY <1>1, Invariant, PTL

\* The exit status says what the documentation of the commands says it does.
THEOREM ExitsMean == Spec => []ExitMeaning
<1>1. IInv => ExitMeaning
  BY DEF IInv
<1> QED
  BY <1>1, Invariant, PTL

\* The policy command gives the decision of verify again.
THEOREM Reevaluation == Spec => ReevaluationAgrees
<1>1. IInv /\ [Next]_vars =>
        [\A c \in Policies :
           StartPolicy(c) /\ c = saved[1].policy
             /\ "policy" \in saved[1].complete \ c.requireStages
             => report'.decision = saved[1].decision]_vars
  <2> SUFFICES ASSUME IInv, NEW c \in Policies, StartPolicy(c), c = saved[1].policy,
                      "policy" \in saved[1].complete \ c.requireStages
               PROVE  report'.decision = saved[1].decision
    OBVIOUS
  <2>1. saved[1] \in Reports /\ Agrees(saved[1])
    BY DEF IInv, Typed, Saved, StartPolicy, Good
  <2>2. saved[1].decision = EvaluatePolicy(saved[1], c)
    BY <2>1 DEF Agrees
  <2>3. SameEvidence(Rebuilt, saved[1]) /\ Rebuilt.complete = saved[1].complete
        /\ Rebuilt \in Reports
    BY <2>1 DEF Rebuilt, SameEvidence, Reports
  <2>4. EvaluatePolicy(Rebuilt, c) = EvaluatePolicy(saved[1], c)
    BY <2>3, PolicyFrame
  <2>5. report'.decision = EvaluatePolicy(Rebuilt, c)
    BY <2>3 DEF StartPolicy, Reports
  <2> QED
    BY <2>2, <2>4, <2>5
<1> QED
  BY <1>1, Invariant, PTL DEF Spec, ReevaluationAgrees
=============================================================================
