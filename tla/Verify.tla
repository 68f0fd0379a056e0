------------------------------- MODULE Verify -------------------------------
(***************************************************************************)
(* The commands of VerifyPatch that work on one another's files:           *)
(* "verify --requirements-only", "check", "verify" (with or without        *)
(* --requirements-file) and "policy" (pipeline.py and cli.py).             *)
(*                                                                         *)
(* A workflow is a sequence of commands.  A requirements-only run leaves a *)
(* report whose requirements a later verify run may load; check and verify *)
(* leave a report that policy evaluates and writes back.  The stages are     *)
(* seen from outside, as their modules describe them: which guards they    *)
(* check first, which results they may return, and whether an exception    *)
(* may leave them.  The shared budget may be used up before any stage,     *)
(* which is one more way of being skipped.  An option has whatever value   *)
(* the step that first reads it finds.                                     *)
(***************************************************************************)
EXTENDS Policy, FiniteSets

CONSTANTS
  MergeBases,  \* what the merge base of a command may resolve to
  Ratios,      \* the values of a metric that is not null
  FindingIds,  \* identifiers of findings
  Policies,    \* the policy sections a command may be configured with
  MaxItems     \* bound on the requirements an extraction finds

NoBase == "none"   \* report.resolved_refs is None: merge_base is ""

ASSUME VerifyAssumption ==
  /\ NoBase \notin MergeBases
  /\ Ratios \subseteq Nat
  /\ MaxItems \in Nat
  /\ Policies # {}
  /\ \A c \in Policies :
       /\ c.incomplete \in Decisions
       /\ {c.minCoverage, c.minScore} \subseteq Nat \cup {Null}
       /\ c.blockOn \cup c.reviewOn \subseteq FindingIds
       /\ c.blockDeleted \in BOOLEAN /\ c.blockGenerated \in BOOLEAN
       /\ c.blockRegressions \in BOOLEAN
       /\ c.requireStages \subseteq StageNames

\* An extracted requirement: the commit its citations are about, and whether a
\* test may be generated from it.
Item == [base : MergeBases, executable : BOOLEAN]
Executable(items) == {i \in items : i.executable}

\* The parts of a Report that later steps look at.  complete: the stages whose
\* status is "complete" (not requested, skipped, incomplete and failed stages are
\* not told apart); policy: the section the decision was made with; fromFile:
\* what the requirements stage names as its source.
EmptyReport ==
  [schema |-> 2, status |-> "complete", base |-> NoBase, failing |-> FALSE, coverage |-> Null,
   findings |-> {}, removed |-> FALSE, items |-> {}, fromFile |-> FALSE,
   generated |-> {}, score |-> Null, regression |-> FALSE,
   complete |-> {},
   decision |-> "not_evaluated", policy |-> CHOOSE c \in Policies : TRUE]

Nothing == <<>>    \* no file

VARIABLES
  pc,       \* "idle", or the step of the command that runs
  command,  \* the last command: "none", "requirements", "check",
            \* "verify", "policy"
  report,   \* the report being built
  file,     \* the report of the requirements-only run
  saved,    \* the report of check or verify, which policy writes back
  enforce,  \* --enforce of the last command that wrote a report
  raised,   \* the step an exception of the last command escaped from
  exit      \* exit status of the last command, Null while it runs

disk == <<file, saved, enforce>>
vars == <<pc, command, report, disk, raised, exit>>

Init ==
  /\ pc = "idle" /\ command = "none"
  /\ report = EmptyReport
  /\ file = Nothing /\ saved = Nothing /\ enforce = FALSE
  /\ raised = "none" /\ exit = Null

\* Each command is run at most once, in the order of a workflow, and only one of
\* check and verify: a command after the ones that read what it writes, or one
\* whose report is overwritten unread, would add nothing.
Order == [none |-> 0, requirements |-> 1, check |-> 2, verify |-> 2, policy |-> 3]

Start(name, first) ==
  /\ pc = "idle" /\ Order[command] < Order[name]
  /\ command' = name /\ pc' = first
  /\ enforce' = FALSE /\ raised' = "none" /\ exit' = Null
  /\ UNCHANGED <<file, saved>>

\* A step of the command, from pc = at to pc = next.
Step(at, next) ==
  /\ pc = at /\ pc' = next
  /\ UNCHANGED <<command, disk, raised, exit>>

\* The command ends, and the report under construction with it.
Exit(code) == pc' = "idle" /\ exit' = code /\ report' = EmptyReport

\* An exception leaves the pipeline: main turns a VerifyPatchError into exit
\* status 2, any other one ends the interpreter with a traceback, status 1.
Raise(at) ==
  /\ pc = at
  /\ \E code \in {1, 2} : Exit(code)
  /\ raised' = at
  /\ UNCHANGED <<command, disk>>
-----------------------------------------------------------------------------
(* The stages of run_verify.                                               *)

\* The stages that are complete when the one called name ends.
With(name, isComplete) ==
  IF isComplete THEN report.complete \cup {name} ELSE report.complete

\* check writes schema 1 by default; promoted to 2 its stages are all empty.
Schemas == IF command = "check" THEN {1, 2} ELSE {2}
AfterCheck == IF command = "check" THEN "write" ELSE "requirements"
StagesOfCheck(status, base) ==
  IF command = "check" THEN {}
  ELSE {"preflight"} \cup (IF base = NoBase THEN {} ELSE {"git"})
         \cup (IF status = "complete" THEN {"provenance"} ELSE {})

\* run_check: an error report without refs, an error report with refs (the
\* coverage run failed or timed out), or a result.
CheckFails ==
  /\ Step("check", AfterCheck)
  /\ \E base \in MergeBases \cup {NoBase}, schema \in Schemas :
       report' = [report EXCEPT !.schema = schema, !.status = "error", !.base = base,
                                !.complete = StagesOfCheck("error", base)]

CheckReports ==
  /\ Step("check", AfterCheck)
  /\ \E status \in {"complete", "incomplete"}, base \in MergeBases, schema \in Schemas,
        failing, removed \in BOOLEAN, coverage \in Ratios \cup {Null},
        findings \in SUBSET FindingIds :
       report' = [report EXCEPT !.schema = schema, !.status = status, !.base = base,
         !.failing = failing, !.removed = removed,
         !.coverage = coverage, !.findings = findings,
         !.complete = StagesOfCheck(status, base)]

\* What a provider may answer: nothing but a complete extraction has items,
\* and its items cite the merge base.
Answer(base) ==
  [status : {"skipped", "error", "incomplete"}, items : {{}}]
    \cup [status : {"complete"},
          items : {s \in SUBSET {i \in Item : i.base = base} : Cardinality(s) <= MaxItems}]

\* extract_requirements.  Without a merge base there are no sources, and
\* nothing is asked.
Extracted(requested, base) ==
  IF ~requested THEN {[status |-> "not_requested", items |-> {}]}
  ELSE IF base = NoBase THEN {[status |-> "skipped", items |-> {}]}
  ELSE Answer(base)

\* Mutant: citations are compared only for executable items.
LoadedExecutableOnly(base) ==
  IF file = Nothing THEN [status |-> "error", items |-> {}]
  ELSE IF base # NoBase /\ \E i \in Executable(file[1].items) : i.base # base
       THEN [status |-> "incomplete", items |-> {}]
  ELSE [status |-> "complete", items |-> file[1].items]

\* load_requirements_artifact: one citation that does not match the merge base
\* rejects the whole file; without a merge base nothing is compared.
Loaded(base) ==
  IF file = Nothing THEN [status |-> "error", items |-> {}]
  ELSE IF base # NoBase /\ \E i \in file[1].items : i.base # base
       THEN [status |-> "incomplete", items |-> {}]
  ELSE [status |-> "complete", items |-> file[1].items]

Requirements(enabled, useFile) ==
  /\ Step("requirements", "generation")
  /\ \E result \in IF useFile THEN {Loaded(report.base)} ELSE Extracted(enabled, report.base) :
       report' = [report EXCEPT !.items = result.items, !.fromFile = useFile,
                                !.complete = With("requirements", result.status = "complete")]

\* run_generation: the outcomes the generated tests may have had, at least one
\* of them; or it is not requested, skipped, or ends in an error, without any.
Generation(enabled) ==
  LET runnable == IF enabled THEN Cardinality(Executable(report.items)) ELSE 0
      outcomes == {o \in SUBSET {"passed", "failed", "other"} :
                     o # {} /\ Cardinality(o) <= runnable}
  IN  /\ Step("generation", "mutation")
      /\ \/ UNCHANGED report
         \/ \E o \in outcomes :
              report' = [report EXCEPT !.generated = o, !.complete = With("generation", TRUE)]

\* Mutant: a reproduced failure of a generated test does not stop mutation.
BaselineWithoutGenerated == report.status = "error" \/ report.failing

\* provenance_failed or generated_failed.
BaselineFailed ==
  report.status = "error" \/ report.failing \/ "failed" \in report.generated

\* run_mutation, as Mutation describes it: only a complete stage has a score,
\* unless no mutant counts for it.
Mutate(enabled) ==
  /\ Step("mutation", "behavior")
  /\ \/ UNCHANGED report
     \/ /\ enabled /\ ~BaselineFailed
        /\ \E score \in Ratios \cup {Null} :
             report' = [report EXCEPT !.score = score, !.complete = With("mutation", TRUE)]

\* run_behavior, as Behavior describes it: both worktrees need a commit, and a
\* regression a requirement; a stage that ends in an error keeps its items.
Compare(enabled) ==
  /\ Step("behavior", "policy")
  /\ \/ UNCHANGED report
     \/ /\ enabled /\ report.base # NoBase
        /\ \E regression \in {FALSE, report.items # {}}, complete \in BOOLEAN :
             report' = [report EXCEPT !.regression = regression,
                                      !.complete = With("behavior", complete)]

\* The policy is evaluated while its own stage is still "not_requested".
Decide(c) ==
  /\ Step("policy", "write")
  /\ report' = [report EXCEPT !.decision = EvaluatePolicy(report, c), !.policy = c,
                              !.complete = With("policy", TRUE)]
-----------------------------------------------------------------------------
(* The commands.                                                           *)

StartExtract ==
  /\ Start("requirements", "extract")
  /\ UNCHANGED report

\* run_requirements_only: the refs resolve, and the one stage that runs.
Extract ==
  /\ Step("extract", "write")
  /\ \E base \in MergeBases : \E result \in Extracted(TRUE, base) :
       report' = [report EXCEPT !.base = base, !.items = result.items,
         !.status = IF result.status \in {"complete", "skipped"}
                    THEN "complete" ELSE "incomplete",
         !.complete = {"preflight", "git"} \cup
                        IF result.status = "complete" THEN {"requirements"} ELSE {}]

StartCheck ==
  /\ Start("check", "check")
  /\ UNCHANGED report

StartVerify ==
  /\ Start("verify", "check")
  /\ UNCHANGED report

\* Mutant: the outcomes of generated tests are not read back either.
RebuiltWithoutGenerated ==
  [saved[1] EXCEPT !.items = {}, !.generated = {}]

\* The Report rebuilt from the saved JSON: the requirements and the list of
\* artifacts are not read back.
Rebuilt == [saved[1] EXCEPT !.items = {}]

StartPolicy(c) ==
  /\ saved # Nothing
  /\ Start("policy", "write")
  /\ report' = [Rebuilt EXCEPT !.decision = EvaluatePolicy(Rebuilt, c), !.policy = c]

\* Mutant: the block is looked at before the error.
BlockBeforeError(enforced) ==
  IF enforced /\ report.decision = "block" THEN 3
  ELSE IF report.status = "error" THEN 2 ELSE 0

\* The exit status after the report was written.  Reports of check and of a
\* requirements-only run have no decision.
ExitStatus(enforced) ==
  IF report.status = "error" THEN 2
  ELSE IF enforced /\ report.decision = "block" THEN 3
  ELSE 0

\* to_json_dict: a report of schema 1 has no policy section, so the decision of
\* the policy command is not written.
Json == IF report.schema = 2 THEN report ELSE [report EXCEPT !.decision = "not_evaluated"]

\* write_reports: the JSON file first.
WriteJson ==
  /\ pc = "write"
  /\ IF command = "requirements"
     THEN file' = <<Json>> /\ UNCHANGED saved
     ELSE saved' = <<Json>> /\ UNCHANGED file

Write(enforced) ==
  /\ WriteJson
  /\ enforce' = enforced
  /\ Exit(ExitStatus(enforced))
  /\ UNCHANGED <<command, raised>>

\* The report violates its schema (2) or cannot be written (1).
WriteFails == Raise("write")

\* Only the Markdown file cannot be written.
WriteBreaks ==
  /\ WriteJson
  /\ Exit(1)
  /\ raised' = "write"
  /\ UNCHANGED <<command, enforce>>

Stages ==
  \/ CheckFails \/ CheckReports
  \/ \E enabled \in BOOLEAN :
       \/ \E useFile \in BOOLEAN : Requirements(enabled, useFile)
       \/ Generation(enabled) \/ Mutate(enabled) \/ Compare(enabled)
  \/ \E c \in Policies : Decide(c)
  \/ \E at \in {"check", "requirements", "generation", "mutation", "extract"} : Raise(at)

Commands ==
  \/ StartExtract \/ Extract \/ StartCheck \/ StartVerify
  \/ \E c \in Policies : StartPolicy(c)
  \/ \E enforced \in BOOLEAN : Write(enforced)
  \/ WriteFails \/ WriteBreaks

Next == Commands \/ Stages \/ (pc = "idle" /\ UNCHANGED vars)

Spec == Init /\ [][Next]_vars
-----------------------------------------------------------------------------
ReportType(r) ==
  /\ r.schema \in {1, 2} /\ r.status \in {"complete", "incomplete", "error"}
  /\ r.base \in MergeBases \cup {NoBase}
  /\ {r.failing, r.removed, r.regression, r.fromFile} \subseteq BOOLEAN
  /\ {r.coverage, r.score} \subseteq Ratios \cup {Null}
  /\ r.findings \subseteq FindingIds /\ r.items \subseteq Item
  /\ r.generated \subseteq {"passed", "failed", "other"}
  /\ r.complete \subseteq StageNames
  /\ r.decision \in Decisions /\ r.policy \in Policies

\* The reports on the disk that a verify or policy command wrote.
Saved == IF saved = Nothing THEN {} ELSE {saved[1]}

TypeOK ==
  /\ pc \in {"idle", "check", "requirements", "generation", "mutation", "behavior",
             "policy", "extract", "write"}
  /\ command \in DOMAIN Order
  /\ enforce \in BOOLEAN
  /\ \A r \in {report} \cup Saved : ReportType(r)
  /\ file # Nothing => ReportType(file[1])
  /\ raised \in {"none", "check", "requirements", "generation", "mutation",
                 "extract", "write"}
  /\ exit \in {Null, 0, 1, 2, 3}

\* The exit codes of the README.  3 says that a report with that decision was
\* written under --enforce (unless its schema has no place for a decision); 0
\* that a report without an error was written and no enforced policy blocks; an
\* exception is 1 or 2.
ExitMeaning ==
  pc = "idle" /\ command \in {"check", "verify", "policy"} =>
    LET blocks == \E r \in Saved : r.decision = "block"
        sound  == raised = "none" /\ \E r \in Saved : r.status # "error"
    IN  /\ exit = 3 => sound /\ enforce /\ (blocks \/ \E r \in Saved : r.schema = 1)
        /\ exit = 0 => sound /\ ~(enforce /\ blocks)
        /\ raised # "none" => exit \in {1, 2}

\* A mutation score was computed on a baseline where every test of the
\* repository passed and no generated test failed: the stages before mutation
\* decide that, across the whole pipeline and in every saved report.
ScoreOnGreenBaseline ==
  \A r \in {report} \cup Saved : r.score # Null =>
    r.status # "error" /\ ~r.failing /\ "failed" \notin r.generated

\* Generated tests and regressions rest on requirements that cite the merge
\* base of their own run, also when these came from an earlier command, whose
\* merge base may have been another one.  Error reports are excepted: when
\* run_check fails before the refs are resolved there is no merge base, so
\* load_requirements_artifact compares nothing and a file of any commit is used.
EvidenceIsCited ==
  \A r \in {report} \cup Saved :
    r.status # "error" /\ (r.generated # {} \/ r.regression) =>
      \A i \in r.items : i.base = r.base

\* What the policy of a report asks for is there.
Earned(r) ==
  LET c == r.policy
  IN  /\ c.minCoverage # Null => r.coverage # Null /\ r.coverage >= c.minCoverage
      /\ c.minScore # Null => r.score # Null /\ r.score >= c.minScore
      /\ (c.blockOn \cup c.reviewOn) \cap r.findings = {}
      /\ c.blockDeleted => ~r.removed
      /\ c.blockGenerated => "failed" \notin r.generated
      /\ c.blockRegressions => ~r.regression
      /\ c.incomplete # "pass" => c.requireStages \subseteq r.complete

\* The coverage that met a threshold is not that of an incomplete report.  Only
\* the required stage "provenance" asks for that: without it, or with
\* "incomplete: pass", evaluate_policy compares the metric of an incomplete report
\* like any other, although the manual says that incomplete metrics cannot
\* satisfy a threshold.
Attributed(r) ==
  LET c == r.policy
  IN  c.minCoverage # Null /\ "provenance" \in c.requireStages /\ c.incomplete # "pass"
        => r.status = "complete"

\* A saved "pass" was earned: configured thresholds are met by metrics that are
\* not null, and by the coverage of a complete report when the provenance stage
\* is required; nothing that blocks or needs review was found; and the required
\* stages are complete, unless the configuration says "incomplete: pass".  How many
\* mutants a score rests on is no condition of the code, and of this property
\* neither: Mutation's stage is complete also when its budget ended early.
PassIsEarned == \A r \in Saved : r.decision = "pass" => Earned(r) /\ Attributed(r)

\* Evaluating a saved report again with the same policy gives the decision
\* that verify gave, although it is rebuilt from the JSON file, unless the
\* policy requires the policy stage itself.
ReevaluationAgrees ==
  [][\A c \in Policies :
       StartPolicy(c) /\ c = saved[1].policy
         /\ "policy" \in saved[1].complete \ c.requireStages
         => report'.decision = saved[1].decision]_vars

\* pipeline.py: a failure of an optional stage must not erase the evidence of
\* run_check, so a verify run that got past it ends with a written report.
V1EvidenceSurvives ==
  pc = "idle" /\ command = "verify" => raised \in {"none", "check", "write"}

\* The manual: failed, truncated or timed-out extractions remain incomplete or
\* error evidence, so verify does not call the requirements of a file complete
\* whose extraction was none of complete and skipped.
FailedExtractionStays ==
  \A r \in {report} \cup Saved :
    r.fromFile /\ "requirements" \in r.complete => file[1].status = "complete"
=============================================================================
