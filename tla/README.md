# VerifyPatch in TLA+

VerifyPatch reports which changed lines of a pull request are executed by tests
that the pull request did not touch, and optionally adds evidence of four more
kinds: requirements quoted from the merge base, tests generated from them,
mutation scores, and a comparison of the behavior of merge base and head. These
modules model what it does to processes, files, worktrees, clocks and reports,
check it with TLC on small instances, and prove the most important results
with TLAPS for every instance. Paths below are relative to
`src/src/verifypatch/`.

1. [The system](#1-the-system)
2. [The modules](#2-the-modules)
3. [The runs](#3-the-runs)
4. [Fairness](#4-fairness)
5. [The proofs](#5-the-proofs)
6. [Where the code and its documents disagree](#6-where-the-code-and-its-documents-disagree)
7. [What is left out, and the plan](#7-what-is-left-out-and-the-plan)

## 1. The system

VerifyPatch is a single-threaded Python program. Four commands matter (`cli.py`):
`check` (line provenance only), `verify` (all stages, or with
`--requirements-only` just the extraction), `policy` (evaluates a saved report
again) and `schema` (prints one). They communicate through files: a
requirements-only run leaves a JSON report that a later `verify
--requirements-file` loads, and `policy` rewrites the report that `verify` left.

A `verify` run is a straight line of stages in `pipeline.py`:

    preflight -> run_check -> requirements -> generation -> mutation -> behavior -> policy -> write
                 (provenance)  \------ share one Deadline ------/

What makes it hard is not threads but everything around the line: children that
run the tests of a foreign repository, fork, ignore signals and hang; SIGTERM and
Ctrl-C at any instruction; one wall-clock budget that four stages divide;
exceptions that end a stage, or the whole run; git that fails half-way; and
reports whose parts have to stay consistent through all of it.

| Component | State it keeps | Operations | What makes it correct |
|---|---|---|---|
| Bounded children (`deadlines.py`, `cleanup.py`) | `_PROCESS_GROUPS`, `_TEMP_DIRS`, `_WORKTREES`; the child's process group | `run_bounded`, `terminate_process_group`, `cleanup_registered`, signal and exit handler | a timeout leaves no member of the group alive; a signal loses no group except in a named window; the registries are exact; the program ends |
| Shared deadline (`deadlines.py`) | start time and total | `remaining`, `expired`, `clamp` | the stages overrun the budget by a bounded amount |
| Provenance (`classify.py`, `provenance.py`, `engine.py`) | line evidence, warnings, status | kinds of paths, taint of tests, labels of contexts and lines, status | a line is PR-untouched exactly when an independent test executed it; `complete` leaves nothing uncertain |
| Coverage run and plugin (`coverage_run.py`, `pytest_plugin.py`) | contexts per line, collected nodes, outcome per node | one pytest process under coverage | failures are warned of and make the report incomplete |
| Git operations (`gitops.py`) | the diff | merge base, rename detection, scanner of the diff | the diff names every path whose change matters, and every added line |
| Findings (`heuristics.py`) | none | comparison of test files | no test is lost or weakened without a word |
| Options (`xdist.py`) | none | scan of all options | a run with worker processes is refused |
| Requirements (`requirements/`) | requirements with citations of the merge base | extraction, filtering, loading of a file | only text of the merge base becomes a requirement |
| Generation (`generation/`) | test files, artifact records, outcomes | compile, run, replay | a test's result is a run of its own source, a failure was reproduced, and it means that the requirement is violated |
| Mutation (`mutation/`) | records, counters, scores, copies of the tree | list, select, apply, run partitions, tally | verdicts have evidence, counters and scores follow from records; a mutant is the change it was listed as |
| Behavior (`behavior/`) | two worktrees, comparisons | check out, call targets, classify, remove | regressions are reproduced, nothing is left behind |
| Policy (`policy/`) | a decision | `evaluate_policy` | a pass is earned; reevaluation agrees |
| Pipeline and commands (`pipeline.py`, `cli.py`, `report.py`) | the report, its files, the exit status | the stage order, promotion to schema 2, writing, exit status | statuses mean what the README says, across runs |
| Configuration, the cosmic-ray backend, providers, schemas | none | parsing, network calls, a foreign tool | - |

`PROJECT.json` lists every component with its sources, and under `hazards` every
place of the code that a test would hardly reach, with the property that covers
it or the reason why none does.

## 2. The modules

| Module | Models | State and actions |
|---|---|---|
| `Deadline` | `Deadline` of `deadlines.py` | operators on ticks; `RemainingOr` is the idiom `min(x, deadline.remaining() or x)` |
| `PytestExit` | `classify_pytest_exit` | exit status and timeout to an outcome |
| `BoundedChild` | `run_bounded`, the registry of groups, the handlers | one action per step between which a signal can arrive: Popen, registration, `try`, `communicate`, grace period, SIGKILL, drain, `finally`; `Sigterm` and `Interrupt` at any of them; processes of the repository end, fork, `setsid` and close their output at will |
| `Mutation` | `run_mutation`, `_execute_mutant`, `_tally`, selection and scores | one action per guard of the stage, per early return of the loop body and per outcome of a pytest child; time passes in children, copies and the listing |
| `VerdictLedger` | what the mutation stage promises | open, examine, exclude, give up, publish, abandon, stall |
| `Behavior` | `run_behavior`, worktrees, their registry | one action per step of the set-up, loop and `finally` clause; git commands may fail or never end (`held`); signals as in `BoundedChild`, with a clean-up as one step |
| `Provenance` | `classify_diffs`, taint, labels, status of `run_check` | a base and a head tree; the diff (with renames), the analysis of each file, the class of each line, the status |
| `Generation` | `run_generation`, `_run_one`, files of the compiler | guards, `compile_all` with its write of every file, rewrite, collect, first run, replay |
| `Policy` | `evaluate_policy` | one pure operator |
| `DiffLines` | the two loops of `gitops.py` over the text of a diff | what git prints of a list of hunks, the scanner as a fold over it, and what the hunks say |
| `PytestSession` | `pytest_runtest_logreport`, `_normalize_outcome` | the reports of the phases of each attempt, the record they leave, its outcome, and pytest's own verdict |
| `Findings` | `analyze_test_file`, `_match_tests`, `collect_findings` | tests as counts of what the code counts, pairs, findings, and when a test is weaker |
| `Xdist` | `collect_pytest_addopts`, `_tokens_indicate_xdist` | options from four places, the scan, and what pytest does with them |
| `AstPositions` | positions and spans of `semantic.py` and `ast_backend.py` | source as a sequence of characters, parser columns in bytes, sites, replacement |
| `CompiledTests` | the test `compiler.py` makes of a requirement | what it draws, calls and asserts, which functions fail it; which violate the requirement, and when a test leaves its subject |
| `Requirements` | `firewall.py`, `extract_requirements`, `load_requirements_artifact` | sources, citations, conversion of items, statuses, what is kept and what a run accepts of a file |
| `Analysis` | the calls of those seven | one action per function, with any input; `Load` of what `Extract` left to another run, or of any file |
| `Verify` | `run_verify`, `run_requirements_only`, the four commands, the files between them | a workflow of commands; each stage of a run is one action that returns what the stage's own module says it can |

`Mutation`, `Behavior` and `Generation` extend `Deadline` (and `PytestExit`) and so
share its arithmetic; `Verify` extends `Policy`, `Analysis` the seven modules of
pure functions. `MCMutation`, `MCProvenance`, `MCGeneration`, `MCAnalysis` and
`MCVerify` hold the constants of the runs; `MutationProofs`, `LedgerProofs`, `BoundedChildProofs`,
`BehaviorProofs`, `ProvenanceProofs`, `GenerationProofs`, `AnalysisProofs` and
`VerifyProofs` the theorems.

Abstractions that are easy to get wrong, and how they are made:

- **Time** is a number of ticks since the shared deadline started. Only what can
  take long takes ticks, and a stage starts at any time of the budget, because
  the earlier stages and `run_check` use an unknown part of it. A child that
  times out takes its timeout plus `KillTime` (the grace period), or is held for
  good by a process that left its group, and then no time matters any more.
- **The pytest child** of a stage ends with any exit status within its timeout,
  is killed at it, or makes `run_bounded` raise (its output is not text). The
  statuses are kept as numbers, because which number means what is the point.
- **Signals** are taken where Python takes them, between two steps of the main
  thread. In `BoundedChild` a handler is itself interruptible, SIGTERM restarts the
  clean-up and never resumes the interrupted one. The result proved there, that a
  clean-up that is interrupted by SIGTERM loses nothing, is what allows `Behavior`
  to treat a clean-up as one step.
- **Paths** in `Provenance` are sequences of names; versions of a file are numbers,
  0 if it does not exist. `ran` is what really executed a line, a ghost variable
  the properties compare the report with.
- **Pure functions** are checked against a second definition, of what git, pytest,
  Python or a requirement really say, that is not the code's. Where the two differ,
  the property names the case in a definition of its own (`ReplacesCut`,
  `HiddenByDist`, `WideNear`, `InCommentFirst`, ...) rather than leave it out of
  the inputs.
- **Text** is cut up only as far as the code looks at it: a line of a diff is one of
  five kinds of content, an option's value is off or on, a character is one or two
  bytes wide, a digest is the text it is a digest of.
- **`Verify`** keeps of a report what a later step reads. A stage's status is
  reduced to complete or not, the only distinction the policy makes. Every command
  runs at most once, in the order of a workflow. The enabled stages, the policy
  and `--enforce` are chosen when they are first read, which is any configuration.
  The time budget is one more reason for a stage to be skipped. An exception may
  leave any stage whose call the pipeline does not protect.

Definitions named in comments as `Mutant: ...` are variants of the definition that
follows them, each with one plausible bug. No specification uses them: putting one
in the place of its definition has to make the property listed beside it in
`PROJECT.json` fail, and does.

## 3. The runs

Every `.cfg` is a run; its properties are those listed in it.

**`mutation`** (`MCMutation`, `Mutation.cfg`): five specs of which two share an
identity, one is excluded and one lies off the changed lines; a cap of two; a
budget of two ticks that one mutant overruns; every listing, every subset of
partitions, every exit status. The bounds matter: five specs are needed for the
cap to drop a mutant after deduplication dropped another, three selected
identities for the sort by hash to differ from listing order, and a budget of two
for a mutant to be cut off after another was executed.
`VerdictEvidence` ties a verdict to what the children did: a kill names the first
group that failed (`KillEvidence`), a survivor was tried by every group and one
of them ran tests (`SurvivalEvidence`).
`Accounting` and `ScoresFromRecords` tie counters and scores to the records,
`SelectionRecorded` and `CapIgnoresListingOrder` say which mutants are recorded,
`OverrunBound` and `CutOffIsFinal` what the budget does, `ImplementsLedger` that
the stage refines `VerdictLedger`, including that it ends unless it waits for output
that is held open (section 4).

**`bounded_child`** (`BoundedChild.cfg`): two calls with one descendant each, two
SIGTERMs and two Ctrl-Cs. Two calls show that nothing of the first is left in the
registry when the second starts; two signals of a kind interrupt the clean-up of
the first; one descendant is enough for a group to outlive its leader and for an
output pipe to be held. `TimeoutKillsGroup`, `SurvivorsAreExposed`,
`RegistryExact`, `CallsEnd`. The last has one exception, which
`src/benchmarks.md` names: a process that left its group and holds the pipe.
`SurvivorsAreExposed` names the windows in which a child is not protected: a
signal between `Popen` and the registration, Ctrl-C in the grace period, and
Ctrl-C while the exit handler runs.

**`behavior`** (`Behavior.cfg`): two inputs, of which one is linked to a
requirement, a result that is fine, the timeout, and an answer that is neither (a
worker that prints nothing, which `_run_worker` reads as `{}`), one SIGTERM and one
Ctrl-C at any step, every failure of git, and gits and pipes that never end. Two inputs let the budget run out between them
and an exception come after a finished comparison. `CleanOnReturn`,
`LeftoversAreExposed` (again naming the windows: before the registration, while git
adds, and in the `finally` clause after both trees were unregistered),
`RegressionsReproduced`, `CompleteComparesAll`, `StageEnds`, and `OverrunBound`: the
timeout of the workers is computed once, before the loop, and the bound says what
that costs.

**`provenance`** (`MCProvenance`, `Provenance.cfg`): seven files, among them a
`conftest.py` at the root and one below, a helper beside a test and one at the
root, and every change of up to two files: two, so that something irrelevant may
change beside something that taints. `UntouchedIffIndependent` says that
PR-untouched means what the README says it means, neither more nor less;
`TouchedIsKnown` the same for touched lines. `CompleteIsCertain` looks at what ran
rather than at the labels: in a complete report a line that an independent test did
not execute was executed by collected tests only, and no helper of the root
directory changed.

**`generation`** (`MCGeneration`, `Generation.cfg`): up to three executable
requirements of which the first and the last share a file name, so that
`compile_all` has overwritten the first when it is run; a budget of three ticks
below the stage's timeout of five, so that the budget shortens a test, is spent
between tests, and is spent before the first. `RunsItsOwnSource`,
`OutcomeEvidence`, `CompleteUnlessSpent`, `OverrunBound`, `NoLaterTestStartsLate`,
`StageEnds`.

**`verify`** (`MCVerify`, `Verify.cfg`): a requirements-only run, a `check` or
`verify` run and a `policy` run, in that order, any of them left out and any of
them failing at any point; two merge bases, so that a requirements file may be
about another one; up to two requirements, so that good and bad citations
meet; ratios 0 and 1 and null; three policies that between them use every
condition, and of which one requires provenance. The two merge bases are
interchangeable and are declared symmetric.
`ExitMeaning`, `ScoreOnGreenBaseline`, `EvidenceIsCited`, `PassIsEarned`,
`ReevaluationAgrees`. `PassIsEarned` has two parts: the conditions and required
stages of the policy hold (`Earned`), and if provenance is required, a coverage that
met a threshold comes from a complete attribution (`Attributed`). It is less than
the manual promises (section 6). `EvidenceIsCited` excepts a report of a failed
`run_check`, which knows no merge base.

**`analysis`** (`MCAnalysis`, `Analysis.cfg`): every function over all small inputs
of every kind it tells apart.
Diffs: a file with up to two hunks, or with one beside a second file, of up to two
old and two new lines of every content, with and without a newline at the end, paths
git quotes, files that are new, deleted or renamed, with or without a change
(`AddedLinesAreExact`).
Tests: every attempt, and two attempts of which the first failed
(`OutcomeIsTheTests`); pairs of files with up to two tests that differ in one
respect, under names that stay, change, repeat or vanish (`LossIsReported`).
Options: up to two settings in up to two of the four places they come from, one in
up to three, and an option in one place with its value in another
(`WorkersAreRefused`).
Mutants: chains of two and three operands with `<` and `<=` between them, blanks,
line breaks, comments that hold the operator, as itself or as the `<` of a `<=`, and
a wide character before, between and behind; some do not parse (`MutantIsItsSite`).
Compiled tests: every kind of requirement, about all the inputs a test draws, some
of them or others, with bounds that are given, left out, null or in the wrong order,
and examples that are given, left out or lose their keyword arguments; against every
function on three inputs with five results, one of them an exception, and those
among them that are slow for an input or cannot be loaded. 100 and 1000, the largest
integers drawn, are 1 and 2 (`TestsAreSound`).
Requirements: two merge bases and a head that differ in one line, a file over the
size limit, a limit of two files, unsafe and missing paths; answers with up to two
requirements and up to two citations each, true ones and ones with a wrong commit,
path, range, digest or a number like 1.0; loaded by a run with any merge base, none
included, and configuration, from what was extracted and from files of every form
that no extraction wrote (`RequirementsAreQuoted`).

Five runs end in a counterexample that is a real disagreement between the code and
what its documents say; section 6 describes them: `mutation_budget`,
`provenance_rename`, `verify_file`, `verify_evidence`, `diff_lines`.

The type invariants are theorems (section 5) and are not repeated in the runs.

Deadlock is checked in every run: each specification lets a finished system
stutter explicitly (`Terminated`, `pc = "gone"`, ...), so any other state without a
successor is an error. The largest run is `verify` with about two million
distinct states.

### Bounds

Cut-offs that are not in the code are constants: `NumSpecs`, `MaxRequirements`,
`NumInputs`, `MaxItems`, `NumCalls`, `NumDescendants` and `MaxChanges` bound the
data; `MaxSigterm` and `MaxInterrupt` the signals; `ListTime`, `SetupTime`,
`AddTime`, `CompileTime` and `KillTime` the time of what the code does not limit. They
bound what does end: a wait that does not is `held`, and `OverrunBound` speaks of the
stages that go on.
`MaxMutants`, `MaxFiles`, `MaxLines`, `Budget`, `MutantTimeout`, `StageTimeout`,
`StageLimit`, `LeastTimeout` and `CollectTimeout` are values of the code or of its configuration,
scaled to ticks, files and lines.

## 4. Fairness

Not every wait in the program has a timeout. After a child was killed,
`communicate()` waits until nobody holds its output (`deadlines.py:111`), and a
process that left the group may hold it for ever; `run_git` has no timeout at all
(`gitops.py:31`), neither when a worktree is added or removed nor in the handler of a
signal. The modules have these waits as actions that lead where nothing goes on: `HeldOpen`
in `Mutation` and `Generation`, `Hold` and `HandlerHolds` in `Behavior`. Liveness is
promised up to them: `StageEnds` says that a stage ends or is held for good, and the
ledger of the mutation stage may `Stall` at an item that is being examined.

With that, `Mutation` and `Generation` assume `WF_vars(Next)`: the stage is
straight-line code in one thread, every other wait in it ends, so it keeps taking
steps. Which step it takes is never helped along: a child may time out every time.

`Behavior` assumes `WF_vars(Stage)`: the code keeps running unless it is held; signals
are not promised, though one that comes ends a wait.

`BoundedChild` assumes `WF_vars(Program)`: the main thread keeps running and its
clock keeps ticking, which ends timeouts and grace periods. Nothing is assumed of
the processes of the repository: they need not end, close their output or react to
SIGTERM. The price is the exception in `CallsEnd`.

`Verify`, `Provenance` and `Analysis` have safety properties only and assume nothing.

## 5. The proofs

Theorems hold for all values of the constants that satisfy the module's named
assumption (`MutationAssumption`, `BoundedChildAssumption`, ...), which TLC
evaluates in every run.

**`MutationProofs`.** `TypeCorrect` is inductive by itself.
`VerdictsHaveEvidence` is not: the
evidence of a verdict is collected over many steps. The strengthening `EvidenceInv`
adds that a mutant that was not reached has neither record nor runs (`Unreached`),
that a mutant being set up has none either (`SetupFresh`), and that the partitions
before `part` ran clean and the ones from `part` on were not tried, with `ranTests`
telling whether one of them ran tests (`TriedInOrder`). `CountersMatchRecords`
needs `Unreached` as well: a record is entered once, so the cardinality behind the
counter grows by exactly one. `CutOffFinal` rests on `CutOffInv`: once a mutant
was not run, the budget is spent and nothing is being executed, and time does not
run backwards. `OverrunIsBounded` rests on `OverrunInv`, which bounds the time at
each control point by what can have happened since the clock was last looked at.

**`LedgerProofs`.** The rest about the mutation stage. `StageImplementsLedger` is
the safety part of the refinement: every step enters one allowed verdict in
`VerdictLedger`, ends the stage, or leaves the ledger as it is. It uses all of the
invariants above and `SelectionInv`: what is recorded, in execution or still to do
is the selection, at every program counter. `SelectionIsRecorded` counts them: `Unique` has one spec per
identity (`UniqueMeans`, `IdsCount`), the specs ahead of a spec in the order of the
loop number the specs 0, 1, ... without gaps (`PositionBijection`), so the cap
leaves exactly `MaxMutants` of them. `CapIgnoresOrder` assumes `RankSeparates`,
that two identities never have the same rank: in the code the rank is the SHA-256
of the identity. With it a position is a property of the identity
(`SelectionByIdentity`). `ScoresFollow` needs that the four counters are the sizes
of disjoint sets of records (`DisjointCount`).

**`BoundedChildProofs`.** `TypeCorrect`, `TimeoutKills`, `RegistryIsExact`,
`SurvivorsExposed`, from one inductive invariant `IInv` of five parts: the type; no
process of a call that was not made (`Calling`); the group of a call
that timed out, or was cut without being exposed, is empty (`Past`); the registry is what the
program counter says (`Registered`); and a group that may be alive is either still
to be killed where the main thread is, or is in the registry of a clean-up
(`Tracked`). `GroupStaysEmpty` is the lemma
all of them use: an empty group stays empty, whatever the descendants do, since a
process can join a group only by being forked in it.

**`BehaviorProofs`.** `TypeCorrect`, `ReturnsClean`, `OnlyExposedIsLeft`,
`RegressionsAreReproduced`, `CompleteMeansAllCompared`, and `OverrunIsBounded`. All
but the last follow from one invariant of seven parts, with one lemma per action and one step per part. Three parts follow
the worktrees: what the registries know (`Registries`), what is on the disk
(`Disk`) and what git lists (`Listing`), each at every program counter. They need
each other: that nothing is listed when the stage returns holds because the
`finally` clause removes what is on the disk, which includes what was registered.
`Signals` says where an exception that ends the program can be. `Comparisons` keeps
the runs each classification was made from, and `Statuses` ties the status to their
number. `OverrunIsBounded` has an invariant of its own (`Clock`): at every program
counter, the time is at most the budget and as many timeouts and killings as
workers were started, because the timeout was what was left when the loop began. The number of inputs multiplies the
timeout, so `Multiples` and `CallsBound` do the products apart from the steps.

**`ProvenanceProofs`.** `TypeCorrect` holds always.
`UntouchedExact`, `TouchedSound` and `CompleteSound` hold under `Plain`: git
reports no renames, no path is a suffix of another measured path, and pytest
collects tests only from paths that VerifyPatch takes for tests or helpers. The
last is the repository shape of the project's README; the run `provenance_rename`
shows that the first is needed. The heart is a pair of lemmas about a
single test (`ClearedIsIndependent`, `IndependentIsCleared`): the walk over the
diff finds no reason for taint if and only if nothing in the test's infrastructure
differs between the trees. The rest carries it through the analysis (`Meaning`).

**`GenerationProofs`.** `TypeCorrect`, `RunsOwnSource`, `OutcomesHaveEvidence` and
`CompleteMeans` from one invariant: a test has been run at most twice, and as often
as the program counter says (`Placed`); the file under test holds the source of the
current requirement (`Sourced`), which is what rewriting it before each run
is for, as compiling leaves in a shared file the source of the last requirement;
and the artifacts are those of the tests that were written (`Filed`). `ChildAdds`
says what one child adds to the evidence. `OverrunIsBounded` and `LaterTestsInTime`
rest on `Timed`, the bound on the clock at each step of the loop, which
distinguishes a test that began within the budget, and keeps to what was left of
it, from a first test after a slow compilation, which has the least timeout.

**`VerifyProofs`.** `TypeCorrect`, `PassEarned`, `GreenBaseline`, `CitationsMatch`,
`ExitsMean` and `Reevaluation`, for any policies, thresholds, findings and merge
bases. The invariant says of every report, under construction or saved, that it is
`Good`: score, citations and a pass are what the properties ask for, a report of
schema 1 has no stages and the provenance stage of one of schema 2 is complete only
if its status is (`Staged`), and a decision made with its own stage complete is the one
`evaluate_policy` makes of the report as it stands (`Agrees`). `Progress` says what
stages that did not run yet have left untouched. Two facts about the policy carry
the rest: `PassMeans`, that no condition is lost on the way through the nested
comparisons, and `PolicyFrame`, that the decision does not depend on what the JSON
file loses nor on the completion of a stage the policy does not require.

**`AnalysisProofs`.** `OutcomesAreTheTests`, `LossesAreReported`, `XdistIsRefused`,
`MutantsAreTheirSites`, `AddedLinesExact`, `CompiledTestsAreSound` and
`RequirementsQuoted`, for any set of inputs that satisfies `AnalysisAssumption`. The invariant is only that the output
is the function's value on the input (`Computed`); the work is in the lemmas about
the functions. The record of a test holds the last report of each phase, so with
reruns only the final attempt's reports matter, except for a phase it does not
have. A test of the base is removed, matched by its name, or paired as the only one
left, and in each case the comparison of its counts speaks. Options that start
workers do so wherever the four places are joined, as long as no number stands in
another place than its option (`StartsInScanned`), and a scan that meets one has an
answer, of which the first is yes or a `--dist no` (`StartIsAnswered`). The
positions of code in a source are the ranks 1, 2, ... (`CodeInOrder`); without wide
characters each position of the parser and of the backend leads back to its offset
(`OffsetOfAst`, `OffsetOfLineCol`), so the replaced span is the site's one character
(`SpanOfOne`), and replacing one in a comment leaves the tree as it was
(`CommentIsNoCode`). A loop over the text of a diff is the composition of loops over
its parts (`ScanJoined`), so a file's text can be looked at alone: the lines before
its hunks put the loop into that file or into none (`HeaderAdded`, `HeaderDeleted`),
no piece of a hunk leads into another file (`PieceStaysWithin`), and each hunk of a
plain file adds its new lines and counts its old ones (`HunkAdds`, `HunkDeletes`);
`OnlyItsText` puts the files together. That a diff is what git prints (`IsDiff`) is
needed: two changes of one path would be mixed up, and so would the former path of a
renamed file that is still there. A test that draws only
inputs its requirement is about contradicts it when it fails (`FailureIsViolation`,
one case per kind of requirement), as what a call gives is an integer or the
exception (`CallReturns`). A citation that matches a source is text of the merge base
because a source is (`SourceIsQuoted`), whichever file it was read from.

Every invariant of a passing run is a theorem. Checked by TLC only: liveness and
fairness (`StageEnds`, `CallsEnd`, the liveness part of `ImplementsLedger`), which the
prover does not reach.

Proving corrected one property. `WorkersAreRefused` had no exception for a
number that stands apart from its option; the lemma about joined places failed for
it, and TLC found the counterexample once the inputs had such options (a bare `-n`
in `pytest.ini`, the number in the environment and a word on the command line).

## 6. Where the code and its documents disagree

- `mutation_budget`: a partition of a mutant is started after the combined budget
  is spent, with the whole timeout (`mutation/runner.py:374`): `remaining()` is 0.0,
  which is falsy, so `or timeout` replaces it.
- `provenance_rename`: a renamed `conftest.py` is classified under its new path
  only (`classify.py:88`); the tests of the directory it left stay PR-untouched.
- `verify_file`: the requirements of an extraction that failed are loaded as a
  complete stage (`requirements/artifact.py:40`, `pipeline.py:168`).
- `verify_evidence`: an exception of an optional stage ends `verify` without the
  report that `run_check` earned (`pipeline.py:180`).
- `diff_lines`: a changed last line of a file that had no newline at its end gets
  the number of the line behind it, because the scanner counts git's remark about
  the missing newline (`gitops.py:143`); the line is in no partition.

Met while modelling, kept in the models as the code has it, without a run of its
own:

- Thresholds: the manual says that null or incomplete metrics cannot satisfy a
  threshold (`USER_MANUAL.md:459`). Null ones cannot. Incomplete ones do, both the
  coverage of a report whose status is `incomplete`, unless the policy requires the
  provenance stage, and a mutation score over only the mutants that ran before the
  budget was spent (`policy/evaluate.py:43`).
- `verify` and `policy`: a failed plugin leaves a warning whose text says that
  provenance is incomplete (`coverage_run.py:330`), as `src/README.md:116` does, but `engine.py:261` does not
  count it, and the report says `complete`. `policy` writes a report back without
  its requirements, artifact list and `coverage_overrides` (`cli.py:345`), although
  the manual offers it to reevaluate a saved report (`USER_MANUAL.md:461`); on a
  report of schema 1 it exits with its decision but does not write it.
- Behavior: the worker timeout is computed once, before the loop
  (`behavior/compare.py:94`), so later workers may start after the budget is spent.
- Provenance: `contexts_by_line` matches measured files by suffix, so `m.py` collects
  the contexts of `pkg/m.py` (`coverage_run.py:274`; `EndsWith` is a constant of the
  module).
- Diff: a file whose name has a blank or is not ASCII is printed by git with a tab or
  in quotes, and gets no added lines; an added line that starts with `++ ` ends the
  file for the scanner; `splitlines` cuts at a form feed.
- Outcomes: an xfail mark without a reason is taken for no mark, so its test is
  `skipped` or `passed` rather than `xfailed` or `xpassed` (`pytest_plugin.py:71`); a
  test whose body was interrupted is `passed` (`:96`).
- Options: `--dist no` hides a number of processes behind it (`xdist.py:51`), which
  starts workers all the same; options of the environment are scanned in another
  place than pytest puts them, so a `-n` whose value stands in another place is
  scanned with another value.
- Mutants: columns are bytes for the parser and characters for `offset_at`, so a wide
  character moves the mutation; an operator in a comment between the operands is
  replaced first, and the mutant is invalid; `<` is found in the `<=` of a comment,
  too.
- Compiled tests: `rejects_invalid` can never fail (`compiler.py:213`); `round_trip`
  is compiled like `idempotent` (`:135`); a dotted target fails whatever the function
  does (`:83`); absent bounds are 0 and 100, for the inputs and for the results
  (`:123`), a null bound or a minimum above the maximum fails every function; only
  the first example is called, without its keyword arguments (`:240`); a function that
  is slower than the deadline fails (`:93`); `seed` is called as a statement and has no effect; requirement ids
  that differ in punctuation share a test file, and an earlier artifact record then
  describes a file that was overwritten (`:272`).
- Requirements: a loaded file is not filtered by `minimum_confidence`, and its
  citations are not compared when `run_check` resolved no merge base
  (`artifact.py:83`).

## 7. What is left out, and the plan

Not modelled: provider clients and prompts (network I/O); redaction, Markdown, JSON
schemas and the text of compiled tests (formatting); parsing and validation of the
configuration, whose results are constants of every module; the backend on
cosmic-ray, whose listing and spans come from a foreign tool (`Mutation` takes any
listing, and a mutant that cannot be applied); the search of a syntax tree for marks
and assertions.

Modelled in part: `run_check` without counts and test changes, the coverage run
without its settings, the built-in mutation backend without its sites for
negations and arithmetic, the behavior stage without its manifest and protocol, git
without the parsing of names and statuses.

What would come next, in the order it matters:

1. The worktree's content across stages: the dirty check is made once, before tests
   run in the same tree (`engine.py:170`).
2. How many mutants a score rests on, in `Verify`, for the policy's thresholds
   (`policy/evaluate.py:43`).
3. The manifest and protocol of the behavior stage, and its call targets.
