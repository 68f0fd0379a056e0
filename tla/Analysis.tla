------------------------------ MODULE Analysis ------------------------------
(***************************************************************************)
(* The parts of the program that compute something and keep no state, each *)
(* called with any of its inputs: options, diff, outcomes of tests, test   *)
(* changes, mutation sites, compiled tests, and requirements, which a run  *)
(* extracts, or loads from a file, be it one that another extraction left. *)
(*                                                                         *)
(* The inputs are constants, so that the theorems of AnalysisProofs speak  *)
(* of every set of them; MCAnalysis has the ones that are checked.         *)
(***************************************************************************)
EXTENDS DiffLines, PytestSession, Findings, Xdist, AstPositions, CompiledTests, Requirements

CONSTANTS
  Diffs,      \* DiffLines
  Sessions,   \* PytestSession: attempts at one test
  Entries,    \* Findings: changes to a test file
  OptionSets, \* Xdist: where options come from
  SourceTexts,\* AstPositions
  TestCases,  \* CompiledTests: a requirement and a function
  Settings,   \* Requirements: configurations
  Answers,    \* Requirements: what a provider may return
  Files       \* Requirements: files that no run has written

\* Diffs are what git prints, sessions have an attempt, a file that was added had no tests, the
\* bounds of a requirement are integers if it gives them, and functions return integers.
ASSUME AnalysisAssumption ==
  /\ \A diff \in Diffs : IsDiff(diff)
  /\ \A attempts \in Sessions : attempts \in Seq(Attempt) /\ attempts # <<>>
  /\ \A entry \in Entries :
       /\ entry.base.tests \in Seq(Test) /\ entry.head.tests \in Seq(Test)
       /\ entry.status = "added" => entry.base.tests = <<>>
  /\ \A config \in OptionSets :
       /\ config.env \in Seq(Token) /\ config.pyproject \in Seq(Token)
       /\ config.ini \in Seq(Token) /\ config.args \in Seq(Token)
  /\ \A text \in SourceTexts : text \in Seq(Chars)
  /\ \A case \in TestCases :
       /\ case.req.kind \in Kinds
       /\ {case.req.min, case.req.max} \subseteq Int \cup {Absent, NullValue}
       /\ case.req.examples # <<>> => 1 \in DOMAIN case.req.examples
       /\ \A v \in DOMAIN case.fn.result : case.fn.result[v] \in Int \cup {Raises}
  /\ \A config \in Settings : config.tasks \in Seq(STRING) /\ config.sources \in Seq(STRING)

VARIABLES
  step,   \* the last function called, "start" before
  input,  \* its arguments
  output  \* its result

vars == <<step, input, output>>

Init == step = "start" /\ input = <<>> /\ output = <<>>

Fresh == step = "start"
Calls(name, in, out) == step' = name /\ input' = in /\ output' = out
-----------------------------------------------------------------------------
CollectDiff == Fresh /\ \E diff \in Diffs :
  Calls("diff", diff, [added |-> AddedLines(diff), deleted |-> DeletedCounts(diff)])

FinishSession == Fresh /\ \E attempts \in Sessions :
  Calls("session", attempts, OutcomeOf(attempts))

CollectFindings == Fresh /\ \E entry \in Entries :
  Calls("findings", entry, [found |-> Reported(entry), warned |-> Warned(entry)])

RejectXdist == Fresh /\ \E config \in OptionSets :
  Calls("xdist", config, IndicatesXdist(CollectedOptions(config)))

\* list_mutations, and apply of each site to a copy of the tree.
Mutate == Fresh /\ \E text \in SourceTexts :
  Calls("mutate", text, {[site |-> site, text |-> Applied(text, site)] : site \in ListMutations(text)})

CompileAndRun == Fresh /\ \E case \in TestCases : Calls("test", case, CanFail(case.req, case.fn))

\* A shallow clone does not have the commit "unfetched".
Refs == DOMAIN Repo \cup {"unfetched", NoBase}

Extract == Fresh /\ \E ref \in Refs, config \in Settings, answer \in Answers, spent \in BOOLEAN :
  Calls("extract", [ref |-> ref, config |-> config], Extraction(ref, config, spent, answer))

\* A run loads the report of an extraction, perhaps with another merge base or
\* configuration than that had, or a file somebody wrote or changed.
Load ==
  /\ Fresh \/ step = "extract"
  /\ \E ref \in Refs, config \in Settings :
       \E file \in IF Fresh THEN Files ELSE {ReportOf(output.items)} :
         Calls("load", [ref |-> ref, config |-> config, file |-> file], Loaded(ref, config, file))

Finished == step \notin {"start", "extract"} /\ UNCHANGED vars

\* No later run loads what was extracted.
Abandoned == step = "extract" /\ UNCHANGED vars

Next ==
  \/ CollectDiff \/ FinishSession \/ CollectFindings \/ RejectXdist
  \/ Mutate \/ CompileAndRun \/ Extract \/ Load \/ Finished \/ Abandoned

Spec == Init /\ [][Next]_vars
-----------------------------------------------------------------------------
(* Properties.                                                             *)

LinesOf(lines, key) == {p[2] : p \in {q \in lines : q[1] = key}}

\* Every line a pull request adds is known under its number, and every deleted
\* one is counted, in each file that has no peculiar path or content, whatever
\* kinds of lines the other files of the diff contain, and unless a hunk replaces a last line
\* that has no newline (gitops.py:143; the run diff_lines is about that).
AddedLinesAreExact ==
  step = "diff" =>
    \A i \in {k \in DOMAIN input : PlainFile(input[k])} :
      LET key == KeyOf(input[i]) IN
      /\ (\A h \in ToSet(input[i].hunks) : ~ReplacesCut(h)) =>
           LinesOf(output.added, key) = LinesOf(TrulyAdded(input), key)
      /\ output.deleted[key] = TrulyDeleted(input)[key]

\* Every changed line of an ordinary file is found, whether or not the file
\* ended with a newline before.
ChangedLinesAreFound ==
  step = "diff" => (PlainDiff(input) => output.added = TrulyAdded(input))

\* The outcome reported for a test is what pytest says of its last attempt,
\* however often it was rerun, unless that attempt was cut short or the xfail
\* mark has no reason, which pytest_plugin.py:71 takes for no mark.
OutcomeIsTheTests ==
  step = "session" =>
    LET a == Last(input) IN ~a.cut /\ a.mark # "empty" => output = Verdict(a)

\* The test that stands in the head for a test b of the base.
Successors(entry, b) ==
  IF b.name \in NamesIn(entry.head.tests) THEN {LastNamed(entry.head.tests, b.name)}
  ELSE {p[2] : p \in {q \in Matched(entry.base.tests, entry.head.tests).pairs : q[1] = b}}

\* No test that checked something is lost or weakened without a word, as long
\* as the file stays a test file and no mark above the functions skips it: its
\* removal is reported, or something about the test that stands for it is.
LossIsReported ==
  step = "findings" /\ input.isTest /\ ~input.head.above =>
    \/ output.warned
    \/ \A b \in EffectiveTests(input.base, input.wasTest) :
         \/ <<"TEST_REMOVED", b.name>> \in output.found
         \/ \E h \in Successors(input, b) :
              Weaker(b, h) => \E finding \in output.found : finding[2] = h.name

\* A configuration that makes pytest start workers is refused, unless
\* "--dist no" comes before the number of workers, where xdist.py:51 stops
\* looking, or the number stands in another place than its option, since
\* pytest joins the places in another order; one in which everything about
\* workers is off is accepted.
WorkersAreRefused ==
  step = "xdist" =>
    LET tokens == CollectedOptions(input) IN
    /\ StartsWorkers(EffectiveOptions(input)) /\ ValuesInPlace(input) =>
         output \/ HiddenByDist(tokens)
    /\ AsksForNone(tokens) => ~output

\* A mutant changes the very operator or constant it was listed for and
\* nothing else, or it is invalid because a comment holds the operator first,
\* unless a character of several bytes stands before it on its line, as the
\* parser counts bytes and semantic.py:60 characters.
MutantIsItsSite ==
  step = "mutate" =>
    \A m \in output :
      ~WideNear(input, m.site.at) =>
        m.text = IF InCommentFirst(input, m.site) THEN Invalid ELSE Intended(input, m.site)

\* A compiled test that fails for a function accuses it rightly, as a policy with
\* block_on_generated_failures takes it to do, unless the failure comes from the
\* test: from a target it cannot load or that is slower than the deadline, bounds
\* it cannot use, inputs, bounds or examples the requirement does not have, or
\* from asserting of a round trip that it is idempotent.
TestsAreSound ==
  step = "test" /\ output =>
    LET req == input.req  fn == input.fn IN
    \/ ~Meets(req, fn)
    \/ ~fn.loads \/ NeverRuns(req) \/ Strays(req) \/ req.kind = "round_trip"
    \/ \E draw \in Draws(req) : TakesTooLong(req, fn, draw)

\* Whatever requirement an extraction keeps, or a later run accepts from a file
\* of any origin, it cites something, and all it cites are the lines of a
\* configured file at the merge base of that very run; unless the run that loads
\* the file has no merge base (artifact.py:83: then nothing is compared).
RequirementsAreQuoted ==
  step = "extract" \/ (step = "load" /\ input.ref # NoBase) =>
    Quoted(output.items, input.ref, input.config)
=============================================================================
