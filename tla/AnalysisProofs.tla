--------------------------- MODULE AnalysisProofs ---------------------------
(***************************************************************************)
(* Proofs about Analysis for all sets of inputs: outcomes of tests,        *)
(* findings, options, mutation sites, diffs, compiled tests and            *)
(* requirements.                                                           *)
(* Every function is called once with an input of its set, so the          *)
(* invariant says just that, and the work is in the lemmas about the       *)
(* functions.                                                              *)
(***************************************************************************)
EXTENDS Analysis, FiniteSetTheorems, TLAPS

\* What the last function was called with and what it computed.
Computed ==
  /\ step = "diff" =>
       input \in Diffs /\ output = [added |-> AddedLines(input), deleted |-> DeletedCounts(input)]
  /\ step = "session" => input \in Sessions /\ output = OutcomeOf(input)
  /\ step = "findings" =>
       input \in Entries /\ output = [found |-> Reported(input), warned |-> Warned(input)]
  /\ step = "xdist" => input \in OptionSets /\ output = IndicatesXdist(CollectedOptions(input))
  /\ step = "mutate" =>
       /\ input \in SourceTexts
       /\ output = {[site |-> site, text |-> Applied(input, site)] : site \in ListMutations(input)}
  /\ step = "test" => input \in TestCases /\ output = CanFail(input.req, input.fn)
  /\ step = "extract" =>
       /\ input.config \in Settings
       /\ \E answer, spent : output = Extraction(input.ref, input.config, spent, answer)
  /\ step = "load" => output = Loaded(input.ref, input.config, input.file)

\* Every step calls a function with an input of its set.
THEOREM AlwaysComputed == Spec => []Computed
<1>1. Init => Computed
  BY DEF Init, Computed
<1>2. Computed /\ [Next]_vars => Computed'
  <2> SUFFICES ASSUME Computed, [Next]_vars
               PROVE  Computed'
    OBVIOUS
  <2>1. CASE CollectDiff
    BY <2>1 DEF CollectDiff, Calls, Computed
  <2>2. CASE FinishSession
    BY <2>2 DEF FinishSession, Calls, Computed
  <2>3. CASE CollectFindings
    BY <2>3 DEF CollectFindings, Calls, Computed
  <2>4. CASE RejectXdist
    BY <2>4 DEF RejectXdist, Calls, Computed
  <2>5. CASE Mutate
    BY <2>5 DEF Mutate, Calls, Computed
  <2>6. CASE CompileAndRun
    BY <2>6 DEF CompileAndRun, Calls, Computed
  <2>7. CASE Extract
    <3>1. PICK ref \in Refs, config \in Settings, answer \in Answers, spent \in BOOLEAN :
            Calls("extract", [ref |-> ref, config |-> config], Extraction(ref, config, spent, answer))
      BY <2>7 DEF Extract
    <3>2. step' = "extract" /\ input'.ref = ref /\ input'.config = config
          /\ output' = Extraction(ref, config, spent, answer)
      BY <3>1 DEF Calls
    <3> QED BY <3>2 DEF Computed
  <2>8. CASE Load
    <3>1. PICK ref \in Refs, config \in Settings :
            \E file : Calls("load", [ref |-> ref, config |-> config, file |-> file], Loaded(ref, config, file))
      BY <2>8 DEF Load
    <3>2. PICK file :
            Calls("load", [ref |-> ref, config |-> config, file |-> file], Loaded(ref, config, file))
      BY <3>1
    <3>3. /\ step' = "load" /\ input'.ref = ref /\ input'.config = config
          /\ input'.file = file /\ output' = Loaded(ref, config, file)
      BY <3>2 DEF Calls
    <3> QED BY <3>3 DEF Computed
  <2>9. CASE UNCHANGED vars
    BY <2>9 DEF vars, Computed
  <2> QED
    BY <2>1, <2>2, <2>3, <2>4, <2>5, <2>6, <2>7, <2>8, <2>9 DEF Next, Finished, Abandoned
<1> QED BY <1>1, <1>2, PTL DEF Spec
-----------------------------------------------------------------------------
(* Outcomes.                                                               *)

\* The record holds the report of the last attempt for each phase it has.
LEMMA LastReportCounts ==
  ASSUME NEW attempts, attempts \in Seq(Attempt), attempts # <<>>,
         NEW phase \in Phases, phase \in DOMAIN AttemptReports(Last(attempts))
  PROVE  Record(SessionReports(attempts))[phase] =
           AttemptReports(Last(attempts))[phase]
<1> DEFINE n == Len(attempts)
           reports == SessionReports(attempts)
           seen == {i \in DOMAIN reports : phase \in DOMAIN reports[i]}
           last == CHOOSE i \in seen : \A j \in seen : j <= i
<1>1. n \in Nat \ {0} /\ DOMAIN reports = 1..n /\ n \in 1..n
  BY DEF SessionReports
<1>2. reports[n] = AttemptReports(Last(attempts))
  BY <1>1 DEF SessionReports, Last
<1>3. n \in seen /\ \A j \in seen : j <= n
  BY <1>1, <1>2
<1>4. \A i \in seen : i \in 1..n
  BY <1>1
<1>5. last = n
  <2> HIDE DEF seen
  <2>1. last \in seen /\ \A j \in seen : j <= last
    BY <1>3
  <2>2. last <= n /\ n <= last
    BY <2>1, <1>3
  <2> QED BY <2>1, <2>2, <1>1, <1>4
<1>6. Record(reports)[phase] = IF seen = {} THEN NoReport ELSE reports[last][phase]
  BY DEF Record
<1> QED BY <1>6, <1>5, <1>3, <1>2

\* _normalize_outcome of the record of one attempt is the verdict on it.
LEMMA RecordIsVerdict ==
  ASSUME NEW a \in Attempt, a.mark # "empty", NEW rec,
         rec["setup"] = PhaseReport("setup", a.setup, a.mark),
         rec["teardown"] = PhaseReport("teardown", a.teardown, a.mark),
         a.setup = "returns" => rec["call"] = PhaseReport("call", a.call, a.mark)
  PROVE  Normalized(rec) = Verdict(a)
<1>1. /\ a.setup \in Does /\ a.call \in Does /\ a.teardown \in Does
      /\ a.mark \in {"none", "reason"}
  BY DEF Attempt
<1>2. CASE a.setup = "skips"
  <2>1. rec["setup"].outcome = "skipped" /\ ~WasXfail(rec["setup"])
    BY <1>2 DEF PhaseReport, WasXfail
  <2>2. Normalized(rec) = "skipped"
    BY <2>1 DEF Normalized
  <2> QED BY <2>2, <1>2 DEF Verdict
<1>3. CASE a.setup = "raises" /\ a.mark = "none"
  <2>1. rec["setup"].outcome = "failed"
    BY <1>3 DEF PhaseReport, WasXfail
  <2>2. Normalized(rec) = "error"
    BY <2>1 DEF Normalized
  <2> QED BY <2>2, <1>3 DEF Verdict
<1>4. CASE a.setup = "raises" /\ a.mark = "reason"
  <2>1. rec["setup"].outcome = "skipped" /\ WasXfail(rec["setup"])
    BY <1>4 DEF PhaseReport, WasXfail
  <2>2. Normalized(rec) = "xfailed"
    BY <2>1 DEF Normalized
  <2> QED BY <2>2, <1>4 DEF Verdict
<1>5. CASE a.setup = "returns" /\ a.call = "skips"
  <2>1. rec["setup"].outcome = "passed" /\ rec["call"].outcome = "skipped" /\ ~WasXfail(rec["call"])
    BY <1>5 DEF PhaseReport, WasXfail
  <2>2. Normalized(rec) = "skipped"
    BY <2>1 DEF Normalized
  <2> QED BY <2>2, <1>5 DEF Verdict
<1>6. CASE a.setup = "returns" /\ a.call = "raises" /\ a.mark = "none"
  <2>1. rec["setup"].outcome = "passed" /\ rec["call"].outcome = "failed" /\ ~WasXfail(rec["call"])
    BY <1>6 DEF PhaseReport, WasXfail
  <2>2. Normalized(rec) = "failed"
    BY <2>1 DEF Normalized
  <2> QED BY <2>2, <1>6 DEF Verdict
<1>7. CASE a.setup = "returns" /\ a.call = "raises" /\ a.mark = "reason"
  <2>1. rec["setup"].outcome = "passed" /\ rec["call"].outcome = "skipped" /\ WasXfail(rec["call"])
    BY <1>7 DEF PhaseReport, WasXfail
  <2>2. Normalized(rec) = "xfailed"
    BY <2>1 DEF Normalized
  <2> QED BY <2>2, <1>7 DEF Verdict
<1>8. CASE a.setup = "returns" /\ a.call = "returns" /\ a.mark = "reason"
  <2>1. rec["setup"].outcome = "passed" /\ rec["call"].outcome = "passed" /\ WasXfail(rec["call"])
    BY <1>8 DEF PhaseReport, WasXfail
  <2>2. Normalized(rec) = "xpassed"
    BY <2>1 DEF Normalized
  <2> QED BY <2>2, <1>8 DEF Verdict
<1>9. CASE a.setup = "returns" /\ a.call = "returns" /\ a.mark = "none"
  <2>1. /\ rec["setup"].outcome = "passed"
        /\ rec["call"].outcome = "passed" /\ ~WasXfail(rec["call"])
        /\ rec["teardown"].outcome = "failed" <=> a.teardown = "raises"
    BY <1>9 DEF PhaseReport, WasXfail
  <2>2. Normalized(rec) = IF a.teardown = "raises" THEN "error" ELSE "passed"
    BY <2>1 DEF Normalized
  <2> QED BY <2>2, <1>9 DEF Verdict
<1> QED
  BY <1>1, <1>2, <1>3, <1>4, <1>5, <1>6, <1>7, <1>8, <1>9 DEF Does

\* The outcome is the verdict on the last attempt: OutcomeIsTheTests.
LEMMA OutcomeIsVerdict ==
  ASSUME NEW attempts, attempts \in Seq(Attempt), attempts # <<>>,
         ~Last(attempts).cut, Last(attempts).mark # "empty"
  PROVE  OutcomeOf(attempts) = Verdict(Last(attempts))
<1> DEFINE a == Last(attempts)
           rec == Record(SessionReports(attempts))
<1>1. a \in Attempt
  BY DEF Last
<1>2. "setup" \in DOMAIN AttemptReports(a) /\ "teardown" \in DOMAIN AttemptReports(a)
  BY <1>1 DEF AttemptReports, Phases
<1>3. rec["setup"] = PhaseReport("setup", a.setup, a.mark)
  <2>1. AttemptReports(a)["setup"] = PhaseReport("setup", a.setup, a.mark)
    BY <1>2, <1>1 DEF AttemptReports, Attempt
  <2> QED BY <2>1, <1>2, LastReportCounts DEF Phases
<1>4. rec["teardown"] = PhaseReport("teardown", a.teardown, a.mark)
  <2>1. AttemptReports(a)["teardown"] = PhaseReport("teardown", a.teardown, a.mark)
    BY <1>2, <1>1 DEF AttemptReports, Attempt
  <2> QED BY <2>1, <1>2, LastReportCounts DEF Phases
<1>5. a.setup = "returns" =>
        rec["call"] = PhaseReport("call", a.call, a.mark)
  <2> SUFFICES ASSUME a.setup = "returns"
               PROVE  rec["call"] = PhaseReport("call", a.call, a.mark)
    OBVIOUS
  <2>1. "call" \in DOMAIN AttemptReports(a)
    BY DEF AttemptReports, Phases
  <2>2. AttemptReports(a)["call"] = PhaseReport("call", a.call, a.mark)
    BY <2>1, <1>1 DEF AttemptReports, Attempt
  <2> QED BY <2>1, <2>2, LastReportCounts DEF Phases
<1>6. /\ a.setup \in Does /\ a.call \in Does /\ a.teardown \in Does
      /\ a.mark \in {"none", "reason"}
  BY <1>1 DEF Attempt
<1> QED
  BY <1>1, <1>3, <1>4, <1>5, <1>6, RecordIsVerdict DEF OutcomeOf

\* For every session, however often a test was rerun, its outcome is that of
\* its last attempt (pytest_plugin.py).
THEOREM OutcomesAreTheTests == Spec => []OutcomeIsTheTests
<1>1. Computed => OutcomeIsTheTests
  BY OutcomeIsVerdict, AnalysisAssumption DEF Computed, OutcomeIsTheTests
<1> QED BY <1>1, AlwaysComputed, PTL
-----------------------------------------------------------------------------
(* Findings.                                                               *)

\* A set of positions that is not empty has a last one.  (The library has no
\* such fact; it follows from the strict subset ordering being well-founded.)
LEMMA GreatestIndex ==
  ASSUME NEW n \in Nat, NEW at, at \subseteq 1..n, at # {}
  PROVE  \E i \in at : \A j \in at : j <= i
<1> DEFINE Above(i) == {j \in at : j > i}
           family == {Above(i) : i \in at}
<1>1. IsFiniteSet(at)
  <2>1. IsFiniteSet(1..n)
    BY FS_Interval
  <2> QED BY <2>1, FS_Subset
<1>2. family \subseteq FiniteSubsetsOf(at)
  BY <1>1, FS_Subset DEF FiniteSubsetsOf
<1>3. family # {}
  OBVIOUS
<1>4. PICK s \in family : \A t \in family : ~(<<t, s>> \in StrictSubsetOrdering(at))
  <2> HIDE DEF family
  <2> QED BY <1>2, <1>3, FS_StrictSubsetOrderingWellFounded, WFMin
<1>5. PICK i \in at : s = Above(i)
  BY <1>4
<1>6. ASSUME NEW j \in at, j > i
      PROVE  FALSE
  <2>1. Above(j) \in family
    OBVIOUS
  <2>2. Above(j) \subseteq Above(i) /\ j \in Above(i) /\ j \notin Above(j)
    <3>1. i \in Int /\ j \in Int /\ \A k \in at : k \in Int
      OBVIOUS
    <3>2. j \in Above(i) /\ j \notin Above(j)
      BY <3>1, <1>6
    <3>3. ASSUME NEW k \in Above(j)
          PROVE  k \in Above(i)
      <4>1. k \in at /\ k > j
        OBVIOUS
      <4>2. k > i
        BY <4>1, <3>1, <1>6
      <4> QED BY <4>1, <4>2
    <3> QED BY <3>2, <3>3
  <2>3. <<Above(j), Above(i)>> \in StrictSubsetOrdering(at)
    BY <2>2 DEF StrictSubsetOrdering
  <2> QED BY <2>1, <2>3, <1>4, <1>5
<1> QED BY <1>6

\* LastNamed is the last test with its name.
LEMMA LastNamedIsLast ==
  ASSUME NEW tests \in Seq(Test), NEW name \in NamesIn(tests)
  PROVE  /\ LastNamed(tests, name) \in Test
         /\ LastNamed(tests, name) \in ToSet(tests)
         /\ LastNamed(tests, name).name = name
<1> DEFINE at == {i \in DOMAIN tests : tests[i].name = name}
           Named(i) == /\ tests[i].name = name
                       /\ \A j \in DOMAIN tests : tests[j].name = name => j <= i
<1>1. Len(tests) \in Nat /\ DOMAIN tests = 1..Len(tests)
  OBVIOUS
<1>2. at # {} /\ at \subseteq 1..Len(tests)
  BY <1>1 DEF NamesIn
<1>3. PICK i \in at : \A j \in at : j <= i
  <2> HIDE DEF at
  <2> QED BY <1>1, <1>2, GreatestIndex
<1>4. \E k \in DOMAIN tests : Named(k)
  BY <1>3
<1>5. Named(CHOOSE k \in DOMAIN tests : Named(k)) /\ (CHOOSE k \in DOMAIN tests : Named(k)) \in DOMAIN tests
  <2> HIDE DEF Named
  <2> QED BY <1>4
<1> QED BY <1>5, <1>1 DEF LastNamed, ToSet

\* A test that is weaker than the one it stands for has a finding.
LEMMA WeakerIsFound ==
  ASSUME NEW b \in Test, NEW h \in Test, b.skipMark = 0, b.skipCall = 0, Weaker(b, h)
  PROVE  PairFindings(b, h) # {}
<1>1. CASE h.skipMark + h.skipCall > 0
  <2>1. "TEST_SKIP_ADDED" \in PairFindings(b, h)
    BY <1>1 DEF PairFindings, Test
  <2> QED BY <2>1
<1>2. CASE h.broad > b.broad
  <2>1. "BROAD_EXCEPT_ADDED" \in PairFindings(b, h)
    BY <1>2 DEF PairFindings
  <2> QED BY <2>1
<1>3. CASE Asserts(h) < Asserts(b)
  <2>1. "ASSERT_COUNT_DROP" \in PairFindings(b, h)
    BY <1>3 DEF PairFindings
  <2> QED BY <2>1
<1>4. CASE h.xfailMark + h.xfailCall > 0 /\ b.xfailMark + b.xfailCall = 0
  <2>1. "TEST_XFAIL_ADDED" \in PairFindings(b, h)
    BY <1>4 DEF PairFindings, Test
  <2> QED BY <2>1
<1> QED BY <1>1, <1>2, <1>3, <1>4 DEF Weaker

\* What there is about a pair of tests, there is about the file.
LEMMA PairIsReported ==
  ASSUME NEW base, NEW head, NEW b, NEW h, <<b, h>> \in Matched(base.tests, head.tests).pairs,
         PairFindings(b, h) # {}
  PROVE  \E finding \in FileFindings(base, head) : finding[2] = h.name
<1>1. PICK id \in PairFindings(b, h) : TRUE
  OBVIOUS
<1>2. <<id, h.name>> \in {<<i, <<b, h>>[2].name>> : i \in PairFindings(<<b, h>>[1], <<b, h>>[2])}
  BY <1>1
<1>3. <<id, h.name>> \in FileFindings(base, head)
  BY <1>2 DEF FileFindings
<1> QED BY <1>3

\* A test of the base is removed, or it is in a pair with a test of the head.
LEMMA RemovedOrPaired ==
  ASSUME NEW entry, entry.base.tests \in Seq(Test), entry.head.tests \in Seq(Test),
         NEW b \in ToSet(entry.base.tests)
  PROVE  \/ b \in Matched(entry.base.tests, entry.head.tests).removed
         \/ \E h \in Successors(entry, b) :
              h \in Test /\ <<b, h>> \in Matched(entry.base.tests, entry.head.tests).pairs
<1> DEFINE base == entry.base.tests
           head == entry.head.tests
           gone == Unmatched(base, head)
           new  == Unmatched(head, base)
<1>1. CASE b.name \in NamesIn(head)
  <2>1. LastNamed(head, b.name) \in Test
    BY <1>1, LastNamedIsLast
  <2>2. <<b, LastNamed(head, b.name)>> \in Kept(base, head)
    BY <1>1 DEF Kept
  <2>3. <<b, LastNamed(head, b.name)>> \in Matched(base, head).pairs
    BY <2>2 DEF Matched
  <2>4. LastNamed(head, b.name) \in Successors(entry, b)
    BY <1>1 DEF Successors
  <2> QED BY <2>1, <2>3, <2>4
<1>2. CASE b.name \notin NamesIn(head)
  <2>1. PICK i \in gone : base[i] = b
    BY <1>2 DEF Unmatched, ToSet
  <2>2. CASE Cardinality(gone) = 1 /\ Cardinality(new) = 1
    <3>1. PICK j \in new : TRUE
      BY <2>2, FS_EmptySet
    <3>2. head[j] \in Test
      BY DEF Unmatched
    <3>3. <<b, head[j]>> \in Matched(base, head).pairs
      BY <2>1, <2>2 DEF Matched
    <3>4. head[j] \in Successors(entry, b)
      BY <3>3, <1>2 DEF Successors
    <3> QED BY <3>2, <3>3, <3>4
  <2>3. CASE ~(Cardinality(gone) = 1 /\ Cardinality(new) = 1)
    <3>1. b \in Matched(base, head).removed
      BY <2>1, <2>3 DEF Matched
    <3> QED BY <3>1
  <2> QED BY <2>2, <2>3
<1> QED BY <1>1, <1>2

\* No test that checked something disappears or becomes weaker without a word.
LEMMA LossIsFound ==
  ASSUME NEW entry \in Entries, entry.isTest, ~entry.head.above, ~Warned(entry),
         NEW b \in EffectiveTests(entry.base, entry.wasTest)
  PROVE  \/ <<"TEST_REMOVED", b.name>> \in Reported(entry)
         \/ \E h \in Successors(entry, b) :
              Weaker(b, h) => \E finding \in Reported(entry) : finding[2] = h.name
<1>1. /\ entry.base.tests \in Seq(Test) /\ entry.head.tests \in Seq(Test)
      /\ entry.status = "added" => entry.base.tests = <<>>
  BY AnalysisAssumption
<1>2. PICK name \in NamesIn(entry.base.tests) : b = LastNamed(entry.base.tests, name)
  BY DEF EffectiveTests
<1>3. /\ b \in Test /\ b \in ToSet(entry.base.tests) /\ b.name \in NamesIn(entry.base.tests)
      /\ b.skipMark = 0 /\ b.skipCall = 0
  BY <1>1, <1>2, LastNamedIsLast DEF EffectiveTests
<1>4. entry.status # "added"
  BY <1>1, <1>2 DEF NamesIn
<1>5. Analyzed(entry) /\ ~Unparsable(entry)
  BY DEF Analyzed, Warned
<1>6. CASE entry.status = "deleted"
  <2>1. <<"TEST_REMOVED", b.name>> \in Reported(entry)
    BY <1>3, <1>5, <1>6 DEF Reported
  <2> QED BY <2>1
<1>7. CASE entry.status # "deleted"
  <2>1. Reported(entry) = FileFindings(entry.base, entry.head)
    BY <1>4, <1>5, <1>7 DEF Reported
  <2>2. CASE b \in Matched(entry.base.tests, entry.head.tests).removed
    <3>1. <<"TEST_REMOVED", b.name>> \in FileFindings(entry.base, entry.head)
      BY <2>2 DEF FileFindings
    <3> QED BY <2>1, <3>1
  <2>3. CASE \E h \in Successors(entry, b) :
               h \in Test /\ <<b, h>> \in Matched(entry.base.tests, entry.head.tests).pairs
    <3>1. PICK h \in Successors(entry, b) :
            h \in Test /\ <<b, h>> \in Matched(entry.base.tests, entry.head.tests).pairs
      BY <2>3
    <3>2. Weaker(b, h) => \E finding \in FileFindings(entry.base, entry.head) : finding[2] = h.name
      BY <1>3, <3>1, WeakerIsFound, PairIsReported
    <3> QED BY <2>1, <3>1, <3>2
  <2> QED BY <1>1, <1>3, <2>2, <2>3, RemovedOrPaired
<1> QED BY <1>6, <1>7

\* For every change to a test file: what it removes, skips or weakens is
\* reported (heuristics.py).
THEOREM LossesAreReported == Spec => []LossIsReported
<1>1. Computed => LossIsReported
  <2> SUFFICES ASSUME Computed, step = "findings", input.isTest, ~input.head.above, ~output.warned,
                      NEW b \in EffectiveTests(input.base, input.wasTest)
               PROVE  \/ <<"TEST_REMOVED", b.name>> \in output.found
                      \/ \E h \in Successors(input, b) :
                           Weaker(b, h) => \E finding \in output.found : finding[2] = h.name
    BY DEF LossIsReported
  <2>1. input \in Entries /\ output.found = Reported(input) /\ output.warned = Warned(input)
    BY DEF Computed
  <2> QED BY <2>1, LossIsFound
<1> QED BY <1>1, AlwaysComputed, PTL
-----------------------------------------------------------------------------
(* Options.                                                                *)

\* A set of indices that is not empty has a least one.
LEMMA LeastIndex ==
  ASSUME NEW n \in Nat, NEW at, at \subseteq 1..n, at # {}
  PROVE  \E i \in at : \A j \in at : i <= j
<1> DEFINE mirror == {(n + 1) - i : i \in at}
<1>1. mirror \subseteq 1..n /\ mirror # {}
  <2>1. ASSUME NEW i \in at
        PROVE  (n + 1) - i \in 1..n
    <3>1. i \in 1..n
      OBVIOUS
    <3> QED BY <3>1
  <2> QED BY <2>1
<1>2. PICK k \in mirror : \A j \in mirror : j <= k
  <2> HIDE DEF mirror
  <2> QED BY <1>1, GreatestIndex
<1>3. PICK i \in at : k = (n + 1) - i
  BY <1>2
<1>4. ASSUME NEW j \in at
      PROVE  i <= j
  <2>1. (n + 1) - j <= k
    BY <1>2
  <2>2. i \in Int /\ j \in Int
    BY DEF mirror
  <2> QED BY <1>3, <2>1, <2>2
<1> QED BY <1>4

\* Some number of processes is not 0, whether or not it is the last.
StartsIn(tokens) == \E k \in Numbers(tokens) : ValueAt(tokens, k) = "on"

\* What starts workers does so with more options after it.
LEMMA StartsBefore ==
  ASSUME NEW P, P \in Seq(Token), NEW B, B \in Seq(Token), StartsIn(P)
  PROVE  StartsIn(P \o B)
<1>1. PICK k \in Numbers(P) : ValueAt(P, k) = "on"
  BY DEF StartsIn
<1>2. PICK n \in Nat : n = Len(P)
  OBVIOUS
<1>3. PICK m \in Nat : m = Len(B)
  OBVIOUS
<1>4. DOMAIN P = 1..n /\ DOMAIN (P \o B) = 1..(n + m) /\ k \in 1..n
  BY <1>2, <1>3 DEF Numbers
<1>5. \A i \in 1..n : (P \o B)[i] = P[i]
  BY <1>2, <1>3
<1>6. k \in Numbers(P \o B)
  BY <1>4, <1>5 DEF Numbers
<1>7. ValueAt(P \o B, k) = "on"
  <2>1. CASE P[k].value # "none"
    BY <1>1, <1>4, <1>5, <2>1 DEF ValueAt
  <2>2. CASE P[k].value = "none"
    <3>1. k + 1 \in 1..n /\ IsWord(P[k + 1]) /\ P[k + 1].value = "on"
      BY <1>1, <1>4, <2>2 DEF ValueAt
    <3>2. (P \o B)[k + 1] = P[k + 1] /\ k + 1 \in 1..(n + m) /\ (P \o B)[k] = P[k]
      BY <1>4, <1>5, <3>1
    <3> QED BY <1>4, <2>2, <3>1, <3>2 DEF ValueAt
  <2> QED BY <2>1, <2>2
<1> QED BY <1>6, <1>7 DEF StartsIn

\* An option has the value it has without the options before it.
LEMMA ValueShifts ==
  ASSUME NEW A, A \in Seq(Token), NEW P, P \in Seq(Token), NEW k \in DOMAIN P
  PROVE  /\ Len(A) + k \in DOMAIN (A \o P)
         /\ (A \o P)[Len(A) + k] = P[k]
         /\ ValueAt(A \o P, Len(A) + k) = ValueAt(P, k)
<1>1. PICK n \in Nat : n = Len(A)
  OBVIOUS
<1>2. PICK m \in Nat : m = Len(P)
  OBVIOUS
<1>3. DOMAIN P = 1..m /\ DOMAIN (A \o P) = 1..(n + m) /\ k \in 1..m
  BY <1>1, <1>2
<1>4. \A i \in 1..m : (A \o P)[n + i] = P[i]
  BY <1>1, <1>2
<1>5. n + k \in 1..(n + m)
  BY <1>3
<1>6. (n + k) + 1 \in DOMAIN (A \o P) <=> k + 1 \in DOMAIN P
  BY <1>3
<1>7. k + 1 \in DOMAIN P => (A \o P)[(n + k) + 1] = P[k + 1]
  <2> SUFFICES ASSUME k + 1 \in 1..m
               PROVE  (A \o P)[(n + k) + 1] = P[k + 1]
    BY <1>3
  <2>1. (A \o P)[n + (k + 1)] = P[k + 1]
    BY <1>4
  <2>2. n + (k + 1) = (n + k) + 1
    BY <1>3
  <2> QED BY <2>1, <2>2
<1>8. (A \o P)[n + k] = P[k]
  BY <1>3, <1>4
<1>9. ValueAt(A \o P, n + k) = ValueAt(P, k)
  BY <1>6, <1>7, <1>8 DEF ValueAt
<1> QED BY <1>1, <1>3, <1>5, <1>8, <1>9

\* What starts workers does so with more options before it.
LEMMA StartsAfter ==
  ASSUME NEW A, A \in Seq(Token), NEW P, P \in Seq(Token), StartsIn(P)
  PROVE  StartsIn(A \o P)
<1>1. PICK k \in Numbers(P) : ValueAt(P, k) = "on"
  BY DEF StartsIn
<1>2. k \in DOMAIN P
  BY DEF Numbers
<1>3. /\ Len(A) + k \in DOMAIN (A \o P)
      /\ (A \o P)[Len(A) + k] = P[k]
      /\ ValueAt(A \o P, Len(A) + k) = ValueAt(P, k)
  BY <1>2, ValueShifts
<1>4. Len(A) + k \in Numbers(A \o P)
  BY <1>3 DEF Numbers
<1> QED BY <1>1, <1>3, <1>4 DEF StartsIn

\* A number of two joined places is one of the first with its value there, or
\* one of the second, if the first needs no value from the second.
LEMMA NumberOfJoined ==
  ASSUME NEW A, A \in Seq(Token), NEW B, B \in Seq(Token), SelfContained(A),
         NEW k \in Numbers(A \o B)
  PROVE  \/ k \in Numbers(A) /\ ValueAt(A \o B, k) = ValueAt(A, k)
         \/ \E i \in Numbers(B) : ValueAt(A \o B, k) = ValueAt(B, i)
<1>1. PICK n \in Nat : n = Len(A)
  OBVIOUS
<1>2. PICK m \in Nat : m = Len(B)
  OBVIOUS
<1>3. DOMAIN A = 1..n /\ DOMAIN B = 1..m /\ DOMAIN (A \o B) = 1..(n + m) /\ k \in 1..(n + m)
  BY <1>1, <1>2 DEF Numbers
<1>4. (A \o B)[k].option \in {"-n", "--numprocesses"}
  BY DEF Numbers
<1>5. \A i \in 1..n : (A \o B)[i] = A[i]
  BY <1>1, <1>2
<1>6. CASE k <= n
  <2>1. k \in 1..n /\ (A \o B)[k] = A[k]
    BY <1>3, <1>5, <1>6
  <2>2. k \in Numbers(A)
    BY <1>3, <1>4, <2>1 DEF Numbers
  <2>3. ValueAt(A, k) # "none"
    BY <2>2 DEF SelfContained
  <2>4. CASE A[k].value # "none"
    BY <2>1, <2>2, <2>4 DEF ValueAt
  <2>5. CASE A[k].value = "none"
    <3>1. k + 1 \in 1..n /\ IsWord(A[k + 1])
      BY <1>3, <2>3, <2>5 DEF ValueAt
    <3>2. (A \o B)[k + 1] = A[k + 1] /\ k + 1 \in 1..(n + m)
      BY <1>3, <1>5, <3>1
    <3>3. ValueAt(A \o B, k) = ValueAt(A, k)
      BY <1>3, <2>1, <3>1, <3>2 DEF ValueAt
    <3> QED BY <2>2, <3>3
  <2> QED BY <2>4, <2>5
<1>7. CASE ~(k <= n)
  <2>1. PICK i \in 1..m : k = n + i
    <3>1. k - n \in 1..m /\ k = n + (k - n)
      BY <1>3, <1>7
    <3> QED BY <3>1
  <2>2. (A \o B)[n + i] = B[i] /\ ValueAt(A \o B, n + i) = ValueAt(B, i)
    BY <1>1, <1>3, ValueShifts
  <2>3. i \in Numbers(B)
    BY <1>3, <1>4, <2>1, <2>2 DEF Numbers
  <2> QED BY <2>1, <2>2, <2>3
<1> QED BY <1>6, <1>7

\* Joined places start workers only if one of them does.
LEMMA StartsInJoined ==
  ASSUME NEW A, A \in Seq(Token), NEW B, B \in Seq(Token), SelfContained(A), StartsIn(A \o B)
  PROVE  StartsIn(A) \/ StartsIn(B)
BY NumberOfJoined DEF StartsIn

\* Places that need no value from another do not need one when joined.
LEMMA JoinedIsSelfContained ==
  ASSUME NEW A, A \in Seq(Token), NEW B, B \in Seq(Token), SelfContained(A), SelfContained(B)
  PROVE  SelfContained(A \o B)
BY NumberOfJoined DEF SelfContained

\* Whatever order the two sides join the places in, if pytest starts workers
\* then the options that are scanned have a number that starts some.
LEMMA StartsInScanned ==
  ASSUME NEW config \in OptionSets, ValuesInPlace(config), StartsWorkers(EffectiveOptions(config))
  PROVE  StartsIn(CollectedOptions(config))
<1> DEFINE env == config.env
           py == config.pyproject
           ini == config.ini
           args == config.args
           file == IF ini # <<>> THEN ini ELSE py
<1>1. /\ env \in Seq(Token) /\ py \in Seq(Token) /\ ini \in Seq(Token) /\ args \in Seq(Token)
      /\ SelfContained(env) /\ SelfContained(py) /\ SelfContained(ini) /\ SelfContained(args)
  BY AnalysisAssumption DEF ValuesInPlace
<1>2. EffectiveOptions(config) = (file \o env) \o args
  BY DEF EffectiveOptions
<1>3. StartsIn((file \o env) \o args)
  BY <1>2 DEF StartsWorkers, StartsIn
<1>4. CollectedOptions(config) = ((env \o py) \o ini) \o args
  BY DEF CollectedOptions
<1>5. file \in Seq(Token) /\ SelfContained(file) /\ (StartsIn(file) => StartsIn(ini) \/ StartsIn(py))
  BY <1>1
<1> HIDE DEF env, py, ini, args, file
<1>6. file \o env \in Seq(Token) /\ SelfContained(file \o env)
  BY <1>1, <1>5, JoinedIsSelfContained
<1>7. StartsIn(file \o env) \/ StartsIn(args)
  BY <1>1, <1>3, <1>6, StartsInJoined
<1>8. StartsIn(file \o env) => StartsIn(file) \/ StartsIn(env)
  BY <1>1, <1>5, StartsInJoined
<1>9. StartsIn(env) \/ StartsIn(py) \/ StartsIn(ini) \/ StartsIn(args)
  BY <1>5, <1>7, <1>8
<1>10. env \o py \in Seq(Token) /\ (env \o py) \o ini \in Seq(Token)
  BY <1>1
<1>11. StartsIn(env) \/ StartsIn(py) => StartsIn(env \o py)
  BY <1>1, StartsBefore, StartsAfter
<1>12. StartsIn(env \o py) \/ StartsIn(ini) => StartsIn((env \o py) \o ini)
  BY <1>1, <1>10, StartsBefore, StartsAfter
<1>13. StartsIn((env \o py) \o ini) \/ StartsIn(args) => StartsIn(((env \o py) \o ini) \o args)
  BY <1>1, <1>10, StartsBefore, StartsAfter
<1> QED BY <1>4, <1>9, <1>11, <1>12, <1>13

\* A scan that meets a number of workers says yes there, or it has said
\* something before: yes, or no at a "--dist no".
LEMMA StartIsAnswered ==
  ASSUME NEW tokens, tokens \in Seq(Token), StartsIn(tokens)
  PROVE  IndicatesXdist(tokens) \/ HiddenByDist(tokens)
<1> DEFINE answered == {i \in DOMAIN tokens : Answer(tokens, i) # "on"}
<1>1. PICK n \in Nat : n = Len(tokens)
  OBVIOUS
<1>2. DOMAIN tokens = 1..n
  BY <1>1
<1>3. \A k \in Numbers(tokens) :
        ValueAt(tokens, k) = "on" => k \in answered /\ Answer(tokens, k) = "true"
  BY DEF Numbers, Answer
<1>4. answered # {} /\ answered \subseteq 1..n
  BY <1>2, <1>3 DEF StartsIn
<1>5. PICK i \in answered : \A j \in answered : i <= j
  <2> HIDE DEF answered
  <2> QED BY <1>4, LeastIndex
<1>6. i \in 1..n /\ i \in DOMAIN tokens
  BY <1>2, <1>5
<1>7. \A j \in 1..(i - 1) : Answer(tokens, j) = "on"
  BY <1>2, <1>5, <1>6
<1>8. CASE Answer(tokens, i) = "true"
  BY <1>6, <1>7, <1>8 DEF IndicatesXdist
<1>9. CASE Answer(tokens, i) # "true"
  <2>1. tokens[i].option = "--dist" /\ ValueAt(tokens, i) = "off"
    BY <1>5, <1>9 DEF Answer
  <2>2. ASSUME NEW k \in Numbers(tokens), ValueAt(tokens, k) = "on"
        PROVE  i < k
    <3>1. i <= k /\ i # k /\ k \in 1..n
      BY <1>3, <1>4, <1>5, <1>9, <2>2
    <3> QED BY <1>6, <3>1
  <2> QED BY <1>6, <2>1, <2>2 DEF HiddenByDist
<1> QED BY <1>8, <1>9

\* A configuration that starts workers is refused, unless "--dist no" stops the
\* scan, and one in which everything about workers is off is accepted, for
\* every four sequences of options.
THEOREM XdistIsRefused == Spec => []WorkersAreRefused
<1>1. Computed => WorkersAreRefused
  <2> SUFFICES ASSUME Computed, step = "xdist"
               PROVE  /\ StartsWorkers(EffectiveOptions(input)) /\ ValuesInPlace(input) =>
                           output \/ HiddenByDist(CollectedOptions(input))
                      /\ AsksForNone(CollectedOptions(input)) => ~output
    BY DEF WorkersAreRefused
  <2> DEFINE tokens == CollectedOptions(input)
  <2>1. input \in OptionSets /\ output = IndicatesXdist(tokens)
    BY DEF Computed
  <2>2. tokens \in Seq(Token)
    BY <2>1, AnalysisAssumption DEF CollectedOptions
  <2>3. ASSUME StartsWorkers(EffectiveOptions(input)), ValuesInPlace(input)
        PROVE  output \/ HiddenByDist(tokens)
    <3>1. StartsIn(tokens)
      BY <2>1, <2>3, StartsInScanned
    <3> HIDE DEF tokens
    <3>2. IndicatesXdist(tokens) \/ HiddenByDist(tokens)
      BY <2>2, <3>1, StartIsAnswered
    <3> QED BY <2>1, <3>2
  <2>4. ASSUME AsksForNone(tokens)
        PROVE  ~output
    <3> HIDE DEF tokens
    <3>1. \A i \in DOMAIN tokens : Answer(tokens, i) # "true"
      BY <2>4 DEF AsksForNone, Answer, LoadsPlugin
    <3> QED BY <2>1, <3>1 DEF IndicatesXdist
  <2> QED BY <2>3, <2>4
<1> QED BY <1>1, AlwaysComputed, PTL
-----------------------------------------------------------------------------
(* Mutation sites.                                                         *)

\* There are finitely many positions of code, each with its rank.
LEMMA CodeIsFinite ==
  ASSUME NEW source, source \in Seq(Chars)
  PROVE  /\ Code(source) \subseteq 1..Len(source)
         /\ IsFiniteSet(Code(source)) /\ Cardinality(Code(source)) \in Nat
         /\ \A T \in SUBSET Code(source) : IsFiniteSet(T) /\ Cardinality(T) \in Nat
<1>1. PICK n \in Nat : n = Len(source)
  OBVIOUS
<1>2. Code(source) \subseteq 1..n
  BY <1>1 DEF Code
<1>3. IsFiniteSet(1..n)
  BY FS_Interval
<1> QED BY <1>1, <1>2, <1>3, FS_Subset, FS_CardinalityType

\* The ranks of the positions of code grow with them and are 1, 2, ... without
\* gaps.
LEMMA CodeRanks ==
  ASSUME NEW source, source \in Seq(Chars)
  PROVE  LET C == Code(source)
             n == Cardinality(C)
         IN  /\ \A i \in C : CodeRank(source, i) \in 1..n
             /\ \A i, j \in C : i < j => CodeRank(source, i) < CodeRank(source, j)
             /\ \A k \in 1..n : \E i \in C : CodeRank(source, i) = k
<1> DEFINE C == Code(source)
           n == Cardinality(C)
           Upto(i) == {j \in C : j <= i}
           rank == [i \in C |-> Cardinality(Upto(i))]
<1>1. IsFiniteSet(C) /\ n \in Nat /\ C \subseteq Nat
  <2>1. PICK l \in Nat : l = Len(source)
    OBVIOUS
  <2> QED BY <2>1, CodeIsFinite
<1>2. \A i \in C : CodeRank(source, i) = rank[i]
  BY DEF CodeRank
<1>3. \A i \in C : rank[i] \in 1..n
  <2> SUFFICES ASSUME NEW i \in C
               PROVE  Cardinality(Upto(i)) \in 1..n
    OBVIOUS
  <2>1. IsFiniteSet(Upto(i)) /\ Cardinality(Upto(i)) \in Nat
    BY CodeIsFinite
  <2>2. Cardinality(Upto(i)) <= n
    BY <1>1, FS_Subset
  <2>3. i \in Upto(i)
    BY <1>1
  <2>4. Cardinality(Upto(i)) # 0
    BY <2>1, <2>3, FS_EmptySet
  <2> QED BY <1>1, <2>1, <2>2, <2>4
<1>4. ASSUME NEW i \in C, NEW j \in C, i < j
      PROVE  rank[i] < rank[j]
  <2>1. IsFiniteSet(Upto(i)) /\ Cardinality(Upto(i)) \in Nat
    BY CodeIsFinite
  <2>2. IsFiniteSet(Upto(j)) /\ Cardinality(Upto(j)) \in Nat
    BY CodeIsFinite
  <2>3. Upto(i) \subseteq Upto(j) /\ j \in Upto(j) /\ j \notin Upto(i)
    BY <1>1, <1>4
  <2>4. Cardinality(Upto(i)) # Cardinality(Upto(j))
    <3> HIDE DEF Upto
    <3> QED BY <2>2, <2>3, FS_Subset
  <2>5. Cardinality(Upto(i)) <= Cardinality(Upto(j))
    <3> HIDE DEF Upto
    <3> QED BY <2>2, <2>3, FS_Subset
  <2> QED BY <2>1, <2>2, <2>4, <2>5
<1>5. rank \in Injection(C, 1..n)
  <2>1. rank \in [C -> 1..n]
    BY <1>3
  <2>2. ASSUME NEW i \in C, NEW j \in C, rank[i] = rank[j]
        PROVE  i = j
    <3>1. rank[i] \in Nat /\ rank[j] \in Nat
      BY <1>1, <1>3
    <3>2. i \in Nat /\ j \in Nat
      BY <1>1
    <3> HIDE DEF rank
    <3>3. ~(i < j) /\ ~(j < i)
      BY <1>4, <2>2, <3>1
    <3> QED BY <3>2, <3>3
  <2> QED BY <2>1, <2>2 DEF Injection, IsInjective
<1>6. IsFiniteSet(1..n) /\ Cardinality(1..n) = n
  BY <1>1, FS_Interval
<1>7. rank \in Surjection(C, 1..n)
  <2> HIDE DEF rank, C, n
  <2>1. Cardinality(C) = Cardinality(1..n)
    BY <1>6 DEF n
  <2> QED BY <1>5, <1>6, <2>1, FS_Injection
<1>8. \A k \in 1..n : \E i \in C : rank[i] = k
  <2> HIDE DEF rank, C, n
  <2> QED BY <1>7 DEF Surjection
<1> QED BY <1>2, <1>3, <1>4, <1>8

\* CodeAt lists the positions of code in their order.
LEMMA CodeInOrder ==
  ASSUME NEW source, source \in Seq(Chars)
  PROVE  LET at == CodeAt(source)
             n  == Cardinality(Code(source))
         IN  /\ n \in Nat /\ DOMAIN at = 1..n
             /\ \A k \in 1..n : at[k] \in Code(source) /\ CodeRank(source, at[k]) = k
             /\ \A i \in Code(source) : \E k \in 1..n : at[k] = i
             /\ \A j, k \in 1..n : j < k => at[j] < at[k]
             /\ \A j, k \in 1..n : \A i \in Code(source) :
                  k = j + 1 => ~(at[j] < i /\ i < at[k])
<1> DEFINE C == Code(source)
           n == Cardinality(C)
           at == CodeAt(source)
<1>1. n \in Nat /\ C \subseteq Nat
  <2>1. PICK l \in Nat : l = Len(source)
    OBVIOUS
  <2> QED BY <2>1, CodeIsFinite
<1>2. /\ \A i \in C : CodeRank(source, i) \in 1..n
      /\ \A i, j \in C : i < j => CodeRank(source, i) < CodeRank(source, j)
      /\ \A k \in 1..n : \E i \in C : CodeRank(source, i) = k
  BY CodeRanks
<1>3. DOMAIN at = 1..n
  BY DEF CodeAt
<1>4. \A k \in 1..n : at[k] \in C /\ CodeRank(source, at[k]) = k
  BY <1>2 DEF CodeAt
<1> HIDE DEF C, n, at
<1>5. \A i, j \in C : CodeRank(source, i) < CodeRank(source, j) => i < j
  <2> SUFFICES ASSUME NEW i \in C, NEW j \in C, CodeRank(source, i) < CodeRank(source, j)
               PROVE  i < j
    OBVIOUS
  <2>1. i \in Nat /\ j \in Nat /\ CodeRank(source, i) \in Nat /\ CodeRank(source, j) \in Nat
    BY <1>1, <1>2
  <2>2. i # j /\ ~(j < i)
    BY <1>2, <2>1
  <2> QED BY <2>1, <2>2
<1>6. ASSUME NEW i \in C
      PROVE  \E k \in 1..n : at[k] = i
  <2>1. PICK k \in 1..n : CodeRank(source, i) = k
    BY <1>2
  <2>2. at[k] \in C /\ CodeRank(source, at[k]) = k
    BY <1>4
  <2>3. ~(k < k)
    BY <1>1
  <2>4. ~(at[k] < i) /\ ~(i < at[k])
    BY <1>2, <2>1, <2>2, <2>3
  <2>5. i \in Nat /\ at[k] \in Nat
    BY <1>1, <2>2
  <2>6. at[k] = i
    BY <2>5, <2>4
  <2> QED BY <2>6
<1>7. ASSUME NEW j \in 1..n, NEW k \in 1..n, j < k
      PROVE  at[j] < at[k]
  BY <1>4, <1>5, <1>7
<1>8. ASSUME NEW j \in 1..n, NEW k \in 1..n, NEW i \in C, k = j + 1, at[j] < i, i < at[k]
      PROVE  FALSE
  <2>1. j < CodeRank(source, i) /\ CodeRank(source, i) < k
    BY <1>2, <1>4, <1>8
  <2>2. CodeRank(source, i) \in Nat
    BY <1>1, <1>2
  <2> QED BY <1>1, <1>8, <2>1, <2>2
<1> QED BY <1>1, <1>3, <1>4, <1>6, <1>7, <1>8 DEF C, n, at

\* The smallest offset of a set that is not empty.
LEMMA MinIsLeast ==
  ASSUME NEW n \in Nat, NEW T, T \subseteq 0..n, T # {}
  PROVE  Min(T) \in T /\ \A j \in T : Min(T) <= j
<1> DEFINE up == {k + 1 : k \in T}
<1>1. up \subseteq 1..(n + 1) /\ up # {} /\ n + 1 \in Nat
  <2>1. ASSUME NEW k \in T
        PROVE  k + 1 \in 1..(n + 1)
    <3>1. k \in 0..n
      OBVIOUS
    <3> QED BY <3>1
  <2>2. PICK k \in T : TRUE
    OBVIOUS
  <2>3. k + 1 \in up
    BY <2>2
  <2>4. \A i \in up : \E j \in T : i = j + 1
    OBVIOUS
  <2> HIDE DEF up
  <2> QED BY <2>1, <2>3, <2>4
<1>2. \E i \in up : \A j \in up : i <= j
  <2> HIDE DEF up
  <2> QED BY <1>1, LeastIndex
<1>3. PICK i \in T : \A j \in T : i + 1 <= j + 1
  BY <1>2
<1>4. \A j \in T : i <= j
  <2> SUFFICES ASSUME NEW j \in T
               PROVE  i <= j
    OBVIOUS
  <2>1. i \in Nat /\ j \in Nat /\ i + 1 <= j + 1
    BY <1>3
  <2> QED BY <2>1
<1> QED BY <1>4 DEF Min

\* Lines only grow with the offset, and a line starts where it says.
LEMMA LinesGrow ==
  ASSUME NEW source, source \in Seq(Chars), NEW o \in 0..Len(source)
  PROVE  LET start == LineStart(source, LineAt(source, o))
         IN  /\ LineAt(source, o) \in Nat
             /\ \A i \in 0..o : LineAt(source, i) \in Nat /\ LineAt(source, i) <= LineAt(source, o)
             /\ start \in 0..o /\ LineAt(source, start) = LineAt(source, o)
<1>1. PICK n \in Nat : n = Len(source)
  OBVIOUS
<1>2. o \in 0..n /\ o \in Nat
  BY <1>1
<1> DEFINE breaks(i) == {j \in 1..i : source[j] = Newline}
<1>3. ASSUME NEW i \in 0..n
      PROVE  IsFiniteSet(breaks(i)) /\ Cardinality(breaks(i)) \in Nat
  <2>1. IsFiniteSet(1..i)
    BY FS_Interval
  <2> QED BY <2>1, FS_Subset, FS_CardinalityType
<1>4. ASSUME NEW i \in 0..n
      PROVE  LineAt(source, i) = Cardinality(breaks(i)) + 1 /\ LineAt(source, i) \in Nat
  <2>1. NewlinesBefore(source, i) = Cardinality(breaks(i))
    BY DEF NewlinesBefore
  <2>2. Cardinality(breaks(i)) \in Nat
    BY <1>3
  <2> HIDE DEF breaks
  <2> QED BY <2>1, <2>2 DEF LineAt
<1>5. ASSUME NEW i \in 0..o
      PROVE  LineAt(source, i) <= LineAt(source, o)
  <2>1. i \in 0..n /\ i \in Nat /\ i <= o
    BY <1>2
  <2>2. breaks(i) \subseteq breaks(o)
    BY <1>2, <2>1
  <2>3. IsFiniteSet(breaks(o)) /\ Cardinality(breaks(o)) \in Nat /\ Cardinality(breaks(i)) \in Nat
    BY <1>2, <1>3, <2>1
  <2>4. Cardinality(breaks(i)) <= Cardinality(breaks(o))
    <3> HIDE DEF breaks
    <3> QED BY <2>2, <2>3, FS_Subset
  <2>5. LineAt(source, i) = Cardinality(breaks(i)) + 1 /\ LineAt(source, o) = Cardinality(breaks(o)) + 1
    BY <1>2, <1>4, <2>1
  <2> HIDE DEF breaks
  <2> QED BY <2>3, <2>4, <2>5
<1> DEFINE at == {i \in 0..n : LineAt(source, i) = LineAt(source, o)}
           s == Min(at)
<1>6. s \in at /\ s <= o
  <2>1. at \subseteq 0..n /\ o \in at
    BY <1>2
  <2> HIDE DEF at
  <2> QED BY <2>1, MinIsLeast
<1>7. LineStart(source, LineAt(source, o)) = s
  <2>1. at # {}
    BY <1>6
  <2> QED BY <1>1, <2>1 DEF LineStart
<1> HIDE DEF s
<1>8. s \in 0..o /\ LineAt(source, s) = LineAt(source, o)
  BY <1>2, <1>6
<1>9. ASSUME NEW i \in 0..o
      PROVE  LineAt(source, i) \in Nat
  <2>1. i \in 0..n
    BY <1>2
  <2> QED BY <1>4, <2>1
<1> QED BY <1>2, <1>4, <1>5, <1>7, <1>8, <1>9

\* A position the backend computes from an offset leads back to it.
LEMMA OffsetOfLineCol ==
  ASSUME NEW source, source \in Seq(Chars), NEW o \in 0..Len(source)
  PROVE  OffsetAt(source, LineColAt(source, o)) = o
<1> DEFINE start == LineStart(source, LineAt(source, o))
<1>1. PICK n \in Nat : n = Len(source)
  OBVIOUS
<1>2. start \in 0..o
  BY LinesGrow
<1> HIDE DEF start
<1>3. OffsetAt(source, LineColAt(source, o)) = Min({n, start + (o - start + 1) - 1})
  BY <1>1 DEF OffsetAt, LineColAt, start
<1>4. start + (o - start + 1) - 1 = o /\ o \in 0..n
  BY <1>1, <1>2
<1>5. Min({n, o}) = o
  BY <1>4 DEF Min
<1> QED BY <1>3, <1>4, <1>5

\* So does one of the parser, if every character before it on the line is one
\* byte.
LEMMA OffsetOfAst ==
  ASSUME NEW source, source \in Seq(Chars), NEW o \in 0..Len(source),
         \A i \in 1..o : LineAt(source, i) >= LineAt(source, o) => source[i] # Wide
  PROVE  OffsetAt(source, AstPosition(source, o)) = o
<1> DEFINE start == LineStart(source, LineAt(source, o))
<1>1. PICK n \in Nat : n = Len(source)
  OBVIOUS
<1>2. start \in 0..o /\ LineAt(source, start) = LineAt(source, o)
  BY LinesGrow
<1>3. {i \in (start + 1)..o : source[i] = Wide} = {}
  <2> SUFFICES ASSUME NEW i \in (start + 1)..o
               PROVE  source[i] # Wide
    OBVIOUS
  <2>1. i \in 1..o /\ i \in 0..Len(source) /\ start \in 0..i
    <3> HIDE DEF start
    <3> QED BY <1>1, <1>2
  <2>2. LineAt(source, start) <= LineAt(source, i) /\ LineAt(source, i) \in Nat /\ LineAt(source, start) \in Nat
    BY <2>1, LinesGrow
  <2>3. LineAt(source, i) >= LineAt(source, o)
    BY <1>2, <2>2
  <2> QED BY <2>1, <2>3
<1> HIDE DEF start
<1>4. AstPosition(source, o) = <<LineAt(source, o), 1 + ((o - start) + 0)>>
  BY <1>3, FS_EmptySet DEF AstPosition, Bytes, start
<1>5. OffsetAt(source, AstPosition(source, o)) = Min({n, start + (1 + ((o - start) + 0)) - 1})
  BY <1>1, <1>4 DEF OffsetAt, start
<1>6. start + (1 + ((o - start) + 0)) - 1 = o /\ o \in 0..n
  BY <1>1, <1>2
<1>7. Min({n, o}) = o
  BY <1>6 DEF Min
<1> QED BY <1>5, <1>6, <1>7

\* Joined sequences are as long as the two together.
LEMMA JoinedLength ==
  ASSUME NEW S, NEW s \in Seq(S), NEW t \in Seq(S)
  PROVE  Len(s \o t) = Len(s) + Len(t)
OBVIOUS

\* Replacing the span of one character replaces that character.
LEMMA SpanOfOne ==
  ASSUME NEW source, source \in Seq(Chars), NEW p \in DOMAIN source, NEW new \in Chars,
         NEW start, NEW end, OffsetAt(source, start) = p - 1, OffsetAt(source, end) = p
  PROVE  ReplaceSpan(source, start, end, <<new>>) = [source EXCEPT ![p] = new]
<1>1. PICK n \in Nat : n = Len(source)
  OBVIOUS
<1>2. p \in 1..n /\ DOMAIN source = 1..n
  BY <1>1
<1> DEFINE left == SubSeq(source, 1, p - 1)
           right == SubSeq(source, p + 1, n)
           head == left \o <<new>>
           joined == head \o right
<1>3. ReplaceSpan(source, start, end, <<new>>) = joined
  <2>1. ~(p - 1 > p)
    BY <1>2
  <2> QED BY <1>1, <2>1 DEF ReplaceSpan
<1>4. left \in Seq(Chars) /\ Len(left) = p - 1 /\ \A i \in 1..(p - 1) : left[i] = source[i]
  BY <1>1, <1>2
<1>5. right \in Seq(Chars) /\ Len(right) = n - p /\ \A i \in 1..(n - p) : right[i] = source[p + i]
  BY <1>1, <1>2
<1> HIDE DEF left, right
<1>6. /\ head \in Seq(Chars) /\ Len(head) = p
      /\ \A i \in 1..p : head[i] = IF i = p THEN new ELSE source[i]
  <2>1. PICK l \in Nat : l = p - 1 /\ l = Len(left) /\ l + 1 = p
    BY <1>2, <1>4
  <2>2. head \in Seq(Chars) /\ Len(head) = l + 1
    BY <1>4, <2>1
  <2>3. \A i \in 1..l : head[i] = source[i]
    BY <1>4, <2>1
  <2>4. head[l + 1] = new
    BY <1>4, <2>1
  <2> QED BY <2>1, <2>2, <2>3, <2>4
<1> HIDE DEF head
<1>7. PICK r \in Nat : r = n - p /\ r = Len(right) /\ p + r = n
  BY <1>2, <1>5
<1>8. joined \in Seq(Chars) /\ Len(joined) = n
  <2>1. PICK q \in Nat : q = Len(head) /\ q = p
    BY <1>2, <1>6
  <2>2. joined \in Seq(Chars)
    BY <1>5, <1>6
  <2>3. Len(joined) = Len(head) + Len(right)
    BY <1>5, <1>6, JoinedLength
  <2>4. Len(joined) = q + r
    <3> HIDE DEF joined
    <3> QED BY <1>7, <2>1, <2>3
  <2> QED BY <1>7, <2>1, <2>2, <2>4
<1>9. \A i \in 1..p : joined[i] = head[i]
  BY <1>2, <1>5, <1>6, <1>7
<1>10. \A i \in 1..r : joined[p + i] = right[i] /\ right[i] = source[p + i]
  BY <1>2, <1>5, <1>6, <1>7
<1>11. \A i \in 1..n : joined[i] = IF i = p THEN new ELSE source[i]
  <2> SUFFICES ASSUME NEW i \in 1..n
               PROVE  joined[i] = IF i = p THEN new ELSE source[i]
    OBVIOUS
  <2> HIDE DEF joined
  <2>1. CASE i \in 1..p
    BY <1>6, <1>9, <2>1
  <2>2. CASE i \notin 1..p
    <3>1. PICK j \in 1..r : i = p + j /\ i # p
      <4>1. i - p \in 1..r /\ i = p + (i - p) /\ i # p
        BY <1>2, <1>7, <2>2
      <4> QED BY <4>1
    <3> QED BY <1>10, <3>1
  <2> QED BY <2>1, <2>2
<1>12. joined = [i \in 1..n |-> joined[i]]
  <2>1. joined \in Seq(Chars) /\ Len(joined) = n
    BY <1>8
  <2> HIDE DEF joined
  <2>2. joined \in [1..n -> Chars]
    BY <2>1
  <2> QED BY <2>2
<1>13. [source EXCEPT ![p] = new] = [i \in 1..n |-> IF i = p THEN new ELSE source[i]]
  BY <1>2
<1> HIDE DEF joined
<1> QED BY <1>3, <1>11, <1>12, <1>13

\* Replacing an operand or operator, even in a comment, leaves the positions of
\* code.
LEMMA ReplacedCode ==
  ASSUME NEW source, source \in Seq(Chars), NEW p \in DOMAIN source,
         source[p] \in Operands \cup Operators, NEW new \in Operands \cup Operators
  PROVE  LET mutated == [source EXCEPT ![p] = new]
         IN  /\ mutated \in Seq(Chars)
             /\ Code(mutated) = Code(source)
             /\ CodeAt(mutated) = CodeAt(source)
<1> DEFINE mutated == [source EXCEPT ![p] = new]
<1>1. PICK n \in Nat : n = Len(source)
  OBVIOUS
<1>2. DOMAIN source = 1..n /\ p \in 1..n
  BY <1>1
<1>3. new \in Chars
  BY DEF Chars
<1>4. mutated \in Seq(Chars) /\ DOMAIN mutated = 1..n
  BY <1>2, <1>3
<1>5. \A i \in 1..n : mutated[i] = IF i = p THEN new ELSE source[i]
  BY <1>2
<1> HIDE DEF mutated
<1>6. \A i \in 1..n : /\ mutated[i] = Comment <=> source[i] = Comment
                      /\ mutated[i] = Newline <=> source[i] = Newline
                      /\ mutated[i] \in Operands \cup Operators <=> source[i] \in Operands \cup Operators
  BY <1>5 DEF Operands, Operators, Comment, Newline
<1>7. ASSUME NEW i \in 1..n
      PROVE  InComment(mutated, i) <=> InComment(source, i)
  <2>1. \A j \in 1..i : j \in 1..n /\ \A k \in j..i : k \in 1..n
    BY <1>1
  <2> QED BY <1>6, <2>1 DEF InComment
<1>8. Code(mutated) = Code(source)
  BY <1>2, <1>4, <1>6, <1>7 DEF Code
<1>9. CodeAt(mutated) = CodeAt(source)
  BY <1>8 DEF CodeAt, CodeRank
<1> QED BY <1>4, <1>8, <1>9 DEF mutated

\* What is replaced in a comment leaves no trace in the tree.
LEMMA CommentIsNoCode ==
  ASSUME NEW source, source \in Seq(Chars), NEW p \in DOMAIN source,
         source[p] \in Operands \cup Operators, NEW new \in Operands \cup Operators,
         InComment(source, p)
  PROVE  Dump([source EXCEPT ![p] = new]) = Dump(source)
<1> DEFINE mutated == [source EXCEPT ![p] = new]
           at == CodeAt(source)
<1>1. CodeAt(mutated) = at
  BY ReplacedCode
<1>2. \A k \in DOMAIN at : at[k] \in Code(source)
  BY CodeInOrder
<1>3. \A k \in DOMAIN at : mutated[at[k]] = source[at[k]]
  BY <1>2 DEF Code
<1> HIDE DEF mutated, at
<1>4. Dump(mutated) = [k \in DOMAIN at |-> mutated[at[k]]]
  BY <1>1 DEF Dump
<1>5. Dump(source) = [k \in DOMAIN at |-> source[at[k]]]
  BY DEF Dump, at
<1> QED BY <1>3, <1>4, <1>5 DEF mutated

\* Of a source that parses, operands and operators take turns, and the last is
\* an operand.
LEMMA CodeOfParsed ==
  ASSUME NEW source, source \in Seq(Chars), Parses(source)
  PROVE  LET at == CodeAt(source)
             n  == Cardinality(Code(source))
         IN  /\ n % 2 = 1
             /\ \A k \in 1..n : source[at[k]] \in IF k % 2 = 1 THEN Operands ELSE Operators
<1> DEFINE at == CodeAt(source)
           n == Cardinality(Code(source))
<1>1. n \in Nat /\ DOMAIN at = 1..n
  BY CodeInOrder
<1> HIDE DEF at, n
<1>2. Dump(source) = [k \in 1..n |-> source[at[k]]]
  BY <1>1 DEF Dump, at
<1>3. Cardinality(1..n) = n
  BY <1>1, FS_Interval
<1> QED BY <1>1, <1>2, <1>3 DEF Parses, at, n

\* An operand or operator that is replaced by another makes a mutant.
LEMMA CodeMutates ==
  ASSUME NEW source, source \in Seq(Chars), Parses(source),
         NEW p \in Code(source), NEW new, new # source[p],
         \/ source[p] \in Operands /\ new \in Operands
         \/ source[p] \in Operators /\ new \in Operators
  PROVE  IsSemantic(source, [source EXCEPT ![p] = new])
<1> DEFINE mutated == [source EXCEPT ![p] = new]
           at == CodeAt(source)
           n == Cardinality(Code(source))
<1>1. p \in DOMAIN source /\ source[p] \in Operands \cup Operators /\ new \in Operands \cup Operators
  BY DEF Code
<1>2. mutated \in Seq(Chars) /\ CodeAt(mutated) = at /\ Code(mutated) = Code(source)
  BY <1>1, ReplacedCode
<1>3. /\ n \in Nat /\ DOMAIN at = 1..n
      /\ \A k \in 1..n : at[k] \in Code(source)
      /\ \E k \in 1..n : at[k] = p
  BY CodeInOrder
<1>4. \A i \in Code(source) : mutated[i] = IF i = p THEN new ELSE source[i]
  BY DEF Code
<1>5. /\ n % 2 = 1
      /\ \A k \in 1..n : source[at[k]] \in IF k % 2 = 1 THEN Operands ELSE Operators
  BY CodeOfParsed
<1>6. mutated # Invalid
  <2>1. PICK l \in Nat : l = Len(source)
    OBVIOUS
  <2>2. 1 \in DOMAIN mutated
    BY <1>1, <2>1
  <2>3. mutated[1] \in Chars
    BY <1>2, <2>2
  <2>4. Invalid[1] \notin Chars
    BY DEF Invalid, Chars, Operands, Operators, Blank, Newline, Comment
  <2> QED BY <2>3, <2>4
<1> HIDE DEF mutated, at, n
<1>7. Dump(mutated) = [k \in 1..n |-> mutated[at[k]]]
  BY <1>2, <1>3 DEF Dump
<1>8. Dump(source) = [k \in 1..n |-> source[at[k]]]
  BY <1>3 DEF Dump, at
<1>9. Parses(mutated)
  <2>1. Cardinality(1..n) = n
    BY <1>3, FS_Interval
  <2>2. ASSUME NEW k \in 1..n
        PROVE  mutated[at[k]] \in IF k % 2 = 1 THEN Operands ELSE Operators
    <3>1. CASE at[k] = p
      <4>1. Operands \cap Operators = {}
        BY DEF Operands, Operators
      <4> QED BY <1>3, <1>4, <1>5, <3>1, <4>1
    <3>2. CASE at[k] # p
      BY <1>3, <1>4, <1>5, <3>2
    <3> QED BY <3>1, <3>2
  <2> QED BY <1>5, <1>7, <2>1, <2>2 DEF Parses
<1>10. Dump(source) # Dump(mutated)
  <2>1. PICK k \in 1..n : at[k] = p
    BY <1>3
  <2>2. Dump(mutated)[k] = new
    BY <1>3, <1>4, <1>7, <2>1
  <2>3. Dump(source)[k] = source[p]
    BY <1>8, <2>1
  <2> QED BY <2>2, <2>3
<1> QED BY <1>6, <1>9, <1>10 DEF IsSemantic, mutated

\* Around a site without wide characters every position is the parser's.
LEMMA NothingWide ==
  ASSUME NEW source, source \in Seq(Chars), NEW k \in DOMAIN CodeAt(source),
         ~WideNear(source, CodeAt(source)[k])
  PROVE  LET at   == CodeAt(source)
             from == at[IF k - 1 \in DOMAIN at THEN k - 1 ELSE k]
             to   == at[IF k + 1 \in DOMAIN at THEN k + 1 ELSE k]
         IN  \A j \in 1..(to - 1) : LineAt(source, j) >= LineAt(source, from) => source[j] # Wide
<1> DEFINE at == CodeAt(source)
<1>1. \A j \in DOMAIN at : at[j] = at[k] => j = k
  <2>1. PICK n \in Nat : /\ DOMAIN at = 1..n
                         /\ \A i, j \in 1..n : i < j => at[i] < at[j]
                         /\ \A j \in 1..n : at[j] \in Code(source)
    BY CodeInOrder
  <2>2. \A j \in 1..n : at[j] \in Nat
    <3>1. PICK l \in Nat : l = Len(source)
      OBVIOUS
    <3> QED BY <2>1, <3>1, CodeIsFinite
  <2> SUFFICES ASSUME NEW j \in 1..n, at[j] = at[k]
               PROVE  j = k
    BY <2>1
  <2> HIDE DEF at
  <2>3. k \in 1..n
    BY <2>1 DEF at
  <2>4. ~(at[j] < at[k]) /\ ~(at[k] < at[j])
    BY <2>2, <2>3
  <2> QED BY <2>1, <2>3, <2>4
<1>2. (CHOOSE j \in DOMAIN at : at[j] = at[k]) = k
  BY <1>1
<1> QED BY <1>2 DEF WideNear

\* A character that ends no line is on the line before it.
LEMMA SameLine ==
  ASSUME NEW source, source \in Seq(Chars), NEW i \in DOMAIN source, source[i] # Newline
  PROVE  LineAt(source, i) = LineAt(source, i - 1)
<1>1. PICK n \in Nat : n = Len(source)
  OBVIOUS
<1>2. i \in 1..n
  BY <1>1
<1>3. {j \in 1..i : source[j] = Newline} = {j \in 1..(i - 1) : source[j] = Newline}
  <2> SUFFICES ASSUME NEW j \in 1..i, source[j] = Newline
               PROVE  j \in 1..(i - 1)
    BY <1>2
  <2>1. j # i
    OBVIOUS
  <2> QED BY <1>2, <2>1
<1> QED BY <1>3 DEF LineAt, NewlinesBefore

\* A constant is replaced where it stands.
LEMMA ConstantIsReplaced ==
  ASSUME NEW source, source \in Seq(Chars), Parses(source),
         NEW k \in DOMAIN CodeAt(source), NEW site \in ConstantSites(source, k),
         ~WideNear(source, site.at)
  PROVE  Applied(source, site) = Intended(source, site) /\ ~InCommentFirst(source, site)
<1> DEFINE at == CodeAt(source)
           i == at[k]
<1>1. PICK n \in Nat : n = Len(source)
  OBVIOUS
<1>2. i \in Code(source) /\ DOMAIN at \subseteq Nat /\ \A j \in DOMAIN at : at[j] \in Code(source)
  BY CodeInOrder
<1>3. i \in DOMAIN source /\ i \in 1..n /\ Code(source) \subseteq 1..n
  BY <1>1, <1>2, CodeIsFinite
<1>4. /\ source[i] = "1"
      /\ site.at = i /\ site.new = "2"
      /\ site.start = AstPosition(source, i - 1) /\ site.end = AstPosition(source, i)
  BY DEF ConstantSites
<1> DEFINE from == at[IF k - 1 \in DOMAIN at THEN k - 1 ELSE k]
           to == at[IF k + 1 \in DOMAIN at THEN k + 1 ELSE k]
<1>5. \A j \in 1..(to - 1) : LineAt(source, j) >= LineAt(source, from) => source[j] # Wide
  BY <1>4, NothingWide
<1>6. from <= i /\ i <= to /\ from \in 1..n /\ to \in 1..n
  <2>1. \A a, b \in DOMAIN at : a < b => at[a] < at[b]
    BY CodeInOrder
  <2>2. from \in Code(source) /\ to \in Code(source)
    BY <1>2
  <2>3. from \in 1..n /\ to \in 1..n
    BY <1>3, <2>2
  <2>4. k \in Nat /\ k - 1 < k /\ k < k + 1
    BY <1>2
  <2>5. from < i \/ from = i
    BY <2>1, <2>4
  <2>6. i < to \/ i = to
    BY <2>1, <2>4
  <2> HIDE DEF from, to, i
  <2> QED BY <1>3, <2>3, <2>5, <2>6
<1> HIDE DEF from, to, i, at
<1>7. LineAt(source, i) = LineAt(source, i - 1)
  <2>1. source[i] # Newline
    BY <1>4 DEF Newline
  <2> QED BY <1>3, <2>1, SameLine
<1>8. LineAt(source, i) \in Nat /\ LineAt(source, from) <= LineAt(source, i) /\ LineAt(source, from) \in Nat
  <2>1. i \in 0..Len(source) /\ from \in 0..i
    BY <1>1, <1>3, <1>6
  <2> QED BY <2>1, LinesGrow
<1>9. \A j \in 1..(i - 1) : LineAt(source, j) >= LineAt(source, i) => source[j] # Wide
  <2> SUFFICES ASSUME NEW j \in 1..(i - 1), LineAt(source, j) >= LineAt(source, i)
               PROVE  source[j] # Wide
    OBVIOUS
  <2>1. j \in 1..(to - 1) /\ j \in 0..i /\ i \in 0..Len(source)
    BY <1>1, <1>3, <1>6
  <2>2. LineAt(source, j) \in Nat
    BY <2>1, LinesGrow
  <2>3. LineAt(source, j) >= LineAt(source, from)
    BY <1>8, <2>2
  <2> QED BY <1>5, <2>1, <2>3
<1>10. OffsetAt(source, site.start) = i - 1
  <2>1. i - 1 \in 0..Len(source)
    BY <1>1, <1>3
  <2> QED BY <1>4, <1>7, <1>9, <2>1, OffsetOfAst
<1>11. OffsetAt(source, site.end) = i
  <2>1. i \in 0..Len(source)
    BY <1>1, <1>3
  <2>2. source[i] # Wide
    BY <1>4 DEF Wide
  <2>3. \A j \in 1..i : j # i => j \in 1..(i - 1)
    BY <1>3
  <2> QED BY <1>4, <1>9, <2>1, <2>2, <2>3, OffsetOfAst
<1>12. ReplaceSpan(source, site.start, site.end, <<site.new>>) = [source EXCEPT ![i] = "2"]
  <2>1. "2" \in Chars
    BY DEF Chars, Operands
  <2> QED BY <1>3, <1>4, <1>10, <1>11, <2>1, SpanOfOne
<1>13. IsSemantic(source, [source EXCEPT ![i] = "2"])
  <2>1. source[i] \in Operands /\ "2" \in Operands /\ "2" # source[i]
    BY <1>4 DEF Operands
  <2>2. i \in Code(source)
    BY <1>2 DEF i, at
  <2> QED BY <2>1, <2>2, CodeMutates
<1>14. ~InCommentFirst(source, site)
  BY <1>4 DEF InCommentFirst, Operators
<1> QED BY <1>4, <1>12, <1>13, <1>14 DEF Applied, Intended

\* A comparison is replaced where it stands, or, if a comment between its
\* operands holds the operator before it does, there, which changes nothing.
LEMMA ComparisonIsReplaced ==
  ASSUME NEW source, source \in Seq(Chars), Parses(source),
         NEW k \in DOMAIN CodeAt(source), k % 2 = 0,
         NEW site \in ComparisonSites(source, k), ~WideNear(source, site.at)
  PROVE  Applied(source, site) =
           IF InCommentFirst(source, site) THEN Invalid ELSE Intended(source, site)
<1> DEFINE at == CodeAt(source)
           a == at[k - 1]
           b == at[k]
           c == at[k + 1]
<1>1. PICK n \in Nat : n = Len(source)
  OBVIOUS
<1>2. k - 1 \in DOMAIN at /\ k + 1 \in DOMAIN at /\ source[a] \in Operands
  <2>1. PICK m \in Nat : /\ m = Cardinality(Code(source)) /\ DOMAIN at = 1..m
    BY CodeInOrder
  <2>2. m % 2 = 1 /\ \A j \in 1..m : source[at[j]] \in IF j % 2 = 1 THEN Operands ELSE Operators
    BY <2>1, CodeOfParsed
  <2>3. k \in 1..m
    BY <2>1
  <2>4. k - 1 \in 1..m /\ k + 1 \in 1..m /\ (k - 1) % 2 = 1
    BY <2>2, <2>3
  <2> QED BY <2>1, <2>2, <2>4
<1>3. /\ a \in Code(source) /\ b \in Code(source) /\ c \in Code(source)
      /\ a < b /\ b < c
      /\ \A i \in Code(source) : ~(a < i /\ i < b)
  <2>1. PICK m \in Nat : /\ DOMAIN at = 1..m
                         /\ \A j \in 1..m : at[j] \in Code(source)
                         /\ \A i, j \in 1..m : i < j => at[i] < at[j]
                         /\ \A i, j \in 1..m : \A o \in Code(source) :
                              j = i + 1 => ~(at[i] < o /\ o < at[j])
    BY CodeInOrder
  <2>2. k - 1 \in 1..m /\ k \in 1..m /\ k + 1 \in 1..m
    BY <1>2, <2>1
  <2>3. k - 1 < k /\ k < k + 1 /\ k = (k - 1) + 1
    BY <2>2
  <2> HIDE DEF at
  <2> QED BY <2>1, <2>2, <2>3
<1>4. a \in 1..n /\ b \in 1..n /\ c \in 1..n /\ Code(source) \subseteq 1..n /\ DOMAIN source = 1..n
  BY <1>1, <1>3, CodeIsFinite
<1> DEFINE begin == OffsetAt(source, AstPosition(source, a))
           end == OffsetAt(source, AstPosition(source, c - 1))
           token == source[b]
           new == Swapped[token]
           found == TokenAt(source, begin, end, token)
           q == Min(found)
<1>5. /\ site.at = b /\ site.new = new
      /\ site.start = LineColAt(source, q) /\ site.end = LineColAt(source, q + 1)
  BY DEF ComparisonSites
<1>5a. token \in Operators /\ new \in Operators /\ new # token
      /\ token \in Holding(token) /\ Holding(token) \subseteq Operators
  <2>1. token \in Operators
    <3>1. PICK m \in Nat : m = Cardinality(Code(source)) /\ DOMAIN at = 1..m
      BY CodeInOrder
    <3>2. k \in 1..m
      BY <3>1
    <3>3. k % 2 # 1
      BY <3>2
    <3> QED BY <3>1, <3>2, <3>3, CodeOfParsed
  <2> QED BY <2>1 DEF Swapped, Holding, Operators
<1> DEFINE from == at[IF k - 1 \in DOMAIN at THEN k - 1 ELSE k]
           to == at[IF k + 1 \in DOMAIN at THEN k + 1 ELSE k]
<1>6. \A j \in 1..(c - 1) : LineAt(source, j) >= LineAt(source, a) => source[j] # Wide
  <2>1. \A j \in 1..(to - 1) : LineAt(source, j) >= LineAt(source, from) => source[j] # Wide
    BY <1>5, NothingWide
  <2>2. from = a /\ to = c
    BY <1>2
  <2> HIDE DEF from, to
  <2> QED BY <2>1, <2>2
<1>5b. token = source[b]
  OBVIOUS
<1> HIDE DEF a, b, c, at, found, begin, end, q, token, new
<1>7. begin = a
  <2>1. a \in 0..Len(source) /\ \A i \in 1..a : i \in 1..(c - 1)
    BY <1>1, <1>3, <1>4
  <2> QED BY <1>6, <2>1, OffsetOfAst DEF begin
<1>8. end = c - 1
  <2>1. c - 1 \in 0..Len(source) /\ a \in 0..(c - 1)
    BY <1>1, <1>3, <1>4
  <2>2. LineAt(source, a) <= LineAt(source, c - 1) /\ LineAt(source, a) \in Nat /\ LineAt(source, c - 1) \in Nat
    BY <2>1, LinesGrow
  <2>3. ASSUME NEW i \in 1..(c - 1), LineAt(source, i) >= LineAt(source, c - 1)
        PROVE  source[i] # Wide
    <3>1. i \in 0..(c - 1)
      BY <1>4
    <3>2. LineAt(source, i) \in Nat
      BY <2>1, <3>1, LinesGrow
    <3>3. LineAt(source, i) >= LineAt(source, a)
      BY <2>2, <2>3, <3>2
    <3> QED BY <1>6, <3>3
  <2> QED BY <2>1, <2>3, OffsetOfAst DEF end
<1>9. found = {o \in a..((c - 1) - 1) : source[o + 1] \in Holding(token)}
  BY <1>7, <1>8 DEF found, TokenAt
<1>10. q \in found /\ \A o \in found : q <= o
  <2>1. found \subseteq 0..n
    BY <1>4, <1>9
  <2>2. b - 1 \in found
    <3>1. b - 1 \in a..((c - 1) - 1) /\ (b - 1) + 1 = b
      BY <1>3, <1>4
    <3> QED BY <1>9, <1>5a, <1>5b, <3>1
  <2> QED BY <2>1, <2>2, MinIsLeast DEF q
<1>11. PICK p \in 1..n : p = q + 1 /\ q = p - 1 /\ a < p /\ p < c /\ source[p] \in Holding(token)
  <2>1. q \in a..((c - 1) - 1) /\ source[q + 1] \in Holding(token)
    BY <1>9, <1>10
  <2>2. q + 1 \in 1..n /\ a < q + 1 /\ q + 1 < c /\ q = (q + 1) - 1
    BY <1>4, <2>1
  <2> QED BY <2>1, <2>2
<1>12. \A j \in 1..n : a < j /\ j < c /\ source[j] \in Holding(token) => p <= j
  <2> SUFFICES ASSUME NEW j \in 1..n, a < j, j < c, source[j] \in Holding(token)
               PROVE  p <= j
    OBVIOUS
  <2>1. j - 1 \in a..((c - 1) - 1) /\ (j - 1) + 1 = j
    BY <1>4
  <2>2. j - 1 \in found
    BY <1>9, <2>1
  <2>3. q <= j - 1
    BY <1>10, <2>2
  <2> QED BY <1>11, <2>3
<1>13. p <= b
  BY <1>3, <1>4, <1>12, <1>5a, <1>5b
<1> DEFINE mutated == [source EXCEPT ![p] = new]
<1>14. ReplaceSpan(source, site.start, site.end, <<site.new>>) = mutated
  <2>1. p - 1 \in 0..Len(source) /\ p \in 0..Len(source) /\ p \in DOMAIN source
    BY <1>1, <1>4
  <2>2. OffsetAt(source, site.start) = p - 1
    BY <1>5, <1>11, <2>1, OffsetOfLineCol
  <2>3. OffsetAt(source, site.end) = p
    BY <1>5, <1>11, <2>1, OffsetOfLineCol
  <2>4. new \in Chars
    BY <1>5a DEF Chars
  <2> QED BY <1>5, <2>1, <2>2, <2>3, <2>4, SpanOfOne
<1>15. \A j \in 1..n : source[j] \in Holding(token) /\ j \notin Code(source) => InComment(source, j)
  BY <1>4, <1>5a DEF Code
<1>16. CASE p = b
  <2>1. IsSemantic(source, mutated)
    <3>1. source[p] \in Operators /\ new \in Operators /\ new # source[p]
      BY <1>16, <1>5a, <1>5b
    <3> QED BY <1>3, <1>16, <3>1, CodeMutates
  <2>2. ASSUME InCommentFirst(source, site)
        PROVE  FALSE
    <3>1. PICK j \in 1..(b - 1) :
            /\ source[j] \in Holding(token) /\ InComment(source, j)
            /\ \A i \in j..(b - 1) : source[i] \in Operands => InComment(source, i)
      BY <1>5, <1>5b, <2>2 DEF InCommentFirst
    <3>2. j \in 1..n /\ j < c
      BY <1>3, <1>4
    <3>3. CASE a < j
      <4>1. p <= j
        BY <1>12, <3>1, <3>2, <3>3
      <4> QED BY <1>4, <1>16, <4>1
    <3>4. CASE ~(a < j)
      <4>1. a \in j..(b - 1)
        BY <1>3, <1>4, <3>4
      <4>2. InComment(source, a)
        BY <1>2, <3>1, <4>1 DEF a, at
      <4> QED BY <1>3, <4>2 DEF Code
    <3> QED BY <3>3, <3>4
  <2> QED BY <1>5, <1>14, <1>16, <2>1, <2>2 DEF Applied, Intended
<1>17. CASE p # b
  <2>1. p < b
    BY <1>4, <1>13, <1>17
  <2>2. \A i \in p..(b - 1) : i \in 1..n /\ i \notin Code(source)
    <3> SUFFICES ASSUME NEW i \in p..(b - 1)
                 PROVE  i \in 1..n /\ i \notin Code(source)
      OBVIOUS
    <3>1. i \in 1..n /\ a < i /\ i < b
      BY <1>4, <1>11
    <3> QED BY <1>3, <3>1
  <2>3. p \in p..(b - 1) /\ p \in 1..(b - 1)
    BY <1>4, <2>1
  <2>4. InComment(source, p)
    BY <1>11, <1>15, <2>2, <2>3
  <2>5. InCommentFirst(source, site)
    <3>1. \A i \in p..(b - 1) : source[i] \in Operands => InComment(source, i)
      BY <1>4, <2>2 DEF Code
    <3>2. source[b] \in Operators
      BY <1>5a, <1>5b
    <3> QED BY <1>5, <1>11, <1>5b, <2>3, <2>4, <3>1, <3>2 DEF InCommentFirst
  <2>6. Dump(mutated) = Dump(source)
    <3>1. p \in DOMAIN source /\ source[p] \in Operators /\ new \in Operators
      BY <1>4, <1>11, <1>5a
    <3> QED BY <2>4, <3>1, CommentIsNoCode
  <2> HIDE DEF mutated
  <2> QED BY <1>14, <2>5, <2>6 DEF Applied, IsSemantic
<1> QED BY <1>16, <1>17

\* In any source, a mutant changes the operator or constant it was listed for
\* and nothing else, or it is invalid since a comment holds the operator first,
\* unless a character of several bytes stands before it.
THEOREM MutantsAreTheirSites == Spec => []MutantIsItsSite
<1>1. Computed => MutantIsItsSite
  <2> SUFFICES ASSUME Computed, step = "mutate", NEW m \in output, ~WideNear(input, m.site.at)
               PROVE  m.text = IF InCommentFirst(input, m.site) THEN Invalid ELSE Intended(input, m.site)
    BY DEF MutantIsItsSite
  <2>1. input \in SourceTexts
        /\ output = {[site |-> site, text |-> Applied(input, site)] : site \in ListMutations(input)}
    BY DEF Computed
  <2>2. PICK site \in ListMutations(input) : m = [site |-> site, text |-> Applied(input, site)]
    BY <2>1
  <2>3. input \in Seq(Chars) /\ Parses(input) /\ site \in Sites(input) /\ ~WideNear(input, site.at)
    BY <2>1, <2>2, AnalysisAssumption DEF ListMutations
  <2>4. PICK k \in DOMAIN CodeAt(input) :
          site \in IF k % 2 = 0 THEN ComparisonSites(input, k) ELSE ConstantSites(input, k)
    BY <2>3 DEF Sites
  <2>5. Applied(input, site) = IF InCommentFirst(input, site) THEN Invalid ELSE Intended(input, site)
    <3>1. CASE k % 2 = 0
      BY <2>3, <2>4, <3>1, ComparisonIsReplaced
    <3>2. CASE k % 2 # 0
      BY <2>3, <2>4, <3>2, ConstantIsReplaced
    <3> QED BY <3>1, <3>2
  <2> QED BY <2>2, <2>5
<1> QED BY <1>1, AlwaysComputed, PTL
-----------------------------------------------------------------------------
(* Diffs.                                                                  *)

\* Induction up to n, for a set of numbers.
LEMMA IndexInduction ==
  ASSUME NEW n \in Nat, NEW P, 0 \in P, \A i \in 1..n : i - 1 \in P => i \in P
  PROVE  \A i \in 0..n : i \in P
<1> DEFINE rest == {i \in 0..n : i \notin P}
<1> SUFFICES ASSUME rest # {}
             PROVE  FALSE
  OBVIOUS
<1>1. rest \subseteq 0..n
  OBVIOUS
<1>2. PICK m \in rest : \A j \in rest : m <= j
  <2> HIDE DEF rest
  <2> QED BY <1>1, MinIsLeast
<1>3. m \in 1..n
  BY <1>2
<1>4. m - 1 \in 0..n /\ m - 1 \notin rest
  BY <1>2, <1>3
<1> QED BY <1>2, <1>3, <1>4

\* A loop goes through the states g on its way over the text of n pieces.
Course(loop, diff, s, text, n, g) ==
  g[0] = s /\ \A i \in 1..n : g[i] = Scan(loop, diff, g[i - 1], text[i])

\* Every loop has such a course, and ends where it leads.
LEMMA ScanTrace ==
  ASSUME NEW loop, NEW diff, NEW s, NEW text, NEW n \in Nat, Len(text) = n
  PROVE  \E g : Course(loop, diff, s, text, n, g) /\ Scanned(loop, diff, s, text) = g[n]
<1> DEFINE Goes(k, g) == g = [i \in 0..k |-> IF i = 0 THEN s ELSE Scan(loop, diff, g[i - 1], text[i])]
           P == {k \in 0..n : \E g : Goes(k, g)}
<1>1. 0 \in P
  <2>1. Goes(0, [i \in 0..0 |-> s])
    <3>1. \A i \in 0..0 : i = 0
      OBVIOUS
    <3> QED BY <3>1
  <2>2. 0 \in 0..n
    OBVIOUS
  <2> HIDE DEF Goes
  <2> QED BY <2>1, <2>2
<1>2. ASSUME NEW k \in 1..n, k - 1 \in P
      PROVE  k \in P
  <2>1. PICK g : Goes(k - 1, g)
    BY <1>2
  <2> DEFINE h == [i \in 0..k |-> IF i = k THEN Scan(loop, diff, g[k - 1], text[k]) ELSE g[i]]
  <2>2. \A i \in 0..(k - 1) : g[i] = IF i = 0 THEN s ELSE Scan(loop, diff, g[i - 1], text[i])
    BY <2>1
  <2>3. ASSUME NEW i \in 0..k
        PROVE  h[i] = IF i = 0 THEN s ELSE Scan(loop, diff, h[i - 1], text[i])
    <3>1. CASE i = k
      <4>1. k # 0 /\ k - 1 \in 0..k /\ k - 1 # k
        OBVIOUS
      <4>2. h[k - 1] = g[k - 1]
        BY <4>1
      <4> QED BY <3>1, <4>1, <4>2
    <3>2. CASE i = 0
      BY <2>2, <3>2
    <3>3. CASE i # k /\ i # 0
      <4>1. i \in 0..(k - 1) /\ i - 1 \in 0..k /\ i - 1 # k
        BY <3>3
      <4>2. h[i] = g[i] /\ h[i - 1] = g[i - 1]
        BY <3>3, <4>1
      <4> QED BY <2>2, <3>3, <4>1, <4>2
    <3> QED BY <3>1, <3>2, <3>3
  <2>4. h = [i \in 0..k |-> h[i]]
    OBVIOUS
  <2>5. Goes(k, h)
    <3> HIDE DEF h
    <3> QED BY <2>3, <2>4
  <2>6. k \in 0..n
    OBVIOUS
  <2> QED BY <2>5, <2>6
<1>3. n \in P
  <2> HIDE DEF P
  <2>1. \A i \in 0..n : i \in P
    BY <1>1, <1>2, IndexInduction
  <2> QED BY <2>1
<1> DEFINE after[i \in 0..Len(text)] == IF i = 0 THEN s ELSE Scan(loop, diff, after[i - 1], text[i])
<1>4. Goes(n, after)
  BY <1>3
<1>5. Scanned(loop, diff, s, text) = after[n]
  BY DEF Scanned
<1> HIDE DEF after
<1>6. after[0] = s /\ \A i \in 1..n : after[i] = Scan(loop, diff, after[i - 1], text[i])
  <2>1. 0 \in 0..n /\ \A i \in 1..n : i \in 0..n /\ i # 0
    OBVIOUS
  <2> QED BY <1>4, <2>1
<1>7. Course(loop, diff, s, text, n, after)
  BY <1>6 DEF Course
<1> QED BY <1>5, <1>7

\* Whatever goes through these states comes to the end of the loop.
LEMMA ScanIs ==
  ASSUME NEW loop, NEW diff, NEW s, NEW text, NEW n \in Nat, Len(text) = n,
         NEW g, Course(loop, diff, s, text, n, g)
  PROVE  Scanned(loop, diff, s, text) = g[n]
<1>1. PICK h : Course(loop, diff, s, text, n, h) /\ Scanned(loop, diff, s, text) = h[n]
  BY ScanTrace
<1> DEFINE P == {i \in 0..n : h[i] = g[i]}
<1>2. 0 \in P
  BY <1>1 DEF Course
<1>3. \A i \in 1..n : i - 1 \in P => i \in P
  BY <1>1 DEF Course
<1>4. n \in P
  <2> HIDE DEF P
  <2>1. \A i \in 0..n : i \in P
    BY <1>2, <1>3, IndexInduction
  <2> QED BY <2>1
<1> QED BY <1>1, <1>4

\* The text AB has the parts A and B.
Parts(A, a, B, b, AB) ==
  /\ Len(A) = a /\ Len(B) = b /\ Len(AB) = a + b
  /\ \A i \in 1..a : AB[i] = A[i]
  /\ \A i \in 1..b : AB[a + i] = B[i]

\* Courses over the parts make one over the whole.
LEMMA ScanParts ==
  ASSUME NEW loop, NEW diff, NEW s, NEW A, NEW B, NEW AB, NEW a \in Nat, NEW b \in Nat,
         Parts(A, a, B, b, AB),
         NEW g, Course(loop, diff, s, A, a, g), NEW h, Course(loop, diff, g[a], B, b, h)
  PROVE  Scanned(loop, diff, s, AB) = h[b]
<1> DEFINE both == [i \in 0..(a + b) |-> IF i <= a THEN g[i] ELSE h[i - a]]
<1>4. both[0] = s
  BY DEF Course
<1>5. ASSUME NEW i \in 1..(a + b)
      PROVE  both[i] = Scan(loop, diff, both[i - 1], AB[i])
  <2>1. CASE i <= a
    <3>1. i \in 1..a /\ i - 1 <= a /\ i - 1 \in 0..(a + b) /\ i \in 0..(a + b)
      BY <2>1
    <3>2. both[i] = g[i] /\ both[i - 1] = g[i - 1]
      BY <2>1, <3>1
    <3> QED BY <3>1, <3>2 DEF Course, Parts
  <2>2. CASE ~(i <= a)
    <3>1. PICK j \in 1..b : i = a + j
      <4>1. i - a \in 1..b /\ i = a + (i - a)
        BY <2>2
      <4> QED BY <4>1
    <3>2. both[i] = h[j]
      BY <2>2, <3>1
    <3>3. both[i - 1] = h[j - 1]
      <4>1. CASE j = 1
        <5>1. i - 1 = a /\ j - 1 = 0 /\ a \in 0..(a + b) /\ a <= a
          BY <3>1, <4>1
        <5>2. both[a] = g[a]
          BY <5>1
        <5> QED BY <5>1, <5>2 DEF Course
      <4>2. CASE j # 1
        <5>1. i - 1 \in 0..(a + b) /\ ~(i - 1 <= a) /\ (i - 1) - a = j - 1
          BY <3>1, <4>2
        <5> QED BY <5>1
      <4> QED BY <4>1, <4>2
    <3> QED BY <3>1, <3>2, <3>3 DEF Course, Parts
  <2> QED BY <2>1, <2>2
<1>6. both[a + b] = h[b]
  <2>1. CASE b = 0
    BY <2>1 DEF Course
  <2>2. CASE b # 0
    <3>1. a + b \in 0..(a + b) /\ ~(a + b <= a) /\ (a + b) - a = b
      BY <2>2
    <3> QED BY <3>1
  <2> QED BY <2>1, <2>2
<1> HIDE DEF both
<1>7. PICK n \in Nat : n = a + b
  OBVIOUS
<1>8. Len(AB) = n /\ Course(loop, diff, s, AB, n, both)
  BY <1>4, <1>5, <1>7 DEF Course, Parts
<1>9. Scanned(loop, diff, s, AB) = both[n]
  BY <1>8, ScanIs
<1> QED BY <1>6, <1>7, <1>9

\* So does it over two texts that are joined.
LEMMA ScanJoined ==
  ASSUME NEW loop, NEW diff, NEW s, NEW S, NEW A \in Seq(S), NEW B \in Seq(S)
  PROVE  Scanned(loop, diff, s, A \o B) = Scanned(loop, diff, Scanned(loop, diff, s, A), B)
<1>1. PICK a \in Nat : Len(A) = a
  OBVIOUS
<1>2. PICK b \in Nat : Len(B) = b
  OBVIOUS
<1>3. Len(A \o B) = a + b
  BY <1>1, <1>2
<1>4. \A i \in 1..a : (A \o B)[i] = A[i]
  BY <1>1, <1>2
<1>5. \A i \in 1..b : (A \o B)[a + i] = B[i]
  BY <1>1, <1>2
<1> DEFINE AB == A \o B
<1> HIDE DEF AB
<1>6. Parts(A, a, B, b, AB)
  BY <1>1, <1>2, <1>3, <1>4, <1>5 DEF AB, Parts
<1>7. PICK g : Course(loop, diff, s, A, a, g) /\ Scanned(loop, diff, s, A) = g[a]
  BY <1>1, ScanTrace
<1>8. PICK h : Course(loop, diff, g[a], B, b, h) /\ Scanned(loop, diff, g[a], B) = h[b]
  BY <1>2, ScanTrace
<1>9. Scanned(loop, diff, s, AB) = h[b]
  BY <1>6, <1>7, <1>8, ScanParts
<1> QED BY <1>7, <1>8, <1>9 DEF AB

\* The texts that are joined, one after the other.
LEMMA JoinedTrace ==
  ASSUME NEW texts, NEW n \in Nat, Len(texts) = n
  PROVE  \E g : /\ g[0] = <<>>
                /\ \A i \in 1..n : g[i] = g[i - 1] \o texts[i]
                /\ Joined(texts) = g[n]
<1> DEFINE Goes(k, g) == g = [i \in 0..k |-> IF i = 0 THEN <<>> ELSE g[i - 1] \o texts[i]]
           P == {k \in 0..n : \E g : Goes(k, g)}
<1>1. 0 \in P
  <2>1. Goes(0, [i \in 0..0 |-> <<>>])
    <3>1. \A i \in 0..0 : i = 0
      OBVIOUS
    <3> QED BY <3>1
  <2>2. 0 \in 0..n
    OBVIOUS
  <2> HIDE DEF Goes
  <2> QED BY <2>1, <2>2
<1>2. ASSUME NEW k \in 1..n, k - 1 \in P
      PROVE  k \in P
  <2>1. PICK g : Goes(k - 1, g)
    BY <1>2
  <2> DEFINE h == [i \in 0..k |-> IF i = k THEN g[k - 1] \o texts[k] ELSE g[i]]
  <2>2. \A i \in 0..(k - 1) : g[i] = IF i = 0 THEN <<>> ELSE g[i - 1] \o texts[i]
    BY <2>1
  <2>3. ASSUME NEW i \in 0..k
        PROVE  h[i] = IF i = 0 THEN <<>> ELSE h[i - 1] \o texts[i]
    <3>1. CASE i = k
      <4>1. k # 0 /\ k - 1 \in 0..k /\ k - 1 # k
        OBVIOUS
      <4>2. h[k - 1] = g[k - 1]
        BY <4>1
      <4> QED BY <3>1, <4>1, <4>2
    <3>2. CASE i = 0
      BY <2>2, <3>2
    <3>3. CASE i # k /\ i # 0
      <4>1. i \in 0..(k - 1) /\ i - 1 \in 0..k /\ i - 1 # k
        BY <3>3
      <4>2. h[i] = g[i] /\ h[i - 1] = g[i - 1]
        BY <3>3, <4>1
      <4> QED BY <2>2, <3>3, <4>1, <4>2
    <3> QED BY <3>1, <3>2, <3>3
  <2>4. h = [i \in 0..k |-> h[i]]
    OBVIOUS
  <2>5. Goes(k, h)
    <3> HIDE DEF h
    <3> QED BY <2>3, <2>4
  <2>6. k \in 0..n
    OBVIOUS
  <2> QED BY <2>5, <2>6
<1>3. n \in P
  <2> HIDE DEF P
  <2>1. \A i \in 0..n : i \in P
    BY <1>1, <1>2, IndexInduction
  <2> QED BY <2>1
<1> DEFINE upto[i \in 0..Len(texts)] == IF i = 0 THEN <<>> ELSE upto[i - 1] \o texts[i]
<1>4. Goes(n, upto)
  BY <1>3
<1>5. Joined(texts) = upto[n]
  BY DEF Joined
<1> HIDE DEF upto
<1>6. upto[0] = <<>> /\ \A i \in 1..n : upto[i] = upto[i - 1] \o texts[i]
  <2>1. 0 \in 0..n /\ \A i \in 1..n : i \in 0..n /\ i # 0
    OBVIOUS
  <2> QED BY <1>4, <2>1
<1> QED BY <1>5, <1>6

\* n texts of one piece each.
OnePiece(texts, n, p) == Len(texts) = n /\ \A i \in 1..n : texts[i] = <<p>>

\* They are joined to as many pieces.
LEMMA JoinedPieces ==
  ASSUME NEW texts, NEW n \in Nat, NEW p, OnePiece(texts, n, p)
  PROVE  Joined(texts) = [i \in 1..n |-> p]
<1>0. Len(texts) = n /\ \A i \in 1..n : texts[i] = <<p>>
  BY DEF OnePiece
<1>1. PICK g : /\ g[0] = <<>>
               /\ \A i \in 1..n : g[i] = g[i - 1] \o texts[i]
               /\ Joined(texts) = g[n]
  BY <1>0, JoinedTrace
<1> DEFINE P == {k \in 0..n : g[k] = [i \in 1..k |-> p]}
<1>2. 0 \in P
  BY <1>1
<1>3. ASSUME NEW k \in 1..n, k - 1 \in P
      PROVE  k \in P
  <2>1. PICK m \in Nat : m = k - 1 /\ k = m + 1
    OBVIOUS
  <2>2. g[k] = [i \in 1..m |-> p] \o <<p>>
    BY <1>0, <1>1, <1>3, <2>1
  <2>3. [i \in 1..m |-> p] \o <<p>> = [i \in 1..(m + 1) |-> p]
    BY <2>1
  <2> QED BY <2>1, <2>2, <2>3
<1>4. n \in P
  <2> HIDE DEF P
  <2>1. \A i \in 0..n : i \in P
    BY <1>2, <1>3, IndexInduction
  <2> QED BY <2>1
<1> QED BY <1>1, <1>4

\* A loop goes through the states t on its way over n texts.
TextCourse(loop, diff, s, texts, n, t) ==
  t[0] = s /\ \A i \in 1..n : t[i] = Scanned(loop, diff, t[i - 1], texts[i])

\* An empty text changes nothing.
LEMMA ScanNothing ==
  ASSUME NEW loop, NEW diff, NEW s
  PROVE  Scanned(loop, diff, s, <<>>) = s
<1>1. Len(<<>>) = 0 /\ 0 \in Nat
  OBVIOUS
<1>2. PICK g : Course(loop, diff, s, <<>>, 0, g) /\ Scanned(loop, diff, s, <<>>) = g[0]
  BY <1>1, ScanTrace
<1> QED BY <1>2 DEF Course

\* n texts of pieces from S.
TextsOver(texts, n, S) == Len(texts) = n /\ \A i \in 1..n : texts[i] \in Seq(S)

\* Every loop has such a course over texts of pieces from one set.
LEMMA ScanTexts ==
  ASSUME NEW loop, NEW diff, NEW s, NEW S, NEW texts, NEW n \in Nat, TextsOver(texts, n, S)
  PROVE  /\ Joined(texts) \in Seq(S)
         /\ \E t : TextCourse(loop, diff, s, texts, n, t) /\ Scanned(loop, diff, s, Joined(texts)) = t[n]
<1>1. PICK g : /\ g[0] = <<>>
               /\ \A i \in 1..n : g[i] = g[i - 1] \o texts[i]
               /\ Joined(texts) = g[n]
  BY JoinedTrace DEF TextsOver
<1> DEFINE P == {k \in 0..n : g[k] \in Seq(S)}
           t == [k \in 0..n |-> Scanned(loop, diff, s, g[k])]
<1>2. 0 \in P
  <2>1. <<>> \in Seq(S) /\ 0 \in 0..n
    OBVIOUS
  <2> QED BY <1>1, <2>1
<1>3. ASSUME NEW k \in 1..n, k - 1 \in P
      PROVE  k \in P
  <2>1. g[k] = g[k - 1] \o texts[k] /\ texts[k] \in Seq(S) /\ k \in 0..n
    BY <1>1 DEF TextsOver
  <2>2. g[k - 1] \in Seq(S)
    BY <1>3
  <2>3. g[k - 1] \o texts[k] \in Seq(S)
    BY <2>1, <2>2
  <2> QED BY <2>1, <2>3
<1>4. \A k \in 0..n : g[k] \in Seq(S)
  <2> HIDE DEF P
  <2>1. \A i \in 0..n : i \in P
    BY <1>2, <1>3, IndexInduction
  <2> QED BY <2>1 DEF P
<1>5. t[0] = s
  <2>1. t[0] = Scanned(loop, diff, s, <<>>)
    BY <1>1
  <2> QED BY <2>1, ScanNothing
<1>6. ASSUME NEW i \in 1..n
      PROVE  t[i] = Scanned(loop, diff, t[i - 1], texts[i])
  <2>1. i \in 0..n /\ i - 1 \in 0..n
    OBVIOUS
  <2>2. t[i] = Scanned(loop, diff, s, g[i - 1] \o texts[i]) /\ t[i - 1] = Scanned(loop, diff, s, g[i - 1])
    BY <1>1, <2>1
  <2>3. g[i - 1] \in Seq(S) /\ texts[i] \in Seq(S)
    BY <1>4, <2>1 DEF TextsOver
  <2> HIDE DEF t
  <2>4. Scanned(loop, diff, s, g[i - 1] \o texts[i])
          = Scanned(loop, diff, Scanned(loop, diff, s, g[i - 1]), texts[i])
    BY <2>3, ScanJoined
  <2> QED BY <2>2, <2>4
<1>7. Scanned(loop, diff, s, Joined(texts)) = t[n] /\ Joined(texts) \in Seq(S)
  BY <1>1, <1>4
<1> HIDE DEF t
<1>8. TextCourse(loop, diff, s, texts, n, t)
  BY <1>5, <1>6 DEF TextCourse
<1> QED BY <1>7, <1>8

\* A text of one piece takes one step.
LEMMA ScanPiece ==
  ASSUME NEW loop, NEW diff, NEW s, NEW p
  PROVE  Scanned(loop, diff, s, <<p>>) = Scan(loop, diff, s, p)
<1>1. Len(<<p>>) = 1 /\ 1 \in Nat
  OBVIOUS
<1>2. PICK g : Course(loop, diff, s, <<p>>, 1, g) /\ Scanned(loop, diff, s, <<p>>) = g[1]
  BY <1>1, ScanTrace
<1>3. g[1] = Scan(loop, diff, g[0], p) /\ g[0] = s
  BY <1>2 DEF Course
<1> QED BY <1>2, <1>3

\* A text of three pieces takes three.
LEMMA ScanThree ==
  ASSUME NEW loop, NEW diff, NEW s, NEW p, NEW q, NEW r
  PROVE  Scanned(loop, diff, s, <<p, q, r>>) =
           Scan(loop, diff, Scan(loop, diff, Scan(loop, diff, s, p), q), r)
<1> DEFINE text == <<p, q, r>>
<1>1. Len(text) = 3 /\ 3 \in Nat
  OBVIOUS
<1>2. PICK g : Course(loop, diff, s, text, 3, g) /\ Scanned(loop, diff, s, text) = g[3]
  <2> HIDE DEF text
  <2>1. PICK n \in Nat : n = 3
    OBVIOUS
  <2>2. Len(text) = n
    BY <1>1, <2>1
  <2>3. \E g : Course(loop, diff, s, text, n, g) /\ Scanned(loop, diff, s, text) = g[n]
    BY <2>2, ScanTrace
  <2> QED BY <2>1, <2>3
<1>3. g[1] = Scan(loop, diff, g[0], p) /\ g[2] = Scan(loop, diff, g[1], q)
        /\ g[3] = Scan(loop, diff, g[2], r) /\ g[0] = s
  <2>1. \A i \in 1..3 : g[i] = Scan(loop, diff, g[i - 1], <<p, q, r>>[i])
    BY <1>2 DEF Course
  <2>2. g[1] = Scan(loop, diff, g[1 - 1], p) /\ g[2] = Scan(loop, diff, g[2 - 1], q)
          /\ g[3] = Scan(loop, diff, g[3 - 1], r)
    BY <2>1
  <2>3. 1 - 1 = 0 /\ 2 - 1 = 1 /\ 3 - 1 = 2
    OBVIOUS
  <2> QED BY <1>2, <2>2, <2>3 DEF Course
<1> QED BY <1>2, <1>3

\* What the loops keep, and what is known of a file: its added lines, or how
\* many were deleted.
StateOf(loop, diff) ==
  IF loop = "added"
  THEN [file : KeysOf(diff) \cup {NoFile}, next : Nat, added : SUBSET (KeysOf(diff) \X Nat)]
  ELSE [file : KeysOf(diff) \cup {NoFile}, count : [KeysOf(diff) -> Nat]]
Known(loop, s, key) == IF loop = "added" THEN LinesOf(s.added, key) ELSE s.count[key]

\* The pieces of hunks.
PieceKinds == {"@@", "+", "-", "+++ ", "--- ", "---", "other"}
Pieces == [is : PieceKinds, path : {NoPath}, at : Nat]

\* t is a state after s in which file is the current one, or none, and nothing
\* else is known of other files.
Within(loop, diff, s, file, t) ==
  /\ t \in StateOf(loop, diff)
  /\ t.file \in {file, NoFile}
  /\ \A key \in KeysOf(diff) \ {file} : Known(loop, t, key) = Known(loop, s, key)

\* The keys of a diff are names of files.
LEMMA KeysAreFiles ==
  ASSUME NEW diff, IsDiff(diff)
  PROVE  NoPath \notin KeysOf(diff) /\ NoFile \notin KeysOf(diff)
BY DEF IsDiff, KeysOf

\* A piece of a hunk says nothing of other files than the current one.
LEMMA PieceStaysWithin ==
  ASSUME NEW loop \in {"added", "deleted"}, NEW diff, IsDiff(diff), NEW s, NEW file, NEW t,
         Within(loop, diff, s, file, t), NEW p \in Pieces
  PROVE  Within(loop, diff, s, file, Scan(loop, diff, t, p))
<1>1. NoPath \notin KeysOf(diff) /\ NoFile \notin KeysOf(diff)
  BY KeysAreFiles
<1>2. p.path = NoPath /\ p.at \in Nat
  BY DEF Pieces
<1>3. CASE loop = "added"
  <2>1. t \in StateOf("added", diff) /\ t.file \in {file, NoFile}
          /\ \A key \in KeysOf(diff) \ {file} : LinesOf(t.added, key) = LinesOf(s.added, key)
    BY <1>3 DEF Within, Known
  <2> DEFINE u == ScanAdded(KeysOf(diff), t, p)
  <2>2. u \in StateOf("added", diff) /\ u.file \in {file, NoFile}
    <3> DEFINE K == KeysOf(diff)
    <3> HIDE DEF K
    <3>1. t \in [file : K \cup {NoFile}, next : Nat, added : SUBSET (K \X Nat)]
      BY <2>1 DEF StateOf, K
    <3>2. NoPath \notin K /\ NoFile \notin K
      BY <1>1 DEF K
    <3>3. \/ u \in {t, [t EXCEPT !.file = NoFile], [t EXCEPT !.next = IF p.at = 0 THEN 1 ELSE p.at],
                    [t EXCEPT !.next = @ + 1]}
          \/ t.file \in K /\ u = [t EXCEPT !.added = @ \cup {<<t.file, t.next>>}, !.next = @ + 1]
      <4>1. CASE p.is = "+++ "
        BY <1>2, <3>2, <4>1 DEF ScanAdded, K
      <4>2. CASE p.is # "+++ " /\ t.file = NoFile
        BY <4>2 DEF ScanAdded
      <4>3. CASE p.is # "+++ " /\ t.file # NoFile
        <5>1. t.file \in K
          BY <3>1, <4>3
        <5> QED BY <4>3, <5>1 DEF ScanAdded
      <4> QED BY <4>1, <4>2, <4>3
    <3>4. u \in [file : K \cup {NoFile}, next : Nat, added : SUBSET (K \X Nat)]
            /\ u.file \in {t.file, NoFile}
      <4>1. CASE u = t
        BY <3>1, <4>1
      <4>2. CASE u = [t EXCEPT !.file = NoFile]
        BY <3>1, <4>2
      <4>3. CASE u = [t EXCEPT !.next = IF p.at = 0 THEN 1 ELSE p.at]
        BY <1>2, <3>1, <4>3
      <4>4. CASE u = [t EXCEPT !.next = @ + 1]
        BY <3>1, <4>4
      <4>5. CASE t.file \in K /\ u = [t EXCEPT !.added = @ \cup {<<t.file, t.next>>}, !.next = @ + 1]
        <5>1. {<<t.file, t.next>>} \in SUBSET (K \X Nat)
          BY <3>1, <4>5
        <5>2. t.added \cup {<<t.file, t.next>>} \in SUBSET (K \X Nat)
          BY <3>1, <5>1
        <5> DEFINE more == t.added \cup {<<t.file, t.next>>}
                   lines == SUBSET (K \X Nat)
        <5>3. u = [t EXCEPT !.added = more, !.next = t.next + 1]
          BY <3>1, <4>5
        <5>4. t \in [file : K \cup {NoFile}, next : Nat, added : lines] /\ more \in lines
          BY <3>1, <5>2
        <5> HIDE DEF more, u, lines
        <5>5. u = [file |-> t.file, next |-> t.next + 1, added |-> more]
          BY <5>3, <5>4
        <5>6. t.file \in K \cup {NoFile} /\ t.next + 1 \in Nat
          BY <5>4
        <5>7. u \in [file : K \cup {NoFile}, next : Nat, added : lines] /\ u.file = t.file
          BY <5>4, <5>5, <5>6
        <5> QED BY <5>7 DEF lines
      <4> QED BY <3>3, <4>1, <4>2, <4>3, <4>4, <4>5
    <3> QED BY <2>1, <3>4 DEF StateOf, K
  <2>3. \A key \in KeysOf(diff) \ {file} : LinesOf(u.added, key) = LinesOf(t.added, key)
    <3>1. CASE u.added = t.added
      BY <3>1
    <3>2. CASE u.added = t.added \cup {<<file, t.next>>}
      BY <3>2 DEF LinesOf
    <3>3. u.added = t.added \/ u.added = t.added \cup {<<file, t.next>>}
      BY <1>1, <1>2, <2>1 DEF ScanAdded, StateOf
    <3> QED BY <3>1, <3>2, <3>3
  <2> HIDE DEF u
  <2>4. Scan(loop, diff, t, p) = u
    BY <1>3 DEF Scan, u
  <2> QED BY <1>3, <2>1, <2>2, <2>3, <2>4 DEF Within, Known
<1>4. CASE loop = "deleted"
  <2>1. t \in StateOf("deleted", diff) /\ t.file \in {file, NoFile}
          /\ \A key \in KeysOf(diff) \ {file} : t.count[key] = s.count[key]
    BY <1>4 DEF Within, Known
  <2> DEFINE u == ScanDeleted(diff, t, p)
  <2>2. Former(diff, NoPath) = NoFile
    BY <1>1 DEF Former
  <2>3. u \in StateOf("deleted", diff) /\ u.file \in {file, NoFile}
    <3> DEFINE K == KeysOf(diff)
    <3> HIDE DEF K
    <3>1. t \in [file : K \cup {NoFile}, count : [K -> Nat]]
      BY <2>1 DEF StateOf, K
    <3>2. \/ u \in {t, [t EXCEPT !.file = NoFile]}
          \/ t.file \in K /\ u = [t EXCEPT !.count[t.file] = @ + 1]
      BY <1>2, <2>2, <3>1 DEF ScanDeleted
    <3>3. u \in [file : K \cup {NoFile}, count : [K -> Nat]] /\ u.file \in {t.file, NoFile}
      BY <3>1, <3>2
    <3> QED BY <2>1, <3>3 DEF StateOf, K
  <2>4. \A key \in KeysOf(diff) \ {file} : u.count[key] = t.count[key]
    BY <1>1, <1>2, <2>1 DEF ScanDeleted, StateOf
  <2> HIDE DEF u
  <2>5. Scan(loop, diff, t, p) = u
    BY <1>4 DEF Scan, u
  <2> QED BY <1>4, <2>1, <2>3, <2>4, <2>5 DEF Within, Known
<1> QED BY <1>3, <1>4

\* Nor does a text of such pieces.
LEMMA TextStaysWithin ==
  ASSUME NEW loop \in {"added", "deleted"}, NEW diff, IsDiff(diff), NEW s, NEW file, NEW t,
         Within(loop, diff, s, file, t), NEW text \in Seq(Pieces)
  PROVE  Within(loop, diff, s, file, Scanned(loop, diff, t, text))
<1>1. PICK n \in Nat : Len(text) = n /\ \A i \in 1..n : text[i] \in Pieces
  <2>1. Len(text) \in Nat /\ \A i \in 1..Len(text) : text[i] \in Pieces
    OBVIOUS
  <2> QED BY <2>1
<1>2. PICK g : Course(loop, diff, t, text, n, g) /\ Scanned(loop, diff, t, text) = g[n]
  BY <1>1, ScanTrace
<1> DEFINE P == {i \in 0..n : Within(loop, diff, s, file, g[i])}
<1>3. 0 \in P
  BY <1>2 DEF Course
<1>4. ASSUME NEW i \in 1..n, i - 1 \in P
      PROVE  i \in P
  <2>1. Within(loop, diff, s, file, g[i - 1]) /\ text[i] \in Pieces /\ i \in 0..n
    BY <1>1, <1>4
  <2>2. Within(loop, diff, s, file, Scan(loop, diff, g[i - 1], text[i]))
    BY <2>1, PieceStaysWithin
  <2>3. g[i] = Scan(loop, diff, g[i - 1], text[i])
    BY <1>2 DEF Course
  <2> QED BY <2>1, <2>2, <2>3
<1>5. n \in P
  <2> HIDE DEF P
  <2>1. \A i \in 0..n : i \in P
    BY <1>3, <1>4, IndexInduction
  <2> QED BY <2>1
<1> QED BY <1>2, <1>5

\* What git prints of a hunk are pieces of hunks.
LEMMA LineIsPieces ==
  ASSUME NEW sign \in {"+", "-"}, NEW content
  PROVE  PrintedLine(sign, content) \in Seq(Pieces)
<1>1. \A kind \in PieceKinds : Piece(kind) \in Pieces
  BY DEF Piece, Pieces
<1>2. {sign, "other", "+++ ", "--- ", "---"} \subseteq PieceKinds
  BY DEF PieceKinds
<1>3. Piece(sign) \in Pieces /\ Piece("other") \in Pieces /\ Piece("+++ ") \in Pieces
        /\ Piece("--- ") \in Pieces /\ Piece("---") \in Pieces
  BY <1>1, <1>2
<1>4. \A p \in Pieces : <<p>> \in Seq(Pieces)
  OBVIOUS
<1>5. \A p \in Pieces, q \in Pieces : <<p, q>> \in Seq(Pieces)
  OBVIOUS
<1>6. PrintedLine(sign, content) \in
        {<<Piece(sign), Piece("other")>>, <<Piece("+++ ")>>, <<Piece("--- ")>>, <<Piece("---")>>, <<Piece(sign)>>}
  BY DEF PrintedLine
<1> QED BY <1>3, <1>4, <1>5, <1>6

\* So are all lines of one sign,
LEMMA LinesArePieces ==
  ASSUME NEW sign \in {"+", "-"}, NEW contents \in Seq(Contents)
  PROVE  PrintedLines(sign, contents) \in Seq(Pieces)
<1> DEFINE texts == [i \in DOMAIN contents |-> PrintedLine(sign, contents[i])]
<1>1. PICK n \in Nat : Len(contents) = n /\ DOMAIN contents = 1..n
  OBVIOUS
<1>2. \A i \in 1..n : texts[i] \in Seq(Pieces)
  BY <1>1, LineIsPieces
<1>3. TextsOver(texts, n, Pieces)
  BY <1>1, <1>2 DEF TextsOver
<1> HIDE DEF texts
<1>4. Joined(texts) \in Seq(Pieces)
  BY <1>3, ScanTexts
<1> QED BY <1>4 DEF PrintedLines, texts

\* and the whole hunk.
LEMMA HunkIsPieces ==
  ASSUME NEW hunk \in Hunk
  PROVE  PrintedHunk(hunk) \in Seq(Pieces)
<1>1. [is |-> "@@", path |-> NoPath, at |-> hunk.start] \in Pieces
  <2>1. hunk.start \in Nat
    BY DEF Hunk
  <2> QED BY <2>1 DEF Pieces, PieceKinds
<1>2. PrintedLines("-", hunk.old) \in Seq(Pieces) /\ PrintedLines("+", hunk.new) \in Seq(Pieces)
  BY LinesArePieces DEF Hunk
<1>3. \A cut : NoNewline(cut) \in Seq(Pieces)
  <2>1. Piece("other") \in Pieces
    BY DEF Piece, Pieces, PieceKinds
  <2> QED BY <2>1 DEF NoNewline
<1> QED BY <1>1, <1>2, <1>3 DEF PrintedHunk

\* The lines before the hunks: they name the file, if git spells its path
\* plainly, or no file of the diff.
Header(file) ==
  <<Piece("other"), PrintedPath("--- ", file, file.old), PrintedPath("+++ ", file, file.path)>>

\* A path from before leads to the file that had it.
LEMMA FormerIsKey ==
  ASSUME NEW diff, IsDiff(diff), NEW k \in DOMAIN diff
  PROVE  Former(diff, diff[k].old) = IF diff[k].old = NoPath THEN NoFile ELSE KeyOf(diff[k])
<1> DEFINE path == diff[k].old
           from == {i \in DOMAIN diff : diff[i].old = path /\ path # NoPath}
<1>1. NoPath \notin KeysOf(diff)
  BY KeysAreFiles
<1>2. CASE path \in KeysOf(diff)
  BY <1>1, <1>2 DEF IsDiff, Former
<1>3. CASE path \notin KeysOf(diff) /\ path = NoPath
  BY <1>3 DEF Former
<1>4. CASE path \notin KeysOf(diff) /\ path # NoPath
  <2>1. from = {k}
    BY <1>4 DEF IsDiff
  <2>2. k \in Nat
    BY DEF IsDiff
  <2>3. (CHOOSE i \in from : \A j \in from : i <= j) = k
    BY <2>1, <2>2
  <2>4. Former(diff, path) = IF from = {} THEN NoFile ELSE KeyOf(diff[CHOOSE i \in from : \A j \in from : i <= j])
    BY <1>4 DEF Former
  <2> QED BY <1>4, <2>1, <2>3, <2>4
<1> QED BY <1>2, <1>3, <1>4

\* The loop of added lines is in the file after these lines, or in none, and
\* has added nothing.
LEMMA HeaderAdded ==
  ASSUME NEW diff, IsDiff(diff), NEW k \in DOMAIN diff, NEW s \in StateOf("added", diff)
  PROVE  LET t == Scanned("added", diff, s, Header(diff[k])) IN
         /\ t \in StateOf("added", diff) /\ t.added = s.added
         /\ t.file \in {KeyOf(diff[k]), NoFile}
         /\ diff[k].spelled = "plain" /\ diff[k].path # NoPath => t.file = KeyOf(diff[k])
         /\ diff[k].path = NoPath => t.file = NoFile
<1> DEFINE K == KeysOf(diff)
           p == PrintedPath("--- ", diff[k], diff[k].old)
           q == PrintedPath("+++ ", diff[k], diff[k].path)
           s1 == ScanAdded(K, s, Piece("other"))
           s2 == ScanAdded(K, s1, p)
           s3 == ScanAdded(K, s2, q)
<1>1. NoPath \notin K /\ NoFile \notin K
  BY KeysAreFiles
<1>2. KeyOf(diff[k]) \in K
  BY DEF KeysOf
<1>3. Scanned("added", diff, s, Header(diff[k])) = s3
  <2> HIDE DEF p, q
  <2>1. Scanned("added", diff, s, <<Piece("other"), p, q>>) = s3
    BY ScanThree DEF Scan
  <2> QED BY <2>1 DEF Header, p, q
<1> HIDE DEF K
<1>4. s \in [file : K \cup {NoFile}, next : Nat, added : SUBSET (K \X Nat)]
  BY DEF StateOf, K
<1>5. s1 \in {s, [s EXCEPT !.next = @ + 1]}
  BY DEF ScanAdded, Piece
<1>6. s2 = s1
  BY DEF ScanAdded, PrintedPath
<1>7. s3 = [s2 EXCEPT !.file = IF q.path \in K THEN q.path ELSE NoFile]
  BY DEF ScanAdded, PrintedPath
<1>8. q.path = IF diff[k].spelled = "plain" THEN diff[k].path ELSE NoPath
  BY DEF PrintedPath
<1>9. diff[k].path # NoPath => KeyOf(diff[k]) = diff[k].path
  BY DEF KeyOf
<1> HIDE DEF s1, s2, s3, q
<1>10. s1 \in [file : K \cup {NoFile}, next : Nat, added : SUBSET (K \X Nat)] /\ s1.added = s.added
  BY <1>4, <1>5
<1>11. s3 \in [file : K \cup {NoFile}, next : Nat, added : SUBSET (K \X Nat)] /\ s3.added = s.added
         /\ s3.file = IF q.path \in K THEN q.path ELSE NoFile
  BY <1>6, <1>7, <1>10
<1>12. s3 \in StateOf("added", diff)
  BY <1>11 DEF StateOf, K
<1> QED BY <1>1, <1>2, <1>3, <1>8, <1>9, <1>11, <1>12

\* The loop of deleted lines is in the file after these lines, or in none, and
\* has counted nothing.
LEMMA HeaderDeleted ==
  ASSUME NEW diff, IsDiff(diff), NEW k \in DOMAIN diff, NEW s \in StateOf("deleted", diff)
  PROVE  LET t == Scanned("deleted", diff, s, Header(diff[k])) IN
         /\ t \in StateOf("deleted", diff) /\ t.count = s.count
         /\ t.file \in {KeyOf(diff[k]), NoFile}
         /\ diff[k].spelled = "plain" /\ diff[k].old # NoPath => t.file = KeyOf(diff[k])
         /\ diff[k].old = NoPath => t.file = NoFile
<1> DEFINE K == KeysOf(diff)
           p == PrintedPath("--- ", diff[k], diff[k].old)
           q == PrintedPath("+++ ", diff[k], diff[k].path)
           s1 == ScanDeleted(diff, s, Piece("other"))
           s2 == ScanDeleted(diff, s1, p)
           s3 == ScanDeleted(diff, s2, q)
<1>1. NoPath \notin K /\ NoFile \notin K
  BY KeysAreFiles
<1>2. KeyOf(diff[k]) \in K
  BY DEF KeysOf
<1>3. Scanned("deleted", diff, s, Header(diff[k])) = s3
  <2> HIDE DEF p, q
  <2>1. Scanned("deleted", diff, s, <<Piece("other"), p, q>>) = s3
    BY ScanThree DEF Scan
  <2> QED BY <2>1 DEF Header, p, q
<1>4. s \in [file : K \cup {NoFile}, count : [K -> Nat]]
  BY DEF StateOf
<1>5. s1 = s
  BY DEF ScanDeleted, Piece
<1>6. s2 = [s EXCEPT !.file = Former(diff, p.path)]
  BY <1>5 DEF ScanDeleted, PrintedPath
<1>7. s3 = s2
  BY DEF ScanDeleted, PrintedPath
<1>8. p.path = IF diff[k].spelled = "plain" THEN diff[k].old ELSE NoPath
  BY DEF PrintedPath
<1>9. Former(diff, NoPath) = NoFile
  BY <1>1 DEF Former
<1>10. Former(diff, diff[k].old) = IF diff[k].old = NoPath THEN NoFile ELSE KeyOf(diff[k])
  BY FormerIsKey
<1> HIDE DEF s1, s2, s3, p, q, K
<1>11. Former(diff, p.path) \in {KeyOf(diff[k]), NoFile}
         /\ (diff[k].spelled = "plain" /\ diff[k].old # NoPath => Former(diff, p.path) = KeyOf(diff[k]))
         /\ (diff[k].old = NoPath => Former(diff, p.path) = NoFile)
  BY <1>8, <1>9, <1>10
<1>12. Former(diff, p.path) \in K \cup {NoFile}
  BY <1>2, <1>11
<1>13. s3 \in [file : K \cup {NoFile}, count : [K -> Nat]] /\ s3.count = s.count
         /\ s3.file = Former(diff, p.path)
  BY <1>4, <1>6, <1>7, <1>12
<1>14. s3 \in StateOf("deleted", diff)
  BY <1>13 DEF StateOf, K
<1> QED BY <1>3, <1>11, <1>13, <1>14

\* n lines of the same sign and of no peculiarities.
Signs(sign, n) == [i \in 1..n |-> Piece(sign)]

\* So they are printed.
LEMMA PlainLines ==
  ASSUME NEW sign \in {"+", "-"}, NEW contents \in Seq({"text"})
  PROVE  PrintedLines(sign, contents) = Signs(sign, Len(contents))
<1> DEFINE texts == [i \in DOMAIN contents |-> PrintedLine(sign, contents[i])]
           p == Piece(sign)
<1>1. PICK n \in Nat : Len(contents) = n /\ DOMAIN contents = 1..n /\ \A i \in 1..n : contents[i] = "text"
  OBVIOUS
<1>2. Len(texts) = n
  BY <1>1
<1>3. OnePiece(texts, n, p)
  BY <1>1, <1>2 DEF PrintedLine, OnePiece
<1> HIDE DEF texts, p
<1>4. Joined(texts) = [i \in 1..n |-> p]
  BY <1>3, JoinedPieces
<1> QED BY <1>1, <1>4 DEF PrintedLines, Signs, texts, p

\* n lines of file f from line first on.
LinesFrom(f, first, n) == {<<f, first + m - 1>> : m \in 1..n}

\* The loop of added lines passes over old ones.
LEMMA MinusesAdded ==
  ASSUME NEW diff, NEW s, NEW n \in Nat
  PROVE  Scanned("added", diff, s, Signs("-", n)) = s
<1> DEFINE text == Signs("-", n)
           g == [i \in 0..n |-> s]
<1>1. Len(text) = n
  BY DEF Signs
<1>2. \A i \in 1..n : s = Scan("added", diff, s, text[i])
  BY DEF Scan, ScanAdded, Signs, Piece
<1>3. \A i \in 1..n : g[i] = s /\ g[i - 1] = s
  OBVIOUS
<1>4. g[0] = s /\ g[n] = s
  OBVIOUS
<1> HIDE DEF text, g
<1>5. Course("added", diff, s, text, n, g)
  BY <1>2, <1>3, <1>4 DEF Course
<1>6. Scanned("added", diff, s, text) = g[n]
  BY <1>1, <1>5, ScanIs
<1> QED BY <1>4, <1>6 DEF text

\* The loop of deleted lines passes over new ones.
LEMMA PlusesDeleted ==
  ASSUME NEW diff, NEW s, NEW n \in Nat
  PROVE  Scanned("deleted", diff, s, Signs("+", n)) = s
<1> DEFINE text == Signs("+", n)
           g == [i \in 0..n |-> s]
<1>1. Len(text) = n
  BY DEF Signs
<1>2. \A i \in 1..n : s = Scan("deleted", diff, s, text[i])
  BY DEF Scan, ScanDeleted, Signs, Piece
<1>3. \A i \in 1..n : g[i] = s /\ g[i - 1] = s
  OBVIOUS
<1>4. g[0] = s /\ g[n] = s
  OBVIOUS
<1> HIDE DEF text, g
<1>5. Course("deleted", diff, s, text, n, g)
  BY <1>2, <1>3, <1>4 DEF Course
<1>6. Scanned("deleted", diff, s, text) = g[n]
  BY <1>1, <1>5, ScanIs
<1> QED BY <1>4, <1>6 DEF text

\* The loop of added lines records new ones under their numbers.
LEMMA PlusesAdded ==
  ASSUME NEW diff, NEW f, f # NoFile, NEW next \in Nat, NEW added, NEW n \in Nat
  PROVE  Scanned("added", diff, [file |-> f, next |-> next, added |-> added], Signs("+", n))
           = [file |-> f, next |-> next + n, added |-> added \cup LinesFrom(f, next, n)]
<1> DEFINE text == Signs("+", n)
           after(i) == [file |-> f, next |-> next + i, added |-> added \cup {<<f, next + m - 1>> : m \in 1..i}]
           s == [file |-> f, next |-> next, added |-> added]
           g == [i \in 0..n |-> after(i)]
<1>1. Len(text) = n
  BY DEF Signs
<1>2. ASSUME NEW i \in 1..n
      PROVE  after(i) = Scan("added", diff, after(i - 1), text[i])
  <2>1. text[i].is = "+"
    BY DEF Signs, Piece
  <2>2. Scan("added", diff, after(i - 1), text[i]) =
          [after(i - 1) EXCEPT !.added = @ \cup {<<f, next + (i - 1)>>}, !.next = @ + 1]
    BY <2>1 DEF Scan, ScanAdded
  <2>3. {<<f, next + m - 1>> : m \in 1..i} = {<<f, next + m - 1>> : m \in 1..(i - 1)} \cup {<<f, next + (i - 1)>>}
    <3>1. 1..i = 1..(i - 1) \cup {i}
      OBVIOUS
    <3>2. next + i - 1 = next + (i - 1)
      OBVIOUS
    <3> QED BY <3>1, <3>2
  <2>4. next + (i - 1) + 1 = next + i
    OBVIOUS
  <2> QED BY <2>2, <2>3, <2>4
<1>3. \A i \in 1..n : g[i] = after(i) /\ g[i - 1] = after(i - 1)
  OBVIOUS
<1>4. after(0) = s
  <2>1. next + 0 = next /\ {<<f, next + m - 1>> : m \in 1..0} = {}
    OBVIOUS
  <2> QED BY <2>1
<1>5. g[0] = after(0) /\ g[n] = after(n)
  OBVIOUS
<1> HIDE DEF text, g, after, s
<1>6. Course("added", diff, s, text, n, g)
  BY <1>2, <1>3, <1>4, <1>5 DEF Course
<1>7. Scanned("added", diff, s, text) = g[n]
  BY <1>1, <1>6, ScanIs
<1> QED BY <1>5, <1>7 DEF text, after, s, LinesFrom

\* The loop of deleted lines counts old ones.
LEMMA MinusesDeleted ==
  ASSUME NEW diff, NEW s \in StateOf("deleted", diff), s.file # NoFile, NEW n \in Nat
  PROVE  Scanned("deleted", diff, s, Signs("-", n)) = [s EXCEPT !.count[s.file] = @ + n]
<1> DEFINE K == KeysOf(diff)
           text == Signs("-", n)
           after(i) == [s EXCEPT !.count[s.file] = @ + i]
           g == [i \in 0..n |-> after(i)]
<1>1. Len(text) = n
  BY DEF Signs
<1> HIDE DEF K
<1>2. s \in [file : K \cup {NoFile}, count : [K -> Nat]] /\ s.file \in K
  BY DEF StateOf, K
<1>3. ASSUME NEW i \in 1..n
      PROVE  after(i) = Scan("deleted", diff, after(i - 1), text[i])
  <2>1. text[i].is = "-"
    BY DEF Signs, Piece
  <2>2. after(i - 1).file = s.file
    BY <1>2
  <2>3. Scan("deleted", diff, after(i - 1), text[i]) = [after(i - 1) EXCEPT !.count[s.file] = @ + 1]
    BY <2>1, <2>2 DEF Scan, ScanDeleted
  <2>4. s.count[s.file] + (i - 1) + 1 = s.count[s.file] + i
    BY <1>2
  <2> QED BY <1>2, <2>3, <2>4
<1>4. \A i \in 1..n : g[i] = after(i) /\ g[i - 1] = after(i - 1)
  OBVIOUS
<1>5. after(0) = s
  BY <1>2
<1>6. g[0] = after(0) /\ g[n] = after(n)
  OBVIOUS
<1> HIDE DEF text, g, after
<1>7. Course("deleted", diff, s, text, n, g)
  BY <1>3, <1>4, <1>5, <1>6 DEF Course
<1>8. Scanned("deleted", diff, s, text) = g[n]
  BY <1>1, <1>7, ScanIs
<1> QED BY <1>6, <1>8 DEF text, after

PlainHunk(hunk) == hunk \in Hunk /\ ToSet(hunk.old) \cup ToSet(hunk.new) \subseteq {"text"}
Top(hunk) == [is |-> "@@", path |-> NoPath, at |-> hunk.start]

\* The words about a missing newline count as a line where a line is counted.
LEMMA ScanNoNewline ==
  ASSUME NEW loop, NEW diff, NEW s, NEW cut \in BOOLEAN
  PROVE  Scanned(loop, diff, s, NoNewline(cut)) = IF cut THEN Scan(loop, diff, s, Piece("other")) ELSE s
<1>1. CASE cut
  BY <1>1, ScanPiece DEF NoNewline
<1>2. CASE ~cut
  BY <1>2, ScanNothing DEF NoNewline
<1> QED BY <1>1, <1>2

\* The loops go over the parts of a hunk one after the other.
LEMMA ScanHunk ==
  ASSUME NEW loop, NEW diff, NEW s, NEW hunk, PlainHunk(hunk)
  PROVE  \E a, b, c, d :
           /\ a = Scan(loop, diff, s, Top(hunk))
           /\ b = Scanned(loop, diff, a, Signs("-", Len(hunk.old)))
           /\ c = IF hunk.oldCut THEN Scan(loop, diff, b, Piece("other")) ELSE b
           /\ d = Scanned(loop, diff, c, Signs("+", Len(hunk.new)))
           /\ Scanned(loop, diff, s, PrintedHunk(hunk)) =
                IF hunk.newCut THEN Scan(loop, diff, d, Piece("other")) ELSE d
<1> DEFINE A == <<Top(hunk)>>
           B == PrintedLines("-", hunk.old)
           C == NoNewline(hunk.oldCut)
           D == PrintedLines("+", hunk.new)
           E == NoNewline(hunk.newCut)
<1>1. hunk.old \in Seq({"text"}) /\ hunk.new \in Seq({"text"})
  <2>1. ASSUME NEW contents \in Seq(Contents), ToSet(contents) \subseteq {"text"}
        PROVE  contents \in Seq({"text"})
    <3>1. \A i \in 1..Len(contents) : contents[i] \in {"text"}
      BY <2>1 DEF ToSet
    <3> QED BY <3>1
  <2>2. hunk.old \in Seq(Contents) /\ hunk.new \in Seq(Contents)
          /\ ToSet(hunk.old) \subseteq {"text"} /\ ToSet(hunk.new) \subseteq {"text"}
    BY DEF PlainHunk, Hunk
  <2> QED BY <2>1, <2>2
<1>2. B = Signs("-", Len(hunk.old)) /\ D = Signs("+", Len(hunk.new))
  BY <1>1, PlainLines
<1>3. hunk \in Hunk /\ hunk.oldCut \in BOOLEAN /\ hunk.newCut \in BOOLEAN
  BY DEF PlainHunk, Hunk
<1>4. A \in Seq(Pieces) /\ B \in Seq(Pieces) /\ C \in Seq(Pieces) /\ D \in Seq(Pieces) /\ E \in Seq(Pieces)
  <2>1. hunk.start \in Nat
    BY <1>3 DEF Hunk
  <2>2. Top(hunk) \in Pieces
    BY <2>1 DEF Top, Pieces, PieceKinds
  <2>3. Piece("other") \in Pieces
    BY DEF Piece, Pieces, PieceKinds
  <2>4. C \in Seq(Pieces) /\ E \in Seq(Pieces)
    BY <2>3 DEF NoNewline
  <2>5. B \in Seq(Pieces) /\ D \in Seq(Pieces)
    BY <1>3, LinesArePieces DEF Hunk
  <2> QED BY <2>2, <2>4, <2>5
<1>5. PrintedHunk(hunk) = A \o B \o C \o D \o E
  BY DEF PrintedHunk, Top
<1> HIDE DEF A, B, C, D, E
<1> DEFINE AB == A \o B
           ABC == AB \o C
           ABCD == ABC \o D
<1>6. AB \in Seq(Pieces) /\ ABC \in Seq(Pieces) /\ ABCD \in Seq(Pieces)
  BY <1>4
<1> DEFINE a == Scanned(loop, diff, s, A)
           b == Scanned(loop, diff, a, B)
           c == Scanned(loop, diff, b, C)
           d == Scanned(loop, diff, c, D)
<1>7. Scanned(loop, diff, s, AB) = b
  BY <1>4, ScanJoined
<1> HIDE DEF AB
<1>8. Scanned(loop, diff, s, ABC) = c
  BY <1>4, <1>6, <1>7, ScanJoined
<1> HIDE DEF ABC
<1>9. Scanned(loop, diff, s, ABCD) = d
  BY <1>4, <1>6, <1>8, ScanJoined
<1> HIDE DEF ABCD
<1>10. Scanned(loop, diff, s, ABCD \o E) = Scanned(loop, diff, d, E)
  BY <1>4, <1>6, <1>9, ScanJoined
<1>11. a = Scan(loop, diff, s, Top(hunk))
  BY ScanPiece DEF A
<1>12. c = IF hunk.oldCut THEN Scan(loop, diff, b, Piece("other")) ELSE b
  BY <1>3, ScanNoNewline DEF C
<1>13. Scanned(loop, diff, d, E) = IF hunk.newCut THEN Scan(loop, diff, d, Piece("other")) ELSE d
  BY <1>3, ScanNoNewline DEF E
<1>14. PrintedHunk(hunk) = ABCD \o E
  BY <1>5 DEF AB, ABC, ABCD
<1> QED BY <1>2, <1>10, <1>11, <1>12, <1>13, <1>14

\* The lines a hunk of a plain file adds, and the number of those it deletes.
LEMMA HunkAdds ==
  ASSUME NEW diff, NEW s \in StateOf("added", diff), s.file # NoFile,
         NEW hunk, PlainHunk(hunk), ~ReplacesCut(hunk), hunk.new # <<>> => hunk.start > 0
  PROVE  LET t == Scanned("added", diff, s, PrintedHunk(hunk)) IN
         /\ t.file = s.file
         /\ t.added = s.added \cup {<<s.file, hunk.start + m - 1>> : m \in DOMAIN hunk.new}
<1>1. PICK n \in Nat : n = Len(hunk.new) /\ DOMAIN hunk.new = 1..n /\ (hunk.new = <<>> <=> n = 0)
  BY DEF PlainHunk, Hunk
<1>2. PICK o \in Nat : o = Len(hunk.old)
  BY DEF PlainHunk, Hunk
<1>3. PICK start \in Nat : start = hunk.start
  BY DEF PlainHunk, Hunk
<1>4. PICK a, b, c, d :
        /\ a = Scan("added", diff, s, Top(hunk))
        /\ b = Scanned("added", diff, a, Signs("-", Len(hunk.old)))
        /\ c = IF hunk.oldCut THEN Scan("added", diff, b, Piece("other")) ELSE b
        /\ d = Scanned("added", diff, c, Signs("+", Len(hunk.new)))
        /\ Scanned("added", diff, s, PrintedHunk(hunk)) =
             IF hunk.newCut THEN Scan("added", diff, d, Piece("other")) ELSE d
  BY ScanHunk
<1> DEFINE f == s.file
           first == IF start = 0 THEN 1 ELSE start
           next == IF hunk.oldCut THEN first + 1 ELSE first
<1>5. s = [file |-> f, next |-> s.next, added |-> s.added]
  BY DEF StateOf
<1>6. a = [file |-> f, next |-> first, added |-> s.added]
  BY <1>3, <1>4, <1>5 DEF Scan, ScanAdded, Top
<1>7. b = a
  BY <1>2, <1>4, MinusesAdded
<1>8. c = [file |-> f, next |-> next, added |-> s.added]
  <2>1. CASE hunk.oldCut
    <3>1. c = Scan("added", diff, a, Piece("other"))
      BY <1>4, <1>7, <2>1
    <3>2. c = [a EXCEPT !.next = @ + 1]
      BY <1>6, <3>1 DEF Scan, ScanAdded, Piece
    <3> QED BY <1>6, <2>1, <3>2
  <2>2. CASE ~hunk.oldCut
    BY <1>4, <1>6, <1>7, <2>2
  <2> QED BY <2>1, <2>2
<1>9. first \in Nat /\ next \in Nat
  OBVIOUS
<1>10. f # NoFile
  OBVIOUS
<1> HIDE DEF f, next, first
<1>11. d = [file |-> f, next |-> next + n, added |-> s.added \cup LinesFrom(f, next, n)]
  <2>1. Scanned("added", diff, [file |-> f, next |-> next, added |-> s.added], Signs("+", n))
          = [file |-> f, next |-> next + n, added |-> s.added \cup LinesFrom(f, next, n)]
    BY <1>9, <1>10, PlusesAdded
  <2>2. d = Scanned("added", diff, c, Signs("+", n))
    BY <1>1, <1>4
  <2> QED BY <1>8, <2>1, <2>2
<1>12. Scanned("added", diff, s, PrintedHunk(hunk)).file = f
         /\ Scanned("added", diff, s, PrintedHunk(hunk)).added = d.added
  <2>1. Scan("added", diff, d, Piece("other")) = [d EXCEPT !.next = @ + 1]
    BY <1>10, <1>11 DEF Scan, ScanAdded, Piece
  <2>2. [d EXCEPT !.next = @ + 1].file = f /\ [d EXCEPT !.next = @ + 1].added = d.added /\ d.file = f
    BY <1>11
  <2> QED BY <1>4, <2>1, <2>2
<1>13. {<<f, next + m - 1>> : m \in 1..n} = {<<f, start + m - 1>> : m \in 1..n}
  <2>1. CASE n = 0
    BY <2>1
  <2>2. CASE n # 0
    BY <1>1, <1>3, <2>2 DEF next, first, ReplacesCut
  <2> QED BY <2>1, <2>2
<1> QED BY <1>1, <1>3, <1>11, <1>12, <1>13 DEF f, LinesFrom

\* The number of lines a hunk of a plain file deletes.
LEMMA HunkDeletes ==
  ASSUME NEW diff, NEW s \in StateOf("deleted", diff), s.file # NoFile, NEW hunk, PlainHunk(hunk)
  PROVE  LET t == Scanned("deleted", diff, s, PrintedHunk(hunk)) IN
         /\ t.file = s.file
         /\ t.count[s.file] = s.count[s.file] + Len(hunk.old)
<1>1. PICK n \in Nat : n = Len(hunk.new)
  BY DEF PlainHunk, Hunk
<1>2. PICK o \in Nat : o = Len(hunk.old)
  BY DEF PlainHunk, Hunk
<1>3. PICK a, b, c, d :
        /\ a = Scan("deleted", diff, s, Top(hunk))
        /\ b = Scanned("deleted", diff, a, Signs("-", Len(hunk.old)))
        /\ c = IF hunk.oldCut THEN Scan("deleted", diff, b, Piece("other")) ELSE b
        /\ d = Scanned("deleted", diff, c, Signs("+", Len(hunk.new)))
        /\ Scanned("deleted", diff, s, PrintedHunk(hunk)) =
             IF hunk.newCut THEN Scan("deleted", diff, d, Piece("other")) ELSE d
  BY ScanHunk
<1>4. a = s
  BY <1>3 DEF Scan, ScanDeleted, Top
<1>5. b = [s EXCEPT !.count[s.file] = @ + o]
  BY <1>2, <1>3, <1>4, MinusesDeleted
<1>6. c = b
  BY <1>3 DEF Scan, ScanDeleted, Piece
<1>7. d = c
  BY <1>1, <1>3, PlusesDeleted
<1>8. Scanned("deleted", diff, s, PrintedHunk(hunk)) = d
  BY <1>3 DEF Scan, ScanDeleted, Piece
<1>9. b.file = s.file /\ b.count[s.file] = s.count[s.file] + o
  BY <1>5 DEF StateOf
<1> QED BY <1>2, <1>6, <1>7, <1>8, <1>9

HunkTexts(file) == [j \in DOMAIN file.hunks |-> PrintedHunk(file.hunks[j])]

\* What IsDiff says of one file.
LEMMA FileIsWellFormed ==
  ASSUME NEW diff, IsDiff(diff), NEW k \in DOMAIN diff
  PROVE  /\ diff[k] \in File /\ KeyOf(diff[k]) \in KeysOf(diff)
         /\ \A j \in DOMAIN diff[k].hunks :
              LET h == diff[k].hunks[j] IN
              /\ h \in Hunk
              /\ diff[k].path = NoPath => h.new = <<>>
              /\ diff[k].old = NoPath => h.old = <<>>
              /\ h.new # <<>> => h.start > 0
<1>1. diff[k] \in File /\ KeyOf(diff[k]) \in KeysOf(diff)
  BY DEF IsDiff, KeysOf
<1>2. diff[k].hunks \in Seq(Hunk)
  BY <1>1 DEF File
<1>3. \A j \in DOMAIN diff[k].hunks : diff[k].hunks[j] \in Hunk /\ diff[k].hunks[j] \in ToSet(diff[k].hunks)
  BY <1>2 DEF ToSet
<1>4. \A h \in ToSet(diff[k].hunks) :
        /\ diff[k].path = NoPath => h.new = <<>>
        /\ diff[k].old = NoPath => h.old = <<>>
        /\ h.new # <<>> => h.start > 0
  BY DEF IsDiff
<1> QED BY <1>1, <1>3, <1>4

\* The loops go over the lines before the hunks of a file, then over each hunk.
LEMMA ScanFile ==
  ASSUME NEW loop, NEW diff, NEW s, NEW file \in File, file.hunks # <<>>,
         NEW m \in Nat, Len(file.hunks) = m
  PROVE  /\ Joined(HunkTexts(file)) \in Seq(Pieces)
         /\ Scanned(loop, diff, s, PrintedFile(file)) =
              Scanned(loop, diff, Scanned(loop, diff, s, Header(file)), Joined(HunkTexts(file)))
         /\ \A u : \E t : /\ TextCourse(loop, diff, u, HunkTexts(file), m, t)
                          /\ Scanned(loop, diff, u, Joined(HunkTexts(file))) = t[m]
<1> DEFINE texts == HunkTexts(file)
           head == Header(file)
<1>1. file.hunks \in Seq(Hunk)
  BY DEF File
<1>2. DOMAIN file.hunks = 1..m
  BY <1>1
<1>3. Len(texts) = m
  BY <1>2 DEF HunkTexts
<1>4. TextsOver(texts, m, Pieces)
  <2>1. \A j \in 1..m : file.hunks[j] \in Hunk
    BY <1>1, <1>2
  <2>2. \A j \in 1..m : texts[j] \in Seq(Pieces)
    BY <1>2, <2>1, HunkIsPieces DEF HunkTexts
  <2> QED BY <1>3, <2>2 DEF TextsOver
<1>5. PrintedFile(file) = head \o Joined(texts)
  BY DEF PrintedFile, Header, HunkTexts
<1> DEFINE S == Pieces \cup {head[1], head[2], head[3]}
<1>6. head \in Seq(S)
  BY DEF Header
<1> HIDE DEF texts, head
<1>7. Joined(texts) \in Seq(Pieces)
  BY <1>4, ScanTexts
<1>8. Joined(texts) \in Seq(S)
  BY <1>7
<1> HIDE DEF S
<1>9. Scanned(loop, diff, s, head \o Joined(texts)) = Scanned(loop, diff, Scanned(loop, diff, s, head), Joined(texts))
  BY <1>6, <1>8, ScanJoined
<1>10. ASSUME NEW u
       PROVE  \E t : TextCourse(loop, diff, u, texts, m, t) /\ Scanned(loop, diff, u, Joined(texts)) = t[m]
  BY <1>4, ScanTexts
<1> QED BY <1>5, <1>7, <1>9, <1>10 DEF texts, head

\* What the loops know of one file, the text of another does not change.
LEMMA FileKeepsOthers ==
  ASSUME NEW loop \in {"added", "deleted"}, NEW diff, IsDiff(diff), NEW k \in DOMAIN diff,
         NEW s \in StateOf(loop, diff)
  PROVE  LET t == Scanned(loop, diff, s, PrintedFile(diff[k])) IN
         /\ t \in StateOf(loop, diff)
         /\ \A key \in KeysOf(diff) \ {KeyOf(diff[k])} : Known(loop, t, key) = Known(loop, s, key)
<1> DEFINE file == diff[k]
           t == Scanned(loop, diff, s, PrintedFile(file))
<1>1. file \in File
  BY FileIsWellFormed
<1>2. CASE file.hunks = <<>>
  <2>1. t = Scan(loop, diff, s, Piece("other"))
    BY <1>2, ScanPiece DEF PrintedFile
  <2>2. CASE loop = "added"
    <3>1. t \in {s, [s EXCEPT !.next = @ + 1]}
      BY <2>1, <2>2 DEF Scan, ScanAdded, Piece
    <3>2. s \in StateOf("added", diff)
      BY <2>2
    <3> HIDE DEF t
    <3>3. t \in StateOf("added", diff) /\ t.added = s.added
      BY <3>1, <3>2 DEF StateOf
    <3> QED BY <2>2, <3>3 DEF Known, t
  <2>3. CASE loop = "deleted"
    <3>1. t = s
      BY <2>1, <2>3 DEF Scan, ScanDeleted, Piece
    <3> QED BY <3>1
  <2> QED BY <2>2, <2>3
<1>3. CASE file.hunks # <<>>
  <2> DEFINE u == Scanned(loop, diff, s, Header(file))
             body == Joined(HunkTexts(file))
  <2>1. PICK m \in Nat : Len(file.hunks) = m
    BY <1>1 DEF File
  <2>2. body \in Seq(Pieces) /\ t = Scanned(loop, diff, u, body)
    BY <1>1, <1>3, <2>1, ScanFile
  <2>3. Within(loop, diff, s, KeyOf(file), u)
    <3>1. CASE loop = "added"
      BY <3>1, HeaderAdded DEF Within, Known
    <3>2. CASE loop = "deleted"
      BY <3>2, HeaderDeleted DEF Within, Known
    <3> QED BY <3>1, <3>2
  <2> HIDE DEF u, body, t, file
  <2>4. Within(loop, diff, s, KeyOf(file), Scanned(loop, diff, u, body))
    BY <2>2, <2>3, TextStaysWithin
  <2> QED BY <2>2, <2>4 DEF Within, t, file
<1> QED BY <1>2, <1>3

\* The lines a hunk adds to the file known under key, and the old lines of the
\* hunks up to j.
Adds(key, hunk) == {<<key, hunk.start + m - 1>> : m \in DOMAIN hunk.new}
OldUpTo(file, j) == UNION {{<<i, n>> : n \in DOMAIN file.hunks[i].old} : i \in 1..j}

\* Each hunk has its own old lines.
LEMMA OldLinesGrow ==
  ASSUME NEW file \in File, NEW j \in DOMAIN file.hunks, IsFiniteSet(OldUpTo(file, j - 1))
  PROVE  /\ IsFiniteSet(OldUpTo(file, j))
         /\ Cardinality(OldUpTo(file, j)) = Cardinality(OldUpTo(file, j - 1)) + Len(file.hunks[j].old)
<1>1. j \in Nat \ {0} /\ file.hunks[j] \in Hunk
  BY DEF File
<1>2. PICK n \in Nat : Len(file.hunks[j].old) = n /\ DOMAIN file.hunks[j].old = 1..n
  BY <1>1 DEF Hunk
<1> DEFINE before == OldUpTo(file, j - 1)
           more == {<<j, i>> : i \in 1..n}
           f == [i \in 1..n |-> <<j, i>>]
<1>3. OldUpTo(file, j) = before \cup more
  <2>1. 1..j = 1..(j - 1) \cup {j}
    BY <1>1
  <2> QED BY <1>2, <2>1 DEF OldUpTo
<1>4. IsFiniteSet(more) /\ Cardinality(more) = n
  <2>1. f \in Bijection(1..n, more)
    BY DEF Bijection, Injection, Surjection, IsInjective
  <2>2. ExistsBijection(1..n, more)
    BY <2>1 DEF ExistsBijection
  <2>3. IsFiniteSet(1..n) /\ Cardinality(1..n) = n
    BY FS_Interval
  <2> HIDE DEF more
  <2> QED BY <2>2, <2>3, FS_Bijection
<1>5. before \cap more = {}
  <2>1. \A x \in before : \E i \in 1..(j - 1) : x[1] = i
    BY DEF OldUpTo
  <2>2. \A x \in more : x[1] = j
    OBVIOUS
  <2>3. j \notin 1..(j - 1)
    BY <1>1
  <2> QED BY <2>1, <2>2, <2>3
<1>6. Cardinality(before) \in Nat
  BY FS_CardinalityType
<1> HIDE DEF before, more
<1>7. IsFiniteSet(before)
  BY DEF before
<1>8. IsFiniteSet(before \cup more)
        /\ Cardinality(before \cup more) = Cardinality(before) + Cardinality(more) - Cardinality(before \cap more)
  BY <1>4, <1>7, FS_Union
<1>9. Cardinality(before \cap more) = 0
  BY <1>5, FS_EmptySet
<1> QED BY <1>2, <1>3, <1>4, <1>6, <1>8, <1>9 DEF before

\* A file has finitely many old lines.
LEMMA OldLinesAreCounted ==
  ASSUME NEW file \in File
  PROVE  Cardinality(OldLines(file)) \in Nat
<1>1. PICK m \in Nat : Len(file.hunks) = m /\ DOMAIN file.hunks = 1..m
  BY DEF File
<1> DEFINE P == {j \in 0..m : IsFiniteSet(OldUpTo(file, j))}
<1>2. 0 \in P
  <2>1. OldUpTo(file, 0) = {}
    BY DEF OldUpTo
  <2> QED BY <2>1, FS_EmptySet
<1>3. ASSUME NEW j \in 1..m, j - 1 \in P
      PROVE  j \in P
  <2>1. IsFiniteSet(OldUpTo(file, j - 1)) /\ j \in 0..m
    BY <1>3
  <2>2. IsFiniteSet(OldUpTo(file, j))
    BY <1>1, <2>1, OldLinesGrow
  <2> QED BY <2>1, <2>2
<1>4. m \in P
  <2> HIDE DEF P
  <2>1. \A j \in 0..m : j \in P
    BY <1>2, <1>3, IndexInduction
  <2> QED BY <2>1
<1>5. OldLines(file) = OldUpTo(file, m)
  BY <1>1 DEF OldLines, OldUpTo
<1> QED BY <1>4, <1>5, FS_CardinalityType

\* The lines a plain file adds, if no hunk puts something in the place of a
\* last line without a newline.
LEMMA FileAdds ==
  ASSUME NEW diff, IsDiff(diff), NEW k \in DOMAIN diff, PlainFile(diff[k]),
         \A h \in ToSet(diff[k].hunks) : ~ReplacesCut(h), NEW s \in StateOf("added", diff)
  PROVE  LET t   == Scanned("added", diff, s, PrintedFile(diff[k]))
             key == KeyOf(diff[k])
         IN LinesOf(t.added, key) =
              LinesOf(s.added \cup UNION {Adds(key, diff[k].hunks[j]) : j \in DOMAIN diff[k].hunks}, key)
<1> DEFINE file == diff[k]
           key == KeyOf(file)
           t == Scanned("added", diff, s, PrintedFile(file))
           more(j) == UNION {Adds(key, file.hunks[i]) : i \in 1..j}
<1>1. file \in File /\ key \in KeysOf(diff) /\ key # NoFile
  BY FileIsWellFormed, KeysAreFiles
<1>2. PICK m \in Nat : Len(file.hunks) = m /\ DOMAIN file.hunks = 1..m
  BY <1>1 DEF File
<1>3. \A j \in 1..m : /\ PlainHunk(file.hunks[j]) /\ ~ReplacesCut(file.hunks[j])
                      /\ file.hunks[j].new # <<>> => file.hunks[j].start > 0
                      /\ file.path = NoPath => file.hunks[j].new = <<>>
  <2> TAKE j \in 1..m
  <2>1. file.hunks[j] \in ToSet(file.hunks)
    BY <1>2 DEF ToSet
  <2>2. /\ file.hunks[j] \in Hunk
        /\ file.path = NoPath => file.hunks[j].new = <<>>
        /\ file.hunks[j].new # <<>> => file.hunks[j].start > 0
    BY <1>2, FileIsWellFormed
  <2> QED BY <2>1, <2>2 DEF PlainFile, PlainHunk
<1>4. CASE file.hunks = <<>>
  <2>1. t = Scan("added", diff, s, Piece("other"))
    BY <1>4, ScanPiece DEF PrintedFile
  <2>2. t \in {s, [s EXCEPT !.next = @ + 1]}
    BY <2>1 DEF Scan, ScanAdded, Piece
  <2> HIDE DEF t
  <2>3. t.added = s.added
    BY <2>2 DEF StateOf
  <2>4. DOMAIN file.hunks = {}
    BY <1>4
  <2> QED BY <2>3, <2>4 DEF t
<1>5. CASE file.hunks # <<>>
  <2> DEFINE u == Scanned("added", diff, s, Header(file))
             texts == HunkTexts(file)
             body == Joined(texts)
  <2>1. body \in Seq(Pieces) /\ t = Scanned("added", diff, u, body)
    BY <1>1, <1>2, <1>5, ScanFile
  <2>2. /\ u \in StateOf("added", diff) /\ u.added = s.added
        /\ file.path # NoPath => u.file = key
        /\ file.path = NoPath => u.file = NoFile
    BY HeaderAdded DEF PlainFile
  <2>3. PICK g : TextCourse("added", diff, u, texts, m, g) /\ Scanned("added", diff, u, body) = g[m]
    BY <1>1, <1>2, <1>5, ScanFile
  <2>4. \A j \in 1..m : texts[j] = PrintedHunk(file.hunks[j]) /\ texts[j] \in Seq(Pieces)
    BY <1>2, <1>3, HunkIsPieces DEF HunkTexts, PlainHunk
  <2> HIDE DEF u, texts, body, t, key, more, file
  <2>5. CASE file.path = NoPath
    <3>1. Within("added", diff, u, NoFile, u)
      BY <2>2, <2>5 DEF Within
    <3>2. Within("added", diff, u, NoFile, t)
      BY <2>1, <3>1, TextStaysWithin
    <3>3. Known("added", t, key) = Known("added", u, key)
      BY <1>1, <3>2 DEF Within
    <3>4. \A j \in DOMAIN file.hunks : Adds(key, file.hunks[j]) = {}
      BY <1>2, <1>3, <2>5 DEF Adds
    <3>5. UNION {Adds(key, file.hunks[j]) : j \in DOMAIN file.hunks} = {}
      BY <3>4
    <3> QED BY <2>2, <3>3, <3>5 DEF Known, t, key, file
  <2>6. CASE file.path # NoPath
    <3> DEFINE P == {j \in 0..m : g[j] \in StateOf("added", diff) /\ g[j].file = key
                                    /\ g[j].added = s.added \cup more(j)}
    <3>1. 0 \in P
      <4>1. more(0) = {}
        BY DEF more
      <4> QED BY <2>2, <2>3, <2>6, <4>1 DEF TextCourse
    <3>2. ASSUME NEW j \in 1..m, j - 1 \in P
          PROVE  j \in P
      <4>1. g[j] = Scanned("added", diff, g[j - 1], PrintedHunk(file.hunks[j]))
        BY <2>3, <2>4 DEF TextCourse
      <4>2. g[j - 1] \in StateOf("added", diff) /\ g[j - 1].file = key
              /\ g[j - 1].added = s.added \cup more(j - 1)
        BY <3>2
      <4>3. Within("added", diff, g[j - 1], key, g[j - 1])
        BY <4>2 DEF Within
      <4>4. PrintedHunk(file.hunks[j]) \in Seq(Pieces)
        BY <2>4
      <4>5. Within("added", diff, g[j - 1], key, g[j])
        BY <4>1, <4>3, <4>4, TextStaysWithin
      <4>6. g[j].file = key /\ g[j].added = g[j - 1].added \cup Adds(key, file.hunks[j])
        BY <1>1, <1>3, <4>1, <4>2, HunkAdds DEF Adds
      <4>7. more(j) = more(j - 1) \cup Adds(key, file.hunks[j])
        <5>1. 1..j = 1..(j - 1) \cup {j}
          OBVIOUS
        <5> QED BY <5>1 DEF more
      <4>8. j \in 0..m
        OBVIOUS
      <4> QED BY <4>2, <4>5, <4>6, <4>7, <4>8 DEF Within
    <3>3. m \in P
      <4> HIDE DEF P
      <4>1. \A j \in 0..m : j \in P
        BY <3>1, <3>2, IndexInduction
      <4> QED BY <4>1
    <3>4. t.added = s.added \cup more(m)
      BY <2>1, <2>3, <3>3
    <3> QED BY <1>2, <3>4 DEF t, key, file, more
  <2> QED BY <2>5, <2>6
<1> QED BY <1>4, <1>5

\* The number of lines a plain file deletes.
LEMMA FileDeletes ==
  ASSUME NEW diff, IsDiff(diff), NEW k \in DOMAIN diff, PlainFile(diff[k]), NEW s \in StateOf("deleted", diff)
  PROVE  LET t == Scanned("deleted", diff, s, PrintedFile(diff[k])) IN
         t.count[KeyOf(diff[k])] = s.count[KeyOf(diff[k])] + Cardinality(OldLines(diff[k]))
<1> DEFINE file == diff[k]
           key == KeyOf(file)
           t == Scanned("deleted", diff, s, PrintedFile(file))
<1>1. file \in File /\ key \in KeysOf(diff) /\ key # NoFile
  BY FileIsWellFormed, KeysAreFiles
<1>2. PICK m \in Nat : Len(file.hunks) = m /\ DOMAIN file.hunks = 1..m
  BY <1>1 DEF File
<1>3. \A j \in 1..m : /\ PlainHunk(file.hunks[j])
                      /\ file.old = NoPath => file.hunks[j].old = <<>>
  <2> TAKE j \in 1..m
  <2>1. file.hunks[j] \in ToSet(file.hunks)
    BY <1>2 DEF ToSet
  <2>2. /\ file.hunks[j] \in Hunk
        /\ file.old = NoPath => file.hunks[j].old = <<>>
    BY <1>2, FileIsWellFormed
  <2> QED BY <2>1, <2>2 DEF PlainFile, PlainHunk
<1>4. OldLines(file) = OldUpTo(file, m)
  BY <1>2 DEF OldLines, OldUpTo
<1>5. s.count[key] \in Nat
  BY <1>1 DEF StateOf
<1>6. OldUpTo(file, 0) = {}
  BY DEF OldUpTo
<1>7. CASE file.hunks = <<>>
  <2>1. t = Scan("deleted", diff, s, Piece("other"))
    BY <1>7, ScanPiece DEF PrintedFile
  <2>2. t = s
    BY <2>1 DEF Scan, ScanDeleted, Piece
  <2>3. m = 0
    BY <1>2, <1>7
  <2>4. Cardinality(OldLines(file)) = 0
    BY <1>4, <1>6, <2>3, FS_EmptySet
  <2> QED BY <1>5, <2>2, <2>4
<1>8. CASE file.hunks # <<>>
  <2> DEFINE u == Scanned("deleted", diff, s, Header(file))
             texts == HunkTexts(file)
             body == Joined(texts)
  <2>1. body \in Seq(Pieces) /\ t = Scanned("deleted", diff, u, body)
    BY <1>1, <1>2, <1>8, ScanFile
  <2>2. /\ u \in StateOf("deleted", diff) /\ u.count = s.count
        /\ file.old # NoPath => u.file = key
        /\ file.old = NoPath => u.file = NoFile
    BY HeaderDeleted DEF PlainFile
  <2>3. PICK g : TextCourse("deleted", diff, u, texts, m, g) /\ Scanned("deleted", diff, u, body) = g[m]
    BY <1>1, <1>2, <1>8, ScanFile
  <2>4. \A j \in 1..m : texts[j] = PrintedHunk(file.hunks[j]) /\ texts[j] \in Seq(Pieces)
    BY <1>2, <1>3, HunkIsPieces DEF HunkTexts, PlainHunk
  <2> HIDE DEF u, texts, body, t, key, file
  <2>5. CASE file.old = NoPath
    <3>1. Within("deleted", diff, u, NoFile, u)
      BY <2>2, <2>5 DEF Within
    <3>2. Within("deleted", diff, u, NoFile, t)
      BY <2>1, <3>1, TextStaysWithin
    <3>3. Known("deleted", t, key) = Known("deleted", u, key)
      BY <1>1, <3>2 DEF Within
    <3>4. \A j \in 1..m : file.hunks[j].old = <<>>
      BY <1>3, <2>5
    <3>5. OldUpTo(file, m) = {}
      BY <3>4 DEF OldUpTo
    <3>6. Cardinality(OldLines(file)) = 0
      BY <1>4, <3>5, FS_EmptySet
    <3> QED BY <1>5, <2>2, <3>3, <3>6 DEF Known, t, key, file
  <2>6. CASE file.old # NoPath
    <3> DEFINE P == {j \in 0..m : g[j] \in StateOf("deleted", diff) /\ g[j].file = key
                                    /\ IsFiniteSet(OldUpTo(file, j))
                                    /\ g[j].count[key] = s.count[key] + Cardinality(OldUpTo(file, j))}
    <3>1. 0 \in P
      <4>1. IsFiniteSet(OldUpTo(file, 0)) /\ Cardinality(OldUpTo(file, 0)) = 0
        BY <1>6, FS_EmptySet
      <4> QED BY <1>5, <2>2, <2>3, <2>6, <4>1 DEF TextCourse
    <3>2. ASSUME NEW j \in 1..m, j - 1 \in P
          PROVE  j \in P
      <4>1. g[j] = Scanned("deleted", diff, g[j - 1], PrintedHunk(file.hunks[j]))
        BY <2>3, <2>4 DEF TextCourse
      <4>2. g[j - 1] \in StateOf("deleted", diff) /\ g[j - 1].file = key
              /\ IsFiniteSet(OldUpTo(file, j - 1))
              /\ g[j - 1].count[key] = s.count[key] + Cardinality(OldUpTo(file, j - 1))
        BY <3>2
      <4>3. Within("deleted", diff, g[j - 1], key, g[j - 1])
        BY <4>2 DEF Within
      <4>4. PrintedHunk(file.hunks[j]) \in Seq(Pieces)
        BY <2>4
      <4>5. Within("deleted", diff, g[j - 1], key, g[j])
        BY <4>1, <4>3, <4>4, TextStaysWithin
      <4>6. g[j].file = key /\ g[j].count[key] = g[j - 1].count[key] + Len(file.hunks[j].old)
        BY <1>1, <1>3, <4>1, <4>2, HunkDeletes
      <4>7. IsFiniteSet(OldUpTo(file, j))
              /\ Cardinality(OldUpTo(file, j)) = Cardinality(OldUpTo(file, j - 1)) + Len(file.hunks[j].old)
        BY <1>1, <1>2, <4>2, OldLinesGrow
      <4>8. PICK a \in Nat : a = Cardinality(OldUpTo(file, j - 1))
        BY <4>2, FS_CardinalityType
      <4>9. PICK b \in Nat : b = Len(file.hunks[j].old)
        BY <1>3 DEF PlainHunk, Hunk
      <4>10. g[j].count[key] = s.count[key] + Cardinality(OldUpTo(file, j))
        BY <1>5, <4>2, <4>6, <4>7, <4>8, <4>9
      <4>11. j \in 0..m /\ g[j] \in StateOf("deleted", diff)
        BY <4>5 DEF Within
      <4> QED BY <4>6, <4>7, <4>10, <4>11
    <3>3. m \in P
      <4> HIDE DEF P
      <4>1. \A j \in 0..m : j \in P
        BY <3>1, <3>2, IndexInduction
      <4> QED BY <4>1
    <3>4. t.count[key] = s.count[key] + Cardinality(OldUpTo(file, m))
      BY <2>1, <2>3, <3>3
    <3> QED BY <1>4, <3>4 DEF t, key, file
  <2> QED BY <2>5, <2>6
<1> QED BY <1>7, <1>8

\* What the loops know of a file at the end comes from its own text.
LEMMA OnlyItsText ==
  ASSUME NEW loop \in {"added", "deleted"}, NEW diff, IsDiff(diff), NEW k \in DOMAIN diff,
         NEW s \in StateOf(loop, diff)
  PROVE  LET key == KeyOf(diff[k]) IN
         \E u \in StateOf(loop, diff) :
           /\ Known(loop, u, key) = Known(loop, s, key)
           /\ Known(loop, Scanned(loop, diff, s, Printed(diff)), key) =
                Known(loop, Scanned(loop, diff, u, PrintedFile(diff[k])), key)
<1> DEFINE key == KeyOf(diff[k])
           texts == [i \in DOMAIN diff |-> PrintedFile(diff[i])]
<1>1. PICK n \in Nat : Len(diff) = n /\ DOMAIN diff = 1..n
  BY DEF IsDiff
<1> DEFINE S == Pieces \cup UNION {{Header(diff[i])[1], Header(diff[i])[2], Header(diff[i])[3]} : i \in 1..n}
<1>2. ASSUME NEW i \in 1..n
      PROVE  PrintedFile(diff[i]) \in Seq(S)
  <2>1. diff[i] \in File
    BY <1>1, FileIsWellFormed
  <2>2. CASE diff[i].hunks = <<>>
    <3>1. Piece("other") \in Pieces
      BY DEF Piece, Pieces, PieceKinds
    <3>2. Piece("other") \in S
      BY <3>1
    <3> HIDE DEF S
    <3> QED BY <2>2, <3>2 DEF PrintedFile
  <2>3. CASE diff[i].hunks # <<>>
    <3>1. PICK m \in Nat : Len(diff[i].hunks) = m
      BY <2>1 DEF File
    <3>2. Joined(HunkTexts(diff[i])) \in Seq(Pieces)
      BY <2>1, <2>3, <3>1, ScanFile
    <3>3. Joined(HunkTexts(diff[i])) \in Seq(S)
      BY <3>2
    <3>4. Header(diff[i])[1] \in S /\ Header(diff[i])[2] \in S /\ Header(diff[i])[3] \in S
      OBVIOUS
    <3> HIDE DEF S
    <3>5. Header(diff[i]) \in Seq(S)
      <4>1. PICK a, b, c : Header(diff[i]) = <<a, b, c>>
        BY DEF Header
      <4>2. a \in S /\ b \in S /\ c \in S
        BY <3>4, <4>1
      <4> QED BY <4>1, <4>2
    <3>6. PrintedFile(diff[i]) = Header(diff[i]) \o Joined(HunkTexts(diff[i]))
      BY <2>3 DEF PrintedFile, Header, HunkTexts
    <3> QED BY <3>3, <3>5, <3>6
  <2> QED BY <2>2, <2>3
<1> HIDE DEF S
<1>3. TextsOver(texts, n, S)
  BY <1>1, <1>2 DEF TextsOver
<1>4. \A i \in 1..n : texts[i] = PrintedFile(diff[i])
  BY <1>1
<1>5. Printed(diff) = Joined(texts)
  BY DEF Printed
<1> HIDE DEF texts
<1>6. PICK t : TextCourse(loop, diff, s, texts, n, t) /\ Scanned(loop, diff, s, Joined(texts)) = t[n]
  BY <1>3, ScanTexts
<1> DEFINE P == {i \in 0..n : /\ t[i] \in StateOf(loop, diff)
                              /\ i < k => Known(loop, t[i], key) = Known(loop, s, key)
                              /\ i >= k => Known(loop, t[i], key) = Known(loop, t[k], key)}
<1>7. k \in 1..n /\ key \in KeysOf(diff)
  BY <1>1, FileIsWellFormed
<1>8. 0 \in P
  BY <1>6, <1>7 DEF TextCourse
<1>9. ASSUME NEW i \in 1..n, i - 1 \in P
      PROVE  i \in P
  <2>1. t[i] = Scanned(loop, diff, t[i - 1], PrintedFile(diff[i]))
    BY <1>4, <1>6 DEF TextCourse
  <2>2. t[i - 1] \in StateOf(loop, diff)
    BY <1>9
  <2>3. t[i] \in StateOf(loop, diff)
          /\ \A other \in KeysOf(diff) \ {KeyOf(diff[i])} : Known(loop, t[i], other) = Known(loop, t[i - 1], other)
    BY <1>1, <2>1, <2>2, FileKeepsOthers
  <2>4. i # k => KeyOf(diff[i]) # key
    BY <1>1, <1>7 DEF IsDiff
  <2>5. i # k => Known(loop, t[i], key) = Known(loop, t[i - 1], key)
    BY <1>7, <2>3, <2>4
  <2> HIDE DEF key
  <2> QED BY <1>7, <1>9, <2>3, <2>5
<1>10. \A i \in 0..n : i \in P
  <2> HIDE DEF P
  <2> QED BY <1>8, <1>9, IndexInduction
<1>11. n \in P /\ k - 1 \in P /\ k - 1 < k /\ n >= k
  BY <1>7, <1>10
<1>12. t[k] = Scanned(loop, diff, t[k - 1], PrintedFile(diff[k]))
  BY <1>4, <1>6, <1>7 DEF TextCourse
<1> QED BY <1>5, <1>6, <1>11, <1>12

\* What the loops have at the end of a diff is what it says of a plain file.
LEMMA PlainFileIsRead ==
  ASSUME NEW diff, IsDiff(diff), NEW k \in DOMAIN diff, PlainFile(diff[k])
  PROVE  LET key == KeyOf(diff[k]) IN
         /\ (\A h \in ToSet(diff[k].hunks) : ~ReplacesCut(h)) =>
              LinesOf(AddedLines(diff), key) = LinesOf(TrulyAdded(diff), key)
         /\ DeletedCounts(diff)[key] = TrulyDeleted(diff)[key]
<1> DEFINE key == KeyOf(diff[k])
           s0 == [file |-> NoFile, next |-> 0, added |-> {}]
           d0 == [file |-> NoFile, count |-> [other \in KeysOf(diff) |-> 0]]
<1>1. key \in KeysOf(diff)
  BY FileIsWellFormed
<1>2. \A i \in DOMAIN diff : KeyOf(diff[i]) = key => i = k
  BY DEF IsDiff
<1>3. ASSUME \A h \in ToSet(diff[k].hunks) : ~ReplacesCut(h)
      PROVE  LinesOf(AddedLines(diff), key) = LinesOf(TrulyAdded(diff), key)
  <2> DEFINE own == UNION {Adds(key, diff[k].hunks[j]) : j \in DOMAIN diff[k].hunks}
  <2>1. s0 \in StateOf("added", diff)
    BY DEF StateOf
  <2>2. PICK u \in StateOf("added", diff) :
          /\ Known("added", u, key) = Known("added", s0, key)
          /\ Known("added", Scanned("added", diff, s0, Printed(diff)), key) =
               Known("added", Scanned("added", diff, u, PrintedFile(diff[k])), key)
    BY <2>1, OnlyItsText
  <2>3. LinesOf(Scanned("added", diff, u, PrintedFile(diff[k])).added, key) = LinesOf(u.added \cup own, key)
    BY <1>3, FileAdds
  <2>4. LinesOf(u.added, key) = {}
    BY <2>2 DEF Known, LinesOf
  <2>5. LinesOf(u.added \cup own, key) = LinesOf(own, key)
    BY <2>4 DEF LinesOf
  <2>6. LinesOf(AddedLines(diff), key) = LinesOf(own, key)
    BY <2>2, <2>3, <2>5 DEF Known, AddedLines
  <2>7. LinesOf(TrulyAdded(diff), key) = LinesOf(own, key)
    <3> DEFINE all == TrulyAdded(diff)
    <3>1. \A p : p \in own <=> \E j \in DOMAIN diff[k].hunks : p \in Adds(key, diff[k].hunks[j])
      OBVIOUS
    <3>2. \A p : p \in all <=> \E i \in DOMAIN diff : \E j \in DOMAIN diff[i].hunks :
                                 p \in Adds(KeyOf(diff[i]), diff[i].hunks[j])
      BY DEF TrulyAdded, Adds, ToSet
    <3>3. \A other, h : \A p \in Adds(other, h) : p[1] = other
      BY DEF Adds
    <3> HIDE DEF own, all, key
    <3>4. \A p : p[1] = key => (p \in all <=> p \in own)
      BY <1>2, <3>1, <3>2, <3>3 DEF key
    <3>5. {p \in all : p[1] = key} = {p \in own : p[1] = key}
      BY <3>4
    <3> QED BY <3>5 DEF LinesOf, all
  <2> QED BY <2>6, <2>7
<1>4. DeletedCounts(diff)[key] = TrulyDeleted(diff)[key]
  <2>1. d0 \in StateOf("deleted", diff)
    BY DEF StateOf
  <2>2. PICK u \in StateOf("deleted", diff) :
          /\ Known("deleted", u, key) = Known("deleted", d0, key)
          /\ Known("deleted", Scanned("deleted", diff, d0, Printed(diff)), key) =
               Known("deleted", Scanned("deleted", diff, u, PrintedFile(diff[k])), key)
    BY <2>1, OnlyItsText
  <2>3. Scanned("deleted", diff, u, PrintedFile(diff[k])).count[key] =
          u.count[key] + Cardinality(OldLines(diff[k]))
    BY FileDeletes
  <2>4. u.count[key] = 0
    BY <1>1, <2>2 DEF Known
  <2>5. Cardinality(OldLines(diff[k])) \in Nat
    BY FileIsWellFormed, OldLinesAreCounted
  <2>6. DeletedCounts(diff)[key] = 0 + Cardinality(OldLines(diff[k]))
    BY <2>2, <2>3, <2>4 DEF Known, DeletedCounts
  <2>7. (CHOOSE i \in DOMAIN diff : KeyOf(diff[i]) = key) = k
    BY <1>2
  <2>8. TrulyDeleted(diff)[key] = Cardinality(OldLines(diff[k]))
    BY <1>1, <2>7 DEF TrulyDeleted
  <2> QED BY <2>5, <2>6, <2>8
<1> QED BY <1>3, <1>4

\* For every diff git prints: whatever else it changes, the added lines of a
\* plain file are known under their numbers and its deleted lines are counted,
\* unless a last line without a newline is replaced (gitops.py:115-168).
THEOREM AddedLinesExact == Spec => []AddedLinesAreExact
<1>1. Computed => AddedLinesAreExact
  <2> SUFFICES ASSUME Computed, step = "diff", NEW i \in DOMAIN input, PlainFile(input[i])
               PROVE  LET key == KeyOf(input[i]) IN
                      /\ (\A h \in ToSet(input[i].hunks) : ~ReplacesCut(h)) =>
                           LinesOf(output.added, key) = LinesOf(TrulyAdded(input), key)
                      /\ output.deleted[key] = TrulyDeleted(input)[key]
    BY DEF AddedLinesAreExact
  <2>1. IsDiff(input) /\ output.added = AddedLines(input) /\ output.deleted = DeletedCounts(input)
    BY AnalysisAssumption DEF Computed
  <2> QED BY <2>1, PlainFileIsRead
<1> QED BY <1>1, AlwaysComputed, PTL
-----------------------------------------------------------------------------
(* Compiled tests.                                                         *)

\* What a call gives: an integer or the exception.
LEMMA CallReturns ==
  ASSUME NEW fn, \A v \in DOMAIN fn.result : fn.result[v] \in Int \cup {Raises}, NEW v
  PROVE  Call(fn, v) \in Int \cup {Raises}
BY DEF Call

\* Everything that is drawn for a requirement from which the test does not
\* stray is an input the requirement is about.
LEMMA DrawnAreInputs ==
  ASSUME NEW req, ~Strays(req), req.kind \notin {"rejects_invalid", "examples"},
         NEW draw \in Draws(req)
  PROVE  \A i \in DOMAIN draw : draw[i] \in req.inputs
BY DEF Strays

\* Unless the test strays from the requirement, cannot run, or is that of a
\* round trip, an assertion or a call that fails contradicts the requirement.
LEMMA FailureIsViolation ==
  ASSUME NEW req, NEW fn, req.kind \in Kinds, req.kind # "round_trip",
         {req.min, req.max} \subseteq Int \cup {Absent, NullValue},
         req.examples # <<>> => 1 \in DOMAIN req.examples,
         \A v \in DOMAIN fn.result : fn.result[v] \in Int \cup {Raises},
         ~Strays(req), NEW draw \in Draws(req), BodyFails(req, fn, draw), Meets(req, fn)
  PROVE  FALSE
<1> DEFINE first == Call(fn, draw[1])
<1>1. \A v : Call(fn, v) \in Int \cup {Raises}
  BY CallReturns
<1>2. Raises \notin Int
  BY CompiledTestsAssumption
<1>3. CASE req.kind = "bounds"
  <2>1. PICK v : draw = <<v>>
    BY <1>3 DEF Draws
  <2>2. draw[1] \in req.inputs
    BY <1>3, <2>1, DrawnAreInputs
  <2>3. /\ req.min \in Int /\ req.max \in Int
        /\ Low(req) = req.min /\ High(req) = req.max /\ Gives(req.min) /\ Gives(req.max)
    BY <1>3 DEF Strays, Gives, Low, High
  <2>4. first # Raises /\ first >= req.min /\ first <= req.max
    BY <1>3, <2>2, <2>3 DEF Meets
  <2>5. (\E w \in {draw[1]} : Call(fn, w) = Raises) \/ first < Low(req) \/ first > High(req)
    BY <1>3 DEF BodyFails, Called, Refutes
  <2>6. first \in Int
    BY <1>1, <2>4
  <2> HIDE DEF first
  <2>7. first = Call(fn, draw[1])
    BY DEF first
  <2> QED BY <2>3, <2>4, <2>5, <2>6, <2>7
<1>4. CASE req.kind \in {"charset", "schema_valid"}
  <2>1. PICK v : draw = <<v>>
    BY <1>4 DEF Draws
  <2>2. draw[1] \in req.inputs
    BY <1>4, <2>1, DrawnAreInputs
  <2>3. first # Raises
    BY <1>4, <2>2 DEF Meets
  <2>4. Called(req, fn, draw) = {draw[1]} /\ ~Refutes(req, fn, draw)
    BY <1>4 DEF Called, Refutes
  <2> QED BY <2>3, <2>4 DEF BodyFails
<1>5. CASE req.kind = "idempotent"
  <2>1. PICK v : draw = <<v>>
    BY <1>5 DEF Draws
  <2>2. draw[1] \in req.inputs
    BY <1>5, <2>1, DrawnAreInputs
  <2>3. first # Raises /\ Call(fn, first) = first
    BY <1>5, <2>2 DEF Meets
  <2>4. (\E w \in {draw[1], first} : Call(fn, w) = Raises) \/ Call(fn, first) # first
    BY <1>5 DEF BodyFails, Called, Refutes
  <2> QED BY <2>3, <2>4
<1>6. CASE req.kind = "monotonic"
  <2>1. PICK v \in 0..Hundred, w \in 0..Hundred : draw = <<v, w>>
    BY <1>6 DEF Draws
  <2>2. v \in req.inputs /\ w \in req.inputs /\ draw[1] = v /\ draw[2] = w
    BY <1>6, <2>1, DrawnAreInputs
  <2>3. Call(fn, v) # Raises /\ Call(fn, w) # Raises /\ (v <= w => Call(fn, v) <= Call(fn, w))
    BY <1>6, <2>2 DEF Meets
  <2>4. \/ \E u \in (IF v > w THEN {} ELSE {v, w}) : Call(fn, u) = Raises
        \/ v <= w /\ Call(fn, v) > Call(fn, w)
    BY <1>6, <2>2 DEF BodyFails, Called, Refutes
  <2>5. Call(fn, v) \in Int /\ Call(fn, w) \in Int
    BY <1>1, <2>3
  <2>6. v <= w /\ Call(fn, v) > Call(fn, w)
    BY <2>3, <2>4
  <2> QED BY <2>3, <2>5, <2>6
<1>7. CASE req.kind = "non_negative"
  <2>1. PICK v : draw = <<v>>
    BY <1>7 DEF Draws
  <2>2. draw[1] \in req.inputs
    BY <1>7, <2>1, DrawnAreInputs
  <2>3. first # Raises /\ first >= 0
    BY <1>7, <2>2 DEF Meets
  <2>4. (\E w \in {draw[1]} : Call(fn, w) = Raises) \/ first < 0
    BY <1>7 DEF BodyFails, Called, Refutes
  <2>5. first \in Int
    BY <1>1, <2>3
  <2>6. first < 0
    BY <2>3, <2>4
  <2> HIDE DEF first
  <2> QED BY <2>3, <2>5, <2>6
<1>8. CASE req.kind = "rejects_invalid"
  BY <1>8 DEF BodyFails
<1>9. CASE req.kind = "examples"
  <2> DEFINE example == req.examples[1]
  <2>1. req.examples # <<>> /\ example.positional = example.call
    BY <1>9 DEF Strays
  <2>2. draw = <<example.positional>>
    BY <1>9, <2>1 DEF Draws
  <2>3. draw[1] = example.call
    BY <2>1, <2>2
  <2>4. (\E w \in {draw[1]} : Call(fn, w) = Raises) \/ example.expected \notin {Absent, first}
    BY <1>9 DEF BodyFails, Called, Refutes
  <2>5. 1 \in DOMAIN req.examples
    BY <2>1
  <2>6. first # Raises /\ example.expected \in {Absent, first}
    BY <1>9, <2>3, <2>5 DEF Meets
  <2> QED BY <2>4, <2>6
<1> QED BY <1>3, <1>4, <1>5, <1>6, <1>7, <1>8, <1>9 DEF Kinds

\* For all requirements and functions: a compiled test that fails accuses
\* rightly, or for one of the reasons that lie in the test
\* (generation/compiler.py).
THEOREM CompiledTestsAreSound == Spec => []TestsAreSound
<1>1. Computed => TestsAreSound
  <2> DEFINE req == input.req
             fn == input.fn
  <2> SUFFICES ASSUME Computed, step = "test", output, Meets(req, fn), fn.loads,
                      ~NeverRuns(req), ~Strays(req), req.kind # "round_trip"
               PROVE  \E draw \in Draws(req) : TakesTooLong(req, fn, draw)
    BY DEF TestsAreSound
  <2>1. input \in TestCases /\ output = CanFail(req, fn)
    BY DEF Computed
  <2>2. PICK draw \in Draws(req) : BodyFails(req, fn, draw) \/ TakesTooLong(req, fn, draw)
    BY <2>1 DEF CanFail
  <2>3. /\ req.kind \in Kinds /\ (req.examples # <<>> => 1 \in DOMAIN req.examples)
        /\ {req.min, req.max} \subseteq Int \cup {Absent, NullValue}
        /\ \A v \in DOMAIN fn.result : fn.result[v] \in Int \cup {Raises}
    BY <2>1, AnalysisAssumption
  <2> HIDE DEF req, fn
  <2>4. ~BodyFails(req, fn, draw)
    BY <2>3, FailureIsViolation
  <2> QED BY <2>2, <2>4
<1> QED BY <1>1, AlwaysComputed, PTL
-----------------------------------------------------------------------------
(* Requirements.                                                           *)

\* What a citation of a source quotes is in the commit.
LEMMA SourceIsQuoted ==
  ASSUME NEW ref, NEW config, NEW source \in Sources(ref, config),
         NEW cite, CitationMatches(source, cite)
  PROVE  QuotesCommit(cite, ref) /\ cite.path \in WantedPaths(config)
<1>1. PICK i \in Wanted(config) :
        /\ ref \in DOMAIN Repo /\ Listed(config)[i] \in DOMAIN Repo[ref]
        /\ source = [ref |-> ref, path |-> Listed(config)[i],
                     lines |-> SnapshotLines(Repo[ref][Listed(config)[i]])]
  BY DEF Sources
<1>2. /\ source.ref = ref /\ source.path = Listed(config)[i]
      /\ source.lines = SnapshotLines(Repo[ref][Listed(config)[i]])
  BY <1>1
<1> QED BY <1>1, <1>2 DEF CitationMatches, QuotesCommit, WantedPaths

\* Items whose citations match are quoted.
LEMMA MatchingIsQuoted ==
  ASSUME NEW ref, NEW config, NEW items,
         \A item \in items : CitationsMatch(Sources(ref, config), item.citations)
  PROVE  Quoted(items, ref, config)
<1> SUFFICES ASSUME NEW item \in items
             PROVE  /\ item.citations # {}
                    /\ \A cite \in item.citations : QuotesCommit(cite, ref) /\ cite.path \in WantedPaths(config)
  BY DEF Quoted
<1>1. item.citations # {}
  BY DEF CitationsMatch
<1>2. ASSUME NEW cite \in item.citations
      PROVE  QuotesCommit(cite, ref) /\ cite.path \in WantedPaths(config)
  <2>1. PICK source \in Sources(ref, config) : CitationMatches(source, cite)
    BY DEF CitationsMatch
  <2> QED BY <2>1, SourceIsQuoted
<1> QED BY <1>1, <1>2

\* Whatever an extraction keeps, its citations match the sources it read.
LEMMA ExtractedMatches ==
  ASSUME NEW ref, NEW config, NEW spent, NEW answer,
         NEW item \in Extraction(ref, config, spent, answer).items
  PROVE  CitationsMatch(Sources(ref, config), item.citations)
<1>1. item \in KeptItems(Sources(ref, config), config, answer)
  BY DEF Extraction
<1>2. PICK i : CitationsMatch(Sources(ref, config), i.citations) /\ item = Trusted(i, config)
  BY <1>1 DEF KeptItems
<1>3. item.citations = i.citations
  BY <1>2 DEF Trusted
<1> QED BY <1>2, <1>3

\* For every repository, configuration and answer of a provider: what is kept
\* or accepted quotes the merge base of that run (firewall.py, artifact.py).
THEOREM RequirementsQuoted == Spec => []RequirementsAreQuoted
<1>1. Computed => RequirementsAreQuoted
  <2> SUFFICES ASSUME Computed, step = "extract" \/ (step = "load" /\ input.ref # NoBase)
               PROVE  Quoted(output.items, input.ref, input.config)
    BY DEF RequirementsAreQuoted
  <2>1. CASE step = "extract"
    <3>1. PICK answer, spent : output = Extraction(input.ref, input.config, spent, answer)
      BY <2>1 DEF Computed
    <3> QED BY <3>1, ExtractedMatches, MatchingIsQuoted
  <2>2. CASE step = "load" /\ input.ref # NoBase
    <3>1. output = Loaded(input.ref, input.config, input.file)
      BY <2>2 DEF Computed
    <3> DEFINE items == {Parsed(item) : item \in input.file.items}
    <3>2. \/ output.items = {}
          \/ /\ output.items = items
             /\ \A item \in items :
                  CitationsMatch(Sources(input.ref, input.config), item.citations)
      BY <2>2, <3>1 DEF Loaded
    <3>3. CASE output.items = {}
      BY <3>3 DEF Quoted
    <3> HIDE DEF items
    <3>4. CASE output.items # {}
      BY <3>2, <3>4, MatchingIsQuoted
    <3> QED BY <3>3, <3>4
  <2> QED BY <2>1, <2>2
<1> QED BY <1>1, AlwaysComputed, PTL
=============================================================================
