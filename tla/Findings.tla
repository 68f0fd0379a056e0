----------------------------- MODULE Findings -----------------------------
(***************************************************************************)
(* What heuristics.py reports of changes to test files: tests that are     *)
(* gone, skipped or expected to fail, and assertions that are fewer or     *)
(* weaker.  Its findings are what a policy blocks or reviews.              *)
(*                                                                         *)
(* A file is what iter_test_functions finds in it, in order, and whether   *)
(* it parses; above: a skip mark at the module or the class, which no      *)
(* function shows.  A test has a qualified name and the numbers of what    *)
(* analyze_test_file counts: skip and xfail marks and calls, broad except  *)
(* clauses, assertions of equality, bare ones and all others.              *)
(***************************************************************************)
EXTENDS Naturals, Sequences, FiniteSets, SequencesExt

Test == [name : STRING, skipMark : Nat, skipCall : Nat, xfailMark : Nat, xfailCall : Nat,
         broad : Nat, equal : Nat, bare : Nat, other : Nat]
NoSource == [parses |-> TRUE, above |-> FALSE, tests |-> <<>>]
NamesIn(tests) == {tests[i].name : i \in DOMAIN tests}
Asserts(test) == test.equal + test.bare + test.other
-----------------------------------------------------------------------------
(* analyze_test_file.                                                      *)

\* Of several functions with one name the last is kept (head_by_q).
LastNamed(tests, name) ==
  tests[CHOOSE i \in DOMAIN tests :
          /\ tests[i].name = name
          /\ \A j \in DOMAIN tests : tests[j].name = name => j <= i]

\* The tests of one file whose names the other does not have, by position.
Unmatched(tests, others) == {i \in DOMAIN tests : tests[i].name \notin NamesIn(others)}
Kept(base, head) == {<<t, LastNamed(head, t.name)>> : t \in {u \in ToSet(base) : u.name \in NamesIn(head)}}

\* Mutant: the test that is new stands for whatever is gone.
MatchedLoosely(base, head) ==
  LET gone == Unmatched(base, head)  new == Unmatched(head, base) IN
  IF gone # {} /\ Cardinality(new) = 1
  THEN [pairs   |-> Kept(base, head) \cup {<<base[i], head[j]>> : i \in {k \in gone : \A m \in gone : k <= m}, j \in new},
        removed |-> {}]
  ELSE [pairs |-> Kept(base, head), removed |-> {base[i] : i \in gone}]

\* _match_tests: by name; what is left over on both sides is taken for a
\* rename if it is one test on each.
Matched(base, head) ==
  LET gone == Unmatched(base, head)  new == Unmatched(head, base) IN
  IF Cardinality(gone) = 1 /\ Cardinality(new) = 1
  THEN [pairs   |-> Kept(base, head) \cup {<<base[i], head[j]>> : i \in gone, j \in new},
        removed |-> {}]
  ELSE [pairs |-> Kept(base, head), removed |-> {base[i] : i \in gone}]

\* The findings about a pair, as the code compares b and h.
PairFindings(b, h) ==
  {id \in {"TEST_SKIP_ADDED", "TEST_XFAIL_ADDED", "BROAD_EXCEPT_ADDED",
           "ASSERT_COUNT_DROP", "ASSERT_TO_TRUTHY"} :
     \/ /\ id = "TEST_SKIP_ADDED"
        /\ (b.skipMark = 0 /\ h.skipMark > 0) \/ (b.skipCall = 0 /\ h.skipCall > 0)
     \/ /\ id = "TEST_XFAIL_ADDED"
        /\ (b.xfailMark = 0 /\ h.xfailMark > 0) \/ (b.xfailCall = 0 /\ h.xfailCall > 0)
     \/ id = "BROAD_EXCEPT_ADDED" /\ h.broad > b.broad
     \/ id = "ASSERT_COUNT_DROP" /\ Asserts(h) < Asserts(b)
     \/ id = "ASSERT_TO_TRUTHY" /\ b.equal > 0 /\ h.bare > 0 /\ h.equal < b.equal}

\* Findings are <<id, name>>; the name is the one in the head if there is one.
FileFindings(base, head) ==
  LET m == Matched(base.tests, head.tests)
  IN {<<"TEST_REMOVED", t.name>> : t \in m.removed}
       \cup UNION {{<<id, p[2].name>> : id \in PairFindings(p[1], p[2])} : p \in m.pairs}
-----------------------------------------------------------------------------
(* collect_findings, for one entry of the diff.  An entry has a status, the *)
(* file before and after (NoSource if there is none), and whether its paths *)
(* are those of test files.                                                 *)

Analyzed(entry) == entry.isTest \/ entry.wasTest
Unparsable(entry) == ~entry.base.parses \/ ~entry.head.parses

Warned(entry) == Analyzed(entry) /\ Unparsable(entry)

\* A file that is only in the head has no findings.
Reported(entry) ==
  IF ~Analyzed(entry) \/ Unparsable(entry) \/ entry.status = "added" THEN {}
  ELSE IF entry.status = "deleted" THEN {<<"TEST_REMOVED", name>> : name \in NamesIn(entry.base.tests)}
  ELSE FileFindings(entry.base, entry.head)
-----------------------------------------------------------------------------
(* What a pull request does to the tests pytest runs.                      *)

\* The tests of a file that check something: of several functions with one
\* name Python keeps the last, and pytest collects test files only.
EffectiveTests(file, isTest) ==
  IF ~isTest \/ file.above THEN {}
  ELSE {t \in {LastNamed(file.tests, name) : name \in NamesIn(file.tests)} :
          t.skipMark = 0 /\ t.skipCall = 0}

\* The test checks less than before: it is skipped or may fail, swallows what
\* it should report, or asserts less.
Weaker(b, h) ==
  \/ h.skipMark + h.skipCall > 0 \/ h.broad > b.broad \/ Asserts(h) < Asserts(b)
  \/ h.xfailMark + h.xfailCall > 0 /\ b.xfailMark + b.xfailCall = 0
=============================================================================
