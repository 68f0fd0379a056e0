----------------------------- MODULE Provenance -----------------------------
(***************************************************************************)
(* Line provenance, the core of a VerifyPatch report: which changed lines  *)
(* are executed by tests the pull request did not touch.                   *)
(*                                                                         *)
(* A pull request takes the repository from the tree base to the tree      *)
(* head; a tree gives every file a version, 0 if it does not exist.  git   *)
(* lists the changed files, where a deleted and an added file may be       *)
(* paired as a rename (gitops.py); classify.py gives every listed path a   *)
(* kind; the coverage run tells for every changed executable line the      *)
(* contexts that executed it (coverage_run.py), normally the pytest node   *)
(* that ran; provenance.py labels each context by whether the change       *)
(* touched the test's file or the test infrastructure above it, and each   *)
(* line by its labels; engine.py derives the status of the report.         *)
(*                                                                         *)
(* A file is its path, a sequence of names.  One node stands for all       *)
(* tests of a file and is named by the file.                               *)
(***************************************************************************)
EXTENDS Naturals, FiniteSets, Sequences, SequencesExt

CONSTANTS
  Files,       \* the paths that may exist
  Lines,       \* line numbers
  DataNames,   \* names that do not end in .py
  TestNames,   \* names that match test_*.py, *_test.py or a test glob
  TestRoots,   \* configured test_paths, as sequences of names
  Collected,   \* files pytest collects tests from
  EndsWith,    \* <<g, f>>: the path g, as a string, ends with the path f
  FindRenames, \* git finds the content of some new files similar to old ones
  MaxChanges   \* bound on the files a pull request changes

ASSUME ProvenanceAssumption ==
  /\ Files \subseteq Seq(STRING) \ {<<>>}
  /\ Collected \subseteq Files
  /\ EndsWith \subseteq Files \X Files /\ \A f \in Files : <<f, f>> \in EndsWith
  /\ FindRenames \in BOOLEAN
  /\ MaxChanges \in Nat

\* Contexts that are not a collected node: code that ran outside any test, a
\* node pytest did not report, and a node without a file.
Odd == {"empty", "unmapped", "no_file"}
Contexts == Collected \cup {<<o>> : o \in Odd}

VARIABLES
  pc,        \* "diff", "lines", "done"
  base,      \* the tree at the merge base
  head,      \* the tree at the head
  changed,   \* keys of classify_diffs: the path of every entry of the diff
  plugin,    \* the pytest plugin wrote its output
  files,     \* changed production files still to analyze
  lines,     \* changed executable lines still to classify
  evidence,  \* line evidence: class of each line, "none" before
  ran,       \* what really executed each classified line
  warnings,  \* codes of the warnings
  status     \* status of the report, "none" before

vars == <<pc, base, head, changed, plugin, files, lines, evidence, ran, warnings, status>>
-----------------------------------------------------------------------------
(* Kinds of paths (classify.py).                                           *)

Dir(f) == Front(f)
Under(f, dir) == IsPrefix(dir, f)

InTestsDir(f) == \E i \in DOMAIN Dir(f) : f[i] = "tests"
InTestRoot(f) == \E root \in TestRoots : Under(f, root)

Kind(f) ==
  CASE Last(f) \in DataNames            -> "other"
    [] Last(f) = "conftest.py"          -> "conftest"
    [] Last(f) \in TestNames            -> "test_file"
    [] InTestsDir(f) \/ InTestRoot(f)   -> "shared_test_helper"
    [] OTHER                            -> "production"

\* conftest.py files that apply to a test file by directory scope.
AncestorConftests(test) ==
  {c \in Files : Last(c) = "conftest.py" /\ Under(test, Dir(c))}
-----------------------------------------------------------------------------
(* Taint (provenance.py).                                                  *)

\* A changed helper in the root directory may be used by any test.
UnresolvedHelper ==
  \E h \in changed : Kind(h) = "shared_test_helper" /\ Dir(h) = <<>>

\* Mutant: only the nearest directory's conftest.py is considered.
TouchedNearest(test) ==
  \/ test \in changed /\ Kind(test) \in {"test_file", "conftest"}
  \/ \E c \in changed : Last(c) = "conftest.py" /\ Dir(c) = Dir(test)
  \/ \E h \in changed :
       Kind(h) = "shared_test_helper" /\ Dir(h) # <<>> /\ Under(test, Dir(h))

\* taint_reasons gives a reason other than an unresolved helper.
Touched(test) ==
  \/ test \in changed /\ Kind(test) \in {"test_file", "conftest"}
  \/ AncestorConftests(test) \cap changed # {}
  \/ \E h \in changed :
       Kind(h) = "shared_test_helper" /\ Dir(h) # <<>> /\ Under(test, Dir(h))

\* Mutant: only the tests below the directory of a helper depend on it.
LabelWithoutRootHelper(context) ==
  IF context \notin Collected THEN "unknown"
  ELSE IF Touched(context) THEN "pr_touched" ELSE "pr_untouched"

\* classify_context.
Label(context) ==
  IF context \notin Collected \/ UnresolvedHelper THEN "unknown"
  ELSE IF Touched(context) THEN "pr_touched" ELSE "pr_untouched"

\* Mutant: a context that cannot be mapped is left out.
PartitionKnown(labels) ==
  CASE "pr_untouched" \in labels -> "pr_untouched"
    [] "pr_touched" \in labels   -> "pr_touched_only"
    [] "unknown" \in labels      -> "unknown_only"
    [] OTHER                     -> "uncovered"

\* partition_line: touched and unknown tests together are unknown.
Partition(labels) ==
  CASE "pr_untouched" \in labels -> "pr_untouched"
    [] "pr_untouched" \notin labels /\ "unknown" \in labels -> "unknown_only"
    [] labels = {"pr_touched"}   -> "pr_touched_only"
    [] OTHER                     -> "uncovered"

Classes == {"pr_untouched", "pr_touched_only", "unknown_only", "uncovered"}

\* The warning of an unknown line: the first of these that its notes hold.
UnknownWarning(contexts) ==
  IF <<"empty">> \in contexts THEN "empty_context"
  ELSE IF <<"unmapped">> \in contexts THEN "unmapped_context"
  ELSE "unknown_coverage"

IncompleteCodes ==
  {"source_analysis_failed", "unmapped_context", "empty_context",
   "unknown_coverage", "unsupported_concurrency", "test_parse_failed"}
-----------------------------------------------------------------------------
Differing == {f \in Files : base[f] # head[f]}
Added == {f \in Differing : base[f] = 0}
Deleted == {f \in Differing : head[f] = 0}

Init ==
  /\ pc = "diff"
  /\ base \in [Files -> {0, 1}]
  /\ \E which \in {w \in SUBSET Files : Cardinality(w) <= MaxChanges} :
       \E new \in [which -> {0, 2}] :
         head = [f \in Files |-> IF f \in which THEN new[f] ELSE base[f]]
  /\ changed = {} /\ plugin \in BOOLEAN
  /\ files = {} /\ lines = {}
  /\ evidence = [p \in Files \X Lines |-> "none"]
  /\ ran = [p \in Files \X Lines |-> {}]
  /\ warnings = {} /\ status = "none"

\* One entry per changed file; a rename is one entry, under its new path.
Entries(renamed) == Differing \ renamed

\* git diff --find-renames, classify_diffs, and the selection of the changed
\* production files; then the coverage run.
CollectDiff(renamed) ==
  /\ pc = "diff"
  /\ renamed \subseteq Deleted /\ Cardinality(renamed) <= Cardinality(Added)
  /\ renamed # {} => FindRenames
  /\ pc' = "lines"
  /\ changed' = Entries(renamed)
  /\ files' = {f \in Entries(renamed) \ Deleted : Kind(f) = "production"}
  /\ warnings' = IF plugin THEN {} ELSE {"pytest_plugin_unsupported"}
  /\ UNCHANGED <<base, head, plugin, lines, evidence, ran, status>>

\* The file is outside the measured source, or its analysis fails.
LeaveOut(f, code) ==
  /\ pc = "lines" /\ f \in files
  /\ files' = files \ {f}
  /\ warnings' = warnings \cup {code}
  /\ UNCHANGED <<pc, base, head, changed, plugin, lines, evidence, ran, status>>

\* The changed executable lines of the file.
AnalyzeFile(f, executable) ==
  /\ pc = "lines" /\ f \in files
  /\ files' = files \ {f}
  /\ lines' = lines \cup {<<f, l>> : l \in executable}
  /\ UNCHANGED <<pc, base, head, changed, plugin, evidence, ran, warnings, status>>

\* contexts_by_line reads every measured file whose path ends with this one.
Candidates(f) == {g \in Files : head[g] # 0 /\ <<g, f>> \in EndsWith}

\* What can execute a line: the tests of the head, or code outside them.
Possible ==
  IF plugin THEN {c \in Contexts : c \in Collected => head[c] # 0} ELSE {}

\* hits: the contexts coverage recorded for this line number of each candidate.
ClassifyLine(p, hits) ==
  LET contexts == UNION {hits[g] : g \in Candidates(p[1])}
      class    == Partition({Label(c) : c \in contexts})
  IN  /\ pc = "lines" /\ p \in lines
      /\ lines' = lines \ {p}
      /\ evidence' = [evidence EXCEPT ![p] = class]
      /\ ran' = [ran EXCEPT ![p] = hits[p[1]]]
      /\ warnings' = IF class = "unknown_only"
                     THEN warnings \cup {UnknownWarning(contexts)} ELSE warnings
      /\ UNCHANGED <<pc, base, head, changed, plugin, files, status>>

LinesOf(class) == {p \in Files \X Lines : evidence[p] = class}

Status(all) ==
  IF all \cap IncompleteCodes # {} \/ LinesOf("unknown_only") # {}
  THEN "incomplete" ELSE "complete"

\* The findings, which may meet a changed test file that does not parse, and
\* the status of the report.
Report(parse) ==
  /\ pc = "lines" /\ files = {} /\ lines = {}
  /\ parse # {} => \E f \in changed : Kind(f) \in {"test_file", "conftest"}
  /\ pc' = "done"
  /\ warnings' = warnings \cup parse
  /\ status' = Status(warnings')
  /\ UNCHANGED <<base, head, changed, plugin, files, lines, evidence, ran>>

Next ==
  \/ \E renamed \in SUBSET Files : CollectDiff(renamed)
  \/ \E f \in files :
       \/ \E code \in {"coverage_path_excluded", "missing_head_file",
                       "source_analysis_failed"} : LeaveOut(f, code)
       \/ \E executable \in SUBSET Lines : AnalyzeFile(f, executable)
  \/ \E p \in lines : \E hits \in [Candidates(p[1]) -> SUBSET Possible] :
       ClassifyLine(p, hits)
  \/ \E parse \in SUBSET {"test_parse_failed"} : Report(parse)
  \/ pc = "done" /\ UNCHANGED vars

Spec == Init /\ [][Next]_vars
-----------------------------------------------------------------------------
TypeOK ==
  /\ pc \in {"diff", "lines", "done"}
  /\ base \in [Files -> 0 .. 2] /\ head \in [Files -> 0 .. 2]
  /\ changed \subseteq Differing
  /\ plugin \in BOOLEAN
  /\ files \subseteq changed /\ lines \subseteq Files \X Lines
  /\ evidence \in [Files \X Lines -> Classes \cup {"none"}]
  /\ ran \in [Files \X Lines -> SUBSET Contexts]
  /\ \A p \in lines : evidence[p] = "none"
  /\ status \in {"none", "complete", "incomplete"}

\* The test and the test infrastructure that applies to it: its own file, the
\* conftest.py files above it and the helpers of test directories above it.
Infrastructure(test) ==
  {test} \cup AncestorConftests(test)
    \cup {h \in Files : Kind(h) = "shared_test_helper" /\ Under(test, Dir(h))}

\* README, "What PR-untouched means", told from the two trees and not from the
\* diff: nothing a test rests on differs between merge base and head.
Independent(test) == \A f \in Infrastructure(test) : base[f] = head[f]

\* A line counts as covered by PR-untouched tests only if a test that really
\* executed it is independent of the change.
UntouchedIsIndependent ==
  \A p \in Files \X Lines : evidence[p] = "pr_untouched" =>
    \E test \in ran[p] \cap Collected : Independent(test)

\* Both directions: a covered line is PR-untouched exactly if a test that is
\* independent of the change executed it, so no other change taints a line and
\* no dependent test clears one.
UntouchedIffIndependent ==
  \A p \in Files \X Lines : evidence[p] # "none" =>
    (evidence[p] = "pr_untouched" <=> \E test \in ran[p] \cap Collected : Independent(test))

\* A line is called covered only by touched tests when every context that
\* executed it is a test, and each of them rests on something that changed.
TouchedIsKnown ==
  \A p \in Files \X Lines : evidence[p] = "pr_touched_only" =>
    ran[p] \subseteq Collected /\ \A test \in ran[p] : ~Independent(test)

\* A complete report is certain about every line that ran, told from what really
\* executed the line: an independent test did, or nothing but collected tests
\* did and no helper of the root directory, which any test may use, differs
\* between the trees.  So neither code outside the tests nor such a helper can
\* be lost between the contexts, the labels, the warnings and the status.
CompleteIsCertain ==
  status = "complete" => \A p \in Files \X Lines : evidence[p] # "none" /\ ran[p] # {} =>
    \/ \E test \in ran[p] \cap Collected : Independent(test)
    \/ /\ ran[p] \subseteq Collected
       /\ \A h \in Files : Kind(h) = "shared_test_helper" /\ Dir(h) = <<>>
            => base[h] = head[h]
=============================================================================
