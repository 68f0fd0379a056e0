-------------------------- MODULE ProvenanceProofs --------------------------
(***************************************************************************)
(* Proofs about Provenance: for any layout of the repository and any       *)
(* change to it, a line counts as covered by PR-untouched tests only if an *)
(* independent test executed it, provided three conditions hold.  The last *)
(* is the repository shape that the README supports; the run               *)
(* provenance_rename shows that the first is needed.                       *)
(***************************************************************************)
EXTENDS Provenance, TLAPS

\* git reports no renames, no changed file shares a path suffix with another
\* measured file, and pytest collects only from files VerifyPatch takes for
\* test files or helpers.
Plain ==
  /\ ~FindRenames
  /\ \A e \in EndsWith : e[1] = e[2]
  /\ \A test \in Collected : Kind(test) # "production" /\ Kind(test) # "other"

\* What is still to analyze exists at the head, so coverage measures it.
Present ==
  /\ \A f \in files : head[f] # 0
  /\ \A p \in lines : head[p[1]] # 0

\* The diff is the difference of the trees.
DiffIsDifference == pc # "diff" => changed = Differing

\* No line has a class before its file is analyzed.
Fresh ==
  /\ pc = "diff" => \A p \in Files \X Lines : evidence[p] = "none"
  /\ \A p \in Files \X Lines : p[1] \in files => evidence[p] = "none"
  /\ \A p \in lines : p[1] \notin files
  /\ pc = "diff" => lines = {}

LabelsOf(p) == {Label(c) : c \in ran[p]}

\* The class of a line is the one its contexts give it.
ClassFollows ==
  \A p \in Files \X Lines : evidence[p] # "none" =>
    pc # "diff" /\ evidence[p] = Partition(LabelsOf(p))

IInv == TypeOK /\ Present /\ Fresh

\* With Plain: what the diff and the classes mean.
Meaning == DiffIsDifference /\ ClassFollows
-----------------------------------------------------------------------------
\* A file lies under the directory it is in.
LEMMA InOwnDir == \A f \in Files : Under(f, Dir(f))
<1> TAKE f \in Files
<1>1. f \in Seq(STRING) /\ f # <<>>
  BY ProvenanceAssumption
<1>2. QED
  BY <1>1 DEF Under, Dir, Front, IsPrefix

\* classify_path gives every path one of five kinds.
LEMMA KindValues ==
  \A f : Kind(f) \in {"other", "conftest", "test_file", "shared_test_helper", "production"}
<1> TAKE f
<1>1. QED
  BY DEF Kind

\* partition_line gives one of the four classes.
LEMMA PartitionValues == \A labels : Partition(labels) \in Classes
<1> TAKE labels
<1>1. QED
  BY DEF Partition, Classes

\* partition_line: one untouched test is enough and necessary; touched tests
\* count only among themselves.
LEMMA PartitionMeaning ==
  \A labels : /\ Partition(labels) = "pr_untouched" <=> "pr_untouched" \in labels
              /\ Partition(labels) = "pr_touched_only" => labels = {"pr_touched"}
<1> TAKE labels
<1>1. QED
  BY DEF Partition

\* What Possible offers is a set of contexts.
LEMMA PossibleContexts == Possible \subseteq Contexts
<1>1. QED
  BY DEF Possible
-----------------------------------------------------------------------------
\* The initial states satisfy the type invariant.
LEMMA InitInv == Init => IInv
<1> SUFFICES ASSUME Init PROVE IInv
  OBVIOUS
<1>1. base \in [Files -> 0 .. 2]
  BY DEF Init
<1>2. head \in [Files -> 0 .. 2]
  <2>1. PICK which \in SUBSET Files : \E new \in [which -> {0, 2}] :
          head = [f \in Files |-> IF f \in which THEN new[f] ELSE base[f]]
    BY DEF Init
  <2>2. PICK new \in [which -> {0, 2}] :
          head = [f \in Files |-> IF f \in which THEN new[f] ELSE base[f]]
    BY <2>1
  <2>3. \A f \in Files : (IF f \in which THEN new[f] ELSE base[f]) \in 0 .. 2
    BY <1>1, <2>2
  <2>4. QED
    BY <2>2, <2>3
<1>3. evidence \in [Files \X Lines -> Classes \cup {"none"}]
  BY DEF Init
<1>4. ran \in [Files \X Lines -> SUBSET Contexts]
  BY DEF Init
<1>5. QED
  BY <1>1, <1>2, <1>3, <1>4 DEF Init, IInv, TypeOK, Present, Fresh

\* Reading the diff keeps it.
LEMMA CollectDiffInv ==
  ASSUME IInv, NEW renamed \in SUBSET Files, CollectDiff(renamed) PROVE IInv'
<1> USE DEF CollectDiff, IInv, TypeOK
<1>1. changed' \subseteq Differing'
  BY DEF Entries, Differing
<1>2. files' \subseteq changed' /\ \A f \in files' : head'[f] # 0
  BY DEF Entries, Deleted, Differing
<1>3. Present'
  BY <1>2 DEF Present
<1>4. Fresh'
  BY DEF Fresh
<1>5. QED
  BY <1>1, <1>2, <1>3, <1>4

\* Leaving a file out keeps it.
LEMMA LeaveOutInv ==
  ASSUME IInv, NEW f \in files, NEW code, LeaveOut(f, code) PROVE IInv'
<1> USE DEF LeaveOut, IInv, TypeOK
<1>1. changed' \subseteq Differing'
  BY DEF Differing
<1>2. QED
  BY <1>1 DEF Present, Fresh

\* Analyzing a file keeps it.
LEMMA AnalyzeFileInv ==
  ASSUME IInv, NEW f \in files, NEW executable \in SUBSET Lines, AnalyzeFile(f, executable)
  PROVE  IInv'
<1> USE DEF AnalyzeFile, IInv, TypeOK
<1>1. changed' \subseteq Differing'
  BY DEF Differing
<1>2. f \in Files
  BY DEF Differing
<1>3. \A p \in lines' : p \in Files \X Lines /\ evidence[p] = "none" /\ head[p[1]] # 0
  BY <1>2 DEF Fresh, Present
<1>4. \A p \in lines' : p[1] \notin files'
  BY DEF Fresh
<1>5. Fresh'
  BY <1>4 DEF Fresh
<1>6. QED
  BY <1>1, <1>3, <1>5 DEF Present

\* Classifying a line keeps it.
LEMMA ClassifyLineInv ==
  ASSUME IInv, NEW p \in lines, NEW hits \in [Candidates(p[1]) -> SUBSET Possible],
         ClassifyLine(p, hits)
  PROVE  IInv'
<1> USE DEF ClassifyLine, IInv, TypeOK
<1> DEFINE labels == {Label(c) : c \in UNION {hits[g] : g \in Candidates(p[1])}}
<1>1. changed' \subseteq Differing'
  BY DEF Differing
<1>2. p \in Files \X Lines /\ p[1] \in Files
  OBVIOUS
<1>3. p[1] \in Candidates(p[1])
  BY <1>2, ProvenanceAssumption DEF Candidates, Present
<1>4. hits[p[1]] \in SUBSET Contexts
  BY <1>3, PossibleContexts
<1>5. ran' \in [Files \X Lines -> SUBSET Contexts]
  BY <1>4
<1>6. Partition(labels) \in Classes
  BY PartitionValues
<1>7. evidence' = [evidence EXCEPT ![p] = Partition(labels)]
  OBVIOUS
<1> HIDE DEF labels
<1>8. evidence' \in [Files \X Lines -> Classes \cup {"none"}]
  BY <1>6, <1>7
<1>9. \A q \in lines' : evidence'[q] = "none"
  BY <1>7
<1>10. lines' \subseteq Files \X Lines /\ Present'
  BY DEF Present
<1>11. Fresh'
  BY <1>2, <1>7 DEF Fresh
<1>12. evidence'[p] = Partition(labels)
  BY <1>2, <1>7
<1>13. QED
  BY <1>1, <1>5, <1>8, <1>9, <1>10, <1>11

\* Report keeps it.
LEMMA ReportInv == ASSUME IInv, NEW parse, Report(parse) PROVE IInv'
<1> USE DEF Report, IInv, TypeOK
<1>1. changed' \subseteq Differing'
  BY DEF Differing
<1>2. status' \in {"none", "complete", "incomplete"}
  BY DEF Status
<1>3. Present' /\ Fresh'
  BY DEF Present, Fresh
<1>4. QED
  BY <1>1, <1>2, <1>3

\* So does every step.
LEMMA StepInv == IInv /\ [Next]_vars => IInv'
<1> SUFFICES ASSUME IInv, [Next]_vars PROVE IInv'
  OBVIOUS
<1>1. CASE \E renamed \in SUBSET Files : CollectDiff(renamed)
  BY <1>1, CollectDiffInv
<1>2. CASE \E f \in files : \E code \in {"coverage_path_excluded", "missing_head_file",
                       "source_analysis_failed"} : LeaveOut(f, code)
  BY <1>2, LeaveOutInv
<1>3. CASE \E f \in files : \E executable \in SUBSET Lines : AnalyzeFile(f, executable)
  BY <1>3, AnalyzeFileInv
<1>4. CASE \E p \in lines : \E hits \in [Candidates(p[1]) -> SUBSET Possible] :
             ClassifyLine(p, hits)
  BY <1>4, ClassifyLineInv
<1>5. CASE \E parse \in SUBSET {"test_parse_failed"} : Report(parse)
  BY <1>5, ReportInv
<1>6. CASE UNCHANGED vars
  BY <1>6 DEF vars, IInv, TypeOK, Present, Fresh, Differing
<1>7. QED
  BY <1>1, <1>2, <1>3, <1>4, <1>5, <1>6 DEF Next

\* Type correctness, in every repository.
THEOREM TypeCorrect == Spec => []TypeOK
<1>1. IInv => TypeOK
  BY DEF IInv
<1>2. QED
  BY <1>1, InitInv, StepInv, PTL DEF Spec
-----------------------------------------------------------------------------
\* Under Plain a test that the taint rules clear rests on nothing that changed.
LEMMA ClearedIsIndependent ==
  ASSUME Plain, changed = Differing, NEW test, Label(test) = "pr_untouched"
  PROVE  test \in Collected /\ Independent(test)
<1>1. test \in Collected /\ ~UnresolvedHelper /\ ~Touched(test)
  BY DEF Label
<1>2. test \in Files
  BY <1>1, ProvenanceAssumption
<1>3. \A h \in Files : Kind(h) = "shared_test_helper" /\ Under(test, Dir(h)) => h \notin changed
  BY <1>1 DEF UnresolvedHelper, Touched
<1>4. AncestorConftests(test) \cap changed = {}
  BY <1>1 DEF Touched
<1>5. test \notin changed
  <2>1. CASE Kind(test) \in {"test_file", "conftest"}
    BY <1>1, <2>1 DEF Touched
  <2>2. CASE Kind(test) = "shared_test_helper"
    BY <1>2, <1>3, <2>2, InOwnDir
  <2>3. QED
    BY <1>1, <2>1, <2>2, KindValues DEF Plain
<1>6. \A f \in Infrastructure(test) : f \in Files /\ f \notin changed
  BY <1>2, <1>3, <1>4, <1>5 DEF Infrastructure, AncestorConftests
<1>7. \A f \in Infrastructure(test) : base[f] = head[f]
  BY <1>6 DEF Differing
<1>8. QED
  BY <1>1, <1>7 DEF Independent

\* Conversely a test that rests on nothing that changed is cleared: no rule
\* taints more than a test's infrastructure.
LEMMA IndependentIsCleared ==
  ASSUME Plain, changed = Differing, NEW test \in Collected, Independent(test)
  PROVE  Label(test) = "pr_untouched"
<1>1. test \in Files
  BY ProvenanceAssumption
<1>2. \A f \in Infrastructure(test) : f \notin changed
  BY DEF Independent, Differing
<1>3. test \notin changed /\ AncestorConftests(test) \cap changed = {}
  BY <1>2 DEF Infrastructure
<1>4. \A h \in changed : Kind(h) = "shared_test_helper" => ~Under(test, Dir(h))
  BY <1>2 DEF Infrastructure, Differing
<1>5. ~Touched(test)
  BY <1>3, <1>4 DEF Touched
<1>6. \A h \in changed : Dir(h) = <<>> => Under(test, Dir(h))
  <2> SUFFICES ASSUME NEW h \in changed, Dir(h) = <<>> PROVE Under(test, <<>>)
    OBVIOUS
  <2>1. test \in Seq(STRING)
    BY <1>1, ProvenanceAssumption
  <2>2. QED
    BY <2>1 DEF Under, IsPrefix
<1>7. ~UnresolvedHelper
  BY <1>4, <1>6 DEF UnresolvedHelper
<1>8. QED
  BY <1>5, <1>7 DEF Label

\* Labels depend only on the changed paths.
LEMMA LabelFrame == changed' = changed => \A c : Label(c)' = Label(c)
<1>1. QED
  BY DEF Label, UnresolvedHelper, Touched

\* Under Plain only one file is read for a line.
LEMMA OneCandidate ==
  ASSUME Plain, NEW f \in Files, head[f] # 0 PROVE Candidates(f) = {f}
<1>1. f \in Candidates(f)
  BY ProvenanceAssumption DEF Candidates
<1>2. \A g \in Candidates(f) : g = f
  BY DEF Candidates, Plain
<1>3. QED
  BY <1>1, <1>2

\* Under Plain every step keeps the meaning of the diff and of the classes.
LEMMA StepMeaning == Plain /\ IInv /\ Meaning /\ [Next]_vars => Meaning'
<1> SUFFICES ASSUME Plain, IInv, Meaning, [Next]_vars PROVE Meaning'
  OBVIOUS
<1> USE DEF Meaning
<1>1. CASE \E renamed \in SUBSET Files : CollectDiff(renamed)
  <2>1. PICK renamed \in SUBSET Files : CollectDiff(renamed)
    BY <1>1
  <2>2. renamed = {}
    BY <2>1 DEF CollectDiff, Plain
  <2>3. changed' = Differing'
    BY <2>1, <2>2 DEF CollectDiff, Entries, Differing
  <2>4. \A p \in Files \X Lines : evidence'[p] = "none"
    BY <2>1 DEF CollectDiff, IInv, Fresh
  <2>5. QED
    BY <2>3, <2>4 DEF DiffIsDifference, ClassFollows
<1>2. CASE \E p \in lines : \E hits \in [Candidates(p[1]) -> SUBSET Possible] :
             ClassifyLine(p, hits)
  <2>1. PICK p \in lines : \E hits \in [Candidates(p[1]) -> SUBSET Possible] :
          ClassifyLine(p, hits)
    BY <1>2
  <2>2. PICK hits \in [Candidates(p[1]) -> SUBSET Possible] : ClassifyLine(p, hits)
    BY <2>1
  <2>3. p \in Files \X Lines /\ p[1] \in Files /\ head[p[1]] # 0
    BY <2>1 DEF IInv, TypeOK, Present
  <2>4. Candidates(p[1]) = {p[1]}
    BY <2>3, OneCandidate
  <2>5. UNION {hits[g] : g \in Candidates(p[1])} = hits[p[1]]
    BY <2>4
  <2>6. /\ evidence' = [evidence EXCEPT ![p] = Partition({Label(c) : c \in hits[p[1]]})]
        /\ ran' = [ran EXCEPT ![p] = hits[p[1]]]
        /\ UNCHANGED <<pc, base, head, changed>> /\ pc = "lines"
    BY <2>2, <2>5 DEF ClassifyLine
  <2>7. \A c : Label(c)' = Label(c)
    BY <2>6, LabelFrame
  <2>8. evidence'[p] = Partition(LabelsOf(p)')
    <3>1. evidence'[p] = Partition({Label(c) : c \in hits[p[1]]}) /\ ran'[p] = hits[p[1]]
      BY <2>3, <2>6 DEF IInv, TypeOK
    <3>2. LabelsOf(p)' = {Label(c) : c \in hits[p[1]]}
      BY <2>7, <3>1 DEF LabelsOf
    <3>3. QED
      BY <3>1, <3>2
  <2>9. \A q \in Files \X Lines : q # p => evidence'[q] = evidence[q] /\ LabelsOf(q)' = LabelsOf(q)
    <3>1. \A q \in Files \X Lines : q # p => evidence'[q] = evidence[q] /\ ran'[q] = ran[q]
      BY <2>6 DEF IInv, TypeOK
    <3>2. QED
      BY <2>7, <3>1 DEF LabelsOf
  <2>10. ClassFollows'
    <3> SUFFICES ASSUME NEW q \in Files \X Lines, evidence'[q] # "none"
                 PROVE  pc' # "diff" /\ evidence'[q] = Partition(LabelsOf(q)')
      BY DEF ClassFollows, Partition
    <3>1. QED
      BY <2>6, <2>8, <2>9 DEF ClassFollows
  <2>11. DiffIsDifference'
    BY <2>6 DEF DiffIsDifference, Differing
  <2>12. QED
    BY <2>10, <2>11
<1>3. CASE UNCHANGED <<base, head, changed, evidence, ran>> /\ (pc # "diff" => pc' # "diff")
           /\ (pc = "diff" => pc' = "diff")
  <2>1. \A c : Label(c)' = Label(c)
    BY <1>3, LabelFrame
  <2>2. \A q \in Files \X Lines : LabelsOf(q)' = LabelsOf(q)
    BY <1>3, <2>1 DEF LabelsOf
  <2>3. ClassFollows'
    <3> SUFFICES ASSUME NEW q \in Files \X Lines, evidence'[q] # "none"
                 PROVE  pc' # "diff" /\ evidence'[q] = Partition(LabelsOf(q)')
      BY DEF ClassFollows, Partition
    <3>1. QED
      BY <1>3, <2>2 DEF ClassFollows
  <2>4. DiffIsDifference'
    BY <1>3 DEF DiffIsDifference, Differing
  <2>5. QED
    BY <2>3, <2>4
<1>4. QED
  BY <1>1, <1>2, <1>3 DEF Next, vars, LeaveOut, AnalyzeFile, Report

\* The diff determines the classes.
LEMMA MeaningInvariant == ASSUME Plain PROVE Spec => [](IInv /\ Meaning)
<1>1. Init => IInv /\ Meaning
  <2>1. Init => Meaning
    BY DEF Init, Meaning, DiffIsDifference, ClassFollows
  <2>2. QED
    BY <2>1, InitInv
<1>2. IInv /\ Meaning /\ [Next]_vars => IInv' /\ Meaning'
  BY StepInv, StepMeaning
<1>3. QED
  BY <1>1, <1>2, PTL DEF Spec

\* What a classified line says of the contexts that executed it.
LEMMA ClassMeans ==
  ASSUME Plain, IInv, Meaning, NEW p \in Files \X Lines, evidence[p] # "none"
  PROVE  /\ changed = Differing
         /\ evidence[p] = "pr_untouched" <=> \E c \in ran[p] : Label(c) = "pr_untouched"
         /\ evidence[p] = "pr_touched_only" => \A c \in ran[p] : Label(c) = "pr_touched"
<1>1. evidence[p] = Partition(LabelsOf(p)) /\ changed = Differing
  BY DEF Meaning, ClassFollows, DiffIsDifference
<1>2. evidence[p] = "pr_untouched" <=> "pr_untouched" \in LabelsOf(p)
  BY <1>1, PartitionMeaning
<1>3. evidence[p] = "pr_touched_only" => LabelsOf(p) = {"pr_touched"}
  BY <1>1, PartitionMeaning
<1>4. QED
  BY <1>1, <1>2, <1>3 DEF LabelsOf

\* Exactly the lines that were executed by a test whose file and infrastructure
\* are the same at merge base and head are reported as covered by PR-untouched
\* tests (Taint and aggregation of provenance.py).
THEOREM UntouchedExact == ASSUME Plain PROVE Spec => []UntouchedIffIndependent
<1>1. IInv /\ Meaning => UntouchedIffIndependent
  <2> SUFFICES ASSUME IInv, Meaning, NEW p \in Files \X Lines, evidence[p] # "none"
               PROVE  evidence[p] = "pr_untouched"
                        <=> \E test \in ran[p] \cap Collected : Independent(test)
    BY DEF UntouchedIffIndependent
  <2>1. ASSUME evidence[p] = "pr_untouched"
        PROVE  \E test \in ran[p] \cap Collected : Independent(test)
    BY <2>1, ClassMeans, ClearedIsIndependent
  <2>2. ASSUME NEW test \in ran[p] \cap Collected, Independent(test)
        PROVE  evidence[p] = "pr_untouched"
    <3>1. Label(test) = "pr_untouched"
      BY <2>2, ClassMeans, IndependentIsCleared
    <3>2. QED
      BY <3>1, <2>2, ClassMeans
  <2>3. QED
    BY <2>1, <2>2
<1>2. QED
  BY <1>1, MeaningInvariant, PTL

\* A line reported as covered only by touched tests was executed by tests
\* alone, and each rests on something that changed.
THEOREM TouchedSound == ASSUME Plain PROVE Spec => []TouchedIsKnown
<1>1. IInv /\ Meaning => TouchedIsKnown
  <2> SUFFICES ASSUME IInv, Meaning, NEW p \in Files \X Lines,
                      evidence[p] = "pr_touched_only", NEW c \in ran[p]
               PROVE  c \in Collected /\ ~Independent(c)
    BY DEF TouchedIsKnown
  <2>1. Label(c) = "pr_touched" /\ changed = Differing
    BY ClassMeans
  <2>2. c \in Collected
    BY <2>1 DEF Label
  <2>3. QED
    BY <2>1, <2>2, IndependentIsCleared
<1>2. QED
  BY <1>1, MeaningInvariant, PTL

\* A report has a status once it is finished, the one its lines and warnings give.
StatusFollows == status # "none" => pc = "done" /\ status = Status(warnings)

LEMMA StatusInvariant == Spec => []StatusFollows
<1>1. Init => StatusFollows
  BY DEF Init, StatusFollows
<1>2. StatusFollows /\ [Next]_vars => StatusFollows'
  <2> SUFFICES ASSUME StatusFollows, [Next]_vars PROVE StatusFollows'
    OBVIOUS
  <2> USE DEF StatusFollows
  <2>1. CASE \E parse : Report(parse)
    BY <2>1 DEF Report, Status, LinesOf
  <2>2. CASE UNCHANGED vars
    BY <2>2 DEF vars, Status, LinesOf
  <2>3. CASE pc # "done" /\ UNCHANGED status
    BY <2>3
  <2>4. QED
    BY <2>1, <2>2, <2>3 DEF Next, CollectDiff, LeaveOut, AnalyzeFile, ClassifyLine
<1>3. QED
  BY <1>1, <1>2, PTL DEF Spec

\* A complete report is certain about every line that ran: an independent test
\* executed it, or nothing but collected tests did and no helper of the root
\* directory changed (classify_context, partition_line and the status of engine.py).
THEOREM CompleteSound == ASSUME Plain PROVE Spec => []CompleteIsCertain
<1>1. IInv /\ Meaning /\ StatusFollows => CompleteIsCertain
  <2> SUFFICES ASSUME IInv, Meaning, StatusFollows, status = "complete",
                      NEW p \in Files \X Lines, evidence[p] # "none", ran[p] # {},
                      \A test \in ran[p] \cap Collected : ~Independent(test)
               PROVE  /\ ran[p] \subseteq Collected
                      /\ \A h \in Files : Kind(h) = "shared_test_helper" /\ Dir(h) = <<>>
                           => base[h] = head[h]
    BY DEF CompleteIsCertain
  <2>1. evidence[p] # "unknown_only"
    BY DEF StatusFollows, Status, LinesOf
  <2>2. evidence[p] # "pr_untouched"
    BY ClassMeans, ClearedIsIndependent
  <2>3. evidence[p] = Partition(LabelsOf(p)) /\ changed = Differing
    BY DEF Meaning, ClassFollows, DiffIsDifference
  <2>4. LabelsOf(p) # {} /\ LabelsOf(p) \subseteq {"unknown", "pr_touched", "pr_untouched"}
    BY DEF LabelsOf, Label
  <2>5. LabelsOf(p) = {"pr_touched"}
    <3>1. "pr_untouched" \notin LabelsOf(p) /\ "unknown" \notin LabelsOf(p)
      BY <2>1, <2>2, <2>3, <2>4 DEF Partition
    <3>2. QED
      BY <2>4, <3>1
  <2>6. \A c \in ran[p] : Label(c) = "pr_touched"
    BY <2>5 DEF LabelsOf
  <2>7. ran[p] \subseteq Collected /\ ~UnresolvedHelper
    BY <2>6 DEF Label
  <2>8. QED
    BY <2>3, <2>7 DEF UnresolvedHelper, Differing
<1>2. QED
  BY <1>1, MeaningInvariant, StatusInvariant, PTL
=============================================================================
