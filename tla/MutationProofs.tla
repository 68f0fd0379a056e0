--------------------------- MODULE MutationProofs ---------------------------
(***************************************************************************)
(* Theorems about the mutation stage for every listing, identity map, cap, *)
(* budget and timeout that MutationAssumption allows.                      *)
(***************************************************************************)
EXTENDS Mutation, FiniteSetTheorems, TLAPS

\* The three partitions of _execute_mutant by position, and 0 names no mutant.
LEMMA Facts ==
  /\ Len(Partitions) = 3
  /\ Partitions[1] = "pr_untouched"
  /\ Partitions[2] = "pr_touched"
  /\ Partitions[3] = "generated"
  /\ \A k \in 1 .. 3 : Partitions[k] \in Origins
  /\ 0 \notin Specs
  /\ Specs \subseteq Nat
BY MutationAssumption DEF Partitions, Origins, Specs

\* Selection (changed lines, dedupe, cap) only drops specs.
LEMMA SelectedType == \A specs \in SUBSET Specs : Selected(specs) \subseteq Specs
BY DEF Selected, Unique

\* Every exit of a child is read as one of the outcomes.
LEMMA OutcomeType ==
  ASSUME NEW code \in ExitStatus, NEW timedOut \in BOOLEAN
  PROVE  /\ ClassifyPytestExit(code, timedOut) \in Outcomes
         /\ ClassifyPytestExit(code, timedOut) = "timeout" <=> timedOut
         /\ ClassifyPytestExit(code, timedOut) = "survived"
              <=> ~timedOut /\ code = PytestOk
         /\ ClassifyPytestExit(code, timedOut) = "killed"
              <=> ~timedOut /\ code = PytestTestsFailed
         /\ ClassifyPytestExit(code, timedOut) = "no_tests"
              <=> ~timedOut /\ code = PytestNoTests
BY DEF ClassifyPytestExit, ExitStatus, Outcomes, PytestOk, PytestTestsFailed,
       PytestInterrupted, PytestNoTests

\* A record enters the ledger with a known bucket.
LEMMA BucketType ==
  ASSUME NEW rec \in Record, rec.result = "killed" => rec.origin \in Origins
  PROVE  Bucket(rec) \in Buckets
BY DEF Bucket, Record, Buckets, Results, Origins, KillCounter

\* What a child may take: at most its timeout, and the time to kill it.
LEMMA DurationBound ==
  ASSUME NEW timedOut \in BOOLEAN, now \in Nat, NEW d \in Durations(timedOut)
  PROVE  d \in Nat /\ d <= MutantTimeout + KillTime
BY MutationAssumption
   DEF Durations, RunTimeout, RemainingOr, Clamp, Expired, Remaining
-----------------------------------------------------------------------------
(* Strengthening of KillEvidence and SurvivalEvidence: mutants the loop has *)
(* not reached are untried, and the current one is tried in order.          *)

Untried(s) == \A o \in Origins : ran[s][o] = NotTried

Unreached ==
  /\ pc \in {"entry", "list"} => \A s \in Specs : Untried(s) /\ ~Recorded(s)
  /\ \A s \in todo : Untried(s) /\ ~Recorded(s)
  /\ pc = "setup" => Untried(cur)
  /\ cur # 0 => cur \notin todo /\ ~Recorded(cur)

TriedInOrder ==
  pc = "tests" =>
    /\ \A j \in 1 .. 3 :
         IF j < part THEN Clean(cur, Partitions[j])
         ELSE ran[cur][Partitions[j]] = NotTried
    /\ ranTests =>
         \E j \in 1 .. 3 : j < part /\ Partitions[j] \in present
                             /\ ran[cur][Partitions[j]] = PytestOk

SetupFresh == pc = "setup" => part = 1 /\ ~ranTests

EvidenceInv ==
  Unreached /\ SetupFresh /\ TriedInOrder /\ KillEvidence /\ SurvivalEvidence

(* Strengthening of CutOffIsFinal: after a cut-off the budget is spent.    *)
CutOffInv ==
  (\E s \in Specs : record[s].result = "not_run")
    => Expired(Budget, now) /\ pc \in {"loop", "done"}

(* Strengthening of OverrunBound: where the time of each phase comes from. *)
MutantTime == MutantTimeout + KillTime

OverrunInv ==
  /\ pc = "entry" => now <= Budget
  /\ pc \in {"list", "setup"} => now < Budget
  /\ pc = "tests" =>
       /\ part = 1 => now < Budget + SetupTime
       /\ part = 2 => now < Budget + SetupTime + MutantTime
       /\ part = 3 => now < Budget + SetupTime + MutantTime + MutantTime
  /\ \/ now <= Budget + ListTime
     \/ now <= Budget + SetupTime + MutantTime + MutantTime + MutantTime
-----------------------------------------------------------------------------
\* The records _execute_mutant builds are records, with a counter each.
LEMMA VerdictType ==
  /\ \A r \in Results \ {"killed"} :
       /\ Verdict(r) \in Record /\ Bucket(Verdict(r)) = r /\ r \in Buckets
       /\ Verdict(r).result = r
  /\ \A o \in Origins :
       /\ KilledBy(o) \in Record /\ Bucket(KilledBy(o)) = KillCounter[o]
       /\ KillCounter[o] \in Buckets /\ KilledBy(o).result = "killed"
       /\ KilledBy(o).origin = o
BY DEF Verdict, KilledBy, Record, Results, Origins, NoOrigin, Bucket, Buckets,
       KillCounter

\* The effect of Enter on the types of the ledger.
LEMMA EnterType ==
  ASSUME TypeOK, NEW s \in Specs, NEW rec \in Record, Bucket(rec) \in Buckets,
         Enter(s, rec)
  PROVE  /\ record' \in [Specs -> Record \cup {NoRecord}]
         /\ summary' \in [Buckets -> Nat]
BY DEF TypeOK, Enter

\* Variables hold what the code would put in them; the current mutant is set
\* exactly while _execute_mutant is running.
THEOREM TypeCorrect == Spec => []TypeOK
<1>1. Init => TypeOK
  <2>1. Init => now \in Nat /\ summary \in [Buckets -> Nat] /\ part \in 1 .. 4
    BY MutationAssumption DEF Init
  <2>2. Init => scores \in ({NoScore} \cup (Nat \X Nat)) \X ({NoScore} \cup (Nat \X Nat))
    BY DEF Init
  <2>3. Init => /\ ran \in [Specs -> [Origins -> ExitStatus \cup {TimedOut, NotTried}]]
                /\ record \in [Specs -> Record \cup {NoRecord}]
    BY DEF Init
  <2>4. Init => /\ cur \in Specs \cup {0}
                /\ cur # 0 <=> pc \in {"setup", "tests", "held"}
    BY DEF Init
  <2>5. QED
    BY <2>1, <2>2, <2>3, <2>4 DEF Init, TypeOK
<1>2. TypeOK /\ [Next]_vars => TypeOK'
  <2> SUFFICES ASSUME TypeOK, [Next]_vars PROVE TypeOK'
    OBVIOUS
  <2> USE Facts
  <2>1. CASE UNCHANGED vars
    BY <2>1 DEF vars, inputs, outputs, mutantVars, ledger, TypeOK
  <2>2. CASE NotRequested \/ SkipBaseline \/ SkipDeadline \/ SkipBackend \/ ListFails
    BY <2>2 DEF NotRequested, SkipBaseline, SkipDeadline, SkipBackend, ListFails,
       Stop, inputs, outputs, mutantVars, ledger, TypeOK
  <2>3. CASE LoadBackend
    BY <2>3 DEF LoadBackend, inputs, outputs, mutantVars, ledger, TypeOK
  <2>4. ASSUME NEW specs \in SUBSET Specs, NEW d \in 0 .. ListTime,
               ListMutations(specs, d)
        PROVE  TypeOK'
    <3>1. now' \in Nat
      BY <2>4, MutationAssumption DEF ListMutations, TypeOK
    <3>2. Selected(specs) \subseteq Specs
      BY SelectedType
    <3>3. QED
      BY <2>4, <3>1, <3>2 DEF ListMutations, inputs, mutantVars, ledger, TypeOK
  <2>5. ASSUME NEW s \in Specs, TakeExcluded(s)
        PROVE  TypeOK'
    <3>1. Verdict("excluded") \in Record /\ Bucket(Verdict("excluded")) \in Buckets
      BY VerdictType DEF Results, Buckets
    <3>2. record' \in [Specs -> Record \cup {NoRecord}] /\ summary' \in [Buckets -> Nat]
      BY <2>5, <3>1, EnterType DEF TakeExcluded
    <3>3. QED
      BY <2>5, <3>2 DEF TakeExcluded, inputs, outputs, mutantVars, TypeOK
  <2>6. ASSUME NEW s \in Specs, TakeNotRun(s)
        PROVE  TypeOK'
    <3>1. Verdict("not_run") \in Record /\ Bucket(Verdict("not_run")) \in Buckets
      BY VerdictType DEF Results, Buckets
    <3>2. record' \in [Specs -> Record \cup {NoRecord}] /\ summary' \in [Buckets -> Nat]
      BY <2>6, <3>1, EnterType DEF TakeNotRun
    <3>3. QED
      BY <2>6, <3>2 DEF TakeNotRun, inputs, outputs, mutantVars, TypeOK
  <2>7. ASSUME NEW s \in Specs, TakeMutant(s)
        PROVE  TypeOK'
    <3>1. s # 0 /\ part' \in 1 .. 4
      BY <2>7 DEF TakeMutant
    <3>2. QED
      BY <2>7, <3>1 DEF TakeMutant, inputs, outputs, ledger, TypeOK
  <2>8. ASSUME NEW d \in 0 .. SetupTime, SetupInvalid(d)
        PROVE  TypeOK'
    <3>1. cur \in Specs
      BY <2>8 DEF SetupInvalid, TypeOK
    <3>2. Verdict("invalid") \in Record /\ Bucket(Verdict("invalid")) \in Buckets
      BY VerdictType DEF Results, Buckets
    <3>3. record' \in [Specs -> Record \cup {NoRecord}] /\ summary' \in [Buckets -> Nat]
      BY <2>8, <3>1, <3>2, EnterType DEF SetupInvalid, Return
    <3>4. QED
      BY <2>8, <3>3, MutationAssumption
         DEF SetupInvalid, Return, inputs, outputs, TypeOK
  <2>9. ASSUME NEW d \in 0 .. SetupTime, SetupReady(d)
        PROVE  TypeOK'
    BY <2>9, MutationAssumption
       DEF SetupReady, inputs, outputs, mutantVars, ledger, TypeOK
  <2>10. ASSUME NEW d \in 0 .. SetupTime, SetupRaises(d)
        PROVE  TypeOK'
    <3>1. now' \in Nat
      BY <2>10, MutationAssumption DEF SetupRaises, TypeOK
    <3>2. QED
      BY <2>10, <3>1 DEF SetupRaises, Unwind, inputs, outputs, ledger, TypeOK
  <2>11. CASE SkipPartition
    BY <2>11 DEF SkipPartition, inputs, outputs, ledger, TypeOK
  <2>12. ASSUME NEW timedOut \in BOOLEAN, NEW d \in Durations(timedOut),
                NEW code \in ExitStatus, RunPartition(timedOut, code, d)
         PROVE  TypeOK'
    <3> DEFINE origin == Partitions[part]
               outcome == ClassifyPytestExit(code, timedOut)
    <3>1. /\ cur \in Specs /\ part \in 1 .. 3 /\ origin \in Origins
          /\ now' \in Nat
      BY <2>12, DurationBound DEF RunPartition, Child, TypeOK
    <3>2. ran' \in [Specs -> [Origins -> ExitStatus \cup {TimedOut, NotTried}]]
      BY <2>12, <3>1 DEF RunPartition, TypeOK
    <3>3. CASE outcome \in {"survived", "no_tests"}
      <4>1. part' \in 1 .. 4
        BY <2>12, <3>1, <3>3 DEF RunPartition, Return
      <4>2. ranTests' \in BOOLEAN
        BY <2>12, <3>3 DEF RunPartition, TypeOK
      <4>3. UNCHANGED <<pc, inputs, outputs, todo, cur, record, summary, workRoot>>
        BY <2>12, <3>3 DEF RunPartition
      <4>4. QED
        BY <3>1, <3>2, <4>1, <4>2, <4>3 DEF inputs, outputs, TypeOK
    <3>4. ASSUME NEW rec \in Record, Bucket(rec) \in Buckets, Return(rec),
                 UNCHANGED <<part, ranTests>>
          PROVE  TypeOK'
      <4>1. record' \in [Specs -> Record \cup {NoRecord}] /\ summary' \in [Buckets -> Nat]
        BY <3>1, <3>4, EnterType DEF Return
      <4>2. QED
        BY <3>1, <3>2, <3>4, <4>1 DEF Return, inputs, outputs, TypeOK
    <3>5. CASE outcome = "killed"
      <4>1. Return(KilledBy(origin)) /\ UNCHANGED <<part, ranTests>>
        BY <2>12, <3>5 DEF RunPartition
      <4>2. QED
        BY <3>1, <3>4, <4>1, VerdictType
    <3>6. CASE outcome \in {"timeout", "error", "interrupted"}
      <4>1. \E r \in {"timeout", "error"} :
              Return(Verdict(r)) /\ UNCHANGED <<part, ranTests>>
        BY <2>12, <3>6 DEF RunPartition
      <4>2. QED
        BY <3>4, <4>1, VerdictType DEF Results, Buckets
    <3>7. QED
      BY <3>3, <3>5, <3>6, OutcomeType DEF Outcomes
  <2>13. ASSUME NEW timedOut \in BOOLEAN, NEW d \in Durations(timedOut), RunRaises(d)
         PROVE  TypeOK'
    <3>1. now' \in Nat
      BY <2>13, DurationBound DEF RunRaises, Child, TypeOK
    <3>2. QED
      BY <2>13, <3>1 DEF RunRaises, Unwind, inputs, outputs, ledger, TypeOK
  <2>14. CASE FinishMutant
    <3> DEFINE r == IF ranTests THEN "survived" ELSE "error"
    <3>1. cur \in Specs
      BY <2>14 DEF FinishMutant, TypeOK
    <3>2. Verdict(r) \in Record /\ Bucket(Verdict(r)) \in Buckets
      BY VerdictType DEF Results, Buckets
    <3>3. record' \in [Specs -> Record \cup {NoRecord}] /\ summary' \in [Buckets -> Nat]
      BY <2>14, <3>1, <3>2, EnterType DEF FinishMutant, Return
    <3>4. QED
      BY <2>14, <3>3 DEF FinishMutant, Return, inputs, outputs, TypeOK
  <2>15. CASE CloseStage
    <3>1. Killed(summary) \in Nat /\ summary["killed_by_pr_untouched"] \in Nat
          /\ Killed(summary) + summary["survived"] \in Nat
      BY DEF TypeOK, Killed, Buckets
    <3>2. scores' \in ({NoScore} \cup (Nat \X Nat)) \X ({NoScore} \cup (Nat \X Nat))
      BY <2>15, <3>1 DEF CloseStage, Score
    <3>3. QED
      BY <2>15, <3>2 DEF CloseStage, inputs, mutantVars, ledger, TypeOK
  <2>16. CASE Terminated
    BY <2>16, <2>1 DEF Terminated
  <2>17. CASE HeldOpen
    BY <2>17 DEF HeldOpen, inputs, outputs, mutantVars, ledger, TypeOK
  <2>18. QED
    BY <2>1, <2>2, <2>3, <2>4, <2>5, <2>6, <2>7, <2>8, <2>9, <2>10, <2>11,
       <2>12, <2>13, <2>14, <2>15, <2>16, <2>17 DEF Next
<1>3. QED
  BY <1>1, <1>2, PTL DEF Spec
-----------------------------------------------------------------------------
\* The deadline is spent exactly when the clock has reached the budget.
LEMMA ExpiredMeans ==
  now \in Nat => (Expired(Budget, now) <=> Budget <= now)
BY MutationAssumption DEF Expired, Remaining

\* The whole stage overruns the shared budget by at most the time to list the
\* mutants or to execute one of them, whatever the numbers are.
THEOREM OverrunIsBounded == Spec => []OverrunBound
<1>1. Init => OverrunInv
  BY MutationAssumption DEF Init, OverrunInv, MutantTime
<1>2. TypeOK /\ OverrunInv /\ [Next]_vars => OverrunInv'
  <2> SUFFICES ASSUME TypeOK, OverrunInv, [Next]_vars PROVE OverrunInv'
    OBVIOUS
  <2> USE MutationAssumption, ExpiredMeans DEF MutantTime
  <2>a. now \in Nat /\ part \in 1 .. 4
    BY DEF TypeOK
  <2>b. Len(Partitions) = 3
    BY Facts
  <2>1. CASE UNCHANGED <<pc, now, part>>
    BY <2>1 DEF OverrunInv
  <2>2. CASE UNCHANGED now /\ pc' \in {"loop", "done", "raised", "held"}
    BY <2>2, <2>a DEF OverrunInv
  <2>3. CASE LoadBackend
    BY <2>3, <2>a DEF LoadBackend, OverrunInv
  <2>4. ASSUME NEW specs \in SUBSET Specs, NEW d \in 0 .. ListTime,
               ListMutations(specs, d)
        PROVE  OverrunInv'
    <3>1. pc' \in {"done", "loop"} /\ now' <= Budget + ListTime
      BY <2>4, <2>a DEF ListMutations, OverrunInv
    <3>2. QED
      BY <3>1 DEF OverrunInv
  <2>5. ASSUME NEW s \in Specs, TakeMutant(s)
        PROVE  OverrunInv'
    BY <2>5, <2>a DEF TakeMutant, OverrunInv
  <2>6. ASSUME NEW d \in 0 .. SetupTime, SetupInvalid(d) \/ SetupReady(d) \/ SetupRaises(d)
        PROVE  OverrunInv'
    <3>1. now' = now + d /\ now < Budget /\ pc' \in {"loop", "tests", "raised"}
      BY <2>6 DEF SetupInvalid, SetupReady, SetupRaises, Return, Unwind, OverrunInv
    <3>2. pc' = "tests" => part' = part
      BY <2>6 DEF SetupInvalid, SetupReady, SetupRaises, Return, Unwind, mutantVars
    <3>3. now' < Budget + SetupTime
      BY <3>1, <2>a
    <3>4. QED
      BY <3>1, <3>2, <3>3, <2>a DEF OverrunInv
  <2>7. CASE SkipPartition
    BY <2>7, <2>a, <2>b DEF SkipPartition, OverrunInv
  <2>8. ASSUME pc = "tests", part \in 1 .. 3,
               NEW timedOut \in BOOLEAN, NEW d \in Durations(timedOut), now' = now + d,
               \/ pc' = "tests" /\ part' = part + 1
               \/ pc' \in {"loop", "raised"}
        PROVE  OverrunInv'
    <3>1. d \in Nat /\ d <= MutantTime
      BY <2>8, <2>a, DurationBound
    <3>2. QED
      BY <2>8, <2>a, <3>1 DEF OverrunInv
  <2>9. ASSUME NEW timedOut \in BOOLEAN, NEW d \in Durations(timedOut),
               \/ \E code \in ExitStatus : RunPartition(timedOut, code, d)
               \/ RunRaises(d)
        PROVE  OverrunInv'
    <3>1. pc = "tests" /\ part \in 1 .. 3 /\ now' = now + d
      BY <2>9, <2>a, <2>b DEF RunPartition, RunRaises, Child
    <3>2. \/ pc' = "tests" /\ part' = part + 1
          \/ pc' \in {"loop", "raised"}
      BY <2>9, <3>1 DEF RunPartition, RunRaises, Return, Unwind
    <3>3. QED
      BY <2>8, <3>1, <3>2
  <2>10. CASE NotRequested \/ SkipBaseline \/ SkipDeadline \/ SkipBackend \/ ListFails
              \/ FinishMutant \/ CloseStage \/ HeldOpen
    BY <2>10, <2>2 DEF HeldOpen, NotRequested, SkipBaseline, SkipDeadline, SkipBackend, ListFails,
       Stop, FinishMutant, Return, CloseStage
  <2>11. ASSUME NEW s \in Specs, TakeExcluded(s) \/ TakeNotRun(s)
         PROVE  OverrunInv'
    BY <2>11, <2>2 DEF TakeExcluded, TakeNotRun
  <2>12. CASE UNCHANGED vars
    BY <2>12, <2>1 DEF vars, mutantVars
  <2>13. CASE Terminated
    BY <2>13, <2>12 DEF Terminated
  <2>14. QED
    BY <2>3, <2>4, <2>5, <2>6, <2>7, <2>9, <2>10, <2>11, <2>12, <2>13 DEF Next
<1>3. TypeOK /\ OverrunInv => OverrunBound
  BY MutationAssumption DEF TypeOK, OverrunInv, OverrunBound, MutantTime
<1>4. QED
  BY <1>1, <1>2, <1>3, TypeCorrect, PTL DEF Spec
-----------------------------------------------------------------------------
(* The shape of a step, as seen by the ledger: it adds one record, or none. *)

\* The record rec is added for s, which the loop or _execute_mutant decided.
Records(s, rec) ==
  /\ record' = [record EXCEPT ![s] = rec] /\ pc' = "loop" /\ cur' = 0
  /\ \/ pc = "loop" /\ s \in todo /\ todo' = todo \ {s} /\ UNCHANGED <<ran, now>>
     \/ pc \in {"setup", "tests"} /\ s = cur /\ todo' = todo
  /\ summary' = [summary EXCEPT ![Bucket(rec)] = @ + 1]
  /\ \A o \in Origins : o # Partitions[part] => ran'[s][o] = ran[s][o]
  /\ \A r \in Specs \ {s} : ran'[r] = ran[r]
  /\ present' = present
  /\ rec.result \in {"excluded", "not_run"} <=> pc = "loop"
  /\ rec.result = "not_run" => Expired(Budget, now)
  /\ rec.result = "killed" =>
       /\ pc = "tests" /\ part \in 1 .. 3 /\ rec.origin = Partitions[part]
       /\ ran'[s][Partitions[part]] = PytestTestsFailed
  /\ rec.result = "survived" => pc = "tests" /\ part = 4 /\ ranTests /\ ran' = ran

\* The partition tried at a step that stays with the mutant was clean.
CleanRun ==
  /\ pc = "tests" /\ pc' = "tests" /\ part \in 1 .. 3 /\ part' = part + 1
  /\ UNCHANGED <<todo, cur>> /\ Partitions[part] \in present
  /\ \E code \in {PytestOk, PytestNoTests} :
       /\ ran' = [ran EXCEPT ![cur][Partitions[part]] = code]
       /\ ranTests' = (ranTests \/ code = PytestOk)

Quiet ==
  /\ UNCHANGED <<record, summary, present>>
  /\ \/ UNCHANGED <<pc, todo, cur, part, ranTests, ran, now>>
     \/ /\ pc \in {"entry", "list"} /\ pc' \in {"list", "done", "loop"}
        /\ UNCHANGED <<cur, ran>> /\ todo' \subseteq Specs
     \/ /\ pc = "loop" /\ pc' = "setup" /\ UNCHANGED ran
        /\ part' = 1 /\ ~ranTests' /\ ~Expired(Budget, now)
        /\ cur' \in todo /\ todo' = todo \ {cur'}
     \/ /\ pc = "setup" /\ pc' = "tests" /\ UNCHANGED <<todo, cur, part, ranTests, ran>>
     \/ /\ pc \in {"setup", "tests"} /\ pc' = "raised" /\ cur' = 0
        /\ UNCHANGED <<todo, ran>>
     \/ /\ pc = "tests" /\ pc' = "tests" /\ part \in 1 .. 3 /\ part' = part + 1
        /\ UNCHANGED <<todo, cur, ranTests, ran>> /\ Partitions[part] \notin present
     \/ CleanRun
     \/ pc = "tests" /\ pc' = "held" /\ UNCHANGED <<todo, cur, ran, now>>
     \/ pc = "loop" /\ pc' = "done" /\ UNCHANGED <<todo, cur, ran, now>>

\* A step of the stage adds no record, or adds one for a single mutant.
LEMMA StepShape ==
  ASSUME TypeOK, [Next]_vars
  PROVE  Quiet \/ \E s \in Specs, rec \in Record : Records(s, rec)
<1> USE Facts
<1> DEFINE Step == Quiet \/ \E s \in Specs, rec \in Record : Records(s, rec)
<1> SUFFICES Step
  OBVIOUS
<1>0. CASE UNCHANGED vars \/ Terminated
  BY <1>0 DEF vars, inputs, mutantVars, ledger, Terminated, Quiet
<1>1. CASE NotRequested \/ SkipBaseline \/ SkipDeadline \/ SkipBackend \/ ListFails
  BY <1>1 DEF NotRequested, SkipBaseline, SkipDeadline, SkipBackend, ListFails, Stop,
     inputs, mutantVars, ledger, TypeOK, Quiet
<1>2. CASE LoadBackend \/ CloseStage \/ HeldOpen
  BY <1>2 DEF LoadBackend, CloseStage, HeldOpen, inputs, mutantVars, ledger, TypeOK, Quiet
<1>13. CASE SkipPartition
  BY <1>13 DEF SkipPartition, inputs, ledger, TypeOK, Quiet
<1>3. CASE \E specs \in SUBSET Specs, d \in 0 .. ListTime : ListMutations(specs, d)
  BY <1>3, SelectedType DEF ListMutations, inputs, mutantVars, ledger, TypeOK, Quiet
<1>4. ASSUME NEW s \in Specs, TakeMutant(s)
      PROVE  Step
  BY <1>4 DEF TakeMutant, IsNext, inputs, ledger, Quiet
<1>5. ASSUME NEW s \in Specs, TakeExcluded(s)
      PROVE  Step
  <2>1. Verdict("excluded") \in Record /\ Verdict("excluded").result = "excluded"
    BY VerdictType DEF Results
  <2>2. cur' = 0
    BY <1>5 DEF TakeExcluded, mutantVars, TypeOK
  <2>3. Records(s, Verdict("excluded"))
    BY <1>5, <2>1, <2>2 DEF TakeExcluded, Enter, IsNext, inputs, Records
  <2>4. QED
    BY <2>1, <2>3
<1>6. ASSUME NEW s \in Specs, TakeNotRun(s)
      PROVE  Step
  <2>1. Verdict("not_run") \in Record /\ Verdict("not_run").result = "not_run"
    BY VerdictType DEF Results
  <2>2. cur' = 0
    BY <1>6 DEF TakeNotRun, mutantVars, TypeOK
  <2>3. Records(s, Verdict("not_run"))
    BY <1>6, <2>1, <2>2 DEF TakeNotRun, Enter, IsNext, inputs, Records
  <2>4. QED
    BY <2>1, <2>3
<1>7. ASSUME NEW r \in {"invalid", "timeout", "error"}, Return(Verdict(r)),
             pc \in {"setup", "tests"},
             \A o \in Origins : o # Partitions[part] => ran'[cur][o] = ran[cur][o],
             \A q \in Specs \ {cur} : ran'[q] = ran[q]
      PROVE  Step
  <2>1. Verdict(r) \in Record /\ Verdict(r).result = r
    BY VerdictType DEF Results
  <2>2. cur \in Specs
    BY <1>7 DEF TypeOK
  <2>3. Records(cur, Verdict(r))
    BY <1>7, <2>1, <2>2 DEF Return, Enter, inputs, Records
  <2>4. QED
    BY <2>1, <2>2, <2>3
<1>8. CASE \E d \in 0 .. SetupTime : SetupInvalid(d) \/ SetupReady(d) \/ SetupRaises(d)
  BY <1>7, <1>8 DEF SetupInvalid, SetupReady, SetupRaises, Unwind, inputs, mutantVars,
     ledger, Quiet
<1>9. ASSUME NEW timedOut \in BOOLEAN, NEW d \in Durations(timedOut),
             NEW code \in ExitStatus, RunPartition(timedOut, code, d)
      PROVE  Step
  <2> DEFINE outcome == ClassifyPytestExit(code, timedOut)
             origin == Partitions[part]
  <2>1. /\ cur \in Specs /\ part \in 1 .. 3 /\ pc = "tests" /\ origin \in Origins
    BY <1>9 DEF RunPartition, Child, TypeOK
  <2>2. /\ \A o \in Origins : o # origin => ran'[cur][o] = ran[cur][o]
        /\ \A q \in Specs \ {cur} : ran'[q] = ran[q]
        /\ ran'[cur][origin] = IF timedOut THEN TimedOut ELSE code
    BY <1>9, <2>1 DEF RunPartition, TypeOK
  <2>3. CASE outcome = "killed"
    <3>1. Return(KilledBy(origin))
      BY <1>9, <2>3 DEF RunPartition
    <3>2. ran'[cur][origin] = PytestTestsFailed
      BY <2>2, <2>3, OutcomeType
    <3>3. /\ KilledBy(origin) \in Record /\ KilledBy(origin).result = "killed"
          /\ KilledBy(origin).origin = origin
      BY <2>1, VerdictType
    <3>4. Records(cur, KilledBy(origin))
      BY <2>1, <2>2, <3>1, <3>2, <3>3 DEF Return, Enter, inputs, Records
    <3>5. QED
      BY <2>1, <3>3, <3>4
  <2>4. CASE outcome \in {"timeout", "error", "interrupted"}
    BY <1>7, <1>9, <2>1, <2>2, <2>4 DEF RunPartition
  <2>5. CASE outcome \in {"survived", "no_tests"}
    <3>1. code \in {PytestOk, PytestNoTests} /\ ~timedOut
      BY <2>5, OutcomeType
    <3>2. ranTests' = (ranTests \/ code = PytestOk)
      BY <1>9, <2>5, <3>1, OutcomeType DEF RunPartition, PytestOk, PytestNoTests
    <3>3. CleanRun
      BY <1>9, <2>1, <2>5, <3>1, <3>2 DEF RunPartition, Child, CleanRun
    <3>4. QED
      BY <1>9, <2>5, <3>3 DEF RunPartition, inputs, Quiet
  <2>6. QED
    BY <2>3, <2>4, <2>5, OutcomeType DEF Outcomes
<1>10. CASE \E timedOut \in BOOLEAN : \E d \in Durations(timedOut) : RunRaises(d)
  BY <1>10 DEF RunRaises, Child, Unwind, inputs, ledger, Quiet
<1>11. CASE FinishMutant
  <2>1. cur \in Specs /\ part = 4 /\ pc = "tests" /\ ran' = ran
    BY <1>11 DEF FinishMutant, TypeOK
  <2>2. CASE ranTests
    <3>1. Verdict("survived") \in Record /\ Verdict("survived").result = "survived"
      BY VerdictType DEF Results
    <3>2. Records(cur, Verdict("survived"))
      BY <1>11, <2>1, <2>2, <3>1 DEF FinishMutant, Return, Enter, inputs, Records
    <3>3. QED
      BY <2>1, <3>1, <3>2
  <2>3. CASE ~ranTests
    BY <1>7, <1>11, <2>1, <2>3 DEF FinishMutant
  <2>4. QED
    BY <2>2, <2>3
<1>12. QED
  BY <1>0, <1>1, <1>2, <1>3, <1>4, <1>5, <1>6, <1>8, <1>9, <1>10, <1>11, <1>13 DEF Next
-----------------------------------------------------------------------------
\* NoRecord is no record, so a record added makes a mutant Recorded.
LEMMA RecordIsRecorded == \A rec \in Record : rec # NoRecord /\ rec.result # "none"
BY DEF Record, Results, NoRecord

\* No step gives a mutant the loop has not reached a record or a test run.
LEMMA UnreachedInductive ==
  ASSUME TypeOK, Unreached, [Next]_vars
  PROVE  Unreached'
<1> USE Facts
<1>1. CASE Quiet
  <2>1. UNCHANGED <<record, ran>> \/ CleanRun
    BY <1>1 DEF Quiet
  <2>2. CASE UNCHANGED <<record, ran>>
    BY <1>1, <2>2 DEF Quiet, CleanRun, Unreached, Untried, Recorded, TypeOK
  <2>3. CASE CleanRun
    <3>1. record' = record /\ cur \in Specs
      BY <1>1, <2>3 DEF Quiet, CleanRun, TypeOK
    <3>2. \A s \in Specs \ {cur} : ran'[s] = ran[s]
      BY <2>3 DEF CleanRun, TypeOK
    <3>3. QED
      BY <2>3, <3>1, <3>2 DEF CleanRun, Unreached, Untried, Recorded, TypeOK
  <2>4. QED
    BY <2>1, <2>2, <2>3
<1>2. ASSUME NEW s \in Specs, NEW rec \in Record, Records(s, rec)
      PROVE  Unreached'
  <2>1. /\ pc' = "loop" /\ cur' = 0 /\ s \notin todo' /\ todo' \subseteq todo
        /\ \A r \in Specs \ {s} : ran'[r] = ran[r] /\ record'[r] = record[r]
    BY <1>2 DEF Records, Unreached, TypeOK
  <2>2. QED
    BY <2>1 DEF Unreached, Untried, Recorded, TypeOK
<1>3. QED
  BY <1>1, <1>2, StepShape

\* The mutant a record is added for had none.
LEMMA RecordsFresh ==
  ASSUME TypeOK, Unreached, NEW s \in Specs, NEW rec \in Record, Records(s, rec)
  PROVE  record[s] = NoRecord /\ (pc = "loop" => Untried(s))
BY DEF Records, Unreached, Recorded, TypeOK

\* A mutant the loop has not reached has no record and was not tried.
LEMMA UnreachedInvariant == Spec => [](TypeOK /\ Unreached)
<1>1. Init => Unreached
  BY Facts DEF Init, Unreached, Untried, Recorded
<1>2. QED
  BY <1>1, UnreachedInductive, TypeCorrect, PTL DEF Spec
-----------------------------------------------------------------------------
\* Once a mutant was given up for lack of time the budget is spent, and the stage
\* is in its loop or has ended.
LEMMA CutOffInvariant == Spec => [](TypeOK /\ Unreached /\ CutOffInv)
<1>1. Init => CutOffInv
  BY DEF Init, CutOffInv, NoRecord
<1>2. TypeOK /\ Unreached /\ CutOffInv /\ [Next]_vars => CutOffInv'
  <2> SUFFICES ASSUME TypeOK, Unreached, CutOffInv, [Next]_vars,
                      NEW q \in Specs, record'[q].result = "not_run"
               PROVE  Expired(Budget, now)' /\ pc' \in {"loop", "done"}
    BY DEF CutOffInv
  <2>1. CASE Quiet
    <3>1. Expired(Budget, now) /\ pc \in {"loop", "done"}
      BY <2>1 DEF Quiet, CutOffInv
    <3>2. pc' \in {"loop", "done"} /\ now' = now
      BY <2>1, <3>1 DEF Quiet, CleanRun
    <3>3. QED
      BY <3>1, <3>2
  <2>2. ASSUME NEW s \in Specs, NEW rec \in Record, Records(s, rec)
        PROVE  Expired(Budget, now)' /\ pc' \in {"loop", "done"}
    <3>1. pc' = "loop"
      BY <2>2 DEF Records
    <3>2. CASE q = s
      <4>1. rec.result = "not_run"
        BY <2>2, <3>2 DEF Records, TypeOK
      <4>2. QED
        BY <2>2, <3>1, <4>1 DEF Records
    <3>3. CASE q # s
      <4>1. record[q].result = "not_run"
        BY <2>2, <3>3 DEF Records, TypeOK
      <4>2. Expired(Budget, now) /\ pc = "loop"
        BY <2>2, <4>1 DEF CutOffInv, Records
      <4>3. now' = now
        BY <2>2, <4>2 DEF Records
      <4>4. QED
        BY <3>1, <4>2, <4>3
    <3>4. QED
      BY <3>2, <3>3
  <2>3. QED
    BY <2>1, <2>2, StepShape
<1>3. QED
  BY <1>1, <1>2, UnreachedInvariant, PTL DEF Spec

\* After a mutant was given up for lack of time none is executed any more: the
\* clock never goes back, so every later look at the deadline finds it spent.
THEOREM CutOffFinal == Spec => CutOffIsFinal
<1>1. TypeOK /\ CutOffInv /\ [Next]_vars
        => [(\E s \in Specs : record[s].result = "not_run")
              => ran' = ran /\ pc' # "setup"]_vars
  <2> SUFFICES ASSUME TypeOK, CutOffInv, [Next]_vars,
                      \E s \in Specs : record[s].result = "not_run"
               PROVE  ran' = ran /\ pc' # "setup"
    OBVIOUS
  <2>1. Expired(Budget, now) /\ pc \in {"loop", "done"}
    BY DEF CutOffInv
  <2>2. QED
    BY <2>1, StepShape DEF Quiet, CleanRun, Records
<1>2. QED
  BY <1>1, CutOffInvariant, PTL DEF Spec, CutOffIsFinal
-----------------------------------------------------------------------------
\* A killed mutant was killed by the first of its partitions that failed, with
\* exit 1, and a survivor was tried by every partition there is.
THEOREM VerdictsHaveEvidence == Spec => []VerdictEvidence
<1>1. Init => EvidenceInv
  BY Facts DEF Init, EvidenceInv, SetupFresh, Unreached, Untried, Recorded, TriedInOrder,
     KillEvidence, SurvivalEvidence, NoRecord
<1>2. TypeOK /\ EvidenceInv /\ [Next]_vars => EvidenceInv'
  <2> SUFFICES ASSUME TypeOK, EvidenceInv, [Next]_vars PROVE EvidenceInv'
    OBVIOUS
  <2> USE Facts
  <2>1. Unreached'
    BY UnreachedInductive DEF EvidenceInv
  <2>2. TriedInOrder'
    <3>1. CASE Quiet /\ ~CleanRun
      <4>1. CASE pc = "setup" /\ pc' = "tests"
        <5>1. /\ UNCHANGED <<cur, part, ranTests, ran, present>> /\ cur \in Specs
          BY <3>1, <4>1 DEF Quiet, TypeOK
        <5>2. part = 1 /\ ~ranTests
          BY <4>1 DEF EvidenceInv, SetupFresh
        <5>3. QED
          BY <4>1, <5>1, <5>2 DEF EvidenceInv, Unreached, Untried, TriedInOrder
      <4>2. CASE pc = "tests" /\ pc' = "tests" /\ part' = part + 1
        <5>1. /\ UNCHANGED <<cur, ranTests, ran, present>> /\ part \in 1 .. 3
              /\ Partitions[part] \notin present
          BY <3>1, <4>2 DEF Quiet, TypeOK
        <5>2. ran[cur][Partitions[part]] = NotTried
          BY <4>2, <5>1 DEF EvidenceInv, TriedInOrder
        <5>3. \A j \in 1 .. 3 : IF j < part' THEN Clean(cur, Partitions[j])'
                              ELSE ran'[cur][Partitions[j]] = NotTried
          BY <4>2, <5>1, <5>2 DEF EvidenceInv, TriedInOrder, Clean
        <5>4. ranTests' => \E j \in 1 .. 3 : j < part' /\ Partitions[j] \in present
                             /\ ran'[cur][Partitions[j]] = PytestOk
          BY <4>2, <5>1 DEF EvidenceInv, TriedInOrder
        <5>5. QED
          BY <5>1, <5>3, <5>4 DEF TriedInOrder
      <4>3. CASE UNCHANGED <<pc, cur, part, ranTests, ran, present>>
        BY <4>3 DEF EvidenceInv, TriedInOrder, Clean
      <4>4. CASE pc' # "tests"
        BY <4>4 DEF TriedInOrder
      <4>5. QED
        BY <3>1, <4>1, <4>2, <4>3, <4>4 DEF Quiet
    <3>2. CASE Quiet /\ CleanRun
      <4>1. cur \in Specs /\ cur' = cur /\ part' = part + 1 /\ part \in 1 .. 3
            /\ present' = present /\ pc = "tests" /\ Partitions[part] \in present
        BY <3>2 DEF Quiet, CleanRun, TypeOK
      <4>2. PICK code \in {PytestOk, PytestNoTests} :
              /\ ran' = [ran EXCEPT ![cur][Partitions[part]] = code]
              /\ ranTests' = (ranTests \/ code = PytestOk)
        BY <3>2 DEF CleanRun
      <4>3. ran'[cur][Partitions[part]] = code
        BY <4>1, <4>2 DEF TypeOK
      <4>4. \A j \in 1 .. 3 : j # part => ran'[cur][Partitions[j]] = ran[cur][Partitions[j]]
        BY <4>1, <4>2 DEF TypeOK
      <4>5. \A j \in 1 .. 3 : IF j < part' THEN Clean(cur, Partitions[j])'
                              ELSE ran'[cur][Partitions[j]] = NotTried
        BY <4>1, <4>3, <4>4 DEF EvidenceInv, TriedInOrder, Clean
      <4>6. ranTests' => \E j \in 1 .. 3 : j < part' /\ Partitions[j] \in present
                             /\ ran'[cur][Partitions[j]] = PytestOk
        <5>1. CASE ranTests
          <6>1. PICK j \in 1 .. 3 : j < part /\ Partitions[j] \in present
                             /\ ran[cur][Partitions[j]] = PytestOk
            BY <4>1, <5>1 DEF EvidenceInv, TriedInOrder
          <6>2. QED
            BY <4>1, <4>4, <6>1
        <5>2. CASE code = PytestOk
          BY <4>1, <4>3, <5>2
        <5>3. QED
          BY <4>2, <5>1, <5>2
      <4>7. QED
        BY <4>1, <4>5, <4>6 DEF TriedInOrder
    <3>3. ASSUME NEW s \in Specs, NEW rec \in Record, Records(s, rec)
          PROVE  TriedInOrder'
      BY <3>3 DEF Records, TriedInOrder
    <3>4. QED
      BY <3>1, <3>2, <3>3, StepShape
  <2>3. KillEvidence' /\ SurvivalEvidence'
    <3>1. CASE Quiet
      <4>1. record' = record /\ present' = present
        BY <3>1 DEF Quiet
      <4>2. \A s \in Specs : Recorded(s) => ran'[s] = ran[s]
        BY <3>1 DEF Quiet, CleanRun, EvidenceInv, Unreached, TypeOK
      <4>3. \A s \in Specs : record[s].result \in {"killed", "survived"} => Recorded(s)
        BY DEF Recorded, NoRecord
      <4>4. KillEvidence'
        BY <4>1, <4>2, <4>3 DEF EvidenceInv, KillEvidence, Clean
      <4>5. SurvivalEvidence'
        BY <4>1, <4>2, <4>3 DEF EvidenceInv, SurvivalEvidence
      <4>6. QED
        BY <4>4, <4>5
    <3>2. ASSUME NEW s \in Specs, NEW rec \in Record, Records(s, rec)
          PROVE  KillEvidence' /\ SurvivalEvidence'
      <4>1. /\ \A r \in Specs \ {s} : ran'[r] = ran[r] /\ record'[r] = record[r]
            /\ record'[s] = rec /\ present' = present
        BY <3>2 DEF Records, TypeOK
      <4>2. rec.result = "killed" =>
              \E k \in 1 .. 3 :
                /\ rec.origin = Partitions[k]
                /\ ran'[s][Partitions[k]] = PytestTestsFailed
                /\ \A j \in 1 .. (k - 1) : Clean(s, Partitions[j])'
                /\ \A j \in (k + 1) .. 3 : ran'[s][Partitions[j]] = NotTried
        <5> SUFFICES ASSUME rec.result = "killed"
                     PROVE  /\ part \in 1 .. 3 /\ rec.origin = Partitions[part]
                            /\ ran'[s][Partitions[part]] = PytestTestsFailed
                            /\ \A j \in 1 .. (part - 1) : Clean(s, Partitions[j])'
                            /\ \A j \in (part + 1) .. 3 : ran'[s][Partitions[j]] = NotTried
          OBVIOUS
        <5>1. pc = "tests" /\ s = cur /\ part \in 1 .. 3 /\ rec.origin = Partitions[part]
              /\ ran'[s][Partitions[part]] = PytestTestsFailed
          BY <3>2 DEF Records
        <5>2. \A j \in 1 .. 3 : j # part => ran'[s][Partitions[j]] = ran[s][Partitions[j]]
          BY <3>2, <5>1 DEF Records
        <5>3. QED
          BY <4>1, <5>1, <5>2 DEF EvidenceInv, TriedInOrder, Clean
      <4>3. rec.result = "survived" =>
              /\ \A o \in present : ran'[s][o] \in {PytestOk, PytestNoTests}
              /\ \E o \in present : ran'[s][o] = PytestOk
        <5> SUFFICES ASSUME rec.result = "survived"
                     PROVE  /\ \A o \in present : ran'[s][o] \in {PytestOk, PytestNoTests}
                            /\ \E o \in present : ran'[s][o] = PytestOk
          OBVIOUS
        <5>1. pc = "tests" /\ s = cur /\ part = 4 /\ ranTests /\ ran' = ran
          BY <3>2 DEF Records
        <5>2. \A o \in present : \E j \in 1 .. 3 : o = Partitions[j]
          BY DEF TypeOK, Origins
        <5>3. QED
          BY <5>1, <5>2 DEF EvidenceInv, TriedInOrder, Clean
      <4>4. KillEvidence'
        <5> SUFFICES ASSUME NEW r \in Specs, record'[r].result = "killed"
                     PROVE  \E k \in 1 .. 3 :
                              /\ record'[r].origin = Partitions[k]
                              /\ ran'[r][Partitions[k]] = PytestTestsFailed
                              /\ \A j \in 1 .. (k - 1) : Clean(r, Partitions[j])'
                              /\ \A j \in (k + 1) .. 3 : ran'[r][Partitions[j]] = NotTried
          BY DEF KillEvidence
        <5>1. CASE r = s
          BY <4>1, <4>2, <5>1
        <5>2. CASE r # s
          <6>1. ran'[r] = ran[r] /\ record'[r] = record[r]
            BY <4>1, <5>2
          <6>2. PICK k \in 1 .. 3 :
                  /\ record[r].origin = Partitions[k]
                  /\ ran[r][Partitions[k]] = PytestTestsFailed
                  /\ \A j \in 1 .. (k - 1) : Clean(r, Partitions[j])
                  /\ \A j \in (k + 1) .. 3 : ran[r][Partitions[j]] = NotTried
            BY <6>1 DEF EvidenceInv, KillEvidence
          <6>3. \A o \in Origins : Clean(r, o)' = Clean(r, o)
            BY <4>1, <6>1 DEF Clean
          <6>4. QED
            BY <6>1, <6>2, <6>3
        <5>3. QED
          BY <5>1, <5>2
      <4>5. SurvivalEvidence'
        <5> SUFFICES ASSUME NEW r \in Specs, record'[r].result = "survived"
                     PROVE  /\ \A o \in present : ran'[r][o] \in {PytestOk, PytestNoTests}
                            /\ \E o \in present : ran'[r][o] = PytestOk
          BY <4>1 DEF SurvivalEvidence
        <5>1. CASE r = s
          BY <4>1, <4>3, <5>1
        <5>2. CASE r # s
          <6>1. ran'[r] = ran[r] /\ record'[r] = record[r]
            BY <4>1, <5>2
          <6>2. /\ \A o \in present : ran[r][o] \in {PytestOk, PytestNoTests}
                /\ \E o \in present : ran[r][o] = PytestOk
            BY <6>1 DEF EvidenceInv, SurvivalEvidence
          <6>3. QED
            BY <6>1, <6>2
        <5>3. QED
          BY <5>1, <5>2
      <4>6. QED
        BY <4>4, <4>5
    <3>3. QED
      BY <3>1, <3>2, StepShape
  <2>4. SetupFresh'
    BY StepShape DEF Quiet, CleanRun, Records, EvidenceInv, SetupFresh
  <2>5. QED
    BY <2>1, <2>2, <2>3, <2>4 DEF EvidenceInv
<1>3. EvidenceInv => VerdictEvidence
  BY DEF EvidenceInv, VerdictEvidence
<1>4. QED
  BY <1>1, <1>2, <1>3, TypeCorrect, PTL DEF Spec
-----------------------------------------------------------------------------
(* Accounting: a record that is added moves exactly the counter of its kind. *)

\* The sets the counters are meant to count.
WithResult(r) == {s \in Specs : record[s].result = r}
KillsBy(o) == {s \in Specs : record[s] = KilledBy(o)}

\* The specs are finite, so the sets the counters count have cardinalities.
LEMMA SpecsFinite == \A S \in SUBSET Specs : IsFiniteSet(S) /\ Cardinality(S) \in Nat
<1>1. IsFiniteSet(Specs)
  BY FS_Interval, MutationAssumption DEF Specs
<1>2. QED
  BY <1>1, FS_Subset, FS_CardinalityType

\* The branch of _tally a record takes tells its result and its origin.
LEMMA BucketMeans ==
  ASSUME NEW rec \in Record, rec.result = "killed" => rec.origin \in Origins
  PROVE  /\ Bucket(rec) \in Buckets
         /\ \A r \in Results \ {"killed"} : Bucket(rec) = r <=> rec.result = r
         /\ \A o \in Origins : Bucket(rec) = KillCounter[o] <=> rec = KilledBy(o)
<1>1. CASE rec.result = "killed"
  <2>1. Bucket(rec) = KillCounter[rec.origin] /\ rec.origin \in Origins
    BY <1>1 DEF Bucket
  <2>2. \A o \in Origins : KillCounter[o] = KillCounter[rec.origin] <=> o = rec.origin
    BY <2>1 DEF KillCounter, Origins
  <2>3. rec = KilledBy(rec.origin)
    BY <1>1 DEF Record, KilledBy
  <2>4. \A r \in Results \ {"killed"} : r # KillCounter[rec.origin]
    BY <2>1 DEF Results, KillCounter, Origins
  <2>5. KillCounter[rec.origin] \in Buckets
    BY <2>1 DEF KillCounter, Buckets, Origins
  <2>6. \A o \in Origins : rec = KilledBy(o) => o = rec.origin
    BY DEF KilledBy
  <2>7. QED
    BY <1>1, <2>1, <2>2, <2>3, <2>4, <2>5, <2>6
<1>2. CASE rec.result # "killed"
  <2>1. Bucket(rec) = rec.result /\ rec.result \in Results
    BY <1>2 DEF Bucket, Record
  <2>2. \A o \in Origins : KillCounter[o] \notin Results
    BY DEF Results, KillCounter, Origins
  <2>3. rec.result \in Buckets
    BY <1>2, <2>1 DEF Results, Buckets
  <2>4. \A o \in Origins : rec # KilledBy(o)
    BY <1>2 DEF KilledBy
  <2>5. QED
    BY <1>2, <2>1, <2>2, <2>3, <2>4
<1>3. QED
  BY <1>1, <1>2

\* Every counter of the summary is the number of records of its kind.
THEOREM CountersMatchRecords == Spec => []Accounting
<1>1. Init => Accounting
  <2> SUFFICES ASSUME Init PROVE Accounting
    OBVIOUS
  <2>1. \A r \in Results \ {"killed"} : WithResult(r) = {} /\ r \in Buckets
    BY DEF Init, WithResult, NoRecord, Results, Buckets
  <2>2. \A o \in Origins : KillsBy(o) = {} /\ KillCounter[o] \in Buckets
    BY VerdictType DEF Init, KillsBy, NoRecord, KilledBy
  <2>3. QED
    BY <2>1, <2>2, FS_EmptySet DEF Init, Accounting, WithResult, KillsBy
<1>2. TypeOK /\ Unreached /\ Accounting /\ [Next]_vars => Accounting'
  <2> SUFFICES ASSUME TypeOK, Unreached, Accounting, [Next]_vars PROVE Accounting'
    OBVIOUS
  <2>1. CASE Quiet
    BY <2>1 DEF Quiet, Accounting
  <2>2. ASSUME NEW s \in Specs, NEW rec \in Record, Records(s, rec)
        PROVE  Accounting'
    <3>1. record[s] = NoRecord /\ record' = [record EXCEPT ![s] = rec]
      BY <2>2, RecordsFresh DEF Records
    <3>2. /\ rec.result = "killed" => rec.origin \in Origins
          /\ summary' = [summary EXCEPT ![Bucket(rec)] = @ + 1]
      BY <2>2, Facts DEF Records
    <3>3. ASSUME NEW r \in Results \ {"killed"}
          PROVE  summary'[r] = Cardinality(WithResult(r)')
      <4>1. summary[r] = Cardinality(WithResult(r)) /\ r \in Buckets
        BY VerdictType DEF Accounting, WithResult
      <4>2. s \notin WithResult(r)
        BY <3>1 DEF WithResult, NoRecord, Results
      <4>3. WithResult(r)' = IF rec.result = r THEN WithResult(r) \cup {s} ELSE WithResult(r)
        BY <3>1, <4>2 DEF WithResult, TypeOK
      <4>4. summary'[r] = IF rec.result = r THEN summary[r] + 1 ELSE summary[r]
        BY <3>2, <4>1, BucketMeans DEF TypeOK
      <4>5. IsFiniteSet(WithResult(r))
        BY SpecsFinite DEF WithResult
      <4>6. CASE rec.result = r
        <5>1. Cardinality(WithResult(r) \cup {s}) = Cardinality(WithResult(r)) + 1
          BY <4>2, <4>5, FS_AddElement
        <5>2. WithResult(r)' = WithResult(r) \cup {s}
          BY <4>3, <4>6
        <5>3. summary'[r] = Cardinality(WithResult(r)) + 1
          BY <4>1, <4>4, <4>6
        <5>4. Cardinality(WithResult(r)') = Cardinality(WithResult(r) \cup {s})
          BY <5>2
        <5>5. QED
          BY <5>1, <5>3, <5>4
      <4>7. CASE rec.result # r
        <5>1. WithResult(r)' = WithResult(r) /\ summary'[r] = summary[r]
          BY <4>3, <4>4, <4>7
        <5>2. QED
          BY <4>1, <5>1
      <4>8. QED
        BY <4>6, <4>7
    <3>4. ASSUME NEW o \in Origins
          PROVE  summary'[KillCounter[o]] = Cardinality(KillsBy(o)')
      <4>1. summary[KillCounter[o]] = Cardinality(KillsBy(o)) /\ KillCounter[o] \in Buckets
        BY VerdictType DEF Accounting, KillsBy
      <4>2. s \notin KillsBy(o)
        BY <3>1 DEF KillsBy, NoRecord, KilledBy
      <4>3. KillsBy(o)' = IF rec = KilledBy(o) THEN KillsBy(o) \cup {s} ELSE KillsBy(o)
        BY <3>1, <4>2 DEF KillsBy, TypeOK
      <4>4. summary'[KillCounter[o]] = IF rec = KilledBy(o) THEN summary[KillCounter[o]] + 1
                                       ELSE summary[KillCounter[o]]
        BY <3>2, <4>1, BucketMeans DEF TypeOK
      <4>5. IsFiniteSet(KillsBy(o))
        BY SpecsFinite DEF KillsBy
      <4>6. QED
        BY <4>1, <4>2, <4>3, <4>4, <4>5, FS_AddElement
    <3>5. QED
      BY <3>3, <3>4 DEF Accounting, WithResult, KillsBy
  <2>3. QED
    BY <2>1, <2>2, StepShape
<1>3. QED
  BY <1>1, <1>2, UnreachedInvariant, PTL DEF Spec
=============================================================================
