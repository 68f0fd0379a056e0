------------------------------ MODULE Mutation ------------------------------
(***************************************************************************)
(* The optional mutation stage: run_mutation and _execute_mutant of        *)
(* mutation/runner.py, with the selection of mutation/selection.py.        *)
(*                                                                         *)
(* A mutant is one mutation spec, named by its position in the backend's   *)
(* listing.  Each selected mutant gets a copy of the repository, is        *)
(* applied, and is tried against up to three groups of tests in a fixed    *)
(* order; the first group that fails names the origin of the kill.  The    *)
(* stage shares one wall-clock budget with the other optional stages and   *)
(* looks at it before every mutant.  Time passes while the backend lists,  *)
(* while a copy is prepared and while a pytest child runs; everything else *)
(* is instantaneous.  A child that timed out is killed with its group, and *)
(* the rest of its output is read without a timeout: the stage may be held *)
(* there for as long as a process that left the group lives.               *)
(***************************************************************************)
EXTENDS Deadline, PytestExit, FiniteSets, Sequences

CONSTANTS
  NumSpecs,       \* length of the longest listing considered
  IdOf,           \* mutant_id of a listed spec; two specs may share one
  Rank,           \* order of sha256(mutant_id), used when the cap bites
  ChangedLine,    \* specs whose first line is a changed executable line
  ExcludeIds,     \* mutation.exclude_ids
  MaxMutants,     \* mutation.max_mutants
  Budget,         \* optional_timeout_seconds
  MutantTimeout,  \* per_mutant_timeout(...)
  KillTime,       \* time run_bounded takes to end a child that timed out, if it does
  ListTime,       \* longest time the backend takes to list
  SetupTime       \* longest time to copy the tree and apply a mutant

Specs == 1 .. NumSpecs

ASSUME MutationAssumption ==
  /\ NumSpecs \in Nat
  /\ DOMAIN IdOf = Specs
  /\ \A s \in Specs : Rank[IdOf[s]] \in Nat
  /\ ChangedLine \subseteq Specs
  /\ MaxMutants \in Nat \ {0}
  /\ Budget \in Nat
  /\ MutantTimeout \in Nat \ {0}
  /\ KillTime \in Nat
  /\ ListTime \in Nat
  /\ SetupTime \in Nat

\* The partitions of _execute_mutant, in the order it tries them.
Partitions == <<"pr_untouched", "pr_touched", "generated">>
Origins == {"pr_untouched", "pr_touched", "generated"}

NoOrigin == "none"
Results ==
  {"killed", "survived", "timeout", "invalid", "error", "not_run", "excluded"}
Record == [result : Results, origin : Origins \cup {NoOrigin}]
NoRecord == [result |-> "none", origin |-> NoOrigin]

\* The counters of MutationSummary that _tally may increment.
Buckets ==
  {"killed_by_pr_untouched", "killed_by_pr_touched", "killed_by_generated",
   "survived", "timeout", "invalid", "error", "not_run", "excluded"}

\* How a pytest child ended: its exit status, or one of these.
TimedOut == 100
NotTried == 101
NoScore == <<>>

VARIABLES
  pc,         \* where run_mutation is
  now,        \* time since the shared deadline was started
  enabled,    \* config.mutation.enabled
  baseline,   \* ~(provenance_failed or generated_failed)
  backend,    \* load_backend returned a backend, not a Reason
  present,    \* the partitions that hold at least one test
  status,     \* stage.status
  skip,       \* code of stage.skip_reason or stage.error_reason
  listed,     \* the specs the backend listed
  todo,       \* selected mutants the loop has not reached
  cur,        \* the mutant being executed, 0 outside _execute_mutant
  part,       \* index of the partition to try next
  ranTests,   \* ran_tests of _execute_mutant
  ran,        \* how the pytest child of each mutant and partition ended
  record,     \* result.mutants
  summary,    \* result.summary, the counters
  scores,     \* independent and overall mutation score
  workRoot    \* the temporary directory exists and is registered

inputs == <<enabled, baseline, backend, present>>
outputs == <<status, skip, listed, scores>>
mutantVars == <<cur, part, ranTests>>
ledger == <<ran, record, summary>>
vars == <<pc, now, inputs, outputs, todo, mutantVars, ledger, workRoot>>
-----------------------------------------------------------------------------
(* Selection: filter_changed_lines, dedupe, cap_specs.                     *)

\* Mutant: dedupe is not called.
NotDeduped(specs) == specs \cap ChangedLine

\* dedupe keeps the first of the specs that share a mutant_id.
Unique(specs) ==
  LET kept == specs \cap ChangedLine
  IN  {s \in kept : \A t \in kept : IdOf[t] = IdOf[s] => s <= t}

CapBites(specs) == Cardinality(Unique(specs)) > MaxMutants

\* Mutant: the cap keeps the first listed specs.
BeforeByListing(specs, s, t) == s < t

\* The order of the loop: listing order or, once the cap bites, a stable sort
\* by hash.
Before(specs, s, t) ==
  IF CapBites(specs) /\ Rank[IdOf[s]] # Rank[IdOf[t]]
  THEN Rank[IdOf[s]] < Rank[IdOf[t]] ELSE s < t

Selected(specs) ==
  LET unique == Unique(specs)
      ahead(s) == {t \in unique : Before(specs, t, s)}
  IN  {s \in unique : CapBites(specs) => Cardinality(ahead(s)) < MaxMutants}
-----------------------------------------------------------------------------
(* Verdicts and counters.                                                  *)

Verdict(result) == [result |-> result, origin |-> NoOrigin]
KilledBy(origin) == [result |-> "killed", origin |-> origin]

KillCounter ==
  [pr_untouched |-> "killed_by_pr_untouched",
   pr_touched   |-> "killed_by_pr_touched",
   generated    |-> "killed_by_generated"]

\* Mutant: kills by generated tests fall into the branch of touched tests.
GeneratedTalliedAsTouched(rec) ==
  IF rec.result # "killed" THEN rec.result
  ELSE IF rec.origin = "pr_untouched" THEN "killed_by_pr_untouched"
       ELSE "killed_by_pr_touched"

\* The counter of the branch of _tally that a record takes.
Bucket(rec) ==
  IF rec.result = "killed" THEN KillCounter[rec.origin] ELSE rec.result

\* Append the record of s to result.mutants and tally it.
Enter(s, rec) ==
  /\ record' = [record EXCEPT ![s] = rec]
  /\ summary' = [summary EXCEPT ![Bucket(rec)] = @ + 1]

Killed(sum) ==
  sum["killed_by_pr_untouched"] + sum["killed_by_pr_touched"]
    + sum["killed_by_generated"]

\* Mutant: a score of zero is reported as no score.
ZeroIsNoScore(killed, valid) == IF killed = 0 THEN NoScore ELSE <<killed, valid>>

\* score(killed, valid): a fraction, or no score when nothing was valid.
Score(killed, valid) == IF valid = 0 THEN NoScore ELSE <<killed, valid>>
-----------------------------------------------------------------------------
Init ==
  /\ pc = "entry"
  /\ now \in 0 .. Budget
  /\ enabled \in BOOLEAN /\ baseline \in BOOLEAN /\ backend \in BOOLEAN
  /\ present \in SUBSET Origins
  /\ status = "not_requested" /\ skip = "none"
  /\ listed = {} /\ scores = <<NoScore, NoScore>>
  /\ todo = {} /\ cur = 0 /\ part = 1 /\ ranTests = FALSE
  /\ ran = [s \in Specs |-> [o \in Origins |-> NotTried]]
  /\ record = [s \in Specs |-> NoRecord]
  /\ summary = [b \in Buckets |-> 0]
  /\ workRoot = FALSE

Stop(st, reason) ==
  /\ pc' = "done" /\ status' = st /\ skip' = reason
  /\ UNCHANGED <<now, inputs, listed, scores, todo, mutantVars, ledger, workRoot>>

NotRequested ==
  /\ pc = "entry" /\ ~enabled
  /\ Stop("not_requested", "none")

SkipBaseline ==
  /\ pc = "entry" /\ enabled /\ ~baseline
  /\ Stop("skipped", "baseline_failed")

SkipDeadline ==
  /\ pc = "entry" /\ enabled /\ baseline /\ Expired(Budget, now)
  /\ Stop("skipped", "deadline_exhausted")

SkipBackend ==
  /\ pc = "entry" /\ enabled /\ baseline /\ ~Expired(Budget, now) /\ ~backend
  /\ Stop("skipped", "missing_dependency")

LoadBackend ==
  /\ pc = "entry" /\ enabled /\ baseline /\ ~Expired(Budget, now) /\ backend
  /\ pc' = "list"
  /\ UNCHANGED <<now, inputs, outputs, todo, mutantVars, ledger, workRoot>>

ListFails ==
  /\ pc = "list"
  /\ Stop("error", "backend_error")

\* list_mutations, the selection, and either the early return for an empty
\* selection or the creation of the work directory.
ListMutations(specs, d) ==
  /\ pc = "list"
  /\ now' = now + d
  /\ listed' = specs
  /\ IF Selected(specs) = {}
     THEN /\ pc' = "done" /\ status' = "complete"
          /\ UNCHANGED <<todo, workRoot>>
     ELSE /\ pc' = "loop" /\ todo' = Selected(specs) /\ workRoot' = TRUE
          /\ UNCHANGED status
  /\ UNCHANGED <<inputs, skip, scores, mutantVars, ledger>>

\* The loop visits the selected mutants in order.
IsNext(s) == s \in todo /\ \A t \in todo \ {s} : Before(listed, s, t)

TakeExcluded(s) ==
  /\ pc = "loop" /\ IsNext(s) /\ IdOf[s] \in ExcludeIds
  /\ Enter(s, Verdict("excluded"))
  /\ todo' = todo \ {s}
  /\ UNCHANGED <<pc, now, inputs, outputs, mutantVars, ran, workRoot>>

TakeNotRun(s) ==
  /\ pc = "loop" /\ IsNext(s) /\ IdOf[s] \notin ExcludeIds
  /\ Expired(Budget, now)
  /\ Enter(s, Verdict("not_run"))
  /\ todo' = todo \ {s}
  /\ UNCHANGED <<pc, now, inputs, outputs, mutantVars, ran, workRoot>>

\* Mutant: the budget is not looked at before a mutant.
TakeMutantUnchecked(s) ==
  /\ pc = "loop" /\ IsNext(s) /\ IdOf[s] \notin ExcludeIds
  /\ pc' = "setup" /\ cur' = s /\ part' = 1 /\ ranTests' = FALSE
  /\ todo' = todo \ {s}
  /\ UNCHANGED <<now, inputs, outputs, ledger, workRoot>>

TakeMutant(s) ==
  /\ pc = "loop" /\ IsNext(s) /\ IdOf[s] \notin ExcludeIds
  /\ ~Expired(Budget, now)
  /\ pc' = "setup" /\ cur' = s /\ part' = 1 /\ ranTests' = FALSE
  /\ todo' = todo \ {s}
  /\ UNCHANGED <<now, inputs, outputs, ledger, workRoot>>

\* _execute_mutant returns a record, which the loop appends and tallies.
Return(rec) ==
  /\ Enter(cur, rec)
  /\ pc' = "loop" /\ cur' = 0
  /\ UNCHANGED <<inputs, outputs, todo, workRoot>>

\* The copy is made, then apply fails or changes nothing.
SetupInvalid(d) ==
  /\ pc = "setup"
  /\ now' = now + d
  /\ Return(Verdict("invalid"))
  /\ UNCHANGED <<part, ranTests, ran>>

SetupReady(d) ==
  /\ pc = "setup"
  /\ now' = now + d
  /\ pc' = "tests"
  /\ UNCHANGED <<inputs, outputs, todo, mutantVars, ledger, workRoot>>

\* An exception nothing catches: the finally clause removes the work directory
\* and the exception leaves run_mutation.
Unwind ==
  /\ pc' = "raised" /\ cur' = 0 /\ workRoot' = FALSE
  /\ UNCHANGED <<inputs, outputs, todo, part, ranTests, ledger>>

\* copytree, or reading or writing a file of the copy, fails.
SetupRaises(d) ==
  /\ pc = "setup"
  /\ now' = now + d
  /\ Unwind

SkipPartition ==
  /\ pc = "tests" /\ part <= Len(Partitions)
  /\ Partitions[part] \notin present
  /\ part' = part + 1
  /\ UNCHANGED <<pc, now, inputs, outputs, todo, cur, ranTests, ledger, workRoot>>

RunTimeout == RemainingOr(Budget, now, MutantTimeout)

\* A child ends by itself within its timeout, or is killed, which takes longer.
Durations(timedOut) ==
  IF timedOut THEN {RunTimeout + KillTime} ELSE 0 .. RunTimeout

\* One pytest child over the tests of the current partition.
Child(d) ==
  /\ pc = "tests" /\ part <= Len(Partitions)
  /\ Partitions[part] \in present
  /\ now' = now + d

RunPartition(timedOut, code, d) ==
  LET origin  == Partitions[part]
      outcome == ClassifyPytestExit(code, timedOut)
  IN  /\ Child(d)
      /\ ran' = [ran EXCEPT ![cur][origin] = IF timedOut THEN TimedOut ELSE code]
      /\ \/ /\ outcome \in {"survived", "no_tests"}
            /\ part' = part + 1
            /\ ranTests' = (ranTests \/ outcome = "survived")
            /\ UNCHANGED <<pc, inputs, outputs, todo, cur, record, summary, workRoot>>
         \/ /\ outcome = "killed"
            /\ Return(KilledBy(origin))
            /\ UNCHANGED <<part, ranTests>>
         \/ /\ outcome = "timeout"
            /\ Return(Verdict("timeout"))
            /\ UNCHANGED <<part, ranTests>>
         \/ /\ outcome \in {"error", "interrupted"}
            /\ Return(Verdict("error"))
            /\ UNCHANGED <<part, ranTests>>

\* run_bounded raises: the child printed what is not text.
RunRaises(d) == Child(d) /\ Unwind

\* Every partition was tried: with no test run at all nothing was learnt.
FinishMutant ==
  /\ pc = "tests" /\ part > Len(Partitions)
  /\ Return(Verdict(IF ranTests THEN "survived" ELSE "error"))
  /\ UNCHANGED <<now, part, ranTests, ran>>

\* The finally clause, the scores and the final status.
CloseStage ==
  LET valid == Killed(summary) + summary["survived"]
  IN  /\ pc = "loop" /\ todo = {}
      /\ pc' = "done" /\ status' = "complete" /\ workRoot' = FALSE
      /\ scores' = <<Score(summary["killed_by_pr_untouched"], valid),
                     Score(Killed(summary), valid)>>
      /\ UNCHANGED <<now, inputs, skip, listed, todo, mutantVars, ledger>>

\* The second communicate() of run_bounded, after a child was killed: a process
\* that left its group keeps the pipes open, and nothing bounds the wait.
HeldOpen ==
  /\ pc = "tests" /\ part <= Len(Partitions)
  /\ Partitions[part] \in present
  /\ pc' = "held"
  /\ UNCHANGED <<now, inputs, outputs, todo, mutantVars, ledger, workRoot>>

Terminated == pc \in {"done", "raised", "held"} /\ UNCHANGED vars

Next ==
  \/ NotRequested \/ SkipBaseline \/ SkipDeadline \/ SkipBackend
  \/ LoadBackend \/ ListFails
  \/ \E specs \in SUBSET Specs, d \in 0 .. ListTime : ListMutations(specs, d)
  \/ \E s \in Specs : TakeExcluded(s) \/ TakeNotRun(s) \/ TakeMutant(s)
  \/ \E d \in 0 .. SetupTime : SetupInvalid(d) \/ SetupReady(d) \/ SetupRaises(d)
  \/ SkipPartition
  \/ \E timedOut \in BOOLEAN : \E d \in Durations(timedOut) :
       \/ \E code \in ExitStatus : RunPartition(timedOut, code, d)
       \/ RunRaises(d)
  \/ HeldOpen
  \/ FinishMutant \/ CloseStage
  \/ Terminated

Spec == Init /\ [][Next]_vars

\* run_mutation is straight-line code in one thread: it keeps taking steps.  The
\* wait for a child either ends within its bounds, which is one step here, or is
\* held, which is HeldOpen: the fairness does not choose between the two.
FairSpec == Spec /\ WF_vars(Next)
-----------------------------------------------------------------------------
(* The stage as a ledger of verdicts.                                      *)

Phase ==
  IF pc \in {"entry", "list"} THEN "idle"
  ELSE IF pc \in {"loop", "setup", "tests"} THEN "open"
  ELSE IF pc = "done" THEN "published"
  ELSE IF pc = "held" THEN "stuck" ELSE "abandoned"

Pending == IF pc = "raised" THEN Selected(listed) \ {s \in Specs : record[s] # NoRecord}
           ELSE todo \cup (IF cur = 0 THEN {} ELSE {cur})

Ledger == INSTANCE VerdictLedger WITH
  Items     <- Specs,
  Examined  <- {"killed", "survived", "timeout", "invalid", "error"},
  Undecided <- NoRecord.result,
  phase     <- Phase,
  pending   <- Pending,
  verdict   <- [s \in Specs |-> record[s].result]

\* The stage implements the ledger: every selected mutant gets exactly one
\* final verdict, none is examined after one was given up for lack of time, and
\* the result is published only when all are decided.  The stage publishes or
\* abandons its result, unless it is stuck at a mutant whose killed child left a
\* process behind that keeps its pipes open.
ImplementsLedger == Ledger!Spec
-----------------------------------------------------------------------------
TypeOK ==
  /\ pc \in {"entry", "list", "loop", "setup", "tests", "done", "raised", "held"}
  /\ now \in Nat
  /\ enabled \in BOOLEAN /\ baseline \in BOOLEAN /\ backend \in BOOLEAN
  /\ present \subseteq Origins
  /\ status \in {"not_requested", "skipped", "complete", "error"}
  /\ skip \in {"none", "baseline_failed", "deadline_exhausted",
               "missing_dependency", "backend_error"}
  /\ listed \subseteq Specs /\ todo \subseteq Specs
  /\ scores \in ({NoScore} \cup (Nat \X Nat)) \X ({NoScore} \cup (Nat \X Nat))
  /\ cur \in Specs \cup {0}
  /\ cur # 0 <=> pc \in {"setup", "tests", "held"}
  /\ part \in 1 .. 4
  /\ ranTests \in BOOLEAN
  /\ ran \in [Specs -> [Origins -> ExitStatus \cup {TimedOut, NotTried}]]
  /\ record \in [Specs -> Record \cup {NoRecord}]
  /\ summary \in [Buckets -> Nat]
  /\ workRoot \in BOOLEAN

Recorded(s) == record[s] # NoRecord

\* The counters of the report agree with its list of mutants: each counter is
\* the number of records of its kind, whatever order and mix of early returns,
\* deadline cut-offs and partition outcomes produced them (_tally).
Accounting ==
  /\ \A r \in Results \ {"killed"} :
       summary[r] = Cardinality({s \in Specs : record[s].result = r})
  /\ \A o \in Origins :
       summary[KillCounter[o]] = Cardinality({s \in Specs : record[s] = KilledBy(o)})

\* The tests of origin o found nothing wrong with s, or there are none.
Clean(s, o) ==
  IF o \in present THEN ran[s][o] \in {PytestOk, PytestNoTests} ELSE ran[s][o] = NotTried

\* A kill names the first group of tests that failed: the named group ended
\* with exit 1, every group before it ran clean or had nothing to run, and no
\* group after it was started.  Infrastructure exits and timeouts are not kills.
KillEvidence ==
  \A s \in Specs : record[s].result = "killed" =>
    \E k \in 1 .. Len(Partitions) :
      /\ record[s].origin = Partitions[k]
      /\ ran[s][Partitions[k]] = PytestTestsFailed
      /\ \A j \in 1 .. (k - 1) : Clean(s, Partitions[j])
      /\ \A j \in (k + 1) .. Len(Partitions) : ran[s][Partitions[j]] = NotTried

\* A mutant is called survived only if every group of tests there is was run
\* against it, none of them failed, and at least one really executed tests.
SurvivalEvidence ==
  \A s \in Specs : record[s].result = "survived" =>
    /\ \A o \in present : ran[s][o] \in {PytestOk, PytestNoTests}
    /\ \E o \in present : ran[s][o] = PytestOk

\* Both together: no verdict of the report claims more than the pytest children
\* that ran against the mutant have shown.
VerdictEvidence == KillEvidence /\ SurvivalEvidence

\* The mutants of a completed stage: one record per identity among the specs
\* listed on changed executable lines, all of them or as many as the cap allows.
SelectionRecorded ==
  LET done == {s \in Specs : Recorded(s)}
      eligible == listed \cap ChangedLine
      ids == {IdOf[s] : s \in eligible}
  IN  pc = "done" =>
        /\ done \subseteq eligible
        /\ \A s, t \in done : IdOf[s] = IdOf[t] => s = t
        /\ Cardinality(done) =
             IF Cardinality(ids) <= MaxMutants THEN Cardinality(ids) ELSE MaxMutants

\* Which mutants survive the cap depends on their identities alone, never on
\* the order in which a backend happens to list them.
CapIgnoresListingOrder ==
  LET ids(specs) == {IdOf[s] : s \in specs}
  IN  pc = "loop" /\ todo = Selected(listed) =>
        \A other \in SUBSET Specs :
          ids(Unique(other)) = ids(Unique(listed))
            => ids(Selected(other)) = ids(Selected(listed))

\* The scores of the report follow from its records: both are null when no
\* mutant was killed or survived, both share one denominator, and the
\* independent score counts only kills by tests the change did not touch.
ScoresFromRecords ==
  LET valid == {s \in Specs : record[s].result \in {"killed", "survived"}}
      kills == {s \in valid : record[s].result = "killed"}
      own   == {s \in kills : record[s].origin = "pr_untouched"}
  IN  pc = "done" =>
        scores = IF valid = {} THEN <<NoScore, NoScore>>
                 ELSE <<<<Cardinality(own), Cardinality(valid)>>,
                        <<Cardinality(kills), Cardinality(valid)>>>>

\* The budget is looked at before every mutant, so the stage overruns it by at
\* most the listing or one mutant with all its partitions.  The clock of the
\* model stops at a wait that is held: KillTime bounds the waits that end.
OverrunBound ==
  LET mutant == SetupTime + 3 * (MutantTimeout + KillTime)
  IN  now <= Budget + (IF ListTime < mutant THEN mutant ELSE ListTime)

\* Once the budget cut a mutant off, no later mutant is executed.
CutOffIsFinal ==
  [][(\E s \in Specs : record[s].result = "not_run")
       => ran' = ran /\ pc' # "setup"]_vars

\* action.yml: the optional timeout is the combined timeout of the optional
\* stages, so no test run starts once the budget is spent.
NoRunPastBudget == [][ran' # ran => ~Expired(Budget, now)]_vars
=============================================================================
