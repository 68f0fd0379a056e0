----------------------------- MODULE Generation -----------------------------
(***************************************************************************)
(* The optional generation stage: run_generation, _collect_nodeid and      *)
(* _run_one of generation/runner.py, compile_all of generation/compiler.py *)
(* and write_artifact.                                                     *)
(*                                                                         *)
(* A requirement is its position in the list of executable requirements.   *)
(* compile_all writes one test file for each of them; then the stage       *)
(* writes each file again, as an artifact, and runs it in a pytest child,  *)
(* twice if it fails.  The file of a requirement is named after its id,    *)
(* with "-" replaced by "_", so two requirements may share one: disk says  *)
(* whose source a file holds, and ran whose source each child executed.    *)
(* Time passes while tests are compiled and while a child runs.  A child   *)
(* that timed out is killed with its group, and the rest of its output is  *)
(* read without a timeout: a process that left the group and keeps the     *)
(* pipes open holds the stage, which then waits for as long as it lives.   *)
(***************************************************************************)
EXTENDS Deadline, PytestExit, Sequences

CONSTANTS
  MaxRequirements, \* length of the longest list of executable requirements
  FileOf,          \* the file name of each requirement
  Budget,          \* optional_timeout_seconds
  StageTimeout,    \* generation.timeout_seconds
  LeastTimeout,    \* the 1.0 seconds a test gets when the budget is spent
  CollectTimeout,  \* the 30.0 seconds of --collect-only
  KillTime,        \* time run_bounded takes to end a child that timed out, if it does
  CompileTime      \* longest time compile_all takes

Positions == 1 .. MaxRequirements
Files == {FileOf[i] : i \in Positions}
NoSource == 0      \* a file that was not written

ASSUME GenerationAssumption ==
  /\ MaxRequirements \in Nat \ {0}
  /\ DOMAIN FileOf = Positions
  /\ Budget \in Nat /\ KillTime \in Nat /\ CompileTime \in Nat
  /\ StageTimeout \in Nat \ {0}
  /\ LeastTimeout \in Nat \ {0}
  /\ CollectTimeout \in Nat \ {0}

GeneratedOutcomes == {"passed", "failed", "invalid", "flaky", "timeout", "error"}
TimedOut == 100    \* how a child ended that run_bounded killed

VARIABLES
  pc,          \* where run_generation is
  now,         \* time since the shared deadline was started
  enabled,     \* config.generation.enabled
  wanted,      \* requirements.enabled, or there are requirements
  executable,  \* number of executable requirements
  hypothesis,  \* hypothesis_available()
  status,      \* stage.status
  skip,        \* code of stage.skip_reason or stage.error_reason
  disk,        \* whose source each test file holds
  written,     \* number of requirements compile_all returned
  cur,         \* the requirement whose test is run, 0 before the loop
  timeout,     \* timeout of _run_one
  ran,         \* for each requirement, what its pytest children ran and returned
  items,       \* outcomes of result.items, in the order of the list
  artifacts    \* the requirements whose source stage.artifacts describes

inputs == <<enabled, wanted, executable, hypothesis>>
outputs == <<items, artifacts>>
vars == <<pc, now, inputs, status, skip, disk, written, cur, timeout, ran, outputs>>

Init ==
  /\ pc = "entry" /\ now \in 0 .. Budget
  /\ enabled \in BOOLEAN /\ wanted \in BOOLEAN /\ hypothesis \in BOOLEAN
  /\ executable \in 0 .. MaxRequirements
  /\ executable > 0 => wanted
  /\ status = "not_requested" /\ skip = "none"
  /\ disk = [f \in Files |-> NoSource]
  /\ written = 0 /\ cur = 0 /\ timeout = 0
  /\ ran = [i \in Positions |-> <<>>]
  /\ items = <<>> /\ artifacts = {}
-----------------------------------------------------------------------------
Stop(st, reason) ==
  /\ pc' = "done" /\ status' = st /\ skip' = reason
  /\ UNCHANGED <<now, inputs, disk, written, cur, timeout, ran, outputs>>

NotRequested ==
  /\ pc = "entry" /\ ~enabled
  /\ Stop("not_requested", "none")

SkipUnwanted ==
  /\ pc = "entry" /\ enabled /\ ~wanted
  /\ Stop("skipped", "requirements_disabled")

SkipDeadline ==
  /\ pc = "entry" /\ enabled /\ wanted /\ Expired(Budget, now)
  /\ Stop("skipped", "deadline_exhausted")

SkipNothing ==
  /\ pc = "entry" /\ enabled /\ wanted /\ ~Expired(Budget, now)
  /\ executable = 0
  /\ Stop("skipped", "no_executable_requirements")

SkipDependency ==
  /\ pc = "entry" /\ enabled /\ wanted /\ ~Expired(Budget, now)
  /\ executable > 0 /\ ~hypothesis
  /\ Stop("skipped", "missing_dependency")

\* The files after compile_all wrote the first n of its requirements in order:
\* each holds the source of the last one that has its name.
Compiled(n) ==
  [f \in Files |->
     LET last == {i \in 1 .. n : FileOf[i] = f /\ \A j \in (i + 1) .. n : FileOf[j] # f}
     IN  IF last = {} THEN NoSource ELSE CHOOSE i \in last : TRUE]

\* compile_all for n requirements: all of them, or the ones before the first
\* that cannot be compiled.
Compile(n, d) ==
  /\ pc = "entry" /\ enabled /\ wanted /\ ~Expired(Budget, now)
  /\ executable > 0 /\ hypothesis
  /\ n \in 0 .. executable
  /\ now' = now + d
  /\ disk' = Compiled(n)
  /\ IF n < executable
     THEN /\ pc' = "done" /\ status' = "error" /\ skip' = "compile_failed"
          /\ UNCHANGED <<written, cur>>
     ELSE /\ pc' = "write" /\ written' = n /\ cur' = 1
          /\ UNCHANGED <<status, skip>>
  /\ UNCHANGED <<inputs, timeout, ran, outputs>>

\* Mutant: a test whose file exists is not written again.
KeptFile(i) == disk

\* write_artifact puts the source of i into its file, whatever it holds.
Rewritten(i) == [disk EXCEPT ![FileOf[i]] = i]

\* Mutant: the budget does not shorten the timeout of a test.
WholeStageTimeout(t) == StageTimeout

\* min(generation.timeout_seconds, deadline.remaining() or 1.0)
TestTimeout(t) ==
  IF Expired(Budget, t)
  THEN IF StageTimeout < LeastTimeout THEN StageTimeout ELSE LeastTimeout
  ELSE Clamp(Budget, t, StageTimeout)

\* The artifact of the next test and the timeout of _run_one.
WriteTest ==
  /\ pc = "write"
  /\ pc' = "collect"
  /\ disk' = Rewritten(cur)
  /\ artifacts' = artifacts \cup {cur}
  /\ timeout' = TestTimeout(now)
  /\ UNCHANGED <<now, inputs, status, skip, written, cur, ran, items>>

\* A child ends by itself within its limit, or is killed, which takes longer.
Durations(limit, timedOut) == IF timedOut THEN {limit + KillTime} ELSE 0 .. limit

\* _collect_nodeid: the test runs next, whether or not it found a node id.
Collect(timedOut, d) ==
  /\ pc = "collect"
  /\ d \in Durations(IF CollectTimeout < timeout THEN CollectTimeout ELSE timeout, timedOut)
  /\ now' = now + d
  /\ pc' = "first"
  /\ UNCHANGED <<inputs, status, skip, disk, written, cur, timeout, ran, outputs>>

\* A pytest child over the file of the current requirement.
Child(at, limit, timedOut, code, d) ==
  /\ pc = at
  /\ d \in Durations(limit, timedOut)
  /\ now' = now + d
  /\ ran' = [ran EXCEPT ![cur] =
       Append(@, [source |-> disk[FileOf[cur]], code |-> IF timedOut THEN TimedOut ELSE code])]

\* Mutant: the loop does not look at the budget after a test.
BreaksAtTheEnd(t) == cur = written

\* Mutant: the last test is forgotten.
EndsBeforeLast(t) == Expired(Budget, t) \/ cur + 1 >= written

\* deadline.expired() after a test, or the list is exhausted.
LoopEnds(t) == Expired(Budget, t) \/ cur = written

\* _run_one returns an outcome; the loop goes on or the stage is complete, also
\* when tests are left.
Return(outcome) ==
  /\ items' = Append(items, outcome)
  /\ IF LoopEnds(now')
     THEN pc' = "done" /\ status' = "complete" /\ UNCHANGED cur
     ELSE pc' = "write" /\ cur' = cur + 1 /\ UNCHANGED status
  /\ UNCHANGED <<inputs, skip, disk, written, timeout, artifacts>>

\* The outcomes the first run decides.
Decided ==
  [timeout |-> "timeout", survived |-> "passed", error |-> "error",
   interrupted |-> "error", no_tests |-> "invalid"]

RunFirst(timedOut, code, d) ==
  LET outcome == ClassifyPytestExit(code, timedOut)
  IN  /\ Child("first", timeout, timedOut, code, d)
      /\ IF outcome \in DOMAIN Decided
         THEN Return(Decided[outcome])
         ELSE /\ pc' = "replay"
              /\ UNCHANGED <<inputs, status, skip, disk, written, cur, timeout, outputs>>

\* min(timeout, deadline.remaining() or timeout)
ReplayTimeout == RemainingOr(Budget, now, timeout)

\* Mutant: any second result but a pass reproduces the failure.
ReproducedUnlessPassed(outcome) == IF outcome = "survived" THEN "flaky" ELSE "failed"

Replayed(outcome) ==
  CASE outcome \in {"survived", "timeout"} -> "flaky"
    [] outcome = "killed"                  -> "failed"
    [] OTHER                               -> "error"

\* Mutant: a flaky test is tried from the start while there is time.
RetriesFlaky(timedOut, code, d) ==
  LET outcome == Replayed(ClassifyPytestExit(code, timedOut))
  IN  IF outcome = "flaky" /\ ~Expired(Budget, now + d)
      THEN /\ pc = "replay" /\ d \in Durations(ReplayTimeout, timedOut)
           /\ pc' = "write" /\ now' = now + d /\ ran' = [ran EXCEPT ![cur] = <<>>]
           /\ UNCHANGED <<inputs, status, skip, disk, written, cur, timeout, outputs>>
      ELSE Child("replay", ReplayTimeout, timedOut, code, d) /\ Return(outcome)

RunReplay(timedOut, code, d) ==
  /\ Child("replay", ReplayTimeout, timedOut, code, d)
  /\ Return(Replayed(ClassifyPytestExit(code, timedOut)))

\* A child printed what is not text: nothing catches the exception.
RunRaises(d) ==
  /\ pc \in {"collect", "first", "replay"}
  /\ now' = now + d
  /\ pc' = "raised"
  /\ UNCHANGED <<inputs, status, skip, disk, written, cur, timeout, ran, outputs>>

\* The second communicate() of run_bounded, after a child was killed.
HeldOpen ==
  /\ pc \in {"collect", "first", "replay"}
  /\ pc' = "held"
  /\ UNCHANGED <<now, inputs, status, skip, disk, written, cur, timeout, ran, outputs>>

Terminated == pc \in {"done", "raised", "held"} /\ UNCHANGED vars

Next ==
  \/ NotRequested \/ SkipUnwanted \/ SkipDeadline \/ SkipNothing \/ SkipDependency
  \/ \E n \in 0 .. MaxRequirements, d \in 0 .. CompileTime : Compile(n, d)
  \/ WriteTest
  \/ \E timedOut \in BOOLEAN, d \in 0 .. StageTimeout + LeastTimeout + KillTime :
       \/ Collect(timedOut, d)
       \/ \E code \in ExitStatus : RunFirst(timedOut, code, d) \/ RunReplay(timedOut, code, d)
  \/ \E d \in 0 .. timeout + KillTime : RunRaises(d)
  \/ HeldOpen
  \/ Terminated

Spec == Init /\ [][Next]_vars

\* run_generation is straight-line code in one thread: it keeps taking steps.  A
\* wait either ends within its bounds, which is one step here, or is held, which
\* is HeldOpen: the fairness does not choose between the two.
FairSpec == Spec /\ WF_vars(Next)
-----------------------------------------------------------------------------
Run == [source : Positions \cup {NoSource}, code : ExitStatus \cup {TimedOut}]

TypeOK ==
  /\ pc \in {"entry", "write", "collect", "first", "replay", "done", "raised", "held"}
  /\ now \in Nat /\ timeout \in 0 .. StageTimeout
  /\ executable \in 0 .. MaxRequirements /\ written \in {0, executable}
  /\ cur \in 0 .. written
  /\ status \in {"not_requested", "skipped", "complete", "error"}
  /\ disk \in [Files -> Positions \cup {NoSource}]
  /\ \A i \in Positions : Len(ran[i]) <= 2 /\ \A k \in 1 .. Len(ran[i]) : ran[i][k] \in Run
  /\ \A i \in 1 .. Len(items) : items[i] \in GeneratedOutcomes
  /\ artifacts \subseteq Positions

\* Every child executes the source of the requirement its result is filed
\* under, whose digest the result records, although compile_all may have put
\* the source of another requirement into the same file.
RunsItsOwnSource ==
  \A i \in Positions : \A k \in 1 .. Len(ran[i]) : ran[i][k].source = i

Codes(i) == [k \in 1 .. Len(ran[i]) |-> ran[i][k].code]

\* What the children of a test, in order, must have returned for its outcome.
Justified(outcome, codes) ==
  CASE outcome = "failed"  -> codes = <<PytestTestsFailed, PytestTestsFailed>>
    [] outcome = "flaky"   -> \E code \in {PytestOk, TimedOut} : codes = <<PytestTestsFailed, code>>
    [] outcome = "passed"  -> codes = <<PytestOk>>
    [] outcome = "timeout" -> codes = <<TimedOut>>
    [] outcome = "invalid" -> codes = <<PytestNoTests>>
    [] OTHER               -> codes[Len(codes)] \notin {PytestOk, PytestTestsFailed, TimedOut}

\* An outcome says what the children of the test did: a failure was seen twice,
\* a flaky test failed once and then passed or hung, everything else but an
\* unreadable second run was decided by one run.  "failed" stops the mutation
\* stage and may block under a policy, so it must not rest on one run.
OutcomeEvidence == \A i \in 1 .. Len(items) : Justified(items[i], Codes(i))

\* A complete stage has a result and an artifact for a prefix of the list, not
\* empty, and the prefix is the whole list unless the budget was spent.
CompleteUnlessSpent ==
  pc = "done" /\ status = "complete" =>
    /\ items # <<>> /\ artifacts = 1 .. Len(items)
    /\ Len(items) < executable => Expired(Budget, now)

\* How long the stage may run past the budget.  A test that starts in time gets
\* what is left of it for collecting the test, for running it and for running
\* it again, each on its own, so the stage may be late by two of these; a slow
\* compilation may make the first test start late, with the least timeout.  The
\* clock of the model stops at a wait that is held (StageEnds).
OverrunBound ==
  now <= Budget + CompileTime + CollectTimeout + StageTimeout + LeastTimeout + 3 * KillTime

\* Only the first test may start after the budget is spent (compile_all is not
\* watched): the loop looks at the clock between two tests.
NoLaterTestStartsLate ==
  [][cur' > 1 /\ cur' # cur => ~Expired(Budget, now')]_vars

\* The stage ends, with a status or with an exception, unless a process that left
\* the group of a killed child keeps its pipes open (communicate() at the end of
\* run_bounded): then the stage stays in that wait.
StageEnds == <>(pc \in {"done", "raised"}) \/ <>[](pc = "held")
=============================================================================
