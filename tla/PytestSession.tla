--------------------------- MODULE PytestSession ---------------------------
(***************************************************************************)
(* The outcome of a test in a report: what pytest_plugin.py makes of the   *)
(* reports pytest hands it, one for each phase of each attempt.            *)
(*                                                                         *)
(* The upper part is pytest: what a test does and which reports that       *)
(* gives.  A plugin may rerun a failed test, and the session may be        *)
(* stopped in the middle of one.                                           *)
(***************************************************************************)
EXTENDS Naturals, Sequences

Phases == {"setup", "call", "teardown"}

\* An attempt: what the code of each phase does, the test's xfail mark
\* ("empty": without a reason), and cut: the session ends while the test's
\* body runs.
Does == {"returns", "raises", "skips"}
Attempt == [setup : Does, call : Does, teardown : Does,
            mark : {"none", "empty", "reason"}, cut : BOOLEAN]
-----------------------------------------------------------------------------
(* The reports of pytest.                                                  *)

\* The report of a phase under an xfail mark: report.wasxfail is not set
\* ("none") or is the reason of the mark.
PhaseReport(phase, does, mark) ==
  IF does = "skips" THEN [outcome |-> "skipped", wasxfail |-> "none"]
  ELSE IF does = "raises"
       THEN [outcome |-> IF mark = "none" THEN "failed" ELSE "skipped", wasxfail |-> mark]
  ELSE [outcome |-> "passed", wasxfail |-> IF phase = "call" THEN mark ELSE "none"]

\* The report of each phase of an attempt that is reported: no body without a
\* set-up, but a tear-down.
AttemptReports(a) ==
  [phase \in IF a.setup # "returns" THEN Phases \ {"call"}
             ELSE IF a.cut THEN {"setup"} ELSE Phases |-> PhaseReport(phase, a[phase], a.mark)]

\* A failure that is going to be repeated is reported as a rerun.
Rerun(reports) ==
  [phase \in DOMAIN reports |->
     [reports[phase] EXCEPT !.outcome = IF @ = "failed" THEN "rerun" ELSE @]]

\* The reports of all attempts, which come in this order.
SessionReports(attempts) ==
  [i \in DOMAIN attempts |->
     IF i = Len(attempts) THEN AttemptReports(attempts[i])
     ELSE Rerun(AttemptReports(attempts[i]))]
-----------------------------------------------------------------------------
(* The plugin.                                                             *)

NoReport == [outcome |-> "none", wasxfail |-> "none"]

\* Mutant: setdefault for the phase as well, so its first report stays.
RecordFirst(reports) ==
  [phase \in Phases |->
     LET seen  == {i \in DOMAIN reports : phase \in DOMAIN reports[i]}
         first == CHOOSE i \in seen : \A j \in seen : i <= j
     IN IF seen = {} THEN NoReport ELSE reports[first][phase]]

\* pytest_runtest_logreport: the record of a test holds the last report of
\* each phase.
Record(reports) ==
  [phase \in Phases |->
     LET seen == {i \in DOMAIN reports : phase \in DOMAIN reports[i]}
         last == CHOOSE i \in seen : \A j \in seen : j <= i
     IN IF seen = {} THEN NoReport ELSE reports[last][phase]]

\* bool() of the reason of an xfail mark.
WasXfail(report) == report.wasxfail = "reason"

\* _normalize_outcome.
Normalized(rec) ==
  LET setup == rec["setup"]  call == rec["call"]  teardown == rec["teardown"] IN
  IF setup.outcome = "skipped" THEN IF WasXfail(setup) THEN "xfailed" ELSE "skipped"
  ELSE IF setup.outcome = "failed" THEN "error"
  ELSE IF call.outcome = "skipped" THEN IF WasXfail(call) THEN "xfailed" ELSE "skipped"
  ELSE IF WasXfail(call) /\ call.outcome = "failed" THEN "xfailed"
  ELSE IF WasXfail(call) /\ call.outcome = "passed" THEN "xpassed"
  ELSE IF call.outcome = "failed" THEN "failed"
  ELSE IF teardown.outcome = "failed" THEN "error"
  ELSE IF call.outcome = "passed" THEN "passed"
  ELSE IF setup.outcome = "passed" /\ call = NoReport THEN "passed"
  ELSE "error"

OutcomeOf(attempts) == Normalized(Record(SessionReports(attempts)))
-----------------------------------------------------------------------------
(* What the test did.                                                      *)

\* What pytest itself says of an attempt that was not cut short: the first
\* phase in which something happened decides.
Verdict(a) ==
  IF a.setup = "skips" THEN "skipped"
  ELSE IF a.setup = "raises" THEN IF a.mark = "none" THEN "error" ELSE "xfailed"
  ELSE IF a.call = "skips" THEN "skipped"
  ELSE IF a.call = "raises" THEN IF a.mark = "none" THEN "failed" ELSE "xfailed"
  ELSE IF a.mark # "none" THEN "xpassed"
  ELSE IF a.teardown = "raises" THEN "error" ELSE "passed"
=============================================================================
