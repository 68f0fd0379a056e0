----------------------------- MODULE PytestExit -----------------------------
(***************************************************************************)
(* How an exit status of a pytest child is read (mutation/pytest_exit.py). *)
(* Generation and mutation both use it; only exit 1 is a test failure.     *)
(***************************************************************************)
EXTENDS Integers

PytestOk          == 0
PytestTestsFailed == 1
PytestInterrupted == 2
PytestNoTests     == 5

\* 3 and 4 are pytest's internal and usage errors; a negative status is the
\* signal that ended the child, here SIGKILL.
ExitStatus == (0 .. 5) \cup {-9}

Outcomes ==
  {"survived", "killed", "error", "no_tests", "timeout", "interrupted"}

\* Mutant: an interrupted session counts as a failing test.
InterruptKills(code, timedOut) ==
  IF timedOut THEN "timeout"
  ELSE CASE code = PytestOk                                   -> "survived"
         [] code \in {PytestTestsFailed, PytestInterrupted} -> "killed"
         [] code = PytestNoTests                              -> "no_tests"
         [] OTHER                                             -> "error"

ClassifyPytestExit(code, timedOut) ==
  IF timedOut THEN "timeout"
  ELSE CASE code = PytestOk          -> "survived"
         [] code = PytestTestsFailed -> "killed"
         [] code = PytestInterrupted -> "interrupted"
         [] code = PytestNoTests     -> "no_tests"
         [] OTHER                    -> "error"
=============================================================================
