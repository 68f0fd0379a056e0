CONSTANTS
  MaxRequirements = 3
  FileOf <- MCFileOf
  Budget = 3
  StageTimeout = 5
  LeastTimeout = 1
  CollectTimeout = 2
  KillTime = 1
  CompileTime = 1
SPECIFICATION FairSpec
INVARIANTS RunsItsOwnSource OutcomeEvidence CompleteUnlessSpent OverrunBound
PROPERTIES NoLaterTestStartsLate StageEnds
