CONSTANTS
  NumInputs = 2
  Linked = {1}
  Ok = {"v"}
  Failed = {"timeout"}
  Odd = {"empty"}
  Budget = 1
  StageLimit = 1
  AddTime = 1
  KillTime = 0
  MaxSigterm = 1
  MaxInterrupt = 1
SPECIFICATION FairSpec
INVARIANTS CleanOnReturn LeftoversAreExposed RegressionsReproduced
  CompleteComparesAll OverrunBound
PROPERTIES StageEnds
