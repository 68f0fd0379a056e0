CONSTANTS
  NumSpecs = 4
  IdOf <- MCIdOf4
  Rank <- MCRank
  ChangedLine <- MCChanged
  ExcludeIds <- MCExclude
  MaxMutants = 2
  Budget = 1
  MutantTimeout = 1
  KillTime = 0
  ListTime = 0
  SetupTime = 0
SPECIFICATION Spec
PROPERTIES NoRunPastBudget
