CONSTANTS
  NumSpecs = 5
  IdOf <- MCIdOf
  Rank <- MCRank
  ChangedLine <- MCChanged
  ExcludeIds <- MCExclude
  MaxMutants = 2
  Budget = 2
  MutantTimeout = 2
  KillTime = 1
  ListTime = 1
  SetupTime = 0
SPECIFICATION FairSpec
INVARIANTS CapIgnoresListingOrder Accounting VerdictEvidence SelectionRecorded
  ScoresFromRecords OverrunBound
PROPERTIES CutOffIsFinal ImplementsLedger
