CONSTANTS
  NumCalls = 2
  NumDescendants = 1
  MaxSigterm = 2
  MaxInterrupt = 2
SPECIFICATION FairSpec
INVARIANTS TimeoutKillsGroup SurvivorsAreExposed RegistryExact
PROPERTIES CallsEnd
