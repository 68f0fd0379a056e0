CONSTANTS
  Files <- MCFiles
  Lines = {1}
  DataNames = {}
  TestNames <- MCTestNames
  TestRoots <- MCTestRoots
  Collected <- MCCollected
  EndsWith <- Same
  FindRenames = FALSE
  MaxChanges = 2
SPECIFICATION Spec
INVARIANTS UntouchedIffIndependent TouchedIsKnown CompleteIsCertain
