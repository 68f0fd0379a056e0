CONSTANTS
  Files <- RenameFiles
  Lines = {1}
  DataNames = {}
  TestNames <- MCTestNames
  TestRoots <- MCTestRoots
  Collected <- RenameCollected
  EndsWith <- RenameSame
  FindRenames = TRUE
  MaxChanges = 3
SPECIFICATION Spec
INVARIANTS UntouchedIsIndependent
