SPECIFICATION Spec
CONSTANTS
  Hundred = 1
  Thousand = 2
  PlainTexts = {"ab"}
  Dicts = {"{}", "{k}"}
  Raises = Raises
  Absent = Absent
  NullValue = NullValue
  Repo <- MCRepo
  UnsafePaths = {"../up"}
  Signals = {"must"}
  DataPaths = {}
  MaxLines = 2
  MaxFiles = 2
  Diffs <- MCDiffs
  Sessions <- MCSessions
  Entries <- MCEntries
  OptionSets <- MCOptionSets
  SourceTexts <- MCSourceTexts
  TestCases <- MCTestCases
  Settings <- MCSettings
  Answers <- MCAnswers
  Files <- MCFiles
INVARIANTS
  AddedLinesAreExact
  OutcomeIsTheTests
  LossIsReported
  WorkersAreRefused
  MutantIsItsSite
  TestsAreSound
  RequirementsAreQuoted
