CONSTANTS
  m1 = m1
  m2 = m2
  MergeBases = {m1, m2}
  Ratios = {0, 1}
  FindingIds = {"f"}
  Policies <- MCPolicies
  MaxItems = 2
SYMMETRY Symmetry
SPECIFICATION Spec
INVARIANTS ExitMeaning ScoreOnGreenBaseline EvidenceIsCited PassIsEarned
PROPERTIES ReevaluationAgrees
