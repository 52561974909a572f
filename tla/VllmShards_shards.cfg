\* Columns, rows and merged modules over one to three ranks.
SPECIFICATION Spec
CONSTANTS
  Cases <- AllCases
  GroupSize = 4
INVARIANTS
  RowsFollowIndices
  EveryWeightOnce
  LocalIndicesAsRemapped
  ServedIffServable
  FinalCheckHolds
PROPERTY
  EveryRankEnds
CHECK_DEADLOCK FALSE
