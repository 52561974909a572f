\* The code's tiles and group size; budgets around the default of 5.4 bits, at
\* INT4 exactly, and below what INT4 costs.
SPECIFICATION Spec
CONSTANTS
  Tile16 = 128
  Tile8 = 128
  Group = 128
  Channels <- Widths
  Ratios <- Splits
  Budgets = {300, 400, 450, 540, 650, 800, 1200, 1600}
INVARIANTS
  TypeOK
  EndsAsStated
  NeverOverBudget
  NoNeedlessDemotion
  SegmentsAlign
PROPERTY
  Terminates
CHECK_DEADLOCK FALSE
