\* AutoRound runs a wrapped layer without its input gather.
SPECIFICATION Spec
CONSTANTS
  q = q
  k = k
  o = o
  gate = gate
  up = up
  input_norm = input_norm
  post_norm = post_norm
  NoNorm = NoNorm
  None = None
  Layers <- AllLayers
  Selected <- AllLayers
  Groups <- GqaGroups
  Norms = {input_norm, post_norm}
  NormOf <- Wiring
  Block <- OneBlock
  Channels = {1, 2, 3, 4}
  Params <- BlockParams
  Tile16 = 1
  Tile8 = 1
  Group = 1
  Ratio16 = 25
  Ratio8 = 25
  Target = 800
  Floor = 700
  Tolerance = 5
  SensChoices <- Sensitivities
  MetricChoices <- Metrics
  Skips <- NoSkips
INVARIANT
  WrappedLayersAligned
CHECK_DEADLOCK FALSE
