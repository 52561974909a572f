\* k_proj is named by an excluded keyword, its norm feeds q_proj as well.
SPECIFICATION Spec
CONSTANTS
  q = q
  k = k
  o = o
  gate = gate
  up = up
  input_norm = input_norm
  post_norm = post_norm
  NoNorm = NoNorm
  None = None
  Layers <- AllLayers
  Selected <- SomeLayers
  Groups <- SomeGroups
  Norms = {input_norm, post_norm}
  NormOf <- Wiring
  Block <- OneBlock
  Channels = {1, 2, 3, 4}
  Params <- BlockParams
  Tile16 = 1
  Tile8 = 1
  Group = 1
  Ratio16 = 25
  Ratio8 = 25
  Target = 800
  Floor = 700
  Tolerance = 5
  SensChoices <- Sensitivities
  MetricChoices <- Metrics
  Skips <- WithoutAutoround
INVARIANT
  ForwardsAligned
CHECK_DEADLOCK FALSE
