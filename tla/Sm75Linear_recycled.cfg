\* A heap that recycles addresses, one stream.
SPECIFICATION Spec
CONSTANTS
  a0 = a0
  a1 = a1
  a2 = a2
  t0 = t0
  t1 = t1
  s0 = s0
  s1 = s1
  slot0 = slot0
  slot1 = slot1
  None = None
  Garbage = Garbage
  Addr = {a0, a1}
  Recycle = TRUE
  Tag = {t0, t1}
  Checkpoints <- SamePartition
  OutFeatures = 2
  Streams = {s0}
  Slots = {slot0, slot1}
  Rows = {0, 1, 2}
  MaxVersion = 1
  MaxQueue = 2
  Writable = {"weight_int4"}
SYMMETRY Symmetry
INVARIANTS
  ForwardReadsItsExpansion
  ReplayReadsItsExpansion
  GraphBlockHeld
  CacheHitIsCurrent
CHECK_DEADLOCK FALSE
