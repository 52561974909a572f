\* Every kernel the operator launches, on 0, 1 and 3 rows.
SPECIFICATION Spec
CONSTANTS
  None = None
  Zero = Zero
  Garbage = Garbage
  Tile = 2
  Lanes = 2
  ChannelWarps = 2
  RowWarps = 2
  PerGroup = 2
  Groups = 2
  DecodeWarps = 2
  Subwarps = 2
  Sublanes = 4
  Calls <- SmallCalls
INVARIANT
  NoSharedMemoryRace
PROPERTY
  ImplementsGemm
CHECK_DEADLOCK FALSE
