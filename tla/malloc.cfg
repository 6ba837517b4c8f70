CONSTANTS
  Header = 2
  Unit = 2
  Threshold = 8
  Wrap = 64
  Start = 4
  Limit = 24
  Sizes = {0, 1, 4, 5, 8}
  Fits <- AllFits
SPECIFICATION Spec
INVARIANTS TypeOK HeapTiled FreeListOK Coalesced Sized
PROPERTY OthersKept
