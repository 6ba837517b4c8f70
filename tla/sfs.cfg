CONSTANTS
  PerBlock = 2
  Direct = 1
  Words = 2
  MaxSize = 3
  MaxKills = 1
  Super = 99
  Setups <- FullOrKilled
SPECIFICATION Spec
INVARIANTS TypeOK NoSharing BitmapOK
PROPERTY ImplementsFileStore
