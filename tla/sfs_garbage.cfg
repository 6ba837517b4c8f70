CONSTANTS
  PerBlock = 2
  Direct = 1
  Words = 2
  MaxSize = 3
  MaxKills = 1
  Super = 99
  Setups <- FullAndKilled
SPECIFICATION Spec
INVARIANT NoSharing
