CONSTANTS
  Window = {w1, w2}
  MaxVersion = 2
SPECIFICATION FairSpec
INVARIANTS
  MetaIsWhole
PROPERTIES
  OnlyUpgrades
  Converges
