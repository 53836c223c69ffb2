CONSTANTS
  Offered <- Three
  Enabled <- All
  MaxDrops = 1
SPECIFICATION FairSpec
INVARIANTS TypeOK SplitsAreNews EndsSplitOnce
PROPERTY EverySplitComes
