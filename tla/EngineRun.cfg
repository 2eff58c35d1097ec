SPECIFICATION FairSpec
CONSTANTS
  RootListings <- MCRoots
  NestedListings <- MCNested
  MaxUnpackDepth <- MCDepth
INVARIANT AccountedOnce FailsOnlyIfStopped
PROPERTY KeepsContract OnlyLoneRunsOn Returns
CHECK_DEADLOCK FALSE
