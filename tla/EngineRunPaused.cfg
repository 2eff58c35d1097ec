SPECIFICATION Spec
CONSTANTS
  RootListings <- MCRoots
  NestedListings <- MCNested
  MaxUnpackDepth <- MCDepth
PROPERTY NoBeginWhilePaused
CHECK_DEADLOCK FALSE
