CONSTANTS
  b0 = b0
  b1 = b1
  b2 = b2
  b3 = b3
  ghost = ghost
  None = None
  Entry = b0
  Blocks <- Four
  Targets <- FourAndGhost
  Graphs <- Every
SPECIFICATION FairSpec
INVARIANTS
  TypeOK
  ReachableExact
  IdomClimbs
  DominanceExact
PROPERTIES
  IdomOnlyRises
  Terminates
