CONSTANTS
  sizeX = 4
  sizeY = 3
  Maps <- MiddleMaps
  Queries <- Across
  Simplify <- Booleans
  MaxLinks = 1000
  Unknowns <- OneUnknown
  OldPaths <- Earlier
SPECIFICATION PlanSpec
PROPERTY RouteFits
PROPERTY SimplifiedIsFree
INVARIANT PathIsFree
INVARIANT FoundIsReported
