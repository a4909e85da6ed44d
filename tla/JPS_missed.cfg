\* Two ways that lead through the same cell in different directions.
CONSTANTS
  sizeX = 10
  sizeY = 5
  Maps <- MissedMaps
  Queries <- MissedQuery
  Simplify = {FALSE}
  MaxLinks = 1000
SPECIFICATION Spec
INVARIANT NoPathMissed
