\* A row of four cells with an obstacle in it or beside it, and a goal beyond; a node
\* that commands two cells a period to a plant that drives one.
SPECIFICATION SimSpec
CONSTANTS
  Width = 4
  Height = 3
  Lane = 1
  Maps <- MCMaps
  Goal = 3
  MaxV = 1
  MaxA = 1
  NodeMaxV = 2
  FarthestV = 1
  RangeMax = 3
  NoMsg = NoMsg
  Origin = Origin
INVARIANT ScansTrue
PROPERTY CollidingRests
