\* Speeds: limits 5 and 4 with steps 2 and 3, so the clamp cuts a rate-limited change
\* short.  Horizons of 2 to 4 steps: with 2 no change of input is weighed, from 3 on
\* every kind of cell and equation occurs more than once.  The loop may really end.
CONSTANTS
  MaxVel = 5
  MaxAngVel = 4
  MaxLinStep = 2
  MaxAngStep = 3
  LinResults <- MCLinResults
  AngResults <- MCAngResults
  Types <- MpcTypes
  StepsSet = {2, 3, 4}
SPECIFICATION LoopSpec
CHECK_DEADLOCK FALSE
INVARIANT SpeedsWithinLimits
INVARIANT EquationsOwnRows
INVARIANT WarmStartAligned
INVARIANT AnswerHeadsHorizon
INVARIANT StopsForKnownCauses
PROPERTY RateLimited
