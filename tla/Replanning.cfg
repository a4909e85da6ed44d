\* Ticks of .05 s, one sample each, rounding to .1 s and a lookahead of .35 s, as in
\* params/planner.yaml; of the times up to 1.5 s, .3, .6, .7, 1.2 and 1.4 s fall short.  Three
\* segments, an optimiser given .15 s and seen to overrun by a tick.  It is given up when no
\* plan is begun any more after MaxPhase.
CONSTANTS
  DC = 1
  Rounding = 2
  Short = {6, 12, 14, 24, 28}
  Lookahead = 7
  MaxPhase = 15
  N = 3
  FactorInitial = 1
  FactorFinal = 2
  MaxSolverTime = 3
  Ways = {{3, 9}}
  NoSolution = 9
  Overshoot = 1
  MaxLead = 1
  SetUpTime = 1
  MaxPolys = 3
SPECIFICATION Spec
INVARIANT SeamsEven
PROPERTY ReferenceGoesOn
PROPERTY ImplementsStitching
INVARIANT ModelIsPresent
INVARIANT WithinSolverTime
INVARIANT SamplesHeld
INVARIANT LengthsLead
INVARIANT CorridorLeadsThrough
CHECK_DEADLOCK FALSE
