\* Commands, stops and the race with the publisher, without learning.
\* The process may die (Crash), after which nothing happens: no deadlock check.
CONSTANTS
  LaunchTypes <- IPOPT
  UseCbf = FALSE
  UseVicon = FALSE
  Logging = FALSE
  IsEval = FALSE
  Trajectories <- ShortAndLong
  MaxElapsed = 2
  MaxVel = 1
  MaxAngVel = 2
  MaxLinStep = 1
  MaxAngStep = 2
  LinResults <- OneLin
  AngResults <- OneAng
  AlignCmds <- Align3
  HalfAngVel = 1
  Poses = {0}
  InitAlpha = 1
  MinAlpha = 1
  MaxAlpha = 2
  AlphaSteps = {0}
  AlphaMsgs = {}
  Collisions = {}
  Services = {"eStop", "switch_mode"}
SPECIFICATION Spec
INVARIANT EStopNoTranslation
INVARIANT LinearFromCore
INVARIANT CommandWithinLimits
CHECK_DEADLOCK FALSE
