\* A lost zero: short trajectories only, so that nothing turns the robot on the spot.
\* The process may die (Crash), after which nothing happens: no deadlock check.
CONSTANTS
  LaunchTypes <- IPOPT
  UseCbf = FALSE
  UseVicon = FALSE
  Logging = FALSE
  IsEval = FALSE
  Trajectories <- ShortOnly
  MaxElapsed = 2
  MaxVel = 1
  MaxAngVel = 2
  MaxLinStep = 1
  MaxAngStep = 2
  LinResults <- OneLin
  AngResults <- OneAng
  AlignCmds <- Align3
  HalfAngVel = 1
  Poses = {0}
  InitAlpha = 1
  MinAlpha = 1
  MaxAlpha = 2
  AlphaSteps = {0}
  AlphaMsgs = {}
  Collisions = {}
  Services = {}
SPECIFICATION Spec
INVARIANT StopsTurning
CHECK_DEADLOCK FALSE
