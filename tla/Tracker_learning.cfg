\* The SAC service, which may fail every time, alpha and the replay buffer's rows, the
\* emergency stop and the progress of both threads.
\* The process may die (Crash), after which nothing happens: no deadlock check.
CONSTANTS
  LaunchTypes <- NLOPT
  UseCbf = FALSE
  UseVicon = FALSE
  Logging = TRUE
  IsEval = FALSE
  Trajectories <- ShortOnly
  MaxElapsed = 2
  MaxVel = 1
  MaxAngVel = 2
  MaxLinStep = 1
  MaxAngStep = 2
  LinResults <- OneLin
  AngResults = {0}
  AlignCmds <- Align3
  HalfAngVel = 1
  Poses = {0}
  InitAlpha = 1
  MinAlpha = 1
  MaxAlpha = 2
  AlphaSteps <- StepDown
  AlphaMsgs = {2}
  Collisions = {TRUE, FALSE}
  Services = {"eStop"}
SPECIFICATION FairSpec
PROPERTY RowsChain
PROPERTY NoRowAfterDone
PROPERTY EStopServed
PROPERTY TrajectoryEnds
CHECK_DEADLOCK FALSE
