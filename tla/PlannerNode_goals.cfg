\* Trajectories in time, in the BARN challenge: two goals and a third place, the default failsafe_count.
CONSTANTS
  Places = {p1, p2, p3}
  Failsafe = 2
  MaxNotches = 3
  UseArclen = FALSE
  Teleop = FALSE
  IsBarn = TRUE
  PlanOnce = FALSE
  JpsHysteresis = FALSE
  Nowhere = Nowhere
  NoTrajectory = NoTrajectory
  NoPath = NoPath
SPECIFICATION FairSpec
INVARIANT NewGoalRemembered
INVARIANT MotionsDoNotMix
PROPERTY MotionKeepsGoal
PROPERTY HorizonRecovers
