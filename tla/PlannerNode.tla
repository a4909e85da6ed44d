----------------------------- MODULE PlannerNode -----------------------------
(***************************************************************************)
(* The planner node (planner_gurobi.cpp): what its callbacks leave for the *)
(* control loop, where a plan starts, and what the sent trajectory is put  *)
(* together from.  One spinner thread runs every callback, so a callback   *)
(* and the control loop are atomic.                                        *)
(*                                                                         *)
(* A trajectory is known by the goal it leads to, the motion its plan      *)
(* starts from, whether it starts at rest, and the motion whose samples    *)
(* are kept before the plan.  Stitching has the samples themselves.  The   *)
(* planning proper (Planner::plan) succeeds or fails as it likes.          *)
(***************************************************************************)
EXTENDS Integers

CONSTANTS
  Places,      \* where the robot can be; two are the same within .2 of squared distance
  Failsafe,    \* _failsafe_count
  MaxNotches,  \* bound: how often the planning horizon is shrunk
  UseArclen, Teleop, IsBarn, PlanOnce, JpsHysteresis,  \* the parameters of these names
  Nowhere, NoTrajectory, NoPath

ASSUME PlannerAssumption ==
  /\ Failsafe \in Nat \ {0} /\ MaxNotches \in Nat
  /\ {UseArclen, Teleop, IsBarn, PlanOnce, JpsHysteresis} \subseteq BOOLEAN
  /\ Nowhere \notin Places /\ NoPath \notin Places

VARIABLES
  odom,         \* _odom, Nowhere until _is_init
  goal,         \* goal, Nowhere until _is_goal_set
  isGoalReset,  \* _is_goal_reset
  sentTraj,     \* sentTraj, NoTrajectory until _planned
  mpcHorizon,   \* mpcHorizon has points
  count,        \* the failures in a row, as far as _failsafe_count tells them apart
  notches,      \* _curr_horizon = _max_dist_horizon * .9^notches
  prevJpsPath   \* where _prev_jps_path leads

vars == <<odom, goal, isGoalReset, sentTraj, mpcHorizon, count, notches, prevJpsPath>>

Motions == {"robot", "sent", "horizon"}

Trajectory ==
  [leads : Places, from : Motions, still : BOOLEAN, kept : {"nothing", "sent", "horizon"}]

\* _is_goal_reset is not initialised.
Init ==
  /\ odom = Nowhere /\ goal = Nowhere
  /\ isGoalReset \in BOOLEAN
  /\ sentTraj = NoTrajectory
  /\ mpcHorizon = FALSE
  /\ count = 0 /\ notches = 0
  /\ prevJpsPath = NoPath

\* clickedPointcb does the same.
goalcb ==
  /\ \E g \in Places : goal' = g
  /\ isGoalReset' = TRUE
  /\ UNCHANGED <<odom, sentTraj, mpcHorizon, count, notches, prevJpsPath>>

\* In the BARN challenge the first pose sets the goal, straight ahead.
odomcb ==
  /\ \E p \in Places : odom' = p
  /\ IF IsBarn /\ goal = Nowhere THEN \E g \in Places : goal' = g ELSE goal' = goal
  /\ UNCHANGED <<isGoalReset, sentTraj, mpcHorizon, count, notches, prevJpsPath>>

mpcHorizoncb ==
  /\ mpcHorizon' = TRUE
  /\ UNCHANGED <<odom, goal, isGoalReset, sentTraj, count, notches, prevJpsPath>>

-----------------------------------------------------------------------------
(* controlLoop and plan.                                                    *)

\* controlLoop comes to the plan.
Due ==
  /\ odom # Nowhere /\ goal # Nowhere
  /\ odom # goal
  /\ ~(PlanOnce /\ sentTraj # NoTrajectory)

\* A slip: a new goal does not matter.
StartsFromAnyGoal ==
  IF sentTraj = NoTrajectory \/ Teleop \/ (UseArclen /\ ~mpcHorizon) THEN "robot"
  ELSE IF mpcHorizon THEN "horizon" ELSE "sent"

\* The point a plan starts from.
StartsFrom ==
  IF sentTraj = NoTrajectory \/ Teleop \/ isGoalReset \/ (UseArclen /\ ~mpcHorizon) THEN "robot"
  ELSE IF mpcHorizon THEN "horizon" ELSE "sent"

\* A slip: the trajectory sent is kept, although the plan begins on the horizon.
KeptSent == IF UseArclen \/ sentTraj = NoTrajectory THEN "nothing" ELSE "sent"

\* Whose samples stay before the plan's.
Kept ==
  IF UseArclen \/ sentTraj = NoTrajectory THEN "nothing"
  ELSE IF mpcHorizon THEN "horizon" ELSE "sent"

IsFailsafe == count >= Failsafe

\* Planner::plan may prefer the last path to a new one that turns away from it.
Paths ==
  {goal} \cup (IF JpsHysteresis /\ ~IsFailsafe THEN {prevJpsPath} \ {NoPath} ELSE {})

\* A slip: also a failure takes note of the goal.
PlanFailsForgetting ==
  /\ Due
  /\ count' = IF IsFailsafe THEN count ELSE count + 1
  /\ notches' = IF count' >= Failsafe /\ notches < MaxNotches THEN notches + 1 ELSE notches
  /\ mpcHorizon' = FALSE
  /\ isGoalReset' = FALSE
  /\ UNCHANGED <<odom, goal, sentTraj, prevJpsPath>>

PlanFails ==
  /\ Due
  /\ count' = IF IsFailsafe THEN count ELSE count + 1
  /\ notches' = IF count' >= Failsafe /\ notches < MaxNotches THEN notches + 1 ELSE notches
  /\ mpcHorizon' = FALSE
  /\ UNCHANGED <<odom, goal, isGoalReset, sentTraj, prevJpsPath>>

\* A slip: only a plan after too many failures gives any of the horizon back.
NotchesBackOnce == IF IsFailsafe /\ notches > 0 THEN notches - 1 ELSE notches

NotchesBack == IF notches > 0 THEN notches - 1 ELSE 0

\* Along the last path, a plan cut to the horizon ends on it.
PlanSucceeds ==
  /\ Due
  /\ \E path \in Paths : \E end \in {goal, path} :
       /\ sentTraj' = [leads |-> end, from |-> StartsFrom, kept |-> Kept,
                       still |-> StartsFrom = "robot" \/ IsFailsafe]
       /\ prevJpsPath' = path
  /\ isGoalReset' = (isGoalReset /\ (UseArclen \/ sentTraj = NoTrajectory))
  /\ mpcHorizon' = FALSE
  /\ count' = 0 /\ notches' = NotchesBack
  /\ UNCHANGED <<odom, goal>>

controlLoop == PlanFails \/ PlanSucceeds

Next == goalcb \/ odomcb \/ mpcHorizoncb \/ controlLoop

Spec == Init /\ [][Next]_vars

\* The timer keeps firing; whether plans succeed is left open.
FairSpec == Spec /\ WF_vars(controlLoop)

-----------------------------------------------------------------------------
(* Properties.                                                              *)

TypeOK ==
  /\ odom \in Places \cup {Nowhere} /\ goal \in Places \cup {Nowhere}
  /\ isGoalReset \in BOOLEAN /\ mpcHorizon \in BOOLEAN
  /\ sentTraj \in Trajectory \cup {NoTrajectory}
  /\ count \in 0 .. Failsafe /\ notches \in 0 .. MaxNotches
  /\ prevJpsPath \in Places \cup {NoPath}

\* Until a trajectory leads to the new goal the planner remembers that it is new, through
\* failing plans and changes of mind: isGoalReset is only cleared by a plan sent.
NewGoalRemembered ==
  sentTraj # NoTrajectory /\ sentTraj.leads # goal => isGoalReset

\* A plan that starts in motion goes on to where that motion was leading, never to
\* another goal.
MotionKeepsGoal ==
  [][PlanSucceeds /\ sentTraj'.from # "robot"
       => sentTraj # NoTrajectory /\ sentTraj'.leads = sentTraj.leads]_vars

\* The samples kept before a plan are of the motion the plan starts from, though the two
\* are chosen in different places: at worst it starts from the robot.
MotionsDoNotMix ==
  sentTraj # NoTrajectory =>
    sentTraj.kept \in {"nothing", sentTraj.from} \/ sentTraj.from = "robot"

\* However far failing plans have shrunk the horizon, over goals that change and failures between
\* successes, it comes back to its length and stays so, unless plans go on failing or the node
\* has nothing to plan again and again.
HorizonRecovers ==
  <>[][~PlanFails]_vars => <>[](notches = 0) \/ []<>~Due
=============================================================================
