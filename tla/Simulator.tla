----------------------------- MODULE Simulator -----------------------------
(***************************************************************************)
(* The simulated robot (src/src/sim): the plant (unicycle_sim.cpp), which  *)
(* follows /cmd_vel, the node that commands it and integrates accelera-    *)
(* tions (jackal_extended_unicycle_test.cpp drives to a goal, jackal_      *)
(* extended_unicycle_mpc.cpp takes them from /mpc_vel), and the lidar      *)
(* (lidar_simulator.cpp).  Each is one thread; the topics keep the newest  *)
(* message.                                                                *)
(*                                                                         *)
(* The plane is a grid.  The robot drives along the row Lane, facing one   *)
(* way or the other (theta is 1 or -1); speeds are cells per period.  A    *)
(* turn takes one period and half a circle, in which x does not change.    *)
(***************************************************************************)
EXTENDS Integers, FiniteSetsExt

CONSTANTS
  Width, Height, Lane,  \* the map, and the robot's row
  Maps,                 \* sets of occupied cells, as a map may hold them
  Goal,                 \* goal_x
  MaxV, MaxA,           \* max_v_, max_a_ * dt_ of the plant
  NodeMaxV,             \* v_max of the node
  FarthestV,            \* bound of the speed the mpc node may integrate
  RangeMax,             \* range_max in cells
  NoMsg, Origin         \* no message yet; the origin of the odometry's frame

Places == -1 .. Width         \* the map's row and one cell beyond either end

ASSUME SimulatorAssumption ==
  /\ {Width, Height, MaxV, MaxA, NodeMaxV, RangeMax} \subseteq Nat \ {0}
  /\ Lane \in 0 .. Height - 1 /\ Goal \in 0 .. Width - 1
  /\ Maps \subseteq SUBSET ((0 .. Width - 1) \X (0 .. Height - 1))
  /\ FarthestV \in Nat
  /\ NoMsg \notin [x : Places, theta : {1, -1}] /\ Origin \notin Places

Still == [v |-> 0, w |-> 0]

VARIABLES
  map,                                             \* what the map server holds
  state, vel, desired_input, is_paused, is_colliding, map_received, \* plant
  cmd_vel, odom,                                   \* newest messages
  node, v,                                         \* commanding node, its state_[3]
  lidar_pose, map_initialized                      \* lidar

plant == <<state, vel, desired_input, is_paused, is_colliding, map_received>>
lidar == <<lidar_pose, map_initialized>>
sim_vars == <<map, plant, cmd_vel, odom, node, v, lidar>>

SimInit ==
  /\ map \in Maps
  /\ state = [x |-> 0, theta |-> 1] /\ vel = 0 /\ desired_input = Still
  /\ is_paused = FALSE /\ is_colliding = FALSE /\ map_received = FALSE
  /\ cmd_vel = NoMsg /\ odom = NoMsg
  /\ node \in {"test", "mpc"} /\ v = 0
  /\ lidar_pose = Origin /\ map_initialized = FALSE

Clip(value, limit) == IF value > limit THEN limit ELSE IF value < -limit THEN -limit ELSE value

(***************************************************************************)
(* The plant.                                                              *)
(***************************************************************************)

map_callback ==
  /\ ~map_received /\ map_received' = TRUE
  /\ UNCHANGED <<map, state, vel, desired_input, is_paused, is_colliding, cmd_vel, odom, node, v, lidar>>

\* Slip for CollidingRests: the collision is reported and the commands obeyed.
cmd_vel_obeyed ==
  /\ cmd_vel # NoMsg /\ cmd_vel' = NoMsg
  /\ desired_input' = [cmd_vel EXCEPT !.v = Clip(@, MaxV)]
  /\ UNCHANGED <<map, state, vel, is_paused, is_colliding, map_received, odom, node, v, lidar>>

\* A command is cut to the limits, and is no motion once the robot has collided.
cmd_vel_callback ==
  /\ cmd_vel # NoMsg /\ cmd_vel' = NoMsg
  /\ desired_input' = IF is_colliding THEN Still ELSE [cmd_vel EXCEPT !.v = Clip(@, MaxV)]
  /\ UNCHANGED <<map, state, vel, is_paused, is_colliding, map_received, odom, node, v, lidar>>

\* The unicycle's motion in a period; beyond the map's row it is not followed.
Moved(speed) ==
  LET x == state.x + speed * state.theta
  IN IF desired_input.w # 0 THEN [state EXCEPT !.theta = -@]
     ELSE [state EXCEPT !.x = IF x \in Places THEN x ELSE @]

\* A cell under the robot's footprint is occupied.
is_in_collision(pose) == <<pose.x, Lane>> \in map

\* The body of update_state: speed, motion, odometry and transform, collision.
Update ==
  /\ vel' = vel + Clip(desired_input.v - vel, MaxA)
  /\ state' = Moved(vel') /\ odom' = state'
  /\ is_colliding' = (is_colliding \/ (map_received /\ is_in_collision(state')))
  /\ UNCHANGED <<map, desired_input, is_paused, map_received, cmd_vel, node, v, lidar>>

\* A step that finds the plant running is an update_state.
update_state == ~is_paused /\ Update
step_callback == is_paused /\ Update
pause_callback ==
  /\ ~is_paused /\ is_paused' = TRUE
  /\ UNCHANGED <<map, state, vel, desired_input, is_colliding, map_received, cmd_vel, odom, node, v, lidar>>
reset_callback ==
  /\ state' = [x |-> 0, theta |-> 1] /\ desired_input' = Still
  /\ UNCHANGED <<map, vel, is_paused, is_colliding, map_received, cmd_vel, odom, node, v, lidar>>

(***************************************************************************)
(* The commanding node.  Its pose is that of the newest odometry, which    *)
(* ros::spinOnce takes at the start of every turn of its loop.             *)
(***************************************************************************)
Pose == IF odom = NoMsg THEN [x |-> 0, theta |-> 1] ELSE odom
Distance == IF Pose.x < Goal THEN Goal - Pose.x ELSE Pose.x - Goal
Ahead == (Goal - Pose.x) * Pose.theta > 0

\* limit(): no faster than the acceleration allows, and no faster than v_max.
limit(prev_v, input) ==
  LET ret == IF input > prev_v + 1 THEN prev_v + 1 ELSE IF input < prev_v - 1 THEN prev_v - 1 ELSE input
  IN IF ret > NodeMaxV THEN NodeMaxV ELSE ret

applyInput(speed, w) ==
  /\ v' = speed /\ cmd_vel' = [v |-> speed, w |-> w]
  /\ UNCHANGED <<map, plant, odom, node, lidar>>

\* The proportional controllers of the test, and its stop at the goal.
TestLoop ==
  /\ node = "test"
  /\ IF Distance = 0 THEN applyInput(0, 0)
     ELSE applyInput(v + (limit(v, Distance) - v), IF Ahead THEN 0 ELSE 1)

\* The newest acceleration is applied at every turn, from the first odometry on.
MpcLoop ==
  /\ node = "mpc" /\ odom # NoMsg
  /\ \E a \in -1 .. 1, w \in 0 .. 1 : v + a \in -FarthestV .. FarthestV /\ applyInput(v + a, w)

(***************************************************************************)
(* The lidar's loop: a scan from the last pose, the next pose, and the     *)
(* callbacks, which are skipped while there is no transform.               *)
(***************************************************************************)

\* Slip for ScansTrue: the error is updated before its second test.
WalkWithoutCopy(from, to) ==
  LET Abs(n) == IF n < 0 THEN -n ELSE n
      dx == Abs(to[1] - from[1])  dy == Abs(to[2] - from[2])
      sx == IF from[1] < to[1] THEN 1 ELSE -1
      sy == IF from[2] < to[2] THEN 1 ELSE -1
      at[k \in 0 .. 2 * RangeMax] ==
        IF k = 0 THEN [cell |-> from, err |-> IF dx > dy THEN dx \div 2 ELSE -(dy \div 2)]
        ELSE LET p == at[k - 1]
                 onX == p.err > -dx
                 mid == IF onX THEN p.err - dy ELSE p.err
                 onY == mid < dy
             IN [cell |-> <<p.cell[1] + (IF onX THEN sx ELSE 0), p.cell[2] + (IF onY THEN sy ELSE 0)>>,
                 err |-> mid + (IF onY THEN dx ELSE 0)]
  IN at

\* Bresenham's walk from a cell towards another, step by step.
Walk(from, to) ==
  LET Abs(n) == IF n < 0 THEN -n ELSE n
      dx == Abs(to[1] - from[1])  dy == Abs(to[2] - from[2])
      sx == IF from[1] < to[1] THEN 1 ELSE -1
      sy == IF from[2] < to[2] THEN 1 ELSE -1
      at[k \in 0 .. 2 * RangeMax] ==
        IF k = 0 THEN [cell |-> from, err |-> IF dx > dy THEN dx \div 2 ELSE -(dy \div 2)]
        ELSE LET p == at[k - 1]
                 onX == p.err > -dx  onY == p.err < dy
             IN [cell |-> <<p.cell[1] + (IF onX THEN sx ELSE 0), p.cell[2] + (IF onY THEN sy ELSE 0)>>,
                 err |-> p.err - (IF onX THEN dy ELSE 0) + (IF onY THEN dx ELSE 0)]
  IN at

OnMap(cell) == cell[1] \in 0 .. Width - 1 /\ cell[2] \in 0 .. Height - 1
Beams == {b \in (-RangeMax .. RangeMax) \X (-RangeMax .. RangeMax) : Max({b[1], -b[1], b[2], -b[2]}) = RangeMax}
range_max == RangeMax + 1
\* The step at which the ray meets an obstacle of the map; range_max if it leaves
\* the map or comes to its end before.
castRay(m, x, beam) ==
  LET at == Walk(<<x, Lane>>, <<x + beam[1], Lane + beam[2]>>)
      Ends(k) == ~OnMap(at[k].cell) \/ at[k].cell \in m \/ at[k].cell = <<x + beam[1], Lane + beam[2]>>
      last == Min({k \in 0 .. 2 * RangeMax : Ends(k)} \cup {2 * RangeMax})
  IN IF OnMap(at[last].cell) /\ at[last].cell \in m THEN last ELSE range_max

mapCallback == map_initialized' \in {map_initialized, TRUE}

\* A turn of the loop that finds the transform, and one that does not: the pose was
\* set to the frame's origin before.
LidarTurn ==
  /\ odom # NoMsg /\ lidar_pose' = odom.x /\ mapCallback
  /\ UNCHANGED <<map, plant, cmd_vel, odom, node, v>>
LidarWithoutTransform ==
  /\ odom = NoMsg /\ lidar_pose' = Origin
  /\ UNCHANGED <<map, plant, cmd_vel, odom, node, v, map_initialized>>

Plant == map_callback \/ cmd_vel_callback \/ update_state
Services == step_callback \/ pause_callback \/ reset_callback
Node == TestLoop \/ MpcLoop
Lidar == LidarTurn \/ LidarWithoutTransform
SimNext == Plant \/ Services \/ Node \/ Lidar
SimSpec ==
  SimInit /\ [][SimNext]_sim_vars
    /\ WF_sim_vars(cmd_vel_callback) /\ WF_sim_vars(update_state) /\ WF_sim_vars(Node)

-----------------------------------------------------------------------------
\* The robot keeps the command it had when it collides, and only the next one is
\* refused: while the node commands, whatever the services do, a robot that has
\* collided comes to rest for good, or is paused.
CollidingRests == is_colliding ~> (is_paused \/ [](vel = 0))

\* The cells half a cell from the beam at its k-th step.
NearBeam(x, beam, k) ==
  LET Off(step, n) == 2 * (step * RangeMax - k * n) \in -RangeMax .. RangeMax
  IN {c \in (x - RangeMax .. x + RangeMax) \X (Lane - RangeMax .. Lane + RangeMax) :
        Off(c[1] - x, beam[1]) /\ Off(c[2] - Lane, beam[2])}

\* A scan's range is that of an obstacle the beam passes, and no beam passes through
\* one: at each step before, a cell it passes is free or beyond the map.
MeetsFirst ==
  [m \in Maps |-> [x \in 0 .. Width - 1 |->
     \A beam \in Beams :
       LET hit == castRay(m, x, beam)
       IN /\ hit <= range_max
          /\ hit < range_max => NearBeam(x, beam, hit) \cap m # {}
          /\ \A k \in 0 .. hit - 1 : ~(k <= RangeMax /\ NearBeam(x, beam, k) \subseteq m)]]

\* So it is of every scan published: from the map on, which the loop cannot receive before
\* it has found the robot, none is cast from the origin where a failed turn leaves the pose.
ScansTrue ==
  map_initialized =>
    lidar_pose # Origin /\ (lidar_pose \in 0 .. Width - 1 => MeetsFirst[map][lidar_pose])
=============================================================================
