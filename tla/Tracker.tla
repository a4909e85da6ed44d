------------------------------- MODULE Tracker -------------------------------
(***************************************************************************)
(* JackalMPCROS (src/src/mpc/jackal_mpc_ros_trajectory_tracking.cpp): the  *)
(* node that follows the reference trajectory.                             *)
(*                                                                         *)
(* Two threads share velMsg with no lock.  One runs every callback, one    *)
(* after the other (AsyncSpinner(1)): the topics, the two services and     *)
(* the control timer.  The other, publishVel, publishes velMsg at 50 Hz    *)
(* and clamps velMsg.angular.z on its way.  A callback here is one step    *)
(* up to its two stores into velMsg, which are steps of their own; the     *)
(* publisher's loop is four: load, store, and the two reads of publish().  *)
(* A callback that asks the SAC service for the next change of alpha       *)
(* blocks the callback thread until the service answers.                   *)
(*                                                                         *)
(* Time advances in control periods and stops being counted once every     *)
(* trajectory is over (MaxElapsed).  A trajectory is reduced to its        *)
(* duration and to whether it has more than ten points; whether the robot  *)
(* faces it is an input of each control step.                              *)
(***************************************************************************)
EXTENDS Integers

CONSTANTS
  LaunchTypes,    \* the mpc_type values the node is launched with
  UseCbf,         \* _use_cbf
  UseVicon,       \* _use_vicon: which of the two odometry callbacks is subscribed
  Logging,        \* _logging (the constructor makes it false when _is_eval is set)
  IsEval,         \* _is_eval
  Trajectories,   \* the trajectories others publish: records [dur, long]
  MaxElapsed,     \* bound: longer than every trajectory; the clock stops there
  MaxVel, MaxAngVel, MaxLinStep, MaxAngStep, LinResults, AngResults,  \* see MPCCore
  AlignCmds,      \* _prop_gain * e for the heading errors above _prop_angle_thresh
  HalfAngVel,     \* _max_angvel/2, the publisher's clamp
  Poses,          \* the poses odometry reports
  InitAlpha, MinAlpha, MaxAlpha,  \* _cbf_alpha, _min_alpha, _max_alpha
  AlphaSteps,     \* alpha_dot * _dt as the SAC service answers it
  AlphaMsgs,      \* what is published on /alpha
  Collisions,     \* what is published on /collision
  Services        \* the services clients call: a subset of {"eStop", "switch_mode"}

NoTraj == [dur |-> 0, long |-> FALSE]   \* trajectory.points is empty
NoPose == -1                            \* no odometry so far
NoRow  == [prev |-> 0, curr |-> 0, done |-> FALSE]

ASSUME TrackerAssumption ==
  /\ UseCbf \in BOOLEAN /\ UseVicon \in BOOLEAN
  /\ Logging \in BOOLEAN /\ IsEval \in BOOLEAN /\ ~(Logging /\ IsEval)
  /\ MaxVel \in Nat /\ MaxAngVel \in Nat /\ MaxLinStep \in Nat /\ MaxAngStep \in Nat
  /\ LinResults \subseteq Int /\ AngResults \subseteq Int
  /\ MaxElapsed \in Nat
  /\ Trajectories \subseteq [dur : 1 .. MaxElapsed - 1, long : BOOLEAN]
  /\ HalfAngVel \in Nat /\ HalfAngVel <= MaxAngVel
  /\ AlignCmds \subseteq Int
  /\ Poses \subseteq Nat
  /\ MinAlpha \in Int /\ MaxAlpha \in Int /\ MinAlpha <= MaxAlpha
  /\ InitAlpha \in Int /\ AlphaSteps \subseteq Int /\ AlphaMsgs \subseteq Int
  /\ Collisions \subseteq BOOLEAN
  /\ Services \subseteq {"eStop", "switch_mode"}

VARIABLES
  \* members of JackalMPCROS the callbacks own
  alive,          \* the process runs: no invalid memory access so far
  is_init, estop, traj_reset, trajectory, pose, mpc_type, alpha,
  is_colliding, is_done, is_first_iter, prev_rl,
  elapsed,        \* now - start, start being the static local of cte_ctrl_loop
  \* the core: MPCCore's variables, and the inputs its setters keep
  core_type, curr_vel, curr_ang_vel, has_reference,
  core_pose, core_traj, core_alpha, core_map,
  \* shared with the publisher, and the two threads' positions
  vel_lin, vel_ang,   \* velMsg.linear.x, velMsg.angular.z
  cb,                 \* callback thread: "idle", "sac", or stores left to do
  todo,               \* those stores: values and which field comes first
  pub, reg_ang, reg_lin,  \* publisher: next access, and what it has loaded
  \* what the others see
  cmd_lin, cmd_ang,   \* the last /cmd_vel message
  row, rl_id,         \* the last row for the replay buffer; the state read last
  request             \* service calls not handled yet

Core == INSTANCE MPCCore

core_vars  == <<core_type, curr_vel, curr_ang_vel, has_reference>>
core_input == <<core_pose, core_traj, core_alpha, core_map>>
log_vars   == <<is_done, is_first_iter, prev_rl, row, rl_id>>
pub_vars   == <<pub, reg_ang, reg_lin, cmd_lin, cmd_ang>>
velMsg     == <<vel_lin, vel_ang>>
flags      == <<is_init, estop, traj_reset, is_colliding>>
vars == <<alive, flags, trajectory, pose, mpc_type, alpha, elapsed, core_vars, core_input,
          log_vars, velMsg, cb, todo, pub_vars, request>>

-----------------------------------------------------------------------------
(* The callback thread: what starts a callback, and what stores it leaves.  *)

Callback == alive /\ cb = "idle"

\* The callback's last act is to store lin and ang into velMsg, `first` first.
LeaveStores(first, lin, ang) ==
  /\ cb' = "store1"
  /\ todo' = [first |-> first, lin |-> lin, ang |-> ang]
  /\ UNCHANGED velMsg

NoStores == UNCHANGED <<velMsg, cb, todo>>

Store(field) ==
  /\ vel_lin' = IF field = "lin" THEN todo.lin ELSE vel_lin
  /\ vel_ang' = IF field = "ang" THEN todo.ang ELSE vel_ang

StoreFirst ==
  /\ alive /\ cb = "store1"
  /\ Store(todo.first)
  /\ cb' = "store2"
  /\ UNCHANGED <<alive, flags, trajectory, pose, mpc_type, alpha, elapsed, core_vars,
                 core_input, log_vars, todo, pub_vars, request>>

StoreSecond ==
  /\ alive /\ cb = "store2"
  /\ Store(IF todo.first = "lin" THEN "ang" ELSE "lin")
  /\ cb' = "idle"
  /\ UNCHANGED <<alive, flags, trajectory, pose, mpc_type, alpha, elapsed, core_vars,
                 core_input, log_vars, todo, pub_vars, request>>

\* An access through a null pointer or past an empty vector: the process is gone.
Crash ==
  /\ alive' = FALSE
  /\ UNCHANGED <<flags, trajectory, pose, mpc_type, alpha, elapsed, core_vars, core_input,
                 log_vars, velMsg, cb, todo, pub_vars, request>>

-----------------------------------------------------------------------------
(* Services.  Both callbacks zero velMsg; the emergency stop is a toggle.    *)

Call(s) ==
  /\ alive /\ s \notin request
  /\ request' = request \cup {s}
  /\ UNCHANGED <<alive, flags, trajectory, pose, mpc_type, alpha, elapsed, core_vars,
                 core_input, log_vars, velMsg, cb, todo, pub_vars>>

\* A slip: the stop is engaged and the speed left to whatever stores next.
eStopKeepsSpeed ==
  /\ Callback /\ "eStop" \in request
  /\ request' = request \ {"eStop"}
  /\ NoStores
  /\ trajectory' = NoTraj
  /\ estop' = ~estop
  /\ UNCHANGED <<alive, is_init, traj_reset, is_colliding, pose, mpc_type, alpha, elapsed,
                 core_vars, core_input, log_vars, pub_vars>>

eStopcb ==
  /\ Callback /\ "eStop" \in request
  /\ request' = request \ {"eStop"}
  /\ LeaveStores("lin", 0, 0)
  /\ trajectory' = NoTraj
  /\ estop' = ~estop
  /\ UNCHANGED <<alive, is_init, traj_reset, is_colliding, pose, mpc_type, alpha, elapsed,
                 core_vars, core_input, log_vars, pub_vars>>

\* Only the node's own type changes: JackalMPCCore::set_mpc_type is not called.
mode_switchcb ==
  /\ Callback /\ "switch_mode" \in request
  /\ request' = request \ {"switch_mode"}
  /\ mpc_type' = IF mpc_type = "track_vel_ipopt" THEN "track_acc_ipopt"
                                                 ELSE "track_vel_ipopt"
  /\ LeaveStores("lin", 0, 0)
  /\ UNCHANGED <<alive, flags, trajectory, pose, alpha, elapsed, core_vars, core_input,
                 log_vars, pub_vars>>

-----------------------------------------------------------------------------
(* Topics.                                                                  *)

\* odomcb, or viconcb when _use_vicon: the latter does not call _mpc_core->set_odom.
odomcb(p) ==
  /\ Callback
  /\ pose' = p
  /\ core_pose' = IF UseVicon THEN core_pose ELSE p
  /\ is_init' = TRUE
  /\ NoStores
  /\ UNCHANGED <<alive, estop, traj_reset, is_colliding, trajectory, mpc_type, alpha, elapsed,
                 core_vars, core_traj, core_alpha, core_map, log_vars, pub_vars, request>>

ReceiveTrajectory(tr, reset) ==
  /\ Callback
  /\ trajectory' = tr
  /\ core_traj' = tr
  /\ traj_reset' = (reset \/ traj_reset)
  /\ NoStores
  /\ UNCHANGED <<alive, is_init, estop, is_colliding, pose, mpc_type, alpha, elapsed,
                 core_vars, core_pose, core_alpha, core_map, log_vars, pub_vars, request>>
trajectorycb(tr) == ReceiveTrajectory(tr, TRUE)
trajectoryNoResetcb(tr) == ReceiveTrajectory(tr, FALSE)

\* alphacb: the value is taken as it comes, and the parameters reloaded.
alphacb(a) ==
  /\ Callback
  /\ alpha' = a
  /\ core_alpha' = a
  /\ NoStores
  /\ UNCHANGED <<alive, flags, trajectory, pose, mpc_type, elapsed, core_vars, core_pose,
                 core_traj, core_map, log_vars, pub_vars, request>>

distmapcb ==
  /\ Callback
  /\ core_map' = TRUE
  /\ NoStores
  /\ UNCHANGED <<alive, flags, trajectory, pose, mpc_type, alpha, elapsed, core_vars, core_pose,
                 core_traj, core_alpha, log_vars, pub_vars, request>>

collisioncb(c) ==
  /\ Callback
  /\ is_colliding' = c
  /\ NoStores
  /\ UNCHANGED <<alive, is_init, estop, traj_reset, trajectory, pose, mpc_type, alpha, elapsed,
                 core_vars, core_input, log_vars, pub_vars, request>>

-----------------------------------------------------------------------------
(* The control timer: controlLoop, and cte_ctrl_loop which it calls.        *)

\* controlLoop considers turning on the spot first.
MayAlign == trajectory.long /\ traj_reset

\* It reads _odom(THETAI) to do so, and _odom is empty before the first odometry.
AlignWithoutOdom == Callback /\ MayAlign /\ ~is_init /\ Crash

\* The heading error is above _prop_angle_thresh: turn, whatever _estop says.
Align(w) ==
  /\ Callback /\ MayAlign /\ is_init
  /\ LeaveStores("lin", 0, w)
  /\ UNCHANGED <<alive, flags, trajectory, pose, mpc_type, alpha, elapsed, core_vars,
                 core_input, log_vars, pub_vars, request>>

\* Otherwise cte_ctrl_loop runs.
CteCalled == Callback /\ (MayAlign => is_init)

CteDisabled ==
  /\ CteCalled /\ (~is_init \/ estop)
  /\ UNCHANGED vars

\* A slip: _estop is not looked at.
CteIgnoresEStop == CteCalled /\ is_init

CteRuns == CteCalled /\ is_init /\ ~estop

\* A slip: start is set at every step.
timeRestarted == 0

\* With traj_reset set, the trajectory starts now.
time == IF traj_reset THEN 0 ELSE elapsed

CteNoTrajectory ==
  /\ CteRuns /\ trajectory = NoTraj
  /\ elapsed' = time
  /\ traj_reset' = FALSE
  /\ NoStores
  /\ UNCHANGED <<alive, is_init, estop, is_colliding, trajectory, pose, mpc_type, alpha,
                 core_vars, core_input, log_vars, pub_vars, request>>

CteTrajectoryDone ==
  /\ CteRuns /\ trajectory # NoTraj /\ time > trajectory.dur
  /\ trajectory' = NoTraj
  /\ traj_reset' = FALSE
  /\ elapsed' = time
  /\ LeaveStores("lin", 0, 0)
  /\ UNCHANGED <<alive, is_init, estop, is_colliding, pose, mpc_type, alpha, core_vars,
                 core_input, log_vars, pub_vars, request>>

CteTracks == CteRuns /\ trajectory # NoTraj /\ time <= trajectory.dur

AsksSAC == mpc_type = "track_acc_nlopt" /\ (Logging \/ IsEval)

\* The core looks at the distance map: CBFHorizon always does (get_state, and Solve
\* before it tests the pointer), MPC_ACC when the barrier is on.
NeedsMap ==
  \/ core_type = "track_acc_nlopt"
  \/ core_type = "track_acc_ipopt" /\ UseCbf

CteWithoutMap == CteTracks /\ NeedsMap /\ ~core_map /\ Crash

\* The learning state read when the last solve was over.
fresh_rl == (rl_id + 1) % 3

Learns == mpc_type = "track_acc_nlopt" /\ Logging

\* The state is read (keep: and kept for the next row), a row is written if `logs`,
\* and a collision is reported on /mpc_done (latch: once and for all).
Record(logs, keep, latch) ==
  LET reads == Learns /\ (is_first_iter \/ logs)
      done  == is_done \/ is_colliding
  IN /\ rl_id' = IF reads THEN fresh_rl ELSE rl_id
     /\ prev_rl' = IF reads /\ keep THEN fresh_rl ELSE prev_rl
     /\ row' = IF logs THEN [prev |-> prev_rl, curr |-> fresh_rl, done |-> done] ELSE row
     /\ is_done' = IF latch THEN done ELSE is_colliding
     /\ is_first_iter' = FALSE

\* Slips: the state of a row is not kept as the start of the next; the report follows the
\* collision topic.
LogForgetsState == Record(Learns /\ ~is_first_iter /\ ~is_done, is_first_iter, TRUE)
LogUnlatched == Record(Learns /\ ~is_first_iter /\ ~is_done, TRUE, FALSE)

\* After a solve.  The first iteration only fills prev_rl; after a done row there are
\* no more.
LogTransition == Record(Learns /\ ~is_first_iter /\ ~is_done, TRUE, TRUE)

\* A slip: the speed wanted is stored, not the one limit and clamp allow.
CommandWanted ==
  \E lin \in LinResults, ang \in AngResults, overrun \in BOOLEAN :
    /\ curr_vel' = Core!nextVel(lin, overrun)
    /\ curr_ang_vel' = Core!nextAngVel(ang, overrun)
    /\ has_reference' = TRUE
    /\ UNCHANGED core_type
    /\ LeaveStores("ang", Core!wantedVel(lin, overrun), curr_ang_vel')
    /\ LogTransition

\* set_reference, solve, the stores of its result (angular first), and the log.
SolveAndCommand ==
  \E lin \in LinResults, ang \in AngResults, overrun \in BOOLEAN :
    /\ curr_vel' = Core!nextVel(lin, overrun)
    /\ curr_ang_vel' = Core!nextAngVel(ang, overrun)
    /\ has_reference' = TRUE
    /\ UNCHANGED core_type
    /\ LeaveStores("ang", curr_vel', curr_ang_vel')
    /\ LogTransition

CteSolve ==
  /\ CteTracks /\ (NeedsMap => core_map) /\ ~AsksSAC
  /\ elapsed' = time
  /\ traj_reset' = FALSE
  /\ SolveAndCommand
  /\ UNCHANGED <<alive, is_init, estop, is_colliding, trajectory, pose, mpc_type, alpha,
                 core_input, pub_vars, request>>

\* The SAC service is asked for alpha_dot, and the thread waits.
CteAskSAC ==
  /\ CteTracks /\ core_map /\ AsksSAC
  /\ elapsed' = time
  /\ traj_reset' = FALSE
  /\ cb' = "sac"
  /\ UNCHANGED <<alive, is_init, estop, is_colliding, trajectory, pose, mpc_type, alpha,
                 core_vars, core_input, log_vars, velMsg, todo, pub_vars, request>>

\* It answers: alpha moves and is clipped, whether response.success is set or not.
SACAnswers(step) ==
  /\ alive /\ cb = "sac"
  /\ alpha' = LET a == alpha + step
              IN IF a < MinAlpha THEN MinAlpha ELSE IF a > MaxAlpha THEN MaxAlpha ELSE a
  /\ core_alpha' = alpha'
  /\ SolveAndCommand
  /\ UNCHANGED <<alive, flags, trajectory, pose, mpc_type, elapsed, core_pose, core_traj,
                 core_map, pub_vars, request>>

\* The call fails: cte_ctrl_loop returns and velMsg stays what it was.
SACFails ==
  /\ alive /\ cb = "sac"
  /\ cb' = "idle"
  /\ UNCHANGED <<alive, flags, trajectory, pose, mpc_type, alpha, elapsed, core_vars,
                 core_input, log_vars, velMsg, todo, pub_vars, request>>

-----------------------------------------------------------------------------
(* The publisher thread, publishVel.                                        *)

\* std::max(-_max_angvel/2, std::min(_max_angvel/2, w)).
publisherClamp(w) == Core!clamp(w, HalfAngVel)

PubKeeps == UNCHANGED <<alive, flags, trajectory, pose, mpc_type, alpha, elapsed, core_vars,
                        core_input, log_vars, cb, todo, request, vel_lin>>

PubLoad ==
  /\ alive /\ pub = "load"
  /\ reg_ang' = vel_ang
  /\ pub' = "store"
  /\ PubKeeps /\ UNCHANGED <<vel_ang, reg_lin, cmd_lin, cmd_ang>>

PubStore ==
  /\ alive /\ pub = "store"
  /\ vel_ang' = publisherClamp(reg_ang)
  /\ pub' = "linear"
  /\ PubKeeps /\ UNCHANGED <<reg_ang, reg_lin, cmd_lin, cmd_ang>>

PubReadLinear ==
  /\ alive /\ pub = "linear"
  /\ reg_lin' = vel_lin
  /\ pub' = "angular"
  /\ PubKeeps /\ UNCHANGED <<vel_ang, reg_ang, cmd_lin, cmd_ang>>

PubReadAngular ==
  /\ alive /\ pub = "angular"
  /\ cmd_lin' = reg_lin
  /\ cmd_ang' = vel_ang
  /\ pub' = "load"
  /\ PubKeeps /\ UNCHANGED <<vel_ang, reg_ang, reg_lin>>

-----------------------------------------------------------------------------

\* A control period passes, at any time: callbacks may be late.
Clock ==
  /\ alive /\ elapsed < MaxElapsed
  /\ elapsed' = elapsed + 1
  /\ UNCHANGED <<alive, flags, trajectory, pose, mpc_type, alpha, core_vars, core_input,
                 log_vars, velMsg, cb, todo, pub_vars, request>>

\* start is 0 before it is first set: the trajectory clock starts far past the end.
Init ==
  /\ alive = TRUE
  /\ is_init = FALSE /\ estop = FALSE /\ traj_reset = FALSE /\ is_colliding = FALSE
  /\ trajectory = NoTraj /\ pose = NoPose
  /\ mpc_type \in LaunchTypes
  /\ alpha = InitAlpha
  /\ elapsed = MaxElapsed
  /\ Core!Init /\ core_type = mpc_type
  /\ core_pose = NoPose /\ core_traj = NoTraj /\ core_alpha = InitAlpha /\ core_map = FALSE
  /\ is_done = FALSE /\ is_first_iter = TRUE /\ prev_rl = 0 /\ row = NoRow /\ rl_id = 0
  /\ vel_lin = 0 /\ vel_ang = 0
  /\ cb = "idle" /\ todo = [first |-> "lin", lin |-> 0, ang |-> 0]
  /\ pub = "load" /\ reg_ang = 0 /\ reg_lin = 0 /\ cmd_lin = 0 /\ cmd_ang = 0
  /\ request = {}

ControlLoop ==
  \/ AlignWithoutOdom
  \/ \E w \in AlignCmds : Align(w)
  \/ CteDisabled
  \/ CteNoTrajectory
  \/ CteTrajectoryDone
  \/ CteWithoutMap
  \/ CteSolve
  \/ CteAskSAC

SACReply == SACFails \/ \E step \in AlphaSteps : SACAnswers(step)

Topics ==
  \/ \E p \in Poses : odomcb(p)
  \/ \E tr \in Trajectories : trajectorycb(tr)
  \/ \E tr \in Trajectories : trajectoryNoResetcb(tr)
  \/ \E a \in AlphaMsgs : alphacb(a)
  \/ distmapcb
  \/ \E c \in Collisions : collisioncb(c)

CallbackThread ==
  Topics \/ eStopcb \/ mode_switchcb \/ ControlLoop \/ SACReply \/ StoreFirst \/ StoreSecond

publishVel == PubLoad \/ PubStore \/ PubReadLinear \/ PubReadAngular

Next ==
  \/ CallbackThread
  \/ publishVel
  \/ Clock
  \/ \E s \in Services : Call(s)

Spec == Init /\ [][Next]_vars

(***************************************************************************)
(* Fairness.  The operating system runs both threads.  The callback queue  *)
(* is first in, first out, so a service call, the control timer and the    *)
(* rest of a callback in progress are not passed over for ever (strong     *)
(* fairness: other callbacks disable them in between).  A service call     *)
(* returns, with an answer or an error.  Topics are under no obligation.   *)
(***************************************************************************)
Fairness ==
  /\ WF_vars(PubLoad) /\ WF_vars(PubStore) /\ WF_vars(PubReadLinear) /\ WF_vars(PubReadAngular)
  /\ WF_vars(StoreFirst) /\ WF_vars(StoreSecond)
  /\ WF_vars(SACReply)
  /\ SF_vars(eStopcb) /\ SF_vars(mode_switchcb) /\ SF_vars(ControlLoop)
  /\ WF_vars(Clock)

FairSpec == Spec /\ Fairness

-----------------------------------------------------------------------------
(* Properties.                                                              *)

TrajectoryOrNone == Trajectories \cup {NoTraj}

FlagsOK ==
  /\ alive \in BOOLEAN /\ is_init \in BOOLEAN /\ estop \in BOOLEAN
  /\ traj_reset \in BOOLEAN /\ is_colliding \in BOOLEAN
NodeOK ==
  /\ trajectory \in TrajectoryOrNone /\ pose \in Poses \cup {NoPose}
  /\ mpc_type \in Core!MpcTypes /\ alpha \in Int /\ elapsed \in 0 .. MaxElapsed
  /\ request \in SUBSET {"eStop", "switch_mode"}
CoreOK ==
  /\ core_type \in Core!MpcTypes
  /\ curr_vel \in Int /\ curr_ang_vel \in Int /\ has_reference \in BOOLEAN
  /\ core_pose \in Poses \cup {NoPose} /\ core_traj \in TrajectoryOrNone
  /\ core_alpha \in Int /\ core_map \in BOOLEAN
LogOK ==
  /\ is_done \in BOOLEAN /\ is_first_iter \in BOOLEAN
  /\ prev_rl \in 0 .. 2 /\ rl_id \in 0 .. 2
  /\ row \in [prev : 0 .. 2, curr : 0 .. 2, done : BOOLEAN]
VelOK ==
  /\ vel_lin \in Int /\ vel_ang \in Int
  /\ cb \in {"idle", "sac", "store1", "store2"}
  /\ todo \in [first : {"lin", "ang"}, lin : Int, ang : Int]
PubOK ==
  /\ pub \in {"load", "store", "linear", "angular"}
  /\ reg_ang \in Int /\ reg_lin \in Int /\ cmd_lin \in Int /\ cmd_ang \in Int

\* Every variable keeps its type.
TypeOK == FlagsOK /\ NodeOK /\ CoreOK /\ LogOK /\ VelOK /\ PubOK

\* While the emergency stop is engaged no callback leaves a linear speed in velMsg:
\* not the trajectory that was being solved for, not one that arrives meanwhile, not
\* the alignment to it, which does not look at _estop.
EStopNoTranslation == (estop /\ cb = "idle") => vel_lin = 0

\* With no trajectory left the node commands no linear speed: it was zeroed when the
\* trajectory ended or was dropped, and a failed SAC call, which leaves velMsg as it
\* was, only happens while there is one.
NoTrajectoryNoTranslation == (trajectory = NoTraj /\ cb = "idle") => vel_lin = 0

\* The linear speed in velMsg is zero or the speed the core holds: after stops, mode
\* switches, failed calls and late stores the robot never keeps an older solution.
LinearFromCore == cb = "idle" => vel_lin \in {0, curr_vel}

\* What is published is inside the limits of the core, or an alignment command.  The
\* publisher's own clamp to _max_angvel/2 is no such bound: a callback may store
\* between it and the read of publish().
CommandWithinLimits ==
  /\ cmd_lin \in -MaxVel .. MaxVel
  /\ cmd_ang \in (-MaxAngVel .. MaxAngVel) \cup AlignCmds

\* The core solves with the pose, trajectory and alpha of the node: each callback that
\* changes one of them passes it on.  (viconcb does not, see README.)
CoreInSync ==
  ~UseVicon => /\ core_pose = pose
               /\ core_alpha = alpha
               /\ trajectory # NoTraj => core_traj = trajectory

\* A row of the replay buffer starts in the state the row before it ended in, across
\* trajectories, stops and failed service calls.
RowsChain == [][row # NoRow /\ row' # row => row'.prev = row.curr]_vars

\* "we don't want to log if already reported an is_done state" (line 653): no row follows
\* the report, nor the row that says done, whichever collision or end of a trajectory it was.
NoRowAfterDone == [][row.done \/ is_done => row' = row]_vars

\* An emergency stop call is served: velMsg's linear speed becomes zero, even when the
\* callback thread waits for the SAC service or is solving.
EStopServed == ("eStop" \in request) ~> (vel_lin = 0 \/ ~alive)

\* A trajectory that has started ends, unless it is replaced by one with a time reset:
\* also when every SAC call fails.
TrajectoryEnds ==
  (trajectory # NoTraj /\ is_init /\ ~traj_reset)
     ~> (trajectory = NoTraj \/ traj_reset \/ estop \/ ~alive)

-----------------------------------------------------------------------------
(* What the code's own words say and the code does not do; see README.      *)

\* "If trajectory is done, stop" (line 549): with no trajectory the robot is not told
\* to turn.
StopsTurning == (trajectory = NoTraj /\ cb = "idle") => vel_ang = 0
=============================================================================
