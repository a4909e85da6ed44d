# Verification of cbf_tracking

TLA+ models of the navigation stack in this repository, the TLC runs that check them, and
TLAPS proofs about them. Paths are relative to the repository.

## 1. The system

A robot is driven along trajectories: a **planner node** makes them, a **tracker node**
follows them with a model predictive controller (MPC) and a control barrier function (CBF),
a **SAC model server** tunes the barrier's gain while the tracker drives, and a **logger**
stores one row per control step for **training**, which runs all of these against a
**simulator**.

```
 goal, odometry, costmap          odometry, distance map, collision, alpha
        |                                   |
   planner node  --/reference_trajectory--> tracker node --/cmd_vel (50 Hz thread)--> robot
        ^                                   |    |   \
        +------------/mpc_horizon-----------+    |    +--/query_sac--> model server
                                                 +--rows--> logging node --> SQLite
```

### 1.1 Components

| Component | State | Operations | Hard behaviour | What makes it correct |
|---|---|---|---|---|
| MPC core `src/mpc/mpc_core.cpp` | mode, current speeds, reference, the optimiser's answer | setters, `solve` in four modes, `getHorizon` | an optimiser that answers late, limits applied in sequence | speeds within limits and rates |
| Optimisers `jackal_mpc_acceleration.cpp`, `jackal_mpc_trajectory_tracking.cpp`, `filter_nlopt_horizon.cpp`, `mpc_nlopt.cpp`, `jackal_mpc_pos.cpp` | last horizon, last solution, map | `Solve`, `LoadParams`, `set_dist_map` | index arithmetic written three times per class; warm starts; failures | every equation its row, every variable its limits, warm starts of the right values |
| CBF safety filters `src/filter/safety_filter_*.cpp`, `filter_nlopt.cpp` | limits, map, wanted input | `filter`, `Solve`, `load_params`, `set_dist_map` | the same index arithmetic once more; a guess at the edge of its limits; exceptions | rows, limits and reads where the class means them; an answer beyond the limits has a known cause |
| Tracker node `jackal_mpc_ros_trajectory_tracking.cpp` | trajectory, stop flag, clock, pose, mode, `velMsg`, replay buffer state | topic callbacks, two services, control timer, publisher thread | two threads share `velMsg` unlocked; a blocking service call; toggling stop | a stopped robot stays stopped, commands within limits, replay rows form a chain, trajectories end |
| Planner node `planner_gurobi.cpp` | goal, pose, sent trajectory, MPC horizon, failure count, planning horizon, last path | goal, odometry and horizon callbacks, control timer with `plan` | state of three callbacks used several plans later; planning time against lookahead | goals are not forgotten, trajectories join without a jump |
| Planner core `planner_core.cpp`, `corridor.h` | start, goal, grid, path, corridor | `plan` | two cuts of the path; unsigned loops over the corridor | path and corridor fit start, goal and known cells |
| Trajectory solver `solver.cpp` | optimisation model, vectors of its constraints, time spent | `genNewTraj`, `fillX` | attempts share a time limit; a model that outlives the plan | time limit kept, the present problem solved, samples where constraints hold |
| Jump point search `JPS.cpp` | queue, closed cells, parents | `JPS`, `getPath`, `truncateJPS` | cells closed in one direction and needed in another, parents improved late, reads off the map's edge, erasing while walking | a path through free cells where the search comes to the destination (it may fail to, `NoPathMissed`), simplified without touching obstacles |
| Grid utilities `map_util.h`, `utils.h` | grid | conversions, ray casting | rounding at edges | rays stop where they should |
| Threadsafe queue `amrl_logging/libs/threadsafe_queue` | linked list, two mutexes, counter | `push`, `pop`, `empty`, `size` | two locks, counter outside them | linearizable FIFO, no deadlock |
| Logger `amrl_logging` | buffers and handlers by table, database | services start, stop, check, drop; topic callback; logging thread; client functions | messages in transit, thread start and join races, drops under a client, node restart | rows in order and once, rows seen to leave the buffer are logged, calls return |
| Training loop, model server `train/` | child processes, parameters, results, model file | trials, the stages of the script, `/query_sac` | processes die, exceptions anywhere, limits in simulated time | no process left, learning from logged trials only, loops end |
| Simulators `src/sim` | pose, speed, newest messages | plant, commanding nodes, lidar | collision against the command in force, callbacks skipped | a collided robot stops, scans are true |
| Maps, bindings `src/utils`, `py_*.cpp` | - | - | - | - |
| Vendored code `third_party`, `include/gcopter`, `include/faster` | - | - | - | - |

### 1.2 Interactions

* Planner to tracker: `/reference_trajectory` (the clock restarts) and
  `/reference_trajectory_no_reset`; back: `/mpc_horizon`. Both nodes run their callbacks on
  one spinner thread, so callbacks are atomic towards each other. The tracker has a second
  thread, the publisher.
* Tracker to model server: a synchronous service call inside the control timer.
* Tracker to logger: two services, then messages on a topic; at the end `logging_finish`
  polls `buff_check` until the buffer is empty and calls `stop_log`.
* Logging node: `ros::spin` in the main thread, a logging thread per table, the queue
  between them.
* Training to everything: it starts and stops the processes and sets the parameters they
  read when they start.

The hazards of each are in PROJECT.json, at the line where they bite, with the properties
that would catch them.

## 2. Modules and the code they model

Every slip in the modules (comments "A slip") is a plausible mistake that a mutant puts in
place of the definition after it.

### MPCCore — `mpc_core.cpp`

Speeds are integers; `MaxLinStep` is `_max_linacc * _dt`. The optimiser's answer is an input
(any of `LinResults`, `AngResults`, in time or late). `solve` is the whole function in its
four modes: what the mode wants, `limit`, `clamp`. `set_mpc_type` has an empty body in the
code and changes nothing here. `set_reference_list` is the overload for Python: a list with
fewer than six values leaves a reference without columns, which is none. That a reference has
a column for each step of the horizon is assumed, as the tracker makes it so.

### Optimisers, OtherSolves, SafetyFilters, ControlLoop — the solver classes and filters

**Optimisers** holds the index arithmetic: how each class lays its variables out, which limits
it gives them, in which rows it writes its equations. Each function of it is the code's
formula over `N`, the horizon's length. **OtherSolves** has the same for the `Solve`s nobody
calls, and what they would keep and answer (`OthersAnswer`): `MPC::Solve(state)` answers with
values beyond its solution, `MPCNLOPT::Solve` answers zeros when it fails at once, and the
finite differences of `Solve_gtg` have no gradient for the inputs. **SafetyFilters** is the
same arithmetic of the two `SafetyFilterUnicycle` classes, and `CBFFilterNLOPT`: its limits,
its guess, the gradients it gives NLOPT (a quadratic objective and a barrier that is affine in
the inputs) and the ways to its answer. No node calls them; the last is for Python.
**ControlLoop** composes them with MPCCore: `solve` calls the optimiser, whose solution is the
vector whose element `j` is called `j`, so that a kept value tells where it was taken from. The
horizon is kept by cell for the publisher and the next warm start; maps and parameters come at
any time; an optimiser may fail, and what each class does then (zeros, `exit(0)`, keeping what
it had) is its own. Accesses outside a vector end the model.

### Tracker — `jackal_mpc_ros_trajectory_tracking.cpp` (with MPCCore as an instance)

A callback is one step up to its two stores into `velMsg`, which are steps of their own
(`StoreFirst`, `StoreSecond`); the publisher's loop has four: load and store of the clamp, two
reads of `publish`. The control timer is split by its branches: aligning on the spot, disabled,
no trajectory, trajectory over, solving, asking the SAC service (the thread then waits in
`sac`). A dereference of a missing map or pose ends the process (`Crash`). Time is counted in
control periods and stops counting when every trajectory is over. `viconcb` and `odomcb` are
alternatives (`UseVicon`).

### ThreadsafeQueue, Fifo — `ThreadsafeQueue.hpp`

The list's nodes are numbered in the order they are linked; the sentinel is number `tail`.
Each operation is split at its lock, its critical section and the counter's change after the
lock is released. `Fifo` is what the queue promises; `ImplementsFifo` is the refinement with
`items`, the nodes from `head` to `tail`. Popping is two abstract operations, one that takes
an item and one that finds the queue empty.

### Logger — `sqlite_node.cpp`, `DataHandler.cpp`, `SqliteTable.cpp`, `SqliteDatabase.cpp`, `util.cpp`

One table, one client that logs, and others that start, stop and drop the table, kill the
node or start it again (`Others`). The database outlives the node, and its table may have
other columns than the client's. The buffer is the abstract queue with its counter a step
behind, which is what ThreadsafeQueue shows of it. `Connect` is ROS connecting publisher and
subscriber, `wire` the queues between them, which drop their oldest message at `QueueSize`.
The service handlers are split where they join the thread. The tracker calls `logging_finish`
from its destructor, after ROS has shut down: then every call fails.

### Stitching — `PlannerROS::plan`'s index and time arithmetic, `evalTraj`

Time in ticks (.05 s in the run). A sample has a time and a phase (how far along the motion it
is); in an unchanged scene a plan from a sample is the rest of the same motion, so a jump at a
seam is a phase difference that is not the time difference. `InitialInds` (exact time),
`TrajInd` and `StartInd` (times rounded to .1 s) are the code's three indices; `Reference` is
what `evalTraj` reads from the result. It is the case without an MPC horizon, and it is the
abstract specification of Replanning: a plan takes at most `PlanTime`.

Each index is a quotient of two doubles, truncated. Where the time is a whole number of periods
the quotient may come out a little less: `(int)(.3 / .05)` is 5, `(int)(.6 / .05)` is 11,
`(int)(.3 / .1)` is 2, while .1 and .2 are divided evenly. A rounded time is one of the tenths,
so that which of them fall short is known: `Short` is their set, a constant (of the
theorems it asks nothing but that they are times and that the rounded lookahead is none of
them). The time of `InitialInds` is not rounded, its last digits are the clock's, and either
index may come out.

### Solver, Splines, Corridor, Replanning — `solver.cpp`, `planner_core.cpp`, `corridor.h`

**Solver** is `genNewTraj`: attempt after attempt with longer segments, the time that is left
handed to each, the constraints that stay in the model with the vectors that know them, the
duration of a segment and how many samples there are. **Splines** is what its solutions are:
cubics joined in position, velocity and acceleration, along one axis, their control points
(what the corridor constrains) and their reparameterisation by arc length. Lengths are sums of
ten or eleven speeds a segment (`LastTenths`, which is up to floating point in the code) and
exact: the code lets a segment come to a point that is at most .001 m beyond it. **Corridor**
is the convex cover of a path, known by which polytopes overlap, and `shortCut`.
**Replanning** composes the three with Stitching: `plan` goes through its stages while the
trajectory sent is driven, any of them may fail, and each failure leaves what the code leaves.

### PlannerNode — `planner_gurobi.cpp`

The callbacks, the guard of `controlLoop`, the three sources of a plan's initial state, what
is kept before it, the failsafe and the planning horizon's shrinking (`notches`). A trajectory
is described by where it leads, what it starts from, whether at rest, and what is kept.
`Planner::plan` succeeds or fails as it likes; with `jps_hysteresis` it may return the last
path, and if that is cut to the horizon, its end replaces the goal. `_planned` is
`sentTraj # NoTrajectory`, as both change together. The failure count saturates at
`Failsafe`: the code only compares it with that. The horizon's shrinking stops at `MaxNotches`,
the code's does not.

### JPS, PlannerPath — `JPS.cpp`, `map_util.h`, the first half of `Planner::plan`

**JPS** is the search and the path read from it. A cell is a pair; the map is the set of
*indices* that hold `occupied_val`, since the code reads it by index and looks one column or
row too far at the edges: what it finds there is the next row's cell, or memory, which the
model takes to be free or occupied. The priority queue is a bag of which any node with the
least estimate may be popped (`std::priority_queue` promises no order among equals). One call
of `explore_straight` is one step; `explore_diagonal` is a step per turn of its loop, each
followed by its two straight explorations (`straight` holds the calls to come). The parents
are read in `Trace`; `SimplifyTwice` is the two calls of `simplifyPath`, whose comparison of
Euclidean lengths is decided exactly, except that the rounding of a slanted segment's length
may go either way when the three points are in line; `Prune` is a turn of the pruning loop,
which erases `ret.begin () + i` as the code does.

The reference for the search is reachability by single steps to free neighbours
(`Reachable`). Paths are not always the shortest: the file's own comment says that the
Manhattan estimate does not give an optimal solution always (`src/planner/JPS.cpp:55`), and no
property claims it.

**PlannerPath** goes on from it in world coordinates, quarters of a cell: the choice between
the new path and the last one (`ChoosePath`), the end of the path at the first unknown cell a
ray looks at (`getJPSInFree`, by `raycast` and `bresenham` as `map_util.h` has them), and its
end at the horizon, which becomes the goal (`truncateJPS`). The horizon may end in any
segment. Lethal cells are taken to lie within inscribed ones. Start, goal and the kept path lie
on the map (`JPSAssumption`, `PlannerPathAssumption`): `world_to_map` throws for a point that
does not, and what becomes of that exception is not modelled. `RouteFits` excepts by name what the code does not
keep: simplified paths' ends, kept paths, paths cut by getPath's limit. `params/planner.yaml`
sets `simplify_jps`; what is promised there is `SimplifiedIsFree`, of the path before pruning,
and of `RouteFits` the parts that do not speak of the ends.

### Training — `gazebo_run.py`, `gazebo_simulation.py`, `model_server.py`

The script's stages with their trials: each process's start in two steps (`Popen`, then the
global that knows it), the loop that resets the robot, turn by turn, where a reset may fail
and leave the robot where the world put it, the waiting and the navigation loop over the values
they read in the turn before, the row, the end of the processes, the update of the policy, the next trial or
stage. An uncaught exception or an interrupt may come at any step. The simulator and the
planner may die. The trainer itself is not in the repository; of it only the saving of the
model file is there.

### Simulator — `unicycle_sim.cpp`, the two `jackal_extended_unicycle` nodes, `lidar_simulator.cpp`

The plane is a grid and the robot drives along one row of it. The plant's callbacks, its timer
and its services, a node that commands it (either of the two), and the lidar's loop with
its ray walk are interleaved; topics keep the newest message.

## 3. Runs

Every property of a passing run has a mutant, a change of a mapped definition that makes it
fail (PROJECT.json, `mutants`).

| Run | Shows | Bounds, and why they are enough |
|---|---|---|
| `control_loop` | `SpeedsWithinLimits`, `RateLimited` through every optimiser's answers and failures; `EquationsOwnRows`; `WarmStartAligned`; `AnswerHeadsHorizon` up to the message the planner reads; `StopsForKnownCauses`, the complete list of how the loop leaves defined behaviour | limits 5 and 4, steps 2 and 3: the clamp cuts a rate-limited step short, both signs. Horizons of 2 to 4 steps: with 2 no change of input is weighed, from 3 on every kind of cell occurs more than once |
| `tracker_motion` | emergency stop, end of trajectory, mode switch against the publisher: `EStopNoTranslation`, `LinearFromCore`, `CommandWithinLimits` | one forward speed, turns inside and beyond the publisher's clamp, an alignment beyond `w_max` (`prop_gain` .8 times pi is 2.5, `w_max` 1.8); trajectories short and long (aligning needs more than ten points) |
| `tracker_learning` | the replay buffer: `RowsChain`, `NoRowAfterDone`; progress: `EStopServed`, `TrajectoryEnds` | states read are numbered modulo 3, enough to tell the last from the one before and the next; a SAC service that may fail every time |
| `queue_fifo` | refinement of Fifo, no deadlock, exact accounting of the counter | three threads, each free to push, pop or ask; the list gets as long as two, and one and none are the cases where its ends meet |
| `logger` | `RowsInOrder`, `CheckedRowsLogged`, `FinishReturns` while others start, stop and drop the table and the node dies and comes back | three rows over a topic queue of two, so that it overflows |
| `replanning` | `SeamsEven`, `ReferenceGoesOn`, `WithinSolverTime`, `ModelIsPresent`, `CorridorLeadsThrough`, `SamplesHeld`, `LengthsLead`, and `ImplementsStitching`, the refinement | the values of `params/planner.yaml`: samples every .05 s, lookahead .35 s, which is also the longest a plan takes here, rounding to .1 s, and the tenths that fall short when divided by .05; plans until a phase of .75 s (`MaxPhase`; the theorems have no such bound, and any tick): long enough that every bound of `SeamsEven` and `ReferenceGoesOn` is met, and TLC finds any of the four violated when it is drawn one sample closer; three segments, two factors, so that a plan has several attempts and the last may overrun; covers of up to three polytopes, where a shortcut skips one; leading coefficients -1, 0, 1 |
| `planner_goals` | `NewGoalRemembered`, `MotionKeepsGoal`, `MotionsDoNotMix`; `HorizonRecovers`: once plans stop failing the planning horizon comes back to its length, unless the node keeps having nothing to plan | three places, `failsafe_count` 2 (the default), three notches: both sides of the failsafe, and more to give back than one success does |
| `jps_search` | `PathIsFree`, `FoundIsReported`, `SimplifiedIsFree`, and `RouteFits` of the path after both cuts | a 4 by 3 map, every set of obstacles in its two middle columns, the memory around it free or occupied; one query straight across and one that starts in a middle column and ends in a corner; with and without simplification; at most one unknown cell, anywhere; no earlier path, one along the first row that its horizon ended beside a cell's centre, one that turns |
| `training` | `NoneLeft`, `LearnsWhatIsLogged`, `StopsWhenWon`; `ScriptEnds`, unless a trial waits for a simulator that is gone, or no reset of the robot succeeds | three trials of one world of which two successes in a row end it (39 and 10 in the code), two over all worlds (250): both ends of every loop over trials are met |
| `simulator` | `ScansTrue`, `CollidingRests` | a row of four cells with one obstacle or more in or beside it, all beams of length three; a node that commands twice the plant's speed |

Deadlock is not checked where the system really stops: the tracker (its process may die), the
control loop (it may leave defined behaviour), the logger (the client ends) and Replanning
(time stops past the last sample).

### Runs that end in a violation

Each checks one sentence of the repository against the code; PROJECT.json, `findings`, quotes it.

| Run | Property | What happens |
|---|---|---|
| `tracker_race` | `StopsTurning` | The publisher's clamp is a load and a store; a stop stored in between is undone, and the robot turns until the next command. |
| `jps_missed` | `NoPathMissed` | A search gives up with a free way to the destination. Going round by the longer way, a diagonal from behind closes a cell for all directions; the shorter way comes to that cell later, has to go straight on from it, and its node is not queued. Ten columns by five rows show it, whatever the memory around the map holds, and JPS.cpp as it is, run on that map, returns an empty path. Every map of 4 by 3 in `jps_search` is too small for it. |

### What the models contain and no run asks

Behaviours of the code that the modules reproduce, or that a property's statement excludes by
name; a reader can see each with a one-line invariant of his own.

Tracker and optimisers
* The emergency stop does not reach the alignment: a trajectory that arrives while it is
  engaged makes the robot turn on the spot, since `_estop` is tested after that branch
  (`EStopNoTranslation` is about driving, and says so).
* `switch_mode` changes the tracker's mode and not its solver's.
* Tracking before the first distance map ends the process (`StopsForKnownCauses` lists it,
  with a dynamic alpha, whose variables are laid out nine apart in a vector for eight).
* Of the `Solve`s nobody calls, `MPC::Solve(state)` and `MPCNLOPT::Solve(state, wpts)`
  always overrun a vector; `POS_MPC` overruns its rows with one plane, and with more all
  planes of a step share one row. `MPCNLOPT::Solve_gtg` writes a row beyond `4(N-1)` in its
  finite differences and puts initial rows over the last dynamics rows.
* Both safety filter classes make their guess of `u[i]`, `a[i]`, `w[i]` with `i` the index of
  the variable, beyond the inputs they were given. The extended one counts six blocks of rows
  where its starts count five: the one-sided limits go to rows nobody writes, and the barrier
  is asked to be zero. `CBFFilterNLOPT` answers beyond its limits with what was wanted when
  it has no map, nothing is near, NLOPT throws or a limit is less than the margin
  (`FiltersOwnRows`, `FiltersOverrun`, `FiltersAnswer`).
* A published horizon's first point is the present state and is timed one period later; a
  horizon of two steps is not published.

Logger
* Rows on their way to the logging node are in no buffer: `logging_finish` sees it empty,
  returns, and they are not in the table, although util.hpp:37 says that it waits until all
  data has been logged. `CheckedRowsLogged` is what does hold.
* A pop may count before the push of its item has: the unsigned size wraps for a moment. The
  logger never sees it, since the thread that pushes is the one that asks.
* `logging_end` before the thread has set its own flag is lost: a stop stops nothing, and the
  join of a restart waits for ever. A stop keeps the subscription. A stop by somebody else
  while rows are buffered makes `logging_finish` poll for ever (`FinishReturns` excludes it).
* A drop of an active table leaves a null handler, and the next check, stop or drop ends the
  node (`NullHandler`).

Planner
* planner_core.cpp:457 says "if x,y does not reach the end of the ray, we hit an unknown cell",
  and the ray ends in a cell's centre. With `jps_hysteresis` and `plan_in_free` a kept path,
  which the last plan's horizon ended anywhere in a cell, is cut at its last point with nothing
  unknown near, and its end moves to the centre (`CutOffCentre`, which `RouteFits` excepts).
* The plan starts from the sample of an exact time and is put behind the sample of a rounded
  one, and either quotient may be truncated one short. In the parameters' case .35 s is rounded
  up to .4 s, so a seam loses a sample in general; where only the first quotient is short it
  loses two, and where the second falls short (`(int)(.6 / .05)` is 11) it repeats one
  (`SeamsEven` allows from one period back to three ahead). The reference then
  goes back by a sample, with every plan in time (`ReferenceGoesOn` allows one).
* In arc-length mode, the launch file's, `_is_goal_reset` is never cleared
  (`planner_gurobi.cpp:711`): every plan starts from the robot at rest. The theorems about
  PlannerNode hold with `UseArclen` too; no run sets it.
* The first trajectory does not clear `_is_goal_reset` either: the second plan starts at rest
  and is put after samples in motion (`MotionsDoNotMix` allows a start from the robot).
* With `jps_hysteresis` the last path may be preferred although its goal has been replaced,
  and it need not begin at the robot.
* `JPSIntersectObs` misses obstacles at a waypoint or beside it. `getJPSInFree` does not
  notice a waypoint that is itself in an unknown cell, and the path's new last segment may
  end in a cell beside the ray, look at other unknown cells and cross an occupied one. When unknown cells end the path and
  the horizon reaches beyond its end, the goal stays the far one.
* "Finally, extraneous jump points are removed from the path" (`JPS.cpp:509`): pruning erases at
  `i`, the start cell's index in the map, where it has found `k`: another point goes, or none is
  there to erase (`undefined`). Two rows of three cells show it.
* With `simplify_jps` (planner.yaml sets it) this may erase the path's first point or
  its last: `RouteFits` says where a path begins and ends of unsimplified ones.
* `compute_arclen` takes eleven speeds for a tenth of a segment each, or ten where ten tenths
  added up are rounded beyond the end (about three durations in ten): lengths come out up to a
  tenth too long or, from a start that speeds up, a little short. Speed and acceleration are
  limited at the segments' starts only.

Training and simulators
* The loop that resets the robot (`gazebo_run.py:140`) has no limit, and a reset that fails is
  logged and passed over: a simulator that lives and does not move the robot keeps the
  script there for ever (`ScriptEnds` says so).
* The evaluation after a training neither logs nor asks the policy, since `/train/is_eval`
  is not set again (`gazebo_run.py:460`).
* With a model file, the policy server calls `load_state_dict` of a member that has no value
  yet (`model_server.py:75`) and ends; a tracker that asks it then gives no command.
* A scan is stamped with the present time and cast from the pose of the loop before. A reset
  of the plant leaves its collision flag and its speed.

## 4. Fairness

* Tracker (`tracker_learning`): both threads run (weak fairness of the publisher's and the
  stores' steps). The callback queue is first in, first out, so a waiting service call and the
  control timer are not passed over for ever, though other callbacks disable them in between:
  strong fairness. A service call returns with an answer or an error. Topics, and others'
  calls, need not come.
* Logger: the client, the node's thread and the logging thread run; connecting, publishing and
  the others are free. Locks are modelled by the steps that hold them.
* Planner: the timer fires (weak fairness of `controlLoop`). Whether a plan succeeds is left
  open: `HorizonRecovers` has it as its antecedent that plans stop failing, and no property says
  that planning succeeds.
* Training: the script's main thread runs, and while the simulator does its clock advances. The
  turns of the reset loop are promised nothing, since whether one of them succeeds is up to
  the simulator. The robot, the processes' deaths and exceptions are free.
* Simulator: the plant's subscription and timer and the commanding node's loop keep running;
  the services and the lidar are free.

## 5. Proofs

All proofs are for every value of the constants, under the named assumptions of the modules
(`CoreAssumption`, `LoopAssumption`, `TrackerAssumption`, `QueueAssumption`,
`LoggerAssumption`, `SolverAssumption`, `SplinesAssumption`, `ReplanningAssumption`,
`PlannerAssumption`, `JPSAssumption`, `PlannerPathAssumption`, `TrialsAssumption`,
`SimulatorAssumption`): ranges of the parameters and nothing about the runs' instances. Three
theorems need more and state it as a hypothesis: `SeamsStayEven`, `ReferenceKeepsUp` and
`SamplesAreHeld`, see below.

* **ControlLoop_proofs**, of MPCCore: `CoreSpeedsWithinLimits`, `CoreRateLimited`,
  `CoreOverrunKeepsSpeed`. The clamp comes after the rate limit; it can only keep to the rate
  because the speed before was within the limits, so the three rest on one invariant
  (`CoreInv`: types and limits) and one lemma, `LimitThenClamp`.
  Of the optimisers: `LimitsAreOwn` and `RowsAreOwn`, for every horizon of at least two
  steps: a lemma per class says that its layout is injective, one that its rows are, and one
  which row it leaves over. `LoopImplementsCore` shows that the core with its optimisers is a
  core as MPCCore has it, so that MPCCore's theorems hold of it.
  Of the loop: `LoopStopsForKnownCauses`, `LoopAnswerHeadsHorizon`, `LoopWarmStartAligned`.
  They rest on one invariant (`LoopInv`). Its part `Kept` says, for each class, which solve
  the horizon, the answer and the last solution come from: the same one for the IPOPT
  classes; for CBFHorizon only while the last thing that happened was a solve that succeeded.
  Its part `Stopped` is the list of causes. The step of each class needs to know whether its
  problem lies within its vectors (`MPCIsDefined` and its like, for every length); the warm
  start needs, besides, that every index of MPC_ACC is some cell's (`MPC_ACCEveryIndex`). What
  the uncalled solves and filters do is proved for every length too (`OthersAnswers`,
  `OthersOverruns`, `FiltersRows`, `FiltersOverruns`, `FiltersAnswers`, `FiltersGradients`);
  `CBFFilterAnswers`, `ObjectiveDifferences` and `BarrierDifferences` are for all integers.
* **Tracker_proofs**: type correctness and every safety property of the passing runs. Three
  inductive invariants: `Motion` follows the linear speed through `todo` and the two stores
  (the properties speak of moments between callbacks and are not inductive by themselves);
  `Speeds` bounds every copy of a speed on its way to `/cmd_vel`, the publisher's registers
  included; `Rows` ties the last row to the state kept for the next.
* **ThreadsafeQueue_proofs**: `TypesOK` and `QueueIsFifo`, the refinement. `QueueInv` says who
  is where while a lock is held (`Locks`), that all nodes but the last are filled (`Filled`),
  and that a thread about to unlink has found an item (`Found`), which stays true while other
  threads push. Then each step is one of Fifo's or leaves `items` alone. `CounterAccounts`:
  the counter is the number of items, less the pushes and plus the pops that have yet to count,
  modulo the width of the counter, for any number of threads; the lemmas say what a step does
  to the cardinality of the threads at a place and to the length of `items`.
* **Logger_proofs**: `LoggerRowsInOrder` and `LoggerCheckedRowsLogged`, for any number of rows
  and any queue size. `OrderInv` orders what is on the wire, in the buffer, in the thread's
  hand and in the table, each place before the one behind it, and all before the next row;
  every step moves the head of one place to the end of the next or empties places. `LoggedInv`
  says where the rows received and the rows checked may be: a checked row is in the table or in
  the thread's hand, since the buffer was seen empty, and the thread that holds a row cannot
  end. It holds as long as nobody drops the table and the node lives (`Lossless`), which is what
  `CheckedRowsLogged` asks. `LoggerTypes` is type correctness, through restarts and drops.
* **Replanning_proofs**: `SolverKeepsItsTime`, `ModelStaysPresent` and `JoinsLikeStitching`,
  the refinement of Stitching. The invariant accounts for a plan's time by its place: what has
  passed is at most a set-up for each attempt so far, the optimiser's time of those that
  ended, and the ticks of the present one (`TimeInv`); that is what makes `PlanTime` a
  bound. `ModelInv` says that the solver's vectors hold all of the model but the limits of
  speed.
  `SeamsStayEven` bounds the jump at every seam, one seam after another, because a plan starts
  from a sample that an earlier seam may have moved. `SeamInv` counts in periods: how far the
  phase may grow from a sample to the next (`StepIs`) and over two of them (`PairIs`), by
  where they lie before the sample that the lookahead comes to (`Lead`); behind it the motion is
  even. What makes it inductive is how far the three indices of one plan can disagree
  (`CutsAt`), quotients that fall short included. It needs `SeamAssumption`: times are rounded
  to the samples' period, with a lookahead halfway between two of them, or to two periods with a
  lookahead that is not rounded down; and the rounded lookahead is itself divided evenly. The
  code's default (samples .1 s apart, lookahead .15 s) and `params/planner.yaml` (.05 s and
  .35 s) are such, in ticks of any length, so for planning at any moment. Without it TLC finds
  Stitching's bounds broken: both properties' with a lookahead of .3 s, which falls short of
  its sample at either period, and that of the seams with samples every .05 s and a lookahead of
  .225 s.
  `ReferenceKeepsUp` is `ReferenceGoesOn` without the run's bound on phases, under
  `SeamAssumption` and `PlanTime <= Lookahead`. The times sent are even (`SentAs`), so what the
  tracker reads is the sample of its period (`ReferenceAtIs`), and what it reads once a plan is
  finished is compared with what it read before by where the present, the cut and the plan's
  start lie (`NearCut`, `ReferenceMovesOn`). The second hypothesis is needed, and it is the
  configuration's: `params/planner.yaml` plans .35 s ahead and gives the solver .25 s; the
  node's built-in defaults are .15 s and .2 s (`planner_gurobi.cpp:38`, `:57`). With those, or
  with the parameters' values and one tick more than the lookahead, TLC finds late plans after
  which the reference goes back by more than a sample or ahead by more than five.
  `CorridorsLeadThrough` follows the shortcut back from the last polytope (`Leads`).

  `SamplesAreHeld` and `LengthsDoLead` are about every solution there is of an allocation of
  time. For the first, `fillX`'s walk is shown to be at each sample's segment (`SegmentIs`):
  a segment lasts two periods at least, so going on by one from a sample to the next is
  enough. Within its segment a cubic is its control points' Bezier curve (`Bezier`), and
  its acceleration, which is linear, is between the segment's ends, of which the later is the
  next one's start or rest (`Between`). Its hypothesis is `FactorInitial > 0`: with a factor of
  zero a segment would last no time, and the solver warns of factors below one
  (`solver.cpp:564`). The second needs that eleven samples of a speed, each taken for a tenth of
  a segment, sum up to no less than the way. With half of the first and the last they would
  be the trapezium rule, which is off by the change of acceleration over the segment times a
  constant: the segments' errors telescope (`Ahead`, `SegmentAhead`) and what is left is the
  first segment's acceleration, which the other halves of the samples outweigh (`WayMade`, over
  the first two segments, or the one there is). Where the last of the eleven is not taken, the
  errors are of the speed too and telescope likewise (`Left`, `SegmentLeft`); the first
  segment's speed is outweighed, its acceleration is not (`WayMadeRoughly`): a length may be
  short of the way by a six-hundredth of the first `getBn`. For the points, the first segment
  whose length comes to a part of the whole exists, since the last one's does (`PartIs`).
* **Training_proofs**: `ScriptLeavesNone`, `ScriptLearnsWhatIsLogged` and
  `ScriptStopsWhenWon`, for any number of trials and of successes wanted. `ProcessesInv`: at
  each place of the script at most the kinds started before it run, one process of each, and
  the one being started is the place's own. `LoggingInv`: what the tracker read when it started
  is still what the parameters say. `CountInv`: the count is the number of successes the rows
  end with, up to the row not yet counted, and no earlier row has won.
  `ScansAreTrue` is about the simulator's lidar, for every map, row and range. `castRay` walks
  with an error term; its closed form (`Aside`, `Error`) solves the walk's equation and is its
  only solution (`SolutionSteps`, `WalkedOnce`), so each step of the walk is at a cell beside
  the beam (`WalkNear`) and the first one occupied is the first the beam meets (`CastTrue`).
  `PosesInv` says that once a map has come the pose is one the robot was found at.
* **PlannerNode_proofs**: `TypesOK`, `NewGoalIsRemembered`, `MotionLeadsToItsGoal` (both
  without `jps_hysteresis`; with it an old path may be preferred, and they are false) and
  `MotionsAreNotMixed`. The invariant adds that nothing has been sent before a goal.
* **JPS_proofs**: `TypesHold`, `LinksLead`, `DestinationsAreReported`, `PathsAreFree`,
  `SimplifiedPathsAreFree` and `RoutesFit`, for maps of any size. The invariant (`SearchInv`)
  says that the parents form a tree whose links are free lines and whose costs grow away from the start (`Tree`), and that an exploration under way comes from
  a cell of the tree by free cells and at no less than its cost (`Explorations`), which is
  what improving a parent later cannot spoil: costs only fall. One lemma, `ParentKeepsTree`,
  carries it for every caller of `add_to_parents`. `PathInv` then follows `getPath`'s walk
  link by link. `FoundInv` says that the destination's cell is never closed and that its node
  stays in the queue, from the exploration that comes to it (`ComesTo`) until it is on top.

  `SimplifiedPathsAreFree` is about both calls of `simplifyPath`: whatever relation holds of
  cells with a free ray between them holds along what a call keeps, if it held along the path
  (`KeptKeeps`), and reversing a path inverts the relation.

  `RoutesFit` is about the plan, of which the search is a part (`PlanSpec`). Of a ray it needs
  the cells that are looked at: they are on the map, the last is the ray's end, only the last
  two turns look there (`RayCellIs`, `EndIsLast`), map_util.h's index arithmetic and JPS.cpp's
  `bresenham` name the same ones (`RaycastIs`, `RaysAgree`), and so a ray that comes to its end
  has looked at nothing that stops it before (`RayEnds`). The horizon ends a jump in a free
  cell or where cells meet (`QuarterIsFree`). `DriveInv` follows the path from the search to
  the choice: its cells are free, and the costs of its parents rise along it, so that no cell
  comes twice and it is no longer than the map has cells (`RisingIsShort`). That is why
  `RouteFits` says of the start only that maps of at most `MaxLinks` (1000) cells are safe from
  getPath's limit; of larger ones `PathIsFree` says that the path begins at the start or has
  all the links allowed.

What a recursive function computes for every input is proved without an induction theorem: of
the arguments at which the function would be wrong there would be a least one (`LeastExists`,
from the library's well-founded order of the natural numbers), and it is none. `CorridorsLeadThrough`,
`SimplifiedPathsAreFree`, `RoutesFit`, `ScansAreTrue`, `SamplesAreHeld` and `LengthsDoLead` rest on
that, and that the functions exist is shown the same way (`BackExists`, `KeptExists`,
`RecursionExists`).

Only model-checked is liveness, since fairness and ENABLED are beyond the prover:
`EStopServed`, `TrajectoryEnds`, `FinishReturns`, `HorizonRecovers`, `ScriptEnds` and
`CollidingRests`. Every other property of a passing run is a theorem; type correctness is one
of its own or a part of the invariants (`CoreInv`, `TypesInv`).

## 6. Plan

1. MPCCore, Tracker (done, proved); optimisers and the loop (done; layout and refinement
   proved), warm starts, answers and ends (proved).
2. ThreadsafeQueue refining Fifo (done, proved); Logger (done; order and delivery proved).
   Next: that the buffer of Logger is ThreadsafeQueue's Fifo with its counter, as a theorem.
3. PlannerNode and Replanning with its solver's samples and lengths (done, proved); Stitching
   (seams and reference proved, with the truncation of its quotients). Next: the branch with an MPC horizon.
4. Navigation: planner and tracker composed over `/reference_trajectory` and `/mpc_horizon`,
   with a queued horizon that belongs to the trajectory before.
5. JPS and the planner's path (done, proved; the search is not complete, `NoPathMissed`).
6. Training and simulators (done; safety proved).

## 7. Not modelled

* What IPOPT, NLOPT and Gurobi find, values of costs, gradients and barriers, the geometry of
  polytopes: real arithmetic that TLC cannot evaluate. Solutions are inputs, polytopes a
  relation. `binary_search`, which places a point within a segment, is of that kind.
* `static prev_obs` of `createCorridorJPS`, which may lie outside a map that has moved.
* The other simulators: crazyflie_sim never publishes its command, jackal_unicycle_mpc
  publishes nothing, jackal_unicycle_test is not built.
* Vendored code, Python bindings, map tools, visualisation, parsing of parameters, SQL text.
  Components in PROJECT.json say for each part what is left and why.
