------------------------------ MODULE Training ------------------------------
(***************************************************************************)
(* The reinforcement learning loop (src/train).  gazebo_run.py starts the  *)
(* simulator, the tracker with its policy server, and the planner for      *)
(* every trial, waits until the robot moves, watches it drive, writes a    *)
(* row and stops the processes; in training it then updates the policy and *)
(* saves it for the server (model_server.py) of the next trial.            *)
(*                                                                         *)
(* The main thread's program counter is pc: a process kind when it is to   *)
(* be started, otherwise the loop it is in.  The subscriber's thread       *)
(* (gazebo_simulation.py) counts what the tracker publishes on /mpc_done.  *)
(* Of the robot's pose only the three distances the script tests are kept. *)
(***************************************************************************)
EXTENDS Naturals, Sequences

CONSTANTS
  Wanted,      \* successes in a row that end the trials of one world (10)
  Trials,      \* most trials of one world (39)
  WorldTrials, \* trials over the training worlds, or over the evaluated ones (250)
  Bag          \* --bag: the topics are recorded
ASSUME TrialsAssumption ==
  /\ Wanted \in Nat \ {0} /\ Trials \in Nat \ {0} /\ WorldTrials \in Nat \ {0}
  /\ Bag \in BOOLEAN

Kinds == {"gazebo", "bag", "controller", "planner"}

VARIABLES
  pc,              \* main thread
  args,            \* "train", "eval" or "neither"
  stage,           \* "suite", "world", "train_worlds" or "eval_worlds"
  is_eval, logging,\* the parameters under /train the tracker reads
  running,         \* processes of each kind that run
  starting,        \* the kind that Popen has started and not yet returned
  tracker,         \* what the tracker and the policy server of this trial do
  model,           \* the model file: "none", or "there", or "elsewhere" if the server's
                   \* working directory gives /train/model_file another meaning
  robot, late,     \* where the robot is, the clock is beyond the limit
  collision_count, \* of the messages on /mpc_done: whether there were any
  curr,            \* the loops' curr_coor, curr_time and collided
  rows,            \* the results in args.out
  count            \* successes in a row

script == <<args, stage, is_eval, logging, model, rows, count>>
vars == <<pc, script, running, starting, tracker, robot, late, collision_count, curr>>

Init ==
  /\ pc = "gazebo" /\ args \in {"train", "eval", "neither"}
  /\ stage \in {"suite", "world", "train_worlds"}
  /\ is_eval = (args = "eval") /\ logging = (args = "train")
  /\ running = [k \in Kinds |-> 0] /\ starting = "none"
  /\ tracker = [logs |-> FALSE, asks |-> FALSE, server |-> "none"]
  /\ model \in {"none", "there"} /\ robot = "start" /\ late = FALSE /\ collision_count = FALSE
  /\ curr = [pos |-> "start", late |-> FALSE, collided |-> TRUE]
  /\ rows = <<>> /\ count = 0

(***************************************************************************)
(* The processes.                                                          *)
(***************************************************************************)

\* ModelServer's constructor: with a model file it calls load_state_dict of
\* self.policy, which has no value yet, and dies of it.
ServerStarts == IF model = "there" THEN "dead" ELSE "default"

\* The tracker reads its parameters once, when it starts.
TrackerStarts ==
  [logs |-> logging /\ ~is_eval, asks |-> logging \/ is_eval,
   server |-> IF args = "neither" THEN "none" ELSE ServerStarts]

\* A tracker that asks and gets no answer gives no command.
Drives ==
  /\ running["controller"] > 0 /\ running["gazebo"] > 0
  /\ tracker.asks => tracker.server = "default"

\* subprocess.Popen has started the process and the global is yet to be set.
Popen(kind) ==
  /\ pc = kind /\ starting = "none"
  /\ running' = [running EXCEPT ![kind] = @ + 1] /\ starting' = kind
  /\ tracker' = IF kind = "controller" THEN TrackerStarts ELSE tracker
  /\ UNCHANGED <<pc, script, robot, late, collision_count, curr>>

\* What follows the start of each process, up to the next start or loop.  The world puts the
\* robot where it likes, or not at all.
Assign(kind) ==
  /\ pc = kind /\ starting = kind /\ starting' = "none"
  /\ pc' = CASE kind = "gazebo" -> "reset"
             [] kind = "bag" -> "controller"
             [] kind = "controller" -> "planner"
             [] kind = "planner" -> "waiting"
  /\ collision_count' = (collision_count /\ kind # "gazebo")
  /\ late' = (late /\ kind # "planner")
  /\ robot' \in IF kind = "gazebo" THEN {"start", "away"} ELSE {robot}
  /\ curr' = CASE kind = "gazebo" -> [curr EXCEPT !.pos = robot', !.collided = TRUE]
               [] kind = "planner" -> [curr EXCEPT !.pos = robot, !.late = FALSE]
               [] OTHER -> curr
  /\ UNCHANGED <<script, running, tracker>>

\* Slip for NoneLeft: the recording is forgotten.
TerminatedButBag == [k \in Kinds |-> IF running[k] > 0 /\ k \notin {starting, "bag"} THEN running[k] - 1 ELSE running[k]]

\* The processes whose objects the globals hold are terminated and waited for.
Terminated == [k \in Kinds |-> IF running[k] > 0 /\ k # starting THEN running[k] - 1 ELSE running[k]]

(***************************************************************************)
(* A trial.                                                                *)
(***************************************************************************)

NotReset == curr.pos # "start" \/ curr.collided

\* A turn of the reset loop.  A reset that fails is logged and passed over, and the robot is
\* where it was; the loop counts neither turns nor time.
Reset ==
  /\ pc = "reset" /\ running["gazebo"] > 0 /\ NotReset
  /\ robot' \in {"start", robot}
  /\ curr' = [curr EXCEPT !.pos = robot', !.collided = collision_count]
  /\ collision_count' = FALSE
  /\ UNCHANGED <<pc, script, running, starting, tracker, late>>
ResetEnds ==
  /\ pc = "reset" /\ ~NotReset
  /\ pc' = IF Bag THEN "bag" ELSE "controller"
  /\ UNCHANGED <<script, running, starting, tracker, robot, late, collision_count, curr>>

Standing == curr.pos = "start" \/ running["planner"] = 0

\* The loop that waits for the robot to move, and its time limit.
WaitOn ==
  /\ pc = "waiting" /\ running["gazebo"] > 0 /\ Standing /\ ~curr.late
  /\ curr' = [curr EXCEPT !.pos = robot, !.late = late]
  /\ UNCHANGED <<pc, script, running, starting, tracker, robot, late, collision_count>>
WaitEnds ==
  /\ pc = "waiting" /\ (Standing => curr.late)
  /\ pc' = "waited" /\ curr' = [curr EXCEPT !.collided = Standing]
  /\ UNCHANGED <<script, running, starting, tracker, robot, late, collision_count>>

\* start_time, and the planner is polled again.
StartNavigation ==
  /\ pc = "waited" /\ pc' = "navigating" /\ late' = FALSE
  /\ curr' = [curr EXCEPT !.late = FALSE, !.collided = @ \/ running["planner"] = 0]
  /\ UNCHANGED <<script, running, starting, tracker, robot, collision_count>>

\* Slip for ScriptEnds: the loop tests the pose and the collision only.
UnderwayForEver == curr.pos # "goal" /\ ~curr.collided

Underway == curr.pos # "goal" /\ ~curr.collided /\ ~curr.late

Navigate ==
  /\ pc = "navigating" /\ running["gazebo"] > 0 /\ Underway
  /\ curr' = [pos |-> robot, late |-> late, collided |-> collision_count]
  /\ collision_count' = FALSE
  /\ UNCHANGED <<pc, script, running, starting, tracker, robot, late>>

\* The row, and the end of the trial's processes.
TrialEnds ==
  /\ pc = "navigating" /\ ~Underway
  /\ rows' = Append(rows, [success |-> ~curr.collided /\ ~curr.late,
                           collided |-> curr.collided, timeout |-> curr.late])
  /\ running' = Terminated /\ pc' = "learn"
  /\ UNCHANGED <<args, stage, is_eval, logging, model, count, starting, tracker,
                 robot, late, collision_count, curr>>

(***************************************************************************)
(* Between two trials.                                                     *)
(***************************************************************************)

Trains == args = "train" /\ stage \in {"world", "train_worlds"}
Succeeded == rows[Len(rows)].success
\* Slip for StopsWhenWon: a trial that failed does not start the count again.
Wins == IF Succeeded THEN count + 1 ELSE count

InARow == IF Succeeded THEN count + 1 ELSE 0

\* One world: until ten successes in a row.
NextOfWorld ==
  /\ stage = "world" /\ count' = InARow
  /\ pc' = IF InARow >= Wanted \/ Len(rows) >= Trials THEN "ended" ELSE "gazebo"
  /\ UNCHANGED <<args, stage, logging, rows>>

NextOfWorlds ==
  /\ stage \in {"suite", "train_worlds", "eval_worlds"} /\ Len(rows) < WorldTrials
  /\ pc' = "gazebo" /\ UNCHANGED <<args, stage, logging, rows, count>>

\* Slip for LearnsWhatIsLogged: the evaluation is logged as the training was.
StartEvaluationLogged ==
  /\ stage = "train_worlds" /\ Len(rows) >= WorldTrials
  /\ stage' = "eval_worlds" /\ args' = "eval" /\ rows' = <<>>
  /\ pc' = "gazebo" /\ UNCHANGED <<logging, count>>

\* "now that training is done, evaluate the policy"
StartEvaluation ==
  /\ stage = "train_worlds" /\ Len(rows) >= WorldTrials
  /\ stage' = "eval_worlds" /\ args' = "eval" /\ logging' = FALSE /\ rows' = <<>>
  /\ pc' = "gazebo" /\ UNCHANGED count

Finish ==
  /\ stage \in {"suite", "eval_worlds"} /\ Len(rows) >= WorldTrials
  /\ pc' = "ended" /\ UNCHANGED <<args, stage, logging, rows, count>>

\* The updates of the policy, the file it is saved in, and the next trial.
Learn ==
  /\ pc = "learn"
  /\ IF Trains /\ model = "none" THEN model' \in {"there", "elsewhere"} ELSE UNCHANGED model
  /\ NextOfWorld \/ NextOfWorlds \/ StartEvaluation \/ Finish
  /\ UNCHANGED <<is_eval, running, starting, tracker, robot, late, collision_count, curr>>

(***************************************************************************)
(* The other threads and processes.                                        *)
(***************************************************************************)

\* An exception nobody catches (a service that failed and gave no pose, an error
\* of the trainer), or an interrupt, whose handler takes no arguments and so ends
\* in an exception too: the hooks terminate what the globals hold.
Abort ==
  /\ pc # "ended" /\ pc' = "ended" /\ running' = Terminated
  /\ UNCHANGED <<script, starting, tracker, robot, late, collision_count, curr>>

InTrial == pc \in {"waiting", "waited", "navigating"}

RobotMoves ==
  /\ InTrial /\ Drives
  /\ robot' = CASE robot = "start" -> "away" [] robot = "away" -> "goal" [] robot = "goal" -> "away"
  /\ UNCHANGED <<pc, script, running, starting, tracker, late, collision_count, curr>>

\* The end of a trajectory or a collision, as the tracker publishes it.
collision_monitor ==
  /\ InTrial /\ Drives /\ ~collision_count /\ collision_count' = TRUE
  /\ UNCHANGED <<pc, script, running, starting, tracker, robot, late, curr>>

\* ROS time is the simulator's.
Tick ==
  /\ InTrial /\ running["gazebo"] > 0 /\ ~late /\ late' = TRUE
  /\ UNCHANGED <<pc, script, running, starting, tracker, robot, collision_count, curr>>

Exits(kind) ==
  /\ pc = "reset" \/ InTrial
  /\ running[kind] > 0 /\ running' = [running EXCEPT ![kind] = 0]
  /\ UNCHANGED <<pc, script, starting, tracker, robot, late, collision_count, curr>>

Ended == pc = "ended" /\ UNCHANGED vars

\* The script's steps, but for the turns of its reset loop: those are promised nothing, as
\* whether one of them puts the robot back is up to the simulator.
Main ==
  \/ \E kind \in Kinds : Popen(kind) \/ Assign(kind)
  \/ ResetEnds \/ WaitOn \/ WaitEnds \/ StartNavigation \/ Navigate \/ TrialEnds \/ Learn
Next ==
  \/ Main \/ Reset \/ Abort \/ RobotMoves \/ collision_monitor \/ Tick \/ Ended
  \/ \E kind \in {"gazebo", "planner"} : Exits(kind)
Spec == Init /\ [][Next]_vars /\ WF_vars(Main) /\ WF_vars(Tick)

-----------------------------------------------------------------------------
\* shutdown and myexcepthook know the processes by four globals, set after each
\* Popen: no process of an earlier trial is alive beside this one's, and when the
\* script is over all are, but for one it was interrupted in starting.
NoneLeft ==
  /\ \A kind \in Kinds : running[kind] <= 1
  /\ pc = "ended" => \A kind \in Kinds \ {starting} : running[kind] = 0

\* The trainer learns only from trials whose tracker logged to the replay buffer, and
\* no trial of the evaluation that follows is logged: the parameters, the stages and
\* the tracker's one reading of them agree.
LearnsWhatIsLogged ==
  /\ pc = "learn" /\ Trains => tracker.logs
  /\ stage = "eval_worlds" /\ InTrial => ~tracker.logs

\* A world's trials go on until the last Wanted of them were won, and no longer: ten
\* successes are never followed by another trial nor pieced together from several runs.
WonInARow(last) ==
  last >= Wanted /\ \A i \in last - Wanted + 1 .. last : rows[i].success
StopsWhenWon ==
  stage = "world" =>
    /\ \A last \in 1 .. Len(rows) - 1 : ~WonInARow(last)
    /\ pc = "gazebo" => ~WonInARow(Len(rows))
    /\ count >= Wanted => WonInARow(Len(rows))

\* Whatever the robot, the tracker and the planner do, the script ends, as the loops of a trial
\* have their limits in time: unless it is a simulator that is gone, and the clock with it,
\* that a trial waits for, or a reset that never succeeds, which has no limit.
ScriptEnds ==
  \/ <>(pc = "ended")
  \/ <>[](InTrial /\ running["gazebo"] = 0)
  \/ <>[](pc = "reset")
=============================================================================
