---------------------------- MODULE Tracker_proofs ----------------------------
(***************************************************************************)
(* The tracker's safety for every choice of its constants: any limits, any *)
(* set of trajectories, any optimiser answers, either odometry callback.   *)
(*                                                                         *)
(* Three inductive invariants.  Motion follows the linear speed: the       *)
(* properties speak of the moments when no callback is in progress; a step *)
(* away from them the speed to come is in todo, and Motion follows it      *)
(* there and through the two stores.  Speeds bounds every copy of a speed  *)
(* on its way to /cmd_vel.  Rows ties the last row to the state kept for   *)
(* the next one.                                                           *)
(***************************************************************************)
EXTENDS Tracker, TLAPS

\* The actions grouped by what they leave alone, for the step lemmas.
Quiet ==    \* no speed, no stop, no trajectory
  /\ UNCHANGED <<estop, trajectory, cb, todo, vel_lin, vel_ang>>
  /\ UNCHANGED <<core_vars, log_vars, pub_vars>>

LEMMA QuietActions ==
  ASSUME \/ \E p \in Poses : odomcb(p)
         \/ \E a \in AlphaMsgs : alphacb(a)
         \/ distmapcb
         \/ \E c \in Collisions : collisioncb(c)
         \/ AlignWithoutOdom \/ CteWithoutMap
         \/ CteDisabled \/ CteNoTrajectory
         \/ Clock
         \/ \E s \in Services : Call(s)
         \/ UNCHANGED vars
  PROVE  Quiet
  BY DEF odomcb, alphacb, distmapcb, collisioncb, AlignWithoutOdom, CteWithoutMap, Crash,
         CteDisabled, CteNoTrajectory, Clock, Call, vars, Quiet, NoStores, velMsg, flags

-----------------------------------------------------------------------------
(* Linear speed.                                                            *)

Storing == {"store1", "store2"}

Motion ==
  /\ cb \in {"idle", "sac"} \cup Storing
  /\ cb \in Storing => todo.first \in {"lin", "ang"}
  /\ (cb = "store2" /\ todo.first = "lin") => vel_lin = todo.lin
  /\ estop = TRUE \/ trajectory = NoTraj =>
       /\ cb # "sac"
       /\ cb = "idle" => vel_lin = 0
       /\ cb \in Storing => todo.lin = 0
  /\ cb \notin Storing => vel_lin \in {0, curr_vel}
  /\ cb \in Storing => todo.lin \in {0, curr_vel}

LEMMA MotionStep == Motion /\ [Next]_vars => Motion'
<1> SUFFICES ASSUME Motion, [Next]_vars PROVE Motion'
  OBVIOUS
<1> USE DEF Motion, Storing
<1>1. CASE Quiet
  BY <1>1 DEF Quiet, core_vars
<1>2. CASE eStopcb
  BY <1>2 DEF eStopcb, Callback, LeaveStores, core_vars
<1>3. CASE mode_switchcb
  BY <1>3 DEF mode_switchcb, Callback, LeaveStores, core_vars, flags
<1>4. ASSUME NEW tr \in Trajectories, NEW r \in BOOLEAN, ReceiveTrajectory(tr, r)
      PROVE  Motion'
  <2>1. tr # NoTraj
    BY TrackerAssumption DEF NoTraj
  <2>2. QED
    BY <1>4, <2>1 DEF ReceiveTrajectory, Callback, NoStores, core_vars, velMsg
<1>5. ASSUME NEW w \in AlignCmds, Align(w)
      PROVE  Motion'
  BY <1>5 DEF Align, Callback, LeaveStores, core_vars, flags
<1>6. CASE CteTrajectoryDone
  BY <1>6 DEF CteTrajectoryDone, CteRuns, CteCalled, Callback, LeaveStores, core_vars
<1>7. CASE CteSolve
  BY <1>7 DEF CteSolve, CteTracks, CteRuns, SolveAndCommand, LeaveStores
<1>8. CASE CteAskSAC
  BY <1>8 DEF CteAskSAC, CteTracks, CteRuns, CteCalled, Callback, velMsg, core_vars
<1>9. ASSUME NEW step \in AlphaSteps, SACAnswers(step)
      PROVE  Motion'
  BY <1>9 DEF SACAnswers, SolveAndCommand, LeaveStores, flags
<1>10. CASE SACFails
  BY <1>10 DEF SACFails, velMsg, core_vars, flags
<1>11. CASE StoreFirst
  BY <1>11 DEF StoreFirst, Store, core_vars, flags
<1>12. CASE StoreSecond
  BY <1>12 DEF StoreSecond, Store, core_vars, flags
<1>13. CASE publishVel
  BY <1>13 DEF publishVel, PubLoad, PubStore, PubReadLinear, PubReadAngular, PubKeeps,
               core_vars, flags
<1>14. QED
  BY <1>1, <1>2, <1>3, <1>4, <1>5, <1>6, <1>7, <1>8, <1>9, <1>10, <1>11, <1>12, <1>13,
     QuietActions
     DEF Next, CallbackThread, Topics, ControlLoop, SACReply, trajectorycb, trajectoryNoResetcb

LEMMA MotionInvariance == Spec => []Motion
<1>1. Init => Motion
  BY DEF Init, Motion, Storing, Core!Init
<1>2. QED
  BY <1>1, MotionStep, PTL DEF Spec

\* While the emergency stop is engaged no callback leaves a linear speed in velMsg.
THEOREM EStopHaltsTranslation == Spec => []EStopNoTranslation
<1>1. Motion => EStopNoTranslation
  BY DEF Motion, EStopNoTranslation
<1>2. QED
  BY <1>1, MotionInvariance, PTL

\* Without a trajectory the node commands no linear speed.
THEOREM NoTrajectoryHaltsTranslation == Spec => []NoTrajectoryNoTranslation
<1>1. Motion => NoTrajectoryNoTranslation
  BY DEF Motion, NoTrajectoryNoTranslation
<1>2. QED
  BY <1>1, MotionInvariance, PTL

\* The linear speed in velMsg is zero or the core's present speed.
THEOREM LinearSpeedFromCore == Spec => []LinearFromCore
<1>1. Motion => LinearFromCore
  BY DEF Motion, LinearFromCore, Storing
<1>2. QED
  BY <1>1, MotionInvariance, PTL

-----------------------------------------------------------------------------
(* Speeds on their way to /cmd_vel.                                         *)

LinRange == -MaxVel .. MaxVel
TurnRange == -MaxAngVel .. MaxAngVel
AngRange == TurnRange \cup AlignCmds

Speeds ==
  /\ curr_vel \in LinRange /\ curr_ang_vel \in TurnRange
  /\ vel_lin \in LinRange /\ todo.lin \in LinRange
  /\ reg_lin \in LinRange /\ cmd_lin \in LinRange
  /\ vel_ang \in AngRange /\ todo.ang \in AngRange
  /\ reg_ang \in AngRange /\ cmd_ang \in AngRange

LEMMA Ranges ==
  /\ 0 \in LinRange /\ 0 \in TurnRange
  /\ LinRange \subseteq Int /\ AngRange \subseteq Int
<1>1. \A m \in Nat : 0 \in -m .. m /\ -m .. m \subseteq Int
  OBVIOUS
<1>2. QED
  BY <1>1, TrackerAssumption DEF LinRange, TurnRange, AngRange

\* clamp's result, as the core and the publisher use it.
LEMMA ClampRange ==
  ASSUME NEW m \in Nat, NEW x \in Int
  PROVE  Core!clamp(x, m) \in -m .. m
  BY DEF Core!clamp

LEMMA LimitType ==
  ASSUME NEW v \in Int, NEW x \in Int, NEW d \in Nat
  PROVE  Core!limit(v, x, d) \in Int
  BY DEF Core!limit, Core!Abs

LEMMA CoreSpeeds ==
  ASSUME curr_vel \in Int, curr_ang_vel \in Int,
         NEW lin \in LinResults, NEW ang \in AngResults, NEW late \in BOOLEAN
  PROVE  Core!nextVel(lin, late) \in LinRange /\ Core!nextAngVel(ang, late) \in TurnRange
<1>1. /\ lin \in Int /\ ang \in Int /\ MaxVel \in Nat /\ MaxAngVel \in Nat
      /\ MaxLinStep \in Nat /\ MaxAngStep \in Nat
  BY TrackerAssumption
<1>2. Core!wantedAngVel(ang, late) \in Int
  BY <1>1 DEF Core!wantedAngVel
<1>3. Core!wantedVel(lin, late) \in Int
  <2>1. CASE core_type = "track_vel_ipopt"
    BY <1>1, <2>1 DEF Core!wantedVel
  <2>2. CASE core_type = "goto_pos_nlopt"
    BY <1>1, <2>2 DEF Core!wantedVel
  <2>3. CASE core_type \notin {"track_vel_ipopt", "goto_pos_nlopt"}
    BY <1>1, <2>3 DEF Core!wantedVel
  <2>4. QED
    BY <2>1, <2>2, <2>3
<1>4. QED
  BY <1>1, <1>2, <1>3, LimitType, ClampRange
     DEF Core!nextVel, Core!nextAngVel, LinRange, TurnRange

\* A solve puts limited speeds in the core and in what is left to store.
LEMMA SolveSpeeds ==
  ASSUME Speeds, SolveAndCommand
  PROVE  /\ curr_vel' \in LinRange /\ curr_ang_vel' \in TurnRange
         /\ todo'.lin \in LinRange /\ todo'.ang \in AngRange
         /\ UNCHANGED velMsg
<1>1. curr_vel \in Int /\ curr_ang_vel \in Int
  BY Ranges DEF Speeds, AngRange
<1>2. QED
  BY <1>1, CoreSpeeds DEF SolveAndCommand, LeaveStores, AngRange

LEMMA SpeedsStep == Speeds /\ [Next]_vars => Speeds'
<1> SUFFICES ASSUME Speeds, [Next]_vars PROVE Speeds'
  OBVIOUS
<1>0. 0 \in LinRange /\ 0 \in AngRange
  BY Ranges DEF AngRange
<1> USE DEF Speeds
<1>1. CASE Quiet
  BY <1>1 DEF Quiet, core_vars, pub_vars
<1>2. CASE eStopcb
  BY <1>0, <1>2 DEF eStopcb, LeaveStores, core_vars, pub_vars, velMsg
<1>3. CASE mode_switchcb
  BY <1>0, <1>3 DEF mode_switchcb, LeaveStores, core_vars, pub_vars, velMsg
<1>4. ASSUME NEW tr \in Trajectories, NEW r \in BOOLEAN, ReceiveTrajectory(tr, r)
      PROVE  Speeds'
  BY <1>4 DEF ReceiveTrajectory, NoStores, core_vars, pub_vars, velMsg
<1>5. ASSUME NEW w \in AlignCmds, Align(w)
      PROVE  Speeds'
  BY <1>0, <1>5 DEF Align, LeaveStores, core_vars, pub_vars, velMsg, AngRange
<1>6. CASE CteTrajectoryDone
  BY <1>0, <1>6 DEF CteTrajectoryDone, LeaveStores, core_vars, pub_vars, velMsg
<1>7. CASE CteSolve
  BY <1>7, SolveSpeeds DEF CteSolve, pub_vars, velMsg
<1>8. CASE CteAskSAC
  BY <1>8 DEF CteAskSAC, velMsg, core_vars, pub_vars
<1>9. ASSUME NEW step \in AlphaSteps, SACAnswers(step)
      PROVE  Speeds'
  BY <1>9, SolveSpeeds DEF SACAnswers, pub_vars, velMsg
<1>10. CASE SACFails
  BY <1>10 DEF SACFails, velMsg, core_vars, pub_vars
<1>11. CASE StoreFirst
  BY <1>11 DEF StoreFirst, Store, core_vars, pub_vars
<1>12. CASE StoreSecond
  BY <1>12 DEF StoreSecond, Store, core_vars, pub_vars
<1>13. CASE PubStore
  <2>1. publisherClamp(reg_ang) \in AngRange
    <3>1. reg_ang \in Int
      BY Ranges
    <3>2. publisherClamp(reg_ang) \in -HalfAngVel .. HalfAngVel
      BY <3>1, ClampRange, TrackerAssumption DEF publisherClamp
    <3>3. -HalfAngVel .. HalfAngVel \subseteq -MaxAngVel .. MaxAngVel
      BY TrackerAssumption
    <3>4. QED
      BY <3>2, <3>3 DEF AngRange, TurnRange
  <2>2. QED
    BY <1>13, <2>1 DEF PubStore, PubKeeps, core_vars
<1>14. CASE PubLoad \/ PubReadLinear \/ PubReadAngular
  BY <1>14 DEF PubLoad, PubReadLinear, PubReadAngular, PubKeeps, core_vars
<1>15. QED
  BY <1>1, <1>2, <1>3, <1>4, <1>5, <1>6, <1>7, <1>8, <1>9, <1>10, <1>11, <1>12, <1>13,
     <1>14, QuietActions
     DEF Next, CallbackThread, Topics, ControlLoop, SACReply, trajectorycb,
         trajectoryNoResetcb, publishVel

LEMMA SpeedsInvariance == Spec => []Speeds
<1>1. Init => Speeds
  BY Ranges DEF Init, Core!Init, Speeds, AngRange
<1>2. QED
  BY <1>1, SpeedsStep, PTL DEF Spec

\* What is published on /cmd_vel is inside the core's limits or an alignment command,
\* wherever the publisher's four accesses fall between the callbacks' stores.
THEOREM CommandsWithinLimits == Spec => []CommandWithinLimits
<1>1. Speeds => CommandWithinLimits
  BY DEF Speeds, CommandWithinLimits, LinRange, AngRange, TurnRange
<1>2. QED
  BY <1>1, SpeedsInvariance, PTL

-----------------------------------------------------------------------------
(* The replay buffer.                                                       *)

\* What Record keeps: the state kept is the one the last row ended in, and there is no
\* row before the first iteration is over.
Rows ==
  /\ row # NoRow => row.curr = prev_rl
  /\ is_first_iter = TRUE => row = NoRow
  /\ row.done = TRUE => is_done = TRUE

\* One log: the invariant, the chain, and nothing after the episode is done.
LogStep ==
  /\ row # NoRow /\ row' # row => row'.prev = row.curr
  /\ is_done = TRUE \/ row.done = TRUE => row' = row

LEMMA RecordStep == Rows /\ LogTransition => Rows' /\ LogStep
<1> SUFFICES ASSUME Rows, LogTransition PROVE Rows' /\ LogStep
  OBVIOUS
<1> DEFINE logs == Learns /\ ~is_first_iter /\ ~is_done
<1>1. CASE logs
  BY <1>1 DEF LogTransition, Record, Rows, LogStep, NoRow
<1>2. CASE ~logs /\ row = NoRow
  BY <1>2 DEF LogTransition, Record, Rows, LogStep, NoRow
<1>3. CASE ~logs /\ row # NoRow
  BY <1>3 DEF LogTransition, Record, Rows, LogStep
<1>4. QED
  BY <1>1, <1>2, <1>3

LEMMA RowsStep == Rows /\ [Next]_vars => Rows' /\ (LogStep \/ UNCHANGED vars)
<1> SUFFICES ASSUME Rows, [Next]_vars PROVE Rows' /\ (LogStep \/ UNCHANGED vars)
  OBVIOUS
<1>1. CASE UNCHANGED log_vars
  BY <1>1 DEF log_vars, Rows, LogStep
<1>2. CASE LogTransition
  BY <1>2, RecordStep
<1>3. CASE Quiet
  BY <1>1, <1>3 DEF Quiet
<1>4. ASSUME NEW step \in AlphaSteps, SACAnswers(step)
      PROVE  LogTransition
  BY <1>4 DEF SACAnswers, SolveAndCommand
<1>5. ASSUME NEW tr \in Trajectories, NEW r \in BOOLEAN, ReceiveTrajectory(tr, r)
      PROVE  UNCHANGED log_vars
  BY <1>5 DEF ReceiveTrajectory
<1>6. ASSUME NEW w \in AlignCmds, Align(w)
      PROVE  UNCHANGED log_vars
  BY <1>6 DEF Align
<1>7. CteSolve => LogTransition
  BY DEF CteSolve, SolveAndCommand
<1>8. \/ eStopcb \/ mode_switchcb \/ CteTrajectoryDone \/ CteAskSAC \/ SACFails
      \/ StoreFirst \/ StoreSecond \/ publishVel
      => UNCHANGED log_vars
  BY DEF eStopcb, mode_switchcb, CteTrajectoryDone, CteAskSAC, SACFails, StoreFirst,
         StoreSecond, publishVel, PubLoad, PubStore, PubReadLinear, PubReadAngular, PubKeeps
<1>9. QED
  BY <1>1, <1>2, <1>3, <1>4, <1>5, <1>6, <1>7, <1>8, QuietActions
     DEF Next, CallbackThread, Topics, ControlLoop, SACReply, trajectorycb, trajectoryNoResetcb

LEMMA RowsInvariance == Spec => []Rows
<1>1. Init => Rows
  BY DEF Init, Rows, NoRow
<1>2. Rows /\ [Next]_vars => Rows'
  BY RowsStep
<1>3. QED
  BY <1>1, <1>2, PTL DEF Spec

\* Every row of the replay buffer starts where the row before it ended.
THEOREM RowsFormAChain == Spec => RowsChain
<1>1. Rows /\ [Next]_vars => [row # NoRow /\ row' # row => row'.prev = row.curr]_vars
  BY RowsStep DEF LogStep
<1>2. QED
  BY <1>1, RowsInvariance, PTL DEF Spec, RowsChain

\* No row follows the report that the episode is done, or the row that says so.
THEOREM NoRowFollowsDone == Spec => NoRowAfterDone
<1>1. Rows /\ [Next]_vars => [row.done \/ is_done => row' = row]_vars
  BY RowsStep DEF LogStep
<1>2. QED
  BY <1>1, RowsInvariance, PTL DEF Spec, NoRowAfterDone

-----------------------------------------------------------------------------
(* The core's inputs.                                                       *)

\* With odomcb subscribed, each callback that changes an input passes it on; those
\* that clear the trajectory leave the core's, which nothing then reads.
THEOREM CoreStaysInSync == Spec => []CoreInSync
<1>1. Init => CoreInSync
  BY DEF Init, CoreInSync
<1>2. CoreInSync /\ [Next]_vars => CoreInSync'
  <2> SUFFICES ASSUME CoreInSync, [Next]_vars PROVE CoreInSync'
    OBVIOUS
  <2> USE DEF CoreInSync
  <2>1. CASE /\ UNCHANGED <<core_input, alpha, pose>>
             /\ trajectory' \in {trajectory, NoTraj}
    BY <2>1 DEF core_input
  <2>2. ASSUME NEW p \in Poses, odomcb(p)
        PROVE  CoreInSync'
    BY <2>2 DEF odomcb
  <2>3. ASSUME NEW tr \in Trajectories, NEW r \in BOOLEAN, ReceiveTrajectory(tr, r)
        PROVE  CoreInSync'
    BY <2>3 DEF ReceiveTrajectory
  <2>4. ASSUME NEW a \in AlphaMsgs, alphacb(a)
        PROVE  CoreInSync'
    BY <2>4 DEF alphacb
  <2>5. CASE distmapcb
    BY <2>5 DEF distmapcb
  <2>6. ASSUME NEW step \in AlphaSteps, SACAnswers(step)
        PROVE  CoreInSync'
    BY <2>6 DEF SACAnswers
  <2>7. CASE \/ \E c \in Collisions : collisioncb(c)
             \/ \E s \in Services : Call(s)
             \/ \E w \in AlignCmds : Align(w)
             \/ eStopcb \/ mode_switchcb \/ Clock \/ UNCHANGED vars
    BY <2>1, <2>7 DEF collisioncb, Call, Align, eStopcb, mode_switchcb, Clock, vars
  <2>8. CASE \/ CteDisabled \/ AlignWithoutOdom \/ CteWithoutMap
             \/ CteNoTrajectory \/ CteTrajectoryDone \/ CteSolve \/ CteAskSAC
    BY <2>1, <2>8 DEF CteDisabled, AlignWithoutOdom, CteWithoutMap, Crash, CteNoTrajectory,
       CteTrajectoryDone, CteSolve, CteAskSAC, vars
  <2>9. CASE SACFails \/ StoreFirst \/ StoreSecond \/ publishVel
    BY <2>1, <2>9 DEF SACFails, StoreFirst, StoreSecond, publishVel, PubLoad, PubStore,
       PubReadLinear, PubReadAngular, PubKeeps
  <2>10. QED
    BY <2>2, <2>3, <2>4, <2>5, <2>6, <2>7, <2>8, <2>9
       DEF Next, CallbackThread, Topics, ControlLoop, SACReply, trajectorycb,
           trajectoryNoResetcb
<1>3. QED
  BY <1>1, <1>2, PTL DEF Spec

-----------------------------------------------------------------------------
(* Types, one group of variables at a time.  The speeds are integers because *)
(* Speeds bounds them.                                                       *)

LEMMA FlagsStep == FlagsOK /\ [Next]_vars => FlagsOK'
<1> SUFFICES ASSUME FlagsOK, [Next]_vars PROVE FlagsOK'
  OBVIOUS
<1> USE DEF FlagsOK
<1>1. CASE UNCHANGED <<alive, flags>>
  BY <1>1 DEF flags
<1>2. CASE AlignWithoutOdom \/ CteWithoutMap
  BY <1>2, Zenon DEF AlignWithoutOdom, CteWithoutMap, Crash, flags
<1>3. CASE eStopcb
  BY <1>3, Zenon DEF eStopcb
<1>4. ASSUME NEW p \in Poses, odomcb(p)
      PROVE  FlagsOK'
  BY <1>4, Zenon DEF odomcb
<1>5. ASSUME NEW tr \in Trajectories, NEW r \in BOOLEAN, ReceiveTrajectory(tr, r)
      PROVE  FlagsOK'
  BY <1>5, Zenon DEF ReceiveTrajectory
<1>6. ASSUME NEW c \in Collisions, collisioncb(c)
      PROVE  FlagsOK'
  <2>1. c \in BOOLEAN
    BY TrackerAssumption
  <2>2. QED
    BY <1>6, <2>1, Zenon DEF collisioncb
<1>7. CASE CteNoTrajectory \/ CteTrajectoryDone \/ CteSolve \/ CteAskSAC
  BY <1>7, Zenon DEF CteNoTrajectory, CteTrajectoryDone, CteSolve, CteAskSAC
<1>8. CASE \/ mode_switchcb \/ distmapcb \/ CteDisabled \/ SACFails \/ Clock
           \/ StoreFirst \/ StoreSecond
  BY <1>1, <1>8 DEF mode_switchcb, distmapcb, CteDisabled, vars, SACFails, Clock,
                    StoreFirst, StoreSecond
<1>9. CASE \/ \E a \in AlphaMsgs : alphacb(a)
           \/ \E w \in AlignCmds : Align(w)
           \/ \E step \in AlphaSteps : SACAnswers(step)
           \/ \E s \in Services : Call(s)
           \/ publishVel \/ UNCHANGED vars
  BY <1>1, <1>9 DEF alphacb, Align, SACAnswers, Call, vars, publishVel, PubLoad, PubStore,
                    PubReadLinear, PubReadAngular, PubKeeps
<1>10. QED
  BY <1>2, <1>3, <1>4, <1>5, <1>6, <1>7, <1>8, <1>9
     DEF Next, CallbackThread, Topics, ControlLoop, SACReply, trajectorycb,
         trajectoryNoResetcb

LEMMA NodeStep == NodeOK /\ [Next]_vars => NodeOK'
<1> SUFFICES ASSUME NodeOK, [Next]_vars PROVE NodeOK'
  OBVIOUS
<1> USE DEF NodeOK
<1>0. /\ MaxElapsed \in Nat /\ NoTraj \in TrajectoryOrNone
      /\ MinAlpha \in Int /\ MaxAlpha \in Int /\ AlphaMsgs \subseteq Int
      /\ AlphaSteps \subseteq Int /\ Trajectories \subseteq TrajectoryOrNone
  BY TrackerAssumption DEF TrajectoryOrNone
<1>1. time \in 0 .. MaxElapsed
  BY <1>0 DEF time
<1>2. ASSUME NEW s \in Services, Call(s)
      PROVE  NodeOK'
  <2>1. s \in {"eStop", "switch_mode"}
    BY TrackerAssumption
  <2>2. QED
    BY <1>2, <2>1 DEF Call
<1>3. CASE eStopcb
  BY <1>0, <1>3 DEF eStopcb
<1>4. CASE mode_switchcb
  BY <1>4 DEF mode_switchcb, Core!MpcTypes
<1>5. ASSUME NEW tr \in Trajectories, NEW r \in BOOLEAN, ReceiveTrajectory(tr, r)
      PROVE  NodeOK'
  BY <1>0, <1>5 DEF ReceiveTrajectory
<1>6. CASE (\E p \in Poses : odomcb(p)) \/ (\E a \in AlphaMsgs : alphacb(a))
  BY <1>0, <1>6 DEF odomcb, alphacb
<1>7. CASE CteNoTrajectory \/ CteTrajectoryDone \/ CteSolve \/ CteAskSAC
  BY <1>0, <1>1, <1>7 DEF CteNoTrajectory, CteTrajectoryDone, CteSolve, CteAskSAC
<1>8. ASSUME NEW step \in AlphaSteps, SACAnswers(step)
      PROVE  NodeOK'
  BY <1>0, <1>8 DEF SACAnswers
<1>9. CASE Clock
  BY <1>0, <1>9 DEF Clock
<1>10. CASE UNCHANGED <<trajectory, pose, mpc_type, alpha, elapsed, request>>
  BY <1>10
<1>11. CASE \/ distmapcb \/ SACFails \/ StoreFirst \/ StoreSecond \/ AlignWithoutOdom
            \/ CteDisabled \/ CteWithoutMap
            \/ (\E c \in Collisions : collisioncb(c)) \/ (\E w \in AlignCmds : Align(w))
  BY <1>10, <1>11 DEF distmapcb, SACFails, StoreFirst, StoreSecond, AlignWithoutOdom,
                      CteDisabled, CteWithoutMap, Crash, vars, collisioncb, Align
<1>12. CASE publishVel \/ UNCHANGED vars
  BY <1>10, <1>12 DEF vars, publishVel, PubLoad, PubStore, PubReadLinear, PubReadAngular,
                      PubKeeps
<1>13. QED
  BY <1>2, <1>3, <1>4, <1>5, <1>6, <1>7, <1>8, <1>9, <1>11, <1>12
     DEF Next, CallbackThread, Topics, ControlLoop, SACReply, trajectorycb,
         trajectoryNoResetcb

LEMMA CoreTypeStep == Speeds /\ CoreOK /\ [Next]_vars => CoreOK'
<1> SUFFICES ASSUME Speeds, CoreOK, [Next]_vars PROVE CoreOK'
  OBVIOUS
<1>0. curr_vel' \in Int /\ curr_ang_vel' \in Int
  BY SpeedsStep, Ranges DEF Speeds, AngRange
<1>1. Trajectories \subseteq TrajectoryOrNone /\ AlphaMsgs \subseteq Int
  BY TrackerAssumption DEF TrajectoryOrNone
<1> USE DEF CoreOK
<1>2. CASE CteSolve
  BY <1>0, <1>2, Zenon DEF CteSolve, SolveAndCommand, core_input
<1>3. ASSUME NEW step \in AlphaSteps, SACAnswers(step)
      PROVE  CoreOK'
  <2>1. core_alpha' \in Int
    BY <1>3, TrackerAssumption DEF SACAnswers
  <2>2. QED
    BY <1>0, <1>3, <2>1, Zenon DEF SACAnswers, SolveAndCommand
<1>4. ASSUME NEW tr \in Trajectories, NEW r \in BOOLEAN, ReceiveTrajectory(tr, r)
      PROVE  CoreOK'
  BY <1>1, <1>4, Zenon DEF ReceiveTrajectory, core_vars
<1>5. CASE distmapcb
  BY <1>5, Zenon DEF distmapcb, core_vars
<1>6. ASSUME NEW p \in Poses, odomcb(p)
      PROVE  CoreOK'
  BY <1>6 DEF odomcb, core_vars
<1>7. ASSUME NEW a \in AlphaMsgs, alphacb(a)
      PROVE  CoreOK'
  BY <1>1, <1>7, Zenon DEF alphacb, core_vars
<1>8. CASE UNCHANGED <<core_vars, core_input>>
  BY <1>8 DEF core_vars, core_input
<1>9. CASE \/ eStopcb \/ mode_switchcb \/ SACFails \/ StoreFirst \/ StoreSecond \/ Clock
           \/ AlignWithoutOdom \/ CteDisabled \/ CteWithoutMap \/ CteNoTrajectory
           \/ CteTrajectoryDone \/ CteAskSAC
  BY <1>8, <1>9 DEF eStopcb, mode_switchcb, SACFails, StoreFirst, StoreSecond, Clock,
     AlignWithoutOdom, CteDisabled, CteWithoutMap, CteNoTrajectory, CteTrajectoryDone,
     CteAskSAC, Crash, vars
<1>10. CASE \/ \E c \in Collisions : collisioncb(c)
            \/ \E w \in AlignCmds : Align(w)
            \/ \E s \in Services : Call(s)
            \/ publishVel \/ UNCHANGED vars
  BY <1>8, <1>10 DEF collisioncb, Align, Call, vars, publishVel, PubLoad, PubStore,
                     PubReadLinear, PubReadAngular, PubKeeps
<1>11. QED
  BY <1>2, <1>3, <1>4, <1>5, <1>6, <1>7, <1>9, <1>10
     DEF Next, CallbackThread, Topics, ControlLoop, SACReply, trajectorycb,
         trajectoryNoResetcb

LEMMA LogTypeStep == FlagsOK /\ LogOK /\ [Next]_vars => LogOK'
<1> SUFFICES ASSUME FlagsOK, LogOK, [Next]_vars PROVE LogOK'
  OBVIOUS
<1>1. CASE UNCHANGED log_vars
  BY <1>1 DEF LogOK, log_vars
<1>2. CASE LogTransition
  <2>1. fresh_rl \in 0 .. 2
    BY DEF LogOK, fresh_rl
  <2>2. (is_done \/ is_colliding) \in BOOLEAN
    BY Zenon DEF LogOK, FlagsOK
  <2>3. prev_rl' \in 0 .. 2 /\ rl_id' \in 0 .. 2
    BY <1>2, <2>1 DEF LogTransition, Record, LogOK
  <2>4. is_done' \in BOOLEAN /\ is_first_iter' \in BOOLEAN
    BY <1>2, <2>2, Zenon DEF LogTransition, Record
  <2>5. row' \in [prev : 0 .. 2, curr : 0 .. 2, done : BOOLEAN]
    BY <1>2, <2>1, <2>2 DEF LogTransition, Record, LogOK
  <2>6. QED
    BY <2>3, <2>4, <2>5, Zenon DEF LogOK
<1>3. CASE Quiet
  BY <1>1, <1>3 DEF Quiet
<1>4. CASE CteSolve \/ \E step \in AlphaSteps : SACAnswers(step)
  BY <1>2, <1>4 DEF CteSolve, SACAnswers, SolveAndCommand
<1>5. CASE \/ \E tr \in Trajectories, r \in BOOLEAN : ReceiveTrajectory(tr, r)
           \/ \E w \in AlignCmds : Align(w)
           \/ eStopcb \/ mode_switchcb \/ CteTrajectoryDone \/ CteAskSAC \/ SACFails
           \/ StoreFirst \/ StoreSecond \/ publishVel
  BY <1>1, <1>5 DEF ReceiveTrajectory, Align, eStopcb, mode_switchcb, CteTrajectoryDone,
     CteAskSAC, SACFails, StoreFirst, StoreSecond, publishVel, PubLoad, PubStore,
     PubReadLinear, PubReadAngular, PubKeeps
<1>6. QED
  BY <1>3, <1>4, <1>5, QuietActions
     DEF Next, CallbackThread, Topics, ControlLoop, SACReply, trajectorycb,
         trajectoryNoResetcb

\* The callback thread's position and the stores it has left.
LEMMA VelTypeStep == Speeds /\ VelOK /\ [Next]_vars => VelOK'
<1> SUFFICES ASSUME Speeds, VelOK, [Next]_vars PROVE VelOK'
  OBVIOUS
<1>0. vel_lin' \in Int /\ vel_ang' \in Int
  BY SpeedsStep, Ranges DEF Speeds
<1> USE DEF VelOK
<1>1. ASSUME NEW first \in {"lin", "ang"}, NEW lin \in Int, NEW ang \in Int,
             LeaveStores(first, lin, ang)
      PROVE  VelOK'
  BY <1>0, <1>1 DEF LeaveStores
<1>2. CASE eStopcb \/ mode_switchcb \/ CteTrajectoryDone
  BY <1>1, <1>2 DEF eStopcb, mode_switchcb, CteTrajectoryDone
<1>3. ASSUME NEW w \in AlignCmds, Align(w)
      PROVE  VelOK'
  BY <1>1, <1>3, TrackerAssumption DEF Align
<1>4. ASSUME SolveAndCommand
      PROVE  VelOK'
  <2>1. curr_vel' \in Int /\ curr_ang_vel' \in Int
    BY <1>4, SolveSpeeds, Ranges DEF AngRange
  <2>2. LeaveStores("ang", curr_vel', curr_ang_vel')
    BY <1>4 DEF SolveAndCommand
  <2>3. QED
    BY <1>1, <2>1, <2>2
<1>5. CASE CteSolve \/ \E step \in AlphaSteps : SACAnswers(step)
  BY <1>4, <1>5 DEF CteSolve, SACAnswers
<1>6. CASE CteAskSAC \/ SACFails \/ StoreFirst \/ StoreSecond
  BY <1>0, <1>6 DEF CteAskSAC, SACFails, StoreFirst, StoreSecond
<1>7. CASE Quiet \/ publishVel
  BY <1>0, <1>7 DEF Quiet, publishVel, PubLoad, PubStore, PubReadLinear, PubReadAngular,
                    PubKeeps
<1>8. ASSUME NEW tr \in Trajectories, NEW r \in BOOLEAN, ReceiveTrajectory(tr, r)
      PROVE  VelOK'
  BY <1>0, <1>8 DEF ReceiveTrajectory, NoStores
<1>9. QED
  BY <1>2, <1>3, <1>5, <1>6, <1>7, <1>8, QuietActions
     DEF Next, CallbackThread, Topics, ControlLoop, SACReply, trajectorycb,
         trajectoryNoResetcb

\* The publisher's position and registers.
LEMMA PubTypeStep == Speeds /\ PubOK /\ [Next]_vars => PubOK'
<1> SUFFICES ASSUME Speeds, PubOK, [Next]_vars PROVE PubOK'
  OBVIOUS
<1>1. /\ reg_ang' \in Int /\ reg_lin' \in Int /\ cmd_lin' \in Int /\ cmd_ang' \in Int
  BY SpeedsStep, Ranges DEF Speeds
<1>2. CASE UNCHANGED pub
  BY <1>1, <1>2 DEF PubOK
<1>3. CASE publishVel
  BY <1>1, <1>3 DEF PubOK, publishVel, PubLoad, PubStore, PubReadLinear, PubReadAngular
<1>4. CASE Quiet
  BY <1>2, <1>4 DEF Quiet, pub_vars
<1>5. CASE \/ \E tr \in Trajectories, r \in BOOLEAN : ReceiveTrajectory(tr, r)
           \/ \E w \in AlignCmds : Align(w)
           \/ \E step \in AlphaSteps : SACAnswers(step)
           \/ eStopcb \/ mode_switchcb \/ CteTrajectoryDone \/ CteSolve \/ CteAskSAC
           \/ SACFails \/ StoreFirst \/ StoreSecond
  BY <1>2, <1>5 DEF ReceiveTrajectory, Align, SACAnswers, eStopcb, mode_switchcb,
     CteTrajectoryDone, CteSolve, CteAskSAC, SACFails, StoreFirst, StoreSecond, pub_vars
<1>6. QED
  BY <1>3, <1>4, <1>5, QuietActions
     DEF Next, CallbackThread, Topics, ControlLoop, SACReply, trajectorycb,
         trajectoryNoResetcb

LEMMA TypesInit == Init => TypeOK
<1> SUFFICES ASSUME Init PROVE TypeOK
  OBVIOUS
<1>0. MaxElapsed \in 0 .. MaxElapsed /\ InitAlpha \in Int
  BY TrackerAssumption
<1>1. FlagsOK
  BY Zenon DEF Init, FlagsOK
<1>2. NodeOK
  BY <1>0 DEF Init, Core!Init, NodeOK, TrajectoryOrNone
<1>3. CoreOK
  <2>1. curr_vel \in Int /\ curr_ang_vel \in Int
    BY DEF Init, Core!Init
  <2>2. QED
    BY <1>0, <2>1, Zenon DEF Init, Core!Init, CoreOK, TrajectoryOrNone
<1>4. LogOK
  <2>1. 0 \in 0 .. 2
    OBVIOUS
  <2>2. QED
    BY <2>1, Zenon DEF Init, LogOK, NoRow
<1>5. VelOK /\ PubOK
  BY DEF Init, VelOK, PubOK
<1>6. QED
  BY <1>1, <1>2, <1>3, <1>4, <1>5 DEF TypeOK

\* Every variable of the tracker keeps its type, the learning state and every alpha
\* included.
THEOREM TypesOK == Spec => []TypeOK
<1>1. TypeOK /\ Speeds /\ [Next]_vars => TypeOK'
  BY FlagsStep, NodeStep, CoreTypeStep, LogTypeStep, VelTypeStep, PubTypeStep DEF TypeOK
<1>2. QED
  BY <1>1, TypesInit, SpeedsInvariance, PTL DEF Spec
=============================================================================
