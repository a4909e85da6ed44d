----------------------------- MODULE ControlLoop -----------------------------
(***************************************************************************)
(* The core with the optimiser it owns: JackalMPCCore::solve calls the     *)
(* Solve of its class, which builds a problem, has it solved, keeps the    *)
(* horizon for the publisher and for the next warm start, and answers with *)
(* the first inputs; load_params and set_dist_map reach the optimiser      *)
(* through the core while it runs.                                         *)
(*                                                                         *)
(* What the numerical solver finds is not modelled: its solution is the    *)
(* vector whose element j is called j.  A kept value is the j it was taken *)
(* from, or one of the tags below.  An access outside a vector, or through *)
(* a map that is not there, is undefined behaviour and ends the model.     *)
(***************************************************************************)
EXTENDS MPCCore, SafetyFilters

CONSTANTS
  Types,        \* the optimisers the core may be built with
  StepsSet      \* the values STEPS may have

ASSUME LoopAssumption ==
  /\ Types \subseteq MpcTypes
  /\ StepsSet \subseteq Nat \ {0, 1}
  /\ 0 \in LinResults /\ 0 \in AngResults

Zero == -1        \* a value set to 0
Measured == -2    \* a value of the state the core measured
Reference == -3   \* a value of the reference trajectory
Alpha == -4       \* the alpha of the parameters

VARIABLES
  steps,       \* _mpc_steps
  use_cbf,     \* use_cbf: USE_CBF
  dynamic,     \* use_dynamic_alpha: CBF_DYNAMIC_ALPHA, with a barrier only
  has_map,     \* dist_grid_ptr is not null
  mpc,         \* mpc_x, mpc_y, ..., mpc_linaccs: the horizon by cell, or empty
  prev_x0,     \* CBFHorizon's last solution by index, or empty
  answer,      \* _mpc_results as Solve returned them
  last,        \* what happened to the optimiser last
  running      \* "up", "exited" by exit(0), or "undefined"

optVars == <<steps, use_cbf, dynamic, has_map, mpc, prev_x0, answer, last, running>>
params == <<steps, use_cbf, dynamic>>

NoValues == [c \in {} |-> Zero]

-----------------------------------------------------------------------------
(* What each Solve touches: the cells of its limits, its objective, its    *)
(* guess and its equations, and the rows of the equations.                 *)

MPC_defined ==
  LET es == equations(MPC_states, steps, TRUE)
      index(c) == MPC_index(c, steps)
      row(e) == MPC_row(e, steps)
  IN  /\ Within(index, MPC_costs(steps) \union UNION { MPC_reads(e) : e \in es },
                n_vars(MPC_states, steps))
      /\ Within(row, es, MPC_n_constraints(steps))

MPC_ACC_defined ==
  LET es == equations(MPC_ACC_states, steps, use_cbf)
      index(c) == MPC_ACC_index(c, steps)
      row(e) == MPC_ACC_row(e, steps)
  IN  /\ use_cbf => has_map
      /\ Within(index, MPC_ACC_costs(steps) \union UNION { MPC_ACC_reads(e) : e \in es },
                n_vars(MPC_ACC_states, steps))
      /\ Within(row, es, MPC_ACC_n_constraints(steps, use_cbf))

\* CBFHorizon asks the map for the distance before it tests whether there is a map;
\* alpha is one variable more.
CBFHorizon_n_vars == n_vars(CBFHorizon_states, steps) + (IF dynamic /\ has_map THEN 1 ELSE 0)

CBFHorizon_defined(barrier) ==
  LET es == equations(CBFHorizon_states, steps, barrier)
      cs == CBFHorizon_cells(steps, dynamic) \union CBFHorizon_costs(steps, dynamic)
              \union UNION { CBFHorizon_reads(e, dynamic) : e \in es }
      index(c) == CBFHorizon_index(c, dynamic)
      row(e) == CBFHorizon_row(e, steps, dynamic)
  IN  /\ has_map
      /\ Within(index, cs, CBFHorizon_n_vars)
      /\ Within(row, equations(CBFHorizon_states, steps, FALSE),
                CBFHorizon_n_constraints(steps, FALSE))

MPCNLOPT_defined ==
  LET es == equations(MPCNLOPT_states, steps, FALSE)
      index(c) == MPCNLOPT_index(c, steps)
      row(e) == MPCNLOPT_row(e, steps)
      n == n_vars(MPCNLOPT_states, steps)
  IN  /\ MPCNLOPT_limited(steps) \subseteq 0 .. n - 1
      /\ Within(index, MPCNLOPT_costs(steps) \union UNION { MPCNLOPT_reads(e) : e \in es }, n)
      /\ Within(row, es, MPCNLOPT_n_constraints(steps))

-----------------------------------------------------------------------------
(* Warm starts: what the solver is given to begin with, by index.          *)

\* MPC_ACC begins with zeros, the measured state, and the horizon it kept.
MPC_ACC_guess ==
  LET at(b, i) == MPC_ACC_index(<<b, i>>, steps)
      kept == { c \in DOMAIN mpc : c[2] >= 1 \/ c[1] \in MPC_ACC_inputs }
  IN  [ j \in 0 .. n_vars(MPC_ACC_states, steps) - 1 |->
          IF \E c \in kept : MPC_ACC_index(c, steps) = j
          THEN mpc[CHOOSE c \in kept : MPC_ACC_index(c, steps) = j]
          ELSE IF \E b \in MPC_ACC_states : at(b, 0) = j THEN Measured ELSE Zero ]

\* CBFHorizon begins with its last solution, or with the reference; the measured state
\* and alpha are written over it.
CBFHorizon_guess ==
  LET at(b, i) == CBFHorizon_index(<<b, i>>, dynamic)
      referenced == ((Poses \union {"v"}) \X (0 .. steps - 1))
                      \union ({"linacc"} \X (0 .. steps - 2))
  IN  [ j \in 0 .. CBFHorizon_n_vars - 1 |->
          IF \E b \in CBFHorizon_states : at(b, 0) = j THEN Measured
          ELSE IF dynamic /\ at("alpha", 0) = j THEN Alpha
          ELSE IF prev_x0 # NoValues THEN prev_x0[j]
          ELSE IF \E c \in referenced : CBFHorizon_index(c, dynamic) = j THEN Reference
          ELSE Zero ]

-----------------------------------------------------------------------------
(* The horizons kept, by cell, after a solve.                              *)

MPC_horizon == [c \in cells(Poses, MPC_inputs, steps) |-> MPC_index(c, steps)]

\* Two slips: the speeds kept are the next block's; the horizon is kept before the first
\* inputs of a failed solve are set to zero.
MPC_ACC_horizonMixed(ok) ==
  [c \in cells(MPC_ACC_states, MPC_ACC_inputs, steps) |->
     MPC_ACC_index(<<IF c[1] = "v" THEN "cte" ELSE c[1], c[2]>>, steps)]
MPC_ACC_horizonEarly(ok) ==
  [c \in cells(MPC_ACC_states, MPC_ACC_inputs, steps) |-> MPC_ACC_index(c, steps)]

\* A failed solve answers zeros; the rest of what the solver returned is kept.
MPC_ACC_horizon(ok) ==
  [c \in cells(MPC_ACC_states, MPC_ACC_inputs, steps) |->
     IF ~ok /\ c \in {<<"angvel", 0>>, <<"linacc", 0>>} THEN Zero ELSE MPC_ACC_index(c, steps)]

CBFHorizon_horizon ==
  [c \in cells(Poses \union {"v"}, MPC_ACC_inputs, steps) |-> CBFHorizon_index(c, dynamic)]

\* The horizon LoadParams leaves: CBFHorizon fills it with zeros.
CBFHorizon_zeros(N) == [c \in cells(Poses \union {"v"}, MPC_ACC_inputs, N) |-> Zero]

\* JackalMPCCore::getHorizon: the rows published, a step each; with accelerations the
\* last step has none and is left out.
getHorizon ==
  IF mpc = NoValues THEN NoValues
  ELSE IF core_type = "track_vel_ipopt"
       THEN [i \in 0 .. steps - 1 |-> { mpc[<<b, i>>] : b \in Poses }]
       ELSE [i \in 0 .. steps - 2 |-> { mpc[<<b, i>>] : b \in Poses \union {"v", "linacc"} }]

\* publishMPCTrajectory: what the planner is sent, a point per row, unless the rows are
\* poses or there is only one.  The jerk of a point is taken from its acceleration and
\* the next one's; the last has none.
publishMPCTrajectory ==
  IF core_type = "track_vel_ipopt" \/ ~(1 \in DOMAIN getHorizon) THEN NoValues
  ELSE [i \in DOMAIN getHorizon |->
          [time  |-> i + 1,
           state |-> getHorizon[i],
           jerk  |-> IF i + 1 \in DOMAIN getHorizon
                     THEN <<mpc[<<"linacc", i + 1>>], mpc[<<"linacc", i>>]>> ELSE <<Zero, Zero>>]]

-----------------------------------------------------------------------------

\* The optimiser as its constructor and LoadParams leave it.
OptInit ==
  /\ core_type \in Types
  /\ steps \in StepsSet
  /\ use_cbf \in BOOLEAN
  /\ dynamic \in {FALSE, use_cbf /\ core_type = "track_acc_nlopt"}
  /\ has_map = FALSE
  /\ mpc = IF core_type = "track_acc_nlopt" THEN CBFHorizon_zeros(steps) ELSE NoValues
  /\ prev_x0 = NoValues
  /\ answer = <<Zero, Zero>>
  /\ last = "loaded"
  /\ running = "up"

LoopInit == Init /\ OptInit

SetReference ==
  /\ running = "up"
  /\ set_reference
  /\ UNCHANGED optVars

SetReferenceList(size) ==
  /\ running = "up"
  /\ set_reference_list(size)
  /\ UNCHANGED optVars

\* set_dist_map reaches the classes that look at the map.
SetDistMap ==
  /\ running = "up"
  /\ has_map' = (has_map \/ core_type \in {"track_acc_ipopt", "track_acc_nlopt"})
  /\ UNCHANGED <<params, mpc, prev_x0, answer, last, running, coreVars>>

\* set_dist_map from Python, which makes the map of a grid first and may fail.
SetDistMapFromGrid(processed) ==
  /\ running = "up"
  /\ has_map' = (has_map \/ (processed /\ core_type \in {"track_acc_ipopt", "track_acc_nlopt"}))
  /\ UNCHANGED <<params, mpc, prev_x0, answer, last, running, coreVars>>

\* load_params while the loop runs, for a new CBF_ALPHA: the horizon of CBFHorizon is
\* lost, its last solution is not.
LoadParams ==
  /\ running = "up"
  /\ mpc' = IF core_type = "track_acc_nlopt" THEN CBFHorizon_zeros(steps) ELSE mpc
  /\ last' = "loaded"
  /\ UNCHANGED <<params, has_map, prev_x0, answer, running, coreVars>>

\* solve() in a mode that needs a reference, before there is one.
WithoutReference ==
  /\ running = "up"
  /\ solveWithoutReference
  /\ UNCHANGED optVars

Ends(how) ==
  /\ running' = how
  /\ UNCHANGED <<params, has_map, mpc, prev_x0, answer, last, coreVars>>

\* evaluateHFunction: MPC_ACC reads the horizon's first values, also when there is none.
EvaluateHFunction ==
  /\ running = "up"
  /\ running' = IF core_type = "track_acc_ipopt" /\ mpc = NoValues THEN "undefined" ELSE "up"
  /\ last' = IF running' = "up" THEN last ELSE "evaluated"
  /\ UNCHANGED <<params, has_map, mpc, prev_x0, answer, coreVars>>

\* A slip: the zeros of a failed solve stop the robot at once.
TakeStopping(ok, result) ==
  /\ answer' = result
  /\ last' = IF ok THEN "solved" ELSE "failed"
  /\ IF ok THEN \E lin \in LinResults, ang \in AngResults, overrun \in BOOLEAN :
                  solve(lin, ang, overrun)
     ELSE /\ curr_vel' = 0 /\ curr_ang_vel' = 0
          /\ UNCHANGED <<core_type, has_reference>>
  /\ UNCHANGED <<params, has_map, running>>

\* The core takes the answer of the optimiser: what the solver found, or two zeros.
Take(ok, result) ==
  /\ answer' = result
  /\ last' = IF ok THEN "solved" ELSE "failed"
  /\ \E lin \in IF ok THEN LinResults ELSE {0}, ang \in IF ok THEN AngResults ELSE {0},
        overrun \in BOOLEAN : solve(lin, ang, overrun)
  /\ UNCHANGED <<params, has_map, running>>

\* MPC::Solve ends the program when the solver fails.
SolveMPC(ok) ==
  /\ running = "up" /\ core_type = "track_vel_ipopt" /\ has_reference
  /\ \/ ~MPC_defined /\ Ends("undefined")
     \/ MPC_defined /\ ~ok /\ Ends("exited")
     \/ /\ MPC_defined /\ ok
        /\ mpc' = MPC_horizon
        /\ Take(ok, <<MPC_index(<<"angvel", 0>>, steps), MPC_index(<<"linvel", 0>>, steps)>>)
        /\ UNCHANGED prev_x0

SolveMPC_ACC(ok) ==
  /\ running = "up" /\ core_type = "track_acc_ipopt" /\ has_reference
  /\ \/ ~MPC_ACC_defined /\ Ends("undefined")
     \/ /\ MPC_ACC_defined
        /\ mpc' = MPC_ACC_horizon(ok)
        /\ LET at(b) == IF ok THEN MPC_ACC_index(<<b, 0>>, steps) ELSE Zero
           IN  Take(ok, <<at("angvel"), at("linacc")>>)
        /\ UNCHANGED prev_x0

\* CBFHorizon::Solve leaves out the barrier far from every obstacle; when NLOPT throws
\* it returns at once and keeps what it had.
SolveCBFHorizon(ok, near) ==
  /\ running = "up" /\ core_type = "track_acc_nlopt" /\ has_reference
  /\ \/ ~CBFHorizon_defined(use_cbf /\ near) /\ Ends("undefined")
     \/ /\ CBFHorizon_defined(use_cbf /\ near) /\ ~ok
        /\ Take(ok, <<Zero, Zero>>)
        /\ UNCHANGED <<mpc, prev_x0>>
     \/ /\ CBFHorizon_defined(use_cbf /\ near) /\ ok
        /\ mpc' = CBFHorizon_horizon
        /\ prev_x0' = [j \in 0 .. CBFHorizon_n_vars - 1 |-> j]
        /\ LET at(b) == CBFHorizon_index(<<b, 0>>, dynamic)
           IN  Take(ok, <<at("angvel"), at("linacc")>>)

\* MPCNLOPT::Solve_gtg prints what it found and ends the program.
SolveMPCNLOPT ==
  /\ running = "up" /\ core_type = "goto_pos_nlopt"
  /\ Ends(IF MPCNLOPT_defined THEN "exited" ELSE "undefined")

LoopNext ==
  \/ SetReference
  \/ \E size \in ListSizes : SetReferenceList(size)
  \/ SetDistMap
  \/ \E processed \in BOOLEAN : SetDistMapFromGrid(processed)
  \/ LoadParams
  \/ EvaluateHFunction
  \/ WithoutReference
  \/ \E ok \in BOOLEAN :
       \/ SolveMPC(ok)
       \/ SolveMPC_ACC(ok)
       \/ \E near \in BOOLEAN : SolveCBFHorizon(ok, near)
  \/ SolveMPCNLOPT

LoopSpec == LoopInit /\ [][LoopNext]_<<coreVars, optVars>>

-----------------------------------------------------------------------------

\* The Solves no core calls and the safety filters, for every length of the horizon; see
\* OtherSolves and SafetyFilters.
UncalledOwnRows == \A N \in StepsSet : POS_MPCOwnRows(N) /\ MPCNLOPTOwnRows(N) /\ FiltersOwnRows(N)
UncalledAnswer == FiltersAnswer /\ FiltersGradient /\ \A N \in StepsSet : OthersAnswer(N)
UncalledOverrun == \A N \in StepsSet : OthersOverrun(N) /\ FiltersOverrun(N)

\* No value of the horizon shares a variable with another, and each is bounded by the
\* limits of its own block: an index one off would bound an angular velocity by the
\* limits of an acceleration (the starts and the loops over them are written three times
\* per class).
AskedLimits ==
  /\ MPCNLOPTOwnLimits(steps)
  /\ core_type = "track_vel_ipopt" =>
         LET index(c) == MPC_index(c, steps)  limits(i) == MPC_limits(i, steps)
         IN  OwnLimits(index, limits, cells(MPC_states, MPC_inputs, steps))
  /\ core_type = "track_acc_ipopt" =>
         LET index(c) == MPC_ACC_index(c, steps)  limits(i) == MPC_ACC_limits(i, steps)
         IN  OwnLimits(index, limits, cells(MPC_ACC_states, MPC_ACC_inputs, steps))
  /\ core_type = "track_acc_nlopt" =>
         \A c, d \in CBFHorizon_cells(steps, dynamic) :
           CBFHorizon_index(c, dynamic) = CBFHorizon_index(d, dynamic) => c = d

\* Every equation has a row of its own, with the limits of its kind, and no row is left
\* without an equation but the first one-sided row of the IPOPT classes, which N - 1
\* barriers leave where N rows were asked for.
MPCOwnRows ==
  LET row(e) == MPC_row(e, steps)  limits(r) == MPC_row_limits(r, steps)
  IN  OwnRows(row, limits, equations(MPC_states, steps, TRUE),
              MPC_n_constraints(steps), {5 * steps})

MPC_ACCOwnRows ==
  LET row(e) == MPC_ACC_row(e, steps)  limits(r) == MPC_ACC_row_limits(r, steps, use_cbf)
  IN  OwnRows(row, limits, equations(MPC_ACC_states, steps, use_cbf),
              MPC_ACC_n_constraints(steps, use_cbf), IF use_cbf THEN {6 * steps} ELSE {})

CBFHorizonOwnRows(barrier) ==
  LET row(e) == CBFHorizon_row(e, steps, FALSE)  limits(r) == CBFHorizon_row_limits(r, steps)
  IN  OwnRows(row, limits, equations(CBFHorizon_states, steps, barrier),
              CBFHorizon_n_constraints(steps, barrier), {})

EquationsOwnRows ==
  /\ UncalledOwnRows
  /\ core_type = "track_vel_ipopt" => MPCOwnRows
  /\ core_type = "track_acc_ipopt" => MPC_ACCOwnRows
  /\ core_type = "track_acc_nlopt" /\ dynamic = FALSE =>
       \A barrier \in BOOLEAN : CBFHorizonOwnRows(barrier)

\* A warm start gives every variable the value the last solution had for that same
\* variable, through the vectors mpc_x .. mpc_linaccs and back; only the measured state
\* and what a failed solve zeroed differ.
WarmStartAligned ==
  CASE core_type = "track_acc_ipopt" /\ mpc # NoValues ->
         \A j \in DOMAIN MPC_ACC_guess :
           \/ MPC_ACC_guess[j] = j
           \/ MPC_ACC_guess[j] = Measured /\ \E b \in MPC_ACC_states : MPC_ACC_start(b, steps) = j
           \/ MPC_ACC_guess[j] = Zero /\ answer = <<Zero, Zero>>
                /\ \E b \in MPC_ACC_inputs : MPC_ACC_start(b, steps) = j
    [] core_type = "track_acc_nlopt" /\ prev_x0 # NoValues ->
         \A j \in DOMAIN CBFHorizon_guess : CBFHorizon_guess[j] \in {j, Measured}
    [] OTHER -> TRUE

\* The first inputs of the horizon that is published are those the core was answered
\* with, unless CBFHorizon failed or was given new parameters since it last solved: its
\* horizon is then that of an earlier solve, or zeros (the hazard of a reload followed by
\* a failure), while the core brakes with the zeros of the answer.  What the planner is
\* sent begins with the same inputs, and has the second point mpcHorizoncb reads untested.
\* What no core calls answers and keeps what UncalledAnswer says.
AnswerHeadsHorizon ==
  /\ UncalledAnswer
  /\ \/ mpc = NoValues
     \/ core_type = "track_acc_nlopt" /\ last # "solved"
     \/ /\ answer = <<mpc[<<"angvel", 0>>],
                      mpc[<<IF core_type = "track_vel_ipopt" THEN "linvel" ELSE "linacc", 0>>]>>
        /\ core_type # "track_vel_ipopt" => answer[2] \in getHorizon[0]
        /\ publishMPCTrajectory # NoValues =>
             /\ 1 \in DOMAIN publishMPCTrajectory
             /\ publishMPCTrajectory[0].jerk[2] = answer[2]
             /\ publishMPCTrajectory[0].jerk[1] \in publishMPCTrajectory[1].state

\* The loop ends or leaves defined behaviour only in these ways: track_vel_ipopt when its
\* solver fails, a barrier or CBFHorizon before the first map, a dynamic alpha (steps 9
\* apart in a vector laid out for 8), the barrier asked of track_acc_ipopt before it ever
\* solved, and goto_pos_nlopt always.  In particular no other
\* combination of class, horizon and parameters reads or writes outside its vectors.  The
\* Solves no core calls would leave theirs in the cases of UncalledOverrun.
StopsForKnownCauses ==
  /\ UncalledOverrun
  /\ running = "exited" => core_type = "track_vel_ipopt"
  /\ running = "undefined" =>
       \/ core_type = "track_acc_ipopt" /\ last = "evaluated" /\ mpc = NoValues
       \/ core_type = "goto_pos_nlopt"
       \/ core_type = "track_acc_nlopt" /\ (dynamic \/ ~has_map)
       \/ core_type = "track_acc_ipopt" /\ use_cbf /\ ~has_map
=============================================================================
