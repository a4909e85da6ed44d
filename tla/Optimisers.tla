----------------------------- MODULE Optimisers -----------------------------
(***************************************************************************)
(* The four optimisers a JackalMPCCore may be built with: MPC              *)
(* (track_vel_ipopt), MPC_ACC (track_acc_ipopt), CBFHorizon                *)
(* (track_acc_nlopt) and MPCNLOPT (goto_pos_nlopt).  Each hands IPOPT or   *)
(* NLOPT one flat vector of variables, and speaks of "the angular velocity *)
(* of step i" only through an index into that vector and of "the dynamics  *)
(* of step i" only through a row of the constraints.  This module holds    *)
(* that arithmetic: how the vector is laid out, which limits each variable *)
(* gets, which row each equation is written to and what limits the rows    *)
(* have.  N is _mpc_steps.                                                 *)
(*                                                                         *)
(* A cell <<b, i>> is block b ("x", "theta", "linacc", ...) at step i of   *)
(* the horizon.  An equation <<"initial", b, 0>> ties a state to the       *)
(* measured one, <<"dynamics", b, i>> ties it at step i + 1 to step i, and *)
(* <<"barrier", "h", i>> keeps step i clear of the obstacles.              *)
(***************************************************************************)
EXTENDS Integers

-----------------------------------------------------------------------------
(* Cells: the values an optimiser decides.                                 *)

Poses == {"x", "y", "theta"}
Errors == {"cte", "etheta"}

MPC_states == Poses \union Errors
MPC_ACC_states == Poses \union {"v"} \union Errors
CBFHorizon_states == MPC_ACC_states
MPCNLOPT_states == Poses \union {"v"}

MPC_inputs == {"angvel", "linvel"}
MPC_ACC_inputs == {"angvel", "linacc"}

\* Every element of cs has an index in a vector of n.
Within(index(_), cs, n) == \A c \in cs : index(c) \in 0 .. n - 1

cells(states, inputs, N) == (states \X (0 .. N - 1)) \union (inputs \X (0 .. N - 2))

\* A slip: the inputs of one step too few are counted.
n_varsShort(states, N) ==
  N * (CASE states = MPC_states      -> 5
         [] states = MPCNLOPT_states -> 4
         [] OTHER                    -> 6) + (N - 2) * 2

\* n_vars: a value per state and step, and per input and change of step.
n_vars(states, N) ==
  N * (CASE states = MPC_states      -> 5
         [] states = MPCNLOPT_states -> 4
         [] OTHER                    -> 6) + (N - 1) * 2

-----------------------------------------------------------------------------
(* Starts: where a block begins.                                           *)

MPC_start(b, N) ==
  [x |-> 0, y |-> N, theta |-> 2 * N, cte |-> 3 * N, etheta |-> 4 * N,
   angvel |-> 5 * N, linvel |-> 6 * N - 1][b]

MPC_ACC_start(b, N) ==
  [x |-> 0, y |-> N, theta |-> 2 * N, v |-> 3 * N, cte |-> 4 * N, etheta |-> 5 * N,
   angvel |-> 6 * N, linacc |-> 7 * N - 1][b]

\* FG_eval, which writes the equations, computes the starts again from the same STEPS.
MPC_fg_start(b, N) == MPC_start(b, N)
MPC_ACC_fg_start(b, N) == MPC_ACC_start(b, N)

\* CBFHorizon keeps the values of one step together; with use_dynamic_alpha the
\* steps lie one further apart, to make room for alpha after those of step 0.
CBFHorizon_start(b) ==
  [x |-> 0, y |-> 1, theta |-> 2, v |-> 3, cte |-> 4, etheta |-> 5,
   angvel |-> 6, linacc |-> 7, alpha |-> 8][b]
ind_inc(dynamic) == IF dynamic THEN 9 ELSE 8

\* MPCNLOPT as the core builds it, with _is_pos false: room for the blocks cte and
\* etheta, which the state the core gives it does not have.
MPCNLOPT_start(b, N) == MPC_ACC_start(b, N)

-----------------------------------------------------------------------------
(* Variables: where a cell is, and the limits each variable is given.      *)

MPC_index(c, N) == MPC_start(c[1], N) + c[2]
MPC_ACC_index(c, N) == MPC_ACC_start(c[1], N) + c[2]
CBFHorizon_index(c, dynamic) == CBFHorizon_start(c[1]) + ind_inc(dynamic) * c[2]
MPCNLOPT_index(c, N) == MPCNLOPT_start(c[1], N) + c[2]

\* The limits of a block: the speed and the inputs are bounded, the rest is free.
\* CBFHorizon and the property AskedLimits name them by block, the other classes by
\* ranges of the index.
block_limits(b) ==
  [x |-> "free", y |-> "free", theta |-> "free", v |-> "max_linvel", cte |-> "free",
   etheta |-> "free", angvel |-> "max_angvel", linvel |-> "forward",
   linacc |-> "max_linacc", alpha |-> "alpha"][b]

MPC_limits(i, N) ==
  IF i >= MPC_start("linvel", N) THEN "forward"
  ELSE IF i >= MPC_start("angvel", N) THEN "max_angvel"
  ELSE "free"

MPC_ACC_limits(i, N) ==
  IF i >= MPC_ACC_start("linacc", N) THEN "max_linacc"
  ELSE IF i >= MPC_ACC_start("angvel", N) THEN "max_angvel"
  ELSE IF i \in MPC_ACC_start("v", N) .. MPC_ACC_start("cte", N) - 1 THEN "max_linvel"
  ELSE "free"

\* The cells CBFHorizon decides, alpha among them if it is dynamic.
CBFHorizon_cells(N, dynamic) ==
  cells(CBFHorizon_states, MPC_ACC_inputs, N)
    \union (IF dynamic THEN {<<"alpha", 0>>} ELSE {})

\* The indices whose limits MPCNLOPT sets: the ranges its loops run over.
MPCNLOPT_limited(N) ==
  0 .. MPCNLOPT_start("linacc", N) - 1
    \union (MPCNLOPT_start("linacc", N) .. n_vars(MPCNLOPT_states, N) - 1)

-----------------------------------------------------------------------------
(* Equations: what they read, and the row each is written to.              *)

equations(states, N, barrier) ==
  { <<"initial", b, 0>> : b \in states }
    \union ({"dynamics"} \X states \X (0 .. N - 2))
    \union (IF barrier THEN {"barrier"} \X {"h"} \X (0 .. N - 2) ELSE {})

\* The blocks of step i from which the dynamics of block b finds it at step i + 1;
\* v0 is the name of the speed, a state or an input.
uses(b, v0) ==
  CASE b \in {"x", "y"} -> {b, "theta", v0}
    [] b = "theta"      -> {"theta", "angvel"}
    [] b = "v"          -> {"v", "linacc"}
    [] b = "cte"        -> {"cte", "etheta", v0}
    [] OTHER            -> {"etheta", "angvel"}

\* The cells an equation reads; the barrier of MPC is a constant, that of CBFHorizon
\* reads alpha too if it is dynamic.
reads(e, v0) ==
  IF e[1] = "initial" THEN {<<e[2], 0>>}
  ELSE {<<e[2], e[3] + 1>>} \union (uses(e[2], v0) \X {e[3]})

MPC_reads(e) == IF e[1] = "barrier" THEN {} ELSE reads(e, "linvel")

MPC_ACC_reads(e) ==
  IF e[1] = "barrier" THEN {"x", "y", "theta", "v", "angvel", "linacc"} \X {e[3]}
  ELSE reads(e, "v")

CBFHorizon_barrier_reads(i, dynamic) ==
  ({"x", "y", "theta", "v", "angvel", "linacc"} \X {i})
    \union (IF dynamic THEN {<<"alpha", 0>>} ELSE {})
CBFHorizon_reads(e, dynamic) ==
  IF e[1] = "barrier" THEN CBFHorizon_barrier_reads(e[3], dynamic) ELSE reads(e, "v")

MPCNLOPT_reads(e) == reads(e, "v")

\* The cells the objective weighs: the tracking error of each step, the inputs, and the
\* changes of input.
costs(errors, inputs, N) ==
  (errors \X (0 .. N - 1)) \union (inputs \X (0 .. N - 2))
    \union { <<b, i + 1>> : b \in inputs, i \in 0 .. N - 3 }

MPC_costs(N) == costs({"x", "y"} \union Errors, MPC_inputs, N)
MPC_ACC_costs(N) == costs({"x", "y"} \union Errors, MPC_ACC_inputs, N)
CBFHorizon_costs(N, dynamic) ==
  costs({"x", "y"} \union Errors, MPC_ACC_inputs, N)
    \union (IF dynamic THEN {<<"alpha", 0>>} ELSE {})
MPCNLOPT_costs(N) == costs({"x", "y"}, MPC_ACC_inputs, N)

\* The row of an equation: the first of its block for the initial state, the next
\* ones for the dynamics.  MPC has a constant where the barrier would be.
MPC_row(e, N) ==
  IF e[1] = "initial" THEN MPC_fg_start(e[2], N)
  ELSE IF e[1] = "dynamics" THEN 1 + MPC_fg_start(e[2], N) + e[3]
  ELSE 1 + MPC_fg_start("etheta", N) + N + e[3]

\* A slip: the dynamics is written from the first row of its block on.
MPC_ACC_rowEarly(e, N) ==
  IF e[1] = "initial" THEN MPC_ACC_fg_start(e[2], N)
  ELSE IF e[1] = "dynamics" THEN MPC_ACC_fg_start(e[2], N) + e[3]
  ELSE 1 + MPC_ACC_fg_start("etheta", N) + N + e[3]

MPC_ACC_row(e, N) ==
  IF e[1] = "initial" THEN MPC_ACC_fg_start(e[2], N)
  ELSE IF e[1] = "dynamics" THEN 1 + MPC_ACC_fg_start(e[2], N) + e[3]
  ELSE 1 + MPC_ACC_fg_start("etheta", N) + N + e[3]

\* CBFHorizon gives the barrier a group of rows of its own (after the others here);
\* the dynamics goes to the rows of step i + 1, ind_inc - 2 of them per step.
CBFHorizon_row(e, N, dynamic) ==
  IF e[1] = "initial" THEN CBFHorizon_start(e[2])
  ELSE IF e[1] = "dynamics" THEN CBFHorizon_start(e[2]) + (ind_inc(dynamic) - 2) * (e[3] + 1)
  ELSE 6 * N + e[3]

\* MPCNLOPT has N - 1 rows per block, and N equations.
MPCNLOPT_row(e, N) ==
  (N - 1) * [x |-> 0, y |-> 1, theta |-> 2, v |-> 3][e[2]]
    + (IF e[1] = "initial" THEN 0 ELSE e[3] + 1)

\* n_constraints.
MPC_n_constraints(N) == 5 * N + N
MPC_ACC_n_constraints(N, barrier) == 6 * N + (IF barrier THEN N ELSE 0)
CBFHorizon_n_constraints(N, barrier) == 6 * N + (IF barrier THEN N - 1 ELSE 0)
MPCNLOPT_n_constraints(N) == N * 4

\* What an equation must equal: the measured state, 0, or a number of one sign.
row_limits_of(e) ==
  [initial |-> "measured", dynamics |-> "zero", barrier |-> "one_sided"][e[1]]

\* The limits of row r, as Solve sets them: the last N rows are one-sided (MPC_ACC: if
\* there is a barrier), the first row of a block is the measured state.
MPC_row_limits(r, N) ==
  IF r \in { MPC_start(b, N) : b \in MPC_states } THEN "measured"
  ELSE IF r >= MPC_n_constraints(N) - N THEN "one_sided" ELSE "zero"

MPC_ACC_row_limits(r, N, barrier) ==
  IF r \in { MPC_ACC_start(b, N) : b \in MPC_ACC_states } THEN "measured"
  ELSE IF barrier /\ r >= MPC_ACC_n_constraints(N, barrier) - N THEN "one_sided" ELSE "zero"

\* NLOPT's groups have limits of their own; eval_constraint subtracts the measured
\* state in the rows of step 0.
CBFHorizon_row_limits(r, N) ==
  IF r \in { CBFHorizon_start(b) : b \in CBFHorizon_states } THEN "measured"
  ELSE IF r >= 6 * N THEN "one_sided" ELSE "zero"
=============================================================================
