----------------------------- MODULE OtherSolves -----------------------------
(***************************************************************************)
(* The Solves that are compiled and that no JackalMPCCore calls: POS_MPC,  *)
(* which drives to a point within a polygon, MPC::Solve(state), which MPC  *)
(* inherited from it, and MPCNLOPT::Solve(state, wpts), which follows a    *)
(* trajectory; and the finite differences NLOPT takes in Solve_gtg.  Each  *)
(* has the arithmetic of Optimisers over again, with starts, numbers of    *)
(* variables and numbers of rows of its own.                               *)
(***************************************************************************)
EXTENDS Optimisers

-----------------------------------------------------------------------------
(* POS_MPC: the pose, the inputs of MPC, and a plane per side of a polygon. *)

POS_MPC_start(b, N) ==
  [x |-> 0, y |-> N, theta |-> 2 * N, angvel |-> 3 * N, linvel |-> 4 * N - 1][b]
POS_MPC_fg_start(b, N) == POS_MPC_start(b, N)

POS_MPC_n_vars(N) == N * 3 + (N - 1) * (3 - 1)
POS_MPC_n_constraints(N, planes) == N * 3 + (N - 1) * planes

POS_MPC_limited(N) ==
  0 .. POS_MPC_start("linvel", N) - 1
    \union (POS_MPC_start("linvel", N) .. POS_MPC_n_vars(N) - 1)

POS_MPC_index(c, N) == POS_MPC_fg_start(c[1], N) + c[2]

\* Plane j keeps the position of each next step on its side.
POS_MPC_equations(N, planes) ==
  equations(Poses, N, FALSE) \union ({"barrier"} \X (1 .. planes) \X (0 .. N - 2))

POS_MPC_reads(e) ==
  IF e[1] = "barrier" THEN {"x", "y"} \X {e[3] + 1} ELSE reads(e, "linvel")

\* The two values it answers with, set to zero first where the solver failed.
POS_MPC_answer(N) == { POS_MPC_start(b, N) : b \in MPC_inputs }

POS_MPC_costs(N) == costs({"x", "y"}, MPC_inputs, N)

\* The row of a plane does not depend on the plane.
POS_MPC_row(e, N) ==
  IF e[1] = "initial" THEN POS_MPC_fg_start(e[2], N)
  ELSE IF e[1] = "dynamics" THEN 1 + POS_MPC_fg_start(e[2], N) + e[3]
  ELSE 1 + POS_MPC_fg_start("theta", N) + N + e[3]

POS_MPC_row_limits(r, N) ==
  IF r \in { POS_MPC_start(b, N) : b \in Poses } THEN "measured"
  ELSE IF r >= N * 3 THEN "one_sided" ELSE "zero"

POS_MPC_defined(N, planes) ==
  LET es == POS_MPC_equations(N, planes)
      index(c) == POS_MPC_index(c, N)
      row(e) == POS_MPC_row(e, N)
  IN  /\ POS_MPC_limited(N) \union POS_MPC_answer(N) \subseteq 0 .. POS_MPC_n_vars(N) - 1
      /\ Within(index, POS_MPC_costs(N) \union UNION { POS_MPC_reads(e) : e \in es },
                POS_MPC_n_vars(N))
      /\ Within(row, es, POS_MPC_n_constraints(N, planes))

-----------------------------------------------------------------------------
(* MPC::Solve(state): the starts of MPC, which make room for the errors,    *)
(* and a state without them.                                                *)

MPC_pose_n_vars(N) == N * 3 + (N - 1) * 2

\* The indices whose limits are set.
MPC_pose_limited(N) ==
  0 .. MPC_start("linvel", N) - 1 \union (MPC_start("linvel", N) .. MPC_pose_n_vars(N) - 1)

\* FG_eval writes the rows of MPC, also those of the errors and of the barrier; the limits
\* are set for a state without them.
MPC_pose_n_constraints(N) == N * 3
MPC_pose_row_limits(r, N) ==
  IF r \in { MPC_start(b, N) : b \in Poses } THEN "measured" ELSE "zero"

\* What it keeps of the solution, and the two values it answers with.
MPC_pose_horizon(N) == [c \in Poses \X (0 .. N - 1) |-> MPC_index(c, N)]
MPC_pose_answer(N) == { MPC_start(b, N) : b \in MPC_inputs }

MPC_pose_defined(N) == MPC_pose_limited(N) \subseteq 0 .. MPC_pose_n_vars(N) - 1

-----------------------------------------------------------------------------
(* MPCNLOPT::Solve(state, wpts).                                            *)

MPCNLOPT_track_states == MPC_ACC_states

MPCNLOPT_track_n_vars(N) == N * 6 + (N - 1) * 2

\* What NLOPT begins with, and what is left when it throws at once: the exception is
\* caught, and the vector kept and answered from as if it were a solution.
MPCNLOPT_track_guess(N) ==
  [j \in 0 .. MPCNLOPT_track_n_vars(N) - 1 |->
     IF \E b \in MPCNLOPT_track_states : MPCNLOPT_start(b, N) = j THEN "measured" ELSE "zero"]

MPCNLOPT_track_horizon(N) ==
  [c \in cells(Poses \union {"v"}, MPC_ACC_inputs, N) |-> MPCNLOPT_index(c, N)]
MPCNLOPT_track_answer(N) == { MPCNLOPT_start(b, N) : b \in MPC_ACC_inputs }

MPCNLOPT_track_limits(i, N) ==
  IF i >= MPCNLOPT_start("linacc", N) THEN "max_linacc"
  ELSE IF i >= MPCNLOPT_start("angvel", N) THEN "max_angvel"
  ELSE IF i \in MPCNLOPT_start("v", N) .. MPCNLOPT_start("cte", N) - 1 THEN "max_linvel"
  ELSE "free"

MPCNLOPT_track_reads(e) == reads(e, "v")

MPCNLOPT_track_costs(N) == costs({"x", "y"} \union Errors, MPC_ACC_inputs, N)

\* The rows dynamics_constraints fills, one block of N after the other.
MPCNLOPT_track_row(e, N) ==
  N * [x |-> 0, y |-> 1, theta |-> 2, v |-> 3, cte |-> 4, etheta |-> 5][e[2]]
    + (IF e[1] = "initial" THEN 0 ELSE e[3] + 1)
\* ... and so does evaluate_constraints for the finite differences, in vectors of 6 N.
MPCNLOPT_track_fd_row(e, N) == MPCNLOPT_track_row(e, N)
MPCNLOPT_track_fd_rows(N) == 6 * N

\* NLOPT has a row per tolerance, and Solve a tolerance per state.
MPCNLOPT_track_rows == 6

MPCNLOPT_track_defined(N) ==
  LET es == equations(MPCNLOPT_track_states, N, FALSE)
      index(c) == MPCNLOPT_index(c, N)
      row(e) == MPCNLOPT_track_row(e, N)
      fd_row(e) == MPCNLOPT_track_fd_row(e, N)
  IN  /\ Within(index, MPCNLOPT_track_costs(N) \union UNION { MPCNLOPT_track_reads(e) : e \in es },
                MPCNLOPT_track_n_vars(N))
      /\ Within(fd_row, es, MPCNLOPT_track_fd_rows(N))
      /\ Within(row, es, MPCNLOPT_track_rows)

-----------------------------------------------------------------------------
(* The finite differences of Solve_gtg: the objective and the rows again,   *)
(* in vectors of 4 (N - 1), which the last equation for v is beyond.        *)

MPCNLOPT_fd_costs(N) == costs({"x", "y"}, MPC_ACC_inputs, N)

\* The cells whose cost has a gradient: a variable is moved up, down and put back only
\* if it is in NLOPT's vector.
MPCNLOPT_fd_gradient(N) ==
  { c \in MPCNLOPT_fd_costs(N) : MPCNLOPT_index(c, N) < n_vars(MPCNLOPT_states, N) }

MPCNLOPT_fd_row(e, N) == MPCNLOPT_row(e, N)

MPCNLOPT_fd_rows(N) == 4 * (N - 1)

-----------------------------------------------------------------------------

\* No value of the horizon shares a variable with another, and each is bounded by the
\* limits of its own block.
OwnLimits(index(_), limits(_), cs) ==
  \A c, d \in cs : /\ index(c) = index(d) => c = d
                   /\ limits(index(c)) = block_limits(c[1])

MPCNLOPTOwnLimits(N) ==
  LET index(c) == MPCNLOPT_index(c, N)  limits(i) == MPCNLOPT_track_limits(i, N)
  IN  OwnLimits(index, limits, cells(MPCNLOPT_track_states, MPC_ACC_inputs, N))

\* Every equation has a row of its own, with the limits of its kind, and the rows without
\* an equation are the spare ones.
OwnRows(row(_), limits(_), es, m, spare) ==
  /\ \A e, f \in es : row(e) = row(f) => e = f
  /\ \A e \in es : limits(row(e)) = row_limits_of(e)
  /\ (0 .. m - 1) \ { row(e) : e \in es } = spare

\* POS_MPC without a polygon gives each equation its row.
POS_MPCOwnRows(N) ==
  LET row(e) == POS_MPC_row(e, N)  limits(r) == POS_MPC_row_limits(r, N)
  IN  OwnRows(row, limits, POS_MPC_equations(N, 0), POS_MPC_n_constraints(N, 0), {})

\* So does MPCNLOPT for a trajectory, in the rows its callback fills and the finite
\* differences subtract.
MPCNLOPTOwnRows(N) ==
  LET es == equations(MPCNLOPT_track_states, N, FALSE)
  IN  /\ \A e, f \in es : MPCNLOPT_track_row(e, N) = MPCNLOPT_track_row(f, N) => e = f
      /\ { MPCNLOPT_track_fd_row(e, N) : e \in es } = 0 .. MPCNLOPT_track_fd_rows(N) - 1

\* Where these Solves leave their vectors: POS_MPC with one plane, whose rows begin one
\* late (with more, all planes share the rows of one, and only the last counts);
\* MPC::Solve(state) and MPCNLOPT::Solve(state, wpts) always; and the finite differences
\* of Solve_gtg, in the last row but not in a variable.
OthersOverrun(N) ==
  /\ \A planes \in 0 .. 2 : POS_MPC_defined(N, planes) <=> planes # 1
  /\ ~MPC_pose_defined(N)
  /\ ~MPCNLOPT_track_defined(N)
  /\ { MPCNLOPT_fd_row(e, N) : e \in equations(MPCNLOPT_states, N, FALSE) }
       \ (0 .. MPCNLOPT_fd_rows(N) - 1) = {MPCNLOPT_fd_rows(N)}
  /\ MPCNLOPT_fd_costs(N) \subseteq cells(MPCNLOPT_states, MPC_ACC_inputs, N)

\* What they answer and keep.  MPC::Solve(state) has the rows and the poses of its state in
\* place, each with its limits, but answers, for every horizon, with two values beyond its
\* solution, and the rows of the errors and of the barrier are beyond its vector.
\* MPCNLOPT::Solve(state, wpts) that fails at once answers zeros, and its horizon has the
\* measured state at its head and no more.  Solve_gtg has a gradient for the positions only:
\* the inputs it weighs are no variables of NLOPT's.
OthersAnswer(N) ==
  LET n == MPC_pose_n_vars(N)  kept == MPC_pose_horizon(N)
      guess == MPCNLOPT_track_guess(N)  horizon == MPCNLOPT_track_horizon(N)
  IN  /\ \A c \in DOMAIN kept : kept[c] < n
      /\ \A j \in MPC_pose_answer(N) : j >= n
      /\ \A e \in equations(MPC_states, N, TRUE) :
           /\ e[2] \in Poses <=> MPC_row(e, N) < MPC_pose_n_constraints(N)
           /\ e[2] \in Poses => MPC_pose_row_limits(MPC_row(e, N), N) = row_limits_of(e)
      /\ \A j \in MPCNLOPT_track_answer(N) : guess[j] = "zero"
      /\ \A c \in DOMAIN horizon :
           guess[horizon[c]] = "measured" <=> c \in (Poses \union {"v"}) \X {0}
      /\ MPCNLOPT_fd_gradient(N) = {"x", "y"} \X (0 .. N - 1)
=============================================================================
