---------------------------- MODULE SafetyFilters ----------------------------
(***************************************************************************)
(* The safety filters: given the inputs a controller wants, each looks for *)
(* the nearest ones that keep a barrier.  SafetyFilterUnicycle is a class  *)
(* of two files, for the unicycle and for the extended unicycle, with the  *)
(* flat vectors of Optimisers; N is horizon_length, the number of inputs   *)
(* wanted and one.  CBFFilterNLOPT filters one step's turn and             *)
(* acceleration.  Nobody calls the first two: their calls are commented    *)
(* out; the third is for Python.                                           *)
(***************************************************************************)
EXTENDS OtherSolves

-----------------------------------------------------------------------------
(* The unicycle: a pose, of which the turns are sought; the speeds are given. *)

Unicycle_start(b, N) == [x |-> 0, y |-> N, theta |-> 2 * N, angvel |-> 3 * N][b]
Unicycle_fg_start(b, N) == Unicycle_start(b, N)
Unicycle_index(c, N) == Unicycle_fg_start(c[1], N) + c[2]

Unicycle_n_vars(N) == N - 1 + N * 3
Unicycle_n_constraints(N) == N * 3 + N - 1

Unicycle_cells(N) == cells(Poses, {"angvel"}, N)

\* The guess takes u[i] for variable i, where the N - 1 inputs begin at w_start.
Unicycle_guess_reads(N) == Unicycle_start("angvel", N) .. Unicycle_n_vars(N) - 1

Unicycle_limits(i, N) ==
  IF i >= Unicycle_start("angvel", N) THEN "max_angvel" ELSE "free"

Unicycle_equations(N) == equations(Poses, N, TRUE)

Unicycle_reads(e) ==
  IF e[1] = "barrier" THEN (Poses \union {"angvel"}) \X {e[3]}
  ELSE reads(e, "theta")

Unicycle_row(e, N) ==
  IF e[1] = "initial" THEN Unicycle_fg_start(e[2], N)
  ELSE IF e[1] = "dynamics" THEN 1 + Unicycle_fg_start(e[2], N) + e[3]
  ELSE Unicycle_fg_start("angvel", N) + e[3]

Unicycle_row_limits(r, N) ==
  IF r \in { Unicycle_start(b, N) : b \in Poses } THEN "measured"
  ELSE IF r >= Unicycle_n_constraints(N) - (N - 1) THEN "one_sided" ELSE "zero"

\* The objective's cells, and the turn and the positions it answers with.
Unicycle_costs(N) == {"angvel"} \X (0 .. N - 2)
Unicycle_answer(N) == {<<"angvel", 0>>} \union ({"x", "y"} \X (0 .. N - 1))

-----------------------------------------------------------------------------
(* The extended unicycle: a position, a speed and its two components; the   *)
(* accelerations and the turns are sought.  The heading is the measured one  *)
(* at all steps, no variable, though the state it is given has room for it.  *)

Extended_states == {"x", "y", "v", "x_dot", "y_dot"}

Extended_start(b, N) ==
  [x |-> 0, y |-> N, v |-> 2 * N, x_dot |-> 3 * N, y_dot |-> 4 * N,
   linacc |-> 5 * N, angvel |-> 6 * N - 1][b]
Extended_fg_start(b, N) == Extended_start(b, N)
Extended_index(c, N) == Extended_fg_start(c[1], N) + c[2]

Extended_n_vars(N) == (N - 1) * 2 + N * 6
Extended_n_constraints(N) == N * 6 + N - 1

Extended_cells(N) == cells(Extended_states, MPC_ACC_inputs, N)

Extended_guess_reads(N) == Extended_start("linacc", N) .. Extended_n_vars(N) - 1

Extended_limits(i, N) ==
  IF i >= Extended_start("angvel", N) THEN "max_angvel"
  ELSE IF i >= Extended_start("linacc", N) THEN "max_linacc"
  ELSE IF i >= Extended_start("v", N) THEN "max_linvel" ELSE "free"

Extended_equations(N) == equations(Extended_states, N, TRUE)

Extended_uses(b) ==
  [x |-> {"x", "x_dot"}, y |-> {"y", "y_dot"}, v |-> {"v", "linacc"},
   x_dot |-> {"linacc", "y_dot"}, y_dot |-> {"linacc", "x_dot"}][b]

Extended_reads(e) ==
  IF e[1] = "initial" THEN {<<e[2], 0>>}
  ELSE IF e[1] = "dynamics" THEN {<<e[2], e[3] + 1>>} \union (Extended_uses(e[2]) \X {e[3]})
  ELSE (Extended_states \union MPC_ACC_inputs) \X {e[3]}

\* h_start is a_start.
Extended_row(e, N) ==
  IF e[1] = "initial" THEN Extended_fg_start(e[2], N)
  ELSE IF e[1] = "dynamics" THEN 1 + Extended_fg_start(e[2], N) + e[3]
  ELSE Extended_fg_start("linacc", N) + e[3]

Extended_row_limits(r, N) ==
  IF r \in { Extended_start(b, N) : b \in Extended_states } THEN "measured"
  ELSE IF r >= Extended_n_constraints(N) - (N - 1) THEN "one_sided" ELSE "zero"

Extended_costs(N) == MPC_ACC_inputs \X (0 .. N - 2)
Extended_answer(N) == (MPC_ACC_inputs \X {0}) \union ({"x", "y"} \X (0 .. N - 1))

-----------------------------------------------------------------------------
(* CBFFilterNLOPT, for one step.  An input is <<angvel, linacc>>, in          *)
(* thousandths; a filter is a record of its two limits.                      *)

CBFFilter_margin == 1

\* The constructor's limits; load_params replaces those it is given.
CBFFilter_limits == [max_angvel |-> 2000, max_linacc |-> 4000]
CBFFilter_load_params(filter, params) ==
  [p \in DOMAIN filter |-> IF p \in DOMAIN params THEN params[p] ELSE filter[p]]

CBFFilter_limit(filter, i) == IF i = 1 THEN filter.max_angvel ELSE filter.max_linacc

\* desired_w and desired_a, moved off the limits: NLOPT's guess.
CBFFilter_guess(filter, desired) ==
  [i \in 1 .. 2 |->
     LET upper == CBFFilter_limit(filter, i) - CBFFilter_margin
         lower == -CBFFilter_limit(filter, i) + CBFFilter_margin
         raised == IF lower < desired[i] THEN desired[i] ELSE lower
     IN  IF raised < upper THEN raised ELSE upper]

CBFFilter_within(filter, u) ==
  \A i \in 1 .. 2 : u[i] \in -CBFFilter_limit(filter, i) .. CBFFilter_limit(filter, i)

\* The objective: desired_w and desired_a are the guess itself by then.
CBFFilter_eval_objective(guess, u) ==
  (guess[1] - u[1]) * (guess[1] - u[1]) + (guess[2] - u[2]) * (guess[2] - u[2])

\* The barrier, which NLOPT keeps from being positive: the state and the map decide how it
\* changes by itself and with each of the two inputs, barrier = <<Lfh + alpha h, Lgh2, Lgh1>>.
CBFFilter_eval_constraint(barrier, u) ==
  -barrier[1] - barrier[3] * u[2] - barrier[2] * u[1]

\* finite_difference moves an input up and down and puts it back.  The differences are not
\* divided here by the two steps between them.
CBFFilter_moved(u, i, step) == [u EXCEPT ![i] = @ + step]

CBFFilter_objective_grad(guess, u) ==
  [i \in 1 .. 2 |-> CBFFilter_eval_objective(guess, CBFFilter_moved(u, i, 1))
                      - CBFFilter_eval_objective(guess, CBFFilter_moved(u, i, -1))]
CBFFilter_constraint_grad(barrier, u) ==
  [i \in 1 .. 2 |-> CBFFilter_eval_constraint(barrier, CBFFilter_moved(u, i, 1))
                      - CBFFilter_eval_constraint(barrier, CBFFilter_moved(u, i, -1))]

\* The answer without a map, far from everything, or when NLOPT throws is what was wanted.
\* NLOPT throws when its guess is beyond its limits, and may throw at any time; else it
\* finds some `found' within the limits, perhaps one that the barrier forbids.
CBFFilter_Solve(filter, mapped, near, throws, desired, found) ==
  IF mapped /\ near /\ ~throws /\ CBFFilter_within(filter, CBFFilter_guess(filter, desired))
  THEN found ELSE desired

-----------------------------------------------------------------------------
(* Properties, for ControlLoop's lengths of the horizon.                      *)

\* The unicycle's equations have rows of their own.  So have those of the extended one, but
\* the limits of its barrier go to rows nobody writes, and the barrier is asked to be zero:
\* rows and limits count the state's six values, the starts five.
FiltersOwnRows(N) ==
  LET row(e) == Unicycle_row(e, N)
      limits(r) == Unicycle_row_limits(r, N)
      extended == Extended_equations(N)
  IN  /\ OwnRows(row, limits, Unicycle_equations(N), Unicycle_n_constraints(N), {})
      /\ \A e, f \in extended : Extended_row(e, N) = Extended_row(f, N) => e = f
      /\ \A e \in extended :
           Extended_row_limits(Extended_row(e, N), N)
             = IF e[1] = "barrier" THEN "zero" ELSE row_limits_of(e)
      /\ { r \in 0 .. Extended_n_constraints(N) - 1 : Extended_row_limits(r, N) = "one_sided" }
           \cap { Extended_row(e, N) : e \in extended } = {}

\* What a filter decides, weighs and answers with are variables of its own, each with the
\* limits of its block; every value that its guess is made of is read beyond the inputs.
FiltersOverrun(N) ==
  LET unicycle(c) == Unicycle_index(c, N)
      extended(c) == Extended_index(c, N)
  IN  /\ Within(unicycle, Unicycle_costs(N) \union Unicycle_answer(N)
                  \union UNION { Unicycle_reads(e) : e \in Unicycle_equations(N) },
                Unicycle_n_vars(N))
      /\ Within(extended, Extended_costs(N) \union Extended_answer(N)
                  \union UNION { Extended_reads(e) : e \in Extended_equations(N) },
                Extended_n_vars(N))
      /\ \A i \in Unicycle_guess_reads(N) \union Extended_guess_reads(N) : i >= N - 1
      /\ \A c, d \in Unicycle_cells(N) : unicycle(c) = unicycle(d) => c = d
      /\ \A c \in Unicycle_cells(N) : Unicycle_limits(unicycle(c), N) = block_limits(c[1])
      /\ \A c, d \in Extended_cells(N) : extended(c) = extended(d) => c = d
      /\ \A c \in Extended_cells(N) :
           Extended_limits(extended(c), N)
             = IF c[1] \in {"x_dot", "y_dot"} THEN "max_linvel" ELSE block_limits(c[1])

\* Whatever limits CBFFilterNLOPT is given, NLOPT can begin unless one of them is less than
\* the margin, and so an answer beyond them is an unfiltered one, which Python cannot tell
\* from the others: there was no map, nothing near, an exception, or no room for the guess.
FiltersAnswer ==
  \A given \in UNION { [names -> 0 .. 2] : names \in SUBSET DOMAIN CBFFilter_limits },
     desired \in (-3 .. 3) \X (-3 .. 3), mapped, near, throws \in BOOLEAN, end \in {-1, 1} :
    LET filter == CBFFilter_load_params(CBFFilter_limits, given)
        found == [i \in 1 .. 2 |-> end * CBFFilter_limit(filter, i)]
        reply == CBFFilter_Solve(filter, mapped, near, throws, desired, found)
    IN  ~CBFFilter_within(filter, reply) <=>
          /\ ~CBFFilter_within(filter, desired)
          /\ \/ ~mapped \/ ~near \/ throws
             \/ \E i \in 1 .. 2 : CBFFilter_limit(filter, i) < CBFFilter_margin

\* NLOPT of CBFFilterNLOPT begins where the objective is least, whatever is wanted: the one
\* place where its gradient is zero, so that what it finds elsewhere is the barrier's doing.
\* The gradient of the barrier is the same everywhere.
FiltersGradient ==
  \A desired, u \in (-3 .. 3) \X (-3 .. 3) :
    LET filter == CBFFilter_load_params(CBFFilter_limits, [max_angvel |-> 2, max_linacc |-> 3])
        guess == CBFFilter_guess(filter, desired)
    IN  /\ CBFFilter_objective_grad(guess, u) = [i \in 1 .. 2 |-> 0] <=> u = guess
        /\ \A barrier \in (0 .. 1) \X (0 .. 1) \X (0 .. 1) :
             CBFFilter_constraint_grad(barrier, u) = CBFFilter_constraint_grad(barrier, guess)
=============================================================================
