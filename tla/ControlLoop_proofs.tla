-------------------------- MODULE ControlLoop_proofs --------------------------
(***************************************************************************)
(* What is proved of the core, of the optimisers and of the loop they run  *)
(* in, for every length of the horizon, every bound on the speeds and      *)
(* every answer.                                                           *)
(***************************************************************************)
EXTENDS ControlLoop, TLAPS

(***************************************************************************)
(* The core: its speeds stay within the limits, change by no more than a   *)
(* step, and are kept by a late answer.                                    *)
(***************************************************************************)

\* limit returns a speed no further than max_step from the previous one.
LEMMA LimitBounds ==
  ASSUME NEW v \in Int, NEW x \in Int, NEW d \in Nat
  PROVE  /\ limit(v, x, d) \in Int
         /\ Abs(limit(v, x, d) - v) <= d
  BY DEF limit, Abs

\* clamp returns a speed within the limits, and does not move a limited speed away
\* from a previous one that is within them.
LEMMA ClampBounds ==
  ASSUME NEW m \in Nat, NEW v \in -m .. m, NEW x \in Int, NEW d \in Nat,
         Abs(x - v) <= d
  PROVE  /\ clamp(x, m) \in -m .. m
         /\ Abs(clamp(x, m) - v) <= d
  BY DEF clamp, Abs

\* What solve() does to one speed: from within the limits it stays there, one step at
\* most away.  Both speeds, and every mode, are instances of it.
LEMMA LimitThenClamp ==
  ASSUME NEW m \in Nat, NEW d \in Nat, NEW v \in -m .. m, NEW x \in Int
  PROVE  /\ clamp(limit(v, x, d), m) \in -m .. m
         /\ Abs(clamp(limit(v, x, d), m) - v) <= d
<1>1. v \in Int
  OBVIOUS
<1>2. limit(v, x, d) \in Int /\ Abs(limit(v, x, d) - v) <= d
  BY <1>1, LimitBounds
<1>3. QED
  BY <1>2, ClampBounds

CoreInv == CoreTypeOK /\ SpeedsWithinLimits

\* The optimiser's target is a speed, in each mode, late or not.
LEMMA WantedType ==
  ASSUME CoreTypeOK, NEW lin \in LinResults, NEW ang \in AngResults, NEW late \in BOOLEAN
  PROVE  wantedVel(lin, late) \in Int /\ wantedAngVel(ang, late) \in Int
<1>1. lin \in Int /\ ang \in Int
  BY CoreAssumption
<1>2. wantedAngVel(ang, late) \in Int
  BY <1>1 DEF wantedAngVel, CoreTypeOK
<1>3. wantedVel(lin, late) \in Int
  <2>1. CASE core_type = "track_vel_ipopt"
    BY <1>1, <2>1 DEF wantedVel, CoreTypeOK
  <2>2. CASE core_type = "goto_pos_nlopt"
    BY <1>1, <2>2 DEF wantedVel, CoreTypeOK
  <2>3. CASE core_type \notin {"track_vel_ipopt", "goto_pos_nlopt"}
    BY <1>1, <2>3 DEF wantedVel, CoreTypeOK
  <2>4. QED
    BY <2>1, <2>2, <2>3
<1>4. QED
  BY <1>2, <1>3

\* One solve, from speeds within the limits.
LEMMA NextSpeeds ==
  ASSUME CoreInv, NEW lin \in LinResults, NEW ang \in AngResults, NEW late \in BOOLEAN
  PROVE  /\ nextVel(lin, late) \in -MaxVel .. MaxVel
         /\ nextAngVel(ang, late) \in -MaxAngVel .. MaxAngVel
         /\ Abs(nextVel(lin, late) - curr_vel) <= MaxLinStep
         /\ Abs(nextAngVel(ang, late) - curr_ang_vel) <= MaxAngStep
<1>1. wantedVel(lin, late) \in Int /\ wantedAngVel(ang, late) \in Int
  BY WantedType DEF CoreInv
<1>2. curr_vel \in -MaxVel .. MaxVel /\ curr_ang_vel \in -MaxAngVel .. MaxAngVel
  BY DEF CoreInv, SpeedsWithinLimits
<1>3. /\ MaxVel \in Nat /\ MaxAngVel \in Nat
      /\ MaxLinStep \in Nat /\ MaxAngStep \in Nat
  BY CoreAssumption
<1>4. QED
  BY <1>1, <1>2, <1>3, LimitThenClamp DEF nextVel, nextAngVel

LEMMA CoreInvInit == Init => CoreInv
<1>1. ASSUME NEW m \in Nat PROVE 0 \in -m .. m
  OBVIOUS
<1>2. Init => CoreTypeOK
  <2>1. Init => has_reference \in BOOLEAN /\ core_type \in MpcTypes
    BY Zenon DEF Init
  <2>2. Init => curr_vel \in Int /\ curr_ang_vel \in Int
    BY DEF Init
  <2>3. QED
    BY <2>1, <2>2, Zenon DEF CoreTypeOK
<1>3. Init => SpeedsWithinLimits
  BY <1>1, CoreAssumption DEF Init, SpeedsWithinLimits
<1>4. QED
  BY <1>2, <1>3 DEF CoreInv

\* Every step of the core keeps the invariant and changes each speed by one step at
\* most.  Only solve() changes a speed.
LEMMA CoreStep == CoreInv /\ [Next]_coreVars => CoreInv' /\ (RateStep \/ UNCHANGED coreVars)
<1> SUFFICES ASSUME CoreInv, [Next]_coreVars
             PROVE  CoreInv' /\ (RateStep \/ UNCHANGED coreVars)
  OBVIOUS
<1>1. CASE set_reference
  <2>1. CoreInv'
    BY <1>1 DEF set_reference, CoreInv, CoreTypeOK, SpeedsWithinLimits
  <2>2. RateStep
    BY <1>1, CoreAssumption DEF set_reference, RateStep, Abs, CoreInv, CoreTypeOK
  <2>3. QED
    BY <2>1, <2>2
<1>2. ASSUME NEW size, set_reference_list(size)
      PROVE  CoreInv' /\ RateStep
  <2>1. CoreInv'
    BY <1>2 DEF set_reference_list, CoreInv, CoreTypeOK, SpeedsWithinLimits
  <2>2. RateStep
    BY <1>2, CoreAssumption DEF set_reference_list, RateStep, Abs, CoreInv, CoreTypeOK
  <2>3. QED
    BY <2>1, <2>2
<1>3. ASSUME NEW lin \in LinResults, NEW ang \in AngResults, NEW late \in BOOLEAN,
             solve(lin, ang, late)
      PROVE  CoreInv' /\ RateStep
  <2>1. /\ curr_vel' = nextVel(lin, late) /\ curr_ang_vel' = nextAngVel(ang, late)
        /\ UNCHANGED <<core_type, has_reference>>
    BY <1>3 DEF solve
  <2>2. CoreInv'
    BY <2>1, NextSpeeds, CoreAssumption DEF CoreInv, CoreTypeOK, SpeedsWithinLimits
  <2>3. RateStep
    BY <2>1, NextSpeeds DEF RateStep
  <2>4. QED
    BY <2>2, <2>3
<1>4. CASE UNCHANGED coreVars
  BY <1>4 DEF coreVars, CoreInv, CoreTypeOK, SpeedsWithinLimits
<1>5. QED
  BY <1>1, <1>2, <1>3, <1>4 DEF Next, solveWithoutReference, set_mpc_type

LEMMA CoreInvariance == Spec => []CoreInv
<1>1. CoreInv /\ [Next]_coreVars => CoreInv'
  BY CoreStep
<1>2. QED
  BY <1>1, CoreInvInit, PTL DEF Spec

\* The speeds handed to the robot are within v_max and w_max, whatever the optimiser
\* answers, however late, and however the constants are chosen.
THEOREM CoreSpeedsWithinLimits == Spec => []SpeedsWithinLimits
<1>1. CoreInv => SpeedsWithinLimits
  BY DEF CoreInv
<1>2. QED
  BY <1>1, CoreInvariance, PTL

\* No step changes a speed by more than one period of a_max or anga_max: the clamp
\* after the rate limit never adds to the change.
THEOREM CoreRateLimited == Spec => RateLimited
<1>1. CoreInv /\ [Next]_coreVars => [RateStep]_coreVars
  BY CoreStep
<1>2. QED
  BY <1>1, CoreInvariance, PTL DEF Spec, RateLimited

\* A late answer keeps both speeds, in every mode that has the fallback.
THEOREM CoreOverrunKeepsSpeed == Spec => []OverrunKeepsSpeed
<1>1. ASSUME CoreInv, core_type # "goto_pos_nlopt",
             NEW lin \in LinResults, NEW ang \in AngResults
      PROVE  nextVel(lin, TRUE) = curr_vel /\ nextAngVel(ang, TRUE) = curr_ang_vel
  <2>1. /\ curr_vel \in -MaxVel .. MaxVel /\ curr_ang_vel \in -MaxAngVel .. MaxAngVel
        /\ curr_vel \in Int /\ curr_ang_vel \in Int
    BY <1>1 DEF CoreInv, CoreTypeOK, SpeedsWithinLimits
  <2>2. wantedVel(lin, TRUE) = curr_vel
    <3>1. CASE core_type = "track_vel_ipopt"
      BY <3>1 DEF wantedVel
    <3>2. CASE core_type # "track_vel_ipopt"
      BY <1>1, <2>1, <3>2 DEF wantedVel
    <3>3. QED
      BY <3>1, <3>2
  <2>3. wantedAngVel(ang, TRUE) = curr_ang_vel
    BY <1>1 DEF wantedAngVel
  <2>4. \A v \in Int, d \in Nat : limit(v, v, d) = v
    BY DEF limit, Abs
  <2>5. \A m \in Nat : \A v \in -m .. m : clamp(v, m) = v
    BY DEF clamp
  <2>6. QED
    BY <2>1, <2>2, <2>3, <2>4, <2>5, CoreAssumption DEF nextVel, nextAngVel
<1>2. CoreInv => OverrunKeepsSpeed
  BY <1>1 DEF OverrunKeepsSpeed
<1>3. QED
  BY <1>2, CoreInvariance, PTL

(***************************************************************************)
(* The optimisers: their variables and rows, for every length.             *)
(***************************************************************************)

Lengths == Nat \ {0, 1}

\* Two values of a horizon never share a variable, and each has the limits of its block.
LEMMA MPCVariables ==
  ASSUME NEW N \in Lengths,
         NEW c \in cells(MPC_states, MPC_inputs, N), NEW d \in cells(MPC_states, MPC_inputs, N)
  PROVE  /\ MPC_index(c, N) = MPC_index(d, N) => c = d
         /\ MPC_limits(MPC_index(c, N), N) = block_limits(c[1])
<1>1. MPC_index(c, N) = MPC_index(d, N) => c = d
  BY DEF Lengths, cells, MPC_states, MPC_inputs, Poses, Errors, MPC_index, MPC_start
<1>2. MPC_limits(MPC_index(c, N), N) = block_limits(c[1])
  BY DEF Lengths, cells, MPC_states, MPC_inputs, Poses, Errors, MPC_index, MPC_start,
         MPC_limits, block_limits
<1>3. QED
  BY <1>1, <1>2

LEMMA MPC_ACCVariables ==
  ASSUME NEW N \in Lengths,
         NEW c \in cells(MPC_ACC_states, MPC_ACC_inputs, N),
         NEW d \in cells(MPC_ACC_states, MPC_ACC_inputs, N)
  PROVE  /\ MPC_ACC_index(c, N) = MPC_ACC_index(d, N) => c = d
         /\ MPC_ACC_limits(MPC_ACC_index(c, N), N) = block_limits(c[1])
<1>1. MPC_ACC_index(c, N) = MPC_ACC_index(d, N) => c = d
  BY DEF Lengths, cells, MPC_ACC_states, MPC_ACC_inputs, Poses, Errors, MPC_ACC_index,
         MPC_ACC_start
<1>2. MPC_ACC_limits(MPC_ACC_index(c, N), N) = block_limits(c[1])
  BY DEF Lengths, cells, MPC_ACC_states, MPC_ACC_inputs, Poses, Errors, MPC_ACC_index,
         MPC_ACC_start, MPC_ACC_limits, block_limits
<1>3. QED
  BY <1>1, <1>2

LEMMA MPCNLOPTVariables == \A N \in Lengths : MPCNLOPTOwnLimits(N)
<1> SUFFICES ASSUME NEW N \in Lengths,
                    NEW c \in cells(MPCNLOPT_track_states, MPC_ACC_inputs, N),
                    NEW d \in cells(MPCNLOPT_track_states, MPC_ACC_inputs, N)
             PROVE  /\ MPCNLOPT_index(c, N) = MPCNLOPT_index(d, N) => c = d
                    /\ MPCNLOPT_track_limits(MPCNLOPT_index(c, N), N) = block_limits(c[1])
  BY DEF MPCNLOPTOwnLimits, OwnLimits
<1>1. MPCNLOPT_index(c, N) = MPC_ACC_index(c, N) /\ MPCNLOPT_index(d, N) = MPC_ACC_index(d, N)
  BY DEF MPCNLOPT_index, MPC_ACC_index, MPCNLOPT_start
<1>2. MPCNLOPT_track_limits(MPC_ACC_index(c, N), N) = MPC_ACC_limits(MPC_ACC_index(c, N), N)
  BY DEF MPCNLOPT_track_limits, MPC_ACC_limits, MPCNLOPT_start
<1>3. QED
  BY <1>1, <1>2, MPC_ACCVariables DEF MPCNLOPT_track_states

\* alpha has an index no other cell has, whichever the stride.
LEMMA CBFHorizonVariables ==
  ASSUME NEW N \in Lengths, NEW dyn \in BOOLEAN,
         NEW c \in CBFHorizon_cells(N, dyn), NEW d \in CBFHorizon_cells(N, dyn),
         CBFHorizon_index(c, dyn) = CBFHorizon_index(d, dyn)
  PROVE  c = d
BY DEF Lengths, cells, CBFHorizon_cells, CBFHorizon_states, MPC_ACC_states, MPC_ACC_inputs,
       Poses, Errors, CBFHorizon_index, CBFHorizon_start, ind_inc

\* Two equations never share a row, and each row has the limits of its equation.
LEMMA MPCRows ==
  ASSUME NEW N \in Lengths,
         NEW e \in equations(MPC_states, N, TRUE), NEW f \in equations(MPC_states, N, TRUE)
  PROVE  /\ MPC_row(e, N) = MPC_row(f, N) => e = f
         /\ MPC_row_limits(MPC_row(e, N), N) = row_limits_of(e)
<1>1. MPC_row(e, N) = MPC_row(f, N) => e = f
  BY DEF Lengths, equations, MPC_states, Poses, Errors, MPC_row, MPC_fg_start, MPC_start
<1>2. MPC_row_limits(MPC_row(e, N), N) = row_limits_of(e)
  BY DEF Lengths, equations, MPC_states, Poses, Errors, MPC_row, MPC_fg_start, MPC_start,
         MPC_row_limits, MPC_n_constraints, row_limits_of
<1>3. QED
  BY <1>1, <1>2

LEMMA MPC_ACCRows ==
  ASSUME NEW N \in Lengths, NEW barrier \in BOOLEAN,
         NEW e \in equations(MPC_ACC_states, N, barrier),
         NEW f \in equations(MPC_ACC_states, N, barrier)
  PROVE  /\ MPC_ACC_row(e, N) = MPC_ACC_row(f, N) => e = f
         /\ MPC_ACC_row_limits(MPC_ACC_row(e, N), N, barrier) = row_limits_of(e)
<1>1. MPC_ACC_row(e, N) = MPC_ACC_row(f, N) => e = f
  BY DEF Lengths, equations, MPC_ACC_states, Poses, Errors, MPC_ACC_row, MPC_ACC_fg_start, MPC_ACC_start
<1>2. MPC_ACC_row_limits(MPC_ACC_row(e, N), N, barrier) = row_limits_of(e)
  BY DEF Lengths, equations, MPC_ACC_states, Poses, Errors, MPC_ACC_row, MPC_ACC_fg_start, MPC_ACC_start,
         MPC_ACC_row_limits, MPC_ACC_n_constraints, row_limits_of
<1>3. QED
  BY <1>1, <1>2

LEMMA CBFHorizonRows ==
  ASSUME NEW N \in Lengths, NEW barrier \in BOOLEAN,
         NEW e \in equations(CBFHorizon_states, N, barrier),
         NEW f \in equations(CBFHorizon_states, N, barrier)
  PROVE  /\ CBFHorizon_row(e, N, FALSE) = CBFHorizon_row(f, N, FALSE) => e = f
         /\ CBFHorizon_row_limits(CBFHorizon_row(e, N, FALSE), N) = row_limits_of(e)
<1>1. CBFHorizon_row(e, N, FALSE) = CBFHorizon_row(f, N, FALSE) => e = f
  BY DEF Lengths, equations, CBFHorizon_states, MPC_ACC_states, Poses, Errors,
         CBFHorizon_row, CBFHorizon_start, ind_inc
<1>2. CBFHorizon_row_limits(CBFHorizon_row(e, N, FALSE), N) = row_limits_of(e)
  BY DEF Lengths, equations, CBFHorizon_states, MPC_ACC_states, Poses, Errors,
         CBFHorizon_row, CBFHorizon_start, ind_inc, CBFHorizon_row_limits, row_limits_of
<1>3. QED
  BY <1>1, <1>2

\* The rows without an equation.
LEMMA MPCSpare ==
  ASSUME NEW N \in Lengths
  PROVE  (0 .. MPC_n_constraints(N) - 1)
           \ { MPC_row(e, N) : e \in equations(MPC_states, N, TRUE) } = {5 * N}
<1> DEFINE es == equations(MPC_states, N, TRUE)
<1>1. ASSUME NEW r \in 0 .. 6 * N - 1, r # 5 * N
      PROVE  \E e \in es : MPC_row(e, N) = r
  <2>1. ASSUME NEW b \in MPC_states,
               r \in MPC_start(b, N) .. MPC_start(b, N) + N - 1
        PROVE  \E e \in es : MPC_row(e, N) = r
    <3> DEFINE i == r - MPC_start(b, N) - 1
    <3>1. MPC_start(b, N) \in Nat
      BY DEF Lengths, MPC_states, Poses, Errors, MPC_start
    <3>2. CASE r = MPC_start(b, N)
      <4>1. <<"initial", b, 0>> \in es
        BY DEF equations
      <4>2. MPC_row(<<"initial", b, 0>>, N) = r
        BY <3>2 DEF MPC_row, MPC_fg_start
      <4>3. QED
        BY <4>1, <4>2
    <3>3. CASE r # MPC_start(b, N)
      <4>1. i \in 0 .. N - 2
        BY <2>1, <3>1, <3>3 DEF Lengths
      <4>2. <<"dynamics", b, i>> \in es
        BY <4>1 DEF equations
      <4>3. MPC_row(<<"dynamics", b, i>>, N) = r
        BY <2>1, <3>1 DEF MPC_row, MPC_fg_start, Lengths
      <4>4. QED
        BY <4>2, <4>3
    <3>4. QED
      BY <3>2, <3>3
  <2>2. CASE r < 5 * N
    <3>1. \E b \in MPC_states : r \in MPC_start(b, N) .. MPC_start(b, N) + N - 1
      BY <1>1, <2>2 DEF Lengths, MPC_states, Poses, Errors, MPC_start
    <3>2. QED
      BY <2>1, <3>1
  <2>3. CASE r > 5 * N
    <3> DEFINE i == r - 5 * N - 1
    <3>1. i \in 0 .. N - 2
      BY <1>1, <2>3 DEF Lengths
    <3>2. <<"barrier", "h", i>> \in es
      BY <3>1 DEF equations
    <3>3. MPC_row(<<"barrier", "h", i>>, N) = r
      BY <1>1, <2>3 DEF MPC_row, MPC_fg_start, MPC_start, Lengths
    <3>4. QED
      BY <3>2, <3>3
  <2>4. r < 5 * N \/ r > 5 * N
    BY <1>1 DEF Lengths
  <2>5. QED
    BY <2>2, <2>3, <2>4
<1>2. \A e \in es : MPC_row(e, N) # 5 * N
  BY DEF Lengths, equations, MPC_states, Poses, Errors, MPC_row, MPC_fg_start, MPC_start
<1>3. 5 * N \in 0 .. 6 * N - 1 /\ MPC_n_constraints(N) = 6 * N
  BY DEF Lengths, MPC_n_constraints
<1>4. QED
  BY <1>1, <1>2, <1>3

LEMMA MPC_ACCSpare ==
  ASSUME NEW N \in Lengths, NEW barrier \in BOOLEAN
  PROVE  (0 .. MPC_ACC_n_constraints(N, barrier) - 1)
           \ { MPC_ACC_row(e, N) : e \in equations(MPC_ACC_states, N, barrier) }
         = IF barrier THEN {6 * N} ELSE {}
<1> DEFINE es == equations(MPC_ACC_states, N, barrier)
           m == MPC_ACC_n_constraints(N, barrier)
<1>1. ASSUME NEW r \in 0 .. m - 1, r # 6 * N
      PROVE  \E e \in es : MPC_ACC_row(e, N) = r
  <2>1. ASSUME NEW b \in MPC_ACC_states,
               r \in MPC_ACC_start(b, N) .. MPC_ACC_start(b, N) + N - 1
        PROVE  \E e \in es : MPC_ACC_row(e, N) = r
    <3> DEFINE i == r - MPC_ACC_start(b, N) - 1
    <3>1. MPC_ACC_start(b, N) \in Nat
      BY DEF Lengths, MPC_ACC_states, Poses, Errors, MPC_ACC_start
    <3>2. CASE r = MPC_ACC_start(b, N)
      <4>1. <<"initial", b, 0>> \in es
        BY DEF equations
      <4>2. MPC_ACC_row(<<"initial", b, 0>>, N) = r
        BY <3>2 DEF MPC_ACC_row, MPC_ACC_fg_start
      <4>3. QED
        BY <4>1, <4>2
    <3>3. CASE r # MPC_ACC_start(b, N)
      <4>1. r \in Int
        BY <1>1 DEF MPC_ACC_n_constraints, Lengths
      <4>2. i \in 0 .. N - 2
        BY <2>1, <3>1, <3>3, <4>1 DEF Lengths
      <4>3. <<"dynamics", b, i>> \in es
        BY <4>2 DEF equations
      <4>4. MPC_ACC_row(<<"dynamics", b, i>>, N) = r
        BY <2>1, <3>1, <4>1 DEF MPC_ACC_row, MPC_ACC_fg_start, Lengths
      <4>5. QED
        BY <4>3, <4>4
    <3>4. QED
      BY <3>2, <3>3
  <2>2. CASE r < 6 * N
    <3>1. \E b \in MPC_ACC_states : r \in MPC_ACC_start(b, N) .. MPC_ACC_start(b, N) + N - 1
      BY <1>1, <2>2 DEF Lengths, MPC_ACC_states, Poses, Errors, MPC_ACC_start,
                        MPC_ACC_n_constraints
    <3>2. QED
      BY <2>1, <3>1
  <2>3. CASE r > 6 * N
    <3> DEFINE i == r - 6 * N - 1
    <3>1. barrier /\ i \in 0 .. N - 2
      BY <1>1, <2>3 DEF Lengths, MPC_ACC_n_constraints
    <3>2. <<"barrier", "h", i>> \in es
      BY <3>1 DEF equations
    <3>3. MPC_ACC_row(<<"barrier", "h", i>>, N) = r
      BY <1>1, <2>3 DEF MPC_ACC_row, MPC_ACC_fg_start, MPC_ACC_start, MPC_ACC_n_constraints, Lengths
    <3>4. QED
      BY <3>2, <3>3
  <2>4. r < 6 * N \/ r > 6 * N
    BY <1>1 DEF Lengths, MPC_ACC_n_constraints
  <2>5. QED
    BY <2>2, <2>3, <2>4
<1>2. \A e \in es : MPC_ACC_row(e, N) # 6 * N
  BY DEF Lengths, equations, MPC_ACC_states, Poses, Errors, MPC_ACC_row, MPC_ACC_fg_start, MPC_ACC_start
<1>3. IF barrier THEN 6 * N \in 0 .. m - 1 ELSE 6 * N \notin 0 .. m - 1
  BY DEF Lengths, MPC_ACC_n_constraints
<1>4. QED
  BY <1>1, <1>2, <1>3

LEMMA CBFHorizonSpare ==
  ASSUME NEW N \in Lengths, NEW barrier \in BOOLEAN
  PROVE  (0 .. CBFHorizon_n_constraints(N, barrier) - 1)
           \ { CBFHorizon_row(e, N, FALSE) : e \in equations(CBFHorizon_states, N, barrier) }
         = {}
<1> DEFINE es == equations(CBFHorizon_states, N, barrier)
           m == CBFHorizon_n_constraints(N, barrier)
<1> SUFFICES ASSUME NEW r \in 0 .. m - 1
             PROVE  \E e \in es : CBFHorizon_row(e, N, FALSE) = r
  OBVIOUS
<1>1. CASE r < 6
  <2>1. \E b \in CBFHorizon_states : CBFHorizon_start(b) = r
    BY <1>1 DEF CBFHorizon_states, MPC_ACC_states, Poses, Errors, CBFHorizon_start,
                CBFHorizon_n_constraints, Lengths
  <2>2. PICK b \in CBFHorizon_states : CBFHorizon_start(b) = r
    BY <2>1
  <2>3. <<"initial", b, 0>> \in es
    BY DEF equations
  <2>4. CBFHorizon_row(<<"initial", b, 0>>, N, FALSE) = r
    BY <2>2 DEF CBFHorizon_row
  <2>5. QED
    BY <2>3, <2>4
<1>2. CASE r >= 6 /\ r < 6 * N
  <2>1. PICK i \in 0 .. N - 2, k \in 0 .. 5 : r = k + 6 * (i + 1)
    <3> DEFINE q == r \div 6 - 1
    <3>1. r \in Nat
      BY DEF CBFHorizon_n_constraints, Lengths
    <3>2. q \in 0 .. N - 2 /\ (r % 6) \in 0 .. 5 /\ r = (r % 6) + 6 * (q + 1)
      BY <1>2, <3>1 DEF Lengths
    <3>3. QED
      BY <3>2
  <2>2. PICK b \in CBFHorizon_states : CBFHorizon_start(b) = k
    BY DEF CBFHorizon_states, MPC_ACC_states, Poses, Errors, CBFHorizon_start
  <2>3. <<"dynamics", b, i>> \in es
    BY DEF equations
  <2>4. CBFHorizon_row(<<"dynamics", b, i>>, N, FALSE) = r
    BY <2>1, <2>2 DEF CBFHorizon_row, ind_inc
  <2>5. QED
    BY <2>3, <2>4
<1>3. CASE r >= 6 * N
  <2> DEFINE i == r - 6 * N
  <2>1. barrier /\ i \in 0 .. N - 2
    BY <1>3 DEF CBFHorizon_n_constraints, Lengths
  <2>2. <<"barrier", "h", i>> \in es
    BY <2>1 DEF equations
  <2>3. CBFHorizon_row(<<"barrier", "h", i>>, N, FALSE) = r
    BY <1>3 DEF CBFHorizon_row, CBFHorizon_n_constraints, Lengths
  <2>4. QED
    BY <2>2, <2>3
<1>4. r < 6 \/ (r >= 6 /\ r < 6 * N) \/ r >= 6 * N
  BY DEF CBFHorizon_n_constraints, Lengths
<1>5. QED
  BY <1>1, <1>2, <1>3, <1>4

\* POS_MPC without a polygon, and MPCNLOPT for a trajectory.
LEMMA POS_MPCRows == \A N \in Lengths : POS_MPCOwnRows(N)
<1> SUFFICES ASSUME NEW N \in Lengths PROVE POS_MPCOwnRows(N)
  OBVIOUS
<1> DEFINE es == POS_MPC_equations(N, 0)
<1>1. es = equations(Poses, N, FALSE) /\ POS_MPC_n_constraints(N, 0) = 3 * N
  BY DEF POS_MPC_equations, equations, POS_MPC_n_constraints, Lengths
<1>2. ASSUME NEW e \in es, NEW f \in es
      PROVE  /\ POS_MPC_row(e, N) = POS_MPC_row(f, N) => e = f
             /\ POS_MPC_row_limits(POS_MPC_row(e, N), N) = row_limits_of(e)
  <2>1. POS_MPC_row(e, N) = POS_MPC_row(f, N) => e = f
    BY <1>1 DEF Lengths, equations, Poses, POS_MPC_row, POS_MPC_fg_start, POS_MPC_start
  <2>2. POS_MPC_row_limits(POS_MPC_row(e, N), N) = row_limits_of(e)
    BY <1>1 DEF Lengths, equations, Poses, POS_MPC_row, POS_MPC_fg_start, POS_MPC_start,
                POS_MPC_row_limits, row_limits_of
  <2>3. QED
    BY <2>1, <2>2
<1>3. ASSUME NEW r \in 0 .. 3 * N - 1
      PROVE  \E e \in es : POS_MPC_row(e, N) = r
  <2>1. PICK b \in Poses : r \in POS_MPC_start(b, N) .. POS_MPC_start(b, N) + N - 1
    BY DEF Lengths, Poses, POS_MPC_start
  <2>2. POS_MPC_start(b, N) \in Nat
    BY DEF Lengths, Poses, POS_MPC_start
  <2> DEFINE i == r - POS_MPC_start(b, N) - 1
  <2>3. CASE r = POS_MPC_start(b, N)
    <3>1. <<"initial", b, 0>> \in es
      BY <1>1 DEF equations
    <3>2. POS_MPC_row(<<"initial", b, 0>>, N) = r
      BY <2>3 DEF POS_MPC_row, POS_MPC_fg_start
    <3>3. QED
      BY <3>1, <3>2
  <2>4. CASE r # POS_MPC_start(b, N)
    <3>1. i \in 0 .. N - 2
      BY <2>1, <2>2, <2>4 DEF Lengths
    <3>2. <<"dynamics", b, i>> \in es
      BY <1>1, <3>1 DEF equations
    <3>3. POS_MPC_row(<<"dynamics", b, i>>, N) = r
      BY <2>1, <2>2 DEF POS_MPC_row, POS_MPC_fg_start, Lengths
    <3>4. QED
      BY <3>2, <3>3
  <2>5. QED
    BY <2>3, <2>4
<1>4. QED
  BY <1>1, <1>2, <1>3 DEF POS_MPCOwnRows, OwnRows

LEMMA MPCNLOPTRows == \A N \in Lengths : MPCNLOPTOwnRows(N)
<1> SUFFICES ASSUME NEW N \in Lengths PROVE MPCNLOPTOwnRows(N)
  OBVIOUS
<1> DEFINE es == equations(MPC_ACC_states, N, FALSE)
           block == [x |-> 0, y |-> 1, theta |-> 2, v |-> 3, cte |-> 4, etheta |-> 5]
\* These are the rows of MPC_ACC without a barrier.
<1>1. ASSUME NEW e \in es PROVE MPCNLOPT_track_row(e, N) = MPC_ACC_row(e, N)
  <2>1. ASSUME NEW b \in MPC_ACC_states PROVE N * block[b] = MPC_ACC_start(b, N)
    BY <2>1 DEF Lengths, MPC_ACC_states, Poses, Errors, MPC_ACC_start
  <2>2. e[2] \in MPC_ACC_states /\ MPC_ACC_start(e[2], N) \in Nat
    BY DEF Lengths, equations, MPC_ACC_states, Poses, Errors, MPC_ACC_start
  <2>3. MPCNLOPT_track_row(e, N)
          = MPC_ACC_start(e[2], N) + (IF e[1] = "initial" THEN 0 ELSE e[3] + 1)
    BY <2>1, <2>2 DEF MPCNLOPT_track_row
  <2>4. e[1] = "initial" \/ (e[1] = "dynamics" /\ e[3] \in Int)
    BY DEF equations, Lengths
  <2>5. QED
    BY <2>2, <2>3, <2>4 DEF MPC_ACC_row, MPC_ACC_fg_start
<1>2. \A e, f \in es : MPCNLOPT_track_row(e, N) = MPCNLOPT_track_row(f, N) => e = f
  BY <1>1, MPC_ACCRows
<1>3. \A e \in es : MPC_ACC_row(e, N) \in 0 .. 6 * N - 1
  BY DEF Lengths, equations, MPC_ACC_states, Poses, Errors, MPC_ACC_row, MPC_ACC_fg_start,
         MPC_ACC_start
<1>4. (0 .. 6 * N - 1) \ { MPC_ACC_row(e, N) : e \in es } = {}
  <2>1. (0 .. MPC_ACC_n_constraints(N, FALSE) - 1) \ { MPC_ACC_row(e, N) : e \in es } = {}
    BY MPC_ACCSpare
  <2>2. MPC_ACC_n_constraints(N, FALSE) = 6 * N
    BY DEF MPC_ACC_n_constraints, Lengths
  <2>3. QED
    BY <2>1, <2>2
<1>5. { MPCNLOPT_track_fd_row(e, N) : e \in es } = 0 .. MPCNLOPT_track_fd_rows(N) - 1
  BY <1>1, <1>3, <1>4 DEF MPCNLOPT_track_fd_row, MPCNLOPT_track_fd_rows
<1>6. QED
  BY <1>2, <1>5 DEF MPCNLOPTOwnRows, MPCNLOPT_track_states

-----------------------------------------------------------------------------

(***************************************************************************)
(* The safety filters.                                                     *)
(***************************************************************************)

LEMMA UnicycleRows ==
  ASSUME NEW N \in Lengths
  PROVE  /\ \A e, f \in Unicycle_equations(N) :
              Unicycle_row(e, N) = Unicycle_row(f, N) => e = f
         /\ \A e \in Unicycle_equations(N) :
              Unicycle_row_limits(Unicycle_row(e, N), N) = row_limits_of(e)
         /\ (0 .. Unicycle_n_constraints(N) - 1)
              \ { Unicycle_row(e, N) : e \in Unicycle_equations(N) } = {}
<1> DEFINE es == Unicycle_equations(N)
<1>1. 0 .. Unicycle_n_constraints(N) - 1 = 0 .. 4 * N - 2
  BY DEF Unicycle_n_constraints, Lengths
<1>2. ASSUME NEW e \in es, NEW f \in es
      PROVE  Unicycle_row(e, N) = Unicycle_row(f, N) => e = f
  BY DEF Lengths, Unicycle_equations, equations, Poses, Unicycle_row, Unicycle_fg_start,
         Unicycle_start
<1>3. ASSUME NEW e \in es
      PROVE  Unicycle_row_limits(Unicycle_row(e, N), N) = row_limits_of(e)
  BY DEF Lengths, Unicycle_equations, equations, Poses, Unicycle_row, Unicycle_fg_start,
         Unicycle_start, Unicycle_row_limits, Unicycle_n_constraints, row_limits_of
<1>4. ASSUME NEW r \in 0 .. 4 * N - 2
      PROVE  \E e \in es : Unicycle_row(e, N) = r
  <2>1. CASE r >= 3 * N
    <3> DEFINE i == r - 3 * N
    <3>1. <<"barrier", "h", i>> \in es
      BY <2>1 DEF Unicycle_equations, equations, Lengths
    <3>2. Unicycle_row(<<"barrier", "h", i>>, N) = r
      BY <2>1 DEF Unicycle_row, Unicycle_fg_start, Unicycle_start, Lengths
    <3>3. QED
      BY <3>1, <3>2
  <2>2. CASE r < 3 * N
    <3>1. PICK b \in Poses : r \in Unicycle_start(b, N) .. Unicycle_start(b, N) + N - 1
      BY <2>2 DEF Lengths, Poses, Unicycle_start
    <3>2. Unicycle_start(b, N) \in Nat
      BY DEF Lengths, Poses, Unicycle_start
    <3> DEFINE i == r - Unicycle_start(b, N) - 1
    <3>3. CASE r = Unicycle_start(b, N)
      <4>1. <<"initial", b, 0>> \in es
        BY DEF Unicycle_equations, equations
      <4>2. Unicycle_row(<<"initial", b, 0>>, N) = r
        BY <3>3 DEF Unicycle_row, Unicycle_fg_start
      <4>3. QED
        BY <4>1, <4>2
    <3>4. CASE r # Unicycle_start(b, N)
      <4>1. i \in 0 .. N - 2
        BY <3>1, <3>2, <3>4 DEF Lengths
      <4>2. <<"dynamics", b, i>> \in es
        BY <4>1 DEF Unicycle_equations, equations
      <4>3. Unicycle_row(<<"dynamics", b, i>>, N) = r
        BY <3>1, <3>2 DEF Unicycle_row, Unicycle_fg_start, Lengths
      <4>4. QED
        BY <4>2, <4>3
    <3>5. QED
      BY <3>3, <3>4
  <2>3. QED
    BY <2>1, <2>2 DEF Lengths
<1>5. (0 .. Unicycle_n_constraints(N) - 1) \ { Unicycle_row(e, N) : e \in es } = {}
  <2> SUFFICES \A r \in 0 .. 4 * N - 2 : \E e \in es : Unicycle_row(e, N) = r
    BY <1>1
  <2>1. QED
    BY <1>4
<1>6. QED
  BY <1>2, <1>3, <1>5

\* The rows of the extended unicycle are its own too, but the last N - 1, whose limits are
\* one-sided, are nobody's.
LEMMA FiltersRows == \A N \in Lengths : FiltersOwnRows(N)
<1> SUFFICES ASSUME NEW N \in Lengths PROVE FiltersOwnRows(N)
  OBVIOUS
<1> DEFINE es == Extended_equations(N)
<1>1. \A e, f \in es : Extended_row(e, N) = Extended_row(f, N) => e = f
  BY DEF Lengths, Extended_equations, equations, Extended_states, Extended_row,
         Extended_fg_start, Extended_start
<1>2. ASSUME NEW e \in es
      PROVE  /\ Extended_row(e, N) \in 0 .. 6 * N - 2
             /\ Extended_row_limits(Extended_row(e, N), N)
                  = IF e[1] = "barrier" THEN "zero" ELSE row_limits_of(e)
  <2>1. Extended_row(e, N) \in 0 .. 6 * N - 2
    BY DEF Lengths, Extended_equations, equations, Extended_states, Extended_row,
           Extended_fg_start, Extended_start
  <2>2. Extended_row_limits(Extended_row(e, N), N)
          = IF e[1] = "barrier" THEN "zero" ELSE row_limits_of(e)
    BY DEF Lengths, Extended_equations, equations, Extended_states, Extended_row,
           Extended_fg_start, Extended_start, Extended_row_limits, Extended_n_constraints,
           row_limits_of
  <2>3. QED
    BY <2>1, <2>2
<1>3. ASSUME NEW r \in 0 .. Extended_n_constraints(N) - 1,
             Extended_row_limits(r, N) = "one_sided"
      PROVE  r >= 6 * N
  BY <1>3 DEF Lengths, Extended_row_limits, Extended_n_constraints
<1>4. { r \in 0 .. Extended_n_constraints(N) - 1 : Extended_row_limits(r, N) = "one_sided" }
        \cap { Extended_row(e, N) : e \in es } = {}
  <2>1. \A e \in es : ~(Extended_row(e, N) >= 6 * N)
    BY <1>2 DEF Lengths
  <2>2. QED
    BY <1>3, <2>1
<1>5. QED
  BY <1>1, <1>2, <1>4, UnicycleRows DEF FiltersOwnRows, OwnRows

LEMMA FiltersOverruns == \A N \in Lengths : FiltersOverrun(N)
<1> SUFFICES ASSUME NEW N \in Lengths PROVE FiltersOverrun(N)
  OBVIOUS
<1> DEFINE us == Unicycle_cells(N)
           xs == Extended_cells(N)
<1>1. ASSUME NEW c \in us
      PROVE  /\ Unicycle_index(c, N) \in 0 .. Unicycle_n_vars(N) - 1
             /\ Unicycle_limits(Unicycle_index(c, N), N) = block_limits(c[1])
  <2>1. Unicycle_index(c, N) \in 0 .. Unicycle_n_vars(N) - 1
    BY DEF Lengths, Unicycle_cells, cells, Poses, Unicycle_index, Unicycle_fg_start,
           Unicycle_start, Unicycle_n_vars
  <2>2. Unicycle_limits(Unicycle_index(c, N), N) = block_limits(c[1])
    BY DEF Lengths, Unicycle_cells, cells, Poses, Unicycle_index, Unicycle_fg_start,
           Unicycle_start, Unicycle_limits, block_limits
  <2>3. QED
    BY <2>1, <2>2
<1>2. \A c, d \in us : Unicycle_index(c, N) = Unicycle_index(d, N) => c = d
  BY DEF Lengths, Unicycle_cells, cells, Poses, Unicycle_index, Unicycle_fg_start,
         Unicycle_start
<1>3. ASSUME NEW c \in xs
      PROVE  /\ Extended_index(c, N) \in 0 .. Extended_n_vars(N) - 1
             /\ Extended_limits(Extended_index(c, N), N)
                  = IF c[1] \in {"x_dot", "y_dot"} THEN "max_linvel" ELSE block_limits(c[1])
  <2>1. Extended_index(c, N) \in 0 .. Extended_n_vars(N) - 1
    BY DEF Lengths, Extended_cells, cells, Extended_states, MPC_ACC_inputs, Extended_index,
           Extended_fg_start, Extended_start, Extended_n_vars
  <2>2. Extended_limits(Extended_index(c, N), N)
          = IF c[1] \in {"x_dot", "y_dot"} THEN "max_linvel" ELSE block_limits(c[1])
    BY DEF Lengths, Extended_cells, cells, Extended_states, MPC_ACC_inputs, Extended_index,
           Extended_fg_start, Extended_start, Extended_limits, block_limits
  <2>3. QED
    BY <2>1, <2>2
<1>4. \A c, d \in xs : Extended_index(c, N) = Extended_index(d, N) => c = d
  BY DEF Lengths, Extended_cells, cells, Extended_states, MPC_ACC_inputs, Extended_index,
         Extended_fg_start, Extended_start
<1>5. ASSUME NEW c \in Unicycle_costs(N) \union Unicycle_answer(N)
                          \union UNION { Unicycle_reads(e) : e \in Unicycle_equations(N) }
      PROVE  c \in us
  <2>1. CASE c \in Unicycle_costs(N) \union Unicycle_answer(N)
    BY <2>1 DEF Lengths, Unicycle_costs, Unicycle_answer, Unicycle_cells, cells, Poses
  <2>2. ASSUME NEW e \in Unicycle_equations(N), c \in Unicycle_reads(e) PROVE c \in us
    BY <2>2 DEF Lengths, Unicycle_equations, equations, Unicycle_reads, reads, uses,
                Unicycle_cells, cells, Poses
  <2>3. QED
    BY <1>5, <2>1, <2>2
<1>6. ASSUME NEW c \in Extended_costs(N) \union Extended_answer(N)
                          \union UNION { Extended_reads(e) : e \in Extended_equations(N) }
      PROVE  c \in xs
  <2>1. CASE c \in Extended_costs(N) \union Extended_answer(N)
    BY <2>1 DEF Lengths, Extended_costs, Extended_answer, Extended_cells, cells,
                Extended_states, MPC_ACC_inputs
  <2>2. ASSUME NEW e \in Extended_equations(N), c \in Extended_reads(e) PROVE c \in xs
    BY <2>2 DEF Lengths, Extended_equations, equations, Extended_reads, Extended_uses,
                Extended_cells, cells, Extended_states, MPC_ACC_inputs
  <2>3. QED
    BY <1>6, <2>1, <2>2
<1>7. \A i \in Unicycle_guess_reads(N) \union Extended_guess_reads(N) : i >= N - 1
  BY DEF Lengths, Unicycle_guess_reads, Unicycle_start, Unicycle_n_vars, Extended_guess_reads,
         Extended_start, Extended_n_vars
<1> HIDE DEF us, xs
<1>8. QED
  BY <1>1, <1>2, <1>3, <1>4, <1>5, <1>6, <1>7 DEF FiltersOverrun, Within, us, xs

\* NLOPT's guess for one value is within its limit unless that is less than the margin.
LEMMA GuessWithin ==
  ASSUME NEW limit_i \in Nat, NEW wanted \in Int
  PROVE  LET upper == limit_i - CBFFilter_margin
             lower == -limit_i + CBFFilter_margin
             raised == IF lower < wanted THEN wanted ELSE lower
         IN  (IF raised < upper THEN raised ELSE upper) \in -limit_i .. limit_i
               <=> ~(limit_i < CBFFilter_margin)
BY DEF CBFFilter_margin

LEMMA CBFFilterAnswers ==
  ASSUME NEW filter, filter.max_angvel \in Nat, filter.max_linacc \in Nat,
         NEW desired \in Int \X Int, NEW mapped \in BOOLEAN, NEW near \in BOOLEAN,
         NEW throws \in BOOLEAN, NEW found, CBFFilter_within(filter, found)
  PROVE  ~CBFFilter_within(filter, CBFFilter_Solve(filter, mapped, near, throws, desired, found))
           <=> /\ ~CBFFilter_within(filter, desired)
               /\ \/ ~mapped \/ ~near \/ throws
                  \/ \E i \in 1 .. 2 : CBFFilter_limit(filter, i) < CBFFilter_margin
<1>1. \A i \in 1 .. 2 : CBFFilter_limit(filter, i) \in Nat /\ desired[i] \in Int
  BY DEF CBFFilter_limit
<1>2. \A i \in 1 .. 2 :
        CBFFilter_guess(filter, desired)[i]
            \in -CBFFilter_limit(filter, i) .. CBFFilter_limit(filter, i)
          <=> ~(CBFFilter_limit(filter, i) < CBFFilter_margin)
  <2> SUFFICES ASSUME NEW i \in 1 .. 2
               PROVE  CBFFilter_guess(filter, desired)[i]
                          \in -CBFFilter_limit(filter, i) .. CBFFilter_limit(filter, i)
                        <=> ~(CBFFilter_limit(filter, i) < CBFFilter_margin)
    OBVIOUS
  <2>1. CBFFilter_limit(filter, i) \in Nat /\ desired[i] \in Int
    BY <1>1
  <2>2. QED
    BY <2>1, GuessWithin DEF CBFFilter_guess
<1>3. CBFFilter_within(filter, CBFFilter_guess(filter, desired))
        <=> ~\E i \in 1 .. 2 : CBFFilter_limit(filter, i) < CBFFilter_margin
  BY <1>2 DEF CBFFilter_within
<1>4. QED
  BY <1>3 DEF CBFFilter_Solve

LEMMA FiltersAnswers == FiltersAnswer
<1> SUFFICES ASSUME NEW given \in UNION { [names -> 0 .. 2] : names \in SUBSET DOMAIN CBFFilter_limits },
                    NEW desired \in (-3 .. 3) \X (-3 .. 3), NEW mapped \in BOOLEAN,
                    NEW near \in BOOLEAN, NEW throws \in BOOLEAN, NEW end \in {-1, 1}
             PROVE  LET filter == CBFFilter_load_params(CBFFilter_limits, given)
                        found == [i \in 1 .. 2 |-> end * CBFFilter_limit(filter, i)]
                        reply == CBFFilter_Solve(filter, mapped, near, throws, desired, found)
                    IN  ~CBFFilter_within(filter, reply) <=>
                          /\ ~CBFFilter_within(filter, desired)
                          /\ \/ ~mapped \/ ~near \/ throws
                             \/ \E i \in 1 .. 2 : CBFFilter_limit(filter, i) < CBFFilter_margin
  BY Zenon DEF FiltersAnswer
<1> DEFINE filter == CBFFilter_load_params(CBFFilter_limits, given)
           found == [i \in 1 .. 2 |-> end * CBFFilter_limit(filter, i)]
<1>1. DOMAIN CBFFilter_limits = {"max_angvel", "max_linacc"}
  BY DEF CBFFilter_limits
<1>2. filter.max_angvel \in Nat /\ filter.max_linacc \in Nat
  <2>1. PICK names \in SUBSET DOMAIN CBFFilter_limits : given \in [names -> 0 .. 2]
    OBVIOUS
  <2>2. ASSUME NEW p \in DOMAIN CBFFilter_limits
        PROVE  (IF p \in DOMAIN given THEN given[p] ELSE CBFFilter_limits[p]) \in Nat
    <3>1. CBFFilter_limits[p] \in Nat
      BY <1>1 DEF CBFFilter_limits
    <3>2. p \in DOMAIN given => given[p] \in Nat
      BY <2>1
    <3>3. QED
      BY <3>1, <3>2
  <2>3. filter["max_angvel"] \in Nat /\ filter["max_linacc"] \in Nat
    BY <1>1, <2>2 DEF CBFFilter_load_params
  <2>4. QED
    BY <2>3
<1> HIDE DEF filter
<1>3. \A i \in 1 .. 2 : CBFFilter_limit(filter, i) \in Nat
  BY <1>2 DEF CBFFilter_limit
<1>4. CBFFilter_within(filter, found)
  <2> SUFFICES ASSUME NEW i \in 1 .. 2
               PROVE  found[i] \in -CBFFilter_limit(filter, i) .. CBFFilter_limit(filter, i)
    BY DEF CBFFilter_within
  <2>1. found[i] = end * CBFFilter_limit(filter, i)
    OBVIOUS
  <2>2. ASSUME NEW l \in Nat PROVE end * l \in -l .. l
    <3>1. CASE end = 1
      BY <3>1
    <3>2. CASE end = -1
      BY <3>2
    <3>3. QED
      BY <3>1, <3>2
  <2>3. QED
    BY <1>3, <2>1, <2>2
<1>5. desired \in Int \X Int
  OBVIOUS
<1> HIDE DEF found
<1>6. QED
  BY <1>2, <1>4, <1>5, CBFFilterAnswers, ZenonT(30) DEF filter, found

\* NLOPT's differences of its two functions, for any input: the objective changes by four
\* times the way from its least value, the barrier by twice its factor.
LEMMA Moved ==
  ASSUME NEW u \in Int \X Int
  PROVE  LET up(i) == CBFFilter_moved(u, i, 1)
             down(i) == CBFFilter_moved(u, i, -1)
         IN  /\ up(1)[1] = u[1] + 1 /\ up(1)[2] = u[2]
             /\ up(2)[1] = u[1] /\ up(2)[2] = u[2] + 1
             /\ down(1)[1] = u[1] - 1 /\ down(1)[2] = u[2]
             /\ down(2)[1] = u[1] /\ down(2)[2] = u[2] - 1
BY DEF CBFFilter_moved

LEMMA ObjectiveDifferences ==
  ASSUME NEW guess \in Int \X Int, NEW u \in Int \X Int
  PROVE  CBFFilter_objective_grad(guess, u) = [i \in 1 .. 2 |-> 4 * (u[i] - guess[i])]
<1> DEFINE sq(g, v) == (g - v) * (g - v)
           f(w) == sq(guess[1], w[1]) + sq(guess[2], w[2])
           up(i) == CBFFilter_moved(u, i, 1)
           down(i) == CBFFilter_moved(u, i, -1)
<1>1. CBFFilter_objective_grad(guess, u) = [i \in 1 .. 2 |-> f(up(i)) - f(down(i))]
  BY DEF CBFFilter_objective_grad, CBFFilter_eval_objective
<1>2. \A g, v \in Int :
        /\ sq(g, v) \in Int /\ sq(g, v + 1) \in Int /\ sq(g, v - 1) \in Int
        /\ sq(g, v + 1) - sq(g, v - 1) = 4 * (v - g)
  OBVIOUS
<1>3. u[1] \in Int /\ u[2] \in Int /\ guess[1] \in Int /\ guess[2] \in Int
  OBVIOUS
<1>4. /\ up(1)[1] = u[1] + 1 /\ up(1)[2] = u[2] /\ up(2)[1] = u[1] /\ up(2)[2] = u[2] + 1
      /\ down(1)[1] = u[1] - 1 /\ down(1)[2] = u[2]
      /\ down(2)[1] = u[1] /\ down(2)[2] = u[2] - 1
  BY Moved
<1> HIDE DEF sq, up, down
<1>5. f(up(1)) - f(down(1)) = 4 * (u[1] - guess[1])
  <2>1. /\ f(up(1)) = sq(guess[1], u[1] + 1) + sq(guess[2], u[2])
        /\ f(down(1)) = sq(guess[1], u[1] - 1) + sq(guess[2], u[2])
    BY <1>4
  <2>2. /\ sq(guess[1], u[1] + 1) \in Int /\ sq(guess[1], u[1] - 1) \in Int
        /\ sq(guess[2], u[2]) \in Int
        /\ sq(guess[1], u[1] + 1) - sq(guess[1], u[1] - 1) = 4 * (u[1] - guess[1])
    BY <1>2, <1>3, Zenon
  <2> HIDE DEF f
  <2>3. QED
    BY <2>1, <2>2
<1>6. f(up(2)) - f(down(2)) = 4 * (u[2] - guess[2])
  <2>1. /\ f(up(2)) = sq(guess[1], u[1]) + sq(guess[2], u[2] + 1)
        /\ f(down(2)) = sq(guess[1], u[1]) + sq(guess[2], u[2] - 1)
    BY <1>4
  <2>2. /\ sq(guess[2], u[2] + 1) \in Int /\ sq(guess[2], u[2] - 1) \in Int
        /\ sq(guess[1], u[1]) \in Int
        /\ sq(guess[2], u[2] + 1) - sq(guess[2], u[2] - 1) = 4 * (u[2] - guess[2])
    BY <1>2, <1>3, Zenon
  <2> HIDE DEF f
  <2>3. QED
    BY <2>1, <2>2
<1> HIDE DEF f
<1>7. QED
  BY <1>1, <1>5, <1>6

LEMMA BarrierDifferences ==
  ASSUME NEW barrier \in Int \X Int \X Int, NEW u \in Int \X Int
  PROVE  CBFFilter_constraint_grad(barrier, u) = [i \in 1 .. 2 |-> -2 * barrier[i + 1]]
<1> DEFINE f(w) == -barrier[1] - barrier[3] * w[2] - barrier[2] * w[1]
           up(i) == CBFFilter_moved(u, i, 1)
           down(i) == CBFFilter_moved(u, i, -1)
<1>1. CBFFilter_constraint_grad(barrier, u) = [i \in 1 .. 2 |-> f(up(i)) - f(down(i))]
  BY DEF CBFFilter_constraint_grad, CBFFilter_eval_constraint
<1>2. /\ u[1] \in Int /\ u[2] \in Int
      /\ barrier[1] \in Int /\ barrier[2] \in Int /\ barrier[3] \in Int
  OBVIOUS
<1>3. /\ up(1)[1] = u[1] + 1 /\ up(1)[2] = u[2] /\ up(2)[1] = u[1] /\ up(2)[2] = u[2] + 1
      /\ down(1)[1] = u[1] - 1 /\ down(1)[2] = u[2]
      /\ down(2)[1] = u[1] /\ down(2)[2] = u[2] - 1
  BY Moved
<1> DEFINE a == barrier[1]  b == barrier[2]  c == barrier[3]  x == u[1]  y == u[2]
<1>4. /\ f(up(1)) = -a - c * y - b * (x + 1) /\ f(down(1)) = -a - c * y - b * (x - 1)
      /\ f(up(2)) = -a - c * (y + 1) - b * x /\ f(down(2)) = -a - c * (y - 1) - b * x
  BY <1>3
<1>5. a \in Int /\ b \in Int /\ c \in Int /\ x \in Int /\ y \in Int
  BY <1>2
<1> HIDE DEF f, up, down, a, b, c, x, y
<1>6. f(up(1)) - f(down(1)) = -2 * b /\ f(up(2)) - f(down(2)) = -2 * c
  BY <1>4, <1>5
<1>7. QED
  BY <1>1, <1>6 DEF b, c

LEMMA FiltersGradients == FiltersGradient
<1> SUFFICES ASSUME NEW desired \in (-3 .. 3) \X (-3 .. 3), NEW u \in (-3 .. 3) \X (-3 .. 3)
             PROVE  LET filter == CBFFilter_load_params(CBFFilter_limits,
                                    [max_angvel |-> 2, max_linacc |-> 3])
                        guess == CBFFilter_guess(filter, desired)
                    IN  /\ CBFFilter_objective_grad(guess, u) = [i \in 1 .. 2 |-> 0] <=> u = guess
                        /\ \A barrier \in (0 .. 1) \X (0 .. 1) \X (0 .. 1) :
                             CBFFilter_constraint_grad(barrier, u)
                               = CBFFilter_constraint_grad(barrier, guess)
  BY Zenon DEF FiltersGradient
<1> DEFINE given == [max_angvel |-> 2, max_linacc |-> 3]
           filter == CBFFilter_load_params(CBFFilter_limits, given)
           guess == CBFFilter_guess(filter, desired)
<1>1. filter.max_angvel \in Int /\ filter.max_linacc \in Int
  BY DEF CBFFilter_load_params, CBFFilter_limits
<1> HIDE DEF filter
<1>2. \A i \in 1 .. 2 : CBFFilter_limit(filter, i) \in Int /\ desired[i] \in Int
  BY <1>1 DEF CBFFilter_limit
<1>3. \A l, d \in Int :
        LET raised == IF -l + CBFFilter_margin < d THEN d ELSE -l + CBFFilter_margin
        IN  (IF raised < l - CBFFilter_margin THEN raised ELSE l - CBFFilter_margin) \in Int
  BY DEF CBFFilter_margin
<1>4. guess \in [1 .. 2 -> Int]
  BY <1>2, <1>3 DEF CBFFilter_guess
<1>5. guess = <<guess[1], guess[2]>> /\ guess[1] \in Int /\ guess[2] \in Int
  BY <1>4
<1>6. guess \in Int \X Int /\ u \in Int \X Int
  BY <1>5
<1> HIDE DEF guess
<1>7. CBFFilter_objective_grad(guess, u) = [i \in 1 .. 2 |-> 0] <=> u = guess
  <2>1. CBFFilter_objective_grad(guess, u) = [i \in 1 .. 2 |-> 4 * (u[i] - guess[i])]
    BY <1>6, ObjectiveDifferences
  <2>2. CBFFilter_objective_grad(guess, u) = [i \in 1 .. 2 |-> 0]
          <=> 4 * (u[1] - guess[1]) = 0 /\ 4 * (u[2] - guess[2]) = 0
    BY <2>1
  <2>3. u = guess <=> u[1] = guess[1] /\ u[2] = guess[2]
    BY <1>6
  <2>4. QED
    BY <1>6, <2>2, <2>3
<1>8. ASSUME NEW barrier \in (0 .. 1) \X (0 .. 1) \X (0 .. 1)
      PROVE  CBFFilter_constraint_grad(barrier, u) = CBFFilter_constraint_grad(barrier, guess)
  <2>1. barrier \in Int \X Int \X Int
    OBVIOUS
  <2>2. QED
    BY <1>6, <2>1, BarrierDifferences
<1>9. QED
  BY <1>7, <1>8 DEF guess, filter

-----------------------------------------------------------------------------

\* The class, the length of the horizon and the choice of a barrier never change.
ParamsOK ==
  /\ core_type \in Types /\ steps \in StepsSet /\ use_cbf \in BOOLEAN /\ dynamic \in BOOLEAN

LEMMA ParamsStay == [LoopNext]_<<coreVars, optVars>> => UNCHANGED <<core_type, params>>
<1> SUFFICES ASSUME [LoopNext]_<<coreVars, optVars>>
             PROVE  UNCHANGED <<core_type, params>>
  OBVIOUS
<1>1. CASE SetReference \/ SetDistMap \/ LoadParams \/ WithoutReference
             \/ EvaluateHFunction \/ (\E processed \in BOOLEAN : SetDistMapFromGrid(processed))
             \/ \E size \in ListSizes : SetReferenceList(size)
  BY <1>1 DEF SetReference, set_reference, SetReferenceList, set_reference_list,
              SetDistMap, LoadParams, WithoutReference,
              solveWithoutReference, EvaluateHFunction, SetDistMapFromGrid,
              coreVars, optVars, params
<1>2. CASE \E ok \in BOOLEAN : SolveMPC(ok)
  BY <1>2 DEF SolveMPC, Ends, Take, solve, coreVars, params
<1>3. CASE \E ok \in BOOLEAN : SolveMPC_ACC(ok)
  BY <1>3 DEF SolveMPC_ACC, Ends, Take, solve, coreVars, params
<1>4. CASE \E ok, near \in BOOLEAN : SolveCBFHorizon(ok, near)
  BY <1>4 DEF SolveCBFHorizon, Ends, Take, solve, coreVars, params
<1>5. CASE SolveMPCNLOPT
  BY <1>5 DEF SolveMPCNLOPT, Ends, coreVars, params
<1>6. CASE UNCHANGED <<coreVars, optVars>>
  BY <1>6 DEF coreVars, optVars, params
<1>7. QED
  BY <1>1, <1>2, <1>3, <1>4, <1>5, <1>6 DEF LoopNext

LEMMA ParamsInvariant == LoopSpec => []ParamsOK
<1>1. LoopInit => ParamsOK
  BY DEF LoopInit, OptInit, ParamsOK
<1>2. ParamsOK /\ [LoopNext]_<<coreVars, optVars>> => ParamsOK'
  BY ParamsStay DEF ParamsOK, params
<1>3. QED
  BY <1>1, <1>2, PTL DEF LoopSpec

\* For every horizon length, no value of the horizon shares a variable with another and
\* each has the limits of its own block.
THEOREM LimitsAreOwn == LoopSpec => []AskedLimits
<1>1. ParamsOK => AskedLimits
  <2> SUFFICES ASSUME ParamsOK PROVE AskedLimits
    OBVIOUS
  <2>1. steps \in Lengths /\ dynamic \in BOOLEAN
    BY LoopAssumption DEF ParamsOK, Lengths
  <2>2. CASE core_type = "track_vel_ipopt"
    BY <2>1, <2>2, MPCVariables, MPCNLOPTVariables DEF AskedLimits, OwnLimits
  <2>3. CASE core_type = "track_acc_ipopt"
    BY <2>1, <2>3, MPC_ACCVariables, MPCNLOPTVariables DEF AskedLimits, OwnLimits
  <2>4. CASE core_type = "track_acc_nlopt"
    BY <2>1, <2>4, CBFHorizonVariables, MPCNLOPTVariables DEF AskedLimits
  <2>5. CASE core_type \notin {"track_vel_ipopt", "track_acc_ipopt", "track_acc_nlopt"}
    BY <2>1, <2>5, MPCNLOPTVariables DEF AskedLimits
  <2>6. QED
    BY <2>2, <2>3, <2>4, <2>5
<1>2. QED
  BY <1>1, ParamsInvariant, PTL

\* For every horizon length, each equation has a row of its own with the limits of its
\* kind, and only the first one-sided row of the IPOPT classes has none.
THEOREM RowsAreOwn == LoopSpec => []EquationsOwnRows
<1>1. ParamsOK => EquationsOwnRows
  <2> SUFFICES ASSUME ParamsOK PROVE EquationsOwnRows
    OBVIOUS
  <2>1. steps \in Lengths /\ dynamic \in BOOLEAN /\ use_cbf \in BOOLEAN
    BY LoopAssumption DEF ParamsOK, Lengths
  <2>2. MPCOwnRows
    BY <2>1, MPCRows, MPCSpare DEF MPCOwnRows, OwnRows
  <2>3. MPC_ACCOwnRows
    BY <2>1, MPC_ACCRows, MPC_ACCSpare DEF MPC_ACCOwnRows, OwnRows
  <2>4. ASSUME NEW barrier \in BOOLEAN PROVE CBFHorizonOwnRows(barrier)
    BY <2>1, CBFHorizonRows, CBFHorizonSpare DEF CBFHorizonOwnRows, OwnRows
  <2>5. UncalledOwnRows
    BY LoopAssumption, POS_MPCRows, MPCNLOPTRows, FiltersRows DEF UncalledOwnRows, Lengths
  <2>6. QED
    BY <2>1, <2>2, <2>3, <2>4, <2>5 DEF EquationsOwnRows
<1>2. QED
  BY <1>1, ParamsInvariant, PTL

\* The loop implements the core: what an optimiser answers, and that it may fail, is one
\* of the core's inputs, so the core's theorems hold of the loop.
THEOREM LoopImplementsCore == LoopSpec => Spec
<1>1. LoopInit => Init
  BY DEF LoopInit
<1>2. [LoopNext]_<<coreVars, optVars>> => [Next]_coreVars
  <2> SUFFICES ASSUME [LoopNext]_<<coreVars, optVars>> PROVE [Next]_coreVars
    OBVIOUS
  <2>1. CASE SetReference \/ SetDistMap \/ LoadParams \/ WithoutReference
               \/ EvaluateHFunction \/ (\E processed \in BOOLEAN : SetDistMapFromGrid(processed))
               \/ \E size \in ListSizes : SetReferenceList(size)
    BY <2>1 DEF SetReference, SetReferenceList, SetDistMap, LoadParams, WithoutReference, EvaluateHFunction,
                SetDistMapFromGrid, Next
  <2>2. ASSUME NEW how, Ends(how) PROVE UNCHANGED coreVars
    BY <2>2 DEF Ends
  <2>3. ASSUME NEW ok \in BOOLEAN, NEW result, Take(ok, result) PROVE Next
    BY <2>3, LoopAssumption DEF Take, Next
  <2>4. CASE \E ok \in BOOLEAN : SolveMPC(ok)
    BY <2>2, <2>3, <2>4 DEF SolveMPC
  <2>5. CASE \E ok \in BOOLEAN : SolveMPC_ACC(ok)
    BY <2>2, <2>3, <2>5 DEF SolveMPC_ACC
  <2>6. CASE \E ok, near \in BOOLEAN : SolveCBFHorizon(ok, near)
    BY <2>2, <2>3, <2>6 DEF SolveCBFHorizon
  <2>7. CASE SolveMPCNLOPT
    BY <2>2, <2>7 DEF SolveMPCNLOPT
  <2>8. CASE UNCHANGED <<coreVars, optVars>>
    BY <2>8
  <2>9. QED
    BY <2>1, <2>4, <2>5, <2>6, <2>7, <2>8 DEF LoopNext
<1>3. QED
  BY <1>1, <1>2, PTL DEF LoopSpec, Spec

-----------------------------------------------------------------------------

(***************************************************************************)
(* What each Solve touches.  The problems of MPC, of MPC_ACC with a map    *)
(* for its barrier, and of CBFHorizon without a dynamic alpha lie within   *)
(* their vectors; the others do not, whatever the length.                  *)
(***************************************************************************)

LEMMA Sizes ==
  ASSUME NEW N \in Lengths
  PROVE  /\ n_vars(MPC_states, N) = 7 * N - 2
         /\ n_vars(MPC_ACC_states, N) = 8 * N - 2
         /\ n_vars(CBFHorizon_states, N) = 8 * N - 2
         /\ n_vars(MPCNLOPT_states, N) = 6 * N - 2
<1>1. /\ MPC_ACC_states # MPC_states /\ MPC_ACC_states # MPCNLOPT_states
      /\ MPCNLOPT_states # MPC_states
  <2>1. "v" \in MPC_ACC_states /\ "v" \notin MPC_states /\ "v" \in MPCNLOPT_states
    BY DEF MPC_ACC_states, MPC_states, MPCNLOPT_states, Poses, Errors
  <2>2. "cte" \in MPC_ACC_states /\ "cte" \notin MPCNLOPT_states
    BY DEF MPC_ACC_states, MPCNLOPT_states, Poses, Errors
  <2>3. QED
    BY <2>1, <2>2
<1>2. n_vars(MPC_states, N) = 7 * N - 2
  BY <1>1 DEF n_vars, Lengths
<1>3. n_vars(MPC_ACC_states, N) = 8 * N - 2
  BY <1>1 DEF n_vars, Lengths
<1>4. n_vars(MPCNLOPT_states, N) = 6 * N - 2
  BY <1>1 DEF n_vars, Lengths
<1>5. QED
  BY <1>2, <1>3, <1>4 DEF CBFHorizon_states

\* The cells of an objective and of the equations are cells of the horizon.
LEMMA CellsOfCosts ==
  ASSUME NEW N \in Lengths, NEW errors, NEW inputs, NEW c \in costs(errors, inputs, N)
  PROVE  c \in cells(errors, inputs, N)
BY DEF costs, cells, Lengths

LEMMA MPCReads ==
  ASSUME NEW N \in Lengths, NEW e \in equations(MPC_states, N, TRUE), NEW c \in MPC_reads(e)
  PROVE  c \in cells(MPC_states, MPC_inputs, N)
BY DEF Lengths, equations, MPC_reads, reads, uses, cells, MPC_states, MPC_inputs, Poses, Errors

LEMMA MPC_ACCReads ==
  ASSUME NEW N \in Lengths, NEW barrier \in BOOLEAN,
         NEW e \in equations(MPC_ACC_states, N, barrier), NEW c \in MPC_ACC_reads(e)
  PROVE  c \in cells(MPC_ACC_states, MPC_ACC_inputs, N)
BY DEF Lengths, equations, MPC_ACC_reads, reads, uses, cells, MPC_ACC_states, MPC_ACC_inputs,
       Poses, Errors
LEMMA MPCIndexes ==
  ASSUME NEW N \in Lengths, NEW c \in cells(MPC_states, MPC_inputs, N)
  PROVE  MPC_index(c, N) \in 0 .. n_vars(MPC_states, N) - 1
<1>1. MPC_index(c, N) \in 0 .. 7 * N - 3
  BY DEF Lengths, cells, MPC_states, MPC_inputs, Poses, Errors, MPC_index, MPC_start
<1>2. QED
  BY <1>1, Sizes DEF Lengths

LEMMA MPC_ACCIndexes ==
  ASSUME NEW N \in Lengths, NEW c \in cells(MPC_ACC_states, MPC_ACC_inputs, N)
  PROVE  MPC_ACC_index(c, N) \in 0 .. n_vars(MPC_ACC_states, N) - 1
<1>1. MPC_ACC_index(c, N) \in 0 .. 8 * N - 3
  BY DEF Lengths, cells, MPC_ACC_states, MPC_ACC_inputs, Poses, Errors, MPC_ACC_index,
         MPC_ACC_start
<1>2. QED
  BY <1>1, Sizes DEF Lengths

LEMMA CBFHorizonIndexes ==
  ASSUME NEW N \in Lengths, NEW c \in cells(CBFHorizon_states, MPC_ACC_inputs, N)
  PROVE  CBFHorizon_index(c, FALSE) \in 0 .. n_vars(CBFHorizon_states, N) - 1
<1>1. CBFHorizon_index(c, FALSE) \in 0 .. 8 * N - 3
  BY DEF Lengths, cells, CBFHorizon_states, MPC_ACC_states, MPC_ACC_inputs, Poses, Errors,
         CBFHorizon_index, CBFHorizon_start, ind_inc
<1>2. n_vars(CBFHorizon_states, N) = 8 * N - 2
  BY Sizes
<1>3. 8 * N - 3 = n_vars(CBFHorizon_states, N) - 1
  BY <1>2 DEF Lengths
<1>4. QED
  BY <1>1, <1>3, Zenon

\* Every value of MPC_ACC's vector is one of its horizon.
LEMMA MPC_ACCEveryIndex ==
  ASSUME NEW N \in Lengths, NEW j \in 0 .. n_vars(MPC_ACC_states, N) - 1
  PROVE  \E c \in cells(MPC_ACC_states, MPC_ACC_inputs, N) : MPC_ACC_index(c, N) = j
<1> DEFINE cs == cells(MPC_ACC_states, MPC_ACC_inputs, N)
<1>1. j \in 0 .. 8 * N - 3
  BY Sizes DEF Lengths
<1>2. CASE j < 6 * N
  <2>1. PICK b \in MPC_ACC_states : j \in MPC_ACC_start(b, N) .. MPC_ACC_start(b, N) + N - 1
    BY <1>1, <1>2 DEF Lengths, MPC_ACC_states, Poses, Errors, MPC_ACC_start
  <2> DEFINE i == j - MPC_ACC_start(b, N)
  <2>2. MPC_ACC_start(b, N) \in Nat
    BY DEF Lengths, MPC_ACC_states, Poses, Errors, MPC_ACC_start
  <2>3. i \in 0 .. N - 1
    BY <1>1, <2>1, <2>2 DEF Lengths
  <2>4. <<b, i>> \in cs /\ MPC_ACC_index(<<b, i>>, N) = j
    BY <1>1, <2>2, <2>3 DEF cells, MPC_ACC_index, Lengths
  <2>5. QED
    BY <2>4
<1>3. CASE j >= 6 * N
  <2>1. PICK b \in MPC_ACC_inputs : j \in MPC_ACC_start(b, N) .. MPC_ACC_start(b, N) + N - 2
    BY <1>1, <1>3 DEF Lengths, MPC_ACC_inputs, MPC_ACC_start
  <2> DEFINE i == j - MPC_ACC_start(b, N)
  <2>2. MPC_ACC_start(b, N) \in Nat
    BY DEF Lengths, MPC_ACC_inputs, MPC_ACC_start
  <2>3. i \in 0 .. N - 2
    BY <1>1, <2>1, <2>2 DEF Lengths
  <2>4. <<b, i>> \in cs /\ MPC_ACC_index(<<b, i>>, N) = j
    BY <1>1, <2>2, <2>3 DEF cells, MPC_ACC_index, Lengths
  <2>5. QED
    BY <2>4
<1>4. QED
  BY <1>1, <1>2, <1>3 DEF Lengths

LEMMA MPCIsDefined ==
  ASSUME steps \in Lengths
  PROVE  MPC_defined
<1>1. ASSUME NEW c \in MPC_costs(steps)
      PROVE  MPC_index(c, steps) \in 0 .. n_vars(MPC_states, steps) - 1
  <2>1. c \in cells(MPC_states, MPC_inputs, steps)
    BY CellsOfCosts DEF MPC_costs, cells, MPC_states, Poses, Errors
  <2>2. QED
    BY <2>1, MPCIndexes
<1>2. ASSUME NEW e \in equations(MPC_states, steps, TRUE), NEW c \in MPC_reads(e)
      PROVE  MPC_index(c, steps) \in 0 .. n_vars(MPC_states, steps) - 1
  BY MPCReads, MPCIndexes
<1>3. ASSUME NEW e \in equations(MPC_states, steps, TRUE)
      PROVE  MPC_row(e, steps) \in 0 .. MPC_n_constraints(steps) - 1
  BY DEF Lengths, equations, MPC_states, Poses, Errors, MPC_row, MPC_fg_start, MPC_start,
         MPC_n_constraints
<1>4. QED
  BY <1>1, <1>2, <1>3 DEF MPC_defined, Within

LEMMA MPC_ACCIsDefined ==
  ASSUME steps \in Lengths, use_cbf \in BOOLEAN
  PROVE  MPC_ACC_defined <=> (use_cbf => has_map)
<1>1. ASSUME NEW c \in MPC_ACC_costs(steps)
      PROVE  MPC_ACC_index(c, steps) \in 0 .. n_vars(MPC_ACC_states, steps) - 1
  <2>1. c \in cells(MPC_ACC_states, MPC_ACC_inputs, steps)
    BY CellsOfCosts DEF MPC_ACC_costs, cells, MPC_ACC_states, Poses, Errors
  <2>2. QED
    BY <2>1, MPC_ACCIndexes
<1>2. ASSUME NEW e \in equations(MPC_ACC_states, steps, use_cbf), NEW c \in MPC_ACC_reads(e)
      PROVE  MPC_ACC_index(c, steps) \in 0 .. n_vars(MPC_ACC_states, steps) - 1
  BY MPC_ACCReads, MPC_ACCIndexes
<1>3. ASSUME NEW e \in equations(MPC_ACC_states, steps, use_cbf)
      PROVE  MPC_ACC_row(e, steps) \in 0 .. MPC_ACC_n_constraints(steps, use_cbf) - 1
  BY DEF Lengths, equations, MPC_ACC_states, Poses, Errors, MPC_ACC_row, MPC_ACC_fg_start,
         MPC_ACC_start, MPC_ACC_n_constraints
<1>4. QED
  BY <1>1, <1>2, <1>3 DEF MPC_ACC_defined, Within

LEMMA CBFHorizonIsDefined ==
  ASSUME steps \in Lengths, dynamic \in BOOLEAN, NEW barrier \in BOOLEAN
  PROVE  CBFHorizon_defined(barrier) <=> has_map /\ dynamic = FALSE
<1>1. ASSUME dynamic = FALSE, has_map
      PROVE  CBFHorizon_defined(barrier)
  <2> DEFINE cs == cells(CBFHorizon_states, MPC_ACC_inputs, steps)
  <2>1. CBFHorizon_n_vars = n_vars(CBFHorizon_states, steps)
    BY <1>1, Sizes DEF CBFHorizon_n_vars, Lengths
  <2>2. CBFHorizon_cells(steps, dynamic) = cs
    BY <1>1 DEF CBFHorizon_cells
  <2>3. ASSUME NEW c \in CBFHorizon_costs(steps, dynamic)
        PROVE  c \in cs
    BY <1>1, CellsOfCosts DEF CBFHorizon_costs, cells, CBFHorizon_states, MPC_ACC_states, Poses, Errors
  <2>4. ASSUME NEW e \in equations(CBFHorizon_states, steps, barrier),
               NEW c \in CBFHorizon_reads(e, dynamic)
        PROVE  c \in cs
    <3>1. CBFHorizon_reads(e, dynamic) = MPC_ACC_reads(e)
      BY <1>1 DEF CBFHorizon_reads, CBFHorizon_barrier_reads, MPC_ACC_reads
    <3>2. QED
      BY <3>1, MPC_ACCReads DEF CBFHorizon_states
  <2>5. ASSUME NEW e \in equations(CBFHorizon_states, steps, FALSE)
        PROVE  CBFHorizon_row(e, steps, dynamic) \in 0 .. CBFHorizon_n_constraints(steps, FALSE) - 1
    BY <1>1 DEF Lengths, equations, CBFHorizon_states, MPC_ACC_states, Poses, Errors,
                CBFHorizon_row, CBFHorizon_start, ind_inc, CBFHorizon_n_constraints
  <2>6. QED
    BY <1>1, <2>1, <2>2, <2>3, <2>4, <2>5, CBFHorizonIndexes DEF CBFHorizon_defined, Within
<1>2. ASSUME dynamic
      PROVE  ~CBFHorizon_defined(barrier)
  <2> DEFINE e == <<"dynamics", "etheta", steps - 2>>
  <2>1. e \in equations(CBFHorizon_states, steps, FALSE)
    BY DEF equations, CBFHorizon_states, MPC_ACC_states, Errors, Lengths
  <2>2. CBFHorizon_row(e, steps, dynamic) = 7 * steps - 2
    BY <1>2 DEF CBFHorizon_row, CBFHorizon_start, ind_inc, Lengths
  <2>3. 7 * steps - 2 \notin 0 .. CBFHorizon_n_constraints(steps, FALSE) - 1
    BY DEF CBFHorizon_n_constraints, Lengths
  <2>4. QED
    BY <2>1, <2>2, <2>3 DEF CBFHorizon_defined, Within
<1>3. QED
  BY <1>1, <1>2 DEF CBFHorizon_defined

\* MPCNLOPT writes beyond its vector, whatever the length.
LEMMA MPCNLOPTIsNotDefined ==
  ASSUME steps \in Lengths
  PROVE  ~MPCNLOPT_defined
<1>1. n_vars(MPCNLOPT_states, steps) = 6 * steps - 2
  BY Sizes
<1>2. 6 * steps - 2 \in MPCNLOPT_limited(steps)
  BY DEF MPCNLOPT_limited, MPCNLOPT_start, MPC_ACC_start, Lengths
<1>3. 6 * steps - 2 \notin 0 .. n_vars(MPCNLOPT_states, steps) - 1
  BY <1>1 DEF Lengths
<1>4. QED
  BY <1>2, <1>3 DEF MPCNLOPT_defined

-----------------------------------------------------------------------------

(***************************************************************************)
(* The horizon kept, the answer it was kept with, and how the loop ends.   *)
(***************************************************************************)

MPC_answer == <<MPC_index(<<"angvel", 0>>, steps), MPC_index(<<"linvel", 0>>, steps)>>
MPC_ACC_answer(ok) ==
  LET at(b) == IF ok THEN MPC_ACC_index(<<b, 0>>, steps) ELSE Zero
  IN  <<at("angvel"), at("linacc")>>
CBFHorizon_answer ==
  <<CBFHorizon_index(<<"angvel", 0>>, dynamic), CBFHorizon_index(<<"linacc", 0>>, dynamic)>>

\* What the last Solve left: a horizon and the answer beside it, both of the same
\* solution, unless CBFHorizon has failed or loaded parameters since.
Kept ==
  /\ core_type = "track_vel_ipopt" =>
       mpc = NoValues \/ (mpc = MPC_horizon /\ answer = MPC_answer)
  /\ core_type = "track_acc_ipopt" =>
       mpc = NoValues \/ \E ok \in BOOLEAN : mpc = MPC_ACC_horizon(ok) /\ answer = MPC_ACC_answer(ok)
  /\ core_type = "track_acc_nlopt" =>
       /\ last = "solved" => mpc = CBFHorizon_horizon /\ answer = CBFHorizon_answer
       /\ \/ prev_x0 = NoValues
          \/ has_map /\ dynamic = FALSE /\ prev_x0 = [j \in 0 .. CBFHorizon_n_vars - 1 |-> j]
  /\ core_type = "goto_pos_nlopt" => mpc = NoValues

Stopped ==
  /\ running = "exited" => core_type = "track_vel_ipopt"
  /\ running = "undefined" =>
       \/ core_type = "track_acc_ipopt" /\ last = "evaluated" /\ mpc = NoValues
       \/ core_type = "goto_pos_nlopt"
       \/ core_type = "track_acc_nlopt" /\ (dynamic \/ ~has_map)
       \/ core_type = "track_acc_ipopt" /\ use_cbf /\ ~has_map

LoopInv == Kept /\ Stopped

LEMMA LoopInvInit == LoopInit => LoopInv
  BY DEF LoopInit, OptInit, LoopInv, Kept, Stopped

\* The horizons and answers depend on the class and the parameters only.
LEMMA SameHorizons ==
  ASSUME UNCHANGED <<core_type, steps, dynamic>>
  PROVE  /\ MPC_horizon' = MPC_horizon /\ MPC_answer' = MPC_answer
         /\ \A ok \in BOOLEAN : /\ MPC_ACC_horizon(ok)' = MPC_ACC_horizon(ok)
                                /\ MPC_ACC_answer(ok)' = MPC_ACC_answer(ok)
         /\ CBFHorizon_horizon' = CBFHorizon_horizon /\ CBFHorizon_answer' = CBFHorizon_answer
         /\ dynamic = FALSE => CBFHorizon_n_vars' = CBFHorizon_n_vars
BY DEF MPC_horizon, MPC_answer, MPC_ACC_horizon, MPC_ACC_answer, CBFHorizon_horizon,
       CBFHorizon_answer, CBFHorizon_n_vars

\* A step that keeps the horizon, the solution and the answer, and the map if there is one.
LEMMA NothingSolved ==
  ASSUME Kept, UNCHANGED <<core_type, steps, dynamic, mpc, prev_x0, answer>>,
         has_map => has_map', last' = "solved" => last = "solved"
  PROVE  Kept'
<1>1. core_type = "track_vel_ipopt" =>
        mpc' = NoValues \/ (mpc' = MPC_horizon' /\ answer' = MPC_answer')
  BY SameHorizons DEF Kept
<1>2. core_type = "track_acc_ipopt" =>
        mpc' = NoValues
          \/ \E ok \in BOOLEAN : mpc' = MPC_ACC_horizon(ok)' /\ answer' = MPC_ACC_answer(ok)'
  <2> SUFFICES ASSUME core_type = "track_acc_ipopt", mpc # NoValues
               PROVE  \E ok \in BOOLEAN : mpc' = MPC_ACC_horizon(ok)' /\ answer' = MPC_ACC_answer(ok)'
    OBVIOUS
  <2>1. PICK ok \in BOOLEAN : mpc = MPC_ACC_horizon(ok) /\ answer = MPC_ACC_answer(ok)
    BY DEF Kept
  <2>2. mpc' = MPC_ACC_horizon(ok)' /\ answer' = MPC_ACC_answer(ok)'
    BY <2>1, SameHorizons
  <2>3. QED
    BY <2>2
<1>3. core_type = "track_acc_nlopt" =>
        /\ last' = "solved" => mpc' = CBFHorizon_horizon' /\ answer' = CBFHorizon_answer'
        /\ \/ prev_x0' = NoValues
           \/ has_map' /\ dynamic' = FALSE /\ prev_x0' = [j \in 0 .. CBFHorizon_n_vars' - 1 |-> j]
  BY SameHorizons DEF Kept
<1>4. core_type = "goto_pos_nlopt" => mpc' = NoValues
  BY DEF Kept
<1>5. core_type' = core_type /\ NoValues' = NoValues
  BY DEF NoValues
<1>6. QED
  BY <1>1, <1>2, <1>3, <1>4, <1>5 DEF Kept

LEMMA LoopInvStep ==
  ParamsOK /\ LoopInv /\ [LoopNext]_<<coreVars, optVars>> => LoopInv'
<1> SUFFICES ASSUME ParamsOK, LoopInv, [LoopNext]_<<coreVars, optVars>>
             PROVE  LoopInv'
  OBVIOUS
<1>1. /\ UNCHANGED <<core_type, steps, use_cbf, dynamic>>
      /\ steps \in Lengths /\ use_cbf \in BOOLEAN /\ dynamic \in BOOLEAN
  BY ParamsStay, LoopAssumption DEF params, ParamsOK, Lengths
<1>2. ASSUME NEW how, Ends(how)
      PROVE  Kept' /\ running' = how /\ UNCHANGED <<has_map, mpc, last>>
  <2>1. UNCHANGED <<mpc, prev_x0, answer, has_map, last>> /\ running' = how
    BY <1>2 DEF Ends
  <2>2. QED
    BY <1>1, <2>1, NothingSolved DEF LoopInv
<1>3. ASSUME NEW ok, NEW result, Take(ok, result), running = "up"
      PROVE  /\ Stopped' /\ answer' = result
             /\ last' = (IF ok THEN "solved" ELSE "failed") /\ UNCHANGED has_map
  BY <1>3 DEF Take, Stopped
<1>4. CASE UNCHANGED <<coreVars, optVars>> \/ SetReference \/ WithoutReference
             \/ \E size \in ListSizes : SetReferenceList(size)
  <2>1. UNCHANGED optVars
    BY <1>4 DEF SetReference, WithoutReference, SetReferenceList
  <2>2. UNCHANGED <<mpc, prev_x0, answer, has_map, last, running>>
    BY <2>1 DEF optVars
  <2>3. Stopped'
    BY <1>1, <2>2 DEF LoopInv, Stopped
  <2>4. QED
    BY <1>1, <2>2, <2>3, NothingSolved DEF LoopInv
<1>5. CASE SetDistMap \/ \E processed \in BOOLEAN : SetDistMapFromGrid(processed)
  <2>1. /\ running = "up" /\ UNCHANGED <<mpc, prev_x0, answer, last, running>>
        /\ has_map => has_map'
    BY <1>5 DEF SetDistMap, SetDistMapFromGrid
  <2>2. Stopped'
    BY <2>1 DEF Stopped
  <2>3. QED
    BY <1>1, <2>1, <2>2, NothingSolved DEF LoopInv
<1>6. CASE LoadParams
  <2>1. /\ running = "up" /\ last' = "loaded" /\ UNCHANGED <<has_map, prev_x0, answer, running>>
        /\ core_type # "track_acc_nlopt" => mpc' = mpc
    BY <1>6 DEF LoadParams
  <2>2. CASE core_type = "track_acc_nlopt"
    <3>1. \/ prev_x0' = NoValues
          \/ has_map' /\ dynamic' = FALSE /\ prev_x0' = [j \in 0 .. CBFHorizon_n_vars' - 1 |-> j]
      BY <1>1, <2>1, <2>2, SameHorizons DEF LoopInv, Kept
    <3>2. QED
      BY <1>1, <2>1, <2>2, <3>1 DEF LoopInv, Kept, Stopped, NoValues
  <2>3. CASE core_type # "track_acc_nlopt"
    BY <1>1, <2>1, <2>3, NothingSolved DEF LoopInv, Stopped
  <2>4. QED
    BY <2>2, <2>3
<1>7. CASE EvaluateHFunction
  <2>1. /\ UNCHANGED <<has_map, mpc, prev_x0, answer>>
        /\ running' = (IF core_type = "track_acc_ipopt" /\ mpc = NoValues THEN "undefined" ELSE "up")
        /\ last' = (IF running' = "up" THEN last ELSE "evaluated")
    BY <1>7 DEF EvaluateHFunction
  <2>2. Stopped'
    BY <1>1, <2>1 DEF Stopped, NoValues
  <2>3. QED
    BY <1>1, <2>1, <2>2, NothingSolved DEF LoopInv
<1>8. ASSUME NEW ok \in BOOLEAN, SolveMPC(ok)
      PROVE  LoopInv'
  <2>1. core_type = "track_vel_ipopt" /\ MPC_defined /\ running = "up"
    BY <1>1, <1>8, MPCIsDefined DEF SolveMPC
  <2>2. CASE Ends("exited")
    BY <1>1, <1>2, <2>1, <2>2 DEF LoopInv, Stopped
  <2>3. CASE mpc' = MPC_horizon /\ Take(ok, MPC_answer)
    <3>1. mpc' = MPC_horizon' /\ answer' = MPC_answer' /\ Stopped'
      BY <1>1, <1>3, <2>1, <2>3, SameHorizons
    <3>2. QED
      BY <1>1, <2>1, <3>1 DEF LoopInv, Kept
  <2>4. QED
    BY <1>8, <2>1, <2>2, <2>3 DEF SolveMPC, MPC_answer
<1>9. ASSUME NEW ok \in BOOLEAN, SolveMPC_ACC(ok)
      PROVE  LoopInv'
  <2>1. core_type = "track_acc_ipopt" /\ running = "up"
    BY <1>9 DEF SolveMPC_ACC
  <2>2. CASE ~MPC_ACC_defined /\ Ends("undefined")
    <3>1. use_cbf /\ ~has_map
      BY <1>1, <2>2, MPC_ACCIsDefined
    <3>2. QED
      BY <1>1, <1>2, <2>1, <2>2, <3>1 DEF LoopInv, Stopped
  <2>3. CASE mpc' = MPC_ACC_horizon(ok) /\ Take(ok, MPC_ACC_answer(ok))
    <3>1. mpc' = MPC_ACC_horizon(ok)' /\ answer' = MPC_ACC_answer(ok)' /\ Stopped'
      BY <1>1, <1>3, <2>1, <2>3, SameHorizons
    <3>2. QED
      BY <1>1, <2>1, <3>1 DEF LoopInv, Kept
  <2>4. QED
    BY <1>9, <2>2, <2>3 DEF SolveMPC_ACC, MPC_ACC_answer
<1>10. ASSUME NEW ok \in BOOLEAN, NEW near \in BOOLEAN, SolveCBFHorizon(ok, near)
       PROVE  LoopInv'
  <2>1. core_type = "track_acc_nlopt" /\ running = "up"
    BY <1>10 DEF SolveCBFHorizon
  <2>2. (use_cbf /\ near) \in BOOLEAN
    BY <1>1
  <2>3. CBFHorizon_defined(use_cbf /\ near) <=> has_map /\ dynamic = FALSE
    BY <1>1, <2>2, CBFHorizonIsDefined
  <2>4. CASE ~CBFHorizon_defined(use_cbf /\ near) /\ Ends("undefined")
    BY <1>1, <1>2, <2>1, <2>3, <2>4 DEF LoopInv, Stopped
  <2>5. CASE ~ok /\ Take(ok, <<Zero, Zero>>) /\ UNCHANGED <<mpc, prev_x0>>
    <3>1. last' = "failed" /\ Stopped' /\ UNCHANGED has_map
      BY <1>3, <2>1, <2>5
    <3>2. \/ prev_x0' = NoValues
          \/ has_map' /\ dynamic' = FALSE /\ prev_x0' = [j \in 0 .. CBFHorizon_n_vars' - 1 |-> j]
      BY <1>1, <2>1, <2>5, <3>1, SameHorizons DEF LoopInv, Kept
    <3>3. QED
      BY <1>1, <2>1, <3>1, <3>2 DEF LoopInv, Kept, NoValues
  <2>6. CASE /\ CBFHorizon_defined(use_cbf /\ near) /\ ok
             /\ mpc' = CBFHorizon_horizon
             /\ prev_x0' = [j \in 0 .. CBFHorizon_n_vars - 1 |-> j]
             /\ Take(ok, CBFHorizon_answer)
    <3>1. /\ answer' = CBFHorizon_answer /\ Stopped' /\ UNCHANGED has_map
      BY <1>3, <2>1, <2>6
    <3>2. has_map' /\ dynamic' = FALSE /\ prev_x0' = [j \in 0 .. CBFHorizon_n_vars' - 1 |-> j]
      BY <1>1, <2>3, <2>6, <3>1, SameHorizons
    <3>3. mpc' = CBFHorizon_horizon' /\ answer' = CBFHorizon_answer'
      BY <1>1, <2>6, <3>1, SameHorizons
    <3>4. QED
      BY <1>1, <2>1, <3>1, <3>2, <3>3 DEF LoopInv, Kept
  <2>7. QED
    BY <1>10, <2>4, <2>5, <2>6 DEF SolveCBFHorizon, CBFHorizon_answer
<1>11. CASE SolveMPCNLOPT
  <2>1. core_type = "goto_pos_nlopt" /\ Ends("undefined")
    BY <1>1, <1>11, MPCNLOPTIsNotDefined DEF SolveMPCNLOPT
  <2>2. QED
    BY <1>1, <1>2, <2>1 DEF LoopInv, Stopped
<1>12. QED
  BY <1>4, <1>5, <1>6, <1>7, <1>8, <1>9, <1>10, <1>11 DEF LoopNext

LEMMA LoopInvariance == LoopSpec => [](ParamsOK /\ LoopInv)
<1>1. LoopInv /\ ParamsOK /\ [LoopNext]_<<coreVars, optVars>> => LoopInv'
  BY LoopInvStep
<1>2. QED
  BY <1>1, LoopInvInit, ParamsInvariant, PTL DEF LoopSpec

-----------------------------------------------------------------------------

(***************************************************************************)
(* The Solves no core calls.                                               *)
(***************************************************************************)

LEMMA OthersAnswers == \A N \in Lengths : OthersAnswer(N)
<1> SUFFICES ASSUME NEW N \in Lengths
             PROVE  OthersAnswer(N)
  OBVIOUS
<1> DEFINE n == MPC_pose_n_vars(N)
           kept == MPC_pose_horizon(N)
           guess == MPCNLOPT_track_guess(N)
           horizon == MPCNLOPT_track_horizon(N)
<1>1. \A c \in DOMAIN kept : kept[c] < n
  BY DEF MPC_pose_horizon, MPC_pose_n_vars, MPC_index, MPC_start, Poses, Lengths
<1>2. \A j \in MPC_pose_answer(N) : j >= n
  BY DEF MPC_pose_answer, MPC_pose_n_vars, MPC_start, MPC_inputs, Lengths
<1>3. ASSUME NEW e \in equations(MPC_states, N, TRUE)
      PROVE  /\ e[2] \in Poses <=> MPC_row(e, N) < MPC_pose_n_constraints(N)
             /\ e[2] \in Poses => MPC_pose_row_limits(MPC_row(e, N), N) = row_limits_of(e)
  <2>1. e[2] \in Poses <=> MPC_row(e, N) < MPC_pose_n_constraints(N)
    BY DEF Lengths, equations, MPC_states, Poses, Errors, MPC_row, MPC_fg_start, MPC_start,
           MPC_pose_n_constraints
  <2>2. e[2] \in Poses => MPC_pose_row_limits(MPC_row(e, N), N) = row_limits_of(e)
    BY DEF Lengths, equations, MPC_states, Poses, Errors, MPC_row, MPC_fg_start, MPC_start,
           MPC_pose_row_limits, row_limits_of
  <2>3. QED
    BY <2>1, <2>2
<1>4. \A j \in MPCNLOPT_track_answer(N) : guess[j] = "zero"
  <2> SUFFICES ASSUME NEW j \in MPCNLOPT_track_answer(N) PROVE guess[j] = "zero"
    OBVIOUS
  <2>1. j \in {6 * N, 7 * N - 1}
    BY DEF MPCNLOPT_track_answer, MPCNLOPT_start, MPC_ACC_start, MPC_ACC_inputs
  <2>2. j \in 0 .. MPCNLOPT_track_n_vars(N) - 1
    BY <2>1 DEF MPCNLOPT_track_n_vars, Lengths
  <2>3. \A b \in MPC_ACC_states : MPC_ACC_start(b, N) # j
    BY <2>1 DEF MPC_ACC_start, MPC_ACC_states, Poses, Errors, Lengths
  <2>4. QED
    BY <2>2, <2>3 DEF MPCNLOPT_track_guess, MPCNLOPT_start, MPCNLOPT_track_states
<1>5. ASSUME NEW c \in DOMAIN horizon
      PROVE  guess[horizon[c]] = "measured" <=> c \in (Poses \union {"v"}) \X {0}
  <2>1. /\ c \in cells(Poses \union {"v"}, MPC_ACC_inputs, N)
        /\ horizon[c] = MPC_ACC_start(c[1], N) + c[2]
    BY DEF MPCNLOPT_track_horizon, MPCNLOPT_index, MPCNLOPT_start
  <2>2. horizon[c] \in 0 .. MPCNLOPT_track_n_vars(N) - 1
    BY <2>1 DEF cells, MPC_ACC_inputs, Poses, MPC_ACC_start, MPCNLOPT_track_n_vars, Lengths
  <2>3. (\E b \in MPC_ACC_states : MPC_ACC_start(b, N) = horizon[c])
          <=> c \in (Poses \union {"v"}) \X {0}
    BY <2>1 DEF cells, MPC_ACC_inputs, MPC_ACC_states, Errors, Poses, MPC_ACC_start, Lengths
  <2>4. QED
    BY <2>2, <2>3 DEF MPCNLOPT_track_guess, MPCNLOPT_start, MPCNLOPT_track_states
<1>6. MPCNLOPT_fd_gradient(N) = {"x", "y"} \X (0 .. N - 1)
  <2>1. n_vars(MPCNLOPT_states, N) = 6 * N - 2
    BY Sizes
  <2>2. ASSUME NEW c \in MPCNLOPT_fd_costs(N)
        PROVE  MPC_ACC_start(c[1], N) + c[2] < 6 * N - 2 <=> c \in {"x", "y"} \X (0 .. N - 1)
    BY DEF MPCNLOPT_fd_costs, costs, MPC_ACC_inputs, MPC_ACC_start, Lengths
  <2>3. {"x", "y"} \X (0 .. N - 1) \subseteq MPCNLOPT_fd_costs(N)
    BY DEF MPCNLOPT_fd_costs, costs
  <2>4. QED
    BY <2>1, <2>2, <2>3 DEF MPCNLOPT_fd_gradient, MPCNLOPT_index, MPCNLOPT_start
<1>7. QED
  BY <1>1, <1>2, <1>3, <1>4, <1>5, <1>6 DEF OthersAnswer

LEMMA OthersOverruns == \A N \in Lengths : OthersOverrun(N)
<1> SUFFICES ASSUME NEW N \in Lengths
             PROVE  OthersOverrun(N)
  OBVIOUS
<1>1. ~MPC_pose_defined(N)
  <2>1. 5 * N - 2 \in MPC_pose_limited(N)
    BY DEF MPC_pose_limited, MPC_start, Lengths
  <2>2. 5 * N - 2 \notin 0 .. MPC_pose_n_vars(N) - 1
    BY DEF MPC_pose_n_vars, Lengths
  <2>3. QED
    BY <2>1, <2>2 DEF MPC_pose_defined
<1>2. ~MPCNLOPT_track_defined(N)
  <2> DEFINE e == <<"dynamics", "etheta", N - 2>>
  <2>1. e \in equations(MPCNLOPT_track_states, N, FALSE)
    BY DEF equations, MPCNLOPT_track_states, MPC_ACC_states, Errors, Lengths
  <2>2. MPCNLOPT_track_row(e, N) = 6 * N - 1
    BY DEF MPCNLOPT_track_row, Lengths
  <2>3. 6 * N - 1 \notin 0 .. MPCNLOPT_track_rows - 1
    BY DEF MPCNLOPT_track_rows, Lengths
  <2>4. QED
    BY <2>1, <2>2, <2>3 DEF MPCNLOPT_track_defined, Within
<1>3. MPCNLOPT_fd_costs(N) \subseteq cells(MPCNLOPT_states, MPC_ACC_inputs, N)
  <2>1. \A c \in MPCNLOPT_fd_costs(N) : c \in cells({"x", "y"}, MPC_ACC_inputs, N)
    BY CellsOfCosts DEF MPCNLOPT_fd_costs
  <2>2. cells({"x", "y"}, MPC_ACC_inputs, N) \subseteq cells(MPCNLOPT_states, MPC_ACC_inputs, N)
    BY DEF cells, MPCNLOPT_states, Poses
  <2>3. QED
    BY <2>1, <2>2
<1>4. { MPCNLOPT_fd_row(e, N) : e \in equations(MPCNLOPT_states, N, FALSE) }
        \ (0 .. MPCNLOPT_fd_rows(N) - 1) = {MPCNLOPT_fd_rows(N)}
  <2> DEFINE es == equations(MPCNLOPT_states, N, FALSE)
             last_one == <<"dynamics", "v", N - 2>>
  <2>1. ASSUME NEW e \in es
        PROVE  MPCNLOPT_fd_row(e, N) \in 0 .. 4 * (N - 1)
    <3> DEFINE block == [x |-> 0, y |-> 1, theta |-> 2, v |-> 3]
               within == IF e[1] = "initial" THEN 0 ELSE e[3] + 1
    <3>1. e[2] \in {"x", "y", "theta", "v"} /\ within \in 0 .. N - 1
      BY DEF equations, MPCNLOPT_states, Poses, Lengths
    <3>2. (N - 1) * block[e[2]] \in {0, N - 1, 2 * (N - 1), 3 * (N - 1)}
      BY <3>1 DEF Lengths
    <3>3. MPCNLOPT_fd_row(e, N) = (N - 1) * block[e[2]] + within
      BY DEF MPCNLOPT_fd_row, MPCNLOPT_row
    <3>4. QED
      BY <3>1, <3>2, <3>3 DEF Lengths
  <2>2. last_one \in es /\ MPCNLOPT_fd_row(last_one, N) = 4 * (N - 1)
    BY DEF equations, MPCNLOPT_states, MPCNLOPT_fd_row, MPCNLOPT_row, Lengths
  <2>3. 4 * (N - 1) \notin 0 .. 4 * (N - 1) - 1
    BY DEF Lengths
  <2>4. ASSUME NEW e \in es, MPCNLOPT_fd_row(e, N) \notin 0 .. 4 * (N - 1) - 1
        PROVE  MPCNLOPT_fd_row(e, N) = 4 * (N - 1)
    <3> DEFINE r == MPCNLOPT_fd_row(e, N)
    <3>1. r \in 0 .. 4 * (N - 1)
      BY <2>1
    <3>2. r \notin 0 .. 4 * (N - 1) - 1
      BY <2>4
    <3> HIDE DEF r
    <3>3. r = 4 * (N - 1)
      BY <3>1, <3>2 DEF Lengths
    <3>4. QED
      BY <3>3 DEF r
  <2> HIDE DEF es, last_one
  <2>5. { MPCNLOPT_fd_row(e, N) : e \in es } \ (0 .. 4 * (N - 1) - 1) = {4 * (N - 1)}
    BY <2>2, <2>3, <2>4
  <2>6. QED
    BY <2>5 DEF MPCNLOPT_fd_rows, es
<1>5. \A planes \in 0 .. 2 : POS_MPC_defined(N, planes) <=> planes # 1
  <2> SUFFICES ASSUME NEW planes \in 0 .. 2
               PROVE  POS_MPC_defined(N, planes) <=> planes # 1
    OBVIOUS
  <2> DEFINE es == POS_MPC_equations(N, planes)
             cs == cells(Poses, MPC_inputs, N)
  <2>1. POS_MPC_limited(N) \union POS_MPC_answer(N) \subseteq 0 .. POS_MPC_n_vars(N) - 1
    BY DEF POS_MPC_limited, POS_MPC_answer, POS_MPC_n_vars, POS_MPC_start, MPC_inputs, Lengths
  <2>2. ASSUME NEW c \in cs
        PROVE  POS_MPC_index(c, N) \in 0 .. POS_MPC_n_vars(N) - 1
    BY DEF cells, Poses, MPC_inputs, POS_MPC_index, POS_MPC_fg_start, POS_MPC_start,
           POS_MPC_n_vars, Lengths
  <2>3. ASSUME NEW c \in POS_MPC_costs(N)
        PROVE  c \in cs
    <3>1. c \in cells({"x", "y"}, MPC_inputs, N)
      BY CellsOfCosts DEF POS_MPC_costs
    <3>2. QED
      BY <3>1 DEF cells, Poses
  <2>4. ASSUME NEW e \in es, NEW c \in POS_MPC_reads(e)
        PROVE  c \in cs
    <3>1. ASSUME e \in equations(Poses, N, FALSE) PROVE c \in cs
      BY <3>1 DEF Lengths, equations, POS_MPC_reads, reads, uses, cells, MPC_inputs, Poses
    <3>2. ASSUME e \in {"barrier"} \X (1 .. planes) \X (0 .. N - 2) PROVE c \in cs
      BY <3>2 DEF Lengths, POS_MPC_reads, cells, Poses
    <3>3. QED
      BY <3>1, <3>2 DEF POS_MPC_equations
  <2>5. /\ \A c \in POS_MPC_costs(N) \union UNION { POS_MPC_reads(e) : e \in es } :
              POS_MPC_index(c, N) \in 0 .. POS_MPC_n_vars(N) - 1
        /\ POS_MPC_defined(N, planes)
             <=> \A e \in es : POS_MPC_row(e, N) \in 0 .. POS_MPC_n_constraints(N, planes) - 1
    <3>1. \A c \in POS_MPC_costs(N) \union UNION { POS_MPC_reads(e) : e \in es } : c \in cs
      BY <2>3, <2>4
    <3>2. \A c \in POS_MPC_costs(N) \union UNION { POS_MPC_reads(e) : e \in es } :
            POS_MPC_index(c, N) \in 0 .. POS_MPC_n_vars(N) - 1
      BY <2>2, <3>1
    <3>3. QED
      BY <2>1, <3>2 DEF POS_MPC_defined, Within
  <2>6. ASSUME NEW e \in equations(Poses, N, FALSE)
        PROVE  POS_MPC_row(e, N) \in 0 .. 3 * N - 1
    BY DEF Lengths, equations, Poses, POS_MPC_row, POS_MPC_fg_start, POS_MPC_start
  <2>7. ASSUME NEW e \in {"barrier"} \X (1 .. planes) \X (0 .. N - 2)
        PROVE  POS_MPC_row(e, N) \in 0 .. 4 * N - 1
    BY DEF Lengths, POS_MPC_row, POS_MPC_fg_start, POS_MPC_start
  <2>8. ASSUME planes = 0 PROVE POS_MPC_defined(N, planes)
    <3>1. es = equations(Poses, N, FALSE) /\ POS_MPC_n_constraints(N, planes) = 3 * N
      BY <2>8 DEF POS_MPC_equations, POS_MPC_n_constraints, Lengths
    <3>2. QED
      BY <2>5, <2>6, <3>1
  <2>9. ASSUME planes = 1 PROVE ~POS_MPC_defined(N, planes)
    <3> DEFINE last_one == <<"barrier", 1, N - 2>>
    <3>1. last_one \in {"barrier"} \X (1 .. planes) \X (0 .. N - 2)
      BY <2>9 DEF Lengths
    <3>2. POS_MPC_row(last_one, N) = 4 * N - 1
      BY DEF POS_MPC_row, POS_MPC_fg_start, POS_MPC_start, Lengths
    <3>3. POS_MPC_n_constraints(N, planes) = 4 * N - 1
      BY <2>9 DEF POS_MPC_n_constraints, Lengths
    <3>4. 4 * N - 1 \notin 0 .. (4 * N - 1) - 1
      BY DEF Lengths
    <3>5. QED
      BY <2>5, <3>1, <3>2, <3>3, <3>4 DEF POS_MPC_equations
  <2>10. ASSUME planes = 2 PROVE POS_MPC_defined(N, planes)
    <3>1. POS_MPC_n_constraints(N, planes) = 5 * N - 2
      BY <2>10 DEF POS_MPC_n_constraints, Lengths
    <3>2. 0 .. 3 * N - 1 \subseteq 0 .. (5 * N - 2) - 1 /\ 0 .. 4 * N - 1 \subseteq 0 .. (5 * N - 2) - 1
      BY DEF Lengths
    <3>3. ASSUME NEW e \in es
          PROVE  POS_MPC_row(e, N) \in (0 .. 3 * N - 1) \union (0 .. 4 * N - 1)
      <4>1. e \in equations(Poses, N, FALSE) \/ e \in {"barrier"} \X (1 .. planes) \X (0 .. N - 2)
        BY DEF POS_MPC_equations
      <4>2. QED
        BY <2>6, <2>7, <4>1
    <3>4. QED
      BY <2>5, <3>1, <3>2, <3>3
  <2>11. QED
    BY <2>8, <2>9, <2>10
<1>6. QED
  BY <1>1, <1>2, <1>3, <1>4, <1>5 DEF OthersOverrun

\* The loop ends or leaves defined behaviour in the ways StopsForKnownCauses names only.
THEOREM LoopStopsForKnownCauses == LoopSpec => []StopsForKnownCauses
<1>1. UncalledOverrun
  BY LoopAssumption, OthersOverruns, FiltersOverruns DEF UncalledOverrun, Lengths
<1>2. ParamsOK /\ LoopInv => StopsForKnownCauses
  BY <1>1 DEF ParamsOK, LoopInv, Stopped, StopsForKnownCauses
<1>3. QED
  BY <1>2, LoopInvariance, PTL

\* What is published of a horizon with accelerations begins with the first of them.
LEMMA Published ==
  ASSUME steps \in Lengths, core_type # "track_vel_ipopt", mpc # NoValues
  PROVE  /\ mpc[<<"linacc", 0>>] \in getHorizon[0]
         /\ publishMPCTrajectory # NoValues =>
              /\ 1 \in DOMAIN publishMPCTrajectory
              /\ publishMPCTrajectory[0].jerk[2] = mpc[<<"linacc", 0>>]
              /\ publishMPCTrajectory[0].jerk[1] \in publishMPCTrajectory[1].state
<1>1. getHorizon = [i \in 0 .. steps - 2 |-> { mpc[<<b, i>>] : b \in Poses \union {"v", "linacc"} }]
  BY DEF getHorizon
<1>2. 0 \in 0 .. steps - 2
  BY DEF Lengths
<1>3. mpc[<<"linacc", 0>>] \in getHorizon[0]
  BY <1>1, <1>2
<1>4. ASSUME publishMPCTrajectory # NoValues
      PROVE  /\ 1 \in DOMAIN publishMPCTrajectory
             /\ publishMPCTrajectory[0].jerk[2] = mpc[<<"linacc", 0>>]
             /\ publishMPCTrajectory[0].jerk[1] \in publishMPCTrajectory[1].state
  <2>1. 1 \in DOMAIN getHorizon /\ 0 \in DOMAIN getHorizon
    BY <1>1, <1>2, <1>4 DEF publishMPCTrajectory
  <2>2. publishMPCTrajectory
          = [i \in DOMAIN getHorizon |->
               [time  |-> i + 1,
                state |-> getHorizon[i],
                jerk  |-> IF i + 1 \in DOMAIN getHorizon
                          THEN <<mpc[<<"linacc", i + 1>>], mpc[<<"linacc", i>>]>>
                          ELSE <<Zero, Zero>>]]
    BY <2>1 DEF publishMPCTrajectory
  <2>3. publishMPCTrajectory[0].jerk = <<mpc[<<"linacc", 1>>], mpc[<<"linacc", 0>>]>>
    BY <2>1, <2>2
  <2>4. publishMPCTrajectory[1].state = getHorizon[1]
    BY <2>1, <2>2
  <2>5. mpc[<<"linacc", 1>>] \in getHorizon[1]
    BY <1>1, <2>1
  <2>6. QED
    BY <2>1, <2>2, <2>3, <2>4, <2>5
<1>5. QED
  BY <1>3, <1>4

\* Between the optimiser, the core and the planner the first inputs stay the same.
THEOREM LoopAnswerHeadsHorizon == LoopSpec => []AnswerHeadsHorizon
<1>1. ASSUME ParamsOK, LoopInv PROVE AnswerHeadsHorizon
  <2> DEFINE input == IF core_type = "track_vel_ipopt" THEN "linvel" ELSE "linacc"
  <2>1. steps \in Lengths
    BY <1>1, LoopAssumption DEF ParamsOK, Lengths
  <2>2. UncalledAnswer
    BY LoopAssumption, OthersAnswers, FiltersAnswers, FiltersGradients DEF UncalledAnswer, Lengths
  <2> SUFFICES ASSUME mpc # NoValues, ~(core_type = "track_acc_nlopt" /\ last # "solved")
               PROVE  answer = <<mpc[<<"angvel", 0>>], mpc[<<input, 0>>]>>
    <3>1. ASSUME answer = <<mpc[<<"angvel", 0>>], mpc[<<input, 0>>]>>, mpc # NoValues
          PROVE  /\ core_type # "track_vel_ipopt" => answer[2] \in getHorizon[0]
                 /\ publishMPCTrajectory # NoValues =>
                      /\ 1 \in DOMAIN publishMPCTrajectory
                      /\ publishMPCTrajectory[0].jerk[2] = answer[2]
                      /\ publishMPCTrajectory[0].jerk[1] \in publishMPCTrajectory[1].state
      <4>1. core_type = "track_vel_ipopt" => publishMPCTrajectory = NoValues
        BY DEF publishMPCTrajectory
      <4>2. core_type # "track_vel_ipopt" => answer[2] = mpc[<<"linacc", 0>>]
        BY <3>1
      <4>3. QED
        BY <2>1, <3>1, <4>1, <4>2, Published
    <3>2. QED
      BY <2>2, <3>1 DEF AnswerHeadsHorizon
  <2>3. \A states \in {Poses, MPC_ACC_states, Poses \union {"v"}} :
          /\ {<<"angvel", 0>>, <<"linvel", 0>>} \subseteq cells(states, MPC_inputs, steps)
          /\ {<<"angvel", 0>>, <<"linacc", 0>>} \subseteq cells(states, MPC_ACC_inputs, steps)
    BY <2>1 DEF cells, MPC_inputs, MPC_ACC_inputs, Lengths
  <2>4. ASSUME core_type = "track_vel_ipopt"
        PROVE  answer = <<mpc[<<"angvel", 0>>], mpc[<<"linvel", 0>>]>>
    <3>1. mpc = MPC_horizon /\ answer = MPC_answer
      BY <1>1, <2>4 DEF LoopInv, Kept
    <3>2. QED
      BY <2>3, <3>1 DEF MPC_horizon, MPC_answer
  <2>5. ASSUME core_type = "track_acc_ipopt"
        PROVE  answer = <<mpc[<<"angvel", 0>>], mpc[<<"linacc", 0>>]>>
    <3>1. PICK ok \in BOOLEAN : mpc = MPC_ACC_horizon(ok) /\ answer = MPC_ACC_answer(ok)
      BY <1>1, <2>5 DEF LoopInv, Kept
    <3>2. \A b \in {"angvel", "linacc"} :
            mpc[<<b, 0>>] = IF ok THEN MPC_ACC_index(<<b, 0>>, steps) ELSE Zero
      BY <2>3, <3>1 DEF MPC_ACC_horizon
    <3>3. QED
      BY <3>1, <3>2 DEF MPC_ACC_answer
  <2>6. ASSUME core_type = "track_acc_nlopt"
        PROVE  answer = <<mpc[<<"angvel", 0>>], mpc[<<"linacc", 0>>]>>
    <3>1. mpc = CBFHorizon_horizon /\ answer = CBFHorizon_answer
      BY <1>1, <2>6 DEF LoopInv, Kept
    <3>2. QED
      BY <2>3, <3>1 DEF CBFHorizon_horizon, CBFHorizon_answer
  <2>7. core_type \in {"track_vel_ipopt", "track_acc_ipopt", "track_acc_nlopt"}
    BY <1>1, LoopAssumption DEF ParamsOK, LoopInv, Kept, MpcTypes
  <2>8. QED
    BY <2>4, <2>5, <2>6, <2>7
<1>2. QED
  BY <1>1, LoopInvariance, PTL

\* A warm start is the last solution, variable by variable.
THEOREM LoopWarmStartAligned == LoopSpec => []WarmStartAligned
<1>1. ASSUME ParamsOK, LoopInv PROVE WarmStartAligned
  <2>1. steps \in Lengths
    BY <1>1, LoopAssumption DEF ParamsOK, Lengths
  <2>2. ASSUME core_type = "track_acc_ipopt", mpc # NoValues, NEW j \in DOMAIN MPC_ACC_guess
        PROVE  \/ MPC_ACC_guess[j] = j
               \/ /\ MPC_ACC_guess[j] = Measured
                  /\ \E b \in MPC_ACC_states : MPC_ACC_start(b, steps) = j
               \/ /\ MPC_ACC_guess[j] = Zero /\ answer = <<Zero, Zero>>
                  /\ \E b \in MPC_ACC_inputs : MPC_ACC_start(b, steps) = j
    <3> DEFINE cs == cells(MPC_ACC_states, MPC_ACC_inputs, steps)
               kept == { c \in DOMAIN mpc : c[2] >= 1 \/ c[1] \in MPC_ACC_inputs }
               is(c) == MPC_ACC_index(c, steps) = j
    <3>1. PICK ok \in BOOLEAN : mpc = MPC_ACC_horizon(ok) /\ answer = MPC_ACC_answer(ok)
      BY <1>1, <2>2 DEF LoopInv, Kept
    <3>2. /\ DOMAIN mpc = cs
          /\ \A c \in cs : mpc[c] = IF ~ok /\ c \in {<<"angvel", 0>>, <<"linacc", 0>>}
                                    THEN Zero ELSE MPC_ACC_index(c, steps)
      BY <3>1 DEF MPC_ACC_horizon
    <3>3. j \in 0 .. n_vars(MPC_ACC_states, steps) - 1
      BY DEF MPC_ACC_guess
    <3>4. PICK c \in cs : is(c)
      BY <2>1, <3>3, MPC_ACCEveryIndex
    <3>5. CASE \E k \in kept : is(k)
      <4> DEFINE k == CHOOSE k \in kept : is(k)
      <4>1. k \in kept /\ is(k)
        BY <3>5
      <4>2. MPC_ACC_guess[j] = mpc[k]
        BY <3>3, <3>5 DEF MPC_ACC_guess
      <4> HIDE DEF k
      <4>3. CASE ~ok /\ k \in {<<"angvel", 0>>, <<"linacc", 0>>}
        <5>1. MPC_ACC_guess[j] = Zero /\ answer = <<Zero, Zero>>
          BY <3>1, <3>2, <4>1, <4>2, <4>3 DEF MPC_ACC_answer
        <5>2. k[1] \in MPC_ACC_inputs /\ k[2] = 0
          BY <4>3 DEF MPC_ACC_inputs
        <5>3. MPC_ACC_start(k[1], steps) \in Nat
          BY <2>1, <5>2 DEF MPC_ACC_start, MPC_ACC_inputs, Lengths
        <5>4. MPC_ACC_start(k[1], steps) = j
          BY <4>1, <5>2, <5>3 DEF MPC_ACC_index
        <5>5. QED
          BY <5>1, <5>2, <5>4
      <4>4. CASE ~(~ok /\ k \in {<<"angvel", 0>>, <<"linacc", 0>>})
        BY <3>2, <4>1, <4>2, <4>4
      <4>5. QED
        BY <4>3, <4>4
    <3>6. CASE ~\E k \in kept : is(k)
      <4>1. c[1] \in MPC_ACC_states /\ c = <<c[1], 0>>
        BY <2>1, <3>2, <3>4, <3>6 DEF cells, Lengths
      <4>2. MPC_ACC_start(c[1], steps) \in Nat
        BY <2>1, <4>1 DEF MPC_ACC_start, MPC_ACC_states, Poses, Errors, Lengths
      <4>3. MPC_ACC_index(<<c[1], 0>>, steps) = j /\ MPC_ACC_start(c[1], steps) = j
        BY <3>4, <4>1, <4>2 DEF MPC_ACC_index
      <4>4. MPC_ACC_guess[j] = Measured
        BY <3>3, <3>6, <4>1, <4>3 DEF MPC_ACC_guess
      <4>5. QED
        BY <4>1, <4>3, <4>4
    <3>7. QED
      BY <3>5, <3>6
  <2>3. ASSUME core_type = "track_acc_nlopt", prev_x0 # NoValues, NEW j \in DOMAIN CBFHorizon_guess
        PROVE  CBFHorizon_guess[j] \in {j, Measured}
    <3>1. dynamic = FALSE /\ prev_x0 = [i \in 0 .. CBFHorizon_n_vars - 1 |-> i]
      BY <1>1, <2>3 DEF LoopInv, Kept
    <3>2. j \in 0 .. CBFHorizon_n_vars - 1
      BY DEF CBFHorizon_guess
    <3>3. prev_x0[j] = j
      BY <3>1, <3>2
    <3>4. QED
      BY <2>3, <3>1, <3>2, <3>3 DEF CBFHorizon_guess
  <2>4. QED
    BY <2>2, <2>3 DEF WarmStartAligned
<1>2. QED
  BY <1>1, LoopInvariance, PTL
=============================================================================
