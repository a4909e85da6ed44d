------------------------------- MODULE MPCCore -------------------------------
(***************************************************************************)
(* JackalMPCCore (src/src/mpc/mpc_core.cpp): the part of the tracker that  *)
(* turns what the optimiser answers into the speeds the robot is given.    *)
(*                                                                         *)
(* Speeds are integers in the unit of one's choice.  The code divides by   *)
(* _dt to compare a change of speed with a rate; the model multiplies      *)
(* instead, so MaxLinStep stands for _max_linacc * _dt and MaxAngStep for  *)
(* _max_anga * _dt, the largest change of one control period.  The         *)
(* optimiser itself (IPOPT, NLOPT) is an input: it may return any of       *)
(* LinResults, AngResults, in time or after the control period.            *)
(***************************************************************************)
EXTENDS Integers

CONSTANTS
  MaxVel,       \* _max_vel: LINVEL of load_params
  MaxAngVel,    \* _max_ang_vel: ANGVEL of load_params
  MaxLinStep,   \* _max_linacc * _dt
  MaxAngStep,   \* _max_anga * _dt
  LinResults,   \* what the optimiser may answer in _mpc_results[1]
  AngResults    \* what it may answer in _mpc_results[0]

ASSUME CoreAssumption ==
  /\ MaxVel \in Nat /\ MaxAngVel \in Nat
  /\ MaxLinStep \in Nat /\ MaxAngStep \in Nat
  /\ LinResults \subseteq Int /\ AngResults \subseteq Int

MpcTypes == {"track_vel_ipopt", "track_acc_ipopt", "track_acc_nlopt", "goto_pos_nlopt"}

VARIABLES
  core_type,      \* _mpc_type of the core, chosen by its constructor
  curr_vel,       \* _curr_vel
  curr_ang_vel,   \* _curr_ang_vel
  has_reference   \* _reference.cols() # 0

coreVars == <<core_type, curr_vel, curr_ang_vel, has_reference>>

-----------------------------------------------------------------------------

Abs(x) == IF x < 0 THEN -x ELSE x

\* JackalMPCCore::limit: the input, or the nearest speed max_step away from prev_v.
limit(prev_v, input, max_step) ==
  IF Abs(prev_v - input) > max_step
  THEN IF input > prev_v THEN prev_v + max_step ELSE prev_v - max_step
  ELSE input

\* std::max(-m, std::min(m, x)).
clamp(x, m) == IF x > m THEN m ELSE IF x < -m THEN -m ELSE x

-----------------------------------------------------------------------------

\* The speed the optimiser asks for.  With velocity inputs it is the answer, with
\* acceleration inputs the present speed changed by it; an answer that took longer
\* than a control period is replaced by one that keeps the speed.
wantedVel(lin, overrun) ==
  CASE core_type = "track_vel_ipopt" -> IF overrun THEN curr_vel ELSE lin
    [] core_type = "goto_pos_nlopt"  -> curr_vel + lin
    [] OTHER                         -> curr_vel + (IF overrun THEN 0 ELSE lin)

wantedAngVel(ang, overrun) ==
  IF overrun /\ core_type # "goto_pos_nlopt" THEN curr_ang_vel ELSE ang

\* A slip: the rate limit without the clamp.
unclampedVel(lin, overrun) == limit(curr_vel, wantedVel(lin, overrun), MaxLinStep)

\* _curr_vel and _curr_ang_vel after solve(): the wanted speed, rate limited, then
\* clamped.
nextVel(lin, overrun) ==
  clamp(limit(curr_vel, wantedVel(lin, overrun), MaxLinStep), MaxVel)
nextAngVel(ang, overrun) ==
  clamp(limit(curr_ang_vel, wantedAngVel(ang, overrun), MaxAngStep), MaxAngVel)

-----------------------------------------------------------------------------

Init ==
  /\ core_type \in MpcTypes
  /\ curr_vel = 0
  /\ curr_ang_vel = 0
  /\ has_reference = FALSE

set_reference ==
  /\ has_reference' = TRUE
  /\ UNCHANGED <<core_type, curr_vel, curr_ang_vel>>

\* set_reference from Python, of a list: six rows one after the other, of as many columns
\* as divide evenly.  A list too short for a column takes the reference away.
ListSizes == {0, 5, 6, 12}
set_reference_list(size) ==
  /\ has_reference' = (size \div 6 > 0)
  /\ UNCHANGED <<core_type, curr_vel, curr_ang_vel>>

\* solve() before any set_reference, in a mode that needs one: it returns {} and
\* changes nothing.
solveWithoutReference ==
  /\ ~has_reference
  /\ core_type # "goto_pos_nlopt"
  /\ UNCHANGED coreVars

solve(lin, ang, overrun) ==
  /\ has_reference \/ core_type = "goto_pos_nlopt"
  /\ curr_vel' = nextVel(lin, overrun)
  /\ curr_ang_vel' = nextAngVel(ang, overrun)
  /\ UNCHANGED <<core_type, has_reference>>

\* set_mpc_type has an empty body: the type of the constructor stays.
set_mpc_type(type) == UNCHANGED coreVars

Next ==
  \/ set_reference
  \/ \E size \in ListSizes : set_reference_list(size)
  \/ solveWithoutReference
  \/ \E lin \in LinResults, ang \in AngResults, overrun \in BOOLEAN :
       solve(lin, ang, overrun)
  \/ \E type \in MpcTypes : set_mpc_type(type)

Spec == Init /\ [][Next]_coreVars

-----------------------------------------------------------------------------

\* The state of the core has the types of its members.
CoreTypeOK ==
  /\ core_type \in MpcTypes
  /\ curr_vel \in Int
  /\ curr_ang_vel \in Int
  /\ has_reference \in BOOLEAN

\* The speeds handed to the robot (mpc_core.cpp:410-412) stay within v_max and w_max,
\* whatever the optimiser answers and however late.
SpeedsWithinLimits ==
  /\ curr_vel \in -MaxVel .. MaxVel
  /\ curr_ang_vel \in -MaxAngVel .. MaxAngVel

\* No step changes a speed by more than one period of a_max or anga_max.  The clamp
\* comes after the rate limit (mpc_core.cpp:407-412), so this is true only because the
\* previous speed was itself within the limits.
RateStep ==
  /\ Abs(curr_vel' - curr_vel) <= MaxLinStep
  /\ Abs(curr_ang_vel' - curr_ang_vel) <= MaxAngStep
RateLimited == [][RateStep]_coreVars

\* An answer later than the control period leaves the robot at the speed it has
\* (mpc_core.cpp:348-352, 379-383, 395-399): replacing _mpc_results is enough, because
\* neither the rate limit nor the clamp after it changes a speed the core already has.
OverrunKeepsSpeed ==
  core_type # "goto_pos_nlopt" =>
    \A lin \in LinResults, ang \in AngResults :
      nextVel(lin, TRUE) = curr_vel /\ nextAngVel(ang, TRUE) = curr_ang_vel
=============================================================================
