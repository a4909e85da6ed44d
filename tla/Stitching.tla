------------------------------ MODULE Stitching ------------------------------
(***************************************************************************)
(* How PlannerROS::plan joins a new trajectory to the one it has sent, and *)
(* what reference the tracker then reads (JackalMPCROS::evalTraj), while   *)
(* time goes on.  This is the case without an MPC horizon, which is the    *)
(* tracker's velocity mode.                                                *)
(*                                                                         *)
(* Time is counted in ticks.  A sample keeps its time_from_start and its   *)
(* phase: how long after the very first plan's start the robot would be    *)
(* there.  The scene does not change, so the plan from a sample is more or *)
(* less of the rest of the same motion, and a trajectory is smooth where   *)
(* the phase grows with the time.  A plan's first sample comes one period  *)
(* after the state it starts from.  Indices count from 1.                  *)
(***************************************************************************)
EXTENDS Integers, Sequences, SequencesExt

CONSTANTS
  TrajDt,     \* _traj_dt: the ticks between two samples
  Rounding,   \* the ticks in .1 s, to which plan() rounds its times
  Short,      \* the rounded times t for which the double t / _traj_dt falls short of the integer it is
  Lookahead,  \* _lookahead
  Samples,    \* how many samples a new plan may have
  PlanTime,   \* bound: the ticks a plan takes
  MaxPhase    \* bound: no plan starts from a later phase

VARIABLES
  sentTraj,  \* the samples of the trajectory sent last
  age,       \* the ticks since: now - start
  planning,  \* a plan is under way
  started    \* the age at which it was begun: a - start

vars == <<sentTraj, age, planning, started>>

Sample(phase, time) == [phase |-> phase, time |-> time]

\* convertTrajToMsg: a plan's n samples, the first one at the given time.
Planned(phase, time, n) ==
  [i \in 1 .. n |-> Sample(phase + i * TrajDt, time + (i - 1) * TrajDt)]

\* std::round to a tenth of a second, halves up.
Round(t) == Rounding * ((2 * t + Rounding) \div (2 * Rounding))

\* The sample of a time, the last one after the end.
IndexOf(t) ==
  LET i == t \div TrajDt + 1 IN IF i <= Len(sentTraj) THEN i ELSE Len(sentTraj)

\* evalTraj: the first sample later than the time.
Reference ==
  LET later == {i \in 1 .. Len(sentTraj) : age < sentTraj[i].time}
      i     == IF later = {} THEN Len(sentTraj) ELSE CHOOSE j \in later : \A k \in later : j <= k
  IN sentTraj[i].phase

\* The first plan is sent as it is, with the times it has of the solver.
Init ==
  /\ \E n \in Samples : sentTraj = Planned(0, TrajDt, n)
  /\ age = 0 /\ planning = FALSE /\ started = 0

\* Once the last sample's time has passed nothing changes any more.
Tick ==
  /\ IF planning THEN age - started < PlanTime ELSE age <= Last(sentTraj).time
  /\ age' = age + 1
  /\ UNCHANGED <<sentTraj, planning, started>>

\* Later plans would find the same last sample.
StartPlan ==
  /\ ~planning /\ age <= Last(sentTraj).time
  /\ sentTraj[IndexOf(age + Lookahead)].phase <= MaxPhase
  /\ planning' = TRUE /\ started' = age
  /\ UNCHANGED <<sentTraj, age>>

\* The points a plan may start from, by the time as it is.  Whether the quotient of a whole
\* number of periods comes out whole is a matter of the time's last digits; where it falls
\* short it is truncated like a time of the tick before.
InitialInds == {IndexOf(t) : t \in {started + Lookahead, started + Lookahead - 1} \cap Nat}

\* The sample of a time that is rounded first and then divided, in floating point, and
\* truncated: with periods of .05 s or .1 s, .3, .6 and .7 s fall short, .1 and .2 s do not.
RoundedInd(t) == IndexOf(IF Round(t) \in Short THEN Round(t) - 1 ELSE Round(t))

\* A slip: ahead of the plan's end instead of its beginning.
TrajIndLate == RoundedInd(age + Lookahead)

\* Where the old samples are cut and the new ones put.
TrajInd == RoundedInd(started + Lookahead)

\* A slip: the present of the plan's beginning.
StartIndEarly == RoundedInd(started) + 1

\* The first old sample that is kept, the one after the present's.
StartInd == RoundedInd(age) + 1

Kept ==
  [i \in 1 .. (IF TrajInd > StartInd THEN TrajInd - StartInd ELSE 0) |->
     Sample(sentTraj[StartInd + i - 1].phase, (i - 1) * TrajDt)]

FinishPlan(n) ==
  /\ planning
  /\ \E i \in InitialInds :
       sentTraj' = Kept \o Planned(sentTraj[i].phase, (TrajInd - StartInd) * TrajDt, n)
  /\ age' = 0
  /\ planning' = FALSE /\ started' = 0

\* The trajectory sent before stays.
FailPlan ==
  /\ planning
  /\ planning' = FALSE /\ started' = 0
  /\ UNCHANGED <<sentTraj, age>>

Next == Tick \/ StartPlan \/ (\E n \in Samples : FinishPlan(n)) \/ FailPlan

Spec == Init /\ [][Next]_vars

-----------------------------------------------------------------------------
(* Properties.                                                              *)

Neighbours == 2 .. Len(sentTraj)

\* However often the old samples were cut and renumbered, by indices that disagree when times
\* are rounded and quotients truncated, the samples' times go on by one period, and at a seam
\* the motion goes back by one sample at most and ahead over two at most.
SeamsEven ==
  /\ sentTraj[1].time <= TrajDt
  /\ \A i \in Neighbours :
       /\ sentTraj[i].time = sentTraj[i - 1].time + TrajDt
       /\ sentTraj[i].phase - sentTraj[i - 1].phase \in {k * TrajDt : k \in -1 .. 3}

\* What the tracker reads goes back by one sample at most, whenever a plan begins and however
\* long it takes within the solver's time limit; a new trajectory moves it ahead of the old
\* schedule by five samples at most.
ReferenceGoesOn ==
  [][/\ Reference' >= Reference - TrajDt
     /\ ~planning' => Reference' <= Reference + 5 * TrajDt]_vars
=============================================================================
