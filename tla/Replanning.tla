----------------------------- MODULE Replanning -----------------------------
(***************************************************************************)
(* Planner::plan between the planner node and the solver: the corridor is  *)
(* made and tested, the solver makes its attempts while time goes on, and  *)
(* the node joins the new trajectory to the one it has sent, or keeps that *)
(* one when any step of the plan failed.                                   *)
(*                                                                         *)
(* It composes Stitching, whose bound on the time of a plan is shown to    *)
(* follow from the solver's own limits, with Solver and Corridor.          *)
(***************************************************************************)
EXTENDS Splines, Corridor

CONSTANTS
  Rounding, Short, Lookahead, MaxPhase,  \* see Stitching; the solver's samples are _traj_dt apart
  MaxPolys                        \* bound: the polytopes of a cover

ASSUME ReplanningAssumption ==
  /\ Rounding \in Nat \ {0} /\ Lookahead \in Nat /\ MaxPhase \in Nat /\ MaxPolys \in Nat
  /\ \A t \in Short : t \in Nat \ {0}

VARIABLES
  sentTraj, age, planning, started,  \* see Stitching
  stage,   \* plan's place: "idle", "front", "corridor", "solver", "refused"
  cover,   \* the convex cover of the path
  hPolys   \* the corridor

stitching_vars == <<sentTraj, age, planning, started>>
corridor_vars == <<cover, hPolys>>
vars == <<stitching_vars, solver_vars, stage, corridor_vars>>

\* What a plan takes at most: the front end and every attempt set up, and the last
\* optimisation may overrun.
PlanTime == SetUpTime * (FactorFinal - FactorInitial + 2) + MaxSolverTime + Overshoot

\* The numbers of samples of all attempts.
Samples == {XSizeOf(f, d) : f \in FactorInitial .. FactorFinal, d \in DtInitials}

Joining == INSTANCE Stitching WITH TrajDt <- DC

NoCover == [size |-> 0, overlaps |-> {}, wide |-> {}]

Init ==
  /\ Joining!Init /\ SolverInit
  /\ stage = "idle" /\ cover = NoCover /\ hPolys = <<>>

\* Time passes for the trajectory and for what the plan is at.
Tick ==
  /\ \/ stage = "idle" /\ age <= Last(sentTraj).time /\ UNCHANGED solver_vars
     \/ /\ stage = "front" /\ elapsed < SetUpTime
        /\ elapsed' = elapsed + 1
        /\ UNCHANGED <<solver, dtInitial, factor, runtime_s, timeout, model, handles>>
     \/ stage = "solver" /\ Pass
  /\ age' = age + 1
  /\ UNCHANGED <<sentTraj, planning, started, stage, corridor_vars>>

StartPlan ==
  /\ stage = "idle" /\ Joining!StartPlan
  /\ stage' = "front"
  /\ UNCHANGED <<solver_vars, corridor_vars>>

\* Jump point search finds no path, or no corridor can be made free of obstacles.
PathFails ==
  /\ stage = "front" /\ stage' = "refused"
  /\ UNCHANGED <<stitching_vars, solver_vars, corridor_vars>>

createCorridorJPS ==
  /\ stage = "front" /\ stage' = "corridor"
  /\ \E c \in Covers(MaxPolys) : cover' = c /\ hPolys' = shortCut(c)
  /\ UNCHANGED <<stitching_vars, solver_vars>>

\* The cover and the corridor are plan's own; the solver keeps a copy.
GenNewTraj ==
  /\ stage = "corridor"
  /\ IF Connected(cover, hPolys)
     THEN stage' = "solver" /\ \E d \in DtInitials : Begin(d)
     ELSE stage' = "refused" /\ UNCHANGED solver_vars
  /\ cover' = NoCover /\ hPolys' = <<>>
  /\ UNCHANGED stitching_vars

Solve ==
  /\ stage = "solver"
  /\ Attempt \/ \E optimal \in BOOLEAN : Optimized(optimal)
  /\ UNCHANGED <<stitching_vars, stage, corridor_vars>>

PlanSucceeds ==
  /\ stage = "solver" /\ solver = "solved"
  /\ Joining!FinishPlan(XSize) /\ Rest
  /\ stage' = "idle" /\ UNCHANGED corridor_vars

\* A slip: the trajectory sent is given up with the plan.
PlanFailsClearing ==
  /\ stage = "refused" \/ (stage = "solver" /\ solver \in {"solved", "failed"})
  /\ planning' = FALSE /\ started' = 0
  /\ sentTraj' = <<Head(sentTraj)>> /\ UNCHANGED age
  /\ Rest /\ stage' = "idle" /\ UNCHANGED corridor_vars

\* Also a solution that goes over an occupied cell is refused.
PlanFails ==
  /\ stage = "refused" \/ (stage = "solver" /\ solver \in {"solved", "failed"})
  /\ Joining!FailPlan /\ Rest
  /\ stage' = "idle" /\ UNCHANGED corridor_vars

Next ==
  \/ Tick \/ StartPlan
  \/ PathFails \/ createCorridorJPS \/ GenNewTraj \/ Solve
  \/ PlanSucceeds \/ PlanFails

Spec == Init /\ [][Next]_vars

-----------------------------------------------------------------------------
(* Properties.                                                              *)

\* See Stitching.
SeamsEven == Joining!SeamsEven
ReferenceGoesOn == Joining!ReferenceGoesOn

\* The planner joins trajectories as Stitching says and within its bound on a plan's time:
\* the limits of the solver's attempts, each counted apart, bound the whole.
ImplementsStitching == Joining!Spec

\* The corridor leads from the first polytope to the last, each overlapping the next widely
\* or being the one before it on the path, and is two polytopes at least: plan's loop over
\* its pairs, counted without a sign, has an end.
CorridorLeadsThrough ==
  stage = "corridor" =>
    /\ Len(hPolys) >= 2
    /\ hPolys[1] = 1 /\ hPolys[Len(hPolys)] = cover.size
    /\ \A p \in 1 .. Len(hPolys) - 1 :
         \/ <<hPolys[p], hPolys[p + 1]>> \in cover.wide
         \/ hPolys[p + 1] \in {hPolys[p], hPolys[p] + 1}
=============================================================================
