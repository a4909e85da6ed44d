------------------------------- MODULE Solver -------------------------------
(***************************************************************************)
(* The trajectory solver (solver.cpp, SolverGurobi): the attempts of       *)
(* genNewTraj with longer and longer segments, the time they share, the    *)
(* constraints each leaves in the optimisation model, and the samples that *)
(* fillX takes of the segments.                                            *)
(*                                                                         *)
(* A constraint is known by its kind and by whether it is of the attempt   *)
(* under way.  The optimiser itself succeeds or not as it likes; it looks  *)
(* at its time limit now and then, in its callback.  Durations are ticks.  *)
(***************************************************************************)
EXTENDS Integers

CONSTANTS
  N,              \* N_: the segments
  DC,             \* the ticks between two samples
  FactorInitial, FactorFinal,  \* factor_initial_ and factor_final_, in units of
                               \* factor_increment_
  MaxSolverTime,  \* max_solver_time
  Ways,           \* for a start and an end: how long the limits of speed, acceleration and
                  \* jerk ask the robot to take along each axis, for an increment of the factor
  NoSolution,     \* the 10000 s beyond which a way is taken to have no solution
  Overshoot,      \* bound: the optimiser's ticks until its callback sees that time is up
  SetUpTime       \* bound: the ticks of setting up one attempt

ASSUME SolverAssumption ==
  /\ N \in Nat \ {0} /\ DC \in Nat \ {0}
  /\ FactorInitial \in Nat /\ FactorFinal \in Nat /\ FactorInitial <= FactorFinal
  /\ MaxSolverTime \in Nat /\ Overshoot \in Nat /\ SetUpTime \in Nat
  /\ NoSolution \in Nat
  /\ \A way \in Ways : way \subseteq Nat /\ \E t \in way : \A u \in way : u <= t

VARIABLES
  solver,     \* genNewTraj's place: "idle", "attempt", "optimizing", "solved", "failed"
  dtInitial,  \* getDTInitial of the present x0_ and xf_
  factor,     \* i, the present factor
  runtime_s,  \* the optimiser's ticks in this call of genNewTraj
  timeout,    \* cb_.timeout_time
  elapsed,    \* the ticks of the present set-up or optimisation
  model,      \* m's constraints and binary variables
  handles     \* those that polytopes_cons, at_least_1_pol_cons, b, init_cons, final_cons
              \* and dyn_cons hold

solver_vars == <<solver, dtInitial, factor, runtime_s, timeout, elapsed, model, handles>>

Kinds == {"polytopes", "at_least_1_pol", "binary", "initial", "final", "dynamic", "max"}
Ages  == {"present", "past"}

Constraint(kind, of) == [kind |-> kind, of |-> of]

SolverInit ==
  /\ solver = "idle"
  /\ dtInitial = 0 /\ factor = FactorInitial
  /\ runtime_s = 0 /\ timeout = 0 /\ elapsed = 0
  /\ model = {} /\ handles = {}

Larger(a, b) == IF a >= b THEN a ELSE b

\* The longest of a way's times, shared by the segments; 0 if there is none that ends.
getDTInitial(way) ==
  LET longest == CHOOSE t \in way : \A u \in way : u <= t
  IN IF longest \div N > NoSolution THEN 0 ELSE longest \div N

DtInitials == {getDTInitial(way) : way \in Ways}

\* A segment's duration.
findDT(f, d) == f * Larger(d, 2 * DC)

\* genNewTraj's loop comes to another attempt.
Continues(f, spent) == f <= FactorFinal /\ ~(spent > MaxSolverTime)

\* setX0, setXf, setPolytopes, and genNewTraj up to its loop.
Begin(d) ==
  /\ dtInitial' = d
  /\ factor' = FactorInitial
  /\ runtime_s' = 0 /\ timeout' = 0 /\ elapsed' = 0
  /\ solver' = IF Continues(FactorInitial, 0) THEN "attempt" ELSE "failed"
  /\ UNCHANGED <<model, handles>>

Past(cs) == {[c EXCEPT !.of = "past"] : c \in cs}

\* What the present attempt adds, and what of it goes into a vector.
Added == {Constraint(k, "present") : k \in Kinds}
Kept  == {c \in Added : c.kind # "max"}

\* A slip: a vector is emptied without removing its constraints.
ModelUncleaned == (Past(model) \ {c \in Past(handles) : c.kind # "final"}) \cup Added

\* setMaxConstraints adds; the others remove what their vectors hold, and then add.
ModelSetUp == (Past(model) \ Past(handles)) \cup Added

\* A slip: each attempt may take all the time.
TimeoutWhole == MaxSolverTime

TimeoutLeft == MaxSolverTime - runtime_s

Attempt ==
  /\ solver = "attempt"
  /\ solver' = "optimizing"
  /\ timeout' = TimeoutLeft
  /\ elapsed' = 0
  /\ model' = ModelSetUp /\ handles' = Kept
  /\ UNCHANGED <<dtInitial, factor, runtime_s>>

\* A tick; in the optimiser, as long as the callback need not have seen the time is up.
Pass ==
  /\ \/ solver = "attempt" /\ elapsed < SetUpTime
     \/ solver = "optimizing" /\ elapsed < timeout + Overshoot
  /\ elapsed' = elapsed + 1
  /\ UNCHANGED <<solver, dtInitial, factor, runtime_s, timeout, model, handles>>

\* callOptimizer returns.  Exceptions are caught and are failures.
Optimized(optimal) ==
  /\ solver = "optimizing"
  /\ runtime_s' = runtime_s + elapsed
  /\ elapsed' = 0
  /\ IF optimal
     THEN solver' = "solved" /\ UNCHANGED factor
     ELSE /\ factor' = factor + 1
          /\ solver' = IF Continues(factor', runtime_s') THEN "attempt" ELSE "failed"
  /\ UNCHANGED <<dtInitial, timeout, model, handles>>

\* Planner::plan has the answer; what belongs to this call is set again by the next.
Rest ==
  /\ solver' = "idle"
  /\ dtInitial' = 0 /\ factor' = FactorInitial
  /\ runtime_s' = 0 /\ timeout' = 0 /\ elapsed' = 0
  /\ UNCHANGED <<model, handles>>

\* resetX: how many samples there are.
XSizeOf(f, d) == Larger((N * findDT(f, d)) \div DC, 2)

XSize == XSizeOf(factor, dtInitial)

\* fillX: the interval that each sample is taken of, counted from 0.
IntervalOf(f, d) ==
  LET interval[i \in 0 .. XSizeOf(f, d)] ==
        IF i = 0 THEN 0
        ELSE LET last == interval[i - 1]
             IN IF i * DC > findDT(f, d) * (last + 1) /\ last < N - 1 THEN last + 1 ELSE last
  IN interval

-----------------------------------------------------------------------------
(* Properties.                                                              *)

\* The types of the solver's variables.
SolverTypeOK ==
  /\ solver \in {"idle", "attempt", "optimizing", "solved", "failed"}
  /\ dtInitial \in Nat /\ factor \in Nat
  /\ runtime_s \in Nat /\ timeout \in Nat /\ elapsed \in Nat
  /\ model \subseteq [kind : Kinds, of : Ages] /\ handles \subseteq [kind : Kinds, of : Ages]

\* However many plans and attempts there were, the optimiser solves the present problem:
\* all its constraints are there, and of the past ones only the limits of speed, which are
\* the same for every attempt.  It rests on five vectors kept in step with the model.
ModelIsPresent ==
  solver \in {"optimizing", "solved"} =>
    /\ {c.kind : c \in {c \in model : c.of = "present"}} = Kinds
    /\ {c.kind : c \in {c \in model : c.of = "past"}} \subseteq {"max"}

\* All attempts of a plan together take the optimiser no longer than max_solver_time and
\* the time of one callback, although each is given a limit of its own.
WithinSolverTime == runtime_s <= MaxSolverTime + Overshoot
=============================================================================
