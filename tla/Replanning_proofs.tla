------------------------- MODULE Replanning_proofs -------------------------
(***************************************************************************)
(* Theorems about Replanning, for any limits, lengths and increments: how  *)
(* long a plan may take, that the solver's model stays the present one,    *)
(* that trajectories are joined as in Stitching, what a seam and the       *)
(* reference read of them may lose or repeat, that corridors lead through, *)
(* and that what is sampled of a solution, and its sampled length, are     *)
(* the solution's.                                                         *)
(*                                                                         *)
(* A plan's time is accounted for by its place.  What has passed since its *)
(* beginning is at most one set-up for the front end and one for every     *)
(* attempt so far, the optimiser's time of the attempts that ended, and    *)
(* the ticks of the present one.                                           *)
(***************************************************************************)
EXTENDS Replanning, WellFoundedInduction, TLAPS

\* The time to set up k things.
SetUps(k) == SetUpTime * k

Spent == age - started

Tried == factor - FactorInitial

TypesInv ==
  /\ stage \in {"idle", "front", "corridor", "solver", "refused"}
  /\ planning \in BOOLEAN
  /\ age \in Nat /\ started \in Nat
  /\ SolverTypeOK

\* The solver is at work only in its stage of a plan, and planning is any stage of one.
PlaceInv ==
  /\ planning <=> stage # "idle"
  /\ stage # "solver" => solver = "idle"
  /\ stage = "solver" => solver # "idle" /\ dtInitial \in DtInitials
  /\ solver \in {"attempt", "optimizing", "solved"} =>
       factor \in FactorInitial .. FactorFinal
  /\ stage = "idle" => runtime_s = 0 /\ elapsed = 0
  /\ stage = "corridor" => runtime_s = 0

FrontTime ==
  stage = "front" => elapsed <= SetUpTime /\ Spent <= elapsed /\ runtime_s = 0

CorridorTime ==
  stage = "corridor" => Spent <= SetUpTime

AttemptTime ==
  solver = "attempt" =>
    /\ runtime_s <= MaxSolverTime /\ elapsed <= SetUpTime
    /\ Spent <= SetUps(Tried + 1) + runtime_s + elapsed

OptimizerTime ==
  solver = "optimizing" =>
    /\ runtime_s <= MaxSolverTime
    /\ timeout = MaxSolverTime - runtime_s
    /\ elapsed <= timeout + Overshoot
    /\ Spent <= SetUps(Tried + 2) + runtime_s + elapsed

TimeInv ==
  FrontTime /\ CorridorTime /\ AttemptTime /\ OptimizerTime /\ WithinSolverTime

\* What the vectors hold is all of the model but the limits of speed.
ModelInv ==
  /\ {c \in model : c.kind # "max"} \subseteq handles
  /\ ModelIsPresent

IInv == TypesInv /\ PlaceInv /\ TimeInv /\ ModelInv

-----------------------------------------------------------------------------
(* The time of set-ups.                                                     *)

\* One more thing to set up takes SetUpTime more.
LEMMA SetUpsStep ==
  ASSUME NEW k \in Nat
  PROVE  SetUps(k) \in Nat /\ SetUps(k + 1) = SetUps(k) + SetUpTime
<1>1. SetUpTime \in Nat
  BY SolverAssumption
<1>2. SetUpTime * k \in Nat
  BY <1>1
<1>3. SetUpTime * (k + 1) = SetUpTime * k + SetUpTime
  BY <1>1
<1> QED
  BY <1>2, <1>3 DEF SetUps

\* More things do not take less.
LEMMA SetUpsMonotone ==
  ASSUME NEW k \in Nat, NEW l \in Nat, k <= l
  PROVE  SetUps(k) <= SetUps(l)
<1>1. SetUpTime \in Nat
  BY SolverAssumption
<1>2. PICK d \in Nat : l = k + d
  BY k <= l, l - k \in Nat
<1>3. SetUpTime * (k + d) = SetUpTime * k + SetUpTime * d
  BY <1>1
<1>4. SetUpTime * d \in Nat /\ SetUpTime * k \in Nat
  BY <1>1
<1> QED
  BY <1>2, <1>3, <1>4 DEF SetUps

\* The bound on a plan's time, with the front end's and all the attempts' set-ups.
LEMMA PlanTimeIs ==
  /\ FactorFinal - FactorInitial \in Nat
  /\ PlanTime = SetUps(FactorFinal - FactorInitial + 2) + MaxSolverTime + Overshoot
<1>1. FactorFinal - FactorInitial \in Nat
  BY SolverAssumption
<1> QED
  BY <1>1 DEF PlanTime, SetUps

\* A segment's least duration is a whole number of ticks.
LEMMA DtInitialsAre == DtInitials \subseteq Nat
<1> SUFFICES ASSUME NEW way \in Ways PROVE getDTInitial(way) \in Nat
  BY DEF DtInitials
<1> DEFINE longest == CHOOSE t \in way : \A u \in way : u <= t
<1>1. longest \in Nat
  <2>1. \E t \in way : \A u \in way : u <= t
    BY SolverAssumption
  <2>2. longest \in way
    BY <2>1
  <2> QED
    BY <2>2, SolverAssumption
<1>2. longest \div N \in Nat
  <2> HIDE DEF longest
  <2> QED
    BY <1>1, SolverAssumption
<1> QED
  BY <1>2 DEF getDTInitial

\* One set-up takes SetUpTime.
LEMMA OneSetUp == SetUps(1) = SetUpTime
BY SolverAssumption DEF SetUps

-----------------------------------------------------------------------------
(* The model.                                                               *)

\* An attempt takes out of the model all that it adds, but for the limits of speed.
LEMMA OnlyLimitsStay ==
  ASSUME SolverTypeOK, {c \in model : c.kind # "max"} \subseteq handles,
         NEW c \in Past(model) \ Past(handles)
  PROVE  c.kind = "max" /\ c.of = "past"
<1>1. PICK d \in model : c = [d EXCEPT !.of = "past"]
  BY DEF Past
<1>2. d \in [kind : Kinds, of : Ages]
  BY DEF SolverTypeOK
<1>3. c.kind = d.kind /\ c.of = "past"
  BY <1>1, <1>2
<1>4. CASE d.kind = "max"
  BY <1>3, <1>4
<1>5. CASE d.kind # "max"
  <2>1. d \in handles
    BY <1>5
  <2>2. c \in Past(handles)
    BY <1>1, <2>1 DEF Past
  <2> QED
    BY <2>2
<1> QED
  BY <1>4, <1>5

\* What an attempt adds is of its own, of every kind, and all but the limits are kept.
LEMMA AddedIs ==
  /\ Added \subseteq [kind : Kinds, of : Ages]
  /\ \A c \in Added : c.of = "present" /\ (c.kind # "max" => c \in Kept)
  /\ \A k \in Kinds : Constraint(k, "present") \in Added
  /\ Kept \subseteq Added
BY DEF Added, Kept, Constraint, Kinds, Ages

\* After setting an attempt up the model is the present one.
LEMMA SetUpIsPresent ==
  ASSUME SolverTypeOK, {c \in model : c.kind # "max"} \subseteq handles,
         model' = ModelSetUp, handles' = Kept
  PROVE  /\ model' \subseteq [kind : Kinds, of : Ages]
         /\ handles' \subseteq [kind : Kinds, of : Ages]
         /\ {c \in model' : c.kind # "max"} \subseteq handles'
         /\ ModelIsPresent'
<1>1. \A c \in Past(model) \ Past(handles) : c.kind = "max" /\ c.of = "past"
  BY OnlyLimitsStay
<1>2. Past(model) \subseteq [kind : Kinds, of : Ages]
  <2> SUFFICES ASSUME NEW d \in model
               PROVE  [d EXCEPT !.of = "past"] \in [kind : Kinds, of : Ages]
    BY DEF Past
  <2>1. d \in [kind : Kinds, of : Ages]
    BY DEF SolverTypeOK
  <2> QED
    BY <2>1 DEF Ages
<1>3. model' \subseteq [kind : Kinds, of : Ages] /\ handles' \subseteq [kind : Kinds, of : Ages]
  BY <1>2, AddedIs DEF ModelSetUp
<1>4. {c \in model' : c.kind # "max"} \subseteq handles'
  BY <1>1, AddedIs DEF ModelSetUp
<1>5. {c.kind : c \in {c \in model' : c.of = "present"}} = Kinds
  <2>1. ASSUME NEW c \in model' PROVE c.kind \in Kinds
    BY <1>3
  <2>2. ASSUME NEW k \in Kinds
        PROVE  \E c \in model' : c.of = "present" /\ c.kind = k
    <3>1. Constraint(k, "present") \in model'
      BY AddedIs DEF ModelSetUp
    <3>2. Constraint(k, "present").of = "present" /\ Constraint(k, "present").kind = k
      BY DEF Constraint
    <3> QED
      BY <3>1, <3>2
  <2> QED
    BY <2>1, <2>2
<1>6. {c.kind : c \in {c \in model' : c.of = "past"}} \subseteq {"max"}
  <2>1. \A c \in Added : c.of # "past"
    BY AddedIs
  <2>2. \A c \in model' : c.of = "past" => c.kind = "max"
    BY <1>1, <2>1 DEF ModelSetUp
  <2> QED
    BY <2>2
<1>7. ModelIsPresent'
  BY <1>5, <1>6 DEF ModelIsPresent
<1> QED
  BY <1>3, <1>4, <1>7

\* The model's part of the invariant speaks of these variables alone.
LEMMA ModelStays ==
  ASSUME ModelInv, UNCHANGED <<model, handles>>,
         solver' \in {"optimizing", "solved"} => solver \in {"optimizing", "solved"}
  PROVE  ModelInv'
BY DEF ModelInv, ModelIsPresent

-----------------------------------------------------------------------------
(* The initial states and the steps.                                        *)

LEMMA Initially == Init => IInv
<1> SUFFICES ASSUME Init PROVE IInv
  OBVIOUS
<1> USE DEF Init, Joining!Init, SolverInit
<1>1. TypesInv
  BY SolverAssumption DEF TypesInv, SolverTypeOK
<1>2. PlaceInv
  BY DEF PlaceInv
<1>3. TimeInv
  BY SolverAssumption
     DEF TimeInv, FrontTime, CorridorTime, AttemptTime, OptimizerTime, WithinSolverTime
<1>4. ModelInv
  BY DEF ModelInv, ModelIsPresent
<1> QED
  BY <1>1, <1>2, <1>3, <1>4 DEF IInv

\* Time that passes is accounted for by the present set-up or optimisation.
LEMMA TickKeeps == IInv /\ Tick => IInv'
<1> SUFFICES ASSUME IInv, Tick PROVE IInv'
  OBVIOUS
<1> USE DEF IInv
<1>1. /\ age' = age + 1
      /\ UNCHANGED <<planning, started, stage, solver, dtInitial, factor, runtime_s,
                     timeout, model, handles>>
      /\ \/ stage = "idle" /\ elapsed' = elapsed
         \/ stage = "front" /\ elapsed < SetUpTime /\ elapsed' = elapsed + 1
         \/ /\ stage = "solver" /\ elapsed' = elapsed + 1
            /\ \/ solver = "attempt" /\ elapsed < SetUpTime
               \/ solver = "optimizing" /\ elapsed < timeout + Overshoot
  BY DEF Tick, Pass, solver_vars
<1>2. TypesInv'
  BY <1>1 DEF TypesInv, SolverTypeOK
<1>3. PlaceInv'
  BY <1>1 DEF PlaceInv
<1>4. ModelInv'
  BY <1>1, ModelStays
<1>5. TimeInv'
  <2> USE <1>1, SolverAssumption DEF TypesInv, SolverTypeOK, PlaceInv
  <2>1. FrontTime' /\ CorridorTime' /\ WithinSolverTime'
    BY DEF TimeInv, FrontTime, CorridorTime, Spent, WithinSolverTime
  <2>2. AttemptTime'
    <3> SUFFICES ASSUME solver = "attempt" PROVE AttemptTime'
      BY DEF AttemptTime
    <3>1. Tried \in Nat /\ SetUps(Tried + 1) \in Nat
      <4>1. Tried \in Nat
        BY DEF Tried
      <4> QED
        BY <4>1, SetUpsStep, Tried + 1 \in Nat
    <3>2. Tried' = Tried /\ SetUps(Tried + 1)' = SetUps(Tried + 1)
      BY DEF Tried, SetUps
    <3> QED
      BY <3>1, <3>2 DEF TimeInv, AttemptTime, Spent
  <2>3. OptimizerTime'
    <3> SUFFICES ASSUME solver = "optimizing" PROVE OptimizerTime'
      BY DEF OptimizerTime
    <3>1. Tried \in Nat /\ SetUps(Tried + 2) \in Nat
      <4>1. Tried \in Nat
        BY DEF Tried
      <4> QED
        BY <4>1, SetUpsStep, Tried + 2 \in Nat
    <3>2. Tried' = Tried /\ SetUps(Tried + 2)' = SetUps(Tried + 2)
      BY DEF Tried, SetUps
    <3> QED
      BY <3>1, <3>2 DEF TimeInv, OptimizerTime, Spent
  <2> QED
    BY <2>1, <2>2, <2>3 DEF TimeInv
<1> QED
  BY <1>2, <1>3, <1>4, <1>5

\* The front end's steps: none takes time, and the solver is not at work before its turn.
LEMMA FrontKeeps ==
  IInv /\ (StartPlan \/ PathFails \/ createCorridorJPS) => IInv'
<1> SUFFICES ASSUME IInv, StartPlan \/ PathFails \/ createCorridorJPS PROVE IInv'
  OBVIOUS
<1> USE SolverAssumption DEF IInv
<1>1. /\ UNCHANGED <<solver, dtInitial, factor, runtime_s, timeout, elapsed, model, handles, age>>
      /\ \/ stage = "idle" /\ stage' = "front" /\ planning' = TRUE /\ started' = age
         \/ /\ stage = "front" /\ stage' \in {"refused", "corridor"}
            /\ UNCHANGED <<planning, started>>
  BY DEF StartPlan, Joining!StartPlan, PathFails, createCorridorJPS, solver_vars, stitching_vars
<1>2. TypesInv'
  BY <1>1 DEF TypesInv, SolverTypeOK
<1>3. PlaceInv'
  BY <1>1 DEF PlaceInv, TimeInv, FrontTime
<1>4. ModelInv'
  BY <1>1, ModelStays
<1>5. TimeInv'
  <2>1. FrontTime' /\ CorridorTime' /\ WithinSolverTime'
    BY <1>1 DEF TimeInv, FrontTime, CorridorTime, Spent, WithinSolverTime, TypesInv,
                SolverTypeOK, PlaceInv
  <2>2. solver' = "idle"
    BY <1>1 DEF PlaceInv
  <2> QED
    BY <2>1, <2>2 DEF TimeInv, AttemptTime, OptimizerTime
<1> QED
  BY <1>2, <1>3, <1>4, <1>5

\* The solver begins with the least factor and after one set-up.
LEMMA GenNewTrajKeeps == IInv /\ GenNewTraj => IInv'
<1> SUFFICES ASSUME IInv, GenNewTraj PROVE IInv'
  OBVIOUS
<1> USE SolverAssumption DEF IInv
<1>1. stage = "corridor" /\ UNCHANGED <<age, planning, started, model, handles>>
  BY DEF GenNewTraj, stitching_vars, Begin, solver_vars
<1>2. CASE stage' = "refused" /\ UNCHANGED solver_vars
  <2>1. TypesInv' /\ PlaceInv' /\ ModelInv'
    BY <1>1, <1>2 DEF TypesInv, SolverTypeOK, PlaceInv, ModelInv, ModelIsPresent, solver_vars
  <2>2. TimeInv'
    BY <1>1, <1>2 DEF TimeInv, FrontTime, CorridorTime, AttemptTime, OptimizerTime,
                      WithinSolverTime, solver_vars, PlaceInv
  <2> QED
    BY <2>1, <2>2
<1>3. CASE stage' = "solver" /\ \E d \in DtInitials : Begin(d)
  <2>1. /\ dtInitial' \in DtInitials /\ factor' = FactorInitial
        /\ runtime_s' = 0 /\ timeout' = 0 /\ elapsed' = 0 /\ solver' = "attempt"
    <3>1. Continues(FactorInitial, 0)
      BY DEF Continues
    <3> QED
      BY <1>3, <3>1 DEF Begin
  <2>2. TypesInv'
    BY <1>1, <1>3, <2>1, DtInitialsAre DEF TypesInv, SolverTypeOK
  <2>3. PlaceInv'
    BY <1>1, <1>3, <2>1 DEF PlaceInv
  <2>4. ModelInv'
    BY <1>1, <2>1, ModelStays
  <2>5. TimeInv'
    <3>1. (Tried + 1)' = 1
      BY <2>1 DEF Tried
    <3>2. SetUps(Tried + 1)' = SetUpTime
      BY <3>1, OneSetUp DEF SetUps
    <3>3. AttemptTime'
      BY <1>1, <2>1, <3>2 DEF TimeInv, CorridorTime, AttemptTime, Spent, TypesInv
    <3> QED
      BY <1>3, <2>1, <3>3 DEF TimeInv, FrontTime, CorridorTime, OptimizerTime, WithinSolverTime
  <2> QED
    BY <2>2, <2>3, <2>4, <2>5
<1> QED
  BY <1>2, <1>3 DEF GenNewTraj

\* An attempt's set-up counts as one more; the optimiser is given what is left.
LEMMA AttemptKeeps ==
  ASSUME IInv, stage = "solver", Attempt,
         UNCHANGED <<age, planning, started, stage>>
  PROVE  IInv'
<1> USE SolverAssumption DEF IInv
<1>1. /\ solver = "attempt" /\ solver' = "optimizing"
      /\ timeout' = MaxSolverTime - runtime_s /\ elapsed' = 0
      /\ model' = ModelSetUp /\ handles' = Kept
      /\ UNCHANGED <<dtInitial, factor, runtime_s>>
  BY DEF Attempt, TimeoutLeft
<1>2. /\ model' \subseteq [kind : Kinds, of : Ages] /\ handles' \subseteq [kind : Kinds, of : Ages]
      /\ ModelInv'
  BY <1>1, SetUpIsPresent DEF TypesInv, ModelInv
<1>3. TypesInv'
  BY <1>1, <1>2 DEF TypesInv, SolverTypeOK, TimeInv, AttemptTime
<1>4. PlaceInv'
  BY <1>1 DEF PlaceInv
<1>5. TimeInv'
  <2>1. Tried \in Nat
    BY <1>1 DEF Tried, PlaceInv
  <2>2. SetUps(Tried + 1) \in Nat /\ SetUps(Tried + 2) = SetUps(Tried + 1) + SetUpTime
    <3>1. Tried + 1 \in Nat /\ (Tried + 1) + 1 = Tried + 2
      BY <2>1
    <3> QED
      BY <3>1, SetUpsStep
  <2>3. SetUps(Tried + 2)' = SetUps(Tried + 2) /\ Spent' = Spent
    BY <1>1 DEF SetUps, Tried, Spent
  <2>4. OptimizerTime'
    BY <1>1, <2>2, <2>3 DEF OptimizerTime, TimeInv, AttemptTime, Spent, TypesInv, SolverTypeOK
  <2> QED
    BY <1>1, <2>4 DEF TimeInv, FrontTime, CorridorTime, AttemptTime, WithinSolverTime
<1> QED
  BY <1>2, <1>3, <1>4, <1>5

\* When the optimiser returns, its time is added to that of the attempts before.
LEMMA OptimizedKeeps ==
  ASSUME IInv, stage = "solver", NEW optimal \in BOOLEAN, Optimized(optimal),
         UNCHANGED <<age, planning, started, stage>>
  PROVE  IInv'
<1> USE SolverAssumption DEF IInv
<1>1. /\ solver = "optimizing" /\ runtime_s' = runtime_s + elapsed /\ elapsed' = 0
      /\ UNCHANGED <<dtInitial, timeout, model, handles>>
  BY DEF Optimized
<1>2. runtime_s' <= MaxSolverTime + Overshoot
  BY <1>1 DEF TimeInv, OptimizerTime, TypesInv, SolverTypeOK
<1>3. solver' \in {"optimizing", "solved"} => solver \in {"optimizing", "solved"}
  BY <1>1
<1>4. ModelInv'
  BY <1>1, <1>3, ModelStays
<1>5. CASE optimal
  <2>1. solver' = "solved" /\ factor' = factor
    BY <1>5 DEF Optimized
  <2>2. TypesInv' /\ PlaceInv'
    BY <1>1, <2>1 DEF TypesInv, SolverTypeOK, PlaceInv
  <2>3. TimeInv'
    BY <1>1, <1>2, <2>1
       DEF TimeInv, FrontTime, CorridorTime, AttemptTime, OptimizerTime, WithinSolverTime
  <2> QED
    BY <1>4, <2>2, <2>3
<1>6. CASE ~optimal
  <2>1. /\ factor' = factor + 1
        /\ \/ /\ solver' = "attempt" /\ factor' <= FactorFinal
              /\ ~(runtime_s' > MaxSolverTime)
           \/ solver' = "failed"
    BY <1>6 DEF Optimized, Continues
  <2>2. TypesInv'
    BY <1>1, <2>1 DEF TypesInv, SolverTypeOK
  <2>3. PlaceInv'
    BY <1>1, <2>1 DEF PlaceInv, TypesInv, SolverTypeOK
  <2>4. AttemptTime'
    <3> SUFFICES ASSUME solver' = "attempt" PROVE AttemptTime'
      BY DEF AttemptTime
    <3>1. runtime_s' <= MaxSolverTime
      BY <2>1, <2>2 DEF TypesInv, SolverTypeOK
    <3>2. (Tried + 1)' = Tried + 2 /\ Spent' = Spent
      BY <2>1 DEF Tried, Spent, TypesInv, SolverTypeOK
    <3>3. SetUps(Tried + 1)' = SetUps(Tried + 2) /\ SetUps(Tried + 2) \in Nat
      <4>1. Tried + 2 \in Nat
        BY <1>1 DEF Tried, PlaceInv
      <4> QED
        BY <3>2, <4>1, SetUpsStep DEF SetUps
    <3> QED
      BY <1>1, <3>1, <3>2, <3>3
         DEF AttemptTime, TimeInv, OptimizerTime, Spent, TypesInv, SolverTypeOK
  <2>5. TimeInv'
    BY <1>2, <2>1, <2>4 DEF TimeInv, FrontTime, CorridorTime, OptimizerTime, WithinSolverTime
  <2> QED
    BY <1>4, <2>2, <2>3, <2>5
<1> QED
  BY <1>5, <1>6

\* A plan's end leaves the solver's model, and nothing else, to the next.
LEMMA EndKeeps == IInv /\ (PlanSucceeds \/ PlanFails) => IInv'
<1> SUFFICES ASSUME IInv, PlanSucceeds \/ PlanFails PROVE IInv'
  OBVIOUS
<1> USE SolverAssumption DEF IInv
<1>1. /\ stage' = "idle" /\ planning' = FALSE /\ started' = 0 /\ age' \in {0, age}
      /\ solver' = "idle" /\ dtInitial' = 0 /\ factor' = FactorInitial
      /\ runtime_s' = 0 /\ timeout' = 0 /\ elapsed' = 0
      /\ UNCHANGED <<model, handles>>
  BY DEF PlanSucceeds, PlanFails, Joining!FinishPlan, Joining!FailPlan, Rest
<1>2. TypesInv'
  <2>1. age' \in Nat /\ started' \in Nat
    <3>1. age' = 0 \/ age' = age
      BY <1>1
    <3> QED
      BY <1>1, <3>1 DEF TypesInv
  <2>2. planning' \in BOOLEAN
    BY <1>1
  <2>3. SolverTypeOK'
    BY <1>1 DEF TypesInv, SolverTypeOK
  <2> QED
    BY <1>1, <2>1, <2>2, <2>3 DEF TypesInv
<1>3. PlaceInv'
  BY <1>1 DEF PlaceInv
<1>4. TimeInv'
  BY <1>1 DEF TimeInv, FrontTime, CorridorTime, AttemptTime, OptimizerTime, WithinSolverTime
<1>5. ModelInv'
  BY <1>1, ModelStays
<1> QED
  BY <1>2, <1>3, <1>4, <1>5

LEMMA StepKeeps == IInv /\ [Next]_vars => IInv'
<1> SUFFICES ASSUME IInv, [Next]_vars PROVE IInv'
  OBVIOUS
<1>1. CASE Tick
  BY <1>1, TickKeeps
<1>2. CASE StartPlan \/ PathFails \/ createCorridorJPS
  BY <1>2, FrontKeeps
<1>3. CASE GenNewTraj
  BY <1>3, GenNewTrajKeeps
<1>4. CASE Solve
  <2>1. stage = "solver" /\ UNCHANGED <<age, planning, started, stage>>
    BY <1>4 DEF Solve, stitching_vars
  <2>2. CASE Attempt
    BY <2>1, <2>2, AttemptKeeps
  <2>3. CASE \E optimal \in BOOLEAN : Optimized(optimal)
    BY <2>1, <2>3, OptimizedKeeps
  <2> QED
    BY <1>4, <2>2, <2>3 DEF Solve
<1>5. CASE PlanSucceeds \/ PlanFails
  BY <1>5, EndKeeps
<1>6. CASE UNCHANGED vars
  BY <1>6 DEF vars, stitching_vars, solver_vars, IInv, TypesInv, SolverTypeOK, PlaceInv,
              TimeInv, FrontTime, CorridorTime, AttemptTime, OptimizerTime, WithinSolverTime,
              ModelInv, ModelIsPresent, Spent, Tried, SetUps
<1> QED
  BY <1>1, <1>2, <1>3, <1>4, <1>5, <1>6 DEF Next

LEMMA Invariant == Spec => []IInv
<1>1. Init => IInv
  BY Initially
<1>2. IInv /\ [Next]_vars => IInv'
  BY StepKeeps
<1> QED
  BY <1>1, <1>2, PTL DEF Spec

-----------------------------------------------------------------------------
(* The theorems.                                                            *)

\* The optimiser never takes longer, in all the attempts of a plan, than max_solver_time and
\* one callback's overrun, whatever the factors and the limit.
THEOREM SolverKeepsItsTime == Spec => []WithinSolverTime
<1>1. IInv => WithinSolverTime
  BY DEF IInv, TimeInv
<1> QED
  BY <1>1, Invariant, PTL

\* However many plans and attempts there were, the optimisation model holds the present
\* constraints and no past ones but the limits of speed.
THEOREM ModelStaysPresent == Spec => []ModelIsPresent
<1>1. IInv => ModelIsPresent
  BY DEF IInv, ModelInv
<1> QED
  BY <1>1, Invariant, PTL

\* While time may still pass for a plan, there is some left of its bound.
LEMMA TimeIsLeft ==
  ASSUME IInv, Tick, planning
  PROVE  age - started < PlanTime
<1> USE SolverAssumption DEF IInv, TypesInv, SolverTypeOK
<1> DEFINE F == FactorFinal - FactorInitial
<1>1. F \in Nat /\ PlanTime = SetUps(F + 2) + MaxSolverTime + Overshoot
  BY PlanTimeIs
<1>2. F + 2 \in Nat /\ SetUps(F + 2) \in Nat
  BY <1>1, SetUpsStep
<1> HIDE DEF F
<1>3. CASE stage = "front" /\ elapsed < SetUpTime
  <2>1. SetUpTime <= SetUps(F + 2)
    BY <1>1, <1>2, OneSetUp, SetUpsMonotone, 1 \in Nat, 1 <= F + 2
  <2> QED
    BY <1>1, <1>2, <1>3, <2>1 DEF TimeInv, FrontTime, Spent
<1>4. CASE solver = "attempt" /\ elapsed < SetUpTime
  <2>1. Tried \in Nat /\ Tried <= F
    BY <1>4 DEF PlaceInv, Tried, F
  <2>2. /\ SetUps(Tried + 1) \in Nat
        /\ SetUps(Tried + 2) = SetUps(Tried + 1) + SetUpTime
    BY <2>1, SetUpsStep, Tried + 1 \in Nat, (Tried + 1) + 1 = Tried + 2
  <2>3. SetUps(Tried + 2) <= SetUps(F + 2)
    BY <1>1, <1>2, <2>1, SetUpsMonotone, Tried + 2 \in Nat, Tried + 2 <= F + 2
  <2> QED
    BY <1>1, <1>2, <1>4, <2>2, <2>3 DEF TimeInv, AttemptTime, Spent
<1>5. CASE solver = "optimizing" /\ elapsed < timeout + Overshoot
  <2>1. Tried \in Nat /\ Tried <= F
    BY <1>5 DEF PlaceInv, Tried, F
  <2>2. SetUps(Tried + 2) \in Nat /\ SetUps(Tried + 2) <= SetUps(F + 2)
    BY <1>1, <1>2, <2>1, SetUpsStep, SetUpsMonotone, Tried + 2 \in Nat, Tried + 2 <= F + 2
  <2> QED
    BY <1>1, <1>2, <1>5, <2>2 DEF TimeInv, OptimizerTime, Spent
<1> QED
  BY <1>3, <1>4, <1>5 DEF Tick, Pass, PlaceInv

\* The numbers of samples the node joins are those of an attempt.
LEMMA XSizeIsOne ==
  ASSUME IInv, stage = "solver", solver = "solved"
  PROVE  XSize \in Samples
<1>1. factor \in FactorInitial .. FactorFinal /\ dtInitial \in DtInitials
  BY DEF IInv, PlaceInv
<1> QED
  BY <1>1 DEF XSize, Samples

\* The planner, with its corridor and its solver, joins trajectories as Stitching says, and
\* no plan takes longer than the bound Stitching is given.
THEOREM JoinsLikeStitching == Spec => ImplementsStitching
<1>1. Init => Joining!Init
  BY DEF Init
<1>2. IInv /\ [Next]_vars => [Joining!Next]_(Joining!vars)
  <2> SUFFICES ASSUME IInv, [Next]_vars PROVE Joining!Next \/ UNCHANGED Joining!vars
    OBVIOUS
  <2>1. CASE Tick
    <3>1. planning \/ age <= Last(sentTraj).time
      BY <2>1 DEF Tick, IInv, PlaceInv
    <3>2. planning => age - started < PlanTime
      BY <2>1, TimeIsLeft
    <3>3. age' = age + 1 /\ UNCHANGED <<sentTraj, planning, started>>
      BY <2>1 DEF Tick
    <3>4. ~planning => age <= Last(sentTraj).time
      BY <3>1
    <3>5. Joining!Tick
      BY <3>2, <3>3, <3>4, Zenon DEF Joining!Tick, Last, Joining!Last
    <3> QED
      BY <3>5, Zenon DEF Joining!Next
  <2>2. CASE StartPlan
    BY <2>2 DEF StartPlan, Joining!Next
  <2>3. CASE PathFails \/ createCorridorJPS \/ GenNewTraj \/ Solve
    BY <2>3 DEF PathFails, createCorridorJPS, GenNewTraj, Solve, stitching_vars, Joining!vars
  <2>4. CASE PlanSucceeds
    <3>1. XSize \in Samples
      BY <2>4, XSizeIsOne DEF PlanSucceeds
    <3> QED
      BY <2>4, <3>1 DEF PlanSucceeds, Joining!Next
  <2>5. CASE PlanFails
    BY <2>5 DEF PlanFails, Joining!Next
  <2>6. CASE UNCHANGED vars
    BY <2>6 DEF vars, stitching_vars, Joining!vars
  <2> QED
    BY <2>1, <2>2, <2>3, <2>4, <2>5, <2>6 DEF Next
<1> QED
  BY <1>1, <1>2, Invariant, PTL DEF Spec, ImplementsStitching, Joining!Spec

-----------------------------------------------------------------------------
(* The seams.  Times are cut to samples after rounding them, or as they are, and a       *)
(* quotient may fall short of the sample it is; how far apart the two may be decides     *)
(* what a seam loses or repeats, and where the next one may be.                          *)

\* The period of a time, of a time rounded, and of one that is cut: rounded and divided.
Slot(t) == t \div DC
RoundedSlot(t) == Joining!Round(t) \div DC
CutSlot(t) ==
  (IF Joining!Round(t) \in Short THEN Joining!Round(t) - 1 ELSE Joining!Round(t)) \div DC

\* The code's own values: samples .1 s apart and a lookahead halfway between two tenths, as by
\* default (.15 s), or .05 s apart and a lookahead that is not rounded down (.35 s in its
\* parameters); and a lookahead that, rounded, is divided evenly (.2 s and .4 s are).
SeamAssumption ==
  /\ Joining!Round(Lookahead) \notin Short
  /\ \/ /\ Rounding = DC
        /\ 2 * (Joining!Round(Lookahead) - Lookahead) = DC
     \/ /\ Rounding = 2 * DC
        /\ Joining!Round(Lookahead) - DC <= Lookahead /\ Lookahead <= Joining!Round(Lookahead)

Lead == RoundedSlot(Lookahead)

\* The lookahead reaches into the period it is rounded to the end of; and does while periods
\* are half of what times are rounded to.
Far == Lookahead > DC * (Lead - 1)
FarRounded == Rounding = 2 * DC /\ Far

LEMMA Quotient ==
  ASSUME NEW a \in Nat, NEW m \in Nat \ {0}
  PROVE  /\ a \div m \in Nat
         /\ m * (a \div m) <= a /\ a < m * ((a \div m) + 1)
  OBVIOUS

LEMMA QuotientIs ==
  ASSUME NEW m \in Nat \ {0}, NEW k \in Nat
  PROVE  (m * k) \div m = k
  OBVIOUS

LEMMA LessOf ==
  ASSUME NEW m \in Nat \ {0}, NEW a \in Int, NEW b \in Int, m * a < m * b
  PROVE  a < b
<1>1. CASE a >= b
  <2>1. m * (a - b) >= 0
    BY <1>1
  <2> QED
    BY <2>1
<1> QED
  BY <1>1

LEMMA TimesAtMost ==
  ASSUME NEW m \in Nat, NEW a \in Int, NEW b \in Int, a <= b
  PROVE  m * a <= m * b
<1>1. m * (b - a) >= 0
  OBVIOUS
<1> QED
  BY <1>1

\* A quotient that falls short is that of the tick before.
LEMMA QuotientShort ==
  ASSUME NEW m \in Nat \ {0}, NEW k \in Nat \ {0}
  PROVE  (m * k - 1) \div m = k - 1
<1> DEFINE z == (m * k - 1) \div m
<1>1. m * k - 1 \in Nat
  <2>1. m * 1 <= m * k
    BY TimesAtMost
  <2> QED
    BY <2>1
<1>2. z \in Nat /\ m * z <= m * k - 1 /\ m * k - 1 < m * (z + 1)
  BY <1>1, Quotient
<1> HIDE DEF z
<1>3. m * z < m * k /\ m * k < m * (z + 2)
  <2>1. m * (z + 2) = m * (z + 1) + m /\ m * (z + 1) \in Int /\ m * k \in Int /\ m * z \in Int
    BY <1>2
  <2> QED
    BY <1>2, <2>1
<1>4. z < k /\ k < z + 2
  BY <1>2, <1>3, LessOf
<1> QED
  BY <1>2, <1>4 DEF z

LEMMA SlotIs ==
  ASSUME NEW t \in Nat
  PROVE  /\ Slot(t) \in Nat
         /\ DC * Slot(t) <= t /\ t < DC * (Slot(t) + 1)
  BY Quotient, SolverAssumption DEF Slot

LEMMA SlotInOrder ==
  ASSUME NEW t \in Nat, NEW u \in Nat, t <= u
  PROVE  Slot(t) <= Slot(u)
<1>1. /\ DC \in Nat \ {0} /\ Slot(t) \in Nat /\ Slot(u) \in Nat
      /\ DC * Slot(t) <= t /\ u < DC * (Slot(u) + 1)
  BY SolverAssumption, SlotIs
<1>2. DC * Slot(t) < DC * (Slot(u) + 1)
  BY <1>1
<1>3. Slot(t) < Slot(u) + 1
  BY <1>1, <1>2, LessOf
<1> QED
  BY <1>1, <1>3

\* The tick before is in the same period, unless the period begins with the time.
LEMMA SlotBefore ==
  ASSUME NEW t \in Nat \ {0}
  PROVE  /\ Slot(t - 1) \in {Slot(t), Slot(t) - 1}
         /\ Slot(t - 1) = Slot(t) - 1 => t = DC * Slot(t)
<1> DEFINE k == Slot(t)  j == Slot(t - 1)
<1>1. /\ DC \in Nat \ {0} /\ t - 1 \in Nat /\ k \in Nat /\ j \in Nat
      /\ DC * k <= t /\ t < DC * (k + 1) /\ DC * j <= t - 1 /\ t - 1 < DC * (j + 1) /\ j <= k
  BY SolverAssumption, SlotIs, SlotInOrder
<1> HIDE DEF k, j
<1>2. /\ DC * k \in Int /\ DC * j \in Int
      /\ DC * (j + 1) = DC * j + DC /\ DC * (j + 2) = DC * j + 2 * DC
  BY <1>1
<1>3. k < j + 2
  <2>1. DC * k < DC * (j + 2)
    BY <1>1, <1>2
  <2> QED
    BY <1>1, <2>1, LessOf
<1>4. j = k - 1 => t = DC * k
  <2> SUFFICES ASSUME j = k - 1 PROVE t = DC * k
    OBVIOUS
  <2>1. DC * (j + 1) = DC * k
    BY <1>1
  <2> QED
    BY <1>1, <1>2, <2>1
<1>5. j \in {k, k - 1}
  BY <1>1, <1>3
<1> QED
  BY <1>4, <1>5 DEF k, j

\* A time and the time rounded are no more than a period apart.
LEMMA RoundedSlotIs ==
  ASSUME SeamAssumption, NEW t \in Nat
  PROVE  /\ RoundedSlot(t) \in Nat
         /\ Joining!Round(t) = DC * RoundedSlot(t)
         /\ DC * RoundedSlot(t) <= t + DC /\ t < DC * (RoundedSlot(t) + 1)
         /\ Rounding = DC => /\ 2 * (DC * RoundedSlot(t)) <= 2 * t + DC
                             /\ 2 * t < 2 * (DC * RoundedSlot(t)) + DC
         /\ Rounding = 2 * DC => \E m \in Nat : RoundedSlot(t) = 2 * m
<1> DEFINE m == (2 * t + Rounding) \div (2 * Rounding)
<1>1. DC \in Nat \ {0} /\ Rounding \in Nat \ {0} /\ (Rounding = DC \/ Rounding = 2 * DC)
  BY SolverAssumption, ReplanningAssumption DEF SeamAssumption
<1>2. 2 * t + Rounding \in Nat /\ 2 * Rounding \in Nat \ {0}
  BY <1>1
<1>3. m \in Nat /\ (2 * Rounding) * m <= 2 * t + Rounding /\ 2 * t + Rounding < (2 * Rounding) * (m + 1)
  BY <1>2, Quotient
<1>4. Joining!Round(t) = Rounding * m
  BY DEF Joining!Round
<1> HIDE DEF m
<1>5. CASE Rounding = DC
  <2>1. RoundedSlot(t) = m /\ Joining!Round(t) = DC * m
    BY <1>1, <1>3, <1>4, <1>5, QuotientIs DEF RoundedSlot
  <2>2. 2 * (DC * m) <= 2 * t + DC /\ 2 * t + DC < 2 * (DC * m) + 2 * DC
    BY <1>1, <1>3, <1>5
  <2>3. DC * m \in Int /\ DC * (m + 1) = DC * m + DC
    BY <1>1, <1>3
  <2>4. DC * m <= t + DC /\ t < DC * m + DC /\ 2 * t < 2 * (DC * m) + DC
    BY <1>1, <2>2, <2>3
  <2>5. Rounding # 2 * DC
    BY <1>1, <1>5
  <2> QED
    BY <1>3, <2>1, <2>2, <2>3, <2>4, <2>5
<1>6. CASE Rounding = 2 * DC
  <2>1. 2 * m \in Nat /\ Joining!Round(t) = DC * (2 * m)
    BY <1>1, <1>3, <1>4, <1>6
  <2>2. RoundedSlot(t) = 2 * m
    BY <1>1, <2>1, QuotientIs DEF RoundedSlot
  <2>3. 2 * (DC * (2 * m)) <= 2 * t + 2 * DC /\ 2 * t + 2 * DC < 2 * (DC * (2 * m)) + 4 * DC
    BY <1>1, <1>3, <1>6
  <2>4. DC * (2 * m) \in Int /\ DC * (2 * m + 1) = DC * (2 * m) + DC
    BY <1>1, <1>3
  <2>5. DC * (2 * m) <= t + DC /\ t < DC * (2 * m) + DC
    BY <1>1, <2>3, <2>4
  <2>6. Rounding # DC
    BY <1>1, <1>6
  <2> QED
    BY <1>3, <2>1, <2>2, <2>4, <2>5, <2>6
<1> QED
  BY <1>1, <1>5, <1>6

\* A time is rounded to its own period or to the one after.
LEMMA RoundedUpByOne ==
  ASSUME SeamAssumption, NEW t \in Nat
  PROVE  RoundedSlot(t) \in {Slot(t), Slot(t) + 1}
<1>1. DC \in Nat \ {0} /\ Slot(t) \in Nat /\ RoundedSlot(t) \in Nat
  BY SolverAssumption, SlotIs, RoundedSlotIs
<1> DEFINE k == Slot(t)
           r == RoundedSlot(t)
<1>2. /\ DC * k <= t /\ t < DC * (k + 1)
      /\ DC * r <= t + DC /\ t < DC * (r + 1)
  BY SlotIs, RoundedSlotIs
<1> HIDE DEF k, r
<1>3. k \in Nat /\ r \in Nat
  BY <1>1 DEF k, r
<1>4. DC * k < DC * (r + 1) /\ DC * r < DC * (k + 2)
  <2>1. /\ DC * k \in Int /\ DC * r \in Int
        /\ DC * (k + 1) = DC * k + DC /\ DC * (k + 2) = DC * k + 2 * DC
        /\ DC * (r + 1) = DC * r + DC
    BY <1>1, <1>3
  <2> QED
    BY <1>1, <1>2, <2>1
<1>5. k < r + 1 /\ r < k + 2
  BY <1>1, <1>3, <1>4, LessOf
<1> QED
  BY <1>3, <1>5 DEF k, r

\* A later time is rounded to the same period or to a later one.
LEMMA RoundedInOrder ==
  ASSUME SeamAssumption, NEW t \in Nat, NEW u \in Nat, t <= u
  PROVE  RoundedSlot(t) <= RoundedSlot(u)
<1> DEFINE k(x) == (2 * x + Rounding) \div (2 * Rounding)
<1>1. DC \in Nat \ {0} /\ Rounding \in Nat \ {0} /\ (Rounding = DC \/ Rounding = 2 * DC)
  BY SolverAssumption, ReplanningAssumption DEF SeamAssumption
<1>2. \A x \in Nat : /\ k(x) \in Nat /\ (2 * Rounding) * k(x) <= 2 * x + Rounding
                     /\ 2 * x + Rounding < (2 * Rounding) * (k(x) + 1)
  <2> SUFFICES ASSUME NEW x \in Nat
               PROVE  /\ k(x) \in Nat /\ (2 * Rounding) * k(x) <= 2 * x + Rounding
                      /\ 2 * x + Rounding < (2 * Rounding) * (k(x) + 1)
    OBVIOUS
  <2>1. 2 * x + Rounding \in Nat /\ 2 * Rounding \in Nat \ {0}
    BY <1>1
  <2> QED
    BY <2>1, Quotient
<1>3. DC * RoundedSlot(t) = Rounding * k(t) /\ DC * RoundedSlot(u) = Rounding * k(u)
  BY RoundedSlotIs DEF Joining!Round
<1> HIDE DEF k
<1>4. k(t) <= k(u)
  <2>1. (2 * Rounding) * k(t) < (2 * Rounding) * (k(u) + 1)
    BY <1>1, <1>2
  <2>2. k(t) < k(u) + 1
    <3>1. 2 * Rounding \in Nat \ {0} /\ k(t) \in Int /\ k(u) + 1 \in Int
      BY <1>1, <1>2
    <3> QED
      BY <2>1, <3>1, LessOf, Zenon
  <2> QED
    BY <1>2, <2>2
<1>5. Rounding * k(t) <= Rounding * k(u)
  <2>1. Rounding \in Nat /\ k(t) \in Int /\ k(u) \in Int
    BY <1>1, <1>2
  <2> QED
    BY <1>4, <2>1, TimesAtMost, Zenon
<1>6. RoundedSlot(t) \in Nat /\ RoundedSlot(u) \in Nat
  BY RoundedSlotIs
<1>7. DC * RoundedSlot(t) < DC * (RoundedSlot(u) + 1)
  BY <1>1, <1>3, <1>5, <1>6
<1>8. RoundedSlot(t) < RoundedSlot(u) + 1
  BY <1>1, <1>6, <1>7, LessOf
<1> QED
  BY <1>6, <1>8

\* A rounded time that is cut is in its period or, where the quotient falls short, in the one
\* before.
LEMMA CutSlotIs ==
  ASSUME SeamAssumption, NEW t \in Nat
  PROVE  /\ CutSlot(t) \in Nat
         /\ CutSlot(t) \in {RoundedSlot(t), RoundedSlot(t) - 1}
         /\ Joining!Round(t) \notin Short => CutSlot(t) = RoundedSlot(t)
<1>1. /\ DC \in Nat \ {0} /\ RoundedSlot(t) \in Nat
      /\ Joining!Round(t) = DC * RoundedSlot(t)
  BY SolverAssumption, RoundedSlotIs
<1>2. CASE Joining!Round(t) \in Short
  <2>1. Joining!Round(t) # 0
    BY <1>2, ReplanningAssumption
  <2>2. RoundedSlot(t) \in Nat \ {0}
    BY <1>1, <2>1
  <2>3. CutSlot(t) = RoundedSlot(t) - 1
    BY <1>1, <1>2, <2>2, QuotientShort DEF CutSlot
  <2> QED
    BY <1>2, <2>2, <2>3
<1>3. CASE Joining!Round(t) \notin Short
  <2>1. CutSlot(t) = RoundedSlot(t)
    BY <1>3 DEF CutSlot, RoundedSlot
  <2> QED
    BY <1>1, <1>3, <2>1
<1> QED
  BY <1>2, <1>3

\* A later time is cut in the same period or in a later one.
LEMMA CutInOrder ==
  ASSUME SeamAssumption, NEW t \in Nat, NEW u \in Nat, t <= u
  PROVE  CutSlot(t) <= CutSlot(u)
<1>1. /\ RoundedSlot(t) <= RoundedSlot(u)
      /\ RoundedSlot(t) \in Nat /\ RoundedSlot(u) \in Nat
      /\ CutSlot(t) \in {RoundedSlot(t), RoundedSlot(t) - 1} /\ CutSlot(t) \in Nat
      /\ CutSlot(u) \in {RoundedSlot(u), RoundedSlot(u) - 1} /\ CutSlot(u) \in Nat
  BY RoundedInOrder, RoundedSlotIs, CutSlotIs
<1>2. CASE RoundedSlot(t) = RoundedSlot(u)
  <2>1. Joining!Round(t) = Joining!Round(u)
    BY <1>2, RoundedSlotIs
  <2> QED
    BY <1>1, <2>1 DEF CutSlot
<1>3. CASE RoundedSlot(t) < RoundedSlot(u)
  BY <1>1, <1>3
<1> QED
  BY <1>1, <1>2, <1>3

\* How far a time s leads, looking ahead: rounded together, no further than each rounded on
\* its own; and as it is, less far where nothing but the periods' own rounding is at work, or
\* where the lookahead does not reach into its last period.
LEMMA LooksAhead ==
  ASSUME SeamAssumption, NEW s \in Nat
  PROVE  /\ RoundedSlot(s + Lookahead) <= RoundedSlot(s) + Lead
         /\ Slot(s + Lookahead) <= RoundedSlot(s) + Lead
         /\ Slot(s + Lookahead) = RoundedSlot(s) + Lead => FarRounded
<1> DEFINE l == Lookahead
           x == s + l
           rs == RoundedSlot(s)
           rx == RoundedSlot(x)
           k == Slot(x)
           h == Lead
<1>1. /\ DC \in Nat \ {0} /\ l \in Nat /\ x \in Nat /\ x = s + l
      /\ rs \in Nat /\ rx \in Nat /\ h \in Nat /\ k \in Nat
  BY SolverAssumption, ReplanningAssumption, RoundedSlotIs, SlotIs DEF Lead
<1>2. DC * k <= x /\ Joining!Round(l) = DC * h
  BY <1>1, SlotIs, RoundedSlotIs DEF Lead
<1>3. DC * k \in Int /\ DC * rs \in Int /\ DC * rx \in Int /\ DC * h \in Int
  BY <1>1
<1>4. /\ DC * (rs + h) = DC * rs + DC * h
      /\ DC * (rs + h + 1) = DC * rs + DC * h + DC
      /\ DC * (rs + h + 2) = DC * rs + DC * h + 2 * DC
      /\ DC * (h - 1) = DC * h - DC
  BY <1>1
<1>5. CASE Rounding = DC
  <2>1. /\ 2 * s < 2 * (DC * rs) + DC /\ 2 * (DC * rx) <= 2 * x + DC
        /\ 2 * l = 2 * (DC * h) - DC
    <3>1. Rounding # 2 * DC
      BY <1>1, <1>5
    <3>2. 2 * (DC * h - l) = DC
      BY <1>2, <3>1 DEF SeamAssumption
    <3>3. 2 * s < 2 * (DC * rs) + DC /\ 2 * (DC * rx) <= 2 * x + DC
      BY <1>1, <1>5, RoundedSlotIs
    <3> QED
      BY <1>1, <1>3, <3>2, <3>3
  <2> HIDE DEF l, x, rs, rx, k, h
  <2>2. DC * rx < DC * (rs + h + 1) /\ DC * k < DC * (rs + h)
    BY <1>1, <1>2, <1>3, <1>4, <2>1
  <2>3. rx < rs + h + 1 /\ k < rs + h
    BY <1>1, <2>2, LessOf
  <2>4. rx <= rs + h /\ k <= rs + h /\ k # rs + h
    BY <1>1, <2>3
  <2> QED
    BY <2>4 DEF l, x, rs, rx, k, h
<1>6. CASE Rounding = 2 * DC
  <2>1. s < DC * rs + DC /\ DC * rx <= x + DC /\ l <= DC * h
    <3>1. Rounding # DC
      BY <1>1, <1>6
    <3>2. l <= DC * h
      BY <1>2, <3>1 DEF SeamAssumption
    <3>3. s < DC * (rs + 1) /\ DC * rx <= x + DC
      BY <1>1, RoundedSlotIs
    <3>4. DC * (rs + 1) = DC * rs + DC
      BY <1>1
    <3> QED
      BY <3>2, <3>3, <3>4
  <2>2. /\ \E m \in Nat : rs = 2 * m
        /\ \E m \in Nat : rx = 2 * m
        /\ \E m \in Nat : h = 2 * m
    BY <1>1, <1>6, RoundedSlotIs, Zenon DEF Lead
  <2> HIDE DEF l, x, rs, rx, k, h
  <2>3. DC * rx < DC * (rs + h + 2) /\ DC * k < DC * (rs + h + 1)
    BY <1>1, <1>2, <1>3, <1>4, <2>1
  <2>4. rx < rs + h + 2 /\ k < rs + h + 1
    BY <1>1, <2>3, LessOf
  <2>5. rx <= rs + h
    BY <2>2, <2>4
  <2>6. k = rs + h => l > DC * (h - 1)
    <3> SUFFICES ASSUME k = rs + h PROVE l > DC * (h - 1)
      OBVIOUS
    <3>1. DC * k = DC * rs + DC * h
      BY <1>4
    <3> QED
      BY <1>1, <1>2, <1>3, <1>4, <2>1, <3>1
  <2> QED
    BY <1>1, <1>6, <2>4, <2>5, <2>6 DEF l, x, rs, rx, k, h, FarRounded, Far
<1> QED
  BY <1>5, <1>6 DEF SeamAssumption

-----------------------------------------------------------------------------
(* Where a seam may be that repeats or loses samples: before the period the lookahead is *)
(* rounded to, or little after it, and never at the end, so that the next plan cuts it.  *)

Least(x, y) == IF x <= y THEN x ELSE y

\* Of the samples, counted from 0 and never ending, f is the one a plan starts from, c the one
\* where the old ones are cut, and n the present's.
CutFacts(f, c, n) ==
  /\ c >= Lead /\ f - c \in -2 .. 1 /\ c - n <= Lead + 1
  /\ f = c + 1 => /\ c - n <= Lead
                  /\ c - n = Lead => FarRounded
                  /\ c = Lead => ~FarRounded
  /\ f = c /\ c - n = Lead + 1 => FarRounded
  /\ f = c - 2 => c >= Lead + 2 \/ ~FarRounded

\* The same as indices of len samples: I, T, and the first that is kept.
Cut(len, f, c, n, I, T, from) ==
  /\ CutFacts(f, c, n)
  /\ I = Least(f + 1, len) /\ T = Least(c + 1, len) /\ from = Least(n + 1, len) + 1

\* By how many periods, d, the phase may grow at the sample i of len.
StepIs(i, d, len) ==
  /\ d \in -1 .. 3
  /\ d # 1 => i < len /\ i <= Lead + 1
  /\ d = 3 => i <= Lead /\ (i = Lead => FarRounded)
  /\ d = 2 /\ i = Lead + 1 => FarRounded
  /\ d = -1 => i <= Lead

\* And at two samples one after the other, the first one i.
PairIs(i, d, e) ==
  /\ d + e \in -1 .. 5
  /\ i = Lead /\ e # 1 => d \in 0 .. 2

\* The phases along a trajectory, in periods.
Grows(q, len) ==
  /\ q \in [1 .. len -> Int]
  /\ \A i \in 2 .. len : StepIs(i, q[i] - q[i - 1], len)
  /\ \A i \in 2 .. len - 1 : PairIs(i, q[i] - q[i - 1], q[i + 1] - q[i])

LEMMA LeadIs == SeamAssumption => Lead \in Nat
  BY ReplanningAssumption, RoundedSlotIs DEF Lead

\* Where a plan starts from in time, where the old samples are cut, and the present.
LEMMA CutsAt ==
  ASSUME SeamAssumption, NEW s \in Nat, NEW t \in Nat, s <= t,
         NEW w \in Nat, w = s + Lookahead \/ w = (s + Lookahead) - 1
  PROVE  /\ CutFacts(Slot(w), CutSlot(s + Lookahead), CutSlot(t))
         /\ Slot(w) \in {Slot(s + Lookahead), Slot(s + Lookahead) - 1}
         /\ Slot(w) = Slot(s + Lookahead) - 1 => s + Lookahead = DC * Slot(s + Lookahead)
<1> DEFINE x == s + Lookahead
           f == Slot(w)  k == Slot(x)
           c == CutSlot(x)  u == RoundedSlot(x)
           n == CutSlot(t)  v == RoundedSlot(t)
           z == RoundedSlot(s)
           h == Lead
<1>1. /\ DC \in Nat \ {0} /\ Rounding \in Nat /\ Lookahead \in Nat
      /\ x \in Nat /\ Lookahead <= x /\ x = s + Lookahead
  BY SolverAssumption, ReplanningAssumption
<1>2. /\ f \in Nat /\ k \in Nat /\ u \in Nat /\ v \in Nat /\ z \in Nat /\ c \in Nat /\ n \in Nat
      /\ h \in Nat
  BY <1>1, SlotIs, RoundedSlotIs, CutSlotIs, LeadIs
<1>3. f \in {k, k - 1} /\ (f = k - 1 => x = DC * k)
  <2>1. CASE w = x
    BY <1>2, <2>1
  <2>2. CASE w = x - 1
    <3>1. x \in Nat \ {0}
      BY <1>1, <2>2
    <3> QED
      BY <2>2, <3>1, SlotBefore
  <2>3. w = x \/ w = x - 1
    OBVIOUS
  <2> HIDE DEF f, k, x
  <2> QED
    BY <2>1, <2>2, <2>3
<1>4. u \in {k, k + 1} /\ c \in {u, u - 1} /\ n \in {v, v - 1} /\ z <= v
  BY <1>1, RoundedUpByOne, CutSlotIs, RoundedInOrder
<1>5. u <= z + h /\ k <= z + h /\ (k = z + h => FarRounded)
  BY LooksAhead
<1>6. h <= u /\ (u = h => c = u)
  <2>1. h <= u
    BY <1>1, RoundedInOrder DEF Lead
  <2>2. u = h => Joining!Round(x) = Joining!Round(Lookahead)
    BY <1>1, RoundedSlotIs DEF Lead
  <2>3. Joining!Round(x) = Joining!Round(Lookahead) => c = u
    BY <1>1, CutSlotIs DEF SeamAssumption
  <2> QED
    BY <2>1, <2>2, <2>3
\* Before the sample a plan starts from, a sample is cut only where periods are halves.
<1>7. f = c + 1 /\ c = h => ~FarRounded
  <2> SUFFICES ASSUME f = c + 1, c = h, Rounding = 2 * DC PROVE FALSE
    BY DEF FarRounded
  <2>1. PICK a \in Nat, b \in Nat : u = 2 * a /\ h = 2 * b
    <3>1. /\ \E m \in Nat : u = 2 * m
          /\ \E m \in Nat : h = 2 * m
      BY <1>1, RoundedSlotIs, Zenon DEF Lead
    <3> QED
      BY <3>1
  <2>2. u = h + 1
    BY <1>2, <1>3, <1>4
  <2> QED
    BY <2>1, <2>2
<1>8. f = c - 2 => c >= h + 2 \/ ~FarRounded
  <2> SUFFICES ASSUME f = c - 2, Rounding = 2 * DC, Far PROVE c >= h + 2
    BY DEF FarRounded
  <2>1. u = c /\ k = u - 1 /\ x = DC * k
    BY <1>2, <1>3, <1>4
  <2>2. PICK a \in Nat, b \in Nat : u = 2 * a /\ h = 2 * b
    <3>1. /\ \E m \in Nat : u = 2 * m
          /\ \E m \in Nat : h = 2 * m
      BY <1>1, RoundedSlotIs, Zenon DEF Lead
    <3> QED
      BY <3>1
  <2>3. DC * (h - 1) < DC * k
    BY <1>1, <1>2, <2>1 DEF Far
  <2>4. h - 1 < k
    BY <1>1, <1>2, <2>3, LessOf
  <2>5. 2 * b < 2 * a
    BY <1>2, <2>1, <2>2, <2>4
  <2> QED
    BY <2>1, <2>2, <2>5
<1> HIDE DEF f, k, c, u, n, v, z, h, x
<1>9. /\ c >= h /\ f - c \in -2 .. 1 /\ c - n <= h + 1
      /\ f = c + 1 => c - n <= h /\ (c - n = h => FarRounded)
      /\ f = c /\ c - n = h + 1 => FarRounded
  BY <1>2, <1>3, <1>4, <1>5, <1>6
<1> QED
  BY <1>3, <1>7, <1>8, <1>9 DEF CutFacts, x, f, k, c, n, h

\* Two neighbours.
LEMMA StepAt ==
  ASSUME NEW len \in Nat, NEW q, Grows(q, len), NEW i \in 2 .. len
  PROVE  q[i] \in Int /\ q[i - 1] \in Int /\ StepIs(i, q[i] - q[i - 1], len)
<1>1. i \in 1 .. len /\ i - 1 \in 1 .. len
  OBVIOUS
<1> QED
  BY <1>1 DEF Grows

\* Three of them.
LEMMA PairAt ==
  ASSUME NEW len \in Nat, NEW q, Grows(q, len), NEW i \in 2 .. len, i < len
  PROVE  PairIs(i, q[i] - q[i - 1], q[i + 1] - q[i])
<1>1. i \in 2 .. len - 1
  OBVIOUS
<1> QED
  BY <1>1 DEF Grows

\* The samples about the place T where the old ones are cut.
LEMMA AboutTheCut ==
  ASSUME SeamAssumption, NEW len \in Nat, NEW q, Grows(q, len),
         NEW T \in 1 .. len, T = len \/ T > Lead
  PROVE  /\ q[T] \in Int
         /\ T >= 2 => /\ q[T - 1] \in Int
                      /\ q[T] - q[T - 1] \in 0 .. 2
                      /\ q[T] - q[T - 1] # 1 => T < len /\ T = Lead + 1
                      /\ q[T] - q[T - 1] = 2 => FarRounded
         /\ T >= 3 => /\ q[T - 2] \in Int
                      /\ StepIs(T - 1, q[T - 1] - q[T - 2], len)
                      /\ PairIs(T - 1, q[T - 1] - q[T - 2], q[T] - q[T - 1])
         /\ T + 1 <= len => q[T + 1] = q[T] + 1
         /\ T + 2 <= len => q[T + 2] = q[T] + 2
<1>1. Lead \in Nat
  BY LeadIs
<1>2. q[T] \in Int
  BY DEF Grows
<1>3. ASSUME T >= 2
      PROVE  /\ q[T - 1] \in Int
             /\ q[T] - q[T - 1] \in 0 .. 2
             /\ q[T] - q[T - 1] # 1 => T < len /\ T = Lead + 1
             /\ q[T] - q[T - 1] = 2 => FarRounded
  <2>1. T \in 2 .. len
    BY <1>3
  <2>2. q[T - 1] \in Int /\ StepIs(T, q[T] - q[T - 1], len)
    BY <2>1, StepAt
  <2> DEFINE d == q[T] - q[T - 1]
  <2>3. d \in Int /\ StepIs(T, d, len)
    BY <1>2, <2>2
  <2> HIDE DEF d
  <2>4. d \in 0 .. 2 /\ (d # 1 => T < len /\ T = Lead + 1) /\ (d = 2 => FarRounded)
    BY <1>1, <2>3 DEF StepIs
  <2> QED
    BY <2>2, <2>4 DEF d
<1>4. ASSUME T >= 3
      PROVE  /\ q[T - 2] \in Int
             /\ StepIs(T - 1, q[T - 1] - q[T - 2], len)
             /\ PairIs(T - 1, q[T - 1] - q[T - 2], q[T] - q[T - 1])
  <2>1. T - 1 \in 2 .. len /\ T - 1 < len /\ (T - 1) - 1 = T - 2 /\ (T - 1) + 1 = T
    BY <1>4
  <2>2. q[(T - 1) - 1] \in Int /\ StepIs(T - 1, q[T - 1] - q[(T - 1) - 1], len)
    BY <2>1, StepAt
  <2>3. PairIs(T - 1, q[T - 1] - q[(T - 1) - 1], q[(T - 1) + 1] - q[T - 1])
    BY <2>1, PairAt
  <2> QED
    BY <2>1, <2>2, <2>3
<1>5. ASSUME NEW i \in 1 .. len, i >= T, i + 1 <= len
      PROVE  q[i + 1] = q[i] + 1
  <2>1. i + 1 \in 2 .. len /\ (i + 1) - 1 = i /\ i + 1 > Lead + 1
    BY <1>1, <1>5
  <2>2. q[i + 1] \in Int /\ q[i] \in Int /\ StepIs(i + 1, q[i + 1] - q[i], len)
    BY <2>1, StepAt
  <2> DEFINE a == q[i + 1]  b == q[i]
  <2>3. a \in Int /\ b \in Int /\ StepIs(i + 1, a - b, len)
    BY <2>2
  <2> HIDE DEF a, b
  <2>4. a - b = 1
    BY <1>1, <2>1, <2>3 DEF StepIs
  <2>5. a = b + 1
    BY <2>3, <2>4
  <2> QED
    BY <2>5 DEF a, b
<1>6. T + 1 <= len => q[T + 1] = q[T] + 1
  BY <1>5
<1>7. T + 2 <= len => q[T + 2] = q[T] + 2
  <2> SUFFICES ASSUME T + 2 <= len PROVE q[T + 2] = q[T] + 2
    OBVIOUS
  <2>1. T + 1 \in 1 .. len /\ T + 1 >= T /\ (T + 1) + 1 = T + 2 /\ (T + 1) + 1 <= len /\ T + 1 <= len
    OBVIOUS
  <2>2. q[T + 2] = q[T + 1] + 1
    BY <1>5, <2>1
  <2> QED
    BY <1>2, <1>6, <2>1, <2>2
<1> QED
  BY <1>2, <1>3, <1>4, <1>6, <1>7

\* Indices of a Cut.
LEMMA CutIs ==
  ASSUME SeamAssumption, NEW len \in Nat, len >= 2,
         NEW f \in Nat, NEW c \in Nat, NEW n \in Nat, NEW I, NEW T, NEW from,
         Cut(len, f, c, n, I, T, from)
  PROVE  /\ I \in 1 .. len /\ T \in 1 .. len /\ from \in 2 .. len + 1
         /\ T = len \/ T > Lead
         /\ I - T \in -2 .. 1
         /\ I = T + 1 => f = c + 1 /\ T = c + 1
         /\ I = T - 2 => f = c - 2 /\ T = c + 1
  BY LeadIs DEF Cut, CutFacts, Least

\* The seam a plan makes is no further than the next one cuts, the less so the more it loses.
LEMMA SeamIs ==
  ASSUME SeamAssumption, NEW len \in Nat, len >= 2, NEW q, Grows(q, len),
         NEW f \in Nat, NEW c \in Nat, NEW n \in Nat, NEW I, NEW T, NEW from,
         Cut(len, f, c, n, I, T, from), T > from, NEW m \in Nat, m >= 2
  PROVE  LET k == T - from
             j == (q[I] + 1) - q[T - 1]
         IN  /\ k \in Nat \ {0} /\ q[I] \in Int /\ q[T - 1] \in Int
             /\ StepIs(k + 1, j, k + m)
             /\ k >= 2 => PairIs(k, q[T - 1] - q[T - 2], j)
<1> DEFINE k == T - from
           a == q[T - 2]
           b == q[T - 1]
           e == q[T]
           g == q[I]
           j == (q[I] + 1) - q[T - 1]
           h == Lead
<1>1. /\ I \in 1 .. len /\ T \in 1 .. len /\ from \in 2 .. len + 1
      /\ T = len \/ T > h
      /\ I - T \in -2 .. 1
      /\ I = T + 1 => f = c + 1 /\ T = c + 1
      /\ I = T - 2 => f = c - 2 /\ T = c + 1
      /\ h \in Nat
  BY CutIs, LeadIs
<1>2. /\ T >= 3 /\ k \in Nat \ {0} /\ k + 1 <= c - n /\ from = n + 2
      /\ c - n <= h + 1 /\ c >= h
      /\ T = c + 1 \/ (k + 1 < c - n /\ T = len)
  BY <1>1 DEF Cut, CutFacts, Least
<1>3. /\ e \in Int /\ b \in Int /\ a \in Int
      /\ e - b \in 0 .. 2 /\ (e - b # 1 => T < len /\ T = h + 1) /\ (e - b = 2 => FarRounded)
      /\ StepIs(T - 1, b - a, len)
      /\ PairIs(T - 1, b - a, e - b)
  BY <1>1, <1>2, AboutTheCut
<1>4. /\ I = T + 1 => g = e + 1
      /\ I = T => g = e
      /\ I = T - 1 => g = b
      /\ I = T - 2 => g = a
  <2>1. T + 1 <= len => q[T + 1] = e + 1
    BY <1>1, AboutTheCut
  <2>2. I = T + 1 => T + 1 <= len /\ g = q[T + 1]
    BY <1>1
  <2> QED
    BY <2>1, <2>2
<1>5. j = (g + 1) - b
  OBVIOUS
\* How far the seam can be.
<1>6. /\ I = T + 1 => k + 1 <= h /\ (k + 1 = h => FarRounded) /\ (T = h + 1 => ~FarRounded)
      /\ I = T /\ T = h + 1 /\ T < len => k + 1 <= h
      /\ I = T /\ k + 1 = h + 1 => FarRounded
      /\ I = T - 2 => T >= h + 3 \/ ~FarRounded
      /\ k <= h
  BY <1>1, <1>2 DEF Cut, CutFacts, Least
<1> HIDE DEF k, a, b, e, g, j, h
<1>7. PICK d \in Int, y \in Int : d = b - a /\ y = e - b
  BY <1>3
<1>8. /\ d \in -1 .. 3
      /\ d # 1 => T - 1 <= h + 1
      /\ d = 3 => T - 1 <= h /\ (T - 1 = h => FarRounded)
      /\ d = 2 /\ T - 1 = h + 1 => FarRounded
      /\ d = -1 => T - 1 <= h
      /\ d + y \in -1 .. 5
      /\ T - 1 = h /\ y # 1 => d \in 0 .. 2
  BY <1>3, <1>7 DEF StepIs, PairIs, h
<1>9. y \in 0 .. 2 /\ (y # 1 => T < len /\ T = h + 1) /\ (y = 2 => FarRounded)
  BY <1>3, <1>7
<1>10. j \in Int /\ StepIs(k + 1, j, k + m) /\ PairIs(k, d, j)
  <2>1. CASE I = T + 1
    <3>1. j = y + 2
      BY <1>3, <1>4, <1>5, <1>7, <2>1
    <3> QED
      BY <1>1, <1>2, <1>6, <1>8, <1>9, <2>1, <3>1 DEF StepIs, PairIs, h
  <2>2. CASE I = T
    <3>1. j = y + 1
      BY <1>3, <1>4, <1>5, <1>7, <2>2
    <3> QED
      BY <1>1, <1>2, <1>6, <1>8, <1>9, <2>2, <3>1 DEF StepIs, PairIs, h
  <2>3. CASE I = T - 1
    <3>1. j = 1
      BY <1>3, <1>4, <1>5, <2>3
    <3> QED
      BY <1>1, <1>2, <1>6, <1>8, <3>1 DEF StepIs, PairIs, h
  <2>4. CASE I = T - 2
    <3>1. j = 1 - d
      BY <1>3, <1>4, <1>5, <1>7, <2>4
    <3> QED
      BY <1>1, <1>2, <1>6, <1>8, <1>9, <2>4, <3>1 DEF StepIs, PairIs, h
  <2> QED
    BY <1>1, <2>1, <2>2, <2>3, <2>4
<1>11. g \in Int
  BY <1>3, <1>5, <1>10, <1>1, <1>4
<1> QED
  BY <1>2, <1>3, <1>7, <1>10, <1>11 DEF k, a, b, g, j

LEMMA StepEarlier ==
  ASSUME SeamAssumption, NEW o \in Nat, NEW i \in Nat, i < o, NEW len \in Nat, NEW size \in Nat,
         i < size, NEW d \in Int, StepIs(o, d, len)
  PROVE  StepIs(i, d, size)
  BY LeadIs DEF StepIs

LEMMA PairEarlier ==
  ASSUME SeamAssumption, NEW o \in Nat, NEW i \in Nat, i < o, NEW len \in Nat,
         NEW d \in Int, NEW e \in Int, PairIs(o, d, e), StepIs(o + 1, e, len)
  PROVE  PairIs(i, d, e)
  BY LeadIs DEF StepIs, PairIs

\* How many old samples are kept, and the phases p that are joined: theirs and a plan's m.
SizeOf(T, from) == IF T > from THEN T - from ELSE 0

JoinsTo(p, q, I, from, k, m) ==
  /\ p \in [1 .. k + m -> Int]
  /\ \A i \in 1 .. k : p[i] = q[from + i - 1]
  /\ \A j \in 1 .. m : p[k + j] = q[I] + j

\* Old samples kept, from the one first kept to the cut, and a plan's after them: what is
\* joined grows like what was sent.
LEMMA JoinedGrows ==
  ASSUME SeamAssumption, NEW len \in Nat, len >= 2, NEW q, Grows(q, len),
         NEW f \in Nat, NEW c \in Nat, NEW n \in Nat, NEW I, NEW T, NEW from,
         Cut(len, f, c, n, I, T, from), NEW m \in Nat, m >= 2,
         NEW p, JoinsTo(p, q, I, from, SizeOf(T, from), m)
  PROVE  Grows(p, SizeOf(T, from) + m)
<1> DEFINE k == SizeOf(T, from)
<1>0. /\ k = IF T > from THEN T - from ELSE 0
      /\ p \in [1 .. k + m -> Int]
      /\ \A i \in 1 .. k : p[i] = q[from + i - 1]
      /\ \A j \in 1 .. m : p[k + j] = q[I] + j
  BY Zenon DEF JoinsTo, SizeOf
<1> HIDE DEF k
<1>1. /\ I \in 1 .. len /\ T \in 1 .. len /\ from \in 2 .. len + 1 /\ k \in Nat
      /\ Lead \in Nat /\ q[I] \in Int
  <2>1. I \in 1 .. len /\ T \in 1 .. len /\ from \in 2 .. len + 1
    BY CutIs
  <2>2. k \in Nat
    BY <1>0, <2>1
  <2> QED
    BY <2>1, <2>2, LeadIs DEF Grows
\* The steps among the samples kept, at the seam, and in the plan.
<1>2. ASSUME NEW i \in 2 .. k
      PROVE  /\ from + i - 1 \in 3 .. T - 1 /\ i < from + i - 1 /\ T \in 1 .. len
             /\ q[from + i - 1] \in Int /\ q[(from + i - 1) - 1] \in Int
             /\ StepIs(from + i - 1, q[from + i - 1] - q[(from + i - 1) - 1], len)
             /\ p[i] = q[from + i - 1] /\ p[i - 1] = q[(from + i - 1) - 1]
  <2>1. from + i - 1 \in 3 .. T - 1 /\ i < from + i - 1 /\ from + i - 1 \in 2 .. len
    BY <1>0, <1>1
  <2>2. i \in 1 .. k /\ i - 1 \in 1 .. k /\ from + (i - 1) - 1 = (from + i - 1) - 1
    BY <1>1
  <2>3. p[i] = q[from + i - 1] /\ p[i - 1] = q[from + (i - 1) - 1]
    BY <1>0, <2>2
  <2> QED
    BY <1>1, <2>1, <2>2, <2>3, StepAt
<1>3. ASSUME k >= 1
      PROVE  /\ p[k + 1] = q[I] + 1 /\ p[k] = q[T - 1] /\ T - 1 \in 1 .. len /\ q[T - 1] \in Int
             /\ StepIs(k + 1, p[k + 1] - p[k], k + m)
             /\ k >= 2 => PairIs(k, p[k] - p[k - 1], p[k + 1] - p[k])
  <2>1. T > from /\ k = T - from
    BY <1>0, <1>1, <1>3
  <2>2. /\ q[T - 1] \in Int
        /\ StepIs(k + 1, (q[I] + 1) - q[T - 1], k + m)
        /\ k >= 2 => PairIs(k, q[T - 1] - q[T - 2], (q[I] + 1) - q[T - 1])
    BY <2>1, SeamIs
  <2>3. /\ k \in 1 .. k /\ 1 \in 1 .. m /\ from + k - 1 = T - 1 /\ T - 1 \in 1 .. len
        /\ k >= 2 => k - 1 \in 1 .. k /\ from + (k - 1) - 1 = T - 2
    BY <1>1, <2>1
  <2>4. /\ p[k] = q[T - 1] /\ p[k + 1] = q[I] + 1
        /\ k >= 2 => p[k - 1] = q[T - 2]
    BY <1>0, <2>3
  <2> QED
    BY <2>2, <2>3, <2>4
<1>4. ASSUME NEW i \in k + 2 .. k + m
      PROVE  p[i] - p[i - 1] = 1
  <2> DEFINE j == i - k
  <2>1. j \in 1 .. m /\ j - 1 \in 1 .. m /\ i = k + j /\ i - 1 = k + (j - 1) /\ j \in Int
    BY <1>1
  <2> HIDE DEF j
  <2>2. p[i] = q[I] + j /\ p[i - 1] = q[I] + (j - 1)
    BY <1>0, <2>1
  <2>3. \A a \in Int : (a + j) - (a + (j - 1)) = 1
    BY <2>1
  <2> QED
    BY <1>1, <2>2, <2>3
<1>5. ASSUME NEW i \in 2 .. k + m
      PROVE  StepIs(i, p[i] - p[i - 1], k + m)
  <2>1. CASE i <= k
    <3> DEFINE o == from + i - 1
               d == q[o] - q[o - 1]
    <3>1. o \in 3 .. T - 1 /\ i < o /\ d \in Int /\ StepIs(o, d, len) /\ p[i] - p[i - 1] = d
      BY <1>1, <1>2, <2>1
    <3>2. i \in Nat /\ o \in Nat /\ i < k + m /\ k + m \in Nat
      BY <1>1, <2>1, <3>1
    <3> HIDE DEF o, d
    <3>3. StepIs(i, d, k + m)
      BY <3>1, <3>2, StepEarlier
    <3> QED
      BY <3>1, <3>3, Zenon
  <2>2. CASE i = k + 1
    <3>1. k >= 1 /\ i - 1 = k
      BY <1>1, <2>2
    <3> QED
      BY <1>3, <2>2, <3>1
  <2>3. CASE i >= k + 2
    <3>1. p[i] - p[i - 1] = 1
      BY <1>1, <1>4, <2>3
    <3>2. StepIs(i, 1, k + m)
      BY DEF StepIs
    <3> QED
      BY <3>1, <3>2
  <2> QED
    BY <1>1, <2>1, <2>2, <2>3
<1>6. ASSUME NEW i \in 2 .. (k + m) - 1
      PROVE  PairIs(i, p[i] - p[i - 1], p[i + 1] - p[i])
  <2> DEFINE d == p[i] - p[i - 1]
             e == p[i + 1] - p[i]
  <2>1. CASE i + 1 <= k
    <3> DEFINE o == from + i - 1
    <3>1. i \in 2 .. k /\ i + 1 \in 2 .. k /\ from + (i + 1) - 1 = o + 1 /\ (o + 1) - 1 = o
          /\ (i + 1) - 1 = i
      BY <1>1, <2>1
    <3>2. /\ o \in 3 .. T - 1 /\ i < o
          /\ q[o] \in Int /\ q[o - 1] \in Int
          /\ p[i] = q[o] /\ p[i - 1] = q[o - 1]
      BY <1>2, <3>1
    <3>3. /\ q[o + 1] \in Int
          /\ StepIs(o + 1, q[o + 1] - q[o], len) /\ p[i + 1] = q[o + 1]
      <4>1. /\ q[from + (i + 1) - 1] \in Int
            /\ StepIs(from + (i + 1) - 1,
                      q[from + (i + 1) - 1] - q[(from + (i + 1) - 1) - 1], len)
            /\ p[i + 1] = q[from + (i + 1) - 1]
        BY <1>2, <3>1, Zenon
      <4> HIDE DEF o
      <4> QED
        BY <3>1, <4>1, Zenon
    <3>4. o \in 2 .. len /\ o < len /\ o \in Nat /\ i \in Nat
      BY <1>1, <3>2
    <3>5. PairIs(o, q[o] - q[o - 1], q[o + 1] - q[o])
      BY <3>4, PairAt
    <3> HIDE DEF o
    <3>6. d = q[o] - q[o - 1] /\ e = q[o + 1] - q[o] /\ d \in Int /\ e \in Int
      <4>1. d = q[o] - q[o - 1] /\ e = q[o + 1] - q[o]
        BY <3>2, <3>3, Zenon
      <4>2. \A a, b \in Int : a - b \in Int
        OBVIOUS
      <4> QED
        BY <3>2, <3>3, <4>1, <4>2, Zenon
    <3>7. PairIs(o, d, e) /\ StepIs(o + 1, e, len)
      BY <3>3, <3>5, <3>6
    <3> HIDE DEF d, e
    <3>8. PairIs(i, d, e)
      BY <3>2, <3>4, <3>6, <3>7, PairEarlier, Zenon
    <3> QED
      BY <3>8 DEF d, e
  <2>2. CASE i = k
    <3>1. k >= 1 /\ k >= 2
      BY <1>1, <2>2
    <3> QED
      BY <1>3, <2>2, <3>1
  <2>3. CASE i >= k + 1
    <3>1. e = 1
      <4>1. i + 1 \in k + 2 .. k + m /\ (i + 1) - 1 = i
        BY <1>1, <2>3
      <4> QED
        BY <1>4, <4>1, Zenon
    <3>2. StepIs(i, d, k + m)
      BY <1>1, <1>5
    <3> HIDE DEF d, e
    <3>3. PairIs(i, d, e)
      BY <3>1, <3>2 DEF StepIs, PairIs
    <3> QED
      BY <3>3 DEF d, e
  <2> QED
    BY <1>1, <2>1, <2>2, <2>3
<1>7. Grows(p, k + m)
  BY <1>0, <1>5, <1>6 DEF Grows
<1> QED
  BY <1>7 DEF k

-----------------------------------------------------------------------------
(* What is sent: a motion that grows so, in periods, and times that go on by one period. *)

SampleType == [phase : Int, time : Int]

\* The phases of the samples tr are those of q; the first one's time is e periods, late only
\* until the first trajectory is joined to, and early only where nothing was left to keep.
SentAs(tr, q, e) ==
  /\ Grows(q, Len(tr))
  /\ e \in Int /\ e <= 1 /\ (PlanTime <= Lookahead => e >= -1)
  /\ e # 0 => \A i \in 2 .. Len(tr) : q[i] = q[i - 1] + 1
  /\ \A i \in 1 .. Len(tr) :
       tr[i].phase = DC * q[i] /\ tr[i].time = ((i - 1) + e) * DC

SeamInv ==
  /\ sentTraj \in Seq(SampleType) /\ Len(sentTraj) >= 2
  /\ \E q, e : SentAs(sentTraj, q, e)
  /\ age \in Nat /\ started \in Nat
  /\ planning => started <= age /\ age <= started + PlanTime

LEMMA SamplesAre == ASSUME NEW n \in Samples PROVE n \in Nat /\ n >= 2
<1>1. PICK f \in FactorInitial .. FactorFinal, d \in DtInitials : n = XSizeOf(f, d)
  BY DEF Samples
<1>2. f \in Nat /\ d \in Nat /\ DC \in Nat \ {0} /\ N \in Nat
  BY SolverAssumption, DtInitialsAre
<1>3. N * findDT(f, d) \in Nat
  BY <1>2 DEF findDT, Larger
<1>4. (N * findDT(f, d)) \div DC \in Nat
  BY <1>2, <1>3, Quotient
<1> QED
  BY <1>1, <1>4 DEF XSizeOf, Larger

\* The samples of a plan, and of what is sent first.
LEMMA PlannedIs ==
  ASSUME NEW phase \in Int, NEW time \in Int, NEW n \in Nat
  PROVE  /\ Joining!Planned(phase, time, n) \in Seq(SampleType)
         /\ Len(Joining!Planned(phase, time, n)) = n
         /\ \A i \in 1 .. n :
              /\ Joining!Planned(phase, time, n)[i].phase = phase + i * DC
              /\ Joining!Planned(phase, time, n)[i].time = time + (i - 1) * DC
<1>1. DC \in Int
  BY SolverAssumption
<1>2. \A i \in 1 .. n : Joining!Sample(phase + i * DC, time + (i - 1) * DC) \in SampleType
  BY <1>1 DEF Joining!Sample, SampleType
<1>3. Joining!Planned(phase, time, n) \in Seq(SampleType) /\ Len(Joining!Planned(phase, time, n)) = n
  BY <1>2 DEF Joining!Planned
<1>4. \A i \in 1 .. n :
        /\ Joining!Planned(phase, time, n)[i].phase = phase + i * DC
        /\ Joining!Planned(phase, time, n)[i].time = time + (i - 1) * DC
  BY DEF Joining!Planned, Joining!Sample
<1> QED
  BY <1>3, <1>4

LEMMA PlanTimeAtLeast == PlanTime \in Nat
  BY SolverAssumption DEF PlanTime

LEMMA FirstSeams == Joining!Init => SeamInv
<1> SUFFICES ASSUME Joining!Init PROVE SeamInv
  OBVIOUS
<1>1. PICK n \in Samples : sentTraj = Joining!Planned(0, DC, n)
  BY DEF Joining!Init
<1>2. n \in Nat /\ n >= 2 /\ DC \in Nat \ {0} /\ DC \in Int /\ 0 \in Int
  BY SamplesAre, SolverAssumption
<1>3. /\ sentTraj \in Seq(SampleType) /\ Len(sentTraj) = n
      /\ \A i \in 1 .. n : sentTraj[i].phase = 0 + i * DC /\ sentTraj[i].time = DC + (i - 1) * DC
  BY <1>1, <1>2, PlannedIs, ZenonT(30)
<1> DEFINE q == [i \in 1 .. n |-> i]
<1>4. ASSUME NEW i \in 1 .. n
      PROVE  sentTraj[i].phase = DC * q[i] /\ sentTraj[i].time = ((i - 1) + 1) * DC
  <2>1. q[i] = i /\ i \in Int
    OBVIOUS
  <2> HIDE DEF q
  <2>2. 0 + i * DC = DC * i /\ DC + (i - 1) * DC = ((i - 1) + 1) * DC
    BY <1>2, <2>1
  <2> QED
    BY <1>3, <2>1, <2>2
<1>5. \A i \in 2 .. n : q[i] - q[i - 1] = 1 /\ q[i] = q[i - 1] + 1
  BY <1>2
<1>6. Grows(q, n)
  <2>1. q \in [1 .. n -> Int]
    BY <1>2
  <2> HIDE DEF q
  <2>2. \A i \in 2 .. n : StepIs(i, q[i] - q[i - 1], n)
    BY <1>5 DEF StepIs
  <2>3. ASSUME NEW i \in 2 .. n - 1
        PROVE  PairIs(i, q[i] - q[i - 1], q[i + 1] - q[i])
    <3>1. i \in 2 .. n /\ i + 1 \in 2 .. n /\ (i + 1) - 1 = i
      BY <1>2
    <3>2. q[i] - q[i - 1] = 1 /\ q[i + 1] - q[i] = 1
      BY <1>5, <3>1
    <3> QED
      BY <3>2 DEF PairIs
  <2> QED
    BY <2>1, <2>2, <2>3 DEF Grows
<1> HIDE DEF q
<1>7. SentAs(sentTraj, q, 1)
  BY <1>3, <1>4, <1>5, <1>6 DEF SentAs
<1>8. age = 0 /\ started = 0 /\ planning = FALSE
  BY DEF Joining!Init
<1> QED
  BY <1>2, <1>3, <1>7, <1>8 DEF SeamInv

\* A plan is finished in time where it takes no longer than it looks ahead: at the latest, in
\* the sample it starts from.
InTime(f, c, n, now) ==
  /\ n <= c /\ n - now \in -1 .. 1
  /\ now <= f + 1 /\ (now = f + 1 => n = c)

\* Where a plan starts from, where the old samples are cut, and the first that is kept.
LEMMA Cuts ==
  ASSUME SeamAssumption, SeamInv, planning, NEW I \in Joining!InitialInds
  PROVE  \E f, c, n \in Nat :
           /\ Cut(Len(sentTraj), f, c, n, I, Joining!TrajInd, Joining!StartInd)
           /\ PlanTime <= Lookahead => InTime(f, c, n, Slot(age))
<1> DEFINE x == started + Lookahead
           len == Len(sentTraj)
<1>1. /\ started \in Nat /\ age \in Nat /\ started <= age /\ Lookahead \in Nat
      /\ x \in Nat /\ len \in Nat
      /\ PlanTime <= Lookahead => age <= x
  <2>1. /\ started \in Nat /\ age \in Nat /\ started <= age /\ age <= started + PlanTime
        /\ Lookahead \in Nat /\ len \in Nat /\ PlanTime \in Nat
    BY ReplanningAssumption, PlanTimeAtLeast DEF SeamInv
  <2> QED
    BY <2>1
<1>2. PICK w \in {x, started + Lookahead - 1} \cap Nat : I = Joining!IndexOf(w)
  BY DEF Joining!InitialInds
<1>3. w \in Nat /\ (w = x \/ w = x - 1)
  <2>1. started + Lookahead - 1 = x - 1
    BY <1>1
  <2> QED
    BY <1>2, <2>1
<1> DEFINE f == Slot(w)
           c == CutSlot(x)
           n == CutSlot(age)
<1>4. /\ CutFacts(f, c, n)
      /\ f \in {Slot(x), Slot(x) - 1}
      /\ f = Slot(x) - 1 => x = DC * Slot(x)
  BY <1>1, <1>3, CutsAt
<1>5. f \in Nat /\ c \in Nat /\ n \in Nat
  BY <1>1, <1>3, SlotIs, CutSlotIs
<1>6. /\ I = Least(f + 1, len)
      /\ Joining!TrajInd = Least(c + 1, len)
      /\ Joining!StartInd = Least(n + 1, len) + 1
  BY <1>2 DEF Joining!TrajInd, Joining!StartInd, Joining!RoundedInd, Joining!IndexOf, Slot, CutSlot,
     Least
<1>7. PlanTime <= Lookahead => InTime(f, c, n, Slot(age))
  <2> SUFFICES ASSUME age <= x PROVE InTime(f, c, n, Slot(age))
    BY <1>1
  <2>1. /\ n <= c /\ Slot(age) <= Slot(x) /\ Slot(age) \in Nat /\ Slot(x) \in Nat
        /\ RoundedSlot(age) \in {Slot(age), Slot(age) + 1}
        /\ n \in {RoundedSlot(age), RoundedSlot(age) - 1}
    BY <1>1, CutInOrder, SlotInOrder, SlotIs, RoundedUpByOne, CutSlotIs
  <2>2. f = Slot(x) - 1 /\ Slot(age) = Slot(x) => n = c
    <3> SUFFICES ASSUME f = Slot(x) - 1, Slot(age) = Slot(x) PROVE n = c
      OBVIOUS
    <3>1. DC * Slot(age) <= age /\ x = DC * Slot(x)
      BY <1>1, <1>4, SlotIs
    <3>2. DC * Slot(x) <= age
      BY <3>1
    <3>3. age = x
      BY <1>1, <3>1, <3>2
    <3> QED
      BY <3>3
  <2> HIDE DEF f, c, n, x
  <2>3. n - Slot(age) \in -1 .. 1 /\ Slot(age) <= f + 1
    BY <1>4, <1>5, <2>1
  <2>4. Slot(age) = f + 1 => n = c
    BY <1>4, <1>5, <2>1, <2>2
  <2> QED
    BY <2>1, <2>3, <2>4 DEF InTime
<1> HIDE DEF f, c, n, len
<1>8. Cut(len, f, c, n, I, Joining!TrajInd, Joining!StartInd)
  BY <1>4, <1>6 DEF Cut
<1> QED
  BY <1>5, <1>7, <1>8 DEF len

\* How many old samples are kept.
KeptSize == SizeOf(Joining!TrajInd, Joining!StartInd)

\* The old samples kept, renumbered.
LEMMA KeptIs ==
  ASSUME SeamInv,
         Joining!TrajInd \in 1 .. Len(sentTraj), Joining!StartInd \in 2 .. Len(sentTraj) + 1
  PROVE  /\ Joining!Kept \in Seq(SampleType) /\ Len(Joining!Kept) = KeptSize /\ KeptSize \in Nat
         /\ \A i \in 1 .. KeptSize :
              /\ Joining!StartInd + i - 1 \in 2 .. Len(sentTraj)
              /\ Joining!Kept[i].phase = sentTraj[Joining!StartInd + i - 1].phase
              /\ Joining!Kept[i].time = (i - 1) * DC
<1> DEFINE len == Len(sentTraj)
           T == Joining!TrajInd
           from == Joining!StartInd
           k == KeptSize
<1>1. len \in Nat /\ DC \in Int /\ sentTraj \in Seq(SampleType)
  BY SolverAssumption DEF SeamInv
<1>2. k \in Nat /\ \A i \in 1 .. k : from + i - 1 \in 2 .. len
  BY <1>1 DEF KeptSize, SizeOf
<1>3. \A i \in 1 .. k : Joining!Sample(sentTraj[from + i - 1].phase, (i - 1) * DC) \in SampleType
  <2> SUFFICES ASSUME NEW i \in 1 .. k
               PROVE  Joining!Sample(sentTraj[from + i - 1].phase, (i - 1) * DC) \in SampleType
    OBVIOUS
  <2>1. from + i - 1 \in 1 .. len
    BY <1>1, <1>2
  <2>2. sentTraj[from + i - 1] \in SampleType
    BY <1>1, <2>1
  <2>3. (i - 1) * DC \in Int
    BY <1>1, <1>2
  <2> QED
    BY <2>2, <2>3 DEF Joining!Sample, SampleType
<1>4. Joining!Kept = [i \in 1 .. k |-> Joining!Sample(sentTraj[from + i - 1].phase, (i - 1) * DC)]
  BY DEF Joining!Kept, KeptSize, SizeOf
<1>5. Joining!Kept \in Seq(SampleType) /\ Len(Joining!Kept) = k
  BY <1>2, <1>3, <1>4
<1>6. \A i \in 1 .. k : /\ Joining!Kept[i].phase = sentTraj[from + i - 1].phase
                        /\ Joining!Kept[i].time = (i - 1) * DC
  BY <1>4 DEF Joining!Sample
<1> QED
  BY <1>2, <1>5, <1>6

\* One sequence after another.
LEMMA After ==
  ASSUME NEW s \in Seq(SampleType), NEW u \in Seq(SampleType)
  PROVE  /\ s \o u \in Seq(SampleType) /\ Len(s \o u) = Len(s) + Len(u)
         /\ Len(s) \in Nat
         /\ \A i \in 1 .. Len(s) : (s \o u)[i] = s[i]
         /\ \A j \in 1 .. Len(u) : (s \o u)[Len(s) + j] = u[j]
<1>1. s \o u \in Seq(SampleType) /\ Len(s \o u) = Len(s) + Len(u) /\ Len(s) \in Nat
  OBVIOUS
<1>2. \A i \in 1 .. Len(s) : (s \o u)[i] = s[i]
  OBVIOUS
<1>3. \A j \in 1 .. Len(u) : (s \o u)[Len(s) + j] = u[j]
  OBVIOUS
<1> QED
  BY <1>1, <1>2, <1>3

\* What is sent when a plan is finished: the old samples kept, and the plan's.
LEMMA FinishIs ==
  ASSUME SeamInv, NEW m \in Samples, NEW I \in 1 .. Len(sentTraj),
         Joining!TrajInd \in 1 .. Len(sentTraj), Joining!StartInd \in 2 .. Len(sentTraj) + 1,
         sentTraj' = Joining!Kept \o
           Joining!Planned(sentTraj[I].phase, (Joining!TrajInd - Joining!StartInd) * DC, m)
  PROVE  /\ KeptSize \in Nat /\ sentTraj' \in Seq(SampleType) /\ Len(sentTraj') = KeptSize + m
         /\ \A i \in 1 .. KeptSize :
              /\ Joining!StartInd + i - 1 \in 2 .. Len(sentTraj)
              /\ sentTraj'[i].phase = sentTraj[Joining!StartInd + i - 1].phase
              /\ sentTraj'[i].time = (i - 1) * DC
         /\ \A j \in 1 .. m :
              /\ sentTraj'[KeptSize + j].phase = sentTraj[I].phase + j * DC
              /\ sentTraj'[KeptSize + j].time =
                   (Joining!TrajInd - Joining!StartInd) * DC + (j - 1) * DC
<1> DEFINE T == Joining!TrajInd
           from == Joining!StartInd
           k == KeptSize
           kept == Joining!Kept
           phase == sentTraj[I].phase
           time == (T - from) * DC
           planned == Joining!Planned(phase, time, m)
           len == Len(sentTraj)
<1>1. DC \in Int /\ m \in Nat /\ len \in Nat
  BY SamplesAre, SolverAssumption DEF SeamInv
<1>2. /\ kept \in Seq(SampleType) /\ Len(kept) = k /\ k \in Nat
      /\ \A i \in 1 .. k : /\ from + i - 1 \in 2 .. len
                           /\ kept[i].phase = sentTraj[from + i - 1].phase
                           /\ kept[i].time = (i - 1) * DC
  BY KeptIs, Zenon
<1>3. phase \in Int /\ time \in Int
  <2>1. sentTraj[I] \in SampleType
    BY DEF SeamInv
  <2>2. phase \in Int
    BY <2>1 DEF SampleType
  <2>3. time \in Int
    BY <1>1
  <2> QED
    BY <2>2, <2>3
<1>4. /\ planned \in Seq(SampleType) /\ Len(planned) = m
      /\ \A j \in 1 .. m : planned[j].phase = phase + j * DC /\ planned[j].time = time + (j - 1) * DC
  <2> HIDE DEF phase, time
  <2> QED
    BY <1>1, <1>3, PlannedIs
<1>5. sentTraj' = kept \o planned
  OBVIOUS
<1> HIDE DEF kept, planned, phase, time, len
<1>6. /\ kept \o planned \in Seq(SampleType)
      /\ Len(kept \o planned) = Len(kept) + Len(planned)
      /\ \A i \in 1 .. Len(kept) : (kept \o planned)[i] = kept[i]
      /\ \A j \in 1 .. Len(planned) : (kept \o planned)[Len(kept) + j] = planned[j]
  BY <1>2, <1>4, After, Zenon
<1>7. /\ sentTraj' \in Seq(SampleType) /\ Len(sentTraj') = k + m
      /\ \A i \in 1 .. k : sentTraj'[i] = kept[i]
      /\ \A j \in 1 .. m : sentTraj'[k + j] = planned[j]
  BY <1>2, <1>4, <1>5, <1>6, Zenon
<1>8. ASSUME NEW i \in 1 .. k
      PROVE  /\ from + i - 1 \in 2 .. len
             /\ sentTraj'[i].phase = sentTraj[from + i - 1].phase
             /\ sentTraj'[i].time = (i - 1) * DC
  BY <1>2, <1>7, Zenon
<1>9. ASSUME NEW j \in 1 .. m
      PROVE  sentTraj'[k + j].phase = phase + j * DC /\ sentTraj'[k + j].time = time + (j - 1) * DC
  BY <1>4, <1>7, Zenon
<1> QED
  BY <1>2, <1>7, <1>8, <1>9, Zenon DEF phase, time, len

\* The phases joined, in periods.
JoinedPhases(q, I, from, k, m) ==
  [i \in 1 .. k + m |-> IF i <= k THEN q[from + i - 1] ELSE q[I] + (i - k)]

LEMMA JoinedPhasesAre ==
  ASSUME NEW len \in Nat, NEW q, q \in [1 .. len -> Int], NEW I \in 1 .. len, NEW from \in 2 .. len + 1,
         NEW k \in Nat, NEW m \in Nat, from + k <= len + 1
  PROVE  JoinsTo(JoinedPhases(q, I, from, k, m), q, I, from, k, m)
<1> DEFINE p == JoinedPhases(q, I, from, k, m)
           v(i) == IF i <= k THEN q[from + i - 1] ELSE q[I] + (i - k)
<1>1. ASSUME NEW i \in 1 .. k + m PROVE v(i) \in Int /\ p[i] = v(i)
  <2>1. CASE i <= k
    <3>1. i \in 1 .. k
      BY <2>1
    <3>2. from + i - 1 \in 1 .. len
      BY <3>1
    <3>3. q[from + i - 1] \in Int
      BY <3>2
    <3> QED
      BY <2>1, <3>3 DEF JoinedPhases
  <2>2. CASE ~(i <= k)
    <3>1. q[I] \in Int /\ i - k \in Int
      OBVIOUS
    <3>2. q[I] + (i - k) \in Int
      BY <3>1
    <3> QED
      BY <2>2, <3>2 DEF JoinedPhases
  <2> QED
    BY <2>1, <2>2
<1>2. p = [i \in 1 .. k + m |-> v(i)]
  BY Zenon DEF JoinedPhases
<1>3. p \in [1 .. k + m -> Int]
  <2> HIDE DEF v
  <2> QED
    BY <1>1, <1>2
<1>4. ASSUME NEW i \in 1 .. k PROVE p[i] = q[from + i - 1]
  <2>1. i \in 1 .. k + m /\ i <= k
    OBVIOUS
  <2> QED
    BY <1>1, <2>1, Zenon
<1>5. ASSUME NEW j \in 1 .. m PROVE p[k + j] = q[I] + j
  <2>1. k + j \in 1 .. k + m /\ ~(k + j <= k) /\ (k + j) - k = j
    OBVIOUS
  <2>2. p[k + j] = q[I] + ((k + j) - k)
    BY <1>1, <2>1, Zenon
  <2> QED
    BY <2>1, <2>2, Zenon
<1> QED
  BY <1>3, <1>4, <1>5, Zenon DEF JoinsTo

LEMMA FinishKeepsSeams ==
  ASSUME SeamAssumption, SeamInv, NEW m \in Samples, Joining!FinishPlan(m),
         NEW I \in Joining!InitialInds, NEW q, NEW e, SentAs(sentTraj, q, e),
         sentTraj' = Joining!Kept \o
           Joining!Planned(sentTraj[I].phase, (Joining!TrajInd - Joining!StartInd) * DC, m)
  PROVE  LET T == Joining!TrajInd
             from == Joining!StartInd
         IN  /\ SeamInv'
             /\ SentAs(sentTraj', JoinedPhases(q, I, from, KeptSize, m),
                       IF T >= from THEN 0 ELSE T - from)
<1> DEFINE T == Joining!TrajInd
           from == Joining!StartInd
           k == KeptSize
           len == Len(sentTraj)
           p == JoinedPhases(q, I, from, k, m)
           late == IF T >= from THEN 0 ELSE T - from
           tr == sentTraj'
<1>1. /\ DC \in Nat \ {0} /\ m \in Nat /\ m >= 2 /\ len \in Nat /\ len >= 2
      /\ planning /\ age' = 0 /\ planning' = FALSE /\ started' = 0
  <2>1. DC \in Nat \ {0} /\ m \in Nat /\ m >= 2 /\ len \in Nat /\ len >= 2
    BY SamplesAre, SolverAssumption DEF SeamInv
  <2>2. planning /\ age' = 0 /\ planning' = FALSE /\ started' = 0
    BY DEF Joining!FinishPlan
  <2> QED
    BY <2>1, <2>2
<1>2. PICK f \in Nat, c \in Nat, n \in Nat :
        /\ Cut(len, f, c, n, I, T, from)
        /\ PlanTime <= Lookahead => InTime(f, c, n, Slot(age))
  BY <1>1, Cuts, Zenon
<1>3. I \in 1 .. len /\ T \in 1 .. len /\ from \in 2 .. len + 1
  BY <1>1, <1>2, CutIs
<1>4. PlanTime <= Lookahead => T - from >= -1
  BY <1>1, <1>2 DEF Cut, InTime, Least
<1>5. /\ Grows(q, len)
      /\ \A i \in 1 .. len : sentTraj[i].phase = DC * q[i]
  BY DEF SentAs
<1>6. k \in Nat /\ k = (IF T > from THEN T - from ELSE 0) /\ (~(T >= from) => k = 0)
  BY <1>3 DEF KeptSize, SizeOf
<1>7. /\ tr \in Seq(SampleType) /\ Len(tr) = k + m
      /\ \A i \in 1 .. k : /\ from + i - 1 \in 2 .. len
                           /\ tr[i].phase = sentTraj[from + i - 1].phase
                           /\ tr[i].time = (i - 1) * DC
      /\ \A j \in 1 .. m : /\ tr[k + j].phase = sentTraj[I].phase + j * DC
                           /\ tr[k + j].time = (T - from) * DC + (j - 1) * DC
  BY <1>3, FinishIs, Zenon
<1>8. JoinsTo(p, q, I, from, k, m)
  <2>1. q \in [1 .. len -> Int]
    BY <1>5 DEF Grows
  <2>2. from + k <= len + 1
    BY <1>1, <1>3, <1>6
  <2> QED
    BY <1>1, <1>3, <1>6, <2>1, <2>2, JoinedPhasesAre, Zenon
<1>9. Grows(p, k + m)
  BY <1>1, <1>2, <1>5, <1>8, JoinedGrows, Zenon DEF KeptSize
<1> HIDE DEF T, from, k, p, tr
<1>10. /\ \A i \in 1 .. k : p[i] = q[from + i - 1]
       /\ \A j \in 1 .. m : p[k + j] = q[I] + j
  BY <1>8, Zenon DEF JoinsTo
<1>11. late \in Int /\ late <= 0 /\ (PlanTime <= Lookahead => late >= -1)
       /\ (late # 0 => k = 0)
  BY <1>3, <1>4, <1>6
<1>12. ASSUME NEW i \in 1 .. k + m
       PROVE  tr[i].phase = DC * p[i] /\ tr[i].time = ((i - 1) + late) * DC
  <2>1. CASE i <= k
    <3>1. i \in 1 .. k /\ late = 0
      BY <1>3, <1>6, <2>1
    <3>2. tr[i].phase = sentTraj[from + i - 1].phase /\ tr[i].time = (i - 1) * DC
      BY <1>7, <3>1, Zenon
    <3>3. from + i - 1 \in 1 .. len
      <4>1. from + i - 1 \in 2 .. len
        BY <1>7, <3>1, Zenon
      <4> QED
        BY <1>1, <4>1
    <3>4. tr[i].phase = DC * p[i]
      BY <1>5, <1>10, <3>1, <3>2, <3>3, Zenon
    <3>5. (i - 1) + late = i - 1
      BY <3>1
    <3> QED
      BY <3>2, <3>4, <3>5, Zenon
  <2>2. CASE i > k
    <3> DEFINE j == i - k
    <3>1. j \in 1 .. m /\ i = k + j
      BY <1>1, <1>6, <2>2
    <3> HIDE DEF j
    <3>2. /\ tr[i].phase = sentTraj[I].phase + j * DC
          /\ tr[i].time = (T - from) * DC + (j - 1) * DC
          /\ sentTraj[I].phase = DC * q[I] /\ p[i] = q[I] + j
      BY <1>3, <1>5, <1>7, <1>10, <3>1, Zenon
    <3>3. q[I] \in Int
      BY <1>3, <1>5 DEF Grows
    <3>4. \A a \in Int : DC * a + j * DC = DC * (a + j)
      BY <1>1, <3>1
    <3>5. (T - from) + (j - 1) = (i - 1) + late
      BY <1>3, <1>6, <3>1
    <3>6. (T - from) * DC + (j - 1) * DC = ((T - from) + (j - 1)) * DC
      BY <1>1, <1>3, <3>1
    <3>7. tr[i].phase = DC * p[i]
      BY <3>2, <3>3, <3>4, Zenon
    <3>8. tr[i].time = ((i - 1) + late) * DC
      BY <3>2, <3>5, <3>6, Zenon
    <3> QED
      BY <3>7, <3>8
  <2> QED
    BY <1>6, <2>1, <2>2
<1>13. late # 0 => \A i \in 2 .. k + m : p[i] = p[i - 1] + 1
  <2> SUFFICES ASSUME k = 0, NEW i \in 2 .. m PROVE p[i] = p[i - 1] + 1
    BY <1>1, <1>11
  <2>1. i \in 1 .. m /\ i - 1 \in 1 .. m /\ k + i = i /\ k + (i - 1) = i - 1
    BY <1>1
  <2>2. p[i] = q[I] + i /\ p[i - 1] = q[I] + (i - 1)
    BY <1>10, <2>1, Zenon
  <2>3. q[I] \in Int
    BY <1>3, <1>5 DEF Grows
  <2>4. \A a \in Int : a + i = (a + (i - 1)) + 1
    BY <2>1
  <2> QED
    BY <2>2, <2>3, <2>4, Zenon
<1>14. SentAs(tr, p, late)
  BY <1>7, <1>9, <1>11, <1>12, <1>13 DEF SentAs
<1>15. SeamInv'
  <2>1. Len(tr) >= 2
    BY <1>1, <1>6, <1>7
  <2>2. (PlanTime <= Lookahead)' <=> PlanTime <= Lookahead
    BY DEF PlanTime
  <2>3. \A r, z : Grows(r, z)' <=> Grows(r, z)
    BY DEF Grows, StepIs, PairIs, Lead, RoundedSlot, Joining!Round, FarRounded, Far
  <2>4. PICK r, z : SentAs(tr, r, z)
    BY <1>14
  <2>5. SentAs(sentTraj, r, z)'
    BY <2>2, <2>3, <2>4 DEF SentAs, tr
  <2> QED
    BY <1>1, <1>7, <2>1, <2>5 DEF SeamInv, tr
<1> QED
  BY <1>14, <1>15 DEF T, from, k, p, late, tr

LEMMA SeamStep ==
  ASSUME SeamAssumption, SeamInv, [Joining!Next]_(Joining!vars)
  PROVE  SeamInv'
<1>1. (\E q, e : SentAs(sentTraj, q, e)) /\ PlanTime' = PlanTime /\ PlanTime \in Nat
  BY PlanTimeAtLeast DEF SeamInv, PlanTime
<1>2. ASSUME UNCHANGED sentTraj, age' \in Nat, started' \in Nat,
             planning' => started' <= age' /\ age' <= started' + PlanTime
      PROVE  SeamInv'
  <2>1. PICK q, e : SentAs(sentTraj, q, e)
    BY <1>1
  <2>2. \A r, z : Grows(r, z)' <=> Grows(r, z)
    BY DEF Grows, StepIs, PairIs, Lead, RoundedSlot, Joining!Round, FarRounded, Far
  <2>3. SentAs(sentTraj, q, e)'
    BY <1>1, <1>2, <2>1, <2>2 DEF SentAs
  <2> QED
    BY <1>1, <1>2, <2>3 DEF SeamInv
<1>3. CASE Joining!Tick
  <2>1. /\ UNCHANGED <<sentTraj, planning, started>> /\ age' = age + 1
        /\ age \in Nat /\ started \in Nat
        /\ planning => started <= age /\ age - started < PlanTime
    BY <1>3 DEF Joining!Tick, SeamInv
  <2>2. planning => started <= age + 1 /\ age + 1 <= started + PlanTime
    BY <1>1, <2>1
  <2> QED
    BY <1>2, <2>1, <2>2
<1>4. CASE Joining!StartPlan
  <2>1. UNCHANGED <<sentTraj, age>> /\ started' = age /\ age \in Nat
    BY <1>4 DEF Joining!StartPlan, SeamInv
  <2>2. age <= age + PlanTime
    BY <1>1, <2>1
  <2> QED
    BY <1>2, <2>1, <2>2
<1>5. CASE \E n \in Samples : Joining!FinishPlan(n)
  <2>1. PICK n \in Samples : Joining!FinishPlan(n)
    BY <1>5
  <2>2. PICK I \in Joining!InitialInds :
          sentTraj' = Joining!Kept \o
            Joining!Planned(sentTraj[I].phase, (Joining!TrajInd - Joining!StartInd) * DC, n)
    BY <2>1 DEF Joining!FinishPlan
  <2>3. PICK q, e : SentAs(sentTraj, q, e)
    BY <1>1
  <2> QED
    BY <2>1, <2>2, <2>3, FinishKeepsSeams, Zenon
<1>6. CASE Joining!FailPlan
  BY <1>2, <1>6 DEF Joining!FailPlan, SeamInv
<1>7. CASE UNCHANGED Joining!vars
  BY <1>2, <1>7 DEF Joining!vars, SeamInv
<1> QED
  BY <1>3, <1>4, <1>5, <1>6, <1>7 DEF Joining!Next

LEMMA SeamInvIsEven ==
  ASSUME SeamInv
  PROVE  SeamsEven
<1>1. PICK q, e : SentAs(sentTraj, q, e)
  BY DEF SeamInv
<1> DEFINE len == Len(sentTraj)
<1>2. /\ DC \in Nat \ {0} /\ len \in Nat /\ len >= 2 /\ e \in Int /\ e <= 1
      /\ Grows(q, len)
      /\ \A i \in 1 .. len :
           sentTraj[i].phase = DC * q[i] /\ sentTraj[i].time = ((i - 1) + e) * DC
  <2>1. DC \in Nat \ {0} /\ len \in Nat /\ len >= 2
    BY SolverAssumption DEF SeamInv
  <2> QED
    BY <1>1, <2>1 DEF SentAs
<1>3. sentTraj[1].time <= DC
  <2>1. 1 \in 1 .. len
    BY <1>2
  <2>2. sentTraj[1].time = ((1 - 1) + e) * DC
    BY <1>2, <2>1, Zenon
  <2>3. ((1 - 1) + e) * DC = DC * e
    BY <1>2
  <2>4. DC * e <= DC * 1
    BY <1>2, TimesAtMost
  <2> QED
    BY <1>2, <2>2, <2>3, <2>4
<1>4. ASSUME NEW i \in 2 .. len
      PROVE  /\ sentTraj[i].time = sentTraj[i - 1].time + DC
             /\ sentTraj[i].phase - sentTraj[i - 1].phase \in {k * DC : k \in -1 .. 3}
  <2>1. i \in 1 .. len /\ i - 1 \in 1 .. len
    BY <1>2
  <2>2. /\ sentTraj[i].phase = DC * q[i] /\ sentTraj[i].time = ((i - 1) + e) * DC
        /\ sentTraj[i - 1].phase = DC * q[i - 1] /\ sentTraj[i - 1].time = (((i - 1) - 1) + e) * DC
    BY <1>2, <2>1, Zenon
  <2>3. q[i] \in Int /\ q[i - 1] \in Int /\ q[i] - q[i - 1] \in -1 .. 3
    BY <1>2, StepAt DEF StepIs
  <2> DEFINE a == q[i]  b == q[i - 1]
  <2>4. a \in Int /\ b \in Int /\ a - b \in -1 .. 3
    BY <2>3
  <2> HIDE DEF a, b
  <2>5. DC * a - DC * b = (a - b) * DC
    BY <1>2, <2>4
  <2>6. ((i - 1) + e) * DC = (((i - 1) - 1) + e) * DC + DC
    BY <1>2
  <2>7. sentTraj[i].phase - sentTraj[i - 1].phase = (a - b) * DC
    BY <2>2, <2>5, Zenon DEF a, b
  <2>8. sentTraj[i].phase - sentTraj[i - 1].phase \in {k * DC : k \in -1 .. 3}
    BY <2>4, <2>7, Zenon
  <2> QED
    BY <2>2, <2>6, <2>8, Zenon
<1> QED
  BY <1>3, <1>4, Zenon DEF SeamsEven, Joining!SeamsEven, Joining!Neighbours

\* However often trajectories are cut and joined, by indices of rounded times and of quotients
\* that may fall short, their times go on evenly, and at a seam the motion goes back by one
\* sample at most and ahead over two at most.
THEOREM SeamsStayEven == ASSUME SeamAssumption PROVE Spec => []SeamsEven
<1>1. SeamInv /\ [Joining!Next]_(Joining!vars) => SeamInv'
  BY SeamStep
<1>2. SeamInv => SeamsEven
  BY SeamInvIsEven
<1> QED
  BY <1>1, <1>2, FirstSeams, JoinsLikeStitching, PTL DEF ImplementsStitching, Joining!Spec

-----------------------------------------------------------------------------
(* The reference.  The times sent are even, so what the tracker reads is the sample of  *)
(* its period; a plan moves it to a sample of what was kept, or of its own first ones.   *)

\* The reference x, in periods, once a plan of m samples is finished, where q was sent before.
GoesTo(q, x, m, I, T, from) ==
  /\ T > from + 1 => x = q[from + 1]
  /\ T = from + 1 => x = q[I] + 1
  /\ T = from => x = q[I] + 2
  /\ T < from => x = q[I] + (IF m >= 3 THEN 3 ELSE 2)

\* Samples without a seam.
LEMMA PlainSteps ==
  ASSUME NEW len \in Nat, NEW q, q \in [1 .. len -> Int],
         \A i \in 2 .. len : q[i] = q[i - 1] + 1,
         NEW i \in 1 .. len, NEW j \in 1 .. len, j - i \in -5 .. 5
  PROVE  q[j] = q[i] + (j - i)
<1>1. ASSUME NEW k \in 1 .. len, k + 1 <= len
      PROVE  q[k] \in Int /\ q[k + 1] = q[k] + 1
  <2>1. k + 1 \in 2 .. len /\ (k + 1) - 1 = k
    BY <1>1
  <2>2. q[k + 1] = q[(k + 1) - 1] + 1
    BY <2>1, Zenon
  <2> QED
    BY <2>1, <2>2
<1>2. ASSUME NEW k \in 1 .. len, NEW l \in 1 .. len, l - k \in 0 .. 5
      PROVE  q[l] = q[k] + (l - k)
  <2>1. q[k] \in Int
    OBVIOUS
  <2>2. k + 1 <= len => q[k + 1] = q[k] + 1
    BY <1>1
  <2>3. k + 2 <= len => q[k + 2] = q[k] + 2
    <3> SUFFICES ASSUME k + 2 <= len PROVE q[k + 2] = q[k] + 2
      OBVIOUS
    <3>1. k + 1 \in 1 .. len /\ (k + 1) + 1 = k + 2
      OBVIOUS
    <3> QED
      BY <1>1, <2>1, <2>2, <3>1
  <2>4. k + 3 <= len => q[k + 3] = q[k] + 3
    <3> SUFFICES ASSUME k + 3 <= len PROVE q[k + 3] = q[k] + 3
      OBVIOUS
    <3>1. k + 2 \in 1 .. len /\ (k + 2) + 1 = k + 3
      OBVIOUS
    <3> QED
      BY <1>1, <2>1, <2>3, <3>1
  <2>5. k + 4 <= len => q[k + 4] = q[k] + 4
    <3> SUFFICES ASSUME k + 4 <= len PROVE q[k + 4] = q[k] + 4
      OBVIOUS
    <3>1. k + 3 \in 1 .. len /\ (k + 3) + 1 = k + 4
      OBVIOUS
    <3> QED
      BY <1>1, <2>1, <2>4, <3>1
  <2>6. k + 5 <= len => q[k + 5] = q[k] + 5
    <3> SUFFICES ASSUME k + 5 <= len PROVE q[k + 5] = q[k] + 5
      OBVIOUS
    <3>1. k + 4 \in 1 .. len /\ (k + 4) + 1 = k + 5
      OBVIOUS
    <3> QED
      BY <1>1, <2>1, <2>5, <3>1
  <2>7. CASE l = k
    BY <2>1, <2>7
  <2>8. CASE l = k + 1
    BY <2>1, <2>2, <2>8
  <2>9. CASE l = k + 2
    BY <2>1, <2>3, <2>9
  <2>10. CASE l = k + 3
    BY <2>1, <2>4, <2>10
  <2>11. CASE l = k + 4
    BY <2>1, <2>5, <2>11
  <2>12. CASE l = k + 5
    BY <2>1, <2>6, <2>12
  <2>13. l \in {k, k + 1, k + 2, k + 3, k + 4, k + 5}
    BY <1>2
  <2> QED
    BY <2>7, <2>8, <2>9, <2>10, <2>11, <2>12, <2>13
<1>3. CASE j >= i
  BY <1>2, <1>3
<1>4. CASE j < i
  <2>1. q[i] = q[j] + (i - j) /\ q[j] \in Int
    BY <1>2, <1>4
  <2> QED
    BY <2>1
<1> QED
  BY <1>3, <1>4

\* About the cut, the sample T of len: v is the phase there, y and d are the steps to it and
\* to the one before; far says that FarRounded holds.
NearCut(T, h, len, far, y, d) ==
  /\ T = len \/ T > h
  /\ T >= 2 => y \in 0 .. 2 /\ (y # 1 => T < len /\ T = h + 1) /\ (y = 2 => far)
  /\ T >= 3 => /\ d \in -1 .. 3
               /\ d = 3 => T - 1 <= h /\ (T - 1 = h => far)
               /\ d # 1 => T - 1 <= h + 1
               /\ d = 2 /\ T - 1 = h + 1 => far
               /\ d = -1 => T - 1 <= h
               /\ d + y \in -1 .. 5
               /\ T - 1 = h /\ y # 1 => d \in 0 .. 2

\* The phase z is that of the sample k after the cut, or before it.
PhaseAt(k, T, v, y, d, z) ==
  /\ k = -2 => T >= 3 /\ z = (v - y) - d
  /\ k = -1 => T >= 2 /\ z = v - y
  /\ k = 0 => z = v
  /\ k = 1 => z = v + 1
  /\ k = 2 => z = v + 2

\* The plan starts from the sample i after the cut, of phase g; the reference was the one j
\* after it, of phase w; and the reference is s more than g now.
Moves(T, h, len, far, v, y, d, i, j, g, w, s) ==
  /\ T \in Nat /\ h \in Nat /\ len \in Nat /\ T <= len
  /\ far \in BOOLEAN /\ v \in Int /\ y \in Int /\ d \in Int /\ NearCut(T, h, len, far, y, d)
  /\ i \in -2 .. 1 /\ j \in -2 .. 2 /\ g \in Int /\ w \in Int /\ s \in 1 .. 3
  /\ PhaseAt(i, T, v, y, d, g) /\ PhaseAt(j, T, v, y, d, w)
  /\ i = 1 => T > h /\ ~(T = h + 1 /\ far)
  /\ i = -2 => T > h /\ (T >= h + 3 \/ ~far)
  /\ s = 1 => j \in -2 .. 0 /\ (i = -2 => j < 0)
  /\ s = 2 => j \in -1 .. 2 /\ (j = 2 => i \in {0, 1}) /\ (i = -2 => j <= 0)
  /\ s = 3 => j \in 0 .. 2 /\ (i = -2 => j = 0) /\ (i = -1 => j <= 1)

LEMMA InSteps ==
  ASSUME NEW T, NEW h, NEW len, NEW far, NEW v, NEW y, NEW d, NEW i, NEW j, NEW g, NEW w, NEW s,
         Moves(T, h, len, far, v, y, d, i, j, g, w, s)
  PROVE  (g + s) - w \in -1 .. 5
<1>1. CASE i = -2
  <2>1. CASE j = -2
    BY <1>1, <2>1 DEF Moves, NearCut, PhaseAt
  <2>2. CASE j = -1
    BY <1>1, <2>2 DEF Moves, NearCut, PhaseAt
  <2>3. CASE j = 0
    BY <1>1, <2>3 DEF Moves, NearCut, PhaseAt
  <2>4. CASE j = 1
    BY <1>1, <2>4 DEF Moves, NearCut, PhaseAt
  <2>5. CASE j = 2
    BY <1>1, <2>5 DEF Moves, NearCut, PhaseAt
  <2> QED
    BY <2>1, <2>2, <2>3, <2>4, <2>5 DEF Moves
<1>2. CASE i = -1
  <2>1. CASE j = -2
    BY <1>2, <2>1 DEF Moves, NearCut, PhaseAt
  <2>2. CASE j = -1
    BY <1>2, <2>2 DEF Moves, NearCut, PhaseAt
  <2>3. CASE j = 0
    BY <1>2, <2>3 DEF Moves, NearCut, PhaseAt
  <2>4. CASE j = 1
    BY <1>2, <2>4 DEF Moves, NearCut, PhaseAt
  <2>5. CASE j = 2
    BY <1>2, <2>5 DEF Moves, NearCut, PhaseAt
  <2> QED
    BY <2>1, <2>2, <2>3, <2>4, <2>5 DEF Moves
<1>3. CASE i = 0
  <2>1. CASE j = -2
    BY <1>3, <2>1 DEF Moves, NearCut, PhaseAt
  <2>2. CASE j = -1
    BY <1>3, <2>2 DEF Moves, NearCut, PhaseAt
  <2>3. CASE j = 0
    BY <1>3, <2>3 DEF Moves, NearCut, PhaseAt
  <2>4. CASE j = 1
    BY <1>3, <2>4 DEF Moves, NearCut, PhaseAt
  <2>5. CASE j = 2
    BY <1>3, <2>5 DEF Moves, NearCut, PhaseAt
  <2> QED
    BY <2>1, <2>2, <2>3, <2>4, <2>5 DEF Moves
<1>4. CASE i = 1
  <2>1. CASE j = -2
    BY <1>4, <2>1 DEF Moves, NearCut, PhaseAt
  <2>2. CASE j = -1
    BY <1>4, <2>2 DEF Moves, NearCut, PhaseAt
  <2>3. CASE j = 0
    BY <1>4, <2>3 DEF Moves, NearCut, PhaseAt
  <2>4. CASE j = 1
    BY <1>4, <2>4 DEF Moves, NearCut, PhaseAt
  <2>5. CASE j = 2
    BY <1>4, <2>5 DEF Moves, NearCut, PhaseAt
  <2> QED
    BY <2>1, <2>2, <2>3, <2>4, <2>5 DEF Moves
<1> QED
  BY <1>1, <1>2, <1>3, <1>4 DEF Moves

\* The reference once a plan is finished against what it was: now is the present's period, and
\* e is by how many the times sent before are late.
MovesOn(q, len, f, c, n, I, T, from, now, e, m, x, r) ==
  /\ len \in Nat /\ len >= 2 /\ Grows(q, len)
  /\ f \in Nat /\ c \in Nat /\ n \in Nat /\ Cut(len, f, c, n, I, T, from)
  /\ now \in Nat /\ InTime(f, c, n, now)
  /\ e \in {-1, 0, 1} /\ (e # 0 => \A i \in 2 .. len : q[i] = q[i - 1] + 1)
  /\ m \in Nat /\ m >= 2 /\ GoesTo(q, x, m, I, T, from)
  /\ r = Least(now + 2 - e, len)

LEMMA ReferenceMovesOn ==
  ASSUME SeamAssumption, NEW q, NEW len, NEW f, NEW c, NEW n, NEW I, NEW T, NEW from, NEW now,
         NEW e, NEW m, NEW x, NEW r, MovesOn(q, len, f, c, n, I, T, from, now, e, m, x, r)
  PROVE  x \in Int /\ q[r] \in Int /\ q[r] - 1 <= x /\ x <= q[r] + 5
<1>0. /\ len \in Nat /\ len >= 2 /\ Grows(q, len)
      /\ f \in Nat /\ c \in Nat /\ n \in Nat /\ Cut(len, f, c, n, I, T, from)
      /\ now \in Nat /\ InTime(f, c, n, now)
      /\ e \in {-1, 0, 1} /\ (e # 0 => \A i \in 2 .. len : q[i] = q[i - 1] + 1)
      /\ m \in Nat /\ m >= 2 /\ GoesTo(q, x, m, I, T, from)
      /\ r = Least(now + 2 - e, len)
  BY Zenon DEF MovesOn
<1> USE <1>0
<1> DEFINE a == q[T - 2]
           b == q[T - 1]
           v == q[T]
           g == q[I]
           w == q[r]
           h == Lead
<1>1. /\ I \in 1 .. len /\ T \in 1 .. len /\ from \in 2 .. len + 1 /\ r \in 1 .. len
      /\ T = len \/ T > h
      /\ I - T \in -2 .. 1
      /\ I = T + 1 => f = c + 1 /\ T = c + 1
      /\ I = T - 2 => f = c - 2 /\ T = c + 1
      /\ h \in Nat
  <2>1. r \in 1 .. len
    BY DEF Least
  <2> QED
    BY <2>1, CutIs, LeadIs
<1>2. g \in Int /\ w \in Int /\ v \in Int
  BY <1>1 DEF Grows
\* The indices.
<1>3. /\ from <= T + 1
      /\ T > from + 1 => from = n + 2 /\ from + 1 \in 1 .. len /\ from + 1 - r \in -1 .. 3
      /\ T > from + 1 /\ e = 0 => from + 1 - r \in 0 .. 2
      /\ T <= from + 1 => I - r \in -5 .. 5 /\ r - T \in -3 .. 3
  BY <1>1 DEF Cut, InTime, CutFacts, Least
<1>4. CASE T > from + 1
  <2> DEFINE i == from + 1
  <2>1. x = q[i] /\ i \in 1 .. len /\ i - r \in -1 .. 3
    BY <1>1, <1>3, <1>4 DEF GoesTo
  <2>2. x \in Int
    BY <2>1 DEF Grows
  <2>3. CASE e # 0
    <3>1. q \in [1 .. len -> Int] /\ \A z \in 2 .. len : q[z] = q[z - 1] + 1
      BY <2>3 DEF Grows
    <3>2. q[i] = q[r] + (i - r)
      <4>1. i - r \in -5 .. 5
        BY <2>1
      <4> HIDE DEF i
      <4> QED
        BY <1>1, <2>1, <3>1, <4>1, PlainSteps
    <3> HIDE DEF i
    <3> QED
      BY <1>1, <1>2, <2>1, <2>2, <3>2
  <2>4. CASE e = 0
    <3>1. i - r \in 0 .. 2 /\ i \in 3 .. len /\ i <= len
      BY <1>1, <1>3, <1>4, <2>4
    <3> HIDE DEF i
    <3>2. q[i] \in Int /\ q[i - 1] \in Int /\ q[i] - q[i - 1] \in -1 .. 3
      BY <3>1, StepAt DEF StepIs
    <3>3. q[i - 2] \in Int /\ q[i] - q[i - 2] \in -1 .. 5
      <4>1. i - 1 \in 2 .. len /\ i - 1 < len /\ (i - 1) + 1 = i /\ (i - 1) - 1 = i - 2
        BY <3>1
      <4>2. PairIs(i - 1, q[i - 1] - q[(i - 1) - 1], q[(i - 1) + 1] - q[i - 1])
        BY <4>1, PairAt
      <4>3. q[(i - 1) - 1] \in Int
        BY <4>1, StepAt
      <4> DEFINE z0 == q[i - 2]  z1 == q[i - 1]  z2 == q[i]
      <4>4. z0 \in Int /\ z1 \in Int /\ z2 \in Int /\ (z1 - z0) + (z2 - z1) \in -1 .. 5
        BY <3>2, <4>1, <4>2, <4>3 DEF PairIs
      <4> HIDE DEF z0, z1, z2
      <4>5. z2 - z0 \in -1 .. 5
        BY <4>4
      <4> QED
        BY <4>4, <4>5 DEF z0, z2
    <3>4. r = i \/ r = i - 1 \/ r = i - 2
      BY <1>1, <3>1
    <3> QED
      BY <1>2, <2>1, <2>2, <3>2, <3>3, <3>4
  <2> QED
    BY <2>3, <2>4
<1>5. CASE T <= from + 1
  <2>1. /\ T = from + 1 => x = g + 1
        /\ T = from => x = g + 2
        /\ T < from => x = g + 3 \/ x = g + 2
        /\ x \in Int
    BY <1>1, <1>2, <1>5 DEF GoesTo
  <2>2. CASE e # 0
    <3>1. q \in [1 .. len -> Int] /\ \A z \in 2 .. len : q[z] = q[z - 1] + 1
      BY <2>2 DEF Grows
    <3>2. g = w + (I - r)
      BY <1>1, <1>3, <1>5, <3>1, PlainSteps
    <3>3. /\ T = from + 1 => I - r \in -2 .. 4
          /\ T = from => I - r \in -3 .. 3
          /\ T < from => I - r \in -3 .. 2
      BY <1>1, <1>5, <2>2 DEF Cut, InTime, CutFacts, Least
    <3> HIDE DEF g, w
    <3> QED
      BY <1>1, <1>2, <1>3, <1>5, <2>1, <3>2, <3>3 DEF w
  <2>3. CASE e = 0
    <3>1. /\ T >= 2 => b \in Int /\ v - b \in 0 .. 2 /\ (v - b # 1 => T < len /\ T = h + 1)
                       /\ (v - b = 2 => FarRounded)
          /\ T >= 3 => /\ a \in Int /\ StepIs(T - 1, b - a, len) /\ PairIs(T - 1, b - a, v - b)
          /\ T + 1 <= len => q[T + 1] = v + 1
          /\ T + 2 <= len => q[T + 2] = v + 2
      BY <1>1, AboutTheCut
    <3>2. /\ I = T + 1 => g = v + 1
          /\ I = T => g = v
          /\ I = T - 1 => T >= 2 /\ g = b
          /\ I = T - 2 => T >= 3 /\ g = a
      <4>1. I = T + 1 => g = v + 1
        BY <1>1, <3>1
      <4>2. I = T => g = v
        BY <1>1
      <4>3. I = T - 1 => T >= 2 /\ g = b
        BY <1>1
      <4>4. I = T - 2 => T >= 3 /\ g = a
        BY <1>1
      <4> QED
        BY <4>1, <4>2, <4>3, <4>4
    <3>3. /\ r = T - 2 => T >= 3 /\ w = a
          /\ r = T - 1 => T >= 2 /\ w = b
          /\ r = T => w = v
          /\ r = T + 1 => w = v + 1
          /\ r = T + 2 => w = v + 2
      BY <1>1, <3>1
    <3>4. /\ I = T + 1 => T > h /\ ~(T = h + 1 /\ FarRounded)
          /\ I = T - 2 => T > h /\ (T >= h + 3 \/ ~FarRounded)
          /\ T = from + 1 => r - T \in -2 .. 0 /\ (I = T - 2 => r < T)
          /\ T = from => r - T \in -1 .. 1 /\ (I = T - 2 => r <= T)
          /\ T < from => /\ r - T \in 0 .. 2
                         /\ I = T - 2 => r = T
                         /\ I = T - 1 => r <= T + 1
      BY <1>1, <1>5, <2>3 DEF Cut, InTime, CutFacts, Least
    <3> HIDE DEF a, b, v, g, w, h
\* In steps from the cut.
    <3>5. PICK y \in Int : T >= 2 => v = b + y
      <4>1. T >= 2 => v - b \in Int /\ v = b + (v - b)
        BY <1>2, <3>1
      <4> QED
        BY <4>1
    <3>6. PICK d \in Int : T >= 3 => b = a + d
      <4>1. T >= 3 => b - a \in Int /\ b = a + (b - a)
        BY <1>1, <3>1
      <4> QED
        BY <4>1
    <3>7. T >= 2 => y \in 0 .. 2 /\ (y # 1 => T < len /\ T = h + 1) /\ (y = 2 => FarRounded)
      BY <1>2, <3>1, <3>5
    <3>8. T >= 3 => /\ d \in -1 .. 3
                    /\ d = 3 => T - 1 <= h /\ (T - 1 = h => FarRounded)
                    /\ d # 1 => T - 1 <= h + 1
                    /\ d = 2 /\ T - 1 = h + 1 => FarRounded
                    /\ d = -1 => T - 1 <= h
                    /\ d + y \in -1 .. 5
                    /\ T - 1 = h /\ y # 1 => d \in 0 .. 2
      <4> SUFFICES ASSUME T >= 3
                   PROVE  /\ d \in -1 .. 3
                          /\ d = 3 => T - 1 <= h /\ (T - 1 = h => FarRounded)
                          /\ d # 1 => T - 1 <= h + 1
                          /\ d = 2 /\ T - 1 = h + 1 => FarRounded
                          /\ d = -1 => T - 1 <= h
                          /\ d + y \in -1 .. 5
                          /\ T - 1 = h /\ y # 1 => d \in 0 .. 2
        OBVIOUS
      <4>1. d = b - a /\ y = v - b
        BY <1>1, <1>2, <3>1, <3>5, <3>6
      <4>2. StepIs(T - 1, d, len) /\ PairIs(T - 1, d, y)
        BY <3>1, <4>1
      <4> QED
        BY <4>2 DEF StepIs, PairIs, h
    <3>9. NearCut(T, h, len, FarRounded, y, d)
      BY <1>1, <3>7, <3>8 DEF NearCut, h
    <3>10. T >= 2 => b = v - y
      BY <1>2, <3>1, <3>5
    <3>11. T >= 3 => a = (v - y) - d
      <4> SUFFICES ASSUME T >= 3 PROVE a = (v - y) - d
        OBVIOUS
      <4>1. a \in Int /\ b \in Int /\ b = a + d /\ b = v - y
        BY <1>1, <3>1, <3>6, <3>10
      <4> QED
        BY <1>2, <4>1
    <3> DEFINE i == I - T  j == r - T
    <3>12. PhaseAt(i, T, v, y, d, g)
      BY <1>1, <3>2, <3>10, <3>11 DEF PhaseAt
    <3>13. PhaseAt(j, T, v, y, d, w)
      BY <1>1, <3>3, <3>10, <3>11 DEF PhaseAt
    <3>14. /\ i \in -2 .. 1
           /\ i = 1 => T > h /\ ~(T = h + 1 /\ FarRounded)
           /\ i = -2 => T > h /\ (T >= h + 3 \/ ~FarRounded)
           /\ T = from + 1 => j \in -2 .. 0 /\ (i = -2 => j < 0)
           /\ T = from => j \in -1 .. 1 /\ (i = -2 => j <= 0)
           /\ T < from => j \in 0 .. 2 /\ (i = -2 => j = 0) /\ (i = -1 => j <= 1)
      BY <1>1, <3>4
    <3> DEFINE far == FarRounded
    <3>15. PICK s \in 1 .. 3 : /\ x = g + s
                               /\ s = 1 => j \in -2 .. 0 /\ (i = -2 => j < 0)
                               /\ s = 2 => j \in -1 .. 2 /\ (j = 2 => i \in {0, 1}) /\ (i = -2 => j <= 0)
                               /\ s = 3 => j \in 0 .. 2 /\ (i = -2 => j = 0) /\ (i = -1 => j <= 1)
      <4>1. T = from + 1 \/ T = from \/ T < from
        BY <1>1, <1>5
      <4> HIDE DEF i, j
      <4>2. CASE T = from + 1
        BY <1>1, <2>1, <3>14, <4>2
      <4>3. CASE T = from
        BY <1>1, <2>1, <3>14, <4>3
      <4>4. CASE T < from
        <5>1. CASE x = g + 3
          BY <1>1, <3>14, <4>4, <5>1
        <5>2. CASE x = g + 2
          BY <1>1, <3>14, <4>4, <5>2
        <5> QED
          BY <2>1, <4>4, <5>1, <5>2
      <4> QED
        BY <4>1, <4>2, <4>3, <4>4
    <3>16. j \in -2 .. 2
      BY <3>15
    <3>17. far \in BOOLEAN /\ NearCut(T, h, len, far, y, d)
      BY <3>9 DEF FarRounded
    <3>18. T <= len /\ T \in Nat /\ h \in Nat
      BY <1>1 DEF h
    <3>19. /\ i = 1 => T > h /\ ~(T = h + 1 /\ far)
           /\ i = -2 => T > h /\ (T >= h + 3 \/ ~far)
           /\ i \in -2 .. 1
      BY <3>14
    <3> HIDE DEF i, j, far
    <3>20. (g + s) - w \in -1 .. 5
      <4>1. Moves(T, h, len, far, v, y, d, i, j, g, w, s)
        BY <1>2, <3>12, <3>13, <3>15, <3>16, <3>17, <3>18, <3>19 DEF Moves
      <4> QED
        BY <4>1, InSteps, Zenon
    <3>21. w - 1 <= x /\ x <= w + 5
      BY <1>2, <3>15, <3>20
    <3> QED
      BY <1>2, <2>1, <3>21 DEF w
  <2> QED
    BY <2>2, <2>3
<1> QED
  BY <1>1, <1>4, <1>5

\* What the tracker reads of a trajectory tr at a time t.
ReferenceAt(tr, t) ==
  LET later == {i \in 1 .. Len(tr) : t < tr[i].time}
      i     == IF later = {} THEN Len(tr) ELSE CHOOSE j \in later : \A k \in later : j <= k
  IN tr[i].phase

\* The times of tr are even, the first one e periods after the trajectory is sent.
Times(tr, e) == \A i \in 1 .. Len(tr) : tr[i].time = ((i - 1) + e) * DC

LEMMA ReferenceAtIs ==
  ASSUME NEW tr, Len(tr) \in Nat, Len(tr) >= 1, NEW t \in Nat, NEW e \in {-1, 0, 1}, Times(tr, e)
  PROVE  ReferenceAt(tr, t) = tr[Least(Slot(t) + 2 - e, Len(tr))].phase
<1> DEFINE len == Len(tr)
           k == Slot(t)
           r == Least(k + 2 - e, len)
           later == {i \in 1 .. len : t < tr[i].time}
<1>1. /\ DC \in Nat \ {0} /\ k \in Nat /\ len \in Nat /\ len >= 1
      /\ DC * k <= t /\ t < DC * (k + 1)
  BY SolverAssumption, SlotIs
<1>2. \A i \in 1 .. len : tr[i].time = ((i - 1) + e) * DC
  BY DEF Times
<1> HIDE DEF k, len
<1>3. ASSUME NEW i \in 1 .. len
      PROVE  i \in later <=> i >= k + 2 - e
  <2> DEFINE m == (i - 1) + e
  <2>1. tr[i].time = m * DC /\ m \in Int /\ m * DC = DC * m
    BY <1>1, <1>2
  <2>2. i >= k + 2 - e <=> m >= k + 1
    BY <1>1
  <2> HIDE DEF m
  <2>3. CASE m >= k + 1
    <3>1. DC * (k + 1) <= DC * m
      BY <1>1, <2>1, <2>3, TimesAtMost
    <3>2. t < tr[i].time
      BY <1>1, <2>1, <3>1
    <3> QED
      BY <2>2, <2>3, <3>2
  <2>4. CASE ~(m >= k + 1)
    <3>1. m <= k
      BY <1>1, <2>1, <2>4
    <3>2. DC * m <= DC * k
      BY <1>1, <2>1, <3>1, TimesAtMost
    <3>3. ~(t < tr[i].time)
      BY <1>1, <2>1, <3>2
    <3> QED
      BY <2>2, <2>4, <3>3
  <2> QED
    BY <2>3, <2>4
<1>4. CASE k + 2 - e <= len
  <2>1. r = k + 2 - e /\ r \in 1 .. len
    BY <1>1, <1>4 DEF Least
  <2>2. r \in later /\ \A j \in later : r <= j
    BY <1>1, <1>3, <2>1
  <2>3. later # {} /\ \A j \in later : j \in Int
    BY <1>1, <2>2
  <2> HIDE DEF later, r
  <2>4. \A j \in later : (\A i \in later : j <= i) => j = r
    <3> SUFFICES ASSUME NEW j \in later, \A i \in later : j <= i PROVE j = r
      OBVIOUS
    <3>1. j <= r /\ r <= j /\ j \in Int /\ r \in Int
      BY <2>2, <2>3
    <3> QED
      BY <3>1
  <2>5. (CHOOSE j \in later : \A i \in later : j <= i) = r
    BY <2>2, <2>4
  <2> QED
    BY <2>3, <2>5 DEF ReferenceAt, later, r, len, k
<1>5. CASE ~(k + 2 - e <= len)
  <2>1. r = len /\ later = {}
    BY <1>1, <1>3, <1>5 DEF Least
  <2> QED
    BY <2>1 DEF ReferenceAt, len, k
<1> QED
  BY <1>4, <1>5

LEMMA ReferenceIs ==
  ASSUME PlanTime <= Lookahead, NEW tr, Len(tr) \in Nat, Len(tr) >= 2, NEW q, NEW e,
         SentAs(tr, q, e), NEW t \in Nat
  PROVE  /\ ReferenceAt(tr, t) = DC * q[Least(Slot(t) + 2 - e, Len(tr))]
         /\ Least(Slot(t) + 2 - e, Len(tr)) \in 1 .. Len(tr)
         /\ e \in {-1, 0, 1}
<1> DEFINE len == Len(tr)
           r == Least(Slot(t) + 2 - e, len)
<1>1. e \in {-1, 0, 1} /\ Slot(t) \in Nat /\ len >= 1 /\ len \in Nat
  <2>1. e \in Int /\ e <= 1 /\ e >= -1
    BY DEF SentAs
  <2>2. e \in {-1, 0, 1}
    BY <2>1
  <2>3. Slot(t) \in Nat
    BY SlotIs
  <2> QED
    BY <2>2, <2>3
<1>2. Times(tr, e) /\ \A i \in 1 .. len : tr[i].phase = DC * q[i]
  BY DEF SentAs, Times
<1>3. ReferenceAt(tr, t) = tr[r].phase
  BY <1>1, <1>2, ReferenceAtIs, Zenon
<1>4. r \in 1 .. len
  BY <1>1 DEF Least
<1> HIDE DEF r
<1> QED
  BY <1>1, <1>2, <1>3, <1>4 DEF r

\* So far a reference may move, in periods and in ticks.
LEMMA MovedBy ==
  ASSUME NEW w \in Int, NEW x \in Int, w - 1 <= x, x <= w + 5
  PROVE  DC * x >= DC * w - DC /\ DC * x <= DC * w + 5 * DC
<1>1. DC \in Nat
  BY SolverAssumption
<1>2. DC * (w - 1) <= DC * x /\ DC * x <= DC * (w + 5)
  BY <1>1, TimesAtMost
<1>3. DC * (w - 1) = DC * w - DC /\ DC * (w + 5) = DC * w + 5 * DC
  BY <1>1
<1> QED
  BY <1>1, <1>2, <1>3

\* Where the reference is at once when a plan is finished: in p, what was joined.
LEMMA ReferenceGoesTo ==
  ASSUME NEW len \in Nat, NEW I \in 1 .. len, NEW T \in 1 .. len, NEW from \in 2 .. len + 1,
         from <= T + 1, NEW q, NEW m \in Nat, m >= 2, NEW k \in Nat, k = SizeOf(T, from),
         NEW p, JoinsTo(p, q, I, from, k, m),
         NEW late, late = IF T >= from THEN 0 ELSE T - from
  PROVE  GoesTo(q, p[Least(2 - late, k + m)], m, I, T, from)
<1> DEFINE s == Least(2 - late, k + m)
<1>1. /\ \A i \in 1 .. k : p[i] = q[from + i - 1]
      /\ \A j \in 1 .. m : p[k + j] = q[I] + j
  BY Zenon DEF JoinsTo
<1>2. k = IF T > from THEN T - from ELSE 0
  BY DEF SizeOf
<1>3. T > from + 1 => p[s] = q[from + 1]
  <2> SUFFICES ASSUME T > from + 1 PROVE p[s] = q[from + 1]
    OBVIOUS
  <2>1. s = 2 /\ 2 \in 1 .. k /\ from + 2 - 1 = from + 1
    BY <1>2 DEF Least
  <2> HIDE DEF s
  <2>2. p[2] = q[from + 2 - 1]
    BY <1>1, <2>1, Zenon
  <2> QED
    BY <2>1, <2>2
<1>4. T = from + 1 => p[s] = q[I] + 1
  <2> SUFFICES ASSUME T = from + 1 PROVE p[s] = q[I] + 1
    OBVIOUS
  <2>1. s = k + 1 /\ 1 \in 1 .. m
    BY <1>2 DEF Least
  <2> HIDE DEF s
  <2> QED
    BY <1>1, <2>1, Zenon
<1>5. T = from => p[s] = q[I] + 2
  <2> SUFFICES ASSUME T = from PROVE p[s] = q[I] + 2
    OBVIOUS
  <2>1. s = k + 2 /\ 2 \in 1 .. m
    BY <1>2 DEF Least
  <2> HIDE DEF s
  <2> QED
    BY <1>1, <2>1, Zenon
<1>6. T < from => p[s] = q[I] + (IF m >= 3 THEN 3 ELSE 2)
  <2> SUFFICES ASSUME T < from PROVE p[s] = q[I] + (IF m >= 3 THEN 3 ELSE 2)
    OBVIOUS
  <2> DEFINE j == IF m >= 3 THEN 3 ELSE 2
  <2>1. s = k + j /\ j \in 1 .. m
    BY <1>2 DEF Least
  <2> HIDE DEF s, j
  <2>2. p[s] = q[I] + j
    BY <1>1, <2>1, Zenon
  <2> QED
    BY <2>2 DEF j
<1> QED
  BY <1>3, <1>4, <1>5, <1>6 DEF GoesTo

LEMMA FinishMovesOn ==
  ASSUME SeamAssumption, PlanTime <= Lookahead, SeamInv, NEW m \in Samples, Joining!FinishPlan(m)
  PROVE  /\ Joining!Reference' >= Joining!Reference - DC
         /\ Joining!Reference' <= Joining!Reference + 5 * DC
<1> DEFINE T == Joining!TrajInd
           from == Joining!StartInd
           k == KeptSize
           len == Len(sentTraj)
           tr == sentTraj'
<1>1. /\ m \in Nat /\ m >= 2 /\ len \in Nat /\ len >= 2 /\ age \in Nat
      /\ planning /\ age' = 0
  <2>1. m \in Nat /\ m >= 2 /\ len \in Nat /\ len >= 2 /\ age \in Nat
    BY SamplesAre DEF SeamInv
  <2>2. planning /\ age' = 0
    BY DEF Joining!FinishPlan
  <2> QED
    BY <2>1, <2>2
<1>2. PICK I \in Joining!InitialInds :
        tr = Joining!Kept \o Joining!Planned(sentTraj[I].phase, (T - from) * DC, m)
  BY DEF Joining!FinishPlan
<1>3. PICK q, e : SentAs(sentTraj, q, e)
  BY DEF SeamInv
<1>4. PICK f \in Nat, c \in Nat, n \in Nat :
        /\ Cut(len, f, c, n, I, T, from)
        /\ PlanTime <= Lookahead => InTime(f, c, n, Slot(age))
  BY <1>1, Cuts, Zenon
<1> DEFINE p == JoinedPhases(q, I, from, k, m)
           late == IF T >= from THEN 0 ELSE T - from
           r == Least(Slot(age) + 2 - e, len)
           s == Least(2 - late, k + m)
<1>5. I \in 1 .. len /\ T \in 1 .. len /\ from \in 2 .. len + 1
  BY <1>1, <1>4, CutIs
<1>6. SentAs(tr, p, late)
  BY <1>2, <1>3, FinishKeepsSeams, Zenon
<1>7. Len(tr) = k + m /\ k \in Nat
  BY <1>2, <1>5, FinishIs, Zenon
<1>8. Grows(q, len) /\ (e # 0 => \A i \in 2 .. len : q[i] = q[i - 1] + 1)
  BY <1>3 DEF SentAs
<1>9. k = SizeOf(T, from) /\ from + k <= len + 1 /\ from <= T + 1
  <2>1. k = SizeOf(T, from)
    BY DEF KeptSize
  <2>2. from <= T + 1
    BY <1>1, <1>4 DEF Cut, InTime, Least
  <2> HIDE DEF k
  <2> QED
    BY <1>1, <1>5, <2>1, <2>2 DEF SizeOf
<1>10. JoinsTo(p, q, I, from, k, m)
  <2>1. q \in [1 .. len -> Int]
    BY <1>8 DEF Grows
  <2> QED
    BY <1>1, <1>5, <1>7, <1>9, <2>1, JoinedPhasesAre, Zenon
<1>11. Joining!Reference = DC * q[r] /\ e \in {-1, 0, 1}
  <2>1. Joining!Reference = ReferenceAt(sentTraj, age)
    BY DEF Joining!Reference, ReferenceAt
  <2> QED
    BY <1>1, <1>3, <2>1, ReferenceIs, Zenon
<1>12. Joining!Reference' = DC * p[s]
  <2>1. Joining!Reference' = ReferenceAt(tr, 0)
    BY <1>1 DEF Joining!Reference, ReferenceAt
  <2>2. Len(tr) \in Nat /\ Len(tr) >= 2 /\ 0 \in Nat
    BY <1>1, <1>7
  <2>3. ReferenceAt(tr, 0) = DC * p[Least(Slot(0) + 2 - late, Len(tr))]
    BY <1>6, <2>2, ReferenceIs, Zenon
  <2>4. Slot(0) = 0
    BY SolverAssumption DEF Slot
  <2>5. late \in Int
    BY <1>5
  <2> HIDE DEF late
  <2>6. Slot(0) + 2 - late = 2 - late
    BY <2>4, <2>5
  <2> QED
    BY <1>7, <2>1, <2>3, <2>6
<1> HIDE DEF p, k
<1>13. GoesTo(q, p[s], m, I, T, from)
  <2> HIDE DEF T, from
  <2> QED
    BY <1>1, <1>5, <1>7, <1>9, <1>10, ReferenceGoesTo
<1>14. p[s] \in Int /\ q[r] \in Int /\ q[r] - 1 <= p[s] /\ p[s] <= q[r] + 5
  <2>1. Slot(age) \in Nat /\ InTime(f, c, n, Slot(age))
    BY <1>1, <1>4, SlotIs
  <2> HIDE DEF T, from, s
  <2>2. MovesOn(q, len, f, c, n, I, T, from, Slot(age), e, m, p[s], r)
    BY <1>1, <1>4, <1>8, <1>11, <1>13, <2>1 DEF MovesOn, r
  <2> QED
    BY <2>2, ReferenceMovesOn, Zenon
<1> HIDE DEF r, s
<1>15. DC * p[s] >= DC * q[r] - DC /\ DC * p[s] <= DC * q[r] + 5 * DC
  BY <1>14, MovedBy
<1> QED
  BY <1>11, <1>12, <1>15

\* Time goes on by a tick: the reference stays, or is the next sample.
LEMMA TickMovesOn ==
  ASSUME SeamAssumption, PlanTime <= Lookahead, SeamInv, Joining!Tick
  PROVE  /\ Joining!Reference' >= Joining!Reference - DC
         /\ Joining!Reference' <= Joining!Reference + 5 * DC
<1> DEFINE len == Len(sentTraj)
<1>1. /\ age \in Nat /\ len \in Nat /\ len >= 2 /\ DC \in Nat \ {0}
      /\ age' = age + 1 /\ sentTraj' = sentTraj
  BY SolverAssumption DEF SeamInv, Joining!Tick
<1>2. PICK q, e : SentAs(sentTraj, q, e)
  BY DEF SeamInv
<1>3. Grows(q, len)
  BY <1>2 DEF SentAs
<1> DEFINE r == Least(Slot(age) + 2 - e, len)
           s == Least(Slot(age + 1) + 2 - e, len)
<1>4. Joining!Reference = DC * q[r] /\ r \in 1 .. len /\ e \in {-1, 0, 1}
  <2>1. Joining!Reference = ReferenceAt(sentTraj, age)
    BY DEF Joining!Reference, ReferenceAt
  <2> QED
    BY <1>1, <1>2, <2>1, ReferenceIs, Zenon
<1>5. Joining!Reference' = DC * q[s] /\ s \in 1 .. len
  <2>1. Joining!Reference' = ReferenceAt(sentTraj, age + 1)
    BY <1>1 DEF Joining!Reference, ReferenceAt
  <2>2. age + 1 \in Nat
    BY <1>1
  <2> QED
    BY <1>1, <1>2, <2>1, <2>2, ReferenceIs, Zenon
<1>6. Slot(age) \in Nat /\ Slot(age + 1) \in {Slot(age), Slot(age) + 1}
  <2>1. age + 1 \in Nat \ {0} /\ (age + 1) - 1 = age
    BY <1>1
  <2>2. Slot((age + 1) - 1) \in {Slot(age + 1), Slot(age + 1) - 1}
    BY <2>1, SlotBefore
  <2>3. Slot(age) \in Nat /\ Slot(age + 1) \in Nat
    BY <1>1, <2>1, SlotIs
  <2> QED
    BY <2>1, <2>2, <2>3
<1>7. s = r \/ (s = r + 1 /\ s \in 2 .. len)
  BY <1>1, <1>4, <1>5, <1>6 DEF Least
<1> HIDE DEF r, s
<1>8. q[s] \in Int /\ q[r] \in Int /\ q[r] - 1 <= q[s] /\ q[s] <= q[r] + 5
  <2>1. q[s] \in Int /\ q[r] \in Int
    BY <1>3, <1>4, <1>5 DEF Grows
  <2>2. CASE s = r
    BY <2>1, <2>2
  <2>3. CASE s = r + 1 /\ s \in 2 .. len
    <3>1. q[s] - q[s - 1] \in -1 .. 3 /\ s - 1 = r
      BY <1>1, <1>3, <1>4, <2>3, StepAt DEF StepIs
    <3> QED
      BY <2>1, <3>1
  <2> QED
    BY <1>7, <2>2, <2>3
<1> QED
  BY <1>4, <1>5, <1>8, MovedBy

LEMMA ReferenceStep ==
  ASSUME SeamAssumption, PlanTime <= Lookahead, SeamInv, [Joining!Next]_(Joining!vars)
  PROVE  [/\ Joining!Reference' >= Joining!Reference - DC
          /\ ~planning' => Joining!Reference' <= Joining!Reference + 5 * DC]_(Joining!vars)
<1>1. ASSUME UNCHANGED <<sentTraj, age>>
      PROVE  /\ Joining!Reference' >= Joining!Reference - DC
             /\ Joining!Reference' <= Joining!Reference + 5 * DC
  <2>1. Joining!Reference' = Joining!Reference
    BY <1>1 DEF Joining!Reference
  <2>2. PICK q, e : SentAs(sentTraj, q, e)
    BY DEF SeamInv
  <2>3. age \in Nat /\ Len(sentTraj) \in Nat /\ Len(sentTraj) >= 2
    BY DEF SeamInv
  <2> DEFINE r == Least(Slot(age) + 2 - e, Len(sentTraj))
  <2>4. Joining!Reference = DC * q[r] /\ r \in 1 .. Len(sentTraj)
    <3>1. Joining!Reference = ReferenceAt(sentTraj, age)
      BY DEF Joining!Reference, ReferenceAt
    <3> QED
      BY <2>2, <2>3, <3>1, ReferenceIs, Zenon
  <2> HIDE DEF r
  <2>5. q[r] \in Int
    BY <2>2, <2>4 DEF SentAs, Grows
  <2>6. q[r] - 1 <= q[r] /\ q[r] <= q[r] + 5
    BY <2>5
  <2> QED
    BY <2>1, <2>4, <2>5, <2>6, MovedBy
<1>2. CASE Joining!Tick
  BY <1>2, TickMovesOn
<1>3. CASE Joining!StartPlan
  BY <1>1, <1>3 DEF Joining!StartPlan
<1>4. CASE \E m \in Samples : Joining!FinishPlan(m)
  BY <1>4, FinishMovesOn
<1>5. CASE Joining!FailPlan
  BY <1>1, <1>5 DEF Joining!FailPlan
<1> QED
  BY <1>2, <1>3, <1>4, <1>5 DEF Joining!Next

\* If a plan takes no longer than it looks ahead, what the tracker reads of the joined
\* trajectories goes back by one sample at most, and ahead by no more than five at a time, over
\* any number of plans.
THEOREM ReferenceKeepsUp ==
  ASSUME SeamAssumption, PlanTime <= Lookahead
  PROVE  Spec => ReferenceGoesOn
<1>1. SeamInv /\ [Joining!Next]_(Joining!vars) =>
        /\ SeamInv'
        /\ [/\ Joining!Reference' >= Joining!Reference - DC
            /\ ~planning' => Joining!Reference' <= Joining!Reference + 5 * DC]_(Joining!vars)
  BY SeamStep, ReferenceStep
<1>2. Joining!Spec => ReferenceGoesOn
  BY <1>1, FirstSeams, PTL DEF Joining!Spec, ReferenceGoesOn, Joining!ReferenceGoesOn
<1> QED
  BY <1>2, JoinsLikeStitching, PTL DEF ImplementsStitching


-----------------------------------------------------------------------------
(* The corridor.  A least element takes induction's place: the first polytope for which *)
(* a claim failed would have one before it.                                              *)

LEMMA LeastExists ==
  ASSUME NEW S, S \subseteq Nat, S # {}
  PROVE  \E x \in S : \A y \in S : x <= y
<1> DEFINE R == OpToRel(<, Nat)
<1>1. IsWellFoundedOn(R, Nat)
  BY NatLessThanWellFounded
<1>2. \A x, y \in Nat : y < x => <<y, x>> \in R
  BY DEF OpToRel
<1> HIDE DEF R
<1>3. \E x \in S : \A y \in S : <<y, x>> \notin R
  BY <1>1, WFMin
<1>4. PICK x \in S : \A y \in S : <<y, x>> \notin R
  BY <1>3
<1>5. ASSUME NEW y \in S PROVE x <= y
  <2>1. x \in Nat /\ y \in Nat
    OBVIOUS
  <2>2. ~(y < x)
    BY <1>2, <1>4, <2>1
  <2> QED
    BY <2>1, <2>2
<1> QED
  BY <1>5

\* Where a shortcut leads from a polytope.
LEMMA EarliestIs ==
  ASSUME NEW c, NEW i \in Nat, i >= 2
  PROVE  /\ Earliest(c, i) \in 1 .. i - 1
         /\ <<Earliest(c, i), i>> \in c.wide \/ Earliest(c, i) = i - 1
<1> DEFINE S == {j \in 1 .. i - 1 : <<j, i>> \in c.wide \/ j = i - 1}
<1>1. S \subseteq Nat /\ i - 1 \in S
  OBVIOUS
<1>2. PICK j \in S : \A k \in S : j <= k
  <2>1. S # {}
    BY <1>1
  <2> HIDE DEF S
  <2> QED
    BY <1>1, <2>1, LeastExists
<1>3. \A k \in 1 .. j - 1 : <<k, i>> \notin c.wide
  <2> SUFFICES ASSUME NEW k \in 1 .. j - 1, <<k, i>> \in c.wide PROVE FALSE
    OBVIOUS
  <2>1. j \in 1 .. i - 1
    OBVIOUS
  <2>2. k \in 1 .. i - 1 /\ k < j /\ k \in Int /\ j \in Int
    BY <2>1
  <2>3. k \in S
    BY <2>2
  <2> HIDE DEF S
  <2>4. j <= k
    BY <1>2, <2>3
  <2> QED
    BY <2>2, <2>4
<1>4. \E k \in 1 .. i - 1 : /\ <<k, i>> \in c.wide \/ k = i - 1
                            /\ \A l \in 1 .. k - 1 : <<l, i>> \notin c.wide
  BY <1>3
<1> QED
  BY <1>4, Zenon DEF Earliest

\* The corridors from the first polytope to each of the first n.
Back(g, c, n) ==
  g = [i \in 1 .. n |-> IF i = 1 THEN <<1>> ELSE Append(g[Earliest(c, i)], i)]

LEMMA BackExists ==
  ASSUME NEW c, NEW n \in Nat
  PROVE  \E g : Back(g, c, n)
<1> DEFINE S == {m \in Nat : ~ \E g : Back(g, c, m)}
<1> SUFFICES ASSUME S # {} PROVE FALSE
  OBVIOUS
<1>1. PICK m \in S : \A k \in S : m <= k
  <2>1. S \subseteq Nat
    OBVIOUS
  <2> HIDE DEF S
  <2> QED
    BY <2>1, LeastExists
<1>2. m \in Nat /\ ~ \E g : Back(g, c, m)
  OBVIOUS
<1>3. CASE m = 0
  <2> DEFINE g == [i \in 1 .. 0 |-> <<1>>]
  <2>1. g = [i \in 1 .. 0 |-> IF i = 1 THEN <<1>> ELSE Append(g[Earliest(c, i)], i)]
    OBVIOUS
  <2> HIDE DEF g
  <2>2. Back(g, c, m)
    BY <1>3, <2>1 DEF Back
  <2> QED
    BY <1>2, <2>2
<1>4. CASE m # 0
  <2>1. m - 1 \in Nat /\ ~(m <= m - 1)
    BY <1>2, <1>4
  <2>2. PICK h : Back(h, c, m - 1)
    BY <1>1, <2>1
  <2> DEFINE g == [i \in 1 .. m |-> IF i < m THEN h[i]
                                    ELSE IF i = 1 THEN <<1>> ELSE Append(h[Earliest(c, i)], i)]
  <2>3. ASSUME NEW i \in 1 .. m
        PROVE  g[i] = IF i = 1 THEN <<1>> ELSE Append(g[Earliest(c, i)], i)
    <3>1. i # 1 => Earliest(c, i) \in 1 .. m /\ Earliest(c, i) < m
      <4>1. ASSUME i # 1 PROVE i \in Nat /\ i >= 2
        BY <1>2, <4>1
      <4>2. ASSUME i # 1 PROVE Earliest(c, i) \in 1 .. i - 1
        BY <4>1, <4>2, EarliestIs
      <4> QED
        BY <1>2, <4>2
    <3>2. i # 1 => g[Earliest(c, i)] = h[Earliest(c, i)]
      BY <3>1
    <3>3. CASE i < m
      <4>1. i \in 1 .. m - 1 /\ g[i] = h[i]
        BY <1>2, <3>3
      <4>2. h[i] = IF i = 1 THEN <<1>> ELSE Append(h[Earliest(c, i)], i)
        BY <2>2, <4>1 DEF Back
      <4> HIDE DEF g
      <4> QED
        BY <3>2, <4>1, <4>2
    <3>4. CASE ~(i < m)
      <4>1. g[i] = IF i = 1 THEN <<1>> ELSE Append(h[Earliest(c, i)], i)
        BY <3>4
      <4> HIDE DEF g
      <4> QED
        BY <3>2, <4>1
    <3> QED
      BY <3>3, <3>4
  <2>4. g = [i \in 1 .. m |-> g[i]]
    OBVIOUS
  <2> HIDE DEF g
  <2>5. Back(g, c, m)
    BY <2>3, <2>4 DEF Back
  <2> QED
    BY <1>2, <2>5
<1> QED
  BY <1>3, <1>4

\* A sequence of polytopes that leads to the i-th.
Leads(s, c, i) ==
  /\ s \in Seq(Nat) /\ Len(s) >= 1 /\ (i >= 2 => Len(s) >= 2)
  /\ s[1] = 1 /\ s[Len(s)] = i
  /\ \A p \in 1 .. Len(s) - 1 : <<s[p], s[p + 1]>> \in c.wide \/ s[p + 1] \in {s[p], s[p] + 1}

LEMMA AppendLeads ==
  ASSUME NEW c, NEW s, NEW j \in Nat, NEW i \in Nat, Leads(s, c, j),
         <<j, i>> \in c.wide \/ j = i - 1
  PROVE  Leads(Append(s, i), c, i)
<1> DEFINE t == Append(s, i)
           len == Len(s)
<1>1. /\ s \in Seq(Nat) /\ len \in Nat /\ len >= 1 /\ s[1] = 1 /\ s[len] = j
      /\ \A p \in 1 .. len - 1 : <<s[p], s[p + 1]>> \in c.wide \/ s[p + 1] \in {s[p], s[p] + 1}
  BY DEF Leads
<1>2. t \in Seq(Nat) /\ Len(t) = len + 1 /\ t[len + 1] = i
  BY <1>1
<1>3. \A p \in 1 .. len : t[p] = s[p]
  BY <1>1
<1> HIDE DEF t, len
<1>4. t[1] = 1 /\ t[len] = j
  <2>1. 1 \in 1 .. len /\ len \in 1 .. len
    BY <1>1
  <2> QED
    BY <1>1, <1>3, <2>1
<1>5. ASSUME NEW p \in 1 .. Len(t) - 1
      PROVE  <<t[p], t[p + 1]>> \in c.wide \/ t[p + 1] \in {t[p], t[p] + 1}
  <2>1. CASE p = len
    <3>1. t[p] = j /\ t[p + 1] = i
      BY <1>2, <1>4, <2>1
    <3>2. CASE j = i - 1
      BY <3>1, <3>2
    <3> QED
      BY <3>1, <3>2
  <2>2. CASE p # len
    <3>1. p \in 1 .. len - 1 /\ p \in 1 .. len /\ p + 1 \in 1 .. len
      BY <1>1, <1>2, <2>2
    <3> QED
      BY <1>1, <1>3, <3>1
  <2> QED
    BY <2>1, <2>2
<1>6. Len(t) >= 2
  BY <1>1, <1>2
<1> QED
  BY <1>1, <1>2, <1>4, <1>5, <1>6 DEF Leads, t

LEMMA BackLeads ==
  ASSUME NEW c, NEW n \in Nat, NEW g, Back(g, c, n), NEW i \in 1 .. n
  PROVE  Leads(g[i], c, i)
<1> DEFINE S == {m \in 1 .. n : ~Leads(g[m], c, m)}
<1> SUFFICES ASSUME S # {} PROVE FALSE
  OBVIOUS
<1>1. PICK m \in S : \A k \in S : m <= k
  <2>1. S \subseteq Nat
    OBVIOUS
  <2> HIDE DEF S
  <2> QED
    BY <2>1, LeastExists
<1>2. m \in 1 .. n /\ ~Leads(g[m], c, m)
  OBVIOUS
<1>3. g[m] = IF m = 1 THEN <<1>> ELSE Append(g[Earliest(c, m)], m)
  BY <1>2 DEF Back
<1>4. CASE m = 1
  BY <1>2, <1>3, <1>4 DEF Leads
<1>5. CASE m # 1
  <2> DEFINE j == Earliest(c, m)
  <2>1. m \in Nat /\ m >= 2
    BY <1>2, <1>5
  <2>2. j \in 1 .. m - 1 /\ (<<j, m>> \in c.wide \/ j = m - 1)
    BY <2>1, EarliestIs
  <2> HIDE DEF j
  <2>3. j \in 1 .. n /\ j \in Nat /\ ~(m <= j)
    BY <1>2, <2>1, <2>2
  <2>4. Leads(g[j], c, j)
    BY <1>1, <2>3
  <2>5. Leads(Append(g[j], m), c, m)
    BY <2>1, <2>2, <2>3, <2>4, AppendLeads
  <2> QED
    BY <1>2, <1>3, <1>5, <2>5 DEF j
<1> QED
  BY <1>4, <1>5

LEMMA ShortCutIs ==
  ASSUME NEW c, c.size \in Nat \ {0}
  PROVE  IF c.size = 1 THEN shortCut(c) = <<1, 1>> ELSE Leads(shortCut(c), c, c.size)
<1>1. CASE c.size = 1
  BY <1>1 DEF shortCut
<1>2. CASE c.size # 1
  <2> DEFINE g == CHOOSE h : Back(h, c, c.size)
  <2>1. Back(g, c, c.size)
    BY BackExists, Zenon
  <2>2. shortCut(c) = g[c.size]
    BY <1>2, Zenon DEF shortCut, Back
  <2> HIDE DEF g
  <2>3. Leads(g[c.size], c, c.size)
    <3>1. c.size \in 1 .. c.size
      OBVIOUS
    <3> QED
      BY <2>1, <3>1, BackLeads
  <2> QED
    BY <1>2, <2>2, <2>3
<1> QED
  BY <1>1, <1>2

\* A corridor is what its polytopes' path goes through, for covers of any size.
THEOREM CorridorsLeadThrough == Spec => []CorridorLeadsThrough
<1>1. Init => CorridorLeadsThrough
  BY DEF Init, CorridorLeadsThrough
<1>2. CorridorLeadsThrough /\ [Next]_vars => CorridorLeadsThrough'
  <2> SUFFICES ASSUME CorridorLeadsThrough, [Next]_vars, stage' = "corridor"
               PROVE  CorridorLeadsThrough'
    BY DEF CorridorLeadsThrough
  <2>1. CASE createCorridorJPS
    <3>1. PICK c \in Covers(MaxPolys) : cover' = c /\ hPolys' = shortCut(c)
      BY <2>1 DEF createCorridorJPS
    <3>2. c.size \in Nat \ {0}
      BY ReplanningAssumption DEF Covers
    <3>3. CASE c.size = 1
      <4>1. hPolys' = <<1, 1>>
        BY <3>1, <3>2, <3>3, ShortCutIs
      <4> QED
        BY <3>1, <3>3, <4>1 DEF CorridorLeadsThrough
    <3>4. CASE c.size # 1
      <4>1. Leads(hPolys', c, c.size)
        BY <3>1, <3>2, <3>4, ShortCutIs
      <4>2. c.size >= 2
        BY <3>2, <3>4
      <4> QED
        BY <3>1, <4>1, <4>2 DEF CorridorLeadsThrough, Leads
    <3> QED
      BY <3>3, <3>4
  <2>2. CASE Tick \/ Solve \/ UNCHANGED vars
    <3>1. UNCHANGED <<stage, cover, hPolys>>
      BY <2>2 DEF Tick, Solve, vars, corridor_vars
    <3> QED
      BY <3>1 DEF CorridorLeadsThrough
  <2>3. CASE StartPlan \/ PathFails \/ GenNewTraj \/ PlanSucceeds \/ PlanFails
    BY <2>3 DEF StartPlan, PathFails, GenNewTraj, PlanSucceeds, PlanFails
  <2> QED
    BY <2>1, <2>2, <2>3 DEF Next
<1> QED
  BY <1>1, <1>2, PTL DEF Spec

-----------------------------------------------------------------------------
(* Recursion over a range of numbers.                                         *)

\* Induction over a range, from its least number up.
LEMMA Upwards ==
  ASSUME NEW n \in Nat, NEW S, 0 \in S, \A i \in 1 .. n : i - 1 \in S => i \in S
  PROVE  \A i \in 0 .. n : i \in S
<1> DEFINE W == {i \in 0 .. n : i \notin S}
<1> SUFFICES ASSUME W # {} PROVE FALSE
  OBVIOUS
<1>1. PICK k \in W : \A y \in W : k <= y
  <2>1. W \subseteq Nat
    OBVIOUS
  <2> HIDE DEF W
  <2> QED
    BY <2>1, LeastExists
<1>2. k \in 1 .. n /\ k - 1 \in 0 .. n /\ ~(k <= k - 1)
  OBVIOUS
<1>3. k - 1 \in S
  BY <1>1, <1>2
<1> QED
  BY <1>2, <1>3

\* And from its greatest down.
LEMMA Downwards ==
  ASSUME NEW n \in Nat, NEW S, n \in S, \A i \in 0 .. n - 1 : i + 1 \in S => i \in S
  PROVE  \A i \in 0 .. n : i \in S
<1> DEFINE T == {i \in 0 .. n : n - i \in S}
<1>1. 0 \in T
  OBVIOUS
<1>2. ASSUME NEW i \in 1 .. n, i - 1 \in T PROVE i \in T
  <2>1. n - i \in 0 .. n - 1 /\ (n - i) + 1 = n - (i - 1)
    OBVIOUS
  <2> QED
    BY <1>2, <2>1
<1>3. \A i \in 0 .. n : i \in T
  <2> HIDE DEF T
  <2> QED
    BY <1>1, <1>2, Upwards
<1>4. ASSUME NEW i \in 0 .. n PROVE i \in S
  <2>1. n - i \in 0 .. n /\ n - (n - i) = i
    OBVIOUS
  <2> QED
    BY <1>3, <2>1
<1> QED
  BY <1>4

\* A function whose every value is made of the one before.
MadeOf(g, a, n, F) == g[0] = a /\ \A i \in 1 .. n : g[i] = F[<<i, g[i - 1]>>]

\* A recursion over a range has a function that solves it.
LEMMA RecursionExists ==
  ASSUME NEW V, NEW a \in V, NEW n \in Nat, NEW F \in [(0 .. n) \X V -> V]
  PROVE  \E g \in [0 .. n -> V] : MadeOf(g, a, n, F)
<1> DEFINE Up(g, m) == g[0] = a /\ \A i \in 1 .. m : g[i] = F[<<i, g[i - 1]>>]
           S == {m \in 0 .. n : \E g \in [0 .. m -> V] : Up(g, m)}
<1>1. 0 \in S
  <2> DEFINE g == [i \in 0 .. 0 |-> a]
  <2>1. g \in [0 .. 0 -> V] /\ Up(g, 0)
    OBVIOUS
  <2> HIDE DEF g
  <2>2. 0 \in 0 .. n
    OBVIOUS
  <2> HIDE DEF Up
  <2> QED
    BY <2>1, <2>2
<1>2. ASSUME NEW m \in 1 .. n, m - 1 \in S PROVE m \in S
  <2>1. PICK h \in [0 .. m - 1 -> V] : Up(h, m - 1)
    BY <1>2
  <2> DEFINE v == F[<<m, h[m - 1]>>]
             g == [i \in 0 .. m |-> IF i = m THEN v ELSE h[i]]
  <2>2. v \in V
    <3>1. <<m, h[m - 1]>> \in (0 .. n) \X V
      OBVIOUS
    <3> QED
      BY <3>1
  <2> HIDE DEF v
  <2>3. g \in [0 .. m -> V] /\ g[m] = v /\ \A i \in 0 .. m - 1 : g[i] = h[i]
    BY <2>2
  <2> HIDE DEF g
  <2>4. Up(g, m)
    <3>1. g[0] = a
      BY <2>1, <2>3
    <3>2. ASSUME NEW i \in 1 .. m PROVE g[i] = F[<<i, g[i - 1]>>]
      <4>1. i - 1 \in 0 .. m - 1 /\ g[i - 1] = h[i - 1]
        BY <2>3
      <4>2. CASE i = m
        BY <2>3, <4>1, <4>2 DEF v
      <4>3. CASE i # m
        <5>1. i \in 1 .. m - 1 /\ i \in 0 .. m - 1
          BY <4>3
        <5> QED
          BY <2>1, <2>3, <4>1, <5>1
      <4> QED
        BY <4>2, <4>3
    <3> QED
      BY <3>1, <3>2
  <2> QED
    BY <2>3, <2>4
<1>3. n \in S
  <2> HIDE DEF S
  <2> QED
    BY <1>1, <1>2, Upwards
<1> QED
  BY <1>3 DEF MadeOf

-----------------------------------------------------------------------------
(* fillX's walk over the segments.                                            *)

\* What the segment of a sample is made of: the sample and the segment of the one before.
SegmentAfter(i, last, dt) == IF i * DC > dt * (last + 1) /\ last < N - 1 THEN last + 1 ELSE last

Walked(g, f, d) ==
  g = [i \in 0 .. XSizeOf(f, d) |-> IF i = 0 THEN 0 ELSE SegmentAfter(i, g[i - 1], findDT(f, d))]

\* A segment lasts two sample periods at least, and the samples end with the segments.
LEMMA DurationIs ==
  ASSUME NEW f \in Nat \ {0}, NEW d \in Nat
  PROVE  /\ findDT(f, d) \in Nat /\ findDT(f, d) >= 2 * DC /\ DC \in Nat \ {0} /\ N \in Nat \ {0}
         /\ XSizeOf(f, d) \in Nat /\ XSizeOf(f, d) * DC <= N * findDT(f, d)
<1> DEFINE l == Larger(d, 2 * DC)
           dt == f * l
           q == (N * dt) \div DC
<1>1. DC \in Nat \ {0} /\ N \in Nat \ {0}
  BY SolverAssumption
<1>2. l \in Nat /\ l >= 2 * DC
  BY <1>1 DEF Larger
<1> HIDE DEF l
<1>3. dt \in Nat /\ dt >= 2 * DC
  <2>1. 1 * l <= f * l
    BY <1>2
  <2> QED
    BY <1>1, <1>2, <2>1
<1> HIDE DEF dt
<1>4. N * dt \in Nat /\ N * dt >= 2 * DC
  <2>1. 1 * dt <= N * dt
    BY <1>1, <1>3
  <2> QED
    BY <1>1, <1>3, <2>1
<1>5. q \in Nat /\ q * DC <= N * dt /\ q >= 2
  <2> DEFINE a == N * dt
  <2> HIDE DEF a
  <2>1. ASSUME NEW b \in Nat, b >= 2 * DC
        PROVE  b \div DC \in Nat /\ (b \div DC) * DC <= b /\ b \div DC >= 2
    BY <1>1, <2>1
  <2> QED
    BY <1>4, <2>1
<1>6. XSizeOf(f, d) = q
  BY <1>5 DEF XSizeOf, Larger, findDT, dt, l
<1> QED
  BY <1>1, <1>3, <1>5, <1>6 DEF findDT, dt, l

\* The walk comes to every sample's segment: the sample is after its start and not after its end.
LEMMA SegmentIs ==
  ASSUME NEW f \in Nat \ {0}, NEW d \in Nat, NEW g, Walked(g, f, d)
  PROVE  \A i \in 1 .. XSizeOf(f, d) :
           /\ g[i] \in 0 .. N - 1
           /\ findDT(f, d) * g[i] < i * DC /\ i * DC <= findDT(f, d) * (g[i] + 1)
<1> DEFINE dt == findDT(f, d)
           n == XSizeOf(f, d)
           Good(i) == /\ g[i] \in 0 .. N - 1
                      /\ dt * g[i] <= i * DC /\ i * DC <= dt * (g[i] + 1)
                      /\ i > 0 => dt * g[i] < i * DC
           S == {i \in 0 .. n : Good(i)}
<1>1. dt \in Nat /\ dt >= 2 * DC /\ DC \in Nat \ {0} /\ N \in Nat \ {0} /\ n \in Nat /\ n * DC <= N * dt
  BY DurationIs
<1>2. /\ g[0] = 0
      /\ \A i \in 1 .. n : g[i] = SegmentAfter(i, g[i - 1], dt)
  <2>1. g = [i \in 0 .. n |-> IF i = 0 THEN 0 ELSE SegmentAfter(i, g[i - 1], dt)]
    BY Zenon DEF Walked
  <2> HIDE DEF dt, n
  <2>2. \A i \in 0 .. n : g[i] = IF i = 0 THEN 0 ELSE SegmentAfter(i, g[i - 1], dt)
    BY <2>1, Zenon
  <2> QED
    BY <1>1, <2>2
<1> HIDE DEF dt, n
<1>3. 0 \in S
  <2>1. dt * 0 = 0 /\ 0 * DC = 0 /\ dt * (0 + 1) = dt
    BY <1>1
  <2> QED
    BY <1>1, <1>2, <2>1
<1>4. ASSUME NEW i \in 1 .. n, i - 1 \in S PROVE i \in S
  <2> DEFINE u == g[i - 1]
             t == i * DC
  <2>1. /\ u \in 0 .. N - 1 /\ dt * u <= (i - 1) * DC /\ (i - 1) * DC <= dt * (u + 1)
    BY <1>4
  <2>2. (i - 1) * DC = t - DC /\ t \in Nat /\ t <= N * dt /\ i \in 0 .. n
    <3>1. i * DC <= n * DC
      BY <1>1
    <3> QED
      BY <1>1, <3>1
  <2>3. g[i] = IF t > dt * (u + 1) /\ u < N - 1 THEN u + 1 ELSE u
    BY <1>2 DEF SegmentAfter
  <2> HIDE DEF u, t
  <2> DEFINE w == dt * u
             v == dt * (u + 1)
  <2>4. v = w + dt /\ dt * ((u + 1) + 1) = v + dt /\ w \in Nat /\ v \in Nat
    BY <1>1, <2>1
  <2>5. u = N - 1 => v = N * dt
    BY <1>1, <2>1
  <2>6. w <= t - DC /\ t - DC <= v
    BY <2>1, <2>2
  <2> HIDE DEF w, v
  <2>7. CASE t > v /\ u < N - 1
    <3>1. g[i] = u + 1 /\ u + 1 \in 0 .. N - 1
      BY <1>1, <2>1, <2>3, <2>7 DEF v
    <3>2. v < t /\ t <= v + dt
      BY <1>1, <2>2, <2>4, <2>6, <2>7
    <3>3. dt * g[i] = v /\ dt * (g[i] + 1) = v + dt
      BY <2>4, <3>1 DEF v
    <3> QED
      BY <1>1, <2>2, <2>4, <3>1, <3>2, <3>3 DEF t
  <2>8. CASE ~(t > v /\ u < N - 1)
    <3>1. g[i] = u
      BY <2>3, <2>8 DEF v
    <3>2. w < t /\ t <= v
      <4>1. CASE t <= v
        BY <1>1, <2>2, <2>4, <2>6, <4>1
      <4>2. CASE u = N - 1
        BY <1>1, <2>2, <2>4, <2>5, <2>6, <4>2
      <4> QED
        BY <1>1, <2>1, <2>2, <2>4, <2>8, <4>1, <4>2
    <3>3. dt * g[i] = w /\ dt * (g[i] + 1) = v
      BY <3>1 DEF w, v
    <3> QED
      BY <1>1, <2>1, <2>2, <2>4, <3>1, <3>2, <3>3 DEF t
  <2> QED
    BY <2>7, <2>8
<1>5. \A i \in 0 .. n : i \in S
  <2> HIDE DEF S
  <2> QED
    BY <1>1, <1>3, <1>4, Upwards
<1>6. \A i \in 1 .. n : i \in 0 .. n /\ i > 0
  BY <1>1
<1> QED
  BY <1>5, <1>6 DEF dt, n

\* IntervalOf is such a walk.
LEMMA IntervalIs ==
  ASSUME NEW f \in Nat \ {0}, NEW d \in Nat
  PROVE  Walked(IntervalOf(f, d), f, d)
<1> DEFINE dt == findDT(f, d)
           n == XSizeOf(f, d)
           F == [p \in (0 .. n) \X Int |-> SegmentAfter(p[1], p[2], dt)]
<1>1. IntervalOf(f, d) = CHOOSE g : Walked(g, f, d)
  BY Zenon DEF IntervalOf, Walked, SegmentAfter
<1>2. dt \in Nat /\ DC \in Nat /\ N \in Nat /\ n \in Nat
  BY DurationIs
<1> HIDE DEF dt, n
<1>3. F \in [(0 .. n) \X Int -> Int]
  BY <1>2 DEF SegmentAfter
<1>4. PICK g \in [0 .. n -> Int] : g[0] = 0 /\ \A i \in 1 .. n : g[i] = F[<<i, g[i - 1]>>]
  <2> DEFINE V == Int
             start == 0
  <2>1. start \in V /\ F \in [(0 .. n) \X V -> V] /\ n \in Nat
    BY <1>2, <1>3
  <2> HIDE DEF F, V, start
  <2>2. \E g \in [0 .. n -> V] : MadeOf(g, start, n, F)
    BY <2>1, RecursionExists
  <2> QED
    BY <2>2 DEF V, start, MadeOf
<1>5. ASSUME NEW i \in 0 .. n PROVE g[i] = IF i = 0 THEN 0 ELSE SegmentAfter(i, g[i - 1], dt)
  <2>1. CASE i = 0
    BY <1>4, <2>1
  <2>2. CASE i # 0
    <3>1. i \in 1 .. n /\ i - 1 \in 0 .. n
      BY <1>2, <2>2
    <3>2. <<i, g[i - 1]>> \in (0 .. n) \X Int
      BY <1>4, <3>1
    <3> QED
      BY <1>4, <2>2, <3>1, <3>2
  <2> QED
    BY <2>1, <2>2
<1>6. g = [i \in 0 .. n |-> g[i]]
  BY <1>4
<1>7. g = [i \in 0 .. n |-> IF i = 0 THEN 0 ELSE SegmentAfter(i, g[i - 1], dt)]
  BY <1>5, <1>6, Zenon
<1>8. \E h : Walked(h, f, d)
  BY <1>7 DEF Walked, dt, n
<1> QED
  BY <1>1, <1>8, Zenon

-----------------------------------------------------------------------------
(* The solutions: cubics that meet, the last of them ending at rest.          *)

Cubics == [a : Int, b : Int, c : Int, d : Int]
AtRest == [b |-> 0, c |-> 0, d |-> 0]

Solved(x, leads, dt) ==
  x = [t \in 0 .. N - 1 |-> Joined(leads[t], IF t = N - 1 THEN AtRest ELSE x[t + 1], dt)]

\* The cubic goes on as the next begins.
Meets(p, next, dt) ==
  /\ next.b = p.b + 3 * p.a * dt
  /\ next.c = p.c + 2 * p.b * dt + 3 * p.a * dt * dt
  /\ next.d = getPos(p, dt)

Onward(x, t) == IF t = N - 1 THEN AtRest ELSE x[t + 1]

\* A joined segment meets the next one.
LEMMA JoinedIs ==
  ASSUME NEW lead \in Int, NEW next, next.b \in Int, next.c \in Int, next.d \in Int, NEW dt \in Nat
  PROVE  Joined(lead, next, dt) \in Cubics /\ Meets(Joined(lead, next, dt), next, dt)
<1> DEFINE b == next.b - 3 * lead * dt
           c == next.c - 3 * lead * dt * dt - 2 * b * dt
           d == next.d - lead * dt * dt * dt - b * dt * dt - c * dt
<1>1. Joined(lead, next, dt) = [a |-> lead, b |-> b, c |-> c, d |-> d]
  BY DEF Joined
<1>2. b \in Int
  OBVIOUS
<1>3. next.b = b + 3 * lead * dt
  OBVIOUS
<1>4. c \in Int /\ next.c = c + 2 * b * dt + 3 * lead * dt * dt
  <2> HIDE DEF b
  <2> QED
    BY <1>2
<1> HIDE DEF b, c
<1>5. d \in Int /\ next.d = lead * dt * dt * dt + b * dt * dt + c * dt + d
  BY <1>2, <1>4
<1> HIDE DEF d
<1> QED
  BY <1>1, <1>2, <1>3, <1>4, <1>5 DEF Cubics, Meets, getPos

\* Every choice of leading coefficients has its solution.
LEMMA SolvedExists ==
  ASSUME NEW dt \in Nat, NEW leads \in [0 .. N - 1 -> Int]
  PROVE  \E x \in [0 .. N - 1 -> Cubics] : Solved(x, leads, dt)
<1> DEFINE n == N - 1
           Next1(i, q) == Joined(leads[n - i], q, dt)
           F == [p \in (0 .. n) \X Cubics |-> Next1(p[1], p[2])]
           start == Joined(leads[n], AtRest, dt)
<1>1. n \in Nat
  BY SolverAssumption
<1>2. start \in Cubics
  BY <1>1, JoinedIs DEF AtRest
<1>3. F \in [(0 .. n) \X Cubics -> Cubics]
  <2>1. ASSUME NEW i \in 0 .. n, NEW q \in Cubics PROVE Next1(i, q) \in Cubics
    <3>1. leads[n - i] \in Int
      BY <1>1
    <3> QED
      BY <3>1, JoinedIs DEF Cubics
  <2> HIDE DEF Next1, n
  <2> QED
    BY <2>1
<1> HIDE DEF start, n
<1>4. PICK g \in [0 .. n -> Cubics] : MadeOf(g, start, n, F)
  <2> HIDE DEF F
  <2> QED
    BY <1>1, <1>2, <1>3, RecursionExists
<1> DEFINE x == [t \in 0 .. n |-> g[n - t]]
<1>5. x \in [0 .. n -> Cubics]
  BY <1>1, <1>4
<1>6. ASSUME NEW t \in 0 .. n
      PROVE  x[t] = Joined(leads[t], IF t = n THEN AtRest ELSE x[t + 1], dt)
  <2>1. CASE t = n
    <3>1. x[t] = g[0]
      BY <1>1, <2>1
    <3> QED
      BY <1>4, <2>1, <3>1 DEF MadeOf, start
  <2>2. CASE t # n
    <3> DEFINE i == n - t
    <3>1. i \in 1 .. n /\ i \in 0 .. n /\ n - i = t /\ t + 1 \in 0 .. n /\ n - (t + 1) = i - 1
          /\ i - 1 \in 0 .. n
      BY <1>1, <2>2
    <3>2. x[t] = g[i] /\ x[t + 1] = g[i - 1] /\ g[i - 1] \in Cubics
      BY <1>4, <3>1
    <3> HIDE DEF i, x, Next1
    <3>3. g[i] = Next1(i, g[i - 1])
      BY <1>4, <3>1, <3>2 DEF MadeOf
    <3>4. Next1(i, g[i - 1]) = Joined(leads[t], g[i - 1], dt)
      BY <3>1 DEF Next1
    <3> QED
      BY <2>2, <3>2, <3>3, <3>4
  <2> QED
    BY <2>1, <2>2
<1>7. x = [t \in 0 .. n |-> x[t]]
  OBVIOUS
<1> HIDE DEF x
<1>8. x = [t \in 0 .. n |-> Joined(leads[t], IF t = n THEN AtRest ELSE x[t + 1], dt)]
  BY <1>6, <1>7, Zenon
<1> QED
  BY <1>5, <1>8 DEF Solved, n

\* A solution's segments are cubics that meet, the last one at rest.
LEMMA SolutionIs ==
  ASSUME NEW dt \in Nat, NEW x \in Solutions(dt), NEW t \in 0 .. N - 1
  PROVE  x[t] \in Cubics /\ Meets(x[t], Onward(x, t), dt)
<1>1. PICK leads \in [0 .. N - 1 -> -MaxLead .. MaxLead] : x = CHOOSE y : Solved(y, leads, dt)
  BY Zenon DEF Solutions, Solved, AtRest
<1>2. leads \in [0 .. N - 1 -> Int] /\ N - 1 \in Nat
  BY SplinesAssumption, SolverAssumption
<1>3. Solved(x, leads, dt)
  BY <1>1, <1>2, SolvedExists, Zenon
<1>4. ASSUME NEW u \in 0 .. N - 1 PROVE x[u] = Joined(leads[u], Onward(x, u), dt)
  <2>1. x = [v \in 0 .. N - 1 |-> Joined(leads[v], IF v = N - 1 THEN AtRest ELSE x[v + 1], dt)]
    BY <1>3, Zenon DEF Solved
  <2> QED
    BY <2>1, Zenon DEF Onward
<1> DEFINE S == {u \in 0 .. N - 1 : x[u] \in Cubics}
<1>5. N - 1 \in S
  <2>1. N - 1 \in 0 .. N - 1
    BY <1>2
  <2>2. x[N - 1] = Joined(leads[N - 1], AtRest, dt)
    BY <1>4, <2>1 DEF Onward
  <2>3. leads[N - 1] \in Int
    BY <1>2, <2>1
  <2> QED
    BY <2>1, <2>2, <2>3, JoinedIs DEF AtRest
<1>6. ASSUME NEW u \in 0 .. (N - 1) - 1, u + 1 \in S PROVE u \in S
  <2>1. u \in 0 .. N - 1 /\ u # N - 1
    BY <1>2
  <2>2. x[u] = Joined(leads[u], x[u + 1], dt) /\ leads[u] \in Int /\ x[u + 1] \in Cubics
    BY <1>2, <1>4, <1>6, <2>1 DEF Onward
  <2>3. x[u + 1].b \in Int /\ x[u + 1].c \in Int /\ x[u + 1].d \in Int
    BY <2>2 DEF Cubics
  <2> QED
    BY <2>1, <2>2, <2>3, JoinedIs
<1>7. \A u \in 0 .. N - 1 : u \in S
  <2> HIDE DEF S
  <2> QED
    BY <1>2, <1>5, <1>6, Downwards
<1>8. x[t] = Joined(leads[t], Onward(x, t), dt) /\ leads[t] \in Int
  BY <1>2, <1>4
<1>9. Onward(x, t).b \in Int /\ Onward(x, t).c \in Int /\ Onward(x, t).d \in Int
  <2>1. CASE t = N - 1
    BY <2>1 DEF Onward, AtRest
  <2>2. CASE t # N - 1
    <3>1. t + 1 \in 0 .. N - 1
      BY <1>2, <2>2
    <3>2. x[t + 1] \in Cubics
      BY <1>7, <3>1
    <3> QED
      BY <2>2, <3>2 DEF Onward, Cubics
  <2> QED
    BY <2>1, <2>2
<1> QED
  BY <1>8, <1>9, JoinedIs

-----------------------------------------------------------------------------
(* A sample within its segment.                                               *)

\* A cubic is the Bezier curve of its control points.
LEMMA Bezier ==
  ASSUME NEW p \in Cubics, NEW on \in Int, NEW rest \in Int, NEW dt \in Int, dt = on + rest
  PROVE  3 * getPos(p, on) * dt * dt * dt =
           getCP0(p) * rest * rest * rest + 3 * getCP1(p, dt) * rest * rest * on
             + 3 * getCP2(p, dt) * rest * on * on + getCP3(p, dt) * on * on * on
<1> DEFINE a == p.a  b == p.b  c == p.c  d == p.d
<1>1. a \in Int /\ b \in Int /\ c \in Int /\ d \in Int
  BY DEF Cubics
<1>2. /\ getPos(p, on) = a * on * on * on + b * on * on + c * on + d
      /\ getCP0(p) = 3 * (a * 0 * 0 * 0 + b * 0 * 0 + c * 0 + d)
      /\ getCP1(p, dt) = c * dt + 3 * d
      /\ getCP2(p, dt) = b * dt * dt + 2 * (c * dt) + 3 * d
      /\ getCP3(p, dt) = 3 * (a * dt * dt * dt + b * dt * dt + c * dt + d)
  BY DEF getPos, getCP0, getCP1, getCP2, getCP3, getBn, getCn, getDn
<1> HIDE DEF a, b, c, d
<1>3. getCP0(p) = 3 * d
  BY <1>1, <1>2
<1> QED
  BY <1>1, <1>2, <1>3

\* The acceleration of a cubic goes straight from its start to its end.
LEMMA Between ==
  ASSUME NEW p \in Cubics, NEW on \in Nat, NEW dt \in Nat, on <= dt, dt > 0,
         NEW end \in Int, end = p.b + 3 * p.a * dt
  PROVE  Abs(getAccel(p, on)) <= Abs(2 * p.b) \/ Abs(getAccel(p, on)) <= Abs(2 * end)
<1> DEFINE a == p.a  b == p.b
<1>1. a \in Int /\ b \in Int /\ getAccel(p, on) = 6 * a * on + 2 * b
  BY DEF Cubics, getAccel
<1> HIDE DEF a, b
<1>2. a >= 0 => 0 <= a * on /\ a * on <= a * dt
  BY <1>1
<1>3. a <= 0 => a * on <= 0 /\ a * dt <= a * on
  BY <1>1
<1> DEFINE ao == a * on  ad == a * dt
<1>4. ao \in Int /\ ad \in Int /\ 6 * a * on = 6 * ao /\ 3 * a * dt = 3 * ad
  BY <1>1
<1>5. getAccel(p, on) = 6 * ao + 2 * b /\ end = b + 3 * ad
  BY <1>1, <1>4 DEF a, b
<1>6. (0 <= ao /\ ao <= ad) \/ (ao <= 0 /\ ad <= ao)
  BY <1>1, <1>2, <1>3
<1> HIDE DEF ao, ad
<1>7. Abs(getAccel(p, on)) <= Abs(2 * b) \/ Abs(getAccel(p, on)) <= Abs(2 * end)
  BY <1>1, <1>4, <1>5, <1>6 DEF Abs
<1> QED
  BY <1>7 DEF b

\* The control points of a segment, among all of them.
LEMMA SegmentsPoints ==
  ASSUME NEW x, NEW dt, NEW t \in 0 .. N - 1
  PROVE  LET cp == SubSeq(get_cps(x, dt), 4 * t + 1, 4 * t + 4)
         IN /\ cp[1] = getCP0(x[t]) /\ cp[2] = getCP1(x[t], dt)
            /\ cp[3] = getCP2(x[t], dt) /\ cp[4] = getCP3(x[t], dt)
<1> DEFINE all == get_cps(x, dt)
           cp == SubSeq(all, 4 * t + 1, 4 * t + 4)
           Point(n) == ControlPoints(x[(n - 1) \div 4], dt)[((n - 1) % 4) + 1]
<1>1. N \in Nat \ {0} /\ t \in Nat
  BY SolverAssumption
<1>2. ASSUME NEW k \in 1 .. 4 PROVE cp[k] = ControlPoints(x[t], dt)[k]
  <2> DEFINE n == 4 * t + k
  <2>1. n \in 1 .. 4 * N /\ (n - 1) \div 4 = t /\ ((n - 1) % 4) + 1 = k
    BY <1>1
  <2>2. all[n] = Point(n)
    <3> HIDE DEF n
    <3> QED
      BY <2>1 DEF get_cps
  <2>3. cp[k] = all[(4 * t + 1) + k - 1]
    <3>1. k \in 1 .. ((4 * t + 4) - (4 * t + 1)) + 1
      BY <1>1
    <3> HIDE DEF all
    <3>2. cp = [i \in 1 .. ((4 * t + 4) - (4 * t + 1)) + 1 |-> all[(4 * t + 1) + i - 1]]
      BY DEF SubSeq
    <3> QED
      BY <3>1, <3>2
  <2>4. (4 * t + 1) + k - 1 = n
    BY <1>1
  <2> HIDE DEF n, all, cp
  <2> QED
    BY <2>1, <2>2, <2>3, <2>4
<1> HIDE DEF cp
<1>3. 1 \in 1 .. 4 /\ 2 \in 1 .. 4 /\ 3 \in 1 .. 4 /\ 4 \in 1 .. 4
  OBVIOUS
<1>4. cp[1] = getCP0(x[t]) /\ cp[2] = getCP1(x[t], dt) /\ cp[3] = getCP2(x[t], dt) /\ cp[4] = getCP3(x[t], dt)
  BY <1>2, <1>3 DEF ControlPoints
<1> QED
  BY <1>4 DEF cp, all

\* Any allocation holds its samples.
LEMMA HeldIs ==
  ASSUME NEW f \in Nat \ {0}, NEW d \in Nat
  PROVE  Held(f, d)
<1> DEFINE dt == findDT(f, d)
           t == IntervalOf(f, d)
           tau == [i \in DOMAIN t |-> i * DC - t[i] * dt]
<1>1. dt \in Nat /\ dt > 0 /\ N \in Nat \ {0} /\ DC \in Nat \ {0} /\ XSizeOf(f, d) \in Nat
  <2>1. dt \in Nat /\ dt >= 2 * DC /\ DC \in Nat \ {0} /\ N \in Nat \ {0} /\ XSizeOf(f, d) \in Nat
    BY DurationIs, Zenon
  <2> HIDE DEF dt
  <2> QED
    BY <2>1
<1>2. Walked(t, f, d)
  BY IntervalIs
<1>3. DOMAIN t = 0 .. XSizeOf(f, d)
  BY <1>2, Zenon DEF Walked
<1> SUFFICES ASSUME NEW i \in 1 .. XSizeOf(f, d)
    PROVE LET on == tau[i]
              rest == dt - on
          IN /\ 0 < on /\ 0 <= rest
             /\ \A x \in Solutions(dt) :
                  LET cp == SubSeq(get_cps(x, dt), 4 * t[i] + 1, 4 * t[i] + 4)
                  IN /\ 3 * getPos(x[t[i]], on) * dt * dt * dt =
                          cp[1] * rest * rest * rest + 3 * cp[2] * rest * rest * on
                            + 3 * cp[3] * rest * on * on + cp[4] * on * on * on
                     /\ \E u \in 0 .. N - 1 :
                          Abs(getAccel(x[t[i]], on)) <= Abs(getAccel(x[u], 0))
  BY Zenon DEF Held
<1> DEFINE s == t[i]
           on == i * DC - s * dt
           rest == dt - on
<1>4. tau[i] = on
  BY <1>1, <1>3
<1>5. s \in 0 .. N - 1 /\ dt * s < i * DC /\ i * DC <= dt * (s + 1)
  BY <1>2, SegmentIs
<1> HIDE DEF t, tau, dt, s
<1>6. on \in Int /\ rest \in Int /\ 0 < on /\ 0 <= rest /\ dt = on + rest
  <2> DEFINE w == s * dt
             m == i * DC
  <2>1. w \in Nat /\ m \in Nat /\ dt * s = w /\ dt * (s + 1) = w + dt
    BY <1>1, <1>5
  <2>2. w < m /\ m <= w + dt
    BY <1>5, <2>1
  <2>3. on = m - w /\ rest = dt - (m - w)
    OBVIOUS
  <2> HIDE DEF w, m, on, rest
  <2> QED
    BY <1>1, <2>1, <2>2, <2>3
<1> HIDE DEF on, rest
<1>7. ASSUME NEW x \in Solutions(dt)
      PROVE  LET cp == SubSeq(get_cps(x, dt), 4 * s + 1, 4 * s + 4)
             IN /\ 3 * getPos(x[s], on) * dt * dt * dt =
                     cp[1] * rest * rest * rest + 3 * cp[2] * rest * rest * on
                       + 3 * cp[3] * rest * on * on + cp[4] * on * on * on
                /\ \E u \in 0 .. N - 1 : Abs(getAccel(x[s], on)) <= Abs(getAccel(x[u], 0))
  <2> DEFINE cp == SubSeq(get_cps(x, dt), 4 * s + 1, 4 * s + 4)
  <2>1. x[s] \in Cubics /\ Meets(x[s], Onward(x, s), dt)
    BY <1>1, <1>5, SolutionIs
  <2>2. /\ cp[1] = getCP0(x[s]) /\ cp[2] = getCP1(x[s], dt)
        /\ cp[3] = getCP2(x[s], dt) /\ cp[4] = getCP3(x[s], dt)
    BY <1>5, SegmentsPoints
  <2> HIDE DEF cp
  <2>3. 3 * getPos(x[s], on) * dt * dt * dt =
          cp[1] * rest * rest * rest + 3 * cp[2] * rest * rest * on
            + 3 * cp[3] * rest * on * on + cp[4] * on * on * on
    <3>1. dt \in Int
      BY <1>1
    <3> QED
      BY <1>6, <2>1, <2>2, <3>1, Bezier
  <2>4. \E u \in 0 .. N - 1 : Abs(getAccel(x[s], on)) <= Abs(getAccel(x[u], 0))
    <3> DEFINE p == x[s]
               next == Onward(x, s)
    <3>1. ASSUME NEW q, q.a \in Int, q.b \in Int PROVE getAccel(q, 0) = 2 * q.b
      BY <3>1 DEF getAccel
    <3>2. p.a \in Int /\ p.b \in Int /\ getAccel(p, 0) = 2 * p.b
      <4>1. p.a \in Int /\ p.b \in Int
        BY <2>1 DEF Cubics
      <4> QED
        BY <3>1, <4>1
    <3>3. next.b = p.b + 3 * p.a * dt /\ next.b \in Int
      BY <1>1, <2>1, <3>2 DEF Meets
    <3>4. on \in Nat /\ on <= dt
      BY <1>1, <1>6
    <3>5. Abs(getAccel(p, on)) <= Abs(2 * p.b) \/ Abs(getAccel(p, on)) <= Abs(2 * next.b)
      <4> HIDE DEF p, next
      <4>1. p \in Cubics
        BY <2>1 DEF p
      <4> QED
        BY <1>1, <3>3, <3>4, <4>1, Between
    <3>6. CASE Abs(getAccel(p, on)) <= Abs(2 * p.b)
      BY <1>5, <3>2, <3>6
    <3>7. CASE Abs(getAccel(p, on)) <= Abs(2 * next.b) /\ s # N - 1
      <4>1. s + 1 \in 0 .. N - 1 /\ next = x[s + 1]
        BY <1>1, <1>5, <3>7 DEF Onward
      <4>2. x[s + 1] \in Cubics
        BY <1>1, <4>1, SolutionIs
      <4>3. getAccel(x[s + 1], 0) = 2 * x[s + 1].b
        <5>1. x[s + 1].a \in Int /\ x[s + 1].b \in Int
          BY <4>2 DEF Cubics
        <5> QED
          BY <3>1, <5>1
      <4> HIDE DEF p, next
      <4>4. Abs(getAccel(p, on)) <= Abs(getAccel(x[s + 1], 0))
        BY <3>7, <4>1, <4>3
      <4> QED
        BY <4>1, <4>4 DEF p
    <3>8. CASE Abs(getAccel(p, on)) <= Abs(2 * next.b) /\ s = N - 1
      <4>1. next.b = 0
        BY <3>8 DEF Onward, AtRest
      <4>2. Abs(2 * next.b) <= Abs(2 * p.b)
        <5> HIDE DEF p, next
        <5> QED
          BY <3>2, <4>1 DEF Abs
      <4>3. Abs(getAccel(p, on)) <= Abs(2 * p.b)
        <5> HIDE DEF p, next
        <5>1. 6 * p.a * on + 2 * p.b \in Int
          BY <1>6, <3>2
        <5>2. Abs(getAccel(p, on)) \in Int /\ Abs(2 * next.b) \in Int /\ Abs(2 * p.b) \in Int
          BY <3>2, <3>3, <5>1 DEF Abs, getAccel
        <5> QED
          BY <3>8, <4>2, <5>2
      <4> QED
        BY <1>5, <3>2, <4>3
    <3> QED
      BY <3>5, <3>6, <3>7, <3>8
  <2> QED
    BY <2>3, <2>4 DEF cp
<1> QED
  BY <1>4, <1>6, <1>7 DEF s, on, rest

-----------------------------------------------------------------------------
(* The length, by ten or eleven samples of a segment's speed.  SpeedAt is a   *)
(* hundredfold of the velocity, Arc the sum that compute_arclen takes.        *)

SpeedAt(p, dt, k) == 3 * p.a * (k * dt) * (k * dt) + 20 * p.b * (k * dt) + 100 * p.c
Arc(p, dt, last) ==
  Abs(SpeedAt(p, dt, 0)) + Abs(SpeedAt(p, dt, 1)) + Abs(SpeedAt(p, dt, 2)) + Abs(SpeedAt(p, dt, 3))
    + Abs(SpeedAt(p, dt, 4)) + Abs(SpeedAt(p, dt, 5)) + Abs(SpeedAt(p, dt, 6)) + Abs(SpeedAt(p, dt, 7))
    + Abs(SpeedAt(p, dt, 8)) + Abs(SpeedAt(p, dt, 9))
    + (IF last = 10 THEN Abs(SpeedAt(p, dt, 10)) ELSE 0)

SummedUp(sum, p, dt, last) ==
  LET tenths == [p EXCEPT !.b = 10 * @, !.c = 100 * @]
  IN sum = [k \in 0 .. last |->
              Abs(getVel(tenths, k * dt)) + (IF k = 0 THEN 0 ELSE sum[k - 1])]

\* What compute_arclen takes of a segment: its speed at a time, a hundredfold.
LEMMA SampleIs ==
  ASSUME NEW p \in Cubics, NEW dt \in Nat, NEW k \in 0 .. 10
  PROVE  /\ SpeedAt(p, dt, k) \in Int
         /\ getVel([p EXCEPT !.b = 10 * @, !.c = 100 * @], k * dt) = SpeedAt(p, dt, k)
         /\ Abs(SpeedAt(p, dt, k)) \in Nat
         /\ SpeedAt(p, dt, k) <= Abs(SpeedAt(p, dt, k)) /\ -Abs(SpeedAt(p, dt, k)) <= SpeedAt(p, dt, k)
<1> DEFINE q == [p EXCEPT !.b = 10 * @, !.c = 100 * @]
           on == k * dt
<1>1. p.a \in Int /\ p.b \in Int /\ p.c \in Int /\ on \in Int
  BY DEF Cubics
<1>2. q.a = p.a /\ q.b = 10 * p.b /\ q.c = 100 * p.c
  BY DEF Cubics
<1> HIDE DEF q, on
<1>3. SpeedAt(p, dt, k) = 3 * p.a * on * on + 20 * p.b * on + 100 * p.c
  BY DEF SpeedAt, on
<1>4. getVel(q, on) = 3 * p.a * on * on + 2 * (10 * p.b) * on + 100 * p.c
  BY <1>2 DEF getVel
<1>5. SpeedAt(p, dt, k) \in Int /\ getVel(q, on) = SpeedAt(p, dt, k)
  BY <1>1, <1>3, <1>4
<1>6. ASSUME NEW n \in Int PROVE Abs(n) \in Nat /\ n <= Abs(n) /\ -Abs(n) <= n
  BY DEF Abs
<1> QED
  BY <1>5, <1>6 DEF q, on

\* The recursion that sums the speeds has a function that meets it.
LEMMA SummedUpExists ==
  ASSUME NEW p \in Cubics, NEW dt \in Nat, NEW last \in LastTenths
  PROVE  \E sum : SummedUp(sum, p, dt, last)
<1> DEFINE tenths == [p EXCEPT !.b = 10 * @, !.c = 100 * @]
           speed(k) == Abs(getVel(tenths, k * dt))
           F == [q \in (0 .. last) \X Nat |-> speed(q[1]) + q[2]]
           start == speed(0)
<1>1. last \in 0 .. 10 /\ last \in Nat
  BY DEF LastTenths
<1>2. \A k \in 0 .. 10 : speed(k) \in Nat
  BY SampleIs
<1> HIDE DEF speed
<1>3. F \in [(0 .. last) \X Nat -> Nat] /\ start \in Nat /\ last \in Nat
  BY <1>1, <1>2
<1>4. PICK g \in [0 .. last -> Nat] : MadeOf(g, start, last, F)
  <2> DEFINE V == Nat
  <2>1. F \in [(0 .. last) \X V -> V] /\ start \in V /\ last \in Nat
    BY <1>3
  <2> HIDE DEF F, V, start
  <2>2. \E g \in [0 .. last -> V] : MadeOf(g, start, last, F)
    BY <2>1, RecursionExists
  <2> QED
    BY <2>2 DEF V
<1>5. ASSUME NEW k \in 0 .. last PROVE g[k] = speed(k) + (IF k = 0 THEN 0 ELSE g[k - 1])
  <2>1. CASE k = 0
    <3>1. g[0] = start
      BY <1>4, Zenon DEF MadeOf
    <3>2. start \in Nat /\ start = speed(0)
      BY <1>3
    <3> HIDE DEF start, F
    <3>3. start = start + 0
      BY <3>2
    <3> QED
      BY <2>1, <3>1, <3>2, <3>3, Zenon
  <2>2. CASE k # 0
    <3>1. k \in 1 .. last /\ k - 1 \in 0 .. last
      BY <1>1, <2>2
    <3>2. <<k, g[k - 1]>> \in (0 .. last) \X Nat
      BY <1>4, <3>1
    <3> QED
      BY <1>4, <2>2, <3>1, <3>2 DEF MadeOf
  <2> QED
    BY <2>1, <2>2
<1>6. SummedUp(g, p, dt, last)
  <2>1. g = [k \in 0 .. last |-> g[k]]
    BY <1>4
  <2>2. g = [k \in 0 .. last |-> speed(k) + (IF k = 0 THEN 0 ELSE g[k - 1])]
    BY <1>5, <2>1, Zenon
  <2> QED
    BY <2>2, Zenon DEF SummedUp, speed
<1> QED
  BY <1>6

\* A segment's length is the sum of the speeds.
LEMMA ArclenIs ==
  ASSUME NEW p \in Cubics, NEW dt \in Nat, NEW last \in LastTenths
  PROVE  compute_arclen(p, dt, last) = Arc(p, dt, last) * dt /\ Arc(p, dt, last) \in Nat
<1> DEFINE tenths == [p EXCEPT !.b = 10 * @, !.c = 100 * @]
           speed(k) == Abs(getVel(tenths, k * dt))
           sum == CHOOSE s : SummedUp(s, p, dt, last)
<1>1. last \in 0 .. 10 /\ last \in Nat
  BY DEF LastTenths
<1>2. compute_arclen(p, dt, last) = sum[last] * dt
  BY Zenon DEF compute_arclen, SummedUp
<1>3. \A k \in 0 .. 10 : speed(k) = Abs(SpeedAt(p, dt, k)) /\ speed(k) \in Nat
  BY SampleIs
<1> HIDE DEF speed
<1>4. SummedUp(sum, p, dt, last)
  <2>1. \E s : SummedUp(s, p, dt, last)
    BY SummedUpExists
  <2> QED
    BY <2>1, Zenon
<1>5. \A k \in 0 .. last : sum[k] = speed(k) + (IF k = 0 THEN 0 ELSE sum[k - 1])
  <2> HIDE DEF sum
  <2>1. sum = [k \in 0 .. last |-> speed(k) + (IF k = 0 THEN 0 ELSE sum[k - 1])]
    BY <1>4, Zenon DEF SummedUp, speed
  <2> QED
    BY <2>1, Zenon
<1> HIDE DEF sum
<1>6. sum[last] = Arc(p, dt, last) /\ Arc(p, dt, last) \in Nat
  <2>1. /\ sum[0] = speed(0) /\ sum[1] = speed(1) + sum[0] /\ sum[2] = speed(2) + sum[1]
        /\ sum[3] = speed(3) + sum[2] /\ sum[4] = speed(4) + sum[3] /\ sum[5] = speed(5) + sum[4]
        /\ sum[6] = speed(6) + sum[5] /\ sum[7] = speed(7) + sum[6] /\ sum[8] = speed(8) + sum[7]
        /\ sum[9] = speed(9) + sum[8]
    <3>1. \A k \in 1 .. 9 : k \in 0 .. last /\ k # 0
      BY DEF LastTenths
    <3>2. \A k \in 1 .. 9 : sum[k] = speed(k) + sum[k - 1]
      BY <1>5, <3>1
    <3>3. sum[0] = speed(0) + 0
      BY <1>1, <1>5
    <3>4. /\ sum[1] = speed(1) + sum[1 - 1] /\ sum[2] = speed(2) + sum[2 - 1]
          /\ sum[3] = speed(3) + sum[3 - 1] /\ sum[4] = speed(4) + sum[4 - 1]
          /\ sum[5] = speed(5) + sum[5 - 1] /\ sum[6] = speed(6) + sum[6 - 1]
          /\ sum[7] = speed(7) + sum[7 - 1] /\ sum[8] = speed(8) + sum[8 - 1]
          /\ sum[9] = speed(9) + sum[9 - 1]
      BY <3>2
    <3>5. sum[0] = speed(0)
      BY <1>3, <3>3
    <3> QED
      BY <3>4, <3>5
  <2>2. /\ speed(0) \in Nat /\ speed(1) \in Nat /\ speed(2) \in Nat /\ speed(3) \in Nat
        /\ speed(4) \in Nat /\ speed(5) \in Nat /\ speed(6) \in Nat /\ speed(7) \in Nat
        /\ speed(8) \in Nat /\ speed(9) \in Nat /\ speed(10) \in Nat
    BY <1>3
  <2>3. Arc(p, dt, last) = speed(0) + speed(1) + speed(2) + speed(3) + speed(4) + speed(5) + speed(6)
                             + speed(7) + speed(8) + speed(9) + (IF last = 10 THEN speed(10) ELSE 0)
    BY <1>3 DEF Arc
  <2>4. sum[last] = sum[9] + (IF last = 10 THEN speed(10) ELSE 0)
    <3>1. CASE last = 9
      BY <2>1, <2>2, <3>1
    <3>2. CASE last = 10
      <4>1. sum[10] = speed(10) + sum[9]
        BY <1>5, <3>2
      <4> QED
        BY <2>1, <2>2, <3>2, <4>1
    <3> QED
      BY <3>1, <3>2 DEF LastTenths
  <2> DEFINE end == IF last = 10 THEN speed(10) ELSE 0
  <2>5. end \in Nat /\ sum[last] = sum[9] + end
    BY <2>2, <2>4
  <2>6. Arc(p, dt, last) = speed(0) + speed(1) + speed(2) + speed(3) + speed(4) + speed(5) + speed(6)
                             + speed(7) + speed(8) + speed(9) + end
    BY <2>3
  <2> HIDE DEF end
  <2> QED
    BY <2>1, <2>2, <2>5, <2>6
<1> QED
  BY <1>2, <1>6

\* Twice the trapezium rule's sum.
Trapezia(p, dt) ==
  SpeedAt(p, dt, 0)
    + 2 * (SpeedAt(p, dt, 1) + SpeedAt(p, dt, 2) + SpeedAt(p, dt, 3) + SpeedAt(p, dt, 4) + SpeedAt(p, dt, 5)
             + SpeedAt(p, dt, 6) + SpeedAt(p, dt, 7) + SpeedAt(p, dt, 8) + SpeedAt(p, dt, 9))
    + SpeedAt(p, dt, 10)

\* What is taken of eleven samples in place of their magnitudes is less than their sum.
LEMMA Weighed ==
  ASSUME NEW p \in Cubics, NEW dt \in Nat
  PROVE  LET s == Trapezia(p, dt)
             first == 60 * s - 2 * SpeedAt(p, dt, 0) + 5 * SpeedAt(p, dt, 10)
             second == 60 * s - 4 * SpeedAt(p, dt, 5) + SpeedAt(p, dt, 10)
         IN /\ s \in Int /\ s <= 2 * Arc(p, dt, 10) /\ -2 * Arc(p, dt, 10) <= s
            /\ first <= 120 * Arc(p, dt, 10) /\ -120 * Arc(p, dt, 10) <= first
            /\ second <= 120 * Arc(p, dt, 10) /\ -120 * Arc(p, dt, 10) <= second
<1> DEFINE w(k) == SpeedAt(p, dt, k)
           m(k) == Abs(SpeedAt(p, dt, k))
<1>1. \A k \in 0 .. 10 : w(k) \in Int /\ m(k) \in Nat /\ w(k) <= m(k) /\ -m(k) <= w(k)
  BY SampleIs
<1>2. Trapezia(p, dt) = w(0) + 2 * (w(1) + w(2) + w(3) + w(4) + w(5) + w(6) + w(7) + w(8) + w(9)) + w(10)
  BY DEF Trapezia
<1>3. Arc(p, dt, 10) = m(0) + m(1) + m(2) + m(3) + m(4) + m(5) + m(6) + m(7) + m(8) + m(9) + m(10)
  BY DEF Arc
<1>4. SpeedAt(p, dt, 0) = w(0) /\ SpeedAt(p, dt, 5) = w(5) /\ SpeedAt(p, dt, 10) = w(10)
  OBVIOUS
<1> HIDE DEF w, m
<1>5. /\ w(0) \in Int /\ m(0) \in Nat /\ w(0) <= m(0) /\ -m(0) <= w(0)
      /\ w(1) \in Int /\ m(1) \in Nat /\ w(1) <= m(1) /\ -m(1) <= w(1)
      /\ w(2) \in Int /\ m(2) \in Nat /\ w(2) <= m(2) /\ -m(2) <= w(2)
      /\ w(3) \in Int /\ m(3) \in Nat /\ w(3) <= m(3) /\ -m(3) <= w(3)
      /\ w(4) \in Int /\ m(4) \in Nat /\ w(4) <= m(4) /\ -m(4) <= w(4)
      /\ w(5) \in Int /\ m(5) \in Nat /\ w(5) <= m(5) /\ -m(5) <= w(5)
      /\ w(6) \in Int /\ m(6) \in Nat /\ w(6) <= m(6) /\ -m(6) <= w(6)
      /\ w(7) \in Int /\ m(7) \in Nat /\ w(7) <= m(7) /\ -m(7) <= w(7)
      /\ w(8) \in Int /\ m(8) \in Nat /\ w(8) <= m(8) /\ -m(8) <= w(8)
      /\ w(9) \in Int /\ m(9) \in Nat /\ w(9) <= m(9) /\ -m(9) <= w(9)
      /\ w(10) \in Int /\ m(10) \in Nat /\ w(10) <= m(10) /\ -m(10) <= w(10)
  BY <1>1
<1> DEFINE inner == w(1) + w(2) + w(3) + w(4) + w(6) + w(7) + w(8) + w(9)
           others == m(1) + m(2) + m(3) + m(4) + m(6) + m(7) + m(8) + m(9)
<1>6. inner \in Int /\ others \in Nat /\ inner <= others /\ -others <= inner
  BY <1>5
<1>7. Trapezia(p, dt) = w(0) + 2 * inner + 2 * w(5) + w(10) /\ Arc(p, dt, 10) = m(0) + others + m(5) + m(10)
  BY <1>2, <1>3, <1>5
<1> HIDE DEF inner, others
<1> QED
  BY <1>4, <1>5, <1>6, <1>7

\* How far from the end a cubic starts, and a little of its acceleration: what the trapezium
\* rule leaves over of each segment adds up to it.
Ahead(p, dt) == 3000 * p.d + 5 * p.b * dt * dt

\* Over a segment, Ahead changes by what the trapezium rule sums.
LEMMA TrapeziaAre ==
  ASSUME NEW p \in Cubics, NEW dt \in Nat, NEW next, Meets(p, next, dt)
  PROVE  /\ Ahead(p, dt) \in Int /\ Ahead(next, dt) \in Int
         /\ 2 * (Ahead(next, dt) - Ahead(p, dt)) = 3 * (Trapezia(p, dt) * dt)
<1> DEFINE a == p.a  b == p.b  c == p.c  d == p.d
<1>1. a \in Int /\ b \in Int /\ c \in Int /\ d \in Int
  BY DEF Cubics
<1>2. next.b = b + 3 * a * dt /\ next.d = a * dt * dt * dt + b * dt * dt + c * dt + d
  BY DEF Meets, getPos
<1>3. \A k \in 0 .. 10 : SpeedAt(p, dt, k) = 3 * a * (k * dt) * (k * dt) + 20 * b * (k * dt) + 100 * c
  BY DEF SpeedAt
<1> HIDE DEF a, b, c, d
<1>4. Trapezia(p, dt) = 2010 * (a * dt * dt) + 2000 * (b * dt) + 2000 * c
  <2> DEFINE aa == a * dt * dt
             bb == b * dt
  <2>1. ASSUME NEW k \in 0 .. 10 PROVE SpeedAt(p, dt, k) = 3 * (k * k) * aa + 20 * k * bb + 100 * c
    BY <1>1, <1>3
  <2>2. aa \in Int /\ bb \in Int
    BY <1>1
  <2> HIDE DEF aa, bb
  <2>3. /\ SpeedAt(p, dt, 0) = 100 * c
        /\ SpeedAt(p, dt, 1) = 3 * aa + 20 * bb + 100 * c
        /\ SpeedAt(p, dt, 2) = 12 * aa + 40 * bb + 100 * c
        /\ SpeedAt(p, dt, 3) = 27 * aa + 60 * bb + 100 * c
        /\ SpeedAt(p, dt, 4) = 48 * aa + 80 * bb + 100 * c
        /\ SpeedAt(p, dt, 5) = 75 * aa + 100 * bb + 100 * c
        /\ SpeedAt(p, dt, 6) = 108 * aa + 120 * bb + 100 * c
        /\ SpeedAt(p, dt, 7) = 147 * aa + 140 * bb + 100 * c
        /\ SpeedAt(p, dt, 8) = 192 * aa + 160 * bb + 100 * c
        /\ SpeedAt(p, dt, 9) = 243 * aa + 180 * bb + 100 * c
        /\ SpeedAt(p, dt, 10) = 300 * aa + 200 * bb + 100 * c
    BY <1>1, <2>1, <2>2
  <2> QED
    BY <1>1, <2>2, <2>3 DEF Trapezia, aa, bb
<1>5. Ahead(p, dt) = 3000 * d + 5 * b * dt * dt
  BY DEF Ahead, d, b
<1>6. Ahead(next, dt) = 3000 * (a * dt * dt * dt + b * dt * dt + c * dt + d) + 5 * (b + 3 * a * dt) * dt * dt
  BY <1>2 DEF Ahead
<1>7. Ahead(p, dt) \in Int /\ Ahead(next, dt) \in Int
  BY <1>1, <1>5, <1>6
<1> QED
  BY <1>1, <1>4, <1>5, <1>6, <1>7

\* So it changes by no more than three times the length of eleven samples.
LEMMA SegmentAhead ==
  ASSUME NEW p \in Cubics, NEW dt \in Nat, NEW next, Meets(p, next, dt)
  PROVE  Abs(Ahead(p, dt)) <= Abs(Ahead(next, dt)) + 3 * compute_arclen(p, dt, 10)
<1> DEFINE s == Trapezia(p, dt)
           m == Arc(p, dt, 10)
           before == Ahead(p, dt)
           after == Ahead(next, dt)
<1>1. s \in Int /\ m \in Nat /\ s <= 2 * m /\ -2 * m <= s /\ compute_arclen(p, dt, 10) = m * dt
  BY ArclenIs, Weighed DEF LastTenths
<1>2. before \in Int /\ after \in Int /\ 2 * (after - before) = 3 * (s * dt)
  BY TrapeziaAre
<1> HIDE DEF s, m, before, after
<1> DEFINE sd == s * dt
           md == m * dt
<1>3. sd \in Int /\ md \in Nat /\ sd <= 2 * md /\ -2 * md <= sd
  <2>1. (2 * m - s) * dt >= 0 /\ (s + 2 * m) * dt >= 0
    BY <1>1
  <2>2. (2 * m - s) * dt = 2 * md - sd /\ (s + 2 * m) * dt = sd + 2 * md
    BY <1>1
  <2>3. sd \in Int /\ md \in Nat
    BY <1>1
  <2> HIDE DEF sd, md
  <2> QED
    BY <2>1, <2>2, <2>3
<1> HIDE DEF sd, md
<1>4. 2 * (after - before) = 3 * sd /\ compute_arclen(p, dt, 10) = md
  BY <1>1, <1>2 DEF sd, md
<1>5. Abs(before) <= Abs(after) + 3 * md
  BY <1>2, <1>3, <1>4 DEF Abs
<1> QED
  BY <1>4, <1>5 DEF before, after

-----------------------------------------------------------------------------
(* The lengths of the segments, summed.                                       *)

Counted(L, x, dt, last) ==
  L = [t \in 0 .. N - 1 |-> compute_arclen(x[t], dt, last) + (IF t = 0 THEN 0 ELSE L[t - 1])]

\* The lengths up to the end of each segment.
LEMMA LengthsAre ==
  ASSUME NEW dt \in Nat, NEW x \in Solutions(dt), NEW last \in LastTenths
  PROVE  /\ cumsum(x, dt, last) \in [0 .. N - 1 -> Nat]
         /\ cumsum(x, dt, last)[0] = compute_arclen(x[0], dt, last)
         /\ \A t \in 1 .. N - 1 : cumsum(x, dt, last)[t] = compute_arclen(x[t], dt, last) + cumsum(x, dt, last)[t - 1]
<1> DEFINE n == N - 1
           L == cumsum(x, dt, last)
           arc(t) == compute_arclen(x[t], dt, last)
           F == [q \in (0 .. n) \X Nat |-> arc(q[1]) + q[2]]
           start == arc(0)
<1>1. L = CHOOSE h : Counted(h, x, dt, last)
  BY Zenon DEF cumsum, Counted
<1>2. n \in Nat
  BY SolverAssumption
<1>3. \A t \in 0 .. n : arc(t) \in Nat
  <2>1. ASSUME NEW t \in 0 .. n PROVE arc(t) \in Nat
    <3>1. x[t] \in Cubics
      BY SolutionIs
    <3>2. compute_arclen(x[t], dt, last) = Arc(x[t], dt, last) * dt /\ Arc(x[t], dt, last) \in Nat
      BY <3>1, ArclenIs
    <3> QED
      BY <3>2
  <2> QED
    BY <2>1
<1> HIDE DEF n, arc
<1>4. F \in [(0 .. n) \X Nat -> Nat] /\ start \in Nat
  BY <1>2, <1>3
<1>5. PICK g \in [0 .. n -> Nat] : MadeOf(g, start, n, F)
  <2> DEFINE V == Nat
  <2>1. F \in [(0 .. n) \X V -> V] /\ start \in V /\ n \in Nat
    BY <1>2, <1>4
  <2> HIDE DEF F, V, start
  <2>2. \E g \in [0 .. n -> V] : MadeOf(g, start, n, F)
    BY <2>1, RecursionExists
  <2> QED
    BY <2>2 DEF V
<1>6. ASSUME NEW k \in 0 .. n PROVE g[k] = arc(k) + (IF k = 0 THEN 0 ELSE g[k - 1])
  <2>1. CASE k = 0
    BY <1>3, <1>5, <2>1 DEF MadeOf
  <2>2. CASE k # 0
    <3>1. k \in 1 .. n /\ k - 1 \in 0 .. n
      BY <1>2, <2>2
    <3>2. <<k, g[k - 1]>> \in (0 .. n) \X Nat
      BY <1>5, <3>1
    <3> QED
      BY <1>5, <2>2, <3>1, <3>2 DEF MadeOf
  <2> QED
    BY <2>1, <2>2
<1>7. Counted(g, x, dt, last)
  <2>1. g = [k \in 0 .. n |-> g[k]]
    BY <1>5
  <2>2. g = [k \in 0 .. n |-> arc(k) + (IF k = 0 THEN 0 ELSE g[k - 1])]
    BY <1>6, <2>1, Zenon
  <2> QED
    BY <2>2, Zenon DEF Counted, arc, n
<1>8. Counted(L, x, dt, last)
  <2> HIDE DEF L
  <2> QED
    BY <1>1, <1>7, Zenon
<1>9. /\ \A k \in 0 .. n : L[k] = arc(k) + (IF k = 0 THEN 0 ELSE L[k - 1])
      /\ L = [k \in 0 .. n |-> L[k]]
  <2> HIDE DEF L
  <2>1. L = [k \in 0 .. n |-> arc(k) + (IF k = 0 THEN 0 ELSE L[k - 1])]
    BY <1>8, Zenon DEF Counted, arc, n
  <2>2. \A k \in 0 .. n : L[k] = arc(k) + (IF k = 0 THEN 0 ELSE L[k - 1])
    BY <2>1, Zenon
  <2>3. L = [k \in 0 .. n |-> L[k]]
    BY <2>1, <2>2, Zenon
  <2> QED
    BY <2>2, <2>3
<1> HIDE DEF L
<1>10. \A k \in 0 .. n : L[k] = g[k]
  <2> DEFINE S == {k \in 0 .. n : L[k] = g[k]}
  <2>1. 0 \in S
    <3>1. 0 \in 0 .. n
      BY <1>2
    <3>2. L[0] = arc(0) + 0
      BY <1>9, <3>1
    <3>3. g[0] = arc(0) + 0
      BY <1>6, <3>1
    <3> QED
      BY <3>1, <3>2, <3>3
  <2>2. ASSUME NEW k \in 1 .. n, k - 1 \in S PROVE k \in S
    <3>1. k \in 0 .. n /\ k # 0
      BY <1>2
    <3> QED
      BY <1>6, <1>9, <2>2, <3>1
  <2>3. \A k \in 0 .. n : k \in S
    <3> HIDE DEF S
    <3> QED
      BY <1>2, <2>1, <2>2, Upwards
  <2> QED
    BY <2>3
<1>11. L \in [0 .. n -> Nat]
  BY <1>5, <1>9, <1>10
<1>12. L[0] = arc(0) /\ \A t \in 1 .. n : L[t] = arc(t) + L[t - 1]
  <2>1. \A t \in 1 .. n : t \in 0 .. n /\ t # 0
    BY <1>2
  <2>2. 0 \in 0 .. n /\ arc(0) \in Nat
    BY <1>2, <1>3
  <2>3. L[0] = arc(0) + 0
    BY <1>9, <2>2
  <2>4. \A t \in 1 .. n : L[t] = arc(t) + L[t - 1]
    BY <1>9, <2>1
  <2> QED
    BY <2>2, <2>3, <2>4
<1> QED
  BY <1>11, <1>12 DEF L, arc, n

\* From a segment on, the lengths to come, of eleven samples, lead as far as the solution is from its end.
LEMMA LengthsAhead ==
  ASSUME NEW dt \in Nat, NEW x \in Solutions(dt), NEW t \in 0 .. N - 1
  PROVE  Abs(Ahead(Onward(x, t), dt)) <= 3 * (cumsum(x, dt, 10)[N - 1] - cumsum(x, dt, 10)[t])
<1> DEFINE L == cumsum(x, dt, 10)
           n == N - 1
           rest(u) == Abs(Ahead(Onward(x, u), dt))
           S == {u \in 0 .. n : rest(u) <= 3 * (L[n] - L[u])}
<1>1. n \in Nat
  BY SolverAssumption
<1>2. L \in [0 .. n -> Nat] /\ \A u \in 1 .. n : L[u] = compute_arclen(x[u], dt, 10) + L[u - 1]
  BY LengthsAre DEF LastTenths
<1>3. n \in S
  <2>1. Onward(x, n) = AtRest
    BY DEF Onward
  <2>2. Ahead(AtRest, dt) = 0
    BY DEF Ahead, AtRest
  <2>3. rest(n) = 0
    BY <2>1, <2>2 DEF Abs
  <2>4. n \in 0 .. n /\ L[n] \in Nat
    BY <1>1, <1>2
  <2> HIDE DEF L, rest, n
  <2>5. rest(n) <= 3 * (L[n] - L[n])
    BY <2>3, <2>4
  <2> QED
    BY <2>4, <2>5
<1>4. ASSUME NEW u \in 0 .. n - 1, u + 1 \in S PROVE u \in S
  <2> DEFINE p == x[u + 1]
             v == u + 1
  <2>1. v \in 1 .. n /\ v \in 0 .. N - 1 /\ u \in 0 .. n /\ u # N - 1 /\ v - 1 = u
    BY <1>1
  <2>2. Onward(x, u) = p
    BY <2>1 DEF Onward
  <2>3. p \in Cubics /\ Meets(p, Onward(x, v), dt)
    BY <2>1, SolutionIs
  <2>4. Abs(Ahead(p, dt)) <= Abs(Ahead(Onward(x, v), dt)) + 3 * compute_arclen(p, dt, 10)
    BY <2>3, SegmentAhead
  <2>5. L[v] = compute_arclen(p, dt, 10) + L[u]
    BY <1>2, <2>1
  <2>6. Abs(Ahead(Onward(x, v), dt)) \in Int /\ Abs(Ahead(p, dt)) \in Int
    <3>1. Ahead(p, dt) \in Int /\ Ahead(Onward(x, v), dt) \in Int
      BY <2>3, TrapeziaAre
    <3> QED
      BY <3>1 DEF Abs
  <2>7. compute_arclen(p, dt, 10) \in Int
    <3>1. compute_arclen(p, dt, 10) = Arc(p, dt, 10) * dt /\ Arc(p, dt, 10) \in Nat
      BY <2>3, ArclenIs DEF LastTenths
    <3> QED
      BY <3>1
  <2>8. rest(v) <= 3 * (L[n] - L[v])
    BY <1>4
  <2>9. L[n] \in Nat /\ L[u] \in Nat
    <3>1. n \in 0 .. n /\ u \in 0 .. n
      BY <1>1, <2>1
    <3> HIDE DEF L, n
    <3> QED
      BY <1>2, <3>1
  <2>10. rest(u) = Abs(Ahead(p, dt)) /\ rest(v) = Abs(Ahead(Onward(x, v), dt))
    BY <2>2
  <2> HIDE DEF L, rest, p, v, n
  <2>11. rest(u) <= 3 * (L[n] - L[u])
    BY <2>4, <2>5, <2>6, <2>7, <2>8, <2>9, <2>10
  <2> QED
    BY <2>1, <2>11
<1>5. \A u \in 0 .. n : u \in S
  <2> HIDE DEF S
  <2> QED
    BY <1>1, <1>3, <1>4, Downwards
<1> QED
  BY <1>5

\* The length of eleven samples is not less than the way made.
LEMMA WayMade ==
  ASSUME NEW dt \in Nat, NEW x \in Solutions(dt)
  PROVE  1000 * Abs(x[0].d) <= cumsum(x, dt, 10)[N - 1]
<1> DEFINE L == cumsum(x, dt, 10)
           p == x[0]
           next == Onward(x, 0)
           s == Trapezia(p, dt)
           m == Arc(p, dt, 10)
<1>1. N \in Nat \ {0} /\ 0 \in 0 .. N - 1
  BY SolverAssumption
<1>2. p \in Cubics /\ Meets(p, next, dt)
  BY <1>1, SolutionIs
<1>3. L \in [0 .. N - 1 -> Nat] /\ L[0] = m * dt
      /\ \A u \in 1 .. N - 1 : L[u] = compute_arclen(x[u], dt, 10) + L[u - 1]
  BY <1>2, ArclenIs, LengthsAre DEF LastTenths
<1>4. p.a \in Int /\ p.b \in Int /\ p.c \in Int /\ p.d \in Int
  BY <1>2 DEF Cubics
<1>5. s \in Int /\ m \in Nat /\ Ahead(p, dt) \in Int /\ Ahead(next, dt) \in Int
      /\ 2 * (Ahead(next, dt) - Ahead(p, dt)) = 3 * (s * dt)
      /\ Ahead(p, dt) = 3000 * p.d + 5 * p.b * dt * dt
  <2>1. s \in Int /\ m \in Nat
    BY <1>2, ArclenIs, Weighed DEF LastTenths
  <2>2. /\ Ahead(p, dt) \in Int /\ Ahead(next, dt) \in Int
        /\ 2 * (Ahead(next, dt) - Ahead(p, dt)) = 3 * (s * dt)
    BY <1>2, TrapeziaAre
  <2>3. Ahead(p, dt) = 3000 * p.d + 5 * p.b * dt * dt
    BY DEF Ahead
  <2> QED
    BY <2>1, <2>2, <2>3
<1>6. CASE N = 1
  <2> DEFINE sd == s * dt  md == m * dt  cube == p.a * dt * dt * dt
  <2>1. next = AtRest /\ L[N - 1] = md
    BY <1>3, <1>6 DEF Onward
  <2>2. p.b + 3 * p.a * dt = 0 /\ p.c + 2 * p.b * dt + 3 * p.a * dt * dt = 0 /\ getPos(p, dt) = 0
    BY <1>2, <2>1 DEF Meets, AtRest
  <2>3. p.b = -3 * p.a * dt
    <3> DEFINE y == 3 * p.a * dt  b == p.b
    <3>1. y \in Int /\ b \in Int /\ b + y = 0
      BY <1>4, <2>2
    <3>2. -3 * p.a * dt = -y
      BY <1>4
    <3> HIDE DEF y, b
    <3>3. b = -y
      BY <3>1
    <3> QED
      BY <3>2, <3>3 DEF b
  <2>4. p.c = 3 * p.a * dt * dt
    <3> DEFINE z == p.a * dt * dt  c == p.c
    <3>1. z \in Int /\ 3 * p.a * dt * dt = 3 * z
      BY <1>4
    <3>2. 2 * (-3 * p.a * dt) * dt = -6 * z
      BY <1>4
    <3>3. c \in Int /\ z \in Int /\ c + (-6 * z) + 3 * z = 0
      BY <1>4, <2>2, <2>3, <3>1, <3>2
    <3> HIDE DEF z, c
    <3>4. c = 3 * z
      BY <3>3
    <3> QED
      BY <3>1, <3>4 DEF c
  <2>5. p.a * dt * dt * dt + p.b * dt * dt + p.c * dt + p.d = 0
    BY <2>2 DEF getPos
  <2>6. p.d = -cube
    <3>1. (-3 * p.a * dt) * dt * dt = -3 * cube /\ (3 * p.a * dt * dt) * dt = 3 * cube /\ cube \in Int
      BY <1>4
    <3>2. cube + (-3 * cube) + 3 * cube + p.d = 0
      BY <2>3, <2>4, <2>5, <3>1
    <3> HIDE DEF cube
    <3> QED
      BY <1>4, <3>1, <3>2
  <2>7. Ahead(next, dt) = 0
    BY <2>1 DEF Ahead, AtRest
  <2>8. 5 * p.b * dt * dt = -15 * cube /\ cube \in Int
    BY <1>4, <2>3
  <2>9. sd \in Int /\ md \in Nat /\ sd <= 2 * md /\ -2 * md <= sd
    <3>1. s <= 2 * m /\ -2 * m <= s
      BY <1>2, Weighed
    <3>2. (2 * m - s) * dt >= 0 /\ (s + 2 * m) * dt >= 0
      BY <1>5, <3>1
    <3>3. (2 * m - s) * dt = 2 * md - sd /\ (s + 2 * m) * dt = sd + 2 * md
      BY <1>5
    <3>4. sd \in Int /\ md \in Nat
      BY <1>5
    <3> HIDE DEF sd, md
    <3> QED
      BY <3>2, <3>3, <3>4
  <2>10. 2 * (0 - Ahead(p, dt)) = 3 * sd /\ Ahead(p, dt) = 3000 * p.d - 15 * cube
    <3>1. Ahead(p, dt) = 3000 * p.d + (-15 * cube)
      BY <1>5, <2>8
    <3>2. 3000 * p.d \in Int
      BY <1>4
    <3> HIDE DEF cube
    <3>3. Ahead(p, dt) = 3000 * p.d - 15 * cube
      BY <2>8, <3>1, <3>2
    <3> QED
      BY <1>5, <2>7, <3>3
  <2> HIDE DEF sd, md, cube
  <2>11. 1000 * Abs(p.d) <= md
    BY <1>5, <2>6, <2>8, <2>9, <2>10 DEF Abs
  <2> QED
    BY <2>1, <2>11
<1>7. CASE N # 1
  <2> DEFINE q == x[1]
             after == Onward(x, 1)
             r == Trapezia(q, dt)
             l == Arc(q, dt, 10)
             end == Ahead(after, dt)
  <2>1. 1 \in 0 .. N - 1 /\ 1 \in 1 .. N - 1 /\ next = q
    BY <1>1, <1>7 DEF Onward
  <2>2. q \in Cubics /\ Meets(q, after, dt)
    BY <2>1, SolutionIs
  <2>3. r \in Int /\ l \in Nat /\ Ahead(q, dt) \in Int /\ end \in Int
        /\ 2 * (end - Ahead(q, dt)) = 3 * (r * dt)
    <3>1. r \in Int /\ l \in Nat
      BY <2>2, ArclenIs, Weighed DEF LastTenths
    <3>2. Ahead(q, dt) \in Int /\ end \in Int /\ 2 * (end - Ahead(q, dt)) = 3 * (r * dt)
      BY <2>2, TrapeziaAre
    <3> QED
      BY <3>1, <3>2
  <2>4. L[1] = l * dt + m * dt /\ L[N - 1] \in Nat /\ L[1] \in Nat
    <3>1. compute_arclen(q, dt, 10) = l * dt
      BY <2>2, ArclenIs DEF LastTenths
    <3>2. L[1] = compute_arclen(q, dt, 10) + L[1 - 1]
      BY <1>3, <2>1
    <3>3. N - 1 \in 0 .. N - 1
      BY <1>1
    <3> QED
      BY <1>3, <2>1, <3>1, <3>2, <3>3
  <2>5. Abs(end) <= 3 * (L[N - 1] - L[1])
    BY <2>1, LengthsAhead
  <2> DEFINE first == 60 * s - 2 * SpeedAt(p, dt, 0) + 5 * SpeedAt(p, dt, 10)
             second == 60 * r - 4 * SpeedAt(q, dt, 5) + SpeedAt(q, dt, 10)
  <2>6. /\ first \in Int /\ first <= 120 * m /\ -120 * m <= first
        /\ second \in Int /\ second <= 120 * l /\ -120 * l <= second
        /\ SpeedAt(p, dt, 0) \in Int /\ SpeedAt(p, dt, 10) \in Int
        /\ SpeedAt(q, dt, 5) \in Int /\ SpeedAt(q, dt, 10) \in Int
    <3>1. 0 \in 0 .. 10 /\ 5 \in 0 .. 10 /\ 10 \in 0 .. 10
      OBVIOUS
    <3>2. /\ SpeedAt(p, dt, 0) \in Int /\ SpeedAt(p, dt, 10) \in Int
          /\ SpeedAt(q, dt, 5) \in Int /\ SpeedAt(q, dt, 10) \in Int
      BY <1>2, <2>2, <3>1, SampleIs
    <3> QED
      BY <1>2, <1>5, <2>2, <2>3, <3>2, Weighed
  <2>7. 200 * (p.b * dt) = (5 * SpeedAt(p, dt, 10) - 2 * SpeedAt(p, dt, 0))
                             + (SpeedAt(q, dt, 10) - 4 * SpeedAt(q, dt, 5))
    <3> DEFINE aa == p.a * dt * dt
               bb == p.b * dt
    <3>1. /\ SpeedAt(p, dt, 0) = 100 * p.c
          /\ SpeedAt(p, dt, 10) = 300 * aa + 200 * bb + 100 * p.c
      BY <1>4 DEF SpeedAt
    <3>2. q.a \in Int /\ q.b = p.b + 3 * p.a * dt /\ q.c = p.c + 2 * p.b * dt + 3 * p.a * dt * dt
      BY <1>2, <2>1, <2>2 DEF Meets, Cubics
    <3>3. q.b * dt = bb + 3 * aa /\ q.c = p.c + 2 * bb + 3 * aa
      BY <1>4, <3>2
    <3>4. SpeedAt(q, dt, 10) - 4 * SpeedAt(q, dt, 5) = -200 * (q.b * dt) - 300 * q.c
      <4> DEFINE e == q.a * dt * dt
                 h == q.b * dt
      <4>1. q.b \in Int /\ q.c \in Int
        BY <2>2 DEF Cubics
      <4>2. SpeedAt(q, dt, 10) = 300 * e + 200 * h + 100 * q.c
        BY <3>2, <4>1 DEF SpeedAt
      <4>3. SpeedAt(q, dt, 5) = 75 * e + 100 * h + 100 * q.c
        BY <3>2, <4>1 DEF SpeedAt
      <4>4. e \in Int /\ h \in Int
        BY <3>2, <4>1
      <4> HIDE DEF e, h
      <4>5. SpeedAt(q, dt, 10) - 4 * SpeedAt(q, dt, 5) = -200 * h - 300 * q.c
        BY <4>1, <4>2, <4>3, <4>4
      <4> QED
        BY <4>5 DEF h
    <3>5. aa \in Int /\ bb \in Int
      BY <1>4
    <3> HIDE DEF aa, bb
    <3>6. 200 * bb = (5 * SpeedAt(p, dt, 10) - 2 * SpeedAt(p, dt, 0)) + (-200 * (bb + 3 * aa) - 300 * (p.c + 2 * bb + 3 * aa))
      BY <1>4, <3>1, <3>5
    <3> QED
      BY <3>3, <3>4, <3>6 DEF bb
  <2> DEFINE fd == first * dt  sd == second * dt  md == m * dt  ld == l * dt
  <2>8. 200 * (p.b * dt) * dt + 60 * (s * dt) + 60 * (r * dt) = fd + sd
    <3> DEFINE bb == p.b * dt
    <3>1. 200 * bb + 60 * s + 60 * r = first + second
      <4> DEFINE u0 == SpeedAt(p, dt, 0)  u10 == SpeedAt(p, dt, 10)
                 v5 == SpeedAt(q, dt, 5)  v10 == SpeedAt(q, dt, 10)
      <4>1. bb \in Int /\ u0 \in Int /\ u10 \in Int /\ v5 \in Int /\ v10 \in Int
        BY <1>4, <2>6
      <4>2. 200 * bb = (5 * u10 - 2 * u0) + (v10 - 4 * v5)
        BY <2>7
      <4>3. first = 60 * s - 2 * u0 + 5 * u10 /\ second = 60 * r - 4 * v5 + v10
        OBVIOUS
      <4> HIDE DEF s, r, bb, u0, u10, v5, v10, first, second
      <4> QED
        BY <1>5, <2>3, <4>1, <4>2, <4>3
    <3>2. bb \in Int /\ first \in Int /\ second \in Int
      BY <1>4, <2>6
    <3> HIDE DEF bb, s, r, first, second
    <3>3. (200 * bb + 60 * s + 60 * r) * dt = 200 * bb * dt + 60 * (s * dt) + 60 * (r * dt)
      BY <1>5, <2>3, <3>2
    <3>4. (first + second) * dt = first * dt + second * dt
      BY <3>2
    <3>5. 200 * bb * dt + 60 * (s * dt) + 60 * (r * dt) = first * dt + second * dt
      BY <3>1, <3>3, <3>4
    <3> QED
      BY <3>5 DEF bb
  <2>9. fd \in Int /\ sd \in Int /\ md \in Nat /\ ld \in Nat
        /\ fd <= 120 * md /\ -120 * md <= fd /\ sd <= 120 * ld /\ -120 * ld <= sd
    <3> HIDE DEF first, second, m, l
    <3>1. ASSUME NEW y \in Int, NEW z \in Nat, y <= 120 * z, -120 * z <= y
          PROVE  y * dt \in Int /\ z * dt \in Nat /\ y * dt <= 120 * (z * dt) /\ -120 * (z * dt) <= y * dt
      <4>1. (120 * z - y) * dt >= 0 /\ (y + 120 * z) * dt >= 0
        BY <3>1
      <4>2. (120 * z - y) * dt = 120 * (z * dt) - y * dt /\ (y + 120 * z) * dt = y * dt + 120 * (z * dt)
        OBVIOUS
      <4>3. y * dt \in Int /\ z * dt \in Nat
        OBVIOUS
      <4> DEFINE yd == y * dt  zd == z * dt
      <4>4. 120 * zd - yd >= 0 /\ yd + 120 * zd >= 0 /\ yd \in Int /\ zd \in Nat
        BY <4>1, <4>2, <4>3
      <4> HIDE DEF yd, zd
      <4>5. yd <= 120 * zd /\ -120 * zd <= yd
        BY <4>4
      <4> QED
        BY <4>3, <4>5 DEF yd, zd
    <3> QED
      BY <1>5, <2>3, <2>6, <3>1
  <2>10. 3000 * p.d = Ahead(p, dt) - 5 * ((p.b * dt) * dt) /\ (p.b * dt) * dt \in Int
    BY <1>4, <1>5
  <2> DEFINE bdd == (p.b * dt) * dt
             ss == s * dt
             rr == r * dt
  <2>11. ss \in Int /\ rr \in Int /\ bdd \in Int
    BY <1>4, <1>5, <2>3
  <2>12. /\ 2 * (Ahead(q, dt) - Ahead(p, dt)) = 3 * ss /\ 2 * (end - Ahead(q, dt)) = 3 * rr
         /\ 200 * bdd + 60 * ss + 60 * rr = fd + sd
         /\ 3000 * p.d = Ahead(p, dt) - 5 * bdd
         /\ L[1] = ld + md
    <3>1. 200 * (p.b * dt) * dt = 200 * bdd
      BY <1>4
    <3> QED
      BY <1>5, <2>1, <2>3, <2>4, <2>8, <2>10, <3>1
  <2> HIDE DEF fd, sd, md, ld, bdd, ss, rr, end, L
  <2>13. 1000 * Abs(p.d) <= L[N - 1]
    <3>1. 120000 * p.d = 40 * end - fd - sd
      <4> DEFINE ap == Ahead(p, dt)  aq == Ahead(q, dt)  d == p.d
      <4>1. ap \in Int /\ aq \in Int /\ end \in Int /\ d \in Int
        BY <1>4, <1>5, <2>3
      <4>2. /\ 2 * (aq - ap) = 3 * ss /\ 2 * (end - aq) = 3 * rr
            /\ 200 * bdd + 60 * ss + 60 * rr = fd + sd
            /\ 3000 * d = ap - 5 * bdd
        BY <2>12
      <4> HIDE DEF ap, aq, d
      <4>3. 120000 * d = 40 * end - fd - sd
        BY <2>9, <2>11, <4>1, <4>2
      <4> QED
        BY <4>3 DEF d
    <3>2. end <= 3 * (L[N - 1] - L[1]) /\ -3 * (L[N - 1] - L[1]) <= end
      BY <2>3, <2>4, <2>5 DEF Abs
    <3>3. 1000 * p.d <= L[N - 1] /\ -1000 * p.d <= L[N - 1]
      BY <1>4, <2>3, <2>4, <2>9, <2>12, <3>1, <3>2
    <3> QED
      BY <1>4, <3>3 DEF Abs
  <2> QED
    BY <2>13 DEF L
<1> QED
  BY <1>6, <1>7

-----------------------------------------------------------------------------
(* The length if it may be without the samples at the segments' ends.         *)

\* Twice Ahead, and a little of the speed: what ten samples leave over of each segment adds
\* up to it.
Left(p, dt) == 2 * Ahead(p, dt) - 300 * p.c * dt

\* The sum of the first ten samples.
FirstTen(p, dt) ==
  SpeedAt(p, dt, 0) + SpeedAt(p, dt, 1) + SpeedAt(p, dt, 2) + SpeedAt(p, dt, 3) + SpeedAt(p, dt, 4)
    + SpeedAt(p, dt, 5) + SpeedAt(p, dt, 6) + SpeedAt(p, dt, 7) + SpeedAt(p, dt, 8) + SpeedAt(p, dt, 9)

\* The first ten samples, and these with the first of them counted the other way, come to no
\* more than their magnitudes.
LEMMA TenWeighed ==
  ASSUME NEW p \in Cubics, NEW dt \in Nat, NEW last \in LastTenths
  PROVE  LET s == FirstTen(p, dt)
             m == Arc(p, dt, last)
         IN /\ s \in Int /\ s <= m /\ -m <= s
            /\ s - SpeedAt(p, dt, 0) <= m /\ -m <= s - SpeedAt(p, dt, 0)
<1> DEFINE w(k) == SpeedAt(p, dt, k)
           m(k) == Abs(SpeedAt(p, dt, k))
           end == IF last = 10 THEN m(10) ELSE 0
<1>1. \A k \in 0 .. 10 : w(k) \in Int /\ m(k) \in Nat /\ w(k) <= m(k) /\ -m(k) <= w(k)
  BY SampleIs
<1>2. FirstTen(p, dt) = w(0) + w(1) + w(2) + w(3) + w(4) + w(5) + w(6) + w(7) + w(8) + w(9)
  BY DEF FirstTen
<1>3. Arc(p, dt, last) = m(0) + m(1) + m(2) + m(3) + m(4) + m(5) + m(6) + m(7) + m(8) + m(9) + end
  BY DEF Arc
<1>4. SpeedAt(p, dt, 0) = w(0)
  OBVIOUS
<1>5. end \in Nat
  BY <1>1
<1> HIDE DEF w, m, end
<1>6. /\ w(0) \in Int /\ m(0) \in Nat /\ w(0) <= m(0) /\ -m(0) <= w(0)
      /\ w(1) \in Int /\ m(1) \in Nat /\ w(1) <= m(1) /\ -m(1) <= w(1)
      /\ w(2) \in Int /\ m(2) \in Nat /\ w(2) <= m(2) /\ -m(2) <= w(2)
      /\ w(3) \in Int /\ m(3) \in Nat /\ w(3) <= m(3) /\ -m(3) <= w(3)
      /\ w(4) \in Int /\ m(4) \in Nat /\ w(4) <= m(4) /\ -m(4) <= w(4)
      /\ w(5) \in Int /\ m(5) \in Nat /\ w(5) <= m(5) /\ -m(5) <= w(5)
      /\ w(6) \in Int /\ m(6) \in Nat /\ w(6) <= m(6) /\ -m(6) <= w(6)
      /\ w(7) \in Int /\ m(7) \in Nat /\ w(7) <= m(7) /\ -m(7) <= w(7)
      /\ w(8) \in Int /\ m(8) \in Nat /\ w(8) <= m(8) /\ -m(8) <= w(8)
      /\ w(9) \in Int /\ m(9) \in Nat /\ w(9) <= m(9) /\ -m(9) <= w(9)
  BY <1>1
<1> DEFINE inner == w(1) + w(2) + w(3) + w(4) + w(5) + w(6) + w(7) + w(8) + w(9)
           others == m(1) + m(2) + m(3) + m(4) + m(5) + m(6) + m(7) + m(8) + m(9)
<1>7. inner \in Int /\ others \in Nat /\ inner <= others /\ -others <= inner
  BY <1>6
<1>8. FirstTen(p, dt) = w(0) + inner /\ Arc(p, dt, last) = m(0) + others + end
  BY <1>2, <1>3, <1>5, <1>6
<1> HIDE DEF inner, others
<1> QED
  BY <1>4, <1>5, <1>6, <1>7, <1>8

\* Over a segment, Left changes by six times what the first ten samples sum.
LEMMA LeftChanges ==
  ASSUME NEW p \in Cubics, NEW dt \in Nat, NEW next, Meets(p, next, dt)
  PROVE  /\ Left(p, dt) \in Int /\ Left(next, dt) \in Int
         /\ Left(next, dt) = Left(p, dt) + 6 * (FirstTen(p, dt) * dt)
<1> DEFINE a == p.a  b == p.b  c == p.c  d == p.d
<1>1. a \in Int /\ b \in Int /\ c \in Int /\ d \in Int
  BY DEF Cubics
<1>2. /\ next.b = b + 3 * a * dt /\ next.c = c + 2 * b * dt + 3 * a * dt * dt
      /\ next.d = a * dt * dt * dt + b * dt * dt + c * dt + d
  BY DEF Meets, getPos
<1>3. \A k \in 0 .. 10 : SpeedAt(p, dt, k) = 3 * a * (k * dt) * (k * dt) + 20 * b * (k * dt) + 100 * c
  BY DEF SpeedAt
<1> HIDE DEF a, b, c, d
<1>4. FirstTen(p, dt) = 855 * (a * dt * dt) + 900 * (b * dt) + 1000 * c
  <2> DEFINE aa == a * dt * dt
             bb == b * dt
  <2>1. ASSUME NEW k \in 0 .. 10 PROVE SpeedAt(p, dt, k) = 3 * (k * k) * aa + 20 * k * bb + 100 * c
    BY <1>1, <1>3
  <2>2. aa \in Int /\ bb \in Int
    BY <1>1
  <2> HIDE DEF aa, bb
  <2>3. /\ SpeedAt(p, dt, 0) = 100 * c
        /\ SpeedAt(p, dt, 1) = 3 * aa + 20 * bb + 100 * c
        /\ SpeedAt(p, dt, 2) = 12 * aa + 40 * bb + 100 * c
        /\ SpeedAt(p, dt, 3) = 27 * aa + 60 * bb + 100 * c
        /\ SpeedAt(p, dt, 4) = 48 * aa + 80 * bb + 100 * c
        /\ SpeedAt(p, dt, 5) = 75 * aa + 100 * bb + 100 * c
        /\ SpeedAt(p, dt, 6) = 108 * aa + 120 * bb + 100 * c
        /\ SpeedAt(p, dt, 7) = 147 * aa + 140 * bb + 100 * c
        /\ SpeedAt(p, dt, 8) = 192 * aa + 160 * bb + 100 * c
        /\ SpeedAt(p, dt, 9) = 243 * aa + 180 * bb + 100 * c
    BY <1>1, <2>1, <2>2
  <2> QED
    BY <1>1, <2>2, <2>3 DEF FirstTen, aa, bb
<1> DEFINE A == a * dt * dt * dt
           B == b * dt * dt
           C == c * dt
<1>5. A \in Int /\ B \in Int /\ C \in Int
  BY <1>1
<1>6. Left(p, dt) = 6000 * d + 10 * B - 300 * C
  <2>1. Ahead(p, dt) = 3000 * d + 5 * B
    <3>1. 5 * b * dt * dt = 5 * B
      BY <1>1
    <3> QED
      BY <3>1 DEF Ahead, b, d
  <2>2. Left(p, dt) = 2 * Ahead(p, dt) - 300 * C
    <3>1. 300 * c * dt = 300 * C
      BY <1>1
    <3> QED
      BY <3>1 DEF Left, c
  <2> HIDE DEF B, C
  <2> QED
    BY <1>1, <1>5, <2>1, <2>2
<1>7. Left(next, dt) = 6000 * (A + B + C + d) + 10 * (B + 3 * A) - 300 * (C + 2 * B + 3 * A)
  <2>1. Ahead(next, dt) = 3000 * (A + B + C + d) + 5 * (B + 3 * A)
    <3>1. 5 * (b + 3 * a * dt) * dt * dt = 5 * (B + 3 * A)
      BY <1>1
    <3> QED
      BY <1>2, <3>1 DEF Ahead
  <2>2. Left(next, dt) = 2 * Ahead(next, dt) - 300 * (C + 2 * B + 3 * A)
    <3>1. 300 * (c + 2 * b * dt + 3 * a * dt * dt) * dt = 300 * (C + 2 * B + 3 * A)
      BY <1>1
    <3> QED
      BY <1>2, <3>1 DEF Left
  <2> HIDE DEF A, B, C
  <2> QED
    BY <1>1, <1>5, <2>1, <2>2
<1>8. FirstTen(p, dt) * dt = 855 * A + 900 * B + 1000 * C
  BY <1>1, <1>4
<1> HIDE DEF A, B, C
<1> QED
  BY <1>1, <1>5, <1>6, <1>7, <1>8

\* A sum of products is bounded as its factors are.
LEMMA Timed ==
  ASSUME NEW dt \in Nat, NEW y \in Int, NEW z \in Nat, y <= z, -z <= y
  PROVE  y * dt \in Int /\ z * dt \in Nat /\ y * dt <= z * dt /\ -(z * dt) <= y * dt
<1> DEFINE yd == y * dt  zd == z * dt
<1>1. (z - y) * dt >= 0 /\ (y + z) * dt >= 0
  OBVIOUS
<1>2. (z - y) * dt = zd - yd /\ (y + z) * dt = yd + zd
  OBVIOUS
<1>3. yd \in Int /\ zd \in Nat
  OBVIOUS
<1> HIDE DEF yd, zd
<1>4. yd <= zd /\ -zd <= yd
  BY <1>1, <1>2, <1>3
<1> QED
  BY <1>3, <1>4 DEF yd, zd

\* So it changes by no more than six times the segment's length.
LEMMA SegmentLeft ==
  ASSUME NEW p \in Cubics, NEW dt \in Nat, NEW next, Meets(p, next, dt), NEW last \in LastTenths
  PROVE  Abs(Left(p, dt)) <= Abs(Left(next, dt)) + 6 * compute_arclen(p, dt, last)
<1> DEFINE s == FirstTen(p, dt)
           m == Arc(p, dt, last)
           before == Left(p, dt)
           after == Left(next, dt)
           sd == s * dt
           md == m * dt
<1>1. s \in Int /\ m \in Nat /\ s <= m /\ -m <= s /\ compute_arclen(p, dt, last) = md
  BY ArclenIs, TenWeighed
<1>2. before \in Int /\ after \in Int /\ after = before + 6 * sd
  BY LeftChanges
<1> HIDE DEF s, m, before, after
<1>3. sd \in Int /\ md \in Nat /\ sd <= md /\ -md <= sd
  BY <1>1, Timed
<1> HIDE DEF sd, md
<1>4. Abs(before) <= Abs(after) + 6 * md
  BY <1>2, <1>3 DEF Abs
<1> QED
  BY <1>1, <1>4 DEF before, after

\* From a segment on, six times the lengths to come are no less than what is left.
LEMMA LengthsLeft ==
  ASSUME NEW dt \in Nat, NEW x \in Solutions(dt), NEW t \in 0 .. N - 1, NEW last \in LastTenths
  PROVE  Abs(Left(Onward(x, t), dt)) <= 6 * (cumsum(x, dt, last)[N - 1] - cumsum(x, dt, last)[t])
<1> DEFINE L == cumsum(x, dt, last)
           n == N - 1
           rest(u) == Abs(Left(Onward(x, u), dt))
           S == {u \in 0 .. n : rest(u) <= 6 * (L[n] - L[u])}
<1>1. n \in Nat
  BY SolverAssumption
<1>2. L \in [0 .. n -> Nat] /\ \A u \in 1 .. n : L[u] = compute_arclen(x[u], dt, last) + L[u - 1]
  BY LengthsAre
<1>3. n \in S
  <2>1. Onward(x, n) = AtRest
    BY DEF Onward
  <2>2. Left(AtRest, dt) = 0
    BY DEF Left, Ahead, AtRest
  <2>3. rest(n) = 0
    BY <2>1, <2>2 DEF Abs
  <2>4. n \in 0 .. n /\ L[n] \in Nat
    BY <1>1, <1>2
  <2> HIDE DEF L, rest, n
  <2>5. rest(n) <= 6 * (L[n] - L[n])
    BY <2>3, <2>4
  <2> QED
    BY <2>4, <2>5
<1>4. ASSUME NEW u \in 0 .. n - 1, u + 1 \in S PROVE u \in S
  <2> DEFINE p == x[u + 1]
             v == u + 1
             l == compute_arclen(p, dt, last)
  <2>1. v \in 1 .. n /\ v \in 0 .. N - 1 /\ u \in 0 .. n /\ u # N - 1 /\ v - 1 = u
    BY <1>1
  <2>2. Onward(x, u) = p
    BY <2>1 DEF Onward
  <2>3. p \in Cubics /\ Meets(p, Onward(x, v), dt)
    BY <2>1, SolutionIs
  <2>4. Abs(Left(p, dt)) <= Abs(Left(Onward(x, v), dt)) + 6 * l
    BY <2>3, SegmentLeft
  <2>5. L[v] = l + L[u]
    BY <1>2, <2>1
  <2>6. Abs(Left(Onward(x, v), dt)) \in Int /\ Abs(Left(p, dt)) \in Int
    <3>1. Left(p, dt) \in Int /\ Left(Onward(x, v), dt) \in Int
      BY <2>3, LeftChanges
    <3> QED
      BY <3>1 DEF Abs
  <2>7. l \in Int
    <3>1. l = Arc(p, dt, last) * dt /\ Arc(p, dt, last) \in Nat
      BY <2>3, ArclenIs
    <3> QED
      BY <3>1
  <2>8. rest(v) <= 6 * (L[n] - L[v])
    BY <1>4
  <2>9. L[n] \in Nat /\ L[u] \in Nat
    <3>1. n \in 0 .. n /\ u \in 0 .. n
      BY <1>1, <2>1
    <3> HIDE DEF L, n
    <3> QED
      BY <1>2, <3>1
  <2>10. rest(u) = Abs(Left(p, dt)) /\ rest(v) = Abs(Left(Onward(x, v), dt))
    BY <2>2
  <2> HIDE DEF L, rest, p, v, n, l
  <2>11. rest(u) <= 6 * (L[n] - L[u])
    BY <2>4, <2>5, <2>6, <2>7, <2>8, <2>9, <2>10
  <2> QED
    BY <2>1, <2>11
<1>5. \A u \in 0 .. n : u \in S
  <2> HIDE DEF S
  <2> QED
    BY <1>1, <1>3, <1>4, Downwards
<1> QED
  BY <1>5

\* The length, with the ends sampled or without, is no less than the way made but for a
\* little of the first acceleration.
LEMMA WayMadeRoughly ==
  ASSUME NEW dt \in Nat, NEW x \in Solutions(dt), NEW last \in LastTenths
  PROVE  /\ Ahead(x[0], dt) \in Int
         /\ Abs(Ahead(x[0], dt)) <= 3 * cumsum(x, dt, last)[N - 1]
<1> DEFINE L == cumsum(x, dt, last)
           p == x[0]
           next == Onward(x, 0)
           s == FirstTen(p, dt)
           m == Arc(p, dt, last)
           u0 == SpeedAt(p, dt, 0)
           sd == s * dt
           rd == (s - u0) * dt
           md == m * dt
           before == Ahead(p, dt)
           after == Left(next, dt)
           whole == L[N - 1]
<1>1. N \in Nat \ {0} /\ 0 \in 0 .. N - 1 /\ N - 1 \in 0 .. N - 1
  BY SolverAssumption
<1>2. p \in Cubics /\ Meets(p, next, dt)
  BY <1>1, SolutionIs
<1>3. L \in [0 .. N - 1 -> Nat] /\ L[0] = md
  BY <1>2, ArclenIs, LengthsAre
<1>4. Abs(after) <= 6 * (whole - L[0])
  BY <1>1, LengthsLeft
<1>5. m \in Nat /\ s \in Int /\ s <= m /\ -m <= s /\ s - u0 <= m /\ -m <= s - u0
  BY <1>2, ArclenIs, TenWeighed
<1>6. u0 \in Int /\ u0 = 100 * p.c /\ p.c \in Int
  <2>1. p.a \in Int /\ p.b \in Int /\ p.c \in Int
    BY <1>2 DEF Cubics
  <2> QED
    BY <2>1 DEF SpeedAt
<1>7. before \in Int /\ after \in Int /\ after = (2 * before - 300 * p.c * dt) + 6 * sd
  <2>1. before \in Int
    BY <1>2, TrapeziaAre
  <2>2. after \in Int /\ after = Left(p, dt) + 6 * sd
    BY <1>2, LeftChanges
  <2> QED
    BY <2>1, <2>2 DEF Left
<1>8. whole \in Nat
  <2> HIDE DEF L
  <2> QED
    BY <1>1, <1>3
<1> HIDE DEF L, p, next, s, m, u0, before, after, whole
<1>9. sd \in Int /\ md \in Nat /\ sd <= md /\ -md <= sd /\ rd \in Int /\ rd <= md /\ -md <= rd
  <2>1. s - u0 \in Int
    BY <1>5, <1>6
  <2> DEFINE r == s - u0
  <2>2. r \in Int /\ r <= m /\ -m <= r
    BY <1>5, <2>1
  <2> HIDE DEF r
  <2>3. r * dt \in Int /\ r * dt <= md /\ -md <= r * dt
    BY <1>5, <2>2, Timed
  <2>4. sd \in Int /\ md \in Nat /\ sd <= md /\ -md <= sd
    BY <1>5, Timed
  <2> QED
    BY <2>3, <2>4 DEF r
<1>10. 300 * p.c * dt = 3 * (sd - rd)
  <2> DEFINE c == p.c
  <2>1. c \in Int /\ u0 = 100 * c
    BY <1>6
  <2> HIDE DEF c
  <2>2. sd - rd = u0 * dt
    BY <1>5, <1>6
  <2>3. 300 * c * dt = 3 * ((100 * c) * dt)
    BY <2>1
  <2> QED
    BY <2>1, <2>2, <2>3 DEF c
<1> DEFINE extra == 300 * p.c * dt
<1>11. after = (2 * before - extra) + 6 * sd /\ extra = 3 * (sd - rd)
  BY <1>7, <1>10
<1> HIDE DEF sd, rd, md, extra
<1>12. after <= 6 * (whole - md) /\ -6 * (whole - md) <= after
  BY <1>3, <1>4, <1>7, <1>8, <1>9 DEF Abs
<1>13. 2 * before = after - 3 * sd - 3 * rd
  BY <1>7, <1>9, <1>11
<1>14. before <= 3 * whole /\ -(3 * whole) <= before
  BY <1>7, <1>8, <1>9, <1>12, <1>13
<1>15. Abs(before) <= 3 * whole
  BY <1>7, <1>8, <1>14 DEF Abs
<1> QED
  BY <1>7, <1>15 DEF before, whole, L, p

-----------------------------------------------------------------------------
(* The points of the reparameterisation.                                      *)

\* The segment that a part of the length comes to.
LEMMA PartIs ==
  ASSUME NEW lengths \in [0 .. N - 1 -> Nat], NEW i \in 0 .. M
  PROVE  /\ min_idx(lengths, i) \in 0 .. N - 1
         /\ i * lengths[N - 1] <= M * lengths[min_idx(lengths, i)]
         /\ min_idx(lengths, i) > 0 =>
              i * lengths[N - 1] >= M * lengths[min_idx(lengths, i) - 1]
<1> DEFINE n == N - 1
           whole == lengths[n]
           R == {t \in DOMAIN lengths : M * lengths[t] >= i * whole}
           first == CHOOSE t \in R : \A u \in R : t <= u
<1>1. n \in Nat /\ n \in 0 .. n /\ DOMAIN lengths = 0 .. n /\ M = 20
  BY SolverAssumption DEF M
<1>2. whole \in Nat
  BY <1>1
<1>3. n \in R
  <2>1. (M - i) * whole >= 0
    BY <1>1, <1>2
  <2>2. (M - i) * whole = M * whole - i * whole
    BY <1>1, <1>2
  <2>3. M * whole \in Nat /\ i * whole \in Nat
    BY <1>1, <1>2
  <2>4. M * whole >= i * whole
    <3> DEFINE a == M * whole
               b == i * whole
    <3>1. a - b >= 0 /\ a \in Nat /\ b \in Nat
      BY <2>1, <2>2, <2>3
    <3> HIDE DEF a, b
    <3>2. a >= b
      BY <3>1
    <3> QED
      BY <3>2 DEF a, b
  <2> QED
    BY <1>1, <2>4
<1>4. R \subseteq 0 .. n
  BY <1>1
<1>5. \E t \in R : \A u \in R : t <= u
  <2> HIDE DEF R, n
  <2>1. R \subseteq Nat /\ R # {}
    BY <1>3, <1>4
  <2> QED
    BY <2>1, LeastExists
<1>6. first \in R /\ \A u \in R : first <= u
  <2> HIDE DEF R
  <2> QED
    BY <1>5, Zenon
<1>7. min_idx(lengths, i) = first
  BY <1>3, Zenon DEF min_idx
<1> HIDE DEF first
<1>8. first \in 0 .. n /\ M * lengths[first] >= i * whole
  BY <1>4, <1>6
<1>9. ASSUME first > 0 PROVE i * whole >= M * lengths[first - 1]
  <2>1. first - 1 \in 0 .. n
    BY <1>1, <1>8, <1>9
  <2>2. first - 1 \notin R
    BY <1>6, <1>8, <1>9
  <2>3. ~(M * lengths[first - 1] >= i * whole)
    BY <1>1, <2>1, <2>2
  <2>4. M * lengths[first - 1] \in Nat /\ i * whole \in Nat
    BY <1>1, <1>2, <2>1
  <2> QED
    BY <2>3, <2>4
<1>10. M * lengths[first] \in Nat /\ i * whole \in Nat
  <2> DEFINE l == lengths[first]
  <2>1. l \in Nat
    BY <1>1, <1>8
  <2> HIDE DEF l, whole
  <2>2. M * l \in Nat /\ i * whole \in Nat
    BY <1>1, <1>2, <2>1
  <2> QED
    BY <2>2 DEF l
<1> QED
  BY <1>7, <1>8, <1>9, <1>10

\* Any allocation's solutions are reparameterised through their whole length.
LEMMA ReparameterisedIs ==
  ASSUME NEW f \in Nat, NEW d \in Nat
  PROVE  Reparameterised(f, d)
<1> DEFINE dt == findDT(f, d)
<1>1. dt \in Nat
  <2>1. Larger(d, 2 * DC) \in Nat
    BY SolverAssumption DEF Larger
  <2> QED
    BY <2>1 DEF findDT
<1> HIDE DEF dt
<1>2. ASSUME NEW last \in LastTenths, NEW x \in Solutions(dt)
      PROVE  LET sent == get_arclen_traj(x, dt, last)
                 lengths == cumsum(x, dt, last)
                 way == getPos(x[0], 0)
             IN /\ Len(sent) = M + 1
                /\ \A n \in DOMAIN sent :
                     /\ sent[n].s <= M * lengths[sent[n].segment]
                     /\ sent[n].segment > 0 => sent[n].s >= M * lengths[sent[n].segment - 1]
                /\ last = 10 => sent[M + 1].s >= M * 1000 * Abs(way)
                /\ 3 * sent[M + 1].s >= M * Abs(3000 * way + 5 * getBn(x[0], dt))
  <2> DEFINE sent == get_arclen_traj(x, dt, last)
             lengths == cumsum(x, dt, last)
             idx == [n \in 1 .. M + 1 |-> min_idx(lengths, n - 1)]
             whole == lengths[N - 1]
  <2>1. lengths \in [0 .. N - 1 -> Nat]
    BY <1>1, LengthsAre
  <2>2. /\ last = 10 => 1000 * Abs(x[0].d) <= whole
        /\ Abs(Ahead(x[0], dt)) <= 3 * whole
    BY <1>1, WayMade, WayMadeRoughly
  <2>3. M = 20
    BY DEF M
  <2>4. whole \in Nat
    <3>1. N - 1 \in 0 .. N - 1
      BY SolverAssumption
    <3> HIDE DEF lengths
    <3> QED
      BY <2>1, <3>1
  <2> HIDE DEF lengths
  <2>5. \A n \in 1 .. M + 1 : n - 1 \in 0 .. M
    BY <2>3
  <2>6. \A n \in 1 .. M + 1 :
          /\ idx[n] \in 0 .. N - 1
          /\ (n - 1) * whole <= M * lengths[idx[n]]
          /\ idx[n] > 0 => (n - 1) * whole >= M * lengths[idx[n] - 1]
    BY <2>1, <2>5, PartIs
  <2>7. reparam_traj(x, dt, last) = idx
    <3>1. \A n \in DOMAIN idx : idx[n] # -1
      BY <2>6, SolverAssumption
    <3> QED
      BY <3>1, Zenon DEF reparam_traj, lengths
  <2>8. DOMAIN idx = 1 .. M + 1
    OBVIOUS
  <2> HIDE DEF idx
  <2>9. sent = [n \in 1 .. M + 1 |-> [s |-> (n - 1) * whole, segment |-> idx[n]]]
    BY <2>7, <2>8, Zenon DEF get_arclen_traj, lengths
  <2> HIDE DEF sent
  <2>10. Len(sent) = M + 1
    <3> DEFINE U == {sent[n] : n \in 1 .. M + 1}
    <3>1. sent \in [1 .. M + 1 -> U]
      BY <2>9
    <3> HIDE DEF U
    <3>2. M + 1 = 21
      BY <2>3
    <3> DEFINE many == M + 1
    <3>3. many \in Nat /\ sent \in [1 .. many -> U]
      BY <3>1, <3>2
    <3> HIDE DEF many
    <3>4. \A s \in [1 .. many -> U] : Len(s) = many
      BY <3>3
    <3> QED
      BY <3>3, <3>4 DEF many
  <2>11. \A n \in DOMAIN sent :
           /\ sent[n].s <= M * lengths[sent[n].segment]
           /\ sent[n].segment > 0 => sent[n].s >= M * lengths[sent[n].segment - 1]
    BY <2>6, <2>9
  <2>12. x[0] \in Cubics
    <3>1. 0 \in 0 .. N - 1
      BY SolverAssumption
    <3> QED
      BY <1>1, <3>1, SolutionIs
  <2>13. x[0].b \in Int /\ x[0].d \in Int
    BY <2>12 DEF Cubics
  <2>14. getPos(x[0], 0) = x[0].d
    BY <2>12 DEF getPos, Cubics
  <2>15. sent[M + 1].s = M * whole
    BY <2>3, <2>9
  <2>16. ASSUME last = 10 PROVE sent[M + 1].s >= M * 1000 * Abs(getPos(x[0], 0))
    <3> DEFINE way == Abs(x[0].d)
    <3>1. way \in Int
      BY <2>13 DEF Abs
    <3> HIDE DEF way, whole
    <3>2. M * whole >= M * 1000 * way
      BY <2>2, <2>3, <2>4, <2>16, <3>1 DEF way
    <3> QED
      BY <2>14, <2>15, <3>2 DEF way
  <2>17. 3 * sent[M + 1].s >= M * Abs(3000 * getPos(x[0], 0) + 5 * getBn(x[0], dt))
    <3> DEFINE ahead == 3000 * getPos(x[0], 0) + 5 * getBn(x[0], dt)
               size == Abs(ahead)
    <3>1. ahead = Ahead(x[0], dt)
      <4>1. getBn(x[0], dt) = x[0].b * dt * dt
        BY DEF getBn
      <4>2. 5 * (x[0].b * dt * dt) = 5 * x[0].b * dt * dt
        BY <1>1, <2>13
      <4> QED
        BY <2>14, <4>1, <4>2 DEF Ahead
    <3>2. ahead \in Int
      BY <1>1, <3>1, WayMadeRoughly
    <3> HIDE DEF ahead, whole
    <3>3. size \in Int /\ size <= 3 * whole
      BY <2>2, <3>1, <3>2 DEF Abs
    <3> HIDE DEF size
    <3>4. 3 * (M * whole) >= M * size
      BY <2>3, <2>4, <3>3
    <3> QED
      BY <2>15, <3>4 DEF size, ahead
  <2> QED
    BY <2>10, <2>11, <2>16, <2>17 DEF sent, lengths
<1> QED
  BY <1>2, Zenon DEF Reparameterised, dt

-----------------------------------------------------------------------------
(* What the solver has solved is held, and leads on.                         *)

\* The allocation of a solution is one of those that Splines is about.
LEMMA SolvedWith ==
  ASSUME IInv, solver = "solved"
  PROVE  factor \in FactorInitial .. FactorFinal /\ dtInitial \in DtInitials /\ dtInitial \in Nat
<1>1. stage = "solver"
  BY DEF IInv, PlaceInv
<1> QED
  BY <1>1, DtInitialsAre DEF IInv, PlaceInv

\* For any number of segments, sample period, factors, ways and leading coefficients, every
\* sample of a solved trajectory is on the curve that the corridor's constraints hold, and
\* accelerates no more than the starts of segments do.  A factor of 0 would leave a segment
\* no time; genNewTraj warns of factors below one.
THEOREM SamplesAreHeld == ASSUME FactorInitial > 0 PROVE Spec => []SamplesHeld
<1>1. ASSUME IInv, solver = "solved" PROVE <<<<factor, dtInitial>>, TRUE>> \in AllHeld
  <2>1. factor \in FactorInitial .. FactorFinal /\ dtInitial \in DtInitials /\ dtInitial \in Nat
    BY <1>1, SolvedWith
  <2>2. factor \in Nat \ {0}
    BY <2>1, SolverAssumption
  <2>3. Held(factor, dtInitial)
    BY <2>1, <2>2, HeldIs
  <2> DEFINE fd == <<factor, dtInitial>>
  <2>4. fd \in Allocations /\ fd[1] = factor /\ fd[2] = dtInitial
    BY <2>1 DEF Allocations
  <2> HIDE DEF fd
  <2>5. Held(fd[1], fd[2]) = TRUE
    BY <2>3, <2>4
  <2>6. <<fd, TRUE>> \in AllHeld
    BY <2>4, <2>5 DEF AllHeld
  <2> QED
    BY <2>6 DEF fd
<1>2. IInv => SamplesHeld
  BY <1>1 DEF SamplesHeld
<1> QED
  BY <1>2, Invariant, PTL

\* For any of them, and any factor, the trajectory that arc-length mode sends leads through
\* all of the solution: the sampled length is no less than the way to the end, or short of it
\* by a twelve-hundredth of the first acceleration where the segments' ends are not sampled.
THEOREM LengthsDoLead == Spec => []LengthsLead
<1>1. ASSUME IInv, solver = "solved" PROVE <<<<factor, dtInitial>>, TRUE>> \in AllReparameterised
  <2>1. factor \in FactorInitial .. FactorFinal /\ dtInitial \in DtInitials /\ dtInitial \in Nat
    BY <1>1, SolvedWith
  <2>2. factor \in Nat
    BY <2>1, SolverAssumption
  <2>3. Reparameterised(factor, dtInitial)
    BY <2>1, <2>2, ReparameterisedIs
  <2> DEFINE fd == <<factor, dtInitial>>
  <2>4. fd \in Allocations /\ fd[1] = factor /\ fd[2] = dtInitial
    BY <2>1 DEF Allocations
  <2> HIDE DEF fd
  <2>5. Reparameterised(fd[1], fd[2]) = TRUE
    BY <2>3, <2>4
  <2>6. <<fd, TRUE>> \in AllReparameterised
    BY <2>4, <2>5 DEF AllReparameterised
  <2> QED
    BY <2>6 DEF fd
<1>2. IInv => LengthsLead
  BY <1>1 DEF LengthsLead
<1> QED
  BY <1>2, Invariant, PTL
=============================================================================
