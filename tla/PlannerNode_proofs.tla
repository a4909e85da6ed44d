-------------------------- MODULE PlannerNode_proofs --------------------------
(***************************************************************************)
(* Proofs about the planner node.  Without jps_hysteresis a plan leads to  *)
(* the goal, and until one does the node remembers that the goal is new,   *)
(* so that no plan continues a motion to another goal.                     *)
(***************************************************************************)
EXTENDS PlannerNode, TLAPS

\* A trajectory has been sent only for a goal.
SentForGoal == goal = Nowhere => sentTraj = NoTrajectory

Inv == TypeOK /\ SentForGoal /\ NewGoalRemembered

-----------------------------------------------------------------------------

LEMMA InitTypeOK == Init => TypeOK
<1> SUFFICES ASSUME Init PROVE TypeOK
  OBVIOUS
<1>1. count \in 0 .. Failsafe /\ notches \in 0 .. MaxNotches
  BY PlannerAssumption DEF Init
<1>2. isGoalReset \in BOOLEAN /\ mpcHorizon \in BOOLEAN
  BY Zenon DEF Init
<1> QED BY <1>1, <1>2, Zenon DEF Init, TypeOK

\* Every step keeps the types.
LEMMA StepTypeOK == TypeOK /\ [Next]_vars => TypeOK'
<1> SUFFICES ASSUME TypeOK, [Next]_vars PROVE TypeOK'
  OBVIOUS
<1> USE PlannerAssumption DEF TypeOK
<1>1. CASE goalcb
  BY <1>1 DEF goalcb
<1>2. CASE odomcb
  BY <1>2 DEF odomcb
<1>3. CASE mpcHorizoncb
  BY <1>3 DEF mpcHorizoncb
<1>4. CASE PlanFails
  <2>1. count' \in 0 .. Failsafe
    BY <1>4 DEF PlanFails, IsFailsafe
  <2>2. notches' \in 0 .. MaxNotches
    BY <1>4 DEF PlanFails
  <2> QED BY <1>4, <2>1, <2>2 DEF PlanFails
<1>5. CASE PlanSucceeds
  <2>1. goal \in Places
    BY <1>5 DEF PlanSucceeds, Due
  <2>2. Paths \subseteq Places
    BY <2>1 DEF Paths
  <2>3. StartsFrom \in Motions
    BY DEF StartsFrom, Motions
  <2>4. Kept \in {"nothing", "sent", "horizon"}
    BY DEF Kept
  <2>5. sentTraj' \in Trajectory /\ prevJpsPath' \in Places
    <3>0. PICK path \in Paths : \E end \in {goal, path} :
            /\ sentTraj' = [leads |-> end, from |-> StartsFrom, kept |-> Kept,
                            still |-> StartsFrom = "robot" \/ IsFailsafe]
            /\ prevJpsPath' = path
      BY <1>5 DEF PlanSucceeds
    <3>1. PICK end \in {goal, path} :
            /\ sentTraj' = [leads |-> end, from |-> StartsFrom, kept |-> Kept,
                            still |-> StartsFrom = "robot" \/ IsFailsafe]
            /\ prevJpsPath' = path
      BY <3>0
    <3>2. end \in Places /\ path \in Places
      BY <2>1, <2>2
    <3>3. (StartsFrom = "robot" \/ IsFailsafe) \in BOOLEAN
      BY DEF IsFailsafe
    <3> QED BY <2>3, <2>4, <3>1, <3>2, <3>3 DEF Trajectory
  <2>6. notches' \in 0 .. MaxNotches
    BY <1>5 DEF PlanSucceeds, NotchesBack
  <2>7. isGoalReset' \in BOOLEAN /\ mpcHorizon' \in BOOLEAN
    BY <1>5, Zenon DEF PlanSucceeds
  <2>8. count' \in 0 .. Failsafe
    BY <1>5 DEF PlanSucceeds
  <2> QED BY <1>5, <2>5, <2>6, <2>7, <2>8 DEF PlanSucceeds
<1>6. CASE UNCHANGED vars
  BY <1>6 DEF vars
<1> QED BY <1>1, <1>2, <1>3, <1>4, <1>5, <1>6 DEF Next, controlLoop

\* What a plan sent starts from and keeps.
LEMMA SentParts ==
  ASSUME PlanSucceeds
  PROVE  sentTraj'.from = StartsFrom /\ sentTraj'.kept = Kept
<1>1. PICK path \in Paths : \E end \in {goal, path} :
        sentTraj' = [leads |-> end, from |-> StartsFrom, kept |-> Kept,
                     still |-> StartsFrom = "robot" \/ IsFailsafe]
  BY DEF PlanSucceeds
<1> QED BY <1>1

\* A plan sent leads to the goal, unless an old path may be preferred.
LEMMA LeadsToTheGoal ==
  ASSUME ~JpsHysteresis, PlanSucceeds
  PROVE  sentTraj'.leads = goal
<1>1. Paths = {goal}
  BY DEF Paths
<1>2. PICK path \in Paths : \E end \in {goal, path} :
        sentTraj' = [leads |-> end, from |-> StartsFrom, kept |-> Kept,
                     still |-> StartsFrom = "robot" \/ IsFailsafe]
  BY DEF PlanSucceeds
<1> QED BY <1>1, <1>2

LEMMA InitInv == Init => Inv
  BY InitTypeOK DEF Init, Inv, SentForGoal, NewGoalRemembered

\* The inductive step: the flag is set with a new goal and cleared by a plan for it.
LEMMA StepInv == ~JpsHysteresis /\ Inv /\ [Next]_vars => Inv'
<1> SUFFICES ASSUME ~JpsHysteresis, Inv, [Next]_vars PROVE Inv'
  OBVIOUS
<1>0. TypeOK /\ TypeOK'
  BY StepTypeOK DEF Inv
<1> SUFFICES SentForGoal' /\ NewGoalRemembered'
  BY <1>0 DEF Inv
<1> USE DEF Inv, SentForGoal, NewGoalRemembered
<1>1. CASE goalcb
  BY <1>1, PlannerAssumption DEF goalcb
<1>2. CASE odomcb
  <2>1. CASE goal = Nowhere
    BY <1>2, <2>1 DEF odomcb
  <2>2. CASE goal # Nowhere
    BY <1>2, <2>2 DEF odomcb
  <2> QED BY <2>1, <2>2
<1>3. CASE mpcHorizoncb
  BY <1>3 DEF mpcHorizoncb
<1>4. CASE PlanFails
  BY <1>4 DEF PlanFails
<1>5. CASE PlanSucceeds
  <2>1. goal' = goal /\ goal # Nowhere
    BY <1>5 DEF PlanSucceeds, Due
  <2> QED BY <1>5, <2>1, LeadsToTheGoal
<1>6. CASE UNCHANGED vars
  BY <1>6 DEF vars
<1> QED BY <1>1, <1>2, <1>3, <1>4, <1>5, <1>6 DEF Next, controlLoop

\* The planner's variables keep their types.
THEOREM TypesOK == Spec => []TypeOK
<1>1. Init => TypeOK
  BY InitTypeOK
<1>2. TypeOK /\ [Next]_vars => TypeOK'
  BY StepTypeOK
<1> QED BY <1>1, <1>2, PTL DEF Spec

\* A goal that no trajectory leads to yet is known to be new, whatever the parameters but
\* the path hysteresis.
THEOREM NewGoalIsRemembered == ~JpsHysteresis => (Spec => []NewGoalRemembered)
<1> SUFFICES ASSUME ~JpsHysteresis PROVE Spec => []NewGoalRemembered
  OBVIOUS
<1>1. Init => Inv
  BY InitInv
<1>2. Inv /\ [Next]_vars => Inv'
  BY StepInv
<1>3. Inv => NewGoalRemembered
  BY DEF Inv
<1> QED BY <1>1, <1>2, <1>3, PTL DEF Spec

\* No plan continues a motion that leads to another goal than its own.
THEOREM MotionLeadsToItsGoal == ~JpsHysteresis => (Spec => MotionKeepsGoal)
<1> SUFFICES ASSUME ~JpsHysteresis PROVE Spec => MotionKeepsGoal
  OBVIOUS
<1>1. Init => Inv
  BY InitInv
<1>2. Inv /\ [Next]_vars => Inv'
  BY StepInv
<1>3. Inv /\ [Next]_vars =>
        [PlanSucceeds /\ sentTraj'.from # "robot"
           => sentTraj # NoTrajectory /\ sentTraj'.leads = sentTraj.leads]_vars
  <2> SUFFICES ASSUME Inv, PlanSucceeds, sentTraj'.from # "robot"
               PROVE  sentTraj # NoTrajectory /\ sentTraj'.leads = sentTraj.leads
    OBVIOUS
  <2>1. sentTraj # NoTrajectory /\ ~isGoalReset
    BY SentParts DEF StartsFrom
  <2>2. sentTraj.leads = goal
    BY <2>1 DEF Inv, NewGoalRemembered
  <2> QED BY <2>1, <2>2, LeadsToTheGoal
<1> QED BY <1>1, <1>2, <1>3, PTL DEF Spec, MotionKeepsGoal

\* Samples kept before a plan are of the motion it starts from, or it starts from the robot.
THEOREM MotionsAreNotMixed == Spec => []MotionsDoNotMix
<1>1. Init => MotionsDoNotMix
  BY DEF Init, MotionsDoNotMix
<1>2. MotionsDoNotMix /\ [Next]_vars => MotionsDoNotMix'
  <2> SUFFICES ASSUME MotionsDoNotMix, [Next]_vars PROVE MotionsDoNotMix'
    OBVIOUS
  <2>1. CASE PlanSucceeds
    <3>1. Kept \in {"nothing", StartsFrom} \/ StartsFrom = "robot"
      BY DEF Kept, StartsFrom
    <3> QED BY <2>1, <3>1, SentParts DEF MotionsDoNotMix
  <2>2. CASE goalcb \/ odomcb \/ mpcHorizoncb \/ PlanFails \/ UNCHANGED vars
    BY <2>2 DEF goalcb, odomcb, mpcHorizoncb, PlanFails, vars, MotionsDoNotMix
  <2> QED BY <2>1, <2>2 DEF Next, controlLoop
<1> QED BY <1>1, <1>2, PTL DEF Spec
=============================================================================
