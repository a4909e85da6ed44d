--------------------------- MODULE Training_proofs ---------------------------
(***************************************************************************)
(* What training is done with: its script and the simulated robot.         *)
(*                                                                         *)
(* For every number of trials and of wanted successes the script leaves no *)
(* process behind, learns from logged trials only, and ends a world's      *)
(* trials with the successes it wants; and for every map and range the     *)
(* simulated lidar sees what there is.                                     *)
(***************************************************************************)
EXTENDS Training, Simulator, WellFoundedInduction, TLAPS

(***************************************************************************)
(* The processes.  Earlier[pc] are the kinds a trial has started before    *)
(* its main thread is at pc: no other kind runs, but the one being started.*)
(***************************************************************************)

Loops == {"reset", "waiting", "waited", "navigating", "learn", "ended"}

Earlier(p) ==
  CASE p \in {"gazebo", "learn", "ended"} -> {}
    [] p \in {"reset", "bag"} -> {"gazebo"}
    [] p = "controller" -> {"gazebo", "bag"}
    [] p = "planner" -> {"gazebo", "bag", "controller"}
    [] p \in {"waiting", "waited", "navigating"} -> Kinds

ProcessesInv ==
  /\ pc \in Kinds \cup Loops
  /\ running \in [Kinds -> 0 .. 1]
  /\ starting = "none" \/ (pc \in Kinds /\ starting = pc) \/ pc = "ended"
  /\ \A kind \in Kinds : running[kind] = 1 => kind \in Earlier(pc) \cup {starting}

LEMMA ProcessesInit == Init => ProcessesInv
  BY DEF Init, ProcessesInv, Kinds, Loops

\* Starting a process of a kind of which none runs.
LEMMA PopenKeeps ==
  ASSUME ProcessesInv, NEW kind \in Kinds, Popen(kind)
  PROVE  ProcessesInv'
<1>1. /\ pc = kind /\ starting = "none" /\ starting' = kind /\ pc' = pc
      /\ running' = [running EXCEPT ![kind] = @ + 1]
  BY DEF Popen
<1>2. kind \notin Earlier(kind)
  BY DEF Earlier, Kinds
<1>3. kind # "none"
  BY DEF Kinds
<1>4. running[kind] = 0
  BY <1>1, <1>2, <1>3 DEF ProcessesInv
<1>5. running' \in [Kinds -> 0 .. 1]
  BY <1>1, <1>4 DEF ProcessesInv
<1>6. ASSUME NEW k \in Kinds, running'[k] = 1
      PROVE  k \in Earlier(pc') \cup {starting'}
  <2>1. CASE k = kind
    BY <1>1, <2>1
  <2>2. CASE k # kind
    <3>1. running[k] = 1
      BY <1>1, <1>6, <2>2 DEF ProcessesInv
    <3>2. QED
      BY <3>1, <1>1, <2>2 DEF ProcessesInv, Kinds
  <2>3. QED
    BY <2>1, <2>2
<1>7. QED
  BY <1>1, <1>5, <1>6 DEF ProcessesInv

\* The object is assigned: its kind is one of those the next pc has started.
LEMMA AssignKeeps ==
  ASSUME ProcessesInv, NEW kind \in Kinds, Assign(kind)
  PROVE  ProcessesInv'
<1>1. /\ pc = kind /\ starting = kind /\ starting' = "none" /\ running' = running
      /\ pc' = CASE kind = "gazebo" -> "reset"
                 [] kind = "bag" -> "controller"
                 [] kind = "controller" -> "planner"
                 [] kind = "planner" -> "waiting"
  BY DEF Assign
<1>2. pc' \in Kinds \cup Loops /\ Earlier(kind) \cup {kind} \subseteq Earlier(pc')
  BY <1>1 DEF Kinds, Loops, Earlier
<1>3. QED
  BY <1>1, <1>2 DEF ProcessesInv

\* What terminated() leaves: the process that is being started.
LEMMA TerminatedLeaves ==
  ASSUME ProcessesInv
  PROVE  /\ Terminated \in [Kinds -> 0 .. 1]
         /\ \A kind \in Kinds : Terminated[kind] = 1 => kind = starting
  BY DEF ProcessesInv, Terminated

LEMMA ProcessesStep == ProcessesInv /\ [Next]_vars => ProcessesInv'
<1> SUFFICES ASSUME ProcessesInv, [Next]_vars
             PROVE  ProcessesInv'
  OBVIOUS
<1>1. ASSUME NEW kind \in Kinds, Popen(kind) \/ Assign(kind)
      PROVE  ProcessesInv'
  BY <1>1, PopenKeeps, AssignKeeps
<1>2. CASE ResetEnds
  <2>1. /\ pc = "reset" /\ pc' \in {"bag", "controller"}
        /\ UNCHANGED <<running, starting>>
    BY <1>2 DEF ResetEnds
  <2>2. starting = "none"
    BY <2>1 DEF ProcessesInv, Kinds
  <2>3. pc' \in Kinds /\ Earlier(pc) \subseteq Earlier(pc')
    BY <2>1 DEF Kinds, Earlier
  <2>4. QED
    BY <2>1, <2>2, <2>3 DEF ProcessesInv
<1>3. CASE Reset \/ WaitOn \/ Navigate \/ RobotMoves \/ collision_monitor \/ Tick \/ UNCHANGED vars
  <2>1. UNCHANGED <<pc, running, starting>>
    BY <1>3 DEF Reset, WaitOn, Navigate, RobotMoves, collision_monitor, Tick, vars
  <2>2. QED
    BY <2>1 DEF ProcessesInv
<1>4. CASE WaitEnds \/ StartNavigation
  <2>1. /\ pc \in {"waiting", "waited"} /\ pc' \in {"waited", "navigating"}
        /\ UNCHANGED <<running, starting>>
    BY <1>4 DEF WaitEnds, StartNavigation
  <2>2. starting = "none" /\ Earlier(pc') = Earlier(pc) /\ pc' \in Loops
    BY <2>1 DEF ProcessesInv, Kinds, Earlier, Loops
  <2>3. QED
    BY <2>1, <2>2 DEF ProcessesInv
<1>5. CASE TrialEnds
  <2>1. pc = "navigating" /\ pc' = "learn" /\ running' = Terminated /\ starting' = starting
    BY <1>5 DEF TrialEnds
  <2>2. starting = "none"
    BY <2>1 DEF ProcessesInv, Kinds
  <2>3. pc' \in Loops
    BY <2>1 DEF Loops
  <2>4. QED
    BY <2>1, <2>2, <2>3, TerminatedLeaves DEF ProcessesInv
<1>6. CASE Learn
  <2>1. /\ pc = "learn" /\ pc' \in {"gazebo", "ended"}
        /\ UNCHANGED <<running, starting>>
    BY <1>6 DEF Learn, NextOfWorld, NextOfWorlds, StartEvaluation, Finish
  <2>2. starting = "none" /\ Earlier(pc') = Earlier(pc) /\ pc' \in Kinds \cup Loops
    BY <2>1 DEF ProcessesInv, Kinds, Earlier, Loops
  <2>3. QED
    BY <2>1, <2>2 DEF ProcessesInv
<1>7. CASE Abort
  <2>1. pc' = "ended" /\ running' = Terminated /\ starting' = starting
    BY <1>7 DEF Abort
  <2>2. pc' \in Loops
    BY <2>1 DEF Loops
  <2>3. QED
    BY <2>1, <2>2, TerminatedLeaves DEF ProcessesInv
<1>8. ASSUME NEW kind \in {"gazebo", "planner"}, Exits(kind)
      PROVE  ProcessesInv'
  <2>1. UNCHANGED <<pc, starting>> /\ running' = [running EXCEPT ![kind] = 0]
    BY <1>8 DEF Exits
  <2>2. running \in [Kinds -> 0 .. 1] /\ kind \in Kinds
    BY DEF ProcessesInv, Kinds
  <2>3. running' \in [Kinds -> 0 .. 1] /\ \A k \in Kinds : running'[k] = 1 => running[k] = 1
    BY <2>1, <2>2
  <2>4. QED
    BY <2>1, <2>3 DEF ProcessesInv
<1>9. CASE Ended
  BY <1>3, <1>9 DEF Ended
<1>10. QED
  BY <1>1, <1>2, <1>3, <1>4, <1>5, <1>6, <1>7, <1>8, <1>9 DEF Next, Main

\* No process of an earlier trial runs beside this one's, and when the script is over
\* none runs but the one it was interrupted in starting, wherever it was interrupted.
THEOREM ScriptLeavesNone == Spec => []NoneLeft
<1>1. ProcessesInv => NoneLeft
  <2> SUFFICES ASSUME ProcessesInv
               PROVE  NoneLeft
    OBVIOUS
  <2>1. \A kind \in Kinds : running[kind] \in 0 .. 1
    BY DEF ProcessesInv
  <2>2. pc = "ended" => \A kind \in Kinds \ {starting} : running[kind] = 0
    BY <2>1 DEF ProcessesInv, Earlier
  <2>3. QED
    BY <2>1, <2>2 DEF NoneLeft
<1>2. QED
  BY <1>1, ProcessesInit, ProcessesStep, PTL DEF Spec

(***************************************************************************)
(* What is logged.  From its start to the end of the trial the tracker     *)
(* keeps the parameters it has read, and they are those of the script.     *)
(***************************************************************************)

HasRead ==
  \/ pc = "controller" /\ starting = "controller"
  \/ pc \in {"planner", "waiting", "waited", "navigating", "learn"}

LoggingInv ==
  /\ args = "train" => logging /\ ~is_eval
  /\ stage = "eval_worlds" => ~logging
  /\ HasRead => (tracker.logs <=> logging /\ ~is_eval)

LEMMA LoggingInit == Init => LoggingInv
  BY DEF Init, LoggingInv, HasRead

LEMMA LoggingStep == ProcessesInv /\ LoggingInv /\ [Next]_vars => LoggingInv'
<1> SUFFICES ASSUME ProcessesInv, LoggingInv, [Next]_vars
             PROVE  LoggingInv'
  OBVIOUS
<1>1. ASSUME NEW kind \in Kinds, Popen(kind)
      PROVE  LoggingInv'
  <2>1. pc = kind /\ pc' = kind /\ starting = "none" /\ UNCHANGED <<args, stage, is_eval, logging>>
    BY <1>1 DEF Popen, script
  <2>2. CASE kind = "controller"
    <3>1. tracker' = TrackerStarts
      BY <1>1, <2>2 DEF Popen
    <3>2. tracker'.logs <=> logging /\ ~is_eval
      BY <3>1 DEF TrackerStarts
    <3>3. QED
      BY <2>1, <3>2 DEF LoggingInv
  <2>3. CASE kind # "controller"
    <3>1. tracker' = tracker
      BY <1>1, <2>3 DEF Popen
    <3>2. HasRead' => HasRead
      BY <2>1, <2>3 DEF HasRead
    <3>3. QED
      BY <2>1, <3>1, <3>2 DEF LoggingInv
  <2>4. QED
    BY <2>2, <2>3
<1>2. ASSUME NEW kind \in Kinds, Assign(kind)
      PROVE  LoggingInv'
  <2>1. UNCHANGED <<args, stage, is_eval, logging, tracker>>
    BY <1>2 DEF Assign, script
  <2>2. HasRead' => HasRead
    BY <1>2 DEF Assign, HasRead, Kinds
  <2>3. QED
    BY <2>1, <2>2 DEF LoggingInv
<1>3. CASE Learn
  <2>1. /\ pc = "learn" /\ pc' \in {"gazebo", "ended"} /\ UNCHANGED is_eval
    BY <1>3 DEF Learn, NextOfWorld, NextOfWorlds, StartEvaluation, Finish
  <2>2. ~HasRead'
    BY <2>1 DEF HasRead
  <2>3. CASE StartEvaluation
    BY <2>2, <2>3 DEF StartEvaluation, LoggingInv
  <2>4. CASE ~StartEvaluation
    <3>1. UNCHANGED <<args, stage, logging>>
      BY <1>3, <2>4 DEF Learn, NextOfWorld, NextOfWorlds, Finish
    <3>2. QED
      BY <2>1, <2>2, <3>1 DEF LoggingInv
  <2>5. QED
    BY <2>3, <2>4
<1>4. CASE \/ Reset \/ ResetEnds \/ WaitOn \/ WaitEnds \/ StartNavigation \/ Navigate \/ TrialEnds
           \/ Abort \/ RobotMoves \/ collision_monitor \/ Tick \/ Ended \/ UNCHANGED vars
           \/ \E kind \in {"gazebo", "planner"} : Exits(kind)
  <2>1. UNCHANGED <<args, stage, is_eval, logging, tracker>>
    BY <1>4 DEF Reset, ResetEnds, WaitOn, WaitEnds, StartNavigation, Navigate, TrialEnds, Abort,
                RobotMoves, collision_monitor, Tick, Ended, Exits, script, vars
  <2>2. CASE ResetEnds
    <3>1. pc = "reset" /\ starting' = starting
      BY <2>2 DEF ResetEnds
    <3>2. starting' = "none"
      BY <3>1 DEF ProcessesInv, Kinds
    <3>3. ~HasRead'
      BY <2>2, <3>2 DEF HasRead, ResetEnds
    <3>4. QED
      BY <2>1, <3>3 DEF LoggingInv
  <2>3. CASE ~ResetEnds
    <3>1. HasRead' => HasRead
      BY <1>4, <2>3 DEF Reset, WaitOn, WaitEnds, StartNavigation, Navigate, TrialEnds, Abort,
                        RobotMoves, collision_monitor, Tick, Ended, Exits, vars, HasRead
    <3>2. QED
      BY <2>1, <3>1 DEF LoggingInv
  <2>4. QED
    BY <2>2, <2>3
<1>5. QED
  BY <1>1, <1>2, <1>3, <1>4 DEF Next, Main

\* The trainer learns from trials the tracker has logged, and an evaluation is not
\* logged: whatever the tracker of a trial read when it started still is so.
THEOREM ScriptLearnsWhatIsLogged == Spec => []LearnsWhatIsLogged
<1>1. LoggingInv => LearnsWhatIsLogged
  BY DEF LoggingInv, LearnsWhatIsLogged, HasRead, Trains, InTrial
<1>2. ProcessesInv /\ LoggingInv /\ [Next]_vars => (ProcessesInv /\ LoggingInv)'
  BY ProcessesStep, LoggingStep
<1>3. QED
  BY <1>1, <1>2, ProcessesInit, LoggingInit, PTL DEF Spec

(***************************************************************************)
(* The successes in a row.  The rows of the trials that are over are all   *)
(* of them but the last while the script has not yet looked at it.         *)
(***************************************************************************)

Whereabouts == {"start", "away", "goal"}
Row == [success : BOOLEAN, collided : BOOLEAN, timeout : BOOLEAN]

Counted == IF pc = "learn" THEN Len(rows) - 1 ELSE Len(rows)

Won(results, last) ==
  last >= Wanted /\ \A i \in last - Wanted + 1 .. last : results[i].success

\* Of the first n results the last c were successes, and the one before them was not.
Trailing(results, c, n) ==
  /\ c \in 0 .. n
  /\ \A i \in n - c + 1 .. n : results[i].success
  /\ c < n => ~results[n - c].success

NeverWonUpTo(results, n) == \A last \in 1 .. n : ~Won(results, last)

CountInv ==
  /\ pc \in Kinds \cup Loops /\ rows \in Seq(Row)
  /\ curr \in [pos : Whereabouts, late : BOOLEAN, collided : BOOLEAN]
  /\ robot \in Whereabouts /\ late \in BOOLEAN /\ collision_count \in BOOLEAN
  /\ pc = "learn" => rows # <<>>
  /\ stage = "world" =>
       IF pc = "ended" THEN StopsWhenWon
       ELSE count < Wanted /\ Trailing(rows, count, Counted) /\ NeverWonUpTo(rows, Counted)

\* Fewer trailing successes than wanted: the last result wins nothing.
LEMMA TrailingNotWon ==
  ASSUME NEW rs \in Seq(Row), NEW c \in Nat, NEW n \in Nat, Trailing(rs, c, n), c < Wanted
  PROVE  ~Won(rs, n)
<1>1. CASE n < Wanted
  BY <1>1, TrialsAssumption DEF Won
<1>2. CASE n >= Wanted
  <2>1. n - c \in n - Wanted + 1 .. n /\ c < n
    BY <1>2, TrialsAssumption
  <2>2. ~rs[n - c].success
    BY <2>1 DEF Trailing
  <2>3. QED
    BY <2>1, <2>2 DEF Won
<1>3. QED
  BY <1>1, <1>2, TrialsAssumption

\* What is known of the first n results, the results after them do not change.
LEMMA EarlierResults ==
  ASSUME NEW rs, NEW ss, NEW c, NEW n \in Nat, \A i \in 1 .. n : rs[i] = ss[i],
         Trailing(rs, c, n), NeverWonUpTo(rs, n)
  PROVE  Trailing(ss, c, n) /\ NeverWonUpTo(ss, n)
<1>1. Trailing(ss, c, n)
  BY DEF Trailing
<1>2. ASSUME NEW last \in 1 .. n
      PROVE  ~Won(ss, last)
  <2>1. ~Won(rs, last)
    BY DEF NeverWonUpTo
  <2>2. CASE last < Wanted
    BY <2>2, TrialsAssumption DEF Won
  <2>3. CASE last >= Wanted
    <3>1. PICK i \in last - Wanted + 1 .. last : ~rs[i].success
      BY <2>1, <2>3 DEF Won
    <3>2. i \in 1 .. n
      BY <2>3, TrialsAssumption
    <3>3. QED
      BY <3>1, <3>2 DEF Won
  <2>4. QED
    BY <2>2, <2>3, TrialsAssumption
<1>3. QED
  BY <1>1, <1>2 DEF NeverWonUpTo

\* One result more is counted.
LEMMA OneMoreCounted ==
  ASSUME NEW rs \in Seq(Row), NEW c, NEW n \in Nat \ {0}, Trailing(rs, c, n - 1),
         NEW next, next = IF rs[n].success THEN c + 1 ELSE 0
  PROVE  Trailing(rs, next, n)
<1>1. CASE rs[n].success
  BY <1>1 DEF Trailing
<1>2. CASE ~rs[n].success
  BY <1>2 DEF Trailing
<1>3. QED
  BY <1>1, <1>2

LEMMA CountInit == Init => CountInv
<1> SUFFICES ASSUME Init
             PROVE  CountInv
  OBVIOUS
<1>1. pc = "gazebo" /\ rows = <<>> /\ count = 0 /\ Len(rows) = 0
  BY DEF Init
<1>2. /\ pc \in Kinds \cup Loops /\ rows \in Seq(Row)
      /\ curr \in [pos : Whereabouts, late : BOOLEAN, collided : BOOLEAN]
      /\ robot \in Whereabouts /\ late \in BOOLEAN /\ collision_count \in BOOLEAN
  <2>1. <<>> \in Seq(Row)
    OBVIOUS
  <2>2. /\ curr \in [pos : Whereabouts, late : BOOLEAN, collided : BOOLEAN]
        /\ robot \in Whereabouts
    BY DEF Init, Whereabouts
  <2>3. late \in BOOLEAN /\ collision_count \in BOOLEAN
    BY DEF Init
  <2>4. pc \in Kinds \cup Loops
    BY <1>1 DEF Kinds
  <2>5. QED
    BY <1>1, <2>1, <2>2, <2>3, <2>4
<1>3. Counted = 0 /\ count < Wanted
  BY <1>1, TrialsAssumption DEF Counted
<1>4. Trailing(rows, count, Counted) /\ NeverWonUpTo(rows, Counted)
  BY <1>1, <1>3 DEF Trailing, NeverWonUpTo
<1>5. QED
  BY <1>1, <1>2, <1>3, <1>4 DEF CountInv

\* The invariant is what it was said to be.
LEMMA CountInvWins == CountInv => StopsWhenWon
<1> SUFFICES ASSUME CountInv, stage = "world", pc # "ended"
             PROVE  StopsWhenWon
  BY DEF CountInv, StopsWhenWon
<1>1. /\ count < Wanted /\ Trailing(rows, count, Counted) /\ NeverWonUpTo(rows, Counted)
      /\ Len(rows) \in Nat /\ Counted \in Nat
      /\ Len(rows) - 1 <= Counted /\ (pc # "learn" => Counted = Len(rows))
  BY DEF CountInv, Counted
<1>2. \A last \in 1 .. Len(rows) - 1 : ~WonInARow(last)
  BY <1>1 DEF NeverWonUpTo, Won, WonInARow
<1>3. pc = "gazebo" => ~WonInARow(Len(rows))
  <2>1. count \in Nat
    BY <1>1 DEF Trailing
  <2>2. ~Won(rows, Counted)
    BY <1>1, <2>1, TrailingNotWon DEF CountInv
  <2>3. QED
    BY <1>1, <2>2 DEF Won, WonInARow
<1>4. ~(count >= Wanted)
  BY <1>1, TrialsAssumption DEF Trailing
<1>5. QED
  BY <1>2, <1>3, <1>4 DEF StopsWhenWon

\* What a trial's steps make of the pose, the clock and the messages counted.
LEMMA TrialStep ==
  ASSUME curr \in [pos : Whereabouts, late : BOOLEAN, collided : BOOLEAN],
         robot \in Whereabouts, late \in BOOLEAN, collision_count \in BOOLEAN,
         \/ \E kind \in Kinds : Popen(kind) \/ Assign(kind)
         \/ Reset \/ ResetEnds \/ WaitOn \/ WaitEnds \/ StartNavigation \/ Navigate
         \/ RobotMoves \/ collision_monitor \/ Tick
         \/ \E kind \in {"gazebo", "planner"} : Exits(kind)
  PROVE  /\ curr' \in [pos : Whereabouts, late : BOOLEAN, collided : BOOLEAN]
         /\ robot' \in Whereabouts /\ late' \in BOOLEAN /\ collision_count' \in BOOLEAN
<1>1. ASSUME NEW kind \in Kinds, Popen(kind)
      PROVE  UNCHANGED <<curr, robot, late, collision_count>>
  BY <1>1 DEF Popen
<1>2. ASSUME NEW kind \in Kinds, Assign(kind)
      PROVE  /\ curr' \in [pos : Whereabouts, late : BOOLEAN, collided : BOOLEAN]
             /\ robot' \in Whereabouts /\ late' \in BOOLEAN /\ collision_count' \in BOOLEAN
  <2>1. /\ robot' \in Whereabouts
        /\ late' = (late /\ kind # "planner")
        /\ collision_count' = (collision_count /\ kind # "gazebo")
    BY <1>2 DEF Assign, Whereabouts
  <2>2. \/ curr' = [curr EXCEPT !.pos = robot', !.collided = TRUE]
        \/ curr' = [curr EXCEPT !.pos = robot, !.late = FALSE]
        \/ curr' = curr
    BY <1>2 DEF Assign, Kinds
  <2>3. QED
    BY <2>1, <2>2
<1>3. CASE Reset
  <2>1. /\ robot' \in Whereabouts /\ collision_count' = FALSE /\ late' = late
        /\ curr' = [curr EXCEPT !.pos = robot', !.collided = collision_count]
    BY <1>3 DEF Reset, Whereabouts
  <2>2. QED
    BY <2>1
<1>4. CASE WaitOn
  BY <1>4 DEF WaitOn
<1>5. CASE WaitEnds
  BY <1>5 DEF WaitEnds, Standing
<1>6. CASE StartNavigation
  BY <1>6 DEF StartNavigation
<1>7. CASE Navigate
  BY <1>7 DEF Navigate
<1>8. CASE RobotMoves
  BY <1>8 DEF RobotMoves, Whereabouts
<1>9. CASE collision_monitor \/ Tick
  BY <1>9 DEF collision_monitor, Tick
<1>10. ASSUME NEW kind \in {"gazebo", "planner"}, Exits(kind)
       PROVE  UNCHANGED <<curr, robot, late, collision_count>>
  BY <1>10 DEF Exits
<1>11. CASE ResetEnds
  BY <1>11 DEF ResetEnds
<1>12. QED
  BY <1>1, <1>2, <1>3, <1>4, <1>5, <1>6, <1>7, <1>8, <1>9, <1>10, <1>11

LEMMA CountStep == CountInv /\ [Next]_vars => CountInv'
<1> SUFFICES ASSUME CountInv, [Next]_vars
             PROVE  CountInv'
  OBVIOUS
<1>1. CASE TrialEnds
  <2>1. PICK row \in Row : rows' = Append(rows, row)
    <3>1. [success |-> ~curr.collided /\ ~curr.late, collided |-> curr.collided,
           timeout |-> curr.late] \in Row
      BY DEF CountInv, Row
    <3>2. QED
      BY <1>1, <3>1 DEF TrialEnds
  <2>2. /\ pc = "navigating" /\ pc' = "learn"
        /\ UNCHANGED <<stage, count, curr, robot, late, collision_count>>
    BY <1>1 DEF TrialEnds
  <2>3. /\ rows' \in Seq(Row) /\ rows' # <<>> /\ Len(rows') = Len(rows) + 1
        /\ \A i \in 1 .. Len(rows) : rows[i] = rows'[i]
    BY <2>1 DEF CountInv
  <2>4. Counted = Len(rows) /\ Counted' = Len(rows) /\ Len(rows) \in Nat
    BY <2>2, <2>3 DEF Counted, CountInv
  <2>5. pc' \in Kinds \cup Loops /\ pc' # "ended" /\ pc # "ended"
    BY <2>2 DEF Loops
  <2>6. ASSUME stage = "world"
        PROVE  /\ count' < Wanted /\ Trailing(rows', count', Counted')
               /\ NeverWonUpTo(rows', Counted')
    BY <2>2, <2>3, <2>4, <2>5, <2>6, EarlierResults DEF CountInv
  <2>7. QED
    BY <2>2, <2>3, <2>5, <2>6 DEF CountInv
<1>2. CASE Learn
  <2>1. /\ pc = "learn" /\ pc' \in {"gazebo", "ended"}
        /\ UNCHANGED <<curr, robot, late, collision_count>> /\ (rows' = rows \/ rows' = <<>>)
    BY <1>2 DEF Learn, NextOfWorld, NextOfWorlds, StartEvaluation, Finish
  <2>2. pc' \in Kinds \cup Loops /\ rows' \in Seq(Row)
    <3>1. <<>> \in Seq(Row) /\ rows \in Seq(Row)
      BY DEF CountInv
    <3>2. pc' \in Kinds \cup Loops
      BY <2>1 DEF Kinds, Loops
    <3>3. QED
      BY <2>1, <3>1, <3>2
  <2>3. CASE ~NextOfWorld
    <3>1. stage' # "world"
      BY <1>2, <2>3 DEF Learn, NextOfWorlds, StartEvaluation, Finish
    <3>2. QED
      BY <2>1, <2>2, <3>1 DEF CountInv
  <2>4. CASE NextOfWorld
    <3> DEFINE n == Len(rows)
    <3>1. /\ stage = "world" /\ count' = InARow /\ rows' = rows /\ stage' = stage
          /\ pc' = IF InARow >= Wanted \/ n >= Trials THEN "ended" ELSE "gazebo"
      BY <2>4 DEF NextOfWorld
    <3>2. n \in Nat \ {0}
      BY <2>1 DEF CountInv
    <3>3. /\ Trailing(rows, count, n - 1) /\ NeverWonUpTo(rows, n - 1)
      BY <2>1, <3>1 DEF CountInv, Counted
    <3>4. Trailing(rows, count', n)
      BY <3>1, <3>2, <3>3, OneMoreCounted DEF InARow, Succeeded, CountInv
    <3>5. count' \in Nat
      BY <3>2, <3>4 DEF Trailing
    <3>6. CASE pc' = "gazebo"
      <4>1. count' < Wanted /\ Counted' = n
        BY <3>1, <3>5, <3>6, TrialsAssumption DEF Counted
      <4>2. ~Won(rows, n)
        BY <3>2, <3>4, <3>5, <4>1, TrailingNotWon DEF CountInv
      <4>3. NeverWonUpTo(rows, n)
        BY <3>2, <3>3, <4>2 DEF NeverWonUpTo
      <4>4. QED
        BY <2>1, <2>2, <3>1, <3>4, <3>6, <4>1, <4>3 DEF CountInv
    <3>7. CASE pc' = "ended"
      <4>1. \A last \in 1 .. n - 1 : ~WonInARow(last)'
        BY <3>1, <3>3 DEF NeverWonUpTo, Won, WonInARow
      <4>2. count' >= Wanted => WonInARow(n)'
        BY <3>1, <3>2, <3>4, <3>5, TrialsAssumption DEF Trailing, WonInARow
      <4>3. StopsWhenWon'
        BY <3>1, <3>7, <4>1, <4>2 DEF StopsWhenWon, WonInARow
      <4>4. QED
        BY <2>1, <2>2, <3>7, <4>3 DEF CountInv
    <3>8. QED
      BY <2>1, <3>6, <3>7
  <2>5. QED
    BY <2>3, <2>4
<1>3. CASE Abort
  <2>1. /\ pc # "ended" /\ pc' = "ended"
        /\ UNCHANGED <<stage, rows, count, curr, robot, late, collision_count>>
    BY <1>3 DEF Abort, script
  <2>2. StopsWhenWon'
    BY <2>1, CountInvWins DEF StopsWhenWon, WonInARow
  <2>3. pc' \in Kinds \cup Loops
    BY <2>1 DEF Loops
  <2>4. QED
    BY <2>1, <2>2, <2>3 DEF CountInv
<1>4. CASE UNCHANGED vars
  BY <1>4 DEF vars, script, CountInv, StopsWhenWon, WonInARow, Counted
<1>5. CASE \/ \E kind \in Kinds : Popen(kind) \/ Assign(kind)
           \/ Reset \/ ResetEnds \/ WaitOn \/ WaitEnds \/ StartNavigation \/ Navigate
           \/ RobotMoves \/ collision_monitor \/ Tick
           \/ \E kind \in {"gazebo", "planner"} : Exits(kind)
  <2>1. /\ UNCHANGED <<stage, rows, count>>
        /\ pc' \in Kinds \cup Loops /\ pc' \notin {"learn", "ended"}
        /\ pc \notin {"learn", "ended"}
    BY <1>5 DEF Popen, Assign, Reset, ResetEnds, WaitOn, WaitEnds, StartNavigation, Navigate,
                RobotMoves, collision_monitor, Tick, Exits, InTrial, script, CountInv, Kinds, Loops
  <2>2. /\ curr' \in [pos : Whereabouts, late : BOOLEAN, collided : BOOLEAN]
        /\ robot' \in Whereabouts /\ late' \in BOOLEAN /\ collision_count' \in BOOLEAN
    BY <1>5, TrialStep DEF CountInv
  <2>3. QED
    BY <2>1, <2>2 DEF CountInv, Counted
<1>6. QED
  BY <1>1, <1>2, <1>3, <1>4, <1>5 DEF Next, Main, Ended

\* A world's trials end with the successes in a row that are wanted, and with no others:
\* no trial follows them, and a failure starts the count again, for every Wanted.
THEOREM ScriptStopsWhenWon == Spec => []StopsWhenWon
  BY CountInit, CountStep, CountInvWins, PTL DEF Spec

(***************************************************************************)
(* The simulated lidar.  A ray is R cells long one way and m the other: it *)
(* goes on one cell the first way at every step, and has made Aside(m, k)  *)
(* cells the other after k steps, which is what the error says.            *)
(***************************************************************************)

R == RangeMax
Aside(m, k) == (R - 1 - R \div 2 + k * m) \div R
Error(m, k) == R \div 2 + Aside(m, k) * R - k * m

LEMMA LeastExists ==
  ASSUME NEW S, S \subseteq Nat, S # {}
  PROVE  \E x \in S : \A y \in S : x <= y
<1> DEFINE less == OpToRel(<, Nat)
<1>1. IsWellFoundedOn(less, Nat)
  BY NatLessThanWellFounded
<1>2. \A x, y \in Nat : y < x => <<y, x>> \in less
  BY DEF OpToRel
<1> HIDE DEF less
<1>3. \E x \in S : \A y \in S : <<y, x>> \notin less
  BY <1>1, WFMin
<1>4. PICK x \in S : \A y \in S : <<y, x>> \notin less
  BY <1>3
<1>5. ASSUME NEW y \in S PROVE x <= y
  <2>1. x \in Nat /\ y \in Nat
    OBVIOUS
  <2>2. ~(y < x)
    BY <1>2, <1>4, <2>1
  <2> QED
    BY <2>1, <2>2
<1> QED
  BY <1>5

LEMMA Products ==
  \A a, b, c \in Nat : /\ a <= b => a * c <= b * c /\ c * a <= c * b
                       /\ (a + 1) * c = a * c + c
  OBVIOUS

LEMMA QuotientOf ==
  ASSUME NEW x \in Nat, NEW b \in Nat \ {0}
  PROVE  x \div b \in Nat /\ (x \div b) * b <= x /\ x < (x \div b) * b + b
OBVIOUS

\* The quotient is the number of times that the divisor goes into the dividend.
LEMMA QuotientIs ==
  ASSUME NEW x \in Nat, NEW b \in Nat \ {0}, NEW m \in Nat, m * b <= x, x < m * b + b
  PROVE  x \div b = m
<1> DEFINE y == x \div b
<1>1. y \in Nat /\ y * b <= x /\ x < y * b + b
  BY QuotientOf
<1> HIDE DEF y
<1>2. b \in Nat /\ m * b \in Nat /\ y * b \in Nat
  BY <1>1
<1>3. ~(y < m)
  <2> SUFFICES ASSUME y < m PROVE FALSE
    OBVIOUS
  <2>1. y + 1 \in Nat /\ y + 1 <= m
    BY <1>1
  <2>2. (y + 1) * b <= m * b /\ (y + 1) * b = y * b + b
    BY <1>1, <1>2, <2>1, Products
  <2> QED
    BY <1>1, <1>2, <2>2
<1>4. ~(m < y)
  <2> SUFFICES ASSUME m < y PROVE FALSE
    OBVIOUS
  <2>1. m + 1 \in Nat /\ m + 1 <= y
    BY <1>1
  <2>2. (m + 1) * b <= y * b /\ (m + 1) * b = m * b + b
    BY <1>1, <1>2, <2>1, Products
  <2> QED
    BY <1>1, <1>2, <2>2
<1>5. y = m
  BY <1>1, <1>3, <1>4
<1> QED
  BY <1>5 DEF y

\* Half the length, as the code rounds it.
LEMMA HalfOf == R \in Nat \ {0} /\ R \div 2 \in 0 .. R - 1 /\ 2 * (R \div 2) \in R - 1 .. R
BY SimulatorAssumption DEF R

LEMMA AsideIs ==
  ASSUME NEW m \in 0 .. R, NEW k \in Nat
  PROVE  /\ Aside(m, k) \in Nat /\ k * m \in Nat /\ Aside(m, k) * R \in Nat
         /\ Error(m, k) \in 0 .. R - 1
<1> DEFINE x == R - 1 - R \div 2 + k * m
<1>1. k * m \in Nat
  BY HalfOf
<1>2. x \in Nat
  BY <1>1, HalfOf
<1>3. Aside(m, k) \in Nat /\ Aside(m, k) * R <= x /\ x < Aside(m, k) * R + R
  BY <1>2, HalfOf, QuotientOf DEF Aside
<1> DEFINE a == Aside(m, k) * R
           p == k * m
<1>4. a \in Nat
  BY <1>3, HalfOf
<1>5. a <= R - 1 - R \div 2 + p /\ R - 1 - R \div 2 + p < a + R /\ p \in Nat
  BY <1>1, <1>3
<1>6. Error(m, k) = R \div 2 + a - p
  BY DEF Error
<1> HIDE DEF a, p
<1>7. Error(m, k) \in 0 .. R - 1
  BY <1>4, <1>5, <1>6, HalfOf
<1> QED
  BY <1>1, <1>3, <1>4, <1>7 DEF a

LEMMA AsideStarts == ASSUME NEW m \in 0 .. R PROVE Aside(m, 0) = 0 /\ Error(m, 0) = R \div 2
<1>1. 0 * m = 0 /\ 0 * R = 0
  BY HalfOf
<1>2. R - 1 - R \div 2 \in Nat /\ R - 1 - R \div 2 < R
  BY HalfOf
<1>3. Aside(m, 0) = 0
  BY <1>1, <1>2, HalfOf, QuotientIs DEF Aside
<1> QED
  BY <1>1, <1>3, HalfOf DEF Error

\* The error decides whether a step goes aside, and is updated by the step.
LEMMA AsideSteps ==
  ASSUME NEW m \in 0 .. R, NEW k \in Nat
  PROVE  /\ Aside(m, k + 1) = Aside(m, k) + (IF Error(m, k) < m THEN 1 ELSE 0)
         /\ Error(m, k + 1) = Error(m, k) - m + (IF Error(m, k) < m THEN R ELSE 0)
<1> DEFINE n == Aside(m, k)
           a == n * R
           p == k * m
           x == R - 1 - R \div 2 + (k + 1) * m
           step == IF Error(m, k) < m THEN 1 ELSE 0
<1>1. n \in Nat /\ p \in Nat /\ a \in Nat /\ Error(m, k) \in 0 .. R - 1
      /\ Error(m, k) = R \div 2 + a - p
  BY AsideIs DEF Error
<1>2. (k + 1) * m = p + m
  BY HalfOf
<1>3. (n + 1) * R = a + R
  BY <1>1, HalfOf
<1>4. CASE Error(m, k) < m
  <2>1. a + R <= x /\ x < a + R + R
    <3> HIDE DEF a, p
    <3> QED
      BY <1>1, <1>2, <1>4, HalfOf
  <2>2. x \in Nat
    BY <1>1, <1>2, HalfOf
  <2>3. n + 1 \in Nat /\ (n + 1) * R <= x /\ x < (n + 1) * R + R
    BY <1>1, <1>3, <2>1
  <2>4. Aside(m, k + 1) = n + 1
    <3> HIDE DEF n
    <3>1. x \div R = n + 1
      BY <2>2, <2>3, HalfOf, QuotientIs
    <3> QED
      BY <3>1 DEF Aside
  <2>5. Error(m, k + 1) = R \div 2 + (n + 1) * R - (k + 1) * m
    BY <2>4 DEF Error
  <2> HIDE DEF n, a, p
  <2> QED
    BY <1>1, <1>2, <1>3, <1>4, <2>4, <2>5, HalfOf DEF n
<1>5. CASE ~(Error(m, k) < m)
  <2>1. a <= x /\ x < a + R
    <3> HIDE DEF a, p
    <3> QED
      BY <1>1, <1>2, <1>5, HalfOf
  <2>2. x \in Nat
    BY <1>1, <1>2, HalfOf
  <2>4. Aside(m, k + 1) = n
    <3>1. n * R <= x /\ x < n * R + R
      BY <2>1
    <3> HIDE DEF n
    <3>2. x \div R = n
      BY <1>1, <2>2, <3>1, HalfOf, QuotientIs
    <3> QED
      BY <3>2 DEF Aside
  <2>5. Error(m, k + 1) = R \div 2 + n * R - (k + 1) * m
    BY <2>4 DEF Error
  <2> HIDE DEF n, p
  <2> QED
    BY <1>1, <1>2, <1>5, <2>4, <2>5, HalfOf DEF n
<1> QED
  BY <1>4, <1>5

\* The walk's equation: where it starts, and a step of it.
StartOf(from, dx, dy) == [cell |-> from, err |-> IF dx > dy THEN dx \div 2 ELSE -(dy \div 2)]
StepOf(p, dx, dy, sx, sy) ==
  [cell |-> <<p.cell[1] + (IF p.err > -dx THEN sx ELSE 0), p.cell[2] + (IF p.err < dy THEN sy ELSE 0)>>,
   err |-> p.err - (IF p.err > -dx THEN dy ELSE 0) + (IF p.err < dy THEN dx ELSE 0)]
Walked(at, from, dx, dy, sx, sy) ==
  at = [k \in 0 .. 2 * R |-> IF k = 0 THEN StartOf(from, dx, dy) ELSE StepOf(at[k - 1], dx, dy, sx, sy)]

\* What solves it, from a cell and with the lengths of a ray.
Solution(from, dx, dy, sx, sy) ==
  [k \in 0 .. 2 * R |->
     IF dx > dy THEN [cell |-> <<from[1] + sx * k, from[2] + sy * Aside(dy, k)>>, err |-> Error(dy, k)]
                ELSE [cell |-> <<from[1] + sx * Aside(dx, k), from[2] + sy * k>>, err |-> -Error(dx, k)]]

LEMMA SolutionSteps ==
  ASSUME NEW a \in Int, NEW b \in Int, NEW dx \in 0 .. R, NEW dy \in 0 .. R, dx = R \/ dy = R,
         NEW sx \in {1, -1}, NEW sy \in {1, -1}
  PROVE  Walked(Solution(<<a, b>>, dx, dy, sx, sy), <<a, b>>, dx, dy, sx, sy)
<1> DEFINE at == Solution(<<a, b>>, dx, dy, sx, sy)
           from == <<a, b>>
<1>1. R \in Nat \ {0}
  BY HalfOf
<1>2. ASSUME NEW k \in 0 .. 2 * R
      PROVE  at[k] = IF k = 0 THEN StartOf(from, dx, dy) ELSE StepOf(at[k - 1], dx, dy, sx, sy)
  <2>1. CASE k = 0
    <3>1. CASE dx > dy
      <4>1. dx = R /\ at[k] = [cell |-> <<a + sx * 0, b + sy * Aside(dy, 0)>>, err |-> Error(dy, 0)]
        BY <1>1, <2>1, <3>1 DEF Solution
      <4>2. Aside(dy, 0) = 0 /\ Error(dy, 0) = R \div 2
        BY AsideStarts
      <4> QED
        BY <1>1, <2>1, <3>1, <4>1, <4>2 DEF StartOf
    <3>2. CASE ~(dx > dy)
      <4>1. dy = R /\ at[k] = [cell |-> <<a + sx * Aside(dx, 0), b + sy * 0>>, err |-> -Error(dx, 0)]
        BY <1>1, <2>1, <3>2 DEF Solution
      <4>2. Aside(dx, 0) = 0 /\ Error(dx, 0) = R \div 2
        BY AsideStarts
      <4> QED
        BY <1>1, <2>1, <3>2, <4>1, <4>2 DEF StartOf
    <3> QED
      BY <3>1, <3>2
  <2>2. CASE k # 0
    <3> DEFINE j == k - 1
               p == at[j]
    <3>1. j \in Nat /\ j \in 0 .. 2 * R /\ k = j + 1
      BY <1>1, <2>2
    <3> HIDE DEF j
    <3>2. CASE dx > dy
      <4> DEFINE n == Aside(dy, j)
                 e == Error(dy, j)
      <4>1. dx = R /\ n \in Nat /\ e \in 0 .. R - 1
        BY <1>1, <3>1, <3>2, AsideIs
      <4>2. p = [cell |-> <<a + sx * j, b + sy * n>>, err |-> e]
        BY <3>1, <3>2 DEF Solution
      <4>3. at[k] = [cell |-> <<a + sx * (j + 1), b + sy * Aside(dy, j + 1)>>, err |-> Error(dy, j + 1)]
        BY <3>1, <3>2 DEF Solution
      <4>4. /\ Aside(dy, j + 1) = n + (IF e < dy THEN 1 ELSE 0)
            /\ Error(dy, j + 1) = e - dy + (IF e < dy THEN R ELSE 0)
        BY <3>1, AsideSteps
      <4> HIDE DEF n, e, at, p
      <4>5. e > -dx
        BY <1>1, <4>1
      <4>6. /\ a + sx * (j + 1) = a + sx * j + sx
            /\ b + sy * Aside(dy, j + 1) = b + sy * n + (IF e < dy THEN sy ELSE 0)
        BY <3>1, <4>1, <4>4
      <4>7. Error(dy, j + 1) = e - dy + (IF e < dy THEN dx ELSE 0)
        BY <4>1, <4>4
      <4>8. StepOf(p, dx, dy, sx, sy) =
              [cell |-> <<(a + sx * j) + sx, (b + sy * n) + (IF e < dy THEN sy ELSE 0)>>,
               err |-> e - dy + (IF e < dy THEN dx ELSE 0)]
        BY <4>2, <4>5 DEF StepOf
      <4>9. at[k] = StepOf(p, dx, dy, sx, sy)
        BY <4>3, <4>6, <4>7, <4>8
      <4> QED
        BY <2>2, <4>9 DEF j, p
    <3>3. CASE ~(dx > dy)
      <4> DEFINE n == Aside(dx, j)
                 e == Error(dx, j)
      <4>1. dy = R /\ n \in Nat /\ e \in 0 .. R - 1
        BY <1>1, <3>1, <3>3, AsideIs
      <4>2. p = [cell |-> <<a + sx * n, b + sy * j>>, err |-> -e]
        BY <3>1, <3>3 DEF Solution
      <4>3. at[k] = [cell |-> <<a + sx * Aside(dx, j + 1), b + sy * (j + 1)>>, err |-> -Error(dx, j + 1)]
        BY <3>1, <3>3 DEF Solution
      <4>4. /\ Aside(dx, j + 1) = n + (IF e < dx THEN 1 ELSE 0)
            /\ Error(dx, j + 1) = e - dx + (IF e < dx THEN R ELSE 0)
        BY <3>1, AsideSteps
      <4> HIDE DEF n, e, at, p
      <4>5. -e < dy /\ (-e > -dx <=> e < dx)
        BY <1>1, <4>1
      <4>6. /\ b + sy * (j + 1) = b + sy * j + sy
            /\ a + sx * Aside(dx, j + 1) = a + sx * n + (IF e < dx THEN sx ELSE 0)
        BY <3>1, <4>1, <4>4
      <4>7. -Error(dx, j + 1) = (-e) - (IF e < dx THEN dy ELSE 0) + dx
        BY <4>1, <4>4
      <4>8. StepOf(p, dx, dy, sx, sy) =
              [cell |-> <<(a + sx * n) + (IF e < dx THEN sx ELSE 0), (b + sy * j) + sy>>,
               err |-> (-e) - (IF e < dx THEN dy ELSE 0) + dx]
        BY <4>2, <4>5 DEF StepOf
      <4>9. at[k] = StepOf(p, dx, dy, sx, sy)
        BY <4>3, <4>6, <4>7, <4>8
      <4> QED
        BY <2>2, <4>9 DEF j, p
    <3> QED
      BY <3>2, <3>3
  <2> QED
    BY <2>1, <2>2
<1>3. at = [k \in 0 .. 2 * R |-> at[k]]
  BY DEF Solution
<1> HIDE DEF at
<1>4. at = [k \in 0 .. 2 * R |-> IF k = 0 THEN StartOf(from, dx, dy) ELSE StepOf(at[k - 1], dx, dy, sx, sy)]
  BY <1>2, <1>3, Zenon
<1> QED
  BY <1>4 DEF at, Walked

\* Nothing else solves it: two solutions would differ first at some step.
LEMMA WalkedOnce ==
  ASSUME NEW g, NEW h, NEW from, NEW dx, NEW dy, NEW sx, NEW sy,
         Walked(g, from, dx, dy, sx, sy), Walked(h, from, dx, dy, sx, sy)
  PROVE  g = h
<1> DEFINE S == {k \in 0 .. 2 * R : g[k] # h[k]}
           To(at, k) == IF k = 0 THEN StartOf(from, dx, dy) ELSE StepOf(at[k - 1], dx, dy, sx, sy)
<1>1. g = [k \in 0 .. 2 * R |-> To(g, k)] /\ h = [k \in 0 .. 2 * R |-> To(h, k)]
  BY Zenon DEF Walked
<1>2. R \in Nat \ {0}
  BY HalfOf
<1>3. S = {}
  <2> SUFFICES ASSUME S # {} PROVE FALSE
    OBVIOUS
  <2>1. PICK k \in S : \A y \in S : k <= y
    <3>1. S \subseteq Nat
      OBVIOUS
    <3> HIDE DEF S
    <3> QED
      BY <3>1, LeastExists
  <2>2. k \in 0 .. 2 * R /\ g[k] # h[k] /\ g[k] = To(g, k) /\ h[k] = To(h, k)
    <3>1. k \in 0 .. 2 * R /\ g[k] # h[k]
      OBVIOUS
    <3> HIDE DEF To, S
    <3> QED
      BY <1>1, <3>1, Zenon
  <2>3. k # 0
    BY <2>2
  <2>4. k - 1 \in 0 .. 2 * R /\ ~(k <= k - 1)
    BY <1>2, <2>2, <2>3
  <2>5. g[k - 1] = h[k - 1]
    BY <2>1, <2>4
  <2> QED
    BY <2>2, <2>5
<1>4. \A k \in 0 .. 2 * R : g[k] = h[k]
  BY <1>3
<1>5. g = [k \in 0 .. 2 * R |-> g[k]] /\ h = [k \in 0 .. 2 * R |-> h[k]]
  <2> HIDE DEF To
  <2> QED
    BY <1>1, Zenon
<1> HIDE DEF S, To
<1>6. [k \in 0 .. 2 * R |-> g[k]] = [k \in 0 .. 2 * R |-> h[k]]
  BY <1>4
<1> QED
  BY <1>5, <1>6

Length(n) == IF n < 0 THEN -n ELSE n
Sign(a, b) == IF a < b THEN 1 ELSE -1

LEMMA WalkIs ==
  ASSUME NEW from, NEW to
  PROVE  LET dx == Length(to[1] - from[1])  dy == Length(to[2] - from[2])
             sx == Sign(from[1], to[1])  sy == Sign(from[2], to[2])
         IN (\E at : Walked(at, from, dx, dy, sx, sy)) => Walked(Walk(from, to), from, dx, dy, sx, sy)
<1> DEFINE dx == Length(to[1] - from[1])
           dy == Length(to[2] - from[2])
           sx == Sign(from[1], to[1])
           sy == Sign(from[2], to[2])
<1>1. Walk(from, to) = CHOOSE at : Walked(at, from, dx, dy, sx, sy)
  BY Zenon DEF Walk, Walked, StartOf, StepOf, Length, Sign, R
<1> HIDE DEF dx, dy, sx, sy
<1>2. (\E at : Walked(at, from, dx, dy, sx, sy)) => Walked(Walk(from, to), from, dx, dy, sx, sy)
  BY <1>1, Zenon
<1> QED
  BY <1>2 DEF dx, dy, sx, sy

(***************************************************************************)
(* A beam ends R cells away, along at least one of the axes.  Its walk has *)
(* made Along(n, k) cells of the n along an axis after k steps.            *)
(***************************************************************************)

Along(n, k) == Sign(0, n) * Aside(Length(n), k)

\* Going aside at most as far as the length of the ray, within half a cell of it.
LEMMA AsideNear ==
  ASSUME NEW m \in 0 .. R, NEW k \in Nat
  PROVE  2 * (Aside(m, k) * R - k * m) \in -R .. R
<1> DEFINE a == Aside(m, k) * R
           p == k * m
<1>1. a \in Nat /\ p \in Nat /\ R \div 2 + a - p \in 0 .. R - 1
  BY AsideIs DEF Error
<1> HIDE DEF a, p
<1>2. 2 * (a - p) \in -R .. R
  BY <1>1, HalfOf
<1> QED
  BY <1>2 DEF a, p

LEMMA AsideEnds == ASSUME NEW m \in 0 .. R PROVE Aside(m, R) = m
<1> DEFINE p == m * R
<1>1. p \in Nat /\ R * m = p
  BY HalfOf
<1>2. R - 1 - R \div 2 \in Nat /\ R - 1 - R \div 2 < R
  BY HalfOf
<1>3. R - 1 - R \div 2 + p \in Nat /\ p <= R - 1 - R \div 2 + p /\ R - 1 - R \div 2 + p < p + R
  <2> HIDE DEF p
  <2> QED
    BY <1>1, <1>2, HalfOf
<1>4. (R - 1 - R \div 2 + p) \div R = m
  BY <1>3, HalfOf, QuotientIs
<1> QED
  BY <1>1, <1>4 DEF Aside

LEMMA AsideStraight == ASSUME NEW k \in Nat PROVE Aside(R, k) = k
<1> DEFINE p == k * R
<1>1. p \in Nat
  BY HalfOf
<1>2. R - 1 - R \div 2 \in Nat /\ R - 1 - R \div 2 < R
  BY HalfOf
<1>3. R - 1 - R \div 2 + p \in Nat /\ p <= R - 1 - R \div 2 + p /\ R - 1 - R \div 2 + p < p + R
  <2> HIDE DEF p
  <2> QED
    BY <1>1, <1>2, HalfOf
<1>4. (R - 1 - R \div 2 + p) \div R = k
  BY <1>3, HalfOf, QuotientIs
<1> QED
  BY <1>4 DEF Aside

\* It never comes back.
LEMMA AsideGrows ==
  ASSUME NEW m \in 0 .. R, NEW j \in Nat, NEW k \in Nat, j <= k
  PROVE  Aside(m, j) <= Aside(m, k)
<1> DEFINE x == R - 1 - R \div 2 + j * m
           y == R - 1 - R \div 2 + k * m
           a == Aside(m, j)
           b == Aside(m, k)
<1>1. x \in Nat /\ y \in Nat /\ x <= y
  <2>1. j * m \in Nat /\ k * m \in Nat /\ j * m <= k * m
    BY Products
  <2> QED
    BY <2>1, HalfOf
<1>2. /\ a \in Nat /\ a * R <= x /\ x < a * R + R
      /\ b \in Nat /\ b * R <= y /\ y < b * R + R
  BY <1>1, HalfOf, QuotientOf DEF Aside
<1> HIDE DEF x, y, a, b
<1>3. ~(b + 1 <= a)
  <2> SUFFICES ASSUME b + 1 <= a PROVE FALSE
    OBVIOUS
  <2>1. (b + 1) * R <= a * R /\ (b + 1) * R = b * R + R
    BY <1>2, HalfOf, Products
  <2>2. a * R \in Nat /\ b * R \in Nat
    BY <1>2, HalfOf
  <2> QED
    BY <1>1, <1>2, <2>1, <2>2, HalfOf
<1>4. a <= b
  BY <1>2, <1>3
<1> QED
  BY <1>4 DEF a, b

LEMMA AlongIs ==
  ASSUME NEW n \in -R .. R, NEW k \in Nat
  PROVE  /\ Along(n, k) \in Int
         /\ k <= R => Along(n, k) \in -R .. R
         /\ 2 * (Along(n, k) * R - k * n) \in -R .. R
         /\ Along(n, R) = n
         /\ Length(n) = R /\ Along(n, k) = n => k = R
<1> DEFINE m == Length(n)
           s == Sign(0, n)
           a == Aside(m, k)
<1>1. m \in 0 .. R /\ s \in {1, -1} /\ n = s * m /\ m \in Nat /\ R \in Nat \ {0}
  BY HalfOf DEF Length, Sign
<1>2. Along(n, k) = s * a /\ Along(n, R) = s * Aside(m, R)
  BY DEF Along
<1> HIDE DEF m, s
<1>3. a \in Nat /\ 2 * (a * R - k * m) \in -R .. R /\ a * R \in Nat /\ k * m \in Nat
  BY <1>1, AsideIs, AsideNear
<1>4. Aside(m, R) = m
  BY <1>1, AsideEnds
<1>5. Along(n, R) = n
  BY <1>1, <1>2, <1>4
<1>6. k <= R => Along(n, k) \in -R .. R
  <2>1. k <= R => a <= m
    BY <1>1, <1>4, AsideGrows
  <2> HIDE DEF a
  <2> QED
    BY <1>1, <1>2, <1>3, <2>1
<1>7. 2 * (Along(n, k) * R - k * n) \in -R .. R
  <2> DEFINE ar == a * R
             km == k * m
  <2>1. CASE s = 1
    <3>1. Along(n, k) * R - k * n = ar - km
      BY <1>1, <1>2, <1>3, <2>1
    <3> QED
      BY <1>3, <3>1
  <2>2. CASE s = -1
    <3>1. Along(n, k) = -a /\ n = -m
      BY <1>1, <1>2, <1>3, <2>2
    <3>2. (-a) * R = -ar /\ k * (-m) = -km
      BY <1>1, <1>3
    <3>3. Along(n, k) * R - k * n = (-ar) - (-km)
      BY <3>1, <3>2
    <3>4. 2 * (ar - km) \in -R .. R /\ ar \in Nat /\ km \in Nat
      BY <1>3
    <3> HIDE DEF ar, km
    <3>5. 2 * ((-ar) - (-km)) \in -R .. R
      BY <1>1, <3>4
    <3> QED
      BY <3>3, <3>5
  <2> QED
    BY <1>1, <2>1, <2>2
<1>8. Length(n) = R /\ Along(n, k) = n => k = R
  <2> SUFFICES ASSUME m = R, Along(n, k) = n PROVE k = R
    BY DEF m
  <2>1. a = k
    BY <2>1, AsideStraight
  <2> HIDE DEF a
  <2> QED
    BY <1>1, <1>2, <1>3, <2>1
<1> QED
  BY <1>2, <1>3, <1>5, <1>6, <1>7, <1>8, <1>1

\* What leaves a range of cells does not come back to it.
LEMMA AlongOut ==
  ASSUME NEW n \in -R .. R, NEW j \in Nat, NEW k \in Nat, j <= k,
         NEW last \in Int, NEW start \in 0 .. last, start + Along(n, j) \notin 0 .. last
  PROVE  start + Along(n, k) \notin 0 .. last
<1> DEFINE m == Length(n)
           s == Sign(0, n)
           a == Aside(m, j)
           b == Aside(m, k)
<1>1. m \in 0 .. R /\ s \in {1, -1}
  BY HalfOf DEF Length, Sign
<1>2. Along(n, j) = s * a /\ Along(n, k) = s * b
  BY DEF Along
<1> HIDE DEF m, s
<1>3. a \in Nat /\ b \in Nat /\ a <= b
  BY <1>1, AsideIs, AsideGrows
<1> HIDE DEF a, b
<1> QED
  BY <1>1, <1>2, <1>3

LEMMA BeamIs ==
  ASSUME NEW beam \in Beams
  PROVE  /\ beam[1] \in -R .. R /\ beam[2] \in -R .. R
         /\ beam = <<beam[1], beam[2]>>
         /\ Length(beam[1]) = R \/ Length(beam[2]) = R
<1> DEFINE b1 == beam[1]
           b2 == beam[2]
           S == {b1, -b1, b2, -b2}
<1>1. b1 \in -R .. R /\ b2 \in -R .. R /\ beam = <<b1, b2>> /\ Max(S) = R
  BY DEF Beams, R
<1>2. R \in Nat \ {0}
  BY HalfOf
<1>3. \E x \in S : \A y \in S : x >= y
  <2> HIDE DEF b1, b2
  <2>1. b1 \in Int /\ b2 \in Int /\ -b1 \in Int /\ -b2 \in Int
    BY <1>1, <1>2
  <2> QED
    BY <2>1
<1>4. Max(S) \in S
  <2> HIDE DEF S
  <2> QED
    BY <1>3 DEF Max
<1> HIDE DEF b1, b2
<1>5. Length(b1) = R \/ Length(b2) = R
  BY <1>1, <1>2, <1>4 DEF Length
<1> QED
  BY <1>1, <1>5 DEF b1, b2

\* The walk of a beam: the cells it has made along either axis.
LEMMA WalkAt ==
  ASSUME NEW x \in 0 .. Width - 1, NEW beam \in Beams, NEW k \in 0 .. 2 * R
  PROVE  Walk(<<x, Lane>>, <<x + beam[1], Lane + beam[2]>>)[k].cell =
           <<x + Along(beam[1], k), Lane + Along(beam[2], k)>>
<1> DEFINE b1 == beam[1]
           b2 == beam[2]
           from == <<x, Lane>>
           to == <<x + b1, Lane + b2>>
           at == Walk(from, to)
           dx == Length(b1)
           dy == Length(b2)
           sx == Sign(0, b1)
           sy == Sign(0, b2)
<1>1. x \in Int /\ Lane \in Int /\ R \in Nat \ {0} /\ k \in Nat
  BY HalfOf, SimulatorAssumption
<1>2. b1 \in -R .. R /\ b2 \in -R .. R /\ (dx = R \/ dy = R)
  BY BeamIs
<1> HIDE DEF b1, b2
<1>3. dx \in 0 .. R /\ dy \in 0 .. R /\ sx \in {1, -1} /\ sy \in {1, -1}
  BY <1>1, <1>2 DEF Length, Sign
<1>4. /\ dx = Length(to[1] - from[1]) /\ dy = Length(to[2] - from[2])
      /\ sx = Sign(from[1], to[1]) /\ sy = Sign(from[2], to[2])
  <2>1. to[1] - from[1] = b1 /\ to[2] - from[2] = b2
    BY <1>1, <1>2
  <2>2. sx = Sign(from[1], to[1]) /\ sy = Sign(from[2], to[2])
    BY <1>1, <1>2 DEF Sign
  <2> QED
    BY <2>1, <2>2
<1>5. Walked(Solution(from, dx, dy, sx, sy), from, dx, dy, sx, sy)
  BY <1>1, <1>2, <1>3, SolutionSteps
<1>6. Walked(at, from, dx, dy, sx, sy)
  <2> HIDE DEF from, to, dx, dy, sx, sy
  <2>1. \E g : Walked(g, from, dx, dy, sx, sy)
    BY <1>5
  <2> QED
    BY <1>4, <2>1, WalkIs
<1>7. at = Solution(from, dx, dy, sx, sy)
  BY <1>5, <1>6, WalkedOnce
<1>8. Along(b1, k) = sx * Aside(dx, k) /\ Along(b2, k) = sy * Aside(dy, k)
  BY DEF Along
<1> HIDE DEF dx, dy, sx, sy
<1>9. at[k].cell = <<x + sx * Aside(dx, k), Lane + sy * Aside(dy, k)>>
  <2>1. CASE dx > dy
    <3>1. dx = R /\ Aside(dx, k) = k
      BY <1>1, <1>2, <1>3, <2>1, AsideStraight
    <3>2. Solution(from, dx, dy, sx, sy)[k].cell = <<x + sx * k, Lane + sy * Aside(dy, k)>>
      BY <2>1 DEF Solution
    <3> HIDE DEF at, from
    <3> QED
      BY <1>7, <3>1, <3>2
  <2>2. CASE ~(dx > dy)
    <3>1. dy = R /\ Aside(dy, k) = k
      BY <1>1, <1>2, <1>3, <2>2, AsideStraight
    <3>2. Solution(from, dx, dy, sx, sy)[k].cell = <<x + sx * Aside(dx, k), Lane + sy * k>>
      BY <2>2 DEF Solution
    <3> HIDE DEF at, from
    <3> QED
      BY <1>7, <3>1, <3>2
  <2> QED
    BY <2>1, <2>2
<1> QED
  BY <1>8, <1>9 DEF at, from, to, b1, b2

\* A beam passes the cells of its walk, and ends in the last of them only.
LEMMA WalkNear ==
  ASSUME NEW x \in 0 .. Width - 1, NEW beam \in Beams, NEW k \in 0 .. R
  PROVE  /\ <<x + Along(beam[1], k), Lane + Along(beam[2], k)>> \in NearBeam(x, beam, k)
         /\ <<x + Along(beam[1], R), Lane + Along(beam[2], R)>> = <<x + beam[1], Lane + beam[2]>>
         /\ <<x + Along(beam[1], k), Lane + Along(beam[2], k)>> = <<x + beam[1], Lane + beam[2]>> => k = R
<1> DEFINE b1 == beam[1]
           b2 == beam[2]
           p == Along(b1, k)
           q == Along(b2, k)
<1>1. x \in Int /\ Lane \in Int /\ R \in Nat \ {0} /\ k \in Nat /\ k <= R
  BY HalfOf, SimulatorAssumption
<1>2. b1 \in -R .. R /\ b2 \in -R .. R /\ (Length(b1) = R \/ Length(b2) = R)
  BY BeamIs
<1> HIDE DEF b1, b2
<1>3. /\ p \in -R .. R /\ 2 * (p * R - k * b1) \in -R .. R /\ Along(b1, R) = b1
      /\ q \in -R .. R /\ 2 * (q * R - k * b2) \in -R .. R /\ Along(b2, R) = b2
      /\ (Length(b1) = R /\ p = b1) \/ (Length(b2) = R /\ q = b2) => k = R
  BY <1>1, <1>2, AlongIs
<1> HIDE DEF p, q
<1>4. <<x + p, Lane + q>> \in NearBeam(x, beam, k)
  <2>1. /\ x + p \in x - R .. x + R /\ Lane + q \in Lane - R .. Lane + R
        /\ (x + p) - x = p /\ (Lane + q) - Lane = q
    BY <1>1, <1>3
  <2>2. /\ 2 * (((x + p) - x) * R - k * b1) \in -R .. R
        /\ 2 * (((Lane + q) - Lane) * R - k * b2) \in -R .. R
    BY <1>3, <2>1
  <2> QED
    BY <2>1, <2>2, Zenon DEF NearBeam, b1, b2, R
<1>5. <<x + p, Lane + q>> = <<x + b1, Lane + b2>> => k = R
  <2> SUFFICES ASSUME <<x + p, Lane + q>> = <<x + b1, Lane + b2>> PROVE k = R
    OBVIOUS
  <2>1. x + p = x + b1 /\ Lane + q = Lane + b2
    OBVIOUS
  <2>2. p = b1 /\ q = b2
    BY <1>1, <1>2, <1>3, <2>1
  <2> QED
    BY <1>2, <1>3, <2>2
<1> QED
  BY <1>3, <1>4, <1>5 DEF p, q, b1, b2

\* Every range the lidar casts, on every map and from every cell of the row.
LEMMA CastTrue ==
  ASSUME NEW m \in Maps, NEW x \in 0 .. Width - 1
  PROVE  MeetsFirst[m][x]
<1>1. R \in Nat \ {0} /\ x \in Int /\ Lane \in Int /\ Width - 1 \in Int /\ Height - 1 \in Int
      /\ Lane \in 0 .. Height - 1 /\ range_max = R + 1
  BY HalfOf, SimulatorAssumption DEF range_max, R
<1>2. ASSUME NEW beam \in Beams
      PROVE  LET hit == castRay(m, x, beam)
             IN /\ hit <= range_max
                /\ hit < range_max => NearBeam(x, beam, hit) \cap m # {}
                /\ \A k \in 0 .. hit - 1 : ~(k <= RangeMax /\ NearBeam(x, beam, k) \subseteq m)
  <2> DEFINE at == Walk(<<x, Lane>>, <<x + beam[1], Lane + beam[2]>>)
             end == <<x + beam[1], Lane + beam[2]>>
             Cell(k) == <<x + Along(beam[1], k), Lane + Along(beam[2], k)>>
             Ends(k) == ~OnMap(at[k].cell) \/ at[k].cell \in m \/ at[k].cell = end
             S == {k \in 0 .. 2 * R : Ends(k)} \cup {2 * R}
             last == Min(S)
             hit == castRay(m, x, beam)
  <2>1. hit = IF OnMap(at[last].cell) /\ at[last].cell \in m THEN last ELSE range_max
    BY DEF castRay, R
  <2>2. /\ beam[1] \in -R .. R /\ beam[2] \in -R .. R
        /\ \A k \in 0 .. 2 * R : at[k].cell = Cell(k)
        /\ \A k \in 0 .. R : Cell(k) \in NearBeam(x, beam, k) /\ (Cell(k) = end => k = R)
        /\ Cell(R) = end
    <3>1. \A k \in 0 .. R : Cell(k) \in NearBeam(x, beam, k) /\ (Cell(k) = end => k = R)
      BY WalkNear
    <3>2. Cell(R) = end
      <4>1. R \in 0 .. R
        BY <1>1
      <4> QED
        BY <4>1, WalkNear
    <3> QED
      BY <3>1, <3>2, BeamIs, WalkAt
  <2>3. \A j, k \in 0 .. 2 * R : j <= k /\ ~OnMap(Cell(j)) => ~OnMap(Cell(k))
    <3> SUFFICES ASSUME NEW j \in 0 .. 2 * R, NEW k \in 0 .. 2 * R, j <= k, ~OnMap(Cell(j))
                 PROVE  ~OnMap(Cell(k))
      OBVIOUS
    <3>1. j \in Nat /\ k \in Nat
      OBVIOUS
    <3>2. CASE x + Along(beam[1], j) \notin 0 .. Width - 1
      <4>1. x + Along(beam[1], k) \notin 0 .. Width - 1
        BY <1>1, <2>2, <3>1, <3>2, AlongOut
      <4> QED
        BY <4>1 DEF OnMap
    <3>3. CASE Lane + Along(beam[2], j) \notin 0 .. Height - 1
      <4>1. Lane + Along(beam[2], k) \notin 0 .. Height - 1
        BY <1>1, <2>2, <3>1, <3>3, AlongOut
      <4> QED
        BY <4>1 DEF OnMap
    <3> QED
      BY <3>2, <3>3 DEF OnMap
  <2> HIDE DEF at, Cell, end, hit
  <2>4. last \in S /\ \A k \in S : last <= k
    <3>1. S \subseteq Nat /\ S # {}
      BY <1>1
    <3> HIDE DEF S
    <3>2. \E k \in S : \A y \in S : k <= y
      BY <3>1, LeastExists
    <3> QED
      BY <3>2 DEF Min
  <2>5. R \in S
    <3>1. R \in 0 .. 2 * R
      BY <1>1
    <3>2. at[R].cell = end
      BY <2>2, <3>1
    <3> QED
      BY <3>1, <3>2
  <2>6. /\ last \in 0 .. R /\ Ends(last)
        /\ \A k \in 0 .. R : k < last => ~Ends(k)
    <3>1. last \in S /\ last <= R
      BY <2>4, <2>5
    <3>2. \A k \in S : k \in 0 .. 2 * R /\ (Ends(k) \/ k = 2 * R)
      BY <1>1
    <3>3. \A k \in 0 .. R : Ends(k) => k \in S
      BY <1>1
    <3> HIDE DEF S, Ends, last
    <3>4. last \in 0 .. R /\ last # 2 * R
      BY <1>1, <3>1, <3>2
    <3>5. \A k \in 0 .. R : k < last => ~(last <= k)
      BY <3>4
    <3> QED
      BY <2>4, <3>1, <3>2, <3>3, <3>4, <3>5
  <2> HIDE DEF S, last
  <2>7. last \in 0 .. 2 * R /\ at[last].cell = Cell(last)
    BY <1>1, <2>2, <2>6
  <2>8. hit <= range_max
    BY <1>1, <2>1, <2>6
  <2>9. hit < range_max => NearBeam(x, beam, hit) \cap m # {}
    <3> SUFFICES ASSUME hit < range_max PROVE NearBeam(x, beam, hit) \cap m # {}
      OBVIOUS
    <3>1. hit = last /\ at[last].cell \in m
      BY <1>1, <2>1
    <3>2. Cell(last) \in NearBeam(x, beam, last)
      BY <2>2, <2>6
    <3> QED
      BY <2>7, <3>1, <3>2
  <2>10. ASSUME NEW k \in 0 .. hit - 1, k <= R PROVE ~(NearBeam(x, beam, k) \subseteq m)
    <3>1. k \in 0 .. R /\ k \in 0 .. 2 * R /\ hit \in 0 .. R + 1 /\ k < hit
      BY <1>1, <2>1, <2>6, <2>10
    <3>2. at[k].cell = Cell(k) /\ Cell(k) \in NearBeam(x, beam, k)
      BY <2>2, <3>1
    <3>3. Cell(k) \notin m
      <4>1. CASE k < last
        BY <2>6, <3>1, <3>2, <4>1
      <4>2. CASE ~(k < last)
        <5>1. ~(OnMap(at[last].cell) /\ at[last].cell \in m) /\ last <= k
          BY <2>1, <2>6, <3>1, <4>2
        <5>2. CASE ~OnMap(Cell(last))
          <6>1. ~OnMap(Cell(k))
            BY <2>3, <2>7, <3>1, <5>1, <5>2
          <6>2. \A c \in m : OnMap(c)
            BY SimulatorAssumption DEF OnMap
          <6> QED
            BY <6>1, <6>2
        <5>3. CASE OnMap(Cell(last))
          <6>1. Cell(last) = end /\ Cell(last) \notin m
            BY <2>6, <2>7, <5>1, <5>3
          <6>2. last = R
            BY <2>2, <2>6, <6>1
          <6>3. k = last
            BY <1>1, <3>1, <5>1, <6>2
          <6> QED
            BY <6>1, <6>3
        <5> QED
          BY <5>2, <5>3
      <4> QED
        BY <4>1, <4>2
    <3> QED
      BY <3>2, <3>3
  <2>11. \A k \in 0 .. hit - 1 : ~(k <= RangeMax /\ NearBeam(x, beam, k) \subseteq m)
    BY <2>10 DEF R
  <2> QED
    BY <2>8, <2>9, <2>11 DEF hit
<1> QED
  BY <1>2, Zenon DEF MeetsFirst

(***************************************************************************)
(* The poses.  The transform that the lidar waits for comes with the first *)
(* odometry, and the map cannot come before it.                            *)
(***************************************************************************)

Poses == [x : Places, theta : {1, -1}]

PosesInv ==
  /\ map \in Maps
  /\ state \in Poses
  /\ odom \in Poses \cup {NoMsg}
  /\ map_initialized => lidar_pose \in Places /\ odom # NoMsg

LEMMA PosesInit == SimInit => PosesInv
<1>1. 0 \in Places /\ [x |-> 0, theta |-> 1] \in Poses
  BY SimulatorAssumption DEF Places, Poses
<1> QED
  BY <1>1 DEF SimInit, PosesInv

LEMMA MovedIs ==
  ASSUME state \in Poses, NEW speed
  PROVE  Moved(speed) \in Poses
<1> DEFINE x == state.x + speed * state.theta
<1>1. state.x \in Places /\ state.theta \in {1, -1} /\ -state.theta \in {1, -1}
  BY DEF Poses
<1>2. [state EXCEPT !.theta = -@] \in Poses
  BY <1>1 DEF Poses
<1>3. [state EXCEPT !.x = IF x \in Places THEN x ELSE @] \in Poses
  <2> HIDE DEF x
  <2> QED
    BY <1>1 DEF Poses
<1> QED
  BY <1>2, <1>3 DEF Moved

LEMMA PosesStep == PosesInv /\ [SimNext]_sim_vars => PosesInv'
<1> SUFFICES ASSUME PosesInv, [SimNext]_sim_vars PROVE PosesInv'
  OBVIOUS
<1>1. NoMsg \notin Poses
  BY SimulatorAssumption DEF Poses
<1>2. ASSUME UNCHANGED <<map, state, odom, lidar_pose, map_initialized>> PROVE PosesInv'
  BY <1>2 DEF PosesInv
<1>3. CASE map_callback \/ cmd_vel_callback \/ pause_callback \/ Node \/ UNCHANGED sim_vars
  BY <1>2, <1>3 DEF map_callback, cmd_vel_callback, pause_callback, Node, TestLoop, MpcLoop, applyInput,
                    sim_vars, plant, lidar
<1>4. CASE update_state \/ step_callback
  <2>1. /\ state' = Moved(vel') /\ odom' = state'
        /\ UNCHANGED <<map, lidar_pose, map_initialized>>
    BY <1>4 DEF update_state, step_callback, Update, lidar
  <2>2. state' \in Poses
    BY <2>1, MovedIs DEF PosesInv
  <2> QED
    BY <1>1, <2>1, <2>2 DEF PosesInv
<1>5. CASE reset_callback
  <2>1. /\ state' = [x |-> 0, theta |-> 1]
        /\ UNCHANGED <<map, odom, lidar_pose, map_initialized>>
    BY <1>5 DEF reset_callback, lidar
  <2>2. state' \in Poses
    BY <2>1, SimulatorAssumption DEF Poses, Places
  <2> QED
    BY <2>1, <2>2 DEF PosesInv
<1>6. CASE LidarTurn
  <2>1. odom # NoMsg /\ lidar_pose' = odom.x /\ UNCHANGED <<map, state, odom>>
    BY <1>6 DEF LidarTurn, plant
  <2>2. odom.x \in Places
    BY <2>1 DEF PosesInv, Poses
  <2> QED
    BY <2>1, <2>2 DEF PosesInv
<1>7. CASE LidarWithoutTransform
  BY <1>7 DEF LidarWithoutTransform, PosesInv, plant
<1> QED
  BY <1>3, <1>4, <1>5, <1>6, <1>7 DEF SimNext, Plant, Services, Lidar

\* Every scan published shows, beam by beam, the first obstacle the beam passes within
\* the range, whatever the map, the row and the range; and none is cast from the origin that a
\* failed transform leaves.
THEOREM ScansAreTrue == SimSpec => []ScansTrue
<1>1. PosesInv => ScansTrue
  BY CastTrue, SimulatorAssumption DEF PosesInv, ScansTrue
<1> QED
  BY <1>1, PosesInit, PosesStep, PTL DEF SimSpec

=============================================================================
