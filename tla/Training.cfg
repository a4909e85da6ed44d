\* The whole script, over few trials: two worlds' trials (250 in the code), three of
\* one world (39), of which two successes in a row (10) end it.
SPECIFICATION Spec
CONSTANTS
  Wanted = 2
  Trials = 3
  WorldTrials = 2
  Bag = TRUE
INVARIANTS
  NoneLeft
  LearnsWhatIsLogged
  StopsWhenWon
PROPERTY ScriptEnds
