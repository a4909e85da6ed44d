\* Others start, stop and drop the same table, and the logging node may die and come back, at any time.
CONSTANTS
  MaxRows = 3
  QueueSize = 2
  SizeMod = 8
  Columns = {"x"}
  OtherColumns = {{}, {"x", "y"}, {"y"}}
  Others = {"start", "stop", "drop", "kill", "restart"}
SPECIFICATION FairSpec
INVARIANT RowsInOrder
INVARIANT CheckedRowsLogged
PROPERTY FinishReturns
CHECK_DEADLOCK FALSE
