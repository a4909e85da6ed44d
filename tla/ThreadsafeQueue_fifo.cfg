\* Three threads, each of which may push, pop and ask; two pushes and those begun before.
CONSTANTS
  t1 = t1
  t2 = t2
  t3 = t3
  a = a
  b = b
  Procs <- Threads
  Values <- Items
  Nothing = Nothing
  Free = Free
  MaxPushes = 2
  SizeMod = 8
SPECIFICATION Spec
INVARIANT SizeAccounts
PROPERTY ImplementsFifo
