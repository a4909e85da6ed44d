-------------------------------- MODULE Fifo --------------------------------
(***************************************************************************)
(* What ThreadsafeQueue promises (the comments of its header): threads     *)
(* push items onto the end of a queue and pop them off its front, each in  *)
(* one step; a pop from an empty queue returns nothing.                    *)
(***************************************************************************)
EXTENDS Sequences

CONSTANTS Procs, Values, Nothing

VARIABLES
  queue,    \* the items, front first
  got       \* what each thread's last pop returned

fifoVars == <<queue, got>>

Init ==
  /\ queue = <<>>
  /\ got = [p \in Procs |-> Nothing]

Push(v) ==
  /\ queue' = Append(queue, v)
  /\ UNCHANGED got

PopItem(p) ==
  /\ queue # <<>>
  /\ got' = [got EXCEPT ![p] = Head(queue)]
  /\ queue' = Tail(queue)

PopNothing(p) ==
  /\ queue = <<>>
  /\ got' = [got EXCEPT ![p] = Nothing]
  /\ UNCHANGED queue

Next ==
  \/ \E v \in Values : Push(v)
  \/ \E p \in Procs : PopItem(p) \/ PopNothing(p)

Spec == Init /\ [][Next]_fifoVars
=============================================================================
