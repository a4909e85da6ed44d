--------------------------- MODULE ThreadsafeQueue ---------------------------
(***************************************************************************)
(* amrl_logging's ThreadsafeQueue (libs/threadsafe_queue): a linked list   *)
(* with a lock at each end and an atomic counter beside it.                *)
(*                                                                         *)
(* Nodes are numbered in the order they are linked, so next is the number  *)
(* after and only the data of a node is kept; which address a new node has *)
(* nothing can tell.  The list always ends in a node without data, the one *)
(* _tail points to.  A thread calls one operation at a time; one step is   *)
(* the taking of a lock or the accesses between two points where another   *)
(* thread could see a difference.                                          *)
(***************************************************************************)
EXTENDS Integers, Sequences, FiniteSets

CONSTANTS
  Procs,      \* the threads
  Values,     \* what is pushed
  Nothing,    \* nullptr: an empty pop, a node without data
  Free,       \* a mutex nobody holds
  MaxPushes,  \* bound: no push is begun once so many have ended
  SizeMod     \* 2^w for the w bits of size_t

ASSUME QueueAssumption ==
  /\ MaxPushes \in Nat /\ SizeMod \in Nat \ {0}
  /\ Nothing \notin Values /\ Free \notin Procs

VARIABLES
  head,       \* _head: the first node
  tail,       \* _tail: the last node
  data,       \* what each node but the last holds (the last, once it is filled)
  head_mtx, tail_mtx,  \* the thread that holds the lock, or Free
  curr_size,  \* _curr_size
  pc,         \* where each thread is
  value,      \* the argument of its push
  got         \* what its last pop returned

vars == <<head, tail, data, head_mtx, tail_mtx, curr_size, pc, value, got>>

\* A node that was not filled holds a null pointer.
Data(n) == IF n \in DOMAIN data THEN data[n] ELSE Nothing

Goto(p, label) == pc' = [pc EXCEPT ![p] = label]

Init ==
  /\ head = 1 /\ tail = 1
  /\ data = <<>>
  /\ head_mtx = Free /\ tail_mtx = Free
  /\ curr_size = 0
  /\ pc = [p \in Procs |-> "idle"]
  /\ value = [p \in Procs |-> Nothing]
  /\ got = [p \in Procs |-> Nothing]

-----------------------------------------------------------------------------
(* push: fill the last node, link an empty one after it, count.             *)

push(p, v) ==
  /\ pc[p] = "idle"
  /\ tail <= MaxPushes
  /\ value' = [value EXCEPT ![p] = v]
  /\ Goto(p, "push")
  /\ UNCHANGED <<head, tail, data, head_mtx, tail_mtx, curr_size, got>>

\* A slip: the lock is not taken.
PushUnlocked(p) ==
  /\ pc[p] = "push"
  /\ Goto(p, "fill")
  /\ UNCHANGED <<head, tail, data, head_mtx, tail_mtx, curr_size, value, got>>

PushLock(p) ==
  /\ pc[p] = "push" /\ tail_mtx = Free
  /\ tail_mtx' = p
  /\ Goto(p, "fill")
  /\ UNCHANGED <<head, tail, data, head_mtx, curr_size, value, got>>

PushFill(p) ==
  /\ pc[p] = "fill"
  /\ data' = [n \in 1 .. tail |-> IF n = tail THEN value[p] ELSE Data(n)]
  /\ Goto(p, "advance")
  /\ UNCHANGED <<head, tail, head_mtx, tail_mtx, curr_size, value, got>>

PushAdvance(p) ==
  /\ pc[p] = "advance"
  /\ tail' = tail + 1
  /\ tail_mtx' = Free
  /\ Goto(p, "increment")
  /\ UNCHANGED <<head, data, head_mtx, curr_size, value, got>>

PushCount(p) ==
  /\ pc[p] = "increment"
  /\ curr_size' = (curr_size + 1) % SizeMod
  /\ Goto(p, "idle")
  /\ UNCHANGED <<head, tail, data, head_mtx, tail_mtx, value, got>>

-----------------------------------------------------------------------------
(* pop: under the head's lock, compare with the tail, unlink; then count.   *)

pop(p) ==
  /\ pc[p] = "idle"
  /\ Goto(p, "pop")
  /\ UNCHANGED <<head, tail, data, head_mtx, tail_mtx, curr_size, value, got>>

PopLock(p) ==
  /\ pc[p] = "pop" /\ head_mtx = Free
  /\ head_mtx' = p
  /\ Goto(p, "compare")
  /\ UNCHANGED <<head, tail, data, tail_mtx, curr_size, value, got>>

\* get_tail takes and releases the tail's lock.
get_tail == tail_mtx = Free

\* A slip: the empty pop counts too.
PopEmptyCounts(p) ==
  /\ pc[p] = "compare" /\ get_tail /\ head = tail
  /\ got' = [got EXCEPT ![p] = Nothing]
  /\ head_mtx' = Free
  /\ Goto(p, "decrement")
  /\ UNCHANGED <<head, tail, data, tail_mtx, curr_size, value>>

PopEmpty(p) ==
  /\ pc[p] = "compare" /\ get_tail /\ head = tail
  /\ got' = [got EXCEPT ![p] = Nothing]
  /\ head_mtx' = Free
  /\ Goto(p, "idle")
  /\ UNCHANGED <<head, tail, data, tail_mtx, curr_size, value>>

PopFound(p) ==
  /\ pc[p] = "compare" /\ get_tail /\ head # tail
  /\ Goto(p, "unlink")
  /\ UNCHANGED <<head, tail, data, head_mtx, tail_mtx, curr_size, value, got>>

PopUnlink(p) ==
  /\ pc[p] = "unlink"
  /\ got' = [got EXCEPT ![p] = Data(head)]
  /\ head' = head + 1
  /\ head_mtx' = Free
  /\ Goto(p, "decrement")
  /\ UNCHANGED <<tail, data, tail_mtx, curr_size, value>>

PopCount(p) ==
  /\ pc[p] = "decrement"
  /\ curr_size' = (curr_size - 1) % SizeMod
  /\ Goto(p, "idle")
  /\ UNCHANGED <<head, tail, data, head_mtx, tail_mtx, value, got>>

-----------------------------------------------------------------------------
(* empty: both locks, the head's first.  size: one read, no step.           *)

empty(p) ==
  /\ pc[p] = "idle" /\ head_mtx = Free
  /\ head_mtx' = p
  /\ Goto(p, "empty")
  /\ UNCHANGED <<head, tail, data, tail_mtx, curr_size, value, got>>

EmptyCompare(p) ==
  /\ pc[p] = "empty" /\ get_tail
  /\ head_mtx' = Free
  /\ Goto(p, "idle")
  /\ UNCHANGED <<head, tail, data, tail_mtx, curr_size, value, got>>

size == curr_size

Step(p) ==
  \/ \E v \in Values : push(p, v)
  \/ PushLock(p) \/ PushFill(p) \/ PushAdvance(p) \/ PushCount(p)
  \/ pop(p) \/ PopLock(p) \/ PopEmpty(p) \/ PopFound(p) \/ PopUnlink(p) \/ PopCount(p)
  \/ empty(p) \/ EmptyCompare(p)

Next == \E p \in Procs : Step(p)

Spec == Init /\ [][Next]_vars

-----------------------------------------------------------------------------
(* Properties.                                                              *)

At(label) == {p \in Procs : pc[p] = label}

Labels == {"idle", "push", "fill", "advance", "increment",
           "pop", "compare", "unlink", "decrement", "empty"}

\* Every variable keeps its type; _head never runs past _tail.
TypeOK ==
  /\ tail \in Nat /\ head \in 1 .. tail
  /\ data \in Seq(Values)
  /\ head_mtx \in Procs \cup {Free} /\ tail_mtx \in Procs \cup {Free}
  /\ curr_size \in 0 .. SizeMod - 1
  /\ pc \in [Procs -> Labels]
  /\ value \in [Procs -> Values \cup {Nothing}]
  /\ got \in [Procs -> Values \cup {Nothing}]

\* The items between the two ends.
items == [i \in 1 .. tail - head |-> Data(head + i - 1)]

\* Each operation takes effect in one step: the list with its two locks is a queue,
\* although pushes and pops go on at the same time at its two ends.
Abstract == INSTANCE Fifo WITH queue <- items
ImplementsFifo == Abstract!Spec

\* The counter is the number of items but for the operations that have changed the
\* list and not yet the counter; with nobody in between it is exact.
SizeAccounts ==
  size = (Len(items) - Cardinality(At("increment")) + Cardinality(At("decrement")))
              % SizeMod
=============================================================================
