------------------------ MODULE ThreadsafeQueue_proofs ------------------------
(***************************************************************************)
(* For any number of threads and pushes: the list with its two locks is a  *)
(* first-in first-out queue, and its counter accounts for its items.  The  *)
(* invariant says who is where while a lock is held, that a thread about   *)
(* to unlink has found an item, that all nodes but the last are filled,    *)
(* and what each thread between the list and the counter owes to it.       *)
(***************************************************************************)
EXTENDS ThreadsafeQueue, FiniteSetTheorems, TLAPS

TailHeld == {"fill", "advance"}
HeadHeld == {"compare", "unlink", "empty"}
Pushing  == {"push", "fill", "advance"}

Types ==
  /\ tail \in Nat /\ head \in 1 .. tail
  /\ head_mtx \in Procs \cup {Free} /\ tail_mtx \in Procs \cup {Free}
  /\ curr_size \in 0 .. SizeMod - 1
  /\ pc \in [Procs -> Labels]
  /\ value \in [Procs -> Values \cup {Nothing}]
  /\ got \in [Procs -> Values \cup {Nothing}]

Locks ==
  \A p \in Procs : /\ pc[p] \in TailHeld => tail_mtx = p
                   /\ pc[p] \in HeadHeld => head_mtx = p

Filled ==
  /\ data \in Seq(Values)
  /\ Len(data) \in {tail - 1, tail}
  /\ \A p \in Procs : pc[p] = "advance" => Len(data) = tail /\ data[tail] = value[p]
  /\ \A p \in Procs : pc[p] \in Pushing => value[p] \in Values
  /\ \A p \in Procs : pc[p] = "fill" => Len(data) = tail - 1
  /\ tail_mtx = Free => Len(data) = tail - 1

Found == \A p \in Procs : pc[p] = "unlink" => head < tail

QueueInv == Types /\ Locks /\ Filled /\ Found

LEMMA InitInv == Init => QueueInv
<1> SUFFICES ASSUME Init PROVE QueueInv
  OBVIOUS
<1>1. Types
  BY QueueAssumption DEF Init, Types, Labels
<1>2. Locks /\ Found
  BY DEF Init, Locks, Found, TailHeld, HeadHeld
<1>3. Filled
  BY DEF Init, Filled, Pushing
<1>4. QED
  BY <1>1, <1>2, <1>3 DEF QueueInv

LEMMA StepInv == ASSUME QueueInv, NEW p \in Procs, Step(p) PROVE QueueInv'
<1> USE QueueAssumption DEF QueueInv, Goto, TailHeld, HeadHeld, Pushing
<1>1. ASSUME NEW v \in Values, push(p, v) PROVE QueueInv'
  <2>1. Types'
    BY <1>1 DEF push, Types, Labels
  <2>2. Locks'
    BY <1>1 DEF push, Types, Locks
  <2>3. Filled'
    BY <1>1 DEF push, Types, Locks, Filled
  <2>4. Found'
    BY <1>1 DEF push, Types, Locks, Found
  <2>5. QED
    BY <2>1, <2>2, <2>3, <2>4
<1>2. CASE PushLock(p)
  <2>1. Types'
    BY <1>2 DEF PushLock, Types, Labels
  <2>2. Locks'
    BY <1>2 DEF PushLock, Types, Locks
  <2>3. Filled'
    BY <1>2 DEF PushLock, Types, Locks, Filled
  <2>4. Found'
    BY <1>2 DEF PushLock, Types, Locks, Found
  <2>5. QED
    BY <2>1, <2>2, <2>3, <2>4
<1>3. CASE PushFill(p)
  <2>1. Types'
    BY <1>3 DEF PushFill, Data, Types, Labels
  <2>2. Locks'
    BY <1>3 DEF PushFill, Data, Types, Locks
  <2>3. Filled'
    BY <1>3 DEF PushFill, Data, Types, Locks, Filled
  <2>4. Found'
    BY <1>3 DEF PushFill, Data, Types, Locks, Found
  <2>5. QED
    BY <2>1, <2>2, <2>3, <2>4
<1>4. CASE PushAdvance(p)
  <2>1. Types'
    BY <1>4 DEF PushAdvance, Types, Labels
  <2>2. Locks'
    BY <1>4 DEF PushAdvance, Types, Locks
  <2>3. Filled'
    BY <1>4 DEF PushAdvance, Types, Locks, Filled
  <2>4. Found'
    BY <1>4 DEF PushAdvance, Types, Locks, Found
  <2>5. QED
    BY <2>1, <2>2, <2>3, <2>4
<1>5. CASE PushCount(p)
  <2>1. Types'
    BY <1>5 DEF PushCount, Types, Labels
  <2>2. Locks'
    BY <1>5 DEF PushCount, Types, Locks
  <2>3. Filled'
    BY <1>5 DEF PushCount, Types, Locks, Filled
  <2>4. Found'
    BY <1>5 DEF PushCount, Types, Locks, Found
  <2>5. QED
    BY <2>1, <2>2, <2>3, <2>4
<1>6. CASE pop(p)
  <2>1. Types'
    BY <1>6 DEF pop, Types, Labels
  <2>2. Locks'
    BY <1>6 DEF pop, Types, Locks
  <2>3. Filled'
    BY <1>6 DEF pop, Types, Locks, Filled
  <2>4. Found'
    BY <1>6 DEF pop, Types, Locks, Found
  <2>5. QED
    BY <2>1, <2>2, <2>3, <2>4
<1>7. CASE PopLock(p)
  <2>1. Types'
    BY <1>7 DEF PopLock, Types, Labels
  <2>2. Locks'
    BY <1>7 DEF PopLock, Types, Locks
  <2>3. Filled'
    BY <1>7 DEF PopLock, Types, Locks, Filled
  <2>4. Found'
    BY <1>7 DEF PopLock, Types, Locks, Found
  <2>5. QED
    BY <2>1, <2>2, <2>3, <2>4
<1>8. CASE PopEmpty(p)
  <2>1. Types'
    BY <1>8 DEF PopEmpty, get_tail, Types, Labels
  <2>2. Locks'
    BY <1>8 DEF PopEmpty, get_tail, Types, Locks
  <2>3. Filled'
    BY <1>8 DEF PopEmpty, get_tail, Types, Locks, Filled
  <2>4. Found'
    BY <1>8 DEF PopEmpty, get_tail, Types, Locks, Found
  <2>5. QED
    BY <2>1, <2>2, <2>3, <2>4
<1>9. CASE PopFound(p)
  <2>1. Types'
    BY <1>9 DEF PopFound, get_tail, Types, Labels
  <2>2. Locks'
    BY <1>9 DEF PopFound, get_tail, Types, Locks
  <2>3. Filled'
    BY <1>9 DEF PopFound, get_tail, Types, Locks, Filled
  <2>4. Found'
    BY <1>9 DEF PopFound, get_tail, Types, Locks, Found
  <2>5. QED
    BY <2>1, <2>2, <2>3, <2>4
<1>10. CASE PopUnlink(p)
  <2>1. Types'
    <3>1. pc[p] = "unlink" /\ head \in DOMAIN data
      BY <1>10 DEF PopUnlink, Found, Filled, Types
    <3>2. Data(head) \in Values
      BY <3>1 DEF Data, Filled
    <3>3. QED
      BY <1>10, <3>2 DEF PopUnlink, Found, Types, Labels
  <2>2. Locks'
    BY <1>10 DEF PopUnlink, Data, Types, Locks
  <2>3. Filled'
    BY <1>10 DEF PopUnlink, Data, Types, Locks, Filled
  <2>4. Found'
    BY <1>10 DEF PopUnlink, Data, Types, Locks, Found
  <2>5. QED
    BY <2>1, <2>2, <2>3, <2>4
<1>11. CASE PopCount(p)
  <2>1. Types'
    BY <1>11 DEF PopCount, Types, Labels
  <2>2. Locks'
    BY <1>11 DEF PopCount, Types, Locks
  <2>3. Filled'
    BY <1>11 DEF PopCount, Types, Locks, Filled
  <2>4. Found'
    BY <1>11 DEF PopCount, Types, Locks, Found
  <2>5. QED
    BY <2>1, <2>2, <2>3, <2>4
<1>12. CASE empty(p)
  <2>1. Types'
    BY <1>12 DEF empty, Types, Labels
  <2>2. Locks'
    BY <1>12 DEF empty, Types, Locks
  <2>3. Filled'
    BY <1>12 DEF empty, Types, Locks, Filled
  <2>4. Found'
    BY <1>12 DEF empty, Types, Locks, Found
  <2>5. QED
    BY <2>1, <2>2, <2>3, <2>4
<1>13. CASE EmptyCompare(p)
  <2>1. Types'
    BY <1>13 DEF EmptyCompare, get_tail, Types, Labels
  <2>2. Locks'
    BY <1>13 DEF EmptyCompare, get_tail, Types, Locks
  <2>3. Filled'
    BY <1>13 DEF EmptyCompare, get_tail, Types, Locks, Filled
  <2>4. Found'
    BY <1>13 DEF EmptyCompare, get_tail, Types, Locks, Found
  <2>5. QED
    BY <2>1, <2>2, <2>3, <2>4
<1>14. QED
  BY <1>1, <1>2, <1>3, <1>4, <1>5, <1>6, <1>7, <1>8, <1>9, <1>10, <1>11, <1>12, <1>13 DEF Step

LEMMA SpecInv == Spec => []QueueInv
<1>1. QueueInv /\ [Next]_vars => QueueInv'
  <2> SUFFICES ASSUME QueueInv, [Next]_vars PROVE QueueInv'
    OBVIOUS
  <2>1. CASE Next
    BY <2>1, StepInv DEF Next
  <2>2. CASE UNCHANGED vars
    BY <2>2 DEF vars, QueueInv, Types, Locks, Filled, Found
  <2>3. QED
    BY <2>1, <2>2
<1>2. QED
  BY InitInv, <1>1, PTL DEF Spec

(* The locks, the counter, the positions and the items never leave their types,     *)
(* and _head never runs past _tail.                                                 *)
THEOREM TypesOK == Spec => []TypeOK
<1>1. QueueInv => TypeOK
  BY DEF QueueInv, Types, Filled, TypeOK
<1>2. QED
  BY SpecInv, <1>1, PTL

-----------------------------------------------------------------------------
(* Which steps change the items, and how.                                   *)

LEMMA SameItems == ASSUME UNCHANGED <<head, tail, data>> PROVE items' = items
  BY DEF items, Data

\* Filling the last node does not show: it is not between the ends yet.
LEMMA FillKeepsItems ==
  ASSUME QueueInv, NEW p \in Procs, PushFill(p) PROVE items' = items
<1>1. head \in Nat /\ tail \in Nat /\ head' = head /\ tail' = tail
  BY DEF QueueInv, Types, PushFill
<1>2. ASSUME NEW i \in 1 .. tail - head PROVE Data(head + i - 1)' = Data(head + i - 1)
  BY <1>1 DEF QueueInv, Types, PushFill, Data
<1>3. QED
  BY <1>1, <1>2 DEF items

\* Linking the next node makes the filled one the last item.
LEMMA AdvanceAppends ==
  ASSUME QueueInv, NEW p \in Procs, PushAdvance(p)
  PROVE  items' = Append(items, value[p])
<1>1. /\ tail \in Nat /\ head \in 1 .. tail /\ data \in Seq(Values)
      /\ head' = head /\ tail' = tail + 1 /\ data' = data
      /\ Len(data) = tail /\ data[tail] = value[p]
  BY DEF QueueInv, Types, Filled, PushAdvance
<1>2. Data(tail) = value[p]
  BY <1>1 DEF Data
<1>3. items' = [i \in 1 .. tail + 1 - head |-> Data(head + i - 1)]
  BY <1>1 DEF items, Data
<1>4. Len(items) = tail - head
  BY <1>1 DEF items
<1>5. Append(items, value[p])
        = [i \in 1 .. tail - head + 1 |-> IF i = tail - head + 1 THEN value[p] ELSE items[i]]
  BY <1>1, <1>4 DEF items
<1>6. ASSUME NEW i \in 1 .. tail - head + 1
      PROVE  Data(head + i - 1) = IF i = tail - head + 1 THEN value[p] ELSE items[i]
  <2>1. CASE i = tail - head + 1
    BY <1>1, <1>2, <2>1
  <2>2. CASE i # tail - head + 1
    <3>1. i \in 1 .. tail - head
      BY <1>1, <2>2
    <3>2. QED
      BY <2>2, <3>1 DEF items
  <2>3. QED
    BY <2>1, <2>2
<1>7. tail + 1 - head = tail - head + 1
  BY <1>1
<1>8. QED
  BY <1>3, <1>5, <1>6, <1>7

\* Unlinking the first node takes the first item.
LEMMA UnlinkTakesHead ==
  ASSUME QueueInv, NEW p \in Procs, PopUnlink(p)
  PROVE  items # <<>> /\ Data(head) = Head(items) /\ items' = Tail(items)
<1>1. /\ head \in Nat /\ tail \in Nat /\ head < tail
      /\ head' = head + 1 /\ tail' = tail /\ data' = data
  BY DEF QueueInv, Types, Found, PopUnlink
<1>2. Len(items) = tail - head /\ items[1] = Data(head)
  BY <1>1 DEF items
<1>3. items' = [i \in 1 .. tail - head - 1 |-> Data(head + i)]
  BY <1>1 DEF items, Data
<1>4. Tail(items) = [i \in 1 .. tail - head - 1 |-> items[i + 1]]
  BY <1>1, <1>2 DEF items
<1>5. ASSUME NEW i \in 1 .. tail - head - 1 PROVE Data(head + i) = items[i + 1]
  <2>1. i + 1 \in 1 .. tail - head /\ head + (i + 1) - 1 = head + i
    BY <1>1
  <2>2. QED
    BY <2>1 DEF items
<1>6. items' = Tail(items)
  BY <1>3, <1>4, <1>5
<1>7. items # <<>> /\ Head(items) = items[1]
  BY <1>1, <1>2
<1>8. QED
  BY <1>2, <1>6, <1>7

LEMMA StepRefines ==
  ASSUME QueueInv, NEW p \in Procs, Step(p)
  PROVE  Abstract!Next \/ UNCHANGED Abstract!fifoVars
<1>1. ASSUME NEW v \in Values, push(p, v) PROVE UNCHANGED Abstract!fifoVars
  BY <1>1, SameItems DEF push, Abstract!fifoVars
<1>2. CASE PushLock(p)
  BY <1>2, SameItems DEF PushLock, Abstract!fifoVars
<1>3. CASE PushFill(p)
  BY <1>3, FillKeepsItems DEF PushFill, Abstract!fifoVars
<1>4. CASE PushAdvance(p)
  <2>1. value[p] \in Values /\ got' = got
    BY <1>4 DEF QueueInv, Filled, Pushing, PushAdvance
  <2>2. QED
    BY <1>4, <2>1, AdvanceAppends DEF Abstract!Next, Abstract!Push
<1>5. CASE PushCount(p)
  BY <1>5, SameItems DEF PushCount, Abstract!fifoVars
<1>6. CASE pop(p)
  BY <1>6, SameItems DEF pop, Abstract!fifoVars
<1>7. CASE PopLock(p)
  BY <1>7, SameItems DEF PopLock, Abstract!fifoVars
<1>8. CASE PopEmpty(p)
  <2>1. items = <<>> /\ items' = items
    BY <1>8, SameItems DEF QueueInv, Types, PopEmpty, items
  <2>2. QED
    BY <1>8, <2>1 DEF PopEmpty, Abstract!Next, Abstract!PopNothing
<1>9. CASE PopFound(p)
  BY <1>9, SameItems DEF PopFound, Abstract!fifoVars
<1>10. CASE PopUnlink(p)
  BY <1>10, UnlinkTakesHead DEF PopUnlink, Abstract!Next, Abstract!PopItem
<1>11. CASE PopCount(p)
  BY <1>11, SameItems DEF PopCount, Abstract!fifoVars
<1>12. CASE empty(p)
  BY <1>12, SameItems DEF empty, Abstract!fifoVars
<1>13. CASE EmptyCompare(p)
  BY <1>13, SameItems DEF EmptyCompare, Abstract!fifoVars
<1>14. QED
  BY <1>1, <1>2, <1>3, <1>4, <1>5, <1>6, <1>7, <1>8, <1>9, <1>10, <1>11, <1>12, <1>13 DEF Step

(* Whatever the threads do, every push appends and every pop takes the first item   *)
(* or finds none, each in one step: PushAdvance, PopUnlink and PopEmpty.            *)
THEOREM QueueIsFifo == Spec => ImplementsFifo
<1>1. Init => Abstract!Init
  BY DEF Init, Abstract!Init, items
<1>2. QueueInv /\ [Next]_vars => [Abstract!Next]_(Abstract!fifoVars)
  <2> SUFFICES ASSUME QueueInv, [Next]_vars
               PROVE  Abstract!Next \/ UNCHANGED Abstract!fifoVars
    OBVIOUS
  <2>1. CASE Next
    BY <2>1, StepRefines DEF Next
  <2>2. CASE UNCHANGED vars
    BY <2>2, SameItems DEF vars, Abstract!fifoVars
  <2>3. QED
    BY <2>1, <2>2
<1>3. QED
  BY SpecInv, <1>1, <1>2, PTL DEF Spec, ImplementsFifo, Abstract!Spec

-----------------------------------------------------------------------------
(* The counter.  It is taken modulo SizeMod at every step, the balance of the list and   *)
(* the threads only once.                                                                *)

LEMMA Division ==
  \A x \in Int, m \in Nat \ {0} :
    (x % m) \in 0 .. m - 1 /\ (x \div m) \in Int /\ x = m * (x \div m) + (x % m)
  OBVIOUS

LEMMA Remainder ==
  \A x \in Int, m \in Nat \ {0} : \A q \in Int, r \in 0 .. m - 1 :
    x = m * q + r => x % m = r
  OBVIOUS

\* A counter that wraps at each step ends where one that wraps once would.
LEMMA WrapOnce ==
  ASSUME NEW x \in Int, NEW m \in Nat \ {0}, NEW d \in Int
  PROVE  ((x % m) + d) % m = (x + d) % m
<1> DEFINE y == (x % m) + d
           q == y \div m
           r == y % m
           p == x \div m
<1>1. y \in Int /\ q \in Int /\ r \in 0 .. m - 1 /\ y = m * q + r
  BY Division
<1>2. p \in Int /\ x = m * p + (x % m) /\ (x % m) \in Int
  BY Division
<1> HIDE DEF q, r, p
<1>3. x + d = m * (p + q) + r
  BY <1>1, <1>2
<1>4. x + d \in Int /\ p + q \in Int
  BY <1>1, <1>2
<1>5. (x + d) % m = r
  BY <1>1, <1>3, <1>4, Remainder, Zenon
<1>6. QED
  BY <1>5 DEF r

Owed(label) == Cardinality(At(label))
Balance == Len(items) - Owed("increment") + Owed("decrement")

\* Finitely many threads are between the list and the counter, however many there are.
SizeInv ==
  /\ IsFiniteSet(At("increment")) /\ IsFiniteSet(At("decrement"))
  /\ SizeAccounts

\* A thread that goes from one place to another leaves the one and joins the other.
Moved(from, to, label) == IF to = label THEN 1 ELSE IF from = label THEN -1 ELSE 0

LEMMA ThreadMoves ==
  ASSUME NEW p \in Procs, NEW to, NEW label, pc \in [Procs -> Labels],
         IsFiniteSet(At(label)), pc[p] # to, pc' = [pc EXCEPT ![p] = to]
  PROVE  /\ IsFiniteSet(At(label)')
         /\ Owed(label) \in Int
         /\ Owed(label)' = Owed(label) + Moved(pc[p], to, label)
<1>1. Owed(label) \in Nat
  BY FS_CardinalityType DEF Owed
<1>2. CASE to = label
  <2>1. At(label)' = At(label) \union {p} /\ p \notin At(label)
    BY <1>2 DEF At
  <2>2. IsFiniteSet(At(label) \union {p}) /\ Cardinality(At(label) \union {p}) = Owed(label) + 1
    BY <2>1, FS_AddElement DEF Owed
  <2>3. QED
    BY <1>1, <1>2, <2>1, <2>2 DEF Owed, Moved
<1>3. CASE to # label /\ pc[p] = label
  <2>1. At(label)' = At(label) \ {p} /\ p \in At(label)
    BY <1>3 DEF At
  <2>2. IsFiniteSet(At(label) \ {p}) /\ Cardinality(At(label) \ {p}) = Owed(label) - 1
    BY <2>1, FS_RemoveElement DEF Owed
  <2>3. QED
    BY <1>1, <1>3, <2>1, <2>2 DEF Owed, Moved
<1>4. CASE to # label /\ pc[p] # label
  <2>1. At(label)' = At(label)
    BY <1>4 DEF At
  <2>2. QED
    BY <1>1, <1>4, <2>1 DEF Owed, Moved
<1>5. QED
  BY <1>2, <1>3, <1>4

LEMMA Ends == \A t \in Nat : \A h \in 1 .. t : t \in Int /\ h \in Int /\ t - h \in Nat
  OBVIOUS

LEMMA ItemsLength ==
  ASSUME QueueInv, QueueInv'
  PROVE  /\ head \in Int /\ tail \in Int /\ tail' - head' \in Int
         /\ Len(items) = tail - head /\ Len(items)' = tail' - head'
<1>1. head \in Int /\ tail \in Int /\ tail - head \in Nat
  BY DEF QueueInv, Types
<1>2. head' \in Int /\ tail' \in Int /\ tail' - head' \in Nat
  <2>1. tail' \in Nat /\ head' \in 1 .. tail'
    BY DEF QueueInv, Types
  <2>2. QED
    BY <2>1, Ends, Zenon
<1>3. Len(items) = tail - head
  BY <1>1 DEF items
<1>4. Len(items)' = tail' - head'
  BY <1>2 DEF items
<1>5. QED
  BY <1>1, <1>2, <1>3, <1>4

\* What a step of a thread that moves so adds to the balance of the list it adds to the
\* counter.
LEMMA Balances ==
  ASSUME QueueInv, QueueInv', SizeInv,
         NEW p \in Procs, NEW to, pc[p] # to, pc' = [pc EXCEPT ![p] = to],
         NEW longer \in Int, tail' - head' = (tail - head) + longer,
         NEW d \in Int,
         d = longer - Moved(pc[p], to, "increment") + Moved(pc[p], to, "decrement"),
         curr_size' = (curr_size + d) % SizeMod
  PROVE  SizeInv'
<1> DEFINE inc == Moved(pc[p], to, "increment")
           dec == Moved(pc[p], to, "decrement")
<1>1. /\ pc \in [Procs -> Labels] /\ SizeMod \in Nat \ {0}
      /\ head \in Int /\ tail \in Int
      /\ Len(items) = tail - head /\ Len(items)' = tail' - head'
  BY QueueAssumption, ItemsLength DEF QueueInv, Types
<1>2. /\ IsFiniteSet(At("increment")')
      /\ Owed("increment") \in Int /\ Owed("increment")' = Owed("increment") + inc
  BY <1>1, ThreadMoves DEF SizeInv
<1>3. /\ IsFiniteSet(At("decrement")')
      /\ Owed("decrement") \in Int /\ Owed("decrement")' = Owed("decrement") + dec
  BY <1>1, ThreadMoves DEF SizeInv
<1>4. inc \in Int /\ dec \in Int
  BY DEF Moved
<1> HIDE DEF inc, dec
<1>5. Len(items) \in Int /\ Len(items)' = Len(items) + longer
  BY <1>1
<1>6. Balance \in Int /\ Balance' = Balance + d
  <2>1. Balance = Len(items) - Owed("increment") + Owed("decrement")
    BY DEF Balance
  <2>2. Balance' = Len(items)' - Owed("increment")' + Owed("decrement")'
    BY DEF Balance
  <2>3. d = longer - inc + dec
    BY DEF inc, dec
  <2>4. Balance' = (Len(items) + longer) - (Owed("increment") + inc) + (Owed("decrement") + dec)
    BY <1>2, <1>3, <1>5, <2>2, Zenon
  <2>5. Balance \in Int /\ Balance' = Balance + (longer - inc + dec)
    <3> DEFINE l == Len(items)
               i == Owed("increment")
               e == Owed("decrement")
    <3>1. l \in Int /\ i \in Int /\ e \in Int
      BY <1>2, <1>3, <1>5
    <3>2. Balance = l - i + e /\ Balance' = (l + longer) - (i + inc) + (e + dec)
      BY <2>1, <2>4
    <3> HIDE DEF l, i, e
    <3>3. QED
      BY <1>4, <3>1, <3>2
  <2>6. QED
    BY <2>3, <2>5, Zenon
<1>7. curr_size = Balance % SizeMod
  BY DEF SizeInv, SizeAccounts, size, Balance, Owed
<1>8. curr_size' = (Balance + d) % SizeMod
  BY <1>1, <1>6, <1>7, WrapOnce
<1>9. SizeAccounts'
  BY <1>6, <1>8 DEF SizeAccounts, size, Balance, Owed
<1>10. QED
  BY <1>2, <1>3, <1>9 DEF SizeInv

\* A step that leaves the balance alone and the counter too.
LEMMA StaysBalanced ==
  ASSUME QueueInv, QueueInv', SizeInv,
         NEW p \in Procs, NEW to, pc[p] # to, pc' = [pc EXCEPT ![p] = to],
         NEW longer \in Int, tail' - head' = (tail - head) + longer,
         0 = longer - Moved(pc[p], to, "increment") + Moved(pc[p], to, "decrement"),
         curr_size' = curr_size
  PROVE  SizeInv'
<1>1. curr_size \in 0 .. SizeMod - 1 /\ SizeMod \in Nat \ {0}
  BY QueueAssumption DEF QueueInv, Types
<1>2. curr_size \in Int /\ curr_size = SizeMod * 0 + curr_size
  BY <1>1
<1>3. curr_size % SizeMod = curr_size
  BY <1>1, <1>2, Remainder
<1>4. curr_size + 0 = curr_size
  BY <1>2
<1>5. curr_size' = (curr_size + 0) % SizeMod
  BY <1>3, <1>4
<1>6. 0 \in Int
  OBVIOUS
<1>7. QED
  BY <1>5, <1>6, Balances, Zenon

\* A thread that owes nothing, before and after, and leaves the list.
LEMMA NothingOwed ==
  ASSUME QueueInv, QueueInv', SizeInv,
         NEW p \in Procs, NEW to, pc[p] # to, pc' = [pc EXCEPT ![p] = to],
         pc[p] \notin {"increment", "decrement"}, to \notin {"increment", "decrement"},
         UNCHANGED <<head, tail, curr_size>>
  PROVE  SizeInv'
<1>1. Moved(pc[p], to, "increment") = 0 /\ Moved(pc[p], to, "decrement") = 0
  BY DEF Moved
<1>2. tail' - head' = (tail - head) + 0
  BY ItemsLength
<1>3. 0 = 0 - Moved(pc[p], to, "increment") + Moved(pc[p], to, "decrement")
  BY <1>1
<1>4. 0 \in Int /\ curr_size' = curr_size
  OBVIOUS
<1>5. QED
  BY <1>2, <1>3, <1>4, StaysBalanced, Zenon

LEMMA StepSize ==
  ASSUME QueueInv, QueueInv', SizeInv, NEW p \in Procs, Step(p)
  PROVE  SizeInv'
<1> USE DEF Goto
<1>1. {head, tail} \subseteq Int /\ curr_size \in Int
  BY DEF QueueInv, Types
<1>2. ASSUME NEW v \in Values, push(p, v) PROVE SizeInv'
  BY <1>2, NothingOwed DEF push
<1>3. CASE PushLock(p)
  BY <1>3, NothingOwed DEF PushLock
<1>4. CASE PushFill(p)
  BY <1>4, NothingOwed DEF PushFill
<1>5. CASE PushAdvance(p)
  <2>1. /\ pc[p] = "advance" /\ pc' = [pc EXCEPT ![p] = "increment"] /\ curr_size' = curr_size
        /\ pc[p] # "increment" /\ 1 \in Int
        /\ tail' - head' = (tail - head) + 1
    BY <1>1, <1>5 DEF PushAdvance
  <2>2. 0 = 1 - Moved(pc[p], "increment", "increment") + Moved(pc[p], "increment", "decrement")
    BY <2>1 DEF Moved
  <2>3. QED
    BY <2>1, <2>2, StaysBalanced, Zenon
<1>6. CASE PushCount(p)
  <2>1. /\ pc[p] = "increment" /\ pc' = [pc EXCEPT ![p] = "idle"]
        /\ pc[p] # "idle" /\ 1 \in Int /\ 0 \in Int
        /\ curr_size' = (curr_size + 1) % SizeMod
        /\ tail' - head' = (tail - head) + 0
    BY <1>1, <1>6 DEF PushCount
  <2>2. 1 = 0 - Moved(pc[p], "idle", "increment") + Moved(pc[p], "idle", "decrement")
    BY <2>1 DEF Moved
  <2>3. QED
    BY <2>1, <2>2, Balances, Zenon
<1>7. CASE pop(p)
  BY <1>7, NothingOwed DEF pop
<1>8. CASE PopLock(p)
  BY <1>8, NothingOwed DEF PopLock
<1>9. CASE PopEmpty(p)
  BY <1>9, NothingOwed DEF PopEmpty
<1>10. CASE PopFound(p)
  BY <1>10, NothingOwed DEF PopFound
<1>11. CASE PopUnlink(p)
  <2>1. /\ pc[p] = "unlink" /\ pc' = [pc EXCEPT ![p] = "decrement"] /\ curr_size' = curr_size
        /\ pc[p] # "decrement" /\ -1 \in Int
        /\ tail' - head' = (tail - head) + (-1)
    BY <1>1, <1>11 DEF PopUnlink
  <2>2. 0 = (-1) - Moved(pc[p], "decrement", "increment") + Moved(pc[p], "decrement", "decrement")
    BY <2>1 DEF Moved
  <2>3. QED
    BY <2>1, <2>2, StaysBalanced, Zenon
<1>12. CASE PopCount(p)
  <2>1. /\ pc[p] = "decrement" /\ pc' = [pc EXCEPT ![p] = "idle"]
        /\ pc[p] # "idle" /\ -1 \in Int /\ 0 \in Int
        /\ curr_size' = (curr_size + (-1)) % SizeMod
        /\ tail' - head' = (tail - head) + 0
    BY <1>1, <1>12 DEF PopCount
  <2>2. -1 = 0 - Moved(pc[p], "idle", "increment") + Moved(pc[p], "idle", "decrement")
    BY <2>1 DEF Moved
  <2>3. QED
    BY <2>1, <2>2, Balances, Zenon
<1>13. CASE empty(p)
  BY <1>13, NothingOwed DEF empty
<1>14. CASE EmptyCompare(p)
  BY <1>14, NothingOwed DEF EmptyCompare
<1>15. QED
  BY <1>2, <1>3, <1>4, <1>5, <1>6, <1>7, <1>8, <1>9, <1>10, <1>11, <1>12, <1>13, <1>14 DEF Step

(* The counter is the number of items but for the threads between the list and the       *)
(* counter, however many threads there are and however often it has wrapped.             *)
THEOREM CounterAccounts == Spec => []SizeAccounts
<1>1. Init => SizeInv
  <2> SUFFICES ASSUME Init PROVE SizeInv
    OBVIOUS
  <2>1. At("increment") = {} /\ At("decrement") = {}
    BY DEF Init, At
  <2>2. items = <<>>
    BY DEF Init, items
  <2>3. 0 = SizeMod * 0 + 0 /\ 0 \in 0 .. SizeMod - 1
    BY QueueAssumption
  <2>4. 0 % SizeMod = 0
    BY <2>3, QueueAssumption, Remainder
  <2>5. IsFiniteSet({}) /\ Cardinality({}) = 0
    BY FS_EmptySet
  <2>6. Len(items) - Cardinality(At("increment")) + Cardinality(At("decrement")) = 0
    <3>1. Len(items) = 0 /\ Cardinality(At("increment")) = 0 /\ Cardinality(At("decrement")) = 0
      BY <2>1, <2>2, <2>5
    <3>2. QED
      BY <3>1
  <2>7. curr_size = 0
    BY DEF Init
  <2>8. QED
    BY <2>1, <2>4, <2>5, <2>6, <2>7 DEF SizeInv, SizeAccounts, size
<1>2. QueueInv /\ QueueInv' /\ SizeInv /\ [Next]_vars => SizeInv'
  <2> SUFFICES ASSUME QueueInv, QueueInv', SizeInv, [Next]_vars PROVE SizeInv'
    OBVIOUS
  <2>1. CASE Next
    BY <2>1, StepSize DEF Next
  <2>2. CASE UNCHANGED vars
    BY <2>2 DEF vars, SizeInv, SizeAccounts, size, items, Data, At
  <2>3. QED
    BY <2>1, <2>2
<1>3. SizeInv => SizeAccounts
  BY DEF SizeInv
<1>4. QED
  BY SpecInv, <1>1, <1>2, <1>3, PTL DEF Spec
=============================================================================
