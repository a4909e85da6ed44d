---------------------------- MODULE Logger_proofs ----------------------------
(***************************************************************************)
(* For every number of rows, queue and counter size and set of columns,    *)
(* whatever others do to the table: its rows are in the order they were    *)
(* published in, and what logging_finish saw is in it when it returns.     *)
(***************************************************************************)
EXTENDS Logger, TLAPS

(***************************************************************************)
(* Sequences of rows, as sets.                                             *)
(***************************************************************************)

Positive == Nat \ {0}

Sorted(s) == \A i, j \in DOMAIN s : i < j => s[i] < s[j]
Precedes(A, B) == \A a \in A, b \in B : a < b

\* What is left of a sorted sequence when its first element is taken: all beyond it.
LEMMA TakenFirst ==
  ASSUME NEW S, NEW s \in Seq(S), s # <<>>
  PROVE  /\ Head(s) \in S /\ Head(s) \in ToSet(s) /\ Tail(s) \in Seq(S)
         /\ Len(Tail(s)) = Len(s) - 1
         /\ ToSet(s) = {Head(s)} \cup ToSet(Tail(s))
         /\ Sorted(s) => Sorted(Tail(s)) /\ Precedes({Head(s)}, ToSet(Tail(s)))
<1>1. /\ Len(s) \in Nat \ {0} /\ Head(s) = s[1] /\ Tail(s) \in Seq(S)
      /\ Len(Tail(s)) = Len(s) - 1
      /\ \A i \in 1 .. Len(s) - 1 : Tail(s)[i] = s[i + 1]
      /\ DOMAIN s = 1 .. Len(s) /\ DOMAIN Tail(s) = 1 .. Len(s) - 1
  OBVIOUS
<1>2. Head(s) \in S /\ Head(s) \in ToSet(s)
  BY <1>1 DEF ToSet
<1>3. ToSet(s) = {Head(s)} \cup ToSet(Tail(s))
  <2>1. ASSUME NEW i \in 1 .. Len(s)
        PROVE  s[i] \in {Head(s)} \cup ToSet(Tail(s))
    <3>1. CASE i = 1
      BY <1>1, <3>1
    <3>2. CASE i # 1
      <4>1. i - 1 \in 1 .. Len(s) - 1 /\ s[i] = Tail(s)[i - 1]
        BY <1>1, <3>2
      <4>2. QED
        BY <1>1, <4>1 DEF ToSet
    <3>3. QED
      BY <3>1, <3>2
  <2>2. ASSUME NEW i \in 1 .. Len(s) - 1
        PROVE  Tail(s)[i] \in ToSet(s)
    BY <1>1 DEF ToSet
  <2>3. QED
    BY <1>1, <1>2, <2>1, <2>2 DEF ToSet
<1>4. ASSUME Sorted(s)
      PROVE  Sorted(Tail(s)) /\ Precedes({Head(s)}, ToSet(Tail(s)))
  <2>1. Sorted(Tail(s))
    BY <1>1, <1>4 DEF Sorted
  <2>2. \A i \in 1 .. Len(s) - 1 : Head(s) < Tail(s)[i]
    BY <1>1, <1>4 DEF Sorted
  <2>3. QED
    BY <1>1, <2>1, <2>2 DEF Precedes, ToSet
<1>5. QED
  BY <1>1, <1>2, <1>3, <1>4

\* An element put behind a sequence.
LEMMA PutLastSet ==
  ASSUME NEW S, NEW s \in Seq(S), NEW e \in S
  PROVE  ToSet(Append(s, e)) = ToSet(s) \cup {e}
<1>1. /\ Len(Append(s, e)) = Len(s) + 1
      /\ Len(s) \in Nat /\ DOMAIN s = 1 .. Len(s) /\ DOMAIN Append(s, e) = 1 .. Len(s) + 1
      /\ \A i \in 1 .. Len(s) : Append(s, e)[i] = s[i]
      /\ Append(s, e)[Len(s) + 1] = e
  OBVIOUS
<1>2. ASSUME NEW x \in ToSet(Append(s, e))
      PROVE  x \in ToSet(s) \cup {e}
  <2>1. PICK i \in 1 .. Len(s) + 1 : x = Append(s, e)[i]
    BY <1>1, <1>2 DEF ToSet
  <2>2. CASE i \in 1 .. Len(s)
    BY <1>1, <2>1, <2>2 DEF ToSet
  <2>3. CASE i = Len(s) + 1
    BY <1>1, <2>1, <2>3
  <2>4. QED
    BY <1>1, <2>2, <2>3
<1>3. ASSUME NEW x \in ToSet(s)
      PROVE  x \in ToSet(Append(s, e))
  <2>1. PICK i \in 1 .. Len(s) : x = s[i]
    BY <1>1, <1>3 DEF ToSet
  <2>2. QED
    BY <1>1, <2>1 DEF ToSet
<1>4. e \in ToSet(Append(s, e))
  BY <1>1 DEF ToSet
<1>5. QED
  BY <1>2, <1>3, <1>4

\* Behind a sorted one, an element beyond all of its.
LEMMA PutLast ==
  ASSUME NEW S, NEW s \in Seq(S), NEW e \in S
  PROVE  /\ Append(s, e) \in Seq(S)
         /\ ToSet(Append(s, e)) = ToSet(s) \cup {e}
         /\ Sorted(s) /\ Precedes(ToSet(s), {e}) => Sorted(Append(s, e))
<1>1. /\ Append(s, e) \in Seq(S)
      /\ Len(s) \in Nat /\ DOMAIN s = 1 .. Len(s) /\ DOMAIN Append(s, e) = 1 .. Len(s) + 1
      /\ \A i \in 1 .. Len(s) : Append(s, e)[i] = s[i]
      /\ Append(s, e)[Len(s) + 1] = e
  OBVIOUS
<1>2. ASSUME Sorted(s), Precedes(ToSet(s), {e})
      PROVE  Sorted(Append(s, e))
  <2>1. \A i \in 1 .. Len(s) : s[i] < e
    BY <1>1, <1>2 DEF Precedes, ToSet
  <2>2. QED
    BY <1>1, <1>2, <2>1 DEF Sorted
<1>3. QED
  BY <1>1, <1>2, PutLastSet

LEMMA EmptyOrdered == <<>> \in Seq(Positive) /\ ToSet(<<>>) = {} /\ Sorted(<<>>)
<1>1. <<>> \in Seq(Positive) /\ DOMAIN <<>> = {}
  OBVIOUS
<1>2. QED
  BY <1>1 DEF ToSet, Sorted

(***************************************************************************)
(* The order of the rows.  A row goes from the wire through the buffer and *)
(* the thread's hand to the table, and each place holds rows older than    *)
(* those of the places before it.                                          *)
(***************************************************************************)

Held == {row} \ {0}
HasRow(t) == t \in {"count", "insert"}

Places ==
  /\ next_row \in Positive /\ row \in Nat
  /\ wire \in Seq(Positive) /\ buffer \in Seq(Positive) /\ table \in Seq(Positive)
  /\ HasRow(thread) => row # 0

Ordered ==
  /\ Sorted(wire) /\ Sorted(buffer) /\ Sorted(table)
  /\ Precedes(ToSet(table), Held \cup ToSet(buffer) \cup ToSet(wire) \cup {next_row})
  /\ Precedes(Held, ToSet(buffer) \cup ToSet(wire) \cup {next_row})
  /\ Precedes(ToSet(buffer), ToSet(wire) \cup {next_row})
  /\ Precedes(ToSet(wire), {next_row})

OrderInv == Places /\ Ordered

LEMMA OrderInit == Init => OrderInv
  BY EmptyOrdered DEF Init, OrderInv, Places, Ordered, Held, HasRow, Precedes, Positive

\* A step that takes no row further: each place keeps its rows or loses them all.
Loses ==
  /\ next_row' = next_row
  /\ wire' \in {wire, <<>>} /\ buffer' \in {buffer, <<>>} /\ table' \in {table, <<>>}
  /\ row' \in {row, 0}
  /\ HasRow(thread') => HasRow(thread) /\ row' = row

LEMMA LosesKeepsOrder ==
  ASSUME OrderInv, Loses
  PROVE  OrderInv'
<1>1. Places'
  <2>1. /\ wire' \in Seq(Positive) /\ buffer' \in Seq(Positive) /\ table' \in Seq(Positive)
        /\ next_row' \in Positive
    BY EmptyOrdered DEF Loses, OrderInv, Places
  <2>2. row' \in Nat /\ (HasRow(thread') => row' # 0)
    BY DEF Loses, OrderInv, Places
  <2>3. QED
    BY <2>1, <2>2 DEF Places, HasRow
<1>2. Sorted(wire') /\ Sorted(buffer') /\ Sorted(table')
  BY EmptyOrdered DEF Loses, OrderInv, Ordered
<1>3. /\ ToSet(wire') \subseteq ToSet(wire) /\ ToSet(buffer') \subseteq ToSet(buffer)
      /\ ToSet(table') \subseteq ToSet(table) /\ Held' \subseteq Held /\ next_row' = next_row
  BY EmptyOrdered DEF Loses, Held
<1>4. QED
  BY <1>1, <1>2, <1>3 DEF OrderInv, Ordered, Precedes

LEMMA PublishKeepsOrder ==
  ASSUME OrderInv, Publish
  PROVE  OrderInv'
<1> DEFINE sent == IF Len(wire) < QueueSize THEN wire ELSE Tail(wire)
<1>1. /\ next_row' = next_row + 1 /\ next_row \in Positive
      /\ UNCHANGED <<row, buffer, table, thread>> /\ (wire' = wire \/ wire' = Append(sent, next_row))
  BY DEF Publish, Enqueue, handlerVars, bufferVars, dbVars, OrderInv, Places
<1>2. sent \in Seq(Positive) /\ Sorted(sent) /\ ToSet(sent) \subseteq ToSet(wire)
  <2>1. CASE Len(wire) < QueueSize
    BY <2>1 DEF OrderInv, Places, Ordered
  <2>2. CASE ~(Len(wire) < QueueSize)
    <3>1. wire # <<>>
      BY <2>2, LoggerAssumption
    <3>2. QED
      BY <2>2, <3>1, TakenFirst DEF OrderInv, Places, Ordered
  <2>3. QED
    BY <2>1, <2>2
<1>3. Precedes(ToSet(sent), {next_row})
  BY <1>2 DEF OrderInv, Ordered, Precedes
<1>4. /\ wire' \in Seq(Positive) /\ Sorted(wire')
      /\ ToSet(wire') \subseteq ToSet(wire) \cup {next_row}
  <2>1. CASE wire' = wire
    BY <2>1 DEF OrderInv, Places, Ordered
  <2>2. CASE wire' = Append(sent, next_row)
    <3> HIDE DEF sent
    <3>1. QED
      BY <1>1, <1>2, <1>3, <2>2, PutLast
  <2>3. QED
    BY <1>1, <2>1, <2>2
<1>5. Places'
  BY <1>1, <1>4 DEF OrderInv, Places, Positive, HasRow
<1>6. /\ ToSet(wire) \subseteq Nat /\ ToSet(buffer) \subseteq Nat /\ ToSet(table) \subseteq Nat
      /\ Held \subseteq Nat
  BY DEF OrderInv, Places, ToSet, Held, Positive
<1>7. \A x \in Nat : x < next_row => x < next_row'
  BY <1>1 DEF Positive
<1>8. Ordered'
  <2>1. \A x \in ToSet(wire') : x < next_row'
    BY <1>1, <1>4, <1>6, <1>7 DEF OrderInv, Ordered, Precedes, Positive
  <2>2. \A x \in ToSet(table) \cup Held \cup ToSet(buffer) :
          x < next_row' /\ \A y \in ToSet(wire') : x < y
    BY <1>1, <1>4, <1>6, <1>7 DEF OrderInv, Ordered, Precedes, Positive
  <2>3. Held' = Held
    BY <1>1 DEF Held
  <2>4. QED
    BY <1>1, <1>4, <2>1, <2>2, <2>3 DEF OrderInv, Ordered, Precedes
<1>9. QED
  BY <1>5, <1>8 DEF OrderInv

LEMMA BufferKeepsOrder ==
  ASSUME OrderInv, logging_buffer_msg
  PROVE  OrderInv'
<1>1. /\ wire # <<>> /\ wire' = Tail(wire) /\ buffer' = Append(buffer, Head(wire))
      /\ UNCHANGED <<next_row, row, table, thread>>
  BY DEF logging_buffer_msg, clientVars, dbVars
<1>2. /\ Head(wire) \in Positive /\ Head(wire) \in ToSet(wire) /\ wire' \in Seq(Positive)
      /\ ToSet(wire) = {Head(wire)} \cup ToSet(wire')
      /\ Sorted(wire') /\ Precedes({Head(wire)}, ToSet(wire'))
  BY <1>1, TakenFirst DEF OrderInv, Places, Ordered
<1>3. Precedes(ToSet(buffer), {Head(wire)})
  BY <1>2 DEF OrderInv, Ordered, Precedes
<1>4. /\ buffer' \in Seq(Positive) /\ Sorted(buffer')
      /\ ToSet(buffer') = ToSet(buffer) \cup {Head(wire)}
  <2>1. buffer \in Seq(Positive) /\ Sorted(buffer) /\ Head(wire) \in Positive
    BY <1>2 DEF OrderInv, Places, Ordered
  <2>2. /\ Append(buffer, Head(wire)) \in Seq(Positive)
        /\ ToSet(Append(buffer, Head(wire))) = ToSet(buffer) \cup {Head(wire)}
        /\ Sorted(Append(buffer, Head(wire)))
    BY <1>3, <2>1, PutLast
  <2>3. QED
    BY <1>1, <2>2, Zenon
<1>5. Places'
  BY <1>1, <1>2, <1>4 DEF OrderInv, Places, HasRow
<1>6. Held' = Held
  BY <1>1 DEF Held
<1>7. Ordered'
  <2>1. ToSet(wire) = {Head(wire)} \cup ToSet(wire') /\ ToSet(buffer') = ToSet(buffer) \cup {Head(wire)}
    BY <1>2, <1>4
  <2>2. /\ Sorted(wire') /\ Sorted(buffer') /\ Sorted(table')
        /\ Precedes(ToSet(table'), Held' \cup ToSet(buffer') \cup ToSet(wire') \cup {next_row'})
        /\ Precedes(Held', ToSet(buffer') \cup ToSet(wire') \cup {next_row'})
    BY <1>1, <1>2, <1>4, <1>6, <2>1 DEF OrderInv, Ordered, Precedes
  <2>3. /\ Precedes(ToSet(buffer'), ToSet(wire') \cup {next_row'})
        /\ Precedes(ToSet(wire'), {next_row'})
    BY <1>1, <1>2, <2>1 DEF OrderInv, Ordered, Precedes
  <2>4. QED
    BY <2>2, <2>3 DEF Ordered
<1>8. QED
  BY <1>5, <1>7 DEF OrderInv

\* The thread takes the oldest row of the buffer; it had none in its hand.
LEMMA PopKeepsOrder ==
  ASSUME OrderInv, ThreadPop, buffer # <<>>
  PROVE  OrderInv'
<1>1. /\ row' = Head(buffer) /\ buffer' = Tail(buffer)
      /\ UNCHANGED <<next_row, wire, table>>
  BY DEF ThreadPop, clientVars, topicVars, dbVars
<1>2. /\ Head(buffer) \in Positive /\ Head(buffer) \in ToSet(buffer) /\ buffer' \in Seq(Positive)
      /\ ToSet(buffer) = {Head(buffer)} \cup ToSet(buffer')
      /\ Sorted(buffer') /\ Precedes({Head(buffer)}, ToSet(buffer'))
  BY <1>1, TakenFirst DEF OrderInv, Places, Ordered
<1>3. Places'
  BY <1>1, <1>2 DEF OrderInv, Places, Positive
<1>4. Held' = {Head(buffer)}
  BY <1>1, <1>2 DEF Held, Positive
<1>5. Ordered'
  BY <1>1, <1>2, <1>4 DEF OrderInv, Ordered, Precedes
<1>6. QED
  BY <1>3, <1>5 DEF OrderInv

LEMMA InsertKeepsOrder ==
  ASSUME OrderInv, ThreadInsert
  PROVE  OrderInv'
<1>1. /\ thread = "insert" /\ thread' = "test" /\ row' = 0
      /\ table' \in {table, Append(table, row)}
      /\ UNCHANGED <<next_row, wire, buffer>>
  BY DEF ThreadInsert, insert_row, clientVars, topicVars
<1>2. row \in Positive /\ Held = {row} /\ Held' = {}
  BY <1>1 DEF OrderInv, Places, HasRow, Held, Positive
<1>3. Precedes(ToSet(table), {row})
  BY <1>2 DEF OrderInv, Ordered, Precedes
<1>4. /\ table' \in Seq(Positive) /\ Sorted(table')
      /\ ToSet(table') \subseteq ToSet(table) \cup {row}
  <2>1. CASE table' = table
    BY <2>1 DEF OrderInv, Places, Ordered
  <2>2. CASE table' = Append(table, row)
    BY <1>2, <1>3, <2>2, PutLast DEF OrderInv, Places, Ordered
  <2>3. QED
    BY <1>1, <2>1, <2>2
<1>5. Places'
  BY <1>1, <1>4 DEF OrderInv, Places, HasRow
<1>6. Ordered'
  BY <1>1, <1>2, <1>4 DEF OrderInv, Ordered, Precedes
<1>7. QED
  BY <1>5, <1>6 DEF OrderInv

LEMMA OrderStep == OrderInv /\ [Next]_<<vars, others>> => OrderInv'
<1> SUFFICES ASSUME OrderInv, [Next]_<<vars, others>>
             PROVE  OrderInv'
  OBVIOUS
<1> USE DEF Loses, HasRow, clientVars, topicVars, nodeVars, bufferVars, handlerVars, dbVars
<1>1. CASE Connect \/ Client
  <2>1. ASSUME NEW who, NullHandler(who)
        PROVE  Loses
    BY <2>1 DEF NullHandler, Die
  <2>2. ASSUME NEW who, logging_start(who) \/ logging_stop(who)
        PROVE  Loses
    BY <2>2 DEF logging_start, logging_stop, logging_end
  <2>3. ASSUME Connect \/ CheckBuffer \/ CallFails
        PROVE  Loses
    BY <2>3 DEF Connect, CheckBuffer, CallFails
  <2>4. QED
    BY <1>1, <2>1, <2>2, <2>3, LosesKeepsOrder DEF Client, logging_setup, StopLog
<1>2. CASE Node
  <2>1. ASSUME NEW headers, FinishStart(headers)
        PROVE  Loses
    BY <2>1 DEF FinishStart, logging_begin
  <2>2. ASSUME CountPushed \/ FinishStop \/ FinishDrop
        PROVE  Loses
    BY <2>2 DEF CountPushed, FinishStop, FinishDrop, DeleteTable
  <2>3. QED
    BY <1>2, <2>1, <2>2, LosesKeepsOrder, BufferKeepsOrder DEF Node
<1>3. CASE LoggingThread
  <2>1. CASE ThreadStart \/ ThreadTest \/ CountPopped \/ (ThreadPop /\ buffer = <<>>)
    <3>1. Loses
      BY <2>1 DEF ThreadStart, ThreadTest, CountPopped, ThreadPop
    <3>2. QED
      BY <3>1, LosesKeepsOrder
  <2>2. QED
    BY <1>3, <2>1, PopKeepsOrder, InsertKeepsOrder DEF LoggingThread
<1>4. ASSUME NEW o \in Others, Other(o)
      PROVE  OrderInv'
  <2>1. ASSUME NEW who, Die(who)
        PROVE  Loses
    BY <2>1 DEF Die
  <2>2. ASSUME NEW who, logging_start(who) \/ logging_stop(who)
        PROVE  Loses
    BY <2>2 DEF logging_start, logging_stop, logging_end
  <2>3. ASSUME logging_drop_table \/ main
        PROVE  Loses
    BY <2>3 DEF logging_drop_table, main, logging_end, DeleteTable
  <2>4. QED
    BY <1>4, <2>1, <2>2, <2>3, LosesKeepsOrder DEF Other, logging_delete_table, NullHandler
<1>5. CASE UNCHANGED <<vars, others>>
  <2>1. Loses
    BY <1>5 DEF vars
  <2>2. QED
    BY <2>1, LosesKeepsOrder
<1>6. QED
  BY <1>1, <1>2, <1>3, <1>4, <1>5, PublishKeepsOrder DEF Next

\* The rows of the table are in the order they were published in and each is there once,
\* whatever is dropped, stopped, started again or killed on the way.
THEOREM LoggerRowsInOrder == Spec => []RowsInOrder
<1>1. OrderInv => RowsInOrder
  BY DEF OrderInv, Ordered, Sorted, RowsInOrder
<1>2. QED
  BY <1>1, OrderInit, OrderStep, PTL DEF Spec

(***************************************************************************)
(* Types.  The thread inserts what it has popped, never nullptr.           *)
(***************************************************************************)

LEMMA TypesInit == Init => TypeOK
<1>1. 1 \in 1 .. MaxRows + 1 /\ 0 \in 0 .. SizeMod - 1 /\ 0 <= QueueSize
  BY LoggerAssumption
<1>2. <<>> \in Seq(Rows) /\ Len(<<>>) = 0
  OBVIOUS
<1>3. QED
  BY <1>1, <1>2 DEF Init, TypeOK

LEMMA DieKeepsTypes ==
  ASSUME TypeOK, NEW who, Die(who), others' \subseteq Others
  PROVE  TypeOK'
<1>1. 0 \in 0 .. SizeMod - 1 /\ 0 <= QueueSize /\ <<>> \in Seq(Rows) /\ Len(<<>>) = 0
  BY LoggerAssumption
<1>2. client' \in {"setup", "run", "check", "stop", "done", "failed"}
  BY DEF Die, Failed, TypeOK
<1>3. QED
  BY <1>1, <1>2 DEF Die, TypeOK, clientVars, dbVars

LEMMA PublishKeepsTypes ==
  ASSUME TypeOK, Publish, others' \subseteq Others
  PROVE  TypeOK'
<1>1. next_row \in Rows /\ next_row' \in 1 .. MaxRows + 1
  BY LoggerAssumption DEF Publish, TypeOK, Rows
<1>2. wire' \in Seq(Rows) /\ Len(wire') <= QueueSize
  <2>1. CASE wire' = wire
    BY <2>1 DEF TypeOK
  <2>2. CASE Enqueue(next_row)
    <3> DEFINE kept == IF Len(wire) < QueueSize THEN wire ELSE Tail(wire)
    <3>1. kept \in Seq(Rows) /\ Len(kept) < QueueSize
      <4>1. CASE Len(wire) < QueueSize
        BY <4>1 DEF TypeOK
      <4>2. CASE ~(Len(wire) < QueueSize)
        <5>1. wire \in Seq(Rows) /\ Len(wire) <= QueueSize /\ QueueSize \in Nat \ {0}
          BY LoggerAssumption DEF TypeOK
        <5>2. wire # <<>> /\ Len(wire) = QueueSize
          BY <4>2, <5>1
        <5>3. Tail(wire) \in Seq(Rows) /\ Len(Tail(wire)) = Len(wire) - 1
          BY <5>1, <5>2, TakenFirst
        <5>4. QED
          BY <4>2, <5>1, <5>2, <5>3
      <4>3. QED
        BY <4>1, <4>2
    <3>2. wire' = Append(kept, next_row)
      BY <2>2 DEF Enqueue
    <3> HIDE DEF kept
    <3>3. wire' \in Seq(Rows) /\ Len(wire') = Len(kept) + 1
      BY <1>1, <3>1, <3>2
    <3>4. QED
      BY <3>1, <3>3, LoggerAssumption
  <2>3. QED
    BY <2>1, <2>2 DEF Publish
<1>3. QED
  BY <1>1, <1>2 DEF Publish, TypeOK, nodeVars, handlerVars, bufferVars, dbVars

LEMMA TypesStep == TypeOK /\ OrderInv /\ [Next]_<<vars, others>> => TypeOK'
<1> SUFFICES ASSUME TypeOK, OrderInv, [Next]_<<vars, others>>
             PROVE  TypeOK'
  OBVIOUS
<1> USE DEF clientVars, topicVars, nodeVars, bufferVars, handlerVars, dbVars
<1>0. others' \subseteq Others
  BY DEF Next, vars, TypeOK
<1>1. \A s \in Seq(Rows) : s # <<>> =>
        Head(s) \in Rows /\ Tail(s) \in Seq(Rows) /\ Len(Tail(s)) = Len(s) - 1
  BY TakenFirst
<1>2. ASSUME NEW n \in Int PROVE n % SizeMod \in 0 .. SizeMod - 1
  BY LoggerAssumption
<1>3. 0 \in 0 .. SizeMod - 1 /\ 0 <= QueueSize /\ <<>> \in Seq(Rows) /\ Len(<<>>) = 0
      /\ size \in Int /\ QueueSize \in Nat
  BY LoggerAssumption DEF TypeOK
<1>4. CASE Connect
  BY <1>0, <1>4 DEF Connect, TypeOK
<1>23. CASE UNCHANGED <<vars, others>>
  BY <1>23 DEF vars, TypeOK
<1>5. CASE logging_buffer_msg
  <2>1. Head(wire) \in Rows /\ Tail(wire) \in Seq(Rows) /\ Len(Tail(wire)) <= QueueSize
    <3>1. Len(wire) \in Nat /\ Len(wire) <= QueueSize
      BY DEF TypeOK
    <3>2. Head(wire) \in Rows /\ Tail(wire) \in Seq(Rows) /\ Len(Tail(wire)) = Len(wire) - 1
      BY <1>1, <1>5 DEF logging_buffer_msg, TypeOK
    <3>3. QED
      BY <1>3, <3>1, <3>2
  <2>2. buffer' \in Seq(Rows)
    BY <1>5, <2>1 DEF logging_buffer_msg, TypeOK
  <2>3. QED
    BY <1>0, <1>5, <2>1, <2>2 DEF logging_buffer_msg, TypeOK
<1>6. CASE CountPushed
  <2>1. size' \in 0 .. SizeMod - 1
    BY <1>2, <1>3, <1>6 DEF CountPushed
  <2>2. QED
    BY <1>0, <1>6, <2>1 DEF CountPushed, TypeOK
<1>7. ASSUME NEW who \in {"client", "other"}, logging_start(who)
      PROVE  TypeOK'
  <2>1. /\ node' = "start" /\ caller' = who /\ active' = FALSE /\ connected' = FALSE /\ wire' = <<>>
        /\ UNCHANGED <<client, next_row, checked, up, entry, thread, buffer, size, row, received, columns, table>>
    BY <1>7 DEF logging_start, logging_end
  <2>2. wire' \in Seq(Rows) /\ Len(wire') <= QueueSize
    BY <1>3, <2>1, Zenon
  <2>3. /\ node' \in {"idle", "push", "start", "stop", "drop"} /\ caller' \in {"client", "other"}
        /\ active' \in BOOLEAN /\ connected' \in BOOLEAN
    BY <2>1
  <2>4. UNCHANGED <<client, next_row, checked, up, entry, thread, buffer, size, row, received, columns, table>>
    BY <2>1
  <2>5. QED
    BY <1>0, <2>2, <2>3, <2>4 DEF TypeOK
<1>8. ASSUME NEW headers \in {Columns} \cup OtherColumns, FinishStart(headers)
      PROVE  TypeOK'
  <2>1. columns' \in {{}, Columns} \cup OtherColumns
    BY <1>8 DEF FinishStart, create_table, TypeOK
  <2>2. QED
    BY <1>0, <1>3, <1>8, <2>1 DEF FinishStart, logging_begin, Answer, TypeOK
<1>9. ASSUME NEW who \in {"client", "other"}, logging_stop(who)
      PROVE  TypeOK'
  <2>1. /\ client' \in {client, "done"} /\ node' \in {node, "stop"} /\ caller' \in {caller, who}
        /\ active' \in BOOLEAN
        /\ UNCHANGED <<up, entry, next_row, checked, connected, wire, thread, buffer, size, row, received,
                       columns, table>>
    BY <1>9 DEF logging_stop, logging_end, Answer, TypeOK
  <2>2. QED
    BY <1>0, <2>1 DEF TypeOK
<1>10. CASE FinishStop
  BY <1>0, <1>10 DEF FinishStop, Answer, TypeOK
<1>11. CASE logging_drop_table
  <2>1. /\ node' \in {node, "drop"} /\ caller' \in {caller, "other"} /\ active' \in BOOLEAN
        /\ columns' \in {{}, Columns} \cup OtherColumns /\ table' \in Seq(Rows)
        /\ UNCHANGED <<client, up, entry, next_row, checked, connected, wire, thread, buffer, size, row, received>>
    BY <1>3, <1>11 DEF logging_drop_table, logging_end, DeleteTable, TypeOK
  <2>2. QED
    BY <1>0, <1>3, <2>1 DEF TypeOK
<1>12. CASE FinishDrop
  BY <1>0, <1>3, <1>12 DEF FinishDrop, DeleteTable, TypeOK
<1>13. CASE CheckBuffer
  BY <1>0, <1>13 DEF CheckBuffer, TypeOK
<1>14. CASE CallFails
  BY <1>0, <1>14 DEF CallFails, Failed, TypeOK
<1>15. CASE ThreadStart \/ ThreadTest
  <2>1. CASE ThreadStart
    BY <1>0, <2>1 DEF ThreadStart, TypeOK
  <2>2. CASE ThreadTest
    BY <1>0, <2>2 DEF ThreadTest, TypeOK
  <2>3. QED
    BY <1>15, <2>1, <2>2
<1>16. CASE ThreadPop
  <2>1. /\ buffer' \in Seq(Rows) /\ row' \in Rows \cup {0}
        /\ thread' \in {"test", "count"}
    BY <1>1, <1>16 DEF ThreadPop, TypeOK
  <2>2. QED
    BY <1>0, <1>16, <2>1 DEF ThreadPop, TypeOK
<1>17. CASE CountPopped
  <2>1. size' \in 0 .. SizeMod - 1
    BY <1>2, <1>3, <1>17 DEF CountPopped
  <2>2. QED
    BY <1>0, <1>17, <2>1 DEF CountPopped, TypeOK
<1>18. CASE ThreadInsert
  <2>1. row \in Rows
    BY <1>18 DEF ThreadInsert, TypeOK, OrderInv, Places, HasRow
  <2>2. table' \in Seq(Rows)
    BY <1>18, <2>1 DEF ThreadInsert, insert_row, TypeOK
  <2>3. QED
    BY <1>0, <1>18, <2>2 DEF ThreadInsert, TypeOK
<1>19. CASE main
  BY <1>0, <1>19 DEF main, TypeOK
<1>20. ASSUME NEW who, NullHandler(who)
       PROVE  TypeOK'
  BY <1>0, <1>20, DieKeepsTypes DEF NullHandler
<1>21. CASE Client \/ Node \/ LoggingThread
  BY <1>5, <1>6, <1>7, <1>8, <1>9, <1>10, <1>12, <1>13, <1>14, <1>15, <1>16, <1>17, <1>18, <1>20, <1>21
     DEF Client, Node, LoggingThread, logging_setup, StopLog
<1>22. ASSUME NEW o \in Others, Other(o)
       PROVE  TypeOK'
  <2>1. ASSUME NEW who, Die(who) PROVE TypeOK'
    BY <1>0, <2>1, DieKeepsTypes
  <2>2. QED
    BY <1>7, <1>9, <1>11, <1>19, <1>20, <1>22, <2>1 DEF Other, logging_delete_table
<1>24. QED
  BY <1>0, <1>4, <1>21, <1>22, <1>23, PublishKeepsTypes DEF Next

\* What the threads of the client, the node and the handler keep has its type, and the
\* topic never holds more than its queue, for every number of rows and size of the counter.
THEOREM LoggerTypes == Spec => []TypeOK
  BY OrderInit, OrderStep, TypesInit, TypesStep, PTL DEF Spec

(***************************************************************************)
(* What the client saw.  A row the handler was given is in the buffer, in  *)
(* the thread's hand or in the table, and the thread has a row in its hand *)
(* only while it is active or a service waits for its end.                 *)
(***************************************************************************)

Lossless == others \cap {"drop", "kill"} = {}
Ending == {"start", "stop", "drop"}

ThreadInv ==
  /\ (row # 0) = HasRow(thread)
  /\ node # "idle" => up
  /\ thread # "none" => up /\ entry = "handler"
  /\ thread = "ended" => ~active
  /\ thread \notin {"none", "starting"} /\ ~active => node \in Ending

LogInv ==
  Lossless =>
    /\ thread # "none" => columns # {}
    /\ node # "drop" /\ entry # "null"
    /\ received \subseteq ToSet(table) \cup Held \cup ToSet(buffer)
    /\ checked \subseteq ToSet(table) \cup Held
    /\ client = "done" => checked \subseteq ToSet(table)

LoggedInv == ThreadInv /\ LogInv

LEMMA LoggedInit == Init => LoggedInv
  BY DEF Init, LoggedInv, ThreadInv, LogInv, Held, HasRow, Ending

\* A thread that is not there, has ended or only starts has no row in its hand.
LEMMA NothingHeld ==
  ASSUME ThreadInv, ~HasRow(thread)
  PROVE  Held = {}
  BY DEF ThreadInv, Held

(***************************************************************************)
(* The thread's part, action by action.                                    *)
(***************************************************************************)

LEMMA ThreadInvStep == ThreadInv /\ OrderInv /\ [Next]_<<vars, others>> => ThreadInv'
<1> SUFFICES ASSUME ThreadInv, OrderInv, [Next]_<<vars, others>>
             PROVE  ThreadInv'
  OBVIOUS
<1> USE DEF ThreadInv, HasRow, Ending,
            clientVars, topicVars, nodeVars, bufferVars, handlerVars, dbVars
<1>1. ASSUME NEW who, Die(who)
      PROVE  ThreadInv'
  BY <1>1 DEF Die
<1>2. ASSUME NEW who, logging_start(who)
      PROVE  ThreadInv'
  BY <1>2 DEF logging_start, logging_end, NodeReady
<1>3. ASSUME NEW who, logging_stop(who)
      PROVE  ThreadInv'
  BY <1>3 DEF logging_stop, logging_end, NodeReady
<1>4. CASE Connect \/ Publish \/ CheckBuffer \/ CallFails
  BY <1>4 DEF Connect, Publish, CheckBuffer, CallFails
<1>5. CASE logging_buffer_msg \/ CountPushed
  BY <1>5 DEF logging_buffer_msg, CountPushed, NodeReady
<1>6. ASSUME NEW headers, FinishStart(headers)
      PROVE  ThreadInv'
  <2>1. /\ node = "start" /\ Joined /\ row' = 0 /\ UNCHANGED <<active, up>>
        /\ thread' = (IF create_insert_stmt(headers) THEN "starting" ELSE "none")
        /\ entry' = (IF create_insert_stmt(headers) THEN "handler" ELSE "absent")
    BY <1>6 DEF FinishStart, logging_begin
  <2>2. QED
    BY <2>1
<1>7. CASE FinishStop \/ FinishDrop
  BY <1>7 DEF FinishStop, FinishDrop, Joined
<1>8. CASE ThreadStart \/ ThreadTest \/ CountPopped
  BY <1>8 DEF ThreadStart, ThreadTest, CountPopped
<1>9. CASE ThreadPop
  <2>1. CASE buffer = <<>>
    BY <1>9, <2>1 DEF ThreadPop
  <2>2. CASE buffer # <<>>
    <3>1. Head(buffer) \in Positive
      BY <2>2, TakenFirst DEF OrderInv, Places
    <3>2. QED
      BY <1>9, <2>2, <3>1 DEF ThreadPop, Positive
  <2>3. QED
    BY <2>1, <2>2
<1>10. CASE ThreadInsert
  BY <1>10 DEF ThreadInsert
<1>11. CASE logging_drop_table \/ main
  BY <1>11 DEF logging_drop_table, logging_end, main, NodeReady
<1>12. CASE UNCHANGED <<vars, others>>
  BY <1>12 DEF vars
<1>13. QED
  BY <1>1, <1>2, <1>3, <1>4, <1>5, <1>6, <1>7, <1>8, <1>9, <1>10, <1>11, <1>12
     DEF Next, Client, Node, LoggingThread, Other, NullHandler, logging_delete_table,
         logging_setup, StopLog

(***************************************************************************)
(* The rows' part.                                                         *)
(***************************************************************************)

LEMMA LogInvStep == LoggedInv /\ OrderInv /\ [Next]_<<vars, others>> => LogInv'
<1> SUFFICES ASSUME LoggedInv, OrderInv, [Next]_<<vars, others>>, Lossless'
             PROVE  LogInv'
  BY DEF LogInv
<1> USE DEF clientVars, topicVars, nodeVars, bufferVars, handlerVars, dbVars
<1>0. /\ Lossless /\ others \subseteq others'
      /\ thread # "none" => columns # {}
      /\ node # "drop" /\ entry # "null"
      /\ received \subseteq ToSet(table) \cup Held \cup ToSet(buffer)
      /\ checked \subseteq ToSet(table) \cup Held
      /\ client = "done" => checked \subseteq ToSet(table)
  <2>1. others \subseteq others'
    BY DEF Next
  <2>2. QED
    BY <2>1 DEF LoggedInv, LogInv, Lossless
<1>1. ToSet(<<>>) = {}
  BY EmptyOrdered
<1>2. ASSUME NEW who, logging_start(who)
      PROVE  LogInv'
  BY <1>0, <1>2 DEF logging_start, logging_end, LogInv, Held
<1>3. ASSUME NEW who, logging_stop(who)
      PROVE  LogInv'
  <2>1. CASE entry = "handler" /\ active
    BY <1>0, <1>3, <2>1 DEF logging_stop, logging_end, LogInv, Held
  <2>2. CASE ~(entry = "handler" /\ active)
    <3>1. Held = {}
      BY <1>3, <2>2, NothingHeld DEF logging_stop, NodeReady, LoggedInv, ThreadInv, HasRow, Ending
    <3>2. QED
      BY <1>0, <1>3, <2>2, <3>1 DEF logging_stop, LogInv, Held
  <2>3. QED
    BY <2>1, <2>2
<1>4. CASE Connect \/ Publish \/ CountPushed
  BY <1>0, <1>4 DEF Connect, Publish, CountPushed, LogInv, Held
<1>5. CASE CheckBuffer
  BY <1>0, <1>1, <1>5 DEF CheckBuffer, IsEmpty, LogInv, Held
<1>6. CASE CallFails
  <2>1. Held = {}
    BY <1>6, NothingHeld DEF CallFails, LoggedInv, ThreadInv, HasRow
  <2>2. QED
    BY <1>0, <1>6, <2>1 DEF CallFails, LogInv, Held
<1>7. CASE logging_buffer_msg
  <2>1. /\ wire # <<>> /\ buffer' = Append(buffer, Head(wire))
        /\ received' = received \cup {Head(wire)} /\ node' = "push"
        /\ UNCHANGED <<client, checked, entry, thread, row, columns, table>>
    BY <1>7 DEF logging_buffer_msg
  <2>2. ToSet(buffer') = ToSet(buffer) \cup {Head(wire)}
    <3>1. Head(wire) \in Positive /\ buffer \in Seq(Positive)
      BY <2>1, TakenFirst DEF OrderInv, Places
    <3>2. ToSet(Append(buffer, Head(wire))) = ToSet(buffer) \cup {Head(wire)}
      BY <3>1, PutLastSet
    <3>3. QED
      BY <2>1, <3>2
  <2>3. QED
    BY <1>0, <2>1, <2>2 DEF LogInv, Held
<1>8. ASSUME NEW headers, FinishStart(headers)
      PROVE  LogInv'
  <2> DEFINE ready == create_insert_stmt(headers)
  <2>1. /\ Joined /\ row' = 0 /\ received' = {} /\ node' = "idle"
        /\ columns' = create_table(headers)
        /\ thread' = (IF ready THEN "starting" ELSE "none")
        /\ entry' = (IF ready THEN "handler" ELSE "absent")
        /\ client' \in {client, "run", "failed"} /\ UNCHANGED <<checked, table>>
    BY <1>8 DEF FinishStart, logging_begin, Answer
  <2>2. Held = {}
    BY <2>1, NothingHeld DEF Joined, LoggedInv, HasRow
  <2>3. ready => columns' # {}
    BY <2>1 DEF create_insert_stmt, create_table
  <2>4. QED
    BY <1>0, <2>1, <2>2, <2>3 DEF LogInv
<1>9. CASE FinishStop
  <2>1. Held = {}
    BY <1>9, NothingHeld DEF FinishStop, Joined, LoggedInv, HasRow
  <2>2. QED
    BY <1>0, <1>9, <2>1 DEF FinishStop, Answer, LogInv, Held
<1>10. CASE ThreadStart \/ ThreadTest \/ CountPopped
  BY <1>0, <1>10 DEF ThreadStart, ThreadTest, CountPopped, LogInv, Held
<1>11. CASE ThreadPop
  <2>1. Held = {}
    BY <1>11, NothingHeld DEF ThreadPop, LoggedInv, HasRow
  <2>2. CASE buffer = <<>>
    BY <1>0, <1>11, <2>2 DEF ThreadPop, LogInv, Held
  <2>3. CASE buffer # <<>>
    <3>1. /\ row' = Head(buffer) /\ buffer' = Tail(buffer) /\ thread = "pop"
          /\ UNCHANGED <<client, checked, node, entry, columns, table, received>>
      BY <1>11, <2>3 DEF ThreadPop
    <3>2. Head(buffer) \in Positive /\ ToSet(buffer) = {Head(buffer)} \cup ToSet(buffer')
      BY <2>3, <3>1, TakenFirst DEF OrderInv, Places
    <3>3. Held' = {Head(buffer)}
      BY <3>1, <3>2 DEF Held, Positive
    <3>4. QED
      BY <1>0, <2>1, <3>1, <3>2, <3>3 DEF LogInv
  <2>4. QED
    BY <2>2, <2>3
<1>12. CASE ThreadInsert
  <2>1. /\ thread = "insert" /\ row' = 0 /\ thread' = "test"
        /\ UNCHANGED <<client, checked, node, entry, columns, received, buffer>>
    BY <1>12 DEF ThreadInsert
  <2>2. table' = Append(table, row)
    BY <1>0, <1>12, <2>1 DEF ThreadInsert, insert_row
  <2>3. row \in Positive /\ Held = {row} /\ Held' = {}
    BY <2>1 DEF LoggedInv, ThreadInv, OrderInv, Places, HasRow, Held, Positive
  <2>4. ToSet(table') = ToSet(table) \cup {row}
    <3>1. ToSet(Append(table, row)) = ToSet(table) \cup {row}
      BY <2>3, PutLastSet DEF OrderInv, Places
    <3>2. QED
      BY <2>2, <3>1
  <2>5. QED
    BY <1>0, <2>1, <2>3, <2>4 DEF LogInv
<1>13. CASE main
  BY <1>0, <1>13 DEF main, LogInv, Held
<1>14. CASE UNCHANGED <<vars, others>>
  BY <1>0, <1>14 DEF vars, LogInv, Held
<1>15. ASSUME NEW who, NullHandler(who)
       PROVE  FALSE
  BY <1>0, <1>15 DEF NullHandler
<1>16. CASE FinishDrop
  BY <1>0, <1>16 DEF FinishDrop
<1>17. CASE Client \/ Node \/ LoggingThread
  BY <1>2, <1>3, <1>5, <1>6, <1>7, <1>4, <1>8, <1>9, <1>10, <1>11, <1>12, <1>15, <1>16, <1>17
     DEF Client, Node, LoggingThread, logging_setup, StopLog
<1>18. ASSUME NEW o \in Others, Other(o), others' = others \cup {o}
       PROVE  LogInv'
  <2>1. o \notin {"drop", "kill"}
    BY <1>18 DEF Lossless
  <2>2. QED
    BY <1>2, <1>3, <1>13, <1>15, <1>18, <2>1 DEF Other
<1>19. QED
  BY <1>4, <1>14, <1>17, <1>18 DEF Next

\* When logging_finish returns, every row the handler had when it was seen empty is in
\* the table: nobody but a drop or the end of the node itself comes between, whoever
\* starts or stops the logging meanwhile.
THEOREM LoggerCheckedRowsLogged == Spec => []CheckedRowsLogged
<1>1. LoggedInv => CheckedRowsLogged
  BY DEF LoggedInv, LogInv, Lossless, CheckedRowsLogged
<1>2. OrderInv /\ LoggedInv /\ [Next]_<<vars, others>> => (OrderInv /\ LoggedInv)'
  BY OrderStep, ThreadInvStep, LogInvStep DEF LoggedInv
<1>3. QED
  BY <1>1, <1>2, OrderInit, LoggedInit, PTL DEF Spec
=============================================================================
