------------------------------- MODULE Logger -------------------------------
(***************************************************************************)
(* The SQLite logger of amrl_logging, seen from one table: a client that   *)
(* sets the logging up, publishes rows and finishes it (util.cpp); the     *)
(* logging node, whose single thread runs ros::spin and with it every      *)
(* service and the topic's callback (sqlite_node.cpp); and the thread of   *)
(* the DataHandler that moves rows from the buffer into the database       *)
(* (DataHandler.cpp).                                                      *)
(*                                                                         *)
(* Rows are the numbers 1, 2, ... in the order the client publishes them.  *)
(* The buffer is the queue ThreadsafeQueue implements, with its counter    *)
(* beside it, which changes a step later.  A handler outlives its entry in *)
(* the map as long as the subscription's callback holds it, and the next   *)
(* logging_start destroys both, so there is one handler at a time: active, *)
(* buffer, size and thread are its members.  The database file outlives    *)
(* the node: a table may be there from an earlier run, with other columns. *)
(* Inserting into a table that exists succeeds.                            *)
(***************************************************************************)
EXTENDS Integers, Sequences, SequencesExt

CONSTANTS
  MaxRows,    \* bound: the rows the client publishes
  QueueSize,  \* the messages the topic's queues hold between them
  SizeMod,    \* 2^w for the w bits of size_t
  Columns,    \* the columns the client logs, a set of headers
  OtherColumns,  \* what others ask for, and what the table may have from an earlier run
  Others      \* what happens besides: "start", "stop", "drop" calls, "kill", "restart"

ASSUME LoggerAssumption ==
  /\ MaxRows \in Nat /\ QueueSize \in Nat \ {0} /\ SizeMod \in Nat \ {0}
  /\ Columns # {}
  /\ Others \subseteq {"start", "stop", "drop", "kill", "restart"}

VARIABLES
  client,        \* where the client is
  next_row,      \* the next row it publishes
  connected,     \* its publisher and the node's subscriber know one another
  wire,          \* the rows on the way, oldest first
  up,            \* the logging node runs
  node,          \* the call the node's thread is in, "idle" between callbacks
  caller,        \* who waits for that call
  entry,         \* data_handlers[table].first: "absent", "null" or "handler"
  active,        \* _logging_active
  thread,        \* where _logging_thread is; "none" when it is not joinable
  buffer, size,  \* _buffer: its items and its _curr_size
  row,           \* the row the thread has popped, 0 for nullptr
  columns,       \* the columns of the table in the database, {} if there is none
  table,         \* the rows inserted into it
  received,      \* history: the rows this handler was given
  checked,       \* history: those it had when the client was told it is empty
  others         \* history: what happened besides so far

clientVars  == <<next_row, checked>>
topicVars   == <<connected, wire>>
nodeVars    == <<up, node, caller, entry>>
bufferVars  == <<buffer, size, row, received>>
handlerVars == <<active, thread, bufferVars>>
dbVars      == <<columns, table>>

vars == <<client, clientVars, topicVars, nodeVars, handlerVars, dbVars>>

Init ==
  /\ client = "setup" /\ next_row = 1 /\ checked = {}
  /\ connected = FALSE /\ wire = <<>>
  /\ up \in BOOLEAN /\ node = "idle" /\ caller = "other" /\ entry = "absent"
  /\ active = FALSE /\ thread = "none"
  /\ buffer = <<>> /\ size = 0 /\ row = 0 /\ received = {}
  /\ columns \in {{}, Columns} \cup OtherColumns /\ table = <<>>
  /\ others = {}

NodeReady == up /\ node = "idle"

\* main, started again: the database is opened, data_handlers is empty.  A node that
\* cannot open it ends, and is not up.
main ==
  /\ ~up
  /\ up' = TRUE /\ entry' = "absent"
  /\ UNCHANGED <<client, clientVars, topicVars, node, caller, handlerVars, dbVars>>

\* Where a client goes on whose call has failed.
Failed(state) ==
  CASE state = "setup" -> "failed" [] state \in {"run", "check"} -> "stop" [] OTHER -> "done"

\* The process dies, and with it the handler, what it had buffered and the call it is in.
Die(who) ==
  /\ up' = FALSE /\ node' = "idle"
  /\ connected' = FALSE /\ wire' = <<>>
  /\ active' = FALSE /\ thread' = "none"
  /\ buffer' = <<>> /\ size' = 0 /\ row' = 0 /\ received' = {}
  /\ client' = IF who = "client" THEN Failed(client) ELSE client
  /\ UNCHANGED <<clientVars, caller, entry, dbVars>>

-----------------------------------------------------------------------------
(* The topic.                                                               *)

Connect ==
  /\ client = "run" /\ up /\ entry # "absent" /\ ~connected
  /\ connected' = TRUE
  /\ UNCHANGED <<client, clientVars, wire, nodeVars, handlerVars, dbVars>>

\* A full queue loses its oldest message.
Enqueue(r) == wire' = Append(IF Len(wire) < QueueSize THEN wire ELSE Tail(wire), r)

\* Without a subscriber there is no queue, and the row goes nowhere.
Publish ==
  /\ client = "run" /\ next_row <= MaxRows
  /\ next_row' = next_row + 1
  /\ IF connected THEN Enqueue(next_row) ELSE UNCHANGED wire
  /\ UNCHANGED <<client, checked, connected, nodeVars, handlerVars, dbVars>>

\* buffer_data pushes onto the queue: the item, then its counter.
logging_buffer_msg ==
  /\ NodeReady /\ wire # <<>>
  /\ wire' = Tail(wire)
  /\ buffer' = Append(buffer, Head(wire))
  /\ received' = received \cup {Head(wire)}
  /\ node' = "push"
  /\ UNCHANGED <<client, clientVars, connected, up, caller, entry, active, thread, size, row,
                 dbVars>>

CountPushed ==
  /\ node = "push"
  /\ size' = (size + 1) % SizeMod
  /\ node' = "idle"
  /\ UNCHANGED <<client, clientVars, topicVars, up, caller, entry, active, thread, buffer, row,
                 received, dbVars>>

-----------------------------------------------------------------------------
(* The services.  One that ends a thread is in logging_end until it has     *)
(* joined it, and the node's thread does nothing else meanwhile.            *)

logging_end(service, who) ==
  /\ node' = service /\ caller' = who
  /\ active' = FALSE

Joined == thread \in {"none", "ended"}

Answer(who, state) == client' = IF who = "client" THEN state ELSE client

\* Assigning a new pair to the map's entry unsubscribes and destroys its handler.
logging_start(who) ==
  /\ NodeReady
  /\ logging_end("start", who)
  /\ connected' = FALSE /\ wire' = <<>>
  /\ UNCHANGED <<client, clientVars, up, entry, thread, bufferVars, dbVars>>

\* CREATE TABLE IF NOT EXISTS: the columns the table has then.  Without a header there is
\* nothing to create.
create_table(headers) == IF columns = {} THEN headers ELSE columns

\* SQLite prepares the INSERT if the table that is there has every column it names.
create_insert_stmt(headers) == headers # {} /\ headers \subseteq create_table(headers)

logging_begin(ready) == thread' = IF ready THEN "starting" ELSE "none"

\* The new handler and its thread, if the table is there or was made and takes the
\* headers.
FinishStart(headers) ==
  /\ node = "start" /\ Joined
  /\ caller = "client" => headers = Columns
  /\ node' = "idle"
  /\ columns' = create_table(headers)
  /\ LET ready == create_insert_stmt(headers)
     IN  /\ entry' = IF ready THEN "handler" ELSE "absent"
         /\ logging_begin(ready)
         /\ Answer(caller, IF ready THEN "run" ELSE "failed")
  /\ buffer' = <<>> /\ size' = 0 /\ row' = 0 /\ received' = {}
  /\ UNCHANGED <<clientVars, topicVars, up, caller, active, table>>

\* A handler that is not active stays as it is; either way the subscription stays.
logging_stop(who) ==
  /\ NodeReady /\ entry # "null"
  /\ IF entry = "handler" /\ active
     THEN /\ logging_end("stop", who)
          /\ UNCHANGED <<client, up, entry>>
     ELSE /\ Answer(who, "done")
          /\ UNCHANGED <<nodeVars, active>>
  /\ UNCHANGED <<clientVars, topicVars, thread, bufferVars, dbVars>>

\* A slip: the thread is told to end and not joined.
FinishStopUnjoined ==
  /\ node = "stop"
  /\ node' = "idle"
  /\ Answer(caller, "done")
  /\ UNCHANGED <<clientVars, topicVars, up, caller, entry, active, thread, bufferVars, dbVars>>

FinishStop ==
  /\ node = "stop" /\ Joined
  /\ node' = "idle"
  /\ thread' = "none"
  /\ Answer(caller, "done")
  /\ UNCHANGED <<clientVars, topicVars, up, caller, entry, active, bufferVars, dbVars>>

DeleteTable == columns' = {} /\ table' = <<>>

logging_drop_table ==
  /\ NodeReady /\ entry # "null"
  /\ IF entry = "handler" /\ active
     THEN /\ logging_end("drop", "other")
          /\ UNCHANGED <<up, entry, dbVars>>
     ELSE /\ DeleteTable
          /\ UNCHANGED <<nodeVars, active>>
  /\ UNCHANGED <<client, clientVars, topicVars, thread, bufferVars>>

\* The entry keeps its subscription, whose callback keeps the handler.
FinishDrop ==
  /\ node = "drop" /\ Joined
  /\ node' = "idle"
  /\ thread' = "none"
  /\ entry' = "null"
  /\ DeleteTable
  /\ UNCHANGED <<client, clientVars, topicVars, up, caller, active, bufferVars>>

\* Every service but logging_start calls the handler of an entry that is there.
NullHandler(who) == NodeReady /\ entry = "null" /\ Die(who)

-----------------------------------------------------------------------------
(* The client: logging_setup, then logging_finish.                          *)

logging_setup == client = "setup" /\ logging_start("client")

IsEmpty == buffer = <<>> /\ size = 0

\* logging_buff_check is called until it says empty, or fails.
CheckBuffer ==
  /\ client \in {"run", "check"} /\ NodeReady
  /\ IF entry = "handler"
     THEN IF IsEmpty THEN client' = "stop" /\ checked' = received
                     ELSE client' = "check" /\ UNCHANGED checked
     ELSE entry = "absent" /\ client' = "stop" /\ UNCHANGED checked
  /\ UNCHANGED <<next_row, topicVars, nodeVars, handlerVars, dbVars>>

StopLog == client = "stop" /\ logging_stop("client")

\* Without the logging node every call of the client fails.
CallFails ==
  /\ ~up /\ client \notin {"failed", "done"}
  /\ client' = Failed(client)
  /\ UNCHANGED <<clientVars, topicVars, nodeVars, handlerVars, dbVars>>

-----------------------------------------------------------------------------
(* The handler's thread, logging_thread_func.                               *)

ThreadStart ==
  /\ thread = "starting"
  /\ active' = TRUE
  /\ thread' = "test"
  /\ UNCHANGED <<client, clientVars, topicVars, nodeVars, bufferVars, dbVars>>

ThreadTest ==
  /\ thread = "test"
  /\ thread' = IF active THEN "pop" ELSE "ended"
  /\ UNCHANGED <<client, clientVars, topicVars, nodeVars, active, bufferVars, dbVars>>

\* A slip: the newest row first.
ThreadPopNewest ==
  /\ thread = "pop"
  /\ IF buffer = <<>>
     THEN thread' = "test" /\ UNCHANGED <<buffer, row>>
     ELSE /\ row' = Last(buffer) /\ buffer' = Front(buffer)
          /\ thread' = "count"
  /\ UNCHANGED <<client, clientVars, topicVars, nodeVars, active, size, received, dbVars>>

ThreadPop ==
  /\ thread = "pop"
  /\ IF buffer = <<>>
     THEN thread' = "test" /\ UNCHANGED <<buffer, row>>
     ELSE /\ row' = Head(buffer) /\ buffer' = Tail(buffer)
          /\ thread' = "count"
  /\ UNCHANGED <<client, clientVars, topicVars, nodeVars, active, size, received, dbVars>>

\* A slip: the pop does not count.
CountForgotten ==
  /\ thread = "count"
  /\ thread' = "insert"
  /\ UNCHANGED <<client, clientVars, topicVars, nodeVars, active, bufferVars, dbVars>>

CountPopped ==
  /\ thread = "count"
  /\ size' = (size - 1) % SizeMod
  /\ thread' = "insert"
  /\ UNCHANGED <<client, clientVars, topicVars, nodeVars, active, buffer, row, received, dbVars>>

\* Without its table the row is lost: nobody looks at insert_row's answer.
insert_row == table' = IF columns # {} THEN Append(table, row) ELSE table

ThreadInsert ==
  /\ thread = "insert"
  /\ insert_row
  /\ row' = 0
  /\ thread' = "test"
  /\ UNCHANGED <<client, clientVars, topicVars, nodeVars, active, buffer, size, received, columns>>

-----------------------------------------------------------------------------
Client ==
  \/ logging_setup \/ CheckBuffer \/ StopLog \/ CallFails
  \/ client \in {"run", "check", "stop"} /\ NullHandler("client")

Node ==
  \/ logging_buffer_msg \/ CountPushed
  \/ \E headers \in {Columns} \cup OtherColumns : FinishStart(headers)
  \/ FinishStop \/ FinishDrop

LoggingThread == ThreadStart \/ ThreadTest \/ ThreadPop \/ CountPopped \/ ThreadInsert

\* The client function; without the service it gives up after a while.
logging_delete_table == logging_drop_table \/ NullHandler("other")

Other(o) ==
  \/ o = "start" /\ logging_start("other")
  \/ o = "stop" /\ (logging_stop("other") \/ NullHandler("other"))
  \/ o = "drop" /\ logging_delete_table
  \/ o = "kill" /\ up /\ Die(IF node \in {"start", "stop"} THEN caller ELSE "other")
  \/ o = "restart" /\ main

Next ==
  \/ (Connect \/ Publish \/ Client \/ Node \/ LoggingThread) /\ UNCHANGED others
  \/ \E o \in Others : Other(o) /\ others' = others \cup {o}

Spec == Init /\ [][Next]_<<vars, others>>

\* The threads run; a client that logs finishes at some time.
FairSpec == Spec /\ WF_vars(Client) /\ WF_vars(Node) /\ WF_vars(LoggingThread)

-----------------------------------------------------------------------------
(* Properties.                                                              *)

Rows == 1 .. MaxRows

\* Every variable keeps its type; the queues keep to their size.
TypeOK ==
  /\ client \in {"setup", "run", "check", "stop", "done", "failed"}
  /\ next_row \in 1 .. MaxRows + 1
  /\ checked \subseteq Rows /\ received \subseteq Rows
  /\ connected \in BOOLEAN
  /\ wire \in Seq(Rows) /\ Len(wire) <= QueueSize
  /\ up \in BOOLEAN
  /\ node \in {"idle", "push", "start", "stop", "drop"}
  /\ caller \in {"client", "other"}
  /\ entry \in {"absent", "null", "handler"}
  /\ active \in BOOLEAN
  /\ thread \in {"none", "starting", "test", "pop", "count", "insert", "ended"}
  /\ buffer \in Seq(Rows) /\ size \in 0 .. SizeMod - 1
  /\ row \in Rows \cup {0}
  /\ columns \in {{}, Columns} \cup OtherColumns /\ table \in Seq(Rows)
  /\ others \subseteq Others

\* Whatever is lost on the way, the table's rows are in the order they were published
\* in, each once: through full queues, restarts, stops and drops of the table.
RowsInOrder == \A i, j \in DOMAIN table : i < j => table[i] < table[j]

\* When logging_finish returns, the rows the handler had when it was seen empty are in
\* the table, unless somebody dropped it or killed the node: the one its thread held then
\* is inserted before stop_log answers.
CheckedRowsLogged ==
  others \cap {"drop", "kill"} = {} /\ client = "done" => checked \subseteq ToSet(table)

\* A client that logs ends, also when the logging node dies, comes back without its
\* handlers, or somebody drops the table under it: logging_finish neither polls nor waits
\* for ever, unless others start or stop the same table's logging.
FinishReturns == <>(client \in {"done", "failed"} \/ others \cap {"start", "stop"} # {})
=============================================================================
