--------------------------- MODULE NodeController ---------------------------
(***************************************************************************)
(* The way of a command from the topic to the pool: CommandConsumer with   *)
(* EKGateway::commandReceived as its handler, that is                      *)
(* NodeController::submitCommand, which writes each monitor command to the *)
(* channel_monitor table and gives it to its worker.  What the pool and    *)
(* the worker do with it is in ThreadPool and AcquireCommandWorker; here a *)
(* task is done in one step.                                               *)
(***************************************************************************)
EXTENDS CommandConsumer

VARIABLES
  rows,      \* the rows of channel_monitor, in the order of their ids
  tasks,     \* the queue of processing_pool
  submitted, \* history: messages given to a worker since the process started
  performed, \* history: messages whose command has been carried out
  dropped,   \* history: messages of the batches an exception has ended
  lost       \* history: those whose task a process took down with it, and no later one got

nodeVars == <<rows, tasks, submitted, performed, dropped, lost>>
vars     == <<consumerVars, nodeVars>>

\* ChannelMonitorType, built from the fields of the command.
RowOf(c) ==
  [name |-> c.field.channel_name, protocol |-> c.field.protocol,
   destination |-> c.field.dest_topic]

Row == {RowOf(c) : c \in {d \in Command : d.type = "monitor"}}

TypeOK ==
  /\ ConsumerTypeOK
  /\ rows \in Seq(Row)
  /\ tasks \in Seq(Message)
  /\ submitted \in Seq(Message)
  /\ performed \in SUBSET Message
  /\ dropped \in SUBSET Message
  /\ lost \in SUBSET Message

\* The table is not read when the node controller is made.
Init ==
  /\ ConsumerInit
  /\ rows = <<>> /\ tasks = <<>> /\ submitted = <<>> /\ performed = {} /\ dropped = {}
  /\ lost = {}

-----------------------------------------------------------------------------
(* NodeController::submitCommand *)

Current == commands[next].command

\* Mutant: the row is inserted without the count.
AlwaysAdded(table, row) == Append(table, row)
\* ChannelRepository::insert
Inserted(table, row) ==
  IF \E i \in DOMAIN table : table[i] = row THEN table ELSE Append(table, row)

\* addChannelMonitor and removeChannelMonitor both insert.
Stored(c) == c.type = "monitor"

\* An exception of the database leaves submitCommand and is caught in
\* consume(), which goes on to the next batch.
Store ==
  \/ /\ Goes("store", "submit")
     /\ rows' = IF Stored(Current) THEN Inserted(rows, RowOf(Current)) ELSE rows
     /\ UNCHANGED <<brokerVars, position, run, batch, commands, next, crashes, due, settled,
                    tasks, submitted, performed, dropped, lost>>
  \/ /\ pc = "store" /\ Stored(Current)
     /\ dropped' = dropped \cup Range(batch)
     /\ EndBatch
     /\ UNCHANGED <<requested, settled, rows, tasks, submitted, performed, lost>>

\* A monitor command becomes a task of the pool.  GetCommandWorker does nothing
\* with a get command, and nobody is registered for put and info.
HasWorker(c) == c.type \in {"monitor", "get"}
Pushed(c) == IF c.type = "monitor" THEN Append(tasks, commands[next].message) ELSE tasks

Submit ==
  /\ Goes("submit", IF next = Len(commands) THEN "commit" ELSE "store")
  /\ next' = next + 1
  /\ tasks' = Pushed(Current)
  /\ submitted' = IF HasWorker(Current) THEN Append(submitted, commands[next].message)
                                        ELSE submitted
  /\ settled' = settled \cup {commands[next].message}
  /\ lost' = lost \ {commands[next].message}
  /\ UNCHANGED <<brokerVars, position, run, batch, commands, crashes, due, rows, performed,
                 dropped>>

Perform ==
  /\ tasks # <<>>
  /\ tasks' = Tail(tasks)
  /\ performed' = performed \cup {Head(tasks)}
  /\ UNCHANGED <<consumerVars, rows, submitted, dropped, lost>>

LostNow == lost \cup (Range(tasks) \ performed)

\* Mutant: the controller is destroyed with tasks in the pool.
NoWait == TRUE
WaitForTasks == tasks = <<>>
\* EKGateway destroys the command controller and then the node controller,
\* whose destructor waits for the pool.
Exit ==
  /\ pc = "stopped"
  /\ WaitForTasks
  /\ ProcessEnds
  /\ tasks' = <<>> /\ submitted' = <<>> /\ lost' = LostNow
  /\ UNCHANGED <<settled, crashes, rows, performed, dropped>>

\* The pool's queue is lost with the process; the table is not.
PoolLost ==
  /\ tasks' = IF pc' = "down" THEN <<>> ELSE tasks
  /\ submitted' = IF pc' = "down" THEN <<>> ELSE submitted
  /\ lost' = IF pc' = "down" THEN LostNow ELSE lost
  /\ UNCHANGED <<rows, performed, dropped>>

ThreadStep ==
  \/ (Loop \/ EndFetch \/ ParseMessage \/ EndParse \/ Commit) /\ PoolLost
  \/ Store \/ Submit

Next ==
  \/ ((\E p \in Payloads : Produce(p)) \/ CommitArrives \/ Assign \/ Start \/ Fetch \/ Stop)
       /\ UNCHANGED nodeVars
  \/ Crash /\ PoolLost
  \/ ThreadStep \/ Perform \/ Exit

\* The thread and the pool run; the broker assigns the partition, and delivers
\* a message to a consumer that keeps asking for it.  Nobody has to produce,
\* stop or start anything, and no commit has to arrive.
Fairness ==
  /\ WF_vars(ThreadStep)
  /\ WF_vars(Perform)
  /\ WF_vars(Exit)
  /\ WF_vars(Assign /\ UNCHANGED nodeVars)
  /\ SF_vars(Fetch /\ UNCHANGED nodeVars)

Spec == Init /\ [][Next]_vars /\ Fairness

-----------------------------------------------------------------------------
(* Safety *)

\* "at this point we can commit ... the offset becaus all mesage has been
\* maaged": a commit, also one on its way, is never ahead of a message that
\* nobody has looked at, but for those of a batch an exception has ended.
CommittedWasSettled ==
  \A m \in due, c \in {committed} \cup Range(requested) : m <= c => m \in settled \cup dropped

\* "whe an exception is thrown by this method the received message on the
\* underline message bug consumer will be not committed".
ThrownIsNotCommitted ==
  \A m \in dropped \ settled, c \in {committed} \cup Range(requested) : c < m

\* Between two starts of the process every message is submitted at most once,
\* in the order of the topic.
SubmittedOnceInOrder == \A i, j \in DOMAIN submitted : i < j => submitted[i] < submitted[j]

\* A channel that was ever asked for is in the table, once, whatever crashed
\* between the write and the command's task.
TableComplete ==
  /\ \A m \in performed \cup Range(tasks) :
       \E c \in Outcomes(log[m]), i \in DOMAIN rows : c.end = "command" /\ rows[i] = RowOf(c)
  /\ \A i, j \in DOMAIN rows : rows[i] = rows[j] => i = j

MonitorOf(payload) == {c \in Outcomes(payload) : c.end = "command" /\ c.type = "monitor"}

\* A stop, unlike a crash, carries out every monitor command that was given to a
\* worker since the process started.  And of what was produced for the group and
\* has been read, by this process or an earlier one, every message that can only
\* be a monitor command is carried out, but for those of a batch an exception
\* has ended and those whose tasks an earlier process took down with it.
StopLosesNothing ==
  [][pc = "stopped" /\ pc' = "down" /\ crashes' = crashes =>
       /\ \A m \in Range(submitted) : MonitorOf(log[m]) # {} => m \in performed
       /\ \A m \in due : /\ m <= position
                         /\ Outcomes(log[m]) \subseteq MonitorOf(log[m])
                         => m \in performed \cup dropped \cup lost]_vars

Topic == INSTANCE CommandTopic WITH
  end    <- Len(log),
  place  <- position,
  handed <- submitted,
  owed   <- due \ (settled \cup dropped)

\* The consumer, the parser, the table and the pool's queue keep the promise to
\* the producers, whatever crashes, throws or is lost in between.
KeepsTopic == Topic!Spec

-----------------------------------------------------------------------------
(* Liveness *)

\* Once the process stays up, every message produced since the group's first
\* commit is looked at, also when crashes came before, unless it was in a batch
\* an exception has ended.
DueAreSettled ==
  <>[](Up /\ run) => \A m \in Message : m \in due ~> m \in settled \cup dropped

=============================================================================
