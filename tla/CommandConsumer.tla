-------------------------- MODULE CommandConsumer --------------------------
(***************************************************************************)
(* CMDController's thread and RDKafkaSubscriber: messages are fetched from *)
(* the command topic in batches, parsed, handed to the command handler and *)
(* committed with commitAsync.  The process may crash at any step and be   *)
(* started again; the broker keeps the log and the group's committed       *)
(* offset.  The handler's own steps are NodeController's.                  *)
(*                                                                         *)
(* Messages are numbered by their place in the log, from 1; an offset is   *)
(* the number of messages before it.                                       *)
(***************************************************************************)
EXTENDS CommandParser, Integers, Sequences, Functions

CONSTANTS
  Payloads,    \* what a message may contain
  MaxFetch,    \* configuration->max_message_to_fetch
  MaxMessages, \* bound: messages produced in one behaviour
  MaxCrashes   \* bound: crashes of the process

None == -1

ASSUME ConsumerAssumption ==
  /\ MaxFetch \in Nat \ {0}
  /\ MaxMessages \in Nat
  /\ MaxCrashes \in Nat

VARIABLES
  log,       \* external: the messages of the topic
  committed, \* external: the group's committed offset, None before the first commit
  requested, \* external: commits on their way to the broker
  position,  \* external: the consumer's position, None until it is assigned
  pc,        \* where the thread is in consume()
  run,       \* run
  batch,     \* received_message
  commands,  \* result_vec, each command with the message it came from
  next,      \* the element of batch or commands the loop over it is at
  crashes,   \* crashes so far
  due,       \* history: messages produced while the group had a committed offset
  settled    \* history: messages handed to a worker or found to be no command

brokerVars   == <<log, committed, requested>>
threadVars   == <<pc, run, batch, commands, next>>
consumerVars == <<brokerVars, position, threadVars, crashes, due, settled>>

Message == 1..MaxMessages
Offset  == 0..MaxMessages
Outcome == UNION {Outcomes(payload) : payload \in Payloads}
Command == {o \in Outcome : o.end = "command"}
Up      == pc # "down"

ConsumerTypeOK ==
  /\ log \in Seq(Payloads) /\ Len(log) <= MaxMessages
  /\ committed \in Offset \cup {None}
  /\ requested \in Seq(Offset)
  /\ position \in Offset \cup {None}
  /\ pc \in {"down", "loop", "fetch", "parse", "store", "submit", "commit", "stopped"}
  /\ run \in BOOLEAN
  /\ batch \in Seq(Message)
  /\ commands \in Seq([message : Message, command : Command])
  /\ next \in Nat \ {0}
  /\ crashes \in 0..MaxCrashes
  /\ due \in SUBSET Message
  /\ settled \in SUBSET Message

\* The group may have used the topic before, or be new to it.
ConsumerInit ==
  /\ log = <<>> /\ committed \in {None, 0} /\ requested = <<>> /\ position = None
  /\ pc = "down" /\ run = FALSE
  /\ batch = <<>> /\ commands = <<>> /\ next = 1
  /\ crashes = 0 /\ due = {} /\ settled = {}

Goes(from, to) == pc = from /\ pc' = to

-----------------------------------------------------------------------------
(* The broker and the client library *)

Produce(payload) ==
  /\ Len(log) < MaxMessages
  /\ log' = Append(log, payload)
  /\ due' = IF committed = None THEN due ELSE due \cup {Len(log) + 1}
  /\ UNCHANGED <<committed, requested, position, threadVars, crashes, settled>>

\* Mutant: the position is taken from the end of the topic in any case.
StartAtEnd == Len(log)
\* auto.offset.reset is "latest".
StartOffset == IF committed = None THEN Len(log) ELSE committed

\* The group coordinator assigns the partition some time after subscribe().
Assign ==
  /\ pc \in {"loop", "fetch"} /\ position = None
  /\ position' = StartOffset
  /\ UNCHANGED <<brokerVars, threadVars, crashes, due, settled>>

\* A commit request arrives, or fails without anybody noticing.
CommitArrives ==
  /\ requested # <<>>
  /\ committed' \in {committed, Head(requested)}
  /\ requested' = Tail(requested)
  /\ UNCHANGED <<log, position, threadVars, crashes, due, settled>>

-----------------------------------------------------------------------------
(* consume() *)

\* start(): setQueue subscribes, and the thread begins.
Start ==
  /\ Goes("down", "loop")
  /\ run' = TRUE
  /\ UNCHANGED <<brokerVars, position, batch, commands, next, crashes, due, settled>>

\* while (run)
Loop ==
  /\ Goes("loop", IF run THEN "fetch" ELSE "stopped")
  /\ UNCHANGED <<brokerVars, position, run, batch, commands, next, crashes, due, settled>>

\* getMsg: one message of the loop over consumer->consume.
Fetch ==
  /\ pc = "fetch" /\ Len(batch) < MaxFetch
  /\ position # None /\ position < Len(log)
  /\ batch' = Append(batch, position + 1)
  /\ position' = position + 1
  /\ UNCHANGED <<brokerVars, pc, run, commands, next, crashes, due, settled>>

\* getMsg returns: the batch is full, the time is over or the client reports
\* an error.  consume() does not look at the result.
EndFetch ==
  /\ Goes("fetch", IF batch = <<>> THEN "loop" ELSE "parse")
  /\ next' = 1
  /\ UNCHANGED <<brokerVars, position, run, batch, commands, crashes, due, settled>>

\* The process ends: all of it is lost but what the broker has.
ProcessEnds ==
  /\ pc' = "down" /\ run' = FALSE
  /\ batch' = <<>> /\ commands' = <<>> /\ next' = 1
  /\ position' = None /\ requested' = <<>>
  /\ UNCHANGED <<log, committed, due>>

\* One message of received_message is parsed.
ParseMessage ==
  /\ pc = "parse" /\ next <= Len(batch)
  /\ \E outcome \in Outcomes(log[batch[next]]) :
       \/ /\ outcome.end = "dies"
          /\ ProcessEnds
          /\ UNCHANGED <<settled, crashes>>
       \/ /\ outcome.end = "command"
          /\ commands' = Append(commands, [message |-> batch[next], command |-> outcome])
          /\ next' = next + 1
          /\ UNCHANGED <<brokerVars, position, pc, run, batch, crashes, due, settled>>
       \/ /\ outcome.end \in {"throws", "null"}
          /\ settled' = settled \cup {batch[next]}
          /\ next' = next + 1
          /\ UNCHANGED <<brokerVars, position, pc, run, batch, commands, crashes, due>>

\* if(result_vec.size()) {cmd_handler(result_vec);}
EndParse ==
  /\ next > Len(batch)
  /\ Goes("parse", IF commands = <<>> THEN "commit" ELSE "store")
  /\ next' = 1
  /\ UNCHANGED <<brokerVars, position, run, batch, commands, crashes, due, settled>>

\* Mutant: the vector keeps the messages it has.
BatchKept == batch
BatchCleared == <<>>
\* received_message.clear(), and result_vec goes out of scope.
EndBatch ==
  /\ pc' = "loop"
  /\ batch' = BatchCleared /\ commands' = <<>> /\ next' = 1
  /\ UNCHANGED <<run, position, log, committed, crashes, due>>

\* Mutant: the offset is one too far.
CommitAhead == position + 1
CommitOffset == position
\* subscriber->commit(): commitAsync of the position, or an exception that is
\* only logged.
Commit ==
  /\ pc = "commit"
  /\ requested' \in {requested, Append(requested, CommitOffset)}
  /\ EndBatch
  /\ UNCHANGED settled

\* stop() of the controller: the flag, then the join.
Stop ==
  /\ Up /\ run
  /\ run' = FALSE
  /\ UNCHANGED <<brokerVars, position, pc, batch, commands, next, crashes, due, settled>>

Crash ==
  /\ Up /\ crashes < MaxCrashes
  /\ crashes' = crashes + 1
  /\ ProcessEnds
  /\ UNCHANGED settled

=============================================================================
