------------------------ MODULE AcquireCommandWorker ------------------------
(***************************************************************************)
(* The path of a monitor command through the gateway: the shared pool runs *)
(* AcquireCommandWorker::acquireManagement for each command, which edits   *)
(* channel_topics_map and turns the channel's monitor on or off, while the *)
(* scheduler thread of EpicsServiceManager calls epicsMonitorEvent, which  *)
(* reads channel_topics_map and publishes each event to its topics.        *)
(*                                                                         *)
(* Threads are the pool's threads.  acquireManagement is cut at every      *)
(* access to channel_topics_map, because only the two writes of a vector   *)
(* are made under channel_map_mtx.                                         *)
(***************************************************************************)
EXTENDS EpicsServiceManager, SequencesExt

CONSTANTS
  Topics,      \* destination topics
  MaxCommands  \* bound: monitor commands submitted in one behaviour

ASSUME WorkerAssumption ==
  /\ Topics # {}
  /\ MaxCommands \in Nat
  /\ Handlers = {"epicsMonitorEvent"}

VARIABLES
  tasks,     \* the pool's queue: commands pushed and not yet popped
  accepted,  \* history: every command submitted, in order
  topics,    \* channel_topics_map: the vector of each channel
  keys,      \* the keys channel_topics_map holds
  writer,    \* owner of channel_map_mtx in exclusive mode, or "free"
  reader,    \* whether the scheduler thread holds it in shared mode
  pc,        \* where each pool thread is in acquireManagement
  cmd,       \* the command it runs
  itr,       \* itr: the index std::find returned, 0 for end()
  stale,     \* whether another thread has changed the vector since then
  evPc,      \* where epicsMonitorEvent is, on the scheduler thread
  toPublish, \* events the handler has still to look at
  nextTopic, \* index of the next topic the current event goes to
  published, \* history: event ids pushed to the publisher, per channel and topic
  up         \* FALSE once the process has died

tableVars  == <<topics, keys, writer, reader>>
workerVars == <<pc, cmd, itr, stale>>
queueVars  == <<tasks, accepted>>
eventVars  == <<evPc, toPublish, nextTopic, published>>
vars == <<mgrVars, tableVars, workerVars, queueVars, eventVars, up>>

Command == [channel : Channels, topic : Topics, activate : BOOLEAN]

TypeOK ==
  /\ MgrTypeOK
  /\ tasks \in Seq(Command)
  /\ accepted \in Seq(Command)
  /\ topics \in [Channels -> Seq(Topics)]
  /\ keys \in SUBSET Channels
  /\ writer \in Threads \cup {"free"}
  /\ reader \in BOOLEAN
  /\ pc \in [Threads -> {"idle", "ref", "find", "lock", "write", "size", "monitor"}]
  /\ cmd \in [Threads -> Command]
  /\ itr \in [Threads -> Nat]
  /\ stale \in [Threads -> BOOLEAN]
  /\ evPc \in {"out", "event", "topic"}
  /\ toPublish \in Seq(Event)
  /\ nextTopic \in Nat \ {0}
  /\ published \in [Channels \X Topics -> Seq(1..MaxEvents)]
  /\ up \in BOOLEAN

\* The constructor registers the handler and keeps its token.
Init ==
  /\ MgrInit({"epicsMonitorEvent"})
  /\ tasks = <<>>
  /\ accepted = <<>>
  /\ topics = [ch \in Channels |-> <<>>]
  /\ keys = {}
  /\ writer = "free"
  /\ reader = FALSE
  /\ pc = [w \in Threads |-> "idle"]
  /\ cmd = [w \in Threads |-> CHOOSE c \in Command : TRUE]
  /\ itr = [w \in Threads |-> 0]
  /\ stale = [w \in Threads |-> FALSE]
  /\ evPc = "out"
  /\ toPublish = <<>>
  /\ nextTopic = 1
  /\ published = [p \in Channels \X Topics |-> <<>>]
  /\ up = TRUE

-----------------------------------------------------------------------------
(* submitCommand, on the thread that consumes the command topic *)

Submit(c) ==
  /\ Len(accepted) < MaxCommands
  /\ accepted' = Append(accepted, c)
  /\ tasks' = Append(tasks, c)
  /\ UNCHANGED <<mgrVars, tableVars, workerVars, eventVars, up>>

-----------------------------------------------------------------------------
(* acquireManagement, on a thread of the pool *)

WorkerTo(w, from, to) == pc[w] = from /\ pc' = [pc EXCEPT ![w] = to]
Ch(w) == cmd[w].channel
Vec(w) == topics[Ch(w)]

\* Mutant: the activate flag of the command is not looked at.
TakeTaskIgnoresFlag(w) ==
  /\ WorkerTo(w, "idle", "ref")
  /\ tasks # <<>>
  /\ cmd' = [cmd EXCEPT ![w] = [Head(tasks) EXCEPT !.activate = TRUE]]
  /\ tasks' = Tail(tasks)
  /\ UNCHANGED <<mgrVars, accepted, tableVars, itr, stale, eventVars, up>>

\* Mutant: the task is copied and stays in the queue.
TakeTaskKeepsIt(w) ==
  /\ WorkerTo(w, "idle", "ref")
  /\ tasks # <<>>
  /\ cmd' = [cmd EXCEPT ![w] = Head(tasks)]
  /\ UNCHANGED <<mgrVars, queueVars, tableVars, itr, stale, eventVars, up>>

\* The pool pops the oldest task and runs it.
TakeTask(w) ==
  /\ WorkerTo(w, "idle", "ref")
  /\ tasks # <<>>
  /\ cmd' = [cmd EXCEPT ![w] = Head(tasks)]
  /\ tasks' = Tail(tasks)
  /\ UNCHANGED <<mgrVars, accepted, tableVars, itr, stale, eventVars, up>>

\* auto& vec_ref = channel_topics_map[channel_name], with no lock held.
Ref(w) ==
  /\ WorkerTo(w, "ref", "find")
  /\ keys' = keys \cup {Ch(w)}
  /\ UNCHANGED <<mgrVars, topics, writer, reader, cmd, itr, stale, queueVars, eventVars, up>>

\* std::find(v, t) returns index i, 0 standing for std::end.
FoundAt(v, t, i) ==
  IF i = 0 THEN \A j \in DOMAIN v : v[j] # t
  ELSE v[i] = t /\ \A j \in 1..(i - 1) : v[j] # t

\* std::find, with no lock held: the vector is edited when the topic is
\* missing on activate, present on deactivate.
Find(w) ==
  \E i \in 0..Len(Vec(w)) :
    /\ FoundAt(Vec(w), cmd[w].topic, i)
    /\ WorkerTo(w, "find", IF cmd[w].activate = (i = 0) THEN "lock" ELSE "size")
    /\ itr' = [itr EXCEPT ![w] = i]
    /\ stale' = [stale EXCEPT ![w] = FALSE]
    /\ UNCHANGED <<mgrVars, tableVars, cmd, queueVars, eventVars, up>>

\* Mutant: a shared lock is taken where the vector is written.
TableFreeOfWriters == writer = "free"
TableFree == writer = "free" /\ ~reader

\* std::unique_lock lock(channel_map_mtx)
Lock(w) ==
  /\ WorkerTo(w, "lock", "write")
  /\ TableFree
  /\ writer' = w
  /\ UNCHANGED <<mgrVars, topics, keys, reader, cmd, itr, stale, queueVars, eventVars, up>>

\* What vec_ref.erase(itr) leaves.  An iterator another thread's edit has
\* invalidated makes the call undefined: the element at the old index goes, or
\* the last one does, or (MayDie) the process dies.
Erased(v, i, invalid) ==
  (IF i \in DOMAIN v THEN {RemoveAt(v, i)} ELSE {})
    \cup (IF invalid /\ v # <<>> THEN {Front(v)} ELSE {})

Pushed(w) == Append(Vec(w), cmd[w].topic)

EditsOf(w) == IF cmd[w].activate THEN {Pushed(w)} ELSE Erased(Vec(w), itr[w], stale[w])
StaleAfter(w) == [u \in Threads |-> stale[u] \/ (u # w /\ Ch(u) = Ch(w) /\ pc[u] = "lock")]

\* Mutant: the key of a vector that becomes empty is erased with it.
WriteErasesKey(w) ==
  /\ WorkerTo(w, "write", "size")
  /\ \E v \in EditsOf(w) :
       /\ topics' = [topics EXCEPT ![Ch(w)] = v]
       /\ keys' = IF v = <<>> THEN keys \ {Ch(w)} ELSE keys
  /\ stale' = StaleAfter(w)
  /\ writer' = "free"
  /\ UNCHANGED <<mgrVars, reader, cmd, itr, queueVars, eventVars, up>>

\* push_back or erase, and channel_map_mtx released at the end of the scope.
Write(w) ==
  /\ WorkerTo(w, "write", "size")
  /\ \E v \in EditsOf(w) : topics' = [topics EXCEPT ![Ch(w)] = v]
  /\ stale' = StaleAfter(w)
  /\ writer' = "free"
  /\ UNCHANGED <<mgrVars, keys, reader, cmd, itr, queueVars, eventVars, up>>

\* Mutant: the command's flag decides, not the size of the vector.
NeededByFlag(w) == cmd[w].activate
Needed(w) == Vec(w) # <<>>

\* activate = vec_ref.size() and the call of monitorChannel; both mutexes of
\* the worker's table are free by then.
Size(w) ==
  /\ WorkerTo(w, "size", "monitor")
  /\ MonitorChannel(w, Ch(w), Needed(w))
  /\ UNCHANGED <<run, channelMap, mapMutex, targets, alive, fifo, nextEvent, schedVars,
                 tableVars, cmd, itr, stale, queueVars, eventVars, up>>

InManager(w) ==
  /\ pc[w] = "monitor"
  /\ CallStep(w)
  /\ UNCHANGED <<tableVars, workerVars, queueVars, eventVars, up>>

Return(w) ==
  /\ WorkerTo(w, "monitor", "idle")
  /\ callPc[w] = "out"
  /\ UNCHANGED <<mgrVars, tableVars, cmd, itr, stale, queueVars, eventVars, up>>

-----------------------------------------------------------------------------
(* epicsMonitorEvent, on the scheduler thread inside broadcast() *)

\* std::shared_lock slock(channel_map_mtx)
EventLock ==
  /\ schedPc = "handler" /\ evPc = "out"
  /\ writer = "free"
  /\ reader' = TRUE
  /\ evPc' = "event"
  /\ toPublish' = batch
  /\ UNCHANGED <<mgrVars, topics, keys, writer, workerVars, queueVars, nextTopic, published, up>>

\* An event that is not Data is skipped.
EventSkip ==
  /\ evPc = "event" /\ toPublish # <<>> /\ Head(toPublish).type # "Data"
  /\ toPublish' = Tail(toPublish)
  /\ UNCHANGED <<mgrVars, tableVars, workerVars, queueVars, evPc, nextTopic, published, up>>

\* channel_topics_map[e->channel_name], which inserts a missing key.
EventLookup ==
  /\ evPc = "event" /\ toPublish # <<>> /\ Head(toPublish).type = "Data"
  /\ evPc' = "topic"
  /\ nextTopic' = 1
  /\ keys' = keys \cup {Head(toPublish).channel}
  /\ UNCHANGED <<mgrVars, topics, writer, reader, workerVars, queueVars, toPublish, published, up>>

\* publisher->pushMessage for one topic; its result is not looked at.
Publish ==
  LET e == Head(toPublish) IN
  /\ evPc = "topic" /\ nextTopic <= Len(topics[e.channel])
  /\ published' = [published EXCEPT ![<<e.channel, topics[e.channel][nextTopic]>>] = Append(@, e.id)]
  /\ nextTopic' = nextTopic + 1
  /\ UNCHANGED <<mgrVars, tableVars, workerVars, queueVars, evPc, toPublish, up>>

EventDone ==
  /\ evPc = "topic" /\ nextTopic > Len(topics[Head(toPublish).channel])
  /\ evPc' = "event"
  /\ toPublish' = Tail(toPublish)
  /\ UNCHANGED <<mgrVars, tableVars, workerVars, queueVars, nextTopic, published, up>>

EventReturn ==
  /\ evPc = "event" /\ toPublish = <<>>
  /\ evPc' = "out"
  /\ reader' = FALSE
  /\ HandlerReturn
  /\ UNCHANGED <<topics, keys, writer, workerVars, queueVars, toPublish, nextTopic, published, up>>

Scheduler ==
  \/ SchedStep /\ UNCHANGED <<tableVars, workerVars, queueVars, eventVars, up>>
  \/ EventLock \/ EventSkip \/ EventLookup \/ Publish \/ EventDone \/ EventReturn

Network ==
  /\ \E ch \in Channels, type \in {"Data"} \cup Signals : Produce(ch, type)
  /\ UNCHANGED <<tableVars, workerVars, queueVars, eventVars, up>>

-----------------------------------------------------------------------------
(* What the C++ abstract machine leaves undefined *)

\* One thread reads a vector that another is writing under channel_map_mtx.
VectorRace ==
  \E w, u \in Threads :
    w # u /\ Ch(w) = Ch(u) /\ pc[w] = "write" /\ pc[u] \in {"find", "size"}

\* One thread inserts a key in the map while another looks one up in it.
MapRace ==
  \E w \in Threads :
    /\ pc[w] = "ref" /\ Ch(w) \notin keys
    /\ \/ \E u \in Threads \ {w} : pc[u] = "ref" \/ (pc[u] = "write" /\ cmd[u].activate)
       \/ evPc = "event" /\ toPublish # <<>> /\ Head(toPublish).type = "Data"

\* A racing access, the erase of an invalidated iterator and an exception that
\* leaves acquireManagement may each end the process.
MayDie ==
  \/ VectorRace
  \/ MapRace
  \/ \E w \in Threads : pc[w] = "write" /\ ~cmd[w].activate /\ stale[w]
  \/ \E w \in Threads : pc[w] = "monitor" /\ callPc[w] = "threw"

Die ==
  /\ MayDie
  /\ up' = FALSE
  /\ UNCHANGED <<mgrVars, tableVars, workerVars, queueVars, eventVars>>

Worker(w) ==
  \/ TakeTask(w) \/ Ref(w) \/ Find(w) \/ Lock(w) \/ Write(w) \/ Size(w)
  \/ InManager(w) \/ Return(w)

Next ==
  \/ up /\ \/ \E c \in Command : Submit(c)
           \/ \E w \in Threads : Worker(w)
           \/ Scheduler
           \/ Network
           \/ Die
  \/ ~up /\ UNCHANGED vars

\* The operating system schedules every thread, and a thread that waits for
\* one of the two mutexes gets it if it is free again and again: the scheduler
\* sleeps 100 us between two scans.
Fairness ==
  /\ WF_vars(up /\ Scheduler)
  /\ \A w \in Threads : SF_vars(up /\ Worker(w))

Spec == Init /\ [][Next]_vars /\ Fairness

-----------------------------------------------------------------------------
(* Safety *)

Idle(ch) == \A w \in Threads : pc[w] = "idle" \/ Ch(w) # ch

\* No two threads of the pool run commands of one channel at the same time, which
\* the default pool, with a thread for each processor, does not prevent.
Serial == \A w, u \in Threads : w # u /\ pc[w] # "idle" /\ pc[u] # "idle" => Ch(w) # Ch(u)

\* channel_map_mtx: its exclusive owner is the thread about to write, its
\* shared owner the scheduler inside epicsMonitorEvent, and never both.
TableLockOwner ==
  /\ \A w \in Threads : writer = w <=> pc[w] = "write"
  /\ reader <=> evPc # "out"
  /\ reader => writer = "free" /\ schedPc = "handler"

\* Inside the loop over the topics the handler has a Data event in hand.
WalkHasEvent == evPc = "topic" => toPublish # <<>> /\ Head(toPublish).type = "Data"

\* epicsMonitorEvent runs under a shared lock, yet looks the channel up with
\* operator[]: an event only ever comes from a channel whose key a worker has
\* inserted, so the lookup never changes the map.
LookupNeverInserts ==
  \A i \in DOMAIN toPublish : evPc # "out" => toPublish[i].channel \in keys

\* epicsMonitorEvent walks the live vector of a channel: no step changes that
\* vector while the walk is on.
WalkSeesStableTopics ==
  [][evPc = "topic" => UNCHANGED topics]_vars

\* The gateway publishes a channel on a topic only after some command asked
\* for exactly that, whatever the interleaving of commands.
PublishedWasAskedFor ==
  \A ch \in Channels, t \in Topics : published[<<ch, t>>] # <<>> =>
    \E i \in DOMAIN accepted : accepted[i] = [channel |-> ch, topic |-> t, activate |-> TRUE]

\* "if the vec_ref has size > 0 mean that someone is still needed the channel
\* data in monitor way": once no command of a channel is running, the channel
\* is monitored if and only if it has a topic.
MonitoredIffWanted ==
  \A ch \in Channels : Idle(ch) => (InMap(ch) <=> topics[ch] # <<>>)

\* Each event goes to each topic at most once, and in the order of the channel:
\* in particular a topic is never twice in a vector that is published
\* ("check if the topic is already present[fault tollerant check]").
PublishedInOrder ==
  \A p \in Channels \X Topics : \A i, j \in DOMAIN published[p] :
    i < j => published[p][i] < published[p][j]

Pending(ch, t) ==
  \/ \E i \in DOMAIN tasks : tasks[i].channel = ch /\ tasks[i].topic = t
  \/ \E w \in Threads : pc[w] # "idle" /\ Ch(w) = ch /\ cmd[w].topic = t

LastWish(ch, t) ==
  \E i \in DOMAIN accepted :
    /\ accepted[i] = [channel |-> ch, topic |-> t, activate |-> TRUE]
    /\ \A j \in (i + 1)..Len(accepted) :
         accepted[j].channel # ch \/ accepted[j].topic # t

\* After the last command on a channel and topic was a deactivation and has
\* run, nothing of that channel is published on that topic any more.
QuietAfterDeactivation ==
  [][\A ch \in Channels, t \in Topics :
       published'[<<ch, t>>] # published[<<ch, t>>] => Pending(ch, t) \/ LastWish(ch, t)]_vars

-----------------------------------------------------------------------------
(* Refinement: what a user of the gateway sees *)

Wish(c) == [topic |-> c.topic, activate |-> c.activate]

\* The threads whose command on ch has not yet edited the vector, and those
\* that have edited it and not yet brought the monitor in line.
Editing(ch)  == {w \in Threads : Ch(w) = ch /\ pc[w] \in {"ref", "find", "lock", "write"}}
Settling(ch) == {w \in Threads : Ch(w) = ch /\
                   (pc[w] = "size" \/ (pc[w] = "monitor" /\ callPc[w] # "out"))}

\* The commands of s on ch, in their order.  SelectSeq of a lambda, which the
\* provers cannot expand, written as a function of the length looked at.
OfChannel(s, ch) ==
  LET f[n \in 0..Len(s)] ==
        IF n = 0 THEN <<>> ELSE IF s[n].channel = ch THEN Append(f[n - 1], s[n]) ELSE f[n - 1]
  IN f[Len(s)]

Applying(ch) == IF Editing(ch) = {} THEN <<>> ELSE <<cmd[CHOOSE w \in Editing(ch) : TRUE]>>

Wishes(s) == [i \in DOMAIN s |-> Wish(s[i])]

WishQueue(ch) == Wishes(Applying(ch) \o OfChannel(tasks, ch))

Promise == INSTANCE Subscriptions WITH
  queue      <- [ch \in Channels |-> WishQueue(ch)],
  subscribed <- [ch \in Channels |-> ToSet(topics[ch])],
  settled    <- [ch \in Channels |-> Settling(ch) = {}],
  monitored  <- {ch \in Channels : channelMap[ch] = "monitoring"}

\* The table and the monitors behave as Subscriptions says.
KeepsPromise == Promise!Spec

-----------------------------------------------------------------------------
(* Liveness *)

\* Every command that is submitted has run to its end, unless the process died.
CommandsComplete ==
  <>[](~up \/ (tasks = <<>> /\ \A w \in Threads : pc[w] = "idle"))

\* An event queued for a channel that has a topic is published there, unless
\* the topic is deactivated, the channel goes away or the process dies.
QueuedEventsArePublished ==
  \A ch \in Channels, t \in Topics, id \in 1..MaxEvents :
    (Contains(topics[ch], t) /\ \E i \in DOMAIN fifo[ch] : fifo[ch][i].id = id /\ fifo[ch][i].type = "Data")
      ~> (Contains(published[<<ch, t>>], id) \/ ~Contains(topics[ch], t) \/ ~up)

=============================================================================
