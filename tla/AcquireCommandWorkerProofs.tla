-------------------- MODULE AcquireCommandWorkerProofs --------------------
(***************************************************************************)
(* Theorems about AcquireCommandWorker for every set of channels, topics   *)
(* and pool threads, with their proofs.                                    *)
(***************************************************************************)
EXTENDS AcquireCommandWorker, EpicsServiceManagerProofs, SequenceTheorems, NaturalsInduction,
        WellFoundedInduction, TLAPS

USE DEF MutexFree, MutexRelease, Purged, Rest, Stop, TableFree, EditsOf, StaleAfter, Pushed, Needed

\* A command, a call and an event exist, so the initial values are of their type.
LEMMA InitialChoices == (CHOOSE c \in Command : TRUE) \in Command
                     /\ (CHOOSE c \in Call : TRUE) \in Call
<1>1. PICK ch \in Channels : TRUE
  BY ManagerAssumption
<1>2. PICK t \in Topics : TRUE
  BY WorkerAssumption
<1>3. [channel |-> ch, topic |-> t, activate |-> TRUE] \in Command
  BY DEF Command
<1>4. [channel |-> ch, protocol |-> "pva"] \in Call
  BY DEF Call
<1>. QED
  BY <1>3, <1>4

\* erase, whatever iterator it is given, leaves a vector of elements the
\* vector already had.
LEMMA ErasedIsSeq ==
  ASSUME NEW S, NEW v \in Seq(S), NEW i, NEW invalid, NEW u \in Erased(v, i, invalid)
  PROVE  u \in Seq(S)
<1>1. CASE i \in DOMAIN v /\ u = RemoveAt(v, i)
  <2>1. i \in 1..Len(v)
    BY <1>1
  <2>2. SubSeq(v, 1, i - 1) \in Seq(S) /\ SubSeq(v, i + 1, Len(v)) \in Seq(S)
    BY <2>1
  <2>3. QED
    BY <1>1, <2>2 DEF RemoveAt
<1>2. CASE v # <<>> /\ u = Front(v)
  BY <1>2 DEF Front
<1>. QED
  BY <1>1, <1>2 DEF Erased

-----------------------------------------------------------------------------
(* Type correctness *)

LEMMA TypeInit == Init => TypeOK
<1> SUFFICES ASSUME Init PROVE TypeOK
  OBVIOUS
<1>1. MgrTypeOK
  BY ManagerAssumption, WorkerAssumption, InitialChoices DEF Init, MgrInit, MgrTypeOK, Stages
<1>2. cmd \in [Threads -> Command]
  BY InitialChoices DEF Init
<1>3. /\ published \in [Channels \X Topics -> Seq(1..MaxEvents)]
     /\ tasks \in Seq(Command) /\ accepted \in Seq(Command)
     /\ topics \in [Channels -> Seq(Topics)]
     /\ toPublish \in Seq(Event)
  BY DEF Init
<1>4. reader \in BOOLEAN /\ up \in BOOLEAN /\ stale \in [Threads -> BOOLEAN]
  BY Zenon DEF Init
<1>5. /\ keys \in SUBSET Channels /\ writer \in Threads \cup {"free"}
      /\ pc \in [Threads -> {"idle", "ref", "find", "lock", "write", "size", "monitor"}]
      /\ itr \in [Threads -> Nat]
      /\ evPc \in {"out", "event", "topic"}
      /\ nextTopic \in Nat \ {0}
  BY DEF Init
<1>6. QED
  BY <1>1, <1>2, <1>3, <1>4, <1>5 DEF TypeOK

LEMMA TypeWorker ==
  ASSUME TypeOK, NEW w \in Threads, Worker(w)
  PROVE  TypeOK'
<1> USE DEF TypeOK, WorkerTo, Ch, Vec, mgrVars, tableVars, workerVars, queueVars, eventVars
<1>a. MgrTypeOK /\ UNCHANGED mgrVars => MgrTypeOK'
  BY DEF MgrTypeOK, callVars, schedVars
<1>b. Ch(w) \in Channels /\ cmd[w].topic \in Topics /\ Vec(w) \in Seq(Topics)
  BY DEF Command
<1>1. CASE TakeTask(w)
  <2>1. Head(tasks) \in Command /\ Tail(tasks) \in Seq(Command)
    BY <1>1 DEF TakeTask
  <2>2. QED
    BY <1>1, <1>a, <2>1 DEF TakeTask
<1>2. CASE Ref(w)
  BY <1>2, <1>a, <1>b DEF Ref
<1>3. CASE Find(w)
  BY <1>3, <1>a DEF Find
<1>4. CASE Lock(w)
  BY <1>4, <1>a DEF Lock
<1>5. CASE Write(w)
  <2>1. PICK v \in IF cmd[w].activate THEN {Pushed(w)}
                   ELSE Erased(Vec(w), itr[w], stale[w]) :
               topics' = [topics EXCEPT ![Ch(w)] = v]
    BY <1>5 DEF Write
  <2>2. v \in Seq(Topics)
    <3>1. CASE cmd[w].activate
      <4>1. v = Append(Vec(w), cmd[w].topic)
        BY <2>1, <3>1, Zenon
      <4>2. Append(Vec(w), cmd[w].topic) \in Seq(Topics)
        BY <1>b
      <4>3. QED
        BY <4>1, <4>2, Zenon
    <3>2. CASE ~cmd[w].activate
      <4>1. v \in Erased(Vec(w), itr[w], stale[w])
        BY <2>1, <3>2, Zenon
      <4>2. QED
        BY <1>b, <4>1, ErasedIsSeq
    <3>3. QED
      BY <3>1, <3>2
  <2>3. topics' \in [Channels -> Seq(Topics)]
    BY <1>b, <2>1, <2>2
  <2>4. stale' \in [Threads -> BOOLEAN]
    BY <1>5, Zenon DEF Write
  <2>5. QED
    BY <1>5, <1>a, <2>3, <2>4 DEF Write
<1>6. CASE Size(w)
  <2>1. MgrTypeOK'
    BY <1>6, <1>b, MgrTypeMonitorChannel, Zenon DEF Size
  <2>2. QED
    BY <1>6, <2>1 DEF Size
<1>7. CASE InManager(w)
  BY <1>7, MgrTypeCall DEF InManager
<1>8. CASE Return(w)
  BY <1>8, <1>a DEF Return
<1>. QED
  BY <1>1, <1>2, <1>3, <1>4, <1>5, <1>6, <1>7, <1>8 DEF Worker

LEMMA TypeScheduler ==
  ASSUME TypeOK, WalkHasEvent, Scheduler
  PROVE  TypeOK' /\ WalkHasEvent'
<1> USE DEF TypeOK, mgrVars, tableVars, workerVars, queueVars, eventVars
<1>a. MgrTypeOK /\ UNCHANGED mgrVars => MgrTypeOK'
  BY DEF MgrTypeOK, callVars, schedVars
<1>b. ASSUME toPublish # <<>>
      PROVE  /\ Head(toPublish) \in Event /\ Tail(toPublish) \in Seq(Event)
             /\ Head(toPublish).channel \in Channels /\ Head(toPublish).id \in 1..MaxEvents
  <2>1. Head(toPublish) \in Event /\ Tail(toPublish) \in Seq(Event)
    BY <1>b, HeadTailProperties
  <2>2. QED
    BY <2>1 DEF Event
<1> USE DEF WalkHasEvent
<1>1. CASE SchedStep /\ UNCHANGED <<tableVars, workerVars, queueVars, eventVars, up>>
  BY <1>1, MgrTypeSched
<1>2. CASE EventLock
  BY <1>2, <1>a DEF EventLock, MgrTypeOK
<1>3. CASE EventSkip
  BY <1>3, <1>a, <1>b DEF EventSkip
<1>4. CASE EventLookup
  BY <1>4, <1>a, <1>b DEF EventLookup
<1>5. CASE Publish
  <2>0. toPublish # <<>>
    BY <1>5 DEF Publish
  <2>1. topics[Head(toPublish).channel][nextTopic] \in Topics
    BY <1>5, <2>0, <1>b DEF Publish
  <2>2. published' \in [Channels \X Topics -> Seq(1..MaxEvents)]
    BY <1>5, <2>0, <1>b, <2>1 DEF Publish
  <2>3. MgrTypeOK' /\ nextTopic' \in Nat \ {0}
    BY <1>5, <1>a DEF Publish
  <2>4. UNCHANGED <<tasks, accepted, topics, keys, writer, reader, pc, cmd, itr, stale, evPc, toPublish, up>>
    BY <1>5 DEF Publish
  <2>5. QED
    BY <2>2, <2>3, <2>4
<1>6. CASE EventDone
  <2>1. toPublish # <<>>
    BY <1>6 DEF EventDone
  <2>2. QED
    BY <1>6, <1>a, <1>b, <2>1 DEF EventDone
<1>7. CASE EventReturn
  <2>1. MgrTypeOK'
    BY <1>7 DEF EventReturn, HandlerReturn, SchedTo, MgrTypeOK, callVars
  <2>2. QED
    BY <1>7, <2>1 DEF EventReturn
<1>. QED
  BY <1>1, <1>2, <1>3, <1>4, <1>5, <1>6, <1>7 DEF Scheduler

TypeInv == TypeOK /\ WalkHasEvent

LEMMA TypeInvariant == Spec => []TypeInv
<1>1. Init => TypeInv
  BY TypeInit DEF TypeInv, WalkHasEvent, Init
<1>2. TypeInv /\ [Next]_vars => TypeInv'
  <2> SUFFICES ASSUME TypeOK, WalkHasEvent, [Next]_vars PROVE TypeOK' /\ WalkHasEvent'
    BY DEF TypeInv
  <2> USE DEF mgrVars, tableVars, workerVars, queueVars, eventVars
  <2>1. ASSUME NEW c \in Command, Submit(c) PROVE TypeOK' /\ WalkHasEvent'
    BY <2>1 DEF Submit, TypeOK, MgrTypeOK, WalkHasEvent, callVars, schedVars
  <2>2. ASSUME NEW w \in Threads, Worker(w) PROVE TypeOK' /\ WalkHasEvent'
    <3>1. UNCHANGED eventVars
      BY <2>2 DEF Worker, TakeTask, Ref, Find, Lock, Write, Size, InManager, Return
    <3>2. QED
      BY <2>2, <3>1, TypeWorker DEF WalkHasEvent
  <2>3. CASE Scheduler
    BY <2>3, TypeScheduler
  <2>4. CASE Network
    BY <2>4, MgrTypeProduce DEF Network, TypeOK, WalkHasEvent
  <2>5. CASE Die
    <3>1. MgrTypeOK'
      BY <2>5 DEF Die, TypeOK, MgrTypeOK, callVars, schedVars
    <3>2. up' \in BOOLEAN /\ UNCHANGED <<tableVars, workerVars, queueVars, eventVars>>
      BY <2>5 DEF Die
    <3>3. QED
      BY <3>1, <3>2 DEF TypeOK, WalkHasEvent
  <2>6. CASE UNCHANGED vars
    BY <2>6 DEF vars, TypeOK, MgrTypeOK, WalkHasEvent, callVars, schedVars
  <2>. QED
    BY <2>1, <2>2, <2>3, <2>4, <2>5, <2>6 DEF Next
<1>3. QED
  BY <1>1, <1>2, PTL DEF Spec

\* Every variable keeps its type: in particular an erase, whatever iterator it
\* is given, leaves a vector of topics.
THEOREM TypeCorrect == Spec => []TypeOK
<1>1. TypeInv => TypeOK
  BY DEF TypeInv
<1>2. QED
  BY <1>1, TypeInvariant, PTL

-----------------------------------------------------------------------------
(* The two mutexes *)

LEMMA MgrSafeStep ==
  ASSUME TypeOK, MgrSafe, [Next]_vars
  PROVE  MgrSafe'
<1> USE DEF TypeOK
<1>a. UNCHANGED mgrVars => MgrSafe'
  BY MgrSafeUnchanged DEF mgrVars, schedVars
<1>1. ASSUME NEW c \in Command, Submit(c) PROVE MgrSafe'
  BY <1>1, <1>a DEF Submit
<1>2. ASSUME NEW w \in Threads, Worker(w) PROVE MgrSafe'
  <2>1. CASE Size(w)
    <3>1. Ch(w) \in Channels
      BY DEF Ch, Command
    <3>2. QED
      BY <2>1, <3>1, MgrSafeMonitorChannel, Zenon DEF Size, TypeOK
  <2>2. CASE InManager(w)
    BY <2>2, MgrSafeCall DEF InManager
  <2>3. CASE TakeTask(w) \/ Ref(w) \/ Find(w) \/ Lock(w) \/ Write(w) \/ Return(w)
    BY <2>3, <1>a DEF TakeTask, Ref, Find, Lock, Write, Return
  <2>4. QED
    BY <1>2, <2>1, <2>2, <2>3 DEF Worker
<1>3. CASE Scheduler
  <2>1. CASE SchedStep
    BY <2>1, MgrSafeSched
  <2>2. CASE EventReturn
    BY <2>2, MgrSafeReturn DEF EventReturn
  <2>3. CASE EventLock \/ EventSkip \/ EventLookup \/ Publish \/ EventDone
    BY <2>3, <1>a DEF EventLock, EventSkip, EventLookup, Publish, EventDone
  <2>4. QED
    BY <1>3, <2>1, <2>2, <2>3 DEF Scheduler
<1>4. CASE Network
  BY <1>4, MgrSafeUnchanged DEF Network, Produce, schedVars
<1>5. CASE Die
  BY <1>5, <1>a DEF Die
<1>6. CASE UNCHANGED vars
  BY <1>6, <1>a DEF vars
<1>. QED
  BY <1>1, <1>2, <1>3, <1>4, <1>5, <1>6 DEF Next

\* channel_map_mutex is owned by the one thread inside the region it guards,
\* the scan of the scheduler meets only channels that are in the map and
\* started, and a half-built entry belongs to the call that holds the mutex:
\* for any number of pool threads and channels.
THEOREM ManagerSafe == Spec => [](MutexOwner /\ ScanMeetsStartedChannels /\ HalfBuiltIsOwned)
<1>1. Init => MgrSafe
  BY MgrSafeInit DEF Init
<1>2. TypeOK /\ MgrSafe /\ [Next]_vars => MgrSafe'
  BY MgrSafeStep
<1>3. MgrSafe => MutexOwner /\ ScanMeetsStartedChannels /\ HalfBuiltIsOwned
  BY DEF MgrSafe
<1>4. QED
  BY <1>1, <1>2, <1>3, TypeCorrect, PTL DEF Spec

LEMMA TableLockStep ==
  ASSUME TypeOK, TableLockOwner, [Next]_vars
  PROVE  TableLockOwner'
<1> USE ManagerAssumption
    DEF TypeOK, TableLockOwner, WorkerTo, mgrVars, tableVars, workerVars, queueVars, eventVars,
        schedVars
<1>1. ASSUME NEW c \in Command, Submit(c) PROVE TableLockOwner'
  BY <1>1 DEF Submit
<1>2. ASSUME NEW w \in Threads, Worker(w) PROVE TableLockOwner'
  <2>1. CASE TakeTask(w)
    BY <2>1 DEF TakeTask
  <2>2. CASE Ref(w)
    BY <2>2 DEF Ref
  <2>3. CASE Find(w)
    BY <2>3 DEF Find
  <2>4. CASE Lock(w)
    BY <2>4 DEF Lock
  <2>5. CASE Write(w)
    BY <2>5 DEF Write
  <2>6. CASE Size(w)
    BY <2>6 DEF Size
  <2>7. CASE InManager(w)
    BY <2>7 DEF InManager, CallStep, AddLock, AddCreate, AddConnect, AddStart, AddThrow,
                RemoveChannel
  <2>8. CASE Return(w)
    BY <2>8 DEF Return
  <2>9. QED
    BY <1>2, <2>1, <2>2, <2>3, <2>4, <2>5, <2>6, <2>7, <2>8 DEF Worker
<1>3. CASE Scheduler
  <2>1. CASE SchedStep /\ UNCHANGED <<tableVars, workerVars, queueVars, eventVars, up>>
    <3>1. schedPc # "handler"
      BY <2>1 DEF SchedStep, SchedLock, SchedPoll, SchedCall, SchedSkip, SchedEndBroadcast,
                  SchedUnlock, SchedExit, SchedTo
    <3>2. QED
      BY <2>1, <3>1
  <2>2. CASE EventLock
    BY <2>2 DEF EventLock
  <2>3. CASE EventSkip \/ EventLookup \/ Publish \/ EventDone
    BY <2>3 DEF EventSkip, EventLookup, Publish, EventDone
  <2>4. CASE EventReturn
    BY <2>4 DEF EventReturn
  <2>5. QED
    BY <1>3, <2>1, <2>2, <2>3, <2>4 DEF Scheduler
<1>4. CASE Network
  BY <1>4 DEF Network, Produce
<1>5. CASE Die
  BY <1>5 DEF Die
<1>6. CASE UNCHANGED vars
  BY <1>6 DEF vars
<1>. QED
  BY <1>1, <1>2, <1>3, <1>4, <1>5, <1>6 DEF Next

\* channel_map_mtx is held exclusively by exactly the thread about to write a
\* vector, shared by exactly epicsMonitorEvent, and never both.
THEOREM TableLockSafe == Spec => []TableLockOwner
<1>1. Init => TableLockOwner
  BY ManagerAssumption DEF Init, TableLockOwner
<1>2. TypeOK /\ TableLockOwner /\ [Next]_vars => TableLockOwner'
  BY TableLockStep
<1>3. QED
  BY <1>1, <1>2, TypeCorrect, PTL DEF Spec

LEMMA OnlyWriteEdits ==
  ASSUME [Next]_vars, \A w \in Threads : pc[w] # "write"
  PROVE  UNCHANGED topics
<1> USE DEF mgrVars, tableVars, workerVars, queueVars, eventVars
<1>1. ASSUME NEW c \in Command, Submit(c) PROVE UNCHANGED topics
  BY <1>1 DEF Submit
<1>2. ASSUME NEW w \in Threads, Worker(w) PROVE UNCHANGED topics
  BY <1>2 DEF Worker, WorkerTo, TakeTask, Ref, Find, Lock, Write, Size, InManager, Return
<1>3. CASE Scheduler
  BY <1>3 DEF Scheduler, EventLock, EventSkip, EventLookup, Publish, EventDone, EventReturn
<1>4. CASE Network \/ Die \/ UNCHANGED vars
  BY <1>4 DEF Network, Die, vars
<1>. QED
  BY <1>1, <1>2, <1>3, <1>4 DEF Next

\* The vector epicsMonitorEvent is walking never changes under it.
THEOREM WalkStable == Spec => WalkSeesStableTopics
<1>1. TableLockOwner /\ [Next]_vars => [evPc = "topic" => UNCHANGED topics]_vars
  <2> SUFFICES ASSUME TableLockOwner, [Next]_vars, evPc = "topic"
               PROVE  UNCHANGED topics
    OBVIOUS
  <2>1. \A w \in Threads : pc[w] # "write"
    BY ManagerAssumption DEF TableLockOwner
  <2>2. QED
    BY <2>1, OnlyWriteEdits
<1>2. QED
  BY <1>1, TableLockSafe, PTL DEF Spec, WalkSeesStableTopics

-----------------------------------------------------------------------------
(* Nothing is published that was not asked for *)

\* The topics some submitted command activated on a channel.
Asked(ch) == {t \in Topics : \E i \in DOMAIN accepted :
                accepted[i] = [channel |-> ch, topic |-> t, activate |-> TRUE]}

WasAccepted(c) == \E i \in DOMAIN accepted : accepted[i] = c

AskedInv ==
  /\ \A i \in DOMAIN tasks : WasAccepted(tasks[i])
  /\ \A w \in Threads : pc[w] # "idle" => WasAccepted(cmd[w])
  /\ \A ch \in Channels : topics[ch] \in Seq(Asked(ch))
  /\ \A ch \in Channels, t \in Topics : published[<<ch, t>>] # <<>> => t \in Asked(ch)

LEMMA AskedSame ==
  ASSUME AskedInv, UNCHANGED <<accepted, tasks, topics, published>>,
         \A w \in Threads : pc'[w] # "idle" => pc[w] # "idle" /\ cmd'[w] = cmd[w]
  PROVE  AskedInv'
<1>1. \A ch : Asked(ch)' = Asked(ch)
  BY DEF Asked
<1>2. \A c : WasAccepted(c)' <=> WasAccepted(c)
  BY DEF WasAccepted
<1>3. \A i \in DOMAIN tasks' : WasAccepted(tasks[i])'
  BY <1>2 DEF AskedInv
<1>4. \A w \in Threads : pc'[w] # "idle" => WasAccepted(cmd[w])' /\ cmd'[w] = cmd[w]
  BY <1>2 DEF AskedInv
<1>5. QED
  BY <1>1, <1>3, <1>4 DEF AskedInv, WasAccepted, Asked

LEMMA AskedSubmit ==
  ASSUME TypeOK, AskedInv, NEW c \in Command, Submit(c)
  PROVE  AskedInv'
<1> USE DEF TypeOK
<1>1. /\ accepted' = Append(accepted, c) /\ tasks' = Append(tasks, c)
      /\ UNCHANGED <<topics, published, pc, cmd>>
  BY DEF Submit, tableVars, workerVars, eventVars
<1>2. ASSUME NEW d, WasAccepted(d) PROVE WasAccepted(d)'
  <2>1. PICK i \in DOMAIN accepted : accepted[i] = d
    BY <1>2 DEF WasAccepted
  <2>2. i \in DOMAIN accepted' /\ accepted'[i] = d
    BY <1>1, <2>1
  <2>3. QED
    BY <2>2 DEF WasAccepted
<1>3. WasAccepted(c)'
  <2>1. Len(accepted) + 1 \in DOMAIN accepted' /\ accepted'[Len(accepted) + 1] = c
    BY <1>1
  <2>2. QED
    BY <2>1 DEF WasAccepted
<1>4. \A ch \in Channels : Asked(ch) \subseteq Asked(ch)'
  BY <1>2 DEF Asked, WasAccepted
<1>5. ASSUME NEW i \in DOMAIN tasks' PROVE WasAccepted(tasks[i])'
  <2>1. CASE i \in DOMAIN tasks
    <3>1. tasks'[i] = tasks[i] /\ WasAccepted(tasks[i])
      BY <1>1, <2>1 DEF AskedInv
    <3>2. QED
      BY <1>2, <3>1 DEF WasAccepted
  <2>2. CASE i = Len(tasks) + 1
    <3>1. tasks'[i] = c
      BY <1>1, <2>2
    <3>2. QED
      BY <1>3, <3>1 DEF WasAccepted
  <2>3. QED
    BY <1>1, <1>5, <2>1, <2>2
<1>6. \A w \in Threads : pc'[w] # "idle" => WasAccepted(cmd[w])'
  <2>1. ASSUME NEW w \in Threads, pc'[w] # "idle" PROVE WasAccepted(cmd[w])'
    <3>1. WasAccepted(cmd[w]) /\ cmd'[w] = cmd[w]
      BY <1>1, <2>1 DEF AskedInv
    <3>2. QED
      BY <1>2, <3>1 DEF WasAccepted
  <2>2. QED
    BY <2>1
<1>7. \A ch \in Channels : topics'[ch] \in Seq(Asked(ch)')
  BY <1>1, <1>4 DEF AskedInv
<1>8. QED
  BY <1>1, <1>4, <1>5, <1>6, <1>7 DEF AskedInv

LEMMA AskedTake ==
  ASSUME TypeOK, AskedInv, NEW w \in Threads, TakeTask(w)
  PROVE  AskedInv'
<1> USE DEF TypeOK
<1>1. /\ tasks # <<>> /\ tasks' = Tail(tasks) /\ cmd' = [cmd EXCEPT ![w] = Head(tasks)]
      /\ pc' = [pc EXCEPT ![w] = "ref"]
      /\ UNCHANGED <<accepted, topics, published>>
  BY DEF TakeTask, WorkerTo, tableVars, eventVars
<1>2. /\ \A ch : Asked(ch)' = Asked(ch)
      /\ \A c : WasAccepted(c)' <=> WasAccepted(c)
  BY <1>1 DEF Asked, WasAccepted
<1>3. WasAccepted(Head(tasks))
  BY <1>1 DEF AskedInv
<1>4. ASSUME NEW i \in DOMAIN tasks' PROVE WasAccepted(tasks'[i])
  <2>1. i + 1 \in DOMAIN tasks /\ tasks'[i] = tasks[i + 1]
    BY <1>1
  <2>2. QED
    BY <2>1 DEF AskedInv
<1>5. \A u \in Threads : pc'[u] # "idle" => WasAccepted(cmd'[u])
  BY <1>1, <1>3 DEF AskedInv
<1>6. \A i \in DOMAIN tasks' : WasAccepted(tasks[i])'
  BY <1>1, <1>4 DEF WasAccepted
<1>7. \A u \in Threads : pc'[u] # "idle" => WasAccepted(cmd[u])'
  BY <1>1, <1>5 DEF WasAccepted
<1>8. \A ch \in Channels : topics'[ch] \in Seq(Asked(ch)')
  BY <1>1, <1>2 DEF AskedInv
<1>9. QED
  BY <1>1, <1>2, <1>6, <1>7, <1>8 DEF AskedInv

LEMMA AskedWrite ==
  ASSUME TypeOK, AskedInv, NEW w \in Threads, Write(w)
  PROVE  AskedInv'
<1> USE DEF TypeOK
<1>a. Ch(w) \in Channels /\ cmd[w].topic \in Topics /\ cmd[w].activate \in BOOLEAN
  BY DEF Ch, Command
<1>1. /\ pc[w] = "write" /\ pc' = [pc EXCEPT ![w] = "size"]
      /\ UNCHANGED <<accepted, tasks, cmd, published>>
  BY DEF Write, WorkerTo, queueVars, eventVars
<1>2. PICK v \in IF cmd[w].activate THEN {Pushed(w)}
                 ELSE Erased(Vec(w), itr[w], stale[w]) :
             topics' = [topics EXCEPT ![Ch(w)] = v]
  BY DEF Write
<1>3. Vec(w) \in Seq(Asked(Ch(w)))
  BY <1>a DEF AskedInv, Vec
<1>4. v \in Seq(Asked(Ch(w)))
  <2>1. CASE cmd[w].activate
    <3>1. v = Append(Vec(w), cmd[w].topic)
      BY <1>2, <2>1, Zenon
    <3>2. WasAccepted(cmd[w])
      BY <1>1 DEF AskedInv
    <3>3. cmd[w] = [channel |-> Ch(w), topic |-> cmd[w].topic, activate |-> TRUE]
      BY <2>1 DEF Ch, Command
    <3>4. cmd[w].topic \in Asked(Ch(w))
      BY <1>a, <3>2, <3>3 DEF Asked, WasAccepted
    <3>5. Append(Vec(w), cmd[w].topic) \in Seq(Asked(Ch(w)))
      BY <1>3, <3>4
    <3>6. QED
      BY <3>1, <3>5, Zenon
  <2>2. CASE ~cmd[w].activate
    <3>1. v \in Erased(Vec(w), itr[w], stale[w])
      BY <1>2, <2>2, Zenon
    <3>2. QED
      BY <1>3, <3>1, ErasedIsSeq
  <2>3. QED
    BY <2>1, <2>2
<1>5. /\ \A ch : Asked(ch)' = Asked(ch)
      /\ \A c : WasAccepted(c)' <=> WasAccepted(c)
  BY <1>1 DEF Asked, WasAccepted
<1>6. \A ch \in Channels : topics'[ch] \in Seq(Asked(ch))
  BY <1>a, <1>2, <1>4 DEF AskedInv
<1>7. \A u \in Threads : pc'[u] # "idle" => pc[u] # "idle"
  BY <1>1
<1>8. \A i \in DOMAIN tasks' : WasAccepted(tasks[i])'
  BY <1>1 DEF AskedInv, WasAccepted
<1>9. \A u \in Threads : pc'[u] # "idle" => WasAccepted(cmd[u])'
  BY <1>1, <1>7 DEF AskedInv, WasAccepted
<1>10. \A ch \in Channels : topics'[ch] \in Seq(Asked(ch)')
  BY <1>5, <1>6
<1>11. QED
  BY <1>1, <1>5, <1>8, <1>9, <1>10 DEF AskedInv

LEMMA AskedPublish ==
  ASSUME TypeOK, WalkHasEvent, AskedInv, Publish
  PROVE  AskedInv'
<1> USE DEF TypeOK
<1> DEFINE e == Head(toPublish)
           t == topics[e.channel][nextTopic]
<1>1. /\ evPc = "topic" /\ nextTopic \in 1..Len(topics[e.channel])
      /\ published' = [published EXCEPT ![<<e.channel, t>>] = Append(@, e.id)]
      /\ UNCHANGED <<accepted, tasks, topics, pc, cmd>>
  BY DEF Publish, tableVars, workerVars, queueVars
<1>2. e.channel \in Channels
  <2>1. e \in Event
    BY <1>1, HeadTailProperties DEF WalkHasEvent
  <2>2. QED
    BY <2>1 DEF Event
<1>3. t \in Asked(e.channel)
  BY <1>1, <1>2 DEF AskedInv
<1>4. /\ \A ch : Asked(ch)' = Asked(ch)
      /\ \A c : WasAccepted(c)' <=> WasAccepted(c)
  BY <1>1 DEF Asked, WasAccepted
<1>5. ASSUME NEW ch \in Channels, NEW u \in Topics, published'[<<ch, u>>] # <<>>
      PROVE  u \in Asked(ch)
  <2>1. CASE <<ch, u>> = <<e.channel, t>>
    BY <1>3, <2>1
  <2>2. CASE <<ch, u>> # <<e.channel, t>>
    <3>1. published'[<<ch, u>>] = published[<<ch, u>>]
      BY <1>1, <2>2
    <3>2. QED
      BY <1>5, <3>1 DEF AskedInv
  <2>3. QED
    BY <2>1, <2>2
<1>6. \A i \in DOMAIN tasks' : WasAccepted(tasks[i])'
  BY <1>1 DEF AskedInv, WasAccepted
<1>7. \A u \in Threads : pc'[u] # "idle" => WasAccepted(cmd[u])'
  BY <1>1 DEF AskedInv, WasAccepted
<1>8. \A ch \in Channels : topics'[ch] \in Seq(Asked(ch)')
  BY <1>1, <1>4 DEF AskedInv
<1>9. QED
  BY <1>4, <1>5, <1>6, <1>7, <1>8 DEF AskedInv

LEMMA AskedStep ==
  ASSUME TypeOK, WalkHasEvent, AskedInv, [Next]_vars
  PROVE  AskedInv'
<1> USE DEF TypeOK, mgrVars, tableVars, workerVars, queueVars, eventVars
<1>1. ASSUME NEW c \in Command, Submit(c) PROVE AskedInv'
  BY <1>1, AskedSubmit
<1>2. ASSUME NEW w \in Threads, Worker(w) PROVE AskedInv'
  <2>1. CASE TakeTask(w)
    BY <2>1, AskedTake
  <2>2. CASE Write(w)
    BY <2>2, AskedWrite
  <2>3. CASE Ref(w) \/ Find(w) \/ Lock(w) \/ Size(w) \/ Return(w) \/ InManager(w)
    <3>1. /\ UNCHANGED <<accepted, tasks, topics, published, cmd>>
          /\ \A u \in Threads : pc'[u] # "idle" => pc[u] # "idle"
      BY <2>3 DEF Ref, Find, Lock, Size, Return, InManager, WorkerTo
    <3>2. QED
      BY <3>1, AskedSame
  <2>4. QED
    BY <1>2, <2>1, <2>2, <2>3 DEF Worker
<1>3. CASE Publish
  BY <1>3, AskedPublish
<1>4. CASE Scheduler /\ ~Publish
  <2>1. UNCHANGED <<accepted, tasks, topics, published, cmd, pc>>
    BY <1>4 DEF Scheduler, EventLock, EventSkip, EventLookup, EventDone, EventReturn
  <2>2. QED
    BY <2>1, AskedSame
<1>5. CASE Network \/ Die \/ UNCHANGED vars
  <2>1. UNCHANGED <<accepted, tasks, topics, published, cmd, pc>>
    BY <1>5 DEF Network, Die, vars
  <2>2. QED
    BY <2>1, AskedSame
<1>. QED
  BY <1>1, <1>2, <1>3, <1>4, <1>5 DEF Next

\* Whatever the number of pool threads, the interleaving of commands and the
\* iterators they erase with, a channel is published on a topic only after a
\* command asked for that channel on that topic.
THEOREM PublishedOnlyOnRequest == Spec => []PublishedWasAskedFor
<1>1. Init => AskedInv
  <2> SUFFICES ASSUME Init PROVE AskedInv
    OBVIOUS
  <2>1. ASSUME NEW ch \in Channels PROVE topics[ch] \in Seq(Asked(ch))
    <3>1. topics[ch] = <<>>
      BY DEF Init
    <3>2. <<>> \in Seq(Asked(ch))
      OBVIOUS
    <3>3. QED
      BY <3>1, <3>2, Zenon
  <2>2. QED
    BY <2>1 DEF Init, AskedInv
<1>2. TypeInv /\ AskedInv /\ [Next]_vars => AskedInv'
  BY AskedStep DEF TypeInv
<1>3. AskedInv => PublishedWasAskedFor
  BY DEF AskedInv, Asked, PublishedWasAskedFor
<1>4. QED
  BY <1>1, <1>2, <1>3, TypeInvariant, PTL DEF Spec

-----------------------------------------------------------------------------
(* The lookup of the handler *)

\* A thread that has made vec_ref has inserted its key, and everything that
\* leads to an event of a channel comes after that.
CallOfWorker ==
  \A w \in Threads : callPc[w] # "out" => pc[w] = "monitor" /\ callArg[w].channel = Ch(w)

KeyInv ==
  /\ \A w \in Threads : pc[w] \notin {"idle", "ref"} => Ch(w) \in keys
  /\ \A ch \in Channels : InMap(ch) => ch \in keys
  /\ \A ch \in Channels : \A i \in DOMAIN fifo[ch] : fifo[ch][i].channel \in keys
  /\ \A i \in DOMAIN batch : batch[i].channel \in keys
  /\ \A i \in DOMAIN toPublish : toPublish[i].channel \in keys

LEMMA CallOfWorkerStep ==
  ASSUME TypeOK, CallOfWorker, [Next]_vars
  PROVE  CallOfWorker'
<1> USE DEF TypeOK, MgrTypeOK, CallOfWorker, Ch, mgrVars, tableVars, workerVars, queueVars,
            eventVars, callVars, schedVars
<1>1. ASSUME NEW c \in Command, Submit(c) PROVE CallOfWorker'
  BY <1>1 DEF Submit
<1>2. ASSUME NEW w \in Threads, Worker(w) PROVE CallOfWorker'
  <2>1. CASE TakeTask(w) \/ Ref(w) \/ Find(w) \/ Lock(w) \/ Write(w) \/ Return(w)
    <3>1. UNCHANGED <<callPc, callArg>> /\ (pc[w] # "monitor" \/ callPc[w] = "out")
      BY <2>1 DEF TakeTask, Ref, Find, Lock, Write, Return, WorkerTo
    <3>2. \A u \in Threads \ {w} : pc'[u] = pc[u] /\ cmd'[u] = cmd[u]
      BY <2>1 DEF TakeTask, Ref, Find, Lock, Write, Return, WorkerTo
    <3>3. callPc[w] = "out"
      BY <3>1
    <3>4. QED
      BY <3>1, <3>2, <3>3
  <2>2. CASE Size(w)
    <3>1. callArg'[w].channel = Ch(w) /\ \A u \in Threads \ {w} : callArg'[u] = callArg[u]
      <4>1. callArg \in [Threads -> Call] /\ callArg[w] \in Call
        OBVIOUS
      <4>2. \/ callArg' = [callArg EXCEPT ![w] = [channel |-> Ch(w), protocol |-> "pva"]]
            \/ callArg' = [callArg EXCEPT ![w].channel = Ch(w)]
        BY ONLY <2>2 DEF Size, MonitorChannel, CallAdd, CallRemove, Ch
      <4>3. QED
        BY ONLY <4>1, <4>2 DEF Call
    <3>2. \A u \in Threads \ {w} : callPc'[u] = callPc[u]
      BY <2>2 DEF Size, MonitorChannel, CallAdd, CallRemove, CallPc
    <3>3. QED
      BY <2>2, <3>1, <3>2 DEF Size, WorkerTo
  <2>3. CASE InManager(w)
    <3>1. callArg' = callArg /\ \A u \in Threads \ {w} : callPc'[u] = callPc[u]
      BY <2>3 DEF InManager, CallStep, AddLock, AddCreate, AddConnect, AddStart, AddThrow,
                  RemoveChannel, CallPc
    <3>2. callPc[w] # "out"
      BY <2>3 DEF InManager, CallStep, AddLock, AddCreate, AddConnect, AddStart, AddThrow,
                  RemoveChannel, CallPc
    <3>3. QED
      BY <2>3, <3>1, <3>2 DEF InManager
  <2>4. QED
    BY <1>2, <2>1, <2>2, <2>3 DEF Worker
<1>3. CASE Scheduler
  BY <1>3 DEF Scheduler, SchedStep, SchedLock, SchedPoll, SchedCall, SchedSkip,
     SchedEndBroadcast, SchedUnlock, SchedExit, EventLock, EventSkip, EventLookup, Publish,
     EventDone, EventReturn, HandlerReturn
<1>4. CASE Network
  BY <1>4 DEF Network, Produce
<1>5. CASE Die \/ UNCHANGED vars
  BY <1>5 DEF Die, vars
<1>. QED
  BY <1>1, <1>2, <1>3, <1>4, <1>5 DEF Next

LEMMA KeySame ==
  ASSUME KeyInv, keys \subseteq keys', UNCHANGED <<cmd, channelMap, fifo, batch, toPublish>>,
         \A w \in Threads : pc'[w] \notin {"idle", "ref"} =>
           pc[w] \notin {"idle", "ref"} \/ Ch(w) \in keys'
  PROVE  KeyInv'
BY DEF KeyInv, InMap, Ch

LEMMA KeyWorker ==
  ASSUME TypeOK, CallOfWorker, KeyInv, NEW w \in Threads, Worker(w)
  PROVE  KeyInv'
<1> USE DEF TypeOK, MgrTypeOK, mgrVars, tableVars, workerVars, queueVars, eventVars, callVars,
            schedVars
<1>1. CASE TakeTask(w)
  BY <1>1 DEF TakeTask, WorkerTo, KeyInv, InMap, Ch
<1>2. CASE Ref(w)
  BY <1>2, KeySame DEF Ref, WorkerTo
<1>3. CASE Find(w) \/ Lock(w) \/ Write(w) \/ Return(w) \/ Size(w)
  BY <1>3, KeySame DEF Find, Lock, Write, Return, Size, WorkerTo
<1>4. CASE InManager(w)
  <2>1. callPc[w] # "out"
    BY <1>4 DEF InManager, CallStep, AddLock, AddCreate, AddConnect, AddStart, AddThrow,
                RemoveChannel, CallPc
  <2>2. callArg[w].channel \in keys /\ callArg[w].channel \in Channels
    BY <1>4, <2>1 DEF CallOfWorker, KeyInv, InManager, Ch, Command
  <2>3. \A ch \in Channels : channelMap'[ch] = channelMap[ch] \/ ch \in keys
    BY <1>4, <2>2 DEF InManager, CallStep, AddLock, AddCreate, AddConnect, AddStart, AddThrow,
                RemoveChannel, SetStage
  <2>4. \A ch \in Channels : fifo'[ch] = fifo[ch] \/ fifo'[ch] = <<>>
    BY <1>4, <2>2 DEF InManager, CallStep, AddLock, AddCreate, AddConnect, AddStart, AddThrow,
                RemoveChannel
  <2>5. UNCHANGED <<keys, pc, cmd, batch, toPublish>>
    BY <1>4 DEF InManager, CallStep, AddLock, AddCreate, AddConnect, AddStart, AddThrow,
                RemoveChannel
  <2>6. \A ch \in Channels : InMap(ch)' => ch \in keys'
    BY <2>3, <2>5 DEF KeyInv, InMap
  <2>7. ASSUME NEW ch \in Channels, NEW i \in DOMAIN fifo'[ch]
        PROVE  fifo'[ch][i].channel \in keys'
    <3>1. fifo'[ch] = fifo[ch]
      BY <2>4, <2>7
    <3>2. i \in DOMAIN fifo[ch] /\ fifo'[ch][i] = fifo[ch][i]
      BY <3>1, <2>7
    <3>3. fifo[ch][i].channel \in keys
      BY <3>2 DEF KeyInv
    <3>4. QED
      BY <2>5, <3>2, <3>3
  <2>8. QED
    BY <2>5, <2>6, <2>7 DEF KeyInv, Ch
<1>. QED
  BY <1>1, <1>2, <1>3, <1>4 DEF Worker

LEMMA KeyScheduler ==
  ASSUME TypeOK, WalkHasEvent, KeyInv, Scheduler
  PROVE  KeyInv'
<1> USE DEF TypeOK, MgrTypeOK, mgrVars, tableVars, workerVars, queueVars, eventVars, callVars,
            schedVars
<1>1. ASSUME NEW ch \in Channels, SchedPoll(ch),
             UNCHANGED <<tableVars, workerVars, queueVars, eventVars, up>>
      PROVE  KeyInv'
  <2>1. PICK n \in 0..Len(fifo[ch]) :
          /\ batch' = SubSeq(fifo[ch], 1, n)
          /\ fifo' = [fifo EXCEPT ![ch] = SubSeq(@, n + 1, Len(@))]
    BY <1>1 DEF SchedPoll
  <2>2. fifo[ch] \in Seq(Event) /\ Len(fifo[ch]) \in Nat /\ fifo'[ch] = SubSeq(fifo[ch], n + 1, Len(fifo[ch]))
    BY <2>1
  <2>3. \A i \in DOMAIN batch' : i \in DOMAIN fifo[ch] /\ batch'[i] = fifo[ch][i]
    BY ONLY <2>1, <2>2
  <2>4. \A i \in DOMAIN fifo'[ch] : n + i \in DOMAIN fifo[ch] /\ fifo'[ch][i] = fifo[ch][n + i]
    BY ONLY <2>1, <2>2
  <2>5. \A c \in Channels \ {ch} : fifo'[c] = fifo[c]
    BY <2>1
  <2>6. UNCHANGED <<keys, pc, cmd, channelMap, toPublish>>
    BY <1>1 DEF SchedPoll
  <2>7. \A i \in DOMAIN batch' : batch'[i].channel \in keys'
    BY <2>3, <2>6 DEF KeyInv
  <2>8. \A c \in Channels : \A i \in DOMAIN fifo'[c] : fifo'[c][i].channel \in keys'
    <3>1. \A c \in Channels : \A i \in DOMAIN fifo[c] : fifo[c][i].channel \in keys
      BY DEF KeyInv
    <3>2. ASSUME NEW c \in Channels, NEW i \in DOMAIN fifo'[c]
          PROVE  fifo'[c][i].channel \in keys'
      <4>1. CASE c = ch
        BY <2>4, <2>6, <3>1, <3>2, <4>1
      <4>2. CASE c # ch
        BY <2>5, <2>6, <3>1, <3>2, <4>2
      <4>3. QED
        BY <4>1, <4>2
    <3>3. QED
      BY <3>2
  <2>9. QED
    BY <2>6, <2>7, <2>8 DEF KeyInv, InMap, Ch
<1>2. CASE \/ SchedLock \/ SchedEndBroadcast \/ SchedUnlock \/ SchedExit
           \/ \E h \in Handlers : SchedCall(h) \/ SchedSkip(h)
  <2>1. UNCHANGED <<keys, pc, cmd, channelMap, fifo, batch, toPublish>>
    BY <1>2 DEF Scheduler, SchedStep, SchedLock, SchedPoll, SchedEndBroadcast, SchedUnlock,
                SchedExit, SchedCall, SchedSkip, EventLock, EventSkip, EventLookup, Publish,
                EventDone, EventReturn, HandlerReturn, SchedTo
  <2>2. QED
    BY <2>1, KeySame
<1>3. CASE EventLock
  BY <1>3 DEF EventLock, KeyInv, InMap, Ch
<1>4. CASE EventSkip \/ EventDone
  <2>1. toPublish # <<>> /\ toPublish' = Tail(toPublish)
    BY <1>4 DEF EventSkip, EventDone, WalkHasEvent
  <2>2. \A i \in DOMAIN toPublish' : i + 1 \in DOMAIN toPublish /\ toPublish'[i] = toPublish[i + 1]
    BY <2>1
  <2>3. UNCHANGED <<keys, pc, cmd, channelMap, fifo, batch>>
    BY <1>4 DEF EventSkip, EventDone
  <2>4. QED
    BY <2>2, <2>3 DEF KeyInv, InMap, Ch
<1>5. CASE EventLookup \/ Publish \/ EventReturn
  <2>1. keys \subseteq keys' /\ UNCHANGED <<pc, cmd, channelMap, fifo, batch, toPublish>>
    BY <1>5 DEF EventLookup, Publish, EventReturn, HandlerReturn
  <2>2. QED
    BY <2>1, KeySame
<1>. QED
  BY <1>1, <1>2, <1>3, <1>4, <1>5 DEF Scheduler, SchedStep

LEMMA KeyStep ==
  ASSUME TypeOK, WalkHasEvent, CallOfWorker, KeyInv, [Next]_vars
  PROVE  KeyInv'
<1> USE DEF TypeOK, mgrVars, tableVars, workerVars, queueVars, eventVars, schedVars
<1>1. ASSUME NEW c \in Command, Submit(c) PROVE KeyInv'
  BY <1>1, KeySame DEF Submit
<1>2. ASSUME NEW w \in Threads, Worker(w) PROVE KeyInv'
  BY <1>2, KeyWorker
<1>3. CASE Scheduler
  BY <1>3, KeyScheduler
<1>4. ASSUME NEW ch \in Channels, NEW type \in {"Data"} \cup Signals, Produce(ch, type),
             UNCHANGED <<tableVars, workerVars, queueVars, eventVars, up>>
      PROVE  KeyInv'
  <2>1. PICK e : e.channel = ch /\ fifo' = [fifo EXCEPT ![ch] = Append(@, e)]
    BY <1>4 DEF Produce
  <2>2. ch \in keys
    BY <1>4 DEF Produce, KeyInv, InMap
  <2>3. fifo[ch] \in Seq(Event)
    BY DEF MgrTypeOK
  <2>4. \A i \in DOMAIN fifo'[ch] : fifo'[ch][i].channel \in keys
    <3>1. fifo'[ch] = Append(fifo[ch], e)
      BY <2>1 DEF MgrTypeOK
    <3>2. ASSUME NEW i \in DOMAIN fifo'[ch] PROVE fifo'[ch][i].channel \in keys
      <4>1. CASE i \in DOMAIN fifo[ch]
        BY <2>3, <3>1, <4>1 DEF KeyInv
      <4>2. CASE i = Len(fifo[ch]) + 1
        BY <2>1, <2>2, <2>3, <3>1, <4>2
      <4>3. QED
        BY <2>3, <3>1, <3>2, <4>1, <4>2
    <3>3. QED
      BY <3>2
  <2>5. \A c \in Channels \ {ch} : fifo'[c] = fifo[c]
    BY <2>1 DEF MgrTypeOK
  <2>6. UNCHANGED <<keys, pc, cmd, channelMap, batch, toPublish>>
    BY <1>4 DEF Produce
  <2>7. QED
    BY <2>4, <2>5, <2>6 DEF KeyInv, InMap, Ch
<1>5. CASE Die \/ UNCHANGED vars
  BY <1>5, KeySame DEF Die, vars
<1>. QED
  BY <1>1, <1>2, <1>3, <1>4, <1>5 DEF Next, Network

\* epicsMonitorEvent looks channels up with operator[] under a shared lock
\* only: the lookup never inserts, for any interleaving of commands and events.
THEOREM LookupSafe == Spec => []LookupNeverInserts
<1>1. Init => CallOfWorker /\ KeyInv
  BY DEF Init, MgrInit, CallOfWorker, KeyInv, InMap
<1>2. TypeInv /\ CallOfWorker /\ KeyInv /\ [Next]_vars => CallOfWorker' /\ KeyInv'
  BY CallOfWorkerStep, KeyStep DEF TypeInv
<1>3. KeyInv => LookupNeverInserts
  BY DEF KeyInv, LookupNeverInserts
<1>4. QED
  BY <1>1, <1>2, <1>3, TypeInvariant, PTL DEF Spec

-----------------------------------------------------------------------------
(* The monitor follows the table when commands of a channel are serialised *)

Wanted(ch) == topics[ch] # <<>>

\* While a thread is inside monitorChannel, the call it makes is the one the
\* vector calls for; once the call is over the monitor is in line.
WantInv ==
  /\ \A ch \in Channels : Idle(ch) => (InMap(ch) <=> Wanted(ch))
  /\ \A w \in Threads : pc[w] = "monitor" =>
       /\ callPc[w] = "out" => (InMap(Ch(w)) <=> Wanted(Ch(w)))
       /\ callPc[w] \in {"add", "create", "connect", "start", "threw"} => Wanted(Ch(w))
       /\ callPc[w] = "remove" => ~Wanted(Ch(w))

LEMMA WantSame ==
  ASSUME WantInv, UNCHANGED <<pc, cmd, topics, channelMap, callPc>>
  PROVE  WantInv'
BY DEF WantInv, Idle, InMap, Wanted, Ch

LEMMA WantManager ==
  ASSUME TypeOK, CallOfWorker, WantInv, Serial, NEW w \in Threads, InManager(w)
  PROVE  WantInv'
<1> USE DEF TypeOK, MgrTypeOK
<1> DEFINE c == Ch(w)
<1>1. /\ pc[w] = "monitor" /\ callPc[w] # "out" /\ callArg[w].channel = c /\ c \in Channels
      /\ UNCHANGED <<pc, cmd, topics>>
  <2>1. pc[w] = "monitor" /\ UNCHANGED <<pc, cmd, topics>>
    BY DEF InManager, tableVars, workerVars
  <2>2. callPc[w] # "out"
    BY DEF InManager, CallStep, AddLock, AddCreate, AddConnect, AddStart, AddThrow, RemoveChannel,
           CallPc
  <2>3. c \in Channels
    BY DEF Ch, Command
  <2>4. QED
    BY <2>1, <2>2, <2>3 DEF CallOfWorker
<1>2. \A u \in Threads \ {w} : callPc'[u] = callPc[u]
  BY DEF InManager, CallStep, AddLock, AddCreate, AddConnect, AddStart, AddThrow, RemoveChannel,
         CallPc
<1>3. \A ch \in Channels \ {c} : channelMap'[ch] = channelMap[ch]
  BY <1>1 DEF InManager, CallStep, AddLock, AddCreate, AddConnect, AddStart, AddThrow,
              RemoveChannel, SetStage
<1>4. \A u \in Threads \ {w} : pc[u] = "monitor" => Ch(u) \in Channels \ {c}
  BY <1>1 DEF Serial, Ch, Command
<1>5. \A ch \in Channels : Idle(ch)' => Idle(ch) /\ ch # c
  BY <1>1 DEF Idle, Ch
<1>6. /\ callPc'[w] = "out" => (InMap(c)' <=> Wanted(c))
      /\ callPc'[w] \in {"add", "create", "connect", "start", "threw"} => Wanted(c)
      /\ callPc'[w] = "remove" => ~Wanted(c)
  <2>1. CASE AddLock(w)
    <3>1. callPc[w] = "add" /\ Wanted(c) /\ UNCHANGED channelMap
      BY <1>1, <2>1 DEF AddLock, CallPc, WantInv
    <3>2. \/ callPc' = [callPc EXCEPT ![w] = "out"] /\ InMap(c)
          \/ callPc' = [callPc EXCEPT ![w] = "create"]
      BY <1>1, <2>1 DEF AddLock, CallPc
    <3>3. QED
      BY <1>1, <3>1, <3>2 DEF InMap, Ch
  <2>2. CASE AddCreate(w) \/ AddConnect(w)
    <3>1. callPc[w] \in {"create", "connect"} /\ callPc'[w] \in {"connect", "start"}
      BY <2>2 DEF AddCreate, AddConnect, CallPc
    <3>2. QED
      BY <1>1, <3>1 DEF WantInv
  <2>3. CASE AddStart(w)
    <3>1. callPc[w] = "start" /\ callPc'[w] = "out" /\ channelMap'[c] = "monitoring"
      BY <1>1, <2>3 DEF AddStart, CallPc, SetStage
    <3>2. QED
      BY <1>1, <3>1 DEF WantInv, InMap, Ch
  <2>4. CASE AddThrow(w)
    <3>1. callPc[w] \in {"create", "connect", "start"} /\ callPc'[w] = "threw"
      BY <2>4 DEF AddThrow, CallPc
    <3>2. QED
      BY <1>1, <3>1 DEF WantInv
  <2>5. CASE RemoveChannel(w)
    <3>1. callPc[w] = "remove" /\ callPc'[w] = "out" /\ channelMap'[c] = "absent"
      BY <1>1, <2>5 DEF RemoveChannel, CallPc, SetStage
    <3>2. QED
      BY <1>1, <3>1 DEF WantInv, InMap, Ch
  <2>6. QED
    BY <2>1, <2>2, <2>3, <2>4, <2>5 DEF InManager, CallStep
<1>7. ASSUME NEW u \in Threads, pc'[u] = "monitor"
      PROVE  /\ callPc'[u] = "out" => (InMap(Ch(u))' <=> Wanted(Ch(u))')
             /\ callPc'[u] \in {"add", "create", "connect", "start", "threw"} => Wanted(Ch(u))'
             /\ callPc'[u] = "remove" => ~Wanted(Ch(u))'
  <2>1. CASE u = w
    BY <1>1, <1>6, <2>1 DEF Wanted, Ch, InMap
  <2>2. CASE u # w
    BY <1>1, <1>2, <1>3, <1>4, <1>7, <2>2 DEF WantInv, Wanted, Ch, InMap
  <2>3. QED
    BY <2>1, <2>2
<1>8. \A ch \in Channels : Idle(ch)' => (InMap(ch)' <=> Wanted(ch)')
  BY <1>1, <1>3, <1>5 DEF WantInv, Wanted, InMap
<1>9. QED
  BY <1>7, <1>8 DEF WantInv

LEMMA WantWorker ==
  ASSUME TypeOK, CallOfWorker, WantInv, Serial, NEW w \in Threads, Worker(w)
  PROVE  WantInv'
<1> USE DEF TypeOK, MgrTypeOK, WorkerTo, mgrVars, tableVars, workerVars, callVars
<1>1. CASE TakeTask(w)
  <2>1. /\ pc[w] = "idle" /\ pc' = [pc EXCEPT ![w] = "ref"]
        /\ \A u \in Threads \ {w} : cmd'[u] = cmd[u]
        /\ UNCHANGED <<topics, channelMap, callPc>>
    BY <1>1 DEF TakeTask
  <2>2. \A ch \in Channels : Idle(ch)' => Idle(ch)
    BY <2>1 DEF Idle, Ch
  <2>3. QED
    BY <2>1, <2>2 DEF WantInv, Wanted, InMap, Ch
<1>2. CASE Ref(w) \/ Find(w) \/ Lock(w)
  <2>1. /\ pc[w] \notin {"idle", "monitor"} /\ pc'[w] \notin {"idle", "monitor"}
        /\ \A u \in Threads \ {w} : pc'[u] = pc[u]
        /\ UNCHANGED <<cmd, topics, channelMap, callPc>>
    BY <1>2 DEF Ref, Find, Lock
  <2>2. \A ch \in Channels : Idle(ch)' => Idle(ch)
    BY <2>1 DEF Idle, Ch
  <2>3. QED
    BY <2>1, <2>2 DEF WantInv, Wanted, InMap, Ch
<1>3. CASE Write(w)
  <2>1. /\ pc[w] = "write" /\ pc' = [pc EXCEPT ![w] = "size"]
        /\ \A ch \in Channels : ch # Ch(w) => topics'[ch] = topics[ch]
        /\ UNCHANGED <<cmd, channelMap, callPc>>
    BY <1>3 DEF Write
  <2>2. \A ch \in Channels : Idle(ch)' => Idle(ch) /\ ch # Ch(w)
    BY <2>1 DEF Idle, Ch
  <2>3. \A u \in Threads : pc'[u] = "monitor" => pc[u] = "monitor" /\ Ch(u) \in Channels /\ Ch(u) # Ch(w)
    BY <2>1 DEF Serial, Ch, Command
  <2>4. \A ch \in Channels : Idle(ch)' => (InMap(ch)' <=> Wanted(ch)')
    BY <2>1, <2>2 DEF WantInv, Wanted, InMap
  <2>5. \A u \in Threads : Ch(u)' = Ch(u) /\ (pc'[u] = "monitor" => (Wanted(Ch(u)) <=> Wanted(Ch(u))'))
    BY <2>1, <2>3 DEF Wanted, Ch
  <2>6. QED
    BY <2>1, <2>3, <2>4, <2>5 DEF WantInv, InMap
<1>4. CASE Size(w)
  <2>1. /\ pc[w] = "size" /\ pc' = [pc EXCEPT ![w] = "monitor"]
        /\ callPc' = [callPc EXCEPT ![w] = IF Wanted(Ch(w)) THEN "add" ELSE "remove"]
        /\ UNCHANGED <<cmd, topics, channelMap>>
    BY <1>4 DEF Size, MonitorChannel, CallAdd, CallRemove, CallPc, Wanted, Vec
  <2>2. \A ch \in Channels : Idle(ch)' => Idle(ch)
    BY <2>1 DEF Idle, Ch
  <2>3. QED
    BY <2>1, <2>2 DEF WantInv, Wanted, InMap, Ch
<1>5. CASE InManager(w)
  BY <1>5, WantManager
<1>6. CASE Return(w)
  <2>1. /\ pc[w] = "monitor" /\ callPc[w] = "out" /\ pc' = [pc EXCEPT ![w] = "idle"]
        /\ UNCHANGED <<cmd, topics, channelMap, callPc>>
    BY <1>6 DEF Return
  <2>2. \A ch \in Channels : Idle(ch)' => Idle(ch) \/ ch = Ch(w)
    BY <2>1 DEF Idle, Ch
  <2>3. QED
    BY <2>1, <2>2 DEF WantInv, Wanted, InMap, Ch
<1>. QED
  BY <1>1, <1>2, <1>3, <1>4, <1>5, <1>6 DEF Worker

LEMMA WantStep ==
  ASSUME TypeOK, CallOfWorker, WantInv, Serial, [Next]_vars
  PROVE  WantInv'
<1> USE DEF mgrVars, tableVars, workerVars, queueVars, eventVars, callVars
<1>1. ASSUME NEW c \in Command, Submit(c) PROVE WantInv'
  BY <1>1, WantSame DEF Submit
<1>2. ASSUME NEW w \in Threads, Worker(w) PROVE WantInv'
  BY <1>2, WantWorker
<1>3. CASE Scheduler
  <2>1. UNCHANGED <<pc, cmd, topics, channelMap, callPc>>
    BY <1>3 DEF Scheduler, SchedStep, SchedLock, SchedPoll, SchedEndBroadcast, SchedUnlock,
                SchedExit, SchedCall, SchedSkip, EventLock, EventSkip, EventLookup, Publish,
                EventDone, EventReturn, HandlerReturn
  <2>2. QED
    BY <2>1, WantSame
<1>4. CASE Network
  BY <1>4, WantSame DEF Network, Produce
<1>5. CASE Die \/ UNCHANGED vars
  BY <1>5, WantSame DEF Die, vars
<1>. QED
  BY <1>1, <1>2, <1>3, <1>4, <1>5 DEF Next

\* If the pool never runs two commands of one channel at the same time, a
\* channel none of whose commands is running is monitored exactly when it has
\* a topic: the property the code's own comment states, with the condition
\* under which it is true.
THEOREM SerialConsistent == Spec /\ []Serial => []MonitoredIffWanted
<1>1. Init => CallOfWorker /\ WantInv
  BY DEF Init, MgrInit, CallOfWorker, WantInv, InMap, Wanted
<1>2. TypeOK /\ CallOfWorker /\ [Next]_vars => CallOfWorker'
  BY CallOfWorkerStep
<1>3. TypeOK /\ CallOfWorker /\ WantInv /\ Serial /\ [Next]_vars => WantInv'
  BY WantStep
<1>4. WantInv => MonitoredIffWanted
  BY DEF WantInv, MonitoredIffWanted, Wanted
<1>5. QED
  BY <1>1, <1>2, <1>3, <1>4, TypeCorrect, PTL DEF Spec

-----------------------------------------------------------------------------
(* The vector, when one command of its channel edits it at a time *)

Holds(v, t) == \E i \in DOMAIN v : v[i] = t
NoneTwice(v) == \A i, j \in DOMAIN v : v[i] = v[j] => i = j

\* push_back of a topic the vector does not hold.
LEMMA PushedElements ==
  ASSUME NEW v \in Seq(Topics), NEW t \in Topics, NoneTwice(v), ~Holds(v, t)
  PROVE  /\ NoneTwice(Append(v, t))
         /\ \A u : Holds(Append(v, t), u) <=> (u = t \/ Holds(v, u))
<1> DEFINE n == Len(v)
           p == Append(v, t)
<1>1. n \in Nat /\ DOMAIN v = 1..n /\ DOMAIN p = 1..(n + 1) /\ p[n + 1] = t
      /\ \A i \in 1..n : p[i] = v[i]
  <2>1. p \in Seq(Topics) /\ Len(p) = n + 1
    BY AppendProperties
  <2> QED
    BY <2>1, AppendProperties, LenProperties
<1> HIDE DEF n, p
<1>2. \A i \in DOMAIN p : (i = n + 1 /\ p[i] = t) \/ (i \in DOMAIN v /\ p[i] = v[i])
  BY <1>1
<1>3. \A i \in DOMAIN v : i \in DOMAIN p /\ p[i] = v[i] /\ v[i] # t
  BY <1>1 DEF Holds
<1>4. n + 1 \in DOMAIN p
  BY <1>1
<1>5. NoneTwice(p)
  BY <1>2, <1>3 DEF NoneTwice
<1>6. \A u : Holds(p, u) <=> (u = t \/ Holds(v, u))
  BY <1>1, <1>2, <1>3, <1>4 DEF Holds
<1> QED
  BY <1>5, <1>6 DEF p

\* erase of a topic that the vector holds once.
LEMMA ErasedElements ==
  ASSUME NEW v \in Seq(Topics), NEW k \in DOMAIN v, NoneTwice(v)
  PROVE  /\ NoneTwice(RemoveAt(v, k))
         /\ \A u : Holds(RemoveAt(v, k), u) <=> (u # v[k] /\ Holds(v, u))
<1> DEFINE n == Len(v)
           r == RemoveAt(v, k)
           a == SubSeq(v, 1, k - 1)
           b == SubSeq(v, k + 1, n)
<1>1. n \in Nat /\ DOMAIN v = 1..n /\ k \in 1..n
  BY LenProperties
<1>2. a \in Seq(Topics) /\ DOMAIN a = 1..(k - 1) /\ \A i \in 1..(k - 1) : a[i] = v[i]
  <2>1. 1 \in 1..(n + 1) /\ k - 1 \in (1 - 1)..n /\ k - 1 - 1 + 1 = k - 1
        /\ \A i \in 1..(k - 1) : 1 + i - 1 = i
    BY ONLY <1>1
  <2>2. a \in Seq(Topics) /\ DOMAIN a = 1..(k - 1 - 1 + 1) /\ \A i \in 1..(k - 1 - 1 + 1) : a[i] = v[1 + i - 1]
    BY <2>1, Stretch
  <2> HIDE DEF a
  <2> QED
    BY <2>1, <2>2
<1>3. b \in Seq(Topics) /\ DOMAIN b = 1..(n - k) /\ \A i \in 1..(n - k) : b[i] = v[k + i]
  <2>1. k + 1 \in 1..(n + 1) /\ n \in (k + 1 - 1)..n /\ n - (k + 1) + 1 = n - k
        /\ \A i \in 1..(n - k) : k + 1 + i - 1 = k + i
    BY ONLY <1>1
  <2>2. b \in Seq(Topics) /\ DOMAIN b = 1..(n - (k + 1) + 1) /\ \A i \in 1..(n - (k + 1) + 1) : b[i] = v[k + 1 + i - 1]
    BY <2>1, Stretch
  <2> HIDE DEF b
  <2> QED
    BY <2>1, <2>2
<1>4. r = a \o b
  BY DEF RemoveAt
<1>5. Len(a) = k - 1 /\ Len(b) = n - k
  <2> HIDE DEF a, b
  <2> QED
    BY <1>1, <1>2, <1>3, LenProperties
<1>6. DOMAIN r = 1..(n - 1) /\ \A i \in 1..(n - 1) : r[i] = IF i < k THEN v[i] ELSE v[i + 1]
  <2>1. r \in Seq(Topics) /\ Len(r) = Len(a) + Len(b)
        /\ \A i \in 1..(Len(a) + Len(b)) : r[i] = IF i <= Len(a) THEN a[i] ELSE b[i - Len(a)]
    <3> HIDE DEF a, b, r
    <3> QED
      BY <1>2, <1>3, <1>4, ConcatProperties
  <2> HIDE DEF a, b, r, n
  <2>2. \A i \in 1..(n - 1) : (i <= k - 1 => i \in 1..(k - 1))
          /\ (~(i <= k - 1) => i - (k - 1) \in 1..(n - k) /\ k + (i - (k - 1)) = i + 1)
    BY <1>1
  <2>3. Len(a) + Len(b) = n - 1
    BY <1>1, <1>5
  <2>4. ASSUME NEW i \in 1..(n - 1) PROVE r[i] = IF i < k THEN v[i] ELSE v[i + 1]
    <3>1. CASE i < k
      BY <1>1, <1>2, <1>5, <2>1, <2>2, <2>3, <3>1
    <3>2. CASE ~(i < k)
      <4>1. ~(i <= k - 1)
        BY <1>1, <3>2
      <4> QED
        BY <1>3, <1>5, <2>1, <2>2, <2>3, <3>2, <4>1
    <3> QED
      BY <3>1, <3>2
  <2> QED
    BY <2>1, <2>3, <2>4, LenProperties
<1> HIDE DEF n, r, a, b
<1>7. NoneTwice(r)
  <2> DEFINE at(i) == IF i < k THEN i ELSE i + 1
  <2>1. \A i \in DOMAIN r : at(i) \in DOMAIN v /\ r[i] = v[at(i)]
    BY <1>1, <1>6
  <2>2. \A i, j \in DOMAIN r : at(i) = at(j) => i = j
    BY <1>1, <1>6
  <2> HIDE DEF at
  <2> QED
    BY <2>1, <2>2 DEF NoneTwice
<1>8. ASSUME NEW u PROVE Holds(r, u) <=> (u # v[k] /\ Holds(v, u))
  <2>1. ASSUME Holds(r, u) PROVE u # v[k] /\ Holds(v, u)
    <3>1. PICK i \in DOMAIN r : r[i] = u
      BY <2>1 DEF Holds
    <3>2. PICK j \in DOMAIN v : j # k /\ r[i] = v[j]
      <4>1. CASE i < k
        BY <1>1, <1>6, <4>1
      <4>2. CASE ~(i < k)
        <5>1. i + 1 \in DOMAIN v /\ i + 1 # k /\ r[i] = v[i + 1]
          BY <1>1, <1>6, <4>2
        <5> QED
          BY <5>1
      <4> QED
        BY <4>1, <4>2
    <3>3. u = v[j] /\ v[j] # v[k]
      BY <3>1, <3>2 DEF NoneTwice
    <3> QED
      BY <3>2, <3>3 DEF Holds
  <2>2. ASSUME u # v[k], Holds(v, u) PROVE Holds(r, u)
    <3>1. PICK i \in DOMAIN v : v[i] = u
      BY <2>2 DEF Holds
    <3>2. CASE i < k
      <4>1. i \in DOMAIN r /\ r[i] = v[i]
        BY <1>1, <1>6, <3>2
      <4> QED
        BY <3>1, <4>1 DEF Holds
    <3>3. CASE i > k
      <4>1. i - 1 \in 1..(n - 1) /\ ~(i - 1 < k) /\ i - 1 + 1 = i
        BY <1>1, <3>3
      <4> QED
        BY <1>6, <3>1, <4>1 DEF Holds
    <3> QED
      BY <1>1, <2>2, <3>1, <3>2, <3>3
  <2> QED
    BY <2>1, <2>2
<1> QED
  BY <1>7, <1>8 DEF r

\* Between std::find and the edit nobody else changes the vector, so the
\* iterator still says where the topic is, and no topic enters twice.
EditInv ==
  /\ \A ch \in Channels : NoneTwice(topics[ch])
  /\ \A w \in Threads : pc[w] \in {"lock", "write"} =>
       /\ stale[w] = FALSE
       /\ itr[w] \in 0..Len(Vec(w))
       /\ FoundAt(Vec(w), cmd[w].topic, itr[w])
       /\ cmd[w].activate <=> itr[w] = 0

LEMMA WriteEdits ==
  ASSUME TypeOK, EditInv, NEW w \in Threads, Write(w)
  PROVE  /\ \A ch \in Channels \ {Ch(w)} : topics'[ch] = topics[ch]
         /\ NoneTwice(topics'[Ch(w)])
         /\ \A u : Holds(topics'[Ch(w)], u) <=>
                     IF u = cmd[w].topic THEN cmd[w].activate ELSE Holds(topics[Ch(w)], u)
<1> DEFINE c == Ch(w)
           t == cmd[w].topic
           v == topics[c]
           i == itr[w]
<1>1. c \in Channels /\ t \in Topics /\ cmd[w].activate \in BOOLEAN /\ v \in Seq(Topics) /\ NoneTwice(v)
  BY DEF TypeOK, Ch, Command, EditInv
<1>2. pc[w] = "write" /\ stale[w] = FALSE /\ i \in 0..Len(v) /\ FoundAt(v, t, i) /\ (cmd[w].activate <=> i = 0)
  BY DEF EditInv, Write, WorkerTo, Vec
<1>3. PICK x \in IF cmd[w].activate THEN {Append(v, t)} ELSE Erased(v, i, stale[w]) :
        topics' = [topics EXCEPT ![c] = x]
  BY DEF Write, Vec
<1>4. topics'[c] = x /\ \A ch \in Channels \ {c} : topics'[ch] = topics[ch]
  BY <1>1, <1>3 DEF TypeOK
<1>5. CASE i = 0
  <2>1. ~Holds(v, t)
    BY <1>2, <1>5 DEF FoundAt, Holds
  <2>2. topics'[c] = Append(v, t)
    BY <1>2, <1>3, <1>4, <1>5
  <2> HIDE DEF c, t, v, i
  <2>3. NoneTwice(topics'[c]) /\ \A u : Holds(topics'[c], u) <=> (u = t \/ Holds(v, u))
    BY <1>1, <2>1, <2>2, PushedElements
  <2>4. \A u : Holds(topics'[c], u) <=> IF u = t THEN cmd[w].activate ELSE Holds(v, u)
    BY <1>2, <1>5, <2>3
  <2> QED
    BY <1>4, <2>3, <2>4 DEF c, t, v
<1>6. CASE i # 0
  <2>1. i \in DOMAIN v /\ v[i] = t
    BY <1>1, <1>2, <1>6, LenProperties DEF FoundAt
  <2>2. topics'[c] = RemoveAt(v, i)
    BY <1>2, <1>3, <1>4, <1>6 DEF Erased
  <2> HIDE DEF c, t, v, i
  <2>3. NoneTwice(topics'[c]) /\ \A u : Holds(topics'[c], u) <=> (u # t /\ Holds(v, u))
    BY <1>1, <2>1, <2>2, ErasedElements
  <2>4. \A u : Holds(topics'[c], u) <=> IF u = t THEN cmd[w].activate ELSE Holds(v, u)
    BY <1>2, <1>6, <2>3
  <2> QED
    BY <1>4, <2>3, <2>4 DEF c, t, v
<1> QED
  BY <1>5, <1>6

LEMMA EditSame ==
  ASSUME EditInv, UNCHANGED <<topics, cmd, itr, stale>>,
         \A w \in Threads : pc'[w] \in {"lock", "write"} => pc[w] \in {"lock", "write"}
  PROVE  EditInv'
BY DEF EditInv, Vec, Ch

LEMMA EditWorker ==
  ASSUME TypeOK, EditInv, Serial, NEW w \in Threads, Worker(w)
  PROVE  EditInv'
<1> USE DEF tableVars, workerVars
<1>1. CASE Ref(w) \/ Lock(w) \/ Size(w) \/ InManager(w) \/ Return(w)
  <2>1. UNCHANGED <<topics, cmd, itr, stale>>
        /\ \A u \in Threads : pc'[u] \in {"lock", "write"} => pc[u] \in {"lock", "write"}
    BY <1>1 DEF Ref, Lock, Size, InManager, Return, WorkerTo, TypeOK
  <2> QED
    BY <2>1, EditSame
<1>2. CASE TakeTask(w)
  <2>1. /\ UNCHANGED <<topics, itr, stale>> /\ pc'[w] = "ref"
        /\ \A u \in Threads \ {w} : pc'[u] = pc[u] /\ cmd'[u] = cmd[u]
    BY <1>2 DEF TakeTask, WorkerTo, TypeOK
  <2> QED
    BY <2>1 DEF EditInv, Vec, Ch
<1>3. CASE Find(w)
  <2>1. PICK i \in 0..Len(Vec(w)) :
          /\ FoundAt(Vec(w), cmd[w].topic, i)
          /\ pc' = [pc EXCEPT ![w] = IF cmd[w].activate = (i = 0) THEN "lock" ELSE "size"]
          /\ itr' = [itr EXCEPT ![w] = i] /\ stale' = [stale EXCEPT ![w] = FALSE]
          /\ UNCHANGED <<topics, cmd>>
    BY <1>3 DEF Find, WorkerTo
  <2>2. \A u \in Threads \ {w} : pc'[u] = pc[u] /\ itr'[u] = itr[u] /\ stale'[u] = stale[u]
    BY <2>1 DEF TypeOK
  <2>3. itr'[w] = i /\ stale'[w] = FALSE /\ (pc'[w] \in {"lock", "write"} => (cmd[w].activate <=> i = 0))
    BY <2>1 DEF TypeOK, Command
  <2> QED
    BY <2>1, <2>2, <2>3 DEF EditInv, Vec, Ch
<1>4. CASE Write(w)
  <2>1. /\ UNCHANGED <<cmd, itr>> /\ pc[w] = "write" /\ pc' = [pc EXCEPT ![w] = "size"]
        /\ stale' = [u \in Threads |-> stale[u] \/ (u # w /\ Ch(u) = Ch(w) /\ pc[u] = "lock")]
    BY <1>4 DEF Write, WorkerTo
  <2>2. ASSUME NEW u \in Threads, pc'[u] \in {"lock", "write"}
        PROVE  /\ stale'[u] = FALSE
               /\ itr'[u] \in 0..Len(Vec(u)')
               /\ FoundAt(Vec(u)', cmd'[u].topic, itr'[u])
               /\ cmd'[u].activate <=> itr'[u] = 0
    <3>1. u # w /\ pc[u] \in {"lock", "write"}
      BY <2>1, <2>2 DEF TypeOK
    <3>2. Ch(u) # Ch(w) /\ Ch(u) \in Channels
      BY <2>1, <3>1 DEF Serial, TypeOK, Ch, Command
    <3>3. Vec(u)' = Vec(u)
      BY <1>4, <2>1, <3>2, WriteEdits DEF Vec, Ch
    <3>4. stale'[u] = FALSE
      BY <2>1, <3>1, <3>2 DEF EditInv
    <3> QED
      BY <2>1, <3>1, <3>3, <3>4 DEF EditInv
  <2>3. \A ch \in Channels : NoneTwice(topics'[ch])
    BY <1>4, WriteEdits DEF EditInv
  <2> QED
    BY <2>2, <2>3 DEF EditInv
<1> QED
  BY <1>1, <1>2, <1>3, <1>4 DEF Worker

\* The steps of the other threads leave the vector to the workers.
LEMMA OtherSteps ==
  ASSUME [Next]_vars, ~(\E w \in Threads : Worker(w))
  PROVE  UNCHANGED <<topics, keys, pc, cmd, itr, stale>> \/ EventLookup
BY DEF Next, Submit, Scheduler, Network, Die, EventLock, EventSkip, EventLookup, Publish, EventDone,
       EventReturn, vars, tableVars, workerVars

LEMMA EditStep ==
  ASSUME TypeOK, EditInv, Serial, [Next]_vars
  PROVE  EditInv'
<1>1. CASE \E w \in Threads : Worker(w)
  BY <1>1, EditWorker
<1>2. CASE ~(\E w \in Threads : Worker(w))
  <2>1. UNCHANGED <<topics, pc, cmd, itr, stale>>
    BY <1>2, OtherSteps DEF EventLookup, workerVars
  <2> QED
    BY <2>1, EditSame
<1> QED
  BY <1>1, <1>2

LEMMA EditInvariant == Spec /\ []Serial => []EditInv
<1>1. Init => EditInv
  BY DEF Init, EditInv, NoneTwice
<1>2. TypeOK /\ EditInv /\ Serial /\ [Next]_vars => EditInv'
  BY EditStep
<1> QED
  BY <1>1, <1>2, TypeCorrect, PTL DEF Spec

-----------------------------------------------------------------------------
(* The last wish on a channel and a topic *)

\* The commands some thread has taken are the first ones accepted, the others
\* wait in their order.
Taken == Len(accepted) - Len(tasks)

QueueInOrder ==
  /\ Taken \in Nat
  /\ \A i \in DOMAIN tasks : tasks[i] = accepted[Taken + i]

About(i, ch, t) == accepted[i].channel = ch /\ accepted[i].topic = t

\* c was taken, and since then no command on its channel and topic.
LastTaken(c) ==
  \E i \in 1..Taken : accepted[i] = c /\ \A j \in (i + 1)..Taken : ~About(j, c.channel, c.topic)

\* A thread has still to edit the vector of ch for topic t.
Unedited(ch, t) ==
  \E w \in Threads : pc[w] \in {"ref", "find", "lock", "write"} /\ Ch(w) = ch /\ cmd[w].topic = t

Activation(ch, t) == [channel |-> ch, topic |-> t, activate |-> TRUE]

WishInv ==
  /\ QueueInOrder
  /\ \A w \in Threads : pc[w] # "idle" => LastTaken(cmd[w])
  /\ \A ch \in Channels, t \in Topics :
       Holds(topics[ch], t) => Unedited(ch, t) \/ LastTaken(Activation(ch, t))

LEMMA WishSame ==
  ASSUME WishInv, UNCHANGED <<accepted, tasks, topics, cmd>>,
         \A w \in Threads : pc'[w] # "idle" => pc[w] # "idle",
         \A w \in Threads : pc[w] \in {"ref", "find", "lock", "write"}
                              => pc'[w] \in {"ref", "find", "lock", "write"}
  PROVE  WishInv'
<1>1. Taken' = Taken /\ QueueInOrder' /\ \A c : LastTaken(c)' <=> LastTaken(c)
  BY DEF WishInv, Taken, QueueInOrder, LastTaken, About
<1>2. \A w \in Threads : pc'[w] # "idle" => LastTaken(cmd[w])'
  BY <1>1 DEF WishInv
<1>3. \A ch \in Channels, t \in Topics : Unedited(ch, t) => Unedited(ch, t)'
  BY DEF Unedited, Ch
<1>4. \A ch \in Channels, t \in Topics : Activation(ch, t)' = Activation(ch, t)
  BY DEF Activation
<1> QED
  BY <1>1, <1>2, <1>3, <1>4 DEF WishInv, LastTaken, Taken, About

LEMMA WishSubmit ==
  ASSUME TypeOK, WishInv, NEW c \in Command, Submit(c)
  PROVE  WishInv'
<1> DEFINE n == Len(accepted)
           k == Len(tasks)
<1>1. /\ accepted' = Append(accepted, c) /\ tasks' = Append(tasks, c)
      /\ UNCHANGED <<topics, pc, cmd>>
      /\ accepted \in Seq(Command) /\ tasks \in Seq(Command)
  BY DEF Submit, TypeOK, tableVars, workerVars
<1>2. /\ n \in Nat /\ k \in Nat /\ DOMAIN tasks = 1..k /\ DOMAIN tasks' = 1..(k + 1)
      /\ Len(accepted') = n + 1 /\ Len(tasks') = k + 1
      /\ accepted'[n + 1] = c /\ \A i \in 1..n : accepted'[i] = accepted[i]
      /\ tasks'[k + 1] = c /\ \A i \in 1..k : tasks'[i] = tasks[i]
  BY <1>1, AppendProperties, LenProperties
<1>3. Taken = n - k
  BY DEF Taken
<1>4. Taken' = n + 1 - (k + 1)
  BY <1>2 DEF Taken
<1> HIDE DEF n, k
<1>5. Taken' = Taken /\ Taken \in Nat /\ Taken <= n /\ n = Taken + k
  BY <1>2, <1>3, <1>4 DEF WishInv, QueueInOrder
<1>6. ASSUME NEW i \in DOMAIN tasks' PROVE tasks'[i] = accepted'[Taken + i]
  <2>1. CASE i \in 1..k
    <3>1. tasks[i] = accepted[Taken + i] /\ Taken + i \in 1..n
      BY <1>2, <1>5, <2>1 DEF WishInv, QueueInOrder
    <3> QED
      BY <1>2, <2>1, <3>1
  <2>2. CASE i = k + 1
    BY <1>2, <1>5, <2>2
  <2> QED
    BY <1>2, <2>1, <2>2
<1>7. QueueInOrder'
  BY <1>5, <1>6 DEF QueueInOrder
<1>8. \A i \in 1..Taken : accepted'[i] = accepted[i]
  BY <1>2, <1>5
<1>9. ASSUME NEW d, LastTaken(d) PROVE LastTaken(d)'
  <2>1. PICK i \in 1..Taken : accepted[i] = d /\ \A j \in (i + 1)..Taken : ~About(j, d.channel, d.topic)
    BY <1>9 DEF LastTaken
  <2>2. accepted'[i] = d /\ \A j \in (i + 1)..Taken : ~(accepted'[j].channel = d.channel /\ accepted'[j].topic = d.topic)
    BY <1>5, <1>8, <2>1 DEF About
  <2> QED
    BY <1>5, <2>2 DEF LastTaken, About
<1>10. \A d : LastTaken(d) => \E i \in 1..Taken' :
         /\ accepted'[i] = d
         /\ \A j \in (i + 1)..Taken' : ~(accepted'[j].channel = d.channel /\ accepted'[j].topic = d.topic)
  BY <1>9 DEF LastTaken, About
<1>11. \A w \in Threads : pc'[w] # "idle" => LastTaken(cmd[w])'
  <2>1. ASSUME NEW w \in Threads, pc[w] # "idle" PROVE LastTaken(cmd[w])'
    <3>1. LastTaken(cmd[w]) /\ cmd'[w] = cmd[w]
      BY <1>1, <2>1 DEF WishInv
    <3>2. PICK i \in 1..Taken' :
            /\ accepted'[i] = cmd'[w]
            /\ \A j \in (i + 1)..Taken' : ~(accepted'[j].channel = cmd'[w].channel /\ accepted'[j].topic = cmd'[w].topic)
      BY <1>10, <3>1
    <3> QED
      BY <3>2 DEF LastTaken, About
  <2> QED
    BY <1>1, <2>1
<1>12. \A ch \in Channels, t \in Topics : Holds(topics'[ch], t) => Unedited(ch, t)' \/ LastTaken(Activation(ch, t))'
  <2>1. ASSUME NEW ch \in Channels, NEW t \in Topics, LastTaken(Activation(ch, t))
        PROVE  LastTaken(Activation(ch, t))'
    BY <1>9, <2>1 DEF Activation
  <2> QED
    BY <1>1, <2>1 DEF WishInv, Unedited, Ch
<1> QED
  BY <1>1, <1>7, <1>11, <1>12 DEF WishInv

LEMMA WishTake ==
  ASSUME TypeOK, WishInv, Serial', NEW w \in Threads, TakeTask(w)
  PROVE  WishInv'
<1> DEFINE n == Len(accepted)
           k == Len(tasks)
           x == Head(tasks)
<1>1. /\ tasks # <<>> /\ tasks' = Tail(tasks) /\ cmd' = [cmd EXCEPT ![w] = x]
      /\ pc[w] = "idle" /\ pc' = [pc EXCEPT ![w] = "ref"]
      /\ UNCHANGED <<topics, accepted>>
      /\ accepted \in Seq(Command) /\ tasks \in Seq(Command)
  BY DEF TakeTask, WorkerTo, TypeOK, tableVars
<1>2. /\ n \in Nat /\ k \in Nat \ {0} /\ DOMAIN tasks = 1..k /\ DOMAIN tasks' = 1..(k - 1)
      /\ Len(tasks') = k - 1 /\ \A i \in 1..(k - 1) : tasks'[i] = tasks[i + 1]
      /\ x = tasks[1] /\ x \in Command
  <2>1. Tail(tasks) \in Seq(Command) /\ x \in Command /\ Len(Tail(tasks)) = k - 1
        /\ \A i \in 1..(k - 1) : Tail(tasks)[i] = tasks[i + 1]
    BY <1>1, HeadTailProperties
  <2>2. n \in Nat /\ k \in Nat \ {0} /\ DOMAIN tasks = 1..k /\ DOMAIN Tail(tasks) = 1..(k - 1)
    BY <1>1, <2>1, EmptySeq, LenProperties
  <2>3. x = tasks[1]
    BY <1>1
  <2> HIDE DEF x
  <2> QED
    BY <1>1, <2>1, <2>2, <2>3
<1>3. Taken = n - k /\ Taken' = n - (k - 1)
  BY <1>1, <1>2 DEF Taken
<1>4. pc'[w] = "ref" /\ cmd'[w] = x /\ \A u \in Threads \ {w} : pc'[u] = pc[u] /\ cmd'[u] = cmd[u]
  BY <1>1 DEF TypeOK
<1> HIDE DEF n, k, x
<1>5. Taken \in Nat /\ Taken' = Taken + 1
  BY <1>2, <1>3 DEF WishInv, QueueInOrder
<1>6. accepted[Taken + 1] = x
  BY <1>2 DEF WishInv, QueueInOrder
<1>7. ASSUME NEW i \in DOMAIN tasks' PROVE tasks'[i] = accepted'[Taken' + i]
  <2>1. i \in 1..(k - 1) /\ tasks'[i] = tasks[i + 1]
    BY <1>2, <1>7
  <2>2. i + 1 \in 1..k
    BY <1>2, <2>1
  <2>3. Taken' + i = Taken + (i + 1)
    BY <1>5, <2>1
  <2>4. tasks[i + 1] = accepted[Taken + (i + 1)]
    BY <1>2, <2>2 DEF WishInv, QueueInOrder
  <2> QED
    BY <1>1, <2>1, <2>3, <2>4
<1>8. QueueInOrder'
  BY <1>5, <1>7 DEF QueueInOrder
<1>9. ASSUME NEW d, LastTaken(d), d.channel # x.channel \/ d.topic # x.topic PROVE LastTaken(d)'
  <2>1. PICK i \in 1..Taken : accepted[i] = d /\ \A j \in (i + 1)..Taken : ~About(j, d.channel, d.topic)
    BY <1>9 DEF LastTaken
  <2>2. i \in 1..Taken' /\ \A j \in (i + 1)..Taken' : j \in (i + 1)..Taken \/ j = Taken + 1
    BY <1>5
  <2>3. \A j \in (i + 1)..Taken' : ~(accepted'[j].channel = d.channel /\ accepted'[j].topic = d.topic)
    BY <1>1, <1>6, <1>9, <2>1, <2>2 DEF About
  <2> QED
    BY <1>1, <2>1, <2>2, <2>3 DEF LastTaken, About
<1>10. \A d : d = x => LastTaken(d)'
  <2>1. Taken + 1 \in 1..Taken' /\ \A j \in (Taken + 1 + 1)..Taken' : FALSE
    BY <1>5
  <2> QED
    BY <1>1, <1>6, <2>1 DEF LastTaken, About
<1>11. ASSUME NEW u \in Threads, pc'[u] # "idle" PROVE LastTaken(cmd[u])'
  <2>1. PICK d : d = cmd'[u]
    OBVIOUS
  <2>2. LastTaken(d)'
    <3>1. CASE u = w
      BY <1>4, <1>10, <2>1, <3>1
    <3>2. CASE u # w
      <4>1. LastTaken(d)
        BY <1>4, <1>11, <2>1, <3>2 DEF WishInv
      <4>2. d.channel # x.channel
        BY <1>4, <1>11, <2>1, <3>2 DEF Serial, Ch
      <4> QED
        BY <1>9, <4>1, <4>2
    <3> QED
      BY <3>1, <3>2
  <2> QED
    BY <2>1, <2>2 DEF LastTaken, About
<1>12. ASSUME NEW ch \in Channels, NEW t \in Topics, Holds(topics'[ch], t), ~Unedited(ch, t)'
       PROVE  LastTaken(Activation(ch, t))'
  <2>1. x.channel # ch \/ x.topic # t
    BY <1>4, <1>12 DEF Unedited, Ch
  <2>2. ~Unedited(ch, t)
    BY <1>1, <1>4, <1>12 DEF Unedited, Ch
  <2>3. LastTaken(Activation(ch, t))
    BY <1>1, <1>12, <2>2 DEF WishInv
  <2>4. Activation(ch, t).channel = ch /\ Activation(ch, t).topic = t
    BY DEF Activation
  <2>5. \A d : d = Activation(ch, t) => LastTaken(d)'
    BY <1>9, <2>1, <2>3, <2>4
  <2> QED
    BY <2>5 DEF Activation
<1> QED
  BY <1>8, <1>11, <1>12 DEF WishInv

\* A command is over with the vector: it holds the topic exactly if the
\* command activates it.
LEMMA WishEdited ==
  ASSUME TypeOK, WishInv, NEW w \in Threads, pc[w] \in {"find", "write"},
         pc' = [pc EXCEPT ![w] = "size"], UNCHANGED <<accepted, tasks, cmd>>,
         \A ch \in Channels \ {Ch(w)} : topics'[ch] = topics[ch],
         \A u : Holds(topics'[Ch(w)], u) <=>
                  IF u = cmd[w].topic THEN cmd[w].activate ELSE Holds(topics[Ch(w)], u)
  PROVE  WishInv'
<1>1. QueueInOrder' /\ \A d : LastTaken(d) => LastTaken(d)'
  BY DEF WishInv, Taken, QueueInOrder, LastTaken, About
<1>2. pc[w] # "idle" /\ pc'[w] = "size" /\ \A u \in Threads \ {w} : pc'[u] = pc[u]
  BY DEF TypeOK
<1>3. ASSUME NEW u \in Threads, pc'[u] # "idle" PROVE LastTaken(cmd[u])'
  <2>1. LastTaken(cmd[u])
    BY <1>2, <1>3 DEF WishInv
  <2> QED
    BY <2>1 DEF LastTaken, Taken, About
<1>4. ASSUME NEW ch \in Channels, NEW t \in Topics, Holds(topics'[ch], t), ~Unedited(ch, t)'
      PROVE  LastTaken(Activation(ch, t))
  <2>1. CASE ch = Ch(w) /\ t = cmd[w].topic
    <3>1. cmd[w].activate = TRUE
      BY <1>4, <2>1 DEF TypeOK, Command
    <3>2. cmd[w] = Activation(ch, t)
      BY <2>1, <3>1 DEF TypeOK, Command, Activation, Ch
    <3> QED
      BY <1>2, <3>2 DEF WishInv
  <2>2. CASE ch # Ch(w) \/ t # cmd[w].topic
    <3>1. ~Unedited(ch, t)
      BY <1>2, <1>4, <2>2 DEF Unedited, Ch
    <3>2. Holds(topics[ch], t)
      BY <1>4, <2>2
    <3> QED
      BY <3>1, <3>2 DEF WishInv
  <2> QED
    BY <2>1, <2>2
<1>5. \A ch \in Channels, t \in Topics : Holds(topics'[ch], t) => Unedited(ch, t)' \/ LastTaken(Activation(ch, t))'
  BY <1>1, <1>4 DEF Activation
<1> QED
  BY <1>1, <1>3, <1>5 DEF WishInv

LEMMA WishWorker ==
  ASSUME TypeOK, EditInv, WishInv, Serial', NEW w \in Threads, Worker(w)
  PROVE  WishInv'
<1> USE DEF tableVars, workerVars, queueVars
<1>1. CASE TakeTask(w)
  BY <1>1, WishTake
<1>2. CASE Ref(w) \/ Lock(w) \/ Size(w) \/ InManager(w) \/ Return(w)
  <2>1. /\ UNCHANGED <<accepted, tasks, topics, cmd>>
        /\ \A u \in Threads : pc'[u] # "idle" => pc[u] # "idle"
        /\ \A u \in Threads : pc[u] \in {"ref", "find", "lock", "write"}
                                => pc'[u] \in {"ref", "find", "lock", "write"}
    BY <1>2 DEF Ref, Lock, Size, InManager, Return, WorkerTo, TypeOK
  <2> QED
    BY <2>1, WishSame
<1>3. CASE Find(w)
  <2>1. PICK i \in 0..Len(Vec(w)) :
          /\ FoundAt(Vec(w), cmd[w].topic, i)
          /\ pc[w] = "find" /\ pc' = [pc EXCEPT ![w] = IF cmd[w].activate = (i = 0) THEN "lock" ELSE "size"]
          /\ UNCHANGED <<accepted, tasks, topics, cmd>>
    BY <1>3 DEF Find, WorkerTo
  <2>2. CASE cmd[w].activate = (i = 0)
    <3>1. /\ \A u \in Threads : pc'[u] # "idle" => pc[u] # "idle"
          /\ \A u \in Threads : pc[u] \in {"ref", "find", "lock", "write"}
                                  => pc'[u] \in {"ref", "find", "lock", "write"}
      BY <2>1, <2>2 DEF TypeOK
    <3> QED
      BY <2>1, <3>1, WishSame
  <2>3. CASE cmd[w].activate # (i = 0)
    <3> DEFINE v == topics[Ch(w)]
    <3>1. v \in Seq(Topics) /\ cmd[w].activate \in BOOLEAN
      BY DEF TypeOK, Ch, Command
    <3>2. Holds(v, cmd[w].topic) <=> i # 0
      BY <2>1, <3>1, LenProperties DEF Holds, FoundAt, Vec
    <3>3. Holds(v, cmd[w].topic) <=> cmd[w].activate
      BY <2>3, <3>1, <3>2
    <3>4. pc' = [pc EXCEPT ![w] = "size"]
      BY <2>1, <2>3
    <3>5. \A u : Holds(topics'[Ch(w)], u) <=> IF u = cmd[w].topic THEN cmd[w].activate ELSE Holds(topics[Ch(w)], u)
      BY <2>1, <3>3
    <3> QED
      BY <2>1, <3>4, <3>5, WishEdited
  <2> QED
    BY <2>2, <2>3
<1>4. CASE Write(w)
  <2>1. pc[w] = "write" /\ pc' = [pc EXCEPT ![w] = "size"] /\ UNCHANGED <<accepted, tasks, cmd>>
    BY <1>4 DEF Write, WorkerTo
  <2> QED
    BY <1>4, <2>1, WriteEdits, WishEdited
<1> QED
  BY <1>1, <1>2, <1>3, <1>4 DEF Worker

LEMMA WishStep ==
  ASSUME TypeOK, EditInv, WishInv, Serial', [Next]_vars
  PROVE  WishInv'
<1>1. CASE \E w \in Threads : Worker(w)
  BY <1>1, WishWorker
<1>2. CASE \E c \in Command : Submit(c)
  BY <1>2, WishSubmit
<1>3. CASE Scheduler \/ Network \/ Die \/ UNCHANGED vars
  <2>1. UNCHANGED <<accepted, tasks, topics, pc, cmd>>
    BY <1>3 DEF Scheduler, Network, Die, EventLock, EventSkip, EventLookup, Publish, EventDone, EventReturn,
                vars, tableVars, workerVars, queueVars
  <2> QED
    BY <2>1, WishSame
<1> QED
  BY <1>1, <1>2, <1>3 DEF Next

\* Whoever is in a vector was asked for last, or a command will say otherwise.
LEMMA HeldIsWished ==
  ASSUME TypeOK, WishInv, NEW ch \in Channels, NEW t \in Topics, Holds(topics[ch], t)
  PROVE  Pending(ch, t) \/ LastWish(ch, t)
<1> SUFFICES ASSUME ~Pending(ch, t) PROVE LastWish(ch, t)
  OBVIOUS
<1>1. ~Unedited(ch, t)
  BY DEF Pending, Unedited
<1>2. PICK i \in 1..Taken : accepted[i] = Activation(ch, t) /\ \A j \in (i + 1)..Taken : ~About(j, ch, t)
  BY <1>1 DEF WishInv, LastTaken, Activation
<1>3. /\ Taken \in Nat /\ Len(accepted) \in Nat /\ Len(tasks) \in Nat /\ Len(accepted) = Taken + Len(tasks)
      /\ DOMAIN accepted = 1..Len(accepted) /\ DOMAIN tasks = 1..Len(tasks)
  BY LenProperties DEF WishInv, QueueInOrder, Taken, TypeOK
<1>4. ASSUME NEW j \in (i + 1)..Len(accepted) PROVE accepted[j].channel # ch \/ accepted[j].topic # t
  <2>1. CASE j <= Taken
    BY <1>2, <1>3, <2>1 DEF About
  <2>2. CASE j > Taken
    <3>1. j - Taken \in DOMAIN tasks /\ Taken + (j - Taken) = j
      BY <1>3, <2>2
    <3>2. tasks[j - Taken] = accepted[j]
      BY <3>1 DEF WishInv, QueueInOrder
    <3> QED
      BY <3>1, <3>2 DEF Pending
  <2> QED
    BY <1>3, <2>1, <2>2
<1>5. i \in DOMAIN accepted
  BY <1>3
<1> QED
  BY <1>2, <1>4, <1>5 DEF LastWish, Activation

LEMMA PublishIsWished ==
  ASSUME TypeOK, WalkHasEvent, WishInv, [Next]_vars
  PROVE  \A ch \in Channels, t \in Topics :
           published'[<<ch, t>>] # published[<<ch, t>>] => Pending(ch, t) \/ LastWish(ch, t)
<1>1. ASSUME NEW ch \in Channels, NEW t \in Topics, published'[<<ch, t>>] # published[<<ch, t>>]
      PROVE  Pending(ch, t) \/ LastWish(ch, t)
  <2>1. Publish
    BY <1>1 DEF Next, Submit, Worker, TakeTask, Ref, Find, Lock, Write, Size, InManager, Return, Scheduler,
       Network, Die, EventLock, EventSkip, EventLookup, EventDone, EventReturn, vars, eventVars
  <2> DEFINE c == Head(toPublish).channel
             u == topics[c][nextTopic]
  <2>2. published' = [published EXCEPT ![<<c, u>>] = Append(@, Head(toPublish).id)]
        /\ evPc = "topic" /\ nextTopic <= Len(topics[c])
    BY <2>1 DEF Publish
  <2>3. c = ch /\ u = t
    BY <1>1, <2>2 DEF TypeOK
  <2>4. nextTopic \in DOMAIN topics[ch]
    BY <2>2, <2>3, LenProperties DEF TypeOK
  <2>5. Holds(topics[ch], t)
    BY <2>3, <2>4 DEF Holds
  <2> QED
    BY <2>5, HeldIsWished
<1> QED
  BY <1>1

\* If the pool never runs two commands of one channel at the same time, then
\* after the last command on a channel and topic was a deactivation and has
\* run, nothing of the channel goes to that topic, however the pool's threads
\* and the scheduler are interleaved.
THEOREM SerialQuiet == Spec /\ []Serial => QuietAfterDeactivation
<1>1. Init => WishInv
  <2> SUFFICES ASSUME Init PROVE WishInv
    OBVIOUS
  <2>1. Taken = 0 /\ DOMAIN tasks = {} /\ \A ch \in Channels : DOMAIN topics[ch] = {}
    BY EmptySeq DEF Init, Taken
  <2> QED
    BY <2>1 DEF Init, WishInv, QueueInOrder, Holds
<1>2. TypeOK /\ EditInv /\ WishInv /\ Serial' /\ [Next]_vars => WishInv'
  BY WishStep
<1>3. TypeInv /\ WishInv /\ [Next]_vars
        => [\A ch \in Channels, t \in Topics :
              published'[<<ch, t>>] # published[<<ch, t>>] => Pending(ch, t) \/ LastWish(ch, t)]_vars
  BY PublishIsWished DEF TypeInv
<1>4. TypeInv => TypeOK
  BY DEF TypeInv
<1> QED
  BY <1>1, <1>2, <1>3, <1>4, EditInvariant, TypeInvariant, PTL DEF Spec, QuietAfterDeactivation

-----------------------------------------------------------------------------
(* The order of what is published *)

\* The batch is still to be handed to the handler.
Waiting == (schedPc = "deliver" /\ toCall # {}) \/ (schedPc = "handler" /\ evPc = "out")

\* The topics the event in hand has gone to already.
Walked(t) ==
  evPc = "topic" /\ \E k \in 1..(nextTopic - 1) : topics[Head(toPublish).channel][k] = t

\* There is one handler, so a batch is handed over once.
OnceEach ==
  /\ schedPc = "handler" => toCall = {}
  /\ evPc = "out" => toPublish = <<>>
  /\ evPc # "out" => schedPc = "handler"

Before(ids, id) == \A i \in DOMAIN ids : ids[i] < id

\* Whatever waits to be published is younger than what was, except that the
\* event in hand may have gone to the topics walked already.
Rising ==
  \A ch \in Channels, t \in Topics :
    /\ \A i, j \in DOMAIN published[<<ch, t>>] : i < j => published[<<ch, t>>][i] < published[<<ch, t>>][j]
    /\ \A i \in DOMAIN published[<<ch, t>>] : Past(ch, published[<<ch, t>>][i])
    /\ Waiting => \A j \in DOMAIN batch : batch[j].channel = ch => Before(published[<<ch, t>>], batch[j].id)
    /\ \A j \in DOMAIN toPublish : toPublish[j].channel = ch =>
         Before(published[<<ch, t>>], toPublish[j].id) \/ (j = 1 /\ Walked(t))

InHand == Ordered(batch) /\ AllPast(batch) /\ Ordered(toPublish) /\ AllPast(toPublish)

OrderInv == FifoInOrder /\ InHand /\ OnceEach /\ Rising

LEMMA PastKept ==
  ASSUME StaysPast, NEW s \in Seq(Event), AllPast(s)
  PROVE  \A i \in DOMAIN s : s[i].channel \in Channels /\ Past(s[i].channel, s[i].id)'
BY EventsAreNumbered DEF StaysPast, AllPast

\* A step that publishes nothing and takes nothing in hand.
LEMMA OrderKept ==
  ASSUME TypeOK, OrderInv, FifoInOrder', StaysPast,
         UNCHANGED <<published, batch, toPublish, evPc>>,
         Waiting' => Waiting, OnceEach',
         evPc = "topic" => UNCHANGED <<topics, nextTopic>>
  PROVE  OrderInv'
<1> USE DEF OrderInv
<1>1. AllPast(batch)' /\ AllPast(toPublish)'
  BY PastKept DEF InHand, AllPast, TypeOK, MgrTypeOK
<1>2. InHand'
  BY <1>1 DEF InHand, Ordered
<1>3. ASSUME NEW ch \in Channels, NEW t \in Topics, NEW i \in DOMAIN published[<<ch, t>>]
      PROVE  Past(ch, published[<<ch, t>>][i])'
  <2>1. Past(ch, published[<<ch, t>>][i])
    BY <1>3 DEF Rising
  <2> QED
    BY <2>1 DEF StaysPast, Past
<1>4. \A t : Walked(t) => Walked(t)'
  BY DEF Walked
<1>5. ASSUME NEW ch \in Channels, NEW t \in Topics
      PROVE  /\ \A i, j \in DOMAIN published[<<ch, t>>] : i < j => published[<<ch, t>>][i] < published[<<ch, t>>][j]
             /\ Waiting' => \A j \in DOMAIN batch : batch[j].channel = ch => Before(published[<<ch, t>>], batch[j].id)
             /\ \A j \in DOMAIN toPublish : toPublish[j].channel = ch =>
                  Before(published[<<ch, t>>], toPublish[j].id) \/ (j = 1 /\ Walked(t)')
  BY <1>4 DEF Rising
<1>6. Rising'
  BY <1>3, <1>5 DEF Rising, Before
<1> QED
  BY <1>2, <1>6

LEMMA StaysPastSame == ASSUME UNCHANGED <<fifo, nextEvent>> PROVE StaysPast
BY DEF StaysPast, Past

LEMMA OrderPoll ==
  ASSUME TypeOK, OrderInv, NEW ch \in Channels, SchedPoll(ch), UNCHANGED <<tableVars, eventVars>>
  PROVE  OrderInv'
<1> USE DEF OrderInv
<1>1. MgrTypeOK /\ published' = published /\ toPublish' = toPublish /\ evPc' = evPc
  BY DEF TypeOK, eventVars
<1>2. /\ FifoInOrder' /\ Ordered(batch') /\ AllPast(batch)' /\ StaysPast
      /\ \A i \in DOMAIN batch' : \E j \in DOMAIN fifo[ch] : batch'[i] = fifo[ch][j]
  BY <1>1, PollMoves
<1>3. schedPc = "scan" /\ schedPc' \in {"scan", "deliver"} /\ evPc = "out" /\ toPublish = <<>>
  BY DEF SchedPoll, SchedTo, OnceEach, TypeOK
<1>4. DOMAIN toPublish = {}
  BY <1>3, EmptySeq
<1>5. InHand'
  BY <1>1, <1>2, <1>4 DEF InHand, Ordered, AllPast
<1>6. OnceEach'
  BY <1>1, <1>3 DEF OnceEach
<1>7. ASSUME NEW c \in Channels, NEW t \in Topics, NEW i \in DOMAIN published[<<c, t>>]
      PROVE  /\ Past(c, published[<<c, t>>][i])'
             /\ \A j \in DOMAIN batch' : batch'[j].channel = c => published[<<c, t>>][i] < batch'[j].id
  <2>1. Past(c, published[<<c, t>>][i])
    BY <1>7 DEF Rising
  <2>2. ASSUME NEW j \in DOMAIN batch', batch'[j].channel = c PROVE published[<<c, t>>][i] < batch'[j].id
    <3>1. PICK k \in DOMAIN fifo[ch] : batch'[j] = fifo[ch][k]
      BY <1>2, <2>2
    <3>2. c = ch
      BY <2>2, <3>1 DEF FifoInOrder
    <3> QED
      BY <2>1, <3>1, <3>2 DEF Past
  <2>3. Past(c, published[<<c, t>>][i])'
    BY <1>1, <1>2, <2>1 DEF StaysPast, Past
  <2> QED
    BY <2>2, <2>3
<1>8. Rising'
  BY <1>1, <1>4, <1>7 DEF Rising, Before
<1> QED
  BY <1>2, <1>5, <1>6, <1>8

LEMMA OrderLock ==
  ASSUME TypeOK, OrderInv, EventLock
  PROVE  OrderInv'
<1> USE DEF OrderInv
<1>1. /\ schedPc = "handler" /\ evPc = "out" /\ evPc' = "event" /\ toPublish' = batch
      /\ UNCHANGED <<published, batch, fifo, nextEvent, schedPc, toCall>>
  BY DEF EventLock, mgrVars, schedVars
<1>2. FifoInOrder' /\ StaysPast
  BY <1>1, StaysPastSame DEF FifoInOrder
<1>3. InHand' /\ OnceEach'
  BY <1>1 DEF InHand, OnceEach, AllPast, Past, Ordered
<1>4. Waiting /\ ~Waiting'
  BY <1>1 DEF Waiting
<1>5. ASSUME NEW ch \in Channels, NEW t \in Topics
      PROVE  /\ \A i, j \in DOMAIN published[<<ch, t>>] : i < j => published[<<ch, t>>][i] < published[<<ch, t>>][j]
             /\ \A i \in DOMAIN published[<<ch, t>>] : Past(ch, published[<<ch, t>>][i])'
             /\ \A j \in DOMAIN batch : batch[j].channel = ch => Before(published[<<ch, t>>], batch[j].id)
  BY <1>1, <1>4 DEF Rising, Past
<1>6. Rising'
  BY <1>1, <1>4, <1>5 DEF Rising, Before
<1> QED
  BY <1>2, <1>3, <1>6

\* The event in hand is done with: what follows it is younger.
LEMMA OrderNext ==
  ASSUME TypeOK, WalkHasEvent, OrderInv, EventSkip \/ EventDone
  PROVE  OrderInv'
<1> USE DEF OrderInv
<1> DEFINE n == Len(toPublish)
<1>1. /\ evPc \in {"event", "topic"} /\ evPc' = "event" /\ toPublish # <<>> /\ toPublish' = Tail(toPublish)
      /\ UNCHANGED <<published, batch, fifo, nextEvent, schedPc, toCall>>
  BY DEF EventSkip, EventDone, WalkHasEvent, mgrVars, schedVars
<1>2. /\ n \in Nat /\ DOMAIN toPublish = 1..n /\ DOMAIN toPublish' = 1..(n - 1)
      /\ \A i \in 1..(n - 1) : toPublish'[i] = toPublish[i + 1]
  <2>1. toPublish \in Seq(Event) /\ toPublish' \in Seq(Event) /\ Len(toPublish') = n - 1
        /\ \A i \in 1..(n - 1) : toPublish'[i] = toPublish[i + 1]
    BY <1>1, HeadTailProperties DEF TypeOK
  <2> QED
    BY <2>1, LenProperties
<1> HIDE DEF n
<1>3. \A i \in DOMAIN toPublish' : i + 1 \in DOMAIN toPublish /\ toPublish'[i] = toPublish[i + 1] /\ i + 1 # 1
  BY <1>2
<1>4. \A i, j \in DOMAIN toPublish' : i < j => i + 1 < j + 1
  BY <1>2
<1>5. FifoInOrder' /\ AllPast(batch)' /\ Ordered(batch')
  BY <1>1 DEF FifoInOrder, InHand, AllPast, Past
<1>6. Ordered(toPublish') /\ AllPast(toPublish)'
  <2>1. Ordered(toPublish')
    BY <1>3, <1>4 DEF InHand, Ordered
  <2>2. \A ch, id : Past(ch, id) => Past(ch, id)'
    BY <1>1 DEF Past
  <2>3. \A i \in DOMAIN toPublish' : toPublish'[i].channel \in Channels /\ Past(toPublish'[i].channel, toPublish'[i].id)
    BY <1>3 DEF InHand, AllPast
  <2> QED
    BY <1>1, <2>1, <2>2, <2>3 DEF AllPast, Past
<1>7. OnceEach' /\ ~Waiting'
  BY <1>1 DEF OnceEach, Waiting
<1>8. ASSUME NEW ch \in Channels, NEW t \in Topics, NEW j \in DOMAIN toPublish', toPublish'[j].channel = ch
      PROVE  Before(published[<<ch, t>>], toPublish'[j].id)
  BY <1>3, <1>8 DEF Rising
<1>9. ASSUME NEW ch \in Channels, NEW t \in Topics
      PROVE  /\ \A i, j \in DOMAIN published[<<ch, t>>] : i < j => published[<<ch, t>>][i] < published[<<ch, t>>][j]
             /\ \A i \in DOMAIN published[<<ch, t>>] : Past(ch, published[<<ch, t>>][i])'
  BY <1>1 DEF Rising, Past
<1>10. Rising'
  BY <1>1, <1>7, <1>8, <1>9 DEF Rising, Before
<1> QED
  BY <1>5, <1>6, <1>7, <1>10 DEF InHand

LEMMA OrderPublish ==
  ASSUME TypeOK, WalkHasEvent, EditInv, OrderInv, Publish
  PROVE  OrderInv'
<1> USE DEF OrderInv
<1> DEFINE e == Head(toPublish)
           c == e.channel
           v == topics[c]
           t == v[nextTopic]
           s == published[<<c, t>>]
           n == Len(s)
<1>1. /\ evPc = "topic" /\ nextTopic \in DOMAIN v /\ nextTopic' = nextTopic + 1
      /\ published' = [published EXCEPT ![<<c, t>>] = Append(s, e.id)]
      /\ UNCHANGED <<topics, evPc, toPublish, batch, fifo, nextEvent, schedPc, toCall>>
  BY DEF Publish, TypeOK, mgrVars, schedVars, tableVars
<1>2. 1 \in DOMAIN toPublish /\ e = toPublish[1] /\ e \in Event /\ e.id \in Nat /\ c \in Channels
  <2>1. toPublish \in Seq(Event) /\ toPublish # <<>>
    BY <1>1 DEF WalkHasEvent, TypeOK
  <2>2. 1 \in DOMAIN toPublish /\ e = toPublish[1]
    BY <2>1, EmptySeq, LenProperties
  <2> QED
    BY <2>1, <2>2, EventsAreNumbered
<1>3. v \in Seq(Topics) /\ t \in Topics /\ NoneTwice(v) /\ nextTopic \in Nat \ {0}
  BY <1>1, <1>2, ElementOfSeq, LenProperties DEF TypeOK, EditInv
<1>4. s \in Seq(1..MaxEvents) /\ n \in Nat /\ \A i \in DOMAIN s : s[i] \in Nat
  <2>1. s \in Seq(1..MaxEvents)
    BY <1>2, <1>3 DEF TypeOK
  <2> QED
    BY <2>1, ElementOfSeq, LenProperties, ManagerAssumption
<1>5. /\ DOMAIN Append(s, e.id) = 1..(n + 1) /\ DOMAIN s = 1..n /\ Append(s, e.id)[n + 1] = e.id
      /\ \A i \in 1..n : Append(s, e.id)[i] = s[i]
  <2>1. s \in Seq(Nat) /\ e.id \in Nat
    BY <1>2, <1>4
  <2>2. Append(s, e.id) \in Seq(Nat) /\ Len(Append(s, e.id)) = n + 1
    BY <2>1, AppendProperties
  <2>3. DOMAIN s = 1..n /\ DOMAIN Append(s, e.id) = 1..(n + 1)
    BY <2>1, <2>2, LenProperties
  <2> HIDE DEF s, e
  <2>4. Append(s, e.id)[n + 1] = e.id /\ \A i \in 1..n : Append(s, e.id)[i] = s[i]
    BY ONLY <2>1, AppendProperties DEF n
  <2> QED
    BY ONLY <2>3, <2>4
<1>6. published'[<<c, t>>] = Append(s, e.id)
      /\ \A ch \in Channels, u \in Topics : <<ch, u>> # <<c, t>> => published'[<<ch, u>>] = published[<<ch, u>>]
  BY <1>1, <1>2, <1>3 DEF TypeOK
<1> DEFINE r == Append(s, e.id)
<1>7. ~Walked(t) /\ \A u : u = t \/ Walked(u) => Walked(u)'
  <2>1. ~Walked(t)
    <3>1. \A k \in 1..(nextTopic - 1) : k \in DOMAIN v /\ k # nextTopic
      BY <1>1, <1>3, LenProperties
    <3> HIDE DEF v
    <3>2. \A k \in 1..(nextTopic - 1) : v[k] # v[nextTopic]
      BY <1>1, <1>3, <3>1 DEF NoneTwice
    <3> QED
      BY <3>2 DEF Walked, v
  <2>2. nextTopic \in 1..(nextTopic' - 1) /\ topics'[Head(toPublish').channel][nextTopic] = t
    BY <1>1, <1>3
  <2>3. \A k \in 1..(nextTopic - 1) : k \in 1..(nextTopic' - 1)
    BY <1>1, <1>3
  <2> QED
    BY <1>1, <2>1, <2>2, <2>3 DEF Walked
<1>8. Before(s, e.id)
  BY <1>2, <1>3, <1>7 DEF Rising
<1>9. Past(c, e.id)
  BY <1>2 DEF InHand, AllPast
<1>a. \A i \in DOMAIN s : s[i] < e.id
  BY <1>8 DEF Before
<1>b. ASSUME NEW j \in DOMAIN toPublish, toPublish[j].channel = c, j # 1
      PROVE  e.id < toPublish[j].id /\ Before(s, toPublish[j].id)
  <2>1. e.id < toPublish[j].id
    <3>1. 1 < j
      BY <1>b, LenProperties DEF TypeOK
    <3> QED
      BY <1>2, <1>b, <3>1 DEF InHand, Ordered
  <2>2. Before(s, toPublish[j].id)
    BY <1>2, <1>3, <1>b DEF Rising
  <2> QED
    BY <2>1, <2>2
<1>c. \A i, j \in DOMAIN s : i < j => s[i] < s[j]
  BY <1>2, <1>3 DEF Rising
<1>d. \A i \in DOMAIN s : Past(c, s[i])
  BY <1>2, <1>3 DEF Rising
<1>f. n \in Nat /\ DOMAIN s = 1..n /\ DOMAIN r = 1..(n + 1) /\ r[n + 1] = e.id /\ \A i \in 1..n : r[i] = s[i]
  BY <1>4, <1>5
<1> HIDE DEF e, c, v, t, s, n, r
<1>11. \A i \in DOMAIN r : (i = n + 1 /\ r[i] = e.id) \/ (i \in 1..n /\ r[i] = s[i])
  BY ONLY <1>f
<1>10. ASSUME NEW j \in DOMAIN toPublish, toPublish[j].channel = c, j # 1
       PROVE  Before(r, toPublish[j].id)
  <2>1. \A i \in DOMAIN r : r[i] = e.id \/ (i \in DOMAIN s /\ r[i] = s[i])
    BY ONLY <1>f, <1>11
  <2> QED
    BY <1>b, <1>10, <2>1 DEF Before
<1>12. \A i, j \in DOMAIN r : i < j => r[i] < r[j]
  <2>1. ASSUME NEW i \in DOMAIN r, NEW j \in DOMAIN r, i < j PROVE r[i] < r[j]
    <3>1. i \in 1..n /\ r[i] = s[i] /\ i \in DOMAIN s
      BY ONLY <1>f, <2>1
    <3>2. CASE j = n + 1
      BY <1>a, <1>f, <3>1, <3>2
    <3>3. CASE j # n + 1
      <4>1. j \in DOMAIN s /\ r[j] = s[j]
        BY ONLY <1>f, <1>11, <3>3
      <4> QED
        BY ONLY <1>c, <2>1, <3>1, <4>1
    <3> QED
      BY <3>2, <3>3
  <2> QED
    BY <2>1
<1>13. \A i \in DOMAIN r : Past(c, r[i])
  BY <1>9, <1>d, <1>f, <1>11
<1>14. ~Waiting'
  BY <1>1 DEF Waiting, OnceEach
<1>15. ASSUME NEW ch \in Channels, NEW u \in Topics
       PROVE  /\ \A i, j \in DOMAIN published'[<<ch, u>>] : i < j => published'[<<ch, u>>][i] < published'[<<ch, u>>][j]
              /\ \A i \in DOMAIN published'[<<ch, u>>] : Past(ch, published'[<<ch, u>>][i])
              /\ \A j \in DOMAIN toPublish : toPublish[j].channel = ch =>
                   Before(published'[<<ch, u>>], toPublish[j].id) \/ (j = 1 /\ Walked(u)')
  <2>1. CASE <<ch, u>> = <<c, t>>
    <3>1. ch = c /\ u = t /\ published'[<<ch, u>>] = r
      BY <1>6, <2>1 DEF r
    <3> QED
      BY <1>7, <1>10, <1>12, <1>13, <3>1
  <2>2. CASE <<ch, u>> # <<c, t>>
    <3>1. published'[<<ch, u>>] = published[<<ch, u>>]
      BY <1>6, <2>2
    <3> QED
      BY <1>7, <3>1 DEF Rising
  <2> QED
    BY <2>1, <2>2
<1>16. Rising'
  <2>1. ASSUME NEW ch \in Channels, NEW u \in Topics, NEW i \in DOMAIN published'[<<ch, u>>]
        PROVE  Past(ch, published[<<ch, u>>][i])'
    <3>1. PICK k : k = published'[<<ch, u>>][i]
      OBVIOUS
    <3>2. Past(ch, k)
      BY ONLY <1>15, <2>1, <3>1
    <3>3. Past(ch, k)'
      BY ONLY <1>1, <3>2 DEF Past
    <3> QED
      BY ONLY <3>1, <3>3 DEF Past
  <2>2. toPublish' = toPublish
    BY ONLY <1>1
  <2>3. ASSUME NEW ch \in Channels, NEW u \in Topics
        PROVE  \A j \in DOMAIN toPublish' : toPublish'[j].channel = ch =>
                 Before(published[<<ch, u>>], toPublish[j].id)' \/ (j = 1 /\ Walked(u)')
    BY ONLY <1>15, <2>2 DEF Before
  <2> QED
    BY ONLY <1>14, <1>15, <2>1, <2>3 DEF Rising
<1>17. FifoInOrder' /\ InHand' /\ OnceEach'
  BY <1>1 DEF FifoInOrder, InHand, OnceEach, AllPast, Past, Ordered
<1> QED
  BY <1>16, <1>17

LEMMA OrderScheduler ==
  ASSUME TypeOK, WalkHasEvent, EditInv, OrderInv, Scheduler
  PROVE  OrderInv'
<1> USE DEF OrderInv
<1>1. ASSUME NEW ch \in Channels, SchedPoll(ch), UNCHANGED <<tableVars, eventVars>> PROVE OrderInv'
  BY <1>1, OrderPoll
<1>2. CASE EventLock
  BY <1>2, OrderLock
<1>3. CASE EventSkip \/ EventDone
  BY <1>3, OrderNext
<1>4. CASE Publish
  BY <1>4, OrderPublish
<1>5. CASE (SchedLock \/ SchedEndBroadcast \/ SchedUnlock \/ SchedExit
            \/ \E h \in Handlers : SchedCall(h) \/ SchedSkip(h)) /\ UNCHANGED <<tableVars, eventVars>>
  <2>1. /\ UNCHANGED <<fifo, nextEvent, published, batch, toPublish, evPc, topics, nextTopic>>
        /\ schedPc # "handler"
    BY <1>5 DEF SchedLock, SchedEndBroadcast, SchedUnlock, SchedExit, SchedCall, SchedSkip, SchedTo,
                tableVars, eventVars
  <2>2. (Waiting' => Waiting) /\ OnceEach'
    <3>1. evPc = "out" /\ toPublish = <<>>
      BY <2>1 DEF OnceEach
    <3>2. CASE \E h \in Handlers : SchedCall(h)
      <4>1. PICK h \in Handlers : schedPc = "deliver" /\ schedPc' = "handler" /\ h \in toCall /\ toCall' = toCall \ {h}
        BY <3>2 DEF SchedCall, SchedTo
      <4>2. toCall' = {}
        BY <4>1, WorkerAssumption DEF TypeOK, MgrTypeOK
      <4> QED
        BY <2>1, <3>1, <4>1, <4>2 DEF Waiting, OnceEach
    <3>3. CASE ~(\E h \in Handlers : SchedCall(h))
      <4>1. schedPc' # "handler" /\ (schedPc' = "deliver" => schedPc = "deliver" /\ toCall' \subseteq toCall)
        BY <1>5, <3>3 DEF SchedLock, SchedEndBroadcast, SchedUnlock, SchedExit, SchedSkip, SchedTo
      <4> QED
        BY <2>1, <3>1, <4>1 DEF Waiting, OnceEach
    <3> QED
      BY <3>2, <3>3
  <2>3. FifoInOrder' /\ StaysPast
    BY <2>1, StaysPastSame DEF FifoInOrder
  <2> QED
    BY <2>1, <2>2, <2>3, OrderKept
<1>6. CASE EventLookup
  <2>1. /\ UNCHANGED <<fifo, nextEvent, published, batch, toPublish, schedPc, toCall>>
        /\ evPc = "event" /\ evPc' = "topic" /\ nextTopic' = 1
    BY <1>6 DEF EventLookup, mgrVars, schedVars
  <2>2. FifoInOrder' /\ InHand' /\ OnceEach' /\ ~Waiting'
    BY <2>1 DEF FifoInOrder, InHand, OnceEach, Waiting, AllPast, Past
  <2>3. \A t : ~Walked(t)
    BY <2>1 DEF Walked
  <2>4. ASSUME NEW ch \in Channels, NEW t \in Topics
        PROVE  /\ \A i, j \in DOMAIN published[<<ch, t>>] : i < j => published[<<ch, t>>][i] < published[<<ch, t>>][j]
               /\ \A i \in DOMAIN published[<<ch, t>>] : Past(ch, published[<<ch, t>>][i])'
               /\ \A j \in DOMAIN toPublish : toPublish[j].channel = ch => Before(published[<<ch, t>>], toPublish[j].id)
    BY <2>1, <2>3 DEF Rising, Past
  <2>5. Rising'
    BY <2>1, <2>2, <2>4 DEF Rising, Before
  <2> QED
    BY <2>2, <2>5
<1>7. CASE EventReturn
  <2>1. /\ UNCHANGED <<fifo, nextEvent, published, batch, toPublish, toCall>>
        /\ evPc = "event" /\ evPc' = "out" /\ schedPc' = "deliver" /\ schedPc = "handler" /\ toPublish = <<>>
    BY <1>7 DEF EventReturn, HandlerReturn, SchedTo
  <2>2. FifoInOrder' /\ StaysPast
    BY <2>1, StaysPastSame DEF FifoInOrder
  <2>3. OnceEach' /\ ~Waiting'
    BY <2>1 DEF OnceEach, Waiting
  <2>4. InHand'
    BY <2>1 DEF InHand, AllPast, Past
  <2>5. Rising'
    BY <2>1, <2>3, EmptySeq DEF Rising, Before, Past
  <2> QED
    BY <2>2, <2>3, <2>4, <2>5
<1> QED
  BY <1>1, <1>2, <1>3, <1>4, <1>5, <1>6, <1>7 DEF Scheduler, SchedStep

LEMMA OrderStep ==
  ASSUME TypeOK, WalkHasEvent, TableLockOwner, EditInv, OrderInv, [Next]_vars
  PROVE  OrderInv'
<1> USE DEF OrderInv
<1>1. CASE Scheduler
  BY <1>1, OrderScheduler
<1>2. ASSUME NEW w \in Threads, Worker(w) PROVE OrderInv'
  <2>1. UNCHANGED <<published, toPublish, evPc, nextTopic, batch, schedPc, toCall, nextEvent>>
    BY <1>2 DEF Worker, TakeTask, Ref, Find, Lock, Write, Size, InManager, Return, CallStep, AddLock,
                AddCreate, AddConnect, AddStart, AddThrow, RemoveChannel, mgrVars, schedVars, eventVars
  <2>2. FifoInOrder' /\ StaysPast
    <3>1. CASE InManager(w)
      BY <3>1, CallEmpties DEF InManager, TypeOK
    <3>2. CASE ~InManager(w)
      <4>1. UNCHANGED <<fifo, nextEvent>>
        BY <1>2, <3>2 DEF Worker, TakeTask, Ref, Find, Lock, Write, Size, Return, mgrVars
      <4> QED
        BY <4>1, StaysPastSame DEF FifoInOrder
    <3> QED
      BY <3>1, <3>2
  <2>3. evPc = "topic" => UNCHANGED topics
    <3>1. evPc = "topic" => \A u \in Threads : pc[u] # "write"
      BY ManagerAssumption DEF TableLockOwner
    <3> QED
      BY <3>1, OnlyWriteEdits
  <2>4. (Waiting' => Waiting) /\ OnceEach'
    BY <2>1 DEF Waiting, OnceEach
  <2> QED
    BY <2>1, <2>2, <2>3, <2>4, OrderKept
<1>3. CASE Network
  <2>1. UNCHANGED <<published, toPublish, evPc, nextTopic, batch, schedPc, toCall, topics>>
    BY <1>3 DEF Network, Produce, schedVars, eventVars, tableVars
  <2>2. FifoInOrder' /\ StaysPast
    BY <1>3, ProduceAppends DEF Network, TypeOK
  <2>3. (Waiting' => Waiting) /\ OnceEach'
    BY <2>1 DEF Waiting, OnceEach
  <2> QED
    BY <2>1, <2>2, <2>3, OrderKept
<1>4. CASE (\E c \in Command : Submit(c)) \/ Die \/ UNCHANGED vars
  <2>1. UNCHANGED <<published, toPublish, evPc, nextTopic, batch, schedPc, toCall, topics, fifo, nextEvent>>
    BY <1>4 DEF Submit, Die, vars, mgrVars, schedVars, eventVars, tableVars
  <2>2. FifoInOrder' /\ StaysPast
    BY <2>1, StaysPastSame DEF FifoInOrder
  <2>3. (Waiting' => Waiting) /\ OnceEach'
    BY <2>1 DEF Waiting, OnceEach
  <2> QED
    BY <2>1, <2>2, <2>3, OrderKept
<1> QED
  BY <1>1, <1>2, <1>3, <1>4 DEF Next

\* If the pool never runs two commands of one channel at the same time, every
\* topic gets the events of a channel in their order and none of them twice,
\* however the commands cut into the broadcasts.
THEOREM SerialOrder == Spec /\ []Serial => []PublishedInOrder
<1>1. Init => OrderInv
  <2> SUFFICES ASSUME Init PROVE OrderInv
    OBVIOUS
  <2>1. schedPc = "sleep" /\ evPc = "out" /\ toPublish = <<>> /\ DOMAIN batch = {} /\ DOMAIN toPublish = {}
        /\ (\A ch \in Channels : DOMAIN fifo[ch] = {})
        /\ \A ch \in Channels, t \in Topics : DOMAIN published[<<ch, t>>] = {}
    BY EmptySeq DEF Init, MgrInit
  <2> QED
    BY <2>1 DEF OrderInv, FifoInOrder, InHand, AllPast, Ordered, OnceEach, Rising, Waiting, Before
<1>2. TypeInv /\ TableLockOwner /\ EditInv /\ OrderInv /\ [Next]_vars => OrderInv'
  BY OrderStep DEF TypeInv
<1>3. OrderInv => PublishedInOrder
  BY DEF OrderInv, Rising, PublishedInOrder
<1> QED
  BY <1>1, <1>2, <1>3, EditInvariant, TypeInvariant, TableLockSafe, PTL DEF Spec

-----------------------------------------------------------------------------
(* The commands of a channel among those of the queue *)

\* Induction over the naturals, for a set of them: the library's least element
\* theorem takes a set where its induction theorem takes an operator.
LEMMA NatSetInduction ==
  ASSUME NEW T, 0 \in T, \A n \in Nat : n \in T => n + 1 \in T
  PROVE  Nat \subseteq T
<1> DEFINE R == OpToRel(<, Nat)
           D == Nat \ T
<1>1. \A x, y \in Nat : x < y => <<x, y>> \in R
  BY DEF OpToRel
<1>2. IsWellFoundedOn(R, Nat)
  BY NatLessThanWellFounded
<1> HIDE DEF R
<1> SUFFICES ASSUME D # {} PROVE FALSE
  OBVIOUS
<1>3. PICK n \in D : \A y \in D : ~(<<y, n>> \in R)
  BY <1>2, WFMin
<1>4. n - 1 \in Nat /\ n - 1 < n
  OBVIOUS
<1>5. n - 1 \in T
  BY <1>1, <1>3, <1>4
<1>6. (n - 1) + 1 \in T
  BY <1>4, <1>5
<1> QED
  BY <1>4, <1>6

FilterStep(f, s, ch, k) == IF s[k].channel = ch THEN Append(f[k - 1], s[k]) ELSE f[k - 1]
Filters(f, s, ch, n) == f = [k \in 0..n |-> IF k = 0 THEN <<>> ELSE FilterStep(f, s, ch, k)]

\* For every length there is a function that the recursion of OfChannel describes.
LEMMA FilterExists ==
  ASSUME NEW s, NEW ch, NEW n \in Nat
  PROVE  \E f : Filters(f, s, ch, n)
<1> DEFINE T == {k \in Nat : \E f : Filters(f, s, ch, k)}
<1>1. 0 \in T
  <2>1. Filters([m \in 0..0 |-> <<>>], s, ch, 0)
    BY DEF Filters
  <2> QED
    BY <2>1
<1>2. ASSUME NEW k \in Nat, k \in T PROVE k + 1 \in T
  <2>1. PICK f : Filters(f, s, ch, k)
    BY <1>2
  <2> DEFINE g == [m \in 0..(k + 1) |-> IF m = k + 1 THEN FilterStep(f, s, ch, k + 1) ELSE f[m]]
  <2>2. \A m \in 0..k : g[m] = f[m]
    OBVIOUS
  <2>3. g[k + 1] = FilterStep(f, s, ch, k + 1)
    OBVIOUS
  <2>4. DOMAIN g = 0..(k + 1) /\ g = [m \in 0..(k + 1) |-> g[m]]
    OBVIOUS
  <2>5. \A m \in 0..k : f[m] = IF m = 0 THEN <<>> ELSE FilterStep(f, s, ch, m)
    BY <2>1 DEF Filters
  <2> HIDE DEF g
  <2>6. ASSUME NEW m \in 0..(k + 1) PROVE g[m] = IF m = 0 THEN <<>> ELSE FilterStep(g, s, ch, m)
    <3>1. CASE m = 0
      BY <2>2, <2>5, <3>1
    <3>2. CASE m # 0
      <4>1. m - 1 \in 0..k /\ g[m - 1] = f[m - 1]
        BY <2>2, <3>2
      <4>2. FilterStep(g, s, ch, m) = FilterStep(f, s, ch, m)
        BY <4>1 DEF FilterStep
      <4>3. CASE m = k + 1
        BY <2>3, <4>2, <4>3, <3>2
      <4>4. CASE m # k + 1
        BY <2>2, <2>5, <4>2, <4>4, <3>2
      <4> QED
        BY <4>3, <4>4
    <3> QED
      BY <3>1, <3>2
  <2>7. Filters(g, s, ch, k + 1)
    BY <2>4, <2>6 DEF Filters
  <2> QED
    BY <2>7
<1>3. Nat \subseteq T
  BY <1>1, <1>2, NatSetInduction
<1> QED
  BY <1>3

FoldsTo(f, s, ch, n) == f[0] = <<>> /\ \A k \in 1..n : f[k] = FilterStep(f, s, ch, k)

\* OfChannel is the last value of such a function.
LEMMA OfChannelIs ==
  ASSUME NEW s \in Seq(Command), NEW ch
  PROVE  \E f : OfChannel(s, ch) = f[Len(s)] /\ FoldsTo(f, s, ch, Len(s))
<1> DEFINE n == Len(s)
           P(f) == f = [k \in 0..Len(s) |-> IF k = 0 THEN <<>>
                        ELSE IF s[k].channel = ch THEN Append(f[k - 1], s[k]) ELSE f[k - 1]]
           g == CHOOSE f : P(f)
<1>1. n \in Nat
  OBVIOUS
<1>2. PICK h : Filters(h, s, ch, n)
  BY <1>1, FilterExists
<1>3. P(h)
  BY <1>2 DEF Filters, FilterStep
<1>4. P(g)
  BY <1>3
<1>5. OfChannel(s, ch) = g[Len(s)]
  BY DEF OfChannel
<1> HIDE DEF g
<1>6. g[0] = <<>>
  BY <1>1, <1>4
<1>7. ASSUME NEW k \in 1..Len(s) PROVE g[k] = FilterStep(g, s, ch, k)
  <2>1. k \in 0..Len(s) /\ k # 0
    BY <1>1
  <2> QED
    BY <1>4, <2>1 DEF FilterStep
<1>8. FoldsTo(g, s, ch, Len(s))
  BY <1>6, <1>7 DEF FoldsTo
<1> QED
  BY <1>5, <1>8

LEMMA OfChannelEmpty == ASSUME NEW ch PROVE OfChannel(<<>>, ch) = <<>>
<1>1. <<>> \in Seq(Command) /\ Len(<<>>) = 0
  BY EmptySeq
<1> QED
  BY <1>1, OfChannelIs DEF FoldsTo

\* The recursion determines the function on the lengths it is applied to.
LEMMA FilterUnique ==
  ASSUME NEW s, NEW q, NEW ch, NEW n \in Nat, NEW f, NEW g,
         \A k \in 1..n : q[k] = s[k],
         FoldsTo(f, s, ch, n), FoldsTo(g, q, ch, n)
  PROVE  \A k \in 0..n : g[k] = f[k]
<1> USE DEF FoldsTo
<1> DEFINE T == {k \in Nat : k <= n => g[k] = f[k]}
<1>1. 0 \in T
  OBVIOUS
<1>2. ASSUME NEW k \in Nat, k \in T PROVE k + 1 \in T
  <2>1. CASE k + 1 <= n
    <3>1. k + 1 \in 1..n /\ (k + 1) - 1 = k /\ g[k] = f[k]
      BY <1>2, <2>1
    <3> QED
      BY <3>1 DEF FilterStep
  <2> QED
    BY <2>1
<1>3. Nat \subseteq T
  BY <1>1, <1>2, NatSetInduction
<1> QED
  BY <1>3

\* A command that enters the queue enters that of its own channel only.
LEMMA OfChannelAppend ==
  ASSUME NEW s \in Seq(Command), NEW c \in Command, NEW ch
  PROVE  OfChannel(Append(s, c), ch) =
           IF c.channel = ch THEN Append(OfChannel(s, ch), c) ELSE OfChannel(s, ch)
<1> DEFINE n == Len(s)
           q == Append(s, c)
<1>1. /\ n \in Nat /\ q \in Seq(Command) /\ Len(q) = n + 1 /\ q[n + 1] = c
      /\ \A k \in 1..n : q[k] = s[k]
  BY AppendProperties, LenProperties
<1>2. PICK f : OfChannel(s, ch) = f[n] /\ FoldsTo(f, s, ch, n)
  BY OfChannelIs
<1> HIDE DEF n, q
<1>3. PICK g : OfChannel(q, ch) = g[n + 1] /\ FoldsTo(g, q, ch, n + 1)
  <2>1. q \in Seq(Command) /\ Len(q) = n + 1
    BY ONLY <1>1
  <2> QED
    BY ONLY <2>1, OfChannelIs
<1>4. \A k \in 0..n : g[k] = f[k]
  <2>1. FoldsTo(g, q, ch, n)
    BY ONLY <1>1, <1>3 DEF FoldsTo
  <2>2. n \in Nat
    BY ONLY <1>1
  <2>3. \A k \in 1..n : q[k] = s[k]
    BY ONLY <1>1
  <2>4. FoldsTo(f, s, ch, n)
    BY ONLY <1>2

  <2> QED
    BY ONLY <2>1, <2>2, <2>3, <2>4, FilterUnique
<1>5. g[n + 1] = FilterStep(g, q, ch, n + 1) /\ (n + 1) - 1 = n /\ g[n] = f[n]
  BY ONLY <1>1, <1>3, <1>4 DEF FoldsTo
<1>6. g[n + 1] = IF c.channel = ch THEN Append(f[n], c) ELSE f[n]
  BY ONLY <1>1, <1>5 DEF FilterStep
<1> QED
  BY ONLY <1>2, <1>3, <1>6 DEF q

LEMMA OfChannelType ==
  ASSUME NEW s \in Seq(Command), NEW ch
  PROVE  OfChannel(s, ch) \in Seq(Command)
<1> DEFINE n == Len(s)
<1>1. n \in Nat /\ \A k \in 1..n : s[k] \in Command
  BY LenProperties, ElementOfSeq
<1>2. PICK f : OfChannel(s, ch) = f[n] /\ FoldsTo(f, s, ch, n)
  BY OfChannelIs
<1> HIDE DEF n
<1> DEFINE T == {k \in Nat : k <= n => f[k] \in Seq(Command)}
<1>3. 0 \in T
  BY <1>2, EmptySeq DEF FoldsTo
<1>4. ASSUME NEW k \in Nat, k \in T PROVE k + 1 \in T
  <2> SUFFICES ASSUME k + 1 <= n PROVE f[k + 1] \in Seq(Command)
    OBVIOUS
  <2>1. k + 1 \in 1..n /\ (k + 1) - 1 = k /\ f[k] \in Seq(Command) /\ s[k + 1] \in Command
    BY <1>1, <1>4
  <2>2. f[k + 1] = IF s[k + 1].channel = ch THEN Append(f[k], s[k + 1]) ELSE f[k]
    BY ONLY <1>2, <2>1 DEF FoldsTo, FilterStep
  <2>3. Append(f[k], s[k + 1]) \in Seq(Command)
    BY ONLY <2>1, AppendProperties
  <2> QED
    BY ONLY <2>1, <2>2, <2>3
<1>5. Nat \subseteq T
  BY <1>3, <1>4, NatSetInduction
<1> QED
  BY <1>1, <1>2, <1>5

LEMMA AppendAfter ==
  ASSUME NEW S, NEW a \in Seq(S), NEW b \in Seq(S), NEW x \in S
  PROVE  Append(a \o b, x) = a \o Append(b, x) /\ Append(b, x) \in Seq(S)
<1>1. a \o b \in Seq(S) /\ <<x>> \in Seq(S)
  BY ConcatProperties
<1>2. Append(a \o b, x) = (a \o b) \o <<x>> /\ Append(b, x) = b \o <<x>>
  BY <1>1, AppendIsConcat
<1>3. (a \o b) \o <<x>> = a \o (b \o <<x>>)
  BY <1>1, ConcatAssociative
<1> QED
  BY <1>2, <1>3, AppendProperties

\* The first command leaves the queue: what is left of its channel is the
\* rest, the other channels are as they were.
LEMMA OfChannelTail ==
  ASSUME NEW s \in Seq(Command), s # <<>>, NEW ch
  PROVE  OfChannel(s, ch) = IF Head(s).channel = ch THEN <<Head(s)>> \o OfChannel(Tail(s), ch)
                            ELSE OfChannel(Tail(s), ch)
<1> DEFINE n == Len(s)
           q == Tail(s)
           h == Head(s)
           First == IF h.channel = ch THEN <<h>> ELSE <<>>
<1>1. /\ n \in Nat \ {0} /\ q \in Seq(Command) /\ Len(q) = n - 1
      /\ \A k \in 1..(n - 1) : q[k] = s[k + 1]
      /\ h = s[1] /\ h \in Command /\ \A k \in 1..n : s[k] \in Command
  BY HeadTailProperties, LenProperties, EmptySeq, ElementOfSeq
<1>2. PICK f : OfChannel(s, ch) = f[n] /\ FoldsTo(f, s, ch, n)
  BY OfChannelIs
<1> HIDE DEF n, q, h
<1>3. PICK g : OfChannel(q, ch) = g[n - 1] /\ FoldsTo(g, q, ch, n - 1)
  <2>1. q \in Seq(Command) /\ Len(q) = n - 1
    BY ONLY <1>1
  <2> QED
    BY ONLY <2>1, OfChannelIs
<1>4. First \in Seq(Command) /\ First \o <<>> = First
  BY <1>1, EmptySeq
<1>5. f[1] = First
  <2>1. 1 \in 1..n /\ 1 - 1 = 0
    BY ONLY <1>1
  <2>2. f[1] = IF h.channel = ch THEN Append(<<>>, h) ELSE <<>>
    BY ONLY <1>1, <1>2, <2>1 DEF FoldsTo, FilterStep
  <2> QED
    BY ONLY <2>2
<1> HIDE DEF First
<1> DEFINE T == {k \in Nat : k <= n - 1 => g[k] \in Seq(Command) /\ f[k + 1] = First \o g[k]}
<1>6. 0 \in T
  <2>1. <<>> \in Seq(Command)
    BY EmptySeq
  <2>2. g[0] \in Seq(Command) /\ f[0 + 1] = First \o g[0]
    BY ONLY <1>3, <1>4, <1>5, <2>1 DEF FoldsTo
  <2> QED
    BY <2>2
<1>7. ASSUME NEW k \in Nat, k \in T PROVE k + 1 \in T
  <2> SUFFICES ASSUME k + 1 <= n - 1
               PROVE  g[k + 1] \in Seq(Command) /\ f[(k + 1) + 1] = First \o g[k + 1]
    OBVIOUS
  <2>1. /\ k + 1 \in 1..(n - 1) /\ (k + 1) - 1 = k /\ k + 2 \in 1..n /\ (k + 2) - 1 = k + 1
        /\ (k + 1) + 1 = k + 2 /\ k <= n - 1
    BY <1>1
  <2>2. g[k] \in Seq(Command) /\ f[k + 1] = First \o g[k]
    BY <1>7, <2>1
  <2> DEFINE x == q[k + 1]
  <2>3. x = s[k + 2] /\ x \in Command
    BY ONLY <1>1, <2>1
  <2>4. g[k + 1] = IF x.channel = ch THEN Append(g[k], x) ELSE g[k]
    BY ONLY <1>3, <2>1 DEF FoldsTo, FilterStep
  <2>5. f[k + 2] = IF x.channel = ch THEN Append(f[k + 1], x) ELSE f[k + 1]
    BY ONLY <1>2, <2>1, <2>3 DEF FoldsTo, FilterStep
  <2> HIDE DEF x
  <2>6. Append(First \o g[k], x) = First \o Append(g[k], x) /\ Append(g[k], x) \in Seq(Command)
    <3>1. First \in Seq(Command) /\ g[k] \in Seq(Command) /\ x \in Command
      BY ONLY <1>4, <2>2, <2>3
    <3>2. \A a, b \in Seq(Command), y \in Command :
            Append(a \o b, y) = a \o Append(b, y) /\ Append(b, y) \in Seq(Command)
      BY ONLY AppendAfter
    <3> QED
      BY ONLY <3>1, <3>2
  <2> QED
    BY ONLY <2>1, <2>2, <2>4, <2>5, <2>6
<1>8. Nat \subseteq T
  BY <1>6, <1>7, NatSetInduction
<1>9. f[n] = First \o g[n - 1] /\ g[n - 1] \in Seq(Command)
  <2>1. n - 1 \in Nat /\ n - 1 <= n - 1 /\ (n - 1) + 1 = n
    BY ONLY <1>1
  <2>2. n - 1 \in T
    BY ONLY <1>8, <2>1
  <2>3. f[(n - 1) + 1] = First \o g[n - 1] /\ g[n - 1] \in Seq(Command)
    BY <2>1, <2>2
  <2> QED
    BY ONLY <2>1, <2>3
<1>10. <<>> \o g[n - 1] = g[n - 1]
  BY ONLY <1>9
<1> QED
  BY ONLY <1>2, <1>3, <1>9, <1>10 DEF q, h, First

-----------------------------------------------------------------------------
(* Refinement: the table and the monitors behave as Subscriptions says *)

\* A channel whose monitor is being built is in the call of one thread.
StageInv ==
  /\ \A ch \in Channels :
       \/ channelMap[ch] \in {"absent", "monitoring"}
       \/ \E w \in Threads : pc[w] = "monitor" /\ Ch(w) = ch /\ callPc[w] \in {"connect", "start"}
  /\ \A w \in Threads : callPc[w] \in {"create", "connect", "start"} => channelMap[Ch(w)] # "monitoring"

\* Steps that leave the calls in progress alone keep StageInv.
LEMMA StageSame ==
  ASSUME CallOfWorker, StageInv, UNCHANGED <<channelMap, callPc>>,
         \A w \in Threads : pc[w] = "monitor" /\ callPc[w] # "out" => pc'[w] = "monitor" /\ cmd'[w] = cmd[w]
  PROVE  StageInv'
<1>1. ASSUME NEW ch \in Channels
      PROVE  \/ channelMap'[ch] \in {"absent", "monitoring"}
             \/ \E w \in Threads : pc'[w] = "monitor" /\ cmd'[w].channel = ch /\ callPc'[w] \in {"connect", "start"}
  BY DEF StageInv, Ch
<1>2. ASSUME NEW w \in Threads, callPc'[w] \in {"create", "connect", "start"}
      PROVE  channelMap'[cmd'[w].channel] # "monitoring"
  BY <1>2 DEF StageInv, CallOfWorker, Ch
<1> QED
  BY <1>1, <1>2 DEF StageInv, Ch

\* A step inside the manager moves one thread on and touches its channel only.
LEMMA ManagerStep ==
  ASSUME TypeOK, CallOfWorker, NEW w \in Threads, InManager(w)
  PROVE  /\ pc[w] = "monitor" /\ Ch(w) \in Channels
         /\ callPc[w] # "out" /\ callArg[w].channel = Ch(w)
         /\ UNCHANGED <<tasks, pc, cmd, topics>>
         /\ \A u \in Threads \ {w} : callPc'[u] = callPc[u]
         /\ \A ch \in Channels \ {Ch(w)} : channelMap'[ch] = channelMap[ch]
         /\ \/ callPc[w] = "add" /\ InMap(Ch(w)) /\ callPc'[w] = "out" /\ UNCHANGED channelMap
            \/ callPc[w] = "add" /\ ~InMap(Ch(w)) /\ callPc'[w] = "create" /\ UNCHANGED channelMap
            \/ callPc[w] = "create" /\ callPc'[w] = "connect" /\ channelMap'[Ch(w)] = "created"
            \/ callPc[w] = "connect" /\ callPc'[w] = "start" /\ channelMap'[Ch(w)] = "connected"
            \/ callPc[w] = "start" /\ callPc'[w] = "out" /\ channelMap'[Ch(w)] = "monitoring"
            \/ callPc[w] \in {"create", "connect", "start"} /\ callPc'[w] = "threw" /\ channelMap'[Ch(w)] = "absent"
            \/ callPc[w] = "remove" /\ callPc'[w] = "out" /\ channelMap'[Ch(w)] = "absent"
<1> DEFINE c == Ch(w)
<1>1. pc[w] = "monitor" /\ CallStep(w) /\ UNCHANGED <<tasks, pc, cmd, topics>>
  BY DEF InManager, tableVars, workerVars, queueVars
<1>2. c \in Channels
  BY DEF TypeOK, Ch, Command
<1>3. /\ callPc \in [Threads -> {"out", "add", "create", "connect", "start", "threw", "remove"}]
      /\ channelMap \in [Channels -> Stages]
  BY DEF TypeOK, MgrTypeOK
<1>4. callPc[w] # "out"
  BY <1>1 DEF CallStep, AddLock, AddCreate, AddConnect, AddStart, AddThrow, RemoveChannel, CallPc
<1>5. callArg[w].channel = c
  BY <1>4 DEF CallOfWorker
<1> HIDE DEF c
<1>6. CASE AddLock(w)
  BY <1>1, <1>2, <1>3, <1>4, <1>5, <1>6 DEF AddLock, CallPc, c
<1>7. CASE AddCreate(w) \/ AddConnect(w)
  BY <1>1, <1>2, <1>3, <1>4, <1>5, <1>7 DEF AddCreate, AddConnect, CallPc, SetStage, c
<1>8. CASE AddStart(w) \/ AddThrow(w)
  BY <1>1, <1>2, <1>3, <1>4, <1>5, <1>8 DEF AddStart, AddThrow, CallPc, SetStage, c
<1>9. CASE RemoveChannel(w)
  BY <1>1, <1>2, <1>3, <1>4, <1>5, <1>9 DEF RemoveChannel, CallPc, SetStage, c
<1> QED
  BY <1>1, <1>6, <1>7, <1>8, <1>9 DEF CallStep

LEMMA StageManager ==
  ASSUME TypeOK, CallOfWorker, StageInv, Serial, NEW w \in Threads, InManager(w)
  PROVE  StageInv'
<1> DEFINE c == Ch(w)
<1>1. /\ pc[w] = "monitor" /\ c \in Channels /\ UNCHANGED <<pc, cmd>>
      /\ \A u \in Threads \ {w} : callPc'[u] = callPc[u]
      /\ \A ch \in Channels \ {c} : channelMap'[ch] = channelMap[ch]
  BY ManagerStep
<1>2. /\ \/ channelMap'[c] \in {"absent", "monitoring"}
         \/ callPc'[w] \in {"connect", "start"}
         \/ callPc[w] = "add" /\ UNCHANGED channelMap
      /\ callPc'[w] \in {"create", "connect", "start"} => channelMap'[c] # "monitoring"
  BY ManagerStep DEF InMap
<1>3. \A u \in Threads \ {w} : pc[u] # "idle" => Ch(u) # c
  BY <1>1 DEF Serial
<1>4. ASSUME NEW ch \in Channels
      PROVE  \/ channelMap'[ch] \in {"absent", "monitoring"}
             \/ \E u \in Threads : pc'[u] = "monitor" /\ cmd'[u].channel = ch /\ callPc'[u] \in {"connect", "start"}
  <2>1. CASE ch = c
    <3>1. CASE callPc[w] = "add" /\ UNCHANGED channelMap
      BY <1>1, <1>3, <2>1, <3>1 DEF StageInv, Ch
    <3>2. CASE callPc'[w] \in {"connect", "start"}
      BY <1>1, <2>1, <3>2 DEF Ch
    <3> QED
      BY <1>2, <2>1, <3>1, <3>2
  <2>2. CASE ch # c
    BY <1>1, <2>2 DEF StageInv, Ch
  <2> QED
    BY <2>1, <2>2
<1>5. ASSUME NEW u \in Threads, callPc'[u] \in {"create", "connect", "start"}
      PROVE  channelMap'[cmd'[u].channel] # "monitoring"
  <2>1. CASE u = w
    BY <1>1, <1>2, <1>5, <2>1 DEF Ch
  <2>2. CASE u # w
    <3>1. pc[u] = "monitor" /\ callPc[u] = callPc'[u] /\ Ch(u) \in Channels
      BY <1>1, <1>5, <2>2 DEF CallOfWorker, TypeOK, Ch, Command
    <3>2. channelMap[Ch(u)] # "monitoring" /\ Ch(u) # c
      BY <1>3, <1>5, <2>2, <3>1 DEF StageInv
    <3> QED
      BY <1>1, <3>1, <3>2 DEF Ch
  <2> QED
    BY <2>1, <2>2
<1> QED
  BY <1>4, <1>5 DEF StageInv, Ch

LEMMA StageWorker ==
  ASSUME TypeOK, CallOfWorker, StageInv, Serial, NEW w \in Threads, Worker(w)
  PROVE  StageInv'
<1>1. CASE TakeTask(w) \/ Ref(w) \/ Find(w) \/ Lock(w) \/ Write(w) \/ Return(w)
  <2>1. UNCHANGED <<channelMap, callPc>> /\ (pc[w] # "monitor" \/ callPc[w] = "out")
    BY <1>1 DEF TakeTask, Ref, Find, Lock, Write, Return, WorkerTo, mgrVars, callVars
  <2>2. \A u \in Threads \ {w} : pc'[u] = pc[u] /\ cmd'[u] = cmd[u]
    BY <1>1 DEF TakeTask, Ref, Find, Lock, Write, Return, WorkerTo, TypeOK
  <2> QED
    BY <2>1, <2>2, StageSame
<1>2. CASE Size(w)
  <2>1. /\ UNCHANGED <<channelMap, cmd>> /\ callPc[w] = "out" /\ callPc'[w] \in {"add", "remove"}
        /\ pc[w] = "size" /\ \A u \in Threads \ {w} : pc'[u] = pc[u] /\ callPc'[u] = callPc[u]
    BY <1>2 DEF Size, MonitorChannel, CallAdd, CallRemove, CallPc, WorkerTo, TypeOK, MgrTypeOK
  <2>2. \A u \in Threads : callPc'[u] \in {"create", "connect", "start"} => callPc[u] = callPc'[u]
    BY <2>1
  <2>3. \A u \in Threads : pc[u] = "monitor" /\ callPc[u] \in {"connect", "start"}
                             => pc'[u] = "monitor" /\ callPc'[u] = callPc[u]
    BY <2>1
  <2> QED
    BY <2>1, <2>2, <2>3 DEF StageInv, Ch
<1>3. CASE InManager(w)
  BY <1>3, StageManager
<1> QED
  BY <1>1, <1>2, <1>3 DEF Worker

\* Every step that is not a worker's leaves the workers and the monitors, and
\* all but the submission leaves the queue of the pool.
LEMMA BystanderStep ==
  ASSUME [Next]_vars, ~(\E w \in Threads : Worker(w))
  PROVE  /\ UNCHANGED <<topics, pc, cmd, channelMap, callPc>>
         /\ UNCHANGED tasks \/ \E c \in Command : Submit(c)
<1>1. CASE \E c \in Command : Submit(c)
  BY <1>1 DEF Submit, mgrVars, callVars, tableVars, workerVars
<1>2. CASE Scheduler
  BY <1>2 DEF Scheduler, SchedStep, SchedLock, SchedPoll, SchedEndBroadcast, SchedUnlock,
              SchedExit, SchedCall, SchedSkip, EventLock, EventSkip, EventLookup, Publish,
              EventDone, EventReturn, HandlerReturn, mgrVars, callVars, tableVars, workerVars, queueVars
<1>3. CASE Network
  BY <1>3 DEF Network, Produce, callVars, tableVars, workerVars, queueVars
<1>4. CASE Die \/ UNCHANGED vars
  BY <1>4 DEF Die, vars, mgrVars, callVars, tableVars, workerVars, queueVars
<1> QED
  BY <1>1, <1>2, <1>3, <1>4 DEF Next

LEMMA StageStep ==
  ASSUME TypeOK, CallOfWorker, StageInv, Serial, [Next]_vars
  PROVE  StageInv'
<1>1. CASE \E w \in Threads : Worker(w)
  BY <1>1, StageWorker
<1>2. CASE ~(\E w \in Threads : Worker(w))
  BY <1>2, BystanderStep, StageSame
<1> QED
  BY <1>1, <1>2

\* The wishes of a queue follow its commands at both ends.
LEMMA WishesAppend ==
  ASSUME NEW s \in Seq(Command), NEW c \in Command
  PROVE  Wishes(Append(s, c)) = Append(Wishes(s), Wish(c))
<1> DEFINE n == Len(s)
           q == Append(s, c)
           W == {Wish(d) : d \in Command}
<1>1. /\ n \in Nat /\ DOMAIN s = 1..n /\ DOMAIN q = 1..(n + 1) /\ q[n + 1] = c
      /\ \A k \in 1..n : q[k] = s[k] /\ s[k] \in Command
  <2>1. q \in Seq(Command) /\ Len(q) = n + 1
    BY AppendProperties
  <2> QED
    BY <2>1, AppendProperties, LenProperties, ElementOfSeq
<1> HIDE DEF n, q
<1>2. Wishes(s) = [k \in 1..n |-> Wish(s[k])] /\ \A k \in 1..n : Wish(s[k]) \in W
  BY <1>1 DEF Wishes
<1>3. Wishes(q) = [k \in 1..(n + 1) |-> IF k = n + 1 THEN Wish(c) ELSE Wish(s[k])]
  BY <1>1 DEF Wishes
<1>4. Wish(c) \in W
  OBVIOUS
<1> HIDE DEF W
<1>5. Wishes(s) \in Seq(W) /\ Len(Wishes(s)) = n
  BY ONLY <1>1, <1>2
<1> DEFINE a == Append(Wishes(s), Wish(c))
<1>6. a \in Seq(W) /\ Len(a) = n + 1 /\ a[n + 1] = Wish(c) /\ \A k \in 1..n : a[k] = Wish(s[k])
  BY <1>1, <1>2, <1>4, <1>5, AppendProperties
<1>7. a = [k \in 1..(n + 1) |-> IF k = n + 1 THEN Wish(c) ELSE Wish(s[k])]
  <2>1. DOMAIN a = 1..(n + 1) /\ a = [k \in DOMAIN a |-> a[k]]
    BY <1>6, LenProperties
  <2> HIDE DEF a
  <2> QED
    BY ONLY <1>1, <1>6, <2>1
<1> QED
  BY <1>3, <1>7 DEF q

LEMMA WishesFirst ==
  ASSUME NEW s \in Seq(Command), NEW c \in Command
  PROVE  LET q == Wishes(<<c>> \o s) IN q # <<>> /\ Head(q) = Wish(c) /\ Tail(q) = Wishes(s)
<1> DEFINE n == Len(s)
           p == <<c>> \o s
           q == Wishes(p)
           W == {Wish(d) : d \in Command}
<1>1. /\ n \in Nat /\ DOMAIN s = 1..n /\ DOMAIN p = 1..(n + 1) /\ p[1] = c
      /\ \A k \in 1..n : p[k + 1] = s[k] /\ s[k] \in Command
  <2>1. n \in Nat /\ DOMAIN s = 1..n /\ \A k \in 1..n : s[k] \in Command
    BY LenProperties, ElementOfSeq
  <2>2. Len(p) = n + 1 /\ DOMAIN p = 1..(n + 1) /\ p[1] = c
    OBVIOUS
  <2>3. \A k \in 1..n : p[k + 1] = s[k]
    OBVIOUS
  <2> QED
    BY <2>1, <2>2, <2>3
<1> HIDE DEF n, p
<1>2. Wishes(s) = [k \in 1..n |-> Wish(s[k])] /\ q = [k \in 1..(n + 1) |-> Wish(p[k])]
  BY <1>1 DEF Wishes
<1>3. \A k \in 1..(n + 1) : Wish(p[k]) \in W
  <2>1. ASSUME NEW k \in 1..(n + 1) PROVE p[k] \in Command
    <3>1. CASE k = 1
      BY <1>1, <3>1
    <3>2. CASE k # 1
      <4>1. k - 1 \in 1..n /\ (k - 1) + 1 = k
        BY <1>1, <3>2
      <4> QED
        BY <1>1, <4>1
    <3> QED
      BY <3>1, <3>2
  <2> QED
    BY <2>1
<1> HIDE DEF W
<1>4. q \in Seq(W) /\ Len(q) = n + 1
  BY ONLY <1>1, <1>2, <1>3
<1> HIDE DEF q
<1>5. q # <<>>
  BY <1>1, <1>4, EmptySeq
<1>6. Head(q) = Wish(c)
  BY <1>1, <1>2, <1>4, <1>5, HeadTailProperties
<1>7. Tail(q) = Wishes(s)
  <2> DEFINE r == Tail(q)
  <2>1. r \in Seq(W) /\ Len(r) = n /\ \A k \in 1..n : r[k] = q[k + 1]
    BY <1>1, <1>4, <1>5, HeadTailProperties
  <2>2. DOMAIN r = 1..n /\ r = [k \in DOMAIN r |-> r[k]]
    BY <2>1, LenProperties
  <2> HIDE DEF r
  <2>3. \A k \in 1..n : r[k] = Wish(s[k])
    BY ONLY <1>1, <1>2, <2>1
  <2>4. r = [k \in 1..n |-> Wish(s[k])]
    BY ONLY <2>2, <2>3
  <2> QED
    BY <1>2, <2>4 DEF r
<1> QED
  BY <1>5, <1>6, <1>7 DEF q, p

-----------------------------------------------------------------------------
Subscribed(ch) == ToSet(topics[ch])
Settled(ch)    == Settling(ch) = {}
Monitored(ch)  == channelMap[ch] = "monitoring"

\* A step leaves what Subscriptions says of the channel alone.
Untouched(ch) ==
  /\ WishQueue(ch)' = WishQueue(ch) /\ Subscribed(ch)' = Subscribed(ch)
  /\ Settled(ch)' <=> Settled(ch)
  /\ Monitored(ch)' <=> Monitored(ch)

\* The steps of Subscriptions, in terms of one channel and of the others.
LEMMA MapsStutter ==
  ASSUME \A ch \in Channels : Untouched(ch)
  PROVE  UNCHANGED Promise!vars
<1>1. \A ch \in Channels : /\ WishQueue(ch)' = WishQueue(ch)
                           /\ ToSet(topics'[ch]) = ToSet(topics[ch])
                           /\ (Settling(ch)' = {}) = (Settling(ch) = {})
                           /\ (channelMap'[ch] = "monitoring") <=> (channelMap[ch] = "monitoring")
  BY DEF Untouched, Subscribed, Settled, Monitored
<1>2. [ch \in Channels |-> WishQueue(ch)]' = [ch \in Channels |-> WishQueue(ch)]
  BY <1>1
<1>3. [ch \in Channels |-> ToSet(topics[ch])]' = [ch \in Channels |-> ToSet(topics[ch])]
  BY <1>1
<1>4. [ch \in Channels |-> Settling(ch) = {}]' = [ch \in Channels |-> Settling(ch) = {}]
  BY <1>1, Zenon
<1>5. {ch \in Channels : channelMap[ch] = "monitoring"}' = {ch \in Channels : channelMap[ch] = "monitoring"}
  BY <1>1
<1> QED
  BY <1>2, <1>3, <1>4, <1>5 DEF Promise!vars

LEMMA MapsAsk ==
  ASSUME NEW ch \in Channels, NEW x \in Promise!Wish,
         WishQueue(ch)' = Append(WishQueue(ch), x),
         \A d \in Channels \ {ch} : WishQueue(d)' = WishQueue(d),
         \A d \in Channels : /\ Subscribed(d)' = Subscribed(d)
                             /\ Settled(d)' <=> Settled(d)
                             /\ Monitored(d)' <=> Monitored(d)
  PROVE  Promise!Next
<1>1. \A d \in Channels : /\ ToSet(topics'[d]) = ToSet(topics[d])
                          /\ (Settling(d)' = {}) = (Settling(d) = {})
                          /\ (channelMap'[d] = "monitoring") <=> (channelMap[d] = "monitoring")
  BY DEF Subscribed, Settled, Monitored
<1>2. [d \in Channels |-> WishQueue(d)]' =
        [[d \in Channels |-> WishQueue(d)] EXCEPT ![ch] = Append(@, x)]
  OBVIOUS
<1>3. [d \in Channels |-> ToSet(topics[d])]' = [d \in Channels |-> ToSet(topics[d])]
  BY <1>1
<1>4. [d \in Channels |-> Settling(d) = {}]' = [d \in Channels |-> Settling(d) = {}]
  BY <1>1, Zenon
<1>5. {d \in Channels : channelMap[d] = "monitoring"}' = {d \in Channels : channelMap[d] = "monitoring"}
  BY <1>1
<1>6. Promise!Ask(ch, x)
  BY <1>2, <1>3, <1>4, <1>5 DEF Promise!Ask
<1> QED
  BY <1>6 DEF Promise!Next

LEMMA MapsApply ==
  ASSUME NEW ch \in Channels, NEW x \in Promise!Wish, NEW rest,
         WishQueue(ch) # <<>>, Head(WishQueue(ch)) = x, Tail(WishQueue(ch)) = rest,
         WishQueue(ch)' = rest,
         Settled(ch), ~Settled(ch)',
         Subscribed(ch)' = IF x.activate THEN Subscribed(ch) \cup {x.topic} ELSE Subscribed(ch) \ {x.topic},
         Monitored(ch)' <=> Monitored(ch),
         \A d \in Channels \ {ch} : Untouched(d)
  PROVE  Promise!Next
<1>1. \A d \in Channels : (channelMap'[d] = "monitoring") <=> (channelMap[d] = "monitoring")
  BY DEF Untouched, Monitored
<1>2. [d \in Channels |-> WishQueue(d)]' =
        [[d \in Channels |-> WishQueue(d)] EXCEPT ![ch] = Tail(@)]
  BY DEF Untouched
<1>3. [d \in Channels |-> ToSet(topics[d])]' =
        [[d \in Channels |-> ToSet(topics[d])] EXCEPT ![ch] =
            IF x.activate THEN @ \cup {x.topic} ELSE @ \ {x.topic}]
  BY DEF Untouched, Subscribed
<1>4. [d \in Channels |-> Settling(d) = {}]' = [[d \in Channels |-> Settling(d) = {}] EXCEPT ![ch] = FALSE]
  <2>1. /\ \A d \in Channels \ {ch} : (Settling(d)' = {}) = (Settling(d) = {})
        /\ (Settling(ch)' = {}) = FALSE
    BY DEF Untouched, Settled
  <2> QED
    BY <2>1, Zenon
<1>5. {d \in Channels : channelMap[d] = "monitoring"}' = {d \in Channels : channelMap[d] = "monitoring"}
  BY <1>1
<1>6. Promise!Apply(ch)
  BY <1>2, <1>3, <1>4, <1>5 DEF Promise!Apply, Settled
<1> QED
  BY <1>6 DEF Promise!Next

LEMMA MapsSettle ==
  ASSUME NEW ch \in Channels,
         WishQueue(ch)' = WishQueue(ch), Subscribed(ch)' = Subscribed(ch),
         ~Settled(ch), Settled(ch)',
         Monitored(ch)' <=> Subscribed(ch) # {},
         \A d \in Channels \ {ch} : Untouched(d)
  PROVE  Promise!Next
<1>1. \A d \in Channels : WishQueue(d)' = WishQueue(d) /\ ToSet(topics'[d]) = ToSet(topics[d])
  BY DEF Untouched, Subscribed
<1>2. [d \in Channels |-> WishQueue(d)]' = [d \in Channels |-> WishQueue(d)]
  BY <1>1
<1>3. [d \in Channels |-> ToSet(topics[d])]' = [d \in Channels |-> ToSet(topics[d])]
  BY <1>1
<1>4. [d \in Channels |-> Settling(d) = {}]' = [[d \in Channels |-> Settling(d) = {}] EXCEPT ![ch] = TRUE]
  <2>1. /\ \A d \in Channels \ {ch} : (Settling(d)' = {}) = (Settling(d) = {})
        /\ (Settling(ch)' = {}) = TRUE
    BY DEF Untouched, Settled
  <2> QED
    BY <2>1, Zenon
<1>5. {d \in Channels : channelMap[d] = "monitoring"}' =
        IF [d \in Channels |-> ToSet(topics[d])][ch] # {}
        THEN {d \in Channels : channelMap[d] = "monitoring"} \cup {ch}
        ELSE {d \in Channels : channelMap[d] = "monitoring"} \ {ch}
  <2>1. (channelMap'[ch] = "monitoring") <=> ToSet(topics[ch]) # {}
    BY DEF Monitored, Subscribed
  <2>2. \A d \in Channels \ {ch} : (channelMap'[d] = "monitoring") <=> (channelMap[d] = "monitoring")
    BY DEF Untouched, Monitored
  <2> QED
    BY <2>1, <2>2
<1>6. Promise!Settle(ch)
  BY <1>2, <1>3, <1>4, <1>5 DEF Promise!Settle, Settled
<1> QED
  BY <1>6 DEF Promise!Next

Edits == {"ref", "find", "lock", "write"}

\* The channel a thread works on is its alone, so a step of the thread leaves
\* the others' channels, and the queue of its own is what it has in hand and
\* what the pool has.
LEMMA ChannelView ==
  ASSUME TypeOK, NEW w \in Threads, NEW c \in Channels,
         \A u \in Threads \ {w} : pc'[u] = pc[u] /\ cmd'[u] = cmd[u] /\ callPc'[u] = callPc[u],
         pc[w] # "idle" => Ch(w) = c,
         pc'[w] # "idle" => cmd'[w].channel = c,
         \A u \in Threads \ {w} : pc[u] # "idle" => Ch(u) # c
  PROVE  /\ Editing(c) = IF pc[w] \in Edits THEN {w} ELSE {}
         /\ Editing(c)' = IF pc'[w] \in Edits THEN {w} ELSE {}
         /\ Settled(c) <=> ~(pc[w] = "size" \/ (pc[w] = "monitor" /\ callPc[w] # "out"))
         /\ Settled(c)' <=> ~(pc'[w] = "size" \/ (pc'[w] = "monitor" /\ callPc'[w] # "out"))
         /\ \A d \in Channels \ {c} : /\ Applying(d)' = Applying(d)
                                      /\ Settled(d)' <=> Settled(d)
<1> USE DEF Edits
<1>1. /\ Editing(c) = IF pc[w] \in Edits THEN {w} ELSE {}
      /\ Settling(c) = IF pc[w] = "size" \/ (pc[w] = "monitor" /\ callPc[w] # "out") THEN {w} ELSE {}
  <2>1. \A u \in Threads \ {w} : u \notin Editing(c) /\ u \notin Settling(c)
    BY DEF Editing, Settling
  <2>2. w \in Editing(c) <=> pc[w] \in Edits
    BY DEF Editing
  <2>3. w \in Settling(c) <=> (pc[w] = "size" \/ (pc[w] = "monitor" /\ callPc[w] # "out"))
    BY DEF Settling
  <2>4. Editing(c) \subseteq Threads /\ Settling(c) \subseteq Threads
    BY DEF Editing, Settling
  <2> QED
    BY <2>1, <2>2, <2>3, <2>4
<1>2. /\ Editing(c)' = IF pc'[w] \in Edits THEN {w} ELSE {}
      /\ Settling(c)' = IF pc'[w] = "size" \/ (pc'[w] = "monitor" /\ callPc'[w] # "out") THEN {w} ELSE {}
  <2>1. \A u \in Threads \ {w} : u \notin Editing(c)' /\ u \notin Settling(c)'
    BY DEF Editing, Settling, Ch
  <2>2. w \in Editing(c)' <=> pc'[w] \in Edits
    BY DEF Editing, Ch
  <2>3. w \in Settling(c)' <=> (pc'[w] = "size" \/ (pc'[w] = "monitor" /\ callPc'[w] # "out"))
    BY DEF Settling, Ch
  <2>4. Editing(c)' \subseteq Threads /\ Settling(c)' \subseteq Threads
    BY DEF Editing, Settling
  <2> QED
    BY <2>1, <2>2, <2>3, <2>4
<1>3. ASSUME NEW d \in Channels \ {c}
      PROVE  Applying(d)' = Applying(d) /\ (Settled(d)' <=> Settled(d))
  <2>1. Editing(d)' = Editing(d) /\ Settling(d)' = Settling(d)
    BY DEF Editing, Settling, Ch
  <2>2. \A u \in Editing(d) : cmd'[u] = cmd[u]
    BY DEF Editing
  <2>3. Applying(d)' = Applying(d)
    <3>1. CASE Editing(d) = {}
      BY <2>1, <3>1 DEF Applying
    <3>2. CASE Editing(d) # {}
      <4> DEFINE u == CHOOSE v \in Editing(d) : TRUE
      <4>1. u \in Editing(d) /\ cmd'[u] = cmd[u]
        BY <2>2, <3>2
      <4> QED
        BY <2>1, <3>2, <4>1 DEF Applying
    <3> QED
      BY <3>1, <3>2
  <2> QED
    BY <2>1, <2>3 DEF Settled
<1> QED
  BY <1>1, <1>2, <1>3 DEF Settled

LEMMA QueueView ==
  ASSUME NEW w, NEW c, Editing(c) = {w}
  PROVE  WishQueue(c) = Wishes(<<cmd[w]>> \o OfChannel(tasks, c))
<1>1. (CHOOSE u \in Editing(c) : TRUE) = w
  OBVIOUS
<1> QED
  BY <1>1 DEF WishQueue, Applying

LEMMA QueueViewNext ==
  ASSUME NEW w, NEW c, Editing(c)' = {w}
  PROVE  WishQueue(c)' = Wishes(<<cmd'[w]>> \o OfChannel(tasks', c))
<1>1. (CHOOSE u \in Editing(c)' : TRUE) = w
  OBVIOUS
<1> QED
  BY <1>1 DEF WishQueue, Applying

LEMMA EmptyView ==
  ASSUME TypeOK, TypeOK', NEW c
  PROVE  /\ Editing(c) = {} => WishQueue(c) = Wishes(OfChannel(tasks, c))
         /\ Editing(c)' = {} => WishQueue(c)' = Wishes(OfChannel(tasks', c))
<1>1. OfChannel(tasks, c) \in Seq(Command) /\ OfChannel(tasks', c) \in Seq(Command)
  BY OfChannelType DEF TypeOK
<1>2. <<>> \o OfChannel(tasks, c) = OfChannel(tasks, c) /\ <<>> \o OfChannel(tasks', c) = OfChannel(tasks', c)
  BY ONLY <1>1
<1> QED
  BY <1>2 DEF WishQueue, Applying

\* A thread that moves on inside its command: the other channels are as they
\* were, and its own is what the thread still has to do.
LEMMA OwnStep ==
  ASSUME TypeOK, TypeOK', Serial, NEW w \in Threads, NEW c \in Channels,
         pc[w] # "idle", Ch(w) = c, UNCHANGED <<tasks, cmd>>,
         \A u \in Threads \ {w} : pc'[u] = pc[u] /\ callPc'[u] = callPc[u]
  PROVE  /\ WishQueue(c) = IF pc[w] \in Edits THEN Wishes(<<cmd[w]>> \o OfChannel(tasks, c))
                           ELSE Wishes(OfChannel(tasks, c))
         /\ WishQueue(c)' = IF pc'[w] \in Edits THEN Wishes(<<cmd[w]>> \o OfChannel(tasks, c))
                            ELSE Wishes(OfChannel(tasks, c))
         /\ Settled(c) <=> ~(pc[w] = "size" \/ (pc[w] = "monitor" /\ callPc[w] # "out"))
         /\ Settled(c)' <=> ~(pc'[w] = "size" \/ (pc'[w] = "monitor" /\ callPc'[w] # "out"))
         /\ \A d \in Channels \ {c} : /\ WishQueue(d)' = WishQueue(d)
                                      /\ Settled(d)' <=> Settled(d)
<1>1. \A u \in Threads \ {w} : pc'[u] = pc[u] /\ cmd'[u] = cmd[u] /\ callPc'[u] = callPc[u]
  OBVIOUS
<1>2. (pc[w] # "idle" => Ch(w) = c) /\ (pc'[w] # "idle" => cmd'[w].channel = c)
  BY DEF Ch
<1>3. \A u \in Threads \ {w} : pc[u] # "idle" => Ch(u) # c
  BY DEF Serial
<1>4. /\ Editing(c) = IF pc[w] \in Edits THEN {w} ELSE {}
      /\ Editing(c)' = IF pc'[w] \in Edits THEN {w} ELSE {}
      /\ Settled(c) <=> ~(pc[w] = "size" \/ (pc[w] = "monitor" /\ callPc[w] # "out"))
      /\ Settled(c)' <=> ~(pc'[w] = "size" \/ (pc'[w] = "monitor" /\ callPc'[w] # "out"))
      /\ \A d \in Channels \ {c} : Applying(d)' = Applying(d) /\ (Settled(d)' <=> Settled(d))
  BY <1>1, <1>2, <1>3, ChannelView
<1>5. WishQueue(c) = IF pc[w] \in Edits THEN Wishes(<<cmd[w]>> \o OfChannel(tasks, c))
                     ELSE Wishes(OfChannel(tasks, c))
  <2>1. CASE pc[w] \in Edits
    <3>1. Editing(c) = {w}
      BY ONLY <1>4, <2>1
    <3> QED
      BY ONLY <2>1, <3>1, QueueView
  <2>2. CASE pc[w] \notin Edits
    BY <1>4, <2>2, EmptyView
  <2> QED
    BY <2>1, <2>2
<1>6. WishQueue(c)' = IF pc'[w] \in Edits THEN Wishes(<<cmd[w]>> \o OfChannel(tasks, c))
                      ELSE Wishes(OfChannel(tasks, c))
  <2>1. CASE pc'[w] \in Edits
    <3>1. Editing(c)' = {w}
      BY ONLY <1>4, <2>1
    <3>2. WishQueue(c)' = Wishes(<<cmd'[w]>> \o OfChannel(tasks', c))
      BY ONLY <3>1, QueueViewNext
    <3> QED
      BY <2>1, <3>2
  <2>2. CASE pc'[w] \notin Edits
    <3>1. Editing(c)' = {}
      BY ONLY <1>4, <2>2
    <3>2. WishQueue(c)' = Wishes(OfChannel(tasks', c))
      BY <3>1, EmptyView
    <3> QED
      BY <2>2, <3>2
  <2> QED
    BY <2>1, <2>2
<1>7. \A d \in Channels \ {c} : WishQueue(d)' = WishQueue(d)
  <2>1. ASSUME NEW d \in Channels, d # c
        PROVE  WishQueue(d)' = WishQueue(d)
    <3>1. Applying(d)' = Applying(d) /\ tasks' = tasks
      BY <1>4, <2>1
    <3> QED
      BY ONLY <3>1 DEF WishQueue
  <2> QED
    BY <2>1
<1> QED
  BY ONLY <1>4, <1>5, <1>6, <1>7

LEMMA PromiseTake ==
  ASSUME TypeOK, TypeOK', CallOfWorker, Serial', NEW w \in Threads, TakeTask(w)
  PROVE  UNCHANGED Promise!vars
<1> PICK h : h = Head(tasks)
  OBVIOUS
<1> PICK c : c = h.channel
  OBVIOUS
<1>1. /\ pc[w] = "idle" /\ pc' = [pc EXCEPT ![w] = "ref"] /\ tasks # <<>> /\ tasks' = Tail(tasks)
      /\ cmd' = [cmd EXCEPT ![w] = h]
      /\ UNCHANGED <<topics, channelMap, callPc>>
  BY DEF TakeTask, WorkerTo, mgrVars, callVars, tableVars
<1>2. tasks \in Seq(Command) /\ h \in Command /\ c \in Channels
  <2>1. tasks \in Seq(Command)
    BY DEF TypeOK
  <2>2. h \in Command
    BY <1>1, <2>1, HeadTailProperties
  <2> QED
    BY <2>1, <2>2 DEF Command
<1>h. h = Head(tasks) /\ c = h.channel
  OBVIOUS
<1>3. /\ cmd'[w] = h /\ pc'[w] = "ref"
      /\ \A u \in Threads \ {w} : pc'[u] = pc[u] /\ cmd'[u] = cmd[u] /\ callPc'[u] = callPc[u]
  BY <1>1 DEF TypeOK
<1>4. \A u \in Threads \ {w} : pc[u] # "idle" => Ch(u) # c
  BY <1>3, <1>h DEF Serial, Ch
<1>5. /\ Editing(c) = {} /\ Editing(c)' = {w}
      /\ Settled(c)' <=> Settled(c)
      /\ \A d \in Channels \ {c} : Applying(d)' = Applying(d) /\ (Settled(d)' <=> Settled(d))
  <2>1. pc[w] = "idle" /\ pc'[w] = "ref" /\ cmd'[w].channel = c
    BY ONLY <1>1, <1>3, <1>h
  <2>2. \A u \in Threads \ {w} : pc'[u] = pc[u] /\ cmd'[u] = cmd[u] /\ callPc'[u] = callPc[u]
    BY ONLY <1>3
  <2>3. c \in Channels
    BY ONLY <1>2
  <2>4. /\ Editing(c) = IF pc[w] \in Edits THEN {w} ELSE {}
        /\ Editing(c)' = IF pc'[w] \in Edits THEN {w} ELSE {}
        /\ Settled(c) <=> ~(pc[w] = "size" \/ (pc[w] = "monitor" /\ callPc[w] # "out"))
        /\ Settled(c)' <=> ~(pc'[w] = "size" \/ (pc'[w] = "monitor" /\ callPc'[w] # "out"))
        /\ \A d \in Channels \ {c} : Applying(d)' = Applying(d) /\ (Settled(d)' <=> Settled(d))
    <3>1. (pc[w] # "idle" => Ch(w) = c) /\ (pc'[w] # "idle" => cmd'[w].channel = c)
      BY ONLY <2>1
    <3>2. TypeOK
      OBVIOUS
    <3> QED
      BY ONLY <1>4, <2>2, <2>3, <3>1, <3>2, w \in Threads, ChannelView
  <2> QED
    BY ONLY <2>1, <2>4 DEF Edits
<1>6. OfChannel(tasks, c) = <<h>> \o OfChannel(tasks', c)
      /\ \A d \in Channels \ {c} : OfChannel(tasks, d) = OfChannel(tasks', d)
  <2>1. \A d : OfChannel(tasks, d) = IF Head(tasks).channel = d THEN <<Head(tasks)>> \o OfChannel(Tail(tasks), d)
                                      ELSE OfChannel(Tail(tasks), d)
    BY <1>1, <1>2, OfChannelTail
  <2> QED
    BY ONLY <1>1, <1>h, <2>1
<1>7. WishQueue(c)' = WishQueue(c)
  <2>1. WishQueue(c) = Wishes(OfChannel(tasks, c))
    BY <1>5, EmptyView
  <2>2. WishQueue(c)' = Wishes(<<cmd'[w]>> \o OfChannel(tasks', c))
    <3>1. Editing(c)' = {w}
      BY ONLY <1>5
    <3> QED
      BY ONLY <3>1, QueueViewNext
  <2> QED
    BY ONLY <1>3, <1>6, <2>1, <2>2
<1>8. \A d \in Channels \ {c} : WishQueue(d)' = WishQueue(d)
  <2>1. ASSUME NEW d \in Channels, d # c
        PROVE  WishQueue(d)' = WishQueue(d)
    <3>1. Applying(d)' = Applying(d) /\ OfChannel(tasks', d) = OfChannel(tasks, d)
      BY ONLY <1>5, <1>6, <2>1
    <3> QED
      BY ONLY <3>1 DEF WishQueue
  <2> QED
    BY <2>1
<1>9. \A d \in Channels : Untouched(d)
  BY <1>1, <1>5, <1>7, <1>8 DEF Untouched, Subscribed, Monitored
<1> QED
  BY <1>9, MapsStutter

\* Where a step of a thread leaves its own channel as Subscriptions sees it.
LEMMA PromiseQuiet ==
  ASSUME TypeOK, TypeOK', Serial, NEW w \in Threads, NEW c \in Channels,
         pc[w] # "idle", Ch(w) = c, UNCHANGED <<tasks, cmd, topics>>,
         \A u \in Threads \ {w} : pc'[u] = pc[u] /\ callPc'[u] = callPc[u],
         pc[w] \in Edits <=> pc'[w] \in Edits,
         (pc[w] = "size" \/ (pc[w] = "monitor" /\ callPc[w] # "out"))
           <=> (pc'[w] = "size" \/ (pc'[w] = "monitor" /\ callPc'[w] # "out")),
         \A d \in Channels : Monitored(d)' <=> Monitored(d)
  PROVE  UNCHANGED Promise!vars
<1>1. \A d \in Channels \ {c} : WishQueue(d)' = WishQueue(d) /\ (Settled(d)' <=> Settled(d))
  BY OwnStep
<1>2. WishQueue(c)' = WishQueue(c)
  BY OwnStep
<1>3. Settled(c)' <=> Settled(c)
  BY OwnStep
<1>4. \A d \in Channels : Subscribed(d)' = Subscribed(d)
  BY DEF Subscribed
<1>5. ASSUME NEW d \in Channels PROVE Untouched(d)
  <2>1. WishQueue(d)' = WishQueue(d) /\ (Settled(d)' <=> Settled(d))
    BY ONLY <1>1, <1>2, <1>3, d \in Channels
  <2> QED
    BY <1>4, <2>1 DEF Untouched
<1> QED
  BY <1>5, MapsStutter

\* A command takes effect: on the vector as Subscriptions says, or not at all
\* when the vector already is as the command wants it.
LEMMA PromiseApplied ==
  ASSUME TypeOK, TypeOK', Serial, NEW w \in Threads, NEW c \in Channels,
         pc[w] \in Edits, pc'[w] = "size", Ch(w) = c, UNCHANGED <<tasks, cmd, channelMap>>,
         \A u \in Threads \ {w} : pc'[u] = pc[u] /\ callPc'[u] = callPc[u],
         \A d \in Channels \ {c} : topics'[d] = topics[d],
         \A u : Holds(topics'[c], u) <=>
                  IF u = cmd[w].topic THEN cmd[w].activate ELSE Holds(topics[c], u)
  PROVE  Promise!Next
<1> PICK x : x = Wish(cmd[w])
  OBVIOUS
<1> PICK s : s = OfChannel(tasks, c)
  OBVIOUS
<1>1. x \in Promise!Wish /\ x.topic = cmd[w].topic /\ x.activate = cmd[w].activate
  BY DEF Wish, Promise!Wish, TypeOK, Command
<1>2. s \in Seq(Command) /\ cmd[w] \in Command
  BY OfChannelType DEF TypeOK
<1>3. pc[w] # "idle" /\ pc'[w] \notin Edits
  BY DEF Edits
<1>4. /\ WishQueue(c) = IF pc[w] \in Edits THEN Wishes(<<cmd[w]>> \o OfChannel(tasks, c))
                        ELSE Wishes(OfChannel(tasks, c))
      /\ WishQueue(c)' = IF pc'[w] \in Edits THEN Wishes(<<cmd[w]>> \o OfChannel(tasks, c))
                         ELSE Wishes(OfChannel(tasks, c))
      /\ Settled(c) <=> ~(pc[w] = "size" \/ (pc[w] = "monitor" /\ callPc[w] # "out"))
      /\ Settled(c)' <=> ~(pc'[w] = "size" \/ (pc'[w] = "monitor" /\ callPc'[w] # "out"))
      /\ \A d \in Channels \ {c} : WishQueue(d)' = WishQueue(d) /\ (Settled(d)' <=> Settled(d))
  BY <1>3, OwnStep
<1>5. WishQueue(c) = Wishes(<<cmd[w]>> \o s) /\ WishQueue(c)' = Wishes(s)
  BY <1>3, <1>4
<1>6. WishQueue(c) # <<>> /\ Head(WishQueue(c)) = x /\ Tail(WishQueue(c)) = WishQueue(c)'
  BY <1>2, <1>5, WishesFirst
<1>7. Settled(c) /\ ~Settled(c)'
  BY <1>4 DEF Edits
<1>8. \A d \in Channels : (Monitored(d)' <=> Monitored(d))
  BY DEF Monitored
<1>9. \A d \in Channels \ {c} : Untouched(d)
  <2>1. \A d \in Channels \ {c} : Subscribed(d)' = Subscribed(d)
    BY DEF Subscribed
  <2> QED
    BY <1>4, <1>8, <2>1 DEF Untouched
<1>10. Subscribed(c)' = IF x.activate THEN Subscribed(c) \cup {x.topic} ELSE Subscribed(c) \ {x.topic}
  <2>1. \A u : /\ u \in ToSet(topics[c]) <=> Holds(topics[c], u)
               /\ u \in ToSet(topics'[c]) <=> Holds(topics'[c], u)
    BY DEF ToSet, Holds
  <2>2. ToSet(topics'[c]) = IF x.activate THEN ToSet(topics[c]) \cup {x.topic} ELSE ToSet(topics[c]) \ {x.topic}
    BY <1>1, <2>1
  <2> QED
    BY <2>2 DEF Subscribed
<1> QED
  BY <1>1, <1>6, <1>7, <1>8, <1>9, <1>10, MapsApply

\* The monitor of a channel is in line with its vector again.
LEMMA PromiseSettled ==
  ASSUME TypeOK, TypeOK', Serial, NEW w \in Threads, NEW c \in Channels,
         pc[w] = "monitor", pc'[w] = "monitor", callPc[w] # "out", callPc'[w] = "out",
         Ch(w) = c, UNCHANGED <<tasks, cmd, topics>>,
         \A u \in Threads \ {w} : pc'[u] = pc[u] /\ callPc'[u] = callPc[u],
         \A d \in Channels \ {c} : channelMap'[d] = channelMap[d],
         channelMap'[c] = "monitoring" <=> Wanted(c)
  PROVE  Promise!Next
<1>1. /\ WishQueue(c)' = WishQueue(c)
      /\ ~Settled(c) /\ Settled(c)'
      /\ \A d \in Channels \ {c} : WishQueue(d)' = WishQueue(d) /\ (Settled(d)' <=> Settled(d))
  <2>1. pc[w] # "idle" /\ pc[w] \notin Edits /\ pc'[w] \notin Edits
    BY DEF Edits
  <2>2. /\ WishQueue(c) = IF pc[w] \in Edits THEN Wishes(<<cmd[w]>> \o OfChannel(tasks, c))
                          ELSE Wishes(OfChannel(tasks, c))
        /\ WishQueue(c)' = IF pc'[w] \in Edits THEN Wishes(<<cmd[w]>> \o OfChannel(tasks, c))
                           ELSE Wishes(OfChannel(tasks, c))
        /\ Settled(c) <=> ~(pc[w] = "size" \/ (pc[w] = "monitor" /\ callPc[w] # "out"))
        /\ Settled(c)' <=> ~(pc'[w] = "size" \/ (pc'[w] = "monitor" /\ callPc'[w] # "out"))
        /\ \A d \in Channels \ {c} : WishQueue(d)' = WishQueue(d) /\ (Settled(d)' <=> Settled(d))
    BY <2>1, OwnStep
  <2> QED
    BY <2>1, <2>2
<1>2. \A d \in Channels : Subscribed(d)' = Subscribed(d)
  BY DEF Subscribed
<1>3. \A d \in Channels \ {c} : Untouched(d)
  BY <1>1, <1>2 DEF Untouched, Monitored
<1>4. Monitored(c)' <=> Subscribed(c) # {}
  <2>1. topics[c] \in Seq(Topics)
    BY DEF TypeOK
  <2>2. ToSet(topics[c]) # {} <=> topics[c] # <<>>
    <3> PICK v : v = topics[c]
      OBVIOUS
    <3>1. v \in Seq(Topics)
      BY <2>1
    <3>2. v # <<>> <=> Len(v) # 0
      BY ONLY <3>1, EmptySeq
    <3>3. Len(v) \in Nat /\ DOMAIN v = 1..Len(v)
      BY ONLY <3>1, LenProperties
    <3>4. ToSet(v) # {} <=> DOMAIN v # {}
      BY ONLY DEF ToSet
    <3>5. DOMAIN v # {} <=> Len(v) # 0
      BY ONLY <3>3
    <3> QED
      BY <3>2, <3>4, <3>5
  <2> QED
    BY <2>2 DEF Monitored, Subscribed, Wanted
<1> QED
  BY <1>1, <1>2, <1>3, <1>4, MapsSettle

\* std::find decides: the thread goes on to the edit, or the command has taken
\* effect because the vector is as it wants it.
LEMMA PromiseFind ==
  ASSUME TypeOK, TypeOK', Serial, NEW w \in Threads, Find(w)
  PROVE  Promise!Next \/ UNCHANGED Promise!vars
<1> PICK c : c = Ch(w)
  OBVIOUS
<1> PICK v : v = topics[c]
  OBVIOUS
<1> PICK t : t = cmd[w].topic
  OBVIOUS
<1>1. PICK i \in 0..Len(v) : /\ FoundAt(v, t, i)
                             /\ WorkerTo(w, "find", IF cmd[w].activate = (i = 0) THEN "lock" ELSE "size")
  BY DEF Find, Vec
<1>2. /\ UNCHANGED <<tasks, cmd, topics, channelMap, callPc>>
      /\ pc[w] = "find" /\ pc'[w] = IF cmd[w].activate = (i = 0) THEN "lock" ELSE "size"
      /\ \A u \in Threads \ {w} : pc'[u] = pc[u]
  BY <1>1 DEF Find, mgrVars, callVars, tableVars, queueVars, WorkerTo, TypeOK
<1>3. c \in Channels /\ v \in Seq(Topics) /\ cmd[w].activate \in BOOLEAN
  BY DEF TypeOK, Ch, Command
<1>4. CASE pc'[w] = "lock"
  <2>1. /\ pc[w] # "idle" /\ (pc[w] \in Edits <=> pc'[w] \in Edits)
        /\ (pc[w] = "size" \/ (pc[w] = "monitor" /\ callPc[w] # "out"))
             <=> (pc'[w] = "size" \/ (pc'[w] = "monitor" /\ callPc'[w] # "out"))
    BY <1>2, <1>4 DEF Edits
  <2>2. \A d \in Channels : Monitored(d)' <=> Monitored(d)
    BY <1>2 DEF Monitored
  <2> QED
    BY <1>2, <1>3, <2>1, <2>2, PromiseQuiet
<1>5. CASE pc'[w] = "size"
  <2>1. cmd[w].activate <=> i # 0
    BY <1>2, <1>3, <1>5
  <2>2. DOMAIN v = 1..Len(v) /\ Len(v) \in Nat
    BY <1>3, LenProperties
  <2>3. Holds(v, t) <=> i # 0
    BY <1>1, <2>2 DEF Holds, FoundAt
  <2>4. \A u : Holds(topics'[c], u) <=> IF u = t THEN cmd[w].activate ELSE Holds(topics[c], u)
    BY <1>2, <2>1, <2>3
  <2>5. \A d \in Channels \ {c} : topics'[d] = topics[d]
    BY <1>2
  <2>6. pc[w] \in Edits
    BY <1>2 DEF Edits
  <2>7. UNCHANGED <<tasks, cmd, channelMap>> /\ \A u \in Threads \ {w} : pc'[u] = pc[u] /\ callPc'[u] = callPc[u]
    BY <1>2
  <2> QED
    BY <1>3, <1>5, <2>4, <2>5, <2>6, <2>7, PromiseApplied
<1> QED
  BY <1>2, <1>4, <1>5

\* push_back and erase are the moment the command takes effect.
LEMMA PromiseWrite ==
  ASSUME TypeOK, TypeOK', EditInv, Serial, NEW w \in Threads, Write(w)
  PROVE  Promise!Next
<1> PICK c : c = Ch(w)
  OBVIOUS
<1>1. /\ UNCHANGED <<tasks, cmd, channelMap, callPc>>
      /\ pc[w] = "write" /\ pc'[w] = "size"
      /\ \A u \in Threads \ {w} : pc'[u] = pc[u] /\ callPc'[u] = callPc[u]
  BY DEF Write, mgrVars, callVars, queueVars, WorkerTo, TypeOK
<1>2. c \in Channels
  BY DEF TypeOK, Ch, Command
<1>3. /\ \A d \in Channels \ {c} : topics'[d] = topics[d]
      /\ \A u : Holds(topics'[c], u) <=>
                  IF u = cmd[w].topic THEN cmd[w].activate ELSE Holds(topics[c], u)
  BY WriteEdits
<1>4. pc[w] \in Edits
  BY <1>1 DEF Edits
<1> QED
  BY <1>1, <1>2, <1>3, <1>4, PromiseApplied

\* The steps between those moments are not seen.
LEMMA PromiseQuietSteps ==
  ASSUME TypeOK, TypeOK', Serial, NEW w \in Threads, Ref(w) \/ Lock(w) \/ Size(w) \/ Return(w)
  PROVE  UNCHANGED Promise!vars
<1> PICK c : c = Ch(w)
  OBVIOUS
<1>1. UNCHANGED <<tasks, cmd, topics, channelMap>> /\ \A u \in Threads \ {w} : pc'[u] = pc[u] /\ callPc'[u] = callPc[u]
  <2>1. CASE Ref(w) \/ Lock(w) \/ Return(w)
    BY <2>1 DEF Ref, Lock, Return, mgrVars, callVars, tableVars, queueVars, WorkerTo, TypeOK
  <2>2. CASE Size(w)
    BY <2>2 DEF Size, MonitorChannel, CallAdd, CallRemove, CallPc, tableVars, queueVars, WorkerTo, TypeOK, MgrTypeOK
  <2> QED
    BY <2>1, <2>2
<1>2. /\ pc[w] # "idle" /\ (pc[w] \in Edits <=> pc'[w] \in Edits)
      /\ (pc[w] = "size" \/ (pc[w] = "monitor" /\ callPc[w] # "out"))
           <=> (pc'[w] = "size" \/ (pc'[w] = "monitor" /\ callPc'[w] # "out"))
  <2>1. CASE Ref(w) \/ Lock(w) \/ Return(w)
    BY <2>1 DEF Ref, Lock, Return, WorkerTo, TypeOK, Edits
  <2>2. CASE Size(w)
    <3>1. pc[w] = "size" /\ pc'[w] = "monitor" /\ callPc'[w] # "out"
      BY <2>2 DEF Size, MonitorChannel, CallAdd, CallRemove, CallPc, WorkerTo, TypeOK, MgrTypeOK
    <3> QED
      BY <3>1 DEF Edits
  <2> QED
    BY <2>1, <2>2
<1>3. \A d \in Channels : Monitored(d)' <=> Monitored(d)
  BY <1>1 DEF Monitored
<1>4. c \in Channels
  BY DEF TypeOK, Ch, Command
<1> QED
  BY <1>1, <1>2, <1>3, <1>4, PromiseQuiet

\* The last step of monitorChannel brings the monitor in line.
LEMMA PromiseManager ==
  ASSUME TypeOK, TypeOK', CallOfWorker, WantInv, StageInv, Serial, NEW w \in Threads, InManager(w)
  PROVE  Promise!Next \/ UNCHANGED Promise!vars
<1> PICK c : c = Ch(w)
  OBVIOUS
<1>1. /\ pc[w] = "monitor" /\ pc'[w] = "monitor" /\ c \in Channels /\ callPc[w] # "out"
      /\ UNCHANGED <<tasks, cmd, topics>>
      /\ \A u \in Threads \ {w} : pc'[u] = pc[u] /\ callPc'[u] = callPc[u]
      /\ \A d \in Channels \ {c} : channelMap'[d] = channelMap[d]
  BY ManagerStep
<1>2. \/ callPc[w] = "add" /\ InMap(c) /\ callPc'[w] = "out" /\ UNCHANGED channelMap
      \/ callPc[w] = "add" /\ ~InMap(c) /\ callPc'[w] = "create" /\ UNCHANGED channelMap
      \/ callPc[w] = "create" /\ callPc'[w] = "connect" /\ channelMap'[c] = "created"
      \/ callPc[w] = "connect" /\ callPc'[w] = "start" /\ channelMap'[c] = "connected"
      \/ callPc[w] = "start" /\ callPc'[w] = "out" /\ channelMap'[c] = "monitoring"
      \/ callPc[w] \in {"create", "connect", "start"} /\ callPc'[w] = "threw" /\ channelMap'[c] = "absent"
      \/ callPc[w] = "remove" /\ callPc'[w] = "out" /\ channelMap'[c] = "absent"
  BY ManagerStep
<1>3. /\ callPc[w] \in {"add", "create", "connect", "start", "threw"} => Wanted(c)
      /\ callPc[w] = "remove" => ~Wanted(c)
  BY <1>1 DEF WantInv
<1>4. CASE callPc'[w] = "out"
  <2>1. channelMap'[c] = "monitoring" <=> Wanted(c)
    <3>1. CASE callPc[w] = "add"
      <4>1. channelMap[c] \in {"absent", "monitoring"}
        BY <1>1, <3>1 DEF StageInv, Serial
      <4> QED
        BY <1>2, <1>3, <1>4, <3>1, <4>1 DEF InMap
    <3>2. CASE callPc[w] # "add"
      BY <1>2, <1>3, <1>4, <3>2
    <3> QED
      BY <3>1, <3>2
  <2> QED
    BY <1>1, <1>4, <2>1, PromiseSettled
<1>5. CASE callPc'[w] # "out"
  <2>1. \A d \in Channels : Monitored(d)' <=> Monitored(d)
    <3>1. channelMap'[c] = "monitoring" <=> channelMap[c] = "monitoring"
      BY <1>1, <1>2, <1>5 DEF StageInv
    <3> QED
      BY <1>1, <3>1 DEF Monitored
  <2>2. /\ pc[w] # "idle" /\ (pc[w] \in Edits <=> pc'[w] \in Edits)
        /\ (pc[w] = "size" \/ (pc[w] = "monitor" /\ callPc[w] # "out"))
             <=> (pc'[w] = "size" \/ (pc'[w] = "monitor" /\ callPc'[w] # "out"))
    BY <1>1, <1>5
  <2> QED
    BY <1>1, <2>1, <2>2, PromiseQuiet
<1> QED
  BY <1>4, <1>5

\* submitCommand asks.
LEMMA PromiseSubmit ==
  ASSUME TypeOK, NEW x \in Command, Submit(x)
  PROVE  Promise!Next
<1> PICK c : c = x.channel
  OBVIOUS
<1>1. tasks' = Append(tasks, x) /\ UNCHANGED <<pc, cmd, callPc, topics, channelMap>>
  BY DEF Submit, mgrVars, callVars, tableVars, workerVars
<1>2. c \in Channels /\ Wish(x) \in Promise!Wish /\ tasks \in Seq(Command)
  BY DEF Command, Wish, Promise!Wish, TypeOK
<1>3. \A d : Applying(d)' = Applying(d) /\ Settling(d)' = Settling(d)
  BY <1>1 DEF Applying, Settling, Editing, Ch
<1>4. \A d \in Channels : /\ Subscribed(d)' = Subscribed(d)
                          /\ Settled(d)' <=> Settled(d)
                          /\ Monitored(d)' <=> Monitored(d)
  BY <1>1, <1>3 DEF Subscribed, Settled, Monitored
<1>5. \A d : OfChannel(tasks', d) = IF c = d THEN Append(OfChannel(tasks, d), x) ELSE OfChannel(tasks, d)
  BY <1>1, <1>2, OfChannelAppend
<1>6. \A d \in Channels \ {c} : WishQueue(d)' = WishQueue(d)
  <2>1. ASSUME NEW d \in Channels, d # c
        PROVE  WishQueue(d)' = WishQueue(d)
    <3>1. Applying(d)' = Applying(d) /\ OfChannel(tasks', d) = OfChannel(tasks, d)
      BY <1>3, <1>5, <2>1
    <3> QED
      BY ONLY <3>1 DEF WishQueue
  <2> QED
    BY <2>1
<1>7. WishQueue(c)' = Append(WishQueue(c), Wish(x))
  <2> PICK a : a = Applying(c)
    OBVIOUS
  <2> PICK b : b = OfChannel(tasks, c)
    OBVIOUS
  <2>1. a \in Seq(Command)
    <3>1. \A u \in Threads : cmd[u] \in Command
      BY DEF TypeOK
    <3>2. CASE Editing(c) = {}
      BY <3>2 DEF Applying
    <3>3. CASE Editing(c) # {}
      <4>1. PICK u \in Editing(c) : u = CHOOSE v \in Editing(c) : TRUE
        BY <3>3
      <4>2. u \in Threads
        BY DEF Editing
      <4>3. a = <<cmd[u]>>
        BY <3>3, <4>1 DEF Applying
      <4> QED
        BY <3>1, <4>2, <4>3
    <3> QED
      BY <3>2, <3>3
  <2>2. b \in Seq(Command)
    BY <1>2, OfChannelType
  <2>3. WishQueue(c) = Wishes(a \o b)
    BY DEF WishQueue
  <2>4. WishQueue(c)' = Wishes(a \o Append(b, x))
    <3>1. Applying(c)' = a /\ OfChannel(tasks', c) = Append(b, x)
      BY <1>3, <1>5
    <3> QED
      BY ONLY <3>1 DEF WishQueue
  <2>5. a \o b \in Seq(Command)
    BY <2>1, <2>2, ConcatProperties
  <2>6. Append(a \o b, x) = a \o Append(b, x)
    <3>1. <<x>> \in Seq(Command)
      OBVIOUS
    <3>2. Append(a \o b, x) = (a \o b) \o <<x>> /\ Append(b, x) = b \o <<x>>
      BY <2>1, <2>2, <2>5, AppendIsConcat
    <3>3. (a \o b) \o <<x>> = a \o (b \o <<x>>)
      BY <2>1, <2>2, <3>1, ConcatAssociative
    <3> QED
      BY ONLY <3>2, <3>3
  <2> QED
    BY <2>3, <2>4, <2>5, <2>6, WishesAppend
<1> QED
  BY <1>2, <1>4, <1>6, <1>7, MapsAsk

\* Every step of the detailed specification maps to a step or a stutter.
LEMMA PromiseStep ==
  ASSUME TypeOK, TypeOK', CallOfWorker, WantInv, StageInv, EditInv, Serial, Serial', [Next]_vars
  PROVE  Promise!Next \/ UNCHANGED Promise!vars
<1>1. ASSUME NEW w \in Threads, Worker(w)
      PROVE  Promise!Next \/ UNCHANGED Promise!vars
  BY <1>1, PromiseTake, PromiseFind, PromiseWrite, PromiseQuietSteps, PromiseManager DEF Worker
<1>2. CASE ~(\E w \in Threads : Worker(w))
  <2>1. UNCHANGED <<topics, pc, cmd, channelMap, callPc>>
    BY <1>2, BystanderStep
  <2>2. CASE \E x \in Command : Submit(x)
    BY <2>2, PromiseSubmit
  <2>3. CASE UNCHANGED tasks
    <3>1. \A d : Applying(d)' = Applying(d) /\ Settling(d)' = Settling(d)
      BY <2>1 DEF Applying, Settling, Editing, Ch
    <3>2. ASSUME NEW d \in Channels PROVE Untouched(d)
      <4>1. WishQueue(d)' = WishQueue(d)
        <5>1. Applying(d)' = Applying(d) /\ tasks' = tasks
          BY <2>3, <3>1
        <5> QED
          BY ONLY <5>1 DEF WishQueue
      <4> QED
        BY <2>1, <3>1, <4>1 DEF Untouched, Subscribed, Settled, Monitored
    <3> QED
      BY <3>2, MapsStutter
  <2> QED
    BY <1>2, <2>2, <2>3, BystanderStep
<1> QED
  BY <1>1, <1>2

\* Initial states map to initial states.
LEMMA PromiseInit == Init => Promise!Init
<1> SUFFICES ASSUME Init PROVE Promise!Init
  OBVIOUS
<1>1. \A w \in Threads : pc[w] = "idle"
  BY DEF Init
<1>2. \A ch \in Channels : Editing(ch) = {} /\ Settling(ch) = {}
  BY <1>1 DEF Editing, Settling
<1>3. ASSUME NEW ch \in Channels PROVE WishQueue(ch) = <<>>
  <2>1. tasks = <<>> /\ OfChannel(tasks, ch) = <<>>
    BY OfChannelEmpty DEF Init
  <2>2. Applying(ch) = <<>>
    BY <1>2 DEF Applying
  <2>3. Wishes(<<>>) = <<>>
    BY DEF Wishes
  <2> QED
    BY <2>1, <2>2, <2>3 DEF WishQueue
<1>4. \A ch \in Channels : ToSet(topics[ch]) = {} /\ channelMap[ch] # "monitoring"
  <2>1. \A ch \in Channels : topics[ch] = <<>> /\ channelMap[ch] = "absent"
    BY DEF Init, MgrInit
  <2>2. ToSet(<<>>) = {}
    <3>1. DOMAIN <<>> = {}
      OBVIOUS
    <3> QED
      BY ONLY <3>1 DEF ToSet
  <2> QED
    BY ONLY <2>1, <2>2
<1>5. [ch \in Channels |-> WishQueue(ch)] = [ch \in Channels |-> <<>>]
  BY <1>3
<1>6. [ch \in Channels |-> ToSet(topics[ch])] = [ch \in Channels |-> {}]
  BY <1>4
<1>7. [ch \in Channels |-> Settling(ch) = {}] = [ch \in Channels |-> TRUE]
  <2>1. \A ch \in Channels : (Settling(ch) = {}) = TRUE
    BY <1>2
  <2> QED
    BY <2>1, Zenon
<1>8. {ch \in Channels : channelMap[ch] = "monitoring"} = {}
  BY <1>4
<1> QED
  BY <1>5, <1>6, <1>7, <1>8 DEF Promise!Init

\* If the pool never runs two commands of one channel at the same time, the
\* table and the monitors implement Subscriptions, for any number of channels,
\* topics, threads and commands: the commands of a channel take effect one by
\* one, in the order submitCommand got them, and each is followed by the monitor
\* coming in line with the vector, whatever runs on the other channels and
\* whatever the scheduler thread does meanwhile.
THEOREM SerialKeepsPromise == Spec /\ []Serial => KeepsPromise
<1>1. Init => CallOfWorker /\ WantInv /\ StageInv /\ EditInv
  BY DEF Init, MgrInit, CallOfWorker, WantInv, StageInv, EditInv, InMap, Wanted, NoneTwice
<1>2. TypeOK /\ CallOfWorker /\ [Next]_vars => CallOfWorker'
  BY CallOfWorkerStep
<1>3. TypeOK /\ CallOfWorker /\ WantInv /\ Serial /\ [Next]_vars => WantInv'
  BY WantStep
<1>4. TypeOK /\ CallOfWorker /\ StageInv /\ Serial /\ [Next]_vars => StageInv'
  BY StageStep
<1>5. TypeOK /\ EditInv /\ Serial /\ [Next]_vars => EditInv'
  BY EditStep
<1>6. TypeOK /\ TypeOK' /\ CallOfWorker /\ WantInv /\ StageInv /\ EditInv /\ Serial /\ Serial' /\ [Next]_vars
        => [Promise!Next]_(Promise!vars)
  BY PromiseStep
<1> QED
  BY <1>1, <1>2, <1>3, <1>4, <1>5, <1>6, PromiseInit, TypeCorrect, PTL DEF Spec, KeepsPromise, Promise!Spec

=============================================================================
