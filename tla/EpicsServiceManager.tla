------------------------ MODULE EpicsServiceManager ------------------------
(***************************************************************************)
(* ekg::service::epics_impl::EpicsServiceManager: the table of monitored   *)
(* EPICS channels, the scheduler thread that scans it, and the broadcaster *)
(* that hands every batch of events to the registered handlers.            *)
(*                                                                         *)
(* The module holds the component's state and one operator per step.  It   *)
(* is closed by EpicsClients (arbitrary callers and handlers) and by       *)
(* AcquireCommandWorker (the gateway's own caller and handler).            *)
(*                                                                         *)
(* A method that runs under channel_map_mutex and calls nothing that can   *)
(* be observed or fail is one step guarded by the mutex being free;        *)
(* addChannel, which can throw half way, is cut into its four steps.       *)
(***************************************************************************)
EXTENDS Naturals, Sequences

CONSTANTS
  Channels,        \* channel names
  Threads,         \* threads that call addChannel / removeChannel
  Handlers,        \* handlers given to addHandler, each with its own token
  Providers,       \* protocols the EPICS client library has a provider for
  ConnectMayThrow, \* whether connect and startMonitor may throw
  Signals,         \* event types other than Data that the network produces
  MaxEvents        \* bound: events the network produces in one behaviour

ASSUME ManagerAssumption ==
  /\ "free" \notin Threads
  /\ "scheduler" \notin Threads
  /\ "none" \notin Handlers
  /\ Channels # {}
  /\ ConnectMayThrow \in BOOLEAN
  /\ Signals \subseteq {"Fail", "Cancel", "Disconnect"}
  /\ MaxEvents \in Nat

VARIABLES
  run,        \* run: the scheduler loops while it is TRUE
  channelMap, \* channel_map: "absent" or the stage its EpicsChannel reached
  mapMutex,   \* channel_map_mutex: its owner, or "free"
  callPc,     \* where each thread is in addChannel / removeChannel
  callArg,    \* the arguments of that call
  targets,    \* handler_broadcaster.targets (in any order)
  alive,      \* handlers whose BroadcastToken is still held
  fifo,       \* events queued in each channel's subscription (client library)
  nextEvent,  \* number of events produced so far
  schedPc,    \* where the scheduler thread is
  toScan,     \* channels the current scan has still to visit
  batch,      \* the vector of events monitor() returned last
  toCall,     \* targets the current broadcast has still to visit
  calling     \* the handler the scheduler thread is executing, or "none"

callVars  == <<callPc, callArg>>
schedVars == <<schedPc, toScan, batch, toCall, calling>>
mgrVars   == <<run, channelMap, mapMutex, callVars, targets, alive, fifo,
               nextEvent, schedVars>>

Stages == {"absent", "created", "connected", "monitoring"}
Call   == [channel : Channels, protocol : {"pva", "ca"}]
Event  == [type : {"Data"} \cup Signals, channel : Channels, id : 1..MaxEvents]

InMap(ch) == channelMap[ch] # "absent"

\* Mutant: the guard on channel_map_mutex is missing.
MutexIgnored == TRUE
MutexFree == mapMutex = "free"

MutexRelease == mapMutex' = "free"
Scanning  == schedPc \in {"scan", "deliver", "handler"}

MgrTypeOK ==
  /\ run \in BOOLEAN
  /\ channelMap \in [Channels -> Stages]
  /\ mapMutex \in Threads \cup {"free", "scheduler"}
  /\ callPc \in [Threads -> {"out", "add", "create", "connect", "start",
                             "threw", "remove"}]
  /\ callArg \in [Threads -> Call]
  /\ targets \in SUBSET Handlers
  /\ alive \in SUBSET Handlers
  /\ fifo \in [Channels -> Seq(Event)]
  /\ nextEvent \in 0..MaxEvents
  /\ schedPc \in {"sleep", "scan", "deliver", "handler", "exited"}
  /\ toScan \in SUBSET Channels
  /\ batch \in Seq(Event)
  /\ toCall \in SUBSET Handlers
  /\ calling \in Handlers \cup {"none"}

\* The constructor starts the scheduler; registered are the handlers that the
\* composition has added before its first step.
MgrInit(registered) ==
  /\ run = TRUE
  /\ channelMap = [ch \in Channels |-> "absent"]
  /\ mapMutex = "free"
  /\ callPc = [t \in Threads |-> "out"]
  /\ callArg = [t \in Threads |-> CHOOSE call \in Call : TRUE]
  /\ targets = registered
  /\ alive = registered
  /\ fifo = [ch \in Channels |-> <<>>]
  /\ nextEvent = 0
  /\ schedPc = "sleep"
  /\ toScan = {}
  /\ batch = <<>>
  /\ toCall = {}
  /\ calling = "none"

-----------------------------------------------------------------------------
(* addChannel(channel_name, protocoll) *)

CallPc(t, from, to) == callPc[t] = from /\ callPc' = [callPc EXCEPT ![t] = to]
SetStage(t, stage) == channelMap' = [channelMap EXCEPT ![callArg[t].channel] = stage]

CallAdd(t, ch, protocol) ==
  /\ CallPc(t, "out", "add")
  /\ callArg' = [callArg EXCEPT ![t] = [channel |-> ch, protocol |-> protocol]]

\* The guard is taken; a channel already in the map makes the call return.
AddLock(t) ==
  /\ MutexFree
  /\ \/ InMap(callArg[t].channel) /\ CallPc(t, "add", "out") /\ UNCHANGED mapMutex
     \/ ~InMap(callArg[t].channel) /\ CallPc(t, "add", "create") /\ mapMutex' = t
  /\ UNCHANGED <<run, channelMap, callArg, targets, alive, fifo, nextEvent, schedVars>>

\* make_shared<EpicsChannel>(protocoll, channel_name): the constructor needs
\* a provider of that name in the client library's registry.
AddCreate(t) ==
  /\ CallPc(t, "create", "connect")
  /\ callArg[t].protocol \in Providers
  /\ SetStage(t, "created")
  /\ UNCHANGED <<run, mapMutex, callArg, targets, alive, fifo, nextEvent, schedVars>>

AddConnect(t) ==
  /\ CallPc(t, "connect", "start")
  /\ SetStage(t, "connected")
  /\ UNCHANGED <<run, mapMutex, callArg, targets, alive, fifo, nextEvent, schedVars>>

\* startMonitor, and the guard released as the method returns.
AddStart(t) ==
  /\ CallPc(t, "start", "out")
  /\ SetStage(t, "monitoring")
  /\ MutexRelease
  /\ UNCHANGED <<run, callArg, targets, alive, fifo, nextEvent, schedVars>>

MayThrow(t) ==
  IF callPc[t] = "create" THEN callArg[t].protocol \notin Providers ELSE ConnectMayThrow

\* Both catch clauses: the entry is erased and the exception leaves the call.
AddThrow(t) ==
  /\ \E at \in {"create", "connect", "start"} : CallPc(t, at, "threw")
  /\ MayThrow(t)
  /\ SetStage(t, "absent")
  /\ MutexRelease
  /\ UNCHANGED <<run, callArg, targets, alive, fifo, nextEvent, schedVars>>

(* removeChannel(channel_name): erasing the entry destroys the EpicsChannel  *)
(* and with it the subscription and the events still queued there.           *)
CallRemove(t, ch) ==
  /\ CallPc(t, "out", "remove")
  /\ callArg' = [callArg EXCEPT ![t].channel = ch]

RemoveChannel(t) ==
  /\ MutexFree
  /\ CallPc(t, "remove", "out")
  /\ SetStage(t, "absent")
  /\ fifo' = [fifo EXCEPT ![callArg[t].channel] = <<>>]
  /\ UNCHANGED <<run, mapMutex, callArg, targets, alive, nextEvent, schedVars>>

\* monitorChannel(channel_name, activate): the default protocol is used.
MonitorChannel(t, ch, activate) ==
  IF activate THEN CallAdd(t, ch, "pva") ELSE CallRemove(t, ch)

\* One step of a thread inside a call.
CallStep(t) ==
  \/ AddLock(t) \/ AddCreate(t) \/ AddConnect(t) \/ AddStart(t) \/ AddThrow(t)
  \/ RemoveChannel(t)

-----------------------------------------------------------------------------
(* Handlers and their tokens *)

\* Mutant: the predicate of remove_if is inverted.
PurgedInverted == targets \ alive
\* purge() removes the targets whose token has expired.
Purged == targets \cap alive

AddHandler(h) ==
  /\ MutexFree
  /\ h \notin alive
  /\ targets' = targets \cup {h}
  /\ alive' = alive \cup {h}
  /\ UNCHANGED <<run, channelMap, mapMutex, callVars, fifo, nextEvent, schedVars>>

\* The owner drops its BroadcastToken; no lock is involved.
ResetToken(h) ==
  /\ alive' = alive \ {h}
  /\ UNCHANGED <<run, channelMap, mapMutex, callVars, targets, fifo, nextEvent, schedVars>>

GetHandlerSize ==
  /\ MutexFree
  /\ targets' = Purged
  /\ UNCHANGED <<run, channelMap, mapMutex, callVars, alive, fifo, nextEvent, schedVars>>

-----------------------------------------------------------------------------
(* The network side of a subscription, from how monitor() uses it *)

Produce(ch, type) ==
  /\ channelMap[ch] = "monitoring"
  /\ nextEvent < MaxEvents
  /\ nextEvent' = nextEvent + 1
  /\ fifo' = [fifo EXCEPT ![ch] =
       Append(@, [type |-> type, channel |-> ch, id |-> nextEvent + 1])]
  /\ UNCHANGED <<run, channelMap, mapMutex, callVars, targets, alive, schedVars>>

\* monitor() takes the first n events of a subscription's queue q: none on a
\* time-out, a signal alone, and as many Data events as there are in a row.
Takes(q, n) ==
  IF q = <<>> THEN n = 0
  ELSE IF q[1].type # "Data" THEN n = 1
  ELSE /\ \A i \in 1..n : q[i].type = "Data"
       /\ n < Len(q) => q[n + 1].type # "Data"

\* Mutant: the events monitor() returns stay in the queue.
RestKept(q, n) == q
Rest(q, n) == SubSeq(q, n + 1, Len(q))

-----------------------------------------------------------------------------
(* The scheduler thread: task() and processIterator() *)

SchedTo(from, to) == schedPc = from /\ schedPc' = to

SchedLock ==
  /\ run
  /\ MutexFree
  /\ SchedTo("sleep", "scan")
  /\ mapMutex' = "scheduler"
  /\ toScan' = {ch \in Channels : InMap(ch)}
  /\ UNCHANGED <<run, channelMap, callVars, targets, alive, fifo, nextEvent, batch, toCall, calling>>

\* processIterator: with no event or no target at all it returns at once,
\* otherwise broadcast() purges the expired targets and starts over the rest.
SchedPoll(ch) ==
  /\ ch \in toScan
  /\ toScan' = toScan \ {ch}
  /\ \E n \in 0..Len(fifo[ch]) :
       /\ Takes(fifo[ch], n)
       /\ batch' = SubSeq(fifo[ch], 1, n)
       /\ fifo' = [fifo EXCEPT ![ch] = Rest(@, n)]
       /\ IF n = 0 \/ targets = {}
          THEN SchedTo("scan", "scan") /\ UNCHANGED <<targets, toCall>>
          ELSE /\ SchedTo("scan", "deliver")
               /\ targets' = Purged
               /\ toCall' = Purged
  /\ UNCHANGED <<run, channelMap, mapMutex, callVars, alive, nextEvent, calling>>

\* wp.lock() succeeds and the handler is called, on the scheduler thread.
SchedCall(h) ==
  /\ SchedTo("deliver", "handler")
  /\ h \in toCall \cap alive
  /\ toCall' = toCall \ {h}
  /\ calling' = h
  /\ UNCHANGED <<run, channelMap, mapMutex, callVars, targets, alive, fifo,
                 nextEvent, toScan, batch>>

\* wp.lock() fails: the token went away after the purge.
SchedSkip(h) ==
  /\ SchedTo("deliver", "deliver")
  /\ h \in toCall \ alive
  /\ toCall' = toCall \ {h}
  /\ UNCHANGED <<run, channelMap, mapMutex, callVars, targets, alive, fifo,
                 nextEvent, toScan, batch, calling>>

HandlerReturn ==
  /\ SchedTo("handler", "deliver")
  /\ calling' = "none"
  /\ UNCHANGED <<run, channelMap, mapMutex, callVars, targets, alive, fifo,
                 nextEvent, toScan, batch, toCall>>

SchedEndBroadcast ==
  /\ SchedTo("deliver", "scan")
  /\ toCall = {}
  /\ UNCHANGED <<run, channelMap, mapMutex, callVars, targets, alive, fifo,
                 nextEvent, toScan, batch, toCall, calling>>

\* Mutant: the guard is made before the loop and not in it.
SchedScansAgain ==
  /\ SchedTo("scan", "scan")
  /\ toScan = {} /\ toScan' = {ch \in Channels : InMap(ch)}
  /\ UNCHANGED <<run, channelMap, mapMutex, callVars, targets, alive, fifo, nextEvent,
                 batch, toCall, calling>>

SchedUnlock ==
  /\ SchedTo("scan", "sleep")
  /\ toScan = {}
  /\ MutexRelease
  /\ UNCHANGED <<run, channelMap, callVars, targets, alive, fifo, nextEvent,
                 toScan, batch, toCall, calling>>

\* Mutant: the loop ends only once nothing is monitored.
StopWhenEmpty == ~run /\ \A ch \in Channels : ~InMap(ch)
Stop == ~run

SchedExit ==
  /\ Stop
  /\ SchedTo("sleep", "exited")
  /\ UNCHANGED <<run, channelMap, mapMutex, callVars, targets, alive, fifo,
                 nextEvent, toScan, batch, toCall, calling>>

\* The destructor clears run and then joins the scheduler thread.
Destroy ==
  /\ run
  /\ run' = FALSE
  /\ UNCHANGED <<channelMap, mapMutex, callVars, targets, alive, fifo, nextEvent, schedVars>>

SchedStep ==
  \/ SchedLock \/ (\E ch \in Channels : SchedPoll(ch)) \/ SchedEndBroadcast
  \/ (\E h \in Handlers : SchedCall(h) \/ SchedSkip(h)) \/ SchedUnlock \/ SchedExit

-----------------------------------------------------------------------------
(* The invariants every composition of the component keeps *)

\* The mutex's owner is the one thread whose program counter is inside the
\* region that channel_map_mutex guards, so addChannel's half-built entries
\* and the scheduler's iteration never coexist.
MutexOwner ==
  /\ mapMutex = "scheduler" <=> Scanning
  /\ \A t \in Threads : mapMutex = t <=> callPc[t] \in {"create", "connect", "start"}

\* Every channel the scan has still to visit is in the map and has been
\* started: the iteration of task() never meets an erased entry nor calls
\* monitor() on a subscription that startMonitor has not opened.
ScanMeetsStartedChannels ==
  \A ch \in toScan : Scanning /\ channelMap[ch] = "monitoring"

\* An entry addChannel has not finished belongs to the call that holds the
\* mutex; a call that threw leaves nothing behind.
HalfBuiltIsOwned ==
  \A ch \in Channels : channelMap[ch] \in {"created", "connected"} =>
    \E t \in Threads : /\ mapMutex = t
                       /\ callArg[t].channel = ch
                       /\ callPc[t] \in {"connect", "start"}

=============================================================================
