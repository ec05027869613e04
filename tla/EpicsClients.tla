--------------------------- MODULE EpicsClients ---------------------------
(***************************************************************************)
(* EpicsServiceManager closed by its public interface: any thread may add  *)
(* or remove any channel, handlers are registered and their tokens dropped *)
(* at any time, and the object is finally destroyed.                       *)
(***************************************************************************)
EXTENDS EpicsServiceManager

CONSTANT MaxCalls \* bound: calls of addChannel and removeChannel

VARIABLES
  calls,    \* calls made so far
  drained,  \* history: every batch monitor() returned, concatenated
  since,    \* history: index in drained of the first event after each handler's
            \* registration (0 before it)
  received  \* history: what each handler was called with, concatenated

history == <<drained, since, received>>
vars == <<mgrVars, calls, history>>

Init ==
  /\ MgrInit({})
  /\ calls = 0
  /\ drained = <<>>
  /\ since = [h \in Handlers |-> 0]
  /\ received = [h \in Handlers |-> <<>>]

ManagerSame == UNCHANGED <<run, channelMap, mapMutex, targets, alive, fifo, nextEvent, schedVars>>

\* A client may call until it starts destroying the object.
Begin(t) ==
  /\ run
  /\ calls < MaxCalls
  /\ calls' = calls + 1
  /\ \E ch \in Channels :
       \/ \E protocol \in {"pva", "ca"} : CallAdd(t, ch, protocol)
       \/ CallRemove(t, ch)
  /\ ManagerSame
  /\ UNCHANGED history

Body(t) == CallStep(t) /\ UNCHANGED <<calls, history>>

\* The caller catches the exception (the way the unit tests do).
Catch(t) ==
  /\ CallPc(t, "threw", "out")
  /\ ManagerSame
  /\ UNCHANGED <<callArg, calls, history>>

Register(h) ==
  /\ run
  /\ since[h] = 0
  /\ AddHandler(h)
  /\ since' = [since EXCEPT ![h] = Len(drained) + 1]
  /\ UNCHANGED <<calls, drained, received>>

Drop(h) ==
  /\ h \in alive
  /\ ResetToken(h)
  /\ UNCHANGED <<calls, history>>

Count == run /\ GetHandlerSize /\ UNCHANGED <<calls, history>>

Network == \E ch \in Channels, type \in {"Data"} \cup Signals :
             Produce(ch, type) /\ UNCHANGED <<calls, history>>

Poll(ch) ==
  /\ SchedPoll(ch)
  /\ drained' = drained \o batch'
  /\ UNCHANGED <<calls, since, received>>

Invoke(h) ==
  /\ SchedCall(h)
  /\ received' = [received EXCEPT ![h] = @ \o batch]
  /\ UNCHANGED <<calls, drained, since>>

SchedOther ==
  /\ SchedLock \/ (\E h \in Handlers : SchedSkip(h)) \/ HandlerReturn \/ SchedEndBroadcast \/ SchedUnlock \/ SchedExit
  /\ UNCHANGED <<calls, history>>

\* The object is destroyed when no thread is inside a call.
Delete ==
  /\ \A t \in Threads : callPc[t] = "out"
  /\ Destroy
  /\ UNCHANGED <<calls, history>>

Finished == schedPc = "exited" /\ UNCHANGED vars

Scheduler == (\E ch \in Channels : Poll(ch)) \/ (\E h \in Handlers : Invoke(h)) \/ SchedOther

Next ==
  \/ \E t \in Threads : Begin(t) \/ Body(t) \/ Catch(t)
  \/ \E h \in Handlers : Register(h) \/ Drop(h)
  \/ Count \/ Network \/ Scheduler \/ Delete \/ Finished

\* The scheduler thread is always scheduled.  A thread waiting for the mutex
\* competes with a scheduler that releases it for 100 us per round, hence
\* strong fairness for the calls.
Fairness ==
  /\ WF_vars(Scheduler)
  /\ \A t \in Threads : SF_vars(Body(t))

Spec == Init /\ [][Next]_vars /\ Fairness

-----------------------------------------------------------------------------
(* Properties *)

\* broadcaster::broadcast: once a broadcast is over, a handler whose token is
\* held has received exactly the events monitor() returned since it was
\* registered: all of them, in their order, each of them once.
LiveHandlersMissNothing ==
  schedPc \notin {"deliver", "handler"} =>
    \A h \in alive : received[h] = SubSeq(drained, since[h], Len(drained))

\* EpicsChannel::monitor and the scan: the events of one channel reach every
\* handler in the order the network produced them.
ChannelOrderKept ==
  \A h \in Handlers : \A i, j \in DOMAIN received[h] :
    i < j /\ received[h][i].channel = received[h][j].channel
      => received[h][i].id < received[h][j].id

\* Every call of addChannel and removeChannel returns or throws, however
\* often the scheduler takes the mutex.
CallsReturn ==
  \A t \in Threads : callPc[t] \in {"add", "remove"} ~> callPc[t] \in {"out", "threw"}

\* ~EpicsServiceManager: the join it waits in ends, even from the middle of a
\* scan that is delivering events.
DestructorReturns == ~run ~> schedPc = "exited"

=============================================================================
