---------------------- MODULE EpicsServiceManagerProofs ----------------------
(***************************************************************************)
(* What each step of EpicsServiceManager preserves, whoever takes it: the  *)
(* lemmas the proofs about the two compositions of the component rest on.  *)
(***************************************************************************)
EXTENDS EpicsServiceManager, SequenceTheorems, TLAPS

USE DEF MutexFree, MutexRelease, Purged, Rest, Stop

-----------------------------------------------------------------------------
(* Types *)

LEMMA MgrTypeCall ==
  ASSUME MgrTypeOK, NEW w \in Threads, CallStep(w)
  PROVE  MgrTypeOK'
<1> USE DEF MgrTypeOK, CallPc, SetStage, Stages, schedVars
<1>0. callArg[w].channel \in Channels
  BY DEF Call
<1>1. CASE AddLock(w)
  BY <1>1 DEF AddLock
<1>2. CASE AddCreate(w)
  BY <1>0, <1>2 DEF AddCreate
<1>3. CASE AddConnect(w)
  BY <1>0, <1>3 DEF AddConnect
<1>4. CASE AddStart(w)
  BY <1>0, <1>4 DEF AddStart
<1>5. CASE AddThrow(w)
  BY <1>0, <1>5 DEF AddThrow
<1>6. CASE RemoveChannel(w)
  BY <1>0, <1>6 DEF RemoveChannel
<1>. QED
  BY <1>1, <1>2, <1>3, <1>4, <1>5, <1>6 DEF CallStep

LEMMA MgrTypeSched ==
  ASSUME MgrTypeOK, SchedStep
  PROVE  MgrTypeOK'
<1> USE DEF MgrTypeOK, SchedTo, callVars
<1>1. CASE SchedLock
  BY <1>1 DEF SchedLock
<1>2. ASSUME NEW ch \in Channels, SchedPoll(ch) PROVE MgrTypeOK'
  <2>1. PICK n \in 0..Len(fifo[ch]) :
          /\ batch' = SubSeq(fifo[ch], 1, n)
          /\ fifo' = [fifo EXCEPT ![ch] = SubSeq(@, n + 1, Len(@))]
    BY <1>2 DEF SchedPoll
  <2>2. batch' \in Seq(Event) /\ fifo' \in [Channels -> Seq(Event)]
    BY <2>1
  <2>3. QED
    BY <1>2, <2>2 DEF SchedPoll
<1>3. ASSUME NEW h \in Handlers, SchedCall(h) \/ SchedSkip(h) PROVE MgrTypeOK'
  BY <1>3 DEF SchedCall, SchedSkip
<1>4. CASE SchedEndBroadcast
  BY <1>4 DEF SchedEndBroadcast
<1>5. CASE SchedUnlock
  BY <1>5 DEF SchedUnlock
<1>6. CASE SchedExit
  BY <1>6 DEF SchedExit
<1>. QED
  BY <1>1, <1>2, <1>3, <1>4, <1>5, <1>6 DEF SchedStep

LEMMA MgrTypeProduce ==
  ASSUME MgrTypeOK, NEW ch \in Channels, NEW type \in {"Data"} \cup Signals, Produce(ch, type)
  PROVE  MgrTypeOK'
<1> DEFINE e == [type |-> type, channel |-> ch, id |-> nextEvent + 1]
<1>1. e \in Event /\ nextEvent + 1 \in 0..MaxEvents
  BY ManagerAssumption DEF Produce, Event, MgrTypeOK
<1>2. fifo' \in [Channels -> Seq(Event)]
  BY <1>1 DEF Produce, MgrTypeOK
<1>. QED
  BY <1>1, <1>2 DEF Produce, MgrTypeOK, callVars, schedVars

LEMMA MgrTypeMonitorChannel ==
  ASSUME MgrTypeOK, NEW t \in Threads, NEW ch \in Channels, NEW activate,
         MonitorChannel(t, ch, activate),
         UNCHANGED <<run, channelMap, mapMutex, targets, alive, fifo, nextEvent, schedVars>>
  PROVE  MgrTypeOK'
<1>1. CASE activate
  <2>1. CallAdd(t, ch, "pva")
    BY <1>1 DEF MonitorChannel
  <2>2. [channel |-> ch, protocol |-> "pva"] \in Call
    BY DEF Call
  <2>3. QED
    BY <2>1, <2>2 DEF CallAdd, CallPc, MgrTypeOK, schedVars
<1>2. CASE ~activate
  <2>1. CallRemove(t, ch)
    BY <1>2 DEF MonitorChannel
  <2>2. callArg[t] \in Call
    BY DEF MgrTypeOK
  <2>3. [callArg[t] EXCEPT !.channel = ch] \in Call
    BY <2>2 DEF Call
  <2>4. callArg' \in [Threads -> Call]
    BY <2>1, <2>3 DEF CallRemove, MgrTypeOK
  <2>5. QED
    BY <2>1, <2>4 DEF CallRemove, CallPc, MgrTypeOK, schedVars
<1>3. QED
  BY <1>1, <1>2, Zenon

-----------------------------------------------------------------------------
(* The mutex and the map it guards *)

MgrSafe == MutexOwner /\ ScanMeetsStartedChannels /\ HalfBuiltIsOwned

LEMMA MgrSafeInit ==
  ASSUME NEW registered, MgrInit(registered)
  PROVE  MgrSafe
BY ManagerAssumption DEF MgrInit, MgrSafe, MutexOwner, ScanMeetsStartedChannels,
   HalfBuiltIsOwned, Scanning

LEMMA MgrSafeCall ==
  ASSUME MgrTypeOK, MgrSafe, NEW w \in Threads, CallStep(w)
  PROVE  MgrSafe'
<1> USE ManagerAssumption
    DEF MgrTypeOK, MgrSafe, MutexOwner, ScanMeetsStartedChannels, HalfBuiltIsOwned,
        CallPc, SetStage, Stages, Scanning, InMap, schedVars
<1>0. callArg[w].channel \in Channels
  BY DEF Call
<1>1. CASE AddLock(w)
  <2>1. CASE InMap(callArg[w].channel)
    <3>1. callPc[w] = "add" /\ callPc' = [callPc EXCEPT ![w] = "out"] /\ mapMutex' = "free"
      BY <1>1, <2>1 DEF AddLock
    <3>2. MutexOwner'
      BY <1>1, <3>1 DEF AddLock
    <3>3. ScanMeetsStartedChannels' /\ HalfBuiltIsOwned'
      BY <1>1, <3>1 DEF AddLock
    <3>4. QED
      BY <3>2, <3>3
  <2>2. CASE ~InMap(callArg[w].channel)
    <3>1. callPc[w] = "add" /\ callPc' = [callPc EXCEPT ![w] = "create"] /\ mapMutex' = w
          /\ mapMutex = "free"
      BY <1>1, <2>2 DEF AddLock
    <3>2. MutexOwner'
      BY <1>1, <3>1 DEF AddLock
    <3>3. ScanMeetsStartedChannels' /\ HalfBuiltIsOwned'
      BY <1>1, <3>1 DEF AddLock
    <3>4. QED
      BY <3>2, <3>3
  <2>3. QED
    BY <2>1, <2>2
<1>2. CASE AddCreate(w)
  BY <1>0, <1>2 DEF AddCreate
<1>3. CASE AddConnect(w)
  BY <1>0, <1>3 DEF AddConnect
<1>4. CASE AddStart(w)
  BY <1>0, <1>4 DEF AddStart
<1>5. CASE AddThrow(w)
  BY <1>0, <1>5 DEF AddThrow
<1>6. CASE RemoveChannel(w)
  BY <1>0, <1>6 DEF RemoveChannel
<1>. QED
  BY <1>1, <1>2, <1>3, <1>4, <1>5, <1>6 DEF CallStep

LEMMA MgrSafeSched ==
  ASSUME MgrTypeOK, MgrSafe, SchedStep
  PROVE  MgrSafe'
<1> USE ManagerAssumption
    DEF MgrTypeOK, MgrSafe, MutexOwner, ScanMeetsStartedChannels, HalfBuiltIsOwned,
        SchedTo, Stages, Scanning, InMap, callVars
<1>1. CASE SchedLock
  BY <1>1 DEF SchedLock
<1>2. ASSUME NEW ch \in Channels, SchedPoll(ch) PROVE MgrSafe'
  BY <1>2 DEF SchedPoll
<1>3. ASSUME NEW h \in Handlers, SchedCall(h) \/ SchedSkip(h) PROVE MgrSafe'
  BY <1>3 DEF SchedCall, SchedSkip
<1>4. CASE SchedEndBroadcast
  BY <1>4 DEF SchedEndBroadcast
<1>5. CASE SchedUnlock
  BY <1>5 DEF SchedUnlock
<1>6. CASE SchedExit
  BY <1>6 DEF SchedExit
<1>. QED
  BY <1>1, <1>2, <1>3, <1>4, <1>5, <1>6 DEF SchedStep

LEMMA MgrSafeMonitorChannel ==
  ASSUME MgrTypeOK, MgrSafe, NEW t \in Threads, NEW ch \in Channels, NEW activate,
         MonitorChannel(t, ch, activate),
         UNCHANGED <<run, channelMap, mapMutex, targets, alive, fifo, nextEvent, schedVars>>
  PROVE  MgrSafe'
<1>1. /\ callPc[t] = "out"
      /\ callPc' = [callPc EXCEPT ![t] = "add"] \/ callPc' = [callPc EXCEPT ![t] = "remove"]
      /\ \A u \in Threads \ {t} : callArg'[u] = callArg[u]
  BY DEF MonitorChannel, CallAdd, CallRemove, CallPc, MgrTypeOK
<1>2. \A u \in Threads : callPc'[u] \in {"create", "connect", "start"}
                          <=> callPc[u] \in {"create", "connect", "start"}
  BY <1>1 DEF MgrTypeOK
<1>3. MutexOwner' /\ ScanMeetsStartedChannels'
  BY <1>2 DEF MgrSafe, MutexOwner, ScanMeetsStartedChannels, Scanning, schedVars
<1>4. ASSUME NEW c \in Channels, channelMap'[c] \in {"created", "connected"}
      PROVE  \E u \in Threads : /\ mapMutex' = u
                                /\ callArg'[u].channel = c
                                /\ callPc'[u] \in {"connect", "start"}
  <2>1. PICK u \in Threads : /\ mapMutex = u
                             /\ callArg[u].channel = c
                             /\ callPc[u] \in {"connect", "start"}
    BY <1>4 DEF MgrSafe, HalfBuiltIsOwned
  <2>2. u # t /\ callPc'[u] = callPc[u] /\ callArg'[u] = callArg[u]
    BY <1>1, <2>1 DEF MgrTypeOK
  <2>3. QED
    BY <2>1, <2>2
<1>5. QED
  BY <1>3, <1>4 DEF MgrSafe, HalfBuiltIsOwned

LEMMA MgrSafeUnchanged ==
  ASSUME MgrSafe, UNCHANGED <<channelMap, mapMutex, callVars, schedPc, toScan>>
  PROVE  MgrSafe'
BY DEF MgrSafe, MutexOwner, ScanMeetsStartedChannels, HalfBuiltIsOwned, Scanning, callVars

LEMMA MgrSafeReturn ==
  ASSUME MgrSafe, HandlerReturn
  PROVE  MgrSafe'
BY DEF MgrSafe, MutexOwner, ScanMeetsStartedChannels, HalfBuiltIsOwned, Scanning, callVars,
       HandlerReturn, SchedTo

-----------------------------------------------------------------------------
(* Stretches of a sequence *)

LEMMA Stretch ==
  ASSUME NEW S, NEW s \in Seq(S), NEW lo \in 1..(Len(s) + 1), NEW hi \in (lo - 1)..Len(s)
  PROVE  /\ SubSeq(s, lo, hi) \in Seq(S) /\ Len(SubSeq(s, lo, hi)) = hi - lo + 1
         /\ DOMAIN SubSeq(s, lo, hi) = 1..(hi - lo + 1)
         /\ \A i \in 1..(hi - lo + 1) : SubSeq(s, lo, hi)[i] = s[lo + i - 1]
<1> DEFINE n == Len(s)
<1>1. n \in Nat /\ \A i \in 1..n : s[i] \in S
  BY LenProperties, ElementOfSeq
<1>2. lo \in 1..(n + 1) /\ hi \in (lo - 1)..n
  OBVIOUS
<1> HIDE DEF n
<1>3. lo \in Int /\ hi \in Int /\ \A i \in lo..hi : s[i] \in S
  BY <1>1, <1>2
<1>4. hi - lo + 1 = (IF lo <= hi THEN hi - lo + 1 ELSE 0)
  BY <1>1, <1>2
<1> DEFINE t == SubSeq(s, lo, hi)
<1>5. t \in Seq(S) /\ Len(t) = hi - lo + 1 /\ \A i \in 1..(hi - lo + 1) : t[i] = s[lo + i - 1]
  BY <1>3, <1>4, SubSeqProperties
<1>6. DOMAIN t = 1..Len(t)
  BY <1>5, LenProperties
<1> QED
  BY <1>5, <1>6

\* What is appended does not change a stretch, and is one itself.
LEMMA StretchKept ==
  ASSUME NEW S, NEW s \in Seq(S), NEW t \in Seq(S), NEW lo \in 1..(Len(s) + 1), NEW hi \in (lo - 1)..Len(s)
  PROVE  SubSeq(s \o t, lo, hi) = SubSeq(s, lo, hi)
<1>1. Len(s) \in Nat
  BY LenProperties
<1>2. CASE hi = lo - 1
  BY <1>1, <1>2, SubSeqEmpty
<1>3. CASE hi # lo - 1
  <2>1. lo \in 1..Len(s) /\ hi \in 1..Len(s)
    BY <1>1, <1>3
  <2> QED
    BY <2>1, SubSeqOfConcat1
<1> QED
  BY <1>2, <1>3

LEMMA StretchAdded ==
  ASSUME NEW S, NEW s \in Seq(S), NEW t \in Seq(S)
  PROVE  /\ Len(s \o t) = Len(s) + Len(t) /\ s \o t \in Seq(S) /\ Len(s) \in Nat /\ Len(t) \in Nat
         /\ SubSeq(s \o t, Len(s) + 1, Len(s \o t)) = t
<1>1. Len(s) \in Nat /\ Len(t) \in Nat /\ Len(s \o t) = Len(s) + Len(t) /\ s \o t \in Seq(S)
  BY LenProperties, ConcatProperties
<1>2. CASE Len(t) = 0
  <2>1. t = <<>>
    BY <1>2, EmptySeq
  <2> QED
    BY <1>1, <1>2, <2>1, SubSeqEmpty
<1>3. CASE Len(t) # 0
  <2> DEFINE m == Len(s) + 1
             k == Len(s) + Len(t)
  <2>1. m \in (Len(s) + 1)..(Len(s) + Len(t)) /\ k \in (Len(s) + 1)..(Len(s) + Len(t))
        /\ m - Len(s) = 1 /\ k - Len(s) = Len(t)
    BY <1>1, <1>3
  <2> HIDE DEF m, k
  <2>2. SubSeq(s \o t, m, k) = SubSeq(t, 1, Len(t))
    BY <2>1, SubSeqOfConcat2
  <2> QED
    BY <1>1, <2>2, SubSeqFull DEF m, k
<1> QED
  BY <1>1, <1>2, <1>3

LEMMA ConcatElements ==
  ASSUME NEW S, NEW s \in Seq(S), NEW t \in Seq(S), NEW i \in DOMAIN (s \o t)
  PROVE  \/ i \in DOMAIN s /\ (s \o t)[i] = s[i]
         \/ i - Len(s) \in DOMAIN t /\ (s \o t)[i] = t[i - Len(s)]
<1> DEFINE n == Len(s)
           k == Len(t)
<1>1. /\ n \in Nat /\ k \in Nat /\ DOMAIN s = 1..n /\ DOMAIN t = 1..k /\ DOMAIN (s \o t) = 1..(n + k)
      /\ \A j \in 1..(n + k) : (s \o t)[j] = IF j <= n THEN s[j] ELSE t[j - n]
  <2>1. s \o t \in Seq(S) /\ Len(s \o t) = n + k
    BY ConcatProperties
  <2> QED
    BY <2>1, ConcatProperties, LenProperties
<1> HIDE DEF n, k
<1>2. i \in 1..(n + k)
  BY <1>1
<1> QED
  BY <1>1, <1>2 DEF n

-----------------------------------------------------------------------------
(* The order of the events in the queues *)

Ordered(s) == \A i, j \in DOMAIN s : i < j /\ s[i].channel = s[j].channel => s[i].id < s[j].id

\* Every event of s is older than those of q that are of its channel.
Older(s, q) == \A i \in DOMAIN s : \A j \in DOMAIN q : s[i].channel = q[j].channel => s[i].id < q[j].id

FifoInOrder ==
  \A ch \in Channels : /\ Ordered(fifo[ch])
                       /\ \A i \in DOMAIN fifo[ch] : fifo[ch][i].channel = ch /\ fifo[ch][i].id <= nextEvent

\* An event that was produced, and before all that its channel's queue holds.
Past(ch, id) ==
  /\ id \in Nat /\ id <= nextEvent
  /\ \A i \in DOMAIN fifo[ch] : id < fifo[ch][i].id

AllPast(s) == \A i \in DOMAIN s : s[i].channel \in Channels /\ Past(s[i].channel, s[i].id)

StaysPast == \A ch \in Channels, id \in Nat : Past(ch, id) => Past(ch, id)'

LEMMA OrderedConcat ==
  ASSUME NEW s \in Seq(Event), NEW t \in Seq(Event), Ordered(s), Ordered(t), Older(s, t)
  PROVE  Ordered(s \o t)
<1> DEFINE n == Len(s)
           k == Len(t)
           c == s \o t
<1>1. /\ n \in Nat /\ k \in Nat /\ DOMAIN s = 1..n /\ DOMAIN t = 1..k /\ DOMAIN c = 1..(n + k)
      /\ \A i \in 1..(n + k) : c[i] = IF i <= n THEN s[i] ELSE t[i - n]
  <2>1. c \in Seq(Event) /\ Len(c) = n + k
    BY ConcatProperties
  <2> QED
    BY <2>1, ConcatProperties, LenProperties
<1> HIDE DEF n, k, c
<1>2. ASSUME NEW i \in 1..(n + k), NEW j \in 1..(n + k), i < j, c[i].channel = c[j].channel
      PROVE  c[i].id < c[j].id
  <2>1. CASE j <= n
    <3>1. i \in DOMAIN s /\ j \in DOMAIN s /\ c[i] = s[i] /\ c[j] = s[j]
      BY <1>1, <1>2, <2>1
    <3> QED
      BY <1>2, <3>1 DEF Ordered
  <2>2. CASE i > n
    <3>1. i - n \in DOMAIN t /\ j - n \in DOMAIN t /\ c[i] = t[i - n] /\ c[j] = t[j - n] /\ i - n < j - n
      BY <1>1, <1>2, <2>2
    <3> QED
      BY <1>2, <3>1 DEF Ordered
  <2>3. CASE i <= n /\ j > n
    <3>1. i \in DOMAIN s /\ j - n \in DOMAIN t /\ c[i] = s[i] /\ c[j] = t[j - n]
      BY <1>1, <1>2, <2>3
    <3> QED
      BY <1>2, <3>1 DEF Older
  <2> QED
    BY <1>1, <2>1, <2>2, <2>3
<1>3. Ordered(c)
  BY <1>1, <1>2 DEF Ordered
<1> QED
  BY <1>3 DEF c

LEMMA OrderedStretch ==
  ASSUME NEW s \in Seq(Event), NEW lo \in 1..(Len(s) + 1), NEW hi \in (lo - 1)..Len(s), Ordered(s)
  PROVE  Ordered(SubSeq(s, lo, hi))
<1> DEFINE n == Len(s)
           t == SubSeq(s, lo, hi)
<1>1. n \in Nat /\ DOMAIN s = 1..n /\ lo \in 1..(n + 1) /\ hi \in (lo - 1)..n
  BY LenProperties
<1>2. DOMAIN t = 1..(hi - lo + 1) /\ \A i \in 1..(hi - lo + 1) : t[i] = s[lo + i - 1]
  BY Stretch
<1> HIDE DEF n, t
<1>3. \A i \in 1..(hi - lo + 1) : lo + i - 1 \in DOMAIN s
  BY <1>1
<1>4. \A i, j \in 1..(hi - lo + 1) : i < j => lo + i - 1 < lo + j - 1
  BY <1>1
<1>5. Ordered(t)
  BY <1>2, <1>3, <1>4 DEF Ordered
<1> QED
  BY <1>5 DEF t

LEMMA EventsAreNumbered ==
  ASSUME NEW s \in Seq(Event), NEW i \in DOMAIN s
  PROVE  s[i] \in Event /\ s[i].id \in Nat /\ s[i].channel \in Channels
<1>1. s[i] \in Event
  BY LenProperties, ElementOfSeq
<1> QED
  BY <1>1, ManagerAssumption DEF Event

LEMMA FifoKept ==
  ASSUME FifoInOrder, nextEvent' = nextEvent,
         \A c \in Channels : fifo'[c] = fifo[c] \/ fifo'[c] = <<>>
  PROVE  FifoInOrder' /\ StaysPast
<1>1. \A c \in Channels : fifo'[c] = fifo[c] \/ DOMAIN fifo'[c] = {}
  BY EmptySeq
<1> QED
  BY <1>1 DEF FifoInOrder, StaysPast, Past, Ordered

LEMMA CallEmpties ==
  ASSUME MgrTypeOK, FifoInOrder, NEW w \in Threads, CallStep(w)
  PROVE  FifoInOrder' /\ StaysPast
<1>1. nextEvent' = nextEvent /\ (fifo' = fifo \/ fifo' = [fifo EXCEPT ![callArg[w].channel] = <<>>])
  BY DEF CallStep, AddLock, AddCreate, AddConnect, AddStart, AddThrow, RemoveChannel
<1>2. \A c \in Channels : fifo'[c] = fifo[c] \/ fifo'[c] = <<>>
  BY <1>1 DEF MgrTypeOK
<1> QED
  BY <1>1, <1>2, FifoKept

\* A poll cuts a queue in two.
LEMMA PollMoves ==
  ASSUME MgrTypeOK, FifoInOrder, NEW ch \in Channels, SchedPoll(ch)
  PROVE  /\ FifoInOrder' /\ Ordered(batch') /\ AllPast(batch)' /\ StaysPast
         /\ \A i \in DOMAIN batch' : \E j \in DOMAIN fifo[ch] : batch'[i] = fifo[ch][j]
<1> DEFINE q == fifo[ch]
           k == Len(fifo[ch])
<1>1. PICK m \in 0..k :
        /\ batch' = SubSeq(q, 1, m) /\ fifo' = [fifo EXCEPT ![ch] = SubSeq(@, m + 1, Len(@))]
        /\ nextEvent' = nextEvent
  BY DEF SchedPoll
<1>2. q \in Seq(Event) /\ fifo \in [Channels -> Seq(Event)]
  BY DEF MgrTypeOK
<1>3. k \in Nat /\ DOMAIN q = 1..k
  BY <1>2, LenProperties
<1> DEFINE a == SubSeq(q, 1, m)
           b == SubSeq(q, m + 1, k)
<1>4. Ordered(q) /\ \A i \in DOMAIN q : /\ q[i].channel = ch /\ q[i].id <= nextEvent
                                        /\ q[i].id \in Nat
  BY <1>2, EventsAreNumbered DEF FifoInOrder
<1>5. DOMAIN a = 1..m /\ Ordered(a) /\ \A i \in 1..m : a[i] = q[i]
  <2>1. 1 \in 1..(k + 1) /\ m \in (1 - 1)..k /\ m - 1 + 1 = m /\ \A i \in 1..m : 1 + i - 1 = i
    <3> HIDE DEF k
    <3> QED
      BY <1>3
  <2>2. DOMAIN a = 1..(m - 1 + 1) /\ \A i \in 1..(m - 1 + 1) : a[i] = q[1 + i - 1]
    BY <1>2, <2>1, Stretch
  <2>3. Ordered(a)
    BY <1>2, <1>4, <2>1, OrderedStretch
  <2> HIDE DEF a
  <2> QED
    BY <2>1, <2>2, <2>3
<1>6. DOMAIN b = 1..(k - m) /\ Ordered(b) /\ \A i \in 1..(k - m) : b[i] = q[m + i]
  <2>1. m + 1 \in 1..(k + 1) /\ k \in (m + 1 - 1)..k /\ k - (m + 1) + 1 = k - m
        /\ \A i \in 1..(k - m) : m + 1 + i - 1 = m + i
    <3> HIDE DEF k
    <3> QED
      BY <1>3
  <2>2. DOMAIN b = 1..(k - (m + 1) + 1) /\ \A i \in 1..(k - (m + 1) + 1) : b[i] = q[m + 1 + i - 1]
    BY <1>2, <2>1, Stretch
  <2>3. Ordered(b)
    BY <1>2, <1>4, <2>1, OrderedStretch
  <2> HIDE DEF b
  <2> QED
    BY <2>1, <2>2, <2>3
<1>7. fifo'[ch] = b /\ batch' = a /\ \A c \in Channels \ {ch} : fifo'[c] = fifo[c]
  BY <1>1, <1>2
<1> HIDE DEF q, k, a, b
<1>8. \A i \in 1..m : i \in 1..k
  BY <1>3
<1>9. \A i \in 1..(k - m) : m + i \in 1..k /\ \A j \in 1..m : j < m + i
  BY <1>3
<1>10. \A i \in DOMAIN b : \E j \in DOMAIN q : b[i] = q[j]
  BY <1>3, <1>6, <1>9
<1>11. \A i \in DOMAIN a : \E j \in DOMAIN q : a[i] = q[j]
  BY <1>3, <1>5, <1>8
<1>12. FifoInOrder'
  <2>1. ASSUME NEW c \in Channels
        PROVE  /\ Ordered(fifo'[c])
               /\ \A i \in DOMAIN fifo'[c] : fifo'[c][i].channel = c /\ fifo'[c][i].id <= nextEvent'
    <3>1. CASE c = ch
      <4>1. \A i \in DOMAIN b : b[i].channel = c /\ b[i].id <= nextEvent
        BY <1>4, <1>10, <3>1
      <4> QED
        BY <1>1, <1>6, <1>7, <3>1, <4>1
    <3>2. CASE c # ch
      BY <1>1, <1>7, <3>2 DEF FifoInOrder
    <3> QED
      BY <3>1, <3>2
  <2> QED
    BY <2>1 DEF FifoInOrder
<1>13. ASSUME NEW c \in Channels, NEW id \in Nat, Past(c, id) PROVE Past(c, id)'
  <2>1. CASE c = ch
    <3>1. id <= nextEvent /\ \A j \in DOMAIN q : id < q[j].id
      BY <1>13, <2>1 DEF Past, q
    <3>2. \A i \in DOMAIN b : id < b[i].id
      BY <1>10, <3>1
    <3> QED
      BY <1>1, <1>7, <2>1, <3>1, <3>2 DEF Past
  <2>2. CASE c # ch
    BY <1>1, <1>7, <1>13, <2>2 DEF Past
  <2> QED
    BY <2>1, <2>2
<1>14. ASSUME NEW id, NEW i \in DOMAIN a, id = a[i].id PROVE Past(ch, id)'
  <2>1. i \in DOMAIN q /\ a[i] = q[i]
    BY <1>3, <1>5, <1>8
  <2>2. ASSUME NEW j \in DOMAIN b PROVE id < b[j].id
    <3>1. m + j \in DOMAIN q /\ b[j] = q[m + j] /\ i < m + j
      BY <1>3, <1>5, <1>6, <1>9
    <3> QED
      BY <1>4, <1>14, <2>1, <3>1 DEF Ordered
  <2>3. id \in Nat /\ id <= nextEvent'
    BY <1>1, <1>4, <1>14, <2>1
  <2> QED
    BY <1>7, <2>2, <2>3 DEF Past
<1>15. Ordered(batch') /\ \A i \in DOMAIN batch' : \E j \in DOMAIN fifo[ch] : batch'[i] = fifo[ch][j]
  BY <1>5, <1>7, <1>11 DEF q
<1>16. AllPast(batch)'
  <2>1. \A i \in DOMAIN batch' : batch'[i].channel = ch
    BY <1>4, <1>7, <1>11
  <2>2. \A i \in DOMAIN batch' : \A id : id = batch'[i].id => Past(ch, id)'
    BY <1>7, <1>14
  <2> QED
    BY <2>1, <2>2 DEF AllPast, Past
<1>17. StaysPast
  BY <1>13 DEF StaysPast
<1> QED
  BY <1>12, <1>15, <1>16, <1>17

\* The network numbers its events, and adds each at the end of a queue.
LEMMA ProduceAppends ==
  ASSUME MgrTypeOK, FifoInOrder, NEW ch \in Channels, NEW type \in {"Data"} \cup Signals, Produce(ch, type)
  PROVE  FifoInOrder' /\ StaysPast
<1> DEFINE e == [type |-> type, channel |-> ch, id |-> nextEvent + 1]
           q == fifo[ch]
           k == Len(fifo[ch])
           t == Append(q, e)
<1>1. /\ e \in Event /\ e.channel = ch /\ e.id = nextEvent + 1 /\ nextEvent \in Nat
      /\ fifo' = [fifo EXCEPT ![ch] = t] /\ nextEvent' = nextEvent + 1
      /\ fifo \in [Channels -> Seq(Event)]
  <2>1. e \in Event /\ nextEvent \in Nat
    BY ManagerAssumption DEF Produce, Event, MgrTypeOK
  <2>2. fifo' = [fifo EXCEPT ![ch] = t] /\ nextEvent' = nextEvent + 1 /\ fifo \in [Channels -> Seq(Event)]
    BY DEF Produce, MgrTypeOK
  <2>3. e.channel = ch /\ e.id = nextEvent + 1
    OBVIOUS
  <2> HIDE DEF e
  <2> QED
    BY <2>1, <2>2, <2>3
<1>2. /\ k \in Nat /\ DOMAIN q = 1..k /\ DOMAIN t = 1..(k + 1) /\ t[k + 1] = e
      /\ \A i \in 1..k : t[i] = q[i]
  <2>1. q \in Seq(Event) /\ t \in Seq(Event) /\ Len(t) = k + 1
    BY <1>1, AppendProperties
  <2> QED
    BY <1>1, <2>1, AppendProperties, LenProperties
<1>3. fifo'[ch] = t /\ \A c \in Channels \ {ch} : fifo'[c] = fifo[c]
  BY <1>1
<1>4. \A c \in Channels : \A i \in DOMAIN fifo[c] : fifo[c][i].id \in Nat
  BY <1>1, EventsAreNumbered
<1>5. Ordered(q) /\ \A i \in DOMAIN q : q[i].channel = ch /\ q[i].id <= nextEvent /\ q[i].id \in Nat
  BY <1>4 DEF FifoInOrder
<1> HIDE DEF e, q, k, t
<1>6. \A i \in DOMAIN t : (i = k + 1 /\ t[i] = e) \/ (i \in DOMAIN q /\ t[i] = q[i])
  BY <1>2
<1>7. \A i \in DOMAIN t : t[i].channel = ch /\ t[i].id <= nextEvent + 1
  BY <1>1, <1>5, <1>6
<1>8. ASSUME NEW i \in DOMAIN t, NEW j \in DOMAIN t, i < j PROVE t[i].id < t[j].id
  <2>1. i \in DOMAIN q /\ t[i] = q[i]
    BY <1>2, <1>8
  <2>2. CASE j = k + 1 /\ t[j] = e
    BY <1>1, <1>5, <2>1, <2>2
  <2>3. CASE j \in DOMAIN q /\ t[j] = q[j]
    BY <1>5, <1>8, <2>1, <2>3 DEF Ordered
  <2> QED
    BY <1>6, <2>2, <2>3
<1>9. ASSUME NEW c \in Channels
      PROVE  /\ Ordered(fifo'[c])
             /\ \A i \in DOMAIN fifo'[c] : fifo'[c][i].channel = c /\ fifo'[c][i].id <= nextEvent'
  <2>1. CASE c = ch
    BY <1>1, <1>3, <1>7, <1>8, <2>1 DEF Ordered
  <2>2. CASE c # ch
    <3>1. fifo'[c] = fifo[c]
      BY <1>3, <2>2
    <3>2. \A i \in DOMAIN fifo[c] : fifo[c][i].id <= nextEvent'
      BY <1>1, <1>4 DEF FifoInOrder
    <3> QED
      BY <3>1, <3>2 DEF FifoInOrder
  <2> QED
    BY <2>1, <2>2
<1>10. ASSUME NEW c \in Channels, NEW id \in Nat, Past(c, id) PROVE Past(c, id)'
  <2>1. id <= nextEvent'
    BY <1>1, <1>10 DEF Past
  <2>2. CASE c = ch
    BY <1>1, <1>3, <1>6, <1>10, <2>1, <2>2 DEF Past, q
  <2>3. CASE c # ch
    BY <1>3, <1>10, <2>1, <2>3 DEF Past
  <2> QED
    BY <2>2, <2>3
<1> QED
  BY <1>9, <1>10 DEF FifoInOrder, StaysPast

=============================================================================
