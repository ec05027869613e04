------------------------ MODULE EpicsClientsProofs ------------------------
(***************************************************************************)
(* What a handler receives, for any number of channels, threads, handlers  *)
(* and events: while its token is held every batch that monitor() returned *)
(* since its registration, and the events of one channel in the order the  *)
(* network produced them.                                                  *)
(***************************************************************************)
EXTENDS EpicsClients, EpicsServiceManagerProofs

USE DEF MutexFree, Purged

-----------------------------------------------------------------------------
(* Types and the mutex *)

ClientsTypeOK ==
  /\ MgrTypeOK
  /\ drained \in Seq(Event)
  /\ since \in [Handlers -> Nat]
  /\ received \in [Handlers -> Seq(Event)]

\* A call that is begun, or whose exception is caught.
LEMMA BeginKeeps ==
  ASSUME MgrTypeOK, MgrSafe, NEW t \in Threads, Begin(t) \/ Catch(t)
  PROVE  MgrTypeOK' /\ MgrSafe'
<1>1. PICK to \in {"add", "remove", "out"} :
        callPc[t] \in {"out", "threw"} /\ callPc' = [callPc EXCEPT ![t] = to]
  BY DEF Begin, Catch, CallAdd, CallRemove, CallPc
<1>2. callArg' \in [Threads -> Call] /\ \A u \in Threads \ {t} : callArg'[u] = callArg[u]
  <2>1. CASE Catch(t)
    BY <2>1 DEF Catch, MgrTypeOK
  <2>2. ASSUME NEW ch \in Channels, NEW protocol \in {"pva", "ca"}, CallAdd(t, ch, protocol)
        PROVE  callArg' \in [Threads -> Call] /\ \A u \in Threads \ {t} : callArg'[u] = callArg[u]
    <3>1. [channel |-> ch, protocol |-> protocol] \in Call
      BY DEF Call
    <3> QED
      BY <2>2, <3>1 DEF CallAdd, MgrTypeOK
  <2>3. ASSUME NEW ch \in Channels, CallRemove(t, ch)
        PROVE  callArg' \in [Threads -> Call] /\ \A u \in Threads \ {t} : callArg'[u] = callArg[u]
    <3>1. [callArg[t] EXCEPT !.channel = ch] \in Call
      BY DEF Call, MgrTypeOK
    <3> QED
      BY <2>3, <3>1 DEF CallRemove, MgrTypeOK
  <2> QED
    BY <2>1, <2>2, <2>3 DEF Begin
<1>3. ManagerSame
  BY DEF Begin, Catch
<1>4. MgrTypeOK'
  BY <1>1, <1>2, <1>3 DEF MgrTypeOK, ManagerSame, schedVars
<1>5. \A u \in Threads : callPc'[u] \in {"create", "connect", "start"} <=> callPc[u] \in {"create", "connect", "start"}
  BY <1>1 DEF MgrTypeOK
<1>6. MutexOwner' /\ ScanMeetsStartedChannels'
  BY <1>3, <1>5 DEF MgrSafe, MutexOwner, ScanMeetsStartedChannels, Scanning, ManagerSame, schedVars
<1>7. ASSUME NEW c \in Channels, channelMap'[c] \in {"created", "connected"}
      PROVE  \E u \in Threads : mapMutex' = u /\ callArg'[u].channel = c /\ callPc'[u] \in {"connect", "start"}
  <2>1. PICK u \in Threads : mapMutex = u /\ callArg[u].channel = c /\ callPc[u] \in {"connect", "start"}
    BY <1>3, <1>7 DEF MgrSafe, HalfBuiltIsOwned, ManagerSame
  <2>2. u # t /\ callPc'[u] = callPc[u] /\ callArg'[u] = callArg[u]
    BY <1>1, <1>2, <2>1 DEF MgrTypeOK
  <2> QED
    BY <1>3, <2>1, <2>2 DEF ManagerSame
<1> QED
  BY <1>4, <1>6, <1>7 DEF MgrSafe, HalfBuiltIsOwned

\* The cases of a step that the proofs below distinguish.
LEMMA StepCases ==
  ASSUME [Next]_vars
  PROVE  \/ \E t \in Threads : Begin(t) \/ Catch(t)
         \/ \E t \in Threads : Body(t)
         \/ \E h \in Handlers : Register(h) \/ Drop(h)
         \/ Count \/ Network
         \/ \E ch \in Channels : Poll(ch)
         \/ \E h \in Handlers : Invoke(h)
         \/ SchedOther \/ Delete \/ UNCHANGED vars
BY DEF Next, Scheduler, Finished

ClientsSafe == ClientsTypeOK /\ MgrSafe

LEMMA SafeInit == Init => ClientsSafe
<1> SUFFICES ASSUME Init PROVE ClientsSafe
  OBVIOUS
<1>1. MgrSafe
  BY MgrSafeInit DEF Init
<1>2. Call # {} /\ \A e \in {Event} : <<>> \in Seq(e)
  <2>1. PICK ch \in Channels : TRUE
    BY ManagerAssumption
  <2>2. [channel |-> ch, protocol |-> "pva"] \in Call
    BY DEF Call
  <2> QED
    BY <2>2, EmptySeq
<1>3. MgrTypeOK
  BY <1>2, ManagerAssumption DEF Init, MgrInit, MgrTypeOK, Stages
<1>4. drained \in Seq(Event) /\ since \in [Handlers -> Nat] /\ received \in [Handlers -> Seq(Event)]
  BY <1>2 DEF Init
<1> QED
  BY <1>1, <1>3, <1>4 DEF ClientsSafe, ClientsTypeOK

LEMMA SafeStep == ClientsSafe /\ [Next]_vars => ClientsSafe'
<1> SUFFICES ASSUME ClientsSafe, [Next]_vars PROVE ClientsSafe'
  OBVIOUS
<1> DEFINE Hist == drained' \in Seq(Event) /\ since' \in [Handlers -> Nat] /\ received' \in [Handlers -> Seq(Event)]
<1>1. ASSUME UNCHANGED history PROVE Hist
  BY <1>1 DEF ClientsSafe, ClientsTypeOK, history
<1>2. ASSUME NEW t \in Threads, Begin(t) \/ Catch(t) PROVE ClientsSafe'
  <2>1. Hist
    BY <1>1, <1>2 DEF Begin, Catch, history
  <2> QED
    BY <1>2, <2>1, BeginKeeps DEF ClientsSafe, ClientsTypeOK
<1>3. ASSUME NEW t \in Threads, Body(t) PROVE ClientsSafe'
  <2>1. Hist
    BY <1>1, <1>3 DEF Body, history
  <2> QED
    BY <1>3, <2>1, MgrTypeCall, MgrSafeCall DEF ClientsSafe, ClientsTypeOK, Body
<1>4. ASSUME NEW h \in Handlers, Register(h) \/ Drop(h) PROVE ClientsSafe'
  <2>1. Hist
    <3>1. CASE Drop(h)
      BY <1>1, <3>1 DEF Drop, history
    <3>2. CASE Register(h)
      <4>1. Len(drained) + 1 \in Nat
        BY LenProperties DEF ClientsSafe, ClientsTypeOK
      <4> QED
        BY <3>2, <4>1 DEF Register, ClientsSafe, ClientsTypeOK
    <3> QED
      BY <1>4, <3>1, <3>2
  <2>2. MgrTypeOK' /\ UNCHANGED <<channelMap, mapMutex, callVars, schedPc, toScan>>
    BY <1>4 DEF Register, Drop, AddHandler, ResetToken, ClientsSafe, ClientsTypeOK, MgrTypeOK, callVars, schedVars
  <2> QED
    BY <2>1, <2>2, MgrSafeUnchanged DEF ClientsSafe, ClientsTypeOK
<1>5. CASE Count \/ Delete
  <2>1. Hist
    BY <1>1, <1>5 DEF Count, Delete, history
  <2>2. CASE Count
    <3>1. /\ targets' = targets \cap alive
          /\ UNCHANGED <<run, channelMap, mapMutex, callVars, alive, fifo, nextEvent, schedVars>>
      BY <2>2 DEF Count, GetHandlerSize
    <3>2. MgrTypeOK'
      BY <3>1 DEF ClientsSafe, ClientsTypeOK, MgrTypeOK, callVars, schedVars
    <3> QED
      BY <2>1, <3>1, <3>2, MgrSafeUnchanged DEF ClientsSafe, ClientsTypeOK, schedVars
  <2>3. CASE Delete
    <3>1. /\ run' = FALSE
          /\ UNCHANGED <<channelMap, mapMutex, callVars, targets, alive, fifo, nextEvent, schedVars>>
      BY <2>3 DEF Delete, Destroy
    <3>2. MgrTypeOK'
      BY <3>1 DEF ClientsSafe, ClientsTypeOK, MgrTypeOK, callVars, schedVars
    <3> QED
      BY <2>1, <3>1, <3>2, MgrSafeUnchanged DEF ClientsSafe, ClientsTypeOK, schedVars
  <2> QED
    BY <1>5, <2>2, <2>3
<1>6. CASE Network
  <2>1. PICK ch \in Channels, type \in {"Data"} \cup Signals : Produce(ch, type) /\ UNCHANGED history
    BY <1>6 DEF Network
  <2>2. MgrTypeOK' /\ UNCHANGED <<channelMap, mapMutex, callVars, schedPc, toScan>>
    BY <2>1, MgrTypeProduce DEF ClientsSafe, ClientsTypeOK, Produce, callVars, schedVars
  <2> QED
    BY <1>1, <2>1, <2>2, MgrSafeUnchanged DEF ClientsSafe, ClientsTypeOK
<1>7. ASSUME NEW ch \in Channels, Poll(ch) PROVE ClientsSafe'
  <2>1. MgrTypeOK' /\ MgrSafe'
    BY <1>7, MgrTypeSched, MgrSafeSched DEF ClientsSafe, ClientsTypeOK, Poll, SchedStep
  <2>2. drained \o batch' \in Seq(Event)
    BY <2>1, ConcatProperties DEF ClientsSafe, ClientsTypeOK, MgrTypeOK
  <2> QED
    BY <1>7, <2>1, <2>2 DEF ClientsSafe, ClientsTypeOK, Poll
<1>8. ASSUME NEW h \in Handlers, Invoke(h) PROVE ClientsSafe'
  <2>1. MgrTypeOK' /\ MgrSafe'
    BY <1>8, MgrTypeSched, MgrSafeSched DEF ClientsSafe, ClientsTypeOK, Invoke, SchedStep
  <2>2. received[h] \o batch \in Seq(Event)
    BY ConcatProperties DEF ClientsSafe, ClientsTypeOK, MgrTypeOK
  <2> QED
    BY <1>8, <2>1, <2>2 DEF ClientsSafe, ClientsTypeOK, Invoke
<1>9. CASE SchedOther
  <2>1. Hist
    BY <1>1, <1>9 DEF SchedOther, history
  <2>2. CASE HandlerReturn
    <3>1. MgrTypeOK'
      BY <2>2 DEF HandlerReturn, SchedTo, ClientsSafe, ClientsTypeOK, MgrTypeOK, callVars
    <3> QED
      BY <2>1, <2>2, <3>1, MgrSafeReturn DEF ClientsSafe, ClientsTypeOK
  <2>3. CASE SchedStep
    BY <2>1, <2>3, MgrTypeSched, MgrSafeSched DEF ClientsSafe, ClientsTypeOK
  <2> QED
    BY <1>9, <2>2, <2>3 DEF SchedOther, SchedStep
<1>10. CASE UNCHANGED vars
  <2>1. MgrTypeOK' /\ MgrSafe'
    BY <1>10, MgrSafeUnchanged DEF ClientsSafe, ClientsTypeOK, vars, mgrVars, callVars, schedVars, MgrTypeOK
  <2> QED
    BY <1>1, <1>10, <2>1 DEF vars, ClientsSafe, ClientsTypeOK
<1> QED
  BY <1>2, <1>3, <1>4, <1>5, <1>6, <1>7, <1>8, <1>9, <1>10, StepCases

-----------------------------------------------------------------------------
(* What the handlers have received *)

Delivering == schedPc \in {"deliver", "handler"}

\* The events monitor() had returned before the batch that is being delivered.
Before == IF Delivering THEN Len(drained) - Len(batch) ELSE Len(drained)
Due(h) == IF Delivering /\ h \in toCall THEN Before ELSE Len(drained)

\* The batch that is being delivered is the end of what monitor() returned.
BatchIsLast == Delivering => /\ Len(batch) <= Len(drained)
                             /\ batch = SubSeq(drained, Before + 1, Len(drained))

\* A handler in alive is a target, and only the registered are.
TargetsCover ==
  /\ alive \subseteq targets
  /\ \A h \in Handlers : since[h] = 0 => h \notin targets /\ received[h] = <<>>

Follows(h) == since[h] \in 1..(Before + 1) /\ received[h] = SubSeq(drained, since[h], Due(h))

\* Whatever has become of its token, a handler has a stretch of what monitor()
\* returned.
HasStretch(h) ==
  \E lo \in 1..(Len(drained) + 1) : \E hi \in (lo - 1)..Len(drained) :
    received[h] = SubSeq(drained, lo, hi)

Fanned ==
  /\ BatchIsLast /\ TargetsCover
  /\ \A h \in alive : Follows(h)
  /\ \A h \in Handlers : HasStretch(h)

LEMMA FannedInit == Init => Fanned
<1> SUFFICES ASSUME Init PROVE Fanned
  OBVIOUS
<1>1. alive = {} /\ targets = {} /\ schedPc = "sleep" /\ drained = <<>> /\ \A h \in Handlers : received[h] = <<>>
  BY DEF Init, MgrInit
<1>2. Len(drained) = 0 /\ SubSeq(drained, 1, 0) = <<>>
  BY <1>1, EmptySeq, SubSeqEmpty
<1>3. \A h \in Handlers : HasStretch(h)
  <2>1. 1 \in 1..(Len(drained) + 1) /\ 0 \in (1 - 1)..Len(drained)
    BY <1>2
  <2> QED
    BY <1>1, <1>2, <2>1 DEF HasStretch
<1> QED
  BY <1>1, <1>3 DEF Fanned, BatchIsLast, TargetsCover, Delivering

\* Steps that read no event and call no handler.
LEMMA FannedSame ==
  ASSUME Fanned, UNCHANGED <<drained, since, received, batch>>,
         Delivering' <=> Delivering,
         alive' \subseteq alive, alive' \subseteq targets', targets' \subseteq targets,
         Delivering => alive' \cap toCall' = alive' \cap toCall
  PROVE  Fanned'
<1>1. Before' = Before
  BY DEF Before
<1>2. BatchIsLast' /\ TargetsCover'
  BY <1>1 DEF Fanned, BatchIsLast, TargetsCover
<1>3. \A h \in alive' : Due(h)' = Due(h)
  BY <1>1 DEF Due
<1>4. \A h \in alive' : Follows(h)'
  BY <1>1, <1>3 DEF Fanned, Follows
<1>5. \A h \in Handlers : HasStretch(h)'
  BY DEF Fanned, HasStretch
<1> QED
  BY <1>2, <1>4, <1>5 DEF Fanned

LEMMA FannedRegister ==
  ASSUME ClientsSafe, Fanned, NEW h \in Handlers, Register(h)
  PROVE  Fanned'
<1>1. /\ ~Delivering /\ ~Delivering' /\ since[h] = 0 /\ since' = [since EXCEPT ![h] = Len(drained) + 1]
      /\ targets' = targets \cup {h} /\ alive' = alive \cup {h}
      /\ UNCHANGED <<drained, received>>
  <2>1. /\ mapMutex = "free" /\ since[h] = 0 /\ since' = [since EXCEPT ![h] = Len(drained) + 1]
        /\ targets' = targets \cup {h} /\ alive' = alive \cup {h}
        /\ UNCHANGED <<drained, received, schedPc>>
    BY DEF Register, AddHandler, schedVars
  <2>2. ~Scanning
    BY <2>1 DEF ClientsSafe, MgrSafe, MutexOwner
  <2>3. ~Delivering /\ ~Delivering'
    BY <2>1, <2>2 DEF Scanning, Delivering
  <2> QED
    BY <2>1, <2>3
<1>2. Len(drained) \in Nat /\ since \in [Handlers -> Nat]
  BY LenProperties DEF ClientsSafe, ClientsTypeOK
<1>3. Before = Len(drained) /\ Before' = Len(drained) /\ \A g \in Handlers : Due(g) = Len(drained) /\ Due(g)' = Len(drained)
  BY <1>1 DEF Before, Due
<1>4. BatchIsLast' /\ TargetsCover'
  <2>1. \A g \in Handlers : since'[g] = 0 => g # h /\ since[g] = 0
    BY <1>1, <1>2
  <2> QED
    BY <1>1, <2>1 DEF Fanned, BatchIsLast, TargetsCover
<1>5. received[h] = SubSeq(drained, Len(drained) + 1, Len(drained))
  <2>1. received[h] = <<>>
    BY <1>1 DEF Fanned, TargetsCover
  <2>2. SubSeq(drained, Len(drained) + 1, Len(drained)) = <<>>
    BY <1>2, SubSeqEmpty
  <2> QED
    BY <2>1, <2>2
<1>6. ASSUME NEW g \in alive' PROVE Follows(g)'
  <2>1. CASE g = h
    <3>1. since'[h] = Len(drained) + 1
      BY <1>1, <1>2
    <3>2. since'[h] \in 1..(Len(drained) + 1)
      BY <1>2, <3>1
    <3> QED
      BY <1>1, <1>3, <1>5, <2>1, <3>1, <3>2 DEF Follows
  <2>2. CASE g # h
    <3>1. g \in alive /\ g \in Handlers /\ since'[g] = since[g]
      BY <1>1, <1>2, <2>2 DEF ClientsSafe, ClientsTypeOK, MgrTypeOK
    <3> QED
      BY <1>1, <1>3, <3>1 DEF Fanned, Follows
  <2> QED
    BY <2>1, <2>2
<1>7. \A g \in Handlers : HasStretch(g)'
  BY <1>1 DEF Fanned, HasStretch
<1> QED
  BY <1>4, <1>6, <1>7 DEF Fanned

\* A poll adds a batch at the end; with targets, all of them are still to be
\* called with it.
LEMMA FannedPoll ==
  ASSUME ClientsSafe, Fanned, ClientsSafe', NEW ch \in Channels, Poll(ch)
  PROVE  Fanned'
<1> DEFINE n == Len(drained)
           k == Len(batch')
<1>1. /\ schedPc = "scan" /\ drained' = drained \o batch'
      /\ \/ schedPc' = "scan" /\ UNCHANGED targets /\ (batch' = <<>> \/ targets = {})
         \/ schedPc' = "deliver" /\ targets' = targets \cap alive /\ toCall' = targets \cap alive
      /\ UNCHANGED <<alive, since, received>>
  <2>1. PICK m \in 0..Len(fifo[ch]) :
          /\ batch' = SubSeq(fifo[ch], 1, m)
          /\ IF m = 0 \/ targets = {}
             THEN SchedTo("scan", "scan") /\ UNCHANGED <<targets, toCall>>
             ELSE /\ SchedTo("scan", "deliver")
                  /\ targets' = Purged
                  /\ toCall' = Purged
    BY DEF Poll, SchedPoll
  <2>2. m = 0 => batch' = <<>>
    BY <2>1, SubSeqEmpty
  <2>3. drained' = drained \o batch' /\ UNCHANGED <<alive, since, received>>
    BY DEF Poll, SchedPoll
  <2>4. CASE m = 0 \/ targets = {}
    BY <2>1, <2>2, <2>3, <2>4 DEF SchedTo
  <2>5. CASE ~(m = 0 \/ targets = {})
    BY <2>1, <2>3, <2>5 DEF SchedTo
  <2> QED
    BY <2>4, <2>5
<1>2. /\ drained \in Seq(Event) /\ batch' \in Seq(Event)
      /\ n \in Nat /\ k \in Nat /\ Len(drained') = n + k
      /\ batch' = SubSeq(drained', n + 1, n + k)
  <2>1. drained \in Seq(Event) /\ batch' \in Seq(Event)
    BY DEF ClientsSafe, ClientsTypeOK, MgrTypeOK
  <2> QED
    BY <1>1, <2>1, StretchAdded
<1>3. \A lo \in 1..(n + 1) : \A hi \in (lo - 1)..n : SubSeq(drained', lo, hi) = SubSeq(drained, lo, hi)
  BY <1>1, <1>2, StretchKept
<1>4. Before = n /\ \A h \in Handlers : Due(h) = n
  BY <1>1 DEF Before, Due, Delivering
<1> HIDE DEF n, k
<1>5. ASSUME NEW h \in Handlers PROVE HasStretch(h)'
  <2>1. PICK lo \in 1..(n + 1) : \E hi \in (lo - 1)..n : received[h] = SubSeq(drained, lo, hi)
    BY DEF Fanned, HasStretch, n
  <2>2. PICK hi \in (lo - 1)..n : received[h] = SubSeq(drained, lo, hi)
    BY <2>1
  <2>3. lo \in 1..(n + k + 1) /\ hi \in (lo - 1)..(n + k) /\ received'[h] = SubSeq(drained', lo, hi)
    BY <1>1, <1>2, <1>3, <2>2
  <2> QED
    BY <1>2, <2>3 DEF HasStretch
<1>6. CASE schedPc' = "deliver" /\ targets' = targets \cap alive /\ toCall' = targets \cap alive
  <2>1. Delivering' /\ Before' = n
    <3>1. Delivering'
      BY <1>6 DEF Delivering
    <3>2. Before' = Len(drained') - Len(batch')
      BY <3>1 DEF Before
    <3> QED
      BY <1>2, <3>1, <3>2 DEF k
  <2>2. BatchIsLast' /\ TargetsCover'
    BY <1>1, <1>2, <1>6, <2>1 DEF Fanned, BatchIsLast, TargetsCover, k
  <2>3. ASSUME NEW h \in alive' PROVE Follows(h)'
    <3>1. h \in alive /\ h \in targets /\ h \in Handlers /\ Due(h)' = n
      BY <1>1, <1>6, <2>1 DEF Fanned, TargetsCover, Due, ClientsSafe, ClientsTypeOK, MgrTypeOK
    <3>2. since[h] \in 1..(n + 1) /\ received[h] = SubSeq(drained, since[h], n)
      BY <1>4, <3>1 DEF Fanned, Follows
    <3>3. n \in (since[h] - 1)..n
      BY <1>2, <3>2
    <3> QED
      BY <1>1, <1>3, <2>1, <3>1, <3>2, <3>3 DEF Follows
  <2> QED
    BY <1>5, <2>2, <2>3 DEF Fanned
<1>7. CASE schedPc' = "scan" /\ UNCHANGED targets /\ (batch' = <<>> \/ targets = {})
  <2>1. ~Delivering'
    BY <1>7 DEF Delivering
  <2>2. BatchIsLast' /\ TargetsCover'
    BY <1>1, <1>7, <2>1 DEF Fanned, BatchIsLast, TargetsCover
  <2>3. ASSUME NEW h \in alive' PROVE Follows(h)'
    <3>1. h \in alive /\ h \in Handlers /\ batch' = <<>>
      BY <1>1, <1>7 DEF Fanned, TargetsCover, ClientsSafe, ClientsTypeOK, MgrTypeOK
    <3>2. drained' = drained
      BY <1>1, <1>2, <3>1, ConcatEmptySeq
    <3>3. Before' = n /\ Due(h)' = n
      BY <2>1, <3>2 DEF Before, Due, n
    <3> QED
      BY <1>1, <1>4, <3>1, <3>2, <3>3 DEF Fanned, Follows
  <2> QED
    BY <1>5, <2>2, <2>3 DEF Fanned
<1> QED
  BY <1>1, <1>6, <1>7

\* The handler that is called gets the batch behind what it has.
LEMMA FannedInvoke ==
  ASSUME ClientsSafe, Fanned, NEW h \in Handlers, Invoke(h)
  PROVE  Fanned'
<1> DEFINE n == Len(drained)
           b == Before
<1>1. /\ Delivering /\ Delivering' /\ h \in toCall /\ h \in alive /\ toCall' = toCall \ {h}
      /\ received' = [received EXCEPT ![h] = @ \o batch]
      /\ UNCHANGED <<alive, targets, batch, drained, since>>
  BY DEF Invoke, SchedCall, SchedTo, Delivering
<1>2. drained \in Seq(Event) /\ batch \in Seq(Event) /\ n \in Nat /\ Len(batch) \in Nat
      /\ received \in [Handlers -> Seq(Event)]
  BY LenProperties DEF ClientsSafe, ClientsTypeOK, MgrTypeOK
<1>3. b \in 0..n /\ batch = SubSeq(drained, b + 1, n)
  BY <1>1, <1>2 DEF Fanned, BatchIsLast, Before
<1>4. since[h] \in 1..(b + 1) /\ received[h] = SubSeq(drained, since[h], b)
  BY <1>1 DEF Fanned, Follows, Due
<1>5. received'[h] = SubSeq(drained, since[h], n)
  <2>1. since[h] \in 1..(n + 1) /\ b \in (since[h] - 1)..n /\ n \in b..n
    <3> HIDE DEF n, b
    <3> QED
      BY <1>2, <1>3, <1>4
  <2>2. SubSeq(drained, since[h], b) \o SubSeq(drained, b + 1, n) = SubSeq(drained, since[h], n)
    <3> HIDE DEF b
    <3> QED
      BY <1>2, <2>1, ConcatAdjacentSubSeq
  <2> QED
    BY <1>1, <1>2, <1>3, <1>4, <2>2
<1>6. Before' = b
  BY <1>1 DEF Before
<1>7. BatchIsLast' /\ TargetsCover'
  <2>1. \A g \in Handlers : since'[g] = 0 => g # h
    BY <1>1 DEF Fanned, TargetsCover
  <2> QED
    BY <1>1, <1>2, <1>6, <2>1 DEF Fanned, BatchIsLast, TargetsCover
<1> HIDE DEF n, b
<1>8. ASSUME NEW g \in alive' PROVE Follows(g)'
  <2>1. CASE g = h
    <3>1. Due(h)' = n
      BY <1>1 DEF Due, n
    <3> QED
      BY <1>1, <1>4, <1>5, <1>6, <2>1, <3>1 DEF Follows
  <2>2. CASE g # h
    <3>1. g \in alive /\ g \in Handlers /\ received'[g] = received[g] /\ since'[g] = since[g]
      BY <1>1, <1>2, <2>2 DEF ClientsSafe, ClientsTypeOK, MgrTypeOK
    <3>2. Due(g)' = Due(g)
      BY <1>1, <1>6, <2>2 DEF Due, b
    <3> QED
      BY <1>1, <1>6, <3>1, <3>2 DEF Fanned, Follows, b
  <2> QED
    BY <2>1, <2>2
<1>9. ASSUME NEW g \in Handlers PROVE HasStretch(g)'
  <2>1. CASE g = h
    <3>1. since[h] \in 1..(n + 1) /\ n \in (since[h] - 1)..n
      BY <1>2, <1>3, <1>4
    <3> QED
      BY <1>1, <1>5, <2>1, <3>1 DEF HasStretch, n
  <2>2. CASE g # h
    <3>1. received'[g] = received[g]
      BY <1>1, <1>2, <2>2
    <3> QED
      BY <1>1, <3>1 DEF Fanned, HasStretch
  <2> QED
    BY <2>1, <2>2
<1> QED
  BY <1>7, <1>8, <1>9 DEF Fanned

\* Once all have been called, the batch is part of what they have.
LEMMA FannedEnd ==
  ASSUME ClientsSafe, Fanned, SchedEndBroadcast, UNCHANGED <<calls, history>>
  PROVE  Fanned'
<1>1. /\ Delivering /\ ~Delivering' /\ toCall = {}
      /\ UNCHANGED <<alive, targets, batch, drained, since, received>>
  BY DEF SchedEndBroadcast, SchedTo, Delivering, history
<1>2. Len(drained) \in Nat /\ Len(batch) \in Nat
  BY LenProperties DEF ClientsSafe, ClientsTypeOK, MgrTypeOK
<1>3. Before <= Len(drained) /\ Before \in Int /\ Before' = Len(drained)
  BY <1>1, <1>2 DEF Before
<1>4. \A h \in alive : Due(h) = Len(drained) /\ Due(h)' = Len(drained)
  BY <1>1 DEF Due
<1>5. BatchIsLast' /\ TargetsCover'
  BY <1>1 DEF Fanned, BatchIsLast, TargetsCover
<1>6. ASSUME NEW h \in alive' PROVE Follows(h)'
  BY <1>1, <1>2, <1>3, <1>4 DEF Fanned, Follows
<1>7. \A h \in Handlers : HasStretch(h)'
  BY <1>1 DEF Fanned, HasStretch
<1> QED
  BY <1>5, <1>6, <1>7 DEF Fanned

LEMMA FannedStep == ClientsSafe /\ Fanned /\ [Next]_vars => Fanned'
<1> SUFFICES ASSUME ClientsSafe, Fanned, [Next]_vars PROVE Fanned'
  OBVIOUS
<1>0. alive \subseteq targets
  BY DEF Fanned, TargetsCover
<1>1. ASSUME NEW t \in Threads, Begin(t) \/ Catch(t) \/ Body(t) PROVE Fanned'
  <2>1. UNCHANGED <<drained, since, received, batch, schedPc, alive, targets, toCall>>
    BY <1>1 DEF Begin, Catch, Body, CallStep, AddLock, AddCreate, AddConnect, AddStart, AddThrow,
       RemoveChannel, ManagerSame, schedVars, history
  <2> QED
    BY <1>0, <2>1, FannedSame DEF Delivering
<1>2. ASSUME NEW h \in Handlers, Drop(h) PROVE Fanned'
  BY <1>0, <1>2, FannedSame DEF Drop, ResetToken, schedVars, history, Delivering
<1>3. CASE Count \/ Network \/ Delete \/ UNCHANGED vars
  <2>1. /\ UNCHANGED <<drained, since, received, batch, schedPc, alive, toCall>>
        /\ targets' = targets \/ targets' = targets \cap alive
    <3>1. CASE Count
      BY <3>1 DEF Count, GetHandlerSize, schedVars, history
    <3>2. CASE Network
      BY <3>2 DEF Network, Produce, schedVars, history
    <3>3. CASE Delete
      BY <3>3 DEF Delete, Destroy, schedVars, history
    <3>4. CASE UNCHANGED vars
      BY <3>4 DEF schedVars, history, vars, mgrVars
    <3> QED
      BY <1>3, <3>1, <3>2, <3>3, <3>4
  <2> QED
    BY <1>0, <2>1, FannedSame DEF Delivering
<1>4. CASE SchedOther
  <2>1. CASE SchedEndBroadcast
    BY <1>4, <2>1, FannedEnd DEF SchedOther
  <2>2. ASSUME NEW h \in Handlers, SchedSkip(h) PROVE Fanned'
    <3>1. /\ UNCHANGED <<drained, since, received, batch, schedPc, alive, targets>>
          /\ alive \cap toCall' = alive \cap toCall
      BY <1>4, <2>2 DEF SchedOther, SchedSkip, SchedTo, history
    <3> QED
      BY <1>0, <3>1, FannedSame DEF Delivering
  <2>3. CASE SchedLock \/ HandlerReturn \/ SchedUnlock \/ SchedExit
    <3>1. /\ UNCHANGED <<drained, since, received, batch, alive, targets, toCall>>
          /\ Delivering' <=> Delivering
      BY <1>4, <2>3 DEF SchedOther, SchedLock, HandlerReturn, SchedUnlock, SchedExit, SchedTo, history, Delivering
    <3> QED
      BY <1>0, <3>1, FannedSame
  <2> QED
    BY <1>4, <2>1, <2>2, <2>3 DEF SchedOther
<1>5. ASSUME NEW ch \in Channels, Poll(ch) PROVE Fanned'
  BY <1>5, SafeStep, FannedPoll
<1> QED
  BY <1>1, <1>2, <1>3, <1>4, <1>5, FannedRegister, FannedInvoke, StepCases

\* A handler whose token is held has, between two broadcasts, exactly what
\* monitor() returned since its registration.
THEOREM LiveHandlersAlwaysMissNothing == Spec => []LiveHandlersMissNothing
<1>1. Fanned => LiveHandlersMissNothing
  BY DEF Fanned, Follows, Due, Delivering, LiveHandlersMissNothing
<1> QED
  BY <1>1, SafeInit, SafeStep, FannedInit, FannedStep, PTL DEF Spec

-----------------------------------------------------------------------------
(* The order of the events of a channel *)

InOrder == FifoInOrder /\ Ordered(drained) /\ AllPast(drained)

LEMMA OrderInit == Init => InOrder
<1> SUFFICES ASSUME Init PROVE InOrder
  OBVIOUS
<1>1. DOMAIN drained = {} /\ \A ch \in Channels : DOMAIN fifo[ch] = {}
  BY EmptySeq DEF Init, MgrInit
<1> QED
  BY <1>1 DEF InOrder, FifoInOrder, Ordered, AllPast

\* A poll moves the head of a queue to the end of what was drained.
LEMMA OrderPoll ==
  ASSUME ClientsSafe, InOrder, NEW ch \in Channels, Poll(ch)
  PROVE  InOrder'
<1>1. MgrTypeOK /\ MgrTypeOK' /\ FifoInOrder /\ SchedPoll(ch) /\ drained' = drained \o batch'
  BY MgrTypeSched DEF ClientsSafe, ClientsTypeOK, InOrder, Poll, SchedStep
<1>2. /\ FifoInOrder' /\ Ordered(batch') /\ AllPast(batch)' /\ StaysPast
      /\ \A i \in DOMAIN batch' : \E j \in DOMAIN fifo[ch] : batch'[i] = fifo[ch][j]
  BY <1>1, PollMoves
<1>3. drained \in Seq(Event) /\ batch' \in Seq(Event) /\ Ordered(drained) /\ AllPast(drained)
  BY <1>1 DEF ClientsSafe, ClientsTypeOK, MgrTypeOK, InOrder
<1>4. Ordered(drained')
  <2>1. Older(drained, batch')
    <3>1. ASSUME NEW i \in DOMAIN drained, NEW j \in DOMAIN batch', drained[i].channel = batch'[j].channel
          PROVE  drained[i].id < batch'[j].id
      <4>1. PICK n \in DOMAIN fifo[ch] : batch'[j] = fifo[ch][n]
        BY <1>2
      <4>2. Past(drained[i].channel, drained[i].id) /\ drained[i].channel = ch
        BY <1>1, <1>3, <3>1, <4>1 DEF FifoInOrder, AllPast
      <4> QED
        BY <4>1, <4>2 DEF Past
    <3> QED
      BY <3>1 DEF Older
  <2> QED
    BY <1>1, <1>2, <1>3, <2>1, OrderedConcat
<1>5. AllPast(drained)'
  <2>1. ASSUME NEW i \in DOMAIN drained'
        PROVE  \E c \in Channels, id \in Nat : drained'[i].channel = c /\ drained'[i].id = id /\ Past(c, id)'
    <3>1. CASE i \in DOMAIN drained /\ drained'[i] = drained[i]
      <4>1. PICK c, id : c = drained[i].channel /\ id = drained[i].id
        OBVIOUS
      <4>2. c \in Channels /\ Past(c, id)
        BY ONLY <1>3, <3>1, <4>1 DEF AllPast
      <4>3. id \in Nat
        BY ONLY <4>2 DEF Past
      <4>4. Past(c, id)'
        BY ONLY <1>2, <4>2, <4>3 DEF StaysPast
      <4> QED
        BY ONLY <3>1, <4>1, <4>2, <4>3, <4>4
    <3>2. CASE \E j \in DOMAIN batch' : drained'[i] = batch'[j]
      <4>1. PICK j \in DOMAIN batch' : drained'[i] = batch'[j]
        BY <3>2
      <4>2. PICK c, id : c = batch'[j].channel /\ id = batch'[j].id
        OBVIOUS
      <4>3. c \in Channels /\ Past(c, id)'
        BY ONLY <1>2, <4>2 DEF AllPast, Past
      <4>4. id \in Nat
        BY ONLY <4>3 DEF Past
      <4> QED
        BY ONLY <4>1, <4>2, <4>3, <4>4
    <3> QED
      BY <1>1, <1>3, <3>1, <3>2, ConcatElements
  <2> QED
    BY <2>1 DEF AllPast, Past
<1> QED
  BY <1>2, <1>4, <1>5 DEF InOrder

\* Every other step leaves what was drained alone.
LEMMA OrderSame ==
  ASSUME InOrder, drained' = drained, FifoInOrder', StaysPast
  PROVE  InOrder'
BY DEF InOrder, AllPast, StaysPast, Past

LEMMA OrderStep == ClientsSafe /\ InOrder /\ [Next]_vars => InOrder'
<1> SUFFICES ASSUME ClientsSafe, InOrder, [Next]_vars PROVE InOrder'
  OBVIOUS
<1>0. MgrTypeOK /\ FifoInOrder
  BY DEF ClientsSafe, ClientsTypeOK, InOrder
<1>1. ASSUME NEW t \in Threads, Body(t) PROVE InOrder'
  BY <1>0, <1>1, CallEmpties, OrderSame DEF Body, history
<1>2. CASE UNCHANGED <<drained, nextEvent, fifo>>
  BY <1>0, <1>2, FifoKept, OrderSame
<1>3. ASSUME NEW t \in Threads, Begin(t) \/ Catch(t) PROVE InOrder'
  BY <1>2, <1>3 DEF Begin, Catch, ManagerSame, history
<1>4. ASSUME NEW h \in Handlers, Register(h) \/ Drop(h) \/ Invoke(h) PROVE InOrder'
  BY <1>2, <1>4 DEF Register, Drop, Invoke, AddHandler, ResetToken, SchedCall, history
<1>5. CASE Count \/ SchedOther \/ Delete \/ UNCHANGED vars
  BY <1>2, <1>5 DEF Count, GetHandlerSize, SchedOther, SchedLock, SchedSkip, HandlerReturn, SchedEndBroadcast,
     SchedUnlock, SchedExit, Delete, Destroy, history, vars, mgrVars
<1>6. CASE Network
  BY <1>0, <1>6, ProduceAppends, OrderSame DEF Network, history
<1> QED
  BY <1>1, <1>3, <1>4, <1>5, <1>6, OrderPoll, StepCases

\* The events of a channel reach a handler in the order the network produced
\* them, whatever happens to the channel's subscription and to the token.
THEOREM ChannelOrderAlwaysKept == Spec => []ChannelOrderKept
<1>1. ASSUME ClientsSafe, Fanned, InOrder PROVE ChannelOrderKept
  <2>1. ASSUME NEW h \in Handlers PROVE Ordered(received[h])
    <3>1. PICK lo \in 1..(Len(drained) + 1) : \E hi \in (lo - 1)..Len(drained) : received[h] = SubSeq(drained, lo, hi)
      BY <1>1 DEF Fanned, HasStretch
    <3>2. PICK hi \in (lo - 1)..Len(drained) : received[h] = SubSeq(drained, lo, hi)
      BY <3>1
    <3> QED
      BY <1>1, <3>2, OrderedStretch DEF ClientsSafe, ClientsTypeOK, InOrder
  <2> QED
    BY <2>1 DEF ChannelOrderKept, Ordered
<1>2. ClientsSafe /\ Fanned /\ InOrder => ChannelOrderKept
  BY <1>1
<1> QED
  BY <1>2, SafeInit, SafeStep, FannedInit, FannedStep, OrderInit, OrderStep, PTL DEF Spec

=============================================================================
