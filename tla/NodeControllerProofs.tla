------------------------ MODULE NodeControllerProofs ------------------------
(***************************************************************************)
(* What holds of the way of a command for every topic, batch size and      *)
(* number of crashes: the types, the offsets and the batch (Placed), that  *)
(* a committed message was looked at or was in a batch an exception has    *)
(* ended, that no message is submitted twice between two starts, that the  *)
(* table holds all the pool works on (TableInv), that a process that is    *)
(* stopped has carried out what it took, and that all of it implements     *)
(* CommandTopic.                                                           *)
(***************************************************************************)
EXTENDS NodeController, SequenceTheorems, TLAPS

-----------------------------------------------------------------------------
(* The inductive invariants *)

\* Offsets and the batch: no offset is past the log, and the batch is the
\* stretch of the log that ends at the position.
Base == position - Len(batch)

OffsetsInLog ==
  /\ committed <= Len(log) /\ position <= Len(log)
  /\ \A i \in DOMAIN requested : requested[i] <= Len(log)
  /\ \A m \in due : m <= Len(log)
  /\ committed = None => due = {}

BatchIsStretch ==
  /\ position = None => batch = <<>>
  /\ position # None => Len(batch) <= position
  /\ \A i \in DOMAIN batch : batch[i] = Base + i

\* What each phase of consume() has in its vectors.
Phases ==
  /\ pc \in {"down", "loop", "stopped"} => batch = <<>>
  /\ pc \in {"down", "loop", "fetch", "stopped"} => commands = <<>>
  /\ pc = "down" => position = None /\ requested = <<>>
  /\ pc \in {"parse", "store", "submit", "commit"} => batch # <<>>
  /\ pc \in {"store", "submit"} => next <= Len(commands)

Placed == TypeOK /\ OffsetsInLog /\ BatchIsStretch /\ Phases

-----------------------------------------------------------------------------
\* The facts about sequences that the steps below need.
LEMMA AppendFacts ==
  ASSUME NEW S, NEW s \in Seq(S), NEW x \in S
  PROVE  /\ Append(s, x) \in Seq(S) /\ Len(Append(s, x)) = Len(s) + 1
         /\ Append(s, x)[Len(s) + 1] = x
         /\ \A i \in 1..Len(s) : Append(s, x)[i] = s[i]
         /\ DOMAIN s = 1..Len(s) /\ DOMAIN Append(s, x) = 1..(Len(s) + 1)
         /\ Len(s) \in Nat /\ Append(s, x) # <<>>
BY AppendProperties, LenProperties

LEMMA TailFacts ==
  ASSUME NEW S, NEW s \in Seq(S), s # <<>>
  PROVE  /\ Head(s) \in S /\ Tail(s) \in Seq(S) /\ Head(s) = s[1]
         /\ Len(Tail(s)) = Len(s) - 1 /\ Len(s) \in Nat \ {0}
         /\ DOMAIN s = 1..Len(s) /\ DOMAIN Tail(s) = 1..(Len(s) - 1)
         /\ \A i \in 1..(Len(s) - 1) : Tail(s)[i] = s[i + 1]
BY HeadTailProperties, LenProperties, EmptySeq

LEMMA EmptyFacts ==
  ASSUME NEW S, NEW s \in Seq(S)
  PROVE  /\ <<>> \in Seq(S) /\ Len(<<>>) = 0 /\ DOMAIN <<>> = {}
         /\ Len(s) \in Nat /\ DOMAIN s = 1..Len(s) /\ (s = <<>> <=> Len(s) = 0)
BY EmptySeq, LenProperties

-----------------------------------------------------------------------------
(* Types and placement *)

LEMMA PlacedInit == Init => Placed
<1> SUFFICES ASSUME Init PROVE Placed
  OBVIOUS
<1>1. \A S : <<>> \in Seq(S)
  BY EmptySeq
<1>a. Len(<<>>) = 0 /\ DOMAIN <<>> = {}
  BY EmptySeq
<1>b. log = <<>> /\ batch = <<>> /\ requested = <<>>
  BY DEF Init, ConsumerInit
<1>2. TypeOK
  <2>1. /\ log \in Seq(Payloads) /\ requested \in Seq(Offset) /\ batch \in Seq(Message)
        /\ commands \in Seq([message : Message, command : Command])
        /\ rows \in Seq(Row) /\ tasks \in Seq(Message) /\ submitted \in Seq(Message)
    BY ONLY Init, <1>1 DEF Init, ConsumerInit
  <2>2. Len(log) = 0
    BY ONLY <1>b, <1>a
  <2>3. Len(log) <= MaxMessages /\ 0 \in Offset /\ 0 \in 0..MaxCrashes
    BY ONLY <2>2, ConsumerAssumption DEF ConsumerAssumption, Offset
  <2>4. /\ committed \in {None, 0} /\ position = None /\ pc = "down" /\ run = FALSE
        /\ next = 1 /\ crashes = 0 /\ due = {} /\ settled = {} /\ performed = {}
        /\ dropped = {} /\ lost = {}
    BY ONLY Init DEF Init, ConsumerInit
  <2>5. next \in Nat \ {0}
    BY ONLY <2>4
  <2> QED
    BY ONLY <2>1, <2>3, <2>4, <2>5, Zenon DEF TypeOK, ConsumerTypeOK
<1>3. /\ committed \in {-1, 0} /\ position = -1 /\ pc = "down" /\ due = {}
      /\ Len(log) = 0 /\ Len(batch) = 0 /\ DOMAIN requested = {} /\ DOMAIN batch = {}
      /\ batch = <<>> /\ commands = <<>> /\ requested = <<>>
  BY ONLY Init, <1>a DEF Init, ConsumerInit, None
<1>4. OffsetsInLog
  BY ONLY <1>3 DEF OffsetsInLog
<1>5. BatchIsStretch
  BY ONLY <1>3 DEF BatchIsStretch, None
<1>6. Phases
  BY ONLY <1>3 DEF Phases, None
<1> QED
  BY <1>2, <1>4, <1>5, <1>6 DEF Placed

\* What a placed state says in plain terms.
LEMMA PlacedFacts ==
  ASSUME Placed
  PROVE  /\ Len(log) \in Nat /\ Len(log) <= MaxMessages /\ MaxMessages \in Nat
         /\ Len(batch) \in Nat /\ DOMAIN batch = 1..Len(batch)
         /\ Len(commands) \in Nat /\ DOMAIN commands = 1..Len(commands)
         /\ DOMAIN requested = 1..Len(requested) /\ Len(requested) \in Nat
         /\ position \in Int /\ committed \in Int /\ next \in Nat \ {0}
         /\ \A i \in DOMAIN requested : requested[i] \in Nat
         /\ \A i \in DOMAIN batch : batch[i] \in 1..Len(log)
         /\ \A i \in DOMAIN batch : log[batch[i]] \in Payloads
         /\ \A m \in due : m \in Nat \ {0}
         /\ Base \in Int
<1> USE DEF Placed
<1>1. /\ log \in Seq(Payloads) /\ Len(log) <= MaxMessages
      /\ batch \in Seq(Message) /\ requested \in Seq(Offset)
      /\ commands \in Seq([message : Message, command : Command])
      /\ position \in Offset \cup {None} /\ committed \in Offset \cup {None}
      /\ due \in SUBSET Message /\ next \in Nat \ {0}
  BY DEF TypeOK, ConsumerTypeOK
<1>2. Len(log) \in Nat /\ Len(batch) \in Nat /\ Len(requested) \in Nat /\ Len(commands) \in Nat
  BY ONLY <1>1, LenProperties
<1>3. /\ DOMAIN log = 1..Len(log) /\ DOMAIN batch = 1..Len(batch)
      /\ DOMAIN commands = 1..Len(commands) /\ DOMAIN requested = 1..Len(requested)
  BY ONLY <1>1, LenProperties
<1>4. \A i \in DOMAIN batch : batch[i] \in Message
  BY ONLY <1>1, LenProperties
<1>5. \A i \in DOMAIN requested : requested[i] \in Offset
  BY ONLY <1>1, LenProperties
<1>6. position \in Int /\ committed \in Int /\ MaxMessages \in Nat
  BY ONLY <1>1, ConsumerAssumption DEF Offset, None
<1>7. \A i \in DOMAIN batch : batch[i] \in 1..Len(log)
  BY ONLY <1>2, <1>3, <1>4, <1>6, BatchIsStretch, OffsetsInLog
     DEF BatchIsStretch, OffsetsInLog, Base, Message
<1>8. \A i \in 1..Len(log) : log[i] \in Payloads
  BY ONLY <1>1, LenProperties
<1> QED
  BY ONLY <1>1, <1>2, <1>3, <1>5, <1>6, <1>7, <1>8 DEF Message, Offset, Base

LEMMA LostIsMessages ==
  ASSUME Placed
  PROVE  LostNow \in SUBSET Message
<1>1. tasks \in Seq(Message) /\ lost \in SUBSET Message
  BY DEF Placed, TypeOK
<1>2. \A i \in DOMAIN tasks : tasks[i] \in Message
  BY ONLY <1>1, LenProperties
<1> QED
  BY ONLY <1>1, <1>2 DEF LostNow, Range

LEMMA PlacedStep == Placed /\ [Next]_vars => Placed'
<1> SUFFICES ASSUME Placed, [Next]_vars PROVE Placed'
  OBVIOUS
<1> USE DEF Placed, TypeOK, ConsumerTypeOK, nodeVars, brokerVars, threadVars
<1>e. Len(<<>>) = 0 /\ DOMAIN <<>> = {}
  BY EmptySeq
<1>s. \A S : <<>> \in Seq(S)
  BY EmptySeq
<1>f. /\ Len(log) \in Nat /\ Len(batch) \in Nat /\ DOMAIN batch = 1..Len(batch)
      /\ DOMAIN requested = 1..Len(requested) /\ Len(requested) \in Nat
      /\ Len(commands) \in Nat
      /\ position \in Int /\ committed \in Int /\ next \in Nat \ {0}
      /\ \A i \in DOMAIN requested : requested[i] \in Nat
      /\ \A i \in DOMAIN batch : batch[i] \in 1..Len(log)
      /\ \A i \in DOMAIN batch : log[batch[i]] \in Payloads
      /\ MaxMessages \in Nat /\ Len(log) <= MaxMessages
      /\ \A m \in due : m \in Nat \ {0}
  BY PlacedFacts
<1>1. ASSUME NEW p \in Payloads, Produce(p), UNCHANGED nodeVars PROVE Placed'
  <2>1. /\ log' \in Seq(Payloads) /\ Len(log') = Len(log) + 1
    BY ONLY Placed, <1>1, AppendProperties DEF Placed, TypeOK, ConsumerTypeOK, Produce
  <2>2. Len(log') <= MaxMessages /\ due' \in SUBSET Message
    <3>1. Len(log) < MaxMessages /\ due' \in {due, due \cup {Len(log) + 1}}
      BY ONLY <1>1 DEF Produce
    <3>2. Len(log) + 1 \in Message
      BY ONLY <3>1, <1>f DEF Message
    <3>3. due \in SUBSET Message
      BY ONLY TypeOK DEF TypeOK, ConsumerTypeOK
    <3>4. Len(log') <= MaxMessages
      BY ONLY <3>1, <2>1, <1>f
    <3> QED
      BY ONLY <3>1, <3>2, <3>3, <3>4
  <2>3. TypeOK'
    BY ONLY <1>1, <2>1, <2>2, TypeOK
       DEF Produce, TypeOK, ConsumerTypeOK, threadVars, nodeVars
  <2>4. OffsetsInLog'
    BY ONLY <1>1, <1>f, <2>1, OffsetsInLog DEF Produce, OffsetsInLog
  <2>5. BatchIsStretch' /\ Phases'
    BY ONLY <1>1, BatchIsStretch, Phases
       DEF Produce, BatchIsStretch, Phases, Base, threadVars
  <2> QED
    BY <2>3, <2>4, <2>5
<1>2. ASSUME CommitArrives, UNCHANGED nodeVars PROVE Placed'
  <2>1. /\ Head(requested) \in Offset /\ Tail(requested) \in Seq(Offset)
        /\ DOMAIN Tail(requested) = 1..(Len(requested) - 1)
        /\ Head(requested) = requested[1] /\ Len(requested) # 0
        /\ \A i \in 1..(Len(requested) - 1) : Tail(requested)[i] = requested[i + 1]
    BY <1>2, TailFacts DEF CommitArrives
  <2>2. TypeOK'
    BY ONLY <1>2, <2>1, TypeOK
       DEF CommitArrives, TypeOK, ConsumerTypeOK, threadVars, nodeVars
  <2>3. OffsetsInLog'
    <3>1. /\ committed' \in {committed, requested[1]} /\ requested' = Tail(requested)
          /\ UNCHANGED <<position, log, due>>
      BY ONLY <1>2, <2>1 DEF CommitArrives, threadVars, nodeVars
    <3>2. 1 \in DOMAIN requested /\ requested[1] # None
      BY ONLY <2>1, <1>f DEF None
    <3>3. committed' <= Len(log)
      BY ONLY <3>1, <3>2, OffsetsInLog DEF OffsetsInLog
    <3>4. ASSUME NEW i \in DOMAIN requested' PROVE requested'[i] <= Len(log)
      <4>1. i + 1 \in DOMAIN requested /\ requested'[i] = requested[i + 1]
        BY ONLY <1>f, <2>1, <3>1, <3>4
      <4> QED
        BY ONLY <4>1, OffsetsInLog DEF OffsetsInLog
    <3> QED
      BY ONLY <3>1, <3>2, <3>3, <3>4, OffsetsInLog DEF OffsetsInLog
  <2>4. BatchIsStretch'
    BY ONLY <1>2, BatchIsStretch DEF CommitArrives, BatchIsStretch, Base, threadVars
  <2>5. Phases'
    BY ONLY <1>2, Phases DEF CommitArrives, Phases, threadVars
  <2> QED
    BY <2>2, <2>3, <2>4, <2>5
<1>3. ASSUME Assign, UNCHANGED nodeVars PROVE Placed'
  <2>1. StartOffset \in Offset /\ StartOffset <= Len(log) /\ batch = <<>>
    BY ONLY <1>3, <1>f, TypeOK, OffsetsInLog, BatchIsStretch
       DEF Assign, StartOffset, TypeOK, ConsumerTypeOK, OffsetsInLog, BatchIsStretch, Offset, None
  <2>2. TypeOK'
    BY ONLY <1>3, <2>1, TypeOK
       DEF Assign, TypeOK, ConsumerTypeOK, brokerVars, threadVars, nodeVars
  <2>3. OffsetsInLog'
    BY ONLY <1>3, <2>1, OffsetsInLog DEF Assign, OffsetsInLog, brokerVars
  <2>4. Len(batch) = 0 /\ DOMAIN batch = {}
    BY ONLY <2>1, <1>e
  <2>5. BatchIsStretch'
    BY ONLY <1>3, <1>f, <2>1, <2>4 DEF Assign, BatchIsStretch, threadVars, Offset
  <2>6. Phases'
    BY ONLY <1>3, Phases DEF Assign, Phases, brokerVars, threadVars
  <2> QED
    BY <2>2, <2>3, <2>5, <2>6
<1>4. ASSUME Start \/ Stop, UNCHANGED nodeVars PROVE Placed'
  <2>1. UNCHANGED <<brokerVars, position, batch, commands, next, crashes, due, settled, nodeVars>>
    BY ONLY <1>4 DEF Start, Stop
  <2>2. pc' = pc \/ (pc = "down" /\ pc' = "loop")
    <3>1. CASE Start
      BY ONLY <3>1 DEF Start, Goes
    <3>2. CASE Stop
      BY ONLY <3>2 DEF Stop
    <3> QED
      BY ONLY <1>4, <3>1, <3>2
  <2>3. run' \in BOOLEAN
    BY ONLY <1>4 DEF Start, Stop
  <2>4. TypeOK'
    BY ONLY <2>1, <2>2, <2>3, TypeOK DEF TypeOK, ConsumerTypeOK, brokerVars, nodeVars
  <2>5. OffsetsInLog' /\ BatchIsStretch'
    BY ONLY <2>1, OffsetsInLog, BatchIsStretch DEF OffsetsInLog, BatchIsStretch, Base, brokerVars
  <2>6. Phases'
    BY ONLY <2>1, <2>2, Phases DEF Phases, brokerVars
  <2> QED
    BY <2>4, <2>5, <2>6
<1>5. ASSUME Fetch, UNCHANGED nodeVars PROVE Placed'
  <2>1. position + 1 \in Message /\ position \in Nat /\ position + 1 <= Len(log)
    BY ONLY <1>5, <1>f, TypeOK DEF Fetch, TypeOK, ConsumerTypeOK, Message, Offset, None
  <2>2. /\ batch' \in Seq(Message) /\ Len(batch') = Len(batch) + 1
        /\ DOMAIN batch' = 1..(Len(batch) + 1)
        /\ batch'[Len(batch) + 1] = position + 1
        /\ \A i \in 1..Len(batch) : batch'[i] = batch[i]
    BY <1>5, <2>1, AppendFacts DEF Fetch
  <2>3. TypeOK'
    <3>1. position' \in Offset
      BY ONLY <1>5, <2>1, <1>f DEF Fetch, Offset
    <3> QED
      BY ONLY <1>5, <2>2, <3>1, TypeOK DEF Fetch, TypeOK, ConsumerTypeOK, brokerVars, nodeVars
  <2>4. OffsetsInLog'
    BY ONLY <1>5, <2>1, OffsetsInLog DEF Fetch, OffsetsInLog, brokerVars
  <2>5. BatchIsStretch'
    BY ONLY <1>5, <1>f, <2>1, <2>2, BatchIsStretch DEF Fetch, BatchIsStretch, Base, None
  <2>6. Phases'
    BY ONLY <1>5, Phases DEF Fetch, Phases, brokerVars
  <2> QED
    BY <2>3, <2>4, <2>5, <2>6
<1>6. ASSUME Loop \/ EndFetch \/ EndParse, UNCHANGED nodeVars PROVE Placed'
  <2>1. UNCHANGED <<brokerVars, position, run, batch, commands, crashes, due, settled, nodeVars>>
    BY ONLY <1>6 DEF Loop, EndFetch, EndParse
  <2>2. next' \in Nat \ {0}
    BY ONLY <1>6, <1>f DEF Loop, EndFetch, EndParse
  <2>3. /\ pc' \in {"loop", "fetch", "parse", "store", "commit", "stopped"}
        /\ pc \in {"loop", "fetch", "parse"}
    BY ONLY <1>6 DEF Loop, EndFetch, EndParse, Goes
  <2>4. TypeOK'
    BY ONLY <2>1, <2>2, <2>3, TypeOK DEF TypeOK, ConsumerTypeOK, brokerVars, nodeVars
  <2>5. OffsetsInLog' /\ BatchIsStretch'
    BY ONLY <2>1, OffsetsInLog, BatchIsStretch DEF OffsetsInLog, BatchIsStretch, Base, brokerVars
  <2>6. commands = <<>> \/ 1 <= Len(commands)
    BY <1>f, EmptySeq
  <2>7. Phases'
    BY ONLY <1>6, <2>1, <2>6, Phases DEF Loop, EndFetch, EndParse, Goes, Phases, brokerVars
  <2> QED
    BY <2>4, <2>5, <2>7
<1>7. ASSUME pc' = "down", batch' = <<>>, commands' = <<>>, next' = 1, run' = FALSE,
             position' = None, requested' = <<>>, UNCHANGED <<log, committed, due>>,
             crashes' \in 0..MaxCrashes, settled' \in SUBSET Message,
             UNCHANGED <<rows>>, performed' \in SUBSET Message, dropped' \in SUBSET Message,
             tasks' = <<>>, submitted' = <<>>, lost' = LostNow
      PROVE  Placed'
  <2>1. /\ requested' \in Seq(Offset) /\ batch' \in Seq(Message)
        /\ commands' \in Seq([message : Message, command : Command])
        /\ tasks' \in Seq(Message) /\ submitted' \in Seq(Message)
    BY ONLY <1>7, <1>s
  <2>2. DOMAIN requested' = {} /\ DOMAIN batch' = {} /\ Len(batch') = 0
    BY ONLY <1>7, <1>e
  <2>a. lost' \in SUBSET Message
    BY <1>7, LostIsMessages
  <2>3. TypeOK'
    <3>1. next' \in Nat \ {0}
      BY ONLY <1>7
    <3>2. /\ log \in Seq(Payloads) /\ Len(log) <= MaxMessages /\ committed \in Offset \cup {None}
          /\ due \in SUBSET Message /\ rows \in Seq(Row)
      BY ONLY TypeOK DEF TypeOK, ConsumerTypeOK
    <3> QED
      BY ONLY <1>7, <2>1, <2>a, <3>1, <3>2, Zenon DEF TypeOK, ConsumerTypeOK
  <2>4. OffsetsInLog'
    BY ONLY <1>7, <1>f, <2>2, OffsetsInLog DEF OffsetsInLog, None
  <2>5. BatchIsStretch'
    BY ONLY <1>7, <2>2 DEF BatchIsStretch
  <2>6. Phases'
    BY ONLY <1>7 DEF Phases
  <2> QED
    BY <2>3, <2>4, <2>5, <2>6
<1>8. ASSUME Crash, PoolLost PROVE Placed'
  <2>1. crashes' \in 0..MaxCrashes
    BY ONLY <1>8, TypeOK, ConsumerAssumption DEF Crash, TypeOK, ConsumerTypeOK
  <2>2. /\ settled' \in SUBSET Message /\ performed' \in SUBSET Message
        /\ dropped' \in SUBSET Message
    BY ONLY <1>8, TypeOK DEF Crash, PoolLost, TypeOK, ConsumerTypeOK
  <2> QED
    BY <1>7, <1>8, <2>1, <2>2 DEF Crash, ProcessEnds, PoolLost
<1>9. ASSUME Exit PROVE Placed'
  <2>1. /\ crashes' \in 0..MaxCrashes /\ settled' \in SUBSET Message
        /\ performed' \in SUBSET Message /\ dropped' \in SUBSET Message
    BY ONLY <1>9, TypeOK DEF Exit, TypeOK, ConsumerTypeOK
  <2> QED
    BY <1>7, <1>9, <2>1 DEF Exit, ProcessEnds
<1>10. ASSUME ParseMessage, PoolLost PROVE Placed'
  <2> PICK outcome \in Outcomes(log[batch[next]]) :
        \/ /\ outcome.end = "dies" /\ ProcessEnds
           /\ UNCHANGED <<settled, crashes>>
        \/ /\ outcome.end = "command"
           /\ commands' = Append(commands, [message |-> batch[next], command |-> outcome])
           /\ next' = next + 1
           /\ UNCHANGED <<brokerVars, position, pc, run, batch, crashes, due, settled>>
        \/ /\ outcome.end \in {"throws", "null"}
           /\ settled' = settled \cup {batch[next]} /\ next' = next + 1
           /\ UNCHANGED <<brokerVars, position, pc, run, batch, commands, crashes, due>>
    BY ONLY <1>10 DEF ParseMessage
  <2>1. next \in DOMAIN batch /\ batch[next] \in Message /\ pc = "parse"
    BY ONLY <1>10, <1>f DEF ParseMessage, Message
  <2>2. outcome \in Outcome
    BY ONLY <2>1, <1>f DEF Outcome
  <2>3. CASE outcome.end = "dies" /\ ProcessEnds /\ UNCHANGED <<settled, crashes>>
    <3>1. /\ crashes' \in 0..MaxCrashes /\ settled' \in SUBSET Message
          /\ performed' \in SUBSET Message /\ dropped' \in SUBSET Message
      BY ONLY <1>10, <2>3, TypeOK DEF PoolLost, TypeOK, ConsumerTypeOK
    <3> QED
      BY <1>7, <1>10, <2>3, <3>1 DEF ProcessEnds, PoolLost
  <2>4. CASE /\ outcome.end = "command"
             /\ commands' = Append(commands, [message |-> batch[next], command |-> outcome])
             /\ next' = next + 1
             /\ UNCHANGED <<brokerVars, position, pc, run, batch, crashes, due, settled>>
    <3>1. [message |-> batch[next], command |-> outcome] \in [message : Message, command : Command]
      BY ONLY <2>1, <2>2, <2>4 DEF Command
    <3>2. commands' \in Seq([message : Message, command : Command])
      BY <2>4, <3>1, AppendFacts
    <3>3. next' \in Nat \ {0}
      BY ONLY <2>4, <1>f
    <3>4. UNCHANGED nodeVars
      BY ONLY <1>10, <2>1, <2>4 DEF PoolLost, nodeVars
    <3>5. TypeOK'
      BY ONLY <2>4, <3>2, <3>3, <3>4, TypeOK DEF TypeOK, ConsumerTypeOK, brokerVars, nodeVars
    <3>6. OffsetsInLog' /\ BatchIsStretch'
      BY ONLY <2>4, OffsetsInLog, BatchIsStretch DEF OffsetsInLog, BatchIsStretch, Base, brokerVars
    <3>7. Phases'
      BY ONLY <2>1, <2>4, Phases DEF Phases, brokerVars
    <3> QED
      BY <3>5, <3>6, <3>7
  <2>5. CASE /\ outcome.end \in {"throws", "null"}
             /\ settled' = settled \cup {batch[next]} /\ next' = next + 1
             /\ UNCHANGED <<brokerVars, position, pc, run, batch, commands, crashes, due>>
    <3>1. next' \in Nat \ {0} /\ settled' \in SUBSET Message
      BY ONLY <2>1, <2>5, <1>f, TypeOK DEF TypeOK, ConsumerTypeOK
    <3>2. UNCHANGED nodeVars
      BY ONLY <1>10, <2>1, <2>5 DEF PoolLost, nodeVars
    <3>3. TypeOK'
      BY ONLY <2>5, <3>1, <3>2, TypeOK DEF TypeOK, ConsumerTypeOK, brokerVars, nodeVars
    <3>4. OffsetsInLog' /\ BatchIsStretch'
      BY ONLY <2>5, OffsetsInLog, BatchIsStretch DEF OffsetsInLog, BatchIsStretch, Base, brokerVars
    <3>5. Phases'
      BY ONLY <2>1, <2>5, Phases DEF Phases, brokerVars
    <3> QED
      BY <3>3, <3>4, <3>5
  <2> QED
    BY <2>3, <2>4, <2>5
<1>11. ASSUME EndBatch, pc \in {"store", "commit"}, settled' \in SUBSET Message,
              requested' \in Seq(Offset), \A i \in DOMAIN requested' : requested'[i] <= Len(log),
              dropped' \in SUBSET Message, UNCHANGED <<rows, tasks, submitted, performed, lost>>
       PROVE  Placed'
  <2>1. /\ pc' = "loop" /\ batch' = <<>> /\ commands' = <<>> /\ next' = 1
        /\ UNCHANGED <<run, position, log, committed, crashes, due>>
    BY ONLY <1>11 DEF EndBatch, BatchCleared
  <2>2. /\ batch' \in Seq(Message) /\ commands' \in Seq([message : Message, command : Command])
    BY ONLY <2>1, <1>s
  <2>3. DOMAIN batch' = {} /\ Len(batch') = 0
    BY ONLY <2>1, <1>e
  <2>4. TypeOK'
    <3>1. next' \in Nat \ {0}
      BY ONLY <2>1
    <3> QED
      BY ONLY <1>11, <2>1, <2>2, <3>1, TypeOK DEF TypeOK, ConsumerTypeOK, nodeVars
  <2>5. OffsetsInLog'
    BY ONLY <1>11, <2>1, OffsetsInLog DEF OffsetsInLog
  <2>6. BatchIsStretch'
    <3>1. position # None => position \in Nat
      BY ONLY TypeOK, <1>f DEF TypeOK, ConsumerTypeOK, Offset
    <3> QED
      BY ONLY <2>1, <2>3, <3>1 DEF BatchIsStretch
  <2>7. Phases'
    BY ONLY <2>1 DEF Phases
  <2> QED
    BY <2>4, <2>5, <2>6, <2>7
<1>12. ASSUME Commit, PoolLost PROVE Placed'
  <2>1. EndBatch /\ pc = "commit" /\ settled' \in SUBSET Message /\ pc' = "loop"
    BY ONLY <1>12, TypeOK DEF Commit, EndBatch, TypeOK, ConsumerTypeOK
  <2>2. UNCHANGED nodeVars
    BY ONLY <1>12, <2>1 DEF PoolLost, nodeVars
  <2>3. position \in Offset
    BY ONLY <2>1, TypeOK, Phases, BatchIsStretch
       DEF TypeOK, ConsumerTypeOK, Phases, BatchIsStretch
  <2>4. /\ requested' \in Seq(Offset)
        /\ \A i \in DOMAIN requested' : requested'[i] <= Len(log)
    <3>1. CASE requested' = requested
      BY ONLY <3>1, TypeOK, OffsetsInLog DEF TypeOK, ConsumerTypeOK, OffsetsInLog
    <3>2. CASE requested' = Append(requested, position)
      <4>1. /\ requested' \in Seq(Offset) /\ DOMAIN requested' = 1..(Len(requested) + 1)
            /\ requested'[Len(requested) + 1] = position
            /\ \A i \in 1..Len(requested) : requested'[i] = requested[i]
        BY <2>3, <3>2, AppendFacts
      <4>2. requested'[Len(requested) + 1] <= Len(log)
        BY ONLY <4>1, OffsetsInLog DEF OffsetsInLog
      <4>3. \A i \in 1..Len(requested) : requested'[i] <= Len(log)
        BY ONLY <4>1, <1>f, OffsetsInLog DEF OffsetsInLog
      <4>4. \A i \in 1..(Len(requested) + 1) : i \in 1..Len(requested) \/ i = Len(requested) + 1
        BY ONLY <1>f
      <4> QED
        BY ONLY <4>1, <4>2, <4>3, <4>4
    <3> QED
      BY ONLY <1>12, <3>1, <3>2 DEF Commit, CommitOffset
  <2> QED
    <3>1. dropped' \in SUBSET Message /\ UNCHANGED <<rows, tasks, submitted, performed, lost>>
      BY ONLY <2>2, TypeOK DEF TypeOK, nodeVars
    <3> QED
      BY <1>11, <2>1, <2>4, <3>1
\* The command that submitCommand is at.
<1>13. ASSUME pc \in {"store", "submit"}
       PROVE  /\ next \in DOMAIN commands /\ next <= Len(commands)
              /\ Current \in Command /\ commands[next].message \in Message
  <2>1. commands \in Seq([message : Message, command : Command])
    BY ONLY TypeOK DEF TypeOK, ConsumerTypeOK
  <2>2. next \in DOMAIN commands /\ next <= Len(commands)
    BY <1>13, <1>f, <2>1, LenProperties DEF Phases
  <2>3. commands[next] \in [message : Message, command : Command]
    BY ONLY <2>1, <2>2, LenProperties
  <2> QED
    BY ONLY <2>2, <2>3 DEF Current
<1>14. ASSUME Store PROVE Placed'
  <2>1. CASE /\ pc = "store" /\ EndBatch /\ dropped' = dropped \cup Range(batch)
             /\ UNCHANGED <<requested, settled, rows, tasks, submitted, performed, lost>>
    <3>1. batch \in Seq(Message) /\ dropped \in SUBSET Message
      BY ONLY TypeOK DEF TypeOK, ConsumerTypeOK
    <3>2. Range(batch) \in SUBSET Message
      BY ONLY <3>1, LenProperties DEF Range
    <3>3. dropped' \in SUBSET Message
      BY ONLY <2>1, <3>1, <3>2
    <3> QED
      BY <1>11, <2>1, <3>3 DEF OffsetsInLog
  <2>2. CASE /\ Goes("store", "submit")
             /\ rows' = IF Stored(Current) THEN Inserted(rows, RowOf(Current)) ELSE rows
             /\ UNCHANGED <<brokerVars, position, run, batch, commands, next, crashes, due, settled,
                            tasks, submitted, performed, dropped, lost>>
    <3>1. pc = "store" /\ pc' = "submit"
      BY ONLY <2>2 DEF Goes
    <3>2. rows' \in Seq(Row)
      <4>1. CASE Stored(Current)
        <5>1. RowOf(Current) \in Row
          BY <1>13, <3>1, <4>1 DEF Row, Stored
        <5> QED
          BY <2>2, <4>1, <5>1, AppendFacts DEF Inserted
      <4> QED
        BY <2>2, <4>1
    <3>3. TypeOK'
      BY ONLY <2>2, <3>1, <3>2, TypeOK DEF TypeOK, ConsumerTypeOK, brokerVars
    <3>4. OffsetsInLog' /\ BatchIsStretch'
      BY ONLY <2>2, OffsetsInLog, BatchIsStretch DEF OffsetsInLog, BatchIsStretch, Base, brokerVars
    <3>5. Phases'
      BY ONLY <2>2, <3>1, Phases DEF Phases, brokerVars
    <3> QED
      BY <3>3, <3>4, <3>5
  <2> QED
    BY ONLY <1>14, <2>1, <2>2 DEF Store
<1>15. ASSUME Submit PROVE Placed'
  <2>1. pc = "submit" /\ pc' = IF next = Len(commands) THEN "commit" ELSE "store"
    BY ONLY <1>15 DEF Submit, Goes
  <2>2. /\ next' = next + 1 /\ settled' = settled \cup {commands[next].message}
        /\ UNCHANGED <<brokerVars, position, run, batch, commands, crashes, due, rows, performed,
                       dropped>>
    BY ONLY <1>15 DEF Submit
  <2>3. tasks' \in Seq(Message) /\ submitted' \in Seq(Message)
    BY <1>13, <1>15, <2>1, AppendFacts DEF Submit, Pushed
  <2>4. next' \in Nat \ {0} /\ (pc' = "store" => next' <= Len(commands))
    BY <1>13, <1>f, <2>1, <2>2
  <2>5. settled' \in SUBSET Message /\ lost' \in SUBSET Message
    BY <1>13, <1>15, <2>1, <2>2 DEF Submit
  <2>6. TypeOK'
    BY ONLY <2>1, <2>2, <2>3, <2>4, <2>5, TypeOK DEF TypeOK, ConsumerTypeOK, brokerVars
  <2>7. OffsetsInLog' /\ BatchIsStretch'
    BY ONLY <2>2, OffsetsInLog, BatchIsStretch DEF OffsetsInLog, BatchIsStretch, Base, brokerVars
  <2>8. Phases'
    BY ONLY <2>1, <2>2, <2>4, Phases DEF Phases, brokerVars
  <2> QED
    BY <2>6, <2>7, <2>8
<1>16. ASSUME Perform PROVE Placed'
  <2>1. tasks' \in Seq(Message) /\ performed' \in SUBSET Message
    BY <1>16, TailFacts DEF Perform
  <2>2. UNCHANGED consumerVars /\ UNCHANGED <<rows, submitted, dropped, lost>>
    BY ONLY <1>16 DEF Perform
  <2>3. TypeOK'
    BY ONLY <2>1, <2>2, TypeOK DEF TypeOK, ConsumerTypeOK, consumerVars, brokerVars, threadVars
  <2> QED
    BY ONLY <2>2, <2>3, Placed DEF Placed, OffsetsInLog, BatchIsStretch, Phases, Base,
       consumerVars, brokerVars, threadVars
<1>17. ASSUME UNCHANGED vars PROVE Placed'
  <2>1. TypeOK'
    BY ONLY <1>17, TypeOK DEF TypeOK, ConsumerTypeOK, vars, nodeVars, consumerVars, brokerVars,
       threadVars
  <2> QED
    BY ONLY <1>17, <2>1, Placed DEF Placed, OffsetsInLog, BatchIsStretch, Phases, Base,
       vars, consumerVars, brokerVars, threadVars
<1>18. ASSUME Loop \/ EndFetch \/ EndParse, PoolLost PROVE Placed'
  <2>1. pc' # "down"
    BY ONLY <1>18 DEF Loop, EndFetch, EndParse, Goes
  <2>2. UNCHANGED nodeVars
    BY ONLY <1>18, <2>1 DEF PoolLost, nodeVars
  <2> QED
    BY ONLY <1>6, <1>18, <2>2
<1> QED
  BY <1>1, <1>2, <1>3, <1>4, <1>5, <1>8, <1>9, <1>10, <1>12, <1>14, <1>15, <1>16, <1>17, <1>18
     DEF Next, ThreadStep

\* Placed, and TypeOK with it, holds for every topic and every crash.
THEOREM Placement == Spec => []Placed
BY PlacedInit, PlacedStep, PTL DEF Spec

\* Every variable keeps its type: no offset leaves the log, and the batch and
\* the commands hold messages of the topic.
THEOREM PipelineTypeCorrect == Spec => []TypeOK
<1>1. Placed => TypeOK
  BY DEF Placed
<1> QED
  BY <1>1, Placement, PTL

-----------------------------------------------------------------------------
(* A committed message was looked at, or dropped *)

\* Every due message up to n was looked at or dropped: n is the committed offset, an
\* offset on its way, or the place where the batch begins.
LookedUpTo(n) == \A m \in due : m <= n => m \in settled \cup dropped

Looked ==
  /\ LookedUpTo(committed) /\ LookedUpTo(Base)
  /\ \A i \in DOMAIN requested : LookedUpTo(requested[i])

\* A message of the batch that is not settled waits as a command.
Waits(m, from) == \E j \in DOMAIN commands : j >= from /\ commands[j].message = m

Handled ==
  /\ pc = "parse" => \A i \in DOMAIN batch : i < next => (batch[i] \in settled \/ Waits(batch[i], 1))
  /\ pc \in {"store", "submit"} => \A i \in DOMAIN batch : batch[i] \in settled \/ Waits(batch[i], next)
  /\ pc = "commit" => \A i \in DOMAIN batch : batch[i] \in settled

LookedInv == Placed /\ Looked /\ Handled

LEMMA LookedInit == Init => Looked /\ Handled
<1> SUFFICES ASSUME Init PROVE Looked /\ Handled
  OBVIOUS
<1>1. pc = "down" /\ due = {} /\ requested = <<>>
  BY DEF Init, ConsumerInit
<1>2. DOMAIN <<>> = {}
  BY EmptySeq
<1> QED
  BY ONLY <1>1, <1>2 DEF Looked, LookedUpTo, Handled

LEMMA LookedStep ==
  ASSUME LookedInv, [Next]_vars, Placed'
  PROVE  Looked' /\ Handled'
<1> USE DEF LookedInv
<1>f. /\ Len(log) \in Nat /\ Len(batch) \in Nat /\ DOMAIN batch = 1..Len(batch)
      /\ DOMAIN requested = 1..Len(requested) /\ Len(requested) \in Nat
      /\ Len(commands) \in Nat /\ DOMAIN commands = 1..Len(commands)
      /\ position \in Int /\ committed \in Int /\ next \in Nat \ {0}
      /\ \A m \in due : m \in Nat \ {0}
      /\ Base \in Int /\ Len(log) <= MaxMessages /\ MaxMessages \in Nat
      /\ \A i \in DOMAIN requested : requested[i] \in Nat
  BY PlacedFacts
<1>o. OffsetsInLog /\ BatchIsStretch /\ Phases /\ TypeOK
  BY DEF Placed
<1>e. Len(<<>>) = 0 /\ DOMAIN <<>> = {}
  BY EmptySeq
\* A message before the position is before the batch or in it.
<1>p. ASSUME NEW m \in due, m <= position
      PROVE  m <= Base \/ \E i \in DOMAIN batch : batch[i] = m
  <2>1. m \in Nat
    BY <1>f
  <2>2. CASE ~(m <= Base)
    <3>1. m - Base \in DOMAIN batch
      BY ONLY <1>p, <2>1, <2>2, <1>f DEF Base
    <3>2. batch[m - Base] = m
      BY ONLY <2>1, <3>1, <1>o, <1>f DEF BatchIsStretch
    <3> QED
      BY ONLY <3>1, <3>2
  <2> QED
    BY ONLY <2>2
\* A message that is produced is past every offset.
<1>1. ASSUME NEW p \in Payloads, Produce(p), UNCHANGED dropped PROVE Looked' /\ Handled'
  <2>1. UNCHANGED <<committed, requested, position, batch, commands, next, pc, settled, dropped>>
    BY ONLY <1>1 DEF Produce, threadVars
  <2>2. due' = due \/ due' = due \cup {Len(log) + 1}
    BY ONLY <1>1 DEF Produce
  <2>3. Base' = Base
    BY ONLY <2>1 DEF Base
  <2>4. /\ committed < Len(log) + 1 /\ Base < Len(log) + 1
        /\ \A i \in DOMAIN requested : requested[i] < Len(log) + 1
    BY ONLY <1>f, <1>o DEF OffsetsInLog, Base
  <2>5. ASSUME NEW n \in Int, n < Len(log) + 1, LookedUpTo(n) PROVE LookedUpTo(n)'
    BY ONLY <2>1, <2>2, <2>5, <1>f DEF LookedUpTo
  <2>6. Looked'
    <3>0. /\ LookedUpTo(committed) /\ LookedUpTo(Base)
          /\ \A i \in DOMAIN requested : LookedUpTo(requested[i])
      BY ONLY LookedInv DEF LookedInv, Looked
    <3>1. LookedUpTo(committed)'
      BY ONLY <2>1, <2>4, <2>5, <3>0, <1>f DEF LookedUpTo
    <3>2. LookedUpTo(Base)'
      BY ONLY <2>1, <2>3, <2>4, <2>5, <3>0, <1>f DEF LookedUpTo
    <3>3. ASSUME NEW i \in DOMAIN requested PROVE LookedUpTo(requested[i])'
      BY ONLY <2>1, <2>4, <2>5, <3>0, <1>f DEF LookedUpTo
    <3> QED
      BY ONLY <2>1, <3>1, <3>2, <3>3 DEF Looked
  <2>7. Handled'
    BY ONLY LookedInv, <2>1 DEF LookedInv, Handled, Waits
  <2> QED
    BY <2>6, <2>7
<1>2. ASSUME CommitArrives, UNCHANGED dropped PROVE Looked' /\ Handled'
  <2>1. UNCHANGED <<position, batch, commands, next, pc, settled, due, dropped>>
    BY ONLY <1>2 DEF CommitArrives, threadVars
  <2>2. /\ Head(requested) = requested[1] /\ Len(requested) # 0
        /\ DOMAIN Tail(requested) = 1..(Len(requested) - 1)
        /\ \A i \in 1..(Len(requested) - 1) : Tail(requested)[i] = requested[i + 1]
    BY <1>2, <1>o, TailFacts DEF CommitArrives, TypeOK, ConsumerTypeOK
  <2>3. committed' \in {committed, requested[1]} /\ requested' = Tail(requested)
    BY ONLY <1>2, <2>2 DEF CommitArrives
  <2>4. \A n : LookedUpTo(n) => LookedUpTo(n)'
    BY ONLY <2>1 DEF LookedUpTo
  <2>5. LookedUpTo(committed)' /\ LookedUpTo(Base)'
    <3>1. LookedUpTo(committed) /\ LookedUpTo(Base) /\ \A i \in DOMAIN requested : LookedUpTo(requested[i])
      BY ONLY LookedInv DEF LookedInv, Looked
    <3>2. 1 \in DOMAIN requested
      BY ONLY <2>2, <1>f
    <3>3. LookedUpTo(committed')
      BY ONLY <2>3, <3>1, <3>2
    <3>4. UNCHANGED <<dropped, settled, due>> /\ Base' = Base
      BY ONLY <2>1 DEF Base
    <3> QED
      BY ONLY <3>1, <3>3, <3>4 DEF LookedUpTo
  <2>6. \A i \in DOMAIN requested' : LookedUpTo(requested[i])'
    <3>1. \A i \in DOMAIN requested : LookedUpTo(requested[i])
      BY ONLY LookedInv DEF LookedInv, Looked
    <3>2. ASSUME NEW i \in DOMAIN requested' PROVE i + 1 \in DOMAIN requested /\ requested'[i] = requested[i + 1]
      BY ONLY <2>2, <2>3, <3>2, <1>f
    <3>3. UNCHANGED <<dropped, settled, due>>
      BY ONLY <2>1
    <3> QED
      BY ONLY <3>1, <3>2, <3>3 DEF LookedUpTo
  <2>7. Handled'
    BY ONLY LookedInv, <2>1 DEF LookedInv, Handled, Waits
  <2> QED
    BY ONLY <2>5, <2>6, <2>7 DEF Looked
\* A new position is the committed offset or past every due message.
<1>3. ASSUME Assign, UNCHANGED dropped PROVE Looked' /\ Handled'
  <2>1. /\ UNCHANGED <<committed, requested, batch, commands, next, pc, settled, due, dropped>>
        /\ position = None /\ pc \in {"loop", "fetch"} /\ position' = StartOffset
    BY ONLY <1>3 DEF Assign, brokerVars, threadVars
  <2>2. Len(batch') = 0 /\ StartOffset \in Int
    BY ONLY <1>o, <1>e, <1>f, <2>1 DEF BatchIsStretch, StartOffset
  <2>3. Base' = StartOffset
    BY ONLY <2>1, <2>2 DEF Base
  <2>4. LookedUpTo(Base)'
    BY ONLY LookedInv, <1>o, <2>1, <2>3 DEF LookedInv, Looked, LookedUpTo, StartOffset, OffsetsInLog
  <2>5. Looked'
    BY ONLY LookedInv, <2>1, <2>4 DEF LookedInv, Looked, LookedUpTo
  <2>6. Handled'
    BY ONLY <2>1 DEF Handled
  <2> QED
    BY <2>5, <2>6
<1>4. ASSUME Fetch, UNCHANGED dropped PROVE Looked' /\ Handled'
  <2>1. /\ UNCHANGED <<committed, requested, commands, next, pc, settled, due, dropped>>
        /\ position' = position + 1 /\ pc = "fetch" /\ position # None
        /\ batch' = Append(batch, position + 1)
    BY ONLY <1>4 DEF Fetch, brokerVars
  <2>2. position + 1 \in Message /\ batch \in Seq(Message)
    BY ONLY <1>4, <1>f, <1>o DEF Fetch, TypeOK, ConsumerTypeOK, Message, Offset, None
  <2>3. Len(batch') = Len(batch) + 1
    BY <2>1, <2>2, AppendFacts
  <2>4. Base' = Base
    BY ONLY <1>f, <2>1, <2>3 DEF Base
  <2>5. Looked'
    BY ONLY LookedInv, <2>1, <2>4 DEF LookedInv, Looked, LookedUpTo
  <2>6. Handled'
    BY ONLY <2>1 DEF Handled
  <2> QED
    BY <2>5, <2>6
\* Steps that only move the thread from phase to phase.
<1>5. ASSUME Start \/ Stop \/ Loop \/ EndFetch \/ EndParse, UNCHANGED dropped PROVE Looked' /\ Handled'
  <2>1. UNCHANGED <<brokerVars, position, batch, commands, due, settled, dropped>>
    BY ONLY <1>5 DEF Start, Stop, Loop, EndFetch, EndParse
  <2>2. Looked'
    BY ONLY LookedInv, <2>1 DEF LookedInv, Looked, LookedUpTo, Base, brokerVars
  <2>3. CASE EndParse
    <3>1. /\ next > Len(batch) /\ pc = "parse" /\ next' = 1
          /\ pc' = IF commands = <<>> THEN "commit" ELSE "store"
      BY ONLY <2>3 DEF EndParse, Goes
    <3>2. \A i \in DOMAIN batch : batch[i] \in settled \/ Waits(batch[i], 1)
      BY ONLY LookedInv, <3>1, <1>f DEF LookedInv, Handled
    <3>3. commands = <<>> => \A m : ~Waits(m, 1)
      BY ONLY <1>e DEF Waits
    <3> QED
      BY ONLY <2>1, <2>2, <3>1, <3>2, <3>3 DEF Handled, Waits
  <2>4. CASE Start \/ Loop \/ EndFetch
    <3>1. pc' \in {"loop", "fetch", "stopped"} \/ (pc' = "parse" /\ next' = 1)
      BY ONLY <2>4 DEF Start, Loop, EndFetch, Goes
    <3>2. \A i \in DOMAIN batch' : ~(i < 1)
      BY ONLY <1>f, <2>1
    <3> QED
      BY ONLY <2>2, <3>1, <3>2 DEF Handled
  <2>5. CASE Stop
    BY ONLY LookedInv, <2>2, <2>5 DEF LookedInv, Stop, Handled, Waits
  <2> QED
    BY ONLY <1>5, <2>3, <2>4, <2>5
\* The process ends: what is committed stays looked at.
<1>6. ASSUME ProcessEnds, settled \subseteq settled', UNCHANGED dropped PROVE Looked' /\ Handled'
  <2>1. /\ pc' = "down" /\ batch' = <<>> /\ requested' = <<>> /\ position' = -1
        /\ UNCHANGED <<committed, due, dropped>>
    BY ONLY <1>6 DEF ProcessEnds, None
  <2>2. Base' = -1 /\ DOMAIN requested' = {}
    <3>1. Len(batch') = 0 /\ DOMAIN requested' = {}
      BY ONLY <2>1, <1>e
    <3> QED
      BY ONLY <2>1, <3>1 DEF Base
  <2>3. LookedUpTo(committed)'
    BY ONLY LookedInv, <1>6, <2>1 DEF LookedInv, Looked, LookedUpTo
  <2>4. LookedUpTo(Base)'
    BY ONLY <2>1, <2>2, <1>f DEF LookedUpTo
  <2> QED
    BY ONLY <2>1, <2>2, <2>3, <2>4 DEF Looked, Handled
<1>7. ASSUME ParseMessage, UNCHANGED dropped PROVE Looked' /\ Handled'
  <2>0. PICK outcome \in Outcomes(log[batch[next]]) :
        \/ /\ outcome.end = "dies" /\ ProcessEnds
           /\ UNCHANGED <<settled, crashes>>
        \/ /\ outcome.end = "command"
           /\ commands' = Append(commands, [message |-> batch[next], command |-> outcome])
           /\ next' = next + 1
           /\ UNCHANGED <<brokerVars, position, pc, run, batch, crashes, due, settled>>
        \/ /\ outcome.end \in {"throws", "null"}
           /\ settled' = settled \cup {batch[next]} /\ next' = next + 1
           /\ UNCHANGED <<brokerVars, position, pc, run, batch, commands, crashes, due>>
    BY ONLY <1>7 DEF ParseMessage
  <2>1. next \in DOMAIN batch /\ pc = "parse"
    BY ONLY <1>7, <1>f DEF ParseMessage
  <2>2. CASE outcome.end = "dies" /\ ProcessEnds /\ UNCHANGED <<settled, crashes>>
    BY ONLY <1>6, <1>7, <2>2
  <2>3. CASE /\ outcome.end = "command"
             /\ commands' = Append(commands, [message |-> batch[next], command |-> outcome])
             /\ next' = next + 1
             /\ UNCHANGED <<brokerVars, position, pc, run, batch, crashes, due, settled>>
    <3> DEFINE x == [message |-> batch[next], command |-> outcome]
    <3>1. Looked'
      BY ONLY LookedInv, <1>7, <2>3 DEF LookedInv, Looked, LookedUpTo, Base, brokerVars
    <3>2. /\ DOMAIN commands' = 1..(Len(commands) + 1)
          /\ commands'[Len(commands) + 1].message = batch[next]
          /\ \A j \in 1..Len(commands) : commands'[j] = commands[j]
      <4>1. x.message = batch[next]
        OBVIOUS
      <4>2. commands \in Seq([message : Message, command : Command] \cup {x})
        <5>1. commands \in Seq([message : Message, command : Command])
          BY ONLY <1>o DEF TypeOK, ConsumerTypeOK
        <5> QED
          BY ONLY <5>1, SeqMonotonic
      <4> HIDE DEF x
      <4>3. x \in [message : Message, command : Command] \cup {x}
        OBVIOUS
      <4>4. commands' = Append(commands, x)
        BY ONLY <2>3 DEF x
      <4> QED
        BY ONLY <4>1, <4>2, <4>3, <4>4, AppendFacts
    <3>3. \A i \in DOMAIN batch : i < next + 1 => (i < next \/ i = next)
      BY ONLY <1>f
    <3> DEFINE WaitsNow(m) == \E j \in DOMAIN commands' : j >= 1 /\ commands'[j].message = m
    <3>4. \A m : Waits(m, 1) => WaitsNow(m)
      BY ONLY <3>2, <1>f DEF Waits
    <3>5. WaitsNow(batch[next])
      BY ONLY <3>2, <1>f
    <3>6. pc' = "parse" /\ UNCHANGED <<batch, settled>> /\ next' = next + 1
      BY ONLY <2>1, <2>3
    <3>7. \A i \in DOMAIN batch : i < next => (batch[i] \in settled \/ Waits(batch[i], 1))
      BY ONLY LookedInv, <2>1 DEF LookedInv, Handled
    <3>8. \A i \in DOMAIN batch : i < next + 1 => (batch[i] \in settled \/ WaitsNow(batch[i]))
      BY ONLY <3>3, <3>4, <3>5, <3>7
    <3>9. Handled'
      BY ONLY <3>6, <3>8 DEF Handled, Waits
    <3> QED
      BY ONLY <3>1, <3>9
  <2>4. CASE /\ outcome.end \in {"throws", "null"}
             /\ settled' = settled \cup {batch[next]} /\ next' = next + 1
             /\ UNCHANGED <<brokerVars, position, pc, run, batch, commands, crashes, due>>
    <3>1. Looked'
      BY ONLY LookedInv, <1>7, <2>4 DEF LookedInv, Looked, LookedUpTo, Base, brokerVars
    <3>2. \A i \in DOMAIN batch : i < next + 1 => (i < next \/ i = next)
      BY ONLY <1>f
    <3>3. Handled'
      BY ONLY LookedInv, <2>1, <2>4, <3>2 DEF LookedInv, Handled, Waits
    <3> QED
      BY ONLY <3>1, <3>3
  <2> QED
    BY ONLY <2>0, <2>2, <2>3, <2>4
\* A commit: the whole batch was looked at, and the position is its end.
<1>8. ASSUME Commit, UNCHANGED dropped PROVE Looked' /\ Handled'
  <2>1. /\ pc = "commit" /\ pc' = "loop" /\ batch' = <<>>
        /\ UNCHANGED <<committed, due, position, settled, dropped>>
        /\ requested' \in {requested, Append(requested, position)}
    BY ONLY <1>8 DEF Commit, EndBatch, BatchCleared, CommitOffset
  <2>2. \A i \in DOMAIN batch : batch[i] \in settled
    BY ONLY LookedInv, <2>1 DEF LookedInv, Handled
  <2>3. LookedUpTo(position)
    BY ONLY LookedInv, <2>2, <1>p DEF LookedInv, Looked, LookedUpTo
  <2>4. Base' = position
    <3>1. Len(batch') = 0
      BY ONLY <2>1, <1>e
    <3> QED
      BY ONLY <2>1, <3>1, <1>f DEF Base
  <2>5. \A i \in DOMAIN requested' : requested'[i] = position \/ \E j \in DOMAIN requested : requested'[i] = requested[j]
    <3>1. CASE requested' = requested
      BY ONLY <3>1
    <3>2. CASE requested' = Append(requested, position)
      <4>1. position \in Offset /\ requested \in Seq(Offset)
        BY ONLY <2>1, <1>o DEF TypeOK, ConsumerTypeOK, Phases, BatchIsStretch
      <4>2. /\ DOMAIN requested' = 1..(Len(requested) + 1)
            /\ requested'[Len(requested) + 1] = position
            /\ \A i \in 1..Len(requested) : requested'[i] = requested[i]
        BY ONLY <3>2, <4>1, AppendFacts
      <4>3. \A i \in 1..(Len(requested) + 1) : i \in 1..Len(requested) \/ i = Len(requested) + 1
        BY ONLY <1>f
      <4> QED
        BY ONLY <4>2, <4>3, <1>f
    <3> QED
      BY ONLY <2>1, <3>1, <3>2
  <2>6. \A n : LookedUpTo(n) => LookedUpTo(n)'
    BY ONLY <2>1 DEF LookedUpTo
  <2>7. LookedUpTo(committed)' /\ LookedUpTo(Base)'
    BY ONLY LookedInv, <2>1, <2>3, <2>4 DEF LookedInv, Looked, LookedUpTo
  <2>8. \A i \in DOMAIN requested' : LookedUpTo(requested[i])'
    BY ONLY LookedInv, <2>1, <2>3, <2>5 DEF LookedInv, Looked, LookedUpTo
  <2> QED
    BY ONLY <2>1, <2>7, <2>8 DEF Looked, Handled
\* What the exception of the database ends is dropped.
<1>9. ASSUME Store PROVE Looked' /\ Handled'
  <2>1. CASE /\ Goes("store", "submit")
             /\ UNCHANGED <<brokerVars, position, batch, commands, next, due, settled, dropped>>
    BY ONLY LookedInv, <2>1
       DEF LookedInv, Looked, LookedUpTo, Base, Handled, Waits, Goes, brokerVars
  <2>2. CASE EndBatch /\ dropped' = dropped \cup Range(batch) /\ UNCHANGED <<requested, settled>>
    <3>1. pc' = "loop" /\ batch' = <<>> /\ UNCHANGED <<committed, due, position, requested, settled>>
      BY ONLY <2>2 DEF EndBatch, BatchCleared
    <3>2. \A i \in DOMAIN batch : batch[i] \in dropped'
      BY ONLY <2>2 DEF Range
    <3>3. \A n : LookedUpTo(n) => LookedUpTo(n)'
      BY ONLY <2>2, <3>1 DEF LookedUpTo
    <3>4. Base' = position
      <4>1. Len(batch') = 0
        BY ONLY <3>1, <1>e
      <4> QED
        BY ONLY <3>1, <4>1, <1>f DEF Base
    <3>5. LookedUpTo(Base)'
      BY ONLY LookedInv, <1>p, <2>2, <3>1, <3>2, <3>4 DEF LookedInv, Looked, LookedUpTo
    <3> QED
      BY ONLY LookedInv, <3>1, <3>3, <3>5 DEF LookedInv, Looked, LookedUpTo, Handled
  <2> QED
    BY ONLY <1>9, <2>1, <2>2 DEF Store
<1>10. ASSUME Submit PROVE Looked' /\ Handled'
  <2>1. /\ pc = "submit" /\ pc' = IF next = Len(commands) THEN "commit" ELSE "store"
        /\ next' = next + 1 /\ settled' = settled \cup {commands[next].message}
        /\ UNCHANGED <<brokerVars, position, batch, commands, due, dropped>>
    BY ONLY <1>10 DEF Submit, Goes
  <2>2. Looked'
    BY ONLY LookedInv, <2>1 DEF LookedInv, Looked, LookedUpTo, Base, brokerVars
  <2>3. \A m : Waits(m, next) => (m \in settled' \/ Waits(m, next + 1))
    <3>1. ASSUME NEW m, NEW j \in DOMAIN commands, j >= next, commands[j].message = m
          PROVE  m \in settled' \/ Waits(m, next + 1)
      <4>1. j = next \/ j >= next + 1
        BY ONLY <3>1, <1>f
      <4>2. CASE j = next
        BY ONLY <3>1, <4>2, <2>1
      <4>3. CASE j >= next + 1
        BY ONLY <3>1, <4>3 DEF Waits
      <4> QED
        BY ONLY <4>1, <4>2, <4>3
    <3> QED
      BY ONLY <3>1 DEF Waits
  <2>4. next = Len(commands) => \A m : ~Waits(m, next + 1)
    BY ONLY <1>f DEF Waits
  <2>5. \A i \in DOMAIN batch : batch[i] \in settled \/ Waits(batch[i], next)
    BY ONLY LookedInv, <2>1 DEF LookedInv, Handled
  <2>6. Handled'
    BY ONLY <2>1, <2>3, <2>4, <2>5 DEF Handled, Waits
  <2> QED
    BY ONLY <2>2, <2>6
<1>11. ASSUME UNCHANGED <<consumerVars, dropped>> PROVE Looked' /\ Handled'
  BY ONLY LookedInv, <1>11 DEF LookedInv, Looked, LookedUpTo, Base, Handled, Waits,
     consumerVars, brokerVars, threadVars
<1>12. CASE (Crash /\ PoolLost) \/ Exit
  BY ONLY <1>6, <1>12 DEF Crash, Exit, PoolLost
<1>13. CASE Perform \/ UNCHANGED vars
  BY ONLY <1>11, <1>13 DEF Perform, vars, nodeVars
<1>14. CASE (Loop \/ EndFetch \/ ParseMessage \/ EndParse \/ Commit) /\ PoolLost
  BY ONLY <1>5, <1>7, <1>8, <1>14 DEF PoolLost
<1>15. CASE /\ (\E p \in Payloads : Produce(p)) \/ CommitArrives \/ Assign \/ Start \/ Fetch \/ Stop
            /\ UNCHANGED nodeVars
  BY ONLY <1>1, <1>2, <1>3, <1>4, <1>5, <1>15 DEF nodeVars
<1> QED
  BY ONLY [Next]_vars, <1>9, <1>10, <1>12, <1>13, <1>14, <1>15 DEF Next, ThreadStep

LEMMA LookedGivesSettled == LookedInv => CommittedWasSettled
<1> SUFFICES ASSUME LookedInv PROVE CommittedWasSettled
  OBVIOUS
<1>1. Range(requested) = {requested[i] : i \in DOMAIN requested}
  BY DEF Range
<1>2. Looked
  BY DEF LookedInv
<1> QED
  BY ONLY <1>1, <1>2 DEF CommittedWasSettled, Looked, LookedUpTo

\* No offset that is committed or on its way is past a due message that nobody
\* has looked at and no exception has dropped: a crash repeats messages and
\* never skips one.
THEOREM CommittedSafe == Spec => []CommittedWasSettled
<1>1. Init => LookedInv
  BY PlacedInit, LookedInit DEF LookedInv
<1>2. LookedInv /\ [Next]_vars => LookedInv'
  BY PlacedStep, LookedStep DEF LookedInv
<1> QED
  BY <1>1, <1>2, LookedGivesSettled, PTL DEF Spec

-----------------------------------------------------------------------------
(* No message is submitted twice *)

\* The messages that were submitted are before the batch or, while the
\* handler runs, before the commands that are left.
Before(n) == \A i \in DOMAIN submitted : submitted[i] <= n

CommandsInOrder ==
  /\ \A j \in DOMAIN commands : Base < commands[j].message /\ commands[j].message <= position
  /\ \A i, j \in DOMAIN commands : i < j => commands[i].message < commands[j].message
  /\ pc = "parse" => \A j \in DOMAIN commands : commands[j].message < Base + next

SubmittedBefore ==
  /\ Before(position)
  /\ pc \in {"down", "loop", "fetch", "parse", "stopped"} => Before(Base)
  /\ pc \in {"store", "submit"} =>
       \A i \in DOMAIN submitted, j \in DOMAIN commands :
         j >= next => submitted[i] < commands[j].message

OrderInv == Placed /\ SubmittedOnceInOrder /\ CommandsInOrder /\ SubmittedBefore

LEMMA OrderInit == Init => SubmittedOnceInOrder /\ CommandsInOrder /\ SubmittedBefore
<1> SUFFICES ASSUME Init PROVE SubmittedOnceInOrder /\ CommandsInOrder /\ SubmittedBefore
  OBVIOUS
<1>1. commands = <<>> /\ submitted = <<>>
  BY DEF Init, ConsumerInit
<1>2. DOMAIN <<>> = {}
  BY EmptySeq
<1> QED
  BY ONLY <1>1, <1>2 DEF SubmittedOnceInOrder, CommandsInOrder, SubmittedBefore, Before

LEMMA OrderStep ==
  ASSUME OrderInv, [Next]_vars, Placed'
  PROVE  SubmittedOnceInOrder' /\ CommandsInOrder' /\ SubmittedBefore'
<1> DEFINE Goal == SubmittedOnceInOrder' /\ CommandsInOrder' /\ SubmittedBefore'
<1> USE DEF OrderInv
<1>f. /\ Len(log) \in Nat /\ Len(batch) \in Nat /\ DOMAIN batch = 1..Len(batch)
      /\ Len(commands) \in Nat /\ DOMAIN commands = 1..Len(commands)
      /\ position \in Int /\ next \in Nat \ {0} /\ Base \in Int
      /\ Len(log) <= MaxMessages /\ MaxMessages \in Nat
  BY PlacedFacts
<1>o. OffsetsInLog /\ BatchIsStretch /\ Phases /\ TypeOK
  BY DEF Placed
<1>e. Len(<<>>) = 0 /\ DOMAIN <<>> = {}
  BY EmptySeq
<1>t. /\ submitted \in Seq(Message) /\ DOMAIN submitted = 1..Len(submitted) /\ Len(submitted) \in Nat
      /\ \A i \in DOMAIN submitted : submitted[i] \in Nat \ {0}
      /\ \A j \in DOMAIN commands : commands[j].message \in Nat
  <2>1. submitted \in Seq(Message) /\ commands \in Seq([message : Message, command : Command])
    BY ONLY <1>o DEF TypeOK, ConsumerTypeOK
  <2>2. \A i \in DOMAIN submitted : submitted[i] \in Message
    BY ONLY <2>1, LenProperties
  <2>3. \A j \in DOMAIN commands : commands[j] \in [message : Message, command : Command]
    BY ONLY <2>1, LenProperties
  <2>4. DOMAIN submitted = 1..Len(submitted) /\ Len(submitted) \in Nat
    BY ONLY <2>1, LenProperties
  <2> QED
    BY ONLY <2>1, <2>2, <2>3, <2>4 DEF Message
<1>b. Base <= position
  BY ONLY <1>f DEF Base
<1>i. SubmittedOnceInOrder /\ CommandsInOrder /\ SubmittedBefore
  BY DEF OrderInv
\* Steps that leave the thread alone.
<1>1. ASSUME UNCHANGED <<position, pc, batch, commands, next, submitted>> PROVE Goal
  BY ONLY <1>1, <1>i DEF SubmittedOnceInOrder, CommandsInOrder, SubmittedBefore, Before, Base
\* With no position nothing was submitted.
<1>2. ASSUME Assign, UNCHANGED nodeVars PROVE Goal
  <2>1. UNCHANGED <<batch, commands, next, pc, submitted>> /\ position = None /\ pc \in {"loop", "fetch"}
    BY ONLY <1>2 DEF Assign, threadVars, nodeVars
  <2>2. DOMAIN submitted = {}
    BY ONLY <2>1, <1>i, <1>t DEF SubmittedBefore, Before, None
  <2>3. DOMAIN commands = {}
    BY ONLY <2>1, <1>e, <1>o DEF Phases
  <2> QED
    BY ONLY <2>1, <2>2, <2>3 DEF SubmittedOnceInOrder, CommandsInOrder, SubmittedBefore, Before
<1>3. ASSUME Fetch, UNCHANGED nodeVars PROVE Goal
  <2>1. /\ UNCHANGED <<commands, next, pc, submitted>>
        /\ position' = position + 1 /\ pc = "fetch" /\ position # None
        /\ batch' = Append(batch, position + 1)
    BY ONLY <1>3 DEF Fetch, nodeVars
  <2>2. position + 1 \in Message /\ batch \in Seq(Message)
    BY ONLY <1>3, <1>f, <1>o DEF Fetch, TypeOK, ConsumerTypeOK, Message, Offset, None
  <2>3. Len(batch') = Len(batch) + 1
    BY <2>1, <2>2, AppendFacts
  <2>4. Base' = Base
    BY ONLY <1>f, <2>1, <2>3 DEF Base
  <2>5. DOMAIN commands = {}
    BY ONLY <2>1, <1>e, <1>o DEF Phases
  <2>6. SubmittedBefore'
    BY ONLY <1>f, <1>i, <1>t, <2>1, <2>4 DEF SubmittedBefore, Before
  <2> QED
    BY ONLY <1>i, <2>1, <2>5, <2>6 DEF SubmittedOnceInOrder, CommandsInOrder
\* Steps that only move the thread from phase to phase.
<1>4. ASSUME Start \/ Stop \/ Loop \/ EndFetch \/ EndParse, UNCHANGED submitted PROVE Goal
  <2>1. UNCHANGED <<position, batch, commands, submitted>> /\ Base' = Base
    BY ONLY <1>4 DEF Start, Stop, Loop, EndFetch, EndParse, Base
  <2>2. CASE EndParse
    <3>1. pc = "parse" /\ pc' \in {"commit", "store"}
      BY ONLY <2>2 DEF EndParse, Goes
    <3>2. Before(Base) /\ \A j \in DOMAIN commands : Base < commands[j].message
      BY ONLY <1>i, <3>1 DEF SubmittedBefore, CommandsInOrder
    <3>3. \A i \in DOMAIN submitted, j \in DOMAIN commands : submitted[i] < commands[j].message
      BY ONLY <3>2, <1>t, <1>f DEF Before
    <3> QED
      BY ONLY <1>i, <2>1, <3>1, <3>3 DEF SubmittedOnceInOrder, CommandsInOrder, SubmittedBefore, Before
  <2>3. CASE Start \/ Loop \/ EndFetch
    <3>1. pc \in {"down", "loop", "fetch"} /\ pc' \in {"loop", "fetch", "parse", "stopped"}
      BY ONLY <2>3 DEF Start, Loop, EndFetch, Goes
    <3>2. DOMAIN commands = {}
      BY ONLY <3>1, <1>e, <1>o DEF Phases
    <3> QED
      BY ONLY <1>i, <2>1, <3>1, <3>2 DEF SubmittedOnceInOrder, CommandsInOrder, SubmittedBefore, Before
  <2>4. CASE Stop
    BY ONLY <1>1, <2>1, <2>4 DEF Stop
  <2> QED
    BY ONLY <1>4, <2>2, <2>3, <2>4
<1>5. ASSUME ProcessEnds, submitted' = <<>> PROVE Goal
  <2>1. pc' = "down" /\ DOMAIN commands' = {} /\ DOMAIN submitted' = {}
    BY ONLY <1>5, <1>e DEF ProcessEnds
  <2> QED
    BY ONLY <2>1 DEF SubmittedOnceInOrder, CommandsInOrder, SubmittedBefore, Before
<1>6. ASSUME ParseMessage, PoolLost PROVE Goal
  <2>0. PICK outcome \in Outcomes(log[batch[next]]) :
        \/ /\ outcome.end = "dies" /\ ProcessEnds
           /\ UNCHANGED <<settled, crashes>>
        \/ /\ outcome.end = "command"
           /\ commands' = Append(commands, [message |-> batch[next], command |-> outcome])
           /\ next' = next + 1
           /\ UNCHANGED <<brokerVars, position, pc, run, batch, crashes, due, settled>>
        \/ /\ outcome.end \in {"throws", "null"}
           /\ settled' = settled \cup {batch[next]} /\ next' = next + 1
           /\ UNCHANGED <<brokerVars, position, pc, run, batch, commands, crashes, due>>
    BY ONLY <1>6 DEF ParseMessage
  <2>1. next \in DOMAIN batch /\ pc = "parse" /\ batch[next] = Base + next
    <3>1. pc = "parse" /\ next <= Len(batch)
      BY ONLY <1>6 DEF ParseMessage
    <3>2. next \in DOMAIN batch
      BY ONLY <1>f, <3>1
    <3> QED
      BY ONLY <1>o, <3>1, <3>2 DEF BatchIsStretch
  <2>2. CASE outcome.end = "dies" /\ ProcessEnds
    BY ONLY <1>5, <1>6, <2>2 DEF ProcessEnds, PoolLost
  <2>3. CASE /\ UNCHANGED <<position, pc, batch>> /\ next' = next + 1
             /\ commands' = Append(commands, [message |-> batch[next], command |-> outcome])
    <3> DEFINE x == [message |-> batch[next], command |-> outcome]
    <3>1. /\ DOMAIN commands' = 1..(Len(commands) + 1)
          /\ commands'[Len(commands) + 1].message = Base + next
          /\ \A j \in 1..Len(commands) : commands'[j] = commands[j]
      <4>1. x.message = Base + next
        BY ONLY <2>1
      <4>2. commands \in Seq([message : Message, command : Command] \cup {x})
        <5>1. commands \in Seq([message : Message, command : Command])
          BY ONLY <1>o DEF TypeOK, ConsumerTypeOK
        <5> QED
          BY ONLY <5>1, SeqMonotonic
      <4>3. commands' = Append(commands, x)
        BY ONLY <2>3
      <4> HIDE DEF x
      <4>4. x \in [message : Message, command : Command] \cup {x}
        OBVIOUS
      <4> QED
        BY ONLY <4>1, <4>2, <4>3, <4>4, AppendFacts
    <3>2. UNCHANGED submitted /\ Base' = Base /\ pc' = "parse"
      BY ONLY <1>6, <2>1, <2>3 DEF PoolLost, Base
    <3>3. SubmittedOnceInOrder' /\ SubmittedBefore'
      BY ONLY <1>i, <2>1, <2>3, <3>2 DEF SubmittedOnceInOrder, SubmittedBefore, Before
    <3>4. /\ \A j \in DOMAIN commands : /\ Base < commands[j].message
                                        /\ commands[j].message <= position
                                        /\ commands[j].message < Base + next
          /\ \A i, j \in DOMAIN commands : i < j => commands[i].message < commands[j].message
      BY ONLY <1>i, <2>1 DEF CommandsInOrder
    <3>5. Base < Base + next /\ Base + next <= position /\ Base + next < Base + next'
      BY ONLY <1>f, <2>1, <2>3 DEF Base
    <3>6. \A j \in DOMAIN commands' : /\ Base < commands'[j].message
                                      /\ commands'[j].message <= position
                                      /\ commands'[j].message < Base + next'
      BY ONLY <1>f, <1>t, <2>3, <3>1, <3>4, <3>5
    <3>7. ASSUME NEW i \in DOMAIN commands', NEW j \in DOMAIN commands', i < j
          PROVE  commands'[i].message < commands'[j].message
      <4>1. i \in 1..Len(commands) /\ commands'[i] = commands[i]
        BY ONLY <1>f, <3>1, <3>7
      <4>2. CASE j = Len(commands) + 1
        BY ONLY <1>f, <3>1, <3>4, <4>1, <4>2
      <4>3. CASE j # Len(commands) + 1
        <5>1. j \in 1..Len(commands) /\ commands'[j] = commands[j]
          BY ONLY <1>f, <3>1, <4>3
        <5> QED
          BY ONLY <1>f, <3>4, <3>7, <4>1, <5>1
      <4> QED
        BY ONLY <4>2, <4>3
    <3> QED
      BY ONLY <2>3, <3>2, <3>3, <3>6, <3>7 DEF CommandsInOrder
  <2>4. CASE UNCHANGED <<position, pc, batch, commands>> /\ next' = next + 1
    <3>1. UNCHANGED submitted /\ Base' = Base /\ pc' = "parse"
      BY ONLY <1>6, <2>1, <2>4 DEF PoolLost, Base
    <3>2. SubmittedOnceInOrder' /\ SubmittedBefore'
      BY ONLY <1>i, <2>1, <2>4, <3>1 DEF SubmittedOnceInOrder, SubmittedBefore, Before
    <3>3. CommandsInOrder'
      BY ONLY <1>i, <1>f, <1>t, <2>1, <2>4, <3>1 DEF CommandsInOrder
    <3> QED
      BY ONLY <3>2, <3>3
  <2> QED
    BY ONLY <2>0, <2>2, <2>3, <2>4
\* The batch ends with a commit or an exception of the database.
<1>7. ASSUME EndBatch, UNCHANGED submitted PROVE Goal
  <2>1. UNCHANGED <<position, submitted>> /\ pc' = "loop" /\ Len(batch') = 0 /\ DOMAIN commands' = {}
    BY ONLY <1>7, <1>e DEF EndBatch, BatchCleared
  <2>2. Base' = position
    BY ONLY <2>1, <1>f DEF Base
  <2> QED
    BY ONLY <1>i, <2>1, <2>2 DEF SubmittedOnceInOrder, CommandsInOrder, SubmittedBefore, Before
<1>8. ASSUME Store PROVE Goal
  <2>1. CASE EndBatch /\ UNCHANGED submitted
    BY ONLY <1>7, <2>1
  <2>2. CASE Goes("store", "submit") /\ UNCHANGED <<brokerVars, position, run, batch, commands, next,
               crashes, due, settled, tasks, submitted, performed, dropped>>
    BY ONLY <2>2, <1>i DEF Goes, SubmittedOnceInOrder, CommandsInOrder, SubmittedBefore, Before, Base
  <2> QED
    BY ONLY <1>8, <2>1, <2>2 DEF Store
<1>9. ASSUME Submit PROVE Goal
  <2> DEFINE n == commands[next].message
  <2>1. /\ pc = "submit" /\ pc' \in {"commit", "store"} /\ next' = next + 1
        /\ UNCHANGED <<position, batch, commands>>
        /\ (submitted' = submitted \/ submitted' = Append(submitted, n))
    BY ONLY <1>9 DEF Submit, Goes
  <2>2. next \in DOMAIN commands /\ n \in Message
    <3>1. next \in DOMAIN commands
      BY ONLY <2>1, <1>f, <1>o DEF Phases
    <3>2. commands \in Seq([message : Message, command : Command])
      BY ONLY <1>o DEF TypeOK, ConsumerTypeOK
    <3>3. commands[next] \in [message : Message, command : Command]
      BY ONLY <3>1, <3>2, LenProperties
    <3> QED
      BY ONLY <3>1, <3>3
  <2>3. /\ \A i \in DOMAIN submitted : submitted[i] < n
        /\ \A j \in DOMAIN commands : j >= next + 1 => n < commands[j].message
        /\ n <= position /\ n \in Nat
    BY ONLY <1>i, <1>f, <1>t, <2>1, <2>2 DEF SubmittedBefore, CommandsInOrder
  <2>4. CommandsInOrder'
    BY ONLY <1>i, <2>1 DEF CommandsInOrder, Base
  <2>5. \A i \in DOMAIN submitted, j \in DOMAIN commands : j >= next + 1 => submitted[i] < commands[j].message
    BY ONLY <1>f, <1>t, <2>3
  <2>6. /\ \A i \in DOMAIN submitted : submitted[i] <= position
        /\ \A i, j \in DOMAIN submitted : i < j => submitted[i] < submitted[j]
    BY ONLY <1>i DEF SubmittedBefore, Before, SubmittedOnceInOrder
  <2>7. CASE submitted' = submitted
    <3>1. SubmittedBefore'
      BY ONLY <2>1, <2>5, <2>6, <2>7 DEF SubmittedBefore, Before
    <3> QED
      BY ONLY <1>i, <2>4, <2>7, <3>1 DEF SubmittedOnceInOrder
  <2>8. CASE submitted' = Append(submitted, n)
    <3> HIDE DEF n
    <3>1. /\ DOMAIN submitted' = 1..(Len(submitted) + 1) /\ submitted'[Len(submitted) + 1] = n
          /\ \A i \in 1..Len(submitted) : submitted'[i] = submitted[i]
      BY ONLY <2>2, <2>8, <1>t, AppendFacts
    <3>2. \A i \in DOMAIN submitted' : submitted'[i] <= position
      BY ONLY <1>t, <1>f, <2>3, <2>6, <3>1
    <3>3. \A i, j \in DOMAIN submitted' : i < j => submitted'[i] < submitted'[j]
      BY ONLY <1>t, <2>3, <2>6, <3>1
    <3>4. \A i \in DOMAIN submitted', j \in DOMAIN commands : j >= next + 1 => submitted'[i] < commands[j].message
      BY ONLY <1>t, <1>f, <2>3, <2>5, <3>1
    <3>5. SubmittedBefore'
      BY ONLY <2>1, <3>2, <3>4 DEF SubmittedBefore, Before
    <3> QED
      BY ONLY <2>4, <3>3, <3>5 DEF SubmittedOnceInOrder
  <2> QED
    BY ONLY <2>1, <2>7, <2>8
<1>10. CASE Crash /\ PoolLost
  BY ONLY <1>5, <1>10 DEF Crash, PoolLost, ProcessEnds
<1>11. CASE Exit
  BY ONLY <1>5, <1>11 DEF Exit
<1>12. CASE Commit /\ PoolLost
  <2>1. EndBatch /\ UNCHANGED submitted
    BY ONLY <1>12 DEF Commit, EndBatch, PoolLost
  <2> QED
    BY ONLY <1>7, <2>1
<1>13. CASE (Loop \/ EndFetch \/ EndParse) /\ PoolLost
  <2>1. UNCHANGED submitted
    BY ONLY <1>13 DEF Loop, EndFetch, EndParse, Goes, PoolLost
  <2> QED
    BY ONLY <1>4, <1>13, <2>1
<1>14. CASE (Start \/ Stop) /\ UNCHANGED nodeVars
  BY ONLY <1>4, <1>14 DEF nodeVars
<1>15. CASE ((\E p \in Payloads : Produce(p)) \/ CommitArrives) /\ UNCHANGED nodeVars
  BY ONLY <1>1, <1>15 DEF Produce, CommitArrives, threadVars, nodeVars
<1>16. CASE Perform \/ UNCHANGED vars
  BY ONLY <1>1, <1>16 DEF Perform, vars, consumerVars, nodeVars, threadVars
<1> QED
  BY ONLY [Next]_vars, <1>2, <1>3, <1>6, <1>8, <1>9, <1>10, <1>11, <1>12, <1>13, <1>14, <1>15, <1>16
     DEF Next, ThreadStep

\* Between two starts of the process no message is submitted twice and none
\* out of turn, whatever the database and the broker do.
THEOREM SubmissionOrder == Spec => []SubmittedOnceInOrder
<1>1. Init => OrderInv
  BY PlacedInit, OrderInit DEF OrderInv
<1>2. OrderInv /\ [Next]_vars => OrderInv'
  BY PlacedStep, OrderStep DEF OrderInv
<1>3. OrderInv => SubmittedOnceInOrder
  BY DEF OrderInv
<1> QED
  BY <1>1, <1>2, <1>3, PTL DEF Spec

-----------------------------------------------------------------------------
(* What is in the table, and what a stop leaves *)

\* A message has at most one command in it.
LEMMA OneCommand ==
  ASSUME NEW p, NEW c \in Outcomes(p), NEW d \in Outcomes(p), c.end = "command", d.end = "command"
  PROVE  c = d
<1>1. Throws.end = "throws" /\ Null.end = "null" /\ Dies.end = "dies"
  BY DEF Throws, Null, Dies
<1>2. c \notin {Throws, Null, Dies} /\ d \notin {Throws, Null, Dies}
  BY <1>1
<1>3. \E x : Outcomes(p) \subseteq {x, Throws, Null, Dies}
  BY ZenonT(60) DEF Outcomes, Parse
<1> QED
  BY <1>2, <1>3

IsMonitor(m) == \E c \in Outcomes(log[m]) : c.end = "command" /\ c.type = "monitor"
InTable(c) == \E i \in DOMAIN rows : rows[i] = RowOf(c)
Recorded(m) == \E c \in Outcomes(log[m]) : c.end = "command" /\ InTable(c)
AtWork == performed \cup Range(tasks)

\* Commands are what their messages say.
CommandsParsed ==
  \A j \in DOMAIN commands :
    /\ commands[j].message \in 1..Len(log)
    /\ commands[j].command \in Outcomes(log[commands[j].message])
    /\ commands[j].command.end = "command"

\* What a task was made of is in the table, and what was submitted and was no
\* get command is a task or done.
WorkRecorded == \A m \in AtWork : m \in 1..Len(log) /\ Recorded(m)
SubmittedAtWork ==
  \A i \in DOMAIN submitted :
    submitted[i] \in 1..Len(log) /\ (IsMonitor(submitted[i]) => submitted[i] \in AtWork)
RowsOnce == \A i, j \in DOMAIN rows : rows[i] = rows[j] => i = j
CurrentInTable == pc = "submit" /\ Stored(Current) => InTable(Current)

TableInv == CommandsParsed /\ WorkRecorded /\ SubmittedAtWork /\ RowsOnce /\ CurrentInTable

LEMMA TableInit == Init => TableInv
<1> SUFFICES ASSUME Init PROVE TableInv
  OBVIOUS
<1>1. DOMAIN commands = {} /\ DOMAIN submitted = {} /\ DOMAIN rows = {} /\ AtWork = {} /\ pc = "down"
  BY EmptySeq DEF Init, ConsumerInit, AtWork, Range
<1> QED
  BY <1>1 DEF TableInv, CommandsParsed, WorkRecorded, SubmittedAtWork, RowsOnce, CurrentInTable

\* The log and the table only grow.
Grow ==
  /\ \A m \in 1..Len(log) : m \in 1..Len(log') /\ log'[m] = log[m]
  /\ \A i \in DOMAIN rows : i \in DOMAIN rows' /\ rows'[i] = rows[i]

LEMMA RecordedGrows ==
  ASSUME Grow, NEW m \in 1..Len(log)
  PROVE  (Recorded(m) => Recorded(m)') /\ (IsMonitor(m)' <=> IsMonitor(m))
BY DEF Grow, Recorded, InTable, IsMonitor

LEMMA RowAdded ==
  ASSUME NEW S, NEW s \in Seq(S), NEW x \in S
  PROVE  /\ DOMAIN Append(s, x) = DOMAIN s \cup {Len(s) + 1} /\ Append(s, x)[Len(s) + 1] = x
         /\ \A i \in DOMAIN s : i \in DOMAIN Append(s, x) /\ Append(s, x)[i] = s[i]
<1> DEFINE n == Len(s)
<1>1. /\ n \in Nat /\ DOMAIN s = 1..n /\ DOMAIN Append(s, x) = 1..(n + 1)
      /\ Append(s, x)[n + 1] = x /\ \A i \in 1..n : Append(s, x)[i] = s[i]
  BY AppendFacts
<1> HIDE DEF n
<1>2. 1..(n + 1) = 1..n \cup {n + 1}
  BY ONLY <1>1
<1>3. Len(s) = n
  BY DEF n
<1> QED
  BY ONLY <1>1, <1>2, <1>3

LEMMA GrowStep == Placed /\ [Next]_vars => Grow
<1> SUFFICES ASSUME Placed, [Next]_vars PROVE Grow
  OBVIOUS
<1>1. log \in Seq(Payloads) /\ rows \in Seq(Row)
  BY DEF Placed, TypeOK, ConsumerTypeOK
<1>2. ASSUME NEW p \in Payloads, Produce(p), UNCHANGED nodeVars PROVE Grow
  <2>1. log' = Append(log, p) /\ rows' = rows
    BY ONLY <1>2 DEF Produce, nodeVars
  <2>2. \A m \in 1..Len(log) : m \in 1..(Len(log) + 1)
    BY ONLY <1>1, LenProperties
  <2>3. Len(log') = Len(log) + 1 /\ \A m \in 1..Len(log) : log'[m] = log[m]
    BY ONLY <1>1, <2>1, AppendFacts
  <2> QED
    BY ONLY <2>1, <2>2, <2>3 DEF Grow
<1>3. ASSUME Store PROVE Grow
  <2> DEFINE r == RowOf(Current)
  <2>1. log' = log /\ (rows' = rows \/ rows' = Append(rows, r))
    <3>1. CASE EndBatch /\ UNCHANGED rows
      BY ONLY <3>1 DEF EndBatch
    <3>2. CASE /\ rows' = IF Stored(Current) THEN Inserted(rows, RowOf(Current)) ELSE rows
               /\ UNCHANGED brokerVars
      BY ONLY <3>2 DEF Inserted, brokerVars
    <3> QED
      BY ONLY <1>3, <3>1, <3>2 DEF Store
  <2>2. rows \in Seq(Row \cup {r})
    BY ONLY <1>1, SeqMonotonic
  <2> HIDE DEF r
  <2>3. rows' = Append(rows, r) => \A i \in DOMAIN rows : i \in DOMAIN rows' /\ rows'[i] = rows[i]
    BY ONLY <2>2, RowAdded
  <2> QED
    BY ONLY <2>1, <2>3 DEF Grow
<1>4. CASE UNCHANGED <<log, rows>>
  BY ONLY <1>4 DEF Grow
<1>5. CASE Store
  BY <1>3, <1>5
<1>6. CASE \E p \in Payloads : Produce(p) /\ UNCHANGED nodeVars
  BY <1>2, <1>6
<1>7. CASE (CommitArrives \/ Assign \/ Start \/ Fetch \/ Stop) /\ UNCHANGED nodeVars
  BY ONLY <1>4, <1>7 DEF CommitArrives, Assign, Start, Fetch, Stop, brokerVars, nodeVars
<1>8. CASE (Loop \/ EndFetch \/ EndParse \/ Crash) /\ PoolLost
  BY ONLY <1>4, <1>8 DEF Loop, EndFetch, EndParse, Crash, ProcessEnds, brokerVars, PoolLost
<1>9. CASE (ParseMessage \/ Commit) /\ PoolLost
  BY ONLY <1>4, <1>9 DEF ParseMessage, Commit, EndBatch, ProcessEnds, brokerVars, PoolLost
<1>10. CASE Submit \/ Perform \/ Exit \/ UNCHANGED vars
  BY ONLY <1>4, <1>10 DEF Submit, Perform, Exit, ProcessEnds, vars, consumerVars, brokerVars, nodeVars
<1> QED
  BY ONLY [Next]_vars, <1>5, <1>6, <1>7, <1>8, <1>9, <1>10 DEF Next, ThreadStep

\* Steps that leave the table and the queue as they are, or lose the queue.
LEMMA TableSame ==
  ASSUME TableInv, Grow, rows' = rows,
         commands' = commands \/ commands' = <<>>,
         \/ UNCHANGED <<tasks, performed, submitted>>
         \/ tasks' = <<>> /\ submitted' = <<>> /\ performed' = performed,
         pc' # "submit" \/ UNCHANGED <<pc, commands, next>>
  PROVE  TableInv'
<1>1. CommandsParsed'
  BY DEF TableInv, CommandsParsed, Grow
<1>2. AtWork' \subseteq AtWork
  BY DEF AtWork, Range
<1>3. WorkRecorded'
  BY <1>2, RecordedGrows DEF TableInv, WorkRecorded, Grow
<1>4. SubmittedAtWork'
  <2>1. CASE UNCHANGED <<tasks, performed, submitted>>
    <3>1. AtWork' = AtWork
      BY <2>1 DEF AtWork, Range
    <3> QED
      BY <2>1, <3>1, RecordedGrows DEF TableInv, SubmittedAtWork, Grow
  <2>2. CASE submitted' = <<>>
    BY <2>2 DEF SubmittedAtWork
  <2> QED
    BY <2>1, <2>2
<1>5. RowsOnce' /\ CurrentInTable'
  BY DEF TableInv, RowsOnce, CurrentInTable, Current, InTable
<1> QED
  BY <1>1, <1>3, <1>4, <1>5 DEF TableInv

LEMMA ParseTable ==
  ASSUME Placed, TableInv, Grow, ParseMessage, PoolLost
  PROVE  TableInv'
<1>1. PICK outcome \in Outcomes(log[batch[next]]) :
        \/ ProcessEnds
        \/ /\ outcome.end = "command"
           /\ commands' = Append(commands, [message |-> batch[next], command |-> outcome])
           /\ UNCHANGED <<brokerVars, pc>>
        \/ UNCHANGED <<brokerVars, pc, commands>>
  BY DEF ParseMessage
<1>2. /\ pc = "parse" /\ next \in DOMAIN batch /\ batch[next] \in 1..Len(log)
      /\ UNCHANGED <<rows, performed>>
  BY PlacedFacts DEF ParseMessage, PoolLost
<1>3. CASE ProcessEnds
  BY <1>2, <1>3, TableSame DEF ProcessEnds, PoolLost
<1>4. CASE UNCHANGED <<brokerVars, pc, commands>>
  BY <1>2, <1>4, TableSame DEF PoolLost
<1>5. CASE /\ outcome.end = "command"
           /\ commands' = Append(commands, [message |-> batch[next], command |-> outcome])
           /\ UNCHANGED <<brokerVars, pc>>
  <2> DEFINE x == [message |-> batch[next], command |-> outcome]
  <2>1. x.message = batch[next] /\ x.command = outcome
    OBVIOUS
  <2>2. commands \in Seq([message : Message, command : Command] \cup {x})
    <3>1. commands \in Seq([message : Message, command : Command])
      BY DEF Placed, TypeOK, ConsumerTypeOK
    <3> QED
      BY ONLY <3>1, SeqMonotonic
  <2>3. commands' = Append(commands, x) /\ log' = log
    BY <1>5 DEF brokerVars
  <2> HIDE DEF x
  <2>4. /\ DOMAIN commands' = DOMAIN commands \cup {Len(commands) + 1} /\ commands'[Len(commands) + 1] = x
        /\ \A i \in DOMAIN commands : commands'[i] = commands[i]
    BY <2>2, <2>3, RowAdded
  <2>5. CommandsParsed'
    BY <1>2, <1>5, <2>1, <2>3, <2>4 DEF TableInv, CommandsParsed
  <2>6. pc' = "parse" /\ UNCHANGED <<log, rows, tasks, submitted, performed>>
    BY <1>2, <1>5, <2>3 DEF PoolLost
  <2>7. /\ WorkRecorded' /\ SubmittedAtWork' /\ RowsOnce' /\ CurrentInTable'
    BY <2>6 DEF TableInv, WorkRecorded, SubmittedAtWork, RowsOnce, CurrentInTable, AtWork, Recorded,
       InTable, IsMonitor, Range
  <2> QED
    BY <2>5, <2>7 DEF TableInv
<1> QED
  BY <1>1, <1>3, <1>4, <1>5

LEMMA StoreTable ==
  ASSUME Placed, TableInv, Grow, Store
  PROVE  TableInv'
<1>1. CASE EndBatch /\ UNCHANGED <<rows, tasks, submitted, performed>>
  BY <1>1, TableSame DEF EndBatch
<1>2. CASE /\ pc' = "submit"
           /\ rows' = IF Stored(Current) THEN Inserted(rows, RowOf(Current)) ELSE rows
           /\ UNCHANGED <<brokerVars, commands, next, tasks, submitted, performed>>
  <2> DEFINE r == RowOf(Current)
  <2>1. \/ rows' = rows /\ (Stored(Current) => InTable(Current))
        \/ rows' = Append(rows, r) /\ \A i \in DOMAIN rows : rows[i] # r
    BY <1>2 DEF Inserted, InTable
  <2>2. rows \in Seq(Row \cup {r})
    BY SeqMonotonic DEF Placed, TypeOK
  <2>3. r = RowOf(Current)
    OBVIOUS
  <2> HIDE DEF r
  <2>4. ASSUME rows' = rows, Stored(Current) => InTable(Current) PROVE RowsOnce' /\ CurrentInTable'
    BY <1>2, <2>4 DEF TableInv, RowsOnce, CurrentInTable, Current, InTable, Stored
  <2>5. ASSUME rows' = Append(rows, r), \A i \in DOMAIN rows : rows[i] # r PROVE RowsOnce' /\ CurrentInTable'
    <3>1. /\ DOMAIN rows' = DOMAIN rows \cup {Len(rows) + 1} /\ rows'[Len(rows) + 1] = r
          /\ \A i \in DOMAIN rows : rows'[i] = rows[i]
      BY <2>2, <2>5, RowAdded
    <3>2. RowsOnce'
      BY <2>5, <3>1 DEF TableInv, RowsOnce
    <3>3. Current' = Current
      BY <1>2 DEF Current
    <3>4. InTable(Current)'
      BY <2>3, <3>1, <3>3 DEF InTable
    <3> QED
      BY <3>2, <3>4 DEF CurrentInTable
  <2>6. RowsOnce' /\ CurrentInTable'
    BY <2>1, <2>4, <2>5
  <2>7. CommandsParsed' /\ AtWork' = AtWork /\ log' = log
    BY <1>2 DEF TableInv, CommandsParsed, AtWork, Range, brokerVars
  <2>8. WorkRecorded'
    BY <2>7, RecordedGrows DEF TableInv, WorkRecorded
  <2>9. SubmittedAtWork'
    BY <1>2, <2>7 DEF TableInv, SubmittedAtWork, IsMonitor
  <2> QED
    BY <2>6, <2>7, <2>8, <2>9 DEF TableInv
<1> QED
  BY <1>1, <1>2 DEF Store, Goes

\* A monitor command that is submitted is a task, and its row is in the table.
LEMMA SubmitTable ==
  ASSUME Placed, TableInv, Grow, Submit
  PROVE  TableInv'
<1> DEFINE m == commands[next].message
<1>1. /\ pc = "submit" /\ pc' # "submit" /\ UNCHANGED <<log, commands, rows, performed>>
      /\ tasks' = (IF Current.type = "monitor" THEN Append(tasks, m) ELSE tasks)
      /\ submitted' = submitted \/ submitted' = Append(submitted, m)
  BY DEF Submit, Goes, Pushed, brokerVars
<1>2. next \in DOMAIN commands
  BY <1>1, PlacedFacts DEF Placed, Phases
<1>3. m \in 1..Len(log) /\ Current \in Outcomes(log[m]) /\ Current.end = "command"
  BY <1>2 DEF TableInv, CommandsParsed, Current
<1>4. m \in Message /\ tasks \in Seq(Message) /\ submitted \in Seq(Message)
  <2>1. tasks \in Seq(Message) /\ submitted \in Seq(Message) /\ Len(log) <= MaxMessages /\ Len(log) \in Nat
    BY PlacedFacts DEF Placed, TypeOK
  <2> HIDE DEF m
  <2> QED
    BY <1>3, <2>1, PlacedFacts DEF Message
<1>5. Current.type = "monitor" => InTable(Current)
  BY <1>1 DEF TableInv, CurrentInTable, Stored
<1> HIDE DEF m
<1>6. Current.type = "monitor" => Range(tasks') = Range(tasks) \cup {m}
  BY <1>1, <1>4, RowAdded DEF Range
<1>7. AtWork' = IF Current.type = "monitor" THEN AtWork \cup {m} ELSE AtWork
  BY <1>1, <1>6 DEF AtWork
<1>8. Current.type = "monitor" => Recorded(m)
  BY <1>3, <1>5 DEF Recorded
<1>9. WorkRecorded'
  BY <1>1, <1>3, <1>7, <1>8 DEF TableInv, WorkRecorded, Recorded, InTable
<1>10. IsMonitor(m) => m \in AtWork'
  <2>1. ASSUME NEW c \in Outcomes(log[m]), c.end = "command", c.type = "monitor"
        PROVE  Current.type = "monitor"
    BY <1>3, <2>1, OneCommand
  <2> QED
    BY <1>7, <2>1 DEF IsMonitor
<1>11. SubmittedAtWork'
  <2>1. \A i \in DOMAIN submitted' : submitted'[i] = m \/ \E k \in DOMAIN submitted : submitted'[i] = submitted[k]
    BY <1>1, <1>4, RowAdded
  <2> QED
    BY <1>1, <1>3, <1>7, <1>10, <2>1 DEF TableInv, SubmittedAtWork, IsMonitor
<1>12. CommandsParsed' /\ RowsOnce' /\ CurrentInTable'
  BY <1>1 DEF TableInv, CommandsParsed, RowsOnce, CurrentInTable
<1> QED
  BY <1>9, <1>11, <1>12 DEF TableInv

LEMMA RangeOfTail ==
  ASSUME NEW S, NEW s \in Seq(S), s # <<>>
  PROVE  Range(s) = {Head(s)} \cup Range(Tail(s))
<1> DEFINE n == Len(s)
<1>1. /\ n \in Nat \ {0} /\ DOMAIN s = 1..n /\ DOMAIN Tail(s) = 1..(n - 1)
      /\ Head(s) = s[1] /\ \A i \in 1..(n - 1) : Tail(s)[i] = s[i + 1]
  BY TailFacts
<1> HIDE DEF n
<1>2. \A i \in 1..n : i = 1 \/ (i - 1 \in 1..(n - 1) /\ i - 1 + 1 = i)
  BY <1>1
<1>3. \A i \in DOMAIN s : s[i] = Head(s) \/ \E k \in DOMAIN Tail(s) : Tail(s)[k] = s[i]
  BY <1>1, <1>2
<1>4. \A i \in 1..(n - 1) : i + 1 \in 1..n
  BY <1>1
<1>5. 1 \in DOMAIN s /\ \A i \in DOMAIN Tail(s) : \E k \in DOMAIN s : Tail(s)[i] = s[k]
  BY <1>1, <1>4
<1> QED
  BY <1>1, <1>3, <1>5 DEF Range

LEMMA PerformTable ==
  ASSUME Placed, TableInv, Grow, Perform
  PROVE  TableInv'
<1>1. tasks \in Seq(Message) /\ tasks # <<>>
  BY DEF Perform, Placed, TypeOK
<1>2. Range(tasks) = {Head(tasks)} \cup Range(Tail(tasks))
  BY <1>1, RangeOfTail
<1>3. AtWork' = AtWork /\ UNCHANGED <<log, commands, next, pc, rows, submitted>>
  BY <1>2 DEF Perform, AtWork, consumerVars, brokerVars, threadVars
<1> QED
  BY <1>3 DEF TableInv, CommandsParsed, WorkRecorded, SubmittedAtWork, RowsOnce, CurrentInTable, Recorded,
     InTable, IsMonitor, Current

LEMMA TableStep ==
  ASSUME Placed, TableInv, [Next]_vars
  PROVE  TableInv'
<1>0. Grow
  BY GrowStep
<1>1. CASE /\ (\E p \in Payloads : Produce(p)) \/ CommitArrives \/ Assign \/ Start \/ Fetch \/ Stop
           /\ UNCHANGED nodeVars
  <2>1. /\ UNCHANGED <<commands, next, rows, tasks, performed, submitted>>
        /\ pc' # "submit" \/ pc' = pc
    BY <1>1 DEF Produce, CommitArrives, Assign, Start, Fetch, Stop, Goes, threadVars, nodeVars
  <2> QED
    BY <1>0, <2>1, TableSame
<1>2. CASE (Loop \/ EndFetch \/ EndParse \/ Commit \/ Crash) /\ PoolLost
  <2>1. /\ commands' = commands \/ commands' = <<>>
        /\ pc' # "submit"
    BY <1>2 DEF Loop, EndFetch, EndParse, Commit, EndBatch, Crash, ProcessEnds, Goes
  <2>2. /\ rows' = rows /\ performed' = performed
        /\ \/ UNCHANGED <<tasks, submitted>>
           \/ tasks' = <<>> /\ submitted' = <<>>
    BY <1>2 DEF PoolLost
  <2> QED
    BY <1>0, <2>1, <2>2, TableSame
<1>3. CASE ParseMessage /\ PoolLost
  BY <1>0, <1>3, ParseTable
<1>4. CASE Store
  BY <1>0, <1>4, StoreTable
<1>5. CASE Submit
  BY <1>0, <1>5, SubmitTable
<1>6. CASE Perform
  BY <1>0, <1>6, PerformTable
<1>7. CASE Exit
  BY <1>0, <1>7, TableSame DEF Exit, ProcessEnds
<1>8. CASE UNCHANGED vars
  BY <1>0, <1>8, TableSame DEF vars, consumerVars, threadVars, nodeVars
<1> QED
  BY ONLY [Next]_vars, <1>1, <1>2, <1>3, <1>4, <1>5, <1>6, <1>7, <1>8 DEF Next, ThreadStep

\* Whatever the pool has done or will do is in the table, each row once, also
\* when a crash comes between the write and the task.
THEOREM TableAlwaysComplete == Spec => []TableComplete
<1>1. TableInv => TableComplete
  BY DEF TableInv, WorkRecorded, RowsOnce, Recorded, InTable, AtWork, TableComplete
<1> QED
  BY <1>1, PlacedInit, PlacedStep, TableInit, TableStep, PTL DEF Spec

\* What was looked at and can only be a monitor command is a task, done, or was
\* lost with the process that had it as a task.
OnlyMonitor(m) == Outcomes(log[m]) \subseteq MonitorOf(log[m])
Accounted == \A m \in settled : m \in 1..Len(log) /\ (OnlyMonitor(m) => m \in AtWork \cup lost)

LEMMA AccountedSame ==
  ASSUME Accounted, Grow, settled' = settled, AtWork \cup lost \subseteq (AtWork \cup lost)'
  PROVE  Accounted'
BY DEF Accounted, Grow, OnlyMonitor

LEMMA AccountedStep ==
  ASSUME Placed, TableInv, Accounted, [Next]_vars
  PROVE  Accounted'
<1>0. Grow
  BY GrowStep
\* A process that ends takes its tasks down.
<1>1. ASSUME performed' = performed, lost' = LostNow PROVE AtWork \cup lost \subseteq (AtWork \cup lost)'
  BY <1>1 DEF AtWork, LostNow
<1>2. ASSUME PoolLost PROVE AtWork \cup lost \subseteq (AtWork \cup lost)'
  <2>1. CASE pc' = "down"
    BY <1>1, <1>2, <2>1 DEF PoolLost
  <2>2. CASE pc' # "down"
    BY <1>2, <2>2 DEF PoolLost, AtWork, Range
  <2> QED
    BY <2>1, <2>2
<1>3. CASE UNCHANGED <<settled, nodeVars>>
  BY <1>0, <1>3, AccountedSame DEF nodeVars, AtWork, Range
<1>4. CASE /\ (\E p \in Payloads : Produce(p)) \/ CommitArrives \/ Assign \/ Start \/ Fetch \/ Stop
           /\ UNCHANGED nodeVars
  BY ONLY <1>3, <1>4 DEF Produce, CommitArrives, Assign, Start, Fetch, Stop
<1>5. CASE (Loop \/ EndFetch \/ EndParse \/ Commit \/ Crash) /\ PoolLost
  <2>1. settled' = settled
    BY ONLY <1>5 DEF Loop, EndFetch, EndParse, Commit, Crash
  <2> QED
    BY <1>0, <1>2, <1>5, <2>1, AccountedSame
<1>6. CASE ParseMessage /\ PoolLost
  <2>1. PICK outcome \in Outcomes(log[batch[next]]) :
          \/ UNCHANGED settled
          \/ outcome.end \in {"throws", "null"} /\ settled' = settled \cup {batch[next]}
    BY ONLY <1>6 DEF ParseMessage
  <2>2. CASE UNCHANGED settled
    BY <1>0, <1>2, <1>6, <2>2, AccountedSame
  <2>3. CASE outcome.end \in {"throws", "null"} /\ settled' = settled \cup {batch[next]}
    <3>1. batch[next] \in 1..Len(log)
      BY <1>6, PlacedFacts DEF ParseMessage
    <3>2. ~OnlyMonitor(batch[next])
      BY <2>1, <2>3 DEF OnlyMonitor, MonitorOf
    <3> QED
      BY <1>0, <1>2, <1>6, <2>3, <3>1, <3>2 DEF Accounted, Grow, OnlyMonitor
  <2> QED
    BY <2>1, <2>2, <2>3
<1>7. CASE Store
  <2>1. UNCHANGED <<settled, tasks, performed, lost>>
    BY ONLY <1>7 DEF Store
  <2> QED
    BY <1>0, <2>1, AccountedSame DEF AtWork, Range
<1>8. CASE Submit
  <2> PICK m : m = commands[next].message
    OBVIOUS
  <2>1. /\ pc = "submit" /\ UNCHANGED <<log, performed>>
        /\ tasks' = (IF Current.type = "monitor" THEN Append(tasks, m) ELSE tasks)
        /\ settled' = settled \cup {m} /\ lost' = lost \ {m}
    BY <1>8 DEF Submit, Goes, Pushed, brokerVars
  <2>2. next \in DOMAIN commands
    BY <2>1, PlacedFacts DEF Placed, Phases
  <2>3. m \in 1..Len(log) /\ Current \in Outcomes(log[m])
    BY <2>2 DEF TableInv, CommandsParsed, Current
  <2>4. tasks \in Seq(Message \cup {m})
    <3>1. tasks \in Seq(Message)
      BY DEF Placed, TypeOK
    <3> QED
      BY ONLY <3>1, SeqMonotonic
  <2>5. Current.type = "monitor" => Range(tasks') = Range(tasks) \cup {m}
    BY <2>1, <2>4, RowAdded DEF Range
  <2>6. OnlyMonitor(m) => Current.type = "monitor"
    BY <2>3 DEF OnlyMonitor, MonitorOf
  <2>7. OnlyMonitor(m) => m \in AtWork'
    BY <2>5, <2>6 DEF AtWork
  <2>8. AtWork \subseteq AtWork'
    BY <2>1, <2>5 DEF AtWork
  <2>9. ASSUME NEW x \in settled, OnlyMonitor(x) PROVE x \in AtWork' \cup lost'
    BY <2>1, <2>7, <2>8, <2>9 DEF Accounted
  <2> QED
    BY <2>1, <2>3, <2>7, <2>9 DEF Accounted, OnlyMonitor
<1>9. CASE Perform
  <2>1. tasks \in Seq(Message) /\ tasks # <<>>
    BY <1>9 DEF Perform, Placed, TypeOK
  <2>2. Range(tasks) = {Head(tasks)} \cup Range(Tail(tasks))
    BY <2>1, RangeOfTail
  <2>3. AtWork' = AtWork /\ UNCHANGED <<settled, lost>>
    BY <1>9, <2>2 DEF Perform, AtWork, consumerVars
  <2> QED
    BY <1>0, <2>3, AccountedSame
<1>10. CASE Exit
  BY <1>0, <1>1, <1>10, AccountedSame DEF Exit
<1>11. CASE UNCHANGED vars
  BY ONLY <1>3, <1>11 DEF vars, consumerVars
<1> QED
  BY ONLY [Next]_vars, <1>4, <1>5, <1>6, <1>7, <1>8, <1>9, <1>10, <1>11 DEF Next, ThreadStep

\* A process that is stopped, and did not crash, has carried out every monitor
\* command that it has given to a worker.  Of the messages produced for the
\* group up to the position, those that can only be monitor commands are carried
\* out, by this process or an earlier one, unless an exception ended their batch
\* or an earlier process ended with their tasks in the pool.
THEOREM StopNeverLoses == Spec => StopLosesNothing
<1> DEFINE Stops == pc = "stopped" /\ pc' = "down" /\ crashes' = crashes
           Kept  == /\ \A m \in Range(submitted) : MonitorOf(log[m]) # {} => m \in performed
                    /\ \A m \in due : /\ m <= position
                                      /\ Outcomes(log[m]) \subseteq MonitorOf(log[m])
                                      => m \in performed \cup dropped \cup lost
<1>1. ASSUME LookedInv, TableInv, Accounted, [Next]_vars, Stops PROVE Kept
  <2>1. crashes \in Int /\ Placed
    BY <1>1, ConsumerAssumption DEF LookedInv, Placed, TypeOK, ConsumerTypeOK
  <2>2. tasks = <<>>
    BY <1>1, <2>1 DEF Next, ThreadStep, Produce, CommitArrives, Assign, Start, Fetch, Stop, Crash, Loop,
       EndFetch, ParseMessage, EndParse, Commit, EndBatch, Store, Submit, Perform, Exit, WaitForTasks, Goes,
       vars, consumerVars, threadVars
  <2>3. AtWork = performed
    BY <2>2 DEF AtWork, Range
  <2>4. \A m \in Range(submitted) : MonitorOf(log[m]) # {} => m \in performed
    BY <1>1, <2>3 DEF TableInv, SubmittedAtWork, IsMonitor, MonitorOf, Range
  <2>5. position \in Int /\ batch = <<>> /\ Len(<<>>) = 0
    BY <1>1, <2>1, PlacedFacts, EmptySeq DEF Placed, Phases
  <2>6. Base = position
    BY <2>5 DEF Base
  <2>7. \A m \in due : m <= position => m \in settled \cup dropped
    BY <1>1, <2>6 DEF LookedInv, Looked, LookedUpTo
  <2> QED
    BY <1>1, <2>3, <2>4, <2>7 DEF Accounted, OnlyMonitor
<1>2. LookedInv /\ TableInv /\ Accounted /\ [Next]_vars => [Stops => Kept]_vars
  BY <1>1
<1>3. Init => LookedInv /\ TableInv /\ Accounted
  BY PlacedInit, LookedInit, TableInit DEF LookedInv, Accounted, Init, ConsumerInit
<1>4. LookedInv /\ TableInv /\ Accounted /\ [Next]_vars => (LookedInv /\ TableInv /\ Accounted)'
  BY PlacedStep, LookedStep, TableStep, AccountedStep DEF LookedInv
<1> QED
  BY <1>2, <1>3, <1>4, PTL DEF Spec, StopLosesNothing

-----------------------------------------------------------------------------
(* The pipeline implements CommandTopic: every step has one of a few effects  *)
(* on what a producer can see (EffectOfStep), and each effect is a step of     *)
(* CommandTopic or a stutter (TopicStep).                                      *)

\* What a producer can see of a step: the offsets, what was handed over, and
\* what was looked at or given up.
EffProduce ==
  /\ Len(log') = Len(log) + 1
  /\ due' = IF committed = None THEN due ELSE due \cup {Len(log) + 1}
  /\ UNCHANGED <<committed, requested, position, submitted, settled, dropped>>

EffArrive ==
  /\ requested # <<>> /\ committed' \in {committed, Head(requested)} /\ requested' = Tail(requested)
  /\ UNCHANGED <<log, position, submitted, due, settled, dropped>>

EffBegin ==
  /\ position = None /\ position' = StartOffset
  /\ UNCHANGED <<log, committed, requested, submitted, due, settled, dropped>>

EffRead ==
  /\ position # None /\ position < Len(log) /\ position' = position + 1
  /\ UNCHANGED <<log, committed, requested, submitted, due, settled, dropped>>

EffRequest ==
  /\ position # None
  /\ requested' \in {requested, Append(requested, position)}
  /\ UNCHANGED <<log, committed, position, submitted, due, settled, dropped>>

EffLook(m) ==
  /\ m \in 1..Len(log) /\ m <= position /\ settled' = settled \cup {m}
  /\ \/ UNCHANGED submitted
     \/ submitted' = Append(submitted, m) /\ \A i \in DOMAIN submitted : submitted[i] < m
  /\ UNCHANGED <<log, committed, requested, position, due, dropped>>

EffGiveUp(S) ==
  /\ S \subseteq 1..Len(log) /\ (\A m \in S : m <= position) /\ dropped' = dropped \cup S
  /\ UNCHANGED <<log, committed, requested, position, submitted, due, settled>>

EffGone ==
  /\ position' = None /\ requested' = <<>> /\ submitted' = <<>>
  /\ UNCHANGED <<log, committed, due, settled, dropped>>

EffNone == UNCHANGED <<log, committed, requested, position, submitted, due, settled, dropped>>

Effect ==
  \/ EffProduce \/ EffArrive \/ EffBegin \/ EffRead \/ EffRequest \/ EffGone \/ EffNone
  \/ \E m : EffLook(m)
  \/ \E S : EffGiveUp(S)

\* Where the messages of the batch and of the commands are.
LEMMA BatchPlaces ==
  ASSUME OrderInv
  PROVE  /\ \A i \in DOMAIN batch : batch[i] \in 1..Len(log) /\ batch[i] <= position
         /\ \A j \in DOMAIN commands : /\ commands[j].message \in 1..Len(log)
                                       /\ commands[j].message <= position
         /\ Len(log) \in Nat /\ position \in Int
<1>1. Placed /\ CommandsInOrder
  BY DEF OrderInv
<1>2. /\ Len(log) \in Nat /\ Len(batch) \in Nat /\ DOMAIN batch = 1..Len(batch)
      /\ position \in Int /\ \A i \in DOMAIN batch : batch[i] \in 1..Len(log)
  BY <1>1, PlacedFacts
<1>3. \A i \in DOMAIN batch : batch[i] <= position
  BY ONLY <1>1, <1>2 DEF Placed, BatchIsStretch, Base
<1>4. \A j \in DOMAIN commands : commands[j].message \in Message
  <2>1. commands \in Seq([message : Message, command : Command])
    BY ONLY <1>1 DEF Placed, TypeOK, ConsumerTypeOK
  <2>2. \A j \in DOMAIN commands : commands[j] \in [message : Message, command : Command]
    BY ONLY <2>1, LenProperties
  <2>3. QED
    BY ONLY <2>2
<1>5. ASSUME NEW j \in DOMAIN commands
      PROVE  commands[j].message \in 1..Len(log) /\ commands[j].message <= position
  <2>1. commands[j].message \in Message /\ commands[j].message <= position
    BY ONLY <1>1, <1>4, <1>5 DEF CommandsInOrder
  <2>2. position <= Len(log)
    BY ONLY <1>1 DEF Placed, OffsetsInLog
  <2>3. QED
    BY ONLY <1>2, <2>1, <2>2 DEF Message
<1>6. QED
  BY ONLY <1>2, <1>3, <1>5

LEMMA EffectOfParse ==
  ASSUME OrderInv, ParseMessage, PoolLost
  PROVE  Effect
<1>1. pc = "parse" /\ next \in DOMAIN batch
  <2>1. next \in Nat \ {0} /\ Len(batch) \in Nat /\ DOMAIN batch = 1..Len(batch)
    BY PlacedFacts DEF OrderInv
  <2>2. QED
    BY ONLY <2>1, ParseMessage DEF ParseMessage
<1> PICK m : m = batch[next]
  OBVIOUS
<1>2. m \in 1..Len(log) /\ m <= position
  BY <1>1, BatchPlaces
<1>3. PICK outcome \in Outcomes(log[batch[next]]) :
        \/ /\ outcome.end = "dies"
           /\ ProcessEnds
           /\ UNCHANGED <<settled, crashes>>
        \/ /\ outcome.end = "command"
           /\ commands' = Append(commands, [message |-> batch[next], command |-> outcome])
           /\ next' = next + 1
           /\ UNCHANGED <<brokerVars, position, pc, run, batch, crashes, due, settled>>
        \/ /\ outcome.end \in {"throws", "null"}
           /\ settled' = settled \cup {batch[next]}
           /\ next' = next + 1
           /\ UNCHANGED <<brokerVars, position, pc, run, batch, commands, crashes, due>>
  BY ONLY ParseMessage DEF ParseMessage
<1>4. CASE ProcessEnds /\ UNCHANGED <<settled, crashes>>
  BY ONLY PoolLost, <1>4 DEF ProcessEnds, PoolLost, Effect, EffGone
<1>5. CASE UNCHANGED <<brokerVars, position, pc, run, batch, crashes, due, settled>>
  BY ONLY PoolLost, <1>1, <1>5 DEF brokerVars, PoolLost, Effect, EffNone
<1>6. CASE /\ settled' = settled \cup {batch[next]}
           /\ UNCHANGED <<brokerVars, position, pc, run, batch, commands, crashes, due>>
  <2>1. EffLook(m)
    BY ONLY m = batch[next], PoolLost, <1>1, <1>2, <1>6 DEF brokerVars, PoolLost, EffLook
  <2>2. QED
    BY ONLY <2>1 DEF Effect
<1>7. QED
  BY ONLY <1>3, <1>4, <1>5, <1>6

LEMMA EffectOfStore ==
  ASSUME OrderInv, Store
  PROVE  Effect
<1>1. CASE Goes("store", "submit") /\ UNCHANGED <<brokerVars, position, due, settled, submitted, dropped>>
  BY ONLY <1>1 DEF brokerVars, Effect, EffNone
<1>2. CASE EndBatch /\ dropped' = dropped \cup Range(batch) /\ UNCHANGED <<requested, settled, submitted>>
  <2>1. Range(batch) \subseteq 1..Len(log) /\ \A m \in Range(batch) : m <= position
    <3>1. \A m \in Range(batch) : \E i \in DOMAIN batch : m = batch[i]
      BY DEF Range
    <3>2. QED
      BY <3>1, BatchPlaces
  <2>2. EffGiveUp(Range(batch))
    BY ONLY <1>2, <2>1 DEF EndBatch, EffGiveUp
  <2>3. QED
    BY ONLY <2>2 DEF Effect
<1>3. QED
  BY ONLY Store, <1>1, <1>2 DEF Store

LEMMA EffectOfSubmit ==
  ASSUME OrderInv, Submit
  PROVE  Effect
<1>1. next \in DOMAIN commands /\ pc = "submit"
  <2>1. next \in Nat \ {0} /\ DOMAIN commands = 1..Len(commands) /\ Len(commands) \in Nat
    BY PlacedFacts DEF OrderInv
  <2>2. pc = "submit" /\ next <= Len(commands)
    BY DEF Submit, Goes, OrderInv, Placed, Phases
  <2>3. QED
    BY ONLY <2>1, <2>2
<1> PICK m : m = commands[next].message
  OBVIOUS
<1>2. m \in 1..Len(log) /\ m <= position
  BY <1>1, BatchPlaces
<1>3. \A i \in DOMAIN submitted : submitted[i] < m
  <2>1. next >= next
    BY PlacedFacts DEF OrderInv
  <2>2. QED
    BY <1>1, <2>1 DEF OrderInv, SubmittedBefore
<1>4. /\ settled' = settled \cup {m} /\ submitted' \in {submitted, Append(submitted, m)}
      /\ UNCHANGED <<log, committed, requested, position, due, dropped>>
  <2>1. /\ submitted' = IF HasWorker(Current) THEN Append(submitted, commands[next].message)
                                              ELSE submitted
        /\ settled' = settled \cup {commands[next].message}
        /\ UNCHANGED <<log, committed, requested, position, due, dropped>>
    BY ONLY Submit DEF Submit, brokerVars
  <2>2. QED
    BY ONLY <2>1, m = commands[next].message
<1>5. EffLook(m)
  BY ONLY <1>2, <1>3, <1>4 DEF EffLook
<1>6. QED
  BY ONLY <1>5 DEF Effect

LEMMA EffectOfStep ==
  ASSUME OrderInv, [Next]_vars
  PROVE  Effect
<1>1. ASSUME NEW p \in Payloads, Produce(p), UNCHANGED nodeVars PROVE Effect
  <2>1. log \in Seq(Payloads)
    BY DEF OrderInv, Placed, TypeOK, ConsumerTypeOK
  <2>2. Len(log') = Len(log) + 1
    BY ONLY <1>1, <2>1, AppendProperties DEF Produce
  <2>3. EffProduce
    BY ONLY <1>1, <2>2 DEF Produce, nodeVars, EffProduce
  <2>4. QED
    BY ONLY <2>3 DEF Effect
<1>2. CASE CommitArrives /\ UNCHANGED nodeVars
  BY ONLY <1>2 DEF CommitArrives, nodeVars, Effect, EffArrive
<1>3. CASE Assign /\ UNCHANGED nodeVars
  BY ONLY <1>3 DEF Assign, brokerVars, nodeVars, Effect, EffBegin
<1>4. CASE Fetch /\ UNCHANGED nodeVars
  BY ONLY <1>4 DEF Fetch, brokerVars, nodeVars, Effect, EffRead
<1>5. CASE (Start \/ Stop) /\ UNCHANGED nodeVars
  BY ONLY <1>5 DEF Start, Stop, brokerVars, nodeVars, Effect, EffNone
<1>6. CASE (Loop \/ EndFetch \/ EndParse) /\ PoolLost
  BY ONLY <1>6 DEF Loop, EndFetch, EndParse, Goes, PoolLost, brokerVars, Effect, EffNone
<1>7. CASE Commit /\ PoolLost
  <2>1. position # None
    <3>1. pc = "commit"
      BY ONLY <1>7 DEF Commit
    <3>2. QED
      BY ONLY OrderInv, <3>1 DEF OrderInv, Placed, Phases, BatchIsStretch
  <2>2. QED
    BY ONLY <1>7, <2>1 DEF Commit, CommitOffset, EndBatch, PoolLost, Effect, EffRequest
<1>8. CASE ParseMessage /\ PoolLost
  BY ONLY OrderInv, <1>8, EffectOfParse
<1>9. CASE (Crash /\ PoolLost) \/ Exit
  BY ONLY <1>9 DEF Crash, Exit, ProcessEnds, PoolLost, Effect, EffGone
<1>10. CASE Perform \/ UNCHANGED vars
  BY ONLY <1>10 DEF Perform, vars, consumerVars, brokerVars, nodeVars, Effect, EffNone
<1>11. CASE Store \/ Submit
  BY ONLY OrderInv, <1>11, EffectOfStore, EffectOfSubmit
<1>12. QED
  BY ONLY [Next]_vars, <1>1, <1>2, <1>3, <1>4, <1>5, <1>6, <1>7, <1>8, <1>9, <1>10, <1>11
     DEF Next, ThreadStep

-----------------------------------------------------------------------------
\* The offsets only go forward: what is committed, what is on its way and how
\* far the thread has read.
CommitsInOrder ==
  /\ \A i \in DOMAIN requested :
       /\ committed <= requested[i] /\ requested[i] <= position
       /\ \A j \in i..Len(requested) : requested[i] <= requested[j]
  /\ position # None => committed <= position
  /\ settled \cup dropped \subseteq 1..Len(log)

CommitsInv == OrderInv /\ CommitsInOrder

LEMMA CommitsInit == Init => CommitsInOrder
<1> SUFFICES ASSUME Init PROVE CommitsInOrder
  OBVIOUS
<1>1. requested = <<>> /\ position = None /\ settled = {} /\ dropped = {}
  BY DEF Init, ConsumerInit
<1>2. DOMAIN <<>> = {}
  BY EmptySeq
<1> QED
  BY ONLY <1>1, <1>2 DEF CommitsInOrder

LEMMA CommitsStep ==
  ASSUME CommitsInv, Effect, Placed'
  PROVE  CommitsInOrder'
<1>1. /\ Len(log) \in Nat /\ Len(requested) \in Nat /\ DOMAIN requested = 1..Len(requested)
      /\ position \in Int /\ committed \in Int
      /\ \A i \in DOMAIN requested : requested[i] \in Nat
  BY PlacedFacts DEF CommitsInv, OrderInv
<1>2. /\ requested \in Seq(Offset) /\ position \in Offset \cup {None}
      /\ committed \in Offset \cup {None} /\ MaxMessages \in Nat
  BY ConsumerAssumption DEF CommitsInv, OrderInv, Placed, TypeOK, ConsumerTypeOK
<1>3. CommitsInOrder /\ OffsetsInLog
  BY DEF CommitsInv, OrderInv, Placed
<1>4. CASE EffProduce
  <2>1. UNCHANGED <<committed, requested, position, settled, dropped>> /\ Len(log') = Len(log) + 1
    BY ONLY <1>4 DEF EffProduce
  <2>2. QED
    BY ONLY <1>1, <1>3, <2>1 DEF CommitsInOrder
<1>5. CASE EffArrive
  <2>1. /\ requested[1] = Head(requested) /\ DOMAIN Tail(requested) = 1..(Len(requested) - 1)
        /\ Len(Tail(requested)) = Len(requested) - 1 /\ Len(requested) \in Nat \ {0}
        /\ \A i \in 1..(Len(requested) - 1) : Tail(requested)[i] = requested[i + 1]
    BY ONLY <1>2, <1>5, TailFacts DEF EffArrive
  <2>2. /\ requested' = Tail(requested) /\ committed' \in {committed, requested[1]}
        /\ UNCHANGED <<log, position, settled, dropped>>
    BY ONLY <1>5, <2>1 DEF EffArrive
  <2>3. /\ \A i \in DOMAIN requested' : requested'[i] = requested[i + 1] /\ i + 1 \in DOMAIN requested
        /\ DOMAIN requested' = 1..Len(requested') /\ Len(requested') = Len(requested) - 1
    BY ONLY <1>1, <2>1, <2>2
  <2>4. \A i \in DOMAIN requested : committed <= requested[i] /\ requested[1] <= requested[i]
                                      /\ requested[i] <= position
    BY ONLY <1>1, <1>3, <2>1 DEF CommitsInOrder
  <2>5. \A i \in DOMAIN requested' : committed' <= requested'[i] /\ requested'[i] <= position'
    BY ONLY <2>2, <2>3, <2>4
  <2>6. ASSUME NEW i \in DOMAIN requested', NEW j \in i..Len(requested')
        PROVE  requested'[i] <= requested'[j]
    <3>1. j \in DOMAIN requested' /\ j + 1 \in (i + 1)..Len(requested)
      BY ONLY <1>1, <2>3, <2>6
    <3>2. requested[i + 1] <= requested[j + 1]
      BY ONLY <1>3, <2>3, <2>6, <3>1 DEF CommitsInOrder
    <3>3. QED
      BY ONLY <2>3, <2>6, <3>1, <3>2
  <2>7. position' # None => committed' <= position'
    BY ONLY <1>1, <1>3, <2>1, <2>2, <2>4 DEF CommitsInOrder
  <2>8. settled' \cup dropped' \subseteq 1..Len(log')
    BY ONLY <1>3, <2>2 DEF CommitsInOrder
  <2>9. QED
    BY ONLY <2>5, <2>6, <2>7, <2>8 DEF CommitsInOrder
<1>6. CASE EffBegin
  <2>1. \A i \in DOMAIN requested : FALSE
    BY ONLY <1>1, <1>3, <1>6 DEF CommitsInOrder, EffBegin, None
  <2>2. committed <= StartOffset
    BY ONLY <1>1, <1>3 DEF StartOffset, OffsetsInLog
  <2>3. QED
    BY ONLY <1>3, <1>6, <2>1, <2>2 DEF CommitsInOrder, EffBegin
<1>7. CASE EffRead
  <2>1. position # None /\ position' = position + 1
        /\ UNCHANGED <<log, committed, requested, settled, dropped>>
    BY ONLY <1>7 DEF EffRead
  <2>2. \A i \in DOMAIN requested' : requested'[i] <= position'
    BY ONLY <1>1, <1>3, <2>1 DEF CommitsInOrder
  <2>3. committed' <= position'
    BY ONLY <1>1, <1>3, <2>1 DEF CommitsInOrder
  <2>4. QED
    BY ONLY <1>3, <2>1, <2>2, <2>3 DEF CommitsInOrder
<1>8. CASE EffRequest
  <2>1. /\ position # None /\ requested' \in {requested, Append(requested, position)}
        /\ UNCHANGED <<log, committed, position, settled, dropped>>
    BY ONLY <1>8 DEF EffRequest
  <2>2. CASE requested' = requested
    BY ONLY <1>3, <2>1, <2>2 DEF CommitsInOrder
  <2>3. CASE requested' = Append(requested, position)
    <3>1. position \in Offset
      BY ONLY <1>2, <2>1 DEF None
    <3>2. /\ Len(requested') = Len(requested) + 1 /\ DOMAIN requested' = 1..(Len(requested) + 1)
          /\ requested'[Len(requested) + 1] = position
          /\ \A i \in 1..Len(requested) : requested'[i] = requested[i]
      BY ONLY <1>2, <2>3, <3>1, AppendFacts
    <3>3. \A i \in DOMAIN requested' : /\ i \in DOMAIN requested \/ i = Len(requested) + 1
                                       /\ i \in DOMAIN requested => requested'[i] = requested[i]
      BY ONLY <1>1, <3>2
    <3>4. \A i \in DOMAIN requested' : committed <= requested'[i] /\ requested'[i] <= position
      BY ONLY <1>1, <1>3, <2>1, <3>2, <3>3 DEF CommitsInOrder
    <3>5. ASSUME NEW i \in DOMAIN requested', NEW j \in i..Len(requested')
          PROVE  requested'[i] <= requested'[j]
      <4>1. CASE j = Len(requested) + 1
        BY ONLY <3>2, <3>4, <3>5, <4>1
      <4>2. CASE j # Len(requested) + 1
        <5>1. j \in i..Len(requested) /\ i \in DOMAIN requested /\ j \in DOMAIN requested
          BY ONLY <1>1, <3>2, <3>5, <4>2
        <5>2. requested[i] <= requested[j]
          BY ONLY <1>3, <5>1 DEF CommitsInOrder
        <5>3. requested'[i] = requested[i] /\ requested'[j] = requested[j]
          BY ONLY <1>1, <3>2, <5>1
        <5>4. QED
          BY ONLY <5>2, <5>3
      <4>3. QED
        BY ONLY <4>1, <4>2
    <3>6. /\ position' # None => committed' <= position'
          /\ settled' \cup dropped' \subseteq 1..Len(log')
      BY ONLY <1>3, <2>1 DEF CommitsInOrder
    <3>7. QED
      BY ONLY <2>1, <3>4, <3>5, <3>6 DEF CommitsInOrder
  <2>4. QED
    BY ONLY <2>1, <2>2, <2>3
<1>9. CASE EffGone
  <2>1. DOMAIN <<>> = {}
    BY EmptySeq
  <2>2. QED
    BY ONLY <1>3, <1>9, <2>1 DEF CommitsInOrder, EffGone
<1>10. CASE EffNone
  BY ONLY <1>3, <1>10 DEF CommitsInOrder, EffNone
<1>11. ASSUME NEW m, EffLook(m) PROVE CommitsInOrder'
  BY ONLY <1>3, <1>11 DEF CommitsInOrder, EffLook
<1>12. ASSUME NEW S, EffGiveUp(S) PROVE CommitsInOrder'
  BY ONLY <1>3, <1>12 DEF CommitsInOrder, EffGiveUp
<1> QED
  BY ONLY Effect, <1>4, <1>5, <1>6, <1>7, <1>8, <1>9, <1>10, <1>11, <1>12 DEF Effect

LEMMA TopicInit == Init => Topic!Init
<1> SUFFICES ASSUME Init PROVE Topic!Init
  OBVIOUS
<1>1. /\ log = <<>> /\ committed \in {None, 0} /\ position = None
      /\ submitted = <<>> /\ due = {}
  BY DEF Init, ConsumerInit
<1>2. Len(<<>>) = 0
  BY EmptySeq
<1> QED
  BY ONLY <1>1, <1>2 DEF Topic!Init, Topic!Nowhere, None

\* An effect is a step of CommandTopic, or nothing that a producer can see.
LEMMA TopicStep ==
  ASSUME CommitsInv, LookedInv, Effect
  PROVE  [Topic!Next]_(Topic!vars)
<1> DEFINE owed == due \ (settled \cup dropped)
<1>1. /\ Len(log) \in Nat /\ Len(requested) \in Nat /\ DOMAIN requested = 1..Len(requested)
      /\ position \in Int /\ committed \in Int
      /\ \A i \in DOMAIN requested : requested[i] \in Nat
      /\ \A m \in due : m \in Nat \ {0}
  BY PlacedFacts DEF CommitsInv, OrderInv
<1>2. requested \in Seq(Offset)
  BY DEF CommitsInv, OrderInv, Placed, TypeOK, ConsumerTypeOK
<1>3. CommitsInOrder /\ OffsetsInLog /\ Looked
  BY DEF CommitsInv, OrderInv, Placed, LookedInv
<1>4. CASE EffProduce
  <2>1. Len(log) + 1 \notin settled \cup dropped
    BY ONLY <1>1, <1>3 DEF CommitsInOrder
  <2>2. Topic!Produce
    <3>1. owed' = IF committed = None THEN owed ELSE owed \cup {Len(log) + 1}
      BY ONLY <1>4, <2>1 DEF EffProduce
    <3>2. QED
      BY ONLY <1>4, <3>1 DEF EffProduce, Topic!Produce, Topic!Nowhere, None
  <2>3. QED
    BY ONLY <2>2 DEF Topic!Next
<1>5. CASE EffArrive
  <2>1. requested[1] = Head(requested) /\ 1 \in DOMAIN requested
    BY ONLY <1>2, <1>5, TailFacts DEF EffArrive
  <2>2. CASE committed' = committed
    BY ONLY <1>5, <2>2 DEF EffArrive, Topic!vars
  <2>3. CASE committed' = Head(requested)
    <3>1. /\ committed <= requested[1] /\ requested[1] <= position /\ requested[1] \in 0..Len(log)
      BY ONLY <1>1, <1>3, <2>1 DEF CommitsInOrder, OffsetsInLog
    <3>2. \A m \in owed : requested[1] < m
      BY ONLY <1>1, <1>3, <2>1 DEF Looked, LookedUpTo
    <3>3. committed' = requested[1] /\ UNCHANGED <<log, position, submitted, due, settled, dropped>>
      BY ONLY <1>5, <2>1, <2>3 DEF EffArrive
    <3>4. Topic!Commit(requested[1])
      BY ONLY <3>1, <3>2, <3>3 DEF Topic!Commit
    <3>5. QED
      BY ONLY <3>1, <3>4 DEF Topic!Next
  <2>4. QED
    BY ONLY <1>5, <2>2, <2>3 DEF EffArrive
<1>6. CASE EffBegin
  <2>1. Topic!Begin
    BY ONLY <1>6 DEF EffBegin, StartOffset, Topic!Begin, Topic!Nowhere, None
  <2>2. QED
    BY ONLY <2>1 DEF Topic!Next
<1>7. CASE EffRead
  <2>1. Topic!Read
    BY ONLY <1>7 DEF EffRead, Topic!Read, Topic!Nowhere, None
  <2>2. QED
    BY ONLY <2>1 DEF Topic!Next
<1>8. CASE EffRequest \/ EffNone
  BY ONLY <1>8 DEF EffRequest, EffNone, Topic!vars
<1>9. CASE EffGone
  <2>1. Topic!Gone
    BY ONLY <1>9 DEF EffGone, Topic!Gone, Topic!Nowhere, None
  <2>2. QED
    BY ONLY <2>1 DEF Topic!Next
<1>10. ASSUME NEW m, EffLook(m) PROVE Topic!Next
  <2>1. m \in 1..Len(log) /\ m <= position /\ owed' = owed \ {m}
        /\ UNCHANGED <<log, committed, position>>
    BY ONLY <1>10 DEF EffLook
  <2>2. Topic!Skip(m) \/ Topic!HandOver(m)
    BY ONLY <1>10, <2>1 DEF EffLook, Topic!Skip, Topic!HandOver
  <2>3. QED
    BY ONLY <2>1, <2>2 DEF Topic!Next
<1>11. ASSUME NEW S, EffGiveUp(S) PROVE Topic!Next
  <2>1. S \in SUBSET (1..Len(log)) /\ owed' = owed \ S
        /\ UNCHANGED <<log, committed, position, submitted>>
    BY ONLY <1>11 DEF EffGiveUp
  <2>2. Topic!GiveUp(S)
    BY ONLY <1>11, <2>1 DEF EffGiveUp, Topic!GiveUp
  <2>3. QED
    BY ONLY <2>1, <2>2 DEF Topic!Next
<1> QED
  BY ONLY Effect, <1>4, <1>5, <1>6, <1>7, <1>8, <1>9, <1>10, <1>11 DEF Effect

\* The consumer, the parser, the table and the queue of the pool are a
\* CommandTopic, whatever crashes, throws or is lost: the topic is read without
\* a gap from what the group committed, commands are handed to the workers in
\* the order of the topic, and a commit never passes a message that is owed.
THEOREM PipelineKeepsTopic == Spec => KeepsTopic
<1>1. Init => CommitsInv /\ LookedInv
  BY PlacedInit, OrderInit, CommitsInit, LookedInit DEF CommitsInv, OrderInv, LookedInv
<1>2. CommitsInv /\ LookedInv /\ [Next]_vars => (CommitsInv /\ LookedInv)'
  BY PlacedStep, OrderStep, LookedStep, EffectOfStep, CommitsStep
     DEF CommitsInv, OrderInv, LookedInv
<1>3. CommitsInv /\ LookedInv /\ [Next]_vars => [Topic!Next]_(Topic!vars)
  BY EffectOfStep, TopicStep DEF CommitsInv
<1> QED
  BY <1>1, <1>2, <1>3, TopicInit, PTL DEF Spec, KeepsTopic, Topic!Spec

=============================================================================
