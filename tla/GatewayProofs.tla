---------------------------- MODULE GatewayProofs ----------------------------
(***************************************************************************)
(* Proofs about Gateway for any number of threads that call stop(), and    *)
(* about GatewaySetup for any inputs.                                      *)
(***************************************************************************)
EXTENDS GatewaySetup, SequenceTheorems, TLAPS

-----------------------------------------------------------------------------
(* The inductive invariant: what exists while run() is at each place *)

Running == {"check", "asleep", "relock", "stopCommand", "joinCommand"}
Over    == {"return", "exited", "gone"}

\* The command thread is there from the end of the setup to its join.
ConsumerPlaced ==
  /\ pc \in {"lock"} \cup Setup => consumer = "none"
  /\ pc \in {"stopNode", "joinPool", "finish"} => consumer = "ended"
  /\ pc \in Over => consumer \in {"none", "ended"}

\* The controllers exist from their construction to their reset().
ControllersPlaced ==
  /\ pc \in {"command"} \cup Running => node = "alive"
  /\ pc \in {"stopNode", "joinPool", "finish"} => command = "gone"
  /\ pc = "finish" => node = "gone"

\* The wait is left only when stop() has been called, and the return value is
\* set in two places only.
OutcomePlaced ==
  /\ pc \in {"stopCommand", "joinCommand", "stopNode", "joinPool", "finish"} => quit
  /\ pc \notin Over => exit = "none"

\* Who is in its critical section has m.
Mutex ==
  /\ handler = "locked" <=> m = "handler"
  /\ \A c \in Callers : calls[c] = "locked" <=> m = c

PlacesInv == TypeOK /\ Mutex /\ ConsumerPlaced /\ ControllersPlaced /\ OutcomePlaced /\ SuccessIsClean

\* A thread that has m as a caller is neither run() nor the handler.
LEMMA CallerIsItself == \A c \in Callers : c \notin {"free", "run", "handler"}
BY GatewayAssumption

LEMMA InvInit == Init => PlacesInv
<1> SUFFICES ASSUME Init PROVE PlacesInv
  OBVIOUS
<1>1. TypeOK
  <2>1. signals \in 0..MaxSignals /\ calls \in [Callers -> {"outside", "wants", "locked", "done"}]
    BY GatewayAssumption DEF Init
  <2>2. {quit, terminated, help, consuming} \subseteq BOOLEAN
    BY DEF Init
  <2> QED
    BY <2>1, <2>2 DEF Init, TypeOK, Setup, Services
<1>2. Mutex
  BY CallerIsItself DEF Init, Mutex
<1>3. ConsumerPlaced /\ ControllersPlaced /\ OutcomePlaced /\ SuccessIsClean
  BY DEF Init, ConsumerPlaced, ControllersPlaced, OutcomePlaced, SuccessIsClean, Setup, Running, Over
<1> QED
  BY <1>1, <1>2, <1>3 DEF PlacesInv

LEMMA SetupPhase ==
  ASSUME PlacesInv,
         \/ Lock \/ Parse \/ MakeNode \/ MakeCommand \/ SetupFails \/ Check \/ Wake \/ Relock
         \/ \E s \in Services, next \in Setup :
              Register(s, next) /\ <<s, next>> \in {<<"logger", "epics">>, <<"epics", "publisher">>,
                                                    <<"publisher", "subscriber">>, <<"subscriber", "node">>}
  PROVE  PlacesInv'
<1> USE DEF Goes, nodeVars, stopVars, PlacesInv
<1>1. TypeOK'
  <2> USE DEF TypeOK
  <2>1. CASE Lock \/ Relock
    BY <2>1, CallerIsItself DEF Lock, Relock, Setup
  <2>2. CASE Parse
    BY <2>2 DEF Parse, Setup
  <2>3. CASE MakeNode \/ MakeCommand
    BY <2>3 DEF MakeNode, MakeCommand, Setup
  <2>4. CASE SetupFails
    BY <2>4 DEF SetupFails, Caught, Setup
  <2>5. CASE Check
    BY <2>5, CallerIsItself DEF Check, SleepsWithout, Setup
  <2>6. CASE Wake
    BY <2>6 DEF Wake, Setup
  <2>7. ASSUME NEW s \in Services, NEW next \in Setup, Register(s, next),
               <<s, next>> \in {<<"logger", "epics">>, <<"epics", "publisher">>,
                               <<"publisher", "subscriber">>, <<"subscriber", "node">>}
        PROVE  TypeOK'
    <3>1. services' \subseteq Services /\ pc = s /\ pc' = next
      BY <2>7 DEF Register
    <3>2. pc \notin {"lock", "asleep", "relock", "exited", "gone"}
          /\ pc' \notin {"lock", "asleep", "relock", "exited", "gone"}
      BY <2>7, <3>1 DEF Services, Setup
    <3>3. UNCHANGED <<m, quit, terminated, exit, help, node, command, consumer, consuming, stopVars>>
      BY <2>7 DEF Register
    <3> QED
      BY <2>7, <3>1, <3>2, <3>3
  <2> QED
    BY <2>1, <2>2, <2>3, <2>4, <2>5, <2>6, <2>7
<1>m. Mutex'
  BY CallerIsItself DEF TypeOK, Mutex, Setup, Lock, Parse, MakeNode, MakeCommand, SetupFails,
     Check, SleepsWithout, Wake, Relock, Register
<1>2. ConsumerPlaced'
  BY DEF TypeOK, ConsumerPlaced, Setup, Running, Over, Lock, Parse, MakeNode, MakeCommand, SetupFails,
     Check, Wake, Relock, Register
<1>3. ControllersPlaced'
  BY DEF TypeOK, ControllersPlaced, Setup, Running, Over, Lock, Parse, MakeNode, MakeCommand, SetupFails,
     Check, Wake, Relock, Register
<1>4. OutcomePlaced' /\ SuccessIsClean'
  BY DEF TypeOK, OutcomePlaced, SuccessIsClean, Setup, Running, Over, Lock, Parse, MakeNode, MakeCommand,
     SetupFails, Caught, Check, Wake, Relock, Register
<1> QED
  BY <1>1, <1>m, <1>2, <1>3, <1>4

LEMMA Deallocation ==
  ASSUME PlacesInv, StopCommand \/ JoinCommand \/ StopNode \/ JoinPool \/ Finish \/ Return \/ ProcessEnds
  PROVE  PlacesInv'
<1> USE DEF Goes, nodeVars, stopVars, PlacesInv
<1>1. TypeOK'
  BY CallerIsItself DEF TypeOK, Setup, Services, StopCommand, JoinCommand, StopNode, JoinPool, Finish, Return, ProcessEnds
<1>m. Mutex'
  BY CallerIsItself DEF TypeOK, Mutex, Setup, StopCommand, JoinCommand, StopNode, JoinPool, Finish, Return, ProcessEnds
<1>2. ConsumerPlaced'
  BY DEF ConsumerPlaced, Setup, Running, Over, StopCommand, JoinCommand, Joinable, StopNode, JoinPool, Finish,
     Return, ProcessEnds
<1>3. ControllersPlaced'
  BY DEF ControllersPlaced, Setup, Running, Over, StopCommand, JoinCommand, StopNode, JoinPool, Finish,
     Return, ProcessEnds
<1>4. OutcomePlaced' /\ SuccessIsClean'
  BY DEF ConsumerPlaced, ControllersPlaced, OutcomePlaced, SuccessIsClean, Setup, Running, Over,
     StopCommand, JoinCommand, StopNode, JoinPool, Finish, Return, ProcessEnds
<1> QED
  BY <1>1, <1>m, <1>2, <1>3, <1>4

LEMMA CommandThread ==
  ASSUME PlacesInv, Consume \/ Handled
  PROVE  PlacesInv'
<1>1. /\ consumer \in {"loop", "handling"} /\ consumer' \in {"loop", "handling", "ended"}
      /\ UNCHANGED <<pc, m, quit, terminated, exit, help, services, node, command, consuming,
                     calls, handler, signals>>
  BY DEF Consume, Handled, stopVars
<1>2. pc \in Running
  BY <1>1 DEF PlacesInv, TypeOK, ConsumerPlaced, Setup, Running, Over
<1>3. TypeOK' /\ Mutex' /\ ConsumerPlaced'
  BY <1>1, <1>2 DEF PlacesInv, TypeOK, Mutex, ConsumerPlaced, Setup, Running, Over
<1>4. ControllersPlaced' /\ OutcomePlaced' /\ SuccessIsClean'
  BY <1>1, <1>2 DEF PlacesInv, ControllersPlaced, OutcomePlaced, SuccessIsClean, Setup, Running, Over
<1> QED
  BY <1>3, <1>4 DEF PlacesInv

LEMMA Stopping ==
  ASSUME PlacesInv,
         \/ \E c \in Callers : Call(c) \/ StopCall(c) \/ StopReturns(c)
         \/ Signal \/ HandlerStops \/ HandlerReturns
  PROVE  PlacesInv'
<1>1. /\ UNCHANGED <<nodeVars, terminated, exit, help>>
      /\ quit => quit'
      /\ pc' = pc \/ (pc = "asleep" /\ pc' = "relock")
  BY DEF Call, StopCall, StopReturns, Signal, HandlerStops, HandlerReturns, StopLocked, Notified, nodeVars, PlacesInv, TypeOK
<1>2. TypeOK'
  <2>1. pc' \in Setup \cup {"lock", "check", "asleep", "relock", "stopCommand", "joinCommand",
                            "stopNode", "joinPool", "finish", "return", "exited", "gone"}
    BY <1>1 DEF PlacesInv, TypeOK
  <2>2. {quit', terminated', help', consuming'} \subseteq BOOLEAN
    BY <1>1 DEF PlacesInv, TypeOK, nodeVars, Call, StopCall, StopReturns, Signal, HandlerStops, HandlerReturns, StopLocked
  <2>3. /\ exit' \in {"none", "success", "failure"} /\ services' \subseteq Services
        /\ {node', command'} \subseteq {"none", "alive", "gone"}
        /\ consumer' \in {"none", "loop", "handling", "ended"}
    BY <1>1 DEF PlacesInv, TypeOK, nodeVars
  <2>4. calls' \in [Callers -> {"outside", "wants", "locked", "done"}]
    BY DEF PlacesInv, TypeOK, Call, StopCall, StopReturns, Signal, HandlerStops, HandlerReturns, StopLocked
  <2>5. signals' \in 0..MaxSignals
    BY GatewayAssumption
       DEF PlacesInv, TypeOK, Call, StopCall, StopReturns, Signal, HandlerStops, HandlerReturns, StopLocked
  <2>6. handler' \in {"none", "entered", "locked"} /\ m' \in {"free", "run", "handler"} \cup Callers
    BY DEF PlacesInv, TypeOK, Call, StopCall, StopReturns, Signal, HandlerStops, HandlerReturns, StopLocked
  <2>7. m' = "run" <=> m = "run"
    <3>1. ASSUME NEW c \in Callers, Call(c) \/ StopCall(c) PROVE m' = "run" <=> m = "run"
      BY <3>1, CallerIsItself DEF Call, StopCall, StopLocked
    <3>2. ASSUME NEW c \in Callers, StopReturns(c) PROVE m' = "run" <=> m = "run"
      <4>1. m = c
        BY <3>2 DEF PlacesInv, Mutex, StopReturns
      <4> QED
        BY <3>2, <4>1, CallerIsItself DEF StopReturns
    <3>3. ASSUME Signal \/ HandlerStops \/ HandlerReturns PROVE m' = "run" <=> m = "run"
      BY <3>3 DEF PlacesInv, Mutex, Signal, HandlerStops, HandlerReturns, StopLocked
    <3> QED
      BY <3>1, <3>2, <3>3
  <2>8. m' = "run" <=> pc' \notin {"lock", "asleep", "relock", "exited", "gone"}
    <3>1. m = "run" <=> pc \notin {"lock", "asleep", "relock", "exited", "gone"}
      BY DEF PlacesInv, TypeOK
    <3> QED
      BY <1>1, <2>7, <3>1
  <2> QED
    BY <2>1, <2>2, <2>3, <2>4, <2>5, <2>6, <2>8 DEF TypeOK
<1>3. ConsumerPlaced' /\ ControllersPlaced' /\ OutcomePlaced' /\ SuccessIsClean'
  BY <1>1 DEF PlacesInv, ConsumerPlaced, ControllersPlaced, OutcomePlaced, SuccessIsClean, nodeVars,
     Setup, Running, Over
<1>4. Mutex'
  <2>1. CASE \E c \in Callers : Call(c) \/ StopCall(c) \/ StopReturns(c)
    BY <2>1, CallerIsItself DEF PlacesInv, TypeOK, Mutex, Call, StopCall, StopReturns, StopLocked
  <2>2. CASE Signal \/ HandlerStops \/ HandlerReturns
    BY <2>2, CallerIsItself DEF PlacesInv, TypeOK, Mutex, Signal, HandlerStops, HandlerReturns, StopLocked
  <2> QED
    BY <2>1, <2>2
<1> QED
  BY <1>2, <1>3, <1>4 DEF PlacesInv

LEMMA InvStep == PlacesInv /\ [Next]_vars => PlacesInv'
<1> SUFFICES ASSUME PlacesInv, [Next]_vars PROVE PlacesInv'
  OBVIOUS
<1>1. CASE UNCHANGED vars
  BY <1>1 DEF vars, nodeVars, stopVars, PlacesInv, TypeOK, Mutex, ConsumerPlaced, ControllersPlaced,
     OutcomePlaced, SuccessIsClean
<1>2. CASE Next
  BY <1>2, SetupPhase, Deallocation, CommandThread, Stopping DEF Next, RunStep, Services, Setup
<1> QED
  BY <1>1, <1>2

\* As soon as the command thread is handling a command the node controller is
\* alive.
LEMMA InvImplies == PlacesInv => HandlerHasNode
BY DEF PlacesInv, TypeOK, ConsumerPlaced, ControllersPlaced, HandlerHasNode, Setup, Running, Over

-----------------------------------------------------------------------------
(* GatewaySetup takes the steps of Gateway *)

LEMMA SetupStepIsStep == [SetupNext]_setupVars => [Next]_vars
BY DEF SetupNext, setupVars, SetupStep, Fails, Commands, Ends, StopSteps, ParseOptions, MakeLogger,
   Starts, Next, RunStep

\* The gateway with its options and its log is a gateway: whatever it is given
\* and however many threads stop it, its setup ends as the bare one's does.
THEOREM SetupRefinesGateway == SetupSpec => Init /\ [][Next]_vars
<1>1. SetupInit => Init
  BY DEF SetupInit
<1> QED
  BY <1>1, SetupStepIsStep, PTL DEF SetupSpec

\* The types, and in them the mutex: run() is between its lock and its unlock
\* if and only if it has m.
THEOREM GatewayTypeCorrect == SetupSpec => []TypeOK
<1>1. PlacesInv => TypeOK
  BY DEF PlacesInv
<1> QED
  BY <1>1, InvInit, InvStep, SetupRefinesGateway, PTL

\* A command that is being handled always has a node controller: ~CMDController
\* joins its thread before node_controller is reset, and a setup that fails
\* never leaves the thread running.
THEOREM HandlerHasNodeAlways == SetupSpec => []HandlerHasNode
BY InvInit, InvStep, InvImplies, SetupRefinesGateway, PTL

\* run() returns EXIT_SUCCESS only for the help text and after a complete
\* shutdown that somebody asked for.
THEOREM SuccessIsCleanAlways == SetupSpec => []SuccessIsClean
<1>1. PlacesInv => SuccessIsClean
  BY DEF PlacesInv
<1> QED
  BY <1>1, InvInit, InvStep, SetupRefinesGateway, PTL

-----------------------------------------------------------------------------
(* The options: the command line before the environment before the file *)

\* po::store: the first source of an option wins.
LEMMA StoredValue ==
  ASSUME NEW g, NEW s, NEW o
  PROVE  /\ o \in DOMAIN Stored(g, s) <=> o \in DOMAIN g \/ o \in DOMAIN s
         /\ o \in DOMAIN g => Stored(g, s)[o] = g[o]
         /\ o \notin DOMAIN g /\ o \in DOMAIN s => Stored(g, s)[o] = s[o]
BY DEF Stored

\* The sources of an option without a file and with one.
LEMMA TwoOrThree ==
  ASSUME NEW a, NEW b, NEW c
  PROVE  /\ <<a, b>> \o <<c>> = <<a, b, c>> /\ <<a, b>> \o <<>> = <<a, b>>
<1> PICK S : S = {a, b, c}
  OBVIOUS
<1>1. a \in S /\ b \in S /\ c \in S
  OBVIOUS
<1>2. <<a, b>> \in Seq(S) /\ <<c>> \in Seq(S) /\ <<a, b, c>> \in Seq(S) /\ <<>> \in Seq(S)
  BY <1>1
<1>3. <<a, b>> \o <<>> = <<a, b>>
  BY <1>2, ConcatEmptySeq
<1>4. <<a, b>> \o <<c>> = <<a, b, c>>
  <2> PICK u : u = <<a, b>> \o <<c>>
    OBVIOUS
  <2> PICK v : v = <<a, b, c>>
    OBVIOUS
  <2>1. v \in Seq(S) /\ Len(v) = 3 /\ v[1] = a /\ v[2] = b /\ v[3] = c
    BY <1>2
  <2> PICK x : x = <<a, b>>
    OBVIOUS
  <2> PICK y : y = <<c>>
    OBVIOUS
  <2>2. Len(x) = 2 /\ x[1] = a /\ x[2] = b /\ Len(y) = 1 /\ y[1] = c
    OBVIOUS
  <2>3. x \in Seq(S) /\ y \in Seq(S) /\ u = x \o y
    BY <1>2
  <2>4. /\ u \in Seq(S) /\ Len(u) = Len(x) + Len(y)
        /\ \A i \in 1..(Len(x) + Len(y)) : u[i] = IF i <= Len(x) THEN x[i] ELSE y[i - Len(x)]
    BY <2>3, ConcatProperties
  <2>5. Len(u) = 3 /\ u[1] = a /\ u[2] = b /\ u[3] = c
    <3>1. Len(u) = 3 /\ \A i \in 1..3 : u[i] = IF i <= 2 THEN x[i] ELSE y[i - 2]
      BY <2>2, <2>4
    <3>2. u[1] = x[1] /\ u[2] = x[2] /\ u[3] = y[1]
      BY <3>1
    <3>3. QED
      BY <2>2, <3>1, <3>2
  <2>6. u = v
    <3>1. \A i \in 1..Len(u) : u[i] = v[i]
      BY <2>1, <2>5
    <3>2. QED
      BY <2>1, <2>4, <2>5, <3>1, SeqEqual
  <2>7. QED
    BY <2>6
<1>5. QED
  BY <1>3, <1>4

\* The least index of a source that gives an option.
LEMMA LeastIndex ==
  ASSUME NEW G, NEW n \in G, G \subseteq 1..3, \A k \in G : n <= k
  PROVE  (CHOOSE k \in G : \A j \in G : k <= j) = n
<1>1. \A k \in G : (\A j \in G : k <= j) => k = n
  OBVIOUS
<1>2. QED
  BY <1>1

\* The value of the first source that gives the option, or the default.
LEMMA WantedFrom ==
  ASSUME NEW o, NEW S, S = Sources, Len(S) \in 0..3, DOMAIN S = 1..Len(S)
  PROVE  /\ \A n \in 1..Len(S) : o \in DOMAIN S[n] /\ (\A k \in 1..(n - 1) : o \notin DOMAIN S[k])
                => Wanted(o) = S[n][o]
         /\ (\A n \in 1..Len(S) : o \notin DOMAIN S[n]) => Wanted(o) = Defaults[o]
<1> PICK G : G = {k \in DOMAIN S : o \in DOMAIN S[k]}
  OBVIOUS
<1>1. Wanted(o) = IF G = {} THEN Defaults[o] ELSE S[CHOOSE k \in G : \A j \in G : k <= j][o]
  BY DEF Wanted
<1>2. G \subseteq 1..3
  OBVIOUS
<1>3. ASSUME NEW n \in 1..Len(S), o \in DOMAIN S[n], \A k \in 1..(n - 1) : o \notin DOMAIN S[k]
      PROVE  Wanted(o) = S[n][o]
  <2>1. n \in G /\ \A k \in G : n <= k
    BY <1>3
  <2>2. (CHOOSE k \in G : \A j \in G : k <= j) = n
    BY <1>2, <2>1, LeastIndex
  <2>3. QED
    BY <1>1, <2>1, <2>2
<1>4. QED
  BY <1>1, <1>3

\* parse() stores for each option the value it should have.
LEMMA OptionAsWanted ==
  ASSUME NEW o
  PROVE  GetOption(Parsed(input), o) = Wanted(o)
<1> PICK r : r = Registered(input.line)
  OBVIOUS
<1> PICK e : e = input.env
  OBVIOUS
<1> PICK f : f = input.files[FileName(input)]
  OBVIOUS
<1>1. CASE ~FromFile(input)
  <2>1. Sources = <<r, e>>
    BY <1>1, TwoOrThree DEF Sources
  <2>2. Len(<<r, e>>) = 2 /\ DOMAIN <<r, e>> = 1..2 /\ <<r, e>>[1] = r /\ <<r, e>>[2] = e
    OBVIOUS
  <2>3. Parsed(input) = Stored(r, e)
    BY <1>1 DEF Parsed, BeforeFile
  <2> PICK S : S = Sources
    OBVIOUS
  <2>4. Len(S) = 2 /\ DOMAIN S = 1..2 /\ S[1] = r /\ S[2] = e
    BY <2>1, <2>2
  <2>5. /\ o \in DOMAIN r => Wanted(o) = r[o]
        /\ o \notin DOMAIN r /\ o \in DOMAIN e => Wanted(o) = e[o]
        /\ o \notin DOMAIN r /\ o \notin DOMAIN e => Wanted(o) = Defaults[o]
    <3>1. /\ \A n \in 1..2 : o \in DOMAIN S[n] /\ (\A k \in 1..(n - 1) : o \notin DOMAIN S[k])
                => Wanted(o) = S[n][o]
          /\ (\A n \in 1..2 : o \notin DOMAIN S[n]) => Wanted(o) = Defaults[o]
      BY <2>4, WantedFrom
    <3>2. 1..0 = {} /\ 1..1 = {1} /\ 1..2 = {1, 2} /\ 1..3 = {1, 2, 3}
      OBVIOUS
    <3>3. o \in DOMAIN S[1] => Wanted(o) = S[1][o]
      BY <3>1, <3>2
    <3>4. o \notin DOMAIN S[1] /\ o \in DOMAIN S[2] => Wanted(o) = S[2][o]
      BY <3>1, <3>2
    <3>5. QED
      BY <2>4, <3>1, <3>2, <3>3, <3>4
  <2> PICK g : g = Stored(r, e)
    OBVIOUS
  <2>6. /\ o \in DOMAIN g <=> o \in DOMAIN r \/ o \in DOMAIN e
        /\ o \in DOMAIN r => g[o] = r[o]
        /\ o \notin DOMAIN r /\ o \in DOMAIN e => g[o] = e[o]
    BY StoredValue
  <2>7. GetOption(g, o) = IF o \in DOMAIN g THEN g[o] ELSE Defaults[o]
    BY DEF GetOption
  <2>8. QED
    BY <2>3, <2>5, <2>6, <2>7
<1>2. CASE FromFile(input)
  <2>1. Sources = <<r, e, f>>
    BY <1>2, TwoOrThree DEF Sources
  <2>2. /\ Len(<<r, e, f>>) = 3 /\ DOMAIN <<r, e, f>> = 1..3
        /\ <<r, e, f>>[1] = r /\ <<r, e, f>>[2] = e /\ <<r, e, f>>[3] = f
    OBVIOUS
  <2>3. Parsed(input) = Stored(Stored(r, e), f)
    BY <1>2 DEF Parsed, BeforeFile
  <2> PICK S : S = Sources
    OBVIOUS
  <2>4. Len(S) = 3 /\ DOMAIN S = 1..3 /\ S[1] = r /\ S[2] = e /\ S[3] = f
    BY <2>1, <2>2
  <2>5. /\ o \in DOMAIN r => Wanted(o) = r[o]
        /\ o \notin DOMAIN r /\ o \in DOMAIN e => Wanted(o) = e[o]
        /\ o \notin DOMAIN r /\ o \notin DOMAIN e /\ o \in DOMAIN f => Wanted(o) = f[o]
        /\ o \notin DOMAIN r /\ o \notin DOMAIN e /\ o \notin DOMAIN f => Wanted(o) = Defaults[o]
    <3>1. /\ \A n \in 1..3 : o \in DOMAIN S[n] /\ (\A k \in 1..(n - 1) : o \notin DOMAIN S[k])
                => Wanted(o) = S[n][o]
          /\ (\A n \in 1..3 : o \notin DOMAIN S[n]) => Wanted(o) = Defaults[o]
      BY <2>4, WantedFrom
    <3>2. 1..0 = {} /\ 1..1 = {1} /\ 1..2 = {1, 2} /\ 1..3 = {1, 2, 3}
      OBVIOUS
    <3>3. o \in DOMAIN S[1] => Wanted(o) = S[1][o]
      BY <3>1, <3>2
    <3>4. o \notin DOMAIN S[1] /\ o \in DOMAIN S[2] => Wanted(o) = S[2][o]
      BY <3>1, <3>2
    <3>5. o \notin DOMAIN S[1] /\ o \notin DOMAIN S[2] /\ o \in DOMAIN S[3] => Wanted(o) = S[3][o]
      BY <3>1, <3>2
    <3>6. o \notin DOMAIN S[1] /\ o \notin DOMAIN S[2] /\ o \notin DOMAIN S[3] => Wanted(o) = Defaults[o]
      BY <3>1, <3>2
    <3>7. QED
      BY <2>4, <3>3, <3>4, <3>5, <3>6
  <2> PICK g : g = Stored(r, e)
    OBVIOUS
  <2>6. /\ o \in DOMAIN g <=> o \in DOMAIN r \/ o \in DOMAIN e
        /\ o \in DOMAIN r => g[o] = r[o]
        /\ o \notin DOMAIN r /\ o \in DOMAIN e => g[o] = e[o]
    BY StoredValue
  <2> PICK h : h = Stored(g, f)
    OBVIOUS
  <2>7. /\ o \in DOMAIN h <=> o \in DOMAIN g \/ o \in DOMAIN f
        /\ o \in DOMAIN g => h[o] = g[o]
        /\ o \notin DOMAIN g /\ o \in DOMAIN f => h[o] = f[o]
    BY StoredValue
  <2>8. GetOption(h, o) = IF o \in DOMAIN h THEN h[o] ELSE Defaults[o]
    BY DEF GetOption
  <2>9. QED
    BY <2>3, <2>5, <2>6, <2>7, <2>8
<1>3. QED
  BY <1>1, <1>2

-----------------------------------------------------------------------------
(* What is logged, to which sinks *)

Before == {"lock", "parse", "logger"}

WantedSinks == {s \in DOMAIN SinkFlag : Wanted(SinkFlag[s]) = "true"}
WantedLevel == LevelOf(Wanted("log-level"))

\* Nothing is logged while there is no logger, and the logging core is set up as
\* the options ask for as long as there is one.
LogPlaced(A, lv, g) ==
  /\ pc \in Before => "logger" \notin services /\ sinks = {} /\ written = {}
  /\ pc = "logger" => given = g
  /\ pc \notin Before \cup Over => "logger" \in services
  /\ "logger" \notin services /\ pc # "gone" => written = {}
  /\ "logger" \in services => given = g /\ sinks = A /\ filter = lv /\ (enabled <=> A # {})

Told(A, lv) ==
  /\ (terminated /\ Severity["info"] >= lv) => \A s \in A : <<s, "info", "completed">> \in written
  /\ (exit = "failure" /\ "logger" \in services) => \A s \in A : <<s, "fatal", "error">> \in written
  /\ \A w \in written : w[1] \in A /\ Severity[w[2]] >= lv

LogInv == LogPlaced(WantedSinks, WantedLevel, Parsed(input)) /\ Told(WantedSinks, WantedLevel)

LEMMA LevelIsSeverity == \A token : LevelOf(token) \in {1, 2, 4, 5}
BY DEF LevelOf, Severity

\* The constants of a run: its sinks, its level and its options.
LEMMA OptionsAsWanted ==
  /\ LogSinks(Parsed(input)) = WantedSinks
  /\ LevelOf(GetOption(Parsed(input), "log-level")) = WantedLevel
BY OptionAsWanted DEF LogSinks, WantedSinks, WantedLevel

\* With a sink for each that is asked for, each message reaches all of them
\* and nothing else.
LEMMA LogsTo ==
  ASSUME NEW A, NEW lv, NEW texts, LogMessages(texts),
         sinks = A, filter = lv, enabled <=> A # {}
  PROVE  /\ written \subseteq written'
         /\ \A w \in written' : w \in written \/ (w[1] \in A /\ Severity[w[2]] >= lv)
         /\ \A t \in texts, s \in A : Severity[t[1]] >= lv => <<s, t[1], t[2]>> \in written'
<1>1. Targets = A
  BY DEF Targets
<1>2. written' = written \cup {<<k, t[1], t[2]>> : k \in A, t \in {u \in texts : Severity[u[1]] >= lv}}
  BY <1>1 DEF LogMessages, Passes
<1>3. ASSUME NEW w \in written', w \notin written
      PROVE  w[1] \in A /\ Severity[w[2]] >= lv
  <2>1. \E k \in A, t \in {u \in texts : Severity[u[1]] >= lv} : w = <<k, t[1], t[2]>>
    BY <1>2, <1>3
  <2>2. QED
    BY <2>1
<1>4. ASSUME NEW t \in texts, NEW s \in A, Severity[t[1]] >= lv
      PROVE  <<s, t[1], t[2]>> \in written'
  <2>1. t \in {u \in texts : Severity[u[1]] >= lv}
    BY <1>4
  <2>2. QED
    BY <1>2, <2>1
<1>5. QED
  BY <1>2, <1>3, <1>4

\* What is told stays told, and the end of run() is told when it comes.
LEMMA ToldGrows ==
  ASSUME NEW A, NEW lv, NEW texts, LogMessages(texts), Told(A, lv), lv \in {1, 2, 4, 5},
         sinks = A, filter = lv, enabled <=> A # {},
         terminated' => terminated \/ <<"info", "completed">> \in texts,
         exit' = "failure" /\ "logger" \in services' =>
           (exit = "failure" /\ "logger" \in services) \/ <<"fatal", "error">> \in texts
  PROVE  Told(A, lv)'
<1>1. /\ written \subseteq written'
      /\ \A w \in written' : w \in written \/ (w[1] \in A /\ Severity[w[2]] >= lv)
      /\ \A t \in texts, s \in A : Severity[t[1]] >= lv => <<s, t[1], t[2]>> \in written'
  BY LogsTo
<1>2. ASSUME NEW a, NEW b, <<a, b>> \in texts, Severity[a] >= lv, NEW s \in A
      PROVE  <<s, a, b>> \in written'
  <2> PICK t : t = <<a, b>>
    OBVIOUS
  <2>1. t \in texts /\ t[1] = a /\ t[2] = b
    BY <1>2
  <2>2. QED
    BY <1>1, <1>2, <2>1
<1>3. (terminated' /\ Severity["info"] >= lv) => \A s \in A : <<s, "info", "completed">> \in written'
  BY <1>1, <1>2 DEF Told
<1>4. (exit' = "failure" /\ "logger" \in services') => \A s \in A : <<s, "fatal", "error">> \in written'
  <2>1. Severity["fatal"] >= lv
    BY DEF Severity
  <2>2. QED
    BY <1>1, <1>2, <2>1 DEF Told
<1>5. \A w \in written' : w[1] \in A /\ Severity[w[2]] >= lv
  BY <1>1 DEF Told
<1>6. QED
  BY <1>3, <1>4, <1>5 DEF Told

\* A step that leaves the log alone.
LEMMA LogKept ==
  ASSUME NEW A, NEW lv, NEW g, UNCHANGED <<logVars, input, given, services, terminated, exit>>,
         LogPlaced(A, lv, g), Told(A, lv),
         pc' = pc \/ (pc = "lock" /\ pc' = "parse") \/ (pc \notin Before \cup Over /\ pc' \notin Before)
           \/ (pc \in Over \ {"gone"} /\ pc' \in Over)
  PROVE  LogPlaced(A, lv, g)' /\ Told(A, lv)'
<1>1. LogPlaced(A, lv, g)'
  BY DEF LogPlaced, logVars, Before, Over
<1>2. Told(A, lv)'
  BY DEF Told, logVars
<1>3. QED
  BY <1>1, <1>2

\* The steps that announce themselves are those of a gateway with a logger.
LEMMA AnnouncedStep ==
  ASSUME NEW A, NEW lv, NEW g, NEW texts, lv \in {1, 2, 4, 5}, LogPlaced(A, lv, g), Told(A, lv),
         LogMessages(texts), UNCHANGED <<input, given>>,
         "logger" \in services, "logger" \in services', pc' \notin Before,
         terminated' => terminated \/ <<"info", "completed">> \in texts,
         exit' = "failure" => exit = "failure" \/ <<"fatal", "error">> \in texts
  PROVE  LogPlaced(A, lv, g)' /\ Told(A, lv)'
<1>1. sinks = A /\ filter = lv /\ (enabled <=> A # {}) /\ given = g
  BY DEF LogPlaced
<1>2. sinks' = sinks /\ filter' = filter /\ enabled' = enabled
  BY DEF LogMessages
<1>3. LogPlaced(A, lv, g)'
  BY <1>1, <1>2 DEF LogPlaced, Before
<1>4. Told(A, lv)'
  BY <1>1, ToldGrows
<1>5. QED
  BY <1>3, <1>4

\* Where run() is while something is announced.
LEMMA HasLogger ==
  ASSUME NEW A, NEW lv, NEW g, LogPlaced(A, lv, g), pc \notin Before \cup Over
  PROVE  "logger" \in services
BY DEF LogPlaced

LEMMA StartsStep ==
  ASSUME NEW A, NEW lv, NEW g, lv \in {1, 2, 4, 5}, LogPlaced(A, lv, g), Told(A, lv),
         Starts \/ StopCommand \/ StopNode, Announced(Progress)
  PROVE  LogPlaced(A, lv, g)' /\ Told(A, lv)'
<1>1. /\ pc \notin Before \cup Over /\ pc' \notin Before /\ services \subseteq services'
      /\ UNCHANGED <<terminated, exit>>
  BY DEF Starts, Register, MakeNode, MakeCommand, StopCommand, StopNode, Goes, nodeVars, Before, Over
<1>2. "logger" \in services /\ "logger" \in services'
  BY <1>1, HasLogger
<1>3. LogMessages(Progress) /\ UNCHANGED <<input, given>>
  BY DEF Announced
<1>4. QED
  BY <1>1, <1>2, <1>3, AnnouncedStep

LEMMA FinishStep ==
  ASSUME NEW A, NEW lv, NEW g, lv \in {1, 2, 4, 5}, LogPlaced(A, lv, g), Told(A, lv),
         Finish, Announced({<<"info", "completed">>})
  PROVE  LogPlaced(A, lv, g)' /\ Told(A, lv)'
<1>1. /\ pc \notin Before \cup Over /\ pc' \notin Before /\ services' = services
      /\ exit' = "success"
  BY DEF Finish, Goes, nodeVars, Before, Over
<1>2. "logger" \in services /\ "logger" \in services'
  BY <1>1, HasLogger
<1> PICK texts : texts = {<<"info", "completed">>}
  OBVIOUS
<1>3. <<"info", "completed">> \in texts
  OBVIOUS
<1>4. LogMessages(texts) /\ UNCHANGED <<input, given>>
  BY DEF Announced
<1>5. QED
  BY <1>1, <1>2, <1>3, <1>4, AnnouncedStep

\* The command thread runs only between the setup and its join.
LEMMA CommandsStep ==
  ASSUME NEW A, NEW lv, NEW g, lv \in {1, 2, 4, 5}, LogPlaced(A, lv, g), Told(A, lv),
         PlacesInv, Commands
  PROVE  LogPlaced(A, lv, g)' /\ Told(A, lv)'
<1>1. /\ consumer \in {"loop", "handling"}
      /\ UNCHANGED <<pc, services, terminated, exit>>
  BY DEF Commands, Consume, Handled
<1>2. pc \notin Before \cup Over
  BY <1>1 DEF PlacesInv, ConsumerPlaced, Before, Over, Setup
<1>3. "logger" \in services /\ "logger" \in services' /\ pc' \notin Before
  BY <1>1, <1>2, HasLogger
<1>4. PICK texts : LogMessages(texts) /\ UNCHANGED <<input, given>>
  BY DEF Commands, Announced
<1>5. QED
  BY <1>1, <1>3, <1>4, AnnouncedStep

\* A setup that throws: before there is a logger, while it is made, or after.
LEMMA FailsStep ==
  ASSUME NEW A, NEW lv, NEW g, lv \in {1, 2, 4, 5}, LogPlaced(A, lv, g), Told(A, lv), Fails
  PROVE  LogPlaced(A, lv, g)' /\ Told(A, lv)'
<1>1. /\ pc \in Setup /\ pc' = "return" /\ exit' = "failure"
      /\ UNCHANGED <<services, terminated, input, given>>
  BY DEF Fails, SetupFails, Caught, Goes, nodeVars
<1>2. CASE pc \in {"parse", "logger"}
  <2>1. "logger" \notin services /\ written = {}
    BY <1>2 DEF LogPlaced, Before
  <2>2. written' = written
    BY <1>2, <2>1 DEF Fails, ConstructThrows, logVars
  <2>3. QED
    BY <1>1, <2>1, <2>2 DEF LogPlaced, Told, Before, Over
<1>3. CASE pc \notin {"parse", "logger"}
  <2>1. pc \notin Before \cup Over /\ pc' \notin Before
    BY <1>1, <1>3 DEF Setup, Before, Over
  <2>2. "logger" \in services /\ "logger" \in services'
    BY <1>1, <2>1, HasLogger
  <2> PICK texts : texts = Progress \cup {<<"fatal", "error">>}
    OBVIOUS
  <2>3. <<"fatal", "error">> \in texts
    OBVIOUS
  <2>4. LogMessages(texts)
    BY <1>3 DEF Fails
  <2>5. QED
    BY <1>1, <2>1, <2>2, <2>3, <2>4, AnnouncedStep
<1>4. QED
  BY <1>2, <1>3

\* The logger is made from what was parsed.
LEMMA MakeLoggerStep ==
  ASSUME NEW A, NEW lv, NEW g, LogPlaced(A, lv, g), Told(A, lv), PlacesInv, MakeLogger,
         A = LogSinks(g), lv = LevelOf(GetOption(g, "log-level"))
  PROVE  LogPlaced(A, lv, g)' /\ Told(A, lv)'
<1>1. /\ pc = "logger" /\ pc' = "epics" /\ UNCHANGED <<terminated, exit, input, given>>
      /\ Construct(Asked, Level)
  BY DEF MakeLogger, Register, Goes
<1>2. given = g /\ sinks = {} /\ written = {} /\ exit = "none"
  BY <1>1 DEF LogPlaced, Before, PlacesInv, OutcomePlaced, Over
<1>4. sinks' = A /\ filter' = lv /\ (enabled' <=> A # {}) /\ written' = {}
  BY <1>1, <1>2 DEF Construct, Asked, Level
<1>5. LogPlaced(A, lv, g)'
  BY <1>1, <1>2, <1>4 DEF LogPlaced, Before, Over, MakeLogger, Register
<1>6. Told(A, lv)'
  BY <1>1, <1>2, <1>4 DEF Told
<1>7. QED
  BY <1>5, <1>6

\* No more is parsed with HELP than setup needs, and otherwise the logger is next.
LEMMA ParseStep ==
  ASSUME NEW A, NEW lv, NEW g, LogPlaced(A, lv, g), Told(A, lv), ParseOptions, g = Parsed(input)
  PROVE  LogPlaced(A, lv, g)' /\ Told(A, lv)'
<1>1. /\ pc = "parse" /\ pc' \in {"return", "logger"} /\ given' = g /\ exit' \in {"success", exit}
      /\ UNCHANGED <<logVars, services, terminated>>
  BY DEF ParseOptions, Parse, Goes, nodeVars
<1>2. "logger" \notin services /\ sinks = {} /\ written = {}
  BY <1>1 DEF LogPlaced, Before
<1>3. QED
  BY <1>1, <1>2 DEF LogPlaced, Told, logVars, Before, Over

\* With the process the logger goes, but not what it has written.
LEMMA EndsStep ==
  ASSUME NEW A, NEW lv, NEW g, LogPlaced(A, lv, g), Told(A, lv), Ends
  PROVE  LogPlaced(A, lv, g)' /\ Told(A, lv)'
<1>1. /\ pc' = "gone" /\ services' = {} /\ UNCHANGED <<terminated, exit, written, input, given>>
  BY DEF Ends, ProcessEnds, Goes, Destruct, logVars
<1>2. QED
  BY <1>1 DEF LogPlaced, Told, Before, Over

LEMMA SilentStep ==
  ASSUME NEW A, NEW lv, NEW g, LogPlaced(A, lv, g), Told(A, lv), Silent,
         Lock \/ Check \/ Relock \/ JoinCommand \/ JoinPool \/ Return \/ StopSteps
  PROVE  LogPlaced(A, lv, g)' /\ Told(A, lv)'
<1>1. UNCHANGED <<logVars, input, given>>
  BY DEF Silent
<1>2. /\ UNCHANGED <<services, terminated, exit>>
      /\ \/ pc' = pc
         \/ pc = "lock" /\ pc' = "parse"
         \/ pc \notin Before \cup Over /\ pc' \notin Before
         \/ pc \in Over \ {"gone"} /\ pc' \in Over
  <2>1. CASE Lock \/ Check \/ Relock \/ JoinCommand \/ JoinPool
    BY <2>1 DEF Lock, Check, Relock, JoinCommand, JoinPool, Goes, nodeVars, stopVars, Before, Over
  <2>2. CASE Return
    BY <2>2 DEF Return, Goes, nodeVars, Over
  <2>3. ASSUME NEW c \in Callers, Call(c) \/ StopCall(c) \/ StopReturns(c)
        PROVE  UNCHANGED <<services, terminated, exit>> /\ (pc' = pc \/ (pc = "asleep" /\ pc' = "relock"))
    BY <2>3 DEF Call, StopCall, StopReturns, StopLocked, Notified, nodeVars
  <2>4. CASE Wake \/ Signal \/ HandlerStops \/ HandlerReturns
    BY <2>4 DEF Wake, Signal, HandlerStops, HandlerReturns, StopLocked, Notified, Goes, nodeVars,
       Before, Over
  <2>5. CASE StopSteps
    BY <2>3, <2>4, <2>5 DEF StopSteps, Before, Over
  <2>6. QED
    BY <2>1, <2>2, <2>5
<1>3. QED
  BY <1>1, <1>2, LogKept

LEMMA LogStepAt ==
  ASSUME NEW A, NEW lv, NEW g, lv \in {1, 2, 4, 5}, LogPlaced(A, lv, g), Told(A, lv),
         PlacesInv, [SetupNext]_setupVars,
         g = Parsed(input), A = LogSinks(g), lv = LevelOf(GetOption(g, "log-level"))
  PROVE  LogPlaced(A, lv, g)' /\ Told(A, lv)'
<1>1. CASE UNCHANGED setupVars
  BY <1>1, LogKept DEF setupVars, vars, nodeVars
<1>2. CASE SetupStep
  <2>1. CASE (Starts \/ StopCommand \/ StopNode) /\ Announced(Progress)
    BY <2>1, StartsStep
  <2>2. CASE Finish /\ Announced({<<"info", "completed">>})
    BY <2>2, FinishStep
  <2>3. CASE (Lock \/ Check \/ Relock \/ JoinCommand \/ Return) /\ Silent
    BY <2>3, SilentStep
  <2>4. CASE ParseOptions
    BY <2>4, ParseStep
  <2>5. CASE MakeLogger
    BY <2>5, MakeLoggerStep
  <2>6. QED
    BY <1>2, <2>1, <2>2, <2>3, <2>4, <2>5 DEF SetupStep
<1>3. CASE Fails
  BY <1>3, FailsStep
<1>4. CASE Commands
  BY <1>4, CommandsStep
<1>5. CASE Ends
  BY <1>5, EndsStep
<1>6. CASE (JoinPool \/ StopSteps) /\ Silent
  BY <1>6, SilentStep
<1>7. QED
  BY <1>1, <1>2, <1>3, <1>4, <1>5, <1>6 DEF SetupNext

LEMMA InputStays ==
  ASSUME [SetupNext]_setupVars
  PROVE  input' = input
BY DEF SetupNext, setupVars, SetupStep, ParseOptions, MakeLogger, Announced, Silent, Fails, Commands, Ends

LEMMA LogStep ==
  ASSUME LogInv, PlacesInv, [SetupNext]_setupVars
  PROVE  LogInv'
<1> PICK A : A = WantedSinks
  OBVIOUS
<1> PICK lv : lv = WantedLevel
  OBVIOUS
<1> PICK g : g = Parsed(input)
  OBVIOUS
<1>1. lv \in {1, 2, 4, 5}
  BY LevelIsSeverity DEF WantedLevel
<1>2. A = LogSinks(g) /\ lv = LevelOf(GetOption(g, "log-level"))
  BY OptionsAsWanted
<1>3. LogPlaced(A, lv, g) /\ Told(A, lv)
  BY DEF LogInv
<1>4. LogPlaced(A, lv, g)' /\ Told(A, lv)'
  BY <1>1, <1>2, <1>3, LogStepAt
<1>5. input' = input
  BY InputStays
<1>6. WantedSinks' = A /\ WantedLevel' = lv
  <2>1. \A o : Wanted(o)' = Wanted(o)
    BY <1>5 DEF Wanted, Sources
  <2>2. QED
    BY <2>1 DEF WantedSinks, WantedLevel
<1>7. Parsed(input') = g
  BY <1>5
<1>8. QED
  BY <1>4, <1>6, <1>7 DEF LogInv, LogPlaced, Told

LEMMA LogStart ==
  ASSUME SetupInit
  PROVE  LogInv
BY DEF SetupInit, Init, LogInit, LogInv, LogPlaced, Told, Before, Over

\* From its construction to the end of the process the logger writes to the
\* sinks that the options ask for, at their level, whatever run() does.
THEOREM LogInvariant == SetupSpec => []LogInv
<1>1. SetupInit => LogInv
  BY LogStart
<1>2. LogInv /\ PlacesInv /\ [SetupNext]_setupVars => LogInv'
  BY LogStep
<1>3. QED
  BY <1>1, <1>2, InvInit, InvStep, SetupRefinesGateway, PTL DEF SetupSpec

\* A clean shutdown, and the error of a setup that fails once there is a logger,
\* reach every sink that the options ask for; when parse() or the logger's own
\* constructor fails nothing is logged at all; and no message of any severity
\* reaches another sink or one whose level is above it: for any command line,
\* environment and file, an option having the value of its first source.
THEOREM LogTells == SetupSpec => []LogTellsTheEnd
<1>1. LogInv => LogTellsTheEnd
  <2> SUFFICES ASSUME LogInv PROVE LogTellsTheEnd
    OBVIOUS
  <2>1. "logger" \notin services /\ pc # "gone" => written = {}
    BY DEF LogInv, LogPlaced
  <2>2. Told(WantedSinks, WantedLevel)
    BY DEF LogInv
  <2>3. QED
    BY <2>1, <2>2 DEF Told, LogTellsTheEnd, WantedSinks, WantedLevel
<1>2. QED
  BY <1>1, LogInvariant, PTL

=============================================================================
