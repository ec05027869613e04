---------------------------- MODULE StorageProofs ----------------------------
(***************************************************************************)
(* Proofs about Storage for any number of threads, rows and calls.         *)
(***************************************************************************)
EXTENDS Storage, SequenceTheorems, TLAPS

-----------------------------------------------------------------------------
(* What a call or a return does to a stack *)

StackType == stack \in [Threads -> Seq(Frame)]
Others(t) == stack' \in [Threads -> Seq(Frame)] /\ \A u \in Threads \ {t} : stack'[u] = stack[u]

Pushes(t, f) ==
  /\ Others(t)
  /\ Len(stack'[t]) = Len(stack[t]) + 1 /\ stack'[t][Len(stack[t]) + 1] = f
  /\ \A i \in 1..Len(stack[t]) : stack'[t][i] = stack[t][i]

Replaces(t, f) ==
  /\ Others(t)
  /\ Len(stack'[t]) = Len(stack[t]) /\ stack'[t][Len(stack[t])] = f
  /\ \A i \in 1..(Len(stack[t]) - 1) : stack'[t][i] = stack[t][i]

Pops(t) ==
  /\ Others(t)
  /\ Len(stack'[t]) = Len(stack[t]) - 1
  /\ \A i \in 1..(Len(stack[t]) - 1) : stack'[t][i] = stack[t][i]

LEMMA AppendIs ==
  ASSUME NEW s \in Seq(Frame), NEW f \in Frame
  PROVE  /\ Append(s, f) \in Seq(Frame)
         /\ Len(Append(s, f)) = Len(s) + 1 /\ Append(s, f)[Len(s) + 1] = f
         /\ \A i \in 1..Len(s) : Append(s, f)[i] = s[i]
OBVIOUS

LEMMA FrontIs ==
  ASSUME NEW s \in Seq(Frame), s # <<>>
  PROVE  /\ Len(s) \in Nat \ {0} /\ Last(s) = s[Len(s)] /\ Last(s) \in Frame
         /\ Front(s) \in Seq(Frame) /\ Len(Front(s)) = Len(s) - 1
         /\ \A i \in 1..(Len(s) - 1) : Front(s)[i] = s[i]
<1> DEFINE n == Len(s)
<1>1. n \in Nat \ {0} /\ \A i \in 1..n : s[i] \in Frame
  BY EmptySeq, LenProperties, ElementOfSeq
<1>2. Front(s) = SubSeq(s, 1, n - 1) /\ Last(s) = s[n]
  BY DEF Front, Last
<1> HIDE DEF n
<1>3. n \in 1..n /\ n - 1 \in Int /\ \A i \in 1..(n - 1) : s[i] \in Frame
  BY <1>1
<1>4. /\ SubSeq(s, 1, n - 1) \in Seq(Frame)
      /\ Len(SubSeq(s, 1, n - 1)) = IF 1 <= n - 1 THEN n - 1 - 1 + 1 ELSE 0
      /\ \A i \in 1..(n - 1 - 1 + 1) : SubSeq(s, 1, n - 1)[i] = s[1 + i - 1]
  BY <1>3, SubSeqProperties
<1>5. n - 1 - 1 + 1 = n - 1 /\ (IF 1 <= n - 1 THEN n - 1 ELSE 0) = n - 1
  BY <1>1
<1>6. ASSUME NEW i \in 1..(n - 1) PROVE SubSeq(s, 1, n - 1)[i] = s[i]
  <2>1. 1 + i - 1 = i
    BY <1>1
  <2> QED
    BY <1>4, <1>5, <2>1
<1> QED
  BY <1>1, <1>2, <1>3, <1>4, <1>5, <1>6 DEF n

LEMMA PushIs ==
  ASSUME StackType, NEW t \in Threads, NEW f \in Frame, stack' = [stack EXCEPT ![t] = Append(@, f)]
  PROVE  Pushes(t, f)
<1>1. stack[t] \in Seq(Frame) /\ stack'[t] = Append(stack[t], f)
  BY DEF StackType
<1>2. Others(t)
  BY <1>1, AppendIs DEF StackType, Others
<1> QED
  BY <1>1, <1>2, AppendIs DEF Pushes

LEMMA ReplaceIs ==
  ASSUME StackType, NEW t \in Threads, NEW f \in Frame, stack[t] # <<>>, Replaced(t, f)
  PROVE  Replaces(t, f)
<1>1. stack[t] \in Seq(Frame) /\ stack'[t] = Append(Front(stack[t]), f)
  BY DEF StackType, Replaced
<1>2. /\ Len(stack[t]) \in Nat \ {0} /\ Front(stack[t]) \in Seq(Frame)
      /\ Len(Front(stack[t])) = Len(stack[t]) - 1
      /\ \A i \in 1..(Len(stack[t]) - 1) : Front(stack[t])[i] = stack[t][i]
  BY <1>1, FrontIs
<1>3. Others(t)
  BY <1>1, <1>2, AppendIs DEF StackType, Others, Replaced
<1>4. /\ Len(stack'[t]) = Len(stack[t]) /\ stack'[t][Len(stack[t])] = f
      /\ \A i \in 1..(Len(stack[t]) - 1) : stack'[t][i] = Front(stack[t])[i]
  BY <1>1, <1>2, AppendIs
<1> QED
  BY <1>2, <1>3, <1>4 DEF Replaces

LEMMA PopIs ==
  ASSUME StackType, NEW t \in Threads, stack[t] # <<>>, Popped(t)
  PROVE  Pops(t)
<1>1. stack[t] \in Seq(Frame) /\ stack'[t] = Front(stack[t])
  BY DEF StackType, Popped
<1>2. Others(t)
  BY <1>1, FrontIs DEF StackType, Others, Popped
<1> QED
  BY <1>1, <1>2, FrontIs DEF Pops

-----------------------------------------------------------------------------
(* The shape of a stack *)

Depth(t) == Len(stack[t])
\* A thread iterates, or scans for its iteration, or uses the repository in the
\* handler of the scan; or it is in one other call.
Shape(t) ==
  /\ Depth(t) <= 3
  /\ \A i \in 1..Depth(t) : /\ stack[t][i].op = "iterate" => i = 1
                            /\ stack[t][i].op = "process" <=> i = 2
  /\ Depth(t) >= 2 => stack[t][1].op = "iterate" /\ stack[t][1].at = "loop"
  /\ Depth(t) = 3 => stack[t][2].at = "handler"
Shapes == \A t \in Threads : Shape(t)

LEMMA TopIs ==
  ASSUME StackType, Shapes, NEW t \in Threads, stack[t] # <<>>
  PROVE  /\ Depth(t) \in 1..3 /\ Top(t) = stack[t][Depth(t)] /\ Top(t) \in Frame
         /\ Top(t).op = "iterate" => Depth(t) = 1
         /\ Top(t).op = "process" <=> Depth(t) = 2
         /\ Depth(t) = 3 => Top(t).op \in {"add", "single"}
<1>1. stack[t] \in Seq(Frame)
  BY DEF StackType
<1>2. /\ Depth(t) \in Nat \ {0} /\ Top(t) = stack[t][Depth(t)] /\ Top(t) \in Frame
  BY <1>1, FrontIs DEF Top, Depth
<1>3. Depth(t) <= 3
  BY DEF Shapes, Shape
<1>4. \A i \in 1..Depth(t) : /\ stack[t][i].op = "iterate" => i = 1
                             /\ stack[t][i].op = "process" <=> i = 2
  BY DEF Shapes, Shape
<1>5. Top(t).op \in {"add", "process", "iterate", "single"}
  BY <1>2 DEF Frame
<1>6. Depth(t) \in 1..3 /\ Depth(t) \in 1..Depth(t)
  BY <1>2, <1>3
<1>7. /\ Top(t).op = "iterate" => Depth(t) = 1
      /\ Top(t).op = "process" <=> Depth(t) = 2
  BY <1>2, <1>4, <1>6
<1> QED
  BY <1>2, <1>5, <1>6, <1>7

\* A thread holds the mutex in an insert and in a scan, with all its handler
\* does.
LEMMA HoldsIff ==
  ASSUME StackType, Shapes, NEW t \in Threads
  PROVE  Holds(t) <=> stack[t] # <<>> /\ (Inside(Top(t)) \/ Depth(t) = 3)
<1>1. /\ DOMAIN stack[t] = 1..Depth(t)
      /\ Depth(t) \in Nat /\ (stack[t] = <<>> <=> Depth(t) = 0)
  BY EmptySeq, LenProperties DEF StackType, Depth
<1>2. CASE stack[t] = <<>>
  BY <1>1, <1>2 DEF Holds
<1>3. CASE Depth(t) = 1
  BY <1>1, <1>3, TopIs DEF Holds
<1>4. CASE Depth(t) = 2
  <2>1. ~Inside(stack[t][1])
    BY <1>4 DEF Inside, Shapes, Shape
  <2> QED
    BY <1>1, <1>4, <2>1, TopIs DEF Holds
<1>5. CASE Depth(t) = 3
  <2>1. Inside(stack[t][2])
    BY <1>5 DEF Inside, Shapes, Shape
  <2> QED
    BY <1>1, <1>5, <2>1 DEF Holds
<1> QED
  BY <1>1, <1>2, <1>3, <1>4, <1>5, TopIs

-----------------------------------------------------------------------------
(* The mutex *)

MutexInv == \A t, u \in Threads : Holds(t) /\ Holds(u) => t = u

\* What a step of t does to the mutex: t gets it only when it is available.
Locks(t) == Holds(t)' => Holds(t) \/ Available(t)

LEMMA OthersHold ==
  ASSUME NEW t \in Threads, Others(t), NEW u \in Threads \ {t}
  PROVE  Holds(u)' <=> Holds(u)
BY DEF Others, Holds

LEMMA MutexKept ==
  ASSUME NEW t \in Threads, Others(t), MutexInv, Locks(t)
  PROVE  MutexInv'
BY OthersHold DEF MutexInv, Locks, Available

\* The shape after each kind of change.
LEMMA OthersShape ==
  ASSUME NEW t \in Threads, Others(t), Shapes, Shape(t)'
  PROVE  StackType' /\ Shapes'
BY DEF Others, Shapes, Shape, Depth, StackType

LEMMA PushedShape ==
  ASSUME StackType, Shapes, NEW t \in Threads, NEW f \in Frame, Pushes(t, f),
         \/ stack[t] = <<>> /\ f.op # "process"
         \/ stack[t] # <<>> /\ Top(t).op = "process" /\ Top(t).at = "handler" /\ f.op \in {"add", "single"}
  PROVE  /\ StackType' /\ Shapes'
         /\ stack'[t] # <<>> /\ Top(t)' = f
         /\ Depth(t)' = 3 <=> stack[t] # <<>>
<1>1. /\ Depth(t) \in Nat /\ (stack[t] = <<>> <=> Depth(t) = 0)
      /\ (stack'[t] = <<>> <=> Depth(t)' = 0)
  BY EmptySeq, LenProperties DEF StackType, Depth, Pushes, Others
<1>2. /\ Depth(t)' = Depth(t) + 1 /\ stack'[t][Depth(t) + 1] = f
      /\ \A i \in 1..Depth(t) : stack'[t][i] = stack[t][i]
      /\ Others(t)
  BY DEF Pushes, Depth
<1>3. CASE stack[t] = <<>>
  <2>1. Depth(t)' = 1 /\ stack'[t][1] = f
    BY <1>1, <1>2, <1>3
  <2>2. Shape(t)'
    BY <1>3, <2>1 DEF Shape
  <2> QED
    BY <1>1, <1>2, <1>3, <2>1, <2>2, OthersShape DEF Top, Last, Depth
<1>4. CASE stack[t] # <<>>
  <2>1. Depth(t) = 2 /\ Top(t) = stack[t][2]
    BY <1>4, TopIs
  <2>2. Depth(t)' = 3 /\ stack'[t][3] = f /\ stack'[t][1] = stack[t][1] /\ stack'[t][2] = stack[t][2]
    BY <1>2, <2>1
  <2>3. Shape(t)'
    <3>1. /\ stack[t][1].op = "iterate" /\ stack[t][1].at = "loop"
          /\ stack[t][2].op = "process" /\ stack[t][2].at = "handler"
      BY <1>4, <2>1 DEF Shapes, Shape
    <3>2. \A i \in 1..3 : i = 1 \/ i = 2 \/ i = 3
      OBVIOUS
    <3> QED
      BY <1>4, <2>2, <3>1, <3>2 DEF Shape
  <2> QED
    BY <1>1, <1>2, <1>4, <2>2, <2>3, OthersShape DEF Top, Last, Depth
<1> QED
  BY <1>3, <1>4

LEMMA ReplacedShape ==
  ASSUME StackType, Shapes, NEW t \in Threads, stack[t] # <<>>, NEW f \in Frame, Replaces(t, f),
         f.op = Top(t).op
  PROVE  /\ StackType' /\ Shapes'
         /\ stack'[t] # <<>> /\ Top(t)' = f /\ Depth(t)' = Depth(t)
<1>1. /\ Depth(t) \in 1..3 /\ Top(t) = stack[t][Depth(t)]
      /\ (stack'[t] = <<>> <=> Depth(t)' = 0)
  BY TopIs, EmptySeq, LenProperties DEF StackType, Depth, Replaces, Others
<1>2. /\ Depth(t)' = Depth(t) /\ stack'[t][Depth(t)] = f
      /\ \A i \in 1..(Depth(t) - 1) : stack'[t][i] = stack[t][i]
      /\ Others(t)
  BY DEF Replaces, Depth
<1>3. \A i \in 1..Depth(t) : stack'[t][i].op = stack[t][i].op
  BY <1>1, <1>2
<1>4. Depth(t) >= 2 => stack'[t][1] = stack[t][1]
  BY <1>1, <1>2
<1>5. Depth(t) = 3 => stack'[t][2] = stack[t][2]
  BY <1>1, <1>2
<1>6. Shape(t)'
  BY <1>1, <1>2, <1>3, <1>4, <1>5 DEF Shapes, Shape
<1> QED
  BY <1>1, <1>2, <1>6, OthersShape DEF Top, Last, Depth

LEMMA PoppedShape ==
  ASSUME StackType, Shapes, NEW t \in Threads, stack[t] # <<>>, Pops(t)
  PROVE  /\ StackType' /\ Shapes'
         /\ stack'[t] = <<>> <=> Depth(t) = 1
         /\ Depth(t)' = Depth(t) - 1
         /\ Depth(t) = 2 => Top(t)' = stack[t][1] /\ Top(t)'.op = "iterate"
         /\ Depth(t) = 3 => Top(t)' = stack[t][2]
<1>1. Depth(t) \in 1..3 /\ (stack'[t] = <<>> <=> Depth(t)' = 0)
  BY TopIs, EmptySeq, LenProperties DEF StackType, Depth, Pops, Others
<1>2. /\ Depth(t)' = Depth(t) - 1
      /\ \A i \in 1..(Depth(t) - 1) : stack'[t][i] = stack[t][i]
      /\ Others(t)
  BY DEF Pops, Depth
<1>3. /\ Depth(t) = 2 => Depth(t)' = 1 /\ stack'[t][1] = stack[t][1]
      /\ Depth(t) = 3 => Depth(t)' = 2 /\ stack'[t][1] = stack[t][1] /\ stack'[t][2] = stack[t][2]
      /\ Depth(t) = 1 => Depth(t)' = 0
  BY <1>1, <1>2
<1>4. /\ Depth(t) >= 2 => stack[t][1].op = "iterate" /\ stack[t][1].at = "loop"
      /\ Depth(t) = 3 => stack[t][2].op = "process"
  BY <1>1 DEF Shapes, Shape
<1>5. Shape(t)'
  <2>1. \A i \in 1..0 : FALSE
    OBVIOUS
  <2>2. /\ \A i \in 1..1 : i = 1
        /\ \A i \in 1..2 : i = 1 \/ i = 2
    OBVIOUS
  <2> QED
    BY <1>1, <1>3, <1>4, <2>1, <2>2 DEF Shape
<1>6. Top(t)' = stack'[t][Depth(t)']
  BY DEF Top, Last, Depth
<1> QED
  BY <1>1, <1>2, <1>3, <1>4, <1>5, <1>6, OthersShape

-----------------------------------------------------------------------------
(* What each step does to the stack of its thread *)

\* insert has a row, and one it has counted as absent is absent until it is
\* inserted.
NewAbsent(t) ==
  (stack[t] # <<>> /\ Top(t).op = "add" /\ Top(t).at # "call")
    => Top(t).rows # <<>> /\ (Top(t).at = "new" => ~Present(Head(Top(t).rows)))

Effect(t) == StackType' /\ Shapes' /\ Others(t) /\ Locks(t) /\ NewAbsent(t)'

LEMMA FrameKinds ==
  ASSUME NEW f \in Frame
  PROVE  /\ f.op \in {"add", "process", "iterate", "single"}
         /\ f.op = "add" => f \in [op : {"add"}, rows : Seq(Rows), at : {"call", "found", "new"}]
         /\ f.op = "process" =>
              f \in [op : {"process"}, name : {r.name : r \in Rows}, at : {"call", "next", "handler"},
                     from : SUBSET Nat, last : Nat]
         /\ f.op = "iterate" => f \in [op : {"iterate"}, pairs : SUBSET Pair, at : {"call", "loop"}]
BY DEF Frame

LEMMA AddIs ==
  ASSUME NEW rows \in Seq(Rows), NEW at \in {"call", "found", "new"}
  PROVE  /\ Add(rows, at) \in Frame
         /\ Add(rows, at).op = "add" /\ Add(rows, at).at = at /\ Add(rows, at).rows = rows
BY DEF Frame, Add

LEMMA ProcessIs ==
  ASSUME NEW name \in {r.name : r \in Rows}, NEW at \in {"call", "next", "handler"},
         NEW from \in SUBSET Nat, NEW last \in Nat
  PROVE  /\ Process(name, at, from, last) \in Frame /\ Process(name, at, from, last).op = "process"
         /\ Process(name, at, from, last).at = at /\ Process(name, at, from, last).name = name
         /\ Process(name, at, from, last).from = from /\ Process(name, at, from, last).last = last
BY DEF Frame, Process

LEMMA IterateIs ==
  ASSUME NEW pairs \in SUBSET Pair, NEW at \in {"call", "loop"}
  PROVE  /\ Iterate(pairs, at) \in Frame /\ Iterate(pairs, at).op = "iterate"
         /\ Iterate(pairs, at).at = at /\ Iterate(pairs, at).pairs = pairs
BY DEF Frame, Iterate

LEMMA SingleIs ==
  ASSUME NEW rows \in SUBSET Rows
  PROVE  Single(rows) \in Frame /\ Single(rows).op = "single"
BY DEF Frame, Single

LEMMA CallEffect ==
  ASSUME StackType, Shapes, NEW t \in Threads, NEW f \in Frame, Call(t, f),
         \/ f.op = "add" /\ f.at = "call"
         \/ f.op = "single"
         \/ stack[t] = <<>> /\ f.op = "iterate"
  PROVE  Effect(t) /\ Pushes(t, f)
<1>1. Pushes(t, f)
  BY PushIs DEF Call
<1>2. Others(t)
  BY <1>1 DEF Pushes
<1>3. stack[t] # <<>> => Top(t).op = "process" /\ Top(t).at = "handler" /\ Holds(t)
  BY TopIs, HoldsIff DEF Call, MayCall, Inside
<1>4. stack[t] # <<>> => f.op \in {"add", "single"}
  BY FrameKinds
<1>5. /\ StackType' /\ Shapes' /\ stack'[t] # <<>> /\ Top(t)' = f
      /\ Depth(t)' = 3 <=> stack[t] # <<>>
  BY <1>1, <1>3, <1>4, PushedShape
<1>6. (Holds(t) <=> stack[t] # <<>> /\ (Inside(Top(t)) \/ Depth(t) = 3))'
  BY <1>5, HoldsIff, PTL
<1>7. ~Inside(f)
  BY DEF Inside
<1>8. Locks(t)
  BY <1>3, <1>5, <1>6, <1>7 DEF Locks, Inside
<1>9. NewAbsent(t)'
  BY <1>5 DEF NewAbsent
<1> QED
  BY <1>1, <1>2, <1>5, <1>8, <1>9 DEF Effect

LEMMA HoldsNext ==
  ASSUME StackType', Shapes', NEW t \in Threads
  PROVE  Holds(t)' <=> stack'[t] # <<>> /\ (Inside(Top(t)') \/ Depth(t)' = 3)
<1>1. (Holds(t) <=> stack[t] # <<>> /\ (Inside(Top(t)) \/ Depth(t) = 3))'
  BY HoldsIff, PTL
<1> QED
  BY <1>1 DEF Inside

\* The top frame is replaced: the thread goes on within its call.
LEMMA ReplaceEffect ==
  ASSUME StackType, Shapes, NEW t \in Threads, stack[t] # <<>>, NEW f \in Frame,
         Replaced(t, f), f.op = Top(t).op,
         Inside(f) => Inside(Top(t)) \/ Available(t),
         f.op = "add" /\ f.at # "call" =>
           f.rows # <<>> /\ (f.at = "new" => \A i \in DOMAIN table' : table'[i] # Head(f.rows))
  PROVE  Effect(t) /\ Replaces(t, f)
<1>1. Replaces(t, f)
  BY ReplaceIs
<1>2. /\ StackType' /\ Shapes' /\ stack'[t] # <<>> /\ Top(t)' = f /\ Depth(t)' = Depth(t)
      /\ Others(t)
  BY <1>1, ReplacedShape DEF Replaces
<1>3. Locks(t)
  BY <1>2, HoldsIff, HoldsNext DEF Locks
<1>4. NewAbsent(t)'
  BY <1>2 DEF NewAbsent, Present
<1> QED
  BY <1>1, <1>2, <1>3, <1>4 DEF Effect

\* The top frame is popped: the thread returns to the handler or the iteration
\* that has made the call.
LEMMA PopEffect ==
  ASSUME StackType, Shapes, NEW t \in Threads, stack[t] # <<>>, Popped(t)
  PROVE  Effect(t) /\ Pops(t)
<1>1. Pops(t)
  BY PopIs
<1>2. /\ StackType' /\ Shapes' /\ Others(t) /\ (stack'[t] = <<>> <=> Depth(t) = 1)
      /\ Depth(t)' = Depth(t) - 1
      /\ Depth(t) = 2 => Top(t)'.op = "iterate"
      /\ Depth(t) = 3 => Top(t)' = stack[t][2]
  BY <1>1, PoppedShape DEF Pops
<1>3. Depth(t) \in 1..3
  BY TopIs
<1>4. Depth(t) = 3 => stack[t][2].op = "process" /\ Holds(t)
  BY HoldsIff DEF Shapes, Shape
<1>5. Locks(t)
  BY <1>2, <1>3, <1>4, HoldsNext DEF Locks, Inside
<1>6. NewAbsent(t)'
  BY <1>2, <1>3, <1>4 DEF NewAbsent
<1> QED
  BY <1>1, <1>2, <1>5, <1>6 DEF Effect

LEMMA ThrowEffect ==
  ASSUME StackType, NEW t \in Threads, Shapes, Throw(t)
  PROVE  Effect(t) /\ stack'[t] = <<>>
<1>1. stack'[t] = <<>> /\ Others(t)
  BY EmptySeq DEF Throw, StackType, Others
<1>2. Depth(t)' = 0
  BY <1>1, EmptySeq DEF Depth
<1>3. Shape(t)'
  <2>1. \A i \in 1..0 : FALSE
    OBVIOUS
  <2> QED
    BY <1>2, <2>1 DEF Shape
<1>4. StackType' /\ Shapes'
  BY <1>1, <1>3, OthersShape
<1> QED
  BY <1>1, <1>4, HoldsNext DEF Effect, Locks, NewAbsent

\* NextPair: the iteration calls processAllChannelMonitor.
LEMMA NextPairEffect ==
  ASSUME StackType, Shapes, NEW t \in Threads, stack[t] # <<>>, NextPair(t)
  PROVE  /\ Effect(t)
         /\ Depth(t) = 1 /\ Depth(t)' = 2
         /\ \E p \in stack[t][1].pairs : /\ stack'[t][1] = Iterate(stack[t][1].pairs \ {p}, "loop")
                                        /\ stack'[t][2] = Process(p[1], "call", {}, 0)
<1>1. /\ Depth(t) = 1 /\ Top(t) = stack[t][1] /\ Top(t) \in Frame
      /\ stack[t] \in Seq(Frame)
  BY TopIs DEF NextPair, StackType
<1>2. PICK p \in Top(t).pairs :
        stack' = [stack EXCEPT ![t] = Append(Append(Front(@), Iterate(Top(t).pairs \ {p}, "loop")),
                                             Process(p[1], "call", {}, 0))]
  BY DEF NextPair
<1> DEFINE f == Iterate(Top(t).pairs \ {p}, "loop")
           g == Process(p[1], "call", {}, 0)
<1>3. Top(t).pairs \in SUBSET Pair
  BY <1>1, FrameKinds DEF NextPair
<1>4. p[1] \in {r.name : r \in Rows}
  BY <1>3 DEF Pair
<1>5. f \in Frame /\ g \in Frame /\ f.op = "iterate" /\ f.at = "loop" /\ g.op = "process" /\ g.at = "call"
  <2>1. Top(t).pairs \ {p} \in SUBSET Pair
    BY <1>3
  <2>2. f \in Frame /\ f.op = "iterate" /\ f.at = "loop"
    BY <2>1, IterateIs
  <2>3. g \in Frame /\ g.op = "process" /\ g.at = "call"
    <3>1. {} \in SUBSET Nat /\ 0 \in Nat
      OBVIOUS
    <3> QED
      BY <1>4, <3>1 DEF Process, Frame
  <2> QED
    BY <2>2, <2>3
<1> HIDE DEF f, g
<1>6. Front(stack[t]) \in Seq(Frame) /\ Len(Front(stack[t])) = 0
  BY <1>1, FrontIs DEF Depth
<1>7. /\ Append(Front(stack[t]), f) \in Seq(Frame)
      /\ Len(Append(Front(stack[t]), f)) = 1 /\ Append(Front(stack[t]), f)[1] = f
  BY <1>5, <1>6, AppendIs
<1>8. /\ stack'[t] = Append(Append(Front(stack[t]), f), g)
      /\ \A u \in Threads \ {t} : stack'[u] = stack[u]
  BY <1>2 DEF f, g, StackType
<1>9. stack'[t] \in Seq(Frame) /\ Len(stack'[t]) = 2 /\ stack'[t][1] = f /\ stack'[t][2] = g
  BY <1>5, <1>7, <1>8, AppendIs
<1>10. Others(t) /\ Depth(t)' = 2
  BY <1>2, <1>9 DEF StackType, Others, Depth
<1>11. Shape(t)'
  <2>1. \A i \in 1..2 : i = 1 \/ i = 2
    OBVIOUS
  <2> QED
    BY <1>5, <1>9, <1>10, <2>1 DEF Shape
<1>12. StackType' /\ Shapes'
  BY <1>10, <1>11, OthersShape
<1>13. Top(t)' = g
  BY <1>9, <1>10 DEF Top, Last, Depth
<1>14. Locks(t) /\ NewAbsent(t)'
  BY <1>5, <1>10, <1>12, <1>13, HoldsNext DEF Locks, NewAbsent, Inside
<1> QED
  BY <1>1, <1>9, <1>10, <1>12, <1>14 DEF Effect, f, g

-----------------------------------------------------------------------------
(* Every step *)

LEMMA InsertCountEffect ==
  ASSUME StackType, Shapes, NEW t \in Threads, stack[t] # <<>>, InsertCount(t)
  PROVE  Effect(t) /\ \E f \in Frame : f.op = "add" /\ Replaces(t, f)
<1>1. Top(t) \in [op : {"add"}, rows : Seq(Rows), at : {"call", "found", "new"}]
  BY TopIs, FrameKinds DEF InsertCount
<1>2. PICK f \in [op : {"add"}, rows : Seq(Rows), at : {"call", "found", "new"}] :
        /\ Replaced(t, f)
        /\ f.rows # <<>> /\ (f.at = "new" => ~Present(Head(f.rows)))
  BY <1>1 DEF InsertCount
<1>3. f \in Frame /\ f.op = "add"
  BY DEF Frame
<1>4. f.at = "new" => \A i \in DOMAIN table' : table'[i] # Head(f.rows)
  BY <1>2 DEF InsertCount, tableVars, Present
<1>5. Available(t) /\ Top(t).op = "add"
  BY DEF InsertCount
<1>6. f.rows # <<>>
  BY <1>2
<1> QED
  BY <1>2, <1>3, <1>4, <1>5, <1>6, ReplaceEffect

LEMMA InsertRowEffect ==
  ASSUME StackType, Shapes, NEW t \in Threads, stack[t] # <<>>, InsertRow(t), Top(t).rows # <<>>
  PROVE  Effect(t) /\ \E f \in Frame : f.op = "add" /\ Replaces(t, f)
<1>1. Top(t) \in [op : {"add"}, rows : Seq(Rows), at : {"call", "found", "new"}]
  BY TopIs, FrameKinds DEF InsertRow
<1>2. Tail(Top(t).rows) \in Seq(Rows)
  BY <1>1, HeadTailProperties
<1>3. PICK f \in Frame : f.op = "add" /\ f.at = "call" /\ Replaced(t, f)
  <2>1. Replaced(t, Add(Tail(Top(t).rows), "call"))
    BY ONLY InsertRow(t) DEF InsertRow
  <2>2. /\ Add(Tail(Top(t).rows), "call") \in Frame
        /\ Add(Tail(Top(t).rows), "call").op = "add" /\ Add(Tail(Top(t).rows), "call").at = "call"
    BY ONLY <1>2, AddIs
  <2> QED
    BY ONLY <2>1, <2>2
<1>4. ~Inside(f) /\ Top(t).op = "add"
  BY <1>3 DEF Inside, InsertRow
<1> QED
  BY <1>3, <1>4, ReplaceEffect

LEMMA PopsEffect ==
  ASSUME StackType, Shapes, NEW t \in Threads, stack[t] # <<>>,
         AddReturns(t) \/ Execute(t) \/ IterateReturns(t) \/ ScanEnds(t)
  PROVE  Effect(t) /\ Pops(t)
BY PopEffect DEF AddReturns, Execute, IterateReturns, ScanEnds

LEMMA ReadPairsEffect ==
  ASSUME TypeOK, Shapes, NEW t \in Threads, stack[t] # <<>>, ReadPairs(t)
  PROVE  Effect(t) /\ Replaces(t, Iterate(Distinct, "loop")) /\ Depth(t) = 1
<1>1. Distinct \in SUBSET Pair
  BY DEF TypeOK, Distinct, Pair
<1>2. PICK f \in Frame : f = Iterate(Distinct, "loop")
  BY <1>1, IterateIs
<1>3. f.op = "iterate" /\ Replaced(t, f) /\ Top(t).op = "iterate"
  BY <1>1, <1>2, IterateIs DEF ReadPairs
<1>4. StackType
  BY DEF TypeOK, StackType
<1>5. ~Inside(f)
  BY <1>3 DEF Inside
<1>6. Effect(t) /\ Replaces(t, f)
  BY <1>3, <1>4, <1>5, ReplaceEffect
<1> QED
  BY <1>2, <1>3, <1>4, <1>6, TopIs

\* The steps of a scan: what its frame is before and after.
ScanFrame == [op : {"process"}, name : {r.name : r \in Rows}, at : {"call", "next", "handler"},
              from : SUBSET Nat, last : Nat]

LEMMA ScanFrames ==
  ASSUME StackType, Shapes, NEW t \in Threads, stack[t] # <<>>, Top(t).op = "process"
  PROVE  Depth(t) = 2 /\ Top(t) = stack[t][2] /\ Top(t) \in ScanFrame
BY TopIs, FrameKinds DEF ScanFrame

LEMMA ScanEffect ==
  ASSUME StackType, Shapes, NEW t \in Threads, stack[t] # <<>>, NEW f \in ScanFrame,
         Replaced(t, f), Top(t).op = "process", Top(t).at = "call" => Available(t)
  PROVE  Effect(t) /\ Replaces(t, f)
<1>1. f \in Frame /\ f.op = "process"
  BY DEF ScanFrame, Frame
<1>2. Inside(Top(t)) \/ Available(t)
  BY DEF Inside
<1> QED
  BY <1>1, <1>2, ReplaceEffect

LEMMA ScanStartsEffect ==
  ASSUME TypeOK, Shapes, NEW t \in Threads, stack[t] # <<>>, ScanStarts(t)
  PROVE  Effect(t) /\ \E f \in ScanFrame : /\ Replaces(t, f)
                                           /\ f.name = Top(t).name /\ f.at = "next"
                                           /\ f.from = Named(f.name) /\ f.last = 0
<1>1. StackType
  BY DEF TypeOK, StackType
<1>2. Top(t).name \in {r.name : r \in Rows} /\ Top(t).op = "process" /\ Available(t)
  BY <1>1, ScanFrames DEF ScanStarts, ScanFrame
<1>3. Named(Top(t).name) \in SUBSET Nat
  BY DEF TypeOK, Named
<1>4. PICK f \in ScanFrame : /\ Replaced(t, f)
                             /\ f.name = Top(t).name /\ f.at = "next"
                             /\ f.from = Named(f.name) /\ f.last = 0
  BY <1>2, <1>3 DEF ScanStarts, Process, ScanFrame
<1> QED
  BY <1>1, <1>2, <1>4, ScanEffect

LEMMA ScanFrameExcept ==
  ASSUME NEW f \in ScanFrame, NEW at \in {"call", "next", "handler"}
  PROVE  /\ [f EXCEPT !.at = at] \in ScanFrame
         /\ [f EXCEPT !.at = at].name = f.name /\ [f EXCEPT !.at = at].from = f.from
         /\ [f EXCEPT !.at = at].at = at /\ [f EXCEPT !.at = at].last = f.last
BY DEF ScanFrame

LEMMA ScanMeetsEffect ==
  ASSUME TypeOK, Shapes, NEW t \in Threads, stack[t] # <<>>, ScanMeets(t)
  PROVE  Effect(t) /\ \E f \in ScanFrame : /\ Replaces(t, f)
                                           /\ f.name = Top(t).name /\ f.from = Top(t).from /\ f.at = "handler"
                                           /\ f.last \in DOMAIN table
                                           /\ \A j \in ToMeet(t) : f.last <= j
                                           /\ met' = [met EXCEPT ![t] = @ \cup {f.last}]
<1>1. StackType
  BY DEF TypeOK, StackType
<1>2. Top(t) \in ScanFrame /\ Top(t).op = "process" /\ Top(t).at = "next"
  BY <1>1, ScanFrames DEF ScanMeets
<1>3. PICK i \in Named(Top(t).name) :
        /\ \A j \in ToMeet(t) : i <= j
        /\ Replaced(t, [Top(t) EXCEPT !.at = "handler", !.last = i])
        /\ met' = [met EXCEPT ![t] = @ \cup {i}]
  BY DEF ScanMeets
<1>4. i \in DOMAIN table /\ i \in Nat
  BY DEF TypeOK, Named
<1>5. PICK f \in ScanFrame : /\ f = [Top(t) EXCEPT !.at = "handler", !.last = i]
                             /\ f.name = Top(t).name /\ f.from = Top(t).from /\ f.at = "handler"
                             /\ f.last = i
  <2> DEFINE g == [Top(t) EXCEPT !.at = "handler", !.last = i]
  <2>1. \A e \in ScanFrame : LET h == [e EXCEPT !.at = "handler", !.last = i] IN
          /\ h \in ScanFrame /\ h.name = e.name /\ h.from = e.from /\ h.at = "handler"
          /\ h.last = i
    BY <1>4 DEF ScanFrame
  <2>2. /\ g \in ScanFrame /\ g.name = Top(t).name /\ g.from = Top(t).from /\ g.at = "handler"
        /\ g.last = i
    BY <1>2, <2>1
  <2> HIDE DEF g
  <2>3. \E f \in ScanFrame : /\ f = g /\ f.name = Top(t).name /\ f.from = Top(t).from
                            /\ f.at = "handler" /\ f.last = i
    BY <2>2
  <2> QED
    BY <2>3 DEF g
<1>6. Effect(t) /\ Replaces(t, f)
  BY <1>1, <1>2, <1>3, <1>5, ScanEffect
<1> QED
  BY <1>3, <1>4, <1>5, <1>6

LEMMA HandlerReturnsEffect ==
  ASSUME StackType, Shapes, NEW t \in Threads, stack[t] # <<>>, HandlerReturns(t)
  PROVE  Effect(t) /\ \E f \in ScanFrame : /\ Replaces(t, f)
                                           /\ f.name = Top(t).name /\ f.from = Top(t).from
                                           /\ f.last = Top(t).last /\ f.at = "next"
<1>1. Top(t) \in ScanFrame /\ Top(t).op = "process" /\ Top(t).at = "handler"
  BY ScanFrames DEF HandlerReturns
<1>2. PICK f \in ScanFrame : /\ f = [Top(t) EXCEPT !.at = "next"]
                             /\ f.name = Top(t).name /\ f.from = Top(t).from
                             /\ f.last = Top(t).last /\ f.at = "next"
  <2> DEFINE g == [Top(t) EXCEPT !.at = "next"]
  <2>1. "next" \in {"call", "next", "handler"} /\ 0 \in Nat
    OBVIOUS
  <2>2. /\ g \in ScanFrame /\ g.name = Top(t).name /\ g.from = Top(t).from
        /\ g.last = Top(t).last /\ g.at = "next"
    BY <1>1, <2>1, ScanFrameExcept
  <2> HIDE DEF g
  <2>3. \E f \in ScanFrame : /\ f = g /\ f.name = Top(t).name /\ f.from = Top(t).from
                            /\ f.last = Top(t).last /\ f.at = "next"
    BY <2>2
  <2> QED
    BY <2>3 DEF g
<1>3. Effect(t) /\ Replaces(t, f)
  BY <1>1, <1>2, ScanEffect DEF HandlerReturns
<1> QED
  BY <1>2, <1>3

-----------------------------------------------------------------------------
(* The table *)

\* An id is never given twice, and the row of an id does not change.
TableKeeps ==
  /\ lastId' \in Nat /\ lastId <= lastId'
  /\ DOMAIN table' \subseteq 1..lastId' /\ \A i \in DOMAIN table' : table'[i] \in Rows
  /\ \A i \in 1..lastId : i \in DOMAIN table' => i \in DOMAIN table /\ table'[i] = table[i]

Fewer == \A i \in DOMAIN table' : i \in DOMAIN table /\ table'[i] = table[i]

LEMMA InsertRowTable ==
  ASSUME TypeOK, Shapes, NEW t \in Threads, stack[t] # <<>>, InsertRow(t), NewAbsent(t), RowsDistinct
  PROVE  TableKeeps /\ RowsDistinct' /\ Top(t).rows # <<>> /\ Holds(t)
<1>1. StackType
  BY DEF TypeOK, StackType
<1>2. Top(t) \in [op : {"add"}, rows : Seq(Rows), at : {"call", "found", "new"}]
  BY <1>1, TopIs, FrameKinds DEF InsertRow
<1>3. Top(t).rows # <<>> /\ Holds(t)
  BY <1>1, HoldsIff DEF InsertRow, NewAbsent, Inside
<1>4. CASE Top(t).at # "new"
  BY <1>3, <1>4 DEF InsertRow, tableVars, TypeOK, TableKeeps, RowsDistinct
<1>5. CASE Top(t).at = "new"
  <2> DEFINE r == Head(Top(t).rows)
  <2>1. r \in Rows /\ \A i \in DOMAIN table : table[i] # r
    BY <1>2, <1>3, <1>5, HeadTailProperties DEF InsertRow, NewAbsent, Present
  <2>2. /\ lastId' = lastId + 1
        /\ table' = [i \in DOMAIN table \cup {lastId + 1} |-> IF i = lastId + 1 THEN r ELSE table[i]]
    BY <1>5 DEF InsertRow
  <2> HIDE DEF r
  <2>3. /\ DOMAIN table' = DOMAIN table \cup {lastId + 1} /\ table'[lastId + 1] = r
        /\ \A i \in DOMAIN table : table'[i] = table[i]
        /\ lastId \in Nat /\ DOMAIN table \subseteq 1..lastId
    BY <2>2 DEF TypeOK
  <2>4. TableKeeps
    BY <2>1, <2>2, <2>3 DEF TypeOK, TableKeeps
  <2>5. RowsDistinct'
    BY <2>1, <2>3 DEF RowsDistinct
  <2> QED
    BY <1>3, <2>4, <2>5
<1> QED
  BY <1>4, <1>5

LEMMA ExecuteTable ==
  ASSUME TypeOK, NEW t \in Threads, Execute(t), RowsDistinct
  PROVE  TableKeeps /\ RowsDistinct' /\ Fewer
<1>1. /\ DOMAIN table' = {j \in DOMAIN table : table[j] \notin Top(t).rows} /\ lastId' = lastId
      /\ \A i \in DOMAIN table' : table'[i] = table[i]
  BY DEF Execute
<1> QED
  BY <1>1 DEF TypeOK, TableKeeps, RowsDistinct, Fewer

LEMMA SameTable ==
  ASSUME TypeOK, UNCHANGED tableVars, RowsDistinct
  PROVE  TableKeeps /\ RowsDistinct' /\ Fewer
BY DEF TypeOK, tableVars, TableKeeps, RowsDistinct, Fewer

-----------------------------------------------------------------------------
(* What an iteration has covered *)

\* A row that was there when the pairs were read and still is has been met, or
\* its pair is still to come, or the scan of its name has not got to it.
Covered(t) ==
  (Depth(t) >= 1 /\ stack[t][1].op = "iterate" /\ stack[t][1].at = "loop") =>
    \A i \in before[t] \cap DOMAIN table :
      \/ i \in met[t]
      \/ <<table[i].name, table[i].protocol>> \in stack[t][1].pairs
      \/ /\ Depth(t) >= 2 /\ table[i].name = stack[t][2].name
         /\ stack[t][2].at = "call" \/ (i \in stack[t][2].from /\ i > stack[t][2].last)

\* The part of a stack that Covered looks at.
Iteration(t) == Depth(t) >= 1 /\ stack[t][1].op = "iterate" /\ stack[t][1].at = "loop"

LEMMA CoveredSame ==
  ASSUME TypeOK, NEW t \in Threads, Covered(t), TableKeeps,
         before'[t] = before[t], met'[t] = met[t],
         Iteration(t)' => /\ Depth(t) >= 1 /\ stack'[t][1] = stack[t][1]
                          /\ Depth(t) >= 2 => Depth(t)' >= 2 /\ stack'[t][2] = stack[t][2]
  PROVE  Covered(t)'
<1> SUFFICES ASSUME Iteration(t)', NEW i \in before[t] \cap DOMAIN table'
             PROVE  \/ i \in met[t]
                    \/ <<table'[i].name, table'[i].protocol>> \in stack'[t][1].pairs
                    \/ /\ Depth(t)' >= 2 /\ table'[i].name = stack'[t][2].name
                       /\ stack'[t][2].at = "call" \/ (i \in stack'[t][2].from /\ i > stack'[t][2].last)
  BY DEF Covered, Iteration
<1>1. i \in 1..lastId
  BY DEF TypeOK
<1>2. i \in DOMAIN table /\ table'[i] = table[i]
  BY <1>1 DEF TableKeeps
<1>3. Iteration(t)
  BY DEF Iteration
<1> QED
  BY <1>2, <1>3 DEF Covered, Iteration

LEMMA OthersCovered ==
  ASSUME TypeOK, StackType, NEW t \in Threads, Others(t), NEW u \in Threads \ {t}, Covered(u), TableKeeps,
         before'[u] = before[u], met'[u] = met[u]
  PROVE  Covered(u)'
<1>1. stack'[u] = stack[u] /\ Depth(u)' = Depth(u)
  BY DEF Others, Depth
<1> QED
  BY <1>1, CoveredSame DEF Iteration

LEMMA OthersAbsent ==
  ASSUME StackType, Shapes, NEW t \in Threads, Others(t), NEW u \in Threads \ {t}, NewAbsent(u),
         Fewer \/ (Holds(t) /\ MutexInv)
  PROVE  NewAbsent(u)'
<1>1. stack'[u] = stack[u] /\ Top(u)' = Top(u)
  BY DEF Others, Top, Last
<1>2. CASE Fewer
  BY <1>1, <1>2 DEF NewAbsent, Fewer, Present
<1>3. CASE Holds(t) /\ MutexInv
  <2>1. ~Holds(u)
    BY <1>3 DEF MutexInv
  <2> QED
    BY <1>1, <2>1, HoldsIff DEF NewAbsent, Inside
<1> QED
  BY <1>2, <1>3

-----------------------------------------------------------------------------
(* The invariant *)

StorageInv ==
  /\ TypeOK /\ Shapes /\ MutexInv /\ RowsDistinct
  /\ \A t \in Threads : NewAbsent(t) /\ Covered(t)

\* What a step of t establishes.
Keeps(t) ==
  /\ Effect(t)
  /\ TableKeeps /\ RowsDistinct' /\ (Fewer \/ Holds(t))
  /\ Covered(t)'
  /\ \A u \in Threads \ {t} : before'[u] = before[u] /\ met'[u] = met[u]

LEMMA InvStack == StorageInv => StackType /\ Shapes
BY DEF StorageInv, TypeOK, StackType

LEMMA CallKeeps ==
  ASSUME StorageInv, NEW t \in Threads,
         AddChannelMonitor(t) \/ RemoveRow(t) \/ RemoveAll(t) \/ Query(t) \/ IterateAll(t)
  PROVE  Keeps(t)
<1>1. PICK f \in Frame :
        /\ Call(t, f)
        /\ \/ f.op = "add" /\ f.at = "call"
           \/ f.op = "single"
           \/ stack[t] = <<>> /\ f.op = "iterate" /\ f.at = "call"
  <2>1. CASE AddChannelMonitor(t)
    <3>1. /\ \A r \in Rows : Add(<<r>>, "call") \in Frame
          /\ \A r, s \in Rows : Add(<<r, s>>, "call") \in Frame
      BY DEF Add, Frame
    <3> QED
      BY <2>1, <3>1 DEF AddChannelMonitor, Add
  <2>2. CASE RemoveRow(t) \/ RemoveAll(t) \/ Query(t)
    <3>1. PICK rows \in SUBSET Rows : Call(t, Single(rows))
      BY <2>2 DEF RemoveRow, RemoveAll, Query
    <3> QED
      BY <3>1, SingleIs
  <2>3. CASE IterateAll(t)
    <3>1. Iterate({}, "call") \in Frame
      BY DEF Iterate, Frame
    <3> QED
      BY <2>3, <3>1 DEF IterateAll, Iterate
  <2> QED
    BY <2>1, <2>2, <2>3
<1>2. Effect(t) /\ Pushes(t, f)
  BY <1>1, InvStack, CallEffect
<1>3. UNCHANGED <<tableVars, history>>
  BY <1>1 DEF Call
<1>4. TableKeeps /\ RowsDistinct' /\ Fewer
  BY <1>3, SameTable DEF StorageInv
<1>5. /\ Depth(t) \in Nat /\ Depth(t)' = Depth(t) + 1 /\ stack'[t][Depth(t) + 1] = f
      /\ \A i \in 1..Depth(t) : stack'[t][i] = stack[t][i]
      /\ stack[t] = <<>> <=> Depth(t) = 0
  BY <1>2, InvStack, EmptySeq, LenProperties DEF Pushes, Depth, StackType
<1>6. Iteration(t)' => /\ Depth(t) >= 1 /\ stack'[t][1] = stack[t][1]
                       /\ Depth(t) >= 2 => Depth(t)' >= 2 /\ stack'[t][2] = stack[t][2]
  <2>1. CASE Depth(t) = 0
    BY <1>1, <1>5, <2>1 DEF Iteration
  <2>2. CASE Depth(t) >= 1
    BY <1>5, <2>2
  <2> QED
    BY <1>5, <2>1, <2>2
<1>7. Covered(t)'
  BY <1>3, <1>4, <1>6, CoveredSame DEF StorageInv, history
<1> QED
  BY <1>2, <1>3, <1>4, <1>7 DEF Keeps, history

LEMMA InsertKeeps ==
  ASSUME StorageInv, NEW t \in Threads, stack[t] # <<>>, InsertCount(t) \/ InsertRow(t)
  PROVE  Keeps(t)
<1>1. UNCHANGED history
  BY DEF InsertCount, InsertRow
<1>2. TableKeeps /\ RowsDistinct' /\ (Fewer \/ Holds(t))
  BY SameTable, InsertRowTable DEF StorageInv, InsertCount
<1>3. Effect(t) /\ \E f \in Frame : f.op = "add" /\ Replaces(t, f)
  <2>1. InsertRow(t) => Top(t).rows # <<>>
    BY InsertRowTable DEF StorageInv
  <2> QED
    BY <2>1, InvStack, InsertCountEffect, InsertRowEffect
<1>4. PICK f \in Frame : f.op = "add" /\ Replaces(t, f)
  BY <1>3
<1>5. /\ Depth(t) \in 1..3 /\ Depth(t)' = Depth(t) /\ stack'[t][Depth(t)] = f
      /\ \A i \in 1..(Depth(t) - 1) : stack'[t][i] = stack[t][i]
      /\ Depth(t) # 2
  BY <1>4, InvStack, TopIs DEF Replaces, Depth, InsertCount, InsertRow
<1>6. Iteration(t)' => /\ Depth(t) >= 1 /\ stack'[t][1] = stack[t][1]
                       /\ Depth(t) >= 2 => Depth(t)' >= 2 /\ stack'[t][2] = stack[t][2]
  BY <1>4, <1>5 DEF Iteration
<1>7. Covered(t)'
  BY <1>1, <1>2, <1>6, CoveredSame DEF StorageInv, history
<1> QED
  BY <1>1, <1>2, <1>3, <1>7 DEF Keeps, history

\* A return to the handler of a scan, or out of a call from outside.
LEMMA ReturnKeeps ==
  ASSUME StorageInv, NEW t \in Threads, stack[t] # <<>>,
         AddReturns(t) \/ Execute(t) \/ IterateReturns(t)
  PROVE  Keeps(t)
<1>1. UNCHANGED history
  BY DEF AddReturns, Execute, IterateReturns
<1>2. TableKeeps /\ RowsDistinct' /\ Fewer
  BY SameTable, ExecuteTable DEF StorageInv, AddReturns, IterateReturns
<1>3. Effect(t) /\ Pops(t)
  BY InvStack, PopsEffect
<1>4. /\ Depth(t) \in 1..3 /\ Depth(t)' = Depth(t) - 1 /\ Depth(t) # 2
      /\ \A i \in 1..(Depth(t) - 1) : stack'[t][i] = stack[t][i]
  BY <1>3, InvStack, TopIs DEF Pops, Depth, AddReturns, Execute, IterateReturns
<1>5. Depth(t) = 1 \/ (Depth(t) = 3 /\ stack'[t][1] = stack[t][1] /\ stack'[t][2] = stack[t][2])
  BY <1>4
<1>6. Covered(t)'
  BY <1>1, <1>2, <1>4, <1>5, CoveredSame DEF StorageInv, history, Iteration
<1> QED
  BY <1>1, <1>2, <1>3, <1>6 DEF Keeps, history

\* The thread leaves every call it is in.
LEMMA ThrowKeeps ==
  ASSUME StorageInv, NEW t \in Threads, Throw(t)
  PROVE  Keeps(t)
<1>1. UNCHANGED <<tableVars, history>>
  BY DEF Throw
<1>2. TableKeeps /\ RowsDistinct' /\ Fewer
  BY <1>1, SameTable DEF StorageInv
<1>3. Effect(t) /\ stack'[t] = <<>>
  BY InvStack, ThrowEffect
<1>4. ~Iteration(t)'
  BY <1>3, EmptySeq DEF Iteration, Depth
<1>5. Covered(t)'
  BY <1>1, <1>2, <1>4, CoveredSame DEF StorageInv, history
<1> QED
  BY <1>1, <1>2, <1>3, <1>5 DEF Keeps, history

\* When the pairs are read, every row has its pair among them.
LEMMA ReadPairsKeeps ==
  ASSUME StorageInv, NEW t \in Threads, stack[t] # <<>>, ReadPairs(t)
  PROVE  Keeps(t)
<1>1. /\ UNCHANGED tableVars
      /\ before' = [before EXCEPT ![t] = DOMAIN table] /\ met' = [met EXCEPT ![t] = {}]
  BY DEF ReadPairs
<1>2. TableKeeps /\ RowsDistinct' /\ Fewer
  BY <1>1, SameTable DEF StorageInv
<1>3. Effect(t) /\ Replaces(t, Iterate(Distinct, "loop")) /\ Depth(t) = 1
  BY ReadPairsEffect DEF StorageInv
<1>4. stack'[t][1] = Iterate(Distinct, "loop")
  BY <1>3 DEF Replaces, Depth
<1>5. stack'[t][1].pairs = Distinct
  BY <1>4 DEF Iterate
<1>6. \A i \in DOMAIN table' : <<table'[i].name, table'[i].protocol>> \in Distinct
  BY <1>1 DEF tableVars, Distinct
<1>7. Covered(t)'
  BY <1>5, <1>6 DEF Covered
<1> QED
  BY <1>1, <1>2, <1>3, <1>7 DEF Keeps, StorageInv, TypeOK

\* A pair that leaves the loop is the scan's.
LEMMA NextPairKeeps ==
  ASSUME StorageInv, NEW t \in Threads, stack[t] # <<>>, NextPair(t)
  PROVE  Keeps(t)
<1>1. UNCHANGED <<tableVars, history>>
  BY DEF NextPair
<1>2. TableKeeps /\ RowsDistinct' /\ Fewer
  BY <1>1, SameTable DEF StorageInv
<1>3. /\ Effect(t) /\ Depth(t) = 1 /\ Depth(t)' = 2
      /\ \E p \in stack[t][1].pairs : /\ stack'[t][1] = Iterate(stack[t][1].pairs \ {p}, "loop")
                                     /\ stack'[t][2] = Process(p[1], "call", {}, 0)
  BY InvStack, NextPairEffect
<1>4. PICK p \in stack[t][1].pairs : /\ stack'[t][1] = Iterate(stack[t][1].pairs \ {p}, "loop")
                                     /\ stack'[t][2] = Process(p[1], "call", {}, 0)
  BY <1>3
<1>5. /\ stack'[t][1].pairs = stack[t][1].pairs \ {p}
      /\ stack'[t][2].at = "call" /\ stack'[t][2].name = p[1]
  BY <1>4 DEF Iterate, Process
<1>6. Iteration(t)
  BY <1>3, InvStack, TopIs DEF Iteration, NextPair
<1>7. \A i \in before[t] \cap DOMAIN table :
        i \in met[t] \/ <<table[i].name, table[i].protocol>> \in stack[t][1].pairs
  BY <1>3, <1>6 DEF StorageInv, Covered, Iteration
<1>8. \A i \in DOMAIN table : <<table[i].name, table[i].protocol>> = p => table[i].name = p[1]
  OBVIOUS
<1>9. Covered(t)'
  <2> SUFFICES ASSUME NEW i \in before[t] \cap DOMAIN table
               PROVE  \/ i \in met[t]
                      \/ <<table[i].name, table[i].protocol>> \in stack'[t][1].pairs
                      \/ /\ Depth(t)' >= 2 /\ table[i].name = stack'[t][2].name
                         /\ stack'[t][2].at = "call"
    BY <1>1 DEF Covered, tableVars, history
  <2>1. CASE <<table[i].name, table[i].protocol>> = p
    BY <1>3, <1>5, <1>8, <2>1
  <2>2. CASE <<table[i].name, table[i].protocol>> # p
    BY <1>5, <1>7, <2>2
  <2> QED
    BY <2>1, <2>2
<1> QED
  BY <1>1, <1>2, <1>3, <1>9 DEF Keeps, history

\* What the steps of a scan leave as they are.
LEMMA ScanReplaces ==
  ASSUME StorageInv, NEW t \in Threads, stack[t] # <<>>, Top(t).op = "process",
         NEW f \in ScanFrame, Replaces(t, f)
  PROVE  /\ Depth(t) = 2 /\ Depth(t)' = 2 /\ stack[t][2] = Top(t) /\ stack'[t][2] = f
         /\ stack'[t][1] = stack[t][1] /\ Iteration(t)
<1>1. Depth(t) = 2 /\ Top(t) = stack[t][2]
  BY InvStack, ScanFrames
<1>2. Depth(t)' = 2 /\ stack'[t][2] = f /\ stack'[t][1] = stack[t][1]
  BY <1>1 DEF Replaces, Depth
<1>3. Iteration(t)
  BY <1>1, InvStack DEF Iteration, Shapes, Shape
<1> QED
  BY <1>1, <1>2, <1>3

LEMMA ScanStartsKeeps ==
  ASSUME StorageInv, NEW t \in Threads, stack[t] # <<>>, ScanStarts(t)
  PROVE  Keeps(t)
<1>1. UNCHANGED <<tableVars, history>> /\ Top(t).op = "process"
  BY DEF ScanStarts
<1>2. TableKeeps /\ RowsDistinct' /\ Fewer
  BY <1>1, SameTable DEF StorageInv
<1>3. /\ Effect(t)
      /\ \E f \in ScanFrame : /\ Replaces(t, f) /\ f.name = Top(t).name /\ f.at = "next"
                              /\ f.from = Named(f.name) /\ f.last = 0
  BY ScanStartsEffect DEF StorageInv
<1>4. PICK f \in ScanFrame : /\ Replaces(t, f) /\ f.name = Top(t).name /\ f.at = "next"
                             /\ f.from = Named(f.name) /\ f.last = 0
  BY <1>3
<1>5. /\ Depth(t) = 2 /\ Depth(t)' = 2 /\ stack[t][2] = Top(t) /\ stack'[t][2] = f
      /\ stack'[t][1] = stack[t][1] /\ Iteration(t)
  BY <1>1, <1>4, ScanReplaces
<1>6. \A i \in DOMAIN table : table[i].name = f.name => i \in f.from /\ i > f.last
  BY <1>4 DEF Named, StorageInv, TypeOK
<1>7. Covered(t)'
  BY <1>1, <1>4, <1>5, <1>6 DEF StorageInv, Covered, Iteration, tableVars, history
<1> QED
  BY <1>1, <1>2, <1>3, <1>7 DEF Keeps, history

\* A scan meets a row only when it has met those with a smaller id.
LEMMA ScanMeetsKeeps ==
  ASSUME StorageInv, NEW t \in Threads, stack[t] # <<>>, ScanMeets(t)
  PROVE  Keeps(t)
<1>1. /\ UNCHANGED <<tableVars, before>> /\ Top(t).op = "process" /\ Top(t).at = "next"
  BY DEF ScanMeets
<1>2. TableKeeps /\ RowsDistinct' /\ Fewer
  BY <1>1, SameTable DEF StorageInv
<1>3. /\ Effect(t)
      /\ \E f \in ScanFrame : /\ Replaces(t, f)
                              /\ f.name = Top(t).name /\ f.from = Top(t).from /\ f.at = "handler"
                              /\ f.last \in DOMAIN table
                              /\ \A j \in ToMeet(t) : f.last <= j
                              /\ met' = [met EXCEPT ![t] = @ \cup {f.last}]
  BY ScanMeetsEffect DEF StorageInv
<1>4. PICK f \in ScanFrame : /\ Replaces(t, f)
                             /\ f.name = Top(t).name /\ f.from = Top(t).from /\ f.at = "handler"
                             /\ f.last \in DOMAIN table
                             /\ \A j \in ToMeet(t) : f.last <= j
                             /\ met' = [met EXCEPT ![t] = @ \cup {f.last}]
  BY <1>3
<1>5. /\ Depth(t) = 2 /\ Depth(t)' = 2 /\ stack[t][2] = Top(t) /\ stack'[t][2] = f
      /\ stack'[t][1] = stack[t][1] /\ Iteration(t)
  BY <1>1, <1>4, ScanReplaces
<1>6. met'[t] = met[t] \cup {f.last} /\ \A u \in Threads \ {t} : met'[u] = met[u]
  BY <1>4 DEF StorageInv, TypeOK
<1>7. \A i \in DOMAIN table : i \in f.from /\ i > Top(t).last => i = f.last \/ i > f.last
  BY <1>4 DEF ToMeet, StorageInv, TypeOK
<1>8. Covered(t)'
  <2> SUFFICES ASSUME NEW i \in before[t] \cap DOMAIN table
               PROVE  \/ i \in met'[t]
                      \/ <<table[i].name, table[i].protocol>> \in stack[t][1].pairs
                      \/ table[i].name = f.name /\ i \in f.from /\ i > f.last
    BY <1>1, <1>5 DEF Covered, tableVars
  <2>1. \/ i \in met[t]
        \/ <<table[i].name, table[i].protocol>> \in stack[t][1].pairs
        \/ table[i].name = Top(t).name /\ i \in Top(t).from /\ i > Top(t).last
    BY <1>1, <1>5 DEF StorageInv, Covered, Iteration
  <2> QED
    BY <1>4, <1>6, <1>7, <2>1
<1> QED
  BY <1>1, <1>2, <1>3, <1>6, <1>8 DEF Keeps

LEMMA HandlerReturnsKeeps ==
  ASSUME StorageInv, NEW t \in Threads, stack[t] # <<>>, HandlerReturns(t)
  PROVE  Keeps(t)
<1>1. UNCHANGED <<tableVars, history>> /\ Top(t).op = "process" /\ Top(t).at = "handler"
  BY DEF HandlerReturns
<1>2. TableKeeps /\ RowsDistinct' /\ Fewer
  BY <1>1, SameTable DEF StorageInv
<1>3. /\ Effect(t)
      /\ \E f \in ScanFrame : /\ Replaces(t, f) /\ f.name = Top(t).name /\ f.from = Top(t).from
                              /\ f.last = Top(t).last /\ f.at = "next"
  BY InvStack, HandlerReturnsEffect
<1>4. PICK f \in ScanFrame : /\ Replaces(t, f) /\ f.name = Top(t).name /\ f.from = Top(t).from
                             /\ f.last = Top(t).last /\ f.at = "next"
  BY <1>3
<1>5. /\ Depth(t) = 2 /\ Depth(t)' = 2 /\ stack[t][2] = Top(t) /\ stack'[t][2] = f
      /\ stack'[t][1] = stack[t][1] /\ Iteration(t)
  BY <1>1, <1>4, ScanReplaces
<1>6. Covered(t)'
  BY <1>1, <1>4, <1>5 DEF StorageInv, Covered, Iteration, tableVars, history
<1> QED
  BY <1>1, <1>2, <1>3, <1>6 DEF Keeps, history

\* A scan ends when no row it began with is left to meet.
LEMMA ScanEndsKeeps ==
  ASSUME StorageInv, NEW t \in Threads, stack[t] # <<>>, ScanEnds(t)
  PROVE  Keeps(t)
<1>1. UNCHANGED <<tableVars, history>> /\ Top(t).op = "process" /\ Top(t).at = "next" /\ ToMeet(t) = {}
  BY DEF ScanEnds
<1>2. TableKeeps /\ RowsDistinct' /\ Fewer
  BY <1>1, SameTable DEF StorageInv
<1>3. Effect(t) /\ Pops(t)
  BY InvStack, PopsEffect
<1>4. Depth(t) = 2 /\ Top(t) = stack[t][2]
  BY <1>1, InvStack, ScanFrames
<1>5. Depth(t)' = 1 /\ stack'[t][1] = stack[t][1] /\ Iteration(t)
  BY <1>3, <1>4, InvStack DEF Pops, Depth, Iteration, Shapes, Shape
<1>6. \A i \in DOMAIN table : ~(i \in Top(t).from /\ i > Top(t).last)
  BY <1>1 DEF ToMeet
<1>7. Covered(t)'
  BY <1>1, <1>4, <1>5, <1>6 DEF StorageInv, Covered, Iteration, tableVars, history
<1> QED
  BY <1>1, <1>2, <1>3, <1>7 DEF Keeps, history

LEMMA StepKeeps ==
  ASSUME StorageInv, NEW t \in Threads, Step(t) \/ Throw(t)
  PROVE  Keeps(t)
BY InsertKeeps, ReturnKeeps, ThrowKeeps, ReadPairsKeeps, NextPairKeeps, ScanStartsKeeps,
   ScanMeetsKeeps, HandlerReturnsKeeps, ScanEndsKeeps DEF Step

-----------------------------------------------------------------------------
(* The theorems *)

LEMMA TypeStep ==
  ASSUME StorageInv, NEW t \in Threads, Keeps(t),
         AddChannelMonitor(t) \/ RemoveRow(t) \/ RemoveAll(t) \/ Query(t) \/ IterateAll(t)
           \/ Step(t) \/ Throw(t)
  PROVE  TypeOK'
<1>1. StackType' /\ TableKeeps
  BY DEF Keeps, Effect
<1>2. open' = open /\ calls' \in 0..MaxCalls
  <2>1. (\E f : Call(t, f)) \/ (calls' = calls /\ open' = open)
    BY DEF AddChannelMonitor, RemoveRow, RemoveAll, Query, IterateAll, Step, Throw, InsertCount, InsertRow,
       AddReturns, Execute, ReadPairs, NextPair, IterateReturns, ScanStarts, ScanMeets, HandlerReturns, ScanEnds
  <2> QED
    BY <2>1, StorageAssumption DEF StorageInv, TypeOK, Call
<1>3. \A i : i \in 1..lastId => i \in 1..lastId'
  BY <1>1 DEF TableKeeps, StorageInv, TypeOK
<1>4. before' \in [Threads -> SUBSET (1..lastId)] /\ met' \in [Threads -> SUBSET (1..lastId)]
  <2>1. before' = before \/ before' = [before EXCEPT ![t] = DOMAIN table]
    BY DEF AddChannelMonitor, RemoveRow, RemoveAll, Query, IterateAll, Call, Step, Throw, InsertCount, InsertRow,
       AddReturns, Execute, ReadPairs, NextPair, IterateReturns, ScanStarts, ScanMeets, HandlerReturns, ScanEnds,
       history
  <2>2. met' = met \/ met' = [met EXCEPT ![t] = {}] \/ \E i \in DOMAIN table : met' = [met EXCEPT ![t] = @ \cup {i}]
    BY DEF AddChannelMonitor, RemoveRow, RemoveAll, Query, IterateAll, Call, Step, Throw, InsertCount, InsertRow,
       AddReturns, Execute, ReadPairs, NextPair, IterateReturns, ScanStarts, ScanMeets, HandlerReturns, ScanEnds,
       history, Named
  <2>3. DOMAIN table \in SUBSET (1..lastId) /\ before \in [Threads -> SUBSET (1..lastId)]
        /\ met \in [Threads -> SUBSET (1..lastId)]
    BY DEF StorageInv, TypeOK
  <2>4. before' \in [Threads -> SUBSET (1..lastId)]
    BY <2>1, <2>3
  <2>5. met' \in [Threads -> SUBSET (1..lastId)]
    BY <2>2, <2>3
  <2> QED
    BY <2>4, <2>5
<1>5. before' \in [Threads -> SUBSET (1..lastId')] /\ met' \in [Threads -> SUBSET (1..lastId')]
  BY <1>3, <1>4
<1> QED
  BY <1>1, <1>2, <1>5 DEF StorageInv, TypeOK, TableKeeps, StackType

LEMMA InvInit == Init => StorageInv
<1> SUFFICES ASSUME Init PROVE StorageInv
  OBVIOUS
<1>1. table \in Seq(Rows) /\ IsInjective(table)
  BY StorageAssumption DEF Init
<1>2. lastId \in Nat /\ DOMAIN table = 1..lastId /\ \A i \in DOMAIN table : table[i] \in Rows
  BY <1>1, LenProperties, ElementOfSeq DEF Init
<1>3. TypeOK
  <2>1. 0 \in 0..MaxCalls /\ <<>> \in Seq(Frame)
    BY StorageAssumption, EmptySeq
  <2>2. stack \in [Threads -> Seq(Frame)] /\ calls \in 0..MaxCalls /\ open \in BOOLEAN
    BY <2>1 DEF Init
  <2>3. before \in [Threads -> SUBSET (1..lastId)] /\ met \in [Threads -> SUBSET (1..lastId)]
    BY DEF Init
  <2> QED
    BY <1>2, <2>2, <2>3 DEF TypeOK
<1>4. RowsDistinct
  BY <1>1 DEF RowsDistinct, IsInjective
<1>5. ASSUME NEW t \in Threads PROVE stack[t] = <<>> /\ Depth(t) = 0 /\ Shape(t) /\ ~Holds(t)
  <2>1. stack[t] = <<>> /\ Depth(t) = 0
    BY EmptySeq DEF Init, Depth
  <2>2. \A i \in 1..0 : FALSE
    OBVIOUS
  <2>3. DOMAIN stack[t] = {}
    BY <2>1
  <2> QED
    BY <2>1, <2>2, <2>3 DEF Shape, Holds
<1> QED
  BY <1>3, <1>4, <1>5 DEF StorageInv, Shapes, MutexInv, NewAbsent, Covered

LEMMA InvStep == StorageInv /\ [Next]_vars => StorageInv'
<1> SUFFICES ASSUME StorageInv, [Next]_vars PROVE StorageInv'
  OBVIOUS
<1>1. CASE Open \/ Close \/ UNCHANGED vars
  <2>1. /\ UNCHANGED <<tableVars, stack, calls, history>> /\ open' \in BOOLEAN
    BY <1>1 DEF Open, Close, vars, StorageInv, TypeOK
  <2> QED
    BY <2>1 DEF StorageInv, tableVars, history, TypeOK, Shapes, Shape, Depth, MutexInv, Holds,
       RowsDistinct, NewAbsent, Top, Last, Present, Covered
<1>2. ASSUME NEW t \in Threads,
             AddChannelMonitor(t) \/ RemoveRow(t) \/ RemoveAll(t) \/ Query(t) \/ IterateAll(t)
               \/ Step(t) \/ Throw(t)
      PROVE  StorageInv'
  <2>1. Keeps(t)
    BY <1>2, CallKeeps, StepKeeps
  <2>2. TypeOK'
    BY <1>2, <2>1, TypeStep
  <2>3. Shapes' /\ Others(t) /\ NewAbsent(t)' /\ Covered(t)' /\ RowsDistinct' /\ TableKeeps
    BY <2>1 DEF Keeps, Effect
  <2>4. MutexInv'
    BY <2>1, MutexKept DEF Keeps, Effect, StorageInv
  <2>5. ASSUME NEW u \in Threads PROVE NewAbsent(u)' /\ Covered(u)'
    <3>1. CASE u = t
      BY <2>3, <3>1
    <3>2. CASE u # t
      BY <2>1, <2>3, <3>2, InvStack, OthersAbsent, OthersCovered DEF Keeps, StorageInv
    <3> QED
      BY <3>1, <3>2
  <2> QED
    BY <2>2, <2>3, <2>4, <2>5 DEF StorageInv
<1> QED
  BY <1>1, <1>2 DEF Next

\* The table never holds a row twice, however many threads and handlers insert
\* and remove at the same time: between the count and the insertion of insert
\* no other thread has storage_mutex.
THEOREM RowsAlwaysDistinct == Spec => []RowsDistinct
<1>1. StorageInv => RowsDistinct
  BY DEF StorageInv
<1> QED
  BY <1>1, InvInit, InvStep, PTL DEF Spec

\* An iteration that returns has called its handler with every row that was in
\* the table all the time, though the pairs and the rows of each pair are read
\* under different locks.
THEOREM IterationAlwaysCovers == Spec => []IterationCovers
<1>1. StorageInv => IterationCovers
  <2> SUFFICES ASSUME StorageInv, NEW t \in Threads, stack[t] # <<>>, Top(t) = Iterate({}, "loop")
               PROVE  before[t] \cap DOMAIN table \subseteq met[t]
    BY DEF IterationCovers
  <2>1. Top(t).op = "iterate" /\ Top(t).at = "loop" /\ Top(t).pairs = {}
    BY DEF Iterate
  <2>2. Depth(t) = 1 /\ Top(t) = stack[t][1]
    BY <2>1, InvStack, TopIs
  <2>3. Covered(t) /\ Iteration(t) /\ stack[t][1].pairs = {} /\ ~(Depth(t) >= 2)
    BY <2>1, <2>2 DEF StorageInv, Iteration
  <2> QED
    BY <2>3 DEF Covered, Iteration
<1> QED
  BY <1>1, InvInit, InvStep, PTL DEF Spec

\* No two threads are inside an insert or a scan.
THEOREM StorageMutex == Spec => [](TypeOK /\ MutexInv)
<1>1. StorageInv => TypeOK /\ MutexInv
  BY DEF StorageInv
<1> QED
  BY <1>1, InvInit, InvStep, PTL DEF Spec

=============================================================================
