-------------------------- MODULE ThreadPoolProofs --------------------------
(***************************************************************************)
(* Proofs about ThreadPool for any number of workers, callers and tasks,   *)
(* and about the blocks that a loop is cut into (LoopBlocks).              *)
(***************************************************************************)
EXTENDS ThreadPoolLoops, FiniteSetTheorems, SequenceTheorems, TLAPS

USE DEF WorkerTo, CallerTo, Acquire, Release, Popped, NextId

\* The step of one worker or of one caller, without the wake-ups that only
\* move a program counter from a wait to the lock.
LEMMA NextCases ==
  ASSUME Next
  PROVE  \/ \E w \in Workers : \/ Loop(w) \/ Lock(w) \/ Pred(w) \/ Block(w) \/ Take(w) \/ Run(w)
                               \/ Relock(w) \/ Count(w) \/ SpuriousWake(w)
         \/ \E c \in Callers : \/ Push(c) \/ Pause(c) \/ WaitForTasks(c) \/ Destroy(c)
                               \/ PushCount(c) \/ PushNotify(c) \/ WaitLock(c) \/ WaitPred(c)
                               \/ WaitBlock(c) \/ WaitReturn(c) \/ WaitSpuriousWake(c)
         \/ StopRunning \/ NotifyAll \/ Join
         \/ UNCHANGED vars
BY DEF Next, Worker, CallerStep, DestructorStep, Gone

\* What a notification may do to the program counters.
LEMMA NotifyOneCallerMoves ==
  ASSUME TypeOK, NotifyOneCaller
  PROVE  /\ cpc' \in [Callers -> {"out", "total", "notify", "wait", "wait_lock", "wait_blocked"}
                                  \cup CallerHolds]
         /\ \A c \in Callers : cpc'[c] = cpc[c] \/ (cpc[c] = "wait_blocked" /\ cpc'[c] = "wait_lock")
BY DEF TypeOK, NotifyOneCaller

LEMMA NotifyOneWorkerMoves ==
  ASSUME TypeOK, NotifyOneWorker
  PROVE  /\ wpc' \in [Workers -> {"loop", "lock", "waiting", "task", "relock", "exit"}
                                  \cup WorkerHolds]
         /\ \A w \in Workers : wpc'[w] = wpc[w] \/ (wpc[w] = "waiting" /\ wpc'[w] = "lock")
BY DEF TypeOK, NotifyOneWorker

-----------------------------------------------------------------------------
(* Types and the mutex *)

\* A worker between the pop and the count has a task.
HasJob == \A w \in Uncounted : job[w] # 0

LEMMA TypeStep ==
  ASSUME TypeOK, HasJob, [Next]_vars
  PROVE  TypeOK'
<1>1. CASE UNCHANGED vars
  BY <1>1 DEF TypeOK, vars, shared, history
<1>2. ASSUME NEW w \in Workers,
             \/ Loop(w) \/ Lock(w) \/ Pred(w) \/ Block(w) \/ Run(w) \/ Relock(w) \/ SpuriousWake(w)
      PROVE  TypeOK'
  <2>1. CASE Loop(w) \/ Pred(w)
    BY <2>1 DEF TypeOK, shared, history, WorkerHolds, Loop, Pred
  <2>2. CASE Lock(w) \/ Block(w) \/ Relock(w) \/ SpuriousWake(w)
    BY <2>2 DEF TypeOK, shared, history, WorkerHolds, Lock, Block, Relock, SpuriousWake
  <2>3. CASE Run(w)
    <3>1. done' \in SUBSET Task
      BY <2>3 DEF TypeOK, HasJob, Uncounted, Run
    <3>2. QED
      BY <2>3, <3>1 DEF TypeOK, shared, Run
  <2>4. QED
    BY <1>2, <2>1, <2>2, <2>3
<1>3. ASSUME NEW w \in Workers, Take(w)
      PROVE  TypeOK'
  <2>1. tasks' \in Seq(Task) /\ job' \in [Workers -> Task \cup {0}]
    <3>1. CASE running /\ ~paused
      <4>1. tasks \in Seq(Task) /\ tasks # <<>>
        BY <1>3, <3>1 DEF TypeOK, Take
      <4>2. Head(tasks) \in Task /\ Tail(tasks) \in Seq(Task)
        BY <4>1
      <4>3. job' = [job EXCEPT ![w] = Head(tasks)] /\ tasks' = Tail(tasks)
        BY <1>3, <3>1 DEF Take
      <4>4. QED
        BY <4>2, <4>3 DEF TypeOK
    <3>2. CASE ~(running /\ ~paused)
      BY <1>3, <3>2 DEF TypeOK, Take
    <3>3. QED
      BY <3>1, <3>2
  <2>2. wpc' \in [Workers -> {"loop", "lock", "waiting", "task", "relock", "exit"}
                              \cup WorkerHolds]
    BY <1>3 DEF TypeOK, Take
  <2>3. QED
    BY <1>3, <2>1, <2>2 DEF TypeOK, history, Take
<1>4. ASSUME NEW w \in Workers, Count(w)
      PROVE  TypeOK'
  <2>1. cpc' \in [Callers -> {"out", "total", "notify", "wait", "wait_lock", "wait_blocked"}
                              \cup CallerHolds]
    BY <1>4, NotifyOneCallerMoves DEF TypeOK, Count
  <2>2. QED
    BY <1>4, <2>1 DEF TypeOK, history, Count
<1>5. ASSUME NEW c \in Callers, Push(c)
      PROVE  TypeOK'
  <2>1. pushed + 1 \in 1..MaxTasks
    BY <1>5, PoolAssumption DEF TypeOK, Push
  <2>2. QED
    BY <1>5, <2>1 DEF TypeOK, Push, Task
<1>6. ASSUME NEW c \in Callers, WaitForTasks(c) \/ Destroy(c)
      PROVE  TypeOK'
  <2>1. Returned \in SUBSET (1..MaxTasks)
    BY PoolAssumption DEF TypeOK, Returned
  <2>2. waits' \in 0..MaxWaits
    BY <1>6, PoolAssumption DEF TypeOK, WaitForTasks, Destroy
  <2>3. QED
    BY <1>6, <2>1, <2>2 DEF TypeOK, WaitForTasks, Destroy, StartWait, Task
<1>7. ASSUME NEW c \in Callers, PushNotify(c)
      PROVE  TypeOK'
  BY <1>7, NotifyOneWorkerMoves DEF TypeOK, shared, PushNotify
<1>8. ASSUME NEW c \in Callers,
             \/ Pause(c) \/ PushCount(c) \/ WaitLock(c) \/ WaitPred(c) \/ WaitBlock(c)
             \/ WaitReturn(c) \/ WaitSpuriousWake(c)
      PROVE  TypeOK'
  <2>1. CASE Pause(c)
    <3>1. paused' \in BOOLEAN
      BY Zenon, <2>1 DEF Pause
    <3>2. QED
      BY <2>1, <3>1 DEF TypeOK, history, Pause
  <2>2. CASE WaitLock(c) \/ WaitBlock(c) \/ WaitSpuriousWake(c)
    BY <2>2 DEF TypeOK, shared, history, CallerHolds, WaitLock, WaitBlock, WaitSpuriousWake
  <2>3. CASE WaitPred(c)
    BY <2>3 DEF TypeOK, shared, history, CallerHolds, WaitPred
  <2>4. CASE WaitReturn(c)
    BY <2>4 DEF TypeOK, history, WaitReturn
  <2>5. CASE PushCount(c)
    <3>1. tasksTotal' \in Int
      BY <2>5 DEF TypeOK, PushCount
    <3>2. QED
      BY <2>5, <3>1 DEF TypeOK, history, PushCount
  <2>6. QED
    BY <1>8, <2>1, <2>2, <2>3, <2>4, <2>5
<1>9. CASE StopRunning \/ NotifyAll \/ Join
  BY <1>9 DEF TypeOK, shared, history, StopRunning, NotifyAll, Join
<1>10. QED
  BY <1>1, <1>2, <1>3, <1>4, <1>5, <1>6, <1>7, <1>8, <1>9, NextCases

LEMMA HasJobStep ==
  ASSUME TypeOK, HasJob, [Next]_vars
  PROVE  HasJob'
<1> USE DEF HasJob, Uncounted
<1>1. CASE UNCHANGED vars
  BY <1>1 DEF vars
<1>2. ASSUME NEW w \in Workers, Take(w)
      PROVE  HasJob'
  <2>1. tasks # <<>> => Head(tasks) \in Task
    BY DEF TypeOK
  <2>2. 0 \notin Task
    BY PoolAssumption DEF Task
  <2>3. QED
    BY <1>2, <2>1, <2>2 DEF TypeOK, Take
<1>3. ASSUME NEW w \in Workers,
             \/ Loop(w) \/ Lock(w) \/ Pred(w) \/ Block(w) \/ Run(w) \/ Relock(w) \/ Count(w)
             \/ SpuriousWake(w)
      PROVE  HasJob'
  BY <1>3 DEF TypeOK, Loop, Lock, Pred, Block, Run, Relock, Count, SpuriousWake
<1>4. ASSUME NEW c \in Callers, PushNotify(c)
      PROVE  HasJob'
  BY <1>4, NotifyOneWorkerMoves DEF PushNotify
<1>5. ASSUME NEW c \in Callers,
             \/ Push(c) \/ Pause(c) \/ WaitForTasks(c) \/ Destroy(c) \/ PushCount(c)
             \/ WaitLock(c) \/ WaitPred(c) \/ WaitBlock(c) \/ WaitReturn(c) \/ WaitSpuriousWake(c)
      PROVE  HasJob'
  BY <1>5 DEF Push, Pause, WaitForTasks, Destroy, StartWait, PushCount, WaitLock, WaitPred,
     WaitBlock, WaitReturn, WaitSpuriousWake
<1>6. CASE StopRunning \/ NotifyAll \/ Join
  BY <1>6 DEF TypeOK, StopRunning, NotifyAll, Join
<1>7. QED
  BY <1>1, <1>2, <1>3, <1>4, <1>5, <1>6, NextCases

\* The mutex is owned by the one thread between its acquisition and release.
LEMMA MutexStep ==
  ASSUME TypeOK, MutexOwner, [Next]_vars
  PROVE  MutexOwner'
<1> USE PoolAssumption DEF WorkerHolds, CallerHolds
<1>1. CASE UNCHANGED vars
  BY <1>1 DEF MutexOwner, vars, shared, history
<1>2. ASSUME NEW w \in Workers,
             \/ Loop(w) \/ Pred(w) \/ Run(w) \/ SpuriousWake(w)
      PROVE  MutexOwner'
  BY <1>2 DEF TypeOK, MutexOwner, Loop, Pred, Run, SpuriousWake
<1>3. ASSUME NEW w \in Workers,
             \/ Lock(w) \/ Block(w) \/ Relock(w) \/ Take(w)
      PROVE  MutexOwner'
  BY <1>3 DEF TypeOK, MutexOwner, Lock, Block, Relock, Take
<1>4. ASSUME NEW w \in Workers, Count(w)
      PROVE  MutexOwner'
  <2>1. \A c \in Callers :
          cpc'[c] = cpc[c] \/ (cpc[c] = "wait_blocked" /\ cpc'[c] = "wait_lock")
    BY <1>4, NotifyOneCallerMoves DEF Count
  <2>2. QED
    BY <1>4, <2>1 DEF TypeOK, MutexOwner, Count
<1>5. ASSUME NEW c \in Callers, PushNotify(c)
      PROVE  MutexOwner'
  BY <1>5, NotifyOneWorkerMoves DEF TypeOK, MutexOwner, PushNotify
<1>6. ASSUME NEW c \in Callers,
             \/ Push(c) \/ Pause(c) \/ WaitForTasks(c) \/ Destroy(c) \/ PushCount(c)
             \/ WaitPred(c) \/ WaitSpuriousWake(c)
      PROVE  MutexOwner'
  BY <1>6 DEF TypeOK, MutexOwner, Push, Pause, WaitForTasks, Destroy, StartWait, PushCount,
     WaitPred, WaitSpuriousWake
<1>7. ASSUME NEW c \in Callers, WaitLock(c) \/ WaitBlock(c) \/ WaitReturn(c)
      PROVE  MutexOwner'
  <2>1. CASE WaitLock(c)
    BY <2>1 DEF TypeOK, MutexOwner, WaitLock
  <2>2. CASE WaitBlock(c)
    BY <2>2 DEF TypeOK, MutexOwner, WaitBlock
  <2>3. CASE WaitReturn(c)
    BY <2>3 DEF TypeOK, MutexOwner, WaitReturn
  <2>4. QED
    BY <1>7, <2>1, <2>2, <2>3
<1>8. CASE StopRunning \/ NotifyAll \/ Join
  BY <1>8 DEF TypeOK, MutexOwner, StopRunning, NotifyAll, Join
<1>9. QED
  BY <1>1, <1>2, <1>3, <1>4, <1>5, <1>6, <1>7, <1>8, NextCases

LEMMA BaseInit ==
  ASSUME Init
  PROVE  TypeOK /\ HasJob /\ MutexOwner
<1>1. running \in BOOLEAN /\ paused \in BOOLEAN /\ waiting \in BOOLEAN
  BY Zenon DEF Init
<1>2. tasks \in Seq(Task) /\ tasksTotal \in Int /\ mutex \in Workers \cup Callers \cup {"free"}
  BY DEF Init
<1>3. /\ pushed \in 0..MaxTasks /\ done \in SUBSET Task /\ waits \in 0..MaxWaits
      /\ pushing \in [Callers -> Task \cup {0}] /\ covered \in [Callers -> SUBSET Task]
      /\ job \in [Workers -> Task \cup {0}]
  BY PoolAssumption DEF Init
<1>4. /\ wpc \in [Workers -> {"loop", "lock", "waiting", "task", "relock", "exit"}
                              \cup WorkerHolds]
      /\ cpc \in [Callers -> {"out", "total", "notify", "wait", "wait_lock", "wait_blocked"}
                              \cup CallerHolds]
      /\ life \in {"up", "waits", "stop", "notify", "join", "gone"}
  BY DEF Init
<1>5. TypeOK
  BY <1>1, <1>2, <1>3, <1>4 DEF TypeOK
<1>6. MutexOwner
  BY PoolAssumption DEF Init, MutexOwner, WorkerHolds, CallerHolds
<1>7. HasJob
  BY DEF Init, HasJob, Uncounted
<1>8. QED
  BY <1>5, <1>6, <1>7

Base == TypeOK /\ HasJob /\ MutexOwner

\* The two invariants every other proof rests on.
THEOREM BaseInvariant == Spec => []Base
<1>1. Init => Base
  BY BaseInit DEF Base
<1>2. Base /\ [Next]_vars => Base'
  BY TypeStep, HasJobStep, MutexStep DEF Base
<1>3. QED
  BY <1>1, <1>2, PTL DEF Spec

\* Every variable keeps its type: the counter is an integer and the tasks are
\* the ones that were pushed.
THEOREM TypeCorrect == Spec => []TypeOK
<1>1. Base => TypeOK
  BY DEF Base
<1>2. QED
  BY <1>1, BaseInvariant, PTL

\* tasks_mutex is held by the thread whose next step needs it, and no other.
THEOREM MutexSafe == Spec => []MutexOwner
<1>1. Base => MutexOwner
  BY DEF Base
<1>2. QED
  BY <1>1, BaseInvariant, PTL

-----------------------------------------------------------------------------
(* The front of the queue *)

LEMMA FrontStep ==
  ASSUME Base, FrontExists, [Next]_vars
  PROVE  FrontExists'
<1> USE DEF Base, FrontExists
<1>1. CASE UNCHANGED vars
  BY <1>1 DEF vars, shared
<1>2. ASSUME NEW w \in Workers, Take(w)
      PROVE  FrontExists'
  <2>1. \A u \in Workers : wpc'[u] # "take"
    BY <1>2 DEF TypeOK, MutexOwner, WorkerHolds, Take
  <2>2. QED
    BY <2>1
<1>3. ASSUME NEW w \in Workers, Pred(w)
      PROVE  FrontExists'
  BY <1>3 DEF TypeOK, Pred, Ready, shared
<1>4. ASSUME NEW w \in Workers,
             \/ Loop(w) \/ Lock(w) \/ Block(w) \/ Run(w) \/ Relock(w) \/ SpuriousWake(w)
      PROVE  FrontExists'
  BY <1>4 DEF TypeOK, Loop, Lock, Block, Run, Relock, SpuriousWake, shared
<1>5. ASSUME NEW w \in Workers, Count(w)
      PROVE  FrontExists'
  BY <1>5 DEF TypeOK, Count
<1>6. ASSUME NEW c \in Callers, Push(c)
      PROVE  FrontExists'
  BY <1>6 DEF TypeOK, Push
<1>7. ASSUME NEW c \in Callers, PushNotify(c)
      PROVE  FrontExists'
  BY <1>7, NotifyOneWorkerMoves DEF PushNotify, shared
<1>8. ASSUME NEW c \in Callers,
             \/ Pause(c) \/ WaitForTasks(c) \/ Destroy(c) \/ PushCount(c) \/ WaitLock(c)
             \/ WaitPred(c) \/ WaitBlock(c) \/ WaitReturn(c) \/ WaitSpuriousWake(c)
      PROVE  FrontExists'
  BY <1>8 DEF Pause, WaitForTasks, Destroy, StartWait, PushCount, WaitLock, WaitPred,
     WaitBlock, WaitReturn, WaitSpuriousWake, shared
<1>9. CASE StopRunning
  BY <1>9 DEF StopRunning
<1>10. CASE NotifyAll \/ Join
  BY <1>10 DEF TypeOK, NotifyAll, Join, shared
<1>11. QED
  BY <1>1, <1>2, <1>3, <1>4, <1>5, <1>6, <1>7, <1>8, <1>9, <1>10, NextCases

\* A worker about to take a task finds one: nothing can empty the queue while
\* it holds the mutex, and running never becomes true again.
THEOREM FrontSafe == Spec => []FrontExists
<1>1. Init => FrontExists
  BY DEF Init, FrontExists
<1>2. Base /\ FrontExists /\ [Next]_vars => FrontExists'
  BY FrontStep
<1>3. QED
  BY <1>1, <1>2, BaseInvariant, PTL DEF Spec

-----------------------------------------------------------------------------
(* The order of the tasks *)

Busy == {u \in Workers : wpc[u] = "task"}
Taken == pushed - Len(tasks)

\* The queue holds the latest ids in order; every earlier one is being run by
\* exactly one worker or has run.
OrderInv ==
  /\ Taken \in Nat
  /\ \A i \in 1..Len(tasks) : tasks[i] = Taken + i
  /\ \A w \in Busy : job[w] \in 1..Taken /\ job[w] \notin done
  /\ \A w, u \in Busy : job[w] = job[u] => w = u
  /\ 1..Taken = done \cup Executing

\* A step that neither pushes, takes nor runs a task changes nothing of this.
Frame ==
  /\ UNCHANGED <<tasks, pushed, done>>
  /\ \A w \in Workers : (wpc'[w] = "task" <=> wpc[w] = "task")
                        /\ (wpc[w] = "task" => job'[w] = job[w])

LEMMA FrameCases ==
  ASSUME TypeOK, [Next]_vars
  PROVE  \/ \E w \in Workers : Take(w) /\ running /\ ~paused
         \/ \E w \in Workers : Run(w)
         \/ \E c \in Callers : Push(c)
         \/ Frame
<1> USE DEF Frame
<1>1. CASE UNCHANGED vars
  BY <1>1 DEF vars, shared, history
<1>2. ASSUME NEW w \in Workers, Take(w), ~(running /\ ~paused)
      PROVE  Frame
  BY <1>2 DEF TypeOK, Take, history
<1>3. ASSUME NEW w \in Workers,
             \/ Loop(w) \/ Lock(w) \/ Pred(w) \/ Block(w) \/ Relock(w) \/ Count(w) \/ SpuriousWake(w)
      PROVE  Frame
  BY <1>3 DEF TypeOK, Loop, Lock, Pred, Block, Relock, Count, SpuriousWake, shared, history
<1>4. ASSUME NEW c \in Callers, PushNotify(c)
      PROVE  Frame
  BY <1>4, NotifyOneWorkerMoves DEF PushNotify, shared
<1>5. ASSUME NEW c \in Callers,
             \/ Pause(c) \/ WaitForTasks(c) \/ Destroy(c) \/ PushCount(c) \/ WaitLock(c)
             \/ WaitPred(c) \/ WaitBlock(c) \/ WaitReturn(c) \/ WaitSpuriousWake(c)
      PROVE  Frame
  BY <1>5 DEF Pause, WaitForTasks, Destroy, StartWait, PushCount, WaitLock, WaitPred,
     WaitBlock, WaitReturn, WaitSpuriousWake, shared, history
<1>6. CASE StopRunning \/ NotifyAll \/ Join
  BY <1>6 DEF TypeOK, StopRunning, NotifyAll, Join, shared, history
<1>7. QED
  BY <1>1, <1>2, <1>3, <1>4, <1>5, <1>6, NextCases

LEMMA FrameKeeps ==
  ASSUME Frame
  PROVE  UNCHANGED <<Busy, Executing, Taken>>
BY DEF Frame, Busy, Executing, Taken

\* What taking a task does to the sets.
LEMMA TakeEffect ==
  ASSUME TypeOK, OrderInv, NEW w \in Workers, Take(w), running, ~paused
  PROVE  /\ w \notin Busy /\ tasks # <<>>
         /\ Busy' = Busy \cup {w}
         /\ Executing' = Executing \cup {Head(tasks)}
         /\ Head(tasks) = Taken + 1
         /\ Taken' = Taken + 1
         /\ tasks' = Tail(tasks) /\ done' = done
         /\ job' = [job EXCEPT ![w] = Head(tasks)]
<1>1. /\ tasks # <<>> /\ tasks' = Tail(tasks) /\ UNCHANGED <<pushed, done>>
      /\ job' = [job EXCEPT ![w] = Head(tasks)] /\ wpc[w] = "take"
      /\ wpc' = [wpc EXCEPT ![w] = "task"]
  BY DEF Take, history
<1>2. w \notin Busy /\ Busy' = Busy \cup {w}
  BY <1>1 DEF Busy, TypeOK
<1>3. Executing' = Executing \cup {Head(tasks)}
  BY <1>1, <1>2 DEF Busy, Executing, TypeOK
<1>4. Head(tasks) = Taken + 1
  <2>1. Len(tasks) >= 1 /\ tasks[1] = Head(tasks)
    BY <1>1 DEF TypeOK
  <2>2. QED
    BY <2>1 DEF OrderInv, TypeOK
<1>5. Taken' = Taken + 1
  <2>1. Len(Tail(tasks)) = Len(tasks) - 1 /\ Len(tasks) \in Nat
    BY <1>1 DEF TypeOK
  <2>2. QED
    BY <1>1, <2>1 DEF Taken, TypeOK
<1>6. QED
  BY <1>1, <1>2, <1>3, <1>4, <1>5

\* What running one does.
LEMMA RunEffect ==
  ASSUME TypeOK, OrderInv, NEW w \in Workers, Run(w)
  PROVE  /\ w \in Busy /\ Busy' = Busy \ {w}
         /\ Executing' = Executing \ {job[w]}
         /\ job[w] \in Executing
         /\ done' = done \cup {job[w]}
         /\ UNCHANGED <<tasks, job, Taken>>
<1>1. /\ wpc[w] = "task" /\ wpc' = [wpc EXCEPT ![w] = "relock"]
      /\ done' = done \cup {job[w]} /\ UNCHANGED <<tasks, job, pushed>>
  BY DEF Run, shared
<1>2. w \in Busy /\ Busy' = Busy \ {w}
  BY <1>1 DEF Busy, TypeOK
<1>3. Executing = {job[u] : u \in Busy} /\ Executing' = {job[u] : u \in Busy'}
  BY <1>1 DEF Executing, Busy
<1>4. \A u \in Busy : job[u] = job[w] => u = w
  BY <1>2 DEF OrderInv
<1>5. QED
  BY <1>1, <1>2, <1>3, <1>4 DEF Taken

LEMMA PushEffect ==
  ASSUME TypeOK, OrderInv, NEW c \in Callers, Push(c)
  PROVE  /\ tasks' = Append(tasks, pushed + 1) /\ pushed' = pushed + 1
         /\ pushed + 1 \in Task
         /\ UNCHANGED <<wpc, job, done, Busy, Executing, Taken>>
<1>1. tasks' = Append(tasks, pushed + 1) /\ pushed' = pushed + 1 /\ UNCHANGED <<wpc, job, done>>
  BY DEF Push
<1>2. pushed + 1 \in Task /\ pushed \in Int
  BY PoolAssumption DEF Push, TypeOK, Task
<1>3. Taken' = Taken
  <2>1. Len(Append(tasks, pushed + 1)) = Len(tasks) + 1 /\ Len(tasks) \in Nat
    BY <1>2 DEF TypeOK
  <2>2. QED
    BY <1>1, <1>2, <2>1 DEF Taken
<1>4. QED
  BY <1>1, <1>2, <1>3 DEF Busy, Executing

LEMMA OrderStep ==
  ASSUME TypeOK, OrderInv, [Next]_vars
  PROVE  OrderInv'
<1>1. CASE Frame
  BY <1>1, FrameKeeps DEF Frame, OrderInv, Busy
<1>2. ASSUME NEW w \in Workers, Take(w), running, ~paused
      PROVE  OrderInv'
  <2> USE <1>2, TakeEffect
  <2>1. Taken' \in Nat
    BY DEF OrderInv
  <2>2. \A i \in 1..Len(tasks') : tasks'[i] = Taken' + i
    <3>1. /\ Len(tasks') = Len(tasks) - 1
          /\ \A i \in 1..Len(tasks') : tasks'[i] = tasks[i + 1]
          /\ Len(tasks) \in Nat
      <4>1. tasks \in Seq(Task) /\ tasks # <<>> /\ tasks' = Tail(tasks)
        BY DEF TypeOK
      <4>2. QED
        BY ONLY <4>1, HeadTailProperties, LenProperties
    <3>2. QED
      BY <3>1 DEF OrderInv, TypeOK
  <2>3. \A u \in Busy' : job'[u] \in 1..Taken' /\ job'[u] \notin done'
    <3>1. ASSUME NEW u \in Busy
          PROVE  job'[u] \in 1..Taken' /\ job'[u] \notin done'
      <4>1. u # w /\ job'[u] = job[u]
        BY DEF TypeOK, Busy
      <4>2. QED
        BY <4>1 DEF OrderInv
    <3>2. job'[w] = Taken + 1
      BY DEF TypeOK
    <3>3. Taken + 1 \notin done
      BY DEF OrderInv
    <3>4. QED
      BY <3>1, <3>2, <3>3 DEF OrderInv
  <2>4. \A v, u \in Busy' : job'[v] = job'[u] => v = u
    <3>1. \A u \in Busy : u # w /\ job'[u] = job[u] /\ job[u] # Taken + 1
      BY DEF TypeOK, Busy, OrderInv
    <3>2. job'[w] = Taken + 1
      BY DEF TypeOK
    <3>3. QED
      BY <3>1, <3>2 DEF OrderInv
  <2>5. 1..Taken' = done' \cup Executing'
    BY DEF OrderInv
  <2>6. QED
    BY <2>1, <2>2, <2>3, <2>4, <2>5 DEF OrderInv
<1>3. ASSUME NEW w \in Workers, Run(w)
      PROVE  OrderInv'
  BY <1>3, RunEffect DEF OrderInv
<1>4. ASSUME NEW c \in Callers, Push(c)
      PROVE  OrderInv'
  <2>1. \A i \in 1..Len(tasks') : tasks'[i] = Taken' + i
    <3>1. /\ Len(tasks') = Len(tasks) + 1
          /\ tasks'[Len(tasks) + 1] = pushed + 1
          /\ \A i \in 1..Len(tasks) : tasks'[i] = tasks[i]
          /\ Len(tasks) \in Nat
      <4> DEFINE t == pushed + 1
      <4>1. tasks \in Seq(Task) /\ t \in Task /\ tasks' = Append(tasks, t)
        BY <1>4, PushEffect DEF TypeOK
      <4> HIDE DEF t
      <4>2. /\ Len(tasks') = Len(tasks) + 1
            /\ tasks'[Len(tasks) + 1] = t
            /\ \A i \in 1..Len(tasks) : tasks'[i] = tasks[i]
            /\ Len(tasks) \in Nat
        BY ONLY <4>1, AppendProperties, LenProperties
      <4>3. QED
        BY <4>2 DEF t
    <3>2. pushed + 1 = Taken' + (Len(tasks) + 1)
      BY <1>4, PushEffect DEF Taken, TypeOK
    <3>3. /\ \A i \in 1..Len(tasks) : tasks[i] = Taken + i
          /\ Taken' = Taken
      BY <1>4, PushEffect DEF OrderInv
    <3>4. \A i \in 1..(Len(tasks) + 1) : i \in 1..Len(tasks) \/ i = Len(tasks) + 1
      BY ONLY <3>1
    <3>5. QED
      BY ONLY <3>1, <3>2, <3>3, <3>4
  <2>2. QED
    BY <1>4, <2>1, PushEffect DEF OrderInv
<1>5. QED
  BY <1>1, <1>2, <1>3, <1>4, FrameCases

LEMMA OrderInit ==
  ASSUME Init
  PROVE  OrderInv
<1>1. tasks = <<>> /\ pushed = 0 /\ done = {} /\ \A w \in Workers : wpc[w] = "loop"
  BY DEF Init
<1>2. Busy = {} /\ Executing = {}
  BY ONLY <1>1 DEF Busy, Executing
<1>3. Len(tasks) = 0
  BY <1>1
<1>4. Taken \in Nat /\ 1..Taken = {} /\ 1..Len(tasks) = {}
  BY ONLY <1>1, <1>3 DEF Taken
<1>5. QED
  BY ONLY <1>1, <1>2, <1>4 DEF OrderInv

\* Every pushed task is in the queue, taken by one worker, or done, in order.
THEOREM OrderInvariant == Spec => []OrderInv
<1>1. TypeOK /\ OrderInv /\ [Next]_vars => OrderInv'
  BY OrderStep
<1>2. Init => OrderInv
  BY OrderInit
<1>3. QED
  BY <1>1, <1>2, TypeCorrect, PTL DEF Spec

LEMMA QueueStep ==
  ASSUME TypeOK, OrderInv, [Next]_vars
  PROVE  [Queue!Next]_<<tasks, Executing, done>>
<1>1. CASE Frame
  BY <1>1, FrameKeeps DEF Frame
<1>2. ASSUME NEW w \in Workers, Take(w), running, ~paused
      PROVE  Queue!Start
  <2>1. Cardinality(Executing) < Cardinality(Workers)
    <3>1. Busy \in SUBSET (Workers \ {w})
      BY <1>2, TakeEffect DEF Busy
    <3>2. /\ IsFiniteSet(Busy) /\ IsFiniteSet(Workers \ {w})
          /\ Cardinality(Busy) <= Cardinality(Workers \ {w})
          /\ Cardinality(Workers \ {w}) = Cardinality(Workers) - 1
      BY <3>1, FS_RemoveElement, FS_Subset, PoolAssumption
    <3>3. [u \in Busy |-> job[u]] \in Surjection(Busy, Executing)
      <4>1. Executing = {job[u] : u \in Busy}
        BY DEF Executing, Busy
      <4> DEFINE f == [u \in Busy |-> job[u]]
      <4>2. f \in [Busy -> Executing]
        BY <4>1
      <4>3. \A t \in Executing : \E u \in Busy : f[u] = t
        BY <4>1
      <4> HIDE DEF f
      <4>4. f \in Surjection(Busy, Executing)
        BY ONLY <4>2, <4>3 DEF Surjection
      <4>5. QED
        BY <4>4 DEF f
    <3>4. Cardinality(Executing) <= Cardinality(Busy) /\ IsFiniteSet(Executing)
      BY <3>2, <3>3, FS_Surjection
    <3>5. /\ Cardinality(Executing) \in Nat /\ Cardinality(Busy) \in Nat
          /\ Cardinality(Workers) \in Nat
      BY <3>2, <3>4, FS_CardinalityType, PoolAssumption
    <3>6. QED
      BY <3>2, <3>4, <3>5
  <2>2. Queue!Cardinality(Executing) = Cardinality(Executing)
    BY ONLY Zenon DEF Queue!Cardinality, Cardinality
  <2>3. QED
    BY <1>2, <2>1, <2>2, TakeEffect DEF Queue!Start
<1>3. ASSUME NEW w \in Workers, Run(w)
      PROVE  job[w] \in Task /\ Queue!Finish(job[w])
  <2>1. job[w] \in Task
    BY <1>3, RunEffect, PoolAssumption DEF OrderInv, Taken, TypeOK, Task
  <2>2. QED
    BY <1>3, <2>1, RunEffect DEF Queue!Finish
<1>4. ASSUME NEW c \in Callers, Push(c)
      PROVE  pushed + 1 \in Task /\ Queue!Push(pushed + 1)
  <2>1. Taken <= pushed /\ pushed \in Nat /\ Len(tasks) \in Nat
    BY DEF Taken, TypeOK
  <2>2. pushed + 1 \notin done \cup Executing
    BY <2>1 DEF OrderInv
  <2>3. \A i \in DOMAIN tasks : tasks[i] # pushed + 1
    BY <2>1 DEF OrderInv, Taken, TypeOK
  <2>4. QED
    BY <1>4, <2>2, <2>3, PushEffect DEF Queue!Push
<1>5. QED
  BY <1>1, <1>2, <1>3, <1>4, FrameCases DEF Queue!Next

\* The pool implements TaskQueue: tasks start in the order of the pushes, each
\* runs once, and no more than there are workers run at a time.
THEOREM PoolImplementsQueue == Spec => StartsInOrder
<1>1. Init => Queue!Init
  BY OrderInit DEF Init, Queue!Init, Executing
<1>2. TypeOK /\ OrderInv /\ [Next]_vars => [Queue!Next]_<<tasks, Executing, done>>
  BY QueueStep
<1>3. QED
  BY <1>1, <1>2, TypeCorrect, OrderInvariant, PTL DEF Spec, StartsInOrder, Queue!Spec

-----------------------------------------------------------------------------
(* The count of the tasks *)

\* The counts under a step that changes no queue and no set of the counted.
LEMMA CountFrame ==
  ASSUME TotalCounts, UNCHANGED <<tasks, tasksTotal, Uncounted, Counting>>
  PROVE  TotalCounts'
BY DEF TotalCounts

LEMMA CountTypes ==
  ASSUME TypeOK
  PROVE  /\ IsFiniteSet(Uncounted) /\ Cardinality(Uncounted) \in Nat
         /\ IsFiniteSet(Counting) /\ Cardinality(Counting) \in Nat
         /\ Len(tasks) \in Nat /\ tasksTotal \in Int
<1>1. Uncounted \in SUBSET Workers /\ Counting \in SUBSET Callers
  BY DEF Uncounted, Counting
<1>2. Len(tasks) \in Nat /\ tasksTotal \in Int
  BY DEF TypeOK
<1>3. QED
  BY <1>1, <1>2, FS_Subset, FS_CardinalityType, PoolAssumption

LEMMA CountStep ==
  ASSUME TypeOK, OrderInv, TotalCounts, [Next]_vars
  PROVE  TotalCounts'
<1>1. CASE UNCHANGED vars
  BY <1>1 DEF vars, shared, TotalCounts, Uncounted, Counting
<1>2. ASSUME NEW w \in Workers, Take(w), running, ~paused
      PROVE  TotalCounts'
  <2>1. /\ wpc[w] = "take" /\ wpc' = [wpc EXCEPT ![w] = "task"]
        /\ UNCHANGED <<cpc, tasksTotal>>
    BY <1>2 DEF Take
  <2>2. w \notin Uncounted /\ Uncounted' = Uncounted \cup {w} /\ Counting' = Counting
    BY <2>1 DEF Uncounted, Counting, TypeOK
  <2>3. Len(tasks') = Len(tasks) - 1
    <3>1. tasks \in Seq(Task) /\ tasks # <<>> /\ tasks' = Tail(tasks)
      BY <1>2, TakeEffect DEF TypeOK
    <3>2. QED
      BY ONLY <3>1, HeadTailProperties
  <2>4. Cardinality(Uncounted') = Cardinality(Uncounted) + 1
    BY <2>2, CountTypes, FS_AddElement
  <2>5. QED
    BY <2>1, <2>2, <2>3, <2>4, CountTypes DEF TotalCounts
<1>3. ASSUME NEW w \in Workers,
             \/ Loop(w) \/ Lock(w) \/ Pred(w) \/ Block(w) \/ Run(w) \/ Relock(w)
             \/ SpuriousWake(w) \/ (Take(w) /\ ~(running /\ ~paused))
      PROVE  TotalCounts'
  <2>1. UNCHANGED <<tasks, tasksTotal, cpc>>
    BY <1>3 DEF Loop, Lock, Pred, Block, Run, Relock, SpuriousWake, Take, shared
  <2>2. Uncounted' = Uncounted
    BY <1>3 DEF Loop, Lock, Pred, Block, Run, Relock, SpuriousWake, Take, Uncounted, TypeOK
  <2>3. QED
    BY <2>1, <2>2, CountFrame DEF Counting
<1>4. ASSUME NEW w \in Workers, Count(w)
      PROVE  TotalCounts'
  <2>1. /\ wpc[w] = "count" /\ wpc' = [wpc EXCEPT ![w] = "loop"]
        /\ tasksTotal' = tasksTotal - 1 /\ tasks' = tasks
    BY <1>4 DEF Count
  <2>2. w \in Uncounted /\ Uncounted' = Uncounted \ {w}
    BY <2>1 DEF Uncounted, TypeOK
  <2>3. Counting' = Counting
    BY <1>4, NotifyOneCallerMoves DEF Count, Counting
  <2>4. Cardinality(Uncounted') = Cardinality(Uncounted) - 1
    BY <2>2, CountTypes, FS_RemoveElement
  <2>5. QED
    BY <2>1, <2>3, <2>4, CountTypes DEF TotalCounts
<1>5. ASSUME NEW c \in Callers, Push(c)
      PROVE  TotalCounts'
  <2>1. /\ cpc[c] = "out" /\ cpc' = [cpc EXCEPT ![c] = "total"]
        /\ UNCHANGED <<wpc, tasksTotal>>
    BY <1>5 DEF Push
  <2>2. c \notin Counting /\ Counting' = Counting \cup {c} /\ Uncounted' = Uncounted
    BY <2>1 DEF Uncounted, Counting, TypeOK
  <2>3. Len(tasks') = Len(tasks) + 1
    <3> DEFINE t == pushed + 1
    <3>1. tasks \in Seq(Task) /\ t \in Task /\ tasks' = Append(tasks, t)
      BY <1>5, PushEffect DEF TypeOK
    <3> HIDE DEF t
    <3>2. QED
      BY ONLY <3>1, AppendProperties
  <2>4. Cardinality(Counting') = Cardinality(Counting) + 1
    BY <2>2, CountTypes, FS_AddElement
  <2>5. QED
    BY <2>1, <2>2, <2>3, <2>4, CountTypes DEF TotalCounts
<1>6. ASSUME NEW c \in Callers, PushCount(c)
      PROVE  TotalCounts'
  <2>1. /\ cpc[c] = "total" /\ cpc' = [cpc EXCEPT ![c] = "notify"]
        /\ tasksTotal' = tasksTotal + 1 /\ UNCHANGED <<wpc, tasks>>
    BY <1>6 DEF PushCount
  <2>2. c \in Counting /\ Counting' = Counting \ {c} /\ Uncounted' = Uncounted
    BY <2>1 DEF Uncounted, Counting, TypeOK
  <2>3. Cardinality(Counting') = Cardinality(Counting) - 1
    BY <2>2, CountTypes, FS_RemoveElement
  <2>4. QED
    BY <2>1, <2>2, <2>3, CountTypes DEF TotalCounts
<1>7. ASSUME NEW c \in Callers,
             \/ Pause(c) \/ WaitForTasks(c) \/ Destroy(c) \/ WaitLock(c) \/ WaitPred(c)
             \/ WaitBlock(c) \/ WaitReturn(c) \/ WaitSpuriousWake(c) \/ PushNotify(c)
      PROVE  TotalCounts'
  <2>1. UNCHANGED <<tasks, tasksTotal>>
    BY <1>7 DEF Pause, WaitForTasks, Destroy, StartWait, WaitLock, WaitPred, WaitBlock,
       WaitReturn, WaitSpuriousWake, PushNotify, shared
  <2>2. Counting' = Counting
    BY <1>7 DEF Pause, WaitForTasks, Destroy, StartWait, WaitLock, WaitPred, WaitBlock,
       WaitReturn, WaitSpuriousWake, PushNotify, Counting, TypeOK
  <2>3. Uncounted' = Uncounted
    <3>1. CASE PushNotify(c)
      BY <3>1, NotifyOneWorkerMoves DEF PushNotify, Uncounted
    <3>2. CASE ~PushNotify(c)
      BY <1>7, <3>2 DEF Pause, WaitForTasks, Destroy, StartWait, WaitLock, WaitPred, WaitBlock,
         WaitReturn, WaitSpuriousWake, Uncounted
    <3>3. QED
      BY <3>1, <3>2
  <2>4. QED
    BY <2>1, <2>2, <2>3, CountFrame
<1>8. CASE StopRunning \/ NotifyAll \/ Join
  <2>1. UNCHANGED <<tasks, tasksTotal, cpc>>
    BY <1>8 DEF StopRunning, NotifyAll, Join, shared
  <2>2. Uncounted' = Uncounted
    BY <1>8 DEF StopRunning, NotifyAll, Join, Uncounted, TypeOK
  <2>3. QED
    BY <2>1, <2>2, CountFrame DEF Counting
<1>9. QED
  BY <1>1, <1>2, <1>3, <1>4, <1>5, <1>6, <1>7, <1>8, NextCases

LEMMA CountInit ==
  ASSUME Init
  PROVE  TotalCounts
<1>1. /\ tasks = <<>> /\ tasksTotal = 0
      /\ wpc = [w \in Workers |-> "loop"] /\ cpc = [c \in Callers |-> "out"]
  BY DEF Init
<1>2. Uncounted = {} /\ Counting = {}
  BY ONLY <1>1 DEF Uncounted, Counting
<1>3. Len(tasks) = 0
  BY <1>1
<1>4. QED
  BY <1>1, <1>2, <1>3, FS_EmptySet DEF TotalCounts

\* tasks_total is the number of unfinished tasks less the pushes that have not
\* counted theirs yet.
THEOREM CountExact == Spec => []TotalCounts
<1>1. TypeOK /\ OrderInv /\ TotalCounts /\ [Next]_vars => TotalCounts'
  BY CountStep
<1>2. Init => TotalCounts
  BY CountInit
<1>3. QED
  BY <1>1, <1>2, TypeCorrect, OrderInvariant, PTL DEF Spec

-----------------------------------------------------------------------------
(* What the end of a wait means *)

OneCaller == \A c, d \in Callers : c = d
AllRan == done = 1..pushed

\* Nobody pushes once the destructor has begun, so its wait is exact; so is
\* every wait of a pool that one thread uses.
WaitInv ==
  /\ life # "up" => Counting = {}
  /\ life # "up" \/ OneCaller =>
       \A c \in Callers : cpc[c] = "wait_return" /\ ~paused => AllRan
  /\ DestroyedComplete
  /\ \A c \in Callers : covered[c] \subseteq 1..pushed

LEMMA AllRanStays ==
  ASSUME TypeOK, OrderInv, [Next]_vars, AllRan, \A c \in Callers : ~Push(c)
  PROVE  AllRan'
<1>1. CASE Frame
  BY <1>1 DEF Frame, AllRan
<1>2. ASSUME NEW w \in Workers, Take(w), running, ~paused
      PROVE  AllRan'
  BY <1>2, TakeEffect DEF AllRan, Take, history
<1>3. ASSUME NEW w \in Workers, Run(w)
      PROVE  AllRan'
  <2>1. job[w] \in 1..Taken
    BY <1>3, RunEffect DEF OrderInv
  <2>2. Taken <= pushed /\ pushed \in Nat /\ Taken \in Nat
    <3>1. Len(tasks) \in Nat
      BY CountTypes
    <3>2. QED
      BY <3>1 DEF TypeOK, OrderInv, Taken
  <2>3. QED
    BY <1>3, <2>1, <2>2 DEF AllRan, Run
<1>4. QED
  BY <1>1, <1>2, <1>3, FrameCases

\* A true predicate means that everything has run, when no push is counting.
LEMMA ZeroIsDone ==
  ASSUME TypeOK, OrderInv, TotalCounts, AllDone, ~paused, Counting = {}
  PROVE  AllRan
<1>1. tasksTotal = 0
  BY DEF AllDone
<1>2. Len(tasks) = 0 /\ Cardinality(Uncounted) = 0
  BY <1>1, CountTypes, FS_EmptySet DEF TotalCounts
<1>3. Uncounted = {}
  BY <1>2, CountTypes, FS_EmptySet
<1>4. Busy = {} /\ Executing = {}
  BY <1>3 DEF Uncounted, Busy, Executing
<1>5. Taken = pushed
  BY <1>2 DEF Taken, TypeOK
<1>6. QED
  BY <1>4, <1>5 DEF OrderInv, AllRan

LEMMA WaitStep ==
  ASSUME TypeOK, OrderInv, TotalCounts, WaitInv, [Next]_vars
  PROVE  WaitInv'
<1> DEFINE Known(c) == cpc[c] = "wait_return" /\ ~paused => AllRan
<1>1. CASE UNCHANGED vars
  BY <1>1 DEF vars, shared, history, WaitInv, Counting, AllRan, DestroyedComplete
<1>2. ASSUME NEW w \in Workers,
             \/ Loop(w) \/ Lock(w) \/ Pred(w) \/ Block(w) \/ Take(w) \/ Run(w) \/ Relock(w)
             \/ Count(w) \/ SpuriousWake(w)
      PROVE  WaitInv'
  <2>1. UNCHANGED <<life, paused, pushed, covered>>
    BY <1>2 DEF Loop, Lock, Pred, Block, Take, Run, Relock, Count, SpuriousWake, shared, history
  <2>2. \A c \in Callers : cpc'[c] = cpc[c] \/ (cpc[c] = "wait_blocked" /\ cpc'[c] = "wait_lock")
    BY <1>2, NotifyOneCallerMoves DEF Loop, Lock, Pred, Block, Take, Run, Relock, Count,
       SpuriousWake
  <2>3. \A c \in Callers : ~Push(c)
    BY <1>2, PoolAssumption DEF TypeOK, Push, Loop, Lock, Pred, Block, Take, Run, Relock, Count,
       SpuriousWake, history
  <2>4. AllRan => AllRan'
    BY <2>3, AllRanStays
  <2>5. QED
    BY <2>1, <2>2, <2>4 DEF WaitInv, Counting, DestroyedComplete, AllRan
<1>3. ASSUME NEW c \in Callers, Push(c)
      PROVE  WaitInv'
  <2>1. /\ life = "up" /\ life' = life /\ cpc[c] = "out" /\ cpc' = [cpc EXCEPT ![c] = "total"]
        /\ pushed' = pushed + 1 /\ UNCHANGED covered
    BY <1>3 DEF Push
  <2>2. OneCaller => \A d \in Callers : cpc'[d] # "wait_return"
    BY <2>1 DEF OneCaller, TypeOK
  <2>3. \A d \in Callers : covered'[d] \subseteq 1..pushed'
    BY <2>1 DEF WaitInv, TypeOK
  <2>4. QED
    BY <2>1, <2>2, <2>3 DEF WaitInv, DestroyedComplete
<1>4. ASSUME NEW c \in Callers, WaitForTasks(c) \/ Destroy(c)
      PROVE  WaitInv'
  <2>1. /\ cpc[c] = "out" /\ cpc' = [cpc EXCEPT ![c] = "wait_lock"]
        /\ covered' = [covered EXCEPT ![c] = Returned]
        /\ UNCHANGED <<paused, pushed, done>> /\ life = "up"
    BY <1>4 DEF WaitForTasks, Destroy, StartWait
  <2>2. \A d \in Callers : covered'[d] \subseteq 1..pushed'
    BY <2>1 DEF WaitInv, Returned, TypeOK
  <2>3. \A d \in Callers : cpc'[d] = "wait_return" => cpc[d] = "wait_return"
    BY <2>1 DEF TypeOK
  <2>4. CASE WaitForTasks(c)
    BY <2>1, <2>2, <2>3, <2>4 DEF WaitForTasks, WaitInv, AllRan, DestroyedComplete
  <2>5. CASE Destroy(c)
    <3>1. life' = "waits" /\ \A d \in Callers : cpc[d] = "out"
      BY <2>5 DEF Destroy
    <3>2. \A d \in Callers : cpc'[d] # "wait_return" /\ cpc'[d] # "total"
      BY <2>1, <3>1 DEF TypeOK
    <3>3. QED
      BY <2>2, <3>1, <3>2 DEF WaitInv, DestroyedComplete, Counting
  <2>6. QED
    BY <1>4, <2>4, <2>5
<1>5. ASSUME NEW c \in Callers,
             \/ PushCount(c) \/ PushNotify(c) \/ WaitLock(c) \/ WaitBlock(c) \/ WaitSpuriousWake(c)
      PROVE  WaitInv'
  <2>1. /\ UNCHANGED <<life, paused, pushed, done, covered>>
        /\ \A d \in Callers : /\ cpc'[d] = "wait_return" => cpc[d] = "wait_return"
                              /\ cpc'[d] = "total" => cpc[d] = "total"
    BY <1>5 DEF PushCount, PushNotify, WaitLock, WaitBlock, WaitSpuriousWake, shared, history,
       TypeOK
  <2>2. QED
    BY <2>1 DEF WaitInv, Counting, DestroyedComplete, AllRan
<1>6. ASSUME NEW c \in Callers, WaitPred(c)
      PROVE  WaitInv'
  <2>1. /\ cpc[c] = "wait_pred"
        /\ cpc' = [cpc EXCEPT ![c] = IF AllDone THEN "wait_return" ELSE "wait_block"]
        /\ UNCHANGED <<life, paused, pushed, done, covered>>
    BY <1>6 DEF WaitPred, shared, history
  <2>2. /\ \A d \in Callers : cpc'[d] = "total" => cpc[d] = "total"
        /\ \A d \in Callers : d # c => cpc'[d] = cpc[d]
    BY <2>1 DEF TypeOK
  <2>3. OneCaller => Counting = {}
    BY <2>1 DEF OneCaller, Counting
  <2>4. ASSUME life # "up" \/ OneCaller, cpc'[c] = "wait_return", ~paused
        PROVE  AllRan
    <3>1. AllDone
      BY <2>1, <2>4 DEF TypeOK
    <3>2. Counting = {}
      BY <2>3, <2>4 DEF WaitInv
    <3>3. QED
      BY <2>4, <3>1, <3>2, ZeroIsDone
  <2>5. QED
    BY <2>1, <2>2, <2>4 DEF WaitInv, Counting, DestroyedComplete, AllRan
<1>7. ASSUME NEW c \in Callers, WaitReturn(c)
      PROVE  WaitInv'
  <2>1. /\ cpc[c] = "wait_return" /\ cpc' = [cpc EXCEPT ![c] = "out"]
        /\ life' = IF life = "waits" THEN "stop" ELSE life
        /\ UNCHANGED <<paused, pushed, done, covered>>
    BY <1>7 DEF WaitReturn, history
  <2>2. \A d \in Callers : /\ cpc'[d] = "total" => cpc[d] = "total"
                           /\ cpc'[d] = "wait_return" => cpc[d] = "wait_return"
    BY <2>1 DEF TypeOK
  <2>3. life = "waits" /\ ~paused => AllRan
    BY <2>1 DEF WaitInv
  <2>4. QED
    BY <2>1, <2>2, <2>3 DEF WaitInv, Counting, DestroyedComplete, AllRan
<1>8. ASSUME NEW c \in Callers, Pause(c)
      PROVE  WaitInv'
  <2>1. life = "up" /\ cpc[c] = "out" /\ UNCHANGED <<life, cpc, pushed, done, covered>>
    BY <1>8 DEF Pause, history
  <2>2. OneCaller => \A d \in Callers : cpc'[d] # "wait_return"
    BY <2>1 DEF OneCaller
  <2>3. QED
    BY <2>1, <2>2 DEF WaitInv, DestroyedComplete
<1>9. CASE StopRunning \/ NotifyAll \/ Join
  <2>1. /\ life \in {"stop", "notify", "join"} /\ life' \in {"notify", "join", "gone"}
        /\ UNCHANGED <<paused, cpc, pushed, done, covered>>
    BY <1>9 DEF StopRunning, NotifyAll, Join, shared, history
  <2>2. QED
    BY <2>1 DEF WaitInv, Counting, DestroyedComplete, AllRan
<1>10. QED
  BY <1>1, <1>2, <1>3, <1>4, <1>5, <1>6, <1>7, <1>8, <1>9, NextCases

\* What a wait that is about to return knows, and the destructor with it.
THEOREM WaitInvariant == Spec => []WaitInv
<1>1. Init => WaitInv
  BY DEF Init, WaitInv, DestroyedComplete, Counting
<1>2. TypeOK /\ OrderInv /\ TotalCounts /\ WaitInv /\ [Next]_vars => WaitInv'
  BY WaitStep
<1>3. QED
  BY <1>1, <1>2, TypeCorrect, OrderInvariant, CountExact, PTL DEF Spec

\* The destructor has no task left, whatever else used the pool before, unless
\* the pool is paused.
THEOREM DestructorComplete == Spec => []DestroyedComplete
<1>1. WaitInv => DestroyedComplete
  BY DEF WaitInv
<1>2. QED
  BY <1>1, WaitInvariant, PTL

\* wait_for_tasks keeps its promise in a pool that a single thread uses.
THEOREM SingleCallerWait ==
  ASSUME OneCaller
  PROVE  Spec => []WaitCoversTasks
<1>1. WaitInv => WaitCoversTasks
  BY DEF WaitInv, WaitCoversTasks, AllRan
<1>2. QED
  BY <1>1, WaitInvariant, PTL

-----------------------------------------------------------------------------
(* The blocks of a loop: ranges of any size and any number of blocks *)

LoopArgs == [first : Int, after : Int, n : Nat \ {0}]

\* Two facts about products that the arithmetic below needs.
LEMMA ProductOrder ==
  ASSUME NEW a \in Int, NEW b \in Int, NEW s \in Nat, a <= b
  PROVE  a * s <= b * s
<1>1. (b - a) * s >= 0 /\ (b - a) * s = b * s - a * s
  OBVIOUS
<1> QED
  BY <1>1

LEMMA QuotientBounds ==
  ASSUME NEW t \in Nat, NEW s \in Nat \ {0}
  PROVE  /\ t \div s \in Nat
         /\ (t \div s) * s <= t /\ t < (t \div s + 1) * s
<1>1. t = s * (t \div s) + (t % s) /\ t % s \in 0..(s - 1) /\ t \div s \in Int
  OBVIOUS
<1>2. t \div s \in Nat
  BY SMTT(30)
<1> QED
  BY <1>1, <1>2

\* All blocks but the last end within the range, which is not empty.
LEMMA LastBlockStarts ==
  ASSUME NEW l \in LoopArgs, Total(l) > 0
  PROVE  /\ First(l) \in Int /\ After(l) \in Int /\ Total(l) \in Nat
         /\ BlockSize(l) \in Nat \ {0} /\ NumBlocks(l) \in Nat \ {0}
         /\ (NumBlocks(l) - 1) * BlockSize(l) < Total(l)
<1>1. First(l) \in Int /\ After(l) \in Int /\ Total(l) \in Nat /\ l.n \in Nat \ {0}
  BY DEF LoopArgs, First, After, Total
<1>2. Even(l) \in Nat /\ l.n * Even(l) <= Total(l)
  BY <1>1, QuotientBounds DEF Even
<1>3. CASE Even(l) = 0
  BY <1>1, <1>3 DEF BlockSize, NumBlocks
<1>4. CASE Even(l) # 0
  <2>1. BlockSize(l) = Even(l) /\ NumBlocks(l) = l.n
    BY <1>4 DEF BlockSize, NumBlocks
  <2>2. (l.n - 1) * Even(l) = l.n * Even(l) - Even(l)
    BY <1>1, <1>2
  <2> QED
    BY <1>1, <1>2, <1>4, <2>1, <2>2
<1> QED
  BY <1>3, <1>4

-----------------------------------------------------------------------------
(* The blocks *)

\* The blocks lie one after the other: the first begins where the range does,
\* the last ends where it does, and none is empty, so push_loop never gives a
\* task to the pool that has nothing to do.
THEOREM BlocksAreConsecutive ==
  ASSUME NEW l \in LoopArgs, Total(l) > 0
  PROVE  /\ Start(l, 0) = First(l)
         /\ End(l, NumBlocks(l) - 1) = After(l)
         /\ \A i \in 0..(NumBlocks(l) - 1) : Start(l, i) < End(l, i)
         /\ \A i \in 0..(NumBlocks(l) - 2) : End(l, i) = Start(l, i + 1)
<1> DEFINE b == BlockSize(l)
           k == NumBlocks(l)
<1>1. /\ First(l) \in Int /\ After(l) \in Int /\ b \in Nat \ {0} /\ k \in Nat \ {0}
      /\ (k - 1) * b < After(l) - First(l)
  BY LastBlockStarts DEF Total
<1> HIDE DEF b, k
<1>2. Start(l, 0) = First(l) /\ End(l, k - 1) = After(l)
  BY <1>1 DEF Start, End, b, k
<1>3. \A i \in 0..(k - 2) : End(l, i) = Start(l, i + 1)
  BY <1>1 DEF Start, End, b, k
<1>4. ASSUME NEW i \in 0..(k - 1) PROVE Start(l, i) < End(l, i)
  <2>1. CASE i = k - 1
    BY <1>1, <2>1 DEF Start, End, b, k
  <2>2. CASE i # k - 1
    <3>1. (i + 1) * b = i * b + b
      BY <1>1, <2>2
    <3> QED
      BY <1>1, <2>2, <3>1 DEF Start, End, b, k
  <2> QED
    BY <2>1, <2>2
<1> QED
  BY <1>2, <1>3, <1>4 DEF k

InBlock(l, i, x) == x >= Start(l, i) /\ x < End(l, i)

\* Every index of the range is in a block and in no other: the loop function
\* is called with each index once, however the size of the range and the
\* number of blocks divide.
THEOREM EveryIndexInOneBlock ==
  ASSUME NEW l \in LoopArgs, Total(l) > 0, NEW x \in First(l)..(After(l) - 1)
  PROVE  \E i \in 0..(NumBlocks(l) - 1) :
           /\ InBlock(l, i, x)
           /\ \A j \in 0..(NumBlocks(l) - 1) : InBlock(l, j, x) => j = i
<1> DEFINE b == BlockSize(l)
           k == NumBlocks(l)
           y == x - First(l)
           q == y \div b
           i == IF q > k - 1 THEN k - 1 ELSE q
<1>1. /\ First(l) \in Int /\ After(l) \in Int /\ b \in Nat \ {0} /\ k \in Nat \ {0}
      /\ (k - 1) * b < After(l) - First(l)
  BY LastBlockStarts DEF Total
<1>2. x \in Int /\ y \in Nat /\ x < After(l)
  BY <1>1
<1> HIDE DEF b, k
<1>3. q \in Nat /\ q * b <= y /\ y < (q + 1) * b
  BY <1>1, <1>2, QuotientBounds
<1> HIDE DEF y, q
<1>4. i \in 0..(k - 1) /\ i <= q
  BY <1>1, <1>3
<1>5. i * b <= y
  <2>1. i * b <= q * b
    <3> HIDE DEF i
    <3> QED
      BY <1>1, <1>3, <1>4, ProductOrder
  <2>2. i * b \in Int /\ q * b \in Int /\ y \in Int
    BY <1>1, <1>2, <1>3, <1>4
  <2> QED
    BY <1>3, <2>1, <2>2
<1>6. InBlock(l, i, x)
  <2>1. CASE i = k - 1
    BY <1>1, <1>2, <1>4, <1>5, <2>1 DEF InBlock, Start, End, b, k, y
  <2>2. CASE i # k - 1
    <3>1. i = q
      BY <2>2
    <3> QED
      BY <1>1, <1>2, <1>3, <1>4, <1>5, <2>2, <3>1 DEF InBlock, Start, End, b, k, y
  <2> QED
    BY <2>1, <2>2
<1>7. ASSUME NEW j \in 0..(k - 1), InBlock(l, j, x)
      PROVE  j = i
  <2>1. j * b <= y /\ (j # k - 1 => y < (j + 1) * b)
    BY <1>1, <1>2, <1>7 DEF InBlock, Start, End, b, k, y
  <2>2. ~(j > q)
    <3> SUFFICES ASSUME q + 1 <= j PROVE FALSE
      BY <1>1, <1>3
    <3>1. (q + 1) * b <= j * b
      BY <1>1, <1>3, ProductOrder
    <3> QED
      BY <1>1, <1>2, <1>3, <2>1, <3>1 DEF y
  <2>3. ~(j < q /\ j # k - 1)
    <3> SUFFICES ASSUME j + 1 <= q, j # k - 1 PROVE FALSE
      BY <1>1, <1>3
    <3>1. (j + 1) * b <= q * b
      BY <1>1, <1>3, ProductOrder
    <3> QED
      BY <1>1, <1>2, <1>3, <2>1, <3>1 DEF y
  <2> QED
    BY <1>1, <1>3, <2>2, <2>3
<1> HIDE DEF i
<1> QED
  BY <1>4, <1>6, <1>7 DEF k

\* An empty range gives no block, and push_loop pushes nothing.
LEMMA NoBlockOfNothing ==
  ASSUME NEW l \in LoopArgs
  PROVE  BlocksOf(l) = <<>> <=> l.first = l.after
<1>1. Total(l) \in Nat /\ (Total(l) = 0 <=> l.first = l.after)
  BY DEF LoopArgs, Total, First, After
<1>2. CASE Total(l) = 0
  BY <1>1, <1>2 DEF BlocksOf
<1>3. CASE Total(l) # 0
  <2>1. NumBlocks(l) \in Nat \ {0}
    BY <1>1, <1>3, LastBlockStarts
  <2>2. Len(BlocksOf(l)) = NumBlocks(l)
    BY <1>3, <2>1 DEF BlocksOf
  <2> QED
    BY <1>1, <1>3, <2>1, <2>2
<1> QED
  BY <1>2, <1>3

-----------------------------------------------------------------------------
(* The pool below its loops and its reset *)

\* The caller inside the wait that the destructor and reset begin with.
Waits == {"wait_lock", "wait_pred", "wait_block", "wait_blocked", "wait_return"}

\* While the threads are being destroyed only the destroying caller is in a
\* call, and in the end no thread is left.
DownInv ==
  /\ life = "waits" =>
       \E c \in Callers : cpc[c] \in Waits /\ \A d \in Callers \ {c} : cpc[d] = "out"
  /\ life \in {"stop", "notify", "join", "gone"} => \A c \in Callers : cpc[c] = "out"
  /\ life = "gone" => \A w \in Workers : wpc[w] = "exit"

LEMMA DownStep ==
  ASSUME TypeOK, DownInv, [Next]_vars
  PROVE  DownInv'
<1> USE DEF Waits
<1>1. CASE UNCHANGED vars
  BY <1>1 DEF vars, DownInv
<1>2. ASSUME NEW w \in Workers,
             \/ Loop(w) \/ Lock(w) \/ Pred(w) \/ Block(w) \/ Take(w) \/ Run(w) \/ Relock(w)
             \/ Count(w) \/ SpuriousWake(w)
      PROVE  DownInv'
  <2>1. life' = life /\ wpc[w] # "exit"
    BY <1>2 DEF Loop, Lock, Pred, Block, Take, Run, Relock, Count, SpuriousWake
  <2>2. \A c \in Callers : cpc'[c] = cpc[c] \/ (cpc[c] = "wait_blocked" /\ cpc'[c] = "wait_lock")
    BY <1>2, NotifyOneCallerMoves DEF Loop, Lock, Pred, Block, Take, Run, Relock, Count,
       SpuriousWake
  <2>3. life # "gone"
    BY <2>1 DEF DownInv
  <2>4. ASSUME life = "waits"
        PROVE  \E c \in Callers : cpc'[c] \in Waits /\ \A d \in Callers \ {c} : cpc'[d] = "out"
    <3>1. PICK c \in Callers : cpc[c] \in Waits /\ \A d \in Callers \ {c} : cpc[d] = "out"
      BY <2>4 DEF DownInv
    <3>2. cpc'[c] \in Waits /\ \A d \in Callers \ {c} : cpc'[d] = "out"
      BY <2>2, <3>1
    <3>3. QED
      BY <3>2
  <2>5. life \in {"stop", "notify", "join"} => \A c \in Callers : cpc'[c] = "out"
    BY <2>2 DEF DownInv
  <2>6. QED
    BY <2>1, <2>3, <2>4, <2>5 DEF DownInv
<1>3. ASSUME NEW c \in Callers, Push(c) \/ Pause(c) \/ WaitForTasks(c)
      PROVE  DownInv'
  BY <1>3 DEF Push, Pause, WaitForTasks, DownInv
<1>4. ASSUME NEW c \in Callers, Destroy(c)
      PROVE  DownInv'
  <2>1. life' = "waits" /\ cpc'[c] = "wait_lock" /\ \A d \in Callers \ {c} : cpc'[d] = "out"
    BY <1>4 DEF Destroy, StartWait, TypeOK
  <2>2. \E d \in Callers : cpc'[d] \in Waits /\ \A e \in Callers \ {d} : cpc'[e] = "out"
    BY <2>1
  <2>3. QED
    BY <2>1, <2>2 DEF DownInv
<1>5. ASSUME NEW c \in Callers,
             \/ PushCount(c) \/ PushNotify(c) \/ WaitLock(c) \/ WaitPred(c) \/ WaitBlock(c)
             \/ WaitSpuriousWake(c)
      PROVE  DownInv'
  <2>1. /\ life' = life /\ cpc[c] # "out" /\ \A d \in Callers \ {c} : cpc'[d] = cpc[d]
        /\ cpc[c] \in Waits => cpc'[c] \in Waits
    BY <1>5 DEF PushCount, PushNotify, WaitLock, WaitPred, WaitBlock, WaitSpuriousWake, TypeOK
  <2>2. life \notin {"stop", "notify", "join", "gone"}
    BY <2>1 DEF DownInv
  <2>3. CASE life = "waits"
    <3> PICK e \in Callers : cpc[e] \in Waits /\ \A d \in Callers \ {e} : cpc[d] = "out"
      BY <2>3 DEF DownInv
    <3>0. e = c
      BY <2>1
    <3>1. cpc[c] \in Waits /\ \A d \in Callers \ {c} : cpc[d] = "out"
      BY <3>0
    <3>2. cpc'[c] \in Waits /\ \A d \in Callers \ {c} : cpc'[d] = "out"
      BY <2>1, <3>1
    <3>3. \E d \in Callers : cpc'[d] \in Waits /\ \A v \in Callers \ {d} : cpc'[v] = "out"
      BY <3>2
    <3>4. QED
      BY <2>1, <2>3, <3>3 DEF DownInv
  <2>4. CASE life # "waits"
    BY <2>1, <2>2, <2>4 DEF DownInv
  <2>5. QED
    BY <2>3, <2>4
<1>6. ASSUME NEW c \in Callers, WaitReturn(c)
      PROVE  DownInv'
  <2>1. /\ life' = IF life = "waits" THEN "stop" ELSE life
        /\ cpc[c] = "wait_return" /\ cpc' = [cpc EXCEPT ![c] = "out"]
    BY <1>6 DEF WaitReturn
  <2>2. life \notin {"stop", "notify", "join", "gone"}
    BY <2>1 DEF DownInv
  <2>3. CASE life = "waits"
    <3> PICK e \in Callers : cpc[e] \in Waits /\ \A d \in Callers \ {e} : cpc[d] = "out"
      BY <2>3 DEF DownInv
    <3>0. e = c
      BY <2>1
    <3>1. \A d \in Callers \ {c} : cpc[d] = "out"
      BY <3>0
    <3>2. \A d \in Callers : cpc'[d] = "out"
      BY <2>1, <3>1 DEF TypeOK
    <3>3. QED
      BY <2>1, <2>3, <3>2 DEF DownInv
  <2>4. CASE life # "waits"
    BY <2>1, <2>2, <2>4 DEF DownInv
  <2>5. QED
    BY <2>3, <2>4
<1>7. CASE StopRunning \/ NotifyAll
  BY <1>7 DEF StopRunning, NotifyAll, DownInv
<1>8. CASE Join
  BY <1>8 DEF Join, DownInv, shared
<1>9. QED
  BY <1>1, <1>2, <1>3, <1>4, <1>5, <1>6, <1>7, <1>8, NextCases

PoolInv == Base /\ FrontExists /\ OrderInv /\ TotalCounts /\ WaitInv /\ DownInv

\* Below the loops every step is one of ThreadPool or one of the two ends of
\* reset.
LEMMA LoopNextCases ==
  ASSUME [LoopNext]_allVars
  PROVE  [Next]_vars \/ (\E c \in Callers : ResetPause(c)) \/ ResetCreates
<1>1. CASE UNCHANGED allVars
  BY <1>1 DEF allVars
<1>2. ASSUME NEW w \in Workers,
             WorkerStep(w) \/ (SpuriousWake(w) /\ UNCHANGED <<loopVars, wasPaused>>)
      PROVE  Next
  BY <1>2 DEF WorkerStep, RunTask, Worker, Next
<1>3. ASSUME NEW c \in Callers,
             \/ Outside(c) /\ (Push(c) \/ Pause(c) \/ WaitForTasks(c) \/ Destroy(c))
                  /\ UNCHANGED <<loopVars, wasPaused>>
             \/ WaitSpuriousWake(c) /\ UNCHANGED <<loopVars, wasPaused>>
      PROVE  Next
  BY <1>3 DEF Next
<1>4. ASSUME NEW c \in Callers, (\E l \in Loops, submits \in BOOLEAN : StartLoop(c, l, submits)) \/ Get(c)
      PROVE  UNCHANGED vars
  BY <1>4 DEF StartLoop, Get
<1>5. ASSUME NEW c \in Callers, InCall(c)
      PROVE  [Next]_vars
  BY <1>5 DEF InCall, LoopPush, GetNext, Next
<1>6. CASE Resetting
  BY <1>6 DEF Resetting, ResetWaits, Next
<1>7. CASE wasPaused = {} /\ Gone /\ UNCHANGED <<loopVars, wasPaused>>
  BY <1>7 DEF Gone
<1>8. QED
  BY <1>1, <1>2, <1>3, <1>4, <1>5, <1>6, <1>7 DEF LoopNext

\* The pause that reset begins with.
LEMMA PauseKeepsPool ==
  ASSUME PoolInv, NEW c \in Callers, ResetPause(c)
  PROVE  PoolInv'
<1>1. /\ paused' = TRUE /\ life = "up" /\ \A d \in Callers : cpc[d] = "out"
      /\ UNCHANGED <<tasks, tasksTotal, running, waiting, mutex, wpc, job, cpc, life, pushed, pushing,
                     done, covered, waits>>
  BY DEF ResetPause, history
<1>2. Base'
  BY <1>1 DEF PoolInv, Base, TypeOK, HasJob, Uncounted, MutexOwner
<1>3. FrontExists' /\ OrderInv' /\ TotalCounts'
  BY <1>1 DEF PoolInv, FrontExists, OrderInv, Taken, Busy, Executing, TotalCounts, Uncounted, Counting
<1>4. WaitInv'
  BY <1>1 DEF PoolInv, WaitInv, DestroyedComplete, Counting
<1>5. DownInv'
  BY <1>1 DEF PoolInv, DownInv
<1>6. QED
  BY <1>2, <1>3, <1>4, <1>5 DEF PoolInv

\* The new threads begin where no old one is left.
LEMMA CreateKeepsPool ==
  ASSUME PoolInv, ResetCreates
  PROVE  PoolInv' /\ UNCHANGED <<tasks, Executing, done>>
<1>1. /\ life = "gone" /\ life' = "up" /\ running' = TRUE /\ paused' \in BOOLEAN
      /\ wpc' = [w \in Workers |-> "loop"]
      /\ UNCHANGED <<tasks, tasksTotal, waiting, mutex, job, cpc, pushed, pushing, done, covered, waits>>
  <2>1. paused' \in BOOLEAN
    <3>1. paused' = (TRUE \in wasPaused)
      BY DEF ResetCreates
    <3>2. (TRUE \in wasPaused) \in BOOLEAN
      OBVIOUS
    <3> QED
      BY ONLY <3>1, <3>2
  <2> QED
    BY <2>1 DEF ResetCreates, history
<1>2. (\A w \in Workers : wpc[w] = "exit") /\ \A c \in Callers : cpc[c] = "out"
  BY <1>1 DEF PoolInv, DownInv
<1>3. /\ Busy = {} /\ Busy' = {} /\ Executing = {} /\ Executing' = {}
      /\ Uncounted = {} /\ Uncounted' = {} /\ Counting = {} /\ Counting' = {}
  BY <1>1, <1>2 DEF Busy, Executing, Uncounted, Counting
<1>4. Base'
  <2>1. TypeOK'
    BY <1>1 DEF PoolInv, Base, TypeOK
  <2>2. HasJob'
    BY <1>3 DEF HasJob
  <2>3. MutexOwner'
    <3>1. (\A w \in Workers : mutex # w) /\ \A c \in Callers : mutex # c
      BY <1>2 DEF PoolInv, Base, MutexOwner, WorkerHolds, CallerHolds
    <3>2. /\ \A w \in Workers : mutex' # w /\ wpc'[w] \notin WorkerHolds
          /\ \A c \in Callers : mutex' # c /\ cpc'[c] \notin CallerHolds
      BY <1>1, <1>2, <3>1 DEF WorkerHolds, CallerHolds
    <3>3. QED
      BY <3>2 DEF MutexOwner
  <2> QED
    BY <2>1, <2>2, <2>3 DEF Base
<1>5. FrontExists'
  BY <1>1 DEF FrontExists
<1>6. OrderInv' /\ TotalCounts'
  BY <1>1, <1>3 DEF PoolInv, OrderInv, Taken, TotalCounts
<1>7. WaitInv'
  BY <1>1, <1>2 DEF PoolInv, WaitInv, DestroyedComplete
<1>8. DownInv'
  BY <1>1 DEF DownInv
<1>9. QED
  BY <1>1, <1>3, <1>4, <1>5, <1>6, <1>7, <1>8 DEF PoolInv

LEMMA PoolStep ==
  ASSUME PoolInv, [LoopNext]_allVars
  PROVE  PoolInv'
<1>1. CASE [Next]_vars
  BY <1>1, TypeStep, HasJobStep, MutexStep, FrontStep, OrderStep, CountStep, WaitStep, DownStep
     DEF PoolInv, Base
<1>2. QED
  BY <1>1, LoopNextCases, PauseKeepsPool, CreateKeepsPool

LEMMA PoolInit ==
  ASSUME Init
  PROVE  PoolInv
<1>1. Base /\ OrderInv /\ TotalCounts
  BY BaseInit, OrderInit, CountInit DEF Base
<1>2. FrontExists /\ WaitInv /\ DownInv
  BY DEF Init, FrontExists, WaitInv, DestroyedComplete, Counting, DownInv
<1>3. QED
  BY <1>1, <1>2 DEF PoolInv

\* Everything ThreadPool keeps is kept under loops, futures and resets too.
THEOREM PoolInvariant == LoopSpec => []PoolInv
<1>1. LoopInit => PoolInv
  BY PoolInit DEF LoopInit
<1>2. PoolInv /\ [LoopNext]_allVars => PoolInv'
  BY PoolStep
<1>3. QED
  BY <1>1, <1>2, PTL DEF LoopSpec

\* Under loops and reset() too, for any number of callers: a worker never pops
\* from an empty queue, tasks_total counts the queued and the running tasks, and
\* the threads that destroy_threads has joined are gone with nothing left.
THEOREM ResetKeepsPool == LoopSpec => [](FrontExists /\ TotalCounts /\ DestroyedComplete)
<1>1. PoolInv => FrontExists /\ TotalCounts /\ DestroyedComplete
  BY DEF PoolInv, WaitInv
<1>2. QED
  BY <1>1, PoolInvariant, PTL

\* Under loops and reset() too the tasks start in the order they were pushed and
\* each runs at most once: no block is lost or run twice by new threads.
THEOREM ResetImplementsQueue == LoopSpec => StartsInOrder
<1>1. LoopInit => Queue!Init
  BY OrderInit DEF LoopInit, Init, Queue!Init, Executing
<1>2. ASSUME PoolInv, [LoopNext]_allVars
      PROVE  [Queue!Next]_<<tasks, Executing, done>>
  <2>1. CASE [Next]_vars
    BY <1>2, <2>1, QueueStep DEF PoolInv, Base
  <2>2. ASSUME NEW c \in Callers, ResetPause(c)
        PROVE  UNCHANGED <<tasks, Executing, done>>
    BY <2>2 DEF ResetPause, history, Executing
  <2>3. CASE ResetCreates
    BY <1>2, <2>3, CreateKeepsPool
  <2>4. QED
    BY <1>2, <2>1, <2>2, <2>3, LoopNextCases
<1>3. QED
  BY <1>1, <1>2, PoolInvariant, PTL DEF LoopSpec, StartsInOrder, Queue!Spec

-----------------------------------------------------------------------------
(* Loops, their futures and what get() returns *)

Blk == [start : Int, end : Int]

LoopTypeOK ==
  /\ loop \in [Callers -> LoopArgs]
  /\ todo \in [Callers -> Seq(Blk)]
  /\ mf \in [Callers -> Seq(Task)]
  /\ promised \in [Callers -> BOOLEAN]
  /\ got \in [Callers -> Nat]
  /\ getPc \in [Callers -> {"none", "waits", "returned", "threw"}]
  /\ block \in [Task -> Blk]
  /\ promise \in [Task -> {"none", "unset", "value", "exception"}]

\* The blocks of a loop are well formed and lie within its range.
LEMMA BlocksInRange ==
  ASSUME NEW l \in LoopArgs, Total(l) > 0, NEW i \in 0..(NumBlocks(l) - 1)
  PROVE  /\ Start(l, i) \in Int /\ End(l, i) \in Int
         /\ Start(l, i) >= First(l) /\ End(l, i) <= After(l)
<1> DEFINE b == BlockSize(l)
           k == NumBlocks(l)
<1>1. /\ First(l) \in Int /\ After(l) \in Int /\ b \in Nat \ {0} /\ k \in Nat \ {0}
      /\ (k - 1) * b < After(l) - First(l)
  BY LastBlockStarts DEF Total
<1>2. i \in 0..(k - 1)
  OBVIOUS
<1> HIDE DEF b, k
<1>3. i * b \in Nat /\ (i + 1) * b \in Nat
  BY ONLY <1>1, <1>2
<1>4. Start(l, i) = i * b + First(l)
  BY DEF Start, b
<1>5. CASE i = k - 1
  <2>1. End(l, i) = After(l)
    BY <1>5 DEF End, k
  <2> QED
    BY <1>1, <1>3, <1>4, <2>1
<1>6. CASE i # k - 1
  <2>1. End(l, i) = (i + 1) * b + First(l)
    BY <1>6 DEF End, b, k
  <2>2. (i + 1) * b <= (k - 1) * b /\ (k - 1) * b \in Int
    BY <1>1, <1>2, <1>6, ProductOrder
  <2> QED
    BY <1>1, <1>3, <1>4, <2>1, <2>2
<1> QED
  BY <1>5, <1>6

LEMMA BlocksAreBlocks ==
  ASSUME NEW l \in LoopArgs
  PROVE  BlocksOf(l) \in Seq(Blk)
<1>1. Total(l) \in Nat
  BY DEF LoopArgs, Total, First, After
<1>2. CASE Total(l) = 0
  BY <1>2 DEF BlocksOf
<1>3. CASE Total(l) # 0
  <2>1. NumBlocks(l) \in Nat
    BY <1>1, <1>3, LastBlockStarts
  <2>2. \A i \in 1..NumBlocks(l) : [start |-> Start(l, i - 1), end |-> End(l, i - 1)] \in Blk
    <3>1. ASSUME NEW i \in 1..NumBlocks(l)
          PROVE  Start(l, i - 1) \in Int /\ End(l, i - 1) \in Int
      <4>1. i - 1 \in 0..(NumBlocks(l) - 1)
        BY <2>1
      <4> QED
        BY <1>1, <1>3, <4>1, BlocksInRange
    <3> QED
      BY <3>1 DEF Blk
  <2>3. BlocksOf(l) = [i \in 1..NumBlocks(l) |-> [start |-> Start(l, i - 1), end |-> End(l, i - 1)]]
    BY <1>3 DEF BlocksOf
  <2> QED
    BY ONLY <2>1, <2>2, <2>3
<1> QED
  BY <1>2, <1>3

\* A loop is a legal argument of the blocks, its blocks' number included.
LEMMA AskedIsLoop ==
  ASSUME NEW l \in Loops
  PROVE  Asked(l) \in LoopArgs
<1>1. l.first \in Int /\ l.after \in Int /\ l.blocks \in Nat
  BY LoopAssumption
<1>2. Cardinality(Workers) \in Nat \ {0}
  BY PoolAssumption, FS_CardinalityType, FS_EmptySet
<1>3. QED
  BY <1>1, <1>2 DEF Asked, LoopArgs

\* What is pushed and what is left are the blocks of the loop, in their order.
Cut(c) ==
  LET q == BlocksOf(loop[c]) IN
  /\ Len(mf[c]) + Len(todo[c]) = Len(q)
  /\ \A k \in 1..Len(mf[c]) : mf[c][k] \in 1..pushed /\ block[mf[c][k]] = q[k]
  /\ \A k \in 1..Len(todo[c]) : todo[c][k] = q[Len(mf[c]) + k]
  /\ \A j, k \in 1..Len(mf[c]) : j < k => mf[c][j] < mf[c][k]

\* Every task get() will look at has a promise.
Submitted(c) ==
  promised[c] \/ getPc[c] # "none" => \A k \in 1..Len(mf[c]) : promise[mf[c][k]] # "none"

\* How far get() has come: the futures before it held values.
Collected(c) ==
  /\ getPc[c] # "none" => todo[c] = <<>> /\ mf[c] # <<>>
  /\ getPc[c] = "waits" => got[c] < Len(mf[c])
  /\ getPc[c] = "returned" => got[c] = Len(mf[c])
  /\ getPc[c] = "threw" => /\ got[c] \in 1..Len(mf[c]) /\ promise[mf[c][got[c]]] = "exception"
                           /\ \A k \in 1..(got[c] - 1) : promise[mf[c][k]] = "value"
  /\ getPc[c] \in {"waits", "returned"} => \A k \in 1..got[c] : promise[mf[c][k]] = "value"

\* A promise is kept by running the task.
Kept == \A t \in Task : promise[t] \in {"value", "exception"} => t \in done

LoopInv == LoopTypeOK /\ Kept /\ \A c \in Callers : Cut(c) /\ Submitted(c) /\ Collected(c)

LEMMA LoopInvInit == LoopInit => LoopInv
<1> SUFFICES ASSUME LoopInit PROVE LoopInv
  OBVIOUS
<1>1. /\ loop = [c \in Callers |-> NoLoop]
      /\ todo = [c \in Callers |-> <<>>] /\ mf = [c \in Callers |-> <<>>]
      /\ got = [c \in Callers |-> 0] /\ getPc = [c \in Callers |-> "none"]
      /\ block = [t \in Task |-> Whole] /\ promise = [t \in Task |-> "none"]
      /\ promised = [c \in Callers |-> FALSE]
  BY DEF LoopInit
<1>2. NoLoop \in LoopArgs /\ NoLoop.first = NoLoop.after /\ Whole \in Blk
  BY DEF NoLoop, LoopArgs, Whole, Blk
<1>3. BlocksOf(NoLoop) = <<>>
  BY <1>2, NoBlockOfNothing
<1>4. LoopTypeOK
  <2>1. promised \in [Callers -> BOOLEAN]
    BY <1>1
  <2>2. QED
    BY <1>1, <1>2, <2>1 DEF LoopTypeOK
<1>5. ASSUME NEW c \in Callers PROVE Cut(c) /\ Submitted(c) /\ Collected(c)
  <2>1. mf[c] = <<>> /\ todo[c] = <<>> /\ BlocksOf(loop[c]) = <<>> /\ getPc[c] = "none"
    BY <1>1, <1>3
  <2>2. Len(<<>>) = 0
    OBVIOUS
  <2>3. QED
    BY <2>1, <2>2 DEF Cut, Submitted, Collected
<1>6. Kept
  BY <1>1 DEF Kept
<1>7. QED
  BY <1>4, <1>5, <1>6 DEF LoopInv

\* Pushed and done only grow.
LEMMA HistoryGrows ==
  ASSUME TypeOK, [LoopNext]_allVars
  PROVE  pushed \in Nat /\ pushed' \in Nat /\ pushed <= pushed' /\ done \subseteq done'
<1>1. pushed \in Nat
  BY DEF TypeOK
<1>2. CASE [Next]_vars
  <2>1. CASE Frame
    BY <1>1, <2>1 DEF Frame
  <2>2. ASSUME NEW w \in Workers, Take(w) \/ Run(w)
        PROVE  pushed' = pushed /\ done \subseteq done'
    BY <2>2 DEF Take, Run, history
  <2>3. ASSUME NEW c \in Callers, Push(c)
        PROVE  pushed' = pushed + 1 /\ done' = done
    BY <2>3 DEF Push
  <2>4. QED
    BY <1>1, <1>2, <2>1, <2>2, <2>3, FrameCases
<1>3. CASE (\E c \in Callers : ResetPause(c)) \/ ResetCreates
  <2>1. UNCHANGED history
    BY <1>3 DEF ResetPause, ResetCreates
  <2>2. QED
    BY <1>1, <2>1 DEF history
<1>4. QED
  BY <1>2, <1>3, LoopNextCases

LEMMA LoopCases ==
  ASSUME [LoopNext]_allVars
  PROVE  \/ UNCHANGED loopVars
         \/ \E w \in Workers : RunTask(w)
         \/ \E c \in Callers : \/ \E l \in Loops, submits \in BOOLEAN : StartLoop(c, l, submits)
                               \/ LoopPush(c) \/ Get(c) \/ GetNext(c)
BY DEF LoopNext, WorkerStep, InCall, Resetting, ResetPause, ResetWaits, ResetCreates, allVars

\* A step that leaves a caller's loop alone.
LEMMA CutKept ==
  ASSUME NEW c \in Callers, Cut(c),
         pushed \in Nat, pushed' \in Nat, pushed <= pushed',
         loop'[c] = loop[c], todo'[c] = todo[c], mf'[c] = mf[c],
         \A t \in 1..pushed : block'[t] = block[t]
  PROVE  Cut(c)'
<1> PICK m : m = mf[c]
  OBVIOUS
<1> PICK d : d = todo[c]
  OBVIOUS
<1> PICK q : q = BlocksOf(loop[c])
  OBVIOUS
<1>1. /\ Len(m) + Len(d) = Len(q)
      /\ \A k \in 1..Len(m) : m[k] \in 1..pushed /\ block[m[k]] = q[k]
      /\ \A k \in 1..Len(d) : d[k] = q[Len(m) + k]
      /\ \A j, k \in 1..Len(m) : j < k => m[j] < m[k]
  BY DEF Cut
<1>2. mf'[c] = m /\ todo'[c] = d /\ BlocksOf(loop'[c]) = q
  OBVIOUS
<1>3. \A k \in 1..Len(m) : m[k] \in 1..pushed' /\ block'[m[k]] = q[k]
  BY <1>1
<1>4. QED
  BY ONLY <1>1, <1>2, <1>3 DEF Cut

LEMMA FuturesKept ==
  ASSUME LoopTypeOK, NEW c \in Callers, Cut(c), Submitted(c), Collected(c),
         todo'[c] = todo[c], mf'[c] = mf[c], promised'[c] = promised[c], got'[c] = got[c],
         getPc'[c] = getPc[c],
         \A t \in 1..pushed : \/ promise'[t] = promise[t]
                              \/ promise[t] = "unset" /\ promise'[t] # "none"
  PROVE  Submitted(c)' /\ Collected(c)'
<1>1. \A k \in 1..Len(mf[c]) : \/ promise'[mf[c][k]] = promise[mf[c][k]]
                               \/ promise[mf[c][k]] = "unset" /\ promise'[mf[c][k]] # "none"
  BY DEF Cut
<1>2. Submitted(c)'
  BY <1>1 DEF Submitted
<1>3. Collected(c)'
  <2>1. got[c] \in Nat /\ Len(mf[c]) \in Nat
    BY DEF LoopTypeOK
  <2>2. getPc[c] \in {"waits", "returned"} => got[c] <= Len(mf[c])
    BY <2>1 DEF Collected
  <2>3. getPc[c] \in {"waits", "returned"} => \A k \in 1..got[c] : promise'[mf[c][k]] = "value"
    BY <1>1, <2>1, <2>2 DEF Collected
  <2>4. getPc[c] = "threw" => promise'[mf[c][got[c]]] = "exception"
    BY <1>1 DEF Collected
  <2>5. getPc[c] = "threw" => \A k \in 1..(got[c] - 1) : promise'[mf[c][k]] = "value"
    BY <1>1, <2>1 DEF Collected
  <2>6. QED
    BY <2>3, <2>4, <2>5 DEF Collected
<1>4. QED
  BY <1>2, <1>3

\* A new loop begins with all of its blocks to push.
LEMMA StartLoopStep ==
  ASSUME LoopInv, TypeOK, NEW c \in Callers, NEW l \in Loops, NEW submits \in BOOLEAN,
         StartLoop(c, l, submits)
  PROVE  LoopInv'
<1> PICK a : a = Asked(l)
  OBVIOUS
<1> PICK q : q = BlocksOf(a)
  OBVIOUS
<1>1. /\ mf[c] = <<>> /\ loop' = [loop EXCEPT ![c] = a] /\ todo' = [todo EXCEPT ![c] = q]
      /\ promised' = [promised EXCEPT ![c] = submits]
      /\ UNCHANGED <<mf, got, getPc, block, promise, pushed, done>>
  BY DEF StartLoop, vars, history
<1>2. a \in LoopArgs /\ q \in Seq(Blk)
  BY AskedIsLoop, BlocksAreBlocks
<1>3. LoopTypeOK'
  BY <1>1, <1>2 DEF LoopInv, LoopTypeOK
<1>4. Kept'
  BY <1>1 DEF LoopInv, Kept
<1>5. Cut(c)' /\ Submitted(c)' /\ Collected(c)'
  <2>1. mf'[c] = <<>> /\ todo'[c] = q /\ loop'[c] = a /\ Len(<<>>) = 0 /\ Len(q) \in Nat
    BY <1>1, <1>2 DEF LoopInv, LoopTypeOK
  <2>2. getPc'[c] = "none"
    BY <1>1 DEF LoopInv, Collected
  <2>3. Cut(c)'
    <3>1. \A k \in 1..Len(q) : q[k] = q[0 + k]
      BY <2>1
    <3>2. QED
      BY <2>1, <3>1 DEF Cut
  <2>4. QED
    BY <2>1, <2>2, <2>3 DEF Submitted, Collected
<1>6. ASSUME NEW d \in Callers, d # c PROVE Cut(d)' /\ Submitted(d)' /\ Collected(d)'
  <2>1. /\ loop'[d] = loop[d] /\ todo'[d] = todo[d] /\ mf'[d] = mf[d] /\ got'[d] = got[d]
        /\ promised'[d] = promised[d] /\ getPc'[d] = getPc[d]
    BY <1>1, <1>6 DEF LoopInv, LoopTypeOK
  <2>2. QED
    BY <1>1, <2>1, CutKept, FuturesKept DEF LoopInv, TypeOK
<1>7. QED
  BY <1>3, <1>4, <1>5, <1>6 DEF LoopInv

\* The next block goes to the pool under a new id.
LEMMA LoopPushStep ==
  ASSUME LoopInv, TypeOK, OrderInv, NEW c \in Callers, LoopPush(c)
  PROVE  LoopInv'
<1> PICK n : n = pushed + 1
  OBVIOUS
<1> PICK m : m = mf[c]
  OBVIOUS
<1> PICK d : d = todo[c]
  OBVIOUS
<1> PICK q : q = BlocksOf(loop[c])
  OBVIOUS
<1>1. /\ d # <<>> /\ todo' = [todo EXCEPT ![c] = Tail(d)]
      /\ mf' = [mf EXCEPT ![c] = Append(m, n)]
      /\ block' = [block EXCEPT ![n] = Head(d)]
      /\ promise' = IF promised[c] THEN [promise EXCEPT ![n] = "unset"] ELSE promise
      /\ UNCHANGED <<loop, promised, got, getPc>> /\ Push(c)
  BY DEF LoopPush
<1>2. n \in Task /\ pushed' = n /\ UNCHANGED done /\ pushed \in Nat
  BY <1>1, PushEffect DEF TypeOK
<1>3. d \in Seq(Blk) /\ m \in Seq(Task)
  BY DEF LoopInv, LoopTypeOK
<1>4. Head(d) \in Blk /\ Tail(d) \in Seq(Blk) /\ Append(m, n) \in Seq(Task)
  BY <1>1, <1>2, <1>3, HeadTailProperties, AppendProperties
<1>5. LoopTypeOK'
  <2>1. promise' \in [Task -> {"none", "unset", "value", "exception"}]
    BY <1>1 DEF LoopInv, LoopTypeOK
  <2>2. block' \in [Task -> Blk] /\ todo' \in [Callers -> Seq(Blk)] /\ mf' \in [Callers -> Seq(Task)]
    BY <1>1, <1>4 DEF LoopInv, LoopTypeOK
  <2>3. QED
    BY <1>1, <2>1, <2>2 DEF LoopInv, LoopTypeOK
<1>6. \A t \in 1..pushed : block'[t] = block[t] /\ promise'[t] = promise[t]
  <2>1. \A t \in 1..pushed : t # n
    BY <1>2
  <2>2. \A t \in 1..pushed : t \in Task
    BY PoolAssumption DEF TypeOK, Task
  <2>3. QED
    BY <1>1, <2>1, <2>2 DEF LoopInv, LoopTypeOK
<1>7. Kept'
  <2>1. \A t \in Task : promise'[t] \in {"value", "exception"} => promise[t] \in {"value", "exception"}
    BY <1>1, <1>2 DEF LoopInv, LoopTypeOK
  <2>2. QED
    BY <1>2, <2>1 DEF LoopInv, Kept
<1>8. /\ mf'[c] = Append(m, n) /\ todo'[c] = Tail(d) /\ loop'[c] = loop[c]
      /\ block'[n] = Head(d) /\ getPc'[c] = getPc[c] /\ promised'[c] = promised[c]
      /\ promised[c] => promise'[n] = "unset"
  BY <1>1, <1>2 DEF LoopInv, LoopTypeOK
<1> PICK u : u = Append(m, n)
  OBVIOUS
<1> PICK v : v = Tail(d)
  OBVIOUS
<1> PICK e : e = Head(d)
  OBVIOUS
<1>9. /\ Len(u) = Len(m) + 1 /\ u[Len(m) + 1] = n /\ \A k \in 1..Len(m) : u[k] = m[k]
      /\ Len(v) = Len(d) - 1 /\ (\A k \in 1..Len(v) : v[k] = d[k + 1]) /\ e = d[1]
      /\ Len(m) \in Nat /\ Len(d) \in Nat /\ Len(d) # 0
  BY <1>1, <1>2, <1>3, HeadTailProperties, AppendProperties, LenProperties, EmptySeq
<1>10. /\ Len(m) + Len(d) = Len(q)
       /\ \A k \in 1..Len(m) : m[k] \in 1..pushed /\ block[m[k]] = q[k]
       /\ \A k \in 1..Len(d) : d[k] = q[Len(m) + k]
       /\ \A j, k \in 1..Len(m) : j < k => m[j] < m[k]
  BY DEF LoopInv, Cut
<1>11. Cut(c)'
  <2> PICK x : x = Len(m)
    OBVIOUS
  <2> PICK y : y = Len(d)
    OBVIOUS
  <2>1. /\ Len(u) = x + 1 /\ u[x + 1] = n /\ \A k \in 1..x : u[k] = m[k]
        /\ Len(v) = y - 1 /\ (\A k \in 1..(y - 1) : v[k] = d[k + 1]) /\ e = d[1]
        /\ x \in Nat /\ y \in Nat /\ y # 0
    BY <1>9
  <2>2. /\ x + y = Len(q)
        /\ \A k \in 1..x : m[k] \in 1..pushed /\ block[m[k]] = q[k]
        /\ \A k \in 1..y : d[k] = q[x + k]
        /\ \A j, k \in 1..x : j < k => m[j] < m[k]
    BY <1>10
  <2>3. \A k \in 1..(x + 1) : k \in 1..x \/ k = x + 1
    BY ONLY <2>1
  <2>4. Len(u) + Len(v) = Len(q)
    BY ONLY <2>1, <2>2
  <2>5. \A k \in 1..(x + 1) : u[k] \in 1..n /\ block'[u[k]] = q[k]
    <3>1. ASSUME NEW k \in 1..x PROVE u[k] \in 1..n /\ block'[u[k]] = q[k]
      BY <1>2, <1>6, <2>1, <2>2
    <3>2. u[x + 1] \in 1..n /\ block'[u[x + 1]] = q[x + 1]
      BY <1>2, <1>8, <2>1, <2>2
    <3>3. QED
      BY <2>3, <3>1, <3>2
  <2>6. \A k \in 1..(y - 1) : v[k] = q[(x + 1) + k]
    <3>1. ASSUME NEW k \in 1..(y - 1) PROVE v[k] = q[(x + 1) + k]
      <4>1. k + 1 \in 1..y /\ x + (k + 1) = (x + 1) + k
        BY ONLY <2>1, k \in 1..(y - 1)
      <4>2. v[k] = d[k + 1] /\ d[k + 1] = q[x + (k + 1)]
        BY <2>1, <2>2, <4>1
      <4>3. QED
        BY ONLY <4>1, <4>2
    <3>2. QED
      BY <3>1
  <2>7. \A j, k \in 1..(x + 1) : j < k => u[j] < u[k]
    <3>1. ASSUME NEW j \in 1..(x + 1), NEW k \in 1..(x + 1), j < k
          PROVE  u[j] < u[k]
      <4>1. j \in 1..x /\ u[j] = m[j]
        BY <2>1, <3>1
      <4>2. CASE k \in 1..x
        BY <2>1, <2>2, <3>1, <4>1, <4>2
      <4>3. CASE k = x + 1
        BY <1>2, <2>1, <2>2, <4>1, <4>3
      <4>4. QED
        BY <2>3, <4>2, <4>3
    <3>2. QED
      BY <3>1
  <2>8. mf'[c] = u /\ todo'[c] = v /\ BlocksOf(loop'[c]) = q /\ pushed' = n
    BY <1>2, <1>8
  <2>9. QED
    BY ONLY <2>1, <2>4, <2>5, <2>6, <2>7, <2>8 DEF Cut
<1>12. getPc[c] = "none"
  BY <1>1 DEF LoopInv, Collected
<1>13. Collected(c)'
  BY <1>8, <1>12 DEF Collected
<1>14. Submitted(c)'
  <2>1. mf'[c] = u /\ getPc'[c] = "none" /\ (promised'[c] <=> promised[c])
    BY <1>8, <1>12
  <2>2. ASSUME promised[c], NEW k \in 1..Len(u) PROVE promise'[u[k]] # "none"
    <3>1. CASE k = Len(m) + 1
      BY <1>8, <1>9, <2>2, <3>1
    <3>2. CASE k # Len(m) + 1
      <4>1. k \in 1..Len(m)
        BY <1>9, <3>2
      <4>2. promise[m[k]] # "none"
        BY <2>2, <4>1 DEF LoopInv, Submitted
      <4>3. QED
        BY <1>6, <1>9, <1>10, <4>1, <4>2
    <3>3. QED
      BY <3>1, <3>2
  <2>3. QED
    BY <2>1, <2>2 DEF Submitted
<1>15. ASSUME NEW b \in Callers, b # c PROVE Cut(b)' /\ Submitted(b)' /\ Collected(b)'
  <2>1. /\ loop'[b] = loop[b] /\ todo'[b] = todo[b] /\ mf'[b] = mf[b] /\ got'[b] = got[b]
        /\ promised'[b] = promised[b] /\ getPc'[b] = getPc[b]
    BY <1>1, <1>15 DEF LoopInv, LoopTypeOK
  <2>2. pushed' \in Nat /\ pushed <= pushed'
    BY <1>2
  <2>3. Cut(b)'
    BY <1>2, <1>6, <2>1, <2>2, CutKept DEF LoopInv
  <2>4. Submitted(b)' /\ Collected(b)'
    BY <1>6, <2>1, FuturesKept DEF LoopInv
  <2>5. QED
    BY <2>3, <2>4
<1>16. QED
  BY <1>5, <1>7, <1>11, <1>13, <1>14, <1>15 DEF LoopInv

\* The promise of a task is kept in the step that runs it.
LEMMA RunTaskStep ==
  ASSUME LoopInv, TypeOK, OrderInv, NEW w \in Workers, RunTask(w)
  PROVE  LoopInv'
<1> PICK t : t = job[w]
  OBVIOUS
<1>1. /\ Run(w) /\ UNCHANGED <<loop, todo, mf, promised, got, getPc, block, pushed>>
      /\ \/ promise[t] = "unset" /\ \E o \in {"value", "exception"} : promise' = [promise EXCEPT ![t] = o]
         \/ UNCHANGED promise
  BY DEF RunTask, Outcomes, Run
<1>2. t \in Task /\ done' = done \cup {t} /\ pushed \in Nat
  <2>1. t \in 1..Taken /\ done' = done \cup {t}
    BY <1>1, RunEffect DEF OrderInv
  <2>2. Taken <= pushed /\ pushed \in 0..MaxTasks /\ Taken \in Nat
    <3>1. Len(tasks) \in Nat
      BY CountTypes
    <3>2. QED
      BY <3>1 DEF TypeOK, OrderInv, Taken
  <2>3. QED
    BY <2>1, <2>2, PoolAssumption DEF Task
<1>3. /\ \A u \in Task : promise'[u] = promise[u] \/ (u = t /\ promise[u] = "unset" /\ promise'[u] \in {"value", "exception"})
      /\ promise' \in [Task -> {"none", "unset", "value", "exception"}]
  <2>1. promise \in [Task -> {"none", "unset", "value", "exception"}]
    BY DEF LoopInv, LoopTypeOK
  <2>2. QED
    BY <1>1, <1>2, <2>1
<1>4. LoopTypeOK'
  BY <1>1, <1>3 DEF LoopInv, LoopTypeOK
<1>5. Kept'
  BY <1>2, <1>3 DEF LoopInv, Kept
<1>6. \A u \in 1..pushed : promise'[u] = promise[u] \/ (promise[u] = "unset" /\ promise'[u] # "none")
  <2>1. \A u \in 1..pushed : u \in Task
    BY PoolAssumption DEF TypeOK, Task
  <2>2. QED
    BY <1>3, <2>1
<1>7. ASSUME NEW c \in Callers PROVE Cut(c)' /\ Submitted(c)' /\ Collected(c)'
  <2>1. /\ loop'[c] = loop[c] /\ todo'[c] = todo[c] /\ mf'[c] = mf[c] /\ got'[c] = got[c]
        /\ promised'[c] = promised[c] /\ getPc'[c] = getPc[c] /\ block' = block /\ pushed' = pushed
    BY <1>1
  <2>2. Cut(c)'
    BY <1>2, <2>1, CutKept DEF LoopInv
  <2>3. Submitted(c)' /\ Collected(c)'
    BY <1>6, <2>1, FuturesKept DEF LoopInv
  <2>4. QED
    BY <2>2, <2>3
<1>8. QED
  BY <1>4, <1>5, <1>7 DEF LoopInv

\* A step that leaves the loops alone.
LEMMA LoopsKept ==
  ASSUME LoopInv, TypeOK, [LoopNext]_allVars, UNCHANGED loopVars
  PROVE  LoopInv'
<1>1. pushed \in Nat /\ pushed' \in Nat /\ pushed <= pushed' /\ done \subseteq done'
  BY HistoryGrows
<1>2. UNCHANGED <<loop, todo, mf, promised, got, getPc, block, promise>>
  BY DEF loopVars
<1>3. LoopTypeOK' /\ Kept'
  BY <1>1, <1>2 DEF LoopInv, LoopTypeOK, Kept
<1>4. ASSUME NEW c \in Callers PROVE Cut(c)' /\ Submitted(c)' /\ Collected(c)'
  <2>1. Cut(c)'
    BY <1>1, <1>2, CutKept DEF LoopInv
  <2>2. Submitted(c)' /\ Collected(c)'
    BY <1>2 DEF LoopInv, Submitted, Collected
  <2>3. QED
    BY <2>1, <2>2
<1>5. QED
  BY <1>3, <1>4 DEF LoopInv

LEMMA GetStep ==
  ASSUME LoopInv, TypeOK, NEW c \in Callers, Get(c)
  PROVE  LoopInv'
<1>1. /\ promised[c] /\ todo[c] = <<>> /\ mf[c] # <<>>
      /\ promised' = [promised EXCEPT ![c] = FALSE] /\ got' = [got EXCEPT ![c] = 0]
      /\ getPc' = [getPc EXCEPT ![c] = "waits"]
      /\ UNCHANGED <<loop, todo, mf, block, promise, pushed, done>>
  BY DEF Get, Outside, vars, history
<1>2. LoopTypeOK'
  <2>1. promised' \in [Callers -> BOOLEAN]
    BY <1>1 DEF LoopInv, LoopTypeOK
  <2>2. QED
    BY <1>1, <2>1 DEF LoopInv, LoopTypeOK
<1>3. Kept'
  BY <1>1 DEF LoopInv, Kept
<1>4. pushed \in Nat
  BY DEF TypeOK
<1>5. ASSUME NEW d \in Callers PROVE Cut(d)'
  BY <1>1, <1>4, CutKept DEF LoopInv
<1>6. got'[c] = 0 /\ getPc'[c] = "waits" /\ Len(mf[c]) \in Nat /\ Len(mf[c]) # 0
  BY <1>1, EmptySeq, LenProperties DEF LoopInv, LoopTypeOK
<1>7. Submitted(c)' /\ Collected(c)'
  <2>1. \A k \in 1..Len(mf[c]) : promise[mf[c][k]] # "none"
    BY <1>1 DEF LoopInv, Submitted
  <2>2. QED
    BY <1>1, <1>6, <2>1 DEF Submitted, Collected
<1>8. ASSUME NEW d \in Callers, d # c PROVE Submitted(d)' /\ Collected(d)'
  <2>1. /\ todo'[d] = todo[d] /\ mf'[d] = mf[d] /\ got'[d] = got[d]
        /\ promised'[d] = promised[d] /\ getPc'[d] = getPc[d]
    BY <1>1, <1>8 DEF LoopInv, LoopTypeOK
  <2>2. QED
    BY <1>1, <2>1 DEF LoopInv, Submitted, Collected
<1>9. QED
  BY <1>2, <1>3, <1>5, <1>7, <1>8 DEF LoopInv

LEMMA GetNextStep ==
  ASSUME LoopInv, TypeOK, NEW c \in Callers, GetNext(c)
  PROVE  LoopInv'
<1> PICK m : m = mf[c]
  OBVIOUS
<1> PICK g : g = got[c]
  OBVIOUS
<1> PICK p : p = promise[m[g + 1]]
  OBVIOUS
<1>1. /\ getPc[c] = "waits" /\ p # "unset" /\ got' = [got EXCEPT ![c] = g + 1]
      /\ getPc' = [getPc EXCEPT ![c] = IF p = "exception" THEN "threw"
                                       ELSE IF g + 1 = Len(m) THEN "returned" ELSE "waits"]
      /\ UNCHANGED <<loop, todo, mf, promised, block, promise, pushed, done>>
  BY DEF GetNext, vars, history
<1>2. g \in Nat /\ Len(m) \in Nat /\ g < Len(m)
  BY <1>1, LenProperties DEF LoopInv, LoopTypeOK, Collected
<1>3. g + 1 \in 1..Len(m) /\ m[g + 1] \in Task
  BY <1>2, ElementOfSeq DEF LoopInv, LoopTypeOK
<1>4. p \in {"value", "exception"}
  <2>1. p # "none"
    BY <1>1, <1>3 DEF LoopInv, Submitted
  <2>2. p \in {"none", "unset", "value", "exception"}
    BY <1>3 DEF LoopInv, LoopTypeOK
  <2>3. QED
    BY <1>1, <2>1, <2>2
<1>5. LoopTypeOK'
  BY <1>1, <1>2 DEF LoopInv, LoopTypeOK
<1>6. Kept'
  BY <1>1 DEF LoopInv, Kept
<1>7. pushed \in Nat
  BY DEF TypeOK
<1>8. ASSUME NEW d \in Callers PROVE Cut(d)'
  BY <1>1, <1>7, CutKept DEF LoopInv
<1>9. /\ got'[c] = g + 1 /\ mf'[c] = m /\ todo'[c] = todo[c] /\ promise' = promise
      /\ getPc'[c] = IF p = "exception" THEN "threw" ELSE IF g + 1 = Len(m) THEN "returned" ELSE "waits"
      /\ promised'[c] = promised[c]
  BY <1>1 DEF LoopInv, LoopTypeOK
<1>10. Submitted(c)'
  BY <1>1, <1>9 DEF LoopInv, Submitted
<1>11. Collected(c)'
  <2>1. todo[c] = <<>> /\ m # <<>> /\ \A k \in 1..g : promise[m[k]] = "value"
    BY <1>1 DEF LoopInv, Collected
  <2>2. CASE p = "exception"
    <3>1. getPc'[c] = "threw" /\ (g + 1) - 1 = g
      BY <1>2, <1>9, <2>2
    <3>2. QED
      BY <1>3, <1>9, <2>1, <2>2, <3>1 DEF Collected
  <2>3. CASE p = "value"
    <3>1. \A k \in 1..(g + 1) : promise[m[k]] = "value"
      <4>1. \A k \in 1..(g + 1) : k \in 1..g \/ k = g + 1
        BY <1>2
      <4>2. QED
        BY <2>1, <2>3, <4>1
    <3>2. getPc'[c] = IF g + 1 = Len(m) THEN "returned" ELSE "waits"
      BY <1>9, <2>3
    <3>3. QED
      BY <1>2, <1>9, <2>1, <3>1, <3>2 DEF Collected
  <2>4. QED
    BY <1>4, <2>2, <2>3
<1>12. ASSUME NEW d \in Callers, d # c PROVE Submitted(d)' /\ Collected(d)'
  <2>1. /\ todo'[d] = todo[d] /\ mf'[d] = mf[d] /\ got'[d] = got[d]
        /\ promised'[d] = promised[d] /\ getPc'[d] = getPc[d]
    BY <1>1, <1>12 DEF LoopInv, LoopTypeOK
  <2>2. QED
    BY <1>1, <2>1 DEF LoopInv, Submitted, Collected
<1>13. QED
  BY <1>5, <1>6, <1>8, <1>10, <1>11, <1>12 DEF LoopInv

LEMMA LoopStep ==
  ASSUME LoopInv, PoolInv, [LoopNext]_allVars
  PROVE  LoopInv'
<1>1. TypeOK /\ OrderInv
  BY DEF PoolInv, Base
<1>2. QED
  BY <1>1, LoopCases, LoopsKept, RunTaskStep, StartLoopStep, LoopPushStep, GetStep, GetNextStep

\* Each loop is cut into its blocks in order, each submitted block has a promise,
\* and a promise that is set belongs to a task that has run.
THEOREM LoopInvariant == LoopSpec => []LoopInv
<1>1. LoopInv /\ PoolInv /\ [LoopNext]_allVars => LoopInv'
  BY LoopStep
<1>2. QED
  BY <1>1, LoopInvInit, PoolInvariant, PTL DEF LoopSpec

-----------------------------------------------------------------------------
(* What the end of a loop means *)

\* All tasks of a loop that is cut to the end have run: the body has run for
\* each index exactly once, and for none outside the range.
LEMMA RanOnce ==
  ASSUME LoopTypeOK, NEW c \in Callers, Cut(c), todo[c] = <<>>,
         \A k \in 1..Len(mf[c]) : mf[c][k] \in done
  PROVE  /\ \A i \in First(loop[c])..(After(loop[c]) - 1) : Cardinality(RunOf(c, i)) = 1
         /\ \A k \in DOMAIN mf[c] : /\ block[mf[c][k]].start >= First(loop[c])
                                    /\ block[mf[c][k]].end <= After(loop[c])
<1> PICK l : l = loop[c]
  OBVIOUS
<1> PICK m : m = mf[c]
  OBVIOUS
<1> PICK q : q = BlocksOf(l)
  OBVIOUS
<1> PICK n : n = Len(m)
  OBVIOUS
<1>1. l \in LoopArgs /\ q \in Seq(Blk) /\ m \in Seq(Task) /\ n \in Nat /\ DOMAIN m = 1..n
  BY BlocksAreBlocks, LenProperties DEF LoopTypeOK
<1>2. /\ n = Len(q) /\ \A k \in 1..n : block[m[k]] = q[k] /\ m[k] \in done
      /\ \A j, k \in 1..n : j < k => m[j] < m[k]
  <2>1. Len(todo[c]) = 0
    BY EmptySeq
  <2>2. Len(m) + 0 = Len(q)
    BY <2>1 DEF Cut
  <2>3. QED
    BY <1>1, <2>2 DEF Cut
<1>3. First(l) \in Int /\ After(l) \in Int /\ Total(l) \in Nat /\ (Total(l) = 0 <=> First(l) = After(l))
      /\ Total(l) = After(l) - First(l)
  BY <1>1 DEF LoopArgs, First, After, Total
<1>4. ASSUME Total(l) > 0
      PROVE  /\ NumBlocks(l) = n
             /\ \A k \in 1..n : /\ k - 1 \in 0..(n - 1)
                                /\ block[m[k]].start = Start(l, k - 1) /\ block[m[k]].end = End(l, k - 1)
  <2>1. NumBlocks(l) \in Nat
    BY <1>1, <1>4, LastBlockStarts
  <2>2. q = [i \in 1..NumBlocks(l) |-> [start |-> Start(l, i - 1), end |-> End(l, i - 1)]]
    BY <1>3, <1>4 DEF BlocksOf
  <2>3. NumBlocks(l) = n
    BY <1>2, <2>1, <2>2
  <2>4. \A k \in 1..n : q[k].start = Start(l, k - 1) /\ q[k].end = End(l, k - 1)
    BY ONLY <2>2, <2>3
  <2>5. \A k \in 1..n : k - 1 \in 0..(n - 1)
    BY <1>1
  <2>6. QED
    BY <1>2, <2>3, <2>4, <2>5
<1>5. ASSUME NEW k \in DOMAIN m
      PROVE  block[m[k]].start >= First(l) /\ block[m[k]].end <= After(l)
  <2>1. Total(l) > 0
    <3>1. n # 0
      BY <1>1
    <3>2. Total(l) = 0 => q = <<>>
      BY DEF BlocksOf
    <3>3. QED
      BY <1>2, <1>3, <3>1, <3>2, EmptySeq
  <2>2. k \in 1..n
    BY <1>1
  <2>3. QED
    BY <1>1, <1>4, <2>1, <2>2, BlocksInRange
<1>6. ASSUME NEW x \in First(l)..(After(l) - 1)
      PROVE  Cardinality(RunOf(c, x)) = 1
  <2>1. Total(l) > 0
    BY <1>3
  <2>2. PICK i \in 0..(NumBlocks(l) - 1) :
          /\ InBlock(l, i, x)
          /\ \A j \in 0..(NumBlocks(l) - 1) : InBlock(l, j, x) => j = i
    BY <1>1, <2>1, EveryIndexInOneBlock
  <2>3. i + 1 \in 1..n /\ (i + 1) - 1 = i
    BY <1>1, <1>4, <2>1
  <2>4. \A k \in 1..n : (block[m[k]].start <= x /\ x < block[m[k]].end) <=> InBlock(l, k - 1, x)
    BY <1>3, <1>4, <2>1 DEF InBlock
  <2>5. \A k \in 1..n : (block[m[k]].start <= x /\ x < block[m[k]].end) <=> k = i + 1
    BY <1>1, <1>4, <2>1, <2>2, <2>3, <2>4
  <2>6. RunOf(c, x) = {t \in done \cap {m[k] : k \in 1..n} : block[t].start <= x /\ x < block[t].end}
    BY <1>1 DEF RunOf
  <2>7. RunOf(c, x) = {m[i + 1]}
    BY <1>2, <2>3, <2>5, <2>6
  <2>8. QED
    BY <2>7, FS_Singleton
<1>7. QED
  BY <1>5, <1>6

\* The part of LoopRunsOnce that is about get().
GetIsComplete ==
  \A c \in Callers :
    /\ getPc[c] = "returned" =>
         /\ \A i \in First(loop[c])..(After(loop[c]) - 1) : Cardinality(RunOf(c, i)) = 1
         /\ \A k \in DOMAIN mf[c] : /\ block[mf[c][k]].start >= First(loop[c])
                                    /\ block[mf[c][k]].end <= After(loop[c])
                                    /\ promise[mf[c][k]] = "value"
    /\ getPc[c] = "threw" =>
         \E k \in DOMAIN mf[c] :
           /\ promise[mf[c][k]] = "exception"
           /\ \A j \in 1..(k - 1) : promise[mf[c][j]] = "value" /\ mf[c][j] \in done

LEMMA LoopInvGet ==
  ASSUME LoopInv
  PROVE  GetIsComplete
<1>1. ASSUME NEW c \in Callers, getPc[c] = "returned"
      PROVE  /\ todo[c] = <<>>
             /\ \A k \in DOMAIN mf[c] : promise[mf[c][k]] = "value" /\ mf[c][k] \in done
  <2>1. mf[c] \in Seq(Task) /\ DOMAIN mf[c] = 1..Len(mf[c])
    BY LenProperties DEF LoopInv, LoopTypeOK
  <2>2. todo[c] = <<>> /\ \A k \in 1..Len(mf[c]) : promise[mf[c][k]] = "value"
    BY <1>1 DEF LoopInv, Collected
  <2>3. \A k \in 1..Len(mf[c]) : mf[c][k] \in Task
    BY <2>1, ElementOfSeq
  <2>4. QED
    BY <2>1, <2>2, <2>3 DEF LoopInv, Kept
<1>2. ASSUME NEW c \in Callers, getPc[c] = "threw"
      PROVE  \E k \in DOMAIN mf[c] :
               /\ promise[mf[c][k]] = "exception"
               /\ \A j \in 1..(k - 1) : promise[mf[c][j]] = "value" /\ mf[c][j] \in done
  <2>1. mf[c] \in Seq(Task) /\ DOMAIN mf[c] = 1..Len(mf[c]) /\ Len(mf[c]) \in Nat
    BY LenProperties DEF LoopInv, LoopTypeOK
  <2>2. \A k \in 1..Len(mf[c]) : mf[c][k] \in Task
    BY <2>1, ElementOfSeq
  <2>3. PICK g : g = got[c]
    OBVIOUS
  <2>4. /\ g \in 1..Len(mf[c]) /\ promise[mf[c][g]] = "exception"
        /\ \A j \in 1..(g - 1) : promise[mf[c][j]] = "value"
    BY <1>2, <2>3 DEF LoopInv, Collected
  <2>5. \A j \in 1..(g - 1) : j \in 1..Len(mf[c])
    BY <2>1, <2>4
  <2>6. \A j \in 1..(g - 1) : mf[c][j] \in done
    BY <2>2, <2>4, <2>5 DEF LoopInv, Kept
  <2>7. QED
    BY <2>1, <2>4, <2>6
<1>3. ASSUME NEW c \in Callers, getPc[c] = "returned"
      PROVE  /\ \A i \in First(loop[c])..(After(loop[c]) - 1) : Cardinality(RunOf(c, i)) = 1
             /\ \A k \in DOMAIN mf[c] : /\ block[mf[c][k]].start >= First(loop[c])
                                        /\ block[mf[c][k]].end <= After(loop[c])
  <2>1. \A k \in 1..Len(mf[c]) : mf[c][k] \in done
    <3>1. DOMAIN mf[c] = 1..Len(mf[c])
      BY LenProperties DEF LoopInv, LoopTypeOK
    <3>2. QED
      BY <1>1, <1>3, <3>1
  <2>2. QED
    BY <1>1, <1>3, <2>1, RanOnce DEF LoopInv
<1>4. QED
  BY <1>1, <1>2, <1>3 DEF GetIsComplete

\* multi_future::get() returns only if every block has run and given its value,
\* so that the body has run once for each index; it throws only what a block has
\* thrown all of whose predecessors have run and given their values: for any
\* number of callers whose loops share the workers.
THEOREM GetComplete == LoopSpec => []GetIsComplete
<1>1. LoopInv => GetIsComplete
  BY LoopInvGet
<1>2. QED
  BY <1>1, LoopInvariant, PTL

\* A caller that pushes a loop and then waits for the tasks, or gets its futures,
\* finds that the body has run exactly once for each index of the range.  With a
\* second caller a task of its, popped before it is counted, may hide a task of
\* the loop from the wait, hence the condition.
THEOREM LoopOnce ==
  ASSUME OneCaller
  PROVE  LoopSpec => []LoopRunsOnce
<1>1. ASSUME LoopInv, PoolInv
      PROVE  LoopRunsOnce
  <2>1. ASSUME NEW c \in Callers, cpc[c] = "wait_return", ~paused, todo[c] = <<>>
        PROVE  \A k \in 1..Len(mf[c]) : mf[c][k] \in done
    <3>1. done = 1..pushed
      BY <1>1, <2>1 DEF PoolInv, WaitInv, AllRan
    <3>2. QED
      BY <1>1, <3>1 DEF LoopInv, Cut
  <2>2. \A c \in Callers : cpc[c] = "wait_return" /\ ~paused /\ todo[c] = <<>> =>
          /\ \A i \in First(loop[c])..(After(loop[c]) - 1) : Cardinality(RunOf(c, i)) = 1
          /\ \A k \in DOMAIN mf[c] : /\ block[mf[c][k]].start >= First(loop[c])
                                     /\ block[mf[c][k]].end <= After(loop[c])
    BY <1>1, <2>1, RanOnce DEF LoopInv
  <2>3. GetIsComplete
    BY <1>1, LoopInvGet
  <2>4. QED
    BY <2>2, <2>3 DEF GetIsComplete, LoopRunsOnce
<1>2. QED
  BY <1>1, LoopInvariant, PoolInvariant, PTL

\* Under loops and reset() too, wait_for_tasks returns in a pool that is not
\* paused only when every task pushed before the call has run.
THEOREM SingleCallerWaitLoops ==
  ASSUME OneCaller
  PROVE  LoopSpec => []WaitCoversTasks
<1>1. PoolInv => WaitCoversTasks
  BY DEF PoolInv, WaitInv, WaitCoversTasks, AllRan
<1>2. QED
  BY <1>1, PoolInvariant, PTL

=============================================================================
