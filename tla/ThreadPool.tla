----------------------------- MODULE ThreadPool -----------------------------
(***************************************************************************)
(* BS::thread_pool, the pool that NodeController owns and that runs the    *)
(* commands.  Workers loop in worker(); Callers call push_task and         *)
(* wait_for_tasks, and one of them ends by destroying the pool.            *)
(*                                                                         *)
(* The atomics are read and written outside tasks_mutex, so every such     *)
(* access is a step of its own; a condition variable is the set of the     *)
(* threads whose program counter is at its wait, and notifying one is      *)
(* moving it on to take the mutex again.  tasks_total is a size_t that     *)
(* only ever is compared for equality with a number of tasks: an integer   *)
(* stands for its value modulo the size_t range.                           *)
(***************************************************************************)
EXTENDS Integers, Sequences, FiniteSets

CONSTANTS
  Workers,   \* the pool's threads
  Callers,   \* the threads that use the pool
  MaxTasks,  \* bound: tasks pushed in one behaviour
  MaxWaits,  \* bound: calls of wait_for_tasks before the destructor
  CanPause   \* whether the callers also use pause() and unpause()

ASSUME PoolAssumption ==
  /\ IsFiniteSet(Workers) /\ Workers # {}
  /\ IsFiniteSet(Callers) /\ Callers # {}
  /\ Workers \cap Callers = {}
  /\ "free" \notin Workers \cup Callers
  /\ MaxTasks \in Nat /\ MaxWaits \in Nat
  /\ CanPause \in BOOLEAN

VARIABLES
  tasks,      \* tasks: ids of the tasks in the queue
  tasksTotal, \* tasks_total
  running,    \* running
  paused,     \* paused
  waiting,    \* waiting
  mutex,      \* owner of tasks_mutex, or "free"
  wpc,        \* where each worker is in worker()
  job,        \* the task it has taken, 0 for none
  cpc,        \* where each caller is
  life,       \* how far the destructor has come
  pushed,     \* history: number of tasks put in the queue
  pushing,    \* history: the task each caller's push_task is about, 0 for none
  done,       \* history: tasks that have run
  covered,    \* history: tasks whose push_task had returned when a caller's wait began
  waits       \* calls of wait_for_tasks so far

shared  == <<tasks, tasksTotal, running, paused, waiting>>
history == <<pushed, pushing, done, covered, waits>>
vars    == <<shared, mutex, wpc, job, cpc, life, history>>

Task == 1..MaxTasks

WorkerHolds == {"pred", "block", "take", "count"}
CallerHolds == {"wait_pred", "wait_block", "wait_return"}

TypeOK ==
  /\ tasks \in Seq(Task)
  /\ tasksTotal \in Int
  /\ running \in BOOLEAN /\ paused \in BOOLEAN /\ waiting \in BOOLEAN
  /\ mutex \in Workers \cup Callers \cup {"free"}
  /\ wpc \in [Workers -> {"loop", "lock", "waiting", "task", "relock", "exit"} \cup WorkerHolds]
  /\ job \in [Workers -> Task \cup {0}]
  /\ cpc \in [Callers -> {"out", "total", "notify", "wait", "wait_lock", "wait_blocked"}
                           \cup CallerHolds]
  /\ life \in {"up", "waits", "stop", "notify", "join", "gone"}
  /\ pushed \in 0..MaxTasks
  /\ pushing \in [Callers -> Task \cup {0}]
  /\ done \in SUBSET Task
  /\ covered \in [Callers -> SUBSET Task]
  /\ waits \in 0..MaxWaits

\* The constructor: create_threads sets running and starts every worker.
Init ==
  /\ tasks = <<>> /\ tasksTotal = 0
  /\ running = TRUE /\ paused = FALSE /\ waiting = FALSE
  /\ mutex = "free"
  /\ wpc = [w \in Workers |-> "loop"]
  /\ job = [w \in Workers |-> 0]
  /\ cpc = [c \in Callers |-> "out"]
  /\ life = "up"
  /\ pushed = 0 /\ done = {} /\ waits = 0
  /\ pushing = [c \in Callers |-> 0]
  /\ covered = [c \in Callers |-> {}]

WorkerTo(w, from, to) == wpc[w] = from /\ wpc' = [wpc EXCEPT ![w] = to]
CallerTo(c, from, to) == cpc[c] = from /\ cpc' = [cpc EXCEPT ![c] = to]
Acquire(t) == mutex = "free" /\ mutex' = t
Release(t) == mutex = t /\ mutex' = "free"

-----------------------------------------------------------------------------
(* worker() *)

\* while (running)
Loop(w) ==
  /\ WorkerTo(w, "loop", IF running THEN "lock" ELSE "exit")
  /\ UNCHANGED <<shared, mutex, job, cpc, life, history>>

\* The unique_lock of the loop, and the one wait() takes again once notified.
Lock(w) ==
  /\ WorkerTo(w, "lock", "pred")
  /\ Acquire(w)
  /\ UNCHANGED <<shared, job, cpc, life, history>>

\* The predicate of task_available_cv.wait.
Ready == tasks # <<>> \/ ~running
Pred(w) ==
  /\ WorkerTo(w, "pred", IF Ready THEN "take" ELSE "block")
  /\ UNCHANGED <<shared, mutex, job, cpc, life, history>>

\* wait() releases the mutex and starts to wait in one step.
Block(w) ==
  /\ WorkerTo(w, "block", "waiting")
  /\ Release(w)
  /\ UNCHANGED <<shared, job, cpc, life, history>>

\* Mutant: a wake-up without a notification is taken for a task.
SpuriousWakeTakes(w) ==
  /\ WorkerTo(w, "waiting", "take")
  /\ Acquire(w)
  /\ UNCHANGED <<shared, job, cpc, life, history>>

\* A condition variable may wake up a thread nobody notified.
SpuriousWake(w) ==
  /\ WorkerTo(w, "waiting", "lock")
  /\ UNCHANGED <<shared, mutex, job, cpc, life, history>>

\* Mutant: the task is moved out of the queue and not popped.
NotPopped == tasks
Popped == Tail(tasks)

\* if (running && !paused): the front of the queue is taken and the mutex
\* released; otherwise the end of the loop's body releases it.
Take(w) ==
  /\ Release(w)
  /\ \/ /\ running /\ ~paused
        /\ WorkerTo(w, "take", "task")
        /\ tasks # <<>>
        /\ job' = [job EXCEPT ![w] = Head(tasks)]
        /\ tasks' = Popped
     \/ /\ ~(running /\ ~paused)
        /\ WorkerTo(w, "take", "loop")
        /\ UNCHANGED <<job, tasks>>
  /\ UNCHANGED <<tasksTotal, running, paused, waiting, cpc, life, history>>

\* task()
Run(w) ==
  /\ WorkerTo(w, "task", "relock")
  /\ done' = done \cup {job[w]}
  /\ UNCHANGED <<shared, mutex, job, cpc, life, pushed, pushing, covered, waits>>

Relock(w) ==
  /\ WorkerTo(w, "relock", "count")
  /\ Acquire(w)
  /\ UNCHANGED <<shared, job, cpc, life, history>>

\* Mutant: the notification is forgotten.
NotifyNoCaller == UNCHANGED cpc
\* notify_one: some thread at the wait, if there is one, goes on to from.
NotifyOneCaller ==
  LET blocked == {c \in Callers : cpc[c] = "wait_blocked"} IN
  IF blocked = {} THEN UNCHANGED cpc
  ELSE \E c \in blocked : cpc' = [cpc EXCEPT ![c] = "wait_lock"]

\* Mutant: the task is counted only when somebody waits.
CountForWaiters(w) ==
  /\ WorkerTo(w, "count", "loop")
  /\ Release(w)
  /\ tasksTotal' = IF waiting THEN tasksTotal - 1 ELSE tasksTotal
  /\ job' = [job EXCEPT ![w] = 0]
  /\ IF waiting THEN NotifyOneCaller ELSE UNCHANGED cpc
  /\ UNCHANGED <<tasks, running, paused, waiting, life, history>>

\* --tasks_total, the notification of wait_for_tasks, and the release at the
\* end of the loop's body; all three under the mutex.
Count(w) ==
  /\ WorkerTo(w, "count", "loop")
  /\ Release(w)
  /\ tasksTotal' = tasksTotal - 1
  /\ job' = [job EXCEPT ![w] = 0]
  /\ IF waiting THEN NotifyOneCaller ELSE UNCHANGED cpc
  /\ UNCHANGED <<tasks, running, paused, waiting, life, history>>

Worker(w) ==
  Loop(w) \/ Lock(w) \/ Pred(w) \/ Block(w) \/ Take(w) \/ Run(w) \/ Relock(w) \/ Count(w)

-----------------------------------------------------------------------------
(* push_task, pause, unpause *)

NextId == pushed + 1

\* tasks.push under the mutex, in one step: nothing else happens under it.
Push(c) ==
  /\ life = "up" /\ pushed < MaxTasks
  /\ mutex = "free"
  /\ CallerTo(c, "out", "total")
  /\ pushed' = pushed + 1
  /\ pushing' = [pushing EXCEPT ![c] = NextId]
  /\ tasks' = Append(tasks, NextId)
  /\ UNCHANGED <<tasksTotal, running, paused, waiting, mutex, wpc, job, life, done, covered,
                 waits>>

\* ++tasks_total, after the mutex is free again.
PushCount(c) ==
  /\ CallerTo(c, "total", "notify")
  /\ tasksTotal' = tasksTotal + 1
  /\ UNCHANGED <<tasks, running, paused, waiting, mutex, wpc, job, life, history>>

\* Mutant: the notification is forgotten.
NotifyNoWorker == UNCHANGED wpc
NotifyOneWorker ==
  LET blocked == {w \in Workers : wpc[w] = "waiting"} IN
  IF blocked = {} THEN UNCHANGED wpc
  ELSE \E w \in blocked : wpc' = [wpc EXCEPT ![w] = "lock"]

PushNotify(c) ==
  /\ CallerTo(c, "notify", "out")
  /\ NotifyOneWorker
  /\ pushing' = [pushing EXCEPT ![c] = 0]
  /\ UNCHANGED <<shared, mutex, job, life, pushed, done, covered, waits>>

\* The tasks whose push_task has returned.
Returned == 1..pushed \ {pushing[c] : c \in Callers}

Pause(c) ==
  /\ CanPause /\ life = "up" /\ cpc[c] = "out"
  /\ paused' = ~paused
  /\ UNCHANGED <<tasks, tasksTotal, running, waiting, mutex, wpc, job, cpc, life, history>>

-----------------------------------------------------------------------------
(* wait_for_tasks and the destructor, which begins with it *)

\* waiting = true
StartWait(c) ==
  /\ CallerTo(c, "out", "wait_lock")
  /\ waiting' = TRUE
  /\ covered' = [covered EXCEPT ![c] = Returned]
  /\ UNCHANGED <<tasks, tasksTotal, running, paused, mutex, wpc, job, pushed, pushing, done>>

WaitForTasks(c) ==
  /\ life = "up" /\ waits < MaxWaits
  /\ waits' = waits + 1
  /\ StartWait(c)
  /\ UNCHANGED life

\* The pool is destroyed by its last user.
Destroy(c) ==
  /\ life = "up" /\ \A d \in Callers : cpc[d] = "out"
  /\ life' = "waits"
  /\ StartWait(c)
  /\ UNCHANGED waits

WaitLock(c) ==
  /\ CallerTo(c, "wait_lock", "wait_pred")
  /\ Acquire(c)
  /\ UNCHANGED <<shared, wpc, job, life, history>>

\* Mutant: only the queue is looked at, not the running tasks.
QueueEmpty == paused \/ tasks = <<>>
\* The predicate of task_done_cv.wait.
AllDone == tasksTotal = IF paused THEN Len(tasks) ELSE 0
WaitPred(c) ==
  /\ CallerTo(c, "wait_pred", IF AllDone THEN "wait_return" ELSE "wait_block")
  /\ UNCHANGED <<shared, mutex, wpc, job, life, history>>

WaitBlock(c) ==
  /\ CallerTo(c, "wait_block", "wait_blocked")
  /\ Release(c)
  /\ UNCHANGED <<shared, wpc, job, life, history>>

WaitSpuriousWake(c) ==
  /\ CallerTo(c, "wait_blocked", "wait_lock")
  /\ UNCHANGED <<shared, mutex, wpc, job, life, history>>

\* waiting = false, and the end of the lock's scope.
WaitReturn(c) ==
  /\ CallerTo(c, "wait_return", "out")
  /\ Release(c)
  /\ waiting' = FALSE
  /\ life' = IF life = "waits" THEN "stop" ELSE life
  /\ UNCHANGED <<tasks, tasksTotal, running, paused, wpc, job, history>>

\* destroy_threads: running = false, without the mutex.
StopRunning ==
  /\ life = "stop" /\ life' = "notify"
  /\ running' = FALSE
  /\ UNCHANGED <<tasks, tasksTotal, paused, waiting, mutex, wpc, job, cpc, history>>

\* task_available_cv.notify_all
NotifyAll ==
  /\ life = "notify" /\ life' = "join"
  /\ wpc' = [w \in Workers |-> IF wpc[w] = "waiting" THEN "lock" ELSE wpc[w]]
  /\ UNCHANGED <<shared, mutex, job, cpc, history>>

\* join() of every thread
Join ==
  /\ life = "join" /\ life' = "gone"
  /\ \A w \in Workers : wpc[w] = "exit"
  /\ UNCHANGED <<shared, mutex, wpc, job, cpc, history>>

CallerStep(c) ==
  PushCount(c) \/ PushNotify(c) \/ WaitLock(c) \/ WaitPred(c) \/ WaitBlock(c) \/ WaitReturn(c)

DestructorStep == StopRunning \/ NotifyAll \/ Join

Gone == life = "gone" /\ UNCHANGED vars

Next ==
  \/ \E w \in Workers : Worker(w) \/ SpuriousWake(w)
  \/ \E c \in Callers : \/ Push(c) \/ Pause(c) \/ WaitForTasks(c) \/ Destroy(c)
                        \/ CallerStep(c) \/ WaitSpuriousWake(c)
  \/ DestructorStep
  \/ Gone

\* The operating system runs every thread; a thread that waits for tasks_mutex
\* gets it when it is free again and again.  Nobody has to call, and no wake-up
\* comes without a notification.
Fairness ==
  /\ \A w \in Workers : SF_vars(Worker(w))
  /\ \A c \in Callers : SF_vars(CallerStep(c))
  /\ WF_vars(DestructorStep)

Spec == Init /\ [][Next]_vars /\ Fairness

-----------------------------------------------------------------------------
(* Safety *)

\* tasks_mutex is held by exactly the thread whose next step needs it.
MutexOwner ==
  /\ \A w \in Workers : mutex = w <=> wpc[w] \in WorkerHolds
  /\ \A c \in Callers : mutex = c <=> cpc[c] \in CallerHolds

Uncounted == {w \in Workers : wpc[w] \in {"task", "relock", "count"}}
Counting  == {c \in Callers : cpc[c] = "total"}

\* tasks_total is one too low for every push that has not counted yet, so it
\* can be zero, or below, while tasks are queued or running.
TotalCounts ==
  tasksTotal = Len(tasks) + Cardinality(Uncounted) - Cardinality(Counting)

\* A worker never takes the front of an empty queue, although running is read
\* once in the predicate and once after it.
FrontExists == \A w \in Workers : wpc[w] = "take" /\ running => tasks # <<>>

\* "this function waits for all tasks, both those that are currently running in
\* the threads and those that are still waiting in the queue": when
\* wait_for_tasks returns, every task pushed before it was called has run.
WaitCoversTasks ==
  \A c \in Callers : cpc[c] = "wait_return" /\ ~paused => covered[c] \subseteq done

\* "Waits for all tasks to complete, then destroys all threads ... if the pool
\* is paused, then any tasks still in the queue will never be executed."
DestroyedComplete == life \in {"stop", "notify", "join", "gone"} /\ ~paused => done = 1..pushed

-----------------------------------------------------------------------------
(* Refinement *)

Executing == {job[w] : w \in {u \in Workers : wpc[u] = "task"}}

Queue == INSTANCE TaskQueue WITH
  Tasks <- Task, Size <- Cardinality(Workers),
  queue <- tasks, executing <- Executing, done <- done

\* Tasks start in the order of the pushes, and each runs once.
StartsInOrder == Queue!Spec

-----------------------------------------------------------------------------
(* Liveness *)

\* Every task that is pushed is run, unless the pool stays paused.
TasksRun == \A t \in Task : t <= pushed ~> (t \in done \/ paused)

\* wait_for_tasks returns.
WaitsReturn == \A c \in Callers : cpc[c] = "wait_lock" ~> cpc[c] = "out"

=============================================================================
