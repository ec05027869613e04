-------------------------- MODULE ThreadPoolLoops --------------------------
(***************************************************************************)
(* The rest of BS::thread_pool's interface on top of ThreadPool: loops cut *)
(* into blocks that are pushed one by one, submit with its promise, the    *)
(* multi_future of a parallelized loop, and reset.                         *)
(***************************************************************************)
EXTENDS ThreadPool, LoopBlocks

CONSTANTS
  Loops,    \* the loops a caller may ask for; blocks 0 stands for the default
  CanThrow, \* whether the body of a parallelized loop may throw
  CanReset  \* whether the callers also use reset()

ASSUME LoopAssumption ==
  /\ \A l \in Loops : l.first \in Int /\ l.after \in Int /\ l.blocks \in Nat
  /\ CanThrow \in BOOLEAN /\ CanReset \in BOOLEAN

VARIABLES
  loop,     \* the loop each caller asked for last, with its number of blocks
  todo,     \* the blocks it has still to push
  mf,       \* the tasks of the loop pushed so far, in order
  promised, \* whether they were submitted, and get() is still to be called
  got,      \* how many futures get() has seen
  getPc,    \* where it is: "none", "waits", "returned" or "threw"
  block,    \* the block each task is bound to
  promise,  \* of a submitted task: "unset", "value" or "exception"
  wasPaused \* {was_paused} inside reset(), {} outside it

loopVars == <<loop, todo, mf, promised, got, getPc, block, promise>>
allVars  == <<vars, loopVars, wasPaused>>

NoLoop == [first |-> 0, after |-> 0, n |-> 1]
Whole  == [start |-> 0, end |-> 0]

LoopInit ==
  /\ Init
  /\ loop = [c \in Callers |-> NoLoop]
  /\ todo = [c \in Callers |-> <<>>] /\ mf = [c \in Callers |-> <<>>]
  /\ promised = [c \in Callers |-> FALSE] /\ got = [c \in Callers |-> 0]
  /\ getPc = [c \in Callers |-> "none"]
  /\ block = [t \in Task |-> Whole] /\ promise = [t \in Task |-> "none"]
  /\ wasPaused = {}

\* The caller is in none of the calls below.
Outside(c) == todo[c] = <<>> /\ getPc[c] # "waits" /\ wasPaused = {}

-----------------------------------------------------------------------------
(* push_loop and parallelize_loop *)

\* num_blocks ? num_blocks : thread_count
Asked(l) == [first |-> l.first, after |-> l.after,
             n |-> IF l.blocks > 0 THEN l.blocks ELSE Cardinality(Workers)]

StartLoop(c, l, submits) ==
  /\ life = "up" /\ cpc[c] = "out" /\ Outside(c) /\ mf[c] = <<>>
  /\ pushed + Len(BlocksOf(Asked(l))) <= MaxTasks
  /\ loop' = [loop EXCEPT ![c] = Asked(l)]
  /\ todo' = [todo EXCEPT ![c] = BlocksOf(Asked(l))]
  /\ promised' = [promised EXCEPT ![c] = submits]
  /\ UNCHANGED <<vars, mf, got, getPc, block, promise, wasPaused>>

\* push_task of the next block, or submit of it: its own steps follow.
LoopPush(c) ==
  /\ todo[c] # <<>>
  /\ Push(c)
  /\ todo' = [todo EXCEPT ![c] = Tail(@)]
  /\ mf' = [mf EXCEPT ![c] = Append(@, NextId)]
  /\ block' = [block EXCEPT ![NextId] = Head(todo[c])]
  /\ promise' = IF promised[c] THEN [promise EXCEPT ![NextId] = "unset"] ELSE promise
  /\ UNCHANGED <<loop, promised, got, getPc, wasPaused>>

\* Mutant: an exception of the body is swallowed and the promise is left.
Swallowed(t) == {"value", "unset"}
\* submit's task sets the promise to the value of the body or to its exception.
Outcomes(t) == {"value"} \cup (IF CanThrow THEN {"exception"} ELSE {})

RunTask(w) ==
  /\ Run(w)
  /\ IF promise[job[w]] = "unset"
     THEN \E o \in Outcomes(job[w]) : promise' = [promise EXCEPT ![job[w]] = o]
     ELSE UNCHANGED promise
  /\ UNCHANGED <<loop, todo, mf, promised, got, getPc, block, wasPaused>>

-----------------------------------------------------------------------------
(* multi_future::get *)

Get(c) ==
  /\ promised[c] /\ cpc[c] = "out" /\ Outside(c) /\ mf[c] # <<>>
  /\ promised' = [promised EXCEPT ![c] = FALSE]
  /\ got' = [got EXCEPT ![c] = 0]
  /\ getPc' = [getPc EXCEPT ![c] = "waits"]
  /\ UNCHANGED <<vars, loop, todo, mf, block, promise, wasPaused>>

\* futures[i].get() waits for the promise, and rethrows what it holds.
GetNext(c) ==
  /\ getPc[c] = "waits"
  /\ LET p == promise[mf[c][got[c] + 1]] IN
     /\ p # "unset"
     /\ got' = [got EXCEPT ![c] = @ + 1]
     /\ getPc' = [getPc EXCEPT ![c] = IF p = "exception" THEN "threw"
                                      ELSE IF got[c] + 1 = Len(mf[c]) THEN "returned" ELSE "waits"]
  /\ UNCHANGED <<vars, loop, todo, mf, promised, block, promise, wasPaused>>

-----------------------------------------------------------------------------
(* reset *)

ResetPause(c) ==
  /\ CanReset /\ life = "up"
  /\ \A d \in Callers : cpc[d] = "out" /\ Outside(d)
  /\ wasPaused' = {paused} /\ paused' = TRUE
  /\ UNCHANGED <<tasks, tasksTotal, running, waiting, mutex, wpc, job, cpc, life, history, loopVars>>

\* wait_for_tasks and destroy_threads, as in the destructor.
ResetWaits(c) == wasPaused # {} /\ Destroy(c) /\ UNCHANGED <<loopVars, wasPaused>>

\* The new threads; the same number of them.
ResetCreates ==
  /\ wasPaused # {} /\ life = "gone"
  /\ paused' = (TRUE \in wasPaused) /\ running' = TRUE
  /\ wpc' = [w \in Workers |-> "loop"]
  /\ life' = "up" /\ wasPaused' = {}
  /\ UNCHANGED <<tasks, tasksTotal, waiting, mutex, job, cpc, history, loopVars>>

-----------------------------------------------------------------------------
(* The whole *)

WorkerStep(w) == RunTask(w) \/ (wpc[w] # "task" /\ Worker(w) /\ UNCHANGED <<loopVars, wasPaused>>)

InCall(c) == (CallerStep(c) /\ UNCHANGED <<loopVars, wasPaused>>) \/ LoopPush(c) \/ GetNext(c)

Resetting == (DestructorStep /\ UNCHANGED <<loopVars, wasPaused>>) \/ ResetCreates
               \/ \E c \in Callers : ResetWaits(c)

LoopNext ==
  \/ \E w \in Workers : WorkerStep(w) \/ (SpuriousWake(w) /\ UNCHANGED <<loopVars, wasPaused>>)
  \/ \E c \in Callers :
       \/ Outside(c) /\ (Push(c) \/ Pause(c) \/ WaitForTasks(c) \/ Destroy(c))
            /\ UNCHANGED <<loopVars, wasPaused>>
       \/ WaitSpuriousWake(c) /\ UNCHANGED <<loopVars, wasPaused>>
       \/ \E l \in Loops, submits \in BOOLEAN : StartLoop(c, l, submits)
       \/ InCall(c) \/ Get(c) \/ ResetPause(c)
  \/ Resetting
  \/ wasPaused = {} /\ Gone /\ UNCHANGED <<loopVars, wasPaused>>

\* As ThreadPool's; a caller that is in one of these calls goes on with it.
LoopFairness ==
  /\ \A w \in Workers : SF_allVars(WorkerStep(w))
  /\ \A c \in Callers : SF_allVars(InCall(c))
  /\ WF_allVars(Resetting)

LoopSpec == LoopInit /\ [][LoopNext]_allVars /\ LoopFairness

-----------------------------------------------------------------------------
(* Safety *)

RunOf(c, i) == {t \in done \cap {mf[c][k] : k \in DOMAIN mf[c]} : block[t].start <= i /\ i < block[t].end}

\* Once get() has returned, or wait_for_tasks in a pool that is not paused, the
\* body has run for each index of the range in exactly one block, and for no
\* other.  A range given forwards is the one of the documentation's "for (T i =
\* first_index; i < index_after_last; ++i)"; the ends of one given backwards are
\* swapped by BS::blocks, and the body runs where that loop would not.  get()
\* throws what the first block that threw has thrown, and only when all blocks
\* before it are done.
LoopRunsOnce ==
  \A c \in Callers :
    /\ (getPc[c] = "returned" \/ (cpc[c] = "wait_return" /\ ~paused /\ todo[c] = <<>>)) =>
         /\ \A i \in First(loop[c])..(After(loop[c]) - 1) : Cardinality(RunOf(c, i)) = 1
         /\ \A k \in DOMAIN mf[c] : /\ block[mf[c][k]].start >= First(loop[c])
                                    /\ block[mf[c][k]].end <= After(loop[c])
    /\ getPc[c] = "returned" => \A k \in DOMAIN mf[c] : promise[mf[c][k]] = "value"
    /\ getPc[c] = "threw" =>
         \E k \in DOMAIN mf[c] :
           /\ promise[mf[c][k]] = "exception"
           /\ \A j \in 1..(k - 1) : promise[mf[c][j]] = "value" /\ mf[c][j] \in done

-----------------------------------------------------------------------------
(* Liveness *)

\* get() ends, with a result or an exception, unless the pool stays paused.
GetReturns == \A c \in Callers : getPc[c] = "waits" ~> (getPc[c] \in {"returned", "threw"} \/ paused)

\* "Waits for all tasks to complete, then destroys all threads."
DestructorReturns == life = "stop" ~> life = "gone"

=============================================================================
