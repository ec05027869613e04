----------------------------- MODULE TaskQueue -----------------------------
(***************************************************************************)
(* What the users of BS::thread_pool rely on: tasks are started in the     *)
(* order in which they were pushed, each of them once, and at most Size    *)
(* run at the same time.  wait_for_tasks and the destructor are not here:  *)
(* what they promise is stated in ThreadPool.                              *)
(***************************************************************************)
EXTENDS Naturals, Sequences, FiniteSets

CONSTANTS Tasks, Size

VARIABLES queue, executing, done

Init == queue = <<>> /\ executing = {} /\ done = {}

Push(t) ==
  /\ t \notin done \cup executing
  /\ \A i \in DOMAIN queue : queue[i] # t
  /\ queue' = Append(queue, t)
  /\ UNCHANGED <<executing, done>>

Start ==
  /\ queue # <<>>
  /\ Cardinality(executing) < Size
  /\ executing' = executing \cup {Head(queue)}
  /\ queue' = Tail(queue)
  /\ UNCHANGED done

Finish(t) ==
  /\ t \in executing
  /\ executing' = executing \ {t}
  /\ done' = done \cup {t}
  /\ UNCHANGED queue

Next == Start \/ \E t \in Tasks : Push(t) \/ Finish(t)

Spec == Init /\ [][Next]_<<queue, executing, done>>

=============================================================================
