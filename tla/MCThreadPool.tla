---------------------------- MODULE MCThreadPool ----------------------------
(* Small instances of ThreadPool, with and without its loops, for TLC. *)
EXTENDS ThreadPoolLoops

CONSTANTS w1, w2, c1

(* A range given backwards and cut by default into uneven blocks, and one with
   fewer indexes than blocks. *)
MCLoops == {[first |-> 3, after |-> 0, blocks |-> 0], [first |-> 4, after |-> 5, blocks |-> 3]}

=============================================================================
