---------------------- MODULE MCAcquireCommandWorker ----------------------
(* Small instances of AcquireCommandWorker for TLC. *)
EXTENDS AcquireCommandWorker, TLC

MCHandlers == {"epicsMonitorEvent"}

(* The behaviours in which the pool never runs two commands of one channel at
   the same time: every behaviour of a one-thread pool, and the behaviours of a
   larger pool the consistency of the table depends on. *)
SerialSpec == Init /\ [][Next /\ Serial']_vars

(* The same with the fairness of the whole. *)
FairSerialSpec == SerialSpec /\ Fairness

(* Threads, channels and topics are interchangeable: no definition names one,
   and the values CHOOSE gives cmd and callArg at first are set before they
   are read. *)
MCSymmetry == Permutations(Threads) \cup Permutations(Channels) \cup Permutations(Topics)

=============================================================================
