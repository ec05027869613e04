---------------------------- MODULE CommandTopic ----------------------------
(***************************************************************************)
(* What the gateway promises the producers of commands, without threads,   *)
(* vectors or requests on their way: a process reads the topic from where  *)
(* its group left off, without a gap, and hands the commands on in the     *)
(* order of the topic; what the group has committed never goes back, and   *)
(* never past a message that the group owes its producer.                  *)
(***************************************************************************)
EXTENDS Integers, Sequences

VARIABLES
  end,       \* the number of messages in the topic
  committed, \* the group's committed offset, Nowhere before the first commit
  place,     \* how far the process has read, Nowhere until it has begun
  handed,    \* what it has handed to the workers, in order
  owed       \* the messages produced for the group and not yet looked at

vars == <<end, committed, place, handed, owed>>

Nowhere == -1

Init ==
  /\ end = 0 /\ committed \in {Nowhere, 0} /\ place = Nowhere
  /\ handed = <<>> /\ owed = {}

Produce ==
  /\ end' = end + 1
  /\ owed' = IF committed = Nowhere THEN owed ELSE owed \cup {end + 1}
  /\ UNCHANGED <<committed, place, handed>>

Begin ==
  /\ place = Nowhere
  /\ place' = IF committed = Nowhere THEN end ELSE committed
  /\ UNCHANGED <<end, committed, handed, owed>>

Read ==
  /\ place # Nowhere /\ place < end
  /\ place' = place + 1
  /\ UNCHANGED <<end, committed, handed, owed>>

\* A message that holds no command for a worker.
Skip(m) ==
  /\ m <= place
  /\ owed' = owed \ {m}
  /\ UNCHANGED <<end, committed, place, handed>>

HandOver(m) ==
  /\ m <= place /\ \A i \in DOMAIN handed : handed[i] < m
  /\ handed' = Append(handed, m)
  /\ owed' = owed \ {m}
  /\ UNCHANGED <<end, committed, place>>

\* Messages that are given up together, when the table cannot be written.
GiveUp(batch) ==
  /\ \A m \in batch : m <= place
  /\ owed' = owed \ batch
  /\ UNCHANGED <<end, committed, place, handed>>

Commit(offset) ==
  /\ committed <= offset /\ offset <= place
  /\ \A m \in owed : offset < m
  /\ committed' = offset
  /\ UNCHANGED <<end, place, handed, owed>>

\* The process is gone, and what it had not committed will be read again.
Gone ==
  /\ place' = Nowhere /\ handed' = <<>>
  /\ UNCHANGED <<end, committed, owed>>

Next ==
  \/ Produce \/ Begin \/ Read \/ Gone
  \/ \E m \in 1..end : Skip(m) \/ HandOver(m)
  \/ \E batch \in SUBSET (1..end) : GiveUp(batch)
  \/ \E offset \in 0..end : Commit(offset)

Spec == Init /\ [][Next]_vars

=============================================================================
