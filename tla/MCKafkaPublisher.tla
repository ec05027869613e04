-------------------------- MODULE MCKafkaPublisher --------------------------
(* Small instances of KafkaPublisher for TLC. *)
EXTENDS KafkaPublisher

CONSTANTS t1, t2, m1, m2, m3, monitor, other

(* Two messages of one type and one of another. *)
MCReqType == [m \in Messages |-> IF m = m3 THEN other ELSE monitor]

=============================================================================
