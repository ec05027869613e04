----------------------------- MODULE MCStorage -----------------------------
(* Small instances of Storage for TLC. *)
EXTENDS Storage

CONSTANTS t1, t2

Row(n, p, d) == [name |-> n, protocol |-> p, destination |-> d]
(* One channel with two protocols, and another one. *)
MCa == Row("a", "pva", "t")
MCaCa == Row("a", "ca", "t")
MCb == Row("b", "pva", "t")
MCRows == {MCa, MCaCa, MCb}
MCStored == {<<MCb>>, <<MCa, MCaCa, MCb>>}

=============================================================================
