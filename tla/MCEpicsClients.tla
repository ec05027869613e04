-------------------------- MODULE MCEpicsClients --------------------------
(* Small instances of EpicsClients for TLC. *)
EXTENDS EpicsClients

CONSTANTS c1, t1, t2, h1, h2

=============================================================================
