------------------------- MODULE MCServiceLifecycle -------------------------
(* An instance of ServiceLifecycle for TLC. *)
EXTENDS ServiceLifecycle

BothTypes == {"builtin", "remote-http"}
=============================================================================
