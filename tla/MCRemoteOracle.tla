--------------------------- MODULE MCRemoteOracle ---------------------------
(* Instances of RemoteOracle for TLC; the constants are given in the cfgs. *)
EXTENDS RemoteOracle
=============================================================================
