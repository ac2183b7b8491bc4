------------------------- MODULE MCAppServerProcess --------------------------
(* Instances of AppServerProcess for TLC. *)
EXTENDS AppServerProcess
=============================================================================
