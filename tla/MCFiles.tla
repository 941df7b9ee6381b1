------------------------------ MODULE MCFiles ------------------------------
(* Two clients, the service and the editor; the last value is refused.     *)
EXTENDS Files
==============================================================================
