----------------------------- MODULE MCRefresh -----------------------------
(* Module Refresh on small instances. *)
EXTENDS Refresh

CONSTANTS u1, u2

=============================================================================
