------------------------------- MODULE MCCore -------------------------------
(* Module Core on small instances. *)
EXTENDS Core

CONSTANTS c1, c2

=============================================================================
