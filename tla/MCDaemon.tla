------------------------------ MODULE MCDaemon ------------------------------
(* Instances of Daemon for TLC. *)
EXTENDS Daemon, TLC

CONSTANTS s1, s2, s3, u1, u2, p1, p2, a, b

OneSub == s1 :> u1
\* Two ids of one URL, and one of another.
Shared == (s1 :> u1) @@ (s2 :> u2) @@ (s3 :> u1)
=============================================================================
