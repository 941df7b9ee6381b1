----------------------------- MODULE MCSessions -----------------------------
(* One connection beside others that may hold every place: two calls of    *)
(* which one can be in flight, two events, and queues that two lines fill. *)
EXTENDS Sessions
==============================================================================
