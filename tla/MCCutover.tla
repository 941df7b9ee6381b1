----------------------------- MODULE MCCutover -----------------------------
(* An empty machine, one whose launcher is not the old one, one with only  *)
(* the old units and a whole old install; Tailscale off everywhere, on in  *)
(* the import, on in the owner's file, and a linked config directory.      *)
EXTENDS Cutover

MCInstalls == {{"launcher"}, {"alien"}, {"service", "timer"},
               {"service", "timer", "hooks", "caps", "launcher"}}
MCWorlds == {[linked |-> FALSE, proxied |-> {}],
             [linked |-> FALSE, proxied |-> {"imp"}],
             [linked |-> TRUE, proxied |-> {"own"}]}
==============================================================================
