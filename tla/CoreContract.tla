---------------------------- MODULE CoreContract ----------------------------
(***************************************************************************)
(* What core.Core (internal/core/core.go) promises of its engine, call by  *)
(* call: Apply starts it or reloads it; a failed Apply leaves what ran, or *)
(* stops it and says so; Stop is idempotent; Check changes nothing.        *)
(***************************************************************************)
CONSTANTS
    Configs,  \* core.Config
    NoConfig

VARIABLES
    runs,     \* the config that runs between calls, or NoConfig
    last      \* the call last returned: its name, config and outcome

Return(call, cfg, out) == last' = [call |-> call, cfg |-> cfg, out |-> out]

ApplyOk(cfg) == runs' = cfg /\ Return("apply", cfg, "ok")
ApplyFailed(cfg) == runs' = runs /\ Return("apply", cfg, "failed")
ApplyStopped(cfg) == /\ runs # NoConfig /\ runs' = NoConfig
                     /\ Return("apply", cfg, "stopped")
Check(cfg, out) == runs' = runs /\ Return("check", cfg, out)
Stop == runs' = NoConfig /\ Return("stop", NoConfig, "ok")

Init == /\ runs = NoConfig
        /\ last = [call |-> "none", cfg |-> NoConfig, out |-> "ok"]
Next == \/ \E cfg \in Configs :
              \/ ApplyOk(cfg) \/ ApplyFailed(cfg) \/ ApplyStopped(cfg)
              \/ \E out \in {"ok", "failed"} : Check(cfg, out)
        \/ Stop
Spec == Init /\ [][Next]_<<runs, last>>

=============================================================================
