-------------------------------- MODULE Core --------------------------------
(***************************************************************************)
(* core.Core over the mihomo engine of this process                        *)
(* (internal/core/mihomo/core.go): Apply with its restore, Check, Stop and *)
(* the drains that follow a stop.  applyMu serializes the calls; `op' is   *)
(* the one that holds it.  Readers take mu alone and see `running' and     *)
(* `current' between any two steps.                                        *)
(*                                                                         *)
(* The engine is external: it runs a config, or the stopped one, which has *)
(* no listener and rejects everything; whether all that a config asks for  *)
(* came up is what `started' reads of its log.  Connections are told apart *)
(* by the config they go through.                                          *)
(***************************************************************************)
EXTENDS Naturals

CONSTANTS
    Configs,  \* core.Config
    NoConfig,
    MaxGeneration \* bound on the commits and stops of a behaviour

ASSUME CoreAssumption == NoConfig \notin Configs
ASSUME GenerationAssumption == MaxGeneration \in Nat

VARIABLES
    op,         \* the holder of applyMu: its step, its config, what ran before
    running,    \* Core.running
    current,    \* Core.current's config, or NoConfig
    generation, \* Core.generation
    downloadDNS,\* the config Core.downloadDNS resolves by, or NoConfig
    engine,     \* what mihomo runs, and whether all of it came up
    dials,      \* the configs some dial is in flight through
    conns,      \* the configs some open connection goes through
    drains,     \* the drain goroutines
    result      \* the call last returned, for the contract

traffic == <<dials, conns>>
vars == <<op, running, current, generation, downloadDNS, engine, traffic, drains, result>>

Maybe == Configs \cup {NoConfig}
Stopped == [cfg |-> NoConfig, up |-> TRUE]
Free == [pc |-> "free", cfg |-> NoConfig, before |-> NoConfig, then |-> "none"]
Before == IF running THEN current ELSE NoConfig

Locked(pc) == op.pc = pc
Goto(pc) == op' = [op EXCEPT !.pc = pc]
Return(call, cfg, out) ==
    /\ op' = Free
    /\ result' = [call |-> call, cfg |-> cfg, out |-> out]

(***************************************************************************)
(* Apply and Check.                                                        *)
(***************************************************************************)
\* Every call leaves room for the generations it may use up.
Apply(cfg) ==
    /\ Locked("free") /\ generation + 3 <= MaxGeneration
    /\ op' = [pc |-> "run", cfg |-> cfg, before |-> Before, then |-> "none"]
    /\ UNCHANGED <<running, current, generation, downloadDNS, engine, traffic,
                   drains, result>>

ApplyInvalid(cfg) ==
    /\ Locked("free")
    /\ Return("apply", cfg, "failed")
    /\ UNCHANGED <<running, current, generation, downloadDNS, engine, traffic, drains>>

Check(cfg, out) ==
    /\ Locked("free")
    /\ Return("check", cfg, out)
    /\ UNCHANGED <<running, current, generation, downloadDNS, engine, traffic, drains>>

\* executor.ApplyConfig applies a config whatever fails on the way.
run(cfg, next) ==
    /\ \E up \in BOOLEAN : engine' = [cfg |-> cfg, up |-> up]
    /\ downloadDNS' = cfg
    /\ Goto(next)
    /\ UNCHANGED <<running, current, generation, traffic, drains, result>>

Run == Locked("run") /\ run(op.cfg, "started")

commitUncounted(cfg) ==                  \* mutant: a drain takes it for the stop
    /\ running' = TRUE /\ current' = cfg
    /\ UNCHANGED generation
commit(cfg) ==
    /\ running' = TRUE /\ current' = cfg
    /\ generation' = generation + 1

Started ==
    /\ Locked("started") /\ engine.up
    /\ commit(op.cfg)
    /\ Return("apply", op.cfg, "ok")
    /\ UNCHANGED <<downloadDNS, engine, traffic, drains>>

\* A first start stops again; a reload stops before it restores.
AfterFailureKeeps == "failed"            \* mutant: a reload is not restored
AfterFailure == IF op.before = NoConfig THEN "failed" ELSE "restore"
NotStarted ==
    /\ Locked("started") /\ ~engine.up
    /\ op' = [op EXCEPT !.pc = "stop", !.then = AfterFailure]
    /\ UNCHANGED <<running, current, generation, downloadDNS, engine, traffic,
                   drains, result>>

Rerun == Locked("rerun") /\ run(op.before, "restarted")

Restarted ==
    /\ Locked("restarted") /\ engine.up
    /\ commit(op.before)
    /\ Return("apply", op.cfg, "failed")
    /\ UNCHANGED <<downloadDNS, engine, traffic, drains>>

NotRestartedLeft ==                      \* mutant: what half came up stays
    /\ Locked("restarted") /\ ~engine.up
    /\ Return("apply", op.cfg, "stopped")
    /\ UNCHANGED <<running, current, generation, downloadDNS, engine, traffic, drains>>
NotRestarted ==
    /\ Locked("restarted") /\ ~engine.up
    /\ op' = [op EXCEPT !.pc = "stop", !.then = "stopped"]
    /\ UNCHANGED <<running, current, generation, downloadDNS, engine, traffic,
                   drains, result>>

(***************************************************************************)
(* Stop, and the stop inside a failed Apply.                               *)
(***************************************************************************)
Stop ==
    /\ Locked("free") /\ generation + 1 <= MaxGeneration
    /\ op' = [pc |-> "stop", cfg |-> NoConfig, before |-> Before, then |-> "done"]
    /\ UNCHANGED <<running, current, generation, downloadDNS, engine, traffic,
                   drains, result>>

StopReported ==
    /\ Locked("stop")
    /\ running' = FALSE /\ current' = NoConfig
    /\ generation' = generation + 1
    /\ Goto("halt")
    /\ UNCHANGED <<downloadDNS, engine, traffic, drains, result>>

Halt ==
    /\ Locked("halt")
    /\ engine' = Stopped
    /\ Goto("close")
    /\ UNCHANGED <<running, current, generation, downloadDNS, traffic, drains, result>>

\* closeAll closes what is tracked; a drain closes what lands later.
CloseAllOnce ==                          \* mutant: nothing drains
    /\ conns' = {}
    /\ UNCHANGED <<dials, drains>>
CloseAndDrain ==
    /\ conns' = {} /\ UNCHANGED dials
    /\ drains' = drains \cup
         {[generation |-> generation, dials |-> dials, swept |-> FALSE]}

Close ==
    /\ Locked("close")
    /\ CloseAndDrain
    /\ \/ op.then = "failed" /\ Return("apply", op.cfg, "failed")
       \/ op.then = "stopped" /\ Return("apply", op.cfg, "stopped")
       \/ op.then = "done" /\ Return("stop", NoConfig, "ok")
       \/ op.then = "restore" /\ Goto("rerun") /\ UNCHANGED result
       \/ /\ op.then = "restore"         \* the previous config does not parse
          /\ op' = [op EXCEPT !.pc = "stop", !.then = "stopped"]
          /\ UNCHANGED result
    /\ UNCHANGED <<running, current, generation, downloadDNS, engine>>

(***************************************************************************)
(* drainOnce, under applyMu.  The drain's deadline comes a second after    *)
(* every dial it follows gave up: a tick falls between the two.            *)
(***************************************************************************)
Over(d) == d.dials \cap dials = {}

DrainTick(d) ==
    /\ Locked("free")
    /\ \/ /\ generation = d.generation
          /\ conns' = {}
          /\ drains' = (drains \ {d}) \cup {[d EXCEPT !.swept = Over(d)]}
       \/ /\ generation # d.generation
          /\ drains' = drains \ {d} /\ UNCHANGED conns
    /\ UNCHANGED <<op, running, current, generation, downloadDNS, engine, dials, result>>

DrainLastNever(d) == Locked("free") /\ UNCHANGED vars      \* mutant: no deadline
DrainLast(d) ==
    /\ Locked("free")
    /\ Over(d) /\ d.swept
    /\ drains' = drains \ {d}
    /\ UNCHANGED <<op, running, current, generation, downloadDNS, engine, traffic, result>>

(***************************************************************************)
(* Traffic through the engine.  mihomo dials without a context it would    *)
(* cancel, and tracks a connection once the dial is through.               *)
(***************************************************************************)
Quiet == UNCHANGED <<op, running, current, generation, downloadDNS, engine, drains, result>>

Dial ==
    /\ engine.cfg # NoConfig
    /\ dials' = dials \cup {engine.cfg}
    /\ UNCHANGED conns /\ Quiet
Land(cfg) ==
    /\ cfg \in dials
    /\ dials' \in {dials, dials \ {cfg}}
    /\ conns' = conns \cup {cfg}
    /\ Quiet
GiveUp(cfg) ==
    /\ cfg \in dials /\ dials' = dials \ {cfg}
    /\ UNCHANGED conns /\ Quiet
Hangup(cfg) ==
    /\ cfg \in conns /\ conns' = conns \ {cfg}
    /\ UNCHANGED dials /\ Quiet

Init ==
    /\ op = Free
    /\ running = FALSE /\ current = NoConfig /\ generation = 0
    /\ downloadDNS = NoConfig
    /\ engine = Stopped
    /\ dials = {} /\ conns = {} /\ drains = {}
    /\ result = [call |-> "none", cfg |-> NoConfig, out |-> "ok"]

Call == \/ \E cfg \in Configs :
             \/ Apply(cfg) \/ ApplyInvalid(cfg)
             \/ \E out \in {"ok", "failed"} : Check(cfg, out)
        \/ Stop
Step == \/ Run \/ Started \/ NotStarted \/ Rerun \/ Restarted \/ NotRestarted
        \/ StopReported \/ Halt \/ Close
Drain == \E d \in drains : DrainTick(d) \/ DrainLast(d)
Traffic == Dial \/ \E cfg \in Configs : Land(cfg) \/ GiveUp(cfg) \/ Hangup(cfg)
Next == Call \/ Step \/ Drain \/ Traffic
Spec == Init /\ [][Next]_vars

(***************************************************************************)
(* Properties.                                                             *)
(***************************************************************************)
Pcs == {"free", "run", "started", "rerun", "restarted", "stop", "halt", "close"}
Drains == [generation : Nat, dials : SUBSET Configs, swept : BOOLEAN]

\* Every variable keeps its type.
TypeOK ==
    /\ op \in [pc : Pcs, cfg : Maybe, before : Maybe,
               then : {"none", "failed", "restore", "stopped", "done"}]
    /\ running \in BOOLEAN /\ current \in Maybe /\ generation \in Nat
    /\ downloadDNS \in Maybe
    /\ engine \in [cfg : Maybe, up : BOOLEAN]
    /\ dials \in SUBSET Configs /\ conns \in SUBSET Configs
    /\ drains \in SUBSET Drains
    /\ result \in [call : {"none", "apply", "check", "stop"}, cfg : Maybe,
                   out : {"ok", "failed", "stopped"}]

\* Between calls the engine runs, fully up, the config the core reports, and
\* downloads resolve by that one; or the core reports that it is stopped and
\* the engine is: whatever of Apply, restore and stop failed.
ReportsWhatRuns ==
    Locked("free") =>
        IF running THEN /\ engine = [cfg |-> current, up |-> TRUE]
                        /\ downloadDNS = current
                   ELSE engine = Stopped /\ current = NoConfig

\* Once a stop's drain ended and the core is stopped still, nothing goes
\* through the engine any more, not what was in flight at the stop either.
StoppedIsQuiet ==
    /\ Locked("free") /\ ~running /\ generation > 0
    /\ \A d \in drains : d.generation # generation
    => dials = {} /\ conns = {}

\* A drain never closes the connections of an engine that runs again, though
\* it outlives the stop it follows.
DrainSparesRunning ==
    [][\A d \in drains : DrainTick(d) /\ conns' # conns
            => ~running /\ engine = Stopped]_vars

(***************************************************************************)
(* The inductive strengthening of the properties above and of the          *)
(* contract below.                                                         *)
(***************************************************************************)
Consistent ==
    IF running THEN engine = [cfg |-> current, up |-> TRUE] /\ downloadDNS = current
               ELSE engine = Stopped /\ current = NoConfig
Restoring == op.pc \in {"rerun", "restarted"}
Stopping == op.pc \in {"stop", "halt", "close"}

\* What the engine runs at each step of a call.
EngineInv ==
    /\ op.pc \in {"free", "run"} => Consistent
    /\ op.pc \in {"run", "started"} => op.cfg \in Configs /\ op.before = Before
    /\ op.pc = "started" => engine.cfg = op.cfg /\ downloadDNS = op.cfg
    /\ op.pc = "restarted" => engine.cfg = op.before /\ downloadDNS = op.before
    /\ Restoring => op.cfg \in Configs /\ op.before # NoConfig
    /\ Restoring \/ op.pc \in {"halt", "close"} => ~running /\ current = NoConfig
    /\ op.pc \in {"close", "rerun"} => engine = Stopped
    /\ Stopping => /\ op.then # "none"
                   /\ op.then # "done" => op.cfg \in Configs
                   /\ op.then = "failed" => op.before = NoConfig
                   /\ op.then \in {"restore", "stopped"} => op.before # NoConfig
    /\ running => current \in Configs

\* Whose stop a drain follows, and what is left for it to close.
DrainInv ==
    /\ \A d \in drains :
          /\ d.generation <= generation
          /\ running \/ op.pc \in {"halt", "close"} => d.generation < generation
    /\ Locked("free") /\ ~running /\ generation > 0 =>
          \/ dials = {} /\ conns = {}
          \/ \E d \in drains : d.generation = generation
    /\ Locked("free") /\ ~running =>
          \A d \in drains : d.generation = generation =>
              /\ dials \subseteq d.dials
              /\ d.swept => dials = {} /\ conns = {}

(* core.Core's contract, of the engine between calls. *)
Serving == IF Locked("free") THEN engine.cfg ELSE op.before
Contract == INSTANCE CoreContract WITH runs <- Serving, last <- result

\* Apply, Check and Stop keep what core.go says of them.
KeepsContract == Contract!Spec

(***************************************************************************)
(* Liveness.                                                               *)
(***************************************************************************)
\* A call goes on to its end, a dial gives up, and a drain's ticks get applyMu.
Fairness ==
    /\ WF_vars(Step)
    /\ \A cfg \in Configs : SF_vars(GiveUp(cfg))
    /\ \A g \in 1..MaxGeneration :
          SF_vars(\E d \in drains : d.generation = g /\ (DrainTick(d) \/ DrainLast(d)))
FairSpec == Spec /\ Fairness

\* No drain outlives its purpose: each ends.
DrainsEnd == \A g \in 1..MaxGeneration :
    (\E d \in drains : d.generation = g) ~> ~(\E d \in drains : d.generation = g)

=============================================================================
