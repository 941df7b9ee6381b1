----------------------------- MODULE CoreProofs -----------------------------
(***************************************************************************)
(* The core of module Core keeps the contract of core.Core, for every set  *)
(* of configs; and what the drains of its stops close and leave open.      *)
(***************************************************************************)
EXTENDS Core, TLAPS

USE CoreAssumption

\* The fields of the free lock and of the stopped engine.
LEMMA FreeFields ==
    /\ Free.pc = "free" /\ Free.cfg = NoConfig /\ Free.before = NoConfig
    /\ Free.then = "none" /\ Stopped.cfg = NoConfig /\ Stopped.up
BY DEF Free, Stopped

\* Every step keeps the types.
LEMMA TypeStep == TypeOK /\ EngineInv /\ [Next]_vars => TypeOK'
<1> SUFFICES ASSUME TypeOK, EngineInv, [Next]_vars PROVE TypeOK'
  OBVIOUS
<1> USE DEF TypeOK, Pcs, Maybe, traffic
<1>1. ASSUME NEW cfg \in Configs, Apply(cfg) PROVE TypeOK'
  BY <1>1 DEF Apply, Before, Locked, Free
<1>2. ASSUME NEW cfg \in Configs, ApplyInvalid(cfg) PROVE TypeOK'
  BY <1>2 DEF ApplyInvalid, Return, Locked, Free
<1>3. ASSUME NEW cfg \in Configs, NEW out \in {"ok", "failed"}, Check(cfg, out) PROVE TypeOK'
  BY <1>3 DEF Check, Return, Locked, Free
<1>4. CASE Stop
  BY <1>4 DEF Stop, Before, Locked, Free
<1>5. CASE Run
  BY <1>5 DEF Run, run, Goto, Locked, Free
<1>6. CASE Started
  BY <1>6 DEF Started, commit, Return, Locked, Free
<1>7. CASE NotStarted
  BY <1>7 DEF NotStarted, AfterFailure, Locked, Free
<1>8. CASE Rerun
  BY <1>8 DEF Rerun, run, Goto, Locked, Free
<1>9. CASE Restarted
  BY <1>9 DEF Restarted, commit, Return, Locked, Free
<1>10. CASE NotRestarted
  BY <1>10 DEF NotRestarted, Locked, Free
<1>11. CASE StopReported
  <2>1. generation' \in Nat /\ running' \in BOOLEAN /\ current' \in Maybe
    <3>1. running' = FALSE
      BY <1>11 DEF StopReported
    <3>2. generation' = generation + 1 /\ current' = NoConfig
      BY <1>11 DEF StopReported
    <3>3. running' \in BOOLEAN
      BY <3>1, Zenon
    <3>4. generation' \in Nat /\ current' \in Maybe
      BY <3>2
    <3>5. QED
      BY <3>3, <3>4
  <2>2. op' \in [pc : Pcs, cfg : Maybe, before : Maybe,
                 then : {"none", "failed", "restore", "stopped", "done"}]
    BY <1>11 DEF StopReported, Goto
  <2>3. QED
    BY <1>11, <2>1, <2>2 DEF StopReported
<1>12. CASE Halt
  BY <1>12 DEF Halt, Goto, Locked, Free, Stopped
<1>13. CASE Close
  <2>1. /\ conns' = {} /\ dials' = dials
        /\ drains' = drains \cup
             {[generation |-> generation, dials |-> dials, swept |-> FALSE]}
        /\ UNCHANGED <<running, current, generation, downloadDNS, engine>>
    BY <1>13 DEF Close, CloseAndDrain
  <2>2. [generation |-> generation, dials |-> dials, swept |-> FALSE] \in Drains
    BY DEF Drains
  <2>3. op' \in [pc : Pcs, cfg : Maybe, before : Maybe,
                 then : {"none", "failed", "restore", "stopped", "done"}]
    <3>1. CASE op' = Free
      BY <3>1 DEF Free
    <3>2. CASE Goto("rerun")
      BY <3>2 DEF Goto
    <3>3. CASE op' = [op EXCEPT !.pc = "stop", !.then = "stopped"]
      BY <3>3
    <3>4. QED
      BY <1>13, <3>1, <3>2, <3>3 DEF Close, Return
  <2>4. result' \in [call : {"none", "apply", "check", "stop"}, cfg : Maybe,
                     out : {"ok", "failed", "stopped"}]
    BY <1>13 DEF Close, Return
  <2>5. QED
    BY <2>1, <2>2, <2>3, <2>4
<1>14. ASSUME NEW d \in drains, DrainTick(d) PROVE TypeOK'
  <2> DEFINE over == Over(d)
  <2>1. over \in BOOLEAN
    BY DEF Over
  <2>2. \/ drains' = (drains \ {d}) \cup {[d EXCEPT !.swept = over]} /\ conns' = {}
        \/ drains' = drains \ {d} /\ conns' = conns
    BY <1>14 DEF DrainTick
  <2> HIDE DEF over
  <2>3. drains' \in SUBSET Drains /\ conns' \in SUBSET Configs
    BY <2>1, <2>2 DEF Drains
  <2>4. QED
    BY <1>14, <2>3 DEF DrainTick
<1>15. ASSUME NEW d \in drains, DrainLast(d) PROVE TypeOK'
  BY <1>15 DEF DrainLast, Over, Locked, Free, Drains
<1>16. CASE Dial
  BY <1>16 DEF Dial, Quiet, Locked, Free, EngineInv
<1>17. ASSUME NEW cfg \in Configs, Land(cfg) PROVE TypeOK'
  BY <1>17 DEF Land, Quiet, Locked, Free
<1>18. ASSUME NEW cfg \in Configs, GiveUp(cfg) PROVE TypeOK'
  BY <1>18 DEF GiveUp, Quiet, Locked, Free
<1>19. ASSUME NEW cfg \in Configs, Hangup(cfg) PROVE TypeOK'
  BY <1>19 DEF Hangup, Quiet, Locked, Free
<1>20. CASE UNCHANGED vars
  BY <1>20 DEF vars, traffic, Free
<1>21. QED
  BY <1>1, <1>2, <1>3, <1>4, <1>5, <1>6, <1>7, <1>8, <1>9, <1>10, <1>11,
      <1>12, <1>13, <1>14, <1>15, <1>16, <1>17, <1>18, <1>19, <1>20 DEF Next,
      Call, Step, Drain, Traffic

\* Every step keeps what the engine runs in step with the call.
LEMMA EngineStep == TypeOK /\ EngineInv /\ [Next]_vars => EngineInv'
<1> SUFFICES ASSUME TypeOK, EngineInv, [Next]_vars PROVE EngineInv'
  OBVIOUS
<1> USE FreeFields DEF EngineInv, Restoring, Stopping, traffic
<1>1. ASSUME NEW cfg \in Configs, Apply(cfg) PROVE EngineInv'
  BY <1>1 DEF Apply, Before, Locked, TypeOK, Consistent
<1>2. ASSUME NEW cfg \in Configs, ApplyInvalid(cfg) PROVE EngineInv'
  BY <1>2 DEF ApplyInvalid, Return, Locked, TypeOK, Consistent, Before
<1>3. ASSUME NEW cfg \in Configs, NEW out \in {"ok", "failed"}, Check(cfg, out) PROVE EngineInv'
  BY <1>3 DEF Check, Return, Locked, TypeOK, Consistent, Before
<1>4. CASE Stop
  BY <1>4 DEF Stop, Before, Locked, TypeOK, Consistent
<1>5. CASE Run
  BY <1>5 DEF Run, run, Goto, Locked, TypeOK, Consistent, Before
<1>6. CASE Started
  BY <1>6 DEF Started, commit, Return, Locked, TypeOK, Consistent, Before
<1>7. CASE NotStarted
  BY <1>7 DEF NotStarted, AfterFailure, Locked, TypeOK, Consistent, Before
<1>8. CASE Rerun
  BY <1>8 DEF Rerun, run, Goto, Locked, TypeOK, Consistent, Before
<1>9. CASE Restarted
  BY <1>9 DEF Restarted, commit, Return, Locked, TypeOK, Consistent, Before,
      Maybe
<1>10. CASE NotRestarted
  BY <1>10 DEF NotRestarted, Locked, TypeOK, Consistent, Before
<1>11. CASE StopReported
  BY <1>11 DEF StopReported, Goto, Locked, TypeOK, Consistent, Before
<1>12. CASE Halt
  BY <1>12 DEF Halt, Goto, Locked, TypeOK, Consistent, Before
<1>13. CASE Close
  BY <1>13 DEF Close, CloseAndDrain, Return, Goto, Locked, TypeOK, Consistent,
      Before
<1>14. ASSUME NEW d \in drains, DrainTick(d) PROVE EngineInv'
  BY <1>14 DEF DrainTick, Over, Locked, TypeOK, Consistent, Before
<1>15. ASSUME NEW d \in drains, DrainLast(d) PROVE EngineInv'
  BY <1>15 DEF DrainLast, Over, Locked, TypeOK, Consistent, Before
<1>16. CASE Dial
  BY <1>16 DEF Dial, Quiet, Locked, TypeOK, Consistent, Before
<1>17. ASSUME NEW cfg \in Configs, Land(cfg) PROVE EngineInv'
  BY <1>17 DEF Land, Quiet, Locked, TypeOK, Consistent, Before
<1>18. ASSUME NEW cfg \in Configs, GiveUp(cfg) PROVE EngineInv'
  BY <1>18 DEF GiveUp, Quiet, Locked, TypeOK, Consistent, Before
<1>19. ASSUME NEW cfg \in Configs, Hangup(cfg) PROVE EngineInv'
  BY <1>19 DEF Hangup, Quiet, Locked, TypeOK, Consistent, Before
<1>20. CASE UNCHANGED vars
  BY <1>20 DEF vars, traffic, TypeOK, Consistent, Before
<1>21. QED
  BY <1>1, <1>2, <1>3, <1>4, <1>5, <1>6, <1>7, <1>8, <1>9, <1>10, <1>11,
      <1>12, <1>13, <1>14, <1>15, <1>16, <1>17, <1>18, <1>19, <1>20 DEF Next,
      Call, Step, Drain, Traffic

\* Every step keeps the drains to the stops they follow.
LEMMA DrainStep == TypeOK /\ EngineInv /\ DrainInv /\ [Next]_vars => DrainInv'
<1> SUFFICES ASSUME TypeOK, EngineInv, DrainInv, [Next]_vars PROVE DrainInv'
  OBVIOUS
<1> USE FreeFields DEF DrainInv, traffic
<1>1. ASSUME NEW cfg \in Configs, Apply(cfg) PROVE DrainInv'
  BY <1>1 DEF Apply, Before, Locked, TypeOK, Drains
<1>2. ASSUME NEW cfg \in Configs, ApplyInvalid(cfg) PROVE DrainInv'
  BY <1>2 DEF ApplyInvalid, Return, Locked, TypeOK, Drains
<1>3. ASSUME NEW cfg \in Configs, NEW out \in {"ok", "failed"}, Check(cfg, out) PROVE DrainInv'
  BY <1>3 DEF Check, Return, Locked, TypeOK, Drains
<1>4. CASE Stop
  BY <1>4 DEF Stop, Before, Locked, TypeOK, Drains
<1>5. CASE Run
  BY <1>5 DEF Run, run, Goto, Locked, TypeOK, Drains
<1>6. CASE Started
  BY <1>6 DEF Started, commit, Return, Locked, TypeOK, Drains
<1>7. CASE NotStarted
  BY <1>7 DEF NotStarted, AfterFailure, Locked, TypeOK, Drains
<1>8. CASE Rerun
  BY <1>8 DEF Rerun, run, Goto, Locked, TypeOK, Drains
<1>9. CASE Restarted
  BY <1>9 DEF Restarted, commit, Return, Locked, TypeOK, Drains
<1>10. CASE NotRestarted
  BY <1>10 DEF NotRestarted, Locked, TypeOK, Drains
<1>11. CASE StopReported
  BY <1>11 DEF StopReported, Goto, Locked, TypeOK, Drains
<1>12. CASE Halt
  BY <1>12 DEF Halt, Goto, Locked, TypeOK, Drains
<1>13. CASE Close
  <2> DEFINE new == [generation |-> generation, dials |-> dials, swept |-> FALSE]
  <2>1. /\ op.pc = "close" /\ ~running
        /\ conns' = {} /\ drains' = drains \cup {new}
        /\ UNCHANGED <<running, current, generation, dials>>
    BY <1>13 DEF Close, CloseAndDrain, Locked, EngineInv
  <2>2. op'.pc \in {"free", "rerun", "stop"}
    BY <1>13 DEF Close, Return, Goto, TypeOK
  <2>3. \A d \in drains : d.generation < generation /\ d.generation # generation
    BY <2>1 DEF TypeOK, Drains
  <2>4. new.generation = generation /\ new.dials = dials /\ ~new.swept
    OBVIOUS
  <2> HIDE DEF new
  <2>5. QED
    BY <2>1, <2>2, <2>3, <2>4 DEF TypeOK, Locked
<1>14. ASSUME NEW d \in drains, DrainTick(d) PROVE DrainInv'
  BY <1>14 DEF DrainTick, Over, Locked, TypeOK, Drains
<1>15. ASSUME NEW d \in drains, DrainLast(d) PROVE DrainInv'
  BY <1>15 DEF DrainLast, Over, Locked, TypeOK, Drains
<1>16. CASE Dial
  BY <1>16 DEF Dial, Quiet, Locked, TypeOK, Drains, EngineInv, Consistent
<1>17. ASSUME NEW cfg \in Configs, Land(cfg) PROVE DrainInv'
  BY <1>17 DEF Land, Quiet, Locked, TypeOK, Drains
<1>18. ASSUME NEW cfg \in Configs, GiveUp(cfg) PROVE DrainInv'
  BY <1>18 DEF GiveUp, Quiet, Locked, TypeOK, Drains
<1>19. ASSUME NEW cfg \in Configs, Hangup(cfg) PROVE DrainInv'
  BY <1>19 DEF Hangup, Quiet, Locked, TypeOK, Drains
<1>20. CASE UNCHANGED vars
  BY <1>20 DEF vars, traffic, TypeOK, Drains, Locked
<1>21. QED
  BY <1>1, <1>2, <1>3, <1>4, <1>5, <1>6, <1>7, <1>8, <1>9, <1>10, <1>11,
      <1>12, <1>13, <1>14, <1>15, <1>16, <1>17, <1>18, <1>19, <1>20 DEF Next,
      Call, Step, Drain, Traffic

\* What an engine runs between calls.
LEMMA StateInit == Init => TypeOK /\ EngineInv /\ DrainInv
<1> SUFFICES ASSUME Init PROVE TypeOK /\ EngineInv /\ DrainInv
  OBVIOUS
<1>1. TypeOK
  BY DEF Init, TypeOK, Pcs, Maybe, Free, Stopped
<1>2. EngineInv
  BY FreeFields DEF Init, EngineInv, Restoring, Stopping, Consistent
<1>3. DrainInv
  BY DEF Init, DrainInv
<1>4. QED
  BY <1>1, <1>2, <1>3

\* The inductive invariant of the core's calls and of its drains (Apply, restore,
\* stop, drainOnce).
THEOREM CoreInvariant == Spec => [](TypeOK /\ EngineInv /\ DrainInv)
BY StateInit, TypeStep, EngineStep, DrainStep, PTL DEF Spec

\* Between calls the engine runs what the core reports, whatever of Apply,
\* restore and stop failed.
THEOREM ReportsTruly == Spec => []ReportsWhatRuns
<1>1. EngineInv => ReportsWhatRuns
  BY DEF EngineInv, ReportsWhatRuns, Locked, Consistent
<1>2. QED
  BY <1>1, CoreInvariant, PTL

\* Once a stop's drain ended nothing goes through the stopped engine any more.
THEOREM StopsQuietly == Spec => []StoppedIsQuiet
<1>1. DrainInv => StoppedIsQuiet
  BY DEF DrainInv, StoppedIsQuiet
<1>2. QED
  BY <1>1, CoreInvariant, PTL

\* A drain closes nothing of an engine that runs again (drainOnce's generation).
THEOREM RunningSpared == Spec => DrainSparesRunning
<1>1. TypeOK /\ EngineInv /\ DrainInv
        => [\A d \in drains : DrainTick(d) /\ conns' # conns
                => ~running /\ engine = Stopped]_vars
  <2> SUFFICES ASSUME TypeOK, EngineInv, DrainInv, NEW d \in drains,
                      DrainTick(d), conns' # conns
               PROVE  ~running /\ engine = Stopped
    OBVIOUS
  <2>1. d.generation = generation /\ Locked("free")
    BY DEF DrainTick
  <2>2. ~running
    BY <2>1 DEF DrainInv, TypeOK, Drains
  <2>3. QED
    BY <2>1, <2>2 DEF EngineInv, Consistent, Locked
<1>2. QED
  BY <1>1, CoreInvariant, PTL DEF DrainSparesRunning

\* Every step of the core is a step of the contract, or none.
LEMMA ContractStep ==
    TypeOK /\ EngineInv /\ [Next]_vars
      => [Contract!Next]_<<Serving, result>>
<1> SUFFICES ASSUME TypeOK, EngineInv, [Next]_vars
             PROVE  Contract!Next \/ UNCHANGED <<Serving, result>>
  OBVIOUS
<1> DEFINE Kept == Contract!Next \/ UNCHANGED <<Serving, result>>
<1> USE FreeFields DEF Serving, Locked, traffic
<1>1. ASSUME NEW cfg \in Configs, Apply(cfg) PROVE Kept
  <2>1. Serving' = Before /\ result' = result
    BY <1>1 DEF Apply
  <2>2. Serving = Before
    BY <1>1, FreeFields DEF Apply, EngineInv, Consistent, Before
  <2>3. QED
    BY <2>1, <2>2
<1>2. ASSUME NEW cfg \in Configs, ApplyInvalid(cfg) PROVE Kept
  <2>1. Contract!ApplyFailed(cfg)
    BY <1>2 DEF ApplyInvalid, Return, Contract!ApplyFailed, Contract!Return
  <2>2. QED
    BY <2>1 DEF Contract!Next
<1>3. ASSUME NEW cfg \in Configs, NEW out \in {"ok", "failed"}, Check(cfg, out) PROVE Kept
  <2>1. Contract!Check(cfg, out)
    BY <1>3 DEF Check, Return, Contract!Check, Contract!Return
  <2>2. QED
    BY <2>1 DEF Contract!Next
<1>4. CASE Stop
  <2>1. Serving' = Before /\ result' = result
    BY <1>4 DEF Stop
  <2>2. Serving = Before
    BY <1>4, FreeFields DEF Stop, EngineInv, Consistent, Before
  <2>3. QED
    BY <2>1, <2>2
<1>5. CASE Run
  BY <1>5 DEF Run, run, Goto, TypeOK
<1>6. CASE Started
  <2>1. Serving' = op.cfg /\ op.cfg \in Configs
    BY <1>6 DEF Started, Return, EngineInv
  <2>2. Contract!ApplyOk(op.cfg)
    BY <1>6, <2>1 DEF Started, Return, Contract!ApplyOk, Contract!Return
  <2>3. QED
    BY <2>1, <2>2 DEF Contract!Next
<1>7. CASE NotStarted
  BY <1>7 DEF NotStarted, TypeOK
<1>8. CASE Rerun
  BY <1>8 DEF Rerun, run, Goto, TypeOK
<1>9. CASE Restarted
  <2>1. Serving' = Serving /\ op.cfg \in Configs
    BY <1>9 DEF Restarted, Return, EngineInv, Restoring
  <2>2. Contract!ApplyFailed(op.cfg)
    BY <1>9, <2>1 DEF Restarted, Return, Contract!ApplyFailed, Contract!Return
  <2>3. QED
    BY <2>1, <2>2 DEF Contract!Next
<1>10. CASE NotRestarted
  BY <1>10 DEF NotRestarted, TypeOK
<1>11. CASE StopReported
  BY <1>11 DEF StopReported, Goto, TypeOK
<1>12. CASE Halt
  BY <1>12 DEF Halt, Goto, TypeOK
<1>13. CASE Close
  <2>1. op.pc = "close" /\ engine' = engine /\ engine.cfg = NoConfig /\ Serving = op.before
    BY <1>13 DEF Close, EngineInv
  <2>2. CASE op.then = "failed" /\ Return("apply", op.cfg, "failed")
    <3>1. Serving' = Serving /\ op.cfg \in Configs
      BY <2>1, <2>2 DEF Return, EngineInv, Stopping
    <3>2. Contract!ApplyFailed(op.cfg)
      BY <2>2, <3>1 DEF Return, Contract!ApplyFailed, Contract!Return
    <3>3. QED
      BY <3>1, <3>2 DEF Contract!Next
  <2>3. CASE op.then = "stopped" /\ Return("apply", op.cfg, "stopped")
    <3>1. Serving' = NoConfig /\ Serving # NoConfig /\ op.cfg \in Configs
      BY <2>1, <2>3 DEF Return, EngineInv, Stopping
    <3>2. Contract!ApplyStopped(op.cfg)
      BY <2>3, <3>1 DEF Return, Contract!ApplyStopped, Contract!Return
    <3>3. QED
      BY <3>1, <3>2 DEF Contract!Next
  <2>4. CASE op.then = "done" /\ Return("stop", NoConfig, "ok")
    <3>1. Contract!Stop
      BY <2>1, <2>4 DEF Return, Contract!Stop, Contract!Return
    <3>2. QED
      BY <3>1 DEF Contract!Next
  <2>5. CASE UNCHANGED result /\ op'.pc \in {"rerun", "stop"} /\ op'.before = op.before
    BY <2>1, <2>5
  <2>6. QED
    BY <1>13, <2>2, <2>3, <2>4, <2>5 DEF Close, Goto, TypeOK
<1>14. ASSUME NEW d \in drains, DrainTick(d) PROVE Kept
  BY <1>14 DEF DrainTick
<1>15. ASSUME NEW d \in drains, DrainLast(d) PROVE Kept
  BY <1>15 DEF DrainLast
<1>16. CASE Dial
  BY <1>16 DEF Dial, Quiet
<1>17. ASSUME NEW cfg \in Configs, Land(cfg) PROVE Kept
  BY <1>17 DEF Land, Quiet
<1>18. ASSUME NEW cfg \in Configs, GiveUp(cfg) PROVE Kept
  BY <1>18 DEF GiveUp, Quiet
<1>19. ASSUME NEW cfg \in Configs, Hangup(cfg) PROVE Kept
  BY <1>19 DEF Hangup, Quiet
<1>20. CASE UNCHANGED vars
  BY <1>20 DEF vars, traffic
<1>21. QED
  BY <1>1, <1>2, <1>3, <1>4, <1>5, <1>6, <1>7, <1>8, <1>9, <1>10, <1>11,
      <1>12, <1>13, <1>14, <1>15, <1>16, <1>17, <1>18, <1>19, <1>20 DEF Next,
      Call, Step, Drain, Traffic

\* Apply, Check and Stop keep what core.go says of them: the module implements
\* CoreContract, the engine between calls being what runs.
THEOREM CoreKeepsContract == Spec => KeepsContract
<1>1. Init => Contract!Init
  BY FreeFields DEF Init, Contract!Init, Serving, Locked
<1>2. QED
  BY <1>1, ContractStep, CoreInvariant, PTL DEF Spec, KeepsContract, Contract!Spec

=============================================================================
