--------------------------- MODULE DaemonProofs ----------------------------
(*****************************************************************************)
(* Module Daemon proved, for every set of ids, URLs, contents and choices:   *)
(* its types, then what the daemon runs, stores and shows, then what it      *)
(* stores of subscriptions.                                                  *)
(*****************************************************************************)
EXTENDS Daemon, TLAPS

(*****************************************************************************)
(* Type correctness: every variable keeps its type in every step of every    *)
(* handler.                                                                  *)
(*****************************************************************************)

\* The idle values of the locks' holders and of the settings have their types.
LEMMA NoOpTyped ==
    /\ NoOp \in Ops /\ NoDl \in Downloads /\ DefaultSettings \in Settings
    /\ NoOp.pc = "idle" /\ NoDl.kind = "none"
    /\ NoProfile \in Profiles
    /\ Contents \subseteq Profiles
BY ChoiceAssumption
   DEF NoOp, NoDl, Ops, Downloads, Pcs, Profiles, DefaultSettings, Settings

\* runConfig makes a core config of settings and a profile.
LEMMA ConfigTyped ==
    ASSUME NEW s \in Settings, NEW p \in Profiles
    PROVE  runConfig(s, p) \in Configs
BY DEF runConfig, Settings, Configs

\* What the setState of a stopped core pushes is a view.
LEMMA ViewStopped == TypeOK => [View EXCEPT !.state = "stopped"] \in Views
BY DEF TypeOK, View, Views, States, activeSub, Settings, Subscriptions

\* What publish pushes after a step is a view.
LEMMA ViewTypedNext ==
    ASSUME state' \in States, settings' \in Settings, subs' \in Subscriptions,
           profile' \in Profiles
    PROVE  View' \in Views
BY DEF View, Views, activeSub, Settings, Subscriptions

\* The fields the handlers read have their types.
LEMMA FieldsTyped ==
    TypeOK => /\ settings.tailscale \in BOOLEAN /\ settings.running \in BOOLEAN
              /\ dSettings.tailscale \in BOOLEAN /\ op.next.tailscale \in BOOLEAN
              /\ op.next \in Settings /\ op.profile \in Profiles
BY DEF TypeOK, Settings, Ops

\* The content loadProfile reads is a profile.
LEMMA ActiveTyped ==
    TypeOK /\ activeSub # NoId => snapshots[activeSub] \in Profiles
BY DEF TypeOK, activeSub, Subscriptions

\* Going on to another step keeps the locals of the call.
LEMMA GotoTyped ==
    ASSUME op \in Ops, NEW pc \in Pcs, Goto(pc)
    PROVE  op' \in Ops /\ op'.pc = pc /\ op'.id = op.id
BY DEF Goto, Ops

\* The sync of the drop-in leaves it in place or not.
LEMMA SyncTyped ==
    ASSUME host \in BOOLEAN, NEW on \in BOOLEAN, NEW ok \in BOOLEAN, syncHost(on, ok)
    PROVE  host' \in BOOLEAN /\ hostOk' \in BOOLEAN
BY DEF syncHost

\* Whatever an Apply came to, what runs and what is shown have their types.
LEMMA ReapplyTyped ==
    ASSUME TypeOK, NEW cfg \in Configs, NEW out, reapply(out, cfg)
    PROVE  core' \in Configs \cup {NoConfig} /\ state' \in States /\ pushed' \in Views
BY ViewStopped DEF reapply, TypeOK, States

\* The same of a rollback, which records whether it succeeded.
LEMMA RollbackTyped ==
    ASSUME TypeOK, NEW pc \in Pcs, rollback(pc)
    PROVE  /\ core' \in Configs \cup {NoConfig} /\ state' \in States /\ pushed' \in Views
           /\ op' \in Ops /\ op'.pc = pc /\ op'.id = op.id
<1>1. PICK out : /\ reapply(out, runConfig(settings, profile))
                 /\ op' = [op EXCEPT !.pc = pc, !.restored = (out = "ok")]
  BY DEF rollback
<1>2. runConfig(settings, profile) \in Configs
  BY ConfigTyped DEF TypeOK
<1>3. (out = "ok") \in BOOLEAN
  OBVIOUS
<1>4. op' \in Ops /\ op'.pc = pc /\ op'.id = op.id
  BY <1>1, <1>3 DEF TypeOK, Ops
<1>5. QED
  BY <1>1, <1>2, <1>4, ReapplyTyped

\* Every step of every handler keeps the types.
LEMMA TypeStep == TypeOK /\ [Next]_vars => TypeOK'
<1> SUFFICES ASSUME TypeOK, [Next]_vars PROVE TypeOK'
  OBVIOUS
<1> USE DEF TypeOK, memory, disk, history
<1>1. CASE StartRunning
  BY <1>1, NoOpTyped DEF StartRunning, Idle, Ops, Pcs, AddPcs
<1>2. CASE Stop
  BY <1>2, NoOpTyped, ViewTypedNext DEF Stop, Idle, Ops, Pcs, publish, States,
      AddPcs
<1>3. ASSUME NEW by \in Starters, StartRefused(by) PROVE TypeOK'
  BY <1>3, NoOpTyped, ViewTypedNext DEF StartRefused, MayStart, Idle,
      StartFailed, Ops, Pcs, publish, States, AddPcs
<1>4. ASSUME NEW by \in Starters, StartLoaded(by) PROVE TypeOK'
  BY <1>4, NoOpTyped, ViewTypedNext, ActiveTyped DEF StartLoaded, MayStart,
      Idle, Ops, Pcs, publish, States, AddPcs
<1>5. ASSUME NEW by \in Starters, StartUp(by) PROVE TypeOK'
  BY <1>5, NoOpTyped, ViewTypedNext, ConfigTyped DEF StartUp, At, Goto,
      Release, Ops, Pcs, publish, States, AddPcs
<1>6. ASSUME NEW by \in Starters, StartDown(by) PROVE TypeOK'
  BY <1>6, NoOpTyped, ViewTypedNext DEF StartDown, At, StartFailed, Release,
      Ops, Pcs, publish, States, AddPcs
<1>7. ASSUME NEW on \in BOOLEAN, SaveRunning(on) PROVE TypeOK'
  BY <1>7, NoOpTyped, FieldsTyped DEF SaveRunning, At, Release, Settings, Ops,
      Pcs, AddPcs
<1>8. ASSUME NEW on \in BOOLEAN, SaveRunningFails(on) PROVE TypeOK'
  BY <1>8, NoOpTyped DEF SaveRunningFails, At, Release, Ops, Pcs, AddPcs
<1>9. ASSUME NEW next \in Settings, Apply(next) PROVE TypeOK'
  <2>1. op' \in Ops /\ op'.pc \in {"hostOff", "applyNew"}
    BY <1>9, NoOpTyped DEF Apply, Ops, Pcs
  <2>2. QED
    BY <1>9, <2>1 DEF Apply, AddPcs
<1>10. CASE HostOff
  <2>1. PICK ok \in BOOLEAN : syncHost(FALSE, ok)
    BY <1>10 DEF HostOff
  <2>2. host' \in BOOLEAN /\ hostOk' \in BOOLEAN
    BY <2>1, SyncTyped
  <2>3. op' \in Ops /\ op'.pc \notin AddPcs
    BY <1>10, NoOpTyped, GotoTyped DEF HostOff, Release, Pcs, AddPcs
  <2>4. QED
    BY <1>10, <2>2, <2>3 DEF HostOff
<1>11. CASE ApplyNew
  BY <1>11, NoOpTyped, ReapplyTyped, ConfigTyped DEF ApplyNew, At, Goto,
      Release, Ops, Pcs, AddPcs
<1>12. CASE HostBack
  BY <1>12, NoOpTyped, SyncTyped, FieldsTyped DEF HostBack, At, Release, Ops,
      Pcs, AddPcs
<1>13. CASE HostOn
  <2>1. PICK ok \in BOOLEAN : syncHost(TRUE, ok)
    BY <1>13 DEF HostOn
  <2>2. host' \in BOOLEAN /\ hostOk' \in BOOLEAN
    BY <2>1, SyncTyped
  <2>3. op' \in Ops /\ op'.pc \notin AddPcs
    BY <1>13, GotoTyped DEF HostOn, Pcs, AddPcs
  <2>4. QED
    BY <1>13, <2>2, <2>3 DEF HostOn
<1>14. CASE SaveSettings
  BY <1>14, NoOpTyped, ViewTypedNext DEF SaveSettings, At, Release, Ops, Pcs,
      publish, States, AddPcs
<1>15. CASE SaveSettingsFails
  BY <1>15, NoOpTyped DEF SaveSettingsFails, At, Goto, Ops, Pcs, AddPcs
<1>16. CASE RevertOff
  BY <1>16, NoOpTyped, SyncTyped DEF RevertOff, At, Goto, Ops, Pcs, AddPcs
<1>17. CASE RevertCore
  BY <1>17, NoOpTyped, RollbackTyped DEF RevertCore, At, Ops, Pcs, AddPcs
<1>18. CASE RevertOn
  <2>1. host' \in BOOLEAN /\ hostOk' \in BOOLEAN
    BY <1>18, SyncTyped DEF RevertOn
  <2>2. op' \in Ops /\ op'.pc \notin AddPcs
    BY <1>18, NoOpTyped, GotoTyped DEF RevertOn, Release, Pcs, AddPcs
  <2>3. QED
    BY <1>18, <2>1, <2>2 DEF RevertOn
<1>19. CASE KeepNext
  BY <1>19, NoOpTyped, SyncTyped, FieldsTyped DEF KeepNext, At, Release, Ops,
      Pcs, AddPcs
<1>20. ASSUME NEW id \in Ids, AddBegin(id) PROVE TypeOK'
  BY <1>20, NoOpTyped DEF AddBegin, Fresh, Taken, Downloads, Profiles, Ops,
      Pcs, AddPcs
<1>21. CASE AddDownloadFails
  BY <1>21, NoOpTyped DEF AddDownloadFails, Ops, Pcs, AddPcs
<1>22. CASE AddAccept
  <2>1. dl.id \in Ids /\ dl.profile \in Profiles
    BY <1>22 DEF AddAccept, Got, Downloads
  <2>2. PICK out : /\ acceptContent(subs.active = NoId, out, runConfig(settings, dl.profile))
                   /\ \/ /\ op' = [NoOp EXCEPT !.pc = "addSnapshot", !.id = dl.id,
                                      !.profile = dl.profile, !.runs = (subs.active = NoId)]
                         /\ UNCHANGED dl
                      \/ ReleaseBoth
    BY <1>22 DEF AddAccept
  <2>3. core' \in Configs \cup {NoConfig} /\ state' \in States /\ pushed' \in Views
    BY <2>1, <2>2, ConfigTyped, ReapplyTyped DEF acceptContent
  <2>4. (subs.active = NoId) \in BOOLEAN
    OBVIOUS
  <2>5. /\ op' \in Ops /\ dl' \in Downloads
        /\ op'.pc \in AddPcs => op'.id \in Ids
        /\ dl'.kind # "none" => dl'.id \in Ids
    BY <2>1, <2>2, <2>4, NoOpTyped DEF ReleaseBoth, Ops, Pcs, AddPcs
  <2>6. QED
    BY <1>22, <2>3, <2>5 DEF AddAccept
<1>23. CASE AddSnapshot
  BY <1>23, NoOpTyped DEF AddSnapshot, At, Goto, Ops, Pcs, AddPcs
<1>24. CASE AddSubs
  BY <1>24, NoOpTyped, ViewTypedNext, FieldsTyped DEF AddSubs, At, WithAdded,
      ReleaseBoth, Subscriptions, Ops, Pcs, publish, States, AddPcs
<1>25. CASE AddSubsFails
  BY <1>25, NoOpTyped DEF AddSubsFails, At, Goto, Ops, Pcs, AddPcs
<1>26. CASE AddForget
  BY <1>26, NoOpTyped DEF AddForget, At, Goto, RemoveSnapshot, Ops, Pcs,
      AddPcs
<1>27. CASE AddRevert
  <2>1. CASE op.runs
    BY <1>27, <2>1, RollbackTyped DEF AddRevert, At, Pcs, AddPcs
  <2>2. CASE ~op.runs
    <3>1. op' \in Ops /\ op'.id = op.id
      BY <1>27, <2>2 DEF AddRevert, Ops, Pcs
    <3>2. QED
      BY <1>27, <2>2, <3>1 DEF AddRevert, At, AddPcs
  <2>3. QED
    BY <2>1, <2>2
<1>28. CASE AddSettle
  BY <1>28, NoOpTyped, ViewTypedNext DEF AddSettle, At, WithAdded,
      ReleaseBoth, Subscriptions, Ops, Pcs, publish, States, AddPcs
<1>29. ASSUME NEW id \in Ids, RefreshBegin(id) PROVE TypeOK'
  BY <1>29, NoOpTyped DEF RefreshBegin, Downloads, Profiles, Ops, Pcs, AddPcs
<1>30. ASSUME NEW p \in Contents, Downloaded(p) PROVE TypeOK'
  BY <1>30, NoOpTyped DEF Downloaded, Downloads, Profiles, Ops, Pcs, AddPcs
<1>31. CASE RefreshDownloadFails
  BY <1>31, NoOpTyped, ViewTypedNext DEF RefreshDownloadFails, Idle,
      updateSub, ReleaseBoth, Ops, Pcs, publish, States, AddPcs
<1>32. CASE RefreshGone
  BY <1>32, NoOpTyped DEF RefreshGone, Got, Idle, ReleaseBoth, Ops, Pcs,
      AddPcs
<1>33. CASE RefreshAccept
  <2>1. dl.id \in Ids /\ dl.profile \in Profiles
    BY <1>33 DEF RefreshAccept, Got, Downloads
  <2>2. PICK out : /\ acceptContent(subs.active = dl.id, out, runConfig(settings, dl.profile))
                   /\ op' = [NoOp EXCEPT !.pc = IF out = "ok" THEN "refSnapshot" ELSE "refFailed",
                                   !.id = dl.id, !.profile = dl.profile,
                                   !.runs = (subs.active = dl.id)]
    BY <1>33 DEF RefreshAccept
  <2>3. core' \in Configs \cup {NoConfig} /\ state' \in States /\ pushed' \in Views
    BY <2>1, <2>2, ConfigTyped, ReapplyTyped DEF acceptContent
  <2>4. (subs.active = dl.id) \in BOOLEAN
    OBVIOUS
  <2>5. op' \in Ops /\ op'.pc \notin AddPcs
    BY <2>1, <2>2, <2>4, NoOpTyped DEF Ops, Pcs, AddPcs
  <2>6. QED
    BY <1>33, <2>3, <2>5 DEF RefreshAccept
<1>34. CASE RefreshFailed
  BY <1>34, NoOpTyped, ViewTypedNext DEF RefreshFailed, At, updateSub,
      ReleaseBoth, Ops, Pcs, publish, States, AddPcs
<1>35. CASE RefreshSnapshot
  <2>1. op' \in Ops /\ op'.pc \notin AddPcs
    BY <1>35, GotoTyped DEF RefreshSnapshot, Pcs, AddPcs
  <2>2. snapshots' \in [Ids -> Profiles] /\ profile' \in Profiles
    BY <1>35, FieldsTyped DEF RefreshSnapshot
  <2>3. QED
    BY <1>35, <2>1, <2>2 DEF RefreshSnapshot
<1>36. CASE RefreshSnapshotFails
  BY <1>36, NoOpTyped DEF RefreshSnapshotFails, At, Goto, ReleaseBoth, Ops,
      Pcs, AddPcs
<1>37. CASE RefreshRevert
  BY <1>37, NoOpTyped, ReapplyTyped, ConfigTyped DEF RefreshRevert, At,
      ReleaseBoth, Ops, Pcs, AddPcs
<1>38. CASE RefreshRecord
  BY <1>38, NoOpTyped, ViewTypedNext DEF RefreshRecord, At, ReleaseBoth, Ops,
      Pcs, publish, States, AddPcs
<1>39. CASE RefreshRecordFails
  BY <1>39, NoOpTyped DEF RefreshRecordFails, At, ReleaseBoth, Ops, Pcs,
      AddPcs
<1>40. ASSUME NEW id \in Ids, Activate(id) PROVE TypeOK'
  <2>1. snapshots[id] \in Profiles
    OBVIOUS
  <2>2. PICK out : /\ reapply(out, runConfig(settings, snapshots[id]))
                   /\ \/ op' = [NoOp EXCEPT !.pc = "useSave", !.id = id,
                                        !.profile = snapshots[id], !.runs = TRUE]
                      \/ Release
    BY <1>40 DEF Activate, acceptContent
  <2>3. core' \in Configs \cup {NoConfig} /\ state' \in States /\ pushed' \in Views
    BY <2>1, <2>2, ConfigTyped, ReapplyTyped
  <2>4. op' \in Ops /\ op'.pc \notin AddPcs
    BY <2>1, <2>2, NoOpTyped DEF Release, Ops, Pcs, AddPcs
  <2>5. QED
    BY <1>40, <2>3, <2>4 DEF Activate
<1>41. CASE ActivateSave
  BY <1>41, NoOpTyped, ViewTypedNext DEF ActivateSave, At, Release,
      Subscriptions, Ops, Pcs, publish, States, AddPcs
<1>42. CASE ActivateSaveFails
  BY <1>42, NoOpTyped DEF ActivateSaveFails, At, Goto, Ops, Pcs, AddPcs
<1>43. CASE ActivateRevert
  BY <1>43, NoOpTyped, RollbackTyped DEF ActivateRevert, At, Ops, Pcs, AddPcs
<1>44. CASE ActivateSettle
  BY <1>44, NoOpTyped, ViewTypedNext DEF ActivateSettle, At, Release,
      Subscriptions, Ops, Pcs, publish, States, AddPcs
<1>45. ASSUME NEW id \in Ids, RemoveFind(id) PROVE TypeOK'
  BY <1>45, NoOpTyped DEF RemoveFind, Ops, Pcs, AddPcs
<1>46. ASSUME NEW id \in Ids, RemoveRefused(id) PROVE TypeOK'
  BY <1>46, NoOpTyped DEF RemoveRefused, Idle, TakeFound, InUse, Ops, Pcs,
      AddPcs
<1>47. ASSUME NEW id \in Ids, Remove(id) PROVE TypeOK'
  <2>1. subs' \in Subscriptions /\ dSubs' \in Subscriptions
    BY <1>47 DEF Remove, Without, Subscriptions
  <2>2. op' \in Ops /\ op'.pc \notin AddPcs
    BY <1>47, NoOpTyped DEF Remove, Idle, Ops, Pcs, AddPcs
  <2>3. profile' \in Profiles /\ found' \in SUBSET Ids /\ unsaved' \in SUBSET Ids
    BY <1>47, NoOpTyped DEF Remove, TakeFound
  <2>4. QED
    BY <1>47, <2>1, <2>2, <2>3 DEF Remove
<1>48. CASE RemoveContent
  BY <1>48, NoOpTyped, ViewTypedNext DEF RemoveContent, At, RemoveSnapshot,
      Release, Ops, Pcs, publish, States, AddPcs
<1>49. CASE Crash
  <2>1. op' \in Ops /\ op'.pc \notin AddPcs /\ dl' \in Downloads /\ dl'.kind = "none"
    BY <1>49, NoOpTyped DEF Crash, AddPcs
  <2>2. /\ state' \in States /\ settings' \in Settings /\ subs' \in Subscriptions
        /\ profile' \in Profiles
    BY <1>49, NoOpTyped DEF Crash, States
  <2>3. pushed' \in Views
    BY <1>49, <2>2, ViewTypedNext DEF Crash, publish
  <2>4. QED
    BY <1>49, <2>1, <2>2, <2>3 DEF Crash
<1>50. CASE Boot
  <2>1. host' \in BOOLEAN /\ hostOk' \in BOOLEAN
    BY <1>50, SyncTyped, FieldsTyped DEF Boot
  <2>2. profile' \in Profiles
    BY <1>50, NoOpTyped, ActiveTyped DEF Boot
  <2>3. pushed' \in Views
    BY <1>50, <2>2, ViewTypedNext DEF Boot, publish
  <2>4. restorePending' \in BOOLEAN /\ since' \in {"stopped", "boot", "inVain", "up"}
    BY <1>50, FieldsTyped DEF Boot
  <2>5. QED
    BY <1>50, <2>1, <2>2, <2>3, <2>4 DEF Boot
<1>51. CASE BootFails
  <2>1. host' \in BOOLEAN /\ hostOk' \in BOOLEAN
    BY <1>51, SyncTyped, FieldsTyped DEF BootFails
  <2>2. QED
    BY <1>51, <2>1 DEF BootFails
<1>52. CASE UNCHANGED vars
  BY <1>52 DEF vars
<1>53. QED
  BY <1>1, <1>2, <1>3, <1>4, <1>5, <1>6, <1>7, <1>8, <1>9, <1>10, <1>11,
      <1>12, <1>13, <1>14, <1>15, <1>16, <1>17, <1>18, <1>19, <1>20, <1>21,
      <1>22, <1>23, <1>24, <1>25, <1>26, <1>27, <1>28, <1>29, <1>30, <1>31,
      <1>32, <1>33, <1>34, <1>35, <1>36, <1>37, <1>38, <1>39, <1>40, <1>41,
      <1>42, <1>43, <1>44, <1>45, <1>46, <1>47, <1>48, <1>49, <1>50, <1>51,
      <1>52 DEF Next, StartStop, Commit, Add, Refresh, UseRemove, Process

\* The initial memory is the defaults New reads of an empty disk.
LEMMA InitFields ==
    /\ DefaultSettings.tailscale = FALSE /\ DefaultSettings.running = FALSE
    /\ NoOp.pc = "idle" /\ NoDl.kind = "none"
BY DEF DefaultSettings, NoOp, NoDl

\* Every variable keeps its type (TypeOK), whatever fails and whenever the
\* daemon crashes: the handlers of internal/daemon leave no field unset or
\* out of range.
THEOREM TypeCorrect == Spec => []TypeOK
<1>1. Init => TypeOK
  <2> SUFFICES ASSUME Init PROVE TypeOK
    OBVIOUS
  <2>1. subs \in Subscriptions /\ dSubs \in Subscriptions
    BY DEF Init, Subscriptions
  <2>2. pushed \in Views
    BY <2>1, NoOpTyped DEF Init, View, Views, States, activeSub, Settings, Subscriptions
  <2>3. QED
    BY <2>1, <2>2, NoOpTyped DEF Init, TypeOK, States, AddPcs
<1>2. TypeOK /\ [Next]_vars => TypeOK'
  BY TypeStep
<1>3. QED
  BY <1>1, <1>2, PTL DEF Spec

(*****************************************************************************)
(* What the daemon runs, stores and shows: the invariants of start, stop     *)
(* and restore and of settings changes.                                      *)
(*****************************************************************************)

\* What rollback leaves: the call's other locals, and one of four outcomes.
LEMMA RollbackEffect ==
    ASSUME TypeOK, NEW pc \in Pcs, rollback(pc)
    PROVE  /\ op'.pc = pc /\ op'.id = op.id /\ op'.profile = op.profile
           /\ op'.next = op.next /\ op'.runs = op.runs /\ op'.restored \in BOOLEAN
           /\ \/ state' = "stopped" /\ core' = NoConfig /\ ~op'.restored
              \/ /\ running /\ state' = state /\ op'.restored
                 /\ core' = runConfig(settings, profile)
              \/ running /\ UNCHANGED <<core, state>> /\ ~op'.restored
              \/ ~running /\ UNCHANGED <<core, state>> /\ op'.restored
<1>1. PICK out \in IF running THEN Outcomes(TRUE) ELSE {"ok"} :
              /\ reapply(out, runConfig(settings, profile))
              /\ op' = [op EXCEPT !.pc = pc, !.restored = (out = "ok")]
  BY DEF rollback
<1> DEFINE ok == out = "ok"
<1>2. ok \in BOOLEAN
  OBVIOUS
<1>3. op' = [op EXCEPT !.pc = pc, !.restored = ok]
  BY <1>1
<1> HIDE DEF ok
<1>4. /\ op'.pc = pc /\ op'.id = op.id /\ op'.profile = op.profile
      /\ op'.next = op.next /\ op'.runs = op.runs /\ op'.restored = ok
  BY <1>2, <1>3 DEF TypeOK, Ops
<1>5. CASE out = "ok"
  <2>1. ok
    BY <1>5 DEF ok
  <2>2. QED
    BY <1>1, <1>4, <1>5, <2>1 DEF reapply
<1>6. CASE out # "ok"
  <2>1. ~ok
    BY <1>6 DEF ok
  <2>2. QED
    BY <1>1, <1>4, <1>6, <2>1 DEF reapply, Outcomes
<1>7. QED
  BY <1>5, <1>6

\* What acceptContent leaves of what runs.
LEMMA AcceptEffect ==
    ASSUME NEW runs \in BOOLEAN, NEW out \in Outcomes(runs), NEW cfg,
           acceptContent(runs, out, cfg)
    PROVE  \/ out = "stopped" /\ state' = "stopped" /\ core' = NoConfig
           \/ out = "ok" /\ runs /\ running /\ core' = cfg /\ state' = state
           \/ /\ out = "failed" \/ ~runs \/ ~running
              /\ UNCHANGED <<core, state>>
BY DEF acceptContent, reapply

\* The core runs what the call in progress last gave it, step by step.
LEMMA CoreStep == TypeOK /\ CoreInv /\ [Next]_vars => CoreInv'
<1> SUFFICES ASSUME TypeOK, CoreInv, [Next]_vars PROVE CoreInv'
  OBVIOUS
<1> USE DEF CoreInv, memory, disk, history, Expected, NextRuns, ContentRuns, UsePcs, running, runConfig
<1>1. CASE StartRunning
  BY <1>1, NoOpTyped DEF StartRunning, Idle, Ops, TypeOK
<1>2. CASE Stop
  BY <1>2, NoOpTyped DEF Stop, Idle, Ops, TypeOK
<1>3. ASSUME NEW by \in Starters, StartRefused(by) PROVE CoreInv'
  BY <1>3, NoOpTyped DEF StartRefused, MayStart, Idle, StartFailed, Ops,
      TypeOK
<1>4. ASSUME NEW by \in Starters, StartLoaded(by) PROVE CoreInv'
  BY <1>4, NoOpTyped DEF StartLoaded, MayStart, Idle, Ops, TypeOK
<1>5. ASSUME NEW by \in Starters, StartUp(by) PROVE CoreInv'
  BY <1>5, NoOpTyped DEF StartUp, At, Goto, Release, runConfig, Ops, TypeOK
<1>6. ASSUME NEW by \in Starters, StartDown(by) PROVE CoreInv'
  BY <1>6, NoOpTyped DEF StartDown, At, StartFailed, Release, Ops, TypeOK
<1>7. ASSUME NEW on \in BOOLEAN, SaveRunning(on) PROVE CoreInv'
  <2>1. settings'.tailscale = settings.tailscale /\ settings'.choice = settings.choice
    BY <1>7 DEF SaveRunning, TypeOK, Settings
  <2>2. op'.pc = "idle" /\ op.pc \in {"saveOn", "saveOff"} /\ up'
    BY <1>7, NoOpTyped DEF SaveRunning, At, Release
  <2>3. UNCHANGED <<core, state, profile>>
    BY <1>7 DEF SaveRunning
  <2>4. QED
    BY <2>1, <2>2, <2>3
<1>8. ASSUME NEW on \in BOOLEAN, SaveRunningFails(on) PROVE CoreInv'
  BY <1>8, NoOpTyped DEF SaveRunningFails, At, Release, Ops, TypeOK
<1>9. ASSUME NEW next \in Settings, Apply(next) PROVE CoreInv'
  BY <1>9, NoOpTyped DEF Apply, Idle, Ops, TypeOK
<1>10. CASE HostOff
  BY <1>10, NoOpTyped DEF HostOff, At, Goto, Release, Ops, TypeOK
<1>11. CASE ApplyNew
  BY <1>11, NoOpTyped DEF ApplyNew, At, Goto, Release, reapply, Outcomes,
      runConfig, Ops, TypeOK
<1>12. CASE HostBack
  BY <1>12, NoOpTyped DEF HostBack, At, Release, Ops, TypeOK
<1>13. CASE HostOn
  BY <1>13, NoOpTyped DEF HostOn, At, Goto, Ops, TypeOK
<1>14. CASE SaveSettings
  BY <1>14, NoOpTyped DEF SaveSettings, At, Release, Ops, TypeOK
<1>15. CASE SaveSettingsFails
  BY <1>15, NoOpTyped DEF SaveSettingsFails, At, Goto, Ops, TypeOK
<1>16. CASE RevertOff
  BY <1>16, NoOpTyped DEF RevertOff, At, Goto, Ops, TypeOK
<1>17. CASE RevertCore
  <2>1. up /\ op.pc = "revertCore" /\ rollback("revertOn") /\ UNCHANGED <<up, settings, profile>>
    BY <1>17 DEF RevertCore, At
  <2>2. "revertOn" \in Pcs
    BY DEF Pcs
  <2>3. QED
    BY <2>1, <2>2, RollbackEffect
<1>18. CASE RevertOn
  BY <1>18, NoOpTyped DEF RevertOn, At, Goto, Release, Ops, TypeOK
<1>19. CASE KeepNext
  BY <1>19, NoOpTyped DEF KeepNext, At, Release, Ops, TypeOK
<1>20. ASSUME NEW id \in Ids, AddBegin(id) PROVE CoreInv'
  BY <1>20, NoOpTyped DEF AddBegin, Fresh, Taken, Ops, TypeOK
<1>21. CASE AddDownloadFails
  BY <1>21, NoOpTyped DEF AddDownloadFails, Ops, TypeOK
<1>22. CASE AddAccept
  <2>1. up /\ op.pc = "idle" /\ UNCHANGED <<up, settings, profile>>
    BY <1>22 DEF AddAccept, Got, Idle
  <2> DEFINE activate == subs.active = NoId
  <2>2. activate \in BOOLEAN
    OBVIOUS
  <2>3. PICK out \in Outcomes(activate) :
          /\ acceptContent(activate, out, runConfig(settings, dl.profile))
          /\ IF out = "ok"
             THEN op' = [NoOp EXCEPT !.pc = "addSnapshot", !.id = dl.id,
                                     !.profile = dl.profile, !.runs = activate]
             ELSE op' = NoOp
    BY <1>22 DEF AddAccept, ReleaseBoth
  <2> HIDE DEF activate
  <2>4. CASE out = "ok"
    <3>1. /\ op'.pc = "addSnapshot" /\ op'.profile = dl.profile /\ op'.runs = activate
      BY <2>2, <2>3, <2>4 DEF NoOp
    <3>2. QED
      BY <2>1, <2>2, <2>3, <2>4, <3>1, AcceptEffect
  <2>5. CASE out # "ok"
    BY <2>1, <2>2, <2>3, <2>5, AcceptEffect, NoOpTyped DEF Outcomes
  <2>6. QED
    BY <2>4, <2>5
<1>23. CASE AddSnapshot
  BY <1>23, NoOpTyped DEF AddSnapshot, At, Goto, Ops, TypeOK
<1>24. CASE AddSubs
  BY <1>24, NoOpTyped DEF AddSubs, At, ReleaseBoth, Ops, TypeOK
<1>25. CASE AddSubsFails
  BY <1>25, NoOpTyped DEF AddSubsFails, At, Goto, Ops, TypeOK
<1>26. CASE AddForget
  BY <1>26, NoOpTyped DEF AddForget, At, Goto, Ops, TypeOK
<1>27. CASE AddRevert
  <2>1. up /\ op.pc = "addRevert" /\ UNCHANGED <<up, settings, profile>>
    BY <1>27 DEF AddRevert, At
  <2>2. "addSettle" \in Pcs
    BY DEF Pcs
  <2>3. CASE op.runs /\ rollback("addSettle")
    BY <2>1, <2>2, <2>3, RollbackEffect
  <2>4. CASE ~op.runs /\ op' = [op EXCEPT !.pc = "addSettle", !.restored = TRUE]
               /\ UNCHANGED <<core, state>>
    <3>1. op'.pc = "addSettle" /\ op'.restored
      BY <2>4 DEF TypeOK, Ops
    <3>2. QED
      BY <2>1, <2>4, <3>1
  <2>5. QED
    BY <1>27, <2>3, <2>4 DEF AddRevert
<1>28. CASE AddSettle
  BY <1>28, NoOpTyped DEF AddSettle, At, ReleaseBoth, Ops, TypeOK
<1>29. ASSUME NEW id \in Ids, RefreshBegin(id) PROVE CoreInv'
  BY <1>29, NoOpTyped DEF RefreshBegin, Ops, TypeOK
<1>30. ASSUME NEW p \in Contents, Downloaded(p) PROVE CoreInv'
  BY <1>30, NoOpTyped DEF Downloaded, Ops, TypeOK
<1>31. CASE RefreshDownloadFails
  BY <1>31, NoOpTyped DEF RefreshDownloadFails, Idle, ReleaseBoth, Ops, TypeOK
<1>32. CASE RefreshGone
  BY <1>32, NoOpTyped DEF RefreshGone, Got, Idle, ReleaseBoth, Ops, TypeOK
<1>33. CASE RefreshAccept
  <2>1. up /\ op.pc = "idle" /\ UNCHANGED <<up, settings, profile>>
    BY <1>33 DEF RefreshAccept, Got, Idle
  <2> DEFINE active == subs.active = dl.id
  <2>2. active \in BOOLEAN
    OBVIOUS
  <2>3. PICK out \in Outcomes(active) :
          /\ acceptContent(active, out, runConfig(settings, dl.profile))
          /\ op' = [NoOp EXCEPT !.pc = IF out = "ok" THEN "refSnapshot" ELSE "refFailed",
                                !.id = dl.id, !.profile = dl.profile, !.runs = active]
    BY <1>33 DEF RefreshAccept
  <2> HIDE DEF active
  <2>4. /\ op'.pc = (IF out = "ok" THEN "refSnapshot" ELSE "refFailed")
        /\ op'.profile = dl.profile /\ op'.runs = active
    BY <2>2, <2>3 DEF NoOp
  <2>5. CASE out = "ok"
    BY <2>1, <2>2, <2>3, <2>4, <2>5, AcceptEffect
  <2>6. CASE out # "ok"
    BY <2>1, <2>2, <2>3, <2>4, <2>6, AcceptEffect DEF Outcomes
  <2>7. QED
    BY <2>5, <2>6
<1>34. CASE RefreshFailed
  BY <1>34, NoOpTyped DEF RefreshFailed, At, ReleaseBoth, Ops, TypeOK
<1>35. CASE RefreshSnapshot
  BY <1>35, NoOpTyped DEF RefreshSnapshot, At, Goto, Ops, TypeOK
<1>36. CASE RefreshSnapshotFails
  BY <1>36, NoOpTyped DEF RefreshSnapshotFails, At, Goto, ReleaseBoth, Ops,
      TypeOK
<1>37. CASE RefreshRevert
  BY <1>37, NoOpTyped DEF RefreshRevert, At, reapply, Outcomes, runConfig,
      ReleaseBoth, Ops, TypeOK
<1>38. CASE RefreshRecord
  BY <1>38, NoOpTyped DEF RefreshRecord, At, ReleaseBoth, Ops, TypeOK
<1>39. CASE RefreshRecordFails
  BY <1>39, NoOpTyped DEF RefreshRecordFails, At, ReleaseBoth, Ops, TypeOK
<1>40. ASSUME NEW id \in Ids, Activate(id) PROVE CoreInv'
  <2>1. up /\ op.pc = "idle" /\ UNCHANGED <<up, settings, profile>>
    BY <1>40 DEF Activate, Idle
  <2>2. PICK out \in Outcomes(TRUE) :
          /\ acceptContent(TRUE, out, runConfig(settings, snapshots[id]))
          /\ IF out = "ok"
             THEN op' = [NoOp EXCEPT !.pc = "useSave", !.id = id,
                                     !.profile = snapshots[id], !.runs = TRUE]
             ELSE op' = NoOp
    BY <1>40 DEF Activate, Release
  <2>3. CASE out = "ok"
    <3>1. op'.pc = "useSave" /\ op'.profile = snapshots[id] /\ op'.runs = TRUE
      BY <2>2, <2>3, NoOpTyped DEF Ops
    <3>2. QED
      BY <2>1, <2>2, <2>3, <3>1, AcceptEffect
  <2>4. CASE out # "ok"
    BY <2>1, <2>2, <2>4, AcceptEffect, NoOpTyped DEF Outcomes
  <2>5. QED
    BY <2>3, <2>4
<1>41. CASE ActivateSave
  BY <1>41, NoOpTyped DEF ActivateSave, At, Release, Ops, TypeOK
<1>42. CASE ActivateSaveFails
  BY <1>42, NoOpTyped DEF ActivateSaveFails, At, Goto, Ops, TypeOK
<1>43. CASE ActivateRevert
  <2>1. up /\ op.pc = "useRevert" /\ rollback("useSettle") /\ UNCHANGED <<up, settings, profile>>
    BY <1>43 DEF ActivateRevert, At
  <2>2. "useSettle" \in Pcs
    BY DEF Pcs
  <2>3. QED
    BY <2>1, <2>2, RollbackEffect
<1>44. CASE ActivateSettle
  BY <1>44, NoOpTyped DEF ActivateSettle, At, Release, Ops, TypeOK
<1>45. ASSUME NEW id \in Ids, RemoveFind(id) PROVE CoreInv'
  BY <1>45, NoOpTyped DEF RemoveFind, Ops, TypeOK
<1>46. ASSUME NEW id \in Ids, RemoveRefused(id) PROVE CoreInv'
  BY <1>46, NoOpTyped DEF RemoveRefused, Idle, Ops, TypeOK
<1>47. ASSUME NEW id \in Ids, Remove(id) PROVE CoreInv'
  <2>1. up /\ op.pc = "idle" /\ UNCHANGED <<up, settings, core, state>>
    BY <1>47 DEF Remove, Idle
  <2>2. op'.pc \in {"idle", "rmSnapshot"}
    BY <1>47, <2>1 DEF Remove, NoOp
  <2>3. running => profile' = profile
    BY <1>47 DEF Remove, InUse
  <2>4. QED
    BY <2>1, <2>2, <2>3
<1>48. CASE RemoveContent
  BY <1>48, NoOpTyped DEF RemoveContent, At, Release, Ops, TypeOK
<1>49. CASE Crash
  BY <1>49, NoOpTyped DEF Crash, Ops, TypeOK
<1>50. CASE Boot
  BY <1>50, NoOpTyped DEF Boot, Ops, TypeOK
<1>51. CASE BootFails
  BY <1>51, NoOpTyped DEF BootFails, Ops, TypeOK
<1>52. CASE UNCHANGED vars
  BY <1>52 DEF vars
<1>53. QED
  BY <1>1, <1>2, <1>3, <1>4, <1>5, <1>6, <1>7, <1>8, <1>9, <1>10, <1>11,
      <1>12, <1>13, <1>14, <1>15, <1>16, <1>17, <1>18, <1>19, <1>20, <1>21,
      <1>22, <1>23, <1>24, <1>25, <1>26, <1>27, <1>28, <1>29, <1>30, <1>31,
      <1>32, <1>33, <1>34, <1>35, <1>36, <1>37, <1>38, <1>39, <1>40, <1>41,
      <1>42, <1>43, <1>44, <1>45, <1>46, <1>47, <1>48, <1>49, <1>50, <1>51,
      <1>52 DEF Next, StartStop, Commit, Add, Refresh, UseRemove, Process

\* The inductive form of RunsWhatItShows: inside a call the core runs what the
\* call last gave it (reapply, acceptContent, rollback).
THEOREM CoreInvariant == Spec => []CoreInv
<1>1. Init => CoreInv
  BY NoOpTyped, InitFields DEF Init, CoreInv, NextRuns, running, UsePcs
<1>2. TypeOK /\ CoreInv /\ [Next]_vars => CoreInv'
  BY CoreStep
<1>4. QED
  BY <1>1, <1>2, TypeCorrect, PTL DEF Spec

\* Between calls the engine runs the config of the settings and the profile the
\* daemon shows, and nothing while it shows that it is stopped, whichever of the
\* applies, saves, syncs and rollbacks of the calls before failed.
THEOREM RunsShown == Spec => []RunsWhatItShows
<1>1. CoreInv => RunsWhatItShows
  BY DEF CoreInv, RunsWhatItShows, Idle, Expected, NextRuns, ContentRuns
<1>2. QED
  BY <1>1, CoreInvariant, PTL

\* Only a start that succeeds, a stop or the owner's start ends a restore.
LEMMA RestoreStep == TypeOK /\ CoreInv /\ RestoreInv /\ [Next]_vars => RestoreInv'
<1> SUFFICES ASSUME TypeOK, CoreInv, RestoreInv, [Next]_vars PROVE RestoreInv'
  OBVIOUS
<1> USE DEF RestoreInv, memory, disk, history, running
<1>1. CASE StartRunning
  BY <1>1, NoOpTyped DEF StartRunning, Idle, Ops, TypeOK
<1>2. CASE Stop
  BY <1>2, NoOpTyped DEF Stop, Idle, Ops, TypeOK
<1>3. ASSUME NEW by \in Starters, StartRefused(by) PROVE RestoreInv'
  <2>1. CASE by = "owner"
    BY <1>3, <2>1 DEF StartRefused, StartFailed
  <2>2. CASE by = "loop"
    BY <1>3, <2>2 DEF StartRefused, StartFailed
  <2>3. QED
    BY <2>1, <2>2 DEF Starters
<1>4. ASSUME NEW by \in Starters, StartLoaded(by) PROVE RestoreInv'
  BY <1>4, NoOpTyped DEF StartLoaded, MayStart, Idle, Ops, TypeOK
<1>5. ASSUME NEW by \in Starters, StartUp(by) PROVE RestoreInv'
  BY <1>5, NoOpTyped DEF StartUp, At, Goto, Release, Ops, TypeOK
<1>6. ASSUME NEW by \in Starters, StartDown(by) PROVE RestoreInv'
  <2>1. CASE by = "owner"
    BY <1>6, <2>1 DEF StartDown, StartFailed
  <2>2. CASE by = "loop"
    BY <1>6, <2>2 DEF StartDown, StartFailed
  <2>3. QED
    BY <2>1, <2>2 DEF Starters
<1>7. ASSUME NEW on \in BOOLEAN, SaveRunning(on) PROVE RestoreInv'
  BY <1>7, NoOpTyped DEF SaveRunning, At, Release, Ops, TypeOK
<1>8. ASSUME NEW on \in BOOLEAN, SaveRunningFails(on) PROVE RestoreInv'
  BY <1>8, NoOpTyped DEF SaveRunningFails, At, Release, Ops, TypeOK
<1>9. ASSUME NEW next \in Settings, Apply(next) PROVE RestoreInv'
  BY <1>9, NoOpTyped DEF Apply, Idle, Ops, TypeOK
<1>10. CASE HostOff
  BY <1>10, NoOpTyped DEF HostOff, At, Goto, Release, Ops, TypeOK
<1>11. CASE ApplyNew
  BY <1>11, NoOpTyped DEF ApplyNew, At, Goto, Release, reapply, Ops, TypeOK
<1>12. CASE HostBack
  BY <1>12, NoOpTyped DEF HostBack, At, Release, Ops, TypeOK
<1>13. CASE HostOn
  BY <1>13, NoOpTyped DEF HostOn, At, Goto, Ops, TypeOK
<1>14. CASE SaveSettings
  BY <1>14, NoOpTyped DEF SaveSettings, At, Release, Ops, TypeOK
<1>15. CASE SaveSettingsFails
  BY <1>15, NoOpTyped DEF SaveSettingsFails, At, Goto, Ops, TypeOK
<1>16. CASE RevertOff
  BY <1>16, NoOpTyped DEF RevertOff, At, Goto, Ops, TypeOK
<1>17. CASE RevertCore
  BY <1>17, NoOpTyped DEF RevertCore, At, rollback, reapply, Ops, TypeOK
<1>18. CASE RevertOn
  BY <1>18, NoOpTyped DEF RevertOn, At, Goto, Release, Ops, TypeOK
<1>19. CASE KeepNext
  BY <1>19, NoOpTyped DEF KeepNext, At, Release, Ops, TypeOK
<1>20. ASSUME NEW id \in Ids, AddBegin(id) PROVE RestoreInv'
  BY <1>20, NoOpTyped DEF AddBegin, Fresh, Taken, Ops, TypeOK
<1>21. CASE AddDownloadFails
  BY <1>21, NoOpTyped DEF AddDownloadFails, Ops, TypeOK
<1>22. CASE AddAccept
  BY <1>22, NoOpTyped DEF AddAccept, Got, Idle, acceptContent, reapply,
      ReleaseBoth, Ops, TypeOK
<1>23. CASE AddSnapshot
  BY <1>23, NoOpTyped DEF AddSnapshot, At, Goto, Ops, TypeOK
<1>24. CASE AddSubs
  BY <1>24, NoOpTyped DEF AddSubs, At, ReleaseBoth, Ops, TypeOK
<1>25. CASE AddSubsFails
  BY <1>25, NoOpTyped DEF AddSubsFails, At, Goto, Ops, TypeOK
<1>26. CASE AddForget
  BY <1>26, NoOpTyped DEF AddForget, At, Goto, Ops, TypeOK
<1>27. CASE AddRevert
  BY <1>27, NoOpTyped DEF AddRevert, At, rollback, reapply, Ops, TypeOK
<1>28. CASE AddSettle
  BY <1>28, NoOpTyped DEF AddSettle, At, ReleaseBoth, Ops, TypeOK
<1>29. ASSUME NEW id \in Ids, RefreshBegin(id) PROVE RestoreInv'
  BY <1>29, NoOpTyped DEF RefreshBegin, Ops, TypeOK
<1>30. ASSUME NEW p \in Contents, Downloaded(p) PROVE RestoreInv'
  BY <1>30, NoOpTyped DEF Downloaded, Ops, TypeOK
<1>31. CASE RefreshDownloadFails
  BY <1>31, NoOpTyped DEF RefreshDownloadFails, Idle, ReleaseBoth, Ops, TypeOK
<1>32. CASE RefreshGone
  BY <1>32, NoOpTyped DEF RefreshGone, Got, Idle, ReleaseBoth, Ops, TypeOK
<1>33. CASE RefreshAccept
  BY <1>33, NoOpTyped DEF RefreshAccept, Got, Idle, acceptContent, reapply,
      Ops, TypeOK
<1>34. CASE RefreshFailed
  BY <1>34, NoOpTyped DEF RefreshFailed, At, ReleaseBoth, Ops, TypeOK
<1>35. CASE RefreshSnapshot
  BY <1>35, NoOpTyped DEF RefreshSnapshot, At, Goto, Ops, TypeOK
<1>36. CASE RefreshSnapshotFails
  BY <1>36, NoOpTyped DEF RefreshSnapshotFails, At, Goto, ReleaseBoth, Ops,
      TypeOK
<1>37. CASE RefreshRevert
  BY <1>37, NoOpTyped DEF RefreshRevert, At, reapply, ReleaseBoth, Ops, TypeOK
<1>38. CASE RefreshRecord
  BY <1>38, NoOpTyped DEF RefreshRecord, At, ReleaseBoth, Ops, TypeOK
<1>39. CASE RefreshRecordFails
  BY <1>39, NoOpTyped DEF RefreshRecordFails, At, ReleaseBoth, Ops, TypeOK
<1>40. ASSUME NEW id \in Ids, Activate(id) PROVE RestoreInv'
  BY <1>40, NoOpTyped DEF Activate, Idle, acceptContent, reapply, Release,
      Ops, TypeOK
<1>41. CASE ActivateSave
  BY <1>41, NoOpTyped DEF ActivateSave, At, Release, Ops, TypeOK
<1>42. CASE ActivateSaveFails
  BY <1>42, NoOpTyped DEF ActivateSaveFails, At, Goto, Ops, TypeOK
<1>43. CASE ActivateRevert
  BY <1>43, NoOpTyped DEF ActivateRevert, At, rollback, reapply, Ops, TypeOK
<1>44. CASE ActivateSettle
  BY <1>44, NoOpTyped DEF ActivateSettle, At, Release, Ops, TypeOK
<1>45. ASSUME NEW id \in Ids, RemoveFind(id) PROVE RestoreInv'
  BY <1>45, NoOpTyped DEF RemoveFind, Ops, TypeOK
<1>46. ASSUME NEW id \in Ids, RemoveRefused(id) PROVE RestoreInv'
  BY <1>46, NoOpTyped DEF RemoveRefused, Idle, Ops, TypeOK
<1>47. ASSUME NEW id \in Ids, Remove(id) PROVE RestoreInv'
  BY <1>47, NoOpTyped DEF Remove, Idle, Ops, TypeOK
<1>48. CASE RemoveContent
  BY <1>48, NoOpTyped DEF RemoveContent, At, Release, Ops, TypeOK
<1>49. CASE Crash
  BY <1>49, NoOpTyped DEF Crash, Ops, TypeOK
<1>50. CASE Boot
  <2>1. state' = "stopped"
    BY <1>50 DEF Boot, CoreInv
  <2>2. CASE settings.running
    BY <1>50, <2>1, <2>2 DEF Boot
  <2>3. CASE ~settings.running
    BY <1>50, <2>1, <2>3 DEF Boot
  <2>4. QED
    BY <2>2, <2>3
<1>51. CASE BootFails
  BY <1>51, NoOpTyped DEF BootFails, Ops, TypeOK
<1>52. CASE UNCHANGED vars
  BY <1>52 DEF vars
<1>53. QED
  BY <1>1, <1>2, <1>3, <1>4, <1>5, <1>6, <1>7, <1>8, <1>9, <1>10, <1>11,
      <1>12, <1>13, <1>14, <1>15, <1>16, <1>17, <1>18, <1>19, <1>20, <1>21,
      <1>22, <1>23, <1>24, <1>25, <1>26, <1>27, <1>28, <1>29, <1>30, <1>31,
      <1>32, <1>33, <1>34, <1>35, <1>36, <1>37, <1>38, <1>39, <1>40, <1>41,
      <1>42, <1>43, <1>44, <1>45, <1>46, <1>47, <1>48, <1>49, <1>50, <1>51,
      <1>52 DEF Next, StartStop, Commit, Add, Refresh, UseRemove, Process

\* A proxy that was on before the daemon restarted stays due a retry until it
\* comes up, or the owner starts or stops it (startLocked, retryRestore).
THEOREM RestoreRetried == Spec => []RetriedUntilUp
<1>1. Init => RestoreInv
  BY NoOpTyped, InitFields DEF Init, RestoreInv
<1>2. TypeOK /\ CoreInv /\ RestoreInv /\ [Next]_vars => RestoreInv'
  BY RestoreStep
<1>3. RestoreInv => RetriedUntilUp
  BY DEF RestoreInv, RetriedUntilUp, Idle
<1>4. QED
  BY <1>1, <1>2, <1>3, TypeCorrect, CoreInvariant, PTL DEF Spec

\* Running is a Boolean in the memory, on disk and in a settings change.
LEMMA AckedFields ==
    TypeOK => /\ op.next.running \in BOOLEAN /\ settings.running \in BOOLEAN
              /\ dSettings.running \in BOOLEAN
BY DEF TypeOK, Settings, Ops

\* saveRunning and saveSettings write what the memory will hold, in every step.
LEMMA AckedStep == TypeOK /\ AckedInv /\ [Next]_vars => AckedInv'
<1> SUFFICES ASSUME TypeOK, AckedInv, [Next]_vars PROVE AckedInv'
  OBVIOUS
<1> USE DEF AckedInv, memory, disk, history, AckedIsStored, ApplyPcs
<1>1. CASE StartRunning
  BY <1>1, NoOpTyped, AckedFields DEF StartRunning, Idle, Ops, TypeOK
<1>2. CASE Stop
  BY <1>2, NoOpTyped, AckedFields DEF Stop, Idle, Ops, TypeOK
<1>3. ASSUME NEW by \in Starters, StartRefused(by) PROVE AckedInv'
  BY <1>3, NoOpTyped, AckedFields DEF StartRefused, MayStart, Idle,
      StartFailed, Ops, TypeOK
<1>4. ASSUME NEW by \in Starters, StartLoaded(by) PROVE AckedInv'
  BY <1>4, NoOpTyped, AckedFields DEF StartLoaded, MayStart, Idle, Ops, TypeOK
<1>5. ASSUME NEW by \in Starters, StartUp(by) PROVE AckedInv'
  BY <1>5, NoOpTyped, AckedFields DEF StartUp, At, Goto, Release, Ops, TypeOK
<1>6. ASSUME NEW by \in Starters, StartDown(by) PROVE AckedInv'
  BY <1>6, NoOpTyped, AckedFields DEF StartDown, At, StartFailed, Release,
      Ops, TypeOK
<1>7. ASSUME NEW on \in BOOLEAN, SaveRunning(on) PROVE AckedInv'
  <2>1. settings'.running = on /\ dSettings'.running = on
    <3>1. CASE settings.running = on
      BY <1>7, <3>1 DEF SaveRunning
    <3>2. CASE settings.running # on
      <4>1. settings' = [settings EXCEPT !.running = on] /\ dSettings' = settings'
        BY <1>7, <3>2 DEF SaveRunning
      <4>2. QED
        BY <4>1 DEF TypeOK, Settings
    <3>3. QED
      BY <3>1, <3>2
  <2>2. op'.pc = "idle" /\ acked' = IF on THEN "on" ELSE "off"
    BY <1>7, NoOpTyped DEF SaveRunning, Release
  <2>3. QED
    BY <2>1, <2>2
<1>8. ASSUME NEW on \in BOOLEAN, SaveRunningFails(on) PROVE AckedInv'
  BY <1>8, NoOpTyped, AckedFields DEF SaveRunningFails, At, Release, Ops,
      TypeOK
<1>9. ASSUME NEW next \in Settings, Apply(next) PROVE AckedInv'
  BY <1>9, NoOpTyped, AckedFields DEF Apply, Idle, Ops, TypeOK
<1>10. CASE HostOff
  BY <1>10, NoOpTyped, AckedFields DEF HostOff, At, Goto, Release, Ops, TypeOK
<1>11. CASE ApplyNew
  BY <1>11, NoOpTyped, AckedFields DEF ApplyNew, At, Goto, Release, Ops,
      TypeOK
<1>12. CASE HostBack
  BY <1>12, NoOpTyped, AckedFields DEF HostBack, At, Release, Ops, TypeOK
<1>13. CASE HostOn
  BY <1>13, NoOpTyped, AckedFields DEF HostOn, At, Goto, Ops, TypeOK
<1>14. CASE SaveSettings
  BY <1>14, NoOpTyped, AckedFields DEF SaveSettings, At, Release, Ops, TypeOK
<1>15. CASE SaveSettingsFails
  BY <1>15, NoOpTyped, AckedFields DEF SaveSettingsFails, At, Goto, Ops,
      TypeOK
<1>16. CASE RevertOff
  BY <1>16, NoOpTyped, AckedFields DEF RevertOff, At, Goto, Ops, TypeOK
<1>17. CASE RevertCore
  BY <1>17, NoOpTyped, AckedFields DEF RevertCore, At, rollback, Ops, TypeOK
<1>18. CASE RevertOn
  BY <1>18, NoOpTyped, AckedFields DEF RevertOn, At, Goto, Release, Ops,
      TypeOK
<1>19. CASE KeepNext
  BY <1>19, NoOpTyped, AckedFields DEF KeepNext, At, Release, Ops, TypeOK
<1>20. ASSUME NEW id \in Ids, AddBegin(id) PROVE AckedInv'
  BY <1>20, NoOpTyped, AckedFields DEF AddBegin, Fresh, Taken, Ops, TypeOK
<1>21. CASE AddDownloadFails
  BY <1>21, NoOpTyped, AckedFields DEF AddDownloadFails, Ops, TypeOK
<1>22. CASE AddAccept
  BY <1>22, NoOpTyped, AckedFields DEF AddAccept, Got, Idle, ReleaseBoth, Ops,
      TypeOK
<1>23. CASE AddSnapshot
  BY <1>23, NoOpTyped, AckedFields DEF AddSnapshot, At, Goto, Ops, TypeOK
<1>24. CASE AddSubs
  BY <1>24, NoOpTyped, AckedFields DEF AddSubs, At, ReleaseBoth, Ops, TypeOK
<1>25. CASE AddSubsFails
  BY <1>25, NoOpTyped, AckedFields DEF AddSubsFails, At, Goto, Ops, TypeOK
<1>26. CASE AddForget
  BY <1>26, NoOpTyped, AckedFields DEF AddForget, At, Goto, Ops, TypeOK
<1>27. CASE AddRevert
  BY <1>27, NoOpTyped, AckedFields DEF AddRevert, At, rollback, Ops, TypeOK
<1>28. CASE AddSettle
  BY <1>28, NoOpTyped, AckedFields DEF AddSettle, At, ReleaseBoth, Ops, TypeOK
<1>29. ASSUME NEW id \in Ids, RefreshBegin(id) PROVE AckedInv'
  BY <1>29, NoOpTyped, AckedFields DEF RefreshBegin, Ops, TypeOK
<1>30. ASSUME NEW p \in Contents, Downloaded(p) PROVE AckedInv'
  BY <1>30, NoOpTyped, AckedFields DEF Downloaded, Ops, TypeOK
<1>31. CASE RefreshDownloadFails
  BY <1>31, NoOpTyped, AckedFields DEF RefreshDownloadFails, Idle,
      ReleaseBoth, Ops, TypeOK
<1>32. CASE RefreshGone
  BY <1>32, NoOpTyped, AckedFields DEF RefreshGone, Got, Idle, ReleaseBoth,
      Ops, TypeOK
<1>33. CASE RefreshAccept
  BY <1>33, NoOpTyped, AckedFields DEF RefreshAccept, Got, Idle, Ops, TypeOK
<1>34. CASE RefreshFailed
  BY <1>34, NoOpTyped, AckedFields DEF RefreshFailed, At, ReleaseBoth, Ops,
      TypeOK
<1>35. CASE RefreshSnapshot
  BY <1>35, NoOpTyped, AckedFields DEF RefreshSnapshot, At, Goto, Ops, TypeOK
<1>36. CASE RefreshSnapshotFails
  BY <1>36, NoOpTyped, AckedFields DEF RefreshSnapshotFails, At, Goto,
      ReleaseBoth, Ops, TypeOK
<1>37. CASE RefreshRevert
  BY <1>37, NoOpTyped, AckedFields DEF RefreshRevert, At, ReleaseBoth, Ops,
      TypeOK
<1>38. CASE RefreshRecord
  BY <1>38, NoOpTyped, AckedFields DEF RefreshRecord, At, ReleaseBoth, Ops,
      TypeOK
<1>39. CASE RefreshRecordFails
  BY <1>39, NoOpTyped, AckedFields DEF RefreshRecordFails, At, ReleaseBoth,
      Ops, TypeOK
<1>40. ASSUME NEW id \in Ids, Activate(id) PROVE AckedInv'
  BY <1>40, NoOpTyped, AckedFields DEF Activate, Idle, Release, Ops, TypeOK
<1>41. CASE ActivateSave
  BY <1>41, NoOpTyped, AckedFields DEF ActivateSave, At, Release, Ops, TypeOK
<1>42. CASE ActivateSaveFails
  BY <1>42, NoOpTyped, AckedFields DEF ActivateSaveFails, At, Goto, Ops,
      TypeOK
<1>43. CASE ActivateRevert
  BY <1>43, NoOpTyped, AckedFields DEF ActivateRevert, At, rollback, Ops,
      TypeOK
<1>44. CASE ActivateSettle
  BY <1>44, NoOpTyped, AckedFields DEF ActivateSettle, At, Release, Ops,
      TypeOK
<1>45. ASSUME NEW id \in Ids, RemoveFind(id) PROVE AckedInv'
  BY <1>45, NoOpTyped, AckedFields DEF RemoveFind, Ops, TypeOK
<1>46. ASSUME NEW id \in Ids, RemoveRefused(id) PROVE AckedInv'
  BY <1>46, NoOpTyped, AckedFields DEF RemoveRefused, Idle, Ops, TypeOK
<1>47. ASSUME NEW id \in Ids, Remove(id) PROVE AckedInv'
  BY <1>47, NoOpTyped, AckedFields DEF Remove, Idle, Ops, TypeOK
<1>48. CASE RemoveContent
  BY <1>48, NoOpTyped, AckedFields DEF RemoveContent, At, Release, Ops, TypeOK
<1>49. CASE Crash
  BY <1>49, NoOpTyped, AckedFields DEF Crash, Ops, TypeOK
<1>50. CASE Boot
  BY <1>50, NoOpTyped, AckedFields DEF Boot, Ops, TypeOK
<1>51. CASE BootFails
  BY <1>51, NoOpTyped, AckedFields DEF BootFails, Ops, TypeOK
<1>52. CASE UNCHANGED vars
  BY <1>52 DEF vars
<1>53. QED
  BY <1>1, <1>2, <1>3, <1>4, <1>5, <1>6, <1>7, <1>8, <1>9, <1>10, <1>11,
      <1>12, <1>13, <1>14, <1>15, <1>16, <1>17, <1>18, <1>19, <1>20, <1>21,
      <1>22, <1>23, <1>24, <1>25, <1>26, <1>27, <1>28, <1>29, <1>30, <1>31,
      <1>32, <1>33, <1>34, <1>35, <1>36, <1>37, <1>38, <1>39, <1>40, <1>41,
      <1>42, <1>43, <1>44, <1>45, <1>46, <1>47, <1>48, <1>49, <1>50, <1>51,
      <1>52 DEF Next, StartStop, Commit, Add, Refresh, UseRemove, Process

\* A start or stop answered without an error is what settings.json says until
\* the next one (saveRunning, saveSettings).
THEOREM AcksStored == Spec => []AckedIsStored
<1>1. Init => AckedInv
  BY NoOpTyped, InitFields DEF Init, AckedInv, AckedIsStored, ApplyPcs
<1>2. TypeOK /\ AckedInv /\ [Next]_vars => AckedInv'
  BY AckedStep
<1>3. AckedInv => AckedIsStored
  BY DEF AckedInv, AckedIsStored
<1>4. QED
  BY <1>1, <1>2, <1>3, TypeCorrect, PTL DEF Spec

\* The steps of commitSettings, in whatever order they fail, keep the drop-in at HostNow.
LEMMA HostStep == TypeOK /\ HostInv /\ [Next]_vars => HostInv'
<1> SUFFICES ASSUME TypeOK, HostInv, [Next]_vars PROVE HostInv'
  OBVIOUS
<1> USE DEF HostInv, memory, disk, history, HostNow, TurnsOn, TurnsOff
<1>1. CASE StartRunning
  BY <1>1, NoOpTyped, FieldsTyped DEF StartRunning, Idle, Ops, TypeOK
<1>2. CASE Stop
  BY <1>2, NoOpTyped, FieldsTyped DEF Stop, Idle, Ops, TypeOK
<1>3. ASSUME NEW by \in Starters, StartRefused(by) PROVE HostInv'
  BY <1>3, NoOpTyped, FieldsTyped DEF StartRefused, MayStart, Idle,
      StartFailed, Ops, TypeOK
<1>4. ASSUME NEW by \in Starters, StartLoaded(by) PROVE HostInv'
  BY <1>4, NoOpTyped, FieldsTyped DEF StartLoaded, MayStart, Idle, Ops, TypeOK
<1>5. ASSUME NEW by \in Starters, StartUp(by) PROVE HostInv'
  BY <1>5, NoOpTyped, FieldsTyped DEF StartUp, At, Goto, Release, Ops, TypeOK
<1>6. ASSUME NEW by \in Starters, StartDown(by) PROVE HostInv'
  BY <1>6, NoOpTyped, FieldsTyped DEF StartDown, At, StartFailed, Release,
      Ops, TypeOK
<1>7. ASSUME NEW on \in BOOLEAN, SaveRunning(on) PROVE HostInv'
  <2>1. settings'.tailscale = settings.tailscale
    BY <1>7 DEF SaveRunning, TypeOK, Settings
  <2>2. op'.pc = "idle" /\ op.pc \in {"saveOn", "saveOff"}
    BY <1>7, NoOpTyped DEF SaveRunning, At, Release
  <2>3. UNCHANGED <<up, host, hostOk>>
    BY <1>7 DEF SaveRunning
  <2>4. QED
    BY <1>7, <2>1, <2>2, <2>3 DEF SaveRunning, At
<1>8. ASSUME NEW on \in BOOLEAN, SaveRunningFails(on) PROVE HostInv'
  BY <1>8, NoOpTyped, FieldsTyped DEF SaveRunningFails, At, Release, Ops,
      TypeOK
<1>9. ASSUME NEW next \in Settings, Apply(next) PROVE HostInv'
  BY <1>9, NoOpTyped, FieldsTyped DEF Apply, Idle, Ops, TypeOK
<1>10. CASE HostOff
  <2>1. settings.tailscale /\ ~op.next.tailscale /\ UNCHANGED <<up, settings>> /\ up
    BY <1>10 DEF HostOff, At
  <2>2. PICK ok \in BOOLEAN : /\ syncHost(FALSE, ok)
                             /\ IF ok THEN Goto("applyNew") ELSE Release
    BY <1>10 DEF HostOff
  <2>3. CASE ok
    <3>1. op'.pc = "applyNew" /\ op'.next = op.next
      BY <2>2, <2>3 DEF Goto, TypeOK, Ops
    <3>2. QED
      BY <2>1, <2>2, <2>3, <3>1 DEF syncHost
  <2>4. CASE ~ok
    BY <2>1, <2>2, <2>4, NoOpTyped DEF Release, syncHost
  <2>5. QED
    BY <2>3, <2>4
<1>11. CASE ApplyNew
  BY <1>11, NoOpTyped, FieldsTyped DEF ApplyNew, At, Goto, Release, Ops,
      TypeOK
<1>12. CASE HostBack
  BY <1>12, NoOpTyped, FieldsTyped DEF HostBack, At, Release, syncHost, Ops,
      TypeOK
<1>13. CASE HostOn
  <2>1. ~settings.tailscale /\ op.next.tailscale /\ UNCHANGED <<up, settings>> /\ up
    BY <1>13 DEF HostOn, At
  <2>2. PICK ok \in BOOLEAN : /\ syncHost(TRUE, ok)
                             /\ Goto(IF ok THEN "saveSettings" ELSE "revertOff")
    BY <1>13 DEF HostOn
  <2>3. op'.pc = (IF ok THEN "saveSettings" ELSE "revertOff") /\ op'.next = op.next
    BY <2>2 DEF Goto, TypeOK, Ops
  <2>4. CASE ok
    BY <2>1, <2>2, <2>3, <2>4 DEF syncHost
  <2>5. CASE ~ok
    BY <2>1, <2>2, <2>3, <2>5 DEF syncHost
  <2>6. QED
    BY <2>4, <2>5
<1>14. CASE SaveSettings
  BY <1>14, NoOpTyped, FieldsTyped DEF SaveSettings, At, Release, Ops, TypeOK
<1>15. CASE SaveSettingsFails
  BY <1>15, NoOpTyped, FieldsTyped DEF SaveSettingsFails, At, Goto, Ops,
      TypeOK
<1>16. CASE RevertOff
  BY <1>16, NoOpTyped, FieldsTyped DEF RevertOff, At, Goto, syncHost, Ops,
      TypeOK
<1>17. CASE RevertCore
  BY <1>17, NoOpTyped, FieldsTyped DEF RevertCore, At, rollback, Ops, TypeOK
<1>18. CASE RevertOn
  <2>1. up /\ UNCHANGED <<up, settings>> /\ op.pc = "revertOn"
    BY <1>18 DEF RevertOn, At
  <2>2. op'.pc \in {"idle", "keepNext"}
    BY <1>18, NoOpTyped DEF RevertOn, Release, Goto, TypeOK, Ops
  <2>3. hostOk' => host' = settings.tailscale
    <3>1. CASE TurnsOff
      BY <1>18, <3>1 DEF RevertOn, syncHost
    <3>2. CASE ~TurnsOff
      <4>1. hostOk => host = (settings.tailscale /\ op.next.tailscale)
        BY <2>1
      <4>2. QED
        BY <1>18, <3>2, <4>1, FieldsTyped DEF RevertOn
    <3>3. QED
      BY <3>1, <3>2
  <2>4. QED
    BY <2>1, <2>2, <2>3
<1>19. CASE KeepNext
  BY <1>19, NoOpTyped, FieldsTyped DEF KeepNext, At, Release, syncHost, Ops,
      TypeOK
<1>20. ASSUME NEW id \in Ids, AddBegin(id) PROVE HostInv'
  BY <1>20, NoOpTyped, FieldsTyped DEF AddBegin, Fresh, Taken, Ops, TypeOK
<1>21. CASE AddDownloadFails
  BY <1>21, NoOpTyped, FieldsTyped DEF AddDownloadFails, Ops, TypeOK
<1>22. CASE AddAccept
  BY <1>22, NoOpTyped, FieldsTyped DEF AddAccept, Got, Idle, acceptContent,
      ReleaseBoth, Ops, TypeOK
<1>23. CASE AddSnapshot
  BY <1>23, NoOpTyped, FieldsTyped DEF AddSnapshot, At, Goto, Ops, TypeOK
<1>24. CASE AddSubs
  BY <1>24, NoOpTyped, FieldsTyped DEF AddSubs, At, ReleaseBoth, Ops, TypeOK
<1>25. CASE AddSubsFails
  BY <1>25, NoOpTyped, FieldsTyped DEF AddSubsFails, At, Goto, Ops, TypeOK
<1>26. CASE AddForget
  BY <1>26, NoOpTyped, FieldsTyped DEF AddForget, At, Goto, Ops, TypeOK
<1>27. CASE AddRevert
  BY <1>27, NoOpTyped, FieldsTyped DEF AddRevert, At, rollback, Ops, TypeOK
<1>28. CASE AddSettle
  BY <1>28, NoOpTyped, FieldsTyped DEF AddSettle, At, ReleaseBoth, Ops, TypeOK
<1>29. ASSUME NEW id \in Ids, RefreshBegin(id) PROVE HostInv'
  BY <1>29, NoOpTyped, FieldsTyped DEF RefreshBegin, Ops, TypeOK
<1>30. ASSUME NEW p \in Contents, Downloaded(p) PROVE HostInv'
  BY <1>30, NoOpTyped, FieldsTyped DEF Downloaded, Ops, TypeOK
<1>31. CASE RefreshDownloadFails
  BY <1>31, NoOpTyped, FieldsTyped DEF RefreshDownloadFails, Idle,
      ReleaseBoth, Ops, TypeOK
<1>32. CASE RefreshGone
  BY <1>32, NoOpTyped, FieldsTyped DEF RefreshGone, Got, Idle, ReleaseBoth,
      Ops, TypeOK
<1>33. CASE RefreshAccept
  BY <1>33, NoOpTyped, FieldsTyped DEF RefreshAccept, Got, Idle,
      acceptContent, Ops, TypeOK
<1>34. CASE RefreshFailed
  BY <1>34, NoOpTyped, FieldsTyped DEF RefreshFailed, At, ReleaseBoth, Ops,
      TypeOK
<1>35. CASE RefreshSnapshot
  BY <1>35, NoOpTyped, FieldsTyped DEF RefreshSnapshot, At, Goto, Ops, TypeOK
<1>36. CASE RefreshSnapshotFails
  BY <1>36, NoOpTyped, FieldsTyped DEF RefreshSnapshotFails, At, Goto,
      ReleaseBoth, Ops, TypeOK
<1>37. CASE RefreshRevert
  BY <1>37, NoOpTyped, FieldsTyped DEF RefreshRevert, At, ReleaseBoth, Ops,
      TypeOK
<1>38. CASE RefreshRecord
  BY <1>38, NoOpTyped, FieldsTyped DEF RefreshRecord, At, ReleaseBoth, Ops,
      TypeOK
<1>39. CASE RefreshRecordFails
  BY <1>39, NoOpTyped, FieldsTyped DEF RefreshRecordFails, At, ReleaseBoth,
      Ops, TypeOK
<1>40. ASSUME NEW id \in Ids, Activate(id) PROVE HostInv'
  BY <1>40, NoOpTyped, FieldsTyped DEF Activate, Idle, acceptContent, Release,
      Ops, TypeOK
<1>41. CASE ActivateSave
  BY <1>41, NoOpTyped, FieldsTyped DEF ActivateSave, At, Release, Ops, TypeOK
<1>42. CASE ActivateSaveFails
  BY <1>42, NoOpTyped, FieldsTyped DEF ActivateSaveFails, At, Goto, Ops,
      TypeOK
<1>43. CASE ActivateRevert
  BY <1>43, NoOpTyped, FieldsTyped DEF ActivateRevert, At, rollback, Ops,
      TypeOK
<1>44. CASE ActivateSettle
  BY <1>44, NoOpTyped, FieldsTyped DEF ActivateSettle, At, Release, Ops,
      TypeOK
<1>45. ASSUME NEW id \in Ids, RemoveFind(id) PROVE HostInv'
  BY <1>45, NoOpTyped, FieldsTyped DEF RemoveFind, Ops, TypeOK
<1>46. ASSUME NEW id \in Ids, RemoveRefused(id) PROVE HostInv'
  BY <1>46, NoOpTyped, FieldsTyped DEF RemoveRefused, Idle, Ops, TypeOK
<1>47. ASSUME NEW id \in Ids, Remove(id) PROVE HostInv'
  BY <1>47, NoOpTyped, FieldsTyped DEF Remove, Idle, Ops, TypeOK
<1>48. CASE RemoveContent
  BY <1>48, NoOpTyped, FieldsTyped DEF RemoveContent, At, Release, Ops, TypeOK
<1>49. CASE Crash
  BY <1>49, NoOpTyped, FieldsTyped DEF Crash, Ops, TypeOK
<1>50. CASE Boot
  <2>1. up' /\ op' = NoOp /\ settings' = dSettings /\ host' = dSettings.tailscale
    BY <1>50 DEF Boot, syncHost
  <2>2. QED
    BY <2>1, NoOpTyped
<1>51. CASE BootFails
  BY <1>51, NoOpTyped, FieldsTyped DEF BootFails, syncHost, Ops, TypeOK
<1>52. CASE UNCHANGED vars
  BY <1>52 DEF vars
<1>53. QED
  BY <1>1, <1>2, <1>3, <1>4, <1>5, <1>6, <1>7, <1>8, <1>9, <1>10, <1>11,
      <1>12, <1>13, <1>14, <1>15, <1>16, <1>17, <1>18, <1>19, <1>20, <1>21,
      <1>22, <1>23, <1>24, <1>25, <1>26, <1>27, <1>28, <1>29, <1>30, <1>31,
      <1>32, <1>33, <1>34, <1>35, <1>36, <1>37, <1>38, <1>39, <1>40, <1>41,
      <1>42, <1>43, <1>44, <1>45, <1>46, <1>47, <1>48, <1>49, <1>50, <1>51,
      <1>52 DEF Next, StartStop, Commit, Add, Refresh, UseRemove, Process

\* Between calls the drop-in is what the settings say unless its own last sync
\* failed, whatever else of commitSettings failed or was reverted.
THEOREM HostFollows == Spec => []HostFollowsSettings
<1>1. Init => HostInv
  BY NoOpTyped, InitFields DEF Init, HostInv, TurnsOn, TurnsOff
<1>2. TypeOK /\ HostInv /\ [Next]_vars => HostInv'
  BY HostStep
<1>3. HostInv => HostFollowsSettings
  BY DEF HostInv, HostFollowsSettings, Idle, HostNow
<1>4. QED
  BY <1>1, <1>2, <1>3, TypeCorrect, PTL DEF Spec

\* The fields of what a push shows, before and after a step.
LEMMA ViewFields ==
    /\ View.state = state /\ View.active = activeSub /\ View.list = subs.list
    /\ View'.state = state' /\ View'.active = activeSub' /\ View'.list = subs'.list
BY DEF View

\* The same of what is pushed when an Apply left the core stopped.
LEMMA StoppedFields ==
    LET v == [View EXCEPT !.state = "stopped"]
    IN  v.state = "stopped" /\ v.active = activeSub /\ v.list = subs.list
BY DEF View

\* Only a change of the subscriptions changes the active one.
LEMMA ActiveSame == subs' = subs => activeSub' = activeSub
BY DEF activeSub

\* Every step that changes what the status shows pushes it, a removal's first step apart.
LEMMA PushedStep == TypeOK /\ PushedInv /\ [Next]_vars => PushedInv'
<1> SUFFICES ASSUME TypeOK, PushedInv, [Next]_vars PROVE PushedInv'
  OBVIOUS
<1> USE DEF PushedInv, memory, disk, history
<1>1. CASE StartRunning
  BY <1>1, NoOpTyped, ViewFields, StoppedFields, ActiveSame DEF StartRunning,
      Idle, Ops, TypeOK, publish
<1>2. CASE Stop
  BY <1>2, NoOpTyped, ViewFields, StoppedFields, ActiveSame DEF Stop, Idle,
      Ops, TypeOK, publish
<1>3. ASSUME NEW by \in Starters, StartRefused(by) PROVE PushedInv'
  BY <1>3, NoOpTyped, ViewFields, StoppedFields, ActiveSame DEF StartRefused,
      MayStart, Idle, StartFailed, Ops, TypeOK, publish
<1>4. ASSUME NEW by \in Starters, StartLoaded(by) PROVE PushedInv'
  BY <1>4, NoOpTyped, ViewFields, StoppedFields, ActiveSame DEF StartLoaded,
      MayStart, Idle, Ops, TypeOK, publish
<1>5. ASSUME NEW by \in Starters, StartUp(by) PROVE PushedInv'
  BY <1>5, NoOpTyped, ViewFields, StoppedFields, ActiveSame DEF StartUp, At,
      Goto, Release, Ops, TypeOK, publish
<1>6. ASSUME NEW by \in Starters, StartDown(by) PROVE PushedInv'
  BY <1>6, NoOpTyped, ViewFields, StoppedFields, ActiveSame DEF StartDown, At,
      StartFailed, Release, Ops, TypeOK, publish
<1>7. ASSUME NEW on \in BOOLEAN, SaveRunning(on) PROVE PushedInv'
  BY <1>7, NoOpTyped, ViewFields, StoppedFields, ActiveSame DEF SaveRunning,
      At, Release, Ops, TypeOK, publish
<1>8. ASSUME NEW on \in BOOLEAN, SaveRunningFails(on) PROVE PushedInv'
  BY <1>8, NoOpTyped, ViewFields, StoppedFields, ActiveSame DEF
      SaveRunningFails, At, Release, Ops, TypeOK, publish
<1>9. ASSUME NEW next \in Settings, Apply(next) PROVE PushedInv'
  BY <1>9, NoOpTyped, ViewFields, StoppedFields, ActiveSame DEF Apply, Idle,
      Ops, TypeOK, publish
<1>10. CASE HostOff
  BY <1>10, NoOpTyped, ViewFields, StoppedFields, ActiveSame DEF HostOff, At,
      Goto, Release, Ops, TypeOK, publish
<1>11. CASE ApplyNew
  BY <1>11, NoOpTyped, ViewFields, StoppedFields, ActiveSame DEF ApplyNew, At,
      Goto, Release, reapply, Ops, TypeOK, publish
<1>12. CASE HostBack
  BY <1>12, NoOpTyped, ViewFields, StoppedFields, ActiveSame DEF HostBack, At,
      Release, Ops, TypeOK, publish
<1>13. CASE HostOn
  BY <1>13, NoOpTyped, ViewFields, StoppedFields, ActiveSame DEF HostOn, At,
      Goto, Ops, TypeOK, publish
<1>14. CASE SaveSettings
  BY <1>14, NoOpTyped, ViewFields, StoppedFields, ActiveSame DEF SaveSettings,
      At, Release, Ops, TypeOK, publish
<1>15. CASE SaveSettingsFails
  BY <1>15, NoOpTyped, ViewFields, StoppedFields, ActiveSame DEF
      SaveSettingsFails, At, Goto, Ops, TypeOK, publish
<1>16. CASE RevertOff
  BY <1>16, NoOpTyped, ViewFields, StoppedFields, ActiveSame DEF RevertOff,
      At, Goto, Ops, TypeOK, publish
<1>17. CASE RevertCore
  BY <1>17, NoOpTyped, ViewFields, StoppedFields, ActiveSame DEF RevertCore,
      At, rollback, reapply, Ops, TypeOK, publish
<1>18. CASE RevertOn
  BY <1>18, NoOpTyped, ViewFields, StoppedFields, ActiveSame DEF RevertOn, At,
      Goto, Release, Ops, TypeOK, publish
<1>19. CASE KeepNext
  BY <1>19, NoOpTyped, ViewFields, StoppedFields, ActiveSame DEF KeepNext, At,
      Release, Ops, TypeOK, publish
<1>20. ASSUME NEW id \in Ids, AddBegin(id) PROVE PushedInv'
  BY <1>20, NoOpTyped, ViewFields, StoppedFields, ActiveSame DEF AddBegin,
      Fresh, Taken, Ops, TypeOK, publish
<1>21. CASE AddDownloadFails
  BY <1>21, NoOpTyped, ViewFields, StoppedFields, ActiveSame DEF
      AddDownloadFails, Ops, TypeOK, publish
<1>22. CASE AddAccept
  BY <1>22, NoOpTyped, ViewFields, StoppedFields, ActiveSame DEF AddAccept,
      Got, Idle, acceptContent, reapply, ReleaseBoth, Ops, TypeOK, publish
<1>23. CASE AddSnapshot
  BY <1>23, NoOpTyped, ViewFields, StoppedFields, ActiveSame DEF AddSnapshot,
      At, Goto, Ops, TypeOK, publish
<1>24. CASE AddSubs
  BY <1>24, NoOpTyped, ViewFields, StoppedFields, ActiveSame DEF AddSubs, At,
      ReleaseBoth, Ops, TypeOK, publish
<1>25. CASE AddSubsFails
  BY <1>25, NoOpTyped, ViewFields, StoppedFields, ActiveSame DEF AddSubsFails,
      At, Goto, Ops, TypeOK, publish
<1>26. CASE AddForget
  BY <1>26, NoOpTyped, ViewFields, StoppedFields, ActiveSame DEF AddForget,
      At, Goto, Ops, TypeOK, publish
<1>27. CASE AddRevert
  BY <1>27, NoOpTyped, ViewFields, StoppedFields, ActiveSame DEF AddRevert,
      At, rollback, reapply, Ops, TypeOK, publish
<1>28. CASE AddSettle
  BY <1>28, NoOpTyped, ViewFields, StoppedFields, ActiveSame DEF AddSettle,
      At, ReleaseBoth, Ops, TypeOK, publish
<1>29. ASSUME NEW id \in Ids, RefreshBegin(id) PROVE PushedInv'
  BY <1>29, NoOpTyped, ViewFields, StoppedFields, ActiveSame DEF RefreshBegin,
      Ops, TypeOK, publish
<1>30. ASSUME NEW p \in Contents, Downloaded(p) PROVE PushedInv'
  BY <1>30, NoOpTyped, ViewFields, StoppedFields, ActiveSame DEF Downloaded,
      Ops, TypeOK, publish
<1>31. CASE RefreshDownloadFails
  BY <1>31, NoOpTyped, ViewFields, StoppedFields, ActiveSame DEF
      RefreshDownloadFails, Idle, ReleaseBoth, Ops, TypeOK, publish
<1>32. CASE RefreshGone
  BY <1>32, NoOpTyped, ViewFields, StoppedFields, ActiveSame DEF RefreshGone,
      Got, Idle, ReleaseBoth, Ops, TypeOK, publish
<1>33. CASE RefreshAccept
  BY <1>33, NoOpTyped, ViewFields, StoppedFields, ActiveSame DEF
      RefreshAccept, Got, Idle, acceptContent, reapply, Ops, TypeOK, publish
<1>34. CASE RefreshFailed
  BY <1>34, NoOpTyped, ViewFields, StoppedFields, ActiveSame DEF
      RefreshFailed, At, ReleaseBoth, Ops, TypeOK, publish
<1>35. CASE RefreshSnapshot
  BY <1>35, NoOpTyped, ViewFields, StoppedFields, ActiveSame DEF
      RefreshSnapshot, At, Goto, Ops, TypeOK, publish
<1>36. CASE RefreshSnapshotFails
  BY <1>36, NoOpTyped, ViewFields, StoppedFields, ActiveSame DEF
      RefreshSnapshotFails, At, Goto, ReleaseBoth, Ops, TypeOK, publish
<1>37. CASE RefreshRevert
  BY <1>37, NoOpTyped, ViewFields, StoppedFields, ActiveSame DEF
      RefreshRevert, At, reapply, ReleaseBoth, Ops, TypeOK, publish
<1>38. CASE RefreshRecord
  BY <1>38, NoOpTyped, ViewFields, StoppedFields, ActiveSame DEF
      RefreshRecord, At, ReleaseBoth, Ops, TypeOK, publish
<1>39. CASE RefreshRecordFails
  BY <1>39, NoOpTyped, ViewFields, StoppedFields, ActiveSame DEF
      RefreshRecordFails, At, ReleaseBoth, Ops, TypeOK, publish
<1>40. ASSUME NEW id \in Ids, Activate(id) PROVE PushedInv'
  BY <1>40, NoOpTyped, ViewFields, StoppedFields, ActiveSame DEF Activate,
      Idle, acceptContent, reapply, Release, Ops, TypeOK, publish
<1>41. CASE ActivateSave
  BY <1>41, NoOpTyped, ViewFields, StoppedFields, ActiveSame DEF ActivateSave,
      At, Release, Ops, TypeOK, publish
<1>42. CASE ActivateSaveFails
  BY <1>42, NoOpTyped, ViewFields, StoppedFields, ActiveSame DEF
      ActivateSaveFails, At, Goto, Ops, TypeOK, publish
<1>43. CASE ActivateRevert
  BY <1>43, NoOpTyped, ViewFields, StoppedFields, ActiveSame DEF
      ActivateRevert, At, rollback, reapply, Ops, TypeOK, publish
<1>44. CASE ActivateSettle
  BY <1>44, NoOpTyped, ViewFields, StoppedFields, ActiveSame DEF
      ActivateSettle, At, Release, Ops, TypeOK, publish
<1>45. ASSUME NEW id \in Ids, RemoveFind(id) PROVE PushedInv'
  BY <1>45, NoOpTyped, ViewFields, StoppedFields, ActiveSame DEF RemoveFind,
      Ops, TypeOK, publish
<1>46. ASSUME NEW id \in Ids, RemoveRefused(id) PROVE PushedInv'
  BY <1>46, NoOpTyped, ViewFields, StoppedFields, ActiveSame DEF
      RemoveRefused, Idle, Ops, TypeOK, publish
<1>47. ASSUME NEW id \in Ids, Remove(id) PROVE PushedInv'
  BY <1>47, NoOpTyped, ViewFields, StoppedFields, ActiveSame DEF Remove, Idle,
      Ops, TypeOK, publish
<1>48. CASE RemoveContent
  BY <1>48, NoOpTyped, ViewFields, StoppedFields, ActiveSame DEF
      RemoveContent, At, Release, Ops, TypeOK, publish
<1>49. CASE Crash
  BY <1>49, NoOpTyped, ViewFields, StoppedFields, ActiveSame DEF Crash, Ops,
      TypeOK, publish
<1>50. CASE Boot
  BY <1>50, NoOpTyped, ViewFields, StoppedFields, ActiveSame DEF Boot, Ops,
      TypeOK, publish
<1>51. CASE BootFails
  BY <1>51, NoOpTyped, ViewFields, StoppedFields, ActiveSame DEF BootFails,
      Ops, TypeOK, publish
<1>52. CASE UNCHANGED vars
  BY <1>52 DEF vars, activeSub
<1>53. QED
  BY <1>1, <1>2, <1>3, <1>4, <1>5, <1>6, <1>7, <1>8, <1>9, <1>10, <1>11,
      <1>12, <1>13, <1>14, <1>15, <1>16, <1>17, <1>18, <1>19, <1>20, <1>21,
      <1>22, <1>23, <1>24, <1>25, <1>26, <1>27, <1>28, <1>29, <1>30, <1>31,
      <1>32, <1>33, <1>34, <1>35, <1>36, <1>37, <1>38, <1>39, <1>40, <1>41,
      <1>42, <1>43, <1>44, <1>45, <1>46, <1>47, <1>48, <1>49, <1>50, <1>51,
      <1>52 DEF Next, StartStop, Commit, Add, Refresh, UseRemove, Process

\* Between calls the state, the active subscription and the list last pushed on
\* the streams are the current ones (publish, setState).
THEOREM StatusCurrent == Spec => []StatusPushed
<1>1. Init => PushedInv
  BY NoOpTyped, InitFields DEF Init, PushedInv, View
<1>2. TypeOK /\ PushedInv /\ [Next]_vars => PushedInv'
  BY PushedStep
<1>3. PushedInv => StatusPushed
  BY DEF PushedInv, StatusPushed, Idle
<1>4. QED
  BY <1>1, <1>2, <1>3, TypeCorrect, PTL DEF Spec

(*****************************************************************************)
(* What the daemon stores of subscriptions: the invariants of add,           *)
(* refresh, activate and remove.                                             *)
(*****************************************************************************)

\* Content is stored before the list names it and removed after it no longer does.
LEMMA SubsStep == TypeOK /\ SubsInv /\ [Next]_vars => SubsInv'
<1> SUFFICES ASSUME TypeOK, SubsInv, [Next]_vars PROVE SubsInv'
  OBVIOUS
<1> USE DEF SubsInv, memory, disk, history, ActiveListed, AddPcs, RefPcs, UsePcs
<1>1. CASE StartRunning
  BY <1>1, NoOpTyped, NullAssumption DEF StartRunning, Idle, Ops, TypeOK
<1>2. CASE Stop
  BY <1>2, NoOpTyped, NullAssumption DEF Stop, Idle, Ops, TypeOK
<1>3. ASSUME NEW by \in Starters, StartRefused(by) PROVE SubsInv'
  BY <1>3, NoOpTyped, NullAssumption DEF StartRefused, MayStart, Idle,
      StartFailed, Ops, TypeOK
<1>4. ASSUME NEW by \in Starters, StartLoaded(by) PROVE SubsInv'
  BY <1>4, NoOpTyped, NullAssumption DEF StartLoaded, MayStart, Idle, Ops,
      TypeOK
<1>5. ASSUME NEW by \in Starters, StartUp(by) PROVE SubsInv'
  BY <1>5, NoOpTyped, NullAssumption DEF StartUp, At, Goto, Release, Ops,
      TypeOK
<1>6. ASSUME NEW by \in Starters, StartDown(by) PROVE SubsInv'
  BY <1>6, NoOpTyped, NullAssumption DEF StartDown, At, StartFailed, Release,
      Ops, TypeOK
<1>7. ASSUME NEW on \in BOOLEAN, SaveRunning(on) PROVE SubsInv'
  BY <1>7, NoOpTyped, NullAssumption DEF SaveRunning, At, Release, Ops, TypeOK
<1>8. ASSUME NEW on \in BOOLEAN, SaveRunningFails(on) PROVE SubsInv'
  BY <1>8, NoOpTyped, NullAssumption DEF SaveRunningFails, At, Release, Ops,
      TypeOK
<1>9. ASSUME NEW next \in Settings, Apply(next) PROVE SubsInv'
  BY <1>9, NoOpTyped, NullAssumption DEF Apply, Idle, Ops, TypeOK
<1>10. CASE HostOff
  BY <1>10, NoOpTyped, NullAssumption DEF HostOff, At, Goto, Release, Ops,
      TypeOK
<1>11. CASE ApplyNew
  BY <1>11, NoOpTyped, NullAssumption DEF ApplyNew, At, Goto, Release, Ops,
      TypeOK
<1>12. CASE HostBack
  BY <1>12, NoOpTyped, NullAssumption DEF HostBack, At, Release, Ops, TypeOK
<1>13. CASE HostOn
  BY <1>13, NoOpTyped, NullAssumption DEF HostOn, At, Goto, Ops, TypeOK
<1>14. CASE SaveSettings
  BY <1>14, NoOpTyped, NullAssumption DEF SaveSettings, At, Release, Ops,
      TypeOK
<1>15. CASE SaveSettingsFails
  BY <1>15, NoOpTyped, NullAssumption DEF SaveSettingsFails, At, Goto, Ops,
      TypeOK
<1>16. CASE RevertOff
  BY <1>16, NoOpTyped, NullAssumption DEF RevertOff, At, Goto, Ops, TypeOK
<1>17. CASE RevertCore
  BY <1>17, NoOpTyped, NullAssumption DEF RevertCore, At, rollback, Ops,
      TypeOK
<1>18. CASE RevertOn
  BY <1>18, NoOpTyped, NullAssumption DEF RevertOn, At, Goto, Release, Ops,
      TypeOK
<1>19. CASE KeepNext
  BY <1>19, NoOpTyped, NullAssumption DEF KeepNext, At, Release, Ops, TypeOK
<1>20. ASSUME NEW id \in Ids, AddBegin(id) PROVE SubsInv'
  BY <1>20, NoOpTyped, NullAssumption DEF AddBegin, Fresh, Taken, Ops, TypeOK
<1>21. CASE AddDownloadFails
  BY <1>21, NoOpTyped, NullAssumption DEF AddDownloadFails, Ops, TypeOK
<1>22. CASE AddAccept
  <2>1. /\ up' /\ op.pc = "idle" /\ dl.kind = "add" /\ dl.profile # NoProfile
        /\ UNCHANGED <<subs, dSubs, snapshots, unsaved>>
    BY <1>22 DEF AddAccept, Got, Idle
  <2> DEFINE activate == subs.active = NoId
  <2>2. activate \in BOOLEAN
    OBVIOUS
  <2>3. \/ /\ dl' = dl
           /\ op' = [NoOp EXCEPT !.pc = "addSnapshot", !.id = dl.id,
                                 !.profile = dl.profile, !.runs = activate]
        \/ op' = NoOp /\ dl' = NoDl
    BY <1>22 DEF AddAccept, ReleaseBoth
  <2> HIDE DEF activate
  <2>4. \/ /\ dl' = dl /\ op'.pc = "addSnapshot"
           /\ op'.id = dl.id /\ op'.profile = dl.profile
        \/ op'.pc = "idle" /\ dl'.kind = "none"
    BY <2>2, <2>3, NoOpTyped DEF NoOp
  <2>5. QED
    BY <2>1, <2>4
<1>23. CASE AddSnapshot
  <2>1. /\ up' /\ op.pc = "addSnapshot"
        /\ UNCHANGED <<subs, dSubs, dl, unsaved>>
    BY <1>23 DEF AddSnapshot, At
  <2>2. op.id \in Ids \ subs.list
    BY <2>1 DEF TypeOK
  <2>3. /\ op'.pc \in {"addSubs", "addRevert"} /\ op'.id = op.id /\ op'.profile = op.profile
        /\ op'.pc = "addSubs" => snapshots' = [snapshots EXCEPT ![op.id] = op.profile]
    BY <1>23 DEF AddSnapshot, Goto, TypeOK, Ops
  <2>4. \A i \in Ids \ {op.id} : snapshots'[i] = snapshots[i]
    BY <1>23, <2>2 DEF AddSnapshot, TypeOK
  <2>5. op'.pc = "addSubs" => snapshots'[op.id] # NoProfile
    BY <2>1, <2>2, <2>3 DEF TypeOK
  <2>6. subs.list \subseteq Ids
    BY DEF TypeOK, Subscriptions
  <2>7. \A i \in subs.list : snapshots'[i] = snapshots[i]
    BY <2>2, <2>4, <2>6
  <2>8. QED
    BY <2>1, <2>2, <2>3, <2>5, <2>7
<1>24. CASE AddSubs
  BY <1>24, NoOpTyped, NullAssumption DEF AddSubs, At, WithAdded, ReleaseBoth,
      Ops, TypeOK
<1>25. CASE AddSubsFails
  BY <1>25, NoOpTyped, NullAssumption DEF AddSubsFails, At, Goto, Ops, TypeOK
<1>26. CASE AddForget
  <2>1. /\ up' /\ op.pc = "addForget"
        /\ UNCHANGED <<subs, dSubs, dl, unsaved>>
    BY <1>26 DEF AddForget, At
  <2>2. op.id \in Ids \ subs.list
    BY <2>1 DEF TypeOK
  <2>3. op'.pc = "addRevert" /\ op'.id = op.id /\ op'.profile = op.profile
    BY <1>26 DEF AddForget, Goto, TypeOK, Ops
  <2>4. \A i \in Ids \ {op.id} : snapshots'[i] = snapshots[i]
    BY <1>26, <2>2 DEF AddForget, RemoveSnapshot, TypeOK
  <2>5. \A i \in subs.list : snapshots'[i] = snapshots[i]
    BY <2>2, <2>4 DEF TypeOK, Subscriptions
  <2>6. QED
    BY <2>1, <2>2, <2>3, <2>5
<1>27. CASE AddRevert
  <2>1. /\ up' /\ op.pc = "addRevert"
        /\ UNCHANGED <<subs, dSubs, snapshots, dl, unsaved>>
    BY <1>27 DEF AddRevert, At
  <2>2. op'.pc = "addSettle" /\ op'.id = op.id /\ op'.profile = op.profile
    BY <1>27 DEF AddRevert, rollback, TypeOK, Ops
  <2>3. QED
    BY <2>1, <2>2
<1>28. CASE AddSettle
  BY <1>28, NoOpTyped, NullAssumption DEF AddSettle, At, WithAdded,
      ReleaseBoth, Ops, TypeOK
<1>29. ASSUME NEW id \in Ids, RefreshBegin(id) PROVE SubsInv'
  BY <1>29, NoOpTyped, NullAssumption DEF RefreshBegin, Ops, TypeOK
<1>30. ASSUME NEW p \in Contents, Downloaded(p) PROVE SubsInv'
  BY <1>30, NoOpTyped, NullAssumption DEF Downloaded, Ops, TypeOK
<1>31. CASE RefreshDownloadFails
  BY <1>31, NoOpTyped, NullAssumption DEF RefreshDownloadFails, Idle,
      updateSub, ReleaseBoth, Ops, TypeOK
<1>32. CASE RefreshGone
  BY <1>32, NoOpTyped, NullAssumption DEF RefreshGone, Got, Idle, ReleaseBoth,
      Ops, TypeOK
<1>33. CASE RefreshAccept
  BY <1>33, NoOpTyped, NullAssumption DEF RefreshAccept, Got, Idle, Ops,
      TypeOK
<1>34. CASE RefreshFailed
  BY <1>34, NoOpTyped, NullAssumption DEF RefreshFailed, At, updateSub,
      ReleaseBoth, Ops, TypeOK
<1>35. CASE RefreshSnapshot
  BY <1>35, NoOpTyped, NullAssumption DEF RefreshSnapshot, At, Goto, Ops,
      TypeOK
<1>36. CASE RefreshSnapshotFails
  BY <1>36, NoOpTyped, NullAssumption DEF RefreshSnapshotFails, At, Goto,
      ReleaseBoth, Ops, TypeOK
<1>37. CASE RefreshRevert
  BY <1>37, NoOpTyped, NullAssumption DEF RefreshRevert, At, ReleaseBoth, Ops,
      TypeOK
<1>38. CASE RefreshRecord
  BY <1>38, NoOpTyped, NullAssumption DEF RefreshRecord, At, ReleaseBoth, Ops,
      TypeOK
<1>39. CASE RefreshRecordFails
  BY <1>39, NoOpTyped, NullAssumption DEF RefreshRecordFails, At, ReleaseBoth,
      Ops, TypeOK
<1>40. ASSUME NEW id \in Ids, Activate(id) PROVE SubsInv'
  <2>1. /\ up' /\ op.pc = "idle" /\ id \in subs.list
        /\ UNCHANGED <<subs, dSubs, dl, snapshots, unsaved>>
    BY <1>40 DEF Activate, Idle
  <2>2. \/ op' = NoOp
        \/ op' = [NoOp EXCEPT !.pc = "useSave", !.id = id,
                              !.profile = snapshots[id], !.runs = TRUE]
    BY <1>40 DEF Activate, Release
  <2>3. op'.pc = "idle" \/ (op'.pc = "useSave" /\ op'.id = id)
    <3>1. CASE op' = NoOp
      BY <3>1, NoOpTyped
    <3>2. CASE op' = [NoOp EXCEPT !.pc = "useSave", !.id = id,
                                  !.profile = snapshots[id], !.runs = TRUE]
      BY <3>2, NoOpTyped DEF Ops
    <3>3. QED
      BY <2>2, <3>1, <3>2
  <2>4. QED
    BY <2>1, <2>3
<1>41. CASE ActivateSave
  BY <1>41, NoOpTyped, NullAssumption DEF ActivateSave, At, Release, Ops,
      TypeOK
<1>42. CASE ActivateSaveFails
  BY <1>42, NoOpTyped, NullAssumption DEF ActivateSaveFails, At, Goto, Ops,
      TypeOK
<1>43. CASE ActivateRevert
  BY <1>43, NoOpTyped, NullAssumption DEF ActivateRevert, At, rollback, Ops,
      TypeOK
<1>44. CASE ActivateSettle
  <2>1. /\ up' /\ op.pc = "useSettle" /\ op'.pc = "idle"
        /\ UNCHANGED <<dSubs, dl, snapshots, unsaved>>
    BY <1>44, NoOpTyped DEF ActivateSettle, At, Release
  <2>2. subs'.list = subs.list /\ subs'.active \in {subs.active, op.id}
    BY <1>44 DEF ActivateSettle, TypeOK, Subscriptions
  <2>3. QED
    BY <2>1, <2>2
<1>45. ASSUME NEW id \in Ids, RemoveFind(id) PROVE SubsInv'
  BY <1>45, NoOpTyped, NullAssumption DEF RemoveFind, Ops, TypeOK
<1>46. ASSUME NEW id \in Ids, RemoveRefused(id) PROVE SubsInv'
  BY <1>46, NoOpTyped, NullAssumption DEF RemoveRefused, Idle, TakeFound,
      InUse, Ops, TypeOK
<1>47. ASSUME NEW id \in Ids, Remove(id) PROVE SubsInv'
  <2>1. up' /\ op.pc = "idle" /\ UNCHANGED <<dl, snapshots>>
    BY <1>47 DEF Remove, Idle
  <2>2. CASE UNCHANGED <<subs, dSubs, unsaved, op>>
    BY <2>1, <2>2
  <2>3. CASE /\ subs' = Without(id) /\ dSubs' = Without(id)
             /\ unsaved' = unsaved \ {id}
             /\ op' = [NoOp EXCEPT !.pc = "rmSnapshot", !.id = id]
    <3>1. op'.pc = "rmSnapshot" /\ op'.id = id
      BY <2>3 DEF NoOp
    <3>2. /\ subs'.list = subs.list \ {id} /\ dSubs'.list = subs.list \ {id}
          /\ subs'.active = (IF subs.active = id THEN NoId ELSE subs.active)
          /\ dSubs'.active = subs'.active
      BY <2>3 DEF Without
    <3>3. QED
      BY <2>1, <2>3, <3>1, <3>2, NullAssumption
  <2>4. QED
    BY <1>47, <2>2, <2>3 DEF Remove
<1>48. CASE RemoveContent
  <2>1. /\ up' /\ op.pc = "rmSnapshot" /\ op'.pc = "idle"
        /\ UNCHANGED <<subs, dSubs, dl, unsaved>>
    BY <1>48, NoOpTyped DEF RemoveContent, At, Release
  <2>2. \A i \in Ids \ {op.id} : snapshots'[i] = snapshots[i]
    BY <1>48, <2>1 DEF RemoveContent, RemoveSnapshot, TypeOK
  <2>3. \A i \in subs.list : snapshots'[i] = snapshots[i]
    BY <2>1, <2>2 DEF TypeOK, Subscriptions
  <2>4. QED
    BY <2>1, <2>3
<1>49. CASE Crash
  BY <1>49, NoOpTyped, NullAssumption DEF Crash, Ops, TypeOK
<1>50. CASE Boot
  BY <1>50, NoOpTyped, NullAssumption DEF Boot, Ops, TypeOK
<1>51. CASE BootFails
  BY <1>51, NoOpTyped, NullAssumption DEF BootFails, Ops, TypeOK
<1>52. CASE UNCHANGED vars
  BY <1>52 DEF vars
<1>53. QED
  BY <1>1, <1>2, <1>3, <1>4, <1>5, <1>6, <1>7, <1>8, <1>9, <1>10, <1>11,
      <1>12, <1>13, <1>14, <1>15, <1>16, <1>17, <1>18, <1>19, <1>20, <1>21,
      <1>22, <1>23, <1>24, <1>25, <1>26, <1>27, <1>28, <1>29, <1>30, <1>31,
      <1>32, <1>33, <1>34, <1>35, <1>36, <1>37, <1>38, <1>39, <1>40, <1>41,
      <1>42, <1>43, <1>44, <1>45, <1>46, <1>47, <1>48, <1>49, <1>50, <1>51,
      <1>52 DEF Next, StartStop, Commit, Add, Refresh, UseRemove, Process

\* The inductive form of ListedContentStored and ActiveListed: which ids the
\* calls in progress are about, and what is stored for them.
THEOREM SubsInvariant == Spec => []SubsInv
<1>1. Init => SubsInv
  BY NoOpTyped, InitFields DEF Init, SubsInv, ActiveListed, AddPcs, RefPcs, UsePcs
<1>2. TypeOK /\ SubsInv /\ [Next]_vars => SubsInv'
  BY SubsStep
<1>4. QED
  BY <1>1, <1>2, TypeCorrect, PTL DEF Spec

\* Whatever instant a crash falls in, subscriptions.json lists only subscriptions
\* whose content is stored, apart from one whose add could neither be saved nor
\* taken back (addSubscription, refresh, removeSubscription).
THEOREM ContentStored == Spec => []ListedContentStored
<1>1. SubsInv => ListedContentStored
  BY DEF SubsInv, ListedContentStored
<1>2. QED
  BY <1>1, SubsInvariant, PTL

\* The active subscription is a listed one, in memory and on disk.
THEOREM ActiveIsListed == Spec => []ActiveListed
<1>1. SubsInv => ActiveListed
  BY DEF SubsInv
<1>2. QED
  BY <1>1, SubsInvariant, PTL

\* Under refreshMu no one lists the URL of the subscription being added.
LEMMA UrlStep == TypeOK /\ SubsInv /\ UrlInv /\ [Next]_vars => UrlInv'
<1> SUFFICES ASSUME TypeOK, SubsInv, UrlInv, [Next]_vars PROVE UrlInv'
  OBVIOUS
<1> USE DEF UrlInv, memory, disk, history, UniqueUrls
<1>1. CASE StartRunning
  BY <1>1, NoOpTyped DEF StartRunning, Idle, Ops, TypeOK
<1>2. CASE Stop
  BY <1>2, NoOpTyped DEF Stop, Idle, Ops, TypeOK
<1>3. ASSUME NEW by \in Starters, StartRefused(by) PROVE UrlInv'
  BY <1>3, NoOpTyped DEF StartRefused, MayStart, Idle, StartFailed, Ops,
      TypeOK
<1>4. ASSUME NEW by \in Starters, StartLoaded(by) PROVE UrlInv'
  BY <1>4, NoOpTyped DEF StartLoaded, MayStart, Idle, Ops, TypeOK
<1>5. ASSUME NEW by \in Starters, StartUp(by) PROVE UrlInv'
  BY <1>5, NoOpTyped DEF StartUp, At, Goto, Release, Ops, TypeOK
<1>6. ASSUME NEW by \in Starters, StartDown(by) PROVE UrlInv'
  BY <1>6, NoOpTyped DEF StartDown, At, StartFailed, Release, Ops, TypeOK
<1>7. ASSUME NEW on \in BOOLEAN, SaveRunning(on) PROVE UrlInv'
  BY <1>7, NoOpTyped DEF SaveRunning, At, Release, Ops, TypeOK
<1>8. ASSUME NEW on \in BOOLEAN, SaveRunningFails(on) PROVE UrlInv'
  BY <1>8, NoOpTyped DEF SaveRunningFails, At, Release, Ops, TypeOK
<1>9. ASSUME NEW next \in Settings, Apply(next) PROVE UrlInv'
  BY <1>9, NoOpTyped DEF Apply, Idle, Ops, TypeOK
<1>10. CASE HostOff
  BY <1>10, NoOpTyped DEF HostOff, At, Goto, Release, Ops, TypeOK
<1>11. CASE ApplyNew
  BY <1>11, NoOpTyped DEF ApplyNew, At, Goto, Release, Ops, TypeOK
<1>12. CASE HostBack
  BY <1>12, NoOpTyped DEF HostBack, At, Release, Ops, TypeOK
<1>13. CASE HostOn
  BY <1>13, NoOpTyped DEF HostOn, At, Goto, Ops, TypeOK
<1>14. CASE SaveSettings
  BY <1>14, NoOpTyped DEF SaveSettings, At, Release, Ops, TypeOK
<1>15. CASE SaveSettingsFails
  BY <1>15, NoOpTyped DEF SaveSettingsFails, At, Goto, Ops, TypeOK
<1>16. CASE RevertOff
  BY <1>16, NoOpTyped DEF RevertOff, At, Goto, Ops, TypeOK
<1>17. CASE RevertCore
  BY <1>17, NoOpTyped DEF RevertCore, At, Ops, TypeOK
<1>18. CASE RevertOn
  BY <1>18, NoOpTyped DEF RevertOn, At, Goto, Release, Ops, TypeOK
<1>19. CASE KeepNext
  BY <1>19, NoOpTyped DEF KeepNext, At, Release, Ops, TypeOK
<1>20. ASSUME NEW id \in Ids, AddBegin(id) PROVE UrlInv'
  BY <1>20, NoOpTyped DEF AddBegin, Fresh, Taken, Ops, TypeOK
<1>21. CASE AddDownloadFails
  BY <1>21, NoOpTyped DEF AddDownloadFails, Ops, TypeOK
<1>22. CASE AddAccept
  BY <1>22, NoOpTyped DEF AddAccept, Got, Idle, ReleaseBoth, Ops, TypeOK
<1>23. CASE AddSnapshot
  BY <1>23, NoOpTyped DEF AddSnapshot, At, Goto, Ops, TypeOK
<1>24. CASE AddSubs
  <2>1. op.pc \in AddPcs /\ dl' = NoDl
    BY <1>24 DEF AddSubs, At, AddPcs, ReleaseBoth
  <2>2. dl.kind = "add" /\ op.id = dl.id
    BY <2>1 DEF SubsInv
  <2>3. subs'.list \subseteq subs.list \cup {op.id}
    BY <1>24 DEF AddSubs, WithAdded
  <2>4. QED
    BY <2>1, <2>2, <2>3, NoOpTyped
<1>25. CASE AddSubsFails
  BY <1>25, NoOpTyped DEF AddSubsFails, At, Goto, Ops, TypeOK
<1>26. CASE AddForget
  BY <1>26, NoOpTyped DEF AddForget, At, Goto, Ops, TypeOK
<1>27. CASE AddRevert
  BY <1>27, NoOpTyped DEF AddRevert, At, Ops, TypeOK
<1>28. CASE AddSettle
  <2>1. op.pc \in AddPcs /\ dl' = NoDl
    BY <1>28 DEF AddSettle, At, AddPcs, ReleaseBoth
  <2>2. dl.kind = "add" /\ op.id = dl.id
    BY <2>1 DEF SubsInv
  <2>3. subs'.list \subseteq subs.list \cup {op.id}
    BY <1>28 DEF AddSettle, WithAdded
  <2>4. QED
    BY <2>1, <2>2, <2>3, NoOpTyped
<1>29. ASSUME NEW id \in Ids, RefreshBegin(id) PROVE UrlInv'
  BY <1>29, NoOpTyped DEF RefreshBegin, Ops, TypeOK
<1>30. ASSUME NEW p \in Contents, Downloaded(p) PROVE UrlInv'
  BY <1>30, NoOpTyped DEF Downloaded, Ops, TypeOK
<1>31. CASE RefreshDownloadFails
  BY <1>31, NoOpTyped DEF RefreshDownloadFails, Idle, ReleaseBoth, Ops, TypeOK
<1>32. CASE RefreshGone
  BY <1>32, NoOpTyped DEF RefreshGone, Got, Idle, ReleaseBoth, Ops, TypeOK
<1>33. CASE RefreshAccept
  BY <1>33, NoOpTyped DEF RefreshAccept, Got, Idle, Ops, TypeOK
<1>34. CASE RefreshFailed
  BY <1>34, NoOpTyped DEF RefreshFailed, At, ReleaseBoth, Ops, TypeOK
<1>35. CASE RefreshSnapshot
  BY <1>35, NoOpTyped DEF RefreshSnapshot, At, Goto, Ops, TypeOK
<1>36. CASE RefreshSnapshotFails
  BY <1>36, NoOpTyped DEF RefreshSnapshotFails, At, Goto, ReleaseBoth, Ops,
      TypeOK
<1>37. CASE RefreshRevert
  BY <1>37, NoOpTyped DEF RefreshRevert, At, ReleaseBoth, Ops, TypeOK
<1>38. CASE RefreshRecord
  BY <1>38, NoOpTyped DEF RefreshRecord, At, ReleaseBoth, Ops, TypeOK
<1>39. CASE RefreshRecordFails
  BY <1>39, NoOpTyped DEF RefreshRecordFails, At, ReleaseBoth, Ops, TypeOK
<1>40. ASSUME NEW id \in Ids, Activate(id) PROVE UrlInv'
  BY <1>40, NoOpTyped DEF Activate, Idle, Release, Ops, TypeOK
<1>41. CASE ActivateSave
  BY <1>41, NoOpTyped DEF ActivateSave, At, Release, Ops, TypeOK
<1>42. CASE ActivateSaveFails
  BY <1>42, NoOpTyped DEF ActivateSaveFails, At, Goto, Ops, TypeOK
<1>43. CASE ActivateRevert
  BY <1>43, NoOpTyped DEF ActivateRevert, At, Ops, TypeOK
<1>44. CASE ActivateSettle
  <2>1. subs'.list = subs.list /\ dl' = dl
    BY <1>44 DEF ActivateSettle, TypeOK, Subscriptions
  <2>2. QED
    BY <2>1
<1>45. ASSUME NEW id \in Ids, RemoveFind(id) PROVE UrlInv'
  BY <1>45, NoOpTyped DEF RemoveFind, Ops, TypeOK
<1>46. ASSUME NEW id \in Ids, RemoveRefused(id) PROVE UrlInv'
  BY <1>46, NoOpTyped DEF RemoveRefused, Idle, TakeFound, InUse, Ops, TypeOK
<1>47. ASSUME NEW id \in Ids, Remove(id) PROVE UrlInv'
  BY <1>47, NoOpTyped DEF Remove, Idle, TakeFound, InUse, Without, Ops, TypeOK
<1>48. CASE RemoveContent
  BY <1>48, NoOpTyped DEF RemoveContent, At, Release, Ops, TypeOK
<1>49. CASE Crash
  <2>1. dl'.kind = "none" /\ subs'.list \subseteq subs.list
    BY <1>49, NoOpTyped DEF Crash, SubsInv
  <2>2. QED
    BY <2>1
<1>50. CASE Boot
  BY <1>50, NoOpTyped DEF Boot, Ops, TypeOK
<1>51. CASE BootFails
  BY <1>51, NoOpTyped DEF BootFails, Ops, TypeOK
<1>52. CASE UNCHANGED vars
  BY <1>52 DEF vars
<1>53. QED
  BY <1>1, <1>2, <1>3, <1>4, <1>5, <1>6, <1>7, <1>8, <1>9, <1>10, <1>11,
      <1>12, <1>13, <1>14, <1>15, <1>16, <1>17, <1>18, <1>19, <1>20, <1>21,
      <1>22, <1>23, <1>24, <1>25, <1>26, <1>27, <1>28, <1>29, <1>30, <1>31,
      <1>32, <1>33, <1>34, <1>35, <1>36, <1>37, <1>38, <1>39, <1>40, <1>41,
      <1>42, <1>43, <1>44, <1>45, <1>46, <1>47, <1>48, <1>49, <1>50, <1>51,
      <1>52 DEF Next, StartStop, Commit, Add, Refresh, UseRemove, Process

\* No two subscriptions have one URL, though addSubscription looks before the
\* download and lists after it: refreshMu is what makes it so.
THEOREM UrlsUnique == Spec => []UniqueUrls
<1>1. Init => UrlInv
  BY NoOpTyped, InitFields DEF Init, UrlInv, UniqueUrls
<1>2. TypeOK /\ SubsInv /\ UrlInv /\ [Next]_vars => UrlInv'
  BY UrlStep
<1>3. UrlInv => UniqueUrls
  BY DEF UrlInv, UniqueUrls
<1>4. QED
  BY <1>1, <1>2, <1>3, TypeCorrect, SubsInvariant, PTL DEF Spec

\* The list of subscriptions is sound through every call, race, failed save and
\* crash: content stored, the active one listed, no URL twice.
THEOREM SubscriptionsSound == Spec => []ListSound
<1>1. ListedContentStored /\ ActiveListed /\ UniqueUrls => ListSound
  BY DEF ListSound
<1>2. QED
  BY <1>1, ContentStored, ActiveIsListed, UrlsUnique, PTL

\* Of the steps that change the active subscription only a removal's clears it,
\* and that one looks again under opMu whether the proxy runs it.
LEMMA KeepsActiveStep ==
    TypeOK /\ SubsInv /\ [Next]_vars
      => [running /\ running' /\ subs.active # NoId => subs'.active # NoId]_vars
<1> DEFINE KeepStep == running /\ running' /\ subs.active # NoId => subs'.active # NoId
<1> SUFFICES ASSUME TypeOK, SubsInv, [Next]_vars PROVE KeepStep
  OBVIOUS
<1> USE DEF memory
<1>1. CASE StartRunning
  BY <1>1 DEF StartRunning
<1>2. CASE Stop
  BY <1>2 DEF Stop
<1>3. ASSUME NEW by \in Starters, StartRefused(by) PROVE KeepStep
  BY <1>3 DEF StartRefused, StartFailed
<1>4. ASSUME NEW by \in Starters, StartLoaded(by) PROVE KeepStep
  BY <1>4 DEF StartLoaded
<1>5. ASSUME NEW by \in Starters, StartUp(by) PROVE KeepStep
  BY <1>5 DEF StartUp
<1>6. ASSUME NEW by \in Starters, StartDown(by) PROVE KeepStep
  BY <1>6 DEF StartDown, StartFailed
<1>7. ASSUME NEW on \in BOOLEAN, SaveRunning(on) PROVE KeepStep
  BY <1>7 DEF SaveRunning
<1>8. ASSUME NEW on \in BOOLEAN, SaveRunningFails(on) PROVE KeepStep
  BY <1>8 DEF SaveRunningFails
<1>9. ASSUME NEW next \in Settings, Apply(next) PROVE KeepStep
  BY <1>9 DEF Apply
<1>10. CASE HostOff
  BY <1>10 DEF HostOff
<1>11. CASE ApplyNew
  BY <1>11 DEF ApplyNew
<1>12. CASE HostBack
  BY <1>12 DEF HostBack
<1>13. CASE HostOn
  BY <1>13 DEF HostOn
<1>14. CASE SaveSettings
  BY <1>14 DEF SaveSettings
<1>15. CASE SaveSettingsFails
  BY <1>15 DEF SaveSettingsFails
<1>16. CASE RevertOff
  BY <1>16 DEF RevertOff
<1>17. CASE RevertCore
  BY <1>17 DEF RevertCore
<1>18. CASE RevertOn
  BY <1>18 DEF RevertOn
<1>19. CASE KeepNext
  BY <1>19 DEF KeepNext
<1>20. ASSUME NEW id \in Ids, AddBegin(id) PROVE KeepStep
  BY <1>20 DEF AddBegin
<1>21. CASE AddDownloadFails
  BY <1>21 DEF AddDownloadFails
<1>22. CASE AddAccept
  BY <1>22 DEF AddAccept
<1>23. CASE AddSnapshot
  BY <1>23 DEF AddSnapshot
<1>24. CASE AddSubs
  <2>1. subs'.active \in {op.id, subs.active} /\ op.id \in Ids
    BY <1>24 DEF AddSubs, WithAdded, At, AddPcs, TypeOK
  <2>2. QED
    BY <2>1, NullAssumption
<1>25. CASE AddSubsFails
  BY <1>25 DEF AddSubsFails
<1>26. CASE AddForget
  BY <1>26 DEF AddForget
<1>27. CASE AddRevert
  BY <1>27 DEF AddRevert
<1>28. CASE AddSettle
  <2>1. subs'.active \in {op.id, subs.active} /\ op.id \in Ids
    BY <1>28 DEF AddSettle, WithAdded, At, AddPcs, TypeOK
  <2>2. QED
    BY <2>1, NullAssumption
<1>29. ASSUME NEW id \in Ids, RefreshBegin(id) PROVE KeepStep
  BY <1>29 DEF RefreshBegin
<1>30. ASSUME NEW p \in Contents, Downloaded(p) PROVE KeepStep
  BY <1>30 DEF Downloaded
<1>31. CASE RefreshDownloadFails
  BY <1>31 DEF RefreshDownloadFails
<1>32. CASE RefreshGone
  BY <1>32 DEF RefreshGone
<1>33. CASE RefreshAccept
  BY <1>33 DEF RefreshAccept
<1>34. CASE RefreshFailed
  BY <1>34 DEF RefreshFailed
<1>35. CASE RefreshSnapshot
  BY <1>35 DEF RefreshSnapshot
<1>36. CASE RefreshSnapshotFails
  BY <1>36 DEF RefreshSnapshotFails
<1>37. CASE RefreshRevert
  BY <1>37 DEF RefreshRevert
<1>38. CASE RefreshRecord
  BY <1>38 DEF RefreshRecord
<1>39. CASE RefreshRecordFails
  BY <1>39 DEF RefreshRecordFails
<1>40. ASSUME NEW id \in Ids, Activate(id) PROVE KeepStep
  BY <1>40 DEF Activate
<1>41. CASE ActivateSave
  <2>1. subs'.active = op.id /\ op.id \in Ids
    BY <1>41 DEF ActivateSave, At, SubsInv, UsePcs, TypeOK, Subscriptions
  <2>2. QED
    BY <2>1, NullAssumption
<1>42. CASE ActivateSaveFails
  BY <1>42 DEF ActivateSaveFails
<1>43. CASE ActivateRevert
  BY <1>43 DEF ActivateRevert
<1>44. CASE ActivateSettle
  <2>1. subs'.active \in {subs.active, op.id} /\ op.id \in Ids
    BY <1>44 DEF ActivateSettle, At, SubsInv, UsePcs, TypeOK, Subscriptions
  <2>2. QED
    BY <2>1, NullAssumption
<1>45. ASSUME NEW id \in Ids, RemoveFind(id) PROVE KeepStep
  BY <1>45 DEF RemoveFind
<1>46. ASSUME NEW id \in Ids, RemoveRefused(id) PROVE KeepStep
  BY <1>46 DEF RemoveRefused
<1>47. ASSUME NEW id \in Ids, Remove(id) PROVE KeepStep
  BY <1>47 DEF Remove, InUse, Without, running
<1>48. CASE RemoveContent
  BY <1>48 DEF RemoveContent
<1>49. CASE Crash
  BY <1>49 DEF Crash, running
<1>50. CASE Boot
  BY <1>50 DEF Boot
<1>51. CASE BootFails
  BY <1>51 DEF BootFails
<1>52. CASE UNCHANGED vars
  BY <1>52 DEF vars, memory
<1>53. QED
  BY <1>1, <1>2, <1>3, <1>4, <1>5, <1>6, <1>7, <1>8, <1>9, <1>10, <1>11,
      <1>12, <1>13, <1>14, <1>15, <1>16, <1>17, <1>18, <1>19, <1>20, <1>21,
      <1>22, <1>23, <1>24, <1>25, <1>26, <1>27, <1>28, <1>29, <1>30, <1>31,
      <1>32, <1>33, <1>34, <1>35, <1>36, <1>37, <1>38, <1>39, <1>40, <1>41,
      <1>42, <1>43, <1>44, <1>45, <1>46, <1>47, <1>48, <1>49, <1>50, <1>51,
      <1>52 DEF Next, StartStop, Commit, Add, Refresh, UseRemove, Process

\* A proxy that keeps running keeps an active subscription once it has one:
\* removeSubscription refuses it, however stale the record it found before it
\* waited for opMu.
THEOREM ActiveKept == Spec => KeepsActive
BY TypeCorrect, SubsInvariant, KeepsActiveStep, PTL DEF Spec, KeepsActive

=============================================================================
