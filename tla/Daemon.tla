------------------------------- MODULE Daemon -------------------------------
(***************************************************************************)
(* The omihomo daemon's operations on what runs and on what is stored:     *)
(* internal/daemon (daemon.go, ops.go, subscriptions.go) over              *)
(* internal/state.                                                         *)
(*                                                                         *)
(* Calls that change what the core runs hold opMu; the one that holds it   *)
(* is `op', a record of its program counter and its locals.  Calls that    *)
(* download hold refreshMu as well, from before the download; that one is  *)
(* `dl'.  A step is one effect on the disk, on the host, on the core or on *)
(* what is published, with the memory updates around it, so that a crash   *)
(* can fall between any two effects and a download can overlap any call.   *)
(*                                                                         *)
(* The owner's settings and rules, without Tailscale and Running, are a    *)
(* member of Choices; a subscription's content is a member of Contents.    *)
(* The core is the contract of core.Core (internal/core/core.go): an Apply *)
(* succeeds, fails and leaves what ran, or fails and leaves it stopped.    *)
(***************************************************************************)
EXTENDS FiniteSets, Naturals

CONSTANTS
    Ids,        \* subscription ids; state.NewID draws a fresh one per add
    Urls,       \* subscription URLs
    UrlOf,      \* the URL an id is drawn for
    Contents,   \* the profiles that downloads bring
    Choices,    \* the owner's settings and rules, Tailscale apart
    FirstChoice,\* the choice of a fresh install
    TailscalePresent, \* tailscaled is installed
    NoId, NoProfile, NoConfig

ASSUME UrlAssumption == UrlOf \in [Ids -> Urls]
ASSUME ChoiceAssumption == FirstChoice \in Choices
ASSUME PresentAssumption == TailscalePresent \in BOOLEAN
ASSUME NullAssumption == /\ NoId \notin Ids
                         /\ NoProfile \notin Contents

Profiles == Contents \cup {NoProfile}

(* state.Settings, and core.Config as runConfig makes it of them. *)
Settings == [choice : Choices, tailscale : BOOLEAN, running : BOOLEAN]
DefaultSettings == [choice |-> FirstChoice, tailscale |-> FALSE, running |-> FALSE]
Configs == [choice : Choices, tailscale : BOOLEAN, profile : Profiles]

ASSUME ConfigAssumption == NoConfig \notin Configs

runConfig(s, p) ==
    [choice |-> s.choice, tailscale |-> s.tailscale, profile |-> p]

(* state.Subscriptions: the listed ids and the active one. *)
Subscriptions == [active : Ids \cup {NoId}, list : SUBSET Ids]

VARIABLES
    up,             \* the daemon process lives
    state,          \* server.state
    settings,       \* server.settings
    subs,           \* server.subs
    profile,        \* server.profile
    restorePending, \* server.restorePending
    op,             \* the holder of opMu and its locals
    dl,             \* the holder of refreshMu and its locals
    found,          \* ids removeSubscription found and waits for opMu with
    core,           \* the config the core runs, or NoConfig
    host,           \* Tailscale's drop-in is in place
    dSettings,      \* settings.json
    dSubs,          \* subscriptions.json
    snapshots,      \* the content stored per id, or NoProfile
    pushed,         \* the values last pushed on the state streams
    \* History, read by properties only:
    acked,          \* the start or stop last answered without an error
    since,          \* what last decided whether the proxy should be up
    hostOk,         \* the last Tailscale sync succeeded
    unsaved         \* ids listed in memory without stored content

memory == <<state, settings, subs, profile, restorePending>>
disk == <<dSettings, dSubs, snapshots>>
history == <<acked, since, hostOk, unsaved>>
vars == <<up, memory, op, dl, found, core, host, disk, pushed, history>>

(***************************************************************************)
(* Shared pieces of the handlers.                                          *)
(***************************************************************************)
Pcs == {"idle", "startOwner", "startLoop", "saveOn", "saveOff",
        "hostOff", "applyNew", "hostBack", "hostOn", "saveSettings",
        "revertOff", "revertCore", "revertOn", "keepNext",
        "addSnapshot", "addSubs", "addForget", "addRevert", "addSettle",
        "refSnapshot", "refRevert", "refRecord", "refFailed",
        "useSave", "useRevert", "useSettle", "rmSnapshot"}

NoOp == [pc |-> "idle", id |-> NoId, profile |-> NoProfile,
         next |-> DefaultSettings, runs |-> FALSE, restored |-> FALSE]
NoDl == [kind |-> "none", id |-> NoId, profile |-> NoProfile]

Idle == up /\ op.pc = "idle"
At(pc) == up /\ op.pc = pc
Goto(pc) == op' = [op EXCEPT !.pc = pc]
Release == op' = NoOp                   \* opMu alone
ReleaseBoth == op' = NoOp /\ dl' = NoDl \* opMu and refreshMu

running == state = "on"
activeSub == IF subs.active \in subs.list THEN subs.active ELSE NoId

(* What a push on the state streams shows of the memory: status, rules and *)
(* subscriptionList.                                                       *)
View == [state |-> state, active |-> activeSub, list |-> subs.list,
         choice |-> settings.choice, tailscale |-> settings.tailscale,
         profile |-> profile]
publishStale == pushed' = View           \* mutant: encodes the memory too early
publish == pushed' = View'

(* The drop-in sync.  A failed one put the drop-in back, or could not. *)
syncHost(on, ok) ==
    /\ hostOk' = ok
    /\ host' = on \/ (~ok /\ host' = host)

(* Geodata and core.Apply on a running core, geodata and core.Check on a   *)
(* stopped one.  "failed" leaves what ran; "stopped" is core.ErrStopped.   *)
Outcomes(runs) ==
    IF runs /\ running THEN {"ok", "failed", "stopped"} ELSE {"ok", "failed"}
reapply(out, cfg) ==
    \/ /\ out = "stopped"
       /\ core' = NoConfig
       /\ state' = "stopped"
       /\ pushed' = [View EXCEPT !.state = "stopped"]
    \/ /\ out = "ok" /\ running
       /\ core' = cfg
       /\ UNCHANGED <<state, pushed>>
    \/ /\ out = "failed" \/ (out = "ok" /\ ~running)
       /\ UNCHANGED <<core, state, pushed>>
acceptContent(runs, out, cfg) ==
    \/ runs /\ reapply(out, cfg)
    \/ ~runs /\ UNCHANGED <<core, state, pushed>>

(* Running the previous config again after a failed save; nothing is left  *)
(* to put back while the core is stopped.                                  *)
rollbackBlind(pc) ==                     \* mutant: takes every outcome for a success
    \E out \in IF running THEN Outcomes(TRUE) ELSE {"ok"} :
        /\ reapply(out, runConfig(settings, profile))
        /\ op' = [op EXCEPT !.pc = pc, !.restored = TRUE]
rollback(pc) ==
    \E out \in IF running THEN Outcomes(TRUE) ELSE {"ok"} :
        /\ reapply(out, runConfig(settings, profile))
        /\ op' = [op EXCEPT !.pc = pc, !.restored = (out = "ok")]

(* Writing the record of one subscription writes the whole list. *)
updateSub(id) ==
    \/ id \in subs.list /\ dSubs' = subs
    \/ UNCHANGED dSubs                       \* gone, or the write failed

(***************************************************************************)
(* start, stop and the restore the refresh loop retries.                   *)
(***************************************************************************)
Starters == {"owner", "loop"}
MayStart(by) == Idle /\ (by = "loop" => restorePending)
StartFailedForgets(by) ==                \* mutant: a failed retry is the last one
    /\ state' = "stopped"
    /\ restorePending' = FALSE
    /\ since' = IF by = "owner" /\ since = "boot" THEN "inVain" ELSE since
    /\ UNCHANGED <<settings, subs>>
StartFailed(by) ==
    /\ state' = "stopped"
    /\ restorePending' = (by = "loop")
    /\ since' = IF by = "owner" /\ since = "boot" THEN "inVain" ELSE since
    /\ UNCHANGED <<settings, subs>>

\* startLocked on a running proxy changes nothing; start still records it.
StartRunning ==
    /\ Idle /\ running
    /\ restorePending' = FALSE
    /\ acked' = "none"
    /\ op' = [NoOp EXCEPT !.pc = "saveOn"]
    /\ UNCHANGED <<up, state, settings, subs, profile, dl, found, core, host,
                   disk, pushed, since, hostOk, unsaved>>

\* The stored settings or rules do not pass, or the content does not load.
StartRefused(by) ==
    /\ MayStart(by) /\ ~running
    /\ StartFailed(by)
    /\ acked' = IF by = "owner" THEN "none" ELSE acked
    /\ UNCHANGED <<up, profile, op, dl, found, core, host, disk, hostOk, unsaved>>
    /\ publish

StartLoaded(by) ==
    /\ MayStart(by) /\ ~running
    /\ restorePending' = FALSE
    /\ activeSub # NoId => snapshots[activeSub] # NoProfile
    /\ profile' = IF activeSub # NoId THEN snapshots[activeSub] ELSE profile
    /\ state' = "starting"
    /\ acked' = IF by = "owner" THEN "none" ELSE acked
    /\ op' = [NoOp EXCEPT !.pc = IF by = "owner" THEN "startOwner" ELSE "startLoop"]
    /\ UNCHANGED <<up, settings, subs, dl, found, core, host, disk,
                   since, hostOk, unsaved>>
    /\ publish

StartUpDegraded(by) ==                   \* mutant: enters the state nothing handles
    /\ At(IF by = "owner" THEN "startOwner" ELSE "startLoop")
    /\ core' = runConfig(settings, profile)
    /\ state' = "degraded"
    /\ since' = "up"
    /\ IF by = "owner" THEN Goto("saveOn") ELSE Release
    /\ UNCHANGED <<up, settings, subs, profile, restorePending, dl, found, host,
                   disk, acked, hostOk, unsaved>>
    /\ publish

StartUp(by) ==
    /\ At(IF by = "owner" THEN "startOwner" ELSE "startLoop")
    /\ core' = runConfig(settings, profile)
    /\ state' = "on"
    /\ since' = "up"
    /\ IF by = "owner" THEN Goto("saveOn") ELSE Release
    /\ UNCHANGED <<up, settings, subs, profile, restorePending, dl, found, host,
                   disk, acked, hostOk, unsaved>>
    /\ publish

StartDown(by) ==
    /\ At(IF by = "owner" THEN "startOwner" ELSE "startLoop")
    /\ StartFailed(by)
    /\ Release
    /\ UNCHANGED <<up, profile, dl, found, core, host, disk, acked, hostOk, unsaved>>
    /\ publish

\* mihomo's Stop always succeeds.
Stop ==
    /\ Idle
    /\ restorePending' = FALSE
    /\ core' = NoConfig
    /\ state' = "stopped"
    /\ acked' = "none" /\ since' = "stopped"
    /\ op' = [NoOp EXCEPT !.pc = "saveOff"]
    /\ UNCHANGED <<up, settings, subs, profile, dl, found, host, disk, hostOk, unsaved>>
    /\ publish

SaveRunning(on) ==
    /\ At(IF on THEN "saveOn" ELSE "saveOff")
    /\ \/ /\ settings.running = on
          /\ UNCHANGED <<settings, dSettings>>
       \/ /\ settings.running # on
          /\ settings' = [settings EXCEPT !.running = on]
          /\ dSettings' = settings'
    /\ acked' = IF on THEN "on" ELSE "off"
    /\ Release
    /\ UNCHANGED <<up, state, subs, profile, restorePending, dl, found, core, host,
                   dSubs, snapshots, pushed, since, hostOk, unsaved>>

SaveRunningFailsLate(on) ==              \* mutant: the memory changes before the write
    /\ At(IF on THEN "saveOn" ELSE "saveOff")
    /\ settings.running # on
    /\ settings' = [settings EXCEPT !.running = on]
    /\ Release
    /\ UNCHANGED <<up, state, subs, profile, restorePending, dl, found, core, host,
                   disk, pushed, history>>

SaveRunningFails(on) ==
    /\ At(IF on THEN "saveOn" ELSE "saveOff")
    /\ settings.running # on
    /\ Release
    /\ UNCHANGED <<up, memory, dl, found, core, host, disk, pushed, history>>

(***************************************************************************)
(* apply and commitSettings.  Tailscale is turned off on the host before   *)
(* the core drops its port, and on after the core opened it.               *)
(***************************************************************************)
TurnsOn == op.next.tailscale /\ ~settings.tailscale
TurnsOff == settings.tailscale /\ ~op.next.tailscale

Apply(next) ==
    /\ Idle
    /\ next.tailscale /\ ~settings.tailscale => TailscalePresent
    /\ next # settings /\ next.running = settings.running
    /\ op' = [NoOp EXCEPT !.next = next,
                          !.pc = IF settings.tailscale /\ ~next.tailscale
                                 THEN "hostOff" ELSE "applyNew"]
    /\ UNCHANGED <<up, memory, dl, found, core, host, disk, pushed, history>>

HostOff ==
    /\ At("hostOff")
    /\ \E ok \in BOOLEAN : /\ syncHost(FALSE, ok)
                           /\ IF ok THEN Goto("applyNew") ELSE Release
    /\ UNCHANGED <<up, memory, dl, found, core, disk, pushed, acked, since, unsaved>>

ApplyNew ==
    /\ At("applyNew")
    /\ \E out \in Outcomes(TRUE) :
        /\ reapply(out, runConfig(op.next, profile))
        /\ \/ out = "ok" /\ TurnsOn /\ Goto("hostOn")
           \/ out = "ok" /\ ~TurnsOn /\ Goto("saveSettings")
           \/ out # "ok" /\ TurnsOff /\ Goto("hostBack")
           \/ out # "ok" /\ ~TurnsOff /\ Release
    /\ UNCHANGED <<up, settings, subs, profile, restorePending, dl, found, host,
                   disk, history>>

HostBack ==
    /\ At("hostBack")
    /\ \E ok \in BOOLEAN : syncHost(settings.tailscale, ok)
    /\ Release
    /\ UNCHANGED <<up, memory, dl, found, core, disk, pushed, acked, since, unsaved>>

HostOn ==
    /\ At("hostOn")
    /\ \E ok \in BOOLEAN : /\ syncHost(TRUE, ok)
                           /\ Goto(IF ok THEN "saveSettings" ELSE "revertOff")
    /\ UNCHANGED <<up, memory, dl, found, core, disk, pushed, acked, since, unsaved>>

SaveSettings ==
    /\ At("saveSettings")
    /\ settings' = op.next /\ dSettings' = op.next
    /\ Release
    /\ UNCHANGED <<up, state, subs, profile, restorePending, dl, found, core, host,
                   dSubs, snapshots, history>>
    /\ publish

SaveSettingsFails ==
    /\ At("saveSettings")
    /\ Goto(IF TurnsOn THEN "revertOff" ELSE "revertCore")
    /\ UNCHANGED <<up, memory, dl, found, core, host, disk, pushed, history>>

RevertOff ==
    /\ At("revertOff")
    /\ \E ok \in BOOLEAN : syncHost(FALSE, ok)
    /\ Goto("revertCore")
    /\ UNCHANGED <<up, memory, dl, found, core, disk, pushed, acked, since, unsaved>>

RevertCore ==
    /\ At("revertCore")
    /\ rollback("revertOn")
    /\ UNCHANGED <<up, settings, subs, profile, restorePending, dl, found, host,
                   disk, history>>

RevertOn ==
    /\ At("revertOn")
    /\ \/ TurnsOff /\ \E ok \in BOOLEAN : syncHost(TRUE, ok)
       \/ ~TurnsOff /\ UNCHANGED <<host, hostOk>>
    /\ IF op.restored THEN Release ELSE Goto("keepNext")
    /\ UNCHANGED <<up, memory, dl, found, core, disk, pushed, acked, since, unsaved>>

KeepNextCoreOnly ==                      \* mutant: leaves the drop-in of the old settings
    /\ At("keepNext")
    /\ settings' = op.next
    /\ Release
    /\ UNCHANGED <<up, state, subs, profile, restorePending, dl, found, core, host,
                   disk, pushed, history>>

\* What could not be put back runs on, unsaved; nothing is published.
KeepNext ==
    /\ At("keepNext")
    /\ settings' = op.next
    /\ \/ /\ TurnsOn \/ TurnsOff
          /\ \E ok \in BOOLEAN : syncHost(op.next.tailscale, ok)
       \/ ~TurnsOn /\ ~TurnsOff /\ UNCHANGED <<host, hostOk>>
    /\ Release
    /\ UNCHANGED <<up, state, subs, profile, restorePending, dl, found, core, disk,
                   pushed, acked, since, unsaved>>

(***************************************************************************)
(* Downloads, under refreshMu alone.  When a server may be asked is the    *)
(* subject of module Refresh; here it may be asked at any time.            *)
(***************************************************************************)
\* Ids are 128 random bits: a fresh one has left no trace anywhere.
Fresh(id) ==
    /\ id \notin subs.list \cup dSubs.list \cup found
    /\ snapshots[id] = NoProfile /\ id # op.id

Taken(url) == \E s \in subs.list : UrlOf[s] = url

AddBegin(id) ==
    /\ up /\ dl.kind = "none"
    /\ Fresh(id)
    /\ ~Taken(UrlOf[id])
    /\ dl' = [kind |-> "add", id |-> id, profile |-> NoProfile]
    /\ UNCHANGED <<up, memory, op, found, core, host, disk, pushed, history>>

RefreshBegin(id) ==
    /\ up /\ dl.kind = "none"
    /\ id \in subs.list
    /\ dl' = [kind |-> "refresh", id |-> id, profile |-> NoProfile]
    /\ UNCHANGED <<up, memory, op, found, core, host, disk, pushed, history>>

Downloaded(p) ==
    /\ up /\ dl.kind # "none" /\ dl.profile = NoProfile
    /\ dl' = [dl EXCEPT !.profile = p]
    /\ UNCHANGED <<up, memory, op, found, core, host, disk, pushed, history>>

AddDownloadFails ==
    /\ up /\ dl.kind = "add" /\ dl.profile = NoProfile
    /\ dl' = NoDl
    /\ UNCHANGED <<up, memory, op, found, core, host, disk, pushed, history>>

(***************************************************************************)
(* addSubscription once its content is there.                              *)
(***************************************************************************)
Got(kind) == Idle /\ dl.kind = kind /\ dl.profile # NoProfile

AddAccept ==
    /\ Got("add")
    /\ LET activate == subs.active = NoId IN
       \E out \in Outcomes(activate) :
        /\ acceptContent(activate, out, runConfig(settings, dl.profile))
        /\ IF out = "ok"
           THEN /\ op' = [NoOp EXCEPT !.pc = "addSnapshot", !.id = dl.id,
                                      !.profile = dl.profile, !.runs = activate]
                /\ UNCHANGED dl
           ELSE ReleaseBoth
    /\ UNCHANGED <<up, settings, subs, profile, restorePending, found, host,
                   disk, history>>

AddSnapshotUnchecked ==                  \* mutant: the write's error is dropped
    /\ At("addSnapshot")
    /\ snapshots' \in {snapshots, [snapshots EXCEPT ![op.id] = op.profile]}
    /\ Goto("addSubs")
    /\ UNCHANGED <<up, memory, dl, found, core, host, dSettings, dSubs, pushed, history>>

AddSnapshot ==
    /\ At("addSnapshot")
    /\ \/ /\ snapshots' = [snapshots EXCEPT ![op.id] = op.profile]
          /\ Goto("addSubs")
       \/ /\ UNCHANGED snapshots
          /\ Goto("addRevert")
    /\ UNCHANGED <<up, memory, dl, found, core, host, dSettings, dSubs, pushed, history>>

WithAdded == [active |-> IF op.runs THEN op.id ELSE subs.active,
              list |-> subs.list \cup {op.id}]

AddSubs ==
    /\ At("addSubs")
    /\ subs' = WithAdded /\ dSubs' = WithAdded
    /\ profile' = IF op.runs THEN op.profile ELSE profile
    /\ ReleaseBoth
    /\ UNCHANGED <<up, state, settings, restorePending, found, core, host,
                   dSettings, snapshots, history>>
    /\ publish

AddSubsFails ==
    /\ At("addSubs")
    /\ Goto("addForget")
    /\ UNCHANGED <<up, memory, dl, found, core, host, disk, pushed, history>>

RemoveSnapshot(id) ==
    snapshots' \in {snapshots, [snapshots EXCEPT ![id] = NoProfile]}

AddForget ==
    /\ At("addForget")
    /\ RemoveSnapshot(op.id)
    /\ Goto("addRevert")
    /\ UNCHANGED <<up, memory, dl, found, core, host, dSettings, dSubs, pushed, history>>

AddRevert ==
    /\ At("addRevert")
    /\ \/ op.runs /\ rollback("addSettle")
       \/ /\ ~op.runs
          /\ op' = [op EXCEPT !.pc = "addSettle", !.restored = TRUE]
          /\ UNCHANGED <<core, state, pushed>>
    /\ UNCHANGED <<up, settings, subs, profile, restorePending, dl, found, host,
                   disk, history>>

\* A runtime that does not go back is listed, with or without its content.
AddSettle ==
    /\ At("addSettle")
    /\ \/ op.restored /\ UNCHANGED <<subs, profile, unsaved>>
       \/ /\ ~op.restored
          /\ subs' = WithAdded
          /\ profile' = op.profile
          /\ unsaved' = unsaved \cup {op.id}
    /\ ReleaseBoth
    /\ UNCHANGED <<up, state, settings, restorePending, found, core, host, disk,
                   acked, since, hostOk>>
    /\ publish

(***************************************************************************)
(* refresh once its download ended.                                        *)
(***************************************************************************)
RefreshDownloadFails ==
    /\ Idle /\ dl.kind = "refresh" /\ dl.profile = NoProfile
    /\ updateSub(dl.id)
    /\ ReleaseBoth
    /\ UNCHANGED <<up, memory, found, core, host, dSettings, snapshots, history>>
    /\ publish

RefreshGone ==
    /\ Got("refresh") /\ dl.id \notin subs.list
    /\ ReleaseBoth
    /\ UNCHANGED <<up, memory, found, core, host, disk, pushed, history>>

RefreshAccept ==
    /\ Got("refresh") /\ dl.id \in subs.list
    /\ LET active == subs.active = dl.id IN
       \E out \in Outcomes(active) :
        /\ acceptContent(active, out, runConfig(settings, dl.profile))
        /\ op' = [NoOp EXCEPT !.pc = IF out = "ok" THEN "refSnapshot" ELSE "refFailed",
                              !.id = dl.id, !.profile = dl.profile, !.runs = active]
    /\ UNCHANGED <<up, settings, subs, profile, restorePending, dl, found, host,
                   disk, history>>

RefreshFailed ==
    /\ At("refFailed")
    /\ updateSub(op.id)
    /\ ReleaseBoth
    /\ UNCHANGED <<up, memory, found, core, host, dSettings, snapshots, history>>
    /\ publish

RefreshSnapshot ==
    /\ At("refSnapshot")
    /\ snapshots' = [snapshots EXCEPT ![op.id] = op.profile]
    /\ profile' = IF op.runs THEN op.profile ELSE profile
    /\ unsaved' = unsaved \ {op.id}
    /\ Goto("refRecord")
    /\ UNCHANGED <<up, state, settings, subs, restorePending, dl, found, core, host,
                   dSettings, dSubs, pushed, acked, since, hostOk>>

RefreshSnapshotFails ==
    /\ At("refSnapshot")
    /\ IF op.runs THEN Goto("refRevert") /\ UNCHANGED dl ELSE ReleaseBoth
    /\ UNCHANGED <<up, memory, found, core, host, disk, pushed, history>>

\* Neither the request nor a content that runs on unsaved is published.
RefreshRevert ==
    /\ At("refRevert")
    /\ \E out \in IF running THEN Outcomes(TRUE) ELSE {"ok"} :
        /\ reapply(out, runConfig(settings, profile))
        /\ profile' = IF out = "ok" THEN profile ELSE op.profile
    /\ ReleaseBoth
    /\ UNCHANGED <<up, settings, subs, restorePending, found, host, disk, history>>

RefreshRecord ==
    /\ At("refRecord")
    /\ dSubs' = subs
    /\ ReleaseBoth
    /\ UNCHANGED <<up, memory, found, core, host, dSettings, snapshots, history>>
    /\ publish

RefreshRecordFails ==
    /\ At("refRecord")
    /\ ReleaseBoth
    /\ UNCHANGED <<up, memory, found, core, host, disk, pushed, history>>

(***************************************************************************)
(* activateSubscription and removeSubscription.                            *)
(***************************************************************************)
Activate(id) ==
    /\ Idle
    /\ id \in subs.list /\ subs.active # id
    /\ snapshots[id] # NoProfile
    /\ \E out \in Outcomes(TRUE) :
        /\ acceptContent(TRUE, out, runConfig(settings, snapshots[id]))
        /\ IF out = "ok"
           THEN op' = [NoOp EXCEPT !.pc = "useSave", !.id = id,
                                   !.profile = snapshots[id], !.runs = TRUE]
           ELSE Release
    /\ UNCHANGED <<up, settings, subs, profile, restorePending, dl, found, host,
                   disk, history>>

ActivateSave ==
    /\ At("useSave")
    /\ subs' = [subs EXCEPT !.active = op.id] /\ dSubs' = subs'
    /\ profile' = op.profile
    /\ Release
    /\ UNCHANGED <<up, state, settings, restorePending, dl, found, core, host,
                   dSettings, snapshots, history>>
    /\ publish

ActivateSaveFails ==
    /\ At("useSave")
    /\ Goto("useRevert")
    /\ UNCHANGED <<up, memory, dl, found, core, host, disk, pushed, history>>

ActivateRevert ==
    /\ At("useRevert")
    /\ rollback("useSettle")
    /\ UNCHANGED <<up, settings, subs, profile, restorePending, dl, found, host,
                   disk, history>>

ActivateSettle ==
    /\ At("useSettle")
    /\ \/ op.restored /\ UNCHANGED <<subs, profile>>
       \/ /\ ~op.restored
          /\ subs' = [subs EXCEPT !.active = op.id]
          /\ profile' = op.profile
    /\ Release
    /\ UNCHANGED <<up, state, settings, restorePending, dl, found, core, host, disk,
                   history>>
    /\ publish

RemoveFind(id) ==
    /\ up /\ id \in subs.list
    /\ found' = found \cup {id}
    /\ UNCHANGED <<up, memory, op, dl, core, host, disk, pushed, history>>

\* Callers that found the same id wait together: one of them goes on.
TakeFound(id) == id \in found /\ found' \in {found, found \ {id}}

InUse(id) == subs.active = id /\ running

RemoveRefused(id) ==
    /\ Idle /\ TakeFound(id)
    /\ InUse(id)
    /\ UNCHANGED <<up, memory, op, dl, core, host, disk, pushed, history>>

Without(id) == [active |-> IF subs.active = id THEN NoId ELSE subs.active,
                list |-> subs.list \ {id}]

Remove(id) ==
    /\ Idle /\ TakeFound(id)
    /\ ~InUse(id)
    /\ \/ /\ subs' = Without(id) /\ dSubs' = Without(id)
          /\ profile' = IF subs.active = id THEN NoProfile ELSE profile
          /\ unsaved' = unsaved \ {id}
          /\ op' = [NoOp EXCEPT !.pc = "rmSnapshot", !.id = id]
       \/ UNCHANGED <<subs, dSubs, profile, unsaved, op>>   \* the write failed
    /\ UNCHANGED <<up, state, settings, restorePending, dl, core, host, dSettings,
                   snapshots, pushed, acked, since, hostOk>>

RemoveContent ==
    /\ At("rmSnapshot")
    /\ RemoveSnapshot(op.id)
    /\ Release
    /\ UNCHANGED <<up, memory, dl, found, core, host, dSettings, dSubs, history>>
    /\ publish

(***************************************************************************)
(* The process: a crash, a kill or a shutdown loses the memory and the     *)
(* engine, which lives in the process; New reads the disk again.           *)
(***************************************************************************)
Crash ==
    /\ up
    /\ up' = FALSE
    /\ state' = "stopped" /\ settings' = dSettings /\ subs' = dSubs
    /\ profile' = NoProfile /\ restorePending' = FALSE
    /\ op' = NoOp /\ dl' = NoDl /\ found' = {}
    /\ core' = NoConfig
    /\ unsaved' = unsaved \cap dSubs.list
    /\ UNCHANGED <<host, disk, acked, since, hostOk>>
    /\ publish

Boot ==
    /\ ~up
    /\ up' = TRUE
    /\ syncHost(dSettings.tailscale, TRUE)
    /\ restorePending' = settings.running
    /\ profile' \in IF activeSub # NoId THEN {snapshots[activeSub], NoProfile}
                                        ELSE {NoProfile}
    /\ since' = IF settings.running THEN "boot" ELSE "stopped"
    /\ UNCHANGED <<state, settings, subs, op, dl, found, core, disk, acked, unsaved>>
    /\ publish

BootFails ==
    /\ ~up
    /\ syncHost(dSettings.tailscale, FALSE)
    /\ UNCHANGED <<up, memory, op, dl, found, core, disk, pushed, acked, since, unsaved>>

Init ==
    /\ up = FALSE
    /\ state = "stopped"
    /\ settings = DefaultSettings /\ dSettings = DefaultSettings
    /\ subs = [active |-> NoId, list |-> {}] /\ dSubs = subs
    /\ profile = NoProfile
    /\ restorePending = FALSE
    /\ op = NoOp /\ dl = NoDl /\ found = {}
    /\ core = NoConfig
    /\ host = FALSE
    /\ snapshots = [id \in Ids |-> NoProfile]
    /\ pushed = View
    /\ acked = "none" /\ since = "stopped" /\ hostOk = TRUE /\ unsaved = {}

StartStop ==
    \/ StartRunning \/ Stop
    \/ \E by \in Starters : StartRefused(by) \/ StartLoaded(by) \/ StartUp(by) \/ StartDown(by)
    \/ \E on \in BOOLEAN : SaveRunning(on) \/ SaveRunningFails(on)
Commit ==
    \/ \E next \in Settings : Apply(next)
    \/ HostOff \/ ApplyNew \/ HostBack \/ HostOn \/ SaveSettings \/ SaveSettingsFails
    \/ RevertOff \/ RevertCore \/ RevertOn \/ KeepNext
Add ==
    \/ \E id \in Ids : AddBegin(id)
    \/ AddDownloadFails \/ AddAccept \/ AddSnapshot \/ AddSubs \/ AddSubsFails
    \/ AddForget \/ AddRevert \/ AddSettle
Refresh ==
    \/ \E id \in Ids : RefreshBegin(id)
    \/ \E p \in Contents : Downloaded(p)
    \/ RefreshDownloadFails \/ RefreshGone \/ RefreshAccept \/ RefreshFailed
    \/ RefreshSnapshot \/ RefreshSnapshotFails \/ RefreshRevert
    \/ RefreshRecord \/ RefreshRecordFails
UseRemove ==
    \/ \E id \in Ids : Activate(id) \/ RemoveFind(id) \/ RemoveRefused(id) \/ Remove(id)
    \/ ActivateSave \/ ActivateSaveFails \/ ActivateRevert \/ ActivateSettle
    \/ RemoveContent
Process == Crash \/ Boot \/ BootFails

Next == StartStop \/ Commit \/ Add \/ Refresh \/ UseRemove \/ Process
Spec == Init /\ [][Next]_vars

(***************************************************************************)
(* Properties.                                                             *)
(***************************************************************************)
AddPcs == {"addSnapshot", "addSubs", "addForget", "addRevert", "addSettle"}
States == {"stopped", "starting", "on"}
Ops == [pc : Pcs, id : Ids \cup {NoId}, profile : Profiles, next : Settings,
        runs : BOOLEAN, restored : BOOLEAN]
Downloads == [kind : {"none", "add", "refresh"}, id : Ids \cup {NoId},
              profile : Profiles]
Views == [state : States, active : Ids \cup {NoId}, list : SUBSET Ids,
          choice : Choices, tailscale : BOOLEAN, profile : Profiles]

\* Every variable keeps its type.
TypeOK ==
    /\ up \in BOOLEAN
    /\ state \in States
    /\ settings \in Settings /\ dSettings \in Settings
    /\ subs \in Subscriptions /\ dSubs \in Subscriptions
    /\ profile \in Profiles
    /\ restorePending \in BOOLEAN
    /\ op \in Ops
    /\ dl \in Downloads
    /\ op.pc \in AddPcs => op.id \in Ids
    /\ dl.kind # "none" => dl.id \in Ids
    /\ found \in SUBSET Ids
    /\ core \in Configs \cup {NoConfig}
    /\ host \in BOOLEAN
    /\ snapshots \in [Ids -> Profiles]
    /\ pushed \in Views
    /\ acked \in {"none", "on", "off"}
    /\ since \in {"stopped", "boot", "inVain", "up"}
    /\ hostOk \in BOOLEAN
    /\ unsaved \in SUBSET Ids

\* Between calls the engine runs exactly the config of the settings and the
\* profile the daemon shows while it says it is on, and nothing while it does
\* not: whichever of the applies, saves, syncs and rollbacks of the calls
\* before failed (commitSettings, rollback, and the reverts of add, refresh
\* and activate).
RunsWhatItShows ==
    Idle => core = IF running THEN runConfig(settings, profile) ELSE NoConfig

\* Whatever instant a crash falls in, subscriptions.json lists only
\* subscriptions whose content is stored, so that a restart can load them:
\* content is written before the list names it and removed after it no
\* longer does.  The exception is a subscription whose add could neither be
\* saved nor taken back (addSubscription's revert).
ListedContentStored ==
    \A id \in dSubs.list : snapshots[id] = NoProfile => id \in unsaved

\* The active subscription is a listed one, in memory and on disk.
ActiveListed == /\ subs.active \in subs.list \cup {NoId}
                /\ dSubs.active \in dSubs.list \cup {NoId}

\* No two subscriptions have one URL, though addSubscription looks for the
\* URL before the download and lists the new one after it.
UniqueUrls ==
    \A i, j \in subs.list : UrlOf[i] = UrlOf[j] => i = j

\* What the list of subscriptions promises, through races of downloads with the
\* other calls, failed saves and crashes between two writes.
ListSound == ListedContentStored /\ ActiveListed /\ UniqueUrls

\* A start or a stop answered without an error is what settings.json says,
\* through crashes and through settings changed since (saveRunning writes
\* nothing when the memory already agrees).
AckedIsStored == /\ acked = "on" => dSettings.running
                 /\ acked = "off" => ~dSettings.running

\* Between calls Tailscale's drop-in is what the settings say, unless the last
\* sync itself failed: whatever else of commitSettings failed or was reverted.
HostFollowsSettings == Idle /\ hostOk => host = settings.tailscale

\* Between calls the state, the active subscription and the list last pushed
\* are the current ones.
StatusPushed ==
    Idle => /\ pushed.state = state
            /\ pushed.active = activeSub
            /\ pushed.list = subs.list

\* A proxy that was on before the daemon restarted stays due a retry until it
\* comes up, or the owner starts or stops it (retryRestore).
RetriedUntilUp == Idle /\ since = "boot" => restorePending

\* A proxy that keeps running keeps an active subscription once it has one:
\* removeSubscription refuses it, however stale the record it found before it
\* waited for opMu.
KeepsActive ==
    [][running /\ running' /\ subs.active # NoId => subs'.active # NoId]_vars

(***************************************************************************)
(* The inductive strengthening of the invariants above: what holds inside  *)
(* the calls, by program counter.                                          *)
(***************************************************************************)
RefPcs == {"refSnapshot", "refRevert", "refRecord", "refFailed"}
UsePcs == {"useSave", "useRevert", "useSettle"}
ApplyPcs == {"hostOff", "applyNew", "hostBack", "hostOn", "saveSettings",
             "revertOff", "revertCore", "revertOn", "keepNext"}

\* The new settings run, or the new content does.
NextRuns == \/ op.pc \in {"hostOn", "saveSettings", "revertOff", "revertCore"}
            \/ op.pc \in {"revertOn", "keepNext"} /\ ~op.restored
ContentRuns ==
    \/ op.pc \in {"addSnapshot", "addSubs", "addForget", "addRevert",
                  "refSnapshot", "refRevert", "useSave", "useRevert"} /\ op.runs
    \/ op.pc \in {"addSettle", "useSettle"} /\ ~op.restored
Expected == runConfig(IF NextRuns THEN op.next ELSE settings,
                      IF ContentRuns THEN op.profile ELSE profile)

\* The engine runs what the call in progress last gave it.
CoreInv ==
    /\ core = IF running THEN Expected ELSE NoConfig
    /\ op.pc \in {"startOwner", "startLoop"} => state = "starting"
    /\ op.pc \in UsePcs \cup {"refRevert"} => op.runs
    /\ op.pc = "keepNext" => ~op.restored
    /\ ~up => state = "stopped" /\ op = NoOp

\* Which ids the call and the download in progress are about, and that the
\* disk lists nothing the memory does not.
SubsInv ==
    /\ dSubs.list \subseteq subs.list
    /\ ActiveListed
    /\ \A id \in subs.list : snapshots[id] = NoProfile => id \in unsaved
    /\ dl.kind = "add" => dl.id \notin subs.list
    /\ op.pc \in AddPcs => dl.kind = "add"
    /\ op.pc \in RefPcs => dl.kind = "refresh" /\ op.id \in subs.list
    /\ op.pc \in AddPcs \cup RefPcs => /\ op.id = dl.id /\ op.profile = dl.profile
                                      /\ dl.profile # NoProfile
    /\ op.pc \in UsePcs => op.id \in subs.list
    /\ op.pc = "rmSnapshot" => op.id \in Ids \ subs.list
    /\ op.pc = "addSubs" => snapshots[op.id] # NoProfile
    /\ ~up => op = NoOp /\ dl = NoDl

\* The URL of a subscription being added is not listed meanwhile.
UrlInv ==
    /\ UniqueUrls
    /\ dl.kind = "add" => \A s \in subs.list : UrlOf[s] # UrlOf[dl.id]

\* Memory and disk agree on Running, and no settings change touches it.
AckedInv ==
    /\ dSettings.running = settings.running
    /\ op.pc \in ApplyPcs => op.next.running = settings.running
    /\ AckedIsStored

\* What the drop-in is at each step of a settings change.
HostNow ==
    CASE op.pc \in {"applyNew", "hostBack", "hostOn", "revertCore", "revertOn"}
            -> settings.tailscale /\ op.next.tailscale
      [] op.pc \in {"saveSettings", "revertOff"} -> op.next.tailscale
      [] OTHER -> settings.tailscale
HostInv ==
    /\ up /\ hostOk => host = HostNow
    /\ op.pc \in {"hostOff", "hostBack"} => TurnsOff
    /\ op.pc \in {"hostOn", "revertOff"} => TurnsOn
    /\ ~up => op = NoOp /\ settings = dSettings

\* Only a removal leaves the pushed status behind, until it ends.
PushedInv ==
    op.pc # "rmSnapshot" => /\ pushed.state = state
                            /\ pushed.active = activeSub
                            /\ pushed.list = subs.list

\* A restore is due, or being tried.
RestoreInv ==
    /\ up /\ since = "boot" => restorePending \/ op.pc \in {"startOwner", "startLoop"}
    /\ up /\ since = "boot" => ~running

(***************************************************************************)
(* Liveness.                                                               *)
(***************************************************************************)
Readable == activeSub # NoId => snapshots[activeSub] # NoProfile

\* A handler goes on to its end.  opMu is a sync.Mutex, which hands itself to
\* a waiter that starves, so the loop's tick gets its turn between calls; and
\* what kept the proxy from starting does not last: some attempt succeeds.
HandlerStep == op.pc # "idle" /\ Next /\ op' # op /\ up'
Fairness == /\ WF_vars(HandlerStep)
            /\ SF_vars(StartLoaded("loop"))
            /\ SF_vars(StartUp("loop"))
FairSpec == Spec /\ Fairness

\* A proxy that was on before the daemon restarted comes up again, unless the
\* owner starts or stops it, its content is gone or the daemon goes down
\* first: the refresh loop keeps retrying between the other calls.
RestoreComesUp ==
    up /\ since = "boot" /\ Readable ~> since # "boot" \/ ~up \/ ~Readable

=============================================================================
