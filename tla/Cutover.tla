------------------------------ MODULE Cutover ------------------------------
(***************************************************************************)
(* `omihomo claim`: the one move of an old script install to the packaged  *)
(* daemon (internal/cli/cutover.go, claim.go, internal/migration).  A run  *)
(* inspects the old install, stages an import of its data, stops both      *)
(* sides, installs the import, writes the owner's setting files, takes the *)
(* old pieces away, claims the install, applies the files and checks the   *)
(* daemon.  Every step may fail, and the run then undoes what it did in    *)
(* reverse; the process may also die anywhere and be run again.  Next to   *)
(* it the old updater writes the old data under its lock, and the packaged *)
(* daemon's present owner may save settings.                               *)
(*                                                                         *)
(* The data are abstracted to what the properties tell apart: old data are *)
(* a version number, a setting file is the import's, the owner's own, the  *)
(* default or absent, and a drop-in of tailscaled is absent, the old one   *)
(* or the daemon's.                                                        *)
(***************************************************************************)
EXTENDS Naturals, Sequences, FiniteSets

CONSTANTS
    Installs,     \* the sets of old pieces a machine may start with
    Worlds,       \* [linked: the config directory is a symbolic link,
                  \*  proxied: the setting files that turn Tailscale on]
    MaxVersion,   \* bound on the updates of the old data
    MaxFaults     \* bound on failed steps and crashes

Units == {"service", "timer"}
Pieces == Units \cup {"hooks", "caps", "launcher", "alien"}
RemovedPartly == <<"service", "timer", "hooks", "launcher">>
Removed == <<"service", "timer", "hooks", "caps", "launcher">>
Sources == {"default", "imp", "own"}
Kinds == {"settings", "rules"}
Cfgs == [Kinds -> Sources]
Files == [Kinds -> Sources \cup {"none"}]
Pair(s) == [k \in Kinds |-> s]
NoCfg == Pair("unsaved")

(* The state directory: its owner record, the version of the data it holds *)
(* (0: none), the settings it saved and whether the proxy is to run.       *)
Dirs == [owner : {"none", "me", "other"}, data : 0 .. MaxVersion,
         cfg : Cfgs \cup {NoCfg}, on : BOOLEAN]
Bare == [owner |-> "none", data |-> 0, cfg |-> NoCfg, on |-> FALSE]

(* The packaged daemon; "stray" marks one that a recovery could not stop.  *)
Daemons == [up : BOOLEAN, cfg : Cfgs, on : BOOLEAN, stray : BOOLEAN]
Down == [up |-> FALSE, cfg |-> Pair("default"), on |-> FALSE, stray |-> FALSE]
NoImport == [data |-> 0, owner |-> "none", locked |-> FALSE, installed |-> FALSE]

ASSUME CutoverAssumption ==
    /\ Installs \subseteq SUBSET Pieces
    /\ Worlds \subseteq [linked : BOOLEAN, proxied : SUBSET Sources]
    /\ MaxVersion \in Nat \ {0} /\ MaxFaults \in Nat

VARIABLES
    world, placed, oldUp, oldData, lock,   \* the old install
    files, tsFile, tsRuns, socket,         \* the owner's files, the drop-ins
    dir, backup, daemon,                   \* the packaged daemon and its state
    pc, changed, legacy, active, hadTS, import, undo,   \* the run
    broken, crashed, faults, last, before              \* what happened

old == <<world, oldData, lock>>
outside == <<files, tsFile, tsRuns, socket>>
host == <<placed, oldUp, outside, dir, backup, daemon>>
run == <<changed, legacy, active, hadTS, import, undo>>
past == <<broken, crashed, faults, last, before>>
vars == <<old, host, pc, run, past>>

Steps == {"prepare", "stopNew", "stopOld", "backup", "install", "settings",
          "rules", "remove", "tailscale", "owner", "socket", "restop", "start",
          "apply", "saveSettings", "saveRules", "check", "tidy", "done"}
Recovery == {"rStop", "rUndo", "rData", "rBack", "rTail", "rStart"}
Undos == (Pieces \X {"piece"}) \cup (Kinds \X {"file"})
            \cup ({"none", "old", "new"} \X {"tailscale"})

Before == [placed |-> placed, oldUp |-> oldUp, files |-> files,
           tsFile |-> tsFile, tsRuns |-> tsRuns, data |-> dir.data,
           owner |-> dir.owner]

Init ==
    /\ world \in Worlds /\ placed \in Installs
    /\ oldUp \in {{}, placed \cap Units}
    /\ oldData \in {0, 1} /\ lock \in {"absent", "free"}
    /\ files \in {[settings |-> s, rules |-> "none"] : s \in {"none", "own"}}
    /\ tsFile \in {"none", "old"} /\ tsRuns = tsFile /\ socket = "none"
    /\ dir \in {Bare, [Bare EXCEPT !.owner = "other"]}
    /\ daemon = [Down EXCEPT !.up = (dir.owner = "other")]
    /\ backup = Bare /\ pc = "idle" /\ changed = FALSE /\ legacy = FALSE
    /\ active = {} /\ hadTS = FALSE /\ import = NoImport /\ undo = <<>>
    /\ broken = FALSE /\ crashed = FALSE /\ faults = 0 /\ last = "none"
    /\ before = Before

------------------------------------------------------------------------------
(* The end of a run: staged.Close gives the old lock back.                 *)
Release == lock' = IF lock = "cutover" THEN "free" ELSE lock

End(result) ==
    /\ pc' = "idle" /\ last' = result /\ Release
    /\ changed' = FALSE /\ undo' = <<>> /\ import' = NoImport

(* A run starts: the claim lock admits one at a time.  With --keep-owner   *)
(* another account's install is refused, and so is a launcher that is not  *)
(* the old one.                                                            *)
Refused(keep) ==
    \/ keep /\ dir.owner = "other"
    \/ "alien" \in placed

Run(keep) ==
    /\ pc = "idle" /\ last # "ok"
    /\ IF Refused(keep)
       THEN /\ last' = "refused"
            /\ UNCHANGED <<pc, legacy, active, before>>
       ELSE /\ pc' = "prepare" /\ last' = "none"
            /\ active' = oldUp /\ legacy' = FALSE /\ before' = Before
    /\ UNCHANGED <<old, placed, oldUp, outside, dir, backup, daemon, changed, hadTS,
                   import, undo, broken, crashed, faults>>

EmptyState == dir.cfg = NoCfg /\ dir.data = 0

(* migration.Prepare: state that exists is never replaced and a missing    *)
(* old list means there is nothing to import; otherwise the old lock must  *)
(* be free and the state directory empty, the data and the owner record    *)
(* are copied to a staging directory, and the lock is held to the end of   *)
(* the run.  Without an import, units or hooks this is a plain claim.      *)
StagingAgain == oldData # 0
Staging == dir.data = 0 /\ oldData # 0
HoldsUnlocked == lock
Holds == IF lock = "free" THEN "cutover" ELSE lock

Prepare ==
    /\ pc = "prepare"
    /\ LET stage == Staging
           isLegacy == stage \/ placed \cap (Units \cup {"hooks"}) # {}
       IN  IF stage /\ (lock = "updater" \/ ~EmptyState)
           THEN /\ End("refused")
                /\ UNCHANGED <<legacy, hadTS>>
           ELSE /\ import' = IF stage THEN [data |-> oldData, owner |-> dir.owner,
                                            locked |-> lock # "absent",
                                            installed |-> FALSE]
                             ELSE NoImport
                /\ lock' = IF stage THEN Holds ELSE lock
                /\ legacy' = isLegacy /\ hadTS' = FALSE
                /\ pc' = IF isLegacy THEN "stopNew" ELSE "owner"
                /\ UNCHANGED <<changed, undo, last>>
    /\ UNCHANGED <<world, oldData, placed, oldUp, outside, dir, backup, daemon, active,
                   broken, crashed, faults, before>>

(* systemctl stop of the packaged units; only now is there anything to     *)
(* recover.                                                                *)
StopNew ==
    /\ pc = "stopNew" /\ pc' = "stopOld"
    /\ daemon' = Down /\ changed' = TRUE
    /\ UNCHANGED <<old, placed, oldUp, outside, dir, backup, legacy, active, hadTS,
                   import, undo, past>>

StopOldSkipped ==
    /\ pc = "stopOld"
    /\ pc' = IF import.data # 0 THEN "backup" ELSE "remove"
    /\ UNCHANGED <<old, placed, oldUp, outside, dir, backup, daemon, run, past>>

StopOld ==
    /\ pc = "stopOld"
    /\ oldUp' = {}
    /\ pc' = IF import.data # 0 THEN "backup" ELSE "remove"
    /\ UNCHANGED <<old, placed, outside, dir, backup, daemon, run, past>>

(* Commit: the state is checked again now that the daemon is stopped, the  *)
(* directory moved aside and the staged one put in its place.              *)
Backup ==
    /\ pc = "backup" /\ EmptyState /\ pc' = "install"
    /\ backup' = dir /\ dir' = Bare
    /\ UNCHANGED <<old, placed, oldUp, outside, daemon, run, past>>

BackupRefused ==
    /\ pc = "backup" /\ ~EmptyState /\ pc' = "rStop"
    /\ UNCHANGED <<old, placed, oldUp, outside, dir, backup, daemon, run, past>>

Install ==
    /\ pc = "install" /\ pc' = "settings"
    /\ dir' = [owner |-> import.owner, data |-> import.data, cfg |-> Pair("imp"),
               on |-> "service" \in active]
    /\ import' = [import EXCEPT !.installed = TRUE]
    /\ UNCHANGED <<old, placed, oldUp, outside, backup, daemon, changed, legacy, active,
                   hadTS, undo, past>>

(* The second rename fails: Commit itself puts the old directory back.     *)
(* When that fails as well there is no state directory left, and the       *)
(* recovery, with nothing installed to roll back, does not bring it back.  *)
InstallFails ==
    /\ pc = "install" /\ faults < MaxFaults /\ faults' = faults + 1
    /\ pc' = "rStop"
    /\ \/ dir' = backup /\ UNCHANGED broken
       \/ broken' = TRUE /\ UNCHANGED dir
    /\ UNCHANGED <<old, placed, oldUp, outside, backup, daemon, run, crashed, last,
                   before>>

(* writeSettings: not through a link, and not beside a file of the owner.  *)
WritesFiles == ~world.linked /\ \A k \in Kinds : files[k] = "none"

WriteFile(k, next) ==
    /\ files' = [files EXCEPT ![k] = "imp"]
    /\ undo' = Append(undo, <<k, "file">>)
    /\ pc' = next

WriteSettings ==
    /\ pc = "settings"
    /\ \/ WritesFiles /\ WriteFile("settings", "rules")
       \/ ~WritesFiles /\ pc' = "remove" /\ UNCHANGED <<files, undo>>
    /\ UNCHANGED <<old, placed, oldUp, tsFile, tsRuns, socket, dir, backup, daemon,
                   changed, legacy, active, hadTS, import, past>>

WriteRules ==
    /\ pc = "rules" /\ WriteFile("rules", "remove")
    /\ UNCHANGED <<old, placed, oldUp, tsFile, tsRuns, socket, dir, backup, daemon,
                   changed, legacy, active, hadTS, import, past>>

(* The unit files and their wants links, the pacman hooks, the privileges  *)
(* of the old binary and the launcher go in this order, each with its undo.*)
Here(i) == Removed[i] \in placed

Remove ==
    /\ pc = "remove"
    /\ \/ \E i \in DOMAIN Removed :
            /\ Here(i) /\ \A j \in 1 .. i - 1 : ~Here(j)
            /\ placed' = placed \ {Removed[i]}
            /\ undo' = Append(undo, <<Removed[i], "piece">>)
            /\ pc' = pc
       \/ /\ \A i \in DOMAIN Removed : ~Here(i)
          /\ pc' = "tailscale" /\ UNCHANGED <<placed, undo>>
    /\ UNCHANGED <<old, oldUp, outside, dir, backup, daemon, changed, legacy, active,
                   hadTS, import, past>>

TailscaleNoUndo ==
    /\ pc = "tailscale" /\ pc' = "owner"
    /\ hadTS' = (tsFile # "none") /\ tsFile' = "none"
    /\ undo' = IF hadTS' THEN Append(undo, <<tsFile, "tailscale">>) ELSE undo
    /\ UNCHANGED <<old, placed, oldUp, files, tsRuns, socket, dir, backup, daemon,
                   changed, legacy, active, import, past>>

(* tailscaled's drop-in is moved aside; when there is none, the undo takes *)
(* away the one the daemon may write.                                      *)
Tailscale ==
    /\ pc = "tailscale" /\ pc' = "owner"
    /\ hadTS' = (tsFile # "none") /\ tsFile' = "none"
    /\ undo' = Append(undo, <<tsFile, "tailscale">>)
    /\ UNCHANGED <<old, placed, oldUp, files, tsRuns, socket, dir, backup, daemon,
                   changed, legacy, active, import, past>>

------------------------------------------------------------------------------
(* claimer.claim: the owner record, the socket's drop-in, then both units  *)
(* stopped and started, whatever the files held before.                    *)
StoreOwner ==
    /\ pc = "owner" /\ pc' = "socket"
    /\ dir' = [dir EXCEPT !.owner = "me"]
    /\ UNCHANGED <<old, placed, oldUp, outside, backup, daemon, run, past>>

WriteDropIn ==
    /\ pc = "socket" /\ pc' = "restop"
    /\ socket' = "me"
    /\ UNCHANGED <<old, placed, oldUp, files, tsFile, tsRuns, dir, backup, daemon, run,
                   past>>

Restop ==
    /\ pc = "restop" /\ pc' = "start"
    /\ daemon' = Down
    /\ UNCHANGED <<old, placed, oldUp, outside, dir, backup, run, past>>

(* tailscale.Sync: nothing to do when the drop-in already says it;         *)
(* otherwise it is written or removed and tailscaled restarted on it.      *)
Sync(cfg) ==
    LET want == IF cfg["settings"] \in world.proxied THEN "new" ELSE "none"
    IN  IF tsFile = want
        THEN UNCHANGED <<tsFile, tsRuns>>
        ELSE tsFile' = want /\ tsRuns' = want

Loaded(cfg) == IF cfg = NoCfg THEN Pair("default") ELSE cfg

Start ==
    /\ pc = "start"
    /\ pc' = IF ~legacy THEN "tidy" ELSE IF import.data # 0 THEN "apply" ELSE "check"
    /\ daemon' = [Down EXCEPT !.up = TRUE, !.cfg = Loaded(dir.cfg), !.on = dir.on]
    /\ Sync(Loaded(dir.cfg))
    /\ UNCHANGED <<old, placed, oldUp, files, socket, dir, backup, run, past>>

(* omihomo apply, as the owner: a missing file means the defaults.  The    *)
(* daemon runs and stores what the files say before they are saved.        *)
OrDefaults(fs) == [k \in Kinds |-> IF fs[k] = "none" THEN "default" ELSE fs[k]]
FromFiles == OrDefaults(files)

Apply ==
    /\ pc = "apply" /\ pc' = "saveSettings"
    /\ daemon' = [daemon EXCEPT !.cfg = FromFiles]
    /\ dir' = [dir EXCEPT !.cfg = FromFiles]
    /\ Sync(FromFiles)
    /\ UNCHANGED <<old, placed, oldUp, files, socket, backup, run, past>>

(* settings.Save writes settings.json, then rules.json, also one that was  *)
(* missing, and a recovery has no undo for it.  (It may also lay out again *)
(* a file of the owner's own, which keeps its values.)                     *)
SaveFile(k, next) == files' = [files EXCEPT ![k] = FromFiles[k]] /\ pc' = next

Save ==
    /\ \/ pc = "saveSettings" /\ SaveFile("settings", "saveRules")
       \/ pc = "saveRules" /\ SaveFile("rules", "check")
    /\ UNCHANGED <<old, placed, oldUp, tsFile, tsRuns, socket, dir, backup, daemon, run,
                   past>>

(* check: omihomo start when the old service ran, else omihomo status.     *)
Check ==
    /\ pc = "check" /\ pc' = "done"
    /\ LET on == "service" \in active \/ daemon.on
       IN  /\ daemon' = [daemon EXCEPT !.on = on]
           /\ dir' = [dir EXCEPT !.on = on]
    /\ UNCHANGED <<old, placed, oldUp, outside, backup, run, past>>

(* A plain claim only takes the old launcher away.                         *)
Tidy ==
    /\ pc = "tidy" /\ End("ok")
    /\ placed' = placed \ {"launcher"}
    /\ UNCHANGED <<world, oldData, oldUp, outside, dir, backup, daemon, legacy, active,
                   hadTS, broken, crashed, faults, before>>

(* Success: Finish and the discards remove the backups.                    *)
Done ==
    /\ pc = "done" /\ End("ok")
    /\ backup' = Bare
    /\ UNCHANGED <<world, oldData, placed, oldUp, outside, dir, daemon, legacy, active,
                   hadTS, broken, crashed, faults, before>>

------------------------------------------------------------------------------
(* A step fails before its effect (a step that fails after it is the next  *)
(* one failing): once something was changed the run recovers.              *)
Fails ==
    /\ pc \in Steps \ {"install", "done"}
    /\ faults < MaxFaults /\ faults' = faults + 1
    /\ IF changed
       THEN /\ pc' = "rStop"
            /\ UNCHANGED <<lock, changed, undo, import, last>>
       ELSE End("failed")
    /\ UNCHANGED <<world, oldData, placed, oldUp, outside, dir, backup, daemon, legacy,
                   active, hadTS, broken, crashed, before>>

(* Each step of the recovery goes on when it fails.                        *)
Breaks == faults < MaxFaults /\ faults' = faults + 1 /\ broken' = TRUE
Works == UNCHANGED <<faults, broken>>

RecoverStop ==
    /\ pc = "rStop" /\ pc' = "rUndo"
    /\ \/ Works /\ daemon' = Down
       \/ Breaks /\ daemon' = [daemon EXCEPT !.stray = TRUE]
    /\ UNCHANGED <<old, placed, oldUp, outside, dir, backup, run, crashed, last, before>>

Undone(u) ==
    /\ placed' = IF u[2] = "piece" THEN placed \cup {u[1]} ELSE placed
    /\ files' = IF u[2] = "file" THEN [files EXCEPT ![u[1]] = "none"] ELSE files
    /\ tsFile' = IF u[2] = "tailscale" THEN u[1] ELSE tsFile

RecoverUndo ==
    /\ pc = "rUndo"
    /\ \/ /\ undo # <<>>
          /\ undo' = SubSeq(undo, 1, Len(undo) - 1) /\ pc' = pc
          /\ \/ Works /\ Undone(undo[Len(undo)])
             \/ Breaks /\ UNCHANGED <<placed, files, tsFile>>
       \/ /\ undo = <<>> /\ pc' = "rData"
          /\ Works /\ UNCHANGED <<placed, files, tsFile, undo>>
    /\ UNCHANGED <<old, oldUp, tsRuns, socket, dir, backup, daemon, changed, legacy,
                   active, hadTS, import, crashed, last, before>>

(* Rollback: the installed directory goes back to the staging place; only  *)
(* then, and in a step of its own, comes the one that Commit moved aside.  *)
RecoverData ==
    /\ pc = "rData"
    /\ \/ /\ import.installed /\ Works /\ pc' = "rBack"
          /\ dir' = Bare /\ import' = [import EXCEPT !.installed = FALSE]
       \/ import.installed /\ Breaks /\ pc' = "rTail" /\ UNCHANGED <<dir, import>>
       \/ ~import.installed /\ Works /\ pc' = "rTail" /\ UNCHANGED <<dir, import>>
    /\ UNCHANGED <<old, placed, oldUp, outside, backup, daemon, changed, legacy, active,
                   hadTS, undo, crashed, last, before>>

RecoverBackup ==
    /\ pc = "rBack" /\ pc' = "rTail"
    /\ \/ Works /\ dir' = backup /\ backup' = Bare
       \/ Breaks /\ UNCHANGED <<dir, backup>>
    /\ UNCHANGED <<old, placed, oldUp, outside, daemon, run, crashed, last, before>>

(* tailscaled is restarted only when it had a drop-in before.              *)
RecoverTail ==
    /\ pc = "rTail" /\ pc' = "rStart"
    /\ \/ Works /\ tsRuns' = IF hadTS THEN tsFile ELSE tsRuns
       \/ hadTS /\ Breaks /\ UNCHANGED tsRuns
    /\ UNCHANGED <<old, placed, oldUp, files, tsFile, socket, dir, backup, daemon, run,
                   crashed, last, before>>

RecoverStart ==
    /\ pc = "rStart"
    /\ \/ Works /\ oldUp' = active \cap placed
       \/ active # {} /\ Breaks /\ UNCHANGED oldUp
    /\ End(IF broken' THEN "broken" ELSE "failed")
    /\ UNCHANGED <<world, oldData, placed, outside, dir, backup, daemon, legacy, active,
                   hadTS, crashed, before>>

(* The process dies: the undo list, the staging and the lock are gone, the *)
(* machine stays as it is.                                                 *)
Crash ==
    /\ pc # "idle" /\ faults < MaxFaults /\ faults' = faults + 1
    /\ End("crashed") /\ crashed' = TRUE
    /\ UNCHANGED <<world, oldData, placed, oldUp, outside, dir, backup, daemon, legacy,
                   active, hadTS, broken, before>>

------------------------------------------------------------------------------
(* The old updater (its timer, or the old command line) writes the data    *)
(* under the old lock, which it creates.                                   *)
UpdateStarts ==
    /\ lock \in {"absent", "free"} /\ oldData \in 1 .. MaxVersion - 1
    /\ "timer" \in oldUp \/ "launcher" \in placed
    /\ lock' = "updater"
    /\ UNCHANGED <<world, oldData, placed, oldUp, outside, dir, backup, daemon, pc, run,
                   past>>

UpdateEnds ==
    /\ lock = "updater" /\ lock' = "free"
    /\ oldData' = oldData + 1
    /\ UNCHANGED <<world, placed, oldUp, outside, dir, backup, daemon, pc, run, past>>

(* The packaged daemon's owner saves settings of their own.                *)
OwnerSaves ==
    /\ daemon.up /\ dir.owner # "none" /\ dir.cfg = NoCfg
    /\ dir' = [dir EXCEPT !.cfg = Pair("own")]
    /\ daemon' = [daemon EXCEPT !.cfg = Pair("own")]
    /\ Sync(Pair("own"))
    /\ UNCHANGED <<old, placed, oldUp, files, socket, backup, pc, run, past>>

Forward ==
    \/ Prepare \/ StopNew \/ StopOld \/ Backup \/ BackupRefused \/ Install
    \/ WriteSettings \/ WriteRules \/ Remove \/ Tailscale \/ StoreOwner
    \/ WriteDropIn \/ Restop \/ Start \/ Apply \/ Save \/ Check \/ Tidy \/ Done
    \/ RecoverStop \/ RecoverUndo \/ RecoverData \/ RecoverBackup \/ RecoverTail
    \/ RecoverStart

Next ==
    \/ \E keep \in BOOLEAN : Run(keep)
    \/ Forward \/ Fails \/ InstallFails \/ Crash
    \/ UpdateStarts \/ UpdateEnds \/ OwnerSaves

Spec == Init /\ [][Next]_vars

(* The process runs on, systemctl and the updater return, and the owner    *)
(* chooses Finish setup again after a failure.                             *)
FairSpec ==
    /\ Spec
    /\ WF_vars(Forward) /\ WF_vars(UpdateEnds)
    /\ WF_vars(\E keep \in BOOLEAN : Run(keep))
------------------------------------------------------------------------------
(* Every variable keeps its type.                                          *)
TypeOK ==
    /\ world \in Worlds /\ placed \subseteq Pieces /\ oldUp \subseteq Units
    /\ oldData \in 0 .. MaxVersion /\ lock \in {"absent", "free", "updater", "cutover"}
    /\ files \in Files
    /\ tsFile \in {"none", "old", "new"} /\ tsRuns \in {"none", "old", "new"}
    /\ socket \in {"none", "me"} /\ dir \in Dirs /\ backup \in Dirs
    /\ daemon \in Daemons
    /\ pc \in Steps \cup Recovery \cup {"idle"}
    /\ changed \in BOOLEAN /\ legacy \in BOOLEAN /\ active \subseteq Units
    /\ hadTS \in BOOLEAN /\ undo \in Seq(Undos)
    /\ import \in [data : 0 .. MaxVersion, owner : {"none", "me", "other"},
                   locked : BOOLEAN, installed : BOOLEAN]
    /\ broken \in BOOLEAN /\ crashed \in BOOLEAN /\ faults \in 0 .. MaxFaults
    /\ last \in {"none", "ok", "refused", "failed", "broken", "crashed"}

(* The old service and the daemon's proxy never run at once, whatever step *)
(* fails or wherever a run dies, unless a recovery could not stop the      *)
(* daemon, and then only until the next run stops it.                      *)
OneProxy == ~daemon.stray => ~("service" \in oldUp /\ daemon.up /\ daemon.on)

(* writeSettings left the import out: the config directory is a link, or   *)
(* the owner had a setting file.                                           *)
Skipped == world.linked \/ before.files # Pair("none")

(* A cutover that fails and whose recovery works leaves the old install as *)
(* it was: its pieces, its running units, every setting file the owner had,*)
(* the drop-in of tailscaled, the data of the state directory and its      *)
(* owner record, unless this claim has replaced it.  A missing file it may *)
(* leave with the defaults that apply saved, against what cutover_test.go  *)
(* says at 311 and 318, but not where it had written the import itself.    *)
FailedRestores ==
    last = "failed" /\ legacy =>
        /\ placed = before.placed /\ oldUp = before.oldUp
        /\ \A k \in Kinds :
              \/ files[k] = before.files[k]
              \/ Skipped /\ before.files[k] = "none" /\ files[k] = "default"
        /\ dir.data = before.data /\ dir.owner \in {before.owner, "me"}
        /\ dir.cfg = NoCfg => tsFile = before.tsFile

(* An import that holds the old lock ends with the data the old install    *)
(* has at that moment: no update of it is lost.                            *)
ImportIsCurrent == import.installed /\ import.locked => dir.data = oldData

(* After an import the owner's own files are what runs where there were    *)
(* any, a missing one meaning its defaults, and the imported settings      *)
(* where there were none; the files, the daemon and its saved state then   *)
(* say the same.  Which settings run when a linked directory held no files *)
(* is left open: docs/upgrade.md:38-40 has the import run, and the code    *)
(* replaces it by the defaults that apply reads.                           *)
SettingsKept ==
    pc = "done" /\ import.data # 0 =>
        /\ files = daemon.cfg /\ dir.cfg = daemon.cfg
        /\ before.files # Pair("none") => daemon.cfg = OrDefaults(before.files)
        /\ ~Skipped => daemon.cfg = Pair("imp")

(* Settings the daemon saved leave its state directory only for the        *)
(* owner's files, or with the import they came in.                         *)
StateKept ==
    dir.cfg # NoCfg /\ dir'.cfg # dir.cfg =>
        \/ pc = "apply"
        \/ pc = "rData" /\ dir.data = import.data

(* No step loses data: neither an update of the old install's nor what the *)
(* packaged daemon saved.                                                  *)
DataKept == [][ImportIsCurrent' /\ StateKept]_vars

(* A run of an old install that ends well leaves nothing of it in place,   *)
(* whatever runs before it failed or died.                                 *)
OldGone ==
    last = "ok" /\ legacy => placed \ {"alien"} = {} /\ oldUp = {}

(* A takeover that ends well took all of it over: the settings, and        *)
(* everything the old install had in place.                                *)
TakenOver == SettingsKept /\ OldGone

(* After any failures and crashes, running the claim again completes it    *)
(* unless it must refuse: another account owns the install, the launcher   *)
(* is not the old one, or the daemon has state of its own.                 *)
Resumes ==
    <>(\/ last = "ok" /\ daemon.up /\ dir.owner = "me" /\ oldUp = {}
       \/ "alien" \in placed \/ dir.owner = "other"
       \/ dir.cfg # NoCfg /\ dir.data = 0)

(* Claimed by docs/upgrade.md:45 ("A failed cutover restores the old       *)
(* runtime"): tailscaled again runs as it did.                             *)
RestoresTailscale ==
    last = "failed" /\ legacy /\ dir.cfg = NoCfg => tsRuns = before.tsRuns

------------------------------------------------------------------------------
(* The inductive strengthenings of OneProxy, DataKept and FailedRestores.  *)
Undoes(x) == \E i \in 1 .. Len(undo) : undo[i] = x

(* Which of the two sides may be up at each step.                          *)
Moved == Steps \ {"prepare", "stopNew", "stopOld"}
Quiet == {"stopOld", "backup", "install", "settings", "rules", "remove", "tailscale"}
SidesInv ==
    /\ oldUp \subseteq placed
    /\ pc \in Moved => oldUp = {}
    /\ pc \in Quiet => ~daemon.up
    /\ pc \in Recovery \ {"rStop"} => ~daemon.up \/ daemon.stray
    /\ OneProxy

(* Who holds the old lock, and where the imported data are.                *)
ImportInv ==
    /\ lock = "updater" => oldData < MaxVersion
    /\ pc \in {"idle", "prepare"} => lock # "cutover" /\ import = NoImport
    /\ import.locked => lock = "cutover" /\ import.data = oldData
    /\ import.installed => pc \notin {"stopNew", "stopOld", "backup", "install"}
    /\ import.installed => dir.data = import.data /\ dir.cfg # NoCfg /\ pc # "rBack"
    /\ pc \in {"install", "rBack"} => dir = Bare
    /\ import.installed /\ pc \in {"rTail", "rStart"} => broken

(* The directory a recovery from here ends with.                           *)
EndDir == IF pc \in {"install", "rBack"} \/ import.installed THEN backup ELSE dir

(* What the run has not undone yet is all that differs from before it.     *)
DropInMoved == \E t \in {"none", "old", "new"} : Undoes(<<t, "tailscale">>)
Recoverable == pc # "idle" /\ (legacy \/ pc = "prepare") /\ (pc \in Recovery => ~broken)
UndoInv ==
    /\ active = before.oldUp /\ before.oldUp \subseteq before.placed
    /\ placed \cup {x \in Pieces : Undoes(<<x, "piece">>)} = before.placed
    /\ before.files \in Files
    /\ \A k \in Kinds : IF Undoes(<<k, "file">>) THEN before.files[k] = "none"
                        ELSE \/ files[k] = before.files[k]
                             \/ Skipped /\ before.files[k] = "none" /\ files[k] = "default"
    /\ EndDir.data = before.data /\ EndDir.owner \in {before.owner, "me"}
    /\ EndDir.cfg = NoCfg =>
          /\ \A t \in {"none", "old", "new"} :
                Undoes(<<t, "tailscale">>) => t = before.tsFile
          /\ DropInMoved \/ tsFile = before.tsFile

(* Where a run is in its bookkeeping.                                      *)
RunInv ==
    /\ pc # "idle" => last = "none"
    /\ pc \in {"idle", "prepare", "stopNew", "rData", "rBack", "rTail", "rStart"} =>
          undo = <<>>
    /\ pc \in {"prepare", "stopNew", "stopOld"} => oldUp = before.oldUp
    /\ pc = "prepare" => ~legacy
    /\ legacy /\ pc \notin {"idle", "stopNew"} => changed
    /\ pc = "rules" => files["rules"] = "none"
    /\ pc \in Quiet => ~DropInMoved
    /\ legacy /\ pc \in {"owner", "socket", "restop", "start", "apply", "saveSettings",
                         "saveRules", "check"} =>
          DropInMoved

(* The strengthening of TakenOver: the setting files at each step, that an *)
(* import is in place from its step on, and what is gone by then.          *)
TakenFiles == IF Skipped THEN before.files ELSE Pair("imp")
Cleared == {"tailscale", "owner", "socket", "restop", "start", "apply", "saveSettings",
            "saveRules", "check", "done"}
Applied == {"saveSettings", "saveRules", "check", "done"}
TakenInv ==
    /\ pc \in {"prepare", "stopNew", "stopOld", "backup", "install", "settings"} =>
          files = before.files
    /\ pc = "rules" => /\ ~Skipped
                       /\ files = [Pair("none") EXCEPT !["settings"] = "imp"]
    /\ import.data # 0 =>
          /\ pc \in ({"remove"} \cup Cleared) \ {"saveRules", "check", "done"} =>
                files = TakenFiles
          /\ pc = "saveRules" => /\ files["settings"] = OrDefaults(TakenFiles)["settings"]
                                 /\ files["rules"] = TakenFiles["rules"]
          /\ pc \in {"check", "done"} => files = OrDefaults(TakenFiles)
          /\ pc \in Applied => daemon.cfg = OrDefaults(TakenFiles) /\ dir.cfg = daemon.cfg
          /\ pc \in {"settings", "rules", "remove"} \cup Cleared => import.installed
    /\ pc \in {"apply", "saveSettings", "saveRules"} => import.data # 0
    /\ legacy => pc # "tidy"
    /\ legacy /\ (pc \in Cleared \/ last = "ok") =>
          \A i \in DOMAIN Removed : ~Here(i)

CutoverInv ==
    /\ SidesInv /\ ImportInv /\ RunInv /\ TakenInv /\ FailedRestores
    /\ Recoverable => UndoInv
==============================================================================
