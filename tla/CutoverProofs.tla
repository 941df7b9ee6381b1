--------------------------- MODULE CutoverProofs ----------------------------
(***************************************************************************)
(* What a cutover promises, for any set of old installs, any number of     *)
(* failed steps and crashes and any number of updates of the old data: one *)
(* proxy at a time, no data lost, and a failed cutover undone.             *)
(***************************************************************************)
EXTENDS Cutover, SequenceTheorems, TLAPS

\* The shapes of the values the actions write.
LEMMA Shapes ==
    /\ Bare \in Dirs /\ Bare.data = 0 /\ Bare.cfg = NoCfg
    /\ Down \in Daemons /\ ~Down.up
    /\ NoImport \in [data : 0 .. MaxVersion, owner : {"none", "me", "other"},
                     locked : BOOLEAN, installed : BOOLEAN]
    /\ NoImport.data = 0 /\ ~NoImport.locked /\ ~NoImport.installed
    /\ \A s \in Sources : Pair(s) \in Cfgs /\ Pair(s) # NoCfg
<1>1. \A s \in Sources : Pair(s) \in Cfgs
  BY DEF Pair, Cfgs
<1>2. ASSUME NEW s \in Sources PROVE Pair(s) # NoCfg
  <2>1. Pair(s)["settings"] = s /\ NoCfg["settings"] = "unsaved"
    BY DEF Pair, NoCfg, Kinds
  <2>2. QED
    BY <2>1 DEF Sources
<1>3. Bare \in Dirs /\ Bare.data = 0 /\ Bare.cfg = NoCfg
  BY CutoverAssumption DEF Bare, Dirs
<1>4. Down \in Daemons /\ ~Down.up
  BY <1>1 DEF Down, Daemons, Sources
<1>5. /\ NoImport \in [data : 0 .. MaxVersion, owner : {"none", "me", "other"},
                       locked : BOOLEAN, installed : BOOLEAN]
      /\ NoImport.data = 0 /\ ~NoImport.locked /\ ~NoImport.installed
  BY CutoverAssumption DEF NoImport
<1>6. QED
  BY <1>1, <1>2, <1>3, <1>4, <1>5

\* What a step adds to the undo list.
LEMMA UndoPush ==
    ASSUME undo \in Seq(Undos), NEW e \in Undos, undo' = Append(undo, e)
    PROVE  /\ undo' \in Seq(Undos)
           /\ \A x : Undoes(x)' <=> Undoes(x) \/ x = e
<1>1. /\ undo' \in Seq(Undos) /\ Len(undo') = Len(undo) + 1 /\ Len(undo) \in Nat
      /\ undo'[Len(undo) + 1] = e
      /\ \A i \in 1 .. Len(undo) : undo'[i] = undo[i]
  OBVIOUS
<1>2. ASSUME NEW x PROVE Undoes(x)' <=> Undoes(x) \/ x = e
  BY <1>1 DEF Undoes
<1>3. QED
  BY <1>1, <1>2

\* A sequence without its last element.
LEMMA Shorter ==
    ASSUME NEW S, NEW s \in Seq(S), NEW n \in Nat, n + 1 = Len(s)
    PROVE  /\ SubSeq(s, 1, n) \in Seq(S) /\ Len(SubSeq(s, 1, n)) = n
           /\ \A i \in 1 .. n : SubSeq(s, 1, n)[i] = s[i]
<1>1. 1 \in Int /\ n \in Int /\ \A i \in 1 .. n : s[i] \in S
  OBVIOUS
<1>2. PICK t : t = SubSeq(s, 1, n)
  OBVIOUS
<1>3. /\ t \in Seq(S) /\ Len(t) = IF 1 <= n THEN n - 1 + 1 ELSE 0
      /\ \A i \in 1 .. n - 1 + 1 : t[i] = s[1 + i - 1]
  <2>1. /\ SubSeq(s, 1, n) \in Seq(S)
        /\ Len(SubSeq(s, 1, n)) = IF 1 <= n THEN n - 1 + 1 ELSE 0
        /\ \A i \in 1 .. n - 1 + 1 : SubSeq(s, 1, n)[i] = s[1 + i - 1]
    BY <1>1, SubSeqProperties
  <2>2. QED
    BY <1>2, <2>1, Zenon
<1>4. Len(t) = n /\ \A i \in 1 .. n : t[i] = s[i]
  BY <1>3
<1>5. QED
  BY <1>2, <1>3, <1>4, Zenon

\* What a step of the recovery takes off it.
LEMMA UndoPop ==
    ASSUME undo \in Seq(Undos), undo # <<>>, undo' = SubSeq(undo, 1, Len(undo) - 1)
    PROVE  /\ undo' \in Seq(Undos) /\ undo[Len(undo)] \in Undos
           /\ \A x : Undoes(x) <=> Undoes(x)' \/ x = undo[Len(undo)]
<1>1. PICK n \in Nat : n + 1 = Len(undo)
  <2>1. Len(undo) \in Nat \ {0}
    OBVIOUS
  <2>2. Len(undo) - 1 \in Nat /\ (Len(undo) - 1) + 1 = Len(undo)
    BY <2>1
  <2>3. QED
    BY <2>2
<1>2. undo[n + 1] \in Undos /\ \A i \in 1 .. n : undo[i] \in Undos
  BY <1>1
<1>3. undo' = SubSeq(undo, 1, n)
  BY <1>1
<1>4. undo' \in Seq(Undos) /\ Len(undo') = n /\ \A i \in 1 .. n : undo'[i] = undo[i]
  BY <1>1, <1>3, Shorter, Zenon
<1>6. ASSUME NEW x PROVE Undoes(x) <=> Undoes(x)' \/ x = undo[Len(undo)]
  BY <1>1, <1>4 DEF Undoes
<1>7. QED
  BY <1>1, <1>2, <1>4, <1>6

\* Nothing is undone from an empty list.
LEMMA UndoEmpty == ASSUME undo = <<>> PROVE \A x : ~Undoes(x)
  BY DEF Undoes

LEMMA NowEmpty == ASSUME undo' = <<>> PROVE \A x : ~Undoes(x)'
  BY DEF Undoes

\* What an undo puts back has its type.
LEMMA UndoneType ==
    ASSUME TypeOK, NEW u \in Undos, Undone(u)
    PROVE  /\ placed' \subseteq Pieces /\ files' \in Files
           /\ tsFile' \in {"none", "old", "new"}
<1>1. CASE u \in Pieces \X {"piece"}
  BY <1>1 DEF Undone, TypeOK
<1>2. CASE u \in Kinds \X {"file"}
  BY <1>2 DEF Undone, TypeOK, Files
<1>3. CASE u \in {"none", "old", "new"} \X {"tailscale"}
  BY <1>3 DEF Undone, TypeOK
<1>4. QED
  BY <1>1, <1>2, <1>3 DEF Undos

\* tailscale.Sync writes one of its two drop-ins.
LEMMA SyncType ==
    ASSUME TypeOK, NEW cfg, Sync(cfg)
    PROVE  tsFile' \in {"none", "old", "new"} /\ tsRuns' \in {"none", "old", "new"}
  BY DEF Sync, TypeOK

\* The end of a run leaves the types.
LEMMA EndType ==
    ASSUME TypeOK, NEW r \in {"none", "ok", "refused", "failed", "broken", "crashed"},
           End(r)
    PROVE  /\ pc' = "idle" /\ last' = r /\ changed' = FALSE /\ undo' = <<>>
           /\ import' = NoImport /\ undo' \in Seq(Undos)
           /\ lock' \in {"absent", "free", "updater"}
  BY DEF End, Release, TypeOK

\* Every step of the run keeps the types.
LEMMA TypeStep == TypeOK /\ ImportInv /\ [Next]_vars => TypeOK'
<1> SUFFICES ASSUME TypeOK, ImportInv, [Next]_vars PROVE TypeOK'
  OBVIOUS
<1> USE DEF old, outside, run, past
<1>0. ASSUME NEW r \in {"ok", "refused", "failed", "broken", "crashed"}, End(r)
      PROVE  /\ pc' = "idle" /\ last' \in {"ok", "refused", "failed", "broken", "crashed"}
             /\ changed' \in BOOLEAN /\ undo' \in Seq(Undos)
             /\ import' \in [data : 0 .. MaxVersion, owner : {"none", "me", "other"},
                             locked : BOOLEAN, installed : BOOLEAN]
             /\ lock' \in {"absent", "free", "updater", "cutover"}
  BY <1>0, EndType, Shapes
<1>1. ASSUME NEW keep \in BOOLEAN, Run(keep) PROVE TypeOK'
  <2>1. /\ pc' \in {"idle", "prepare"} /\ last' \in {"refused", "none"}
        /\ legacy' \in BOOLEAN /\ active' \subseteq Units
    <3>1. CASE Refused(keep)
      BY <1>1, <3>1 DEF Run, TypeOK
    <3>2. CASE ~Refused(keep)
      BY <1>1, <3>2 DEF Run, TypeOK
    <3>3. QED
      BY <3>1, <3>2
  <2>2. QED
    BY <1>1, <2>1 DEF Run, TypeOK, Steps
<1>2. CASE Prepare
  <2>1. CASE Staging /\ (lock = "updater" \/ ~EmptyState)
    <3>1. End("refused") /\ UNCHANGED <<legacy, hadTS>>
      BY <1>2, <2>1 DEF Prepare
    <3>2. QED
      BY <1>0, <1>2, <3>1 DEF Prepare, TypeOK
  <2>2. CASE ~(Staging /\ (lock = "updater" \/ ~EmptyState))
    <3>1. import' \in [data : 0 .. MaxVersion, owner : {"none", "me", "other"},
                       locked : BOOLEAN, installed : BOOLEAN]
      <4>1. CASE Staging
        <5>1. import' = [data |-> oldData, owner |-> dir.owner,
                         locked |-> lock # "absent", installed |-> FALSE]
          BY <1>2, <2>2, <4>1 DEF Prepare
        <5>2. dir.owner \in {"none", "me", "other"} /\ (lock # "absent") \in BOOLEAN
          BY DEF TypeOK, Dirs
        <5>3. QED
          BY <5>1, <5>2 DEF TypeOK
      <4>2. CASE ~Staging
        BY <1>2, <2>2, <4>2, Shapes DEF Prepare
      <4>3. QED
        BY <4>1, <4>2
    <3>2. lock' \in {"absent", "free", "updater", "cutover"}
      BY <1>2, <2>2 DEF Prepare, TypeOK, Holds
    <3>3. pc' \in Steps /\ legacy' \in BOOLEAN /\ hadTS' \in BOOLEAN
          /\ UNCHANGED <<changed, undo, last>>
      BY <1>2, <2>2 DEF Prepare, Steps
    <3>4. QED
      BY <1>2, <3>1, <3>2, <3>3 DEF Prepare, TypeOK
  <2>3. QED
    BY <2>1, <2>2
<1>3. CASE StopNew
  BY <1>3, Shapes DEF StopNew, TypeOK, Steps
<1>4. CASE StopOld
  BY <1>4 DEF StopOld, TypeOK, Steps
<1>5. CASE Backup
  BY <1>5, Shapes DEF Backup, TypeOK, Steps
<1>6. CASE BackupRefused
  BY <1>6 DEF BackupRefused, TypeOK, Recovery
<1>7. CASE Install
  <2>1. dir' \in Dirs
    BY <1>7, Shapes DEF Install, TypeOK, Dirs, Sources
  <2>2. import' \in [data : 0 .. MaxVersion, owner : {"none", "me", "other"},
                     locked : BOOLEAN, installed : BOOLEAN]
    BY <1>7 DEF Install, TypeOK
  <2>3. QED
    BY <1>7, <2>1, <2>2 DEF Install, TypeOK, Steps
<1>8. CASE InstallFails
  <2>1. faults' \in 0 .. MaxFaults /\ dir' \in Dirs /\ broken' \in BOOLEAN
    <3>1. faults' \in 0 .. MaxFaults
      BY <1>8, CutoverAssumption DEF InstallFails, TypeOK
    <3>2. dir' \in Dirs /\ broken' \in BOOLEAN
      BY <1>8 DEF InstallFails, TypeOK
    <3>3. QED
      BY <3>1, <3>2
  <2>2. QED
    BY <1>8, <2>1 DEF InstallFails, TypeOK, Recovery
<1>9. ASSUME NEW k \in Kinds, NEW n \in Steps, WriteFile(k, n)
      PROVE  /\ files' \in Files /\ undo' \in Seq(Undos)
             /\ pc' \in Steps
  <2>1. <<k, "file">> \in Undos
    BY DEF Undos
  <2>2. QED
    BY <1>9, <2>1, UndoPush DEF WriteFile, TypeOK, Files, Sources
<1>10. CASE WriteSettings
  <2>1. "settings" \in Kinds /\ "rules" \in Steps /\ "remove" \in Steps
    BY DEF Kinds, Steps
  <2>2. QED
    BY <1>10, <1>9, <2>1 DEF WriteSettings, TypeOK
<1>11. CASE WriteRules
  <2>1. "rules" \in Kinds /\ "remove" \in Steps
    BY DEF Kinds, Steps
  <2>2. QED
    BY <1>11, <1>9, <2>1 DEF WriteRules, TypeOK
<1>12. CASE Remove
  <2>1. \A i \in DOMAIN Removed : Removed[i] \in Pieces
    BY DEF Removed, Pieces, Units
  <2>2. \A i \in DOMAIN Removed : <<Removed[i], "piece">> \in Undos
    BY <2>1 DEF Undos
  <2>3. undo' \in Seq(Undos) /\ placed' \subseteq Pieces /\ pc' \in Steps
    BY <1>12, <2>2, UndoPush DEF Remove, TypeOK, Steps
  <2>4. QED
    BY <1>12, <2>3 DEF Remove, TypeOK
<1>13. CASE Tailscale
  <2>1. <<tsFile, "tailscale">> \in Undos
    BY DEF Undos, TypeOK
  <2>2. undo' \in Seq(Undos)
    BY <1>13, <2>1, UndoPush DEF Tailscale, TypeOK
  <2>3. QED
    BY <1>13, <2>2 DEF Tailscale, TypeOK, Steps
<1>14. CASE StoreOwner
  BY <1>14 DEF StoreOwner, TypeOK, Steps, Dirs
<1>15. CASE WriteDropIn
  BY <1>15 DEF WriteDropIn, TypeOK, Steps
<1>16. CASE Restop
  BY <1>16, Shapes DEF Restop, TypeOK, Steps
<1>17. CASE Start
  <2>1. daemon' \in Daemons
    BY <1>17, Shapes DEF Start, TypeOK, Loaded, Dirs, Daemons, Sources
  <2>2. QED
    BY <1>17, <2>1, SyncType DEF Start, TypeOK, Steps
<1>18. CASE Apply \/ Save
  <2>1. FromFiles \in Cfgs
    BY DEF FromFiles, OrDefaults, Cfgs, TypeOK, Files, Sources
  <2>2. CASE Apply
    <3>1. daemon' \in Daemons /\ dir' \in Dirs
      BY <2>1, <2>2 DEF Apply, TypeOK, Dirs, Daemons
    <3>2. QED
      BY <2>2, <3>1, SyncType DEF Apply, TypeOK, Steps
  <2>3. CASE Save
    <3>1. files' \in Files /\ pc' \in Steps
      BY <2>1, <2>3 DEF Save, SaveFile, TypeOK, Steps, Files, Cfgs
    <3>2. QED
      BY <2>3, <3>1 DEF Save, TypeOK
  <2>4. QED
    BY <1>18, <2>2, <2>3
<1>19. CASE Check
  <2>1. daemon' \in Daemons /\ dir' \in Dirs
    BY <1>19 DEF Check, TypeOK, Dirs, Daemons
  <2>2. QED
    BY <1>19, <2>1 DEF Check, TypeOK, Steps
<1>20. CASE Tidy
  BY <1>0, <1>20 DEF Tidy, TypeOK
<1>21. CASE Done
  BY <1>0, <1>21, Shapes DEF Done, TypeOK
<1>22. CASE Fails
  <2>1. faults' \in 0 .. MaxFaults
    BY <1>22, CutoverAssumption DEF Fails, TypeOK
  <2>2. CASE changed
    BY <1>22, <2>1, <2>2 DEF Fails, TypeOK, Recovery
  <2>3. CASE ~changed
    BY <1>0, <1>22, <2>1, <2>3 DEF Fails, TypeOK
  <2>4. QED
    BY <2>2, <2>3
<1>23. ASSUME Works \/ Breaks PROVE faults' \in 0 .. MaxFaults /\ broken' \in BOOLEAN
  <2>1. CASE Works
    BY <2>1 DEF Works, TypeOK
  <2>2. CASE Breaks
    BY <2>2, CutoverAssumption DEF Breaks, TypeOK
  <2>3. QED
    BY <1>23, <2>1, <2>2
<1>24. CASE RecoverStop
  <2>1. Works \/ Breaks
    BY <1>24 DEF RecoverStop
  <2>2. daemon' \in Daemons
    <3>1. CASE daemon' = Down
      BY <3>1, Shapes
    <3>2. CASE daemon' = [daemon EXCEPT !.stray = TRUE]
      BY <3>2 DEF TypeOK, Daemons
    <3>3. QED
      BY <1>24, <3>1, <3>2 DEF RecoverStop
  <2>3. QED
    BY <1>23, <1>24, <2>1, <2>2 DEF RecoverStop, TypeOK, Recovery
<1>25. CASE RecoverUndo
  <2>1. Works \/ Breaks
    BY <1>25 DEF RecoverUndo
  <2>2. undo' \in Seq(Undos) /\ pc' \in Recovery
    BY <1>25, UndoPop DEF RecoverUndo, TypeOK, Recovery
  <2>3. /\ placed' \subseteq Pieces /\ files' \in Files
        /\ tsFile' \in {"none", "old", "new"}
    <3>1. CASE undo # <<>> /\ Undone(undo[Len(undo)])
      <4>1. undo[Len(undo)] \in Undos
        BY <3>1 DEF TypeOK
      <4>2. QED
        BY <3>1, <4>1, UndoneType
    <3>2. CASE UNCHANGED <<placed, files, tsFile>>
      BY <3>2 DEF TypeOK
    <3>3. QED
      BY <1>25, <3>1, <3>2 DEF RecoverUndo
  <2>4. QED
    BY <1>23, <1>25, <2>1, <2>2, <2>3 DEF RecoverUndo, TypeOK
<1>26. CASE RecoverData \/ RecoverBackup
  <2>1. Works \/ Breaks
    BY <1>26 DEF RecoverData, RecoverBackup
  <2>2. CASE RecoverData
    <3>1. dir' \in Dirs /\ pc' \in Recovery
      BY <2>2, Shapes DEF RecoverData, TypeOK, Recovery
    <3>2. import' \in [data : 0 .. MaxVersion, owner : {"none", "me", "other"},
                       locked : BOOLEAN, installed : BOOLEAN]
      BY <2>2 DEF RecoverData, TypeOK
    <3>3. QED
      BY <1>23, <2>1, <2>2, <3>1, <3>2 DEF RecoverData, TypeOK
  <2>3. CASE RecoverBackup
    BY <1>23, <2>1, <2>3, Shapes DEF RecoverBackup, TypeOK, Recovery
  <2>4. QED
    BY <1>26, <2>2, <2>3
<1>27. CASE RecoverTail
  <2>1. Works \/ Breaks
    BY <1>27 DEF RecoverTail
  <2>2. QED
    BY <1>23, <1>27, <2>1 DEF RecoverTail, TypeOK, Recovery
<1>28. CASE RecoverStart
  <2>1. Works \/ Breaks
    BY <1>28 DEF RecoverStart
  <2>2. PICK r \in {"broken", "failed"} : End(r)
    BY <1>28 DEF RecoverStart
  <2>3. oldUp' \subseteq Units
    BY <1>28 DEF RecoverStart, TypeOK
  <2>4. QED
    BY <1>0, <1>23, <1>28, <2>1, <2>2, <2>3 DEF RecoverStart, TypeOK
<1>29. CASE Crash
  <2>1. faults' \in 0 .. MaxFaults
    BY <1>29, CutoverAssumption DEF Crash, TypeOK
  <2>2. QED
    BY <1>0, <1>29, <2>1 DEF Crash, TypeOK
<1>30. CASE UpdateStarts
  BY <1>30 DEF UpdateStarts, TypeOK
<1>31. CASE UpdateEnds
  BY <1>31, CutoverAssumption DEF UpdateEnds, TypeOK, ImportInv
<1>32. CASE OwnerSaves
  <2>1. daemon' \in Daemons /\ dir' \in Dirs
    BY <1>32, Shapes DEF OwnerSaves, TypeOK, Dirs, Daemons, Sources
  <2>2. QED
    BY <1>32, <2>1, SyncType DEF OwnerSaves, TypeOK
<1>33. CASE UNCHANGED vars
  BY <1>33 DEF vars, host, TypeOK
<1>34. QED
  BY <1>1, <1>2, <1>3, <1>4, <1>5, <1>6, <1>7, <1>8, <1>10, <1>11, <1>12, <1>13, <1>14,
     <1>15, <1>16, <1>17, <1>18, <1>19, <1>20, <1>21, <1>22, <1>24, <1>25, <1>26, <1>27,
     <1>28, <1>29, <1>30, <1>31, <1>32, <1>33 DEF Next, Forward

\* Which side may be up is kept by every step: the daemon is started only where
\* the old units are down, and the old units only where the daemon is stopped.
LEMMA SidesStep == TypeOK /\ SidesInv /\ [Next]_vars => SidesInv'
<1> SUFFICES ASSUME TypeOK, SidesInv, [Next]_vars PROVE SidesInv'
  OBVIOUS
<1> USE DEF old, outside, run, past, Steps, Moved, Quiet, Recovery
<1>1. ASSUME NEW keep \in BOOLEAN, Run(keep) PROVE SidesInv'
  <2>1. pc' \in {"idle", "prepare"} /\ UNCHANGED <<oldUp, placed, daemon>>
    BY <1>1 DEF Run
  <2>2. QED
    BY <2>1 DEF SidesInv, OneProxy
<1>2. CASE Prepare
  <2>1. /\ pc' \in {"idle", "stopNew", "owner"}
        /\ UNCHANGED <<oldUp, placed, daemon>>
        /\ pc' = "owner" => placed \cap Units = {}
    BY <1>2 DEF Prepare, End
  <2>2. pc' = "owner" => oldUp = {}
    BY <2>1 DEF SidesInv, TypeOK
  <2>3. QED
    BY <2>1, <2>2 DEF SidesInv, OneProxy
<1>3. CASE StopNew \/ Restop
  <2>1. daemon' = Down /\ UNCHANGED <<oldUp, placed>>
        /\ pc' \in {"stopOld", "start"} /\ (pc' = "start" => pc = "restop")
    BY <1>3 DEF StopNew, Restop
  <2>2. ~daemon'.up
    BY <2>1, Shapes
  <2>3. QED
    BY <2>1, <2>2 DEF SidesInv, OneProxy
<1>4. CASE StopOld
  BY <1>4 DEF StopOld, SidesInv, OneProxy
<1>5. CASE \/ Backup \/ BackupRefused \/ Install \/ InstallFails \/ WriteSettings
           \/ WriteRules \/ Remove \/ Tailscale \/ StoreOwner \/ WriteDropIn
  <2>1. /\ UNCHANGED <<oldUp, daemon>> /\ pc \in Moved
        /\ pc' \in Moved \cup {"rStop"} /\ (pc' \in Quiet => pc \in Quiet)
    BY <1>5 DEF Backup, BackupRefused, Install, InstallFails, WriteSettings, WriteRules,
       WriteFile, Remove, Tailscale, StoreOwner, WriteDropIn
  <2>2. QED
    BY <2>1 DEF SidesInv, OneProxy
<1>6. CASE Start \/ Apply \/ Save \/ Check
  <2>1. UNCHANGED <<oldUp, placed>> /\ pc \in Moved /\ pc' \in Moved \ Quiet
    BY <1>6 DEF Start, Apply, Save, SaveFile, Check
  <2>2. QED
    BY <2>1 DEF SidesInv, OneProxy
<1>7. CASE Tidy \/ Done
  <2>1. UNCHANGED <<oldUp, daemon>> /\ pc \in Moved /\ pc' = "idle"
    BY <1>7 DEF Tidy, Done, End
  <2>2. QED
    BY <2>1 DEF SidesInv, OneProxy
<1>8. CASE Fails \/ Crash
  <2>1. UNCHANGED <<oldUp, placed, daemon>> /\ pc' \in {"idle", "rStop"}
    BY <1>8 DEF Fails, Crash, End
  <2>2. QED
    BY <2>1 DEF SidesInv, OneProxy
<1>9. CASE RecoverStop
  <2>1. UNCHANGED <<oldUp, placed>> /\ pc' = "rUndo"
    BY <1>9 DEF RecoverStop
  <2>2. daemon'.stray \/ ~daemon'.up
    BY <1>9, Shapes DEF RecoverStop, TypeOK, Daemons
  <2>3. QED
    BY <2>1, <2>2 DEF SidesInv, OneProxy
<1>10. CASE RecoverUndo \/ RecoverData \/ RecoverBackup \/ RecoverTail
  <2>1. /\ UNCHANGED <<oldUp, daemon>> /\ placed \subseteq placed'
        /\ pc \in Recovery \ {"rStop"} /\ pc' \in Recovery
    BY <1>10 DEF RecoverUndo, RecoverData, RecoverBackup, RecoverTail, Undone
  <2>2. QED
    BY <2>1 DEF SidesInv, OneProxy
<1>11. CASE RecoverStart
  <2>1. /\ UNCHANGED <<daemon, placed>> /\ pc = "rStart" /\ pc' = "idle"
        /\ oldUp' \subseteq placed
    BY <1>11 DEF RecoverStart, End, SidesInv
  <2>2. QED
    BY <2>1 DEF SidesInv, OneProxy
<1>12. CASE UpdateStarts \/ UpdateEnds \/ UNCHANGED vars
  <2>1. UNCHANGED <<oldUp, placed, daemon, pc>>
    BY <1>12 DEF UpdateStarts, UpdateEnds, vars, host
  <2>2. QED
    BY <2>1 DEF SidesInv, OneProxy
<1>13. CASE OwnerSaves
  <2>1. /\ UNCHANGED <<oldUp, placed, pc>> /\ daemon.up
        /\ daemon'.up = daemon.up /\ daemon'.on = daemon.on
        /\ daemon'.stray = daemon.stray
    BY <1>13 DEF OwnerSaves, TypeOK, Daemons
  <2>2. QED
    BY <2>1 DEF SidesInv, OneProxy
<1>14. QED
  BY <1>1, <1>2, <1>3, <1>4, <1>5, <1>6, <1>7, <1>8, <1>9, <1>10, <1>11, <1>12, <1>13
     DEF Next, Forward

\* Settings the owner's files name are settings that are saved.
LEMMA FilesSaved == TypeOK => FromFiles # NoCfg
<1>1. TypeOK => FromFiles["settings"] \in Sources
  BY DEF TypeOK, FromFiles, OrDefaults, Files, Kinds, Sources
<1>2. NoCfg["settings"] \notin Sources
  BY DEF NoCfg, Pair, Kinds, Sources
<1>3. QED
  BY <1>1, <1>2

\* The lock keeps the staged data the current ones, and what is installed stays
\* in the state directory until a recovery takes it out.
LEMMA ImportStep == TypeOK /\ ImportInv /\ [Next]_vars => ImportInv'
<1> SUFFICES ASSUME TypeOK, ImportInv, [Next]_vars PROVE ImportInv'
  OBVIOUS
<1> USE DEF old, outside, run, past
<1>0. ASSUME NEW r \in {"ok", "refused", "failed", "broken", "crashed"}, End(r),
             oldData' = oldData
      PROVE  ImportInv'
  <2>1. /\ pc' = "idle" /\ lock' # "cutover" /\ import' = NoImport
        /\ lock' = "updater" => lock = "updater"
    BY <1>0, EndType DEF End, Release
  <2>2. QED
    BY <1>0, <2>1, Shapes DEF ImportInv
<1>1. ASSUME NEW keep \in BOOLEAN, Run(keep) PROVE ImportInv'
  <2>1. pc = "idle" /\ pc' \in {"idle", "prepare"} /\ UNCHANGED <<lock, import, oldData>>
    BY <1>1 DEF Run
  <2>2. QED
    BY <2>1, Shapes DEF ImportInv
<1>2. CASE Prepare
  <2>1. CASE Staging /\ (lock = "updater" \/ ~EmptyState)
    BY <1>0, <1>2, <2>1 DEF Prepare
  <2>2. CASE ~Staging
    <3>1. import' = NoImport /\ UNCHANGED <<lock, oldData>> /\ pc' \in {"stopNew", "owner"}
      BY <1>2, <2>2 DEF Prepare
    <3>2. QED
      BY <3>1, Shapes DEF ImportInv
  <2>3. CASE Staging /\ ~(lock = "updater" \/ ~EmptyState)
    <3>1. /\ import' = [data |-> oldData, owner |-> dir.owner,
                        locked |-> lock # "absent", installed |-> FALSE]
          /\ lock' = Holds /\ oldData' = oldData /\ pc' \in {"stopNew", "owner"}
      BY <1>2, <2>3 DEF Prepare
    <3>2. lock \in {"absent", "free"}
      BY <1>2, <2>3 DEF Prepare, TypeOK, ImportInv
    <3>3. /\ ~import'.installed /\ import'.data = oldData
          /\ import'.locked => lock # "absent"
      BY <3>1
    <3>4. QED
      BY <3>1, <3>2, <3>3 DEF ImportInv, Holds
  <2>4. QED
    BY <2>1, <2>2, <2>3
<1>3. CASE StopNew \/ StopOld \/ BackupRefused
  <2>1. /\ UNCHANGED <<lock, import, oldData, dir>>
        /\ pc \in {"stopNew", "stopOld", "backup"}
        /\ pc' \in {"stopOld", "backup", "remove", "rStop"}
    BY <1>3 DEF StopNew, StopOld, BackupRefused
  <2>2. QED
    BY <2>1 DEF ImportInv
<1>4. CASE Backup
  BY <1>4 DEF Backup, ImportInv
<1>5. CASE Install
  <2>1. /\ UNCHANGED <<lock, oldData>> /\ pc' = "settings"
        /\ import'.data = import.data /\ import'.locked = import.locked
    BY <1>5 DEF Install, TypeOK
  <2>2. dir'.data = import.data /\ dir'.cfg # NoCfg
    BY <1>5, Shapes DEF Install, Sources
  <2>3. QED
    BY <2>1, <2>2 DEF ImportInv
<1>6. CASE InstallFails
  BY <1>6 DEF InstallFails, ImportInv
<1>7. CASE \/ WriteSettings \/ WriteRules \/ Remove \/ Tailscale \/ WriteDropIn
           \/ Restop \/ Start \/ Save \/ RecoverStop \/ RecoverUndo \/ RecoverTail
  <2>1. /\ UNCHANGED <<lock, import, oldData, dir>>
        /\ pc \notin {"idle", "prepare"}
        /\ pc' \notin {"idle", "prepare", "stopNew", "stopOld", "backup", "install", "rBack"}
        /\ pc' \in {"rTail", "rStart"} => pc = "rTail"
        /\ broken => broken'
    BY <1>7 DEF WriteSettings, WriteRules, WriteFile, Remove, Tailscale, WriteDropIn,
       Restop, Start, Save, SaveFile, RecoverStop, RecoverUndo, RecoverTail, Works, Breaks
  <2>2. QED
    BY <2>1 DEF ImportInv
<1>8. CASE StoreOwner \/ Check \/ Apply
  <2>1. /\ UNCHANGED <<lock, import, oldData>> /\ dir'.data = dir.data
        /\ dir'.cfg = dir.cfg \/ dir'.cfg = FromFiles
        /\ pc \in {"owner", "check", "apply"}
        /\ pc' \in {"socket", "saveSettings", "done"}
    BY <1>8 DEF StoreOwner, Check, Apply, TypeOK, Dirs
  <2>2. QED
    BY <2>1, FilesSaved DEF ImportInv
<1>9. CASE RecoverData
  <2>1. /\ UNCHANGED <<lock, oldData>> /\ pc = "rData"
        /\ import'.locked = import.locked /\ import'.data = import.data
        /\ \/ ~import'.installed /\ pc' = "rBack" /\ dir' = Bare
           \/ /\ import' = import /\ pc' = "rTail" /\ dir' = dir
              /\ import.installed => broken'
    BY <1>9 DEF RecoverData, TypeOK, Breaks
  <2>2. QED
    BY <2>1 DEF ImportInv
<1>17. CASE RecoverBackup
  <2>1. UNCHANGED <<lock, import, oldData>> /\ pc = "rBack" /\ pc' = "rTail"
    BY <1>17 DEF RecoverBackup
  <2>2. QED
    BY <2>1 DEF ImportInv
<1>10. CASE Tidy \/ Done \/ Crash \/ RecoverStart
  <2>1. PICK r \in {"ok", "refused", "failed", "broken", "crashed"} : End(r)
    BY <1>10 DEF Tidy, Done, Crash, RecoverStart
  <2>2. oldData' = oldData
    BY <1>10 DEF Tidy, Done, Crash, RecoverStart
  <2>3. QED
    BY <1>0, <2>1, <2>2
<1>11. CASE Fails
  <2>1. CASE changed
    <3>1. UNCHANGED <<lock, import, oldData, dir>> /\ pc \in Steps /\ pc' = "rStop"
      BY <1>11, <2>1 DEF Fails
    <3>2. pc \notin {"idle", "prepare"} \/ import = NoImport
      BY <3>1 DEF ImportInv
    <3>3. QED
      BY <3>1, <3>2, Shapes DEF ImportInv
  <2>2. CASE ~changed
    BY <1>0, <1>11, <2>2 DEF Fails
  <2>3. QED
    BY <2>1, <2>2
<1>12. CASE UpdateStarts
  <2>1. /\ lock \in {"absent", "free"} /\ oldData \in 1 .. MaxVersion - 1
        /\ lock' = "updater" /\ UNCHANGED <<import, oldData, dir, pc, broken>>
    BY <1>12 DEF UpdateStarts
  <2>2. oldData < MaxVersion
    BY <2>1, CutoverAssumption
  <2>3. QED
    BY <2>1, <2>2 DEF ImportInv
<1>13. CASE UpdateEnds
  <2>1. lock = "updater" /\ lock' = "free" /\ UNCHANGED <<import, dir, pc, broken>>
    BY <1>13 DEF UpdateEnds
  <2>2. QED
    BY <2>1 DEF ImportInv
<1>14. CASE OwnerSaves
  <2>1. /\ UNCHANGED <<lock, oldData, import, pc, broken>>
        /\ dir.owner # "none" /\ dir.cfg = NoCfg
    BY <1>14 DEF OwnerSaves
  <2>2. pc \notin {"install", "rBack"}
    BY <2>1 DEF ImportInv, Bare
  <2>3. QED
    BY <2>1, <2>2 DEF ImportInv
<1>15. CASE UNCHANGED vars
  BY <1>15 DEF vars, host, ImportInv
<1>16. QED
  BY <1>1, <1>2, <1>3, <1>4, <1>5, <1>6, <1>7, <1>8, <1>9, <1>10, <1>11, <1>12, <1>13,
     <1>14, <1>15, <1>17 DEF Next, Forward

\* The bookkeeping of a run: what it has changed, and that from the claim on the
\* drop-in of tailscaled has been moved aside with its undo.
LEMMA RunStep == TypeOK /\ RunInv /\ [Next]_vars => RunInv'
<1> SUFFICES ASSUME TypeOK, RunInv, [Next]_vars PROVE RunInv'
  OBVIOUS
<1> USE DEF old, outside, run, past, Quiet
<1>0. ASSUME undo' = undo PROVE DropInMoved' <=> DropInMoved
  BY <1>0 DEF DropInMoved, Undoes
<1>1. ASSUME undo = <<>> PROVE ~DropInMoved
  BY <1>1, UndoEmpty DEF DropInMoved
<1>2. ASSUME NEW r \in {"ok", "refused", "failed", "broken", "crashed"}, End(r)
      PROVE  RunInv'
  BY <1>2 DEF End, RunInv
<1>3. ASSUME NEW keep \in BOOLEAN, Run(keep) PROVE RunInv'
  <2>1. CASE Refused(keep)
    BY <1>3, <2>1 DEF Run, RunInv
  <2>2. CASE ~Refused(keep)
    <3>1. /\ pc = "idle" /\ pc' = "prepare" /\ last' = "none" /\ legacy' = FALSE
          /\ before' = Before /\ UNCHANGED <<oldUp, undo>>
      BY <1>3, <2>2 DEF Run
    <3>2. before'.oldUp = oldUp
      BY <3>1 DEF Before
    <3>3. QED
      BY <3>1, <3>2 DEF RunInv
  <2>3. QED
    BY <2>1, <2>2
<1>4. CASE Prepare
  <2>1. CASE Staging /\ (lock = "updater" \/ ~EmptyState)
    BY <1>2, <1>4, <2>1 DEF Prepare
  <2>2. CASE ~(Staging /\ (lock = "updater" \/ ~EmptyState))
    <3>1. /\ pc = "prepare" /\ UNCHANGED <<undo, last, oldUp, before, changed>>
          /\ (legacy' /\ pc' = "stopNew") \/ (~legacy' /\ pc' = "owner")
      BY <1>4, <2>2 DEF Prepare
    <3>2. QED
      BY <3>1 DEF RunInv
  <2>3. QED
    BY <2>1, <2>2
<1>5. CASE StopNew
  <2>1. /\ pc = "stopNew" /\ pc' = "stopOld" /\ changed'
        /\ UNCHANGED <<undo, last, oldUp, before, legacy>>
    BY <1>5 DEF StopNew
  <2>2. QED
    BY <1>0, <1>1, <2>1 DEF RunInv
<1>6. CASE StopOld \/ Backup \/ Install
  <2>1. /\ UNCHANGED <<undo, last, before, legacy, changed>>
        /\ pc \in {"stopOld", "backup", "install"}
        /\ pc' \in {"backup", "install", "settings", "remove"}
    BY <1>6 DEF StopOld, Backup, Install
  <2>2. QED
    BY <1>0, <2>1 DEF RunInv
<1>7. CASE BackupRefused \/ InstallFails
  <2>1. /\ UNCHANGED <<undo, last, before, legacy, changed>>
        /\ pc \in {"backup", "install"} /\ pc' = "rStop"
    BY <1>7 DEF BackupRefused, InstallFails
  <2>2. QED
    BY <2>1 DEF RunInv
\* A step that adds an undo of another kind leaves the drop-in where it is.
<1>8. ASSUME NEW e \in Undos, e[2] # "tailscale", undo' = Append(undo, e)
      PROVE  DropInMoved' <=> DropInMoved
  <2>1. \A x : Undoes(x)' <=> Undoes(x) \/ x = e
    BY <1>8, UndoPush DEF TypeOK
  <2>2. \A t \in {"none", "old", "new"} : <<t, "tailscale">> # e
    BY <1>8
  <2>3. QED
    BY <2>1, <2>2 DEF DropInMoved
<1>9. ASSUME NEW k \in Kinds, NEW n, WriteFile(k, n) PROVE DropInMoved' <=> DropInMoved
  <2>1. <<k, "file">> \in Undos /\ <<k, "file">>[2] # "tailscale"
    BY DEF Undos
  <2>2. QED
    BY <1>8, <1>9, <2>1 DEF WriteFile
<1>10. CASE WriteSettings
  <2>1. /\ UNCHANGED <<last, before, legacy, changed>> /\ pc = "settings"
        /\ pc' \in {"rules", "remove"}
        /\ pc' = "rules" => files'["rules"] = "none"
    BY <1>10 DEF WriteSettings, WriteFile, WritesFiles, Kinds, TypeOK, Files
  <2>2. "settings" \in Kinds
    BY DEF Kinds
  <2>3. DropInMoved' <=> DropInMoved
    BY <1>0, <1>9, <1>10, <2>2 DEF WriteSettings
  <2>4. QED
    BY <2>1, <2>3 DEF RunInv
<1>11. CASE WriteRules
  <2>1. /\ UNCHANGED <<last, before, legacy, changed>> /\ pc = "rules" /\ pc' = "remove"
    BY <1>11 DEF WriteRules, WriteFile
  <2>2. "rules" \in Kinds
    BY DEF Kinds
  <2>3. DropInMoved' <=> DropInMoved
    BY <1>9, <1>11, <2>2 DEF WriteRules
  <2>4. QED
    BY <2>1, <2>3 DEF RunInv
<1>12. CASE Remove
  <2>1. /\ UNCHANGED <<last, before, legacy, changed>> /\ pc = "remove"
        /\ pc' \in {"remove", "tailscale"}
    BY <1>12 DEF Remove
  <2>2. \A i \in DOMAIN Removed :
           <<Removed[i], "piece">> \in Undos /\ <<Removed[i], "piece">>[2] # "tailscale"
    BY DEF Removed, Pieces, Units, Undos
  <2>3. DropInMoved' <=> DropInMoved
    BY <1>0, <1>8, <1>12, <2>2 DEF Remove
  <2>4. QED
    BY <2>1, <2>3 DEF RunInv
<1>13. CASE Tailscale
  <2>1. /\ UNCHANGED <<last, before, legacy, changed>> /\ pc = "tailscale"
        /\ pc' = "owner" /\ undo' = Append(undo, <<tsFile, "tailscale">>)
    BY <1>13 DEF Tailscale
  <2>2. <<tsFile, "tailscale">> \in Undos /\ tsFile \in {"none", "old", "new"}
    BY DEF Undos, TypeOK
  <2>3. DropInMoved'
    BY <2>1, <2>2, UndoPush DEF DropInMoved, TypeOK
  <2>4. QED
    BY <2>1, <2>3 DEF RunInv
<1>14. CASE StoreOwner \/ WriteDropIn \/ Restop \/ Start \/ Apply \/ Save \/ Check
  <2>1. /\ UNCHANGED <<undo, last, before, legacy, changed>>
        /\ pc \in {"owner", "socket", "restop", "start", "apply", "saveSettings",
                  "saveRules", "check"}
        /\ pc' \in {"socket", "restop", "start", "tidy", "apply", "saveSettings",
                   "saveRules", "check", "done"}
    BY <1>14 DEF StoreOwner, WriteDropIn, Restop, Start, Apply, Save, SaveFile, Check
  <2>2. QED
    BY <1>0, <2>1 DEF RunInv
<1>15. CASE Tidy \/ Done \/ Crash \/ RecoverStart
  <2>1. PICK r \in {"ok", "refused", "failed", "broken", "crashed"} : End(r)
    BY <1>15 DEF Tidy, Done, Crash, RecoverStart
  <2>2. QED
    BY <1>2, <2>1
<1>16. CASE Fails
  <2>1. CASE changed
    <3>1. pc # "idle" /\ pc' = "rStop" /\ changed' /\ UNCHANGED last
      BY <1>16, <2>1 DEF Fails, Steps
    <3>2. QED
      BY <3>1 DEF RunInv
  <2>2. CASE ~changed
    BY <1>2, <1>16, <2>2 DEF Fails
  <2>3. QED
    BY <2>1, <2>2
<1>17. CASE RecoverStop \/ RecoverUndo \/ RecoverData \/ RecoverBackup \/ RecoverTail
  <2>1. /\ UNCHANGED <<last, before, legacy, changed>> /\ pc \in Recovery
        /\ pc' \in Recovery
        /\ pc' \in {"rData", "rBack", "rTail", "rStart"} => undo' = <<>>
    BY <1>17 DEF RecoverStop, RecoverUndo, RecoverData, RecoverBackup, RecoverTail,
       Recovery, RunInv
  <2>2. QED
    BY <2>1 DEF RunInv, Recovery
<1>18. CASE UpdateStarts \/ UpdateEnds \/ OwnerSaves \/ UNCHANGED vars
  <2>1. UNCHANGED <<pc, undo, last, before, legacy, changed, oldUp, files>>
    BY <1>18 DEF UpdateStarts, UpdateEnds, OwnerSaves, vars, host
  <2>2. QED
    BY <1>0, <2>1 DEF RunInv
<1>19. QED
  BY <1>3, <1>4, <1>5, <1>6, <1>7, <1>10, <1>11, <1>12, <1>13, <1>14, <1>15, <1>16,
     <1>17, <1>18 DEF Next, Forward

\* The owner's setting files are what the import's steps make of them, what was
\* imported is in place, and the old pieces that were taken away stay away.
LEMMA TakenStep ==
    TypeOK /\ ImportInv /\ RunInv /\ TakenInv /\ [Next]_vars => TakenInv'
<1> SUFFICES ASSUME TypeOK, ImportInv, RunInv, TakenInv, [Next]_vars PROVE TakenInv'
  OBVIOUS
<1> DEFINE Gone == \A i \in DOMAIN Removed : ~Here(i)
           Early == {"prepare", "stopNew", "stopOld", "backup", "install", "settings"}
<1> USE DEF old, outside, run, past, Steps, Recovery, Cleared, Applied, Skipped
<1>1. ASSUME pc' \in Recovery \cup {"idle"}, last' # "ok" PROVE TakenInv'
  BY <1>1 DEF TakenInv
<1>2. pc # "idle" => last # "ok"
  BY DEF RunInv
<1>3. ASSUME NEW keep \in BOOLEAN, Run(keep) PROVE TakenInv'
  <2>1. CASE pc' = "prepare"
    <3>1. /\ last' = "none" /\ before' = Before /\ legacy' = FALSE
          /\ UNCHANGED <<files, import>> /\ pc = "idle"
      BY <1>3, <2>1 DEF Run
    <3>2. before'.files = files' /\ import'.data = 0
      BY <3>1, Shapes DEF Before, ImportInv
    <3>3. QED
      BY <2>1, <3>1, <3>2 DEF TakenInv
  <2>2. CASE pc' # "prepare"
    <3>1. pc' = "idle" /\ last' = "refused"
      BY <1>3, <2>2 DEF Run
    <3>2. QED
      BY <1>1, <3>1
  <2>3. QED
    BY <2>1, <2>2
<1>4. CASE Prepare
  <2>1. CASE pc' = "idle"
    BY <1>1, <1>4, <2>1 DEF Prepare, End
  <2>2. CASE pc' # "idle"
    <3>1. /\ pc = "prepare" /\ pc' \in {"stopNew", "owner"}
          /\ pc' = "owner" => import' = NoImport /\ ~legacy'
          /\ UNCHANGED <<files, before, world, last>>
      BY <1>4, <2>2 DEF Prepare, End
    <3>2. QED
      BY <1>2, <3>1, Shapes DEF TakenInv
  <2>3. QED
    BY <2>1, <2>2
<1>5. CASE StopNew \/ StopOld \/ Backup
  <2>1. /\ pc \in Early \ {"settings"} /\ pc' \in {"stopOld", "backup", "install", "remove"}
        /\ pc' = "remove" => import.data = 0
        /\ UNCHANGED <<files, before, world, last, import, legacy>>
    BY <1>5 DEF StopNew, StopOld, Backup
  <2>2. QED
    BY <1>2, <2>1 DEF TakenInv
<1>6. CASE BackupRefused \/ InstallFails
  <2>1. pc' = "rStop" /\ last' # "ok"
    BY <1>2, <1>6 DEF BackupRefused, InstallFails
  <2>2. QED
    BY <1>1, <2>1
<1>7. CASE Install
  <2>1. /\ pc = "install" /\ pc' = "settings" /\ import'.installed
        /\ UNCHANGED <<files, before, world, last, legacy>>
    BY <1>7 DEF Install, TypeOK
  <2>2. QED
    BY <1>2, <2>1 DEF TakenInv
<1>8. CASE WriteSettings
  <2>1. /\ pc = "settings" /\ files = before.files
        /\ import.data # 0 => import.installed
        /\ UNCHANGED <<before, world, last, import, legacy>>
    BY <1>8 DEF WriteSettings, TakenInv
  <2>2. files = Pair("none") <=> \A k \in Kinds : files[k] = "none"
    BY DEF TypeOK, Files, Pair
  <2>3. CASE WritesFiles
    <3>1. pc' = "rules" /\ files' = [files EXCEPT !["settings"] = "imp"]
      BY <1>8, <2>3 DEF WriteSettings, WriteFile
    <3>2. QED
      BY <1>2, <2>1, <2>2, <2>3, <3>1 DEF TakenInv, WritesFiles
  <2>4. CASE ~WritesFiles
    <3>1. pc' = "remove" /\ files' = files
      BY <1>8, <2>4 DEF WriteSettings
    <3>2. QED
      BY <1>2, <2>1, <2>2, <2>4, <3>1 DEF TakenInv, WritesFiles, TakenFiles
  <2>5. QED
    BY <2>3, <2>4
<1>9. CASE WriteRules
  <2>1. /\ pc = "rules" /\ pc' = "remove" /\ files' = [files EXCEPT !["rules"] = "imp"]
        /\ ~Skipped /\ files = [Pair("none") EXCEPT !["settings"] = "imp"]
        /\ import.data # 0 => import.installed
        /\ UNCHANGED <<before, world, last, import, legacy>>
    BY <1>9 DEF WriteRules, WriteFile, TakenInv
  <2>2. files' = Pair("imp")
    BY <2>1 DEF Pair, Kinds
  <2>3. QED
    BY <1>2, <2>1, <2>2 DEF TakenInv, TakenFiles
<1>10. CASE Remove
  <2>1. /\ pc = "remove" /\ pc' \in {"remove", "tailscale"}
        /\ pc' = "tailscale" => Gone /\ placed' = placed
        /\ UNCHANGED <<files, before, world, last, import, legacy>>
    BY <1>10 DEF Remove
  <2>2. QED
    BY <1>2, <2>1 DEF TakenInv, TakenFiles, Here
<1>11. CASE Tailscale \/ StoreOwner \/ WriteDropIn \/ Restop
  <2>1. /\ pc \in {"tailscale", "owner", "socket", "restop"}
        /\ pc' \in {"owner", "socket", "restop", "start"}
        /\ UNCHANGED <<files, before, world, last, import, legacy, placed>>
    BY <1>11 DEF Tailscale, StoreOwner, WriteDropIn, Restop
  <2>2. QED
    BY <1>2, <2>1 DEF TakenInv, TakenFiles, Here
<1>12. CASE Start
  <2>1. /\ pc = "start" /\ pc' \in {"tidy", "apply", "check"}
        /\ pc' = "tidy" => ~legacy
        /\ pc' = "check" => import.data = 0
        /\ pc' = "apply" => import.data # 0
        /\ UNCHANGED <<files, before, world, last, import, legacy, placed>>
    BY <1>12 DEF Start
  <2>2. QED
    BY <1>2, <2>1 DEF TakenInv, TakenFiles, Here
<1>13. CASE Apply
  <2>1. /\ pc = "apply" /\ pc' = "saveSettings"
        /\ daemon'.cfg = OrDefaults(files) /\ dir'.cfg = OrDefaults(files)
        /\ UNCHANGED <<files, before, world, last, import, legacy, placed>>
    BY <1>13 DEF Apply, FromFiles, TypeOK, Daemons, Dirs
  <2>2. import.data # 0 /\ files = TakenFiles
    BY <2>1 DEF TakenInv
  <2>3. QED
    BY <1>2, <2>1, <2>2 DEF TakenInv, TakenFiles, Here, OrDefaults
<1>14. CASE Save
  <2>1. /\ import.data # 0
        /\ UNCHANGED <<before, world, last, import, legacy, placed, daemon, dir>>
    BY <1>14 DEF Save, SaveFile, TakenInv
  <2>2. "settings" \in Kinds /\ "rules" \in Kinds /\ Kinds = {"settings", "rules"}
    BY DEF Kinds
  <2>3. \A k \in Kinds : FromFiles[k] = IF files[k] = "none" THEN "default" ELSE files[k]
    BY DEF FromFiles, OrDefaults
  <2>4. \A k \in Kinds : OrDefaults(TakenFiles)[k]
                           = IF TakenFiles[k] = "none" THEN "default" ELSE TakenFiles[k]
    BY DEF OrDefaults
  <2>5. TakenFiles' = TakenFiles /\ OrDefaults(TakenFiles)' = OrDefaults(TakenFiles)
    BY <2>1 DEF TakenFiles, OrDefaults
  <2>6. CASE pc = "saveSettings"
    <3>1. /\ pc' = "saveRules" /\ files' = [files EXCEPT !["settings"] = FromFiles["settings"]]
          /\ files = TakenFiles
      BY <1>14, <2>1, <2>6 DEF Save, SaveFile, TakenInv
    <3>2. files'["settings"] = FromFiles["settings"] /\ files'["rules"] = files["rules"]
      BY <2>2, <3>1 DEF TypeOK, Files
    <3>3. files'["settings"] = OrDefaults(TakenFiles)["settings"]
          /\ files'["rules"] = TakenFiles["rules"]
      BY <2>2, <2>3, <2>4, <3>1, <3>2
    <3>4. QED
      BY <1>2, <2>1, <2>5, <2>6, <3>1, <3>3 DEF TakenInv, Here
  <2>7. CASE pc = "saveRules"
    <3>1. /\ pc' = "check" /\ files' = [files EXCEPT !["rules"] = FromFiles["rules"]]
          /\ files["settings"] = OrDefaults(TakenFiles)["settings"]
          /\ files["rules"] = TakenFiles["rules"]
      BY <1>14, <2>1, <2>7 DEF Save, SaveFile, TakenInv
    <3>2. files'["rules"] = FromFiles["rules"] /\ files'["settings"] = files["settings"]
          /\ files' = [k \in Kinds |-> files'[k]]
      BY <2>2, <3>1 DEF TypeOK, Files
    <3>3. \A k \in Kinds : files'[k] = OrDefaults(TakenFiles)[k]
      BY <2>2, <2>3, <2>4, <3>1, <3>2
    <3>4. files' = OrDefaults(TakenFiles)
      BY <3>2, <3>3 DEF OrDefaults
    <3>5. QED
      BY <1>2, <2>1, <2>5, <2>7, <3>1, <3>4 DEF TakenInv, Here
  <2>8. QED
    BY <1>14, <2>6, <2>7 DEF Save
<1>15. CASE Check
  <2>1. /\ pc = "check" /\ pc' = "done" /\ daemon'.cfg = daemon.cfg /\ dir'.cfg = dir.cfg
        /\ UNCHANGED <<files, before, world, last, import, legacy, placed>>
    BY <1>15 DEF Check, TypeOK, Daemons, Dirs
  <2>2. QED
    BY <1>2, <2>1 DEF TakenInv, TakenFiles, Here, OrDefaults
<1>16. CASE Tidy
  <2>1. pc' = "idle" /\ ~legacy /\ legacy' = legacy
    BY <1>16 DEF Tidy, End, TakenInv
  <2>2. QED
    BY <2>1 DEF TakenInv
<1>17. CASE Done
  <2>1. pc = "done" /\ pc' = "idle" /\ UNCHANGED <<legacy, placed>>
    BY <1>17 DEF Done, End
  <2>2. QED
    BY <2>1 DEF TakenInv, Here
<1>18. CASE Fails \/ Crash
  <2>1. pc' \in {"idle", "rStop"} /\ last' # "ok"
    BY <1>2, <1>18 DEF Fails, Crash, End
  <2>2. QED
    BY <1>1, <2>1
<1>19. CASE \/ RecoverStop \/ RecoverUndo \/ RecoverData \/ RecoverBackup
            \/ RecoverTail \/ RecoverStart
  <2>1. pc' \in Recovery \cup {"idle"} /\ last' # "ok"
    BY <1>2, <1>19 DEF RecoverStop, RecoverUndo, RecoverData, RecoverBackup,
       RecoverTail, RecoverStart, End
  <2>2. QED
    BY <1>1, <2>1
<1>20. CASE UpdateStarts \/ UpdateEnds \/ UNCHANGED vars
  <2>1. UNCHANGED <<pc, files, before, world, last, import, legacy, placed, daemon, dir>>
    BY <1>20 DEF UpdateStarts, UpdateEnds, vars, host
  <2>2. QED
    BY <2>1 DEF TakenInv, TakenFiles, Here, OrDefaults
<1>21. CASE OwnerSaves
  <2>1. /\ UNCHANGED <<pc, files, before, world, last, import, legacy, placed>>
        /\ dir.cfg = NoCfg
    BY <1>21 DEF OwnerSaves
  <2>2. ~(import.data # 0 /\ pc \in Applied)
    BY <2>1 DEF TakenInv, ImportInv
  <2>3. QED
    BY <2>1, <2>2 DEF TakenInv, TakenFiles, Here, OrDefaults
<1>22. QED
  BY <1>3, <1>4, <1>5, <1>6, <1>7, <1>8, <1>9, <1>10, <1>11, <1>12, <1>13, <1>14,
     <1>15, <1>16, <1>17, <1>18, <1>19, <1>20, <1>21 DEF Next, Forward

\* A step that touches neither the old install nor its undo list keeps what a
\* recovery puts back, if the directory it ends with keeps its data and, but for a
\* claim, its owner.
LEMMA UndoKept ==
    ASSUME UndoInv, UNCHANGED <<world, active, before, undo, placed, files>>,
           EndDir'.data = EndDir.data, EndDir'.owner \in {EndDir.owner, "me"},
           EndDir'.cfg = NoCfg => /\ EndDir.cfg = NoCfg
                                  /\ tsFile' = tsFile \/ DropInMoved
    PROVE  UndoInv'
<1>1. \A x : Undoes(x)' <=> Undoes(x)
  BY DEF Undoes
<1>2. DropInMoved' <=> DropInMoved
  BY <1>1 DEF DropInMoved
<1>3. QED
  BY <1>1, <1>2 DEF UndoInv, Skipped

\* A step that moves one thing aside and records it.
LEMMA UndoPushed ==
    ASSUME TypeOK, UndoInv, UNCHANGED <<world, active, before>>, EndDir' = EndDir,
           NEW e \in Undos, undo' = Append(undo, e),
           e[2] = "piece" => /\ e[1] \in placed /\ placed' = placed \ {e[1]}
                             /\ UNCHANGED <<files, tsFile>>,
           e[2] = "file" => /\ files[e[1]] = "none" /\ UNCHANGED <<placed, tsFile>>
                            /\ files' = [files EXCEPT ![e[1]] = "imp"],
           e[2] = "tailscale" => /\ e[1] = tsFile /\ ~DropInMoved
                                 /\ UNCHANGED <<placed, files>>
    PROVE  UndoInv'
<1>1. \A x : Undoes(x)' <=> Undoes(x) \/ x = e
  BY UndoPush DEF TypeOK
<1>2. CASE e \in Pieces \X {"piece"}
  <2>1. PICK p \in Pieces : e = <<p, "piece">>
    BY <1>2
  <2>2. p \in placed /\ placed' = placed \ {p} /\ UNCHANGED <<files, tsFile>>
    BY <2>1
  <2>3. /\ \A x : Undoes(<<x, "piece">>)' <=> Undoes(<<x, "piece">>) \/ x = p
        /\ \A k : Undoes(<<k, "file">>)' <=> Undoes(<<k, "file">>)
        /\ \A t : Undoes(<<t, "tailscale">>)' <=> Undoes(<<t, "tailscale">>)
    BY <1>1, <2>1
  <2>4. placed' \cup {x \in Pieces : Undoes(<<x, "piece">>)'}
          = placed \cup {x \in Pieces : Undoes(<<x, "piece">>)}
    BY <2>2, <2>3
  <2>5. DropInMoved' <=> DropInMoved
    BY <2>3 DEF DropInMoved
  <2>6. QED
    BY <2>2, <2>3, <2>4, <2>5 DEF UndoInv, Skipped
<1>3. CASE e \in Kinds \X {"file"}
  <2>1. PICK j \in Kinds : e = <<j, "file">>
    BY <1>3
  <2>2. /\ files[j] = "none" /\ \A k \in Kinds : k # j => files'[k] = files[k]
        /\ UNCHANGED <<placed, tsFile>>
    BY <2>1 DEF TypeOK, Files
  <2>3. /\ \A x : Undoes(<<x, "piece">>)' <=> Undoes(<<x, "piece">>)
        /\ \A k : Undoes(<<k, "file">>)' <=> Undoes(<<k, "file">>) \/ k = j
        /\ \A t : Undoes(<<t, "tailscale">>)' <=> Undoes(<<t, "tailscale">>)
    BY <1>1, <2>1
  <2>4. DropInMoved' <=> DropInMoved
    BY <2>3 DEF DropInMoved
  <2>5. \A k \in Kinds : IF Undoes(<<k, "file">>)' THEN before.files[k] = "none"
                         ELSE \/ files'[k] = before.files[k]
                              \/ /\ Skipped' /\ before.files[k] = "none"
                                 /\ files'[k] = "default"
    <3>0. \A k \in Kinds : IF Undoes(<<k, "file">>) THEN before.files[k] = "none"
                           ELSE \/ files[k] = before.files[k]
                                \/ /\ Skipped /\ before.files[k] = "none"
                                   /\ files[k] = "default"
      BY DEF UndoInv
    <3>1. Skipped' = Skipped
      BY DEF Skipped
    <3>2. Undoes(<<j, "file">>)' /\ before.files[j] = "none"
      BY <2>2, <2>3, <3>0
    <3>3. ASSUME NEW k \in Kinds, k # j
          PROVE  IF Undoes(<<k, "file">>)' THEN before.files[k] = "none"
                 ELSE \/ files'[k] = before.files[k]
                      \/ /\ Skipped' /\ before.files[k] = "none"
                         /\ files'[k] = "default"
      <4>1. files'[k] = files[k] /\ (Undoes(<<k, "file">>)' <=> Undoes(<<k, "file">>))
        BY <2>2, <2>3, <3>3
      <4>2. QED
        BY <3>0, <3>1, <3>3, <4>1
    <3>4. QED
      BY <3>2, <3>3
  <2>6. QED
    BY <2>2, <2>3, <2>4, <2>5 DEF UndoInv, Skipped
<1>4. CASE e \in {"none", "old", "new"} \X {"tailscale"}
  <2>1. e = <<tsFile, "tailscale">> /\ ~DropInMoved /\ UNCHANGED <<placed, files>>
    BY <1>4
  <2>2. /\ \A x : Undoes(<<x, "piece">>)' <=> Undoes(<<x, "piece">>)
        /\ \A k : Undoes(<<k, "file">>)' <=> Undoes(<<k, "file">>)
        /\ \A t : Undoes(<<t, "tailscale">>)' <=> Undoes(<<t, "tailscale">>) \/ t = tsFile
    BY <1>1, <2>1
  <2>3. DropInMoved'
    BY <2>2 DEF DropInMoved, TypeOK
  <2>4. QED
    BY <2>1, <2>2, <2>3 DEF UndoInv, Skipped
<1>5. QED
  BY <1>2, <1>3, <1>4 DEF Undos

\* A step of the recovery that puts the last of it back.
LEMMA UndoPopped ==
    ASSUME TypeOK, UndoInv, UNCHANGED <<world, active, before>>, EndDir' = EndDir,
           undo # <<>>, undo' = SubSeq(undo, 1, Len(undo) - 1), Undone(undo[Len(undo)])
    PROVE  UndoInv'
<1>1. PICK e \in Undos : e = undo[Len(undo)]
  BY UndoPop DEF TypeOK
<1>2. Undone(e) /\ \A x : Undoes(x) <=> Undoes(x)' \/ x = e
  BY <1>1, UndoPop DEF TypeOK
<1>3. CASE e \in Pieces \X {"piece"}
  <2>1. PICK p \in Pieces : e = <<p, "piece">>
    BY <1>3
  <2>2. placed' = placed \cup {p} /\ UNCHANGED <<files, tsFile>>
    BY <1>2, <2>1 DEF Undone
  <2>3. /\ \A x : Undoes(<<x, "piece">>) <=> Undoes(<<x, "piece">>)' \/ x = p
        /\ \A k : Undoes(<<k, "file">>)' <=> Undoes(<<k, "file">>)
        /\ \A t : Undoes(<<t, "tailscale">>)' <=> Undoes(<<t, "tailscale">>)
    BY <1>2, <2>1
  <2>4. placed' \cup {x \in Pieces : Undoes(<<x, "piece">>)'}
          = placed \cup {x \in Pieces : Undoes(<<x, "piece">>)}
    BY <2>2, <2>3
  <2>5. DropInMoved' <=> DropInMoved
    BY <2>3 DEF DropInMoved
  <2>6. QED
    BY <2>2, <2>3, <2>4, <2>5 DEF UndoInv, Skipped
<1>4. CASE e \in Kinds \X {"file"}
  <2>1. PICK j \in Kinds : e = <<j, "file">>
    BY <1>4
  <2>2. /\ files'[j] = "none" /\ \A k \in Kinds : k # j => files'[k] = files[k]
        /\ UNCHANGED <<placed, tsFile>>
    BY <1>2, <2>1 DEF Undone, TypeOK, Files
  <2>3. /\ \A x : Undoes(<<x, "piece">>)' <=> Undoes(<<x, "piece">>)
        /\ \A k : Undoes(<<k, "file">>) <=> Undoes(<<k, "file">>)' \/ k = j
        /\ \A t : Undoes(<<t, "tailscale">>)' <=> Undoes(<<t, "tailscale">>)
    BY <1>2, <2>1
  <2>4. DropInMoved' <=> DropInMoved
    BY <2>3 DEF DropInMoved
  <2>5. \A k \in Kinds : IF Undoes(<<k, "file">>)' THEN before.files[k] = "none"
                         ELSE \/ files'[k] = before.files[k]
                              \/ /\ Skipped' /\ before.files[k] = "none"
                                 /\ files'[k] = "default"
    <3>0. \A k \in Kinds : IF Undoes(<<k, "file">>) THEN before.files[k] = "none"
                           ELSE \/ files[k] = before.files[k]
                                \/ /\ Skipped /\ before.files[k] = "none"
                                   /\ files[k] = "default"
      BY DEF UndoInv
    <3>1. Skipped' = Skipped
      BY DEF Skipped
    <3>2. files'[j] = "none" /\ before.files[j] = "none"
      BY <2>2, <2>3, <3>0
    <3>3. ASSUME NEW k \in Kinds, k # j
          PROVE  IF Undoes(<<k, "file">>)' THEN before.files[k] = "none"
                 ELSE \/ files'[k] = before.files[k]
                      \/ /\ Skipped' /\ before.files[k] = "none"
                         /\ files'[k] = "default"
      <4>1. files'[k] = files[k] /\ (Undoes(<<k, "file">>)' <=> Undoes(<<k, "file">>))
        BY <2>2, <2>3, <3>3
      <4>2. QED
        BY <3>0, <3>1, <3>3, <4>1
    <3>4. QED
      BY <3>2, <3>3
  <2>6. QED
    BY <2>2, <2>3, <2>4, <2>5 DEF UndoInv, Skipped
<1>5. CASE e \in {"none", "old", "new"} \X {"tailscale"}
  <2>1. PICK d \in {"none", "old", "new"} : e = <<d, "tailscale">>
    BY <1>5
  <2>2. tsFile' = d /\ UNCHANGED <<placed, files>>
    BY <1>2, <2>1 DEF Undone
  <2>3. /\ \A x : Undoes(<<x, "piece">>)' <=> Undoes(<<x, "piece">>)
        /\ \A k : Undoes(<<k, "file">>)' <=> Undoes(<<k, "file">>)
        /\ \A t : Undoes(<<t, "tailscale">>) <=> Undoes(<<t, "tailscale">>)' \/ t = d
    BY <1>2, <2>1
  <2>4. EndDir.cfg = NoCfg => d = before.tsFile
    BY <2>3 DEF UndoInv, Skipped
  <2>5. QED
    BY <2>2, <2>3, <2>4 DEF UndoInv, Skipped
<1>6. QED
  BY <1>3, <1>4, <1>5 DEF Undos

\* As long as a run may recover, what it has not undone yet is all that differs
\* from before it.
LEMMA UndoStep ==
    /\ TypeOK /\ SidesInv /\ ImportInv /\ RunInv /\ TakenInv
    /\ (Recoverable => UndoInv) /\ [Next]_vars
    => (Recoverable' => UndoInv')
<1> SUFFICES ASSUME TypeOK, SidesInv, ImportInv, RunInv, TakenInv,
                    Recoverable => UndoInv, [Next]_vars, Recoverable'
             PROVE  UndoInv'
  OBVIOUS
<1> USE DEF old, outside, run, past
<1>1. ASSUME NEW keep \in BOOLEAN, Run(keep) PROVE UndoInv'
  <2>1. ~Refused(keep)
    BY <1>1 DEF Run, Recoverable
  <2>2. /\ pc = "idle" /\ pc' = "prepare" /\ active' = oldUp /\ before' = Before
        /\ UNCHANGED <<placed, files, tsFile, dir, import, undo>>
    BY <1>1, <2>1 DEF Run
  <2>3. \A x : ~Undoes(x)'
    BY <2>2, NowEmpty DEF RunInv
  <2>4. /\ before'.oldUp = oldUp /\ before'.placed = placed /\ before'.files = files
        /\ before'.tsFile = tsFile /\ before'.data = dir.data
        /\ before'.owner = dir.owner
    BY <2>2 DEF Before
  <2>5. EndDir' = dir
    BY <2>2, Shapes DEF EndDir, ImportInv
  <2>6. placed' \cup {x \in Pieces : Undoes(<<x, "piece">>)'} = placed
    BY <2>2, <2>3
  <2>7. QED
    BY <2>2, <2>3, <2>4, <2>5, <2>6 DEF UndoInv, SidesInv, TypeOK
<1>2. CASE Prepare
  <2>1. /\ pc = "prepare" /\ pc' \in {"stopNew", "owner"} /\ legacy'
        /\ UNCHANGED <<world, active, before, placed, files, tsFile, dir>>
    BY <1>2 DEF Prepare, End, Recoverable
  <2>2. CASE Staging /\ (lock = "updater" \/ ~EmptyState)
    BY <1>2, <2>1, <2>2 DEF Prepare, End
  <2>3. CASE ~(Staging /\ (lock = "updater" \/ ~EmptyState))
    <3>1. undo' = undo /\ ~import'.installed
      BY <1>2, <2>3, Shapes DEF Prepare
    <3>2. UndoInv
      BY <2>1 DEF Recoverable, Recovery
    <3>3. EndDir = dir /\ EndDir' = dir
      BY <2>1, <3>1, Shapes DEF EndDir, ImportInv
    <3>4. QED
      BY <2>1, <3>1, <3>2, <3>3, UndoKept
  <2>4. QED
    BY <2>2, <2>3
\* A step that goes on from a step of the run, or of a recovery that works, was
\* recoverable before it.
<1>3. ASSUME pc \notin {"idle", "prepare"}, legacy' = legacy, pc' # "prepare",
             pc \in Recovery => ~broken
      PROVE  UndoInv /\ legacy
  BY <1>3 DEF Recoverable
<1>4. CASE StopNew \/ StopOld \/ BackupRefused
  <2>1. /\ pc \in {"stopNew", "stopOld", "backup"}
        /\ pc' \in {"stopOld", "backup", "remove", "rStop"}
        /\ UNCHANGED <<world, legacy, active, before, undo, placed, files, tsFile, dir, import>>
    BY <1>4 DEF StopNew, StopOld, BackupRefused
  <2>2. UndoInv
    BY <1>3, <2>1 DEF Recovery
  <2>3. EndDir = dir /\ EndDir' = dir
    BY <2>1 DEF EndDir, ImportInv
  <2>4. QED
    BY <2>1, <2>2, <2>3, UndoKept
<1>5. CASE Backup
  <2>1. /\ pc = "backup" /\ pc' = "install" /\ backup' = dir
        /\ UNCHANGED <<world, legacy, active, before, undo, placed, files, tsFile>>
    BY <1>5 DEF Backup
  <2>2. UndoInv
    BY <1>3, <2>1 DEF Recovery
  <2>3. EndDir = dir /\ EndDir' = dir
    BY <2>1 DEF EndDir, ImportInv
  <2>4. QED
    BY <2>1, <2>2, <2>3, UndoKept
<1>6. CASE Install \/ InstallFails
  <2>0. ~(InstallFails /\ broken')
    BY DEF InstallFails, Recoverable, Recovery
  <2>1. /\ pc = "install"
        /\ UNCHANGED <<world, legacy, active, before, undo, placed, files, tsFile, backup>>
        /\ \/ pc' = "settings" /\ import'.installed
           \/ pc' = "rStop" /\ dir' = backup /\ import' = import
    BY <1>6, <2>0 DEF Install, InstallFails, TypeOK
  <2>2. UndoInv
    BY <1>3, <2>1 DEF Recovery
  <2>3. EndDir = backup /\ EndDir' = backup
    BY <2>1 DEF EndDir, ImportInv
  <2>4. QED
    BY <2>1, <2>2, <2>3, UndoKept
\* Between these steps the directory a recovery ends with does not move.
<1>7. ASSUME pc \notin {"install", "rBack"}, pc' \notin {"install", "rBack"},
             UNCHANGED <<import, dir, backup>>
      PROVE  EndDir' = EndDir
  BY <1>7 DEF EndDir
<1>8. ASSUME NEW k \in Kinds, NEW n \in {"rules", "remove"}, WriteFile(k, n),
             files[k] = "none", pc \in {"settings", "rules"},
             UNCHANGED <<world, legacy, active, before, placed, tsFile, import, dir, backup>>
      PROVE  UndoInv'
  <2>1. undo' = Append(undo, <<k, "file">>) /\ files' = [files EXCEPT ![k] = "imp"]
        /\ pc' \in {"rules", "remove"}
    BY <1>8 DEF WriteFile
  <2>2. UndoInv /\ EndDir' = EndDir
    BY <1>3, <1>7, <1>8, <2>1 DEF Recovery
  <2>3. PICK e \in Undos : e = <<k, "file">>
    BY DEF Undos
  <2>4. /\ undo' = Append(undo, e) /\ e[1] = k
        /\ e[2] # "piece" /\ e[2] # "tailscale"
    BY <2>1, <2>3
  <2>5. QED
    BY <1>8, <2>1, <2>2, <2>4, UndoPushed
<1>9. CASE WriteSettings
  <2>1. CASE WritesFiles
    <3>1. "settings" \in Kinds
      BY DEF Kinds
    <3>2. QED
      BY <1>8, <1>9, <2>1, <3>1 DEF WriteSettings, WritesFiles
  <2>2. CASE ~WritesFiles
    <3>1. /\ pc = "settings" /\ pc' = "remove"
          /\ UNCHANGED <<world, legacy, active, before, undo, placed, files, tsFile, import, dir,
                         backup>>
      BY <1>9, <2>2 DEF WriteSettings
    <3>2. UndoInv /\ EndDir' = EndDir
      BY <1>3, <1>7, <3>1 DEF Recovery
    <3>3. QED
      BY <3>1, <3>2, UndoKept
  <2>3. QED
    BY <2>1, <2>2
<1>10. CASE WriteRules
  <2>1. "rules" \in Kinds
    BY DEF Kinds
  <2>2. QED
    BY <1>8, <1>10, <2>1 DEF WriteRules, RunInv
<1>11. CASE Remove
  <2>1. /\ pc = "remove" /\ pc' \in {"remove", "tailscale"}
        /\ UNCHANGED <<world, legacy, active, before, files, tsFile, import, dir, backup>>
    BY <1>11 DEF Remove
  <2>2. UndoInv /\ EndDir' = EndDir
    BY <1>3, <1>7, <2>1 DEF Recovery
  <2>3. CASE UNCHANGED <<placed, undo>>
    BY <2>1, <2>2, <2>3, UndoKept
  <2>4. ASSUME NEW i \in DOMAIN Removed, Here(i), placed' = placed \ {Removed[i]},
               undo' = Append(undo, <<Removed[i], "piece">>)
        PROVE  UndoInv'
    <3>1. <<Removed[i], "piece">> \in Undos
      BY DEF Removed, Pieces, Units, Undos
    <3>2. PICK e \in Undos : e = <<Removed[i], "piece">>
      BY <3>1
    <3>3. /\ undo' = Append(undo, e) /\ e[1] = Removed[i]
          /\ e[2] # "file" /\ e[2] # "tailscale"
      BY <2>4, <3>2
    <3>4. QED
      BY <2>1, <2>2, <2>4, <3>3, UndoPushed DEF Here
  <2>5. QED
    BY <1>11, <2>3, <2>4 DEF Remove
<1>12. CASE Tailscale
  <2>1. /\ pc = "tailscale" /\ pc' = "owner"
        /\ undo' = Append(undo, <<tsFile, "tailscale">>)
        /\ UNCHANGED <<world, legacy, active, before, placed, files, import, dir, backup>>
    BY <1>12 DEF Tailscale
  <2>2. UndoInv /\ EndDir' = EndDir
    BY <1>3, <1>7, <2>1 DEF Recovery
  <2>3. PICK e \in Undos : e = <<tsFile, "tailscale">>
    BY DEF Undos, TypeOK
  <2>4. /\ undo' = Append(undo, e) /\ e[1] = tsFile /\ ~DropInMoved
        /\ e[2] # "file" /\ e[2] # "piece"
    BY <2>1, <2>3 DEF RunInv, Quiet
  <2>5. QED
    BY <2>1, <2>2, <2>4, UndoPushed
<1>13. CASE StoreOwner \/ WriteDropIn \/ Restop \/ Start \/ Apply \/ Check
  <2>1. /\ pc \in {"owner", "socket", "restop", "start", "apply", "check"}
        /\ pc' \in {"socket", "restop", "start", "tidy", "apply", "saveSettings",
                   "check", "done"}
        /\ UNCHANGED <<world, legacy, active, before, undo, placed, files, import, backup>>
    BY <1>13 DEF StoreOwner, WriteDropIn, Restop, Start, Apply, Check
  <2>2. UndoInv /\ DropInMoved
    BY <1>3, <2>1 DEF Recovery, RunInv
  <2>3. /\ dir'.data = dir.data /\ dir'.owner \in {dir.owner, "me"}
        /\ dir'.cfg = dir.cfg \/ dir'.cfg = FromFiles
    BY <1>13 DEF StoreOwner, WriteDropIn, Restop, Start, Apply, Check, TypeOK, Dirs
  <2>4. /\ EndDir'.data = EndDir.data /\ EndDir'.owner \in {EndDir.owner, "me"}
        /\ EndDir'.cfg = NoCfg => EndDir.cfg = NoCfg
    BY <2>1, <2>3, FilesSaved DEF EndDir
  <2>5. QED
    BY <2>1, <2>2, <2>4, UndoKept
<1>14. CASE Tidy \/ Done \/ Crash \/ RecoverStart
  BY <1>14 DEF Tidy, Done, Crash, RecoverStart, End, Recoverable
<1>15. CASE Fails
  <2>1. /\ pc \in Steps \ {"install", "done"} /\ pc' = "rStop"
        /\ UNCHANGED <<world, legacy, active, before, undo, placed, files, tsFile, import, dir,
                       backup>>
    BY <1>15 DEF Fails, End, Recoverable
  <2>2. pc # "prepare"
    BY <2>1 DEF RunInv, Recoverable
  <2>3. UndoInv /\ EndDir' = EndDir
    BY <1>3, <1>7, <2>1, <2>2 DEF Recovery, Steps
  <2>4. QED
    BY <2>1, <2>3, UndoKept
<1>16. CASE RecoverStop \/ RecoverUndo \/ RecoverData \/ RecoverBackup \/ RecoverTail
  <2>1. /\ pc \in Recovery \ {"rStart"} /\ pc' \in Recovery \ {"rStop"}
        /\ UNCHANGED <<world, legacy, active, before>>
    BY <1>16 DEF RecoverStop, RecoverUndo, RecoverData, RecoverBackup, RecoverTail,
       Recovery
  <2>2. ~broken' /\ broken' = broken
    BY <1>16, <2>1 DEF Recoverable, RecoverStop, RecoverUndo, RecoverData,
       RecoverBackup, RecoverTail, Works, Breaks
  <2>3. UndoInv
    BY <1>3, <2>1, <2>2 DEF Recovery
  <2>4. CASE RecoverStop
    <3>1. /\ pc = "rStop" /\ pc' = "rUndo"
          /\ UNCHANGED <<undo, placed, files, tsFile, import, dir, backup>>
      BY <2>4 DEF RecoverStop
    <3>2. EndDir' = EndDir
      BY <1>7, <2>1, <3>1
    <3>3. QED
      BY <2>1, <2>3, <3>1, <3>2, UndoKept
  <2>5. CASE RecoverUndo
    <3>1. pc = "rUndo" /\ pc' \in {"rUndo", "rData"} /\ UNCHANGED <<import, dir, backup>>
      BY <2>5 DEF RecoverUndo
    <3>2. EndDir' = EndDir
      BY <1>7, <2>1, <3>1
    <3>3. CASE UNCHANGED <<undo, placed, files, tsFile>>
      BY <2>1, <2>3, <3>2, <3>3, UndoKept
    <3>4. CASE /\ undo # <<>> /\ undo' = SubSeq(undo, 1, Len(undo) - 1)
               /\ Undone(undo[Len(undo)])
      BY <2>1, <2>3, <3>2, <3>4, UndoPopped
    <3>5. QED
      BY <2>2, <2>5, <3>3, <3>4 DEF RecoverUndo, Breaks
  <2>6. CASE RecoverData
    <3>1. /\ pc = "rData" /\ UNCHANGED <<undo, placed, files, tsFile, backup>>
          /\ IF import.installed THEN pc' = "rBack"
             ELSE pc' = "rTail" /\ UNCHANGED <<dir, import>>
      BY <2>2, <2>6 DEF RecoverData, Breaks
    <3>2. EndDir' = EndDir
      BY <3>1 DEF EndDir
    <3>3. QED
      BY <2>1, <2>3, <3>1, <3>2, UndoKept
  <2>9. CASE RecoverBackup
    <3>1. /\ pc = "rBack" /\ pc' = "rTail" /\ dir' = backup
          /\ UNCHANGED <<undo, placed, files, tsFile, import>>
      BY <2>2, <2>9 DEF RecoverBackup, Breaks
    <3>2. EndDir = backup /\ EndDir' = backup
      BY <3>1 DEF EndDir, ImportInv
    <3>3. QED
      BY <2>1, <2>3, <3>1, <3>2, UndoKept
  <2>7. CASE RecoverTail
    <3>1. /\ pc = "rTail" /\ pc' = "rStart"
          /\ UNCHANGED <<undo, placed, files, tsFile, import, dir, backup>>
      BY <2>7 DEF RecoverTail
    <3>2. EndDir' = EndDir
      BY <3>1 DEF EndDir
    <3>3. QED
      BY <2>1, <2>3, <3>1, <3>2, UndoKept
  <2>8. QED
    BY <1>16, <2>4, <2>5, <2>6, <2>7, <2>9
<1>17. CASE UpdateStarts \/ UpdateEnds \/ UNCHANGED vars
  <2>1. UNCHANGED <<world, pc, legacy, active, before, undo, placed, files, tsFile, import, dir,
                    backup, broken>>
    BY <1>17 DEF UpdateStarts, UpdateEnds, vars, host
  <2>2. UndoInv /\ EndDir' = EndDir
    BY <2>1 DEF Recoverable, EndDir
  <2>3. QED
    BY <2>1, <2>2, UndoKept
<1>18. CASE OwnerSaves
  <2>1. /\ dir.owner # "none" /\ dir.cfg = NoCfg /\ dir'.data = dir.data
        /\ dir'.owner = dir.owner /\ dir'.cfg = Pair("own")
        /\ UNCHANGED <<world, pc, legacy, active, before, undo, placed, files, import, backup,
                       broken>>
    BY <1>18 DEF OwnerSaves, TypeOK, Dirs
  <2>2. UndoInv
    BY <2>1 DEF Recoverable
  <2>3. EndDir = dir /\ EndDir' = dir'
    BY <2>1 DEF EndDir, Bare, ImportInv
  <2>4. dir'.cfg # NoCfg
    BY <2>1, Shapes DEF Sources
  <2>5. QED
    BY <2>1, <2>2, <2>3, <2>4, UndoKept
\* A file that apply creates is one the owner did not have: where the run wrote
\* the import there is none missing.
<1>20. CASE Save
  <2>1. PICK k \in Kinds :
           /\ files' = [files EXCEPT ![k] = FromFiles[k]]
           /\ ~Skipped => files[k] = "imp"
    <3>1. import.data # 0 /\ (~Skipped => TakenFiles["settings"] = "imp")
          /\ (~Skipped => TakenFiles["rules"] = "imp")
      BY <1>20 DEF Save, SaveFile, TakenInv, TakenFiles, Pair, Kinds
    <3>2. CASE pc = "saveSettings"
      BY <1>20, <3>1, <3>2 DEF Save, SaveFile, TakenInv, Cleared, Kinds
    <3>3. CASE pc = "saveRules"
      BY <1>20, <3>1, <3>3 DEF Save, SaveFile, TakenInv, Kinds
    <3>4. QED
      BY <1>20, <3>2, <3>3 DEF Save
  <2>2. /\ pc \in {"saveSettings", "saveRules"} /\ pc' \in {"saveRules", "check"}
        /\ UNCHANGED <<world, legacy, active, before, undo, placed, tsFile, import, dir,
                       backup>>
    BY <1>20 DEF Save, SaveFile
  <2>3. UndoInv /\ EndDir' = EndDir
    BY <1>3, <1>7, <2>2 DEF Recovery
  <2>4. \A x : Undoes(x)' <=> Undoes(x)
    BY <2>2 DEF Undoes
  <2>5. DropInMoved' <=> DropInMoved
    BY <2>4 DEF DropInMoved
  <2>6. /\ \A j \in Kinds : j # k => files'[j] = files[j]
        /\ files'[k] = IF files[k] = "none" THEN "default" ELSE files[k]
    BY <2>1 DEF TypeOK, Files, FromFiles, OrDefaults
  <2>7. \A j \in Kinds : IF Undoes(<<j, "file">>)' THEN before'.files[j] = "none"
                         ELSE \/ files'[j] = before'.files[j]
                              \/ /\ Skipped' /\ before'.files[j] = "none"
                                 /\ files'[j] = "default"
    <3>1. ASSUME NEW j \in Kinds, ~Undoes(<<j, "file">>)
          PROVE  \/ files'[j] = before.files[j]
                 \/ Skipped /\ before.files[j] = "none" /\ files'[j] = "default"
      <4>1. \/ files[j] = before.files[j]
            \/ Skipped /\ before.files[j] = "none" /\ files[j] = "default"
        BY <2>3, <3>1 DEF UndoInv
      <4>2. CASE j = k
        BY <2>1, <2>6, <4>1, <4>2
      <4>3. CASE j # k
        BY <2>6, <4>1, <4>3
      <4>4. QED
        BY <4>2, <4>3
    <3>2. \A j \in Kinds : Undoes(<<j, "file">>) => before.files[j] = "none"
      BY <2>3 DEF UndoInv
    <3>3. Skipped' = Skipped /\ before' = before
      BY <2>2 DEF Skipped
    <3>4. QED
      BY <2>4, <3>1, <3>2, <3>3
  <2>8. QED
    BY <2>2, <2>3, <2>4, <2>5, <2>7 DEF UndoInv
<1>19. QED
  BY <1>1, <1>2, <1>20, <1>4, <1>5, <1>6, <1>9, <1>10, <1>11, <1>12, <1>13, <1>14, <1>15, <1>16,
     <1>17, <1>18 DEF Next, Forward

\* With nothing left to undo the old install is as it was, but for missing files that
\* apply has created.
LEMMA AllUndone ==
    ASSUME TypeOK, UndoInv, undo = <<>>
    PROVE  /\ placed = before.placed /\ active \subseteq placed
           /\ \A k \in Kinds :
                 \/ files[k] = before.files[k]
                 \/ Skipped /\ before.files[k] = "none" /\ files[k] = "default"
           /\ EndDir.cfg = NoCfg => tsFile = before.tsFile
<1>1. \A x : ~Undoes(x)
  BY UndoEmpty
<1>2. placed = before.placed
  BY <1>1 DEF UndoInv
<1>3. ~DropInMoved
  BY <1>1 DEF DropInMoved
<1>4. QED
  BY <1>1, <1>2, <1>3 DEF UndoInv

\* A run fails with the old install as it was, and it stays so until the next.
LEMMA FailedStep ==
    TypeOK /\ CutoverInv /\ [Next]_vars => FailedRestores'
<1> SUFFICES ASSUME TypeOK, CutoverInv, [Next]_vars, last' = "failed", legacy'
             PROVE  FailedRestores'
  BY DEF FailedRestores
<1> USE DEF old, outside, run, past, CutoverInv
<1>1. ASSUME NEW keep \in BOOLEAN, Run(keep) PROVE FALSE
  BY <1>1 DEF Run
<1>2. ASSUME last' = last, pc # "idle" PROVE FALSE
  BY <1>2 DEF RunInv
<1>3. CASE Prepare
  BY <1>2, <1>3 DEF Prepare, End
<1>4. CASE \/ StopNew \/ StopOld \/ Backup \/ BackupRefused \/ Install \/ InstallFails
           \/ WriteSettings \/ WriteRules \/ Remove \/ Tailscale \/ StoreOwner
           \/ WriteDropIn \/ Restop \/ Start \/ Apply \/ Save \/ Check
           \/ RecoverStop \/ RecoverUndo \/ RecoverData \/ RecoverBackup \/ RecoverTail
  <2>1. last' = last /\ pc # "idle"
    BY <1>4 DEF StopNew, StopOld, Backup, BackupRefused, Install, InstallFails,
       WriteSettings, WriteRules, Remove, Tailscale, StoreOwner, WriteDropIn, Restop,
       Start, Apply, Save, SaveFile, Check, RecoverStop, RecoverUndo, RecoverData,
       RecoverBackup, RecoverTail
  <2>2. QED
    BY <1>2, <2>1
<1>5. CASE Tidy \/ Done \/ Crash
  BY <1>5 DEF Tidy, Done, Crash, End
<1>6. CASE Fails
  <2>1. pc \in Steps /\ UNCHANGED <<world, legacy, placed, oldUp, files, tsFile, dir, before>>
    BY <1>6 DEF Fails
  <2>2. pc # "idle" /\ pc \notin Recovery
    BY <2>1 DEF Steps, Recovery
  <2>3. ~changed
    BY <1>2, <1>6, <2>2 DEF Fails
  <2>4. pc = "stopNew"
    BY <2>1, <2>2, <2>3 DEF RunInv
  <2>5. UndoInv /\ undo = <<>> /\ oldUp = before.oldUp
    BY <2>1, <2>2, <2>4 DEF Recoverable, RunInv
  <2>6. EndDir = dir
    BY <2>4 DEF EndDir, ImportInv
  <2>7. dir.data = before.data /\ dir.owner \in {before.owner, "me"}
    BY <2>5, <2>6 DEF UndoInv
  <2>8. QED
    BY <2>1, <2>5, <2>6, <2>7, AllUndone DEF FailedRestores, Skipped
<1>7. CASE RecoverStart
  <2>1. /\ pc = "rStart" /\ UNCHANGED <<world, legacy, placed, files, tsFile, dir, before>>
        /\ last' = IF broken' THEN "broken" ELSE "failed"
    BY <1>7 DEF RecoverStart, End
  <2>2. ~broken' /\ broken' = broken /\ oldUp' = active \cap placed
    BY <1>7, <2>1 DEF RecoverStart, Works, Breaks
  <2>3. UndoInv /\ undo = <<>>
    BY <2>1, <2>2 DEF Recoverable, RunInv
  <2>4. EndDir = dir
    BY <2>1, <2>2 DEF EndDir, ImportInv
  <2>5. /\ dir.data = before.data /\ dir.owner \in {before.owner, "me"}
        /\ active = before.oldUp
    BY <2>3, <2>4 DEF UndoInv
  <2>6. oldUp' = before.oldUp
    BY <2>2, <2>3, <2>5, AllUndone
  <2>7. QED
    BY <2>1, <2>3, <2>4, <2>5, <2>6, AllUndone DEF FailedRestores, Skipped
<1>8. CASE UpdateStarts \/ UpdateEnds \/ UNCHANGED vars
  <2>1. UNCHANGED <<world, last, legacy, placed, oldUp, files, tsFile, dir, before>>
    BY <1>8 DEF UpdateStarts, UpdateEnds, vars, host
  <2>2. QED
    BY <2>1 DEF FailedRestores, Skipped
<1>9. CASE OwnerSaves
  <2>1. /\ UNCHANGED <<world, last, legacy, placed, oldUp, files, before>>
        /\ dir'.data = dir.data /\ dir'.owner = dir.owner /\ dir'.cfg = Pair("own")
    BY <1>9 DEF OwnerSaves, TypeOK, Dirs
  <2>2. dir'.cfg # NoCfg
    BY <2>1, Shapes DEF Sources
  <2>3. QED
    BY <2>1, <2>2 DEF FailedRestores, Skipped
<1>10. QED
  BY <1>1, <1>3, <1>4, <1>5, <1>6, <1>7, <1>8, <1>9 DEF Next, Forward

\* The machine a first run starts from.
LEMMA InitHolds == Init => TypeOK /\ CutoverInv
<1> SUFFICES ASSUME Init PROVE TypeOK /\ CutoverInv
  OBVIOUS
<1>1. placed \subseteq Pieces /\ oldUp \subseteq Units /\ oldUp \subseteq placed
  BY CutoverAssumption DEF Init
<1>2. dir \in Dirs /\ daemon \in Daemons /\ ~daemon.on
  BY Shapes DEF Init, Dirs, Down, Daemons
<1>3. files \in Files
  BY DEF Init, Files, Kinds, Sources
<1>4. TypeOK
  <2>1. oldData \in 0 .. MaxVersion /\ faults \in 0 .. MaxFaults
    BY CutoverAssumption DEF Init
  <2>2. undo \in Seq(Undos) /\ pc \in Steps \cup Recovery \cup {"idle"}
    BY DEF Init
  <2>3. /\ import \in [data : 0 .. MaxVersion, owner : {"none", "me", "other"},
                       locked : BOOLEAN, installed : BOOLEAN]
        /\ backup \in Dirs
    BY Shapes DEF Init
  <2>4. QED
    BY <1>1, <1>2, <1>3, <2>1, <2>2, <2>3 DEF Init, TypeOK
<1>5. pc = "idle" /\ last = "none" /\ undo = <<>> /\ import = NoImport
      /\ lock \in {"absent", "free"}
  BY DEF Init
<1>6. SidesInv
  BY <1>1, <1>2, <1>5 DEF SidesInv, OneProxy, Moved, Steps, Quiet, Recovery
<1>7. ImportInv
  BY <1>5, Shapes DEF ImportInv
<1>8. RunInv
  BY <1>5 DEF RunInv, Quiet
<1>10. TakenInv
  BY <1>5, Shapes DEF Init, TakenInv, Cleared, Applied
<1>9. QED
  BY <1>4, <1>5, <1>6, <1>7, <1>8, <1>10 DEF CutoverInv, Recoverable, FailedRestores

\* In every state the types hold, and a run can be undone from where it is.
THEOREM CutoverInvariant == Spec => [](TypeOK /\ CutoverInv)
<1>1. TypeOK /\ CutoverInv /\ [Next]_vars => (TypeOK /\ CutoverInv)'
  <2> SUFFICES ASSUME TypeOK, CutoverInv, [Next]_vars PROVE (TypeOK /\ CutoverInv)'
    OBVIOUS
  <2>1. SidesInv /\ ImportInv /\ RunInv /\ TakenInv /\ (Recoverable => UndoInv)
    BY DEF CutoverInv
  <2>2. TypeOK'
    BY <2>1, TypeStep
  <2>3. SidesInv' /\ ImportInv' /\ RunInv' /\ TakenInv'
    BY <2>1, SidesStep, ImportStep, RunStep, TakenStep
  <2>4. Recoverable' => UndoInv'
    BY <2>1, UndoStep
  <2>5. FailedRestores'
    BY FailedStep
  <2>6. QED
    BY <2>2, <2>3, <2>4, <2>5 DEF CutoverInv
<1>2. QED
  BY <1>1, InitHolds, PTL DEF Spec

\* The old service and the daemon's proxy never run at once, at whatever step a
\* run fails or dies, unless a recovery could not stop the daemon.
THEOREM OneProxyAtATime == Spec => []OneProxy
<1>1. CutoverInv => OneProxy
  BY DEF CutoverInv, SidesInv
<1>2. QED
  BY <1>1, CutoverInvariant, PTL

\* A cutover that fails and whose recovery works leaves the old install and the
\* owner's setting files as they were; a file that was missing may hold the defaults
\* that apply saved (settings.Save), unless the run had written the import.
THEOREM Restored == Spec => []FailedRestores
<1>1. CutoverInv => FailedRestores
  BY DEF CutoverInv
<1>2. QED
  BY <1>1, CutoverInvariant, PTL

\* No step loses an update of the old data that a locked import should carry, nor
\* settings the packaged daemon saved.
THEOREM NothingLost == Spec => DataKept
<1>1. CutoverInv' => ImportIsCurrent'
  BY DEF CutoverInv, ImportInv, ImportIsCurrent
<1>2. TypeOK /\ CutoverInv /\ [Next]_vars => StateKept \/ UNCHANGED vars
  <2> SUFFICES ASSUME TypeOK, CutoverInv, Next, dir.cfg # NoCfg, dir'.cfg # dir.cfg
               PROVE  \/ pc = "apply"
                      \/ pc = "rData" /\ dir.data = import.data
    BY DEF StateKept
  <2> USE DEF old, outside, run, past, CutoverInv
  <2>1. CASE Backup \/ OwnerSaves
    BY <2>1 DEF Backup, EmptyState, OwnerSaves
  <2>2. CASE Install \/ InstallFails
    BY <2>2, Shapes DEF Install, InstallFails, ImportInv
  <2>3. CASE Apply
    BY <2>3 DEF Apply
  <2>4. CASE RecoverData \/ RecoverBackup
    BY <2>4, Shapes DEF RecoverData, RecoverBackup, ImportInv
  <2>5. CASE StoreOwner \/ Check
    BY <2>5 DEF StoreOwner, Check, TypeOK, Dirs
  <2>6. CASE \/ \E keep \in BOOLEAN : Run(keep)
             \/ Prepare \/ StopNew \/ StopOld \/ BackupRefused \/ WriteSettings
             \/ WriteRules \/ Remove \/ Tailscale \/ WriteDropIn \/ Restop \/ Start
             \/ Save \/ Tidy \/ Done \/ RecoverStop \/ RecoverUndo \/ RecoverTail
             \/ RecoverStart \/ Fails \/ Crash \/ UpdateStarts \/ UpdateEnds
    <3>1. dir' = dir
      BY <2>6 DEF Run, Prepare, StopNew, StopOld, BackupRefused, WriteSettings,
         WriteRules, Remove, Tailscale, WriteDropIn, Restop, Start, Save, Tidy, Done,
         RecoverStop, RecoverUndo, RecoverTail, RecoverStart, Fails, Crash,
         UpdateStarts, UpdateEnds
    <3>2. QED
      BY <3>1
  <2>7. QED
    BY <2>1, <2>2, <2>3, <2>4, <2>5, <2>6 DEF Next, Forward
<1>3. (TypeOK /\ CutoverInv) /\ (TypeOK /\ CutoverInv)' /\ [Next]_vars
        => [ImportIsCurrent' /\ StateKept]_vars
  BY <1>1, <1>2
<1>4. QED
  BY <1>3, CutoverInvariant, PTL DEF Spec, DataKept

\* A cutover that ends well runs on the owner's own setting files where there were
\* any (writeSettings), else on the imported ones unless the directory is a link,
\* with the files, the daemon and its saved state saying the same (settings.Save),
\* and leaves nothing of the old install (cutover.run), whatever failed or died
\* before it.
THEOREM AllTakenOver == Spec => []TakenOver
<1>1. TypeOK /\ CutoverInv => TakenOver
  <2> SUFFICES ASSUME TypeOK, CutoverInv PROVE TakenOver
    OBVIOUS
  <2> USE DEF CutoverInv
  <2>1. SettingsKept
    <3> SUFFICES ASSUME pc = "done", import.data # 0
                 PROVE  /\ files = daemon.cfg /\ dir.cfg = daemon.cfg
                        /\ before.files # Pair("none")
                              => daemon.cfg = OrDefaults(before.files)
                        /\ ~Skipped => daemon.cfg = Pair("imp")
      BY DEF SettingsKept
    <3>1. /\ files = OrDefaults(TakenFiles) /\ daemon.cfg = OrDefaults(TakenFiles)
          /\ dir.cfg = daemon.cfg
      BY DEF TakenInv, Cleared, Applied
    <3>2. OrDefaults(Pair("imp")) = Pair("imp")
      BY DEF OrDefaults, Pair
    <3>3. QED
      BY <3>1, <3>2 DEF TakenFiles, Skipped
  <2>2. OldGone
    <3> SUFFICES ASSUME last = "ok", legacy PROVE placed \ {"alien"} = {} /\ oldUp = {}
      BY DEF OldGone
    <3>1. \A i \in 1 .. 5 : Removed[i] \notin placed
      BY DEF TakenInv, Here, Removed
    <3>2. placed \subseteq {"alien"}
      BY <3>1 DEF TypeOK, Pieces, Units, Removed
    <3>3. oldUp \subseteq placed /\ oldUp \subseteq {"service", "timer"}
      BY DEF SidesInv, TypeOK, Units
    <3>4. QED
      BY <3>2, <3>3
  <2>3. QED
    BY <2>1, <2>2 DEF TakenOver
<1>2. QED
  BY <1>1, CutoverInvariant, PTL
=============================================================================
