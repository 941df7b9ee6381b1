---------------------------- MODULE RulesProofs -----------------------------
(***************************************************************************)
(* What is proved of the owner's rules.  The lock of the files that hold   *)
(* them: the type invariant and the two safety properties of module Files, *)
(* for any number of clients.  What the rules route: the invariants of     *)
(* module Routing, for any documents, rules, settings and limits.          *)
(***************************************************************************)
EXTENDS Files, Routing, SequenceTheorems, WellFoundedInduction, FiniteSetTheorems, TLAPS

(***************************************************************************)
(* The files: what their lock is for.                                      *)
(***************************************************************************)
\* The constants a proof unfolds: what a process, a change and a copy are.
LEMMA Parts ==
    /\ Watcher \in Procs /\ Clients \subseteq Procs
    /\ NoEdit \in Edits /\ Default \in [Kinds -> Values]
    /\ Kinds = {"settings", "rules"}
  BY FilesAssumption DEF Watcher, Procs, NoEdit, Edits, Default, Kinds

\* The two shapes the lock has.
LEMMA LockCardinality ==
    /\ Cardinality({}) =< 1
    /\ \A p \in Procs : Cardinality({p}) =< 1
<1>1. Cardinality({}) =< 1
  BY FS_EmptySet
<1>2. ASSUME NEW p \in Procs PROVE Cardinality({p}) =< 1
  <2>1. Cardinality({p}) = 1
    BY FS_Singleton, Zenon
  <2>2. QED
    BY <2>1
<1>3. QED
  BY <1>1, <1>2

\* Every step keeps the types.
LEMMA TypeStep == TypeOK /\ FilesInv /\ [Next]_vars => TypeOK'
<1> SUFFICES ASSUME TypeOK, FilesInv, [Next]_vars PROVE TypeOK'
  OBVIOUS
<1> DEFINE Stages == {"idle", "lock", "load", "sent", "settings", "rules", "exit"}
<1>0. ASSUME NEW p \in Procs, Leave(p), InTransaction(p)
      PROVE  /\ lock' \subseteq Procs /\ Cardinality(lock') =< 1
             /\ at' \in [Procs -> Stages]
             /\ v' \in [Procs -> [Kinds -> Values]] /\ edit' \in [Procs -> Edits]
  <2>1. lock' = {}
    BY <1>0 DEF Leave, FilesInv, HoldsLock
  <2>2. QED
    BY <1>0, <2>1, LockCardinality, Parts DEF Leave, TypeOK
<1>1. ASSUME NEW p \in Clients, NEW e \in Edits, Begin(p, e) PROVE TypeOK'
  BY <1>1, Parts, FilesAssumption DEF Begin, TypeOK
<1>2. CASE ServiceStarts
  BY <1>2, Parts DEF ServiceStarts, TypeOK
<1>3. CASE ServiceExits
  BY <1>3, Parts DEF ServiceExits, TypeOK
<1>4. ASSUME NEW p \in Procs, Lock(p) PROVE TypeOK'
  BY <1>4, LockCardinality DEF Lock, TypeOK
<1>5. ASSUME NEW p \in Procs, Load(p) PROVE TypeOK'
  <2>1. InTransaction(p)
    BY <1>5 DEF Load, InTransaction
  <2>2. Changed(p) \in [Kinds -> Values]
    BY DEF Changed, TypeOK, Edits, NoEdit, Kinds
  <2>3. CASE \E k \in Kinds : file[k].form = "malformed"
    <3>1. Leave(p) /\ UNCHANGED raced
      BY <1>5, <2>3 DEF Load
    <3>2. QED
      BY <1>5, <2>1, <1>0, <3>1 DEF Load, TypeOK
  <2>4. CASE ~ \E k \in Kinds : file[k].form = "malformed"
    BY <1>5, <2>2, <2>4, ZenonT(30) DEF Load, TypeOK
  <2>5. QED
    BY <2>3, <2>4
<1>6. ASSUME NEW p \in Procs, Exec(p) PROVE TypeOK'
  <2>1. InTransaction(p)
    BY <1>6 DEF Exec, InTransaction
  <2>2. CASE Leave(p) /\ UNCHANGED daemon
    BY <1>6, <2>1, <1>0, <2>2 DEF Exec, TypeOK
  <2>3. CASE ~Leave(p)
    BY <1>6, <2>3 DEF Exec, TypeOK
  <2>4. QED
    BY <1>6, <2>2, <2>3 DEF Exec, TypeOK
<1>7. ASSUME NEW p \in Procs, NEW k \in Kinds, SaveFile(p, k)
      PROVE  /\ file' \in [Kinds -> [val : Values, form : Forms]]
             /\ fired' \in BOOLEAN
  <2>1. [val |-> v[p][k], form |-> "canonical"] \in [val : Values, form : Forms]
    BY DEF TypeOK, Forms
  <2>2. QED
    BY <1>7, <2>1 DEF SaveFile, Trigger, TypeOK
<1>8. ASSUME NEW p \in Procs, SaveSettings(p) PROVE TypeOK'
  <2>1. /\ file' \in [Kinds -> [val : Values, form : Forms]]
        /\ fired' \in BOOLEAN
    BY <1>8, <1>7, Parts DEF SaveSettings
  <2>2. wanted' \in [Kinds -> SUBSET Values]
    BY <1>8, Parts DEF SaveSettings, TypeOK
  <2>3. QED
    BY <1>8, <2>1, <2>2 DEF SaveSettings, TypeOK
<1>9. ASSUME NEW p \in Procs, SaveRules(p) PROVE TypeOK'
  <2>1. /\ file' \in [Kinds -> [val : Values, form : Forms]]
        /\ fired' \in BOOLEAN
    BY <1>9, <1>7, Parts DEF SaveRules
  <2>2. InTransaction(p) /\ Leave(p)
    BY <1>9 DEF SaveRules, InTransaction
  <2>3. wanted' \in [Kinds -> SUBSET Values] /\ spoiled' \in BOOLEAN
    BY <1>9 DEF SaveRules, TypeOK
  <2>4. QED
    BY <1>9, <1>0, <2>1, <2>2, <2>3 DEF SaveRules, TypeOK
<1>10. ASSUME NEW p \in Procs, Dies(p) PROVE TypeOK'
  <2>1. InTransaction(p) /\ Leave(p)
    BY <1>10 DEF Dies, InTransaction, TypeOK
  <2>2. strays' \subseteq [Kinds -> Values]
    BY <1>10 DEF Dies, TypeOK
  <2>3. wanted' \in [Kinds -> SUBSET Values] /\ faults' \in 0 .. MaxFaults
    BY <1>10, FilesAssumption DEF Dies, TypeOK
  <2>4. QED
    BY <1>10, <1>0, <2>1, <2>2, <2>3 DEF Dies, TypeOK
<1>11. ASSUME NEW x \in strays, ExecStray(x) PROVE TypeOK'
  BY <1>11 DEF ExecStray, TypeOK
<1>12. ASSUME NEW k \in Kinds, NEW n \in Values, NEW form \in Forms,
              EditorSaves(k, n, form)
       PROVE  TypeOK'
  <2>1. file' \in [Kinds -> [val : Values, form : Forms]] /\ fired' \in BOOLEAN
    BY <1>12 DEF EditorSaves, Trigger, TypeOK
  <2>2. wanted' \in [Kinds -> SUBSET Values] /\ spoiled' \in BOOLEAN
    BY <1>12 DEF EditorSaves, TypeOK
  <2>3. edits' \in 0 .. MaxEdits
    BY <1>12, FilesAssumption DEF EditorSaves, TypeOK
  <2>4. QED
    BY <1>12, <2>1, <2>2, <2>3 DEF EditorSaves, TypeOK
<1>13. CASE UNCHANGED vars
  BY <1>13 DEF vars, TypeOK
<1>14. QED
  BY <1>1, <1>2, <1>3, <1>4, <1>5, <1>6, <1>8, <1>9, <1>10, <1>11, <1>12, <1>13,
     FilesAssumption DEF Next, Transaction, Forms

\* Who leaves its transaction gives up the lock, and nobody else has it: what
\* remains to keep are the edits in the files.
LEMMA LeaveStep ==
    ASSUME TypeOK, FilesInv, NEW p \in Procs, InTransaction(p), Leave(p), NoLostEdit'
    PROVE  FilesInv'
<1>1. lock' = {} /\ \A q \in Procs : q # p => at'[q] = at[q]
  BY DEF Leave, FilesInv, HoldsLock, TypeOK
<1>2. \A q \in Procs : q # p => ~InTransaction(q)
  BY DEF FilesInv, HoldsLock
<1>3. ~InTransaction(p)'
  BY DEF Leave, InTransaction, TypeOK
<1>4. \A q \in Procs : ~InTransaction(q)'
  BY <1>1, <1>2, <1>3 DEF InTransaction
<1>5. QED
  BY <1>1, <1>4 DEF FilesInv, HoldsLock, LoadedEdits, SavesWhatRuns, InTransaction

\* Every step keeps the strengthening.
LEMMA FilesStep == TypeOK /\ FilesInv /\ [Next]_vars => FilesInv'
<1> SUFFICES ASSUME TypeOK, FilesInv, [Next]_vars PROVE FilesInv'
  OBVIOUS
<1> USE DEF FilesInv
\* Nobody else is in a transaction while p is.
<1>0. ASSUME NEW p \in Procs, InTransaction(p), NEW q \in Procs, InTransaction(q)
      PROVE  p = q
  BY <1>0 DEF HoldsLock
\* A process outside of a transaction moves outside of it.
<1>1. ASSUME NEW p \in Procs, ~InTransaction(p), ~InTransaction(p)',
             \A q \in Procs : q # p => at'[q] = at[q] /\ edit'[q] = edit[q],
             UNCHANGED <<file, daemon, lock, v, wanted, raced, spoiled>>
      PROVE  FilesInv'
  <2>1. ASSUME NEW q \in Procs
        PROVE  /\ InTransaction(q)' => InTransaction(q) /\ q # p
               /\ InTransaction(q)' => at'[q] = at[q] /\ edit'[q] = edit[q]
    BY <1>1 DEF InTransaction
  <2>2. HoldsLock'
    BY <1>1, <2>1 DEF HoldsLock
  <2>3. LoadedEdits'
    BY <1>1, <2>1 DEF LoadedEdits, InTransaction
  <2>4. SavesWhatRuns'
    BY <1>1, <2>1 DEF SavesWhatRuns, InTransaction
  <2>5. NoLostEdit'
    BY <1>1 DEF NoLostEdit
  <2>6. QED
    BY <2>2, <2>3, <2>4, <2>5
<1>2. ASSUME NEW p \in Clients, NEW e \in Edits, Begin(p, e) PROVE FilesInv'
  <2>1. /\ p \in Procs /\ ~InTransaction(p) /\ ~InTransaction(p)'
        /\ \A q \in Procs : q # p => at'[q] = at[q] /\ edit'[q] = edit[q]
    BY <1>2, Parts DEF Begin, InTransaction, TypeOK
  <2>2. QED
    BY <1>1, <1>2, <2>1 DEF Begin
<1>3. ASSUME ServiceStarts \/ ServiceExits PROVE FilesInv'
  <2>1. /\ Watcher \in Procs /\ ~InTransaction(Watcher) /\ ~InTransaction(Watcher)'
        /\ \A q \in Procs : q # Watcher => at'[q] = at[q] /\ edit'[q] = edit[q]
    BY <1>3, Parts DEF ServiceStarts, ServiceExits, InTransaction, TypeOK
  <2>2. QED
    BY <1>1, <1>3, <2>1 DEF ServiceStarts, ServiceExits
<1>4. ASSUME NEW p \in Procs, Lock(p) PROVE FilesInv'
  <2>1. \A q \in Procs : ~InTransaction(q)
    BY <1>4 DEF Lock, HoldsLock
  <2>2. /\ lock' = {p} /\ at'[p] = "load"
        /\ \A q \in Procs : q # p => at'[q] = at[q]
    BY <1>4 DEF Lock, TypeOK
  <2>3. HoldsLock'
    BY <2>1, <2>2 DEF HoldsLock, InTransaction
  <2>4. LoadedEdits' /\ SavesWhatRuns'
    BY <2>1, <2>2 DEF LoadedEdits, SavesWhatRuns, InTransaction
  <2>5. NoLostEdit'
    BY <1>4 DEF Lock, NoLostEdit
  <2>6. QED
    BY <2>3, <2>4, <2>5
<1>5. ASSUME NEW p \in Procs, Load(p) PROVE FilesInv'
  <2>1. InTransaction(p) /\ UNCHANGED <<file, wanted, daemon, spoiled>>
    BY <1>5 DEF Load, InTransaction
  <2>2. NoLostEdit'
    BY <2>1 DEF NoLostEdit
  <2>3. CASE Leave(p)
    BY <2>1, <2>2, <2>3, LeaveStep
  <2>4. CASE ~Leave(p)
    <3>1. /\ v'[p] = Changed(p) /\ at'[p] = "sent" /\ UNCHANGED <<lock, edit>>
          /\ \A q \in Procs : q # p => at'[q] = at[q]
      BY <1>5, <2>4 DEF Load, TypeOK
    <3>2. ASSUME NEW q \in Procs, InTransaction(q)' PROVE q = p
      BY <1>0, <2>1, <3>1, <3>2 DEF InTransaction
    <3>3. HoldsLock'
      BY <2>1, <3>1, <3>2 DEF HoldsLock
    <3>4. SavesWhatRuns'
      BY <3>1, <3>2 DEF SavesWhatRuns, InTransaction
    <3>5. \A k \in Kinds : edit[p].kind # k => wanted[k] \subseteq {v'[p][k]}
      BY <3>1 DEF Changed, NoLostEdit
    <3>6. LoadedEdits'
      BY <2>1, <3>1, <3>2, <3>5 DEF LoadedEdits, InTransaction
    <3>7. QED
      BY <2>2, <3>3, <3>4, <3>6
  <2>5. QED
    BY <2>3, <2>4
<1>6. ASSUME NEW p \in Procs, Exec(p) PROVE FilesInv'
  <2>1. InTransaction(p) /\ UNCHANGED <<file, wanted, raced>>
    BY <1>6 DEF Exec, InTransaction
  <2>2. NoLostEdit'
    BY <2>1 DEF NoLostEdit
  <2>3. CASE Leave(p)
    BY <2>1, <2>2, <2>3, LeaveStep
  <2>4. CASE ~Leave(p)
    <3>1. /\ at[p] = "sent" /\ at'[p] = "settings" /\ daemon' = v[p]
          /\ UNCHANGED <<lock, edit, v>>
          /\ \A q \in Procs : q # p => at'[q] = at[q]
      BY <1>6, <2>4 DEF Exec, TypeOK
    <3>2. ASSUME NEW q \in Procs, InTransaction(q)' PROVE q = p
      BY <1>0, <2>1, <3>1, <3>2 DEF InTransaction
    <3>3. HoldsLock'
      BY <2>1, <3>1, <3>2 DEF HoldsLock
    <3>4. SavesWhatRuns'
      BY <3>1, <3>2 DEF SavesWhatRuns, InTransaction
    <3>5. LoadedEdits'
      BY <2>1, <3>1, <3>2 DEF LoadedEdits, InTransaction
    <3>6. QED
      BY <2>2, <3>3, <3>4, <3>5
  <2>5. QED
    BY <2>3, <2>4
<1>7. ASSUME NEW p \in Procs, SaveSettings(p) PROVE FilesInv'
  <2>1. /\ at[p] = "settings" /\ at'[p] = "rules" /\ InTransaction(p)
        /\ UNCHANGED <<daemon, lock, edit, v, raced, spoiled>>
        /\ \A q \in Procs : q # p => at'[q] = at[q]
    BY <1>7 DEF SaveSettings, InTransaction, TypeOK
  <2>2. /\ file'["settings"].val = v[p]["settings"] /\ file'["rules"] = file["rules"]
        /\ wanted'["rules"] = wanted["rules"]
        /\ wanted'["settings"] = IF edit[p].kind = "settings" THEN {} ELSE wanted["settings"]
    BY <1>7, Parts DEF SaveSettings, SaveFile, TypeOK
  <2>3. ASSUME NEW q \in Procs, InTransaction(q)' PROVE q = p
    BY <1>0, <2>1, <2>3 DEF InTransaction
  <2>4. HoldsLock'
    BY <2>1, <2>3 DEF HoldsLock
  <2>5. SavesWhatRuns'
    BY <2>1, <2>3 DEF SavesWhatRuns, InTransaction
  <2>6. LoadedEdits'
    BY <2>1, <2>2, <2>3, Parts DEF LoadedEdits, InTransaction
  <2>7. NoLostEdit'
    BY <2>1, <2>2, Parts DEF NoLostEdit, LoadedEdits
  <2>8. QED
    BY <2>4, <2>5, <2>6, <2>7
<1>8. ASSUME NEW p \in Procs, SaveRules(p) PROVE FilesInv'
  <2>1. at[p] = "rules" /\ InTransaction(p) /\ Leave(p)
    BY <1>8 DEF SaveRules, InTransaction
  <2>2. /\ file'["rules"].val = v[p]["rules"] /\ file'["settings"] = file["settings"]
        /\ \A k \in Kinds : wanted'[k] =
              IF edit[p].kind = k /\ ~raced THEN {v[p][k]}
              ELSE IF edit[p].kind = k THEN {} ELSE wanted[k]
    BY <1>8, Parts DEF SaveRules, SaveFile, TypeOK
  <2>3. NoLostEdit'
    BY <2>1, <2>2, Parts DEF NoLostEdit, LoadedEdits
  <2>4. QED
    BY <2>1, <2>3, LeaveStep
<1>9. ASSUME NEW p \in Procs, Dies(p) PROVE FilesInv'
  <2>1. InTransaction(p) /\ Leave(p) /\ UNCHANGED file
    BY <1>9 DEF Dies, InTransaction, TypeOK
  <2>2. NoLostEdit'
    BY <1>9, <2>1 DEF Dies, NoLostEdit
  <2>3. QED
    BY <2>1, <2>2, LeaveStep
<1>10. ASSUME NEW x \in strays, ExecStray(x) PROVE FilesInv'
  BY <1>10 DEF ExecStray, HoldsLock, LoadedEdits, SavesWhatRuns, NoLostEdit, InTransaction
<1>11. ASSUME NEW k \in Kinds, NEW n \in Values, NEW form \in Forms,
              EditorSaves(k, n, form)
       PROVE  FilesInv'
  <2>1. /\ raced' = TRUE /\ (spoiled => spoiled')
        /\ UNCHANGED <<daemon, lock, at, v, edit>>
    BY <1>11 DEF EditorSaves
  <2>2. /\ file'[k].val = n /\ wanted'[k] = IF lock = {} THEN {n} ELSE {}
        /\ \A j \in Kinds : j # k => file'[j] = file[j] /\ wanted'[j] = wanted[j]
    BY <1>11 DEF EditorSaves, TypeOK
  <2>3. HoldsLock' /\ SavesWhatRuns'
    BY <2>1 DEF HoldsLock, SavesWhatRuns, InTransaction
  <2>4. NoLostEdit'
    BY <2>2 DEF NoLostEdit
  <2>5. ASSUME NEW p \in Procs, at[p] \in {"sent", "settings", "rules"}
        PROVE  lock # {}
    BY <2>5 DEF HoldsLock, InTransaction
  <2>6. LoadedEdits'
    BY <2>1, <2>2, <2>5 DEF LoadedEdits
  <2>7. QED
    BY <2>3, <2>4, <2>6
<1>12. CASE UNCHANGED vars
  BY <1>12 DEF vars, HoldsLock, LoadedEdits, SavesWhatRuns, NoLostEdit, InTransaction
<1>13. QED
  BY <1>2, <1>3, <1>4, <1>5, <1>6, <1>7, <1>8, <1>9, <1>10, <1>11, <1>12,
     FilesAssumption DEF Next, Transaction, Forms

\* In every state the types hold, and whoever is in a transaction on the owner's
\* files holds the lock with what it loaded still current.
THEOREM FilesInvariant == Spec => [](TypeOK /\ FilesInv)
<1>1. Init => TypeOK
  <2> SUFFICES ASSUME Init PROVE TypeOK
    OBVIOUS
  <2>1. file \in [Kinds -> [val : Values, form : Forms]]
    BY FilesAssumption DEF Init, Forms
  <2>2. lock \subseteq Procs /\ Cardinality(lock) =< 1
    BY LockCardinality DEF Init
  <2>3. edits \in 0 .. MaxEdits /\ faults \in 0 .. MaxFaults
    BY FilesAssumption DEF Init
  <2>4. QED
    BY <2>1, <2>2, <2>3, Parts DEF Init, TypeOK
<1>2. Init => FilesInv
  BY Parts DEF Init, FilesInv, HoldsLock, LoadedEdits, SavesWhatRuns, NoLostEdit,
     InTransaction
<1>3. QED
  BY <1>1, <1>2, TypeStep, FilesStep, PTL DEF Spec

\* Every variable keeps its type, and flock lets one process at a time into
\* edit's transaction.
THEOREM OneTransaction == Spec => []TypeOK
  BY FilesInvariant, PTL

\* What edit is saving is what the daemon runs, unless the request of a client
\* that died, or a failure, came in between.
THEOREM SavedRuns == Spec => []SavesWhatRuns
<1>1. FilesInv => SavesWhatRuns
  BY DEF FilesInv
<1>2. QED
  BY <1>1, FilesInvariant, PTL

\* No command's load and save brings back a value that another command, or the
\* editor outside of a transaction, has replaced.
THEOREM EditsKept == Spec => []NoLostEdit
<1>1. FilesInv => NoLostEdit
  BY DEF FilesInv
<1>2. QED
  BY <1>1, FilesInvariant, PTL

(***************************************************************************)
(* Induction on numbers.                                                   *)
(***************************************************************************)
\* The numbers are well ordered.
LEMMA LeastNumber ==
    ASSUME NEW T, T \subseteq Nat, T # {}
    PROVE  \E x \in T : \A y \in T : x <= y
<1>1. PICK R : R = {ss \in Nat \X Nat : ss[1] < ss[2]}
  OBVIOUS
<1>2. IsWellFoundedOn(R, Nat)
  BY <1>1, NatLessThanWellFounded DEF OpToRel
<1>3. PICK x \in T : \A y \in T : ~(<<y, x>> \in R)
  BY <1>2, WFMin
<1>4. ASSUME NEW y \in T PROVE x <= y
  <2>1. <<y, x>> \in Nat \X Nat /\ <<y, x>>[1] = y /\ <<y, x>>[2] = x
    OBVIOUS
  <2>2. ~(y < x)
    BY <1>1, <1>3, <2>1
  <2>3. QED
    BY <2>2
<1>5. QED
  BY <1>4

\* A set with 0, and with every number after one of its own, has them all.
LEMMA Induction ==
    ASSUME NEW A, 0 \in A, \A n \in Nat : n \in A => n + 1 \in A
    PROVE  Nat \subseteq A
<1>1. SUFFICES ASSUME Nat \ A # {} PROVE FALSE
  OBVIOUS
<1>2. PICK x \in Nat \ A : \A y \in Nat \ A : x <= y
  BY <1>1, LeastNumber
<1>3. x - 1 \in Nat /\ x - 1 \in A
  BY <1>2
<1>4. QED
  BY <1>2, <1>3

(***************************************************************************)
(* Sequences of anything.                                                  *)
(***************************************************************************)
\* What Seq calls a sequence over a set is one in the sense of IsSeq.
LEMMA SeqIs ==
    ASSUME NEW S, NEW s \in Seq(S)
    PROVE  IsSeq(s)
BY LenProperties DEF IsSeq

\* A sequence is one over its own elements, and its places are 1 to its
\* length.
LEMMA SeqRange ==
    ASSUME NEW s, IsSeq(s)
    PROVE  s \in Seq(Range(s)) /\ DOMAIN s = 1..Len(s)
<1>1. PICK n \in Nat : n = Len(s)
  BY DEF IsSeq
<1>2. s = [i \in 1..n |-> s[i]]
  BY <1>1, Zenon DEF IsSeq
<1>3. PICK f : f = [i \in 1..n |-> s[i]]
  OBVIOUS
<1>4. DOMAIN s = 1..n
  <2>1. DOMAIN f = 1..n
    BY <1>3
  <2>2. QED
    BY <1>2, <1>3, <2>1
<1>5. \A i \in 1..n : s[i] \in Range(s)
  BY <1>4 DEF Range
<1>6. f \in [1..n -> Range(s)]
  BY <1>3, <1>5
<1>7. s \in Seq(Range(s))
  BY <1>2, <1>3, <1>6, SeqDef
<1>8. QED
  BY <1>1, <1>4, <1>7

\* A sequence is one over every set that holds its elements.
LEMMA SeqIn ==
    ASSUME NEW s, IsSeq(s), NEW S, Range(s) \subseteq S
    PROVE  s \in Seq(S)
<1>1. s \in Seq(Range(s))
  BY SeqRange, Zenon
<1>2. QED
  BY <1>1, SeqMonotonic, Zenon

\* Two sequences of the same length and elements are the same.
LEMMA SeqSame ==
    ASSUME NEW s, IsSeq(s), NEW t, IsSeq(t), Len(s) = Len(t),
           \A i \in 1..Len(s) : s[i] = t[i]
    PROVE  s = t
BY DEF IsSeq

\* A function on 1..n is a sequence of length n.
LEMMA Mapped ==
    ASSUME NEW n \in Nat, NEW f, f = [i \in 1..n |-> f[i]]
    PROVE  IsSeq(f) /\ Len(f) = n
<1>1. f \in [1..n -> Range(f)]
  BY DEF Range
<1>2. f \in Seq(Range(f))
  BY <1>1, SeqDef
<1>3. Len(f) = n
  BY <1>1, <1>2, LenProperties
<1>4. QED
  BY <1>2, SeqIs, <1>3

\* The length and the elements of two sequences in a row.
LEMMA Cat ==
    ASSUME NEW s, IsSeq(s), NEW t, IsSeq(t)
    PROVE  /\ IsSeq(s \o t) /\ Len(s \o t) = Len(s) + Len(t)
           /\ Len(s) \in Nat /\ Len(t) \in Nat
           /\ \A i \in 1..Len(s) : (s \o t)[i] = s[i]
           /\ \A i \in 1..Len(t) : (s \o t)[Len(s) + i] = t[i]
<1>1. PICK S : s \in Seq(S) /\ t \in Seq(S)
  <2>1. s \in Seq(Range(s) \cup Range(t)) /\ t \in Seq(Range(s) \cup Range(t))
    BY SeqIn, Zenon
  <2>2. QED
    BY <2>1
<1>2. IsSeq(s \o t)
  BY <1>1, ConcatProperties, SeqIs
<1>3. Len(s) \in Nat /\ Len(t) \in Nat
  BY DEF IsSeq
<1>4. Len(s \o t) = Len(s) + Len(t)
      /\ \A i \in 1 .. Len(s) + Len(t) : (s \o t)[i] =
                     IF i <= Len(s) THEN s[i] ELSE t[i - Len(s)]
  BY <1>1, ConcatProperties
<1>5. ASSUME NEW i \in 1..Len(s) PROVE (s \o t)[i] = s[i]
  BY <1>3, <1>4
<1>6. ASSUME NEW i \in 1..Len(t) PROVE (s \o t)[Len(s) + i] = t[i]
  BY <1>3, <1>4
<1>7. QED
  BY <1>2, <1>3, <1>4, <1>5, <1>6

\* The empty sequence is one, of length 0.
LEMMA Nothing == IsSeq(<<>>) /\ Len(<<>>) = 0
<1>1. <<>> \in Seq({})
  BY EmptySeq
<1>2. QED
  BY <1>1, EmptySeq, SeqIs

\* Only the empty sequence has length 0.
LEMMA NothingElse ==
    ASSUME NEW s, IsSeq(s)
    PROVE  (s = <<>> <=> Len(s) = 0) /\ Len(s) \in Nat
<1>1. s \in Seq(Range(s))
  BY SeqRange, Zenon
<1>2. QED
  BY <1>1, EmptySeq, LenProperties

\* A sequence of one element.
LEMMA Single ==
    ASSUME NEW x
    PROVE  IsSeq(<<x>>) /\ Len(<<x>>) = 1 /\ <<x>>[1] = x
<1>1. <<x>> \in Seq({x})
  OBVIOUS
<1>2. QED
  BY <1>1, SeqIs

\* The empty sequence adds nothing, in front or behind.
LEMMA CatNothing ==
    ASSUME NEW s, IsSeq(s)
    PROVE  s \o <<>> = s /\ <<>> \o s = s
<1>1. s \in Seq(Range(s))
  BY SeqRange, Zenon
<1>2. QED
  BY <1>1, ConcatEmptySeq, Zenon

\* Putting sequences in a row is associative.
LEMMA CatCat ==
    ASSUME NEW s, IsSeq(s), NEW t, IsSeq(t), NEW u, IsSeq(u)
    PROVE  (s \o t) \o u = s \o (t \o u)
<1>1. PICK S : S = Range(s) \cup Range(t) \cup Range(u)
  OBVIOUS
<1>2. s \in Seq(S) /\ t \in Seq(S) /\ u \in Seq(S)
  BY <1>1, SeqIn, Zenon
<1>3. QED
  BY <1>2, ConcatAssociative

\* Append puts a sequence of one element behind.
LEMMA AppendIs ==
    ASSUME NEW s, IsSeq(s), NEW x
    PROVE  Append(s, x) = s \o <<x>>
<1>1. PICK S : S = Range(s) \cup {x}
  OBVIOUS
<1>2. s \in Seq(S) /\ x \in S
  BY <1>1, SeqIn, Zenon
<1>3. QED
  BY <1>2, AppendIsConcat

\* The length and the elements of a part of a sequence.
LEMMA Sub ==
    ASSUME NEW s, IsSeq(s), NEW m \in Nat, m > 0, NEW n \in Nat, n <= Len(s), m <= n + 1
    PROVE  /\ IsSeq(SubSeq(s, m, n)) /\ Len(SubSeq(s, m, n)) = n + 1 - m
           /\ \A i \in 1..(n + 1 - m) : SubSeq(s, m, n)[i] = s[m + i - 1]
<1>1. Len(s) \in Nat
  BY DEF IsSeq
<1>0. DOMAIN s = 1..Len(s)
  BY SeqRange, Zenon
<1>2. \A i \in m..n : s[i] \in Range(s)
  BY <1>0, <1>1 DEF Range
<1>3. /\ SubSeq(s,m,n) \in Seq(Range(s))
      /\ Len(SubSeq(s,m,n)) = IF m<=n THEN n-m+1 ELSE 0
      /\ \A i \in 1 .. n-m+1 : SubSeq(s,m,n)[i] = s[m+i-1]
  BY <1>2, SubSeqProperties
<1>4. IsSeq(SubSeq(s, m, n))
  BY <1>3, SeqIs, Zenon
<1>5. QED
  BY <1>3, <1>4

\* A sequence is what is before its i-th element, that, and what is after.
LEMMA Split ==
    ASSUME NEW s, IsSeq(s), NEW i \in 1..Len(s)
    PROVE  /\ IsSeq(SubSeq(s, 1, i - 1)) /\ Len(SubSeq(s, 1, i - 1)) = i - 1
           /\ IsSeq(SubSeq(s, i + 1, Len(s))) /\ Len(SubSeq(s, i + 1, Len(s))) = Len(s) - i
           /\ s = (SubSeq(s, 1, i - 1) \o <<s[i]>>) \o SubSeq(s, i + 1, Len(s))
<1>1. Len(s) \in Nat /\ i \in Nat /\ i - 1 \in Nat /\ i + 1 \in Nat
  BY DEF IsSeq
<1>2. PICK a : a = SubSeq(s, 1, i - 1)
  OBVIOUS
<1>3. PICK b : b = SubSeq(s, i + 1, Len(s))
  OBVIOUS
<1>4. IsSeq(a) /\ Len(a) = i - 1 /\ \A j \in 1..(i - 1) : a[j] = s[j]
  <2>1. /\ IsSeq(SubSeq(s, 1, i - 1)) /\ Len(SubSeq(s, 1, i - 1)) = (i - 1) + 1 - 1
        /\ \A j \in 1..((i - 1) + 1 - 1) : SubSeq(s, 1, i - 1)[j] = s[1 + j - 1]
    BY <1>1, Sub
  <2>2. QED
    BY <1>1, <1>2, <2>1
<1>5. IsSeq(b) /\ Len(b) = Len(s) - i /\ \A j \in 1..(Len(s) - i) : b[j] = s[i + j]
  <2>1. /\ IsSeq(SubSeq(s, i + 1, Len(s))) /\ Len(SubSeq(s, i + 1, Len(s))) = Len(s) + 1 - (i + 1)
        /\ \A j \in 1..(Len(s) + 1 - (i + 1)) : SubSeq(s, i + 1, Len(s))[j] = s[(i + 1) + j - 1]
    BY <1>1, Sub
  <2>2. QED
    BY <1>1, <1>3, <2>1, SMTT(30)
<1>6. PICK x : x = <<s[i]>>
  OBVIOUS
<1>7. IsSeq(x) /\ Len(x) = 1 /\ x[1] = s[i]
  BY <1>6, Single
<1>8. PICK c : c = a \o x
  OBVIOUS
<1>9. IsSeq(c) /\ Len(c) = i /\ \A j \in 1..i : c[j] = s[j]
  <2>0. /\ IsSeq(c) /\ Len(c) = Len(a) + Len(x) /\ \A j \in 1..Len(a) : c[j] = a[j]
        /\ \A j \in 1..Len(x) : c[Len(a) + j] = x[j]
    <3>1. IsSeq(a) /\ IsSeq(x)
      BY <1>4, <1>7
    <3>2. QED
      BY <1>8, <3>1, Cat
  <2>1. /\ IsSeq(c) /\ Len(c) = i /\ \A j \in 1..Len(a) : c[j] = a[j]
        /\ \A j \in 1..Len(x) : c[Len(a) + j] = x[j]
    BY <1>1, <1>4, <1>7, <2>0
  <2>2. c[Len(a) + 1] = x[1]
    BY <1>7, <2>1
  <2>3. QED
    BY <1>1, <1>4, <1>7, <2>1, <2>2
<1>10. /\ IsSeq(c \o b) /\ Len(c \o b) = Len(s)
       /\ \A j \in 1..Len(s) : (c \o b)[j] = s[j]
  <2>1. /\ IsSeq(c \o b) /\ Len(c \o b) = Len(c) + Len(b) /\ \A j \in 1..Len(c) : (c \o b)[j] = c[j]
        /\ \A j \in 1..Len(b) : (c \o b)[Len(c) + j] = b[j]
    <3>1. IsSeq(c) /\ IsSeq(b)
      BY <1>5, <1>9
    <3>2. QED
      BY <3>1, Cat
  <2>2. ASSUME NEW j \in 1..Len(s), j > i PROVE (c \o b)[j] = s[j]
    <3>1. j - i \in 1..Len(b) /\ Len(c) + (j - i) = j /\ j - i \in 1..(Len(s) - i) /\ i + (j - i) = j
      BY <1>1, <1>5, <1>9, <2>2
    <3>2. (c \o b)[Len(c) + (j - i)] = b[j - i] /\ b[j - i] = s[i + (j - i)]
      BY <1>5, <2>1, <3>1
    <3>3. QED
      BY <3>1, <3>2
  <2>3. ASSUME NEW j \in 1..Len(s), ~(j > i) PROVE (c \o b)[j] = s[j]
    BY <1>1, <1>9, <2>1, <2>3
  <2>4. QED
    BY <1>1, <1>5, <1>9, <2>1, <2>2, <2>3
<1>11. c \o b = s
  BY <1>10, SeqSame
<1>12. QED
  BY <1>2, <1>3, <1>4, <1>5, <1>6, <1>8, <1>11
(***************************************************************************)
(* FlattenSeq, from the equation that defines it.                          *)
(***************************************************************************)
\* g is the running concatenation of ss, as FlattenSeq defines it.
FlatEq(g, ss) == g = [i \in 1..Len(ss) |-> IF i = 1 THEN ss[i] ELSE g[i-1] \o ss[i]]

\* The function FlattenSeq computes, by its values.
LEMMA FlatValues ==
    ASSUME NEW ss, IsSeq(ss), NEW g
    PROVE  FlatEq(g, ss) <=>
              /\ g = [i \in 1..Len(ss) |-> g[i]]
              /\ \A i \in 1..Len(ss) : g[i] = IF i = 1 THEN ss[i] ELSE g[i-1] \o ss[i]
<1>1. PICK n \in Nat : n = Len(ss)
  BY DEF IsSeq
<1>2. ASSUME g = [i \in 1..n |-> IF i = 1 THEN ss[i] ELSE g[i-1] \o ss[i]]
      PROVE  /\ g = [i \in 1..n |-> g[i]]
             /\ \A i \in 1..n : g[i] = IF i = 1 THEN ss[i] ELSE g[i-1] \o ss[i]
  <2>1. PICK h : h = [i \in 1..n |-> IF i = 1 THEN ss[i] ELSE g[i-1] \o ss[i]]
    OBVIOUS
  <2>2. h = [i \in 1..n |-> h[i]]
        /\ \A i \in 1..n : h[i] = IF i = 1 THEN ss[i] ELSE g[i-1] \o ss[i]
    BY <2>1
  <2>3. g = h
    BY <1>2, <2>1
  <2>4. QED
    BY <2>2, <2>3
<1>3. ASSUME g = [i \in 1..n |-> g[i]],
             \A i \in 1..n : g[i] = IF i = 1 THEN ss[i] ELSE g[i-1] \o ss[i]
      PROVE  g = [i \in 1..n |-> IF i = 1 THEN ss[i] ELSE g[i-1] \o ss[i]]
  <2>1. PICK h : h = [i \in 1..n |-> g[i]]
    OBVIOUS
  <2>2. h = [i \in 1..n |-> IF i = 1 THEN ss[i] ELSE g[i-1] \o ss[i]]
    BY <1>3, <2>1
  <2>3. QED
    BY <1>3, <2>1, <2>2
<1>4. QED
  BY <1>1, <1>2, <1>3, Zenon DEF FlatEq

\* At most one function satisfies its equation.
LEMMA FlatUnique ==
    ASSUME NEW ss, IsSeq(ss), NEW g, NEW h, FlatEq(g, ss), FlatEq(h, ss)
    PROVE  g = h
<1>1. PICK n \in Nat : n = Len(ss)
  BY DEF IsSeq
<1>2. /\ g = [i \in 1..n |-> g[i]] /\ h = [i \in 1..n |-> h[i]]
      /\ \A i \in 1..n : g[i] = IF i = 1 THEN ss[i] ELSE g[i-1] \o ss[i]
      /\ \A i \in 1..n : h[i] = IF i = 1 THEN ss[i] ELSE h[i-1] \o ss[i]
  <2>1. ASSUME NEW f, FlatEq(f, ss)
        PROVE  f = [i \in 1..n |-> f[i]] /\ \A i \in 1..n : f[i] = IF i = 1 THEN ss[i] ELSE f[i-1] \o ss[i]
    BY <1>1, <2>1, FlatValues, ZenonT(30)
  <2>2. QED
    BY <2>1, ZenonT(30)
<1>3. DEFINE A == {k \in Nat : k \in 1..n => g[k] = h[k]}
<1>4. Nat \subseteq A
  <2>1. 0 \in A
    OBVIOUS
  <2>2. ASSUME NEW k \in Nat, k \in A PROVE k + 1 \in A
    <3>1. CASE k + 1 \in 1..n /\ k # 0
      <4>1. g[k] = h[k] /\ (k + 1) - 1 = k /\ k + 1 # 1
        BY <2>2, <3>1
      <4>2. g[k + 1] = g[(k + 1) - 1] \o ss[k + 1] /\ h[k + 1] = h[(k + 1) - 1] \o ss[k + 1]
        BY <1>2, <3>1, <4>1
      <4>3. g[k + 1] = h[k + 1]
        BY <4>1, <4>2, Zenon
      <4>4. QED
        BY <4>3
    <3>2. CASE k + 1 \in 1..n /\ k = 0
      <4>1. 1 \in 1..n /\ k + 1 = 1
        BY <3>2
      <4>2. g[1] = ss[1] /\ h[1] = ss[1]
        BY <1>2, <4>1
      <4>3. QED
        BY <4>1, <4>2
    <3>3. QED
      BY <3>1, <3>2
  <2>3. QED
    BY <2>1, <2>2, Induction
<1>5. \A i \in 1..n : g[i] = h[i]
  BY <1>4
<1>6. PICK a : a = [i \in 1..n |-> g[i]]
  OBVIOUS
<1>7. a = [i \in 1..n |-> h[i]]
  BY <1>5, <1>6
<1>8. QED
  BY <1>2, <1>6, <1>7

\* A solution for ss gives one for ss with one more sequence behind.
LEMMA FlatExtend ==
    ASSUME NEW ss, IsSeq(ss), NEW n \in Nat, n = Len(ss), NEW g, FlatEq(g, ss), NEW x
    PROVE  \E h : /\ FlatEq(h, ss \o <<x>>)
                  /\ h[n + 1] = IF n = 0 THEN x ELSE g[n] \o x
<1>1. PICK t : t = ss \o <<x>>
  OBVIOUS
<1>2. /\ IsSeq(t) /\ Len(t) = n + 1 /\ t[n + 1] = x
      /\ \A i \in 1..n : t[i] = ss[i]
  <2>1. IsSeq(<<x>>) /\ Len(<<x>>) = 1 /\ <<x>>[1] = x
    BY Single
  <2>2. PICK u : u = <<x>>
    OBVIOUS
  <2>3. /\ IsSeq(t) /\ Len(t) = Len(ss) + Len(u)
        /\ \A i \in 1..Len(ss) : t[i] = ss[i]
        /\ \A i \in 1..Len(u) : t[Len(ss) + i] = u[i]
    <3>1. IsSeq(u)
      BY <2>1, <2>2
    <3>2. t = ss \o u
      BY <1>1, <2>2
    <3>3. QED
      BY <3>1, <3>2, Cat
  <2>4. QED
    BY <2>1, <2>2, <2>3
<1>3. /\ \A i \in 1..n : g[i] = IF i = 1 THEN ss[i] ELSE g[i-1] \o ss[i]
  BY FlatValues, Zenon
<1>4. PICK h : h = [i \in 1..(n + 1) |-> IF i = n + 1 THEN (IF n = 0 THEN x ELSE g[n] \o x) ELSE g[i]]
  OBVIOUS
<1>5. h[n + 1] = IF n = 0 THEN x ELSE g[n] \o x
  BY <1>4
<1>6. h = [i \in 1..(n + 1) |-> h[i]]
  BY <1>4
<1>7. ASSUME NEW i \in 1..(n + 1)
      PROVE  h[i] = IF i = 1 THEN t[i] ELSE h[i-1] \o t[i]
  <2>1. CASE i = n + 1
    <3>1. CASE n = 0
      BY <1>2, <1>4, <2>1, <3>1
    <3>2. CASE n # 0
      <4>1. i # 1 /\ i - 1 = n /\ n \in 1..(n + 1) /\ n # n + 1
        BY <2>1, <3>2
      <4>2. h[n] = g[n]
        BY <1>4, <4>1
      <4>3. QED
        BY <1>2, <1>5, <2>1, <3>2, <4>1, <4>2
    <3>3. QED
      BY <3>1, <3>2
  <2>2. CASE i # n + 1
    <3>1. i \in 1..n
      BY <2>2
    <3>2. h[i] = g[i] /\ t[i] = ss[i]
      BY <1>2, <1>4, <2>2, <3>1
    <3>3. CASE i = 1
      BY <1>3, <3>1, <3>2, <3>3
    <3>4. CASE i # 1
      <4>1. i - 1 \in 1..(n + 1) /\ i - 1 # n + 1
        BY <3>1, <3>4
      <4>2. h[i - 1] = g[i - 1]
        BY <1>4, <4>1
      <4>3. QED
        BY <1>3, <3>1, <3>2, <3>4, <4>2
    <3>5. QED
      BY <3>3, <3>4
  <2>3. QED
    BY <2>1, <2>2
<1>8. FlatEq(h, t)
  BY <1>2, <1>6, <1>7, FlatValues
<1>9. QED
  BY <1>1, <1>5, <1>8

\* Some function satisfies the equation.
LEMMA FlatExists ==
    ASSUME NEW ss, IsSeq(ss)
    PROVE  \E g : FlatEq(g, ss)
<1>1. DEFINE A == {k \in Nat : \A s : IsSeq(s) /\ Len(s) = k => \E g : FlatEq(g, s)}
<1>2. 0 \in A
  <2>1. ASSUME NEW s, IsSeq(s), Len(s) = 0 PROVE \E g : FlatEq(g, s)
    <3>1. PICK g : g = [i \in 1..0 |-> s[i]]
      OBVIOUS
    <3>2. g = [i \in 1..0 |-> g[i]] /\ \A i \in 1..0 : g[i] = IF i = 1 THEN s[i] ELSE g[i-1] \o s[i]
      BY <3>1
    <3>3. FlatEq(g, s)
      BY <2>1, <3>2, FlatValues
    <3>4. QED
      BY <3>3
  <2>2. QED
    BY <2>1
<1>3. ASSUME NEW k \in Nat, k \in A PROVE k + 1 \in A
  <2>1. ASSUME NEW s, IsSeq(s), Len(s) = k + 1 PROVE \E g : FlatEq(g, s)
    <3>1. k + 1 \in 1..Len(s)
      BY <2>1
    <3>2. PICK a : a = SubSeq(s, 1, (k + 1) - 1)
      OBVIOUS
    <3>3. IsSeq(a) /\ Len(a) = k /\ s = a \o <<s[k + 1]>>
      <4>1. PICK b : b = SubSeq(s, (k + 1) + 1, Len(s))
        OBVIOUS
      <4>2. /\ IsSeq(a) /\ Len(a) = (k + 1) - 1 /\ IsSeq(b) /\ Len(b) = Len(s) - (k + 1)
            /\ s = (a \o <<s[k + 1]>>) \o b
        BY <2>1, <3>1, <3>2, <4>1, Split
      <4>3. b = <<>>
        BY <2>1, <4>2, NothingElse
      <4>4. IsSeq(a \o <<s[k + 1]>>)
        BY <4>2, Cat, Single
      <4>5. QED
        BY <4>2, <4>3, <4>4, CatNothing
    <3>4. PICK g : FlatEq(g, a)
      BY <1>3, <3>3
    <3>5. \E h : FlatEq(h, a \o <<s[k + 1]>>)
      BY <3>3, <3>4, FlatExtend
    <3>6. QED
      BY <3>3, <3>5
  <2>2. QED
    BY <2>1
<1>4. Nat \subseteq A
  BY <1>2, <1>3, Induction
<1>5. Len(ss) \in A
  BY <1>4 DEF IsSeq
<1>6. QED
  BY <1>5

\* FlattenSeq is the last value of a solution.
LEMMA FlatIs ==
    ASSUME NEW ss, IsSeq(ss), NEW g, FlatEq(g, ss)
    PROVE  FlattenSeq(ss) = IF Len(ss) = 0 THEN <<>> ELSE g[Len(ss)]
<1>1. CASE Len(ss) = 0
  BY <1>1, NothingElse DEF FlattenSeq
<1>2. CASE Len(ss) # 0
  <2>1. PICK h : h = CHOOSE f : f = [i \in 1..Len(ss) |-> IF i = 1 THEN ss[i] ELSE f[i-1] \o ss[i]]
    OBVIOUS
  <2>2. FlattenSeq(ss) = h[Len(ss)]
    BY <1>2, <2>1 DEF FlattenSeq
  <2>3. FlatEq(h, ss)
    BY <2>1, Zenon DEF FlatEq
  <2>4. h = g
    BY <2>3, FlatUnique
  <2>5. QED
    BY <1>2, <2>2, <2>4
<1>3. QED
  BY <1>1, <1>2

\* Of no sequences, FlattenSeq makes the empty one.
LEMMA FlatNothing == FlattenSeq(<<>>) = <<>>
BY Nothing DEF FlattenSeq

\* One more sequence at the end.
LEMMA FlatAppend ==
    ASSUME NEW ss, IsSeq(ss), NEW x, IsSeq(x)
    PROVE  FlattenSeq(ss \o <<x>>) = FlattenSeq(ss) \o x
<1>1. PICK g : FlatEq(g, ss)
  BY FlatExists
<1>2. PICK n \in Nat : n = Len(ss)
  BY DEF IsSeq
<1>3. PICK t : t = ss \o <<x>>
  OBVIOUS
<1>4. PICK h : FlatEq(h, t) /\ h[n + 1] = IF n = 0 THEN x ELSE g[n] \o x
  BY <1>1, <1>2, <1>3, FlatExtend
<1>5. IsSeq(t) /\ Len(t) = n + 1
  BY <1>2, <1>3, Cat, Single
<1>6. FlattenSeq(t) = h[n + 1]
  <2>1. FlattenSeq(t) = IF Len(t) = 0 THEN <<>> ELSE h[Len(t)]
    BY <1>4, <1>5, FlatIs
  <2>2. QED
    BY <1>5, <2>1
<1>7. FlattenSeq(ss) = IF n = 0 THEN <<>> ELSE g[n]
  BY <1>1, <1>2, FlatIs
<1>8. QED
  BY <1>3, <1>4, <1>6, <1>7, CatNothing

\* Sequences of sequences.
AllSeqs(ss) == IsSeq(ss) /\ \A i \in 1..Len(ss) : IsSeq(ss[i])

\* A sequence that is not empty is one that is shorter, and its last element.
LEMMA LastSplit ==
    ASSUME NEW s, IsSeq(s), NEW k \in Nat, Len(s) = k + 1
    PROVE  /\ IsSeq(SubSeq(s, 1, k)) /\ Len(SubSeq(s, 1, k)) = k
           /\ s = SubSeq(s, 1, k) \o <<s[k + 1]>>
           /\ \A i \in 1..k : SubSeq(s, 1, k)[i] = s[i]
<1>1. PICK a : a = SubSeq(s, 1, k)
  OBVIOUS
<1>2. /\ IsSeq(a) /\ Len(a) = k + 1 - 1 /\ \A i \in 1..(k + 1 - 1) : a[i] = s[1 + i - 1]
  <2>1. k <= Len(s) /\ 1 <= k + 1 /\ 1 > 0
    OBVIOUS
  <2>2. QED
    BY <1>1, <2>1, Sub
<1>3. Len(a) = k /\ \A i \in 1..k : a[i] = s[i]
  BY <1>2
<1>4. PICK x : x = <<s[k + 1]>>
  OBVIOUS
<1>5. IsSeq(x) /\ Len(x) = 1 /\ x[1] = s[k + 1]
  BY <1>4, Single
<1>6. /\ IsSeq(a \o x) /\ Len(a \o x) = Len(a) + Len(x)
      /\ \A i \in 1..Len(a) : (a \o x)[i] = a[i]
      /\ \A i \in 1..Len(x) : (a \o x)[Len(a) + i] = x[i]
  <2>1. IsSeq(a) /\ IsSeq(x)
    BY <1>2, <1>5
  <2>2. QED
    BY <2>1, Cat
<1>7. (a \o x)[Len(a) + 1] = x[1]
  BY <1>5, <1>6
<1>8. \A i \in 1..Len(s) : (a \o x)[i] = s[i]
  BY <1>3, <1>5, <1>6, <1>7
<1>9. a \o x = s
  <2>1. Len(a \o x) = Len(s)
    BY <1>3, <1>5, <1>6
  <2>2. \A i \in 1..Len(a \o x) : (a \o x)[i] = s[i]
    BY <1>8, <2>1
  <2>3. QED
    BY <1>6, <2>1, <2>2, SeqSame, Zenon
<1>10. QED
  BY <1>1, <1>2, <1>3, <1>4, <1>9

\* All but the last of some sequences, and the last.
LEMMA AllSplit ==
    ASSUME NEW ss, AllSeqs(ss), NEW k \in Nat, Len(ss) = k + 1
    PROVE  /\ AllSeqs(SubSeq(ss, 1, k)) /\ Len(SubSeq(ss, 1, k)) = k
           /\ IsSeq(ss[k + 1]) /\ ss = SubSeq(ss, 1, k) \o <<ss[k + 1]>>
<1>1. PICK a : a = SubSeq(ss, 1, k)
  OBVIOUS
<1>2. IsSeq(ss) /\ \A i \in 1..(k + 1) : IsSeq(ss[i])
  BY DEF AllSeqs
<1>3. IsSeq(a) /\ Len(a) = k /\ ss = a \o <<ss[k + 1]>> /\ \A i \in 1..k : a[i] = ss[i]
  BY <1>1, <1>2, LastSplit
<1>4. \A i \in 1..k : IsSeq(a[i])
  BY <1>2, <1>3
<1>5. QED
  BY <1>1, <1>2, <1>3, <1>4 DEF AllSeqs

\* FlattenSeq of sequences is a sequence.
LEMMA FlatSeq ==
    ASSUME NEW ss, AllSeqs(ss)
    PROVE  IsSeq(FlattenSeq(ss))
<1>1. DEFINE A == {k \in Nat : \A s : AllSeqs(s) /\ Len(s) = k => IsSeq(FlattenSeq(s))}
<1>2. 0 \in A
  <2>1. ASSUME NEW s, AllSeqs(s), Len(s) = 0 PROVE IsSeq(FlattenSeq(s))
    BY <2>1, FlatNothing, Nothing, NothingElse DEF AllSeqs
  <2>2. QED
    BY <2>1
<1>3. ASSUME NEW k \in Nat, k \in A PROVE k + 1 \in A
  <2>1. ASSUME NEW s, AllSeqs(s), Len(s) = k + 1 PROVE IsSeq(FlattenSeq(s))
    <3>1. PICK a : a = SubSeq(s, 1, k)
      OBVIOUS
    <3>2. PICK x : x = s[k + 1]
      OBVIOUS
    <3>3. AllSeqs(a) /\ Len(a) = k /\ IsSeq(x) /\ s = a \o <<x>>
      BY <2>1, <3>1, <3>2, AllSplit
    <3>4. FlattenSeq(s) = FlattenSeq(a) \o x
      BY <3>3, FlatAppend DEF AllSeqs
    <3>5. IsSeq(FlattenSeq(a))
      BY <1>3, <3>3
    <3>6. QED
      BY <3>3, <3>4, <3>5, Cat
  <2>2. QED
    BY <2>1
<1>4. Nat \subseteq A
  BY <1>2, <1>3, Induction
<1>5. Len(ss) \in A
  BY <1>4 DEF IsSeq, AllSeqs
<1>6. QED
  BY <1>5

\* FlattenSeq of two lists of sequences in a row: first the one's, then the
\* other's.
LEMMA FlatCat ==
    ASSUME NEW ss, AllSeqs(ss), NEW tt, AllSeqs(tt)
    PROVE  FlattenSeq(ss \o tt) = FlattenSeq(ss) \o FlattenSeq(tt)
<1>1. DEFINE A == {k \in Nat : \A t : AllSeqs(t) /\ Len(t) = k =>
                      FlattenSeq(ss \o t) = FlattenSeq(ss) \o FlattenSeq(t)}
<1>0. IsSeq(ss) /\ IsSeq(FlattenSeq(ss))
  BY FlatSeq DEF AllSeqs
<1>2. 0 \in A
  <2>1. ASSUME NEW t, AllSeqs(t), Len(t) = 0
        PROVE  FlattenSeq(ss \o t) = FlattenSeq(ss) \o FlattenSeq(t)
    <3>1. t = <<>>
      BY <2>1, NothingElse DEF AllSeqs
    <3>2. QED
      BY <1>0, <3>1, FlatNothing, CatNothing
  <2>2. QED
    BY <2>1
<1>3. ASSUME NEW k \in Nat, k \in A PROVE k + 1 \in A
  <2>1. ASSUME NEW t, AllSeqs(t), Len(t) = k + 1
        PROVE  FlattenSeq(ss \o t) = FlattenSeq(ss) \o FlattenSeq(t)
    <3>1. PICK a : a = SubSeq(t, 1, k)
      OBVIOUS
    <3>2. PICK x : x = t[k + 1]
      OBVIOUS
    <3>3. AllSeqs(a) /\ Len(a) = k /\ IsSeq(x) /\ t = a \o <<x>> /\ IsSeq(a)
      BY <2>1, <3>1, <3>2, AllSplit DEF AllSeqs
    <3>4. IsSeq(FlattenSeq(a)) /\ IsSeq(<<x>>) /\ IsSeq(ss \o a)
      BY <1>0, <3>3, FlatSeq, Single, Cat
    <3>5. ss \o t = (ss \o a) \o <<x>>
      <4>1. PICK y : y = <<x>>
        OBVIOUS
      <4>2. IsSeq(ss) /\ IsSeq(a) /\ IsSeq(y)
        BY <1>0, <3>3, <3>4, <4>1
      <4>3. (ss \o a) \o y = ss \o (a \o y)
        BY <4>2, CatCat, SMTT(30)
      <4>4. QED
        BY <3>3, <4>1, <4>3
    <3>6. FlattenSeq(ss \o t) = FlattenSeq(ss \o a) \o x
      BY <3>3, <3>4, <3>5, FlatAppend
    <3>7. FlattenSeq(t) = FlattenSeq(a) \o x
      BY <3>3, FlatAppend
    <3>8. FlattenSeq(ss \o a) = FlattenSeq(ss) \o FlattenSeq(a)
      BY <1>3, <3>3
    <3>9. QED
      <4>1. (FlattenSeq(ss) \o FlattenSeq(a)) \o x = FlattenSeq(ss) \o (FlattenSeq(a) \o x)
        <5>1. PICK f, h : f = FlattenSeq(ss) /\ h = FlattenSeq(a)
          OBVIOUS
        <5>2. IsSeq(f) /\ IsSeq(h) /\ IsSeq(x)
          BY <1>0, <3>3, <3>4, <5>1
        <5>3. (f \o h) \o x = f \o (h \o x)
          BY <5>2, CatCat
        <5>4. QED
          BY <5>1, <5>3
      <4>2. QED
        BY <3>6, <3>7, <3>8, <4>1, Zenon
  <2>2. QED
    BY <2>1
<1>4. Nat \subseteq A
  BY <1>2, <1>3, Induction
<1>5. Len(tt) \in A
  BY <1>4 DEF IsSeq, AllSeqs
<1>6. QED
  BY <1>5

\* FlattenSeq of a single sequence is this sequence.
LEMMA FlatOne ==
    ASSUME NEW x, IsSeq(x)
    PROVE  FlattenSeq(<<x>>) = x /\ AllSeqs(<<x>>)
<1>1. IsSeq(<<>>) /\ IsSeq(<<x>>) /\ Len(<<x>>) = 1 /\ <<x>>[1] = x
  BY Nothing, Single
<1>2. FlattenSeq(<<>> \o <<x>>) = FlattenSeq(<<>>) \o x
  BY <1>1, FlatAppend
<1>3. <<>> \o <<x>> = <<x>> /\ <<>> \o x = x
  BY <1>1, CatNothing
<1>4. AllSeqs(<<x>>)
  BY <1>1 DEF AllSeqs
<1>5. QED
  BY <1>2, <1>3, <1>4, FlatNothing

(***************************************************************************)
(* What Kept keeps.                                                        *)
(***************************************************************************)
\* The pieces that Kept puts together.
Pieces(s, I) == [i \in 1..Len(s) |-> IF i \in I THEN <<s[i]>> ELSE <<>>]

\* Each place of s becomes its element alone or nothing.
LEMMA PiecesAre ==
    ASSUME NEW s, IsSeq(s), NEW I
    PROVE  /\ AllSeqs(Pieces(s, I)) /\ IsSeq(Pieces(s, I)) /\ Len(Pieces(s, I)) = Len(s)
           /\ \A i \in 1..Len(s) : Pieces(s, I)[i] = IF i \in I THEN <<s[i]>> ELSE <<>>
<1>1. PICK n \in Nat : n = Len(s)
  BY DEF IsSeq
<1>2. PICK f : f = [i \in 1..n |-> IF i \in I THEN <<s[i]>> ELSE <<>>]
  OBVIOUS
<1>3. f = [i \in 1..n |-> f[i]] /\ \A i \in 1..n : f[i] = IF i \in I THEN <<s[i]>> ELSE <<>>
  BY <1>2
<1>4. IsSeq(f) /\ Len(f) = n
  BY <1>3, Mapped
<1>5. \A i \in 1..n : IsSeq(f[i])
  BY <1>3, Single, Nothing
<1>6. AllSeqs(f)
  BY <1>4, <1>5 DEF AllSeqs
<1>7. f = Pieces(s, I)
  BY <1>1, <1>2, Zenon DEF Pieces
<1>8. QED
  BY <1>1, <1>3, <1>4, <1>6, <1>7

\* Kept flattens the pieces.
LEMMA KeptIs ==
    ASSUME NEW s, NEW I
    PROVE  Kept(s, I) = FlattenSeq(Pieces(s, I))
BY Zenon DEF Kept, Pieces

\* What is kept is a sequence.
LEMMA KeptSeq ==
    ASSUME NEW s, IsSeq(s), NEW I
    PROVE  IsSeq(Kept(s, I))
BY PiecesAre, KeptIs, FlatSeq

\* K is I among the places of s and J among those of t after it.
Fits(s, t, I, J, K) ==
    /\ \A i \in 1..Len(s) : i \in K <=> i \in I
    /\ \A j \in 1..Len(t) : Len(s) + j \in K <=> j \in J

\* Of two sequences in a row, what is kept of each.
LEMMA KeptCat ==
    ASSUME NEW s, IsSeq(s), NEW t, IsSeq(t), NEW I, NEW J, NEW K, Fits(s, t, I, J, K)
    PROVE  Kept(s \o t, K) = Kept(s, I) \o Kept(t, J)
<1>1. PICK m \in Nat, n \in Nat : m = Len(s) /\ n = Len(t)
  BY DEF IsSeq
<1>2. PICK u : u = s \o t
  OBVIOUS
<1>3. /\ IsSeq(u) /\ Len(u) = m + n /\ \A i \in 1..m : u[i] = s[i]
      /\ \A i \in 1..n : u[m + i] = t[i]
  BY <1>1, <1>2, Cat
<1>4. PICK a, b, c : a = Pieces(s, I) /\ b = Pieces(t, J) /\ c = Pieces(u, K)
  OBVIOUS
<1>5. /\ AllSeqs(a) /\ IsSeq(a) /\ Len(a) = m
      /\ \A i \in 1..m : a[i] = IF i \in I THEN <<s[i]>> ELSE <<>>
  BY <1>1, <1>4, PiecesAre
<1>6. /\ AllSeqs(b) /\ IsSeq(b) /\ Len(b) = n
      /\ \A i \in 1..n : b[i] = IF i \in J THEN <<t[i]>> ELSE <<>>
  BY <1>1, <1>4, PiecesAre
<1>7. /\ AllSeqs(c) /\ IsSeq(c) /\ Len(c) = m + n
      /\ \A i \in 1..(m + n) : c[i] = IF i \in K THEN <<u[i]>> ELSE <<>>
  <2>1. IsSeq(u)
    BY <1>3
  <2>2. /\ AllSeqs(c) /\ IsSeq(c) /\ Len(c) = Len(u)
        /\ \A i \in 1..Len(u) : c[i] = IF i \in K THEN <<u[i]>> ELSE <<>>
    BY <1>4, <2>1, PiecesAre
  <2>3. QED
    BY <1>3, <2>2
<1>8. PICK d : d = a \o b
  OBVIOUS
<1>9. /\ IsSeq(d) /\ Len(d) = m + n /\ \A i \in 1..m : d[i] = a[i]
      /\ \A i \in 1..n : d[m + i] = b[i]
  <2>1. IsSeq(a) /\ IsSeq(b)
    BY <1>5, <1>6
  <2>2. /\ IsSeq(d) /\ Len(d) = Len(a) + Len(b) /\ \A i \in 1..Len(a) : d[i] = a[i]
        /\ \A i \in 1..Len(b) : d[Len(a) + i] = b[i]
    BY <1>8, <2>1, Cat
  <2>3. QED
    BY <1>5, <1>6, <2>2
<1>0. /\ \A i \in 1..m : i \in K <=> i \in I
      /\ \A j \in 1..n : m + j \in K <=> j \in J
  BY <1>1 DEF Fits
<1>10. ASSUME NEW i \in 1..(m + n) PROVE c[i] = d[i]
  <2>1. CASE i <= m
    <3>1. i \in 1..m
      BY <2>1
    <3>2. d[i] = (IF i \in I THEN <<s[i]>> ELSE <<>>) /\ u[i] = s[i]
      BY <1>3, <1>5, <1>9, <3>1
    <3>3. i \in K <=> i \in I
      BY <1>0, <3>1
    <3>4. QED
      BY <1>7, <3>2, <3>3
  <2>2. CASE i > m
    <3>1. PICK j \in 1..n : i = m + j
      <4>1. i - m \in 1..n /\ i = m + (i - m)
        BY <2>2
      <4>2. QED
        BY <4>1
    <3>2. b[j] = (IF j \in J THEN <<t[j]>> ELSE <<>>) /\ d[i] = b[j] /\ u[i] = t[j]
      BY <1>3, <1>6, <1>9, <3>1
    <3>3. i \in K <=> j \in J
      BY <1>0, <3>1
    <3>4. QED
      BY <1>7, <3>2, <3>3
  <2>3. QED
    BY <2>1, <2>2
<1>11. c = d
  BY <1>7, <1>9, <1>10, SeqSame
<1>12. FlattenSeq(d) = FlattenSeq(a) \o FlattenSeq(b)
  BY <1>5, <1>6, <1>8, FlatCat
<1>13. QED
  BY <1>2, <1>4, <1>11, <1>12, KeptIs

\* Of nothing, nothing is kept.
LEMMA KeptNothing ==
    ASSUME NEW I
    PROVE  Kept(<<>>, I) = <<>>
<1>1. IsSeq(<<>>) /\ Len(<<>>) = 0
  BY Nothing
<1>2. IsSeq(Pieces(<<>>, I)) /\ Len(Pieces(<<>>, I)) = 0
  BY <1>1, PiecesAre
<1>3. Pieces(<<>>, I) = <<>>
  BY <1>2, NothingElse
<1>4. QED
  BY <1>3, KeptIs, FlatNothing

\* Of one element, it or nothing is kept.
LEMMA KeptOne ==
    ASSUME NEW x, NEW I
    PROVE  Kept(<<x>>, I) = IF 1 \in I THEN <<x>> ELSE <<>>
<1>1. PICK s : s = <<x>>
  OBVIOUS
<1>2. IsSeq(s) /\ Len(s) = 1 /\ s[1] = x
  BY <1>1, Single
<1>3. PICK f : f = Pieces(s, I)
  OBVIOUS
<1>4. IsSeq(f) /\ Len(f) = 1 /\ f[1] = IF 1 \in I THEN <<x>> ELSE <<>>
  BY <1>2, <1>3, PiecesAre
<1>5. PICK y : y = IF 1 \in I THEN <<x>> ELSE <<>>
  OBVIOUS
<1>6. IsSeq(y)
  BY <1>5, Single, Nothing
<1>7. f = <<y>>
  <2>1. PICK g : g = <<y>>
    OBVIOUS
  <2>2. IsSeq(g) /\ Len(g) = 1 /\ g[1] = y
    BY <2>1, Single
  <2>3. \A i \in 1..1 : f[i] = g[i]
    BY <1>4, <1>5, <2>2
  <2>4. f = g
    BY <1>4, <2>2, <2>3, SeqSame
  <2>5. QED
    BY <2>1, <2>4
<1>8. FlattenSeq(f) = y
  BY <1>6, <1>7, FlatOne
<1>9. QED
  BY <1>1, <1>3, <1>5, <1>8, KeptIs

\* One more at the end.
LEMMA KeptLast ==
    ASSUME NEW s, IsSeq(s), NEW x, NEW I
    PROVE  Kept(s \o <<x>>, I) = Kept(s, I) \o (IF Len(s) + 1 \in I THEN <<x>> ELSE <<>>)
<1>1. PICK J : J = {j \in {1} : Len(s) + j \in I}
  OBVIOUS
<1>2. PICK t : t = <<x>>
  OBVIOUS
<1>3. IsSeq(t) /\ Len(t) = 1
  BY <1>2, Single
<1>4. \A j \in 1..Len(t) : Len(s) + j \in I <=> j \in J
  BY <1>1, <1>3
<1>5. Kept(s \o t, I) = Kept(s, I) \o Kept(t, J)
  <2>1. IsSeq(t) /\ Fits(s, t, I, J, I)
    BY <1>3, <1>4 DEF Fits
  <2>2. QED
    BY <2>1, KeptCat
<1>6. Kept(t, J) = IF 1 \in J THEN <<x>> ELSE <<>>
  BY <1>2, KeptOne
<1>7. 1 \in J <=> Len(s) + 1 \in I
  BY <1>1
<1>8. QED
  BY <1>2, <1>5, <1>6, <1>7

\* m tells where in s each element of r, the kept ones, was.
Embeds(m, s, I, r) ==
    /\ m \in [1..Len(r) -> 1..Len(s)] /\ Len(r) <= Len(s)
    /\ \A k \in 1..Len(r) : m[k] \in I /\ r[k] = s[m[k]]
    /\ \A k, l \in 1..Len(r) : k < l => m[k] < m[l]
    /\ \A i \in 1..Len(s) : i \in I => \E k \in 1..Len(r) : m[k] = i

\* Where the kept elements of s were also says it of s with one more element.
LEMMA EmbedsMore ==
    ASSUME NEW s, IsSeq(s), NEW x, NEW I, NEW r, IsSeq(r), NEW m, Embeds(m, s, I, r)
    PROVE  \E h : Embeds(h, s \o <<x>>, I, r \o (IF Len(s) + 1 \in I THEN <<x>> ELSE <<>>))
<1>1. PICK n \in Nat, q \in Nat : n = Len(s) /\ q = Len(r)
  BY DEF IsSeq
<1>0. PICK y : y = <<x>>
  OBVIOUS
<1>2. PICK t : t = s \o y
  OBVIOUS
<1>3. IsSeq(y) /\ Len(y) = 1 /\ y[1] = x
  BY <1>0, Single
<1>4. IsSeq(t) /\ Len(t) = n + 1 /\ t[n + 1] = x /\ \A i \in 1..n : t[i] = s[i]
  <2>1. /\ IsSeq(t) /\ Len(t) = Len(s) + Len(y) /\ \A i \in 1..Len(s) : t[i] = s[i]
        /\ \A i \in 1..Len(y) : t[Len(s) + i] = y[i]
    <3>1. IsSeq(y)
      BY <1>3
    <3>2. QED
      BY <1>2, <3>1, Cat
  <2>2. t[Len(s) + 1] = y[1]
    BY <1>3, <2>1
  <2>3. QED
    BY <1>1, <1>3, <2>1, <2>2
<1>5. /\ m \in [1..q -> 1..n] /\ q <= n
      /\ \A k \in 1..q : m[k] \in I /\ r[k] = s[m[k]]
      /\ \A k, l \in 1..q : k < l => m[k] < m[l]
      /\ \A i \in 1..n : i \in I => \E k \in 1..q : m[k] = i
  BY <1>1 DEF Embeds
<1>6. CASE n + 1 \in I
  <2>1. PICK u : u = r \o y
    OBVIOUS
  <2>2. Len(u) = q + 1 /\ u[q + 1] = x /\ \A i \in 1..q : u[i] = r[i]
    <3>1. /\ IsSeq(u) /\ Len(u) = Len(r) + Len(y) /\ \A i \in 1..Len(r) : u[i] = r[i]
          /\ \A i \in 1..Len(y) : u[Len(r) + i] = y[i]
      <4>1. IsSeq(y)
        BY <1>3
      <4>2. QED
        BY <2>1, <4>1, Cat
    <3>2. u[Len(r) + 1] = y[1]
      BY <1>3, <3>1
    <3>3. QED
      BY <1>1, <1>3, <3>1, <3>2
  <2>3. PICK h : h = [k \in 1..(q + 1) |-> IF k = q + 1 THEN n + 1 ELSE m[k]]
    OBVIOUS
  <2>4. h[q + 1] = n + 1 /\ \A k \in 1..q : h[k] = m[k] /\ h[k] \in 1..n
    BY <1>5, <2>3
  <2>5. h \in [1..(q + 1) -> 1..(n + 1)]
    BY <1>5, <2>3
  <2>6. ASSUME NEW k \in 1..(q + 1) PROVE h[k] \in I /\ u[k] = t[h[k]]
    <3>1. CASE k = q + 1
      BY <1>4, <1>6, <2>2, <2>4, <3>1
    <3>2. CASE k # q + 1
      <4>1. k \in 1..q
        BY <3>2
      <4>2. QED
        <5>1. m[k] \in 1..n /\ m[k] \in I /\ r[k] = s[m[k]]
          BY <1>5, <4>1
        <5>2. t[m[k]] = s[m[k]] /\ u[k] = r[k] /\ h[k] = m[k]
          BY <1>4, <2>2, <2>4, <4>1, <5>1
        <5>3. QED
          BY <5>1, <5>2
    <3>3. QED
      BY <3>1, <3>2
  <2>7. ASSUME NEW k \in 1..(q + 1), NEW l \in 1..(q + 1), k < l PROVE h[k] < h[l]
    <3>1. k \in 1..q
      BY <2>7
    <3>2. CASE l = q + 1
      BY <2>4, <3>1, <3>2
    <3>3. CASE l # q + 1
      <4>1. l \in 1..q
        BY <3>3
      <4>2. QED
        BY <1>5, <2>4, <2>7, <3>1, <4>1
    <3>4. QED
      BY <3>2, <3>3
  <2>8. ASSUME NEW i \in 1..(n + 1), i \in I PROVE \E k \in 1..(q + 1) : h[k] = i
    <3>1. CASE i = n + 1
      BY <2>4, <3>1
    <3>2. CASE i # n + 1
      <4>1. i \in 1..n
        BY <3>2
      <4>2. PICK k \in 1..q : m[k] = i
        BY <1>5, <2>8, <4>1
      <4>3. h[k] = i /\ k \in 1..(q + 1)
        BY <2>4, <4>2
      <4>4. QED
        BY <4>3
    <3>3. QED
      BY <3>1, <3>2
  <2>9. Embeds(h, t, I, u)
    BY <1>4, <1>5, <2>2, <2>5, <2>6, <2>7, <2>8 DEF Embeds
  <2>10. u = r \o (IF Len(s) + 1 \in I THEN <<x>> ELSE <<>>)
    BY <1>0, <1>1, <1>6, <2>1
  <2>11. QED
    BY <1>0, <1>2, <2>9, <2>10
<1>7. CASE n + 1 \notin I
  <2>1. r = r \o (IF Len(s) + 1 \in I THEN <<x>> ELSE <<>>)
    BY <1>1, <1>7, CatNothing
  <2>2. m \in [1..q -> 1..(n + 1)]
    BY <1>5
  <2>3. \A k \in 1..q : m[k] \in 1..n /\ r[k] = t[m[k]]
    BY <1>4, <1>5
  <2>4. ASSUME NEW i \in 1..(n + 1), i \in I PROVE \E k \in 1..q : m[k] = i
    <3>1. i \in 1..n
      BY <1>7, <2>4
    <3>2. QED
      BY <1>5, <2>4, <3>1
  <2>5. Embeds(m, t, I, r)
    BY <1>1, <1>4, <1>5, <2>2, <2>3, <2>4 DEF Embeds
  <2>6. QED
    BY <1>0, <1>2, <2>1, <2>5
<1>8. QED
  BY <1>6, <1>7

\* The kept elements are those at the places of I, each of them, in their
\* order.
LEMMA KeptEmbeds ==
    ASSUME NEW s, IsSeq(s), NEW I
    PROVE  \E m : Embeds(m, s, I, Kept(s, I))
<1>1. DEFINE A == {k \in Nat : \A t : IsSeq(t) /\ Len(t) = k => \E m : Embeds(m, t, I, Kept(t, I))}
<1>2. 0 \in A
  <2>1. ASSUME NEW t, IsSeq(t), Len(t) = 0 PROVE \E m : Embeds(m, t, I, Kept(t, I))
    <3>1. t = <<>> /\ Kept(t, I) = <<>> /\ Len(<<>>) = 0
      BY <2>1, NothingElse, KeptNothing, Nothing
    <3>2. PICK m : m = [k \in 1..0 |-> 0]
      OBVIOUS
    <3>3. m \in [1..0 -> 1..0]
      BY <3>2
    <3>4. PICK r : r = Kept(t, I) /\ Len(r) = 0
      BY <3>1
    <3>5. Embeds(m, t, I, r)
      BY <2>1, <3>3, <3>4 DEF Embeds
    <3>6. QED
      BY <3>4, <3>5
  <2>2. QED
    BY <2>1
<1>3. ASSUME NEW k \in Nat, k \in A PROVE k + 1 \in A
  <2>1. ASSUME NEW t, IsSeq(t), Len(t) = k + 1 PROVE \E m : Embeds(m, t, I, Kept(t, I))
    <3>1. PICK a : a = SubSeq(t, 1, k)
      OBVIOUS
    <3>2. PICK x : x = t[k + 1]
      OBVIOUS
    <3>3. IsSeq(a) /\ Len(a) = k /\ t = a \o <<x>>
      BY <2>1, <3>1, <3>2, LastSplit
    <3>4. PICK m : Embeds(m, a, I, Kept(a, I))
      BY <1>3, <3>3
    <3>5. IsSeq(Kept(a, I)) /\ Kept(t, I) = Kept(a, I) \o (IF Len(a) + 1 \in I THEN <<x>> ELSE <<>>)
      BY <3>3, KeptSeq, KeptLast, ZenonT(30)
    <3>6. \E h : Embeds(h, a \o <<x>>, I, Kept(a, I) \o (IF Len(a) + 1 \in I THEN <<x>> ELSE <<>>))
      BY <3>3, <3>4, <3>5, EmbedsMore
    <3>7. QED
      BY <3>3, <3>5, <3>6, Zenon
  <2>2. QED
    BY <2>1
<1>4. Nat \subseteq A
  BY <1>2, <1>3, Induction
<1>5. Len(s) \in A
  BY <1>4 DEF IsSeq
<1>6. QED
  BY <1>5

\* Keeping all, and keeping none.
LEMMA KeptAll ==
    ASSUME NEW s, IsSeq(s), NEW I, 1..Len(s) \subseteq I
    PROVE  Kept(s, I) = s
<1>1. PICK n \in Nat : n = Len(s)
  BY DEF IsSeq
<1>2. PICK r : r = Kept(s, I) /\ IsSeq(r)
  BY KeptSeq
<1>3. PICK m : Embeds(m, s, I, r)
  BY <1>2, KeptEmbeds
<1>4. PICK q \in Nat : q = Len(r)
  BY <1>2 DEF IsSeq
<1>5. /\ m \in [1..q -> 1..n] /\ q <= n /\ \A k \in 1..q : r[k] = s[m[k]]
      /\ \A k, l \in 1..q : k < l => m[k] < m[l]
      /\ \A i \in 1..n : \E k \in 1..q : m[k] = i
  BY <1>1, <1>3, <1>4 DEF Embeds
<1>6. DEFINE A == {i \in Nat : \A k \in 1..q : k <= i => m[k] = k}
<1>7. 0 \in A
  OBVIOUS
<1>8. ASSUME NEW i \in Nat, i \in A PROVE i + 1 \in A
  <2>1. CASE i + 1 \in 1..q
    <3>0. i + 1 \in 1..n
      BY <1>5, <2>1
    <3>1. PICK k \in 1..q : m[k] = i + 1
      BY <1>5, <3>0
    <3>2. ~(k <= i)
      BY <1>8, <3>1
    <3>3. m[i + 1] \in 1..n
      BY <1>5, <2>1
    <3>4. m[i + 1] > i
      <4>1. CASE i = 0
        BY <3>3, <4>1
      <4>2. CASE i # 0
        <5>1. i \in 1..q /\ m[i] = i /\ i < i + 1
          BY <1>8, <2>1, <4>2
        <5>2. QED
          BY <1>5, <2>1, <3>3, <5>1
      <4>3. QED
        BY <4>1, <4>2
    <3>5. k = i + 1
      <4>1. CASE k > i + 1
        <5>1. m[i + 1] < m[k]
          BY <1>5, <2>1, <3>1, <4>1
        <5>2. QED
          BY <3>1, <3>3, <3>4, <5>1
      <4>2. QED
        BY <3>1, <3>2, <4>1
    <3>6. m[i + 1] = i + 1
      BY <3>1, <3>5
    <3>7. QED
      BY <1>8, <3>6
  <2>2. CASE i + 1 \notin 1..q
    BY <1>8, <2>2
  <2>3. QED
    BY <2>1, <2>2
<1>9. Nat \subseteq A
  BY <1>7, <1>8, Induction
<1>10. \A k \in 1..q : m[k] = k
  <2>1. q \in A
    BY <1>9
  <2>2. QED
    BY <2>1
<1>11. q = n
  <2>1. CASE n = 0
    BY <1>5, <2>1
  <2>2. CASE n # 0
    <3>1. PICK k \in 1..q : m[k] = n
      BY <1>5, <2>2
    <3>2. QED
      BY <1>5, <1>10, <3>1
  <2>3. QED
    BY <2>1, <2>2
<1>12. \A i \in 1..Len(r) : r[i] = s[i]
  BY <1>4, <1>5, <1>10
<1>13. r = s
  BY <1>1, <1>2, <1>4, <1>11, <1>12, SeqSame
<1>14. QED
  BY <1>2, <1>13

\* Where no place is to be kept, nothing is.
LEMMA KeptNone ==
    ASSUME NEW s, IsSeq(s), NEW I, \A i \in 1..Len(s) : i \notin I
    PROVE  Kept(s, I) = <<>>
<1>1. PICK r : r = Kept(s, I) /\ IsSeq(r)
  BY KeptSeq
<1>2. PICK m : Embeds(m, s, I, r)
  BY <1>1, KeptEmbeds
<1>3. PICK q \in Nat : q = Len(r)
  BY <1>1 DEF IsSeq
<1>4. \A k \in 1..q : m[k] \in 1..Len(s) /\ m[k] \in I
  BY <1>2, <1>3 DEF Embeds
<1>5. q = 0
  <2>1. CASE q # 0
    <3>1. 1 \in 1..q
      BY <2>1
    <3>2. QED
      BY <1>4, <3>1
  <2>2. QED
    BY <2>1
<1>6. QED
  BY <1>1, <1>3, <1>5, NothingElse

(***************************************************************************)
(* Taking an element out of a sequence and putting it in elsewhere.        *)
(***************************************************************************)
\* The first and the second part of two sequences in a row are the two.
LEMMA CatParts ==
    ASSUME NEW a, IsSeq(a), NEW b, IsSeq(b)
    PROVE  /\ SubSeq(a \o b, 1, Len(a)) = a
           /\ SubSeq(a \o b, Len(a) + 1, Len(a \o b)) = b
<1>1. PICK m \in Nat, n \in Nat : m = Len(a) /\ n = Len(b)
  BY DEF IsSeq
<1>2. PICK u : u = a \o b
  OBVIOUS
<1>3. /\ IsSeq(u) /\ Len(u) = m + n /\ \A i \in 1..m : u[i] = a[i]
      /\ \A i \in 1..n : u[m + i] = b[i]
  BY <1>1, <1>2, Cat
<1>4. SubSeq(u, 1, m) = a
  <2>1. PICK x : x = SubSeq(u, 1, m)
    OBVIOUS
  <2>2. IsSeq(x) /\ Len(x) = m /\ \A i \in 1..m : x[i] = u[i]
    <3>1. /\ IsSeq(x) /\ Len(x) = m + 1 - 1 /\ \A i \in 1..(m + 1 - 1) : x[i] = u[1 + i - 1]
      <4>1. IsSeq(u) /\ m <= Len(u) /\ 1 <= m + 1 /\ 1 > 0
        BY <1>3
      <4>2. QED
        BY <2>1, <4>1, Sub
    <3>2. QED
      BY <3>1
  <2>3. \A i \in 1..Len(x) : x[i] = a[i]
    BY <1>3, <2>2
  <2>4. x = a
    BY <1>1, <2>2, <2>3, SeqSame
  <2>5. QED
    BY <2>1, <2>4
<1>5. SubSeq(u, m + 1, m + n) = b
  <2>1. PICK x : x = SubSeq(u, m + 1, m + n)
    OBVIOUS
  <2>2. IsSeq(x) /\ Len(x) = n /\ \A i \in 1..n : x[i] = u[m + i]
    <3>1. /\ IsSeq(x) /\ Len(x) = (m + n) + 1 - (m + 1)
          /\ \A i \in 1..((m + n) + 1 - (m + 1)) : x[i] = u[(m + 1) + i - 1]
      <4>1. IsSeq(u) /\ m + n <= Len(u) /\ m + 1 <= (m + n) + 1 /\ m + 1 > 0 /\ m + 1 \in Nat /\ m + n \in Nat
        BY <1>3
      <4>2. QED
        BY <2>1, <4>1, Sub
    <3>2. (m + n) + 1 - (m + 1) = n /\ \A i \in 1..n : (m + 1) + i - 1 = m + i
      OBVIOUS
    <3>3. QED
      BY <3>1, <3>2
  <2>3. \A i \in 1..Len(x) : x[i] = b[i]
    BY <1>3, <2>2
  <2>4. x = b
    BY <1>1, <2>2, <2>3, SeqSame
  <2>5. QED
    BY <2>1, <2>4
<1>6. QED
  BY <1>1, <1>2, <1>3, <1>4, <1>5

\* Two sequences in a row and a sequence of one, as terms of which the provers
\* know the facts below and no more.
Join(s, t) == s \o t
One(x) == <<x>>

\* Join of sequences is one.
LEMMA JoinSeq ==
    ASSUME NEW s, IsSeq(s), NEW t, IsSeq(t)
    PROVE  IsSeq(Join(s, t))
BY Cat DEF Join

\* The length of a Join.
LEMMA JoinLen ==
    ASSUME NEW s, IsSeq(s), NEW t, IsSeq(t)
    PROVE  Len(Join(s, t)) = Len(s) + Len(t) /\ Len(s) \in Nat /\ Len(t) \in Nat
BY Cat DEF Join

\* The elements of a Join.
LEMMA JoinAt ==
    ASSUME NEW s, IsSeq(s), NEW t, IsSeq(t)
    PROVE  /\ \A i \in 1..Len(s) : Join(s, t)[i] = s[i]
           /\ \A i \in 1..Len(t) : Join(s, t)[Len(s) + i] = t[i]
BY Cat DEF Join

\* Join is associative.
LEMMA JoinJoin ==
    ASSUME NEW s, IsSeq(s), NEW t, IsSeq(t), NEW u, IsSeq(u)
    PROVE  Join(Join(s, t), u) = Join(s, Join(t, u))
BY CatCat, SMTT(30) DEF Join

\* One(x) is a sequence of x alone.
LEMMA OneSeq ==
    ASSUME NEW x
    PROVE  IsSeq(One(x)) /\ Len(One(x)) = 1 /\ One(x)[1] = x
BY Single DEF One

\* Join with the empty sequence changes nothing.
LEMMA JoinNothing ==
    ASSUME NEW s, IsSeq(s)
    PROVE  Join(s, <<>>) = s /\ Join(<<>>, s) = s /\ IsSeq(<<>>) /\ Len(<<>>) = 0
BY CatNothing, Nothing DEF Join

\* The two parts of a Join, by their places.
LEMMA JoinParts ==
    ASSUME NEW a, IsSeq(a), NEW b, IsSeq(b)
    PROVE  /\ SubSeq(Join(a, b), 1, Len(a)) = a
           /\ SubSeq(Join(a, b), Len(a) + 1, Len(Join(a, b))) = b
BY CatParts DEF Join

\* RemoveAt the place of x between a and b leaves a and b.
LEMMA RemoveMid ==
    ASSUME NEW a, IsSeq(a), NEW x, NEW b, IsSeq(b)
    PROVE  RemoveAt(Join(Join(a, One(x)), b), Len(a) + 1) = Join(a, b)
<1>0. IsSeq(One(x)) /\ Len(One(x)) = 1
  BY OneSeq
<1>1. PICK c : c = Join(a, One(x))
  OBVIOUS
<1>2. IsSeq(c) /\ Len(c) = Len(a) + 1 /\ Len(a) \in Nat
  BY <1>0, <1>1, JoinSeq, JoinLen
<1>3. PICK d : d = Join(One(x), b)
  OBVIOUS
<1>4. IsSeq(d)
  BY <1>0, <1>3, JoinSeq
<1>5. PICK u : u = Join(c, b)
  OBVIOUS
<1>6. u = Join(a, d)
  BY <1>0, <1>1, <1>3, <1>5, JoinJoin
<1>7. SubSeq(u, 1, Len(a)) = a
  BY <1>4, <1>6, JoinParts
<1>8. SubSeq(u, Len(c) + 1, Len(u)) = b
  BY <1>2, <1>5, JoinParts
<1>9. (Len(a) + 1) - 1 = Len(a) /\ (Len(a) + 1) + 1 = Len(c) + 1
  BY <1>2
<1>10. RemoveAt(u, Len(a) + 1) = a \o b
  BY <1>7, <1>8, <1>9 DEF RemoveAt
<1>11. QED
  BY <1>1, <1>5, <1>10 DEF Join

\* InsertAt the end of a puts x between a and b.
LEMMA InsertMid ==
    ASSUME NEW a, IsSeq(a), NEW x, NEW b, IsSeq(b)
    PROVE  InsertAt(Join(a, b), Len(a) + 1, x) = Join(Join(a, One(x)), b)
<1>1. PICK u : u = Join(a, b)
  OBVIOUS
<1>2. SubSeq(u, 1, Len(a)) = a /\ SubSeq(u, Len(a) + 1, Len(u)) = b
  BY <1>1, JoinParts
<1>3. Len(a) \in Nat /\ (Len(a) + 1) - 1 = Len(a)
  BY DEF IsSeq
<1>4. InsertAt(u, Len(a) + 1, x) = (a \o <<x>>) \o b
  BY <1>2, <1>3 DEF InsertAt
<1>5. QED
  BY <1>1, <1>4 DEF Join, One

\* An element is moved behind one that comes after it.
LEMMA ShiftRight ==
    ASSUME NEW a, IsSeq(a), NEW x, NEW b, IsSeq(b), NEW y, NEW c, IsSeq(c)
    PROVE  InsertAt(RemoveAt(Join(Join(Join(Join(a, One(x)), b), One(y)), c), Len(a) + 1),
                    Len(a) + Len(b) + 2, x)
             = Join(Join(Join(Join(a, b), One(y)), One(x)), c)
<1>0. IsSeq(One(x)) /\ Len(One(x)) = 1 /\ IsSeq(One(y)) /\ Len(One(y)) = 1
  BY OneSeq
<1>1. PICK d : d = Join(Join(b, One(y)), c)
  OBVIOUS
<1>2. IsSeq(d)
  BY <1>0, <1>1, JoinSeq
<1>3. Join(Join(Join(Join(a, One(x)), b), One(y)), c) = Join(Join(a, One(x)), d)
  <2>1. PICK p : p = Join(a, One(x))
    OBVIOUS
  <2>2. IsSeq(p) /\ IsSeq(One(y))
    BY <1>0, <2>1, JoinSeq
  <2>3. Join(Join(Join(p, b), One(y)), c) = Join(p, d)
    BY <1>1, <2>2, JoinJoin, JoinSeq
  <2>4. QED
    BY <2>1, <2>3
<1>4. RemoveAt(Join(Join(a, One(x)), d), Len(a) + 1) = Join(a, d)
  BY <1>2, RemoveMid
<1>5. PICK e : e = Join(Join(a, b), One(y))
  OBVIOUS
<1>6. IsSeq(e) /\ Len(e) + 1 = Len(a) + Len(b) + 2
  <2>1. IsSeq(Join(a, b)) /\ IsSeq(One(y)) /\ IsSeq(e)
    BY <1>0, <1>5, JoinSeq
  <2>2. Len(Join(a, b)) = Len(a) + Len(b) /\ Len(a) \in Nat /\ Len(b) \in Nat
    BY JoinLen
  <2>3. Len(e) = Len(Join(a, b)) + 1
    BY <1>0, <1>5, <2>1, JoinLen
  <2>4. QED
    BY <2>1, <2>2, <2>3
<1>7. Join(a, d) = Join(e, c)
  BY <1>0, <1>1, <1>5, JoinJoin, JoinSeq
<1>8. InsertAt(Join(e, c), Len(e) + 1, x) = Join(Join(e, One(x)), c)
  BY <1>6, InsertMid
<1>9. QED
  BY <1>3, <1>4, <1>5, <1>6, <1>7, <1>8

\* An element is moved in front of one that comes before it.
LEMMA ShiftLeft ==
    ASSUME NEW a, IsSeq(a), NEW x, NEW b, IsSeq(b), NEW y, NEW c, IsSeq(c)
    PROVE  InsertAt(RemoveAt(Join(Join(Join(Join(a, One(y)), b), One(x)), c), Len(a) + Len(b) + 2),
                    Len(a) + 1, x)
             = Join(Join(Join(Join(a, One(x)), One(y)), b), c)
<1>0. IsSeq(One(x)) /\ Len(One(x)) = 1 /\ IsSeq(One(y)) /\ Len(One(y)) = 1
  BY OneSeq
<1>1. PICK e : e = Join(Join(a, One(y)), b)
  OBVIOUS
<1>2. IsSeq(e) /\ Len(e) + 1 = Len(a) + Len(b) + 2
  <2>1. IsSeq(Join(a, One(y))) /\ IsSeq(One(y)) /\ IsSeq(e)
    BY <1>0, <1>1, JoinSeq
  <2>2. Len(Join(a, One(y))) = Len(a) + 1 /\ Len(a) \in Nat
    BY <1>0, JoinLen
  <2>3. Len(e) = Len(Join(a, One(y))) + Len(b) /\ Len(b) \in Nat
    BY <1>1, <2>1, JoinLen
  <2>4. QED
    BY <2>1, <2>2, <2>3
<1>3. RemoveAt(Join(Join(e, One(x)), c), Len(e) + 1) = Join(e, c)
  BY <1>2, RemoveMid
<1>4. PICK d : d = Join(Join(One(y), b), c)
  OBVIOUS
<1>5. IsSeq(d)
  BY <1>0, <1>4, JoinSeq
<1>6. Join(e, c) = Join(a, d)
  BY <1>0, <1>1, <1>4, JoinJoin, JoinSeq
<1>7. InsertAt(Join(a, d), Len(a) + 1, x) = Join(Join(a, One(x)), d)
  BY <1>5, InsertMid
<1>8. Join(Join(a, One(x)), d) = Join(Join(Join(Join(a, One(x)), One(y)), b), c)
  <2>1. PICK p : p = Join(a, One(x))
    OBVIOUS
  <2>2. IsSeq(p) /\ IsSeq(One(y))
    BY <1>0, <2>1, JoinSeq
  <2>3. Join(Join(Join(p, One(y)), b), c) = Join(p, d)
    BY <1>4, <2>2, JoinJoin, JoinSeq
  <2>4. QED
    BY <2>1, <2>3
<1>9. QED
  BY <1>1, <1>2, <1>3, <1>6, <1>7, <1>8

\* An element is put back where it was.
LEMMA ShiftStay ==
    ASSUME NEW a, IsSeq(a), NEW x, NEW b, IsSeq(b)
    PROVE  InsertAt(RemoveAt(Join(Join(a, One(x)), b), Len(a) + 1), Len(a) + 1, x) = Join(Join(a, One(x)), b)
BY RemoveMid, InsertMid

(***************************************************************************)
(* The rules of a list of entries.                                         *)
(***************************************************************************)
\* f has the elements of g, and then those of h.
Laid(f, g, h) ==
    /\ Len(f) = Len(g) + Len(h)
    /\ \A i \in 1..Len(g) : f[i] = g[i]
    /\ \A i \in 1..Len(h) : f[Len(g) + i] = h[i]

\* A sequence laid out as g and then h is their Join.
LEMMA JoinIs ==
    ASSUME NEW f, IsSeq(f), NEW g, IsSeq(g), NEW h, IsSeq(h), Laid(f, g, h)
    PROVE  f = Join(g, h)
<1>0. /\ Len(f) = Len(g) + Len(h)
      /\ \A i \in 1..Len(g) : f[i] = g[i]
      /\ \A i \in 1..Len(h) : f[Len(g) + i] = h[i]
  BY DEF Laid
<1>1. PICK u : u = Join(g, h)
  OBVIOUS
<1>2. IsSeq(u) /\ Len(u) = Len(g) + Len(h) /\ Len(g) \in Nat /\ Len(h) \in Nat
  BY <1>1, JoinSeq, JoinLen
<1>3. (\A i \in 1..Len(g) : u[i] = g[i]) /\ (\A i \in 1..Len(h) : u[Len(g) + i] = h[i])
  BY <1>1, JoinAt
<1>4. ASSUME NEW i \in 1..Len(f) PROVE f[i] = u[i]
  <2>1. CASE i \in 1..Len(g)
    BY <1>0, <1>3, <2>1
  <2>2. CASE i \notin 1..Len(g)
    <3>1. i - Len(g) \in 1..Len(h) /\ Len(g) + (i - Len(g)) = i
      BY <1>0, <1>2, <2>2
    <3>2. f[Len(g) + (i - Len(g))] = u[Len(g) + (i - Len(g))]
      BY <1>0, <1>3, <3>1
    <3>3. QED
      BY <3>1, <3>2
  <2>3. QED
    BY <2>1, <2>2
<1>5. f = u
  BY <1>0, <1>2, <1>4, SeqSame
<1>6. QED
  BY <1>1, <1>5

\* A sequence that is g and one more element.
LEMMA JoinLast ==
    ASSUME NEW f, IsSeq(f), NEW g, IsSeq(g), Len(f) = Len(g) + 1, \A i \in 1..Len(g) : f[i] = g[i]
    PROVE  f = Join(g, One(f[Len(g) + 1]))
<1>1. PICK k \in Nat : k = Len(g)
  BY DEF IsSeq
<1>2. PICK a : a = SubSeq(f, 1, k)
  OBVIOUS
<1>3. IsSeq(a) /\ Len(a) = k /\ f = a \o <<f[k + 1]>> /\ \A i \in 1..k : a[i] = f[i]
  BY <1>1, <1>2, LastSplit
<1>4. a = g
  BY <1>1, <1>3, SeqSame
<1>5. QED
  BY <1>1, <1>3, <1>4 DEF Join, One

\* FlatCat, for Join.
LEMMA FlatJoin ==
    ASSUME NEW ss, AllSeqs(ss), NEW tt, AllSeqs(tt)
    PROVE  FlattenSeq(Join(ss, tt)) = Join(FlattenSeq(ss), FlattenSeq(tt))
BY FlatCat DEF Join

\* Entries whose rules are sequences, and these.
Rowed(es) == IsSeq(es) /\ \A i \in 1..Len(es) : IsSeq(es[i].rules)
Rows(es) == [i \in 1..Len(es) |-> es[i].rules]

\* The rules of each entry; Leafs puts them in a row.
LEMMA RowsAre ==
    ASSUME NEW es, Rowed(es)
    PROVE  /\ AllSeqs(Rows(es)) /\ IsSeq(Rows(es)) /\ Len(Rows(es)) = Len(es) /\ Len(es) \in Nat
           /\ \A i \in 1..Len(es) : Rows(es)[i] = es[i].rules
           /\ Leafs(es) = FlattenSeq(Rows(es))
<1>1. PICK n \in Nat : n = Len(es)
  BY DEF Rowed, IsSeq
<1>2. PICK f : f = [i \in 1..n |-> es[i].rules]
  OBVIOUS
<1>3. f = [i \in 1..n |-> f[i]] /\ \A i \in 1..n : f[i] = es[i].rules
  BY <1>2
<1>4. IsSeq(f) /\ Len(f) = n
  BY <1>3, Mapped
<1>5. AllSeqs(f)
  BY <1>1, <1>3, <1>4 DEF AllSeqs, Rowed
<1>6. f = Rows(es)
  BY <1>1, <1>2 DEF Rows
<1>7. DOMAIN es = 1..n
  BY <1>1, SeqRange DEF Rowed
<1>8. Leafs(es) = FlattenSeq(f)
  BY <1>2, <1>7 DEF Leafs
<1>9. QED
  BY <1>1, <1>3, <1>4, <1>5, <1>6, <1>8

\* The rules of the entries in a row are a sequence.
LEMMA LeafsSeq ==
    ASSUME NEW es, Rowed(es)
    PROVE  IsSeq(Leafs(es)) /\ Len(Leafs(es)) \in Nat
<1>1. IsSeq(Leafs(es))
  BY RowsAre, FlatSeq
<1>2. QED
  BY <1>1 DEF IsSeq

\* Entries behind entries.
LEMMA RowedJoin ==
    ASSUME NEW a, Rowed(a), NEW b, Rowed(b)
    PROVE  Rowed(Join(a, b))
<1>1. IsSeq(a) /\ IsSeq(b)
  BY DEF Rowed
<1>2. PICK u : u = Join(a, b)
  OBVIOUS
<1>3. IsSeq(u) /\ Len(u) = Len(a) + Len(b) /\ Len(a) \in Nat /\ Len(b) \in Nat
  BY <1>1, <1>2, JoinSeq, JoinLen
<1>4. (\A i \in 1..Len(a) : u[i] = a[i]) /\ (\A i \in 1..Len(b) : u[Len(a) + i] = b[i])
  BY <1>1, <1>2, JoinAt
<1>5. ASSUME NEW i \in 1..Len(u) PROVE IsSeq(u[i].rules)
  <2>1. CASE i \in 1..Len(a)
    BY <1>4, <2>1 DEF Rowed
  <2>2. CASE i \notin 1..Len(a)
    <3>1. i - Len(a) \in 1..Len(b) /\ Len(a) + (i - Len(a)) = i
      BY <1>3, <2>2
    <3>2. u[i] = b[i - Len(a)]
      BY <1>4, <3>1
    <3>3. QED
      BY <3>1, <3>2 DEF Rowed
  <2>3. QED
    BY <2>1, <2>2
<1>6. QED
  BY <1>2, <1>3, <1>5 DEF Rowed

\* The rules of two lists of entries are those of the one and then of the
\* other.
LEMMA LeafsJoin ==
    ASSUME NEW a, Rowed(a), NEW b, Rowed(b)
    PROVE  Leafs(Join(a, b)) = Join(Leafs(a), Leafs(b))
<1>1. IsSeq(a) /\ IsSeq(b)
  BY DEF Rowed
<1>2. PICK u : u = Join(a, b)
  OBVIOUS
<1>3. Rowed(u) /\ Len(u) = Len(a) + Len(b)
  BY <1>1, <1>2, RowedJoin, JoinLen
<1>4. (\A i \in 1..Len(a) : u[i] = a[i]) /\ (\A i \in 1..Len(b) : u[Len(a) + i] = b[i])
  BY <1>1, <1>2, JoinAt
<1>5. PICK f, g, h : f = Rows(u) /\ g = Rows(a) /\ h = Rows(b)
  OBVIOUS
<1>6. /\ AllSeqs(g) /\ IsSeq(g) /\ Len(g) = Len(a) /\ Len(a) \in Nat
      /\ (\A i \in 1..Len(a) : g[i] = a[i].rules) /\ Leafs(a) = FlattenSeq(g)
  BY <1>5, RowsAre
<1>7. /\ AllSeqs(h) /\ IsSeq(h) /\ Len(h) = Len(b) /\ Len(b) \in Nat
      /\ (\A i \in 1..Len(b) : h[i] = b[i].rules) /\ Leafs(b) = FlattenSeq(h)
  BY <1>5, RowsAre
<1>8. /\ AllSeqs(f) /\ IsSeq(f) /\ Len(f) = Len(u)
      /\ (\A i \in 1..Len(u) : f[i] = u[i].rules) /\ Leafs(u) = FlattenSeq(f)
  BY <1>3, <1>5, RowsAre
<1>9. \A i \in 1..Len(g) : f[i] = g[i]
  <2>1. ASSUME NEW i \in 1..Len(g) PROVE f[i] = g[i]
    <3>1. i \in 1..Len(a) /\ i \in 1..Len(u)
      BY <1>3, <1>6, <1>7
    <3>2. f[i] = u[i].rules /\ u[i] = a[i] /\ g[i] = a[i].rules
      BY <1>4, <1>6, <1>8, <3>1
    <3>3. QED
      BY <3>2
  <2>2. QED
    BY <2>1
<1>10. ASSUME NEW i \in 1..Len(h) PROVE f[Len(g) + i] = h[i]
  <2>1. Len(a) + i \in 1..Len(u) /\ i \in 1..Len(b)
    BY <1>3, <1>6, <1>7
  <2>2. f[Len(a) + i] = u[Len(a) + i].rules /\ u[Len(a) + i] = b[i] /\ h[i] = b[i].rules
    BY <1>4, <1>7, <1>8, <2>1
  <2>3. QED
    BY <1>6, <2>2
<1>11. f = Join(g, h)
  <2>1. Len(f) = Len(g) + Len(h)
    BY <1>3, <1>6, <1>7, <1>8
  <2>2. IsSeq(f) /\ IsSeq(g) /\ IsSeq(h)
    BY <1>6, <1>7, <1>8
  <2>3. Laid(f, g, h)
    BY <1>9, <1>10, <2>1 DEF Laid
  <2>4. QED
    BY <2>2, <2>3, JoinIs
<1>12. FlattenSeq(f) = Join(FlattenSeq(g), FlattenSeq(h))
  BY <1>6, <1>7, <1>11, FlatJoin
<1>13. QED
  BY <1>2, <1>6, <1>7, <1>8, <1>12

\* The rules of a single entry.
LEMMA LeafsOne ==
    ASSUME NEW e, IsSeq(e.rules)
    PROVE  Leafs(One(e)) = e.rules /\ Rowed(One(e))
<1>1. PICK s : s = One(e)
  OBVIOUS
<1>2. IsSeq(s) /\ Len(s) = 1 /\ s[1] = e
  BY <1>1, OneSeq
<1>3. Rowed(s)
  BY <1>2 DEF Rowed
<1>4. PICK f : f = Rows(s)
  OBVIOUS
<1>5. IsSeq(f) /\ Len(f) = 1 /\ f[1] = e.rules /\ Leafs(s) = FlattenSeq(f)
  BY <1>2, <1>3, <1>4, RowsAre
<1>6. PICK g : g = <<e.rules>>
  OBVIOUS
<1>7. IsSeq(g) /\ Len(g) = 1 /\ g[1] = e.rules
  BY <1>6, Single
<1>8. f = g
  BY <1>5, <1>7, SeqSame
<1>9. FlattenSeq(g) = e.rules
  BY <1>6, FlatOne
<1>10. QED
  BY <1>1, <1>3, <1>5, <1>8, <1>9

\* No entries have no rules.
LEMMA LeafsNothing == Leafs(<<>>) = <<>> /\ Rowed(<<>>)
<1>1. IsSeq(<<>>) /\ Len(<<>>) = 0
  BY Nothing
<1>2. Rowed(<<>>)
  BY <1>1 DEF Rowed
<1>3. PICK f : f = Rows(<<>>)
  OBVIOUS
<1>4. IsSeq(f) /\ Len(f) = 0 /\ Leafs(<<>>) = FlattenSeq(f)
  BY <1>1, <1>2, <1>3, RowsAre
<1>5. f = <<>>
  BY <1>4, NothingElse
<1>6. QED
  BY <1>2, <1>4, <1>5, FlatNothing

(***************************************************************************)
(* The number of a rule, and where it is.                                  *)
(***************************************************************************)
\* Where each rule is: the number of its entry, its number in there.
PlaceRows(es) == [i \in 1..Len(es) |-> [j \in 1..Len(es[i].rules) |-> <<i, j>>]]

\* The places of each entry; Places puts them in a row.
LEMMA PlaceRowsAre ==
    ASSUME NEW es, Rowed(es)
    PROVE  /\ AllSeqs(PlaceRows(es)) /\ IsSeq(PlaceRows(es)) /\ Len(PlaceRows(es)) = Len(es)
           /\ \A i \in 1..Len(es) : PlaceRows(es)[i] = [j \in 1..Len(es[i].rules) |-> <<i, j>>]
           /\ Places(es) = FlattenSeq(PlaceRows(es))
<1>1. PICK n \in Nat : n = Len(es)
  BY DEF Rowed, IsSeq
<1>2. PICK f : f = [i \in 1..n |-> [j \in 1..Len(es[i].rules) |-> <<i, j>>]]
  OBVIOUS
<1>3. f = [i \in 1..n |-> f[i]] /\ \A i \in 1..n : f[i] = [j \in 1..Len(es[i].rules) |-> <<i, j>>]
  BY <1>2
<1>4. IsSeq(f) /\ Len(f) = n
  BY <1>3, Mapped
<1>5. ASSUME NEW i \in 1..n PROVE IsSeq(f[i])
  <2>1. PICK m \in Nat : m = Len(es[i].rules)
    BY <1>1 DEF Rowed, IsSeq
  <2>2. PICK g : g = [j \in 1..m |-> <<i, j>>]
    OBVIOUS
  <2>3. g = [j \in 1..m |-> g[j]]
    BY <2>2
  <2>4. IsSeq(g)
    BY <2>3, Mapped
  <2>5. QED
    BY <1>3, <2>1, <2>2, <2>4
<1>6. AllSeqs(f)
  BY <1>4, <1>5 DEF AllSeqs
<1>7. DOMAIN es = 1..n /\ \A i \in 1..n : DOMAIN es[i].rules = 1..Len(es[i].rules)
  BY <1>1, SeqRange DEF Rowed
<1>8. Places(es) = FlattenSeq([i \in 1..n |-> [j \in DOMAIN es[i].rules |-> <<i, j>>]])
  BY <1>7 DEF Places
<1>9. f = [i \in 1..n |-> [j \in DOMAIN es[i].rules |-> <<i, j>>]]
  BY <1>2, <1>7
<1>10. f = PlaceRows(es)
  BY <1>1, <1>2 DEF PlaceRows
<1>11. QED
  BY <1>1, <1>3, <1>4, <1>6, <1>8, <1>9, <1>10

\* Rule k of es is the p[2]-th of entry p[1].
PlacedAt(es, k, p) ==
    /\ p[1] \in 1..Len(es) /\ p[2] \in 1..Len(es[p[1]].rules)
    /\ k = Len(Leafs(SubSeq(es, 1, p[1] - 1))) + p[2]

\* The numbers of the rules, as Places lists them, are those of Leafs.
Numbered(es) ==
    /\ IsSeq(Places(es)) /\ Len(Places(es)) = Len(Leafs(es))
    /\ \A k \in 1..Len(Leafs(es)) : PlacedAt(es, k, Places(es)[k])

\* The beginning of a beginning.
LEMMA SubSub ==
    ASSUME NEW s, IsSeq(s), NEW k \in Nat, k <= Len(s), NEW i \in Nat, i <= k
    PROVE  SubSeq(SubSeq(s, 1, k), 1, i) = SubSeq(s, 1, i)
<1>1. PICK a : a = SubSeq(s, 1, k)
  OBVIOUS
<1>2. IsSeq(a) /\ Len(a) = k + 1 - 1 /\ \A j \in 1..(k + 1 - 1) : a[j] = s[1 + j - 1]
  <2>1. 1 > 0 /\ 1 <= k + 1
    OBVIOUS
  <2>2. QED
    BY <1>1, <2>1, Sub
<1>3. Len(a) = k /\ \A j \in 1..k : a[j] = s[j]
  BY <1>2
<1>4. PICK b : b = SubSeq(a, 1, i)
  OBVIOUS
<1>5. IsSeq(b) /\ Len(b) = i + 1 - 1 /\ \A j \in 1..(i + 1 - 1) : b[j] = a[1 + j - 1]
  <2>1. 1 > 0 /\ 1 <= i + 1 /\ i <= Len(a)
    BY <1>3
  <2>2. QED
    BY <1>2, <1>4, <2>1, Sub
<1>6. PICK c : c = SubSeq(s, 1, i)
  OBVIOUS
<1>7. IsSeq(c) /\ Len(c) = i + 1 - 1 /\ \A j \in 1..(i + 1 - 1) : c[j] = s[1 + j - 1]
  <2>1. 1 > 0 /\ 1 <= i + 1 /\ i <= Len(s) /\ Len(s) \in Nat
    BY DEF IsSeq
  <2>2. QED
    BY <1>6, <2>1, Sub
<1>8. Len(b) = i /\ Len(c) = i /\ \A j \in 1..i : b[j] = c[j]
  BY <1>3, <1>5, <1>7
<1>9. b = c
  BY <1>5, <1>7, <1>8, SeqSame
<1>10. QED
  BY <1>1, <1>4, <1>6, <1>9

\* Entries that number their rules still do with one more entry behind.
LEMMA NumberedMore ==
    ASSUME NEW t, Rowed(t), NEW k \in Nat, Len(t) = k + 1, Numbered(SubSeq(t, 1, k)), Rowed(SubSeq(t, 1, k))
    PROVE  Numbered(t)
<1>1. PICK a : a = SubSeq(t, 1, k)
  OBVIOUS
<1>2. PICK e : e = t[k + 1]
  OBVIOUS
<1>3. IsSeq(t) /\ IsSeq(e.rules)
  BY <1>2 DEF Rowed
<1>4. IsSeq(a) /\ Len(a) = k /\ t = Join(a, One(e)) /\ \A i \in 1..k : a[i] = t[i]
  BY <1>1, <1>2, <1>3, LastSplit DEF Join, One
<1>5. PICK m \in Nat : m = Len(e.rules)
  BY <1>3 DEF IsSeq
<1>6. PICK row : row = [j \in 1..m |-> <<k + 1, j>>]
  OBVIOUS
<1>7. IsSeq(row) /\ Len(row) = m /\ \A j \in 1..m : row[j] = <<k + 1, j>>
  <2>1. row = [j \in 1..m |-> row[j]] /\ \A j \in 1..m : row[j] = <<k + 1, j>>
    BY <1>6
  <2>2. QED
    BY <2>1, Mapped
<1>8. PICK f, g : f = PlaceRows(t) /\ g = PlaceRows(a)
  OBVIOUS
<1>9. /\ AllSeqs(f) /\ IsSeq(f) /\ Len(f) = k + 1 /\ Places(t) = FlattenSeq(f)
      /\ \A i \in 1..(k + 1) : f[i] = [j \in 1..Len(t[i].rules) |-> <<i, j>>]
  BY <1>8, PlaceRowsAre
<1>10. /\ AllSeqs(g) /\ IsSeq(g) /\ Len(g) = k /\ Places(a) = FlattenSeq(g)
       /\ \A i \in 1..k : g[i] = [j \in 1..Len(a[i].rules) |-> <<i, j>>]
  <2>1. Rowed(a)
    BY <1>1
  <2>2. /\ AllSeqs(g) /\ IsSeq(g) /\ Len(g) = Len(a) /\ Places(a) = FlattenSeq(g)
        /\ \A i \in 1..Len(a) : g[i] = [j \in 1..Len(a[i].rules) |-> <<i, j>>]
    BY <1>8, <2>1, PlaceRowsAre
  <2>3. QED
    BY <1>4, <2>2
<1>11. f = Join(g, One(row))
  <2>3. \A i \in 1..Len(g) : f[i] = g[i]
    <3>1. ASSUME NEW i \in 1..k PROVE f[i] = g[i]
      <4>1. i \in 1..(k + 1) /\ a[i] = t[i]
        BY <1>4
      <4>2. QED
        BY <1>9, <1>10, <4>1
    <3>2. QED
      BY <1>10, <3>1
  <2>4. f[k + 1] = row
    <3>1. k + 1 \in 1..(k + 1)
      OBVIOUS
    <3>2. f[k + 1] = [j \in 1..Len(t[k + 1].rules) |-> <<k + 1, j>>]
      BY <1>9, <3>1
    <3>3. QED
      BY <1>2, <1>5, <1>6, <3>2
  <2>5. IsSeq(f) /\ IsSeq(g) /\ Len(f) = Len(g) + 1
    BY <1>9, <1>10
  <2>6. f = Join(g, One(f[Len(g) + 1]))
    BY <2>3, <2>5, JoinLast
  <2>7. QED
    BY <1>10, <2>4, <2>6
<1>12. Places(t) = Join(Places(a), row)
  <2>1. FlattenSeq(One(row)) = row /\ AllSeqs(One(row))
    BY <1>7, FlatOne DEF One
  <2>2. FlattenSeq(f) = Join(FlattenSeq(g), FlattenSeq(One(row)))
    BY <1>10, <1>11, <2>1, FlatJoin
  <2>3. QED
    BY <1>9, <1>10, <2>1, <2>2
<1>13. Leafs(t) = Join(Leafs(a), e.rules)
  <2>1. Rowed(a) /\ Leafs(One(e)) = e.rules /\ Rowed(One(e))
    BY <1>1, <1>3, LeafsOne
  <2>2. QED
    BY <1>4, <2>1, LeafsJoin
<1>14. PICK pl, ll, pt, lt : pl = Places(a) /\ ll = Leafs(a) /\ pt = Places(t) /\ lt = Leafs(t)
  OBVIOUS
<1>15. PICK n \in Nat : n = Len(ll) /\ IsSeq(ll) /\ IsSeq(pl) /\ Len(pl) = n
  <2>1. IsSeq(ll) /\ IsSeq(pl) /\ Len(pl) = Len(ll)
    BY <1>1, <1>14, LeafsSeq DEF Numbered
  <2>2. QED
    BY <2>1 DEF IsSeq
<1>16. IsSeq(lt) /\ Len(lt) = n + m
  BY <1>3, <1>5, <1>13, <1>14, <1>15, JoinSeq, JoinLen
<1>17. IsSeq(pt) /\ Len(pt) = n + m
  BY <1>7, <1>12, <1>14, <1>15, JoinSeq, JoinLen
<1>18. (\A i \in 1..n : pt[i] = pl[i]) /\ (\A i \in 1..m : pt[n + i] = row[i])
  <2>1. IsSeq(pl) /\ IsSeq(row) /\ pt = Join(pl, row)
    BY <1>7, <1>12, <1>14, <1>15
  <2>2. (\A i \in 1..Len(pl) : pt[i] = pl[i]) /\ (\A i \in 1..Len(row) : pt[Len(pl) + i] = row[i])
    BY <2>1, JoinAt
  <2>3. QED
    BY <1>7, <1>15, <2>2
<1>19. ASSUME NEW i \in 1..(n + m) PROVE PlacedAt(t, i, pt[i])
  <2>1. CASE i <= n
    <3>1. i \in 1..n
      BY <2>1
    <3>2. PICK p : p = pl[i]
      OBVIOUS
    <3>3. PlacedAt(a, i, p)
      BY <1>1, <1>14, <1>15, <3>1, <3>2 DEF Numbered
    <3>4. p[1] \in 1..k /\ p[2] \in 1..Len(a[p[1]].rules) /\ i = Len(Leafs(SubSeq(a, 1, p[1] - 1))) + p[2]
      BY <1>4, <3>3 DEF PlacedAt
    <3>5. a[p[1]] = t[p[1]] /\ p[1] \in 1..(k + 1)
      BY <1>4, <3>4
    <3>6. SubSeq(a, 1, p[1] - 1) = SubSeq(t, 1, p[1] - 1)
      <4>1. p[1] - 1 \in Nat /\ p[1] - 1 <= k /\ k <= Len(t)
        BY <3>4
      <4>2. QED
        BY <1>1, <1>3, <4>1, SubSub
    <3>7. PlacedAt(t, i, p)
      BY <3>4, <3>5, <3>6 DEF PlacedAt
    <3>8. QED
      BY <1>18, <3>1, <3>2, <3>7
  <2>2. CASE i > n
    <3>1. PICK j \in 1..m : i = n + j
      <4>1. i - n \in 1..m /\ i = n + (i - n)
        BY <2>2
      <4>2. QED
        BY <4>1
    <3>2. pt[i] = <<k + 1, j>>
      BY <1>7, <1>18, <3>1
    <3>3. PICK p : p = <<k + 1, j>>
      OBVIOUS
    <3>4. p[1] = k + 1 /\ p[2] = j /\ p[1] - 1 = k
      BY <3>3
    <3>5. p[1] \in 1..Len(t) /\ p[2] \in 1..Len(t[p[1]].rules)
      BY <1>2, <1>5, <3>1, <3>4
    <3>6. Len(Leafs(SubSeq(t, 1, p[1] - 1))) = n
      BY <1>1, <1>14, <1>15, <3>4
    <3>7. PlacedAt(t, i, p)
      BY <3>1, <3>4, <3>5, <3>6 DEF PlacedAt
    <3>8. QED
      BY <3>2, <3>3, <3>7
  <2>3. QED
    BY <2>1, <2>2
<1>20. QED
  BY <1>14, <1>16, <1>17, <1>19 DEF Numbered

\* The k-th rule that a list of entries shows is where RuleAt looks.
LEMMA PlacesNumber ==
    ASSUME NEW es, Rowed(es)
    PROVE  Numbered(es)
<1>1. DEFINE A == {k \in Nat : \A t : Rowed(t) /\ Len(t) = k => Numbered(t)}
<1>2. 0 \in A
  <2>1. ASSUME NEW t, Rowed(t), Len(t) = 0 PROVE Numbered(t)
    <3>1. t = <<>>
      BY <2>1, NothingElse DEF Rowed
    <3>2. Leafs(t) = <<>> /\ Len(<<>>) = 0 /\ IsSeq(<<>>)
      BY <3>1, LeafsNothing, Nothing
    <3>3. PICK f : f = PlaceRows(t)
      OBVIOUS
    <3>4. IsSeq(f) /\ Len(f) = 0 /\ Places(t) = FlattenSeq(f)
      BY <2>1, <3>3, PlaceRowsAre
    <3>5. f = <<>>
      BY <3>4, NothingElse
    <3>6. Places(t) = <<>>
      BY <3>4, <3>5, FlatNothing
    <3>7. QED
      BY <3>2, <3>6 DEF Numbered
  <2>2. QED
    BY <2>1
<1>3. ASSUME NEW k \in Nat, k \in A PROVE k + 1 \in A
  <2>1. ASSUME NEW t, Rowed(t), Len(t) = k + 1 PROVE Numbered(t)
    <3>1. PICK a : a = SubSeq(t, 1, k)
      OBVIOUS
    <3>2. IsSeq(a) /\ Len(a) = k /\ \A i \in 1..k : a[i] = t[i]
      BY <2>1, <3>1, LastSplit DEF Rowed
    <3>3. Rowed(a)
      BY <2>1, <3>2 DEF Rowed
    <3>4. Numbered(a)
      BY <1>3, <3>2, <3>3
    <3>5. QED
      BY <2>1, <3>1, <3>3, <3>4, NumberedMore
  <2>2. QED
    BY <2>1
<1>4. Nat \subseteq A
  BY <1>2, <1>3, Induction
<1>5. Len(es) \in A
  BY <1>4 DEF Rowed, IsSeq
<1>6. QED
  BY <1>5

(***************************************************************************)
(* What a list of entries has to be, and stays under the commands.         *)
(***************************************************************************)
\* An entry; one that is no category is a rule that stands alone.
SoundEntry(e) == IsEntry(e) /\ (e.id = NoCat => e = Standalone(e.rules[1]))
\* A list of such entries.
Sound(es) == IsSeq(es) /\ \A i \in 1..Len(es) : SoundEntry(es[i])

\* The fields of a standalone rule's entry.
LEMMA StandaloneIs ==
    ASSUME NEW r
    PROVE  /\ Standalone(r).id = NoCat /\ Standalone(r).name = "" /\ Standalone(r).off = FALSE
           /\ Standalone(r).rules = <<r>>
BY DEF Standalone

\* Sound entries hold sequences of rules.
LEMMA SoundRowed ==
    ASSUME NEW es, Sound(es)
    PROVE  Rowed(es) /\ IsSeq(es) /\ DOMAIN es = 1..Len(es) /\ Len(es) \in Nat
<1>1. IsSeq(es)
  BY DEF Sound
<1>2. DOMAIN es = 1..Len(es)
  BY <1>1, SeqRange
<1>3. QED
  BY <1>1, <1>2 DEF Sound, SoundEntry, IsEntry, Rowed, IsSeq

\* Sound entries behind sound entries are sound.
LEMMA SoundJoin ==
    ASSUME NEW a, Sound(a), NEW b, Sound(b)
    PROVE  Sound(Join(a, b))
<1>1. IsSeq(a) /\ IsSeq(b)
  BY DEF Sound
<1>2. PICK u : u = Join(a, b)
  OBVIOUS
<1>3. IsSeq(u) /\ Len(u) = Len(a) + Len(b) /\ Len(a) \in Nat /\ Len(b) \in Nat
  BY <1>1, <1>2, JoinSeq, JoinLen
<1>4. (\A i \in 1..Len(a) : u[i] = a[i]) /\ (\A i \in 1..Len(b) : u[Len(a) + i] = b[i])
  BY <1>1, <1>2, JoinAt
<1>5. ASSUME NEW i \in 1..Len(u) PROVE SoundEntry(u[i])
  <2>1. CASE i \in 1..Len(a)
    BY <1>4, <2>1 DEF Sound
  <2>2. CASE i \notin 1..Len(a)
    <3>1. i - Len(a) \in 1..Len(b) /\ Len(a) + (i - Len(a)) = i
      BY <1>3, <2>2
    <3>2. u[i] = b[i - Len(a)]
      BY <1>4, <3>1
    <3>3. QED
      BY <3>1, <3>2 DEF Sound
  <2>3. QED
    BY <2>1, <2>2
<1>6. QED
  BY <1>2, <1>3, <1>5 DEF Sound

\* A sound entry alone is sound.
LEMMA SoundOne ==
    ASSUME NEW e, SoundEntry(e)
    PROVE  Sound(One(e))
BY OneSeq DEF Sound

\* What is before the i-th element of a sequence, and what is after it.
Before(s, i) == SubSeq(s, 1, i - 1)
After(s, i) == SubSeq(s, i + 1, Len(s))

\* A sequence is what is before a place, the element there and what is after
\* it.
LEMMA Around ==
    ASSUME NEW s, IsSeq(s), NEW i \in 1..Len(s)
    PROVE  /\ IsSeq(Before(s, i)) /\ Len(Before(s, i)) = i - 1 /\ Len(Before(s, i)) + 1 = i
           /\ IsSeq(After(s, i)) /\ Len(After(s, i)) = Len(s) - i
           /\ s = Join(Join(Before(s, i), One(s[i])), After(s, i))
<1>1. Len(s) \in Nat
  BY DEF IsSeq
<1>2. QED
  <2>1. /\ IsSeq(SubSeq(s, 1, i - 1)) /\ Len(SubSeq(s, 1, i - 1)) = i - 1
        /\ IsSeq(SubSeq(s, i + 1, Len(s))) /\ Len(SubSeq(s, i + 1, Len(s))) = Len(s) - i
        /\ s = (SubSeq(s, 1, i - 1) \o <<s[i]>>) \o SubSeq(s, i + 1, Len(s))
    BY Split
  <2>2. IsSeq(Before(s, i)) /\ Len(Before(s, i)) = i - 1 /\ IsSeq(After(s, i)) /\ Len(After(s, i)) = Len(s) - i
    BY <2>1 DEF Before, After
  <2>3. s = Join(Join(Before(s, i), One(s[i])), After(s, i))
    BY <2>1 DEF Before, After, Join, One
  <2>4. QED
    BY <1>1, <2>2, <2>3

\* The elements before and after a place.
LEMMA AroundAt ==
    ASSUME NEW s, IsSeq(s), NEW i \in 1..Len(s)
    PROVE  /\ \A j \in 1..(i - 1) : Before(s, i)[j] = s[j]
           /\ \A j \in 1..(Len(s) - i) : After(s, i)[j] = s[i + j]
<1>1. Len(s) \in Nat
  BY DEF IsSeq
<1>2. \A j \in 1..((i - 1) + 1 - 1) : SubSeq(s, 1, i - 1)[j] = s[1 + j - 1]
  <2>1. i - 1 \in Nat /\ i - 1 <= Len(s) /\ 1 <= (i - 1) + 1 /\ 1 > 0
    BY <1>1
  <2>2. QED
    BY <2>1, Sub
<1>3. \A j \in 1..(Len(s) + 1 - (i + 1)) : SubSeq(s, i + 1, Len(s))[j] = s[(i + 1) + j - 1]
  <2>1. i + 1 \in Nat /\ Len(s) <= Len(s) /\ i + 1 <= Len(s) + 1 /\ i + 1 > 0
    BY <1>1
  <2>2. QED
    BY <1>1, <2>1, Sub
<1>4. QED
  BY <1>1, <1>2, <1>3 DEF Before, After

\* Another element in the place of the i-th.
LEMMA Replaced ==
    ASSUME NEW s, IsSeq(s), NEW i \in 1..Len(s), NEW y
    PROVE  [s EXCEPT ![i] = y] = Join(Join(Before(s, i), One(y)), After(s, i))
<1>1. PICK n \in Nat : n = Len(s)
  BY DEF IsSeq
<1>2. DOMAIN s = 1..n
  BY <1>1, SeqRange
<1>3. PICK f : f = [s EXCEPT ![i] = y]
  OBVIOUS
<1>4. f = [j \in 1..n |-> f[j]] /\ \A j \in 1..n : f[j] = IF j = i THEN y ELSE s[j]
  BY <1>1, <1>2, <1>3
<1>5. IsSeq(f) /\ Len(f) = n
  BY <1>4, Mapped
<1>6. PICK a, b : a = Before(s, i) /\ b = After(s, i)
  OBVIOUS
<1>7. /\ IsSeq(a) /\ Len(a) = i - 1 /\ IsSeq(b) /\ Len(b) = n - i
  BY <1>1, <1>6, Around
<1>8. (\A j \in 1..(i - 1) : a[j] = s[j]) /\ (\A j \in 1..(n - i) : b[j] = s[i + j])
  BY <1>1, <1>6, AroundAt
<1>9. PICK c : c = Join(a, One(y))
  OBVIOUS
<1>10. IsSeq(One(y)) /\ Len(One(y)) = 1 /\ One(y)[1] = y
  BY OneSeq
<1>11. IsSeq(c) /\ Len(c) = i
  <2>1. IsSeq(c) /\ Len(c) = Len(a) + Len(One(y))
    BY <1>7, <1>9, <1>10, JoinSeq, JoinLen
  <2>2. QED
    BY <1>1, <1>7, <1>10, <2>1
<1>12. (\A j \in 1..(i - 1) : c[j] = a[j]) /\ c[i] = y
  <2>1. (\A j \in 1..Len(a) : c[j] = a[j]) /\ (\A j \in 1..Len(One(y)) : c[Len(a) + j] = One(y)[j])
    <3>1. IsSeq(a) /\ IsSeq(One(y))
      BY <1>7, <1>10
    <3>2. QED
      BY <1>9, <3>1, JoinAt, SMTT(30)
  <2>2. 1 \in 1..Len(One(y)) /\ Len(a) + 1 = i
    BY <1>1, <1>7, <1>10
  <2>3. QED
    BY <1>7, <1>10, <2>1, <2>2
<1>13. \A j \in 1..Len(c) : f[j] = c[j]
  BY <1>1, <1>4, <1>8, <1>11, <1>12
<1>14. ASSUME NEW j \in 1..Len(b) PROVE f[Len(c) + j] = b[j]
  <2>1. i + j \in 1..n /\ i + j # i /\ j \in 1..(n - i)
    BY <1>1, <1>7
  <2>2. QED
    BY <1>4, <1>8, <1>11, <2>1
<1>15. Len(f) = Len(c) + Len(b)
  BY <1>1, <1>5, <1>7, <1>11
<1>16. f = Join(c, b)
  <2>1. IsSeq(f) /\ IsSeq(c) /\ IsSeq(b)
    BY <1>5, <1>7, <1>11
  <2>2. Laid(f, c, b)
    BY <1>13, <1>14, <1>15 DEF Laid
  <2>3. QED
    BY <2>1, <2>2, JoinIs
<1>17. QED
  BY <1>3, <1>6, <1>9, <1>16

\* The entries before and after one are sound.
LEMMA SoundAround ==
    ASSUME NEW es, Sound(es), NEW i \in 1..Len(es)
    PROVE  Sound(Before(es, i)) /\ Sound(After(es, i)) /\ SoundEntry(es[i])
<1>1. IsSeq(es) /\ Len(es) \in Nat
  BY DEF Sound, IsSeq
<1>2. PICK a, b : a = Before(es, i) /\ b = After(es, i)
  OBVIOUS
<1>3. /\ IsSeq(a) /\ Len(a) = i - 1 /\ IsSeq(b) /\ Len(b) = Len(es) - i
  BY <1>1, <1>2, Around
<1>4. (\A j \in 1..(i - 1) : a[j] = es[j]) /\ (\A j \in 1..(Len(es) - i) : b[j] = es[i + j])
  BY <1>1, <1>2, AroundAt
<1>5. Sound(a)
  BY <1>1, <1>3, <1>4 DEF Sound
<1>6. ASSUME NEW j \in 1..(Len(es) - i) PROVE SoundEntry(b[j])
  <2>1. i + j \in 1..Len(es)
    BY <1>1
  <2>2. QED
    BY <1>4, <2>1 DEF Sound
<1>7. Sound(b)
  BY <1>3, <1>6 DEF Sound
<1>8. QED
  BY <1>2, <1>5, <1>7 DEF Sound

\* Entries stay sound when a sound one takes the place of another.
LEMMA SoundReplaced ==
    ASSUME NEW es, Sound(es), NEW i \in 1..Len(es), NEW e, SoundEntry(e)
    PROVE  Sound([es EXCEPT ![i] = e])
<1>1. IsSeq(es)
  BY DEF Sound
<1>2. PICK a, b : a = Before(es, i) /\ b = After(es, i)
  OBVIOUS
<1>3. Sound(a) /\ Sound(b) /\ Sound(One(e))
  BY <1>2, SoundAround, SoundOne
<1>4. [es EXCEPT ![i] = e] = Join(Join(a, One(e)), b)
  BY <1>1, <1>2, Replaced
<1>5. QED
  BY <1>3, <1>4, SoundJoin

\* Entries that have no rules may be left out.
LEMMA LeafsKept ==
    ASSUME NEW es, Rowed(es), NEW I, \A i \in 1..Len(es) : i \notin I => es[i].rules = <<>>
    PROVE  Rowed(Kept(es, I)) /\ Leafs(Kept(es, I)) = Leafs(es)
<1>1. DEFINE Chosen(t) == \A i \in 1..Len(t) : i \notin I => t[i].rules = <<>>
             Good(t) == Rowed(Kept(t, I)) /\ Leafs(Kept(t, I)) = Leafs(t)
             A == {k \in Nat : \A t : Rowed(t) /\ Len(t) = k /\ Chosen(t) => Good(t)}
<1>2. 0 \in A
  <2>1. ASSUME NEW t, Rowed(t), Len(t) = 0 PROVE Good(t)
    <3>1. t = <<>>
      BY <2>1, NothingElse DEF Rowed
    <3>2. QED
      BY <2>1, <3>1, KeptNothing
  <2>2. QED
    BY <2>1
<1>3. ASSUME NEW k \in Nat, k \in A PROVE k + 1 \in A
  <2>1. ASSUME NEW t, Rowed(t), Len(t) = k + 1, Chosen(t) PROVE Good(t)
    <3>1. PICK a : a = SubSeq(t, 1, k)
      OBVIOUS
    <3>2. PICK e : e = t[k + 1]
      OBVIOUS
    <3>3. IsSeq(a) /\ Len(a) = k /\ t = a \o <<e>> /\ \A i \in 1..k : a[i] = t[i]
      BY <2>1, <3>1, <3>2, LastSplit DEF Rowed
    <3>4. Rowed(a) /\ IsSeq(e.rules)
      BY <2>1, <3>2, <3>3 DEF Rowed
    <3>5. Chosen(a)
      BY <2>1, <3>3
    <3>6. Good(a)
      BY <1>3, <3>3, <3>4, <3>5
    <3>7. Leafs(One(e)) = e.rules /\ Rowed(One(e))
      BY <3>4, LeafsOne
    <3>8. t = Join(a, One(e)) /\ Leafs(t) = Join(Leafs(a), e.rules)
      BY <3>3, <3>4, <3>7, LeafsJoin DEF Join, One
    <3>9. CASE k + 1 \in I
      <4>1. Kept(t, I) = Kept(a, I) \o <<e>>
        BY <3>3, <3>9, KeptLast
      <4>2. Kept(t, I) = Join(Kept(a, I), One(e))
        BY <4>1 DEF Join, One
      <4>3. QED
        <5>1. PICK b : b = Kept(a, I) /\ Rowed(b) /\ Leafs(b) = Leafs(a)
          BY <3>6
        <5>2. Rowed(Join(b, One(e)))
          BY <3>7, <5>1, RowedJoin
        <5>3. Leafs(Join(b, One(e))) = Join(Leafs(b), Leafs(One(e)))
          BY <3>7, <5>1, LeafsJoin
        <5>4. QED
          BY <3>7, <3>8, <4>2, <5>1, <5>2, <5>3
    <3>10. CASE k + 1 \notin I
      <4>1. IsSeq(Kept(a, I)) /\ Kept(t, I) = Kept(a, I) \o <<>>
        BY <3>3, <3>10, KeptLast, KeptSeq, ZenonT(30)
      <4>2. Kept(t, I) = Kept(a, I)
        BY <4>1, CatNothing
      <4>3. e.rules = <<>>
        BY <2>1, <3>2, <3>10
      <4>4. Leafs(t) = Leafs(a)
        BY <3>4, <3>8, <4>3, LeafsSeq, JoinNothing
      <4>5. QED
        BY <3>6, <4>2, <4>4
    <3>11. QED
      BY <3>9, <3>10
  <2>2. QED
    BY <2>1
<1>4. Nat \subseteq A
  BY <1>2, <1>3, Induction
<1>5. Len(es) \in A
  BY <1>4 DEF Rowed, IsSeq
<1>6. QED
  BY <1>5

\* What a command leaves: sound entries, none empty, that checkRules takes.
Stored(es) == Sound(es) /\ (\A i \in 1..Len(es) : es[i].rules # <<>>) /\ checkRules(es)

\* What PruneCategories leaves of entries that passed the checks may be stored.
LEMMA PruneStores ==
    ASSUME NEW es, Sound(es), checkRules(es)
    PROVE  Stored(PruneCategories(es)) /\ Leafs(PruneCategories(es)) = Leafs(es)
<1>1. PICK n \in Nat : n = Len(es) /\ IsSeq(es) /\ Rowed(es) /\ DOMAIN es = 1..n
  BY SoundRowed
<1>2. PICK I : I = {i \in DOMAIN es : es[i].id = NoCat \/ es[i].rules # <<>>}
  OBVIOUS
<1>3. PICK r : r = Kept(es, I)
  OBVIOUS
<1>4. r = PruneCategories(es) /\ IsSeq(r)
  BY <1>1, <1>2, <1>3, KeptSeq DEF PruneCategories
<1>5. PICK m : Embeds(m, es, I, r)
  BY <1>1, <1>3, KeptEmbeds
<1>6. PICK q \in Nat : q = Len(r) /\ DOMAIN r = 1..q
  <2>1. Len(r) \in Nat /\ DOMAIN r = 1..Len(r)
    BY <1>4, SeqRange DEF IsSeq
  <2>2. QED
    BY <2>1
<1>7. /\ m \in [1..q -> 1..n] /\ q <= n
      /\ \A k \in 1..q : m[k] \in I /\ r[k] = es[m[k]]
      /\ \A k, l \in 1..q : k < l => m[k] < m[l]
  BY <1>1, <1>5, <1>6 DEF Embeds
<1>8. \A k \in 1..q : SoundEntry(r[k])
  BY <1>1, <1>7 DEF Sound
<1>9. Sound(r)
  BY <1>4, <1>6, <1>8 DEF Sound
<1>10. ASSUME NEW k \in 1..q PROVE r[k].rules # <<>>
  <2>1. CASE r[k].id = NoCat
    <3>1. PICK x : r[k] = Standalone(x)
      BY <1>8, <2>1 DEF SoundEntry
    <3>2. r[k].rules = <<x>>
      BY <3>1, StandaloneIs
    <3>3. Len(<<x>>) = 1 /\ Len(<<>>) = 0
      BY Single, Nothing
    <3>4. QED
      BY <3>2, <3>3
  <2>2. CASE r[k].id # NoCat
    <3>1. m[k] \in I /\ r[k] = es[m[k]]
      BY <1>7
    <3>2. QED
      BY <1>2, <2>2, <3>1
  <2>3. QED
    BY <2>1, <2>2
<1>11. Leafs(r) = Leafs(es)
  <2>1. \A i \in 1..Len(es) : i \notin I => es[i].rules = <<>>
    BY <1>1, <1>2
  <2>2. QED
    BY <1>1, <1>3, <2>1, LeafsKept
<1>12. /\ \A i \in 1..n : \A x \in Range(es[i].rules) : checkRule(x)
       /\ \A i, j \in 1..n : i # j /\ es[i].id # NoCat /\ es[j].id # NoCat =>
              es[i].id # es[j].id /\ es[i].name # es[j].name
       /\ Len(Leafs(es)) <= MaxRules /\ n <= MaxRules
  BY <1>1 DEF checkRules
<1>13. \A k \in 1..q : \A x \in Range(r[k].rules) : checkRule(x)
  BY <1>7, <1>12
<1>14. ASSUME NEW k \in 1..q, NEW l \in 1..q, k # l, r[k].id # NoCat, r[l].id # NoCat
       PROVE  r[k].id # r[l].id /\ r[k].name # r[l].name
  <2>1. m[k] # m[l]
    BY <1>7, <1>14
  <2>2. m[k] \in 1..n /\ m[l] \in 1..n /\ r[k] = es[m[k]] /\ r[l] = es[m[l]]
    BY <1>7
  <2>3. QED
    BY <1>12, <1>14, <2>1, <2>2
<1>15. q <= MaxRules
  BY <1>7, <1>12, RoutingAssumption
<1>16. checkRules(r)
  BY <1>6, <1>11, <1>12, <1>13, <1>14, <1>15 DEF checkRules
<1>17. QED
  BY <1>4, <1>6, <1>9, <1>10, <1>11, <1>16 DEF Stored

(***************************************************************************)
(* An entry or a rule taken out of the list, put in, or replaced.          *)
(***************************************************************************)
\* A sequence stays over its set when an element is taken out.
LEMMA TakenOut ==
    ASSUME NEW S, NEW s \in Seq(S), NEW i \in 1..Len(s)
    PROVE  RemoveAt(s, i) \in Seq(S)
<1>1. Len(s) \in Nat /\ IsSeq(s)
  BY SeqIs
<1>2. \A j \in 1..Len(s) : s[j] \in S
  BY ElementOfSeq
<1>3. SubSeq(s, 1, i - 1) \in Seq(S)
  BY <1>1, <1>2, SubSeqProperties
<1>4. SubSeq(s, i + 1, Len(s)) \in Seq(S)
  BY <1>1, <1>2, SubSeqProperties
<1>5. QED
  BY <1>3, <1>4, ConcatProperties DEF RemoveAt

\* What RemoveAt leaves.
LEMMA TakenOutLen ==
    ASSUME NEW s, IsSeq(s), NEW i \in 1..Len(s)
    PROVE  /\ RemoveAt(s, i) = Join(Before(s, i), After(s, i))
           /\ IsSeq(RemoveAt(s, i)) /\ Len(RemoveAt(s, i)) = Len(s) - 1
<1>1. RemoveAt(s, i) = Join(Before(s, i), After(s, i))
  BY DEF RemoveAt, Join, Before, After
<1>2. PICK a, b : a = Before(s, i) /\ b = After(s, i)
  OBVIOUS
<1>3. IsSeq(a) /\ Len(a) = i - 1 /\ IsSeq(b) /\ Len(b) = Len(s) - i /\ Len(s) \in Nat
  BY <1>2, Around DEF IsSeq
<1>4. IsSeq(Join(a, b)) /\ Len(Join(a, b)) = Len(a) + Len(b)
  BY <1>3, JoinSeq, JoinLen
<1>5. QED
  BY <1>1, <1>2, <1>3, <1>4

\* A sequence stays over its set when an element of it is put in.
LEMMA PutIn ==
    ASSUME NEW S, NEW s \in Seq(S), NEW i \in 1..(Len(s) + 1), NEW x \in S
    PROVE  InsertAt(s, i, x) \in Seq(S)
<1>1. Len(s) \in Nat /\ IsSeq(s)
  BY SeqIs
<1>2. \A j \in 1..Len(s) : s[j] \in S
  BY ElementOfSeq
<1>3. SubSeq(s, 1, i - 1) \in Seq(S)
  BY <1>1, <1>2, SubSeqProperties
<1>4. SubSeq(s, i, Len(s)) \in Seq(S)
  BY <1>1, <1>2, SubSeqProperties
<1>5. <<x>> \in Seq(S)
  OBVIOUS
<1>6. SubSeq(s, 1, i - 1) \o <<x>> \in Seq(S)
  BY <1>3, <1>5, ConcatProperties
<1>7. QED
  BY <1>4, <1>6, ConcatProperties DEF InsertAt

\* Sound entries are a sequence over some set of sound entries.
LEMMA SoundIn ==
    ASSUME NEW es
    PROVE  Sound(es) <=> \E S : es \in Seq(S) /\ \A x \in S : SoundEntry(x)
<1>1. ASSUME Sound(es) PROVE \E S : es \in Seq(S) /\ \A x \in S : SoundEntry(x)
  <2>1. es \in Seq(Range(es)) /\ DOMAIN es = 1..Len(es)
    BY <1>1, SeqRange DEF Sound
  <2>2. \A x \in Range(es) : SoundEntry(x)
    BY <1>1, <2>1 DEF Sound, Range
  <2>3. QED
    BY <2>1, <2>2
<1>2. ASSUME NEW S, es \in Seq(S), \A x \in S : SoundEntry(x) PROVE Sound(es)
  <2>1. IsSeq(es) /\ \A i \in 1..Len(es) : es[i] \in S
    BY <1>2, SeqIs, ElementOfSeq
  <2>2. QED
    BY <1>2, <2>1 DEF Sound
<1>3. QED
  BY <1>1, <1>2

\* A list of rules.
RuleSeq(rs) == IsSeq(rs) /\ \A j \in 1..Len(rs) : IsRule(rs[j])

\* Rules are a sequence over some set of rules.
LEMMA RuleSeqIn ==
    ASSUME NEW rs
    PROVE  RuleSeq(rs) <=> \E S : rs \in Seq(S) /\ \A x \in S : IsRule(x)
<1>1. ASSUME RuleSeq(rs) PROVE \E S : rs \in Seq(S) /\ \A x \in S : IsRule(x)
  <2>1. rs \in Seq(Range(rs)) /\ DOMAIN rs = 1..Len(rs)
    BY <1>1, SeqRange DEF RuleSeq
  <2>2. \A x \in Range(rs) : IsRule(x)
    BY <1>1, <2>1 DEF RuleSeq, Range
  <2>3. QED
    BY <2>1, <2>2
<1>2. ASSUME NEW S, rs \in Seq(S), \A x \in S : IsRule(x) PROVE RuleSeq(rs)
  <2>1. IsSeq(rs) /\ \A i \in 1..Len(rs) : rs[i] \in S
    BY <1>2, SeqIs, ElementOfSeq
  <2>2. QED
    BY <1>2, <2>1 DEF RuleSeq
<1>3. QED
  BY <1>1, <1>2

\* The rules of a sound entry.
LEMMA EntryRules ==
    ASSUME NEW e, SoundEntry(e)
    PROVE  RuleSeq(e.rules) /\ DOMAIN e.rules = 1..Len(e.rules) /\ Len(e.rules) \in Nat
<1>1. IsSeq(e.rules)
  BY DEF SoundEntry, IsEntry
<1>2. DOMAIN e.rules = 1..Len(e.rules) /\ Len(e.rules) \in Nat
  BY <1>1, SeqRange DEF IsSeq
<1>3. QED
  BY <1>1, <1>2 DEF SoundEntry, IsEntry, RuleSeq

\* An entry of the shape of e with other rules.
LEMMA OtherRules ==
    ASSUME NEW e, IsEntry(e), NEW rs, RuleSeq(rs)
    PROVE  IsEntry([e EXCEPT !.rules = rs]) /\ [e EXCEPT !.rules = rs].id = e.id
           /\ [e EXCEPT !.rules = rs].rules = rs /\ [e EXCEPT !.rules = rs].off = e.off
           /\ [e EXCEPT !.rules = rs] = [id |-> e.id, name |-> e.name, off |-> e.off, rules |-> rs]
<1>1. PICK f : f = [id |-> e.id, name |-> e.name, off |-> e.off, rules |-> rs]
  OBVIOUS
<1>2. [e EXCEPT !.rules = rs] = f
  BY <1>1 DEF IsEntry
<1>3. f.id = e.id /\ f.off = e.off /\ f.rules = rs /\ f.name = e.name
  BY <1>1
<1>4. f = [id |-> f.id, name |-> f.name, off |-> f.off, rules |-> f.rules]
  BY <1>1, <1>3
<1>5. DOMAIN rs = 1..Len(rs)
  BY SeqRange DEF RuleSeq
<1>6. IsEntry(f)
  BY <1>3, <1>4, <1>5 DEF IsEntry, RuleSeq
<1>7. QED
  BY <1>1, <1>2, <1>3, <1>6

\* A category stays sound with other rules.
LEMMA SoundCategory ==
    ASSUME NEW e, SoundEntry(e), e.id # NoCat, NEW rs, RuleSeq(rs)
    PROVE  SoundEntry([e EXCEPT !.rules = rs])
BY OtherRules DEF SoundEntry

\* A rule that stands alone is a sound entry, whose only rule it is.
LEMMA SoundStandalone ==
    ASSUME NEW r, IsRule(r)
    PROVE  SoundEntry(Standalone(r)) /\ Rowed(One(Standalone(r))) /\ Leafs(One(Standalone(r))) = One(r)
<1>1. PICK e : e = Standalone(r)
  OBVIOUS
<1>2. PICK rs : rs = <<r>>
  OBVIOUS
<1>3. IsSeq(rs) /\ Len(rs) = 1 /\ rs[1] = r
  BY <1>2, Single
<1>4. e = [id |-> NoCat, name |-> "", off |-> FALSE, rules |-> rs]
  BY <1>1, <1>2 DEF Standalone
<1>5. e.id = NoCat /\ e.name = "" /\ e.off = FALSE /\ e.rules = rs
  BY <1>4
<1>6. DOMAIN rs = 1..1
  BY <1>3, SeqRange
<1>7. IsEntry(e)
  <2>1. e = [id |-> e.id, name |-> e.name, off |-> e.off, rules |-> e.rules]
    BY <1>4, <1>5
  <2>2. e.id \in {NoCat} \cup Ids /\ e.off \in BOOLEAN
    BY <1>5
  <2>3. IsSeq(e.rules) /\ \A j \in DOMAIN e.rules : IsRule(e.rules[j])
    <3>1. \A j \in 1..1 : rs[j] = r
      BY <1>3
    <3>2. \A j \in DOMAIN rs : IsRule(rs[j])
      BY <1>6, <3>1
    <3>3. QED
      BY <1>3, <1>5, <3>2
  <2>4. QED
    BY <2>1, <2>2, <2>3 DEF IsEntry
<1>8. SoundEntry(e)
  BY <1>1, <1>3, <1>5, <1>7 DEF SoundEntry
<1>9. Leafs(One(e)) = rs /\ Rowed(One(e))
  BY <1>3, <1>5, LeafsOne
<1>10. QED
  BY <1>1, <1>2, <1>8, <1>9 DEF One

\* A standalone entry holds one rule.
LEMMA StandaloneOne ==
    ASSUME NEW e, SoundEntry(e), e.id = NoCat
    PROVE  e.rules = One(e.rules[1]) /\ Len(e.rules) = 1 /\ IsRule(e.rules[1]) /\ e.off = FALSE
<1>1. PICK x : x = e.rules[1] /\ e = Standalone(x)
  BY DEF SoundEntry
<1>2. e.rules = <<x>> /\ e.off = FALSE
  BY <1>1, StandaloneIs
<1>3. Len(e.rules) = 1
  BY <1>2, Single
<1>4. IsRule(e.rules[1])
  BY <1>3, EntryRules DEF RuleSeq
<1>5. QED
  BY <1>1, <1>2, <1>3, <1>4 DEF One

\* An entry stays sound when a rule takes the place of another.
LEMMA RuleReplaced ==
    ASSUME NEW e, SoundEntry(e), NEW j \in 1..Len(e.rules), NEW r, IsRule(r)
    PROVE  SoundEntry([e EXCEPT !.rules = [e.rules EXCEPT ![j] = r]])
<1>1. PICK rs : rs = [e.rules EXCEPT ![j] = r]
  OBVIOUS
<1>2. RuleSeq(e.rules) /\ DOMAIN e.rules = 1..Len(e.rules) /\ Len(e.rules) \in Nat
  BY EntryRules
<1>3. PICK n \in Nat : n = Len(e.rules)
  BY <1>2
<1>4. rs = [i \in 1..n |-> rs[i]] /\ \A i \in 1..n : rs[i] = IF i = j THEN r ELSE e.rules[i]
  BY <1>1, <1>2, <1>3
<1>5. IsSeq(rs) /\ Len(rs) = n
  BY <1>4, Mapped
<1>6. RuleSeq(rs)
  BY <1>2, <1>3, <1>4, <1>5 DEF RuleSeq
<1>7. CASE e.id # NoCat
  BY <1>1, <1>6, <1>7, SoundCategory
<1>8. CASE e.id = NoCat
  <2>1. n = 1 /\ e = Standalone(e.rules[1])
    BY <1>3, <1>8, StandaloneOne DEF SoundEntry
  <2>2. PICK x : e = Standalone(x)
    BY <2>1
  <2>3. e.id = NoCat /\ e.name = "" /\ e.off = FALSE /\ IsEntry(e)
    BY <2>2, StandaloneIs DEF SoundEntry
  <2>4. rs = <<r>>
    <3>1. PICK s : s = <<r>>
      OBVIOUS
    <3>2. IsSeq(s) /\ Len(s) = 1 /\ s[1] = r
      BY <3>1, Single
    <3>3. j = 1 /\ rs[1] = r
      BY <1>3, <1>4, <2>1
    <3>4. rs = s
      BY <1>5, <2>1, <3>2, <3>3, SeqSame
    <3>5. QED
      BY <3>1, <3>4
  <2>5. [e EXCEPT !.rules = rs] = [id |-> NoCat, name |-> "", off |-> FALSE, rules |-> rs]
    <3>1. [e EXCEPT !.rules = rs] = [id |-> e.id, name |-> e.name, off |-> e.off, rules |-> rs]
      BY <1>6, <2>3, OtherRules
    <3>2. QED
      BY <2>3, <3>1
  <2>6. [e EXCEPT !.rules = rs] = Standalone(r)
    BY <2>4, <2>5 DEF Standalone
  <2>7. QED
    BY <1>1, <2>6, SoundStandalone
<1>9. QED
  BY <1>7, <1>8

(***************************************************************************)
(* The commands that edit rules by number keep the list sound.             *)
(***************************************************************************)
\* The place ruleAt finds is one of the entries', and the rules before it are
\* as many as its number says.
LEMMA RuleAtIs ==
    ASSUME NEW es, Sound(es), NEW k \in 1..Len(Leafs(es)), NEW p, p = RuleAt(es, k)
    PROVE  /\ p[1] \in 1..Len(es) /\ SoundEntry(es[p[1]])
           /\ p[2] \in 1..Len(es[p[1]].rules) /\ IsRule(es[p[1]].rules[p[2]])
           /\ k = Len(Leafs(Before(es, p[1]))) + p[2]
<1>1. Numbered(es)
  BY SoundRowed, PlacesNumber
<1>2. PlacedAt(es, k, p)
  BY <1>1 DEF Numbered, RuleAt
<1>3. p[1] \in 1..Len(es) /\ p[2] \in 1..Len(es[p[1]].rules) /\ k = Len(Leafs(Before(es, p[1]))) + p[2]
  BY <1>2 DEF PlacedAt, Before
<1>4. SoundEntry(es[p[1]])
  BY <1>3 DEF Sound
<1>5. IsRule(es[p[1]].rules[p[2]])
  BY <1>3, <1>4, EntryRules DEF RuleSeq
<1>6. QED
  BY <1>3, <1>4, <1>5

\* id names no category, or one of the list.
HasCat(es, id) == id = NoCat \/ \E i \in 1..Len(es) : es[i].id = id

\* Another element at i.
With(s, i, y) == [s EXCEPT ![i] = y]

\* A sequence with one element replaced, in its parts.
LEMMA WithIs ==
    ASSUME NEW s, IsSeq(s), NEW i \in 1..Len(s), NEW y
    PROVE  With(s, i, y) = Join(Join(Before(s, i), One(y)), After(s, i))
BY Replaced DEF With

\* SoundReplaced, for With.
LEMMA SoundWith ==
    ASSUME NEW es, Sound(es), NEW i \in 1..Len(es), NEW e, SoundEntry(e)
    PROVE  Sound(With(es, i, e))
BY SoundReplaced DEF With

\* The elements of a sequence with one replaced.
LEMMA WithAt ==
    ASSUME NEW s, IsSeq(s), NEW i \in 1..Len(s), NEW y
    PROVE  /\ IsSeq(With(s, i, y)) /\ Len(With(s, i, y)) = Len(s)
           /\ With(s, i, y)[i] = y /\ \A j \in 1..Len(s) : j # i => With(s, i, y)[j] = s[j]
<1>1. PICK n \in Nat : n = Len(s)
  BY DEF IsSeq
<1>2. DOMAIN s = 1..n
  BY <1>1, SeqRange
<1>3. PICK f : f = [s EXCEPT ![i] = y]
  OBVIOUS
<1>4. f = [j \in 1..n |-> f[j]] /\ \A j \in 1..n : f[j] = IF j = i THEN y ELSE s[j]
  BY <1>1, <1>2, <1>3
<1>5. IsSeq(f) /\ Len(f) = n
  BY <1>4, Mapped
<1>6. QED
  BY <1>1, <1>3, <1>4, <1>5 DEF With

\* What is left of a sequence without its i-th element.
LEMMA TakenOutAt ==
    ASSUME NEW s, IsSeq(s), NEW i \in 1..Len(s), NEW j \in 1..Len(s), j # i
    PROVE  \E k \in 1..Len(RemoveAt(s, i)) : RemoveAt(s, i)[k] = s[j]
<1>1. PICK a : a = Before(s, i)
  OBVIOUS
<1>2. PICK b : b = After(s, i)
  OBVIOUS
<1>3. PICK n \in Nat : n = Len(s)
  BY DEF IsSeq
<1>4. IsSeq(a) /\ Len(a) = i - 1 /\ IsSeq(b) /\ Len(b) = n - i
  BY <1>1, <1>2, <1>3, Around
<1>5. (\A k \in 1..(i - 1) : a[k] = s[k]) /\ (\A k \in 1..(n - i) : b[k] = s[i + k])
  BY <1>1, <1>2, <1>3, AroundAt
<1>6. PICK u : u = Join(a, b)
  OBVIOUS
<1>7. RemoveAt(s, i) = u
  BY <1>1, <1>2, <1>6, TakenOutLen
<1>8. IsSeq(a) /\ IsSeq(b)
  BY <1>4
<1>9. Len(u) = Len(a) + Len(b)
  BY <1>6, <1>8, JoinLen
<1>10. (\A k \in 1..Len(a) : u[k] = a[k]) /\ (\A k \in 1..Len(b) : u[Len(a) + k] = b[k])
  <2>1. /\ \A k \in 1..Len(a) : Join(a, b)[k] = a[k]
        /\ \A k \in 1..Len(b) : Join(a, b)[Len(a) + k] = b[k]
    BY <1>8, JoinAt
  <2>2. QED
    BY <1>6, <2>1
<1>11. CASE j < i
  <2>1. j \in 1..Len(a) /\ j \in 1..Len(u) /\ j \in 1..(i - 1)
    BY <1>3, <1>4, <1>9, <1>11
  <2>2. u[j] = s[j]
    BY <1>5, <1>10, <2>1
  <2>3. QED
    BY <1>7, <2>1, <2>2
<1>12. CASE j > i
  <2>1. PICK k : k = j - i
    OBVIOUS
  <2>2. k \in 1..Len(b) /\ k \in 1..(n - i) /\ Len(a) + k \in 1..Len(u) /\ i + k = j
    BY <1>3, <1>4, <1>9, <1>12, <2>1
  <2>3. u[Len(a) + k] = s[j]
    BY <1>5, <1>10, <2>2
  <2>4. QED
    BY <1>7, <2>2, <2>3
<1>13. QED
  BY <1>3, <1>11, <1>12

\* Rules stay rules when one is taken out.
LEMMA RuleTakenOut ==
    ASSUME NEW rs, RuleSeq(rs), NEW i \in 1..Len(rs)
    PROVE  RuleSeq(RemoveAt(rs, i))
<1>1. PICK S : rs \in Seq(S) /\ \A x \in S : IsRule(x)
  BY RuleSeqIn
<1>2. RemoveAt(rs, i) \in Seq(S)
  BY <1>1, TakenOut
<1>3. QED
  BY <1>1, <1>2, RuleSeqIn

\* Entries stay sound when one is taken out.
LEMMA EntryTakenOut ==
    ASSUME NEW es, Sound(es), NEW i \in 1..Len(es)
    PROVE  Sound(RemoveAt(es, i))
<1>1. PICK S : es \in Seq(S) /\ \A x \in S : SoundEntry(x)
  BY SoundIn
<1>2. RemoveAt(es, i) \in Seq(S)
  BY <1>1, TakenOut
<1>3. QED
  BY <1>1, <1>2, SoundIn

\* Deleting a rule keeps the categories it is not in.
LEMMA DeletedSound ==
    ASSUME NEW es, Sound(es), NEW k \in 1..Len(Leafs(es)), NEW id, HasCat(es, id),
           es[RuleAt(es, k)[1]].id # id
    PROVE  HasCat(Deleted(es, k), id)
<1>1. PICK p : p = RuleAt(es, k)
  OBVIOUS
<1>2. PICK e : e = es[p[1]]
  OBVIOUS
<1>3. p[1] \in 1..Len(es) /\ SoundEntry(e) /\ p[2] \in 1..Len(e.rules) /\ e.id # id
  BY <1>1, <1>2, RuleAtIs
<1>4. IsSeq(es) /\ DOMAIN es = 1..Len(es) /\ Len(es) \in Nat
  BY SoundRowed
<1>5. CASE id # NoCat
  <2>1. PICK i \in 1..Len(es) : es[i].id = id
    BY <1>5 DEF HasCat
  <2>2. i # p[1]
    BY <1>2, <1>3, <2>1
  <2>3. CASE e.id = NoCat
    <3>1. Deleted(es, k) = RemoveAt(es, p[1])
      BY <1>1, <1>2, <2>3 DEF Deleted
    <3>2. \E j \in 1..Len(RemoveAt(es, p[1])) : RemoveAt(es, p[1])[j] = es[i]
      BY <1>3, <1>4, <2>2, TakenOutAt
    <3>3. QED
      BY <2>1, <3>1, <3>2 DEF HasCat
  <2>4. CASE e.id # NoCat
    <3>1. PICK d : d = [e EXCEPT !.rules = RemoveAt(e.rules, p[2])]
      OBVIOUS
    <3>2. Deleted(es, k) = With(es, p[1], d)
      BY <1>1, <1>2, <1>3, <1>4, <2>4, <3>1 DEF Deleted, With
    <3>3. Len(With(es, p[1], d)) = Len(es) /\ With(es, p[1], d)[i] = es[i]
      BY <1>3, <1>4, <2>1, <2>2, WithAt
    <3>4. QED
      BY <2>1, <3>2, <3>3 DEF HasCat
  <2>5. QED
    BY <2>3, <2>4
<1>6. QED
  BY <1>5 DEF HasCat

\* Deleting a rule keeps the entries sound.
LEMMA SoundDeleted ==
    ASSUME NEW es, Sound(es), NEW k \in 1..Len(Leafs(es))
    PROVE  Sound(Deleted(es, k))
<1>1. PICK p : p = RuleAt(es, k)
  OBVIOUS
<1>2. PICK e : e = es[p[1]]
  OBVIOUS
<1>3. p[1] \in 1..Len(es) /\ SoundEntry(e) /\ p[2] \in 1..Len(e.rules)
  BY <1>1, <1>2, RuleAtIs
<1>4. IsSeq(es) /\ DOMAIN es = 1..Len(es) /\ Len(es) \in Nat
  BY SoundRowed
<1>5. CASE e.id = NoCat
  <2>1. Deleted(es, k) = RemoveAt(es, p[1])
    BY <1>1, <1>2, <1>5 DEF Deleted
  <2>2. QED
    BY <1>3, <2>1, EntryTakenOut
<1>6. CASE e.id # NoCat
  <2>1. PICK d : d = [e EXCEPT !.rules = RemoveAt(e.rules, p[2])]
    OBVIOUS
  <2>2. Deleted(es, k) = With(es, p[1], d)
    BY <1>1, <1>2, <1>3, <1>4, <1>6, <2>1 DEF Deleted, With
  <2>3. RuleSeq(RemoveAt(e.rules, p[2]))
    BY <1>3, EntryRules, RuleTakenOut
  <2>4. SoundEntry(d)
    BY <1>3, <1>6, <2>1, <2>3, SoundCategory
  <2>5. QED
    BY <1>3, <2>2, <2>4, SoundWith
<1>7. QED
  BY <1>5, <1>6

\* Rules stay rules with one more behind.
LEMMA RulesAppended ==
    ASSUME NEW rs, RuleSeq(rs), NEW r, IsRule(r)
    PROVE  RuleSeq(Append(rs, r)) /\ Append(rs, r) = Join(rs, One(r))
<1>1. PICK S : rs \in Seq(S) /\ \A x \in S : IsRule(x)
  BY RuleSeqIn
<1>2. PICK S2 : S2 = S \cup {r}
  OBVIOUS
<1>3. rs \in Seq(S2) /\ r \in S2 /\ \A x \in S2 : IsRule(x)
  BY <1>1, <1>2, SeqMonotonic
<1>4. Append(rs, r) \in Seq(S2)
  BY <1>3, AppendProperties
<1>5. RuleSeq(Append(rs, r))
  BY <1>3, <1>4, RuleSeqIn
<1>6. Append(rs, r) = rs \o <<r>>
  BY AppendIs DEF RuleSeq
<1>7. QED
  BY <1>5, <1>6 DEF Join, One

\* Putting a rule in a category, or alone, keeps the entries sound.
LEMMA SoundPut ==
    ASSUME NEW es, Sound(es), NEW r, IsRule(r), NEW id, HasCat(es, id)
    PROVE  Sound(Put(es, r, id))
<1>1. IsSeq(es) /\ DOMAIN es = 1..Len(es) /\ Len(es) \in Nat
  BY SoundRowed
<1>2. CASE id = NoCat
  <2>1. Put(es, r, id) = Append(es, Standalone(r))
    BY <1>2 DEF Put
  <2>2. Append(es, Standalone(r)) = Join(es, One(Standalone(r)))
    BY <1>1, AppendIs DEF Join, One
  <2>3. Sound(One(Standalone(r)))
    BY SoundStandalone, SoundOne
  <2>4. QED
    BY <2>1, <2>2, <2>3, SoundJoin
<1>3. CASE id # NoCat
  <2>1. PICK c : c = CategoryAt(es, id)
    OBVIOUS
  <2>2. c \in 1..Len(es) /\ es[c].id = id
    <3>1. \E i \in DOMAIN es : es[i].id = id
      BY <1>1, <1>3 DEF HasCat
    <3>2. CategoryAt(es, id) \in DOMAIN es /\ es[CategoryAt(es, id)].id = id
      BY <3>1, Zenon DEF CategoryAt
    <3>3. QED
      BY <1>1, <2>1, <3>2
  <2>3. PICK e : e = es[c]
    OBVIOUS
  <2>4. SoundEntry(e) /\ e.id # NoCat
    BY <1>3, <2>2, <2>3 DEF Sound
  <2>5. PICK d : d = [e EXCEPT !.rules = Append(e.rules, r)]
    OBVIOUS
  <2>6. Put(es, r, id) = With(es, c, d)
    BY <1>1, <1>3, <2>1, <2>2, <2>3, <2>5 DEF Put, With
  <2>7. SoundEntry(d)
    BY <2>4, <2>5, EntryRules, RulesAppended, SoundCategory
  <2>8. QED
    BY <2>2, <2>6, <2>7, SoundWith
<1>4. QED
  BY <1>2, <1>3

\* AssignRule keeps the entries sound.
LEMMA SoundAssign ==
    ASSUME NEW es, Sound(es), NEW r, IsRule(r), NEW id, HasCat(es, id),
           NEW k, k = 0 \/ k \in 1..Len(Leafs(es))
    PROVE  Sound(AssignRule(es, r, k, id))
<1>1. CASE k = 0
  BY <1>1, SoundPut DEF AssignRule
<1>2. CASE k # 0
  <2>1. k \in 1..Len(Leafs(es))
    BY <1>2
  <2>2. PICK p : p = RuleAt(es, k)
    OBVIOUS
  <2>3. PICK e : e = es[p[1]]
    OBVIOUS
  <2>4. p[1] \in 1..Len(es) /\ SoundEntry(e) /\ p[2] \in 1..Len(e.rules)
    BY <2>1, <2>2, <2>3, RuleAtIs
  <2>5. IsSeq(es) /\ DOMAIN es = 1..Len(es)
    BY SoundRowed
  <2>6. CASE e.id = id
    <3>1. PICK d : d = [e EXCEPT !.rules = [e.rules EXCEPT ![p[2]] = r]]
      OBVIOUS
    <3>2. AssignRule(es, r, k, id) = [es EXCEPT ![p[1]].rules[p[2]] = r]
      BY <1>2, <2>2, <2>3, <2>6 DEF AssignRule
    <3>3. [es EXCEPT ![p[1]].rules[p[2]] = r] = With(es, p[1], d)
      BY <2>3, <3>1 DEF With
    <3>4. SoundEntry(d)
      BY <2>4, <3>1, RuleReplaced
    <3>5. QED
      BY <2>4, <3>2, <3>3, <3>4, SoundWith
  <2>7. CASE e.id # id
    <3>1. AssignRule(es, r, k, id) = Put(Deleted(es, k), r, id)
      BY <1>2, <2>2, <2>3, <2>7 DEF AssignRule
    <3>2. Sound(Deleted(es, k)) /\ HasCat(Deleted(es, k), id)
      BY <2>1, <2>2, <2>3, <2>7, SoundDeleted, DeletedSound
    <3>3. QED
      BY <3>1, <3>2, SoundPut
  <2>8. QED
    BY <2>6, <2>7
<1>3. QED
  BY <1>1, <1>2

\* A rule stays one when it is switched.
LEMMA RuleOff ==
    ASSUME NEW r, IsRule(r), NEW off \in BOOLEAN
    PROVE  IsRule([r EXCEPT !.off = off])
<1>1. PICK t, val, g, ps, o : r = [type |-> t, value |-> val, target |-> g, params |-> ps, off |-> o]
  BY DEF IsRule
<1>2. [r EXCEPT !.off = off] = [type |-> t, value |-> val, target |-> g, params |-> ps, off |-> off]
  BY <1>1
<1>3. IsSeq(val) /\ val # <<>> /\ IsSeq(ps)
  BY <1>1 DEF IsRule
<1>4. QED
  BY <1>2, <1>3 DEF IsRule

\* A rule stays one with another target.
LEMMA RuleTarget ==
    ASSUME NEW r, IsRule(r), NEW target
    PROVE  IsRule([r EXCEPT !.target = target])
<1>1. PICK t, val, g, ps, o : r = [type |-> t, value |-> val, target |-> g, params |-> ps, off |-> o]
  BY DEF IsRule
<1>2. [r EXCEPT !.target = target] = [type |-> t, value |-> val, target |-> target, params |-> ps, off |-> o]
  BY <1>1
<1>3. IsSeq(val) /\ val # <<>> /\ IsSeq(ps) /\ o \in BOOLEAN
  BY <1>1 DEF IsRule
<1>4. QED
  BY <1>2, <1>3 DEF IsRule

\* Switching a rule keeps the entries sound.
LEMMA SoundToggled ==
    ASSUME NEW es, Sound(es), NEW k \in 1..Len(Leafs(es)), NEW off \in BOOLEAN
    PROVE  Sound(Toggled(es, k, off))
<1>1. PICK p : p = RuleAt(es, k)
  OBVIOUS
<1>2. PICK e : e = es[p[1]]
  OBVIOUS
<1>3. p[1] \in 1..Len(es) /\ SoundEntry(e) /\ p[2] \in 1..Len(e.rules) /\ IsRule(e.rules[p[2]])
  BY <1>1, <1>2, RuleAtIs
<1>4. PICK r : r = [e.rules[p[2]] EXCEPT !.off = off]
  OBVIOUS
<1>5. PICK d : d = [e EXCEPT !.rules = [e.rules EXCEPT ![p[2]] = r]]
  OBVIOUS
<1>6. Toggled(es, k, off) = With(es, p[1], d)
  BY <1>1, <1>2, <1>4, <1>5 DEF Toggled, With
<1>7. SoundEntry(d)
  BY <1>3, <1>4, <1>5, RuleOff, RuleReplaced
<1>8. QED
  BY <1>3, <1>6, <1>7, SoundWith

(***************************************************************************)
(* The commands on categories, and the moves, keep the list sound.         *)
(***************************************************************************)
\* No two categories that passed checkRules have one id.
LEMMA CategoriesApart ==
    ASSUME NEW es, Sound(es), checkRules(es), NEW i \in 1..Len(es), NEW j \in 1..Len(es),
           es[i].id # NoCat, es[i].id = es[j].id
    PROVE  i = j
<1>1. i \in DOMAIN es /\ j \in DOMAIN es
  BY SoundRowed
<1>2. QED
  BY <1>1 DEF checkRules

\* Rules stay rules when one moves.
LEMMA RulesShifted ==
    ASSUME NEW rs, RuleSeq(rs), NEW i \in 1..Len(rs), NEW j \in 1..Len(rs)
    PROVE  RuleSeq(InsertAt(RemoveAt(rs, i), j, rs[i]))
<1>1. PICK S : rs \in Seq(S) /\ \A x \in S : IsRule(x)
  BY RuleSeqIn
<1>2. RemoveAt(rs, i) \in Seq(S) /\ rs[i] \in S
  BY <1>1, TakenOut, ElementOfSeq
<1>3. IsSeq(rs) /\ Len(rs) \in Nat
  BY DEF RuleSeq, IsSeq
<1>4. Len(RemoveAt(rs, i)) = Len(rs) - 1
  BY <1>3, TakenOutLen
<1>5. j \in 1..(Len(RemoveAt(rs, i)) + 1)
  BY <1>3, <1>4
<1>6. InsertAt(RemoveAt(rs, i), j, rs[i]) \in Seq(S)
  BY <1>2, <1>5, PutIn
<1>7. QED
  BY <1>1, <1>6, RuleSeqIn

\* Entries stay sound when one moves.
LEMMA EntriesShifted ==
    ASSUME NEW es, Sound(es), NEW i \in 1..Len(es), NEW j \in 1..Len(es)
    PROVE  Sound(InsertAt(RemoveAt(es, i), j, es[i]))
<1>1. PICK S : es \in Seq(S) /\ \A x \in S : SoundEntry(x)
  BY SoundIn
<1>2. RemoveAt(es, i) \in Seq(S) /\ es[i] \in S
  BY <1>1, TakenOut, ElementOfSeq
<1>3. IsSeq(es) /\ Len(es) \in Nat
  BY SoundRowed
<1>4. Len(RemoveAt(es, i)) = Len(es) - 1
  BY <1>3, TakenOutLen
<1>5. j \in 1..(Len(RemoveAt(es, i)) + 1)
  BY <1>3, <1>4
<1>6. InsertAt(RemoveAt(es, i), j, es[i]) \in Seq(S)
  BY <1>2, <1>5, PutIn
<1>7. QED
  BY <1>1, <1>6, SoundIn

\* Moving a rule keeps the entries sound.
LEMMA SoundMoved ==
    ASSUME NEW es, Sound(es), checkRules(es), NEW f \in 1..Len(Leafs(es)), NEW t \in 1..Len(Leafs(es)),
           SameList(es, f, t)
    PROVE  Sound(Moved(es, f, t))
<1>1. PICK p : p = RuleAt(es, f)
  OBVIOUS
<1>2. PICK q : q = RuleAt(es, t)
  OBVIOUS
<1>3. PICK e : e = es[p[1]]
  OBVIOUS
<1>4. p[1] \in 1..Len(es) /\ SoundEntry(e) /\ p[2] \in 1..Len(e.rules)
  BY <1>1, <1>3, RuleAtIs
<1>5. q[1] \in 1..Len(es) /\ q[2] \in 1..Len(es[q[1]].rules)
  BY <1>2, RuleAtIs
<1>6. e.id = es[q[1]].id
  BY <1>1, <1>2, <1>3 DEF SameList
<1>7. CASE e.id = NoCat
  <2>1. Moved(es, f, t) = InsertAt(RemoveAt(es, p[1]), q[1], es[p[1]])
    BY <1>1, <1>2, <1>3, <1>7 DEF Moved
  <2>2. QED
    BY <1>4, <1>5, <2>1, EntriesShifted
<1>8. CASE e.id # NoCat
  <2>1. p[1] = q[1]
    BY <1>3, <1>4, <1>5, <1>6, <1>8, CategoriesApart
  <2>2. PICK rs : rs = InsertAt(RemoveAt(e.rules, p[2]), q[2], e.rules[p[2]])
    OBVIOUS
  <2>3. RuleSeq(rs)
    BY <1>3, <1>4, <1>5, <2>1, <2>2, EntryRules, RulesShifted
  <2>4. Moved(es, f, t) = With(es, p[1], [e EXCEPT !.rules = rs])
    BY <1>1, <1>2, <1>3, <1>8, <2>2 DEF Moved, With
  <2>5. SoundEntry([e EXCEPT !.rules = rs])
    BY <1>4, <1>8, <2>3, SoundCategory
  <2>6. QED
    BY <1>4, <2>4, <2>5, SoundWith
<1>9. QED
  BY <1>7, <1>8

\* Renaming a category keeps the entries sound.
LEMMA SoundRenamed ==
    ASSUME NEW es, Sound(es), NEW c \in 1..Len(es), es[c].id # NoCat, NEW name
    PROVE  Sound([es EXCEPT ![c].name = name])
<1>1. PICK e : e = es[c]
  OBVIOUS
<1>2. SoundEntry(e) /\ IsEntry(e)
  BY <1>1, SoundAround DEF SoundEntry
<1>3. PICK i, n, o, rs : e = [id |-> i, name |-> n, off |-> o, rules |-> rs]
  BY <1>2 DEF IsEntry
<1>4. PICK d : d = [e EXCEPT !.name = name]
  OBVIOUS
<1>5. d = [id |-> i, name |-> name, off |-> o, rules |-> rs]
  BY <1>3, <1>4
<1>6. d.id = i /\ d.name = name /\ d.off = o /\ d.rules = rs
  BY <1>5
<1>7. e.id = i /\ e.off = o /\ e.rules = rs
  BY <1>3
<1>8. IsEntry(d)
  <2>1. d = [id |-> d.id, name |-> d.name, off |-> d.off, rules |-> d.rules]
    BY <1>5, <1>6
  <2>2. QED
    BY <1>2, <1>6, <1>7, <2>1 DEF IsEntry
<1>9. SoundEntry(d)
  BY <1>1, <1>6, <1>7, <1>8 DEF SoundEntry
<1>10. [es EXCEPT ![c].name = name] = With(es, c, d)
  BY <1>1, <1>4 DEF With
<1>11. Sound(With(es, c, d))
  BY <1>9, SoundWith
<1>12. QED
  BY <1>10, <1>11

\* Switching a category keeps the entries sound.
LEMMA SoundSwitched ==
    ASSUME NEW es, Sound(es), NEW c \in 1..Len(es), es[c].id # NoCat, NEW off \in BOOLEAN
    PROVE  Sound([es EXCEPT ![c].off = off])
<1>1. PICK e : e = es[c]
  OBVIOUS
<1>2. SoundEntry(e) /\ IsEntry(e)
  BY <1>1, SoundAround DEF SoundEntry
<1>3. PICK i, n, o, rs : e = [id |-> i, name |-> n, off |-> o, rules |-> rs]
  BY <1>2 DEF IsEntry
<1>4. PICK d : d = [e EXCEPT !.off = off]
  OBVIOUS
<1>5. d = [id |-> i, name |-> n, off |-> off, rules |-> rs]
  BY <1>3, <1>4
<1>6. d.id = i /\ d.name = n /\ d.off = off /\ d.rules = rs
  BY <1>5
<1>7. e.id = i /\ e.off = o /\ e.rules = rs
  BY <1>3
<1>8. IsEntry(d)
  <2>1. d = [id |-> d.id, name |-> d.name, off |-> d.off, rules |-> d.rules]
    BY <1>5, <1>6
  <2>2. QED
    BY <1>2, <1>6, <1>7, <2>1 DEF IsEntry
<1>9. SoundEntry(d)
  BY <1>1, <1>6, <1>7, <1>8 DEF SoundEntry
<1>10. [es EXCEPT ![c].off = off] = With(es, c, d)
  BY <1>1, <1>4 DEF With
<1>11. Sound(With(es, c, d))
  BY <1>9, SoundWith
<1>12. QED
  BY <1>10, <1>11

\* The rules with another target, as CategoryTarget sets it.
Retarget(rs, target) ==
    [j \in DOMAIN rs |-> IF rs[j].type = <<"SUB-RULE">> THEN rs[j] ELSE [rs[j] EXCEPT !.target = target]]

\* Retargeting a category keeps the entries sound.
LEMMA SoundRetargeted ==
    ASSUME NEW es, Sound(es), NEW c \in 1..Len(es), es[c].id # NoCat, NEW target
    PROVE  Sound([es EXCEPT ![c].rules = [j \in DOMAIN @ |->
                     IF @[j].type = <<"SUB-RULE">> THEN @[j] ELSE [@[j] EXCEPT !.target = target]]])
<1>1. PICK e : e = es[c]
  OBVIOUS
<1>2. SoundEntry(e)
  BY <1>1, SoundAround
<1>3. RuleSeq(e.rules) /\ DOMAIN e.rules = 1..Len(e.rules) /\ Len(e.rules) \in Nat
  BY <1>2, EntryRules
<1>4. PICK rs : rs = Retarget(e.rules, target)
  OBVIOUS
<1>5. rs = [j \in 1..Len(e.rules) |-> rs[j]]
  BY <1>3, <1>4 DEF Retarget
<1>6. IsSeq(rs) /\ Len(rs) = Len(e.rules)
  BY <1>3, <1>5, Mapped
<1>7. ASSUME NEW j \in 1..Len(e.rules) PROVE IsRule(rs[j])
  <2>1. IsRule(e.rules[j])
    BY <1>3 DEF RuleSeq
  <2>2. rs[j] = e.rules[j] \/ rs[j] = [e.rules[j] EXCEPT !.target = target]
    BY <1>3, <1>4 DEF Retarget
  <2>3. IsRule([e.rules[j] EXCEPT !.target = target])
    BY <2>1, RuleTarget
  <2>4. QED
    BY <2>1, <2>2, <2>3
<1>8. RuleSeq(rs)
  BY <1>6, <1>7 DEF RuleSeq
<1>9. SoundEntry([e EXCEPT !.rules = rs])
  BY <1>1, <1>2, <1>8, SoundCategory
<1>10. [es EXCEPT ![c].rules = [j \in DOMAIN @ |->
          IF @[j].type = <<"SUB-RULE">> THEN @[j] ELSE [@[j] EXCEPT !.target = target]]]
         = With(es, c, [e EXCEPT !.rules = rs])
  BY <1>1, <1>4 DEF With, Retarget
<1>11. QED
  BY <1>9, <1>10, SoundWith

\* The rules of a category as the entries they become.
Freed(e) ==
    LET rules == [j \in DOMAIN e.rules |-> [e.rules[j] EXCEPT !.off = @ \/ e.off]]
    IN  [j \in DOMAIN rules |-> Standalone(rules[j])]

\* The rules of a category as standalone ones: sound, and off when the
\* category was.
LEMMA FreedIs ==
    ASSUME NEW e, SoundEntry(e)
    PROVE  /\ Sound(Freed(e)) /\ Len(Freed(e)) = Len(e.rules)
           /\ \A j \in 1..Len(e.rules) :
                 Freed(e)[j] = Standalone([e.rules[j] EXCEPT !.off = e.rules[j].off \/ e.off])
<1>1. RuleSeq(e.rules) /\ DOMAIN e.rules = 1..Len(e.rules) /\ Len(e.rules) \in Nat
  BY EntryRules
<1>2. PICK n \in Nat : n = Len(e.rules)
  BY <1>1
<1>3. PICK f : f = Freed(e)
  OBVIOUS
<1>4. /\ f = [j \in 1..n |-> f[j]]
      /\ \A j \in 1..n : f[j] = Standalone([e.rules[j] EXCEPT !.off = e.rules[j].off \/ e.off])
  BY <1>1, <1>2, <1>3 DEF Freed
<1>5. IsSeq(f) /\ Len(f) = n
  BY <1>4, Mapped
<1>6. ASSUME NEW j \in 1..n PROVE SoundEntry(f[j])
  <2>1. IsRule(e.rules[j])
    BY <1>1, <1>2 DEF RuleSeq
  <2>2. (e.rules[j].off \/ e.off) \in BOOLEAN
    OBVIOUS
  <2>3. IsRule([e.rules[j] EXCEPT !.off = e.rules[j].off \/ e.off])
    BY <2>1, <2>2, RuleOff
  <2>4. QED
    BY <1>4, <2>3, SoundStandalone
<1>7. QED
  BY <1>2, <1>3, <1>4, <1>5, <1>6 DEF Sound

\* Ungrouping puts the freed rules where the category was.
LEMMA UngroupedIs ==
    ASSUME NEW es, NEW c
    PROVE  Ungrouped(es, c) = Join(Join(Before(es, c), Freed(es[c])), After(es, c))
BY DEF Ungrouped, Freed, Join, Before, After

\* Ungrouping a category keeps the entries sound.
LEMMA SoundUngrouped ==
    ASSUME NEW es, Sound(es), NEW c \in 1..Len(es)
    PROVE  Sound(Ungrouped(es, c))
BY UngroupedIs, SoundAround, FreedIs, SoundJoin

\* A rule put in a category that the same command adds keeps the entries
\* sound.
LEMMA SoundGrouped ==
    ASSUME NEW es, Sound(es), NEW id \in Ids, NEW name, NEW r, IsRule(r), NEW k,
           k = 0 \/ k \in 1..Len(Leafs(es))
    PROVE  Sound(AssignRule(Append(es, [id |-> id, name |-> name, off |-> FALSE, rules |-> <<>>]), r, k, id))
<1>1. PICK c : c = [id |-> id, name |-> name, off |-> FALSE, rules |-> <<>>]
  OBVIOUS
<1>2. c.id = id /\ c.name = name /\ c.off = FALSE /\ c.rules = <<>>
  BY <1>1
<1>3. IsSeq(c.rules) /\ Len(c.rules) = 0
  BY <1>2, Nothing
<1>4. DOMAIN c.rules = {}
  BY <1>2
<1>5. IsEntry(c)
  BY <1>1, <1>2, <1>3, <1>4 DEF IsEntry
<1>6. SoundEntry(c)
  BY <1>2, <1>5, RoutingAssumption DEF SoundEntry
<1>7. IsSeq(es) /\ Rowed(es)
  BY SoundRowed
<1>8. PICK new : new = Join(es, One(c))
  OBVIOUS
<1>9. Append(es, c) = new
  BY <1>7, <1>8, AppendIs DEF Join, One
<1>10. Sound(new)
  BY <1>6, <1>8, SoundOne, SoundJoin
<1>11. Leafs(new) = Leafs(es)
  <2>1. Leafs(One(c)) = <<>> /\ Rowed(One(c))
    BY <1>2, <1>3, LeafsOne
  <2>2. Leafs(new) = Join(Leafs(es), <<>>)
    BY <1>7, <1>8, <2>1, LeafsJoin
  <2>3. QED
    BY <1>7, <2>2, LeafsSeq, JoinNothing
<1>12. HasCat(new, id)
  <2>1. IsSeq(One(c)) /\ Len(One(c)) = 1 /\ One(c)[1] = c
    BY OneSeq
  <2>2. Len(new) = Len(es) + 1 /\ Len(es) \in Nat
    BY <1>7, <1>8, <2>1, JoinLen
  <2>3. new[Len(es) + 1] = c
    BY <1>7, <1>8, <2>1, JoinAt
  <2>4. Len(es) + 1 \in 1..Len(new)
    BY <2>2
  <2>5. QED
    BY <1>2, <2>3, <2>4 DEF HasCat
<1>13. QED
  BY <1>1, <1>9, <1>10, <1>11, <1>12, SoundAssign

(***************************************************************************)
(* What every command stores: RulesStored.                                 *)
(***************************************************************************)
\* The profile is the empty one or one that was accepted.
Accepted == profile \in {Empty} \cup {p \in Contents : p.ok}

\* RulesStored, in the words of these lemmas.
LEMMA StoredRules == RulesStored <=> Stored(entries) /\ set \in Settings /\ on \in BOOLEAN /\ Accepted
<1>1. ASSUME RulesStored PROVE Stored(entries) /\ set \in Settings /\ on \in BOOLEAN /\ Accepted
  <2>1. IsSeq(entries)
    BY <1>1 DEF RulesStored
  <2>2. DOMAIN entries = 1..Len(entries)
    BY <2>1, SeqRange
  <2>3. QED
    BY <1>1, <2>1, <2>2 DEF RulesStored, Stored, Sound, SoundEntry, Accepted
<1>2. ASSUME Stored(entries), set \in Settings, on \in BOOLEAN, Accepted PROVE RulesStored
  <2>1. IsSeq(entries)
    BY <1>2 DEF Stored, Sound
  <2>2. DOMAIN entries = 1..Len(entries)
    BY <2>1, SeqRange
  <2>3. QED
    BY <1>2, <2>1, <2>2 DEF RulesStored, Stored, Sound, SoundEntry, Accepted
<1>3. QED
  BY <1>1, <1>2

\* No rules may be stored.
LEMMA StoredNothing == Stored(<<>>) /\ Sound(<<>>)
<1>1. IsSeq(<<>>) /\ Len(<<>>) = 0 /\ DOMAIN <<>> = {}
  BY Nothing
<1>2. Sound(<<>>)
  BY <1>1 DEF Sound
<1>3. Leafs(<<>>) = <<>>
  BY LeafsNothing
<1>4. MaxRules \in Nat
  BY RoutingAssumption
<1>5. checkRules(<<>>)
  BY <1>1, <1>3, <1>4 DEF checkRules
<1>6. QED
  BY <1>1, <1>2, <1>5 DEF Stored

\* apply stores what may be stored: pruning empty categories breaks no check.
LEMMA StoresApplied ==
    ASSUME RulesStored, NEW s \in Settings, NEW es, Sound(es), Apply(s, es)
    PROVE  RulesStored'
<1>1. Stored(PruneCategories(es))
  BY PruneStores DEF Apply
<1>2. Stored(entries)' /\ (set \in Settings)' /\ (on \in BOOLEAN)' /\ Accepted'
  BY <1>1, StoredRules DEF Apply, Accepted, Contents
<1>3. QED
  BY <1>2, StoredRules, PTL

\* Every step of the daemon and of the commands keeps RulesStored.
LEMMA StoresNext ==
    ASSUME RulesStored, RoutingNext
    PROVE  RulesStored'
<1>1. /\ Sound(entries) /\ checkRules(entries) /\ set \in Settings /\ on \in BOOLEAN /\ Accepted
      /\ Stored(entries)
  BY StoredRules DEF Stored
<1>2. DOMAIN entries = 1..Len(entries)
  BY <1>1, SoundRowed
<1>3. ASSUME NEW id \in {NoCat} \cup CatIds PROVE HasCat(entries, id)
  BY <1>2, <1>3 DEF CatIds, Cats, HasCat
<1>4. CASE \E s \in Settings : SetSettings(s)
  BY <1>1, <1>4, StoresApplied DEF SetSettings
<1>5. CASE \E p \in Contents : AcceptContent(p)
  <2>1. Stored(entries)' /\ (set \in Settings)' /\ (on \in BOOLEAN)' /\ Accepted'
    BY <1>1, <1>5 DEF AcceptContent, Accepted, Contents
  <2>2. QED
    BY <2>1, StoredRules, PTL
<1>6. CASE RemoveSub
  <2>1. Stored(entries)' /\ (set \in Settings)' /\ (on \in BOOLEAN)' /\ Accepted'
    BY <1>1, <1>6 DEF RemoveSub, Accepted, Contents
  <2>2. QED
    BY <2>1, StoredRules, PTL
<1>7. CASE TurnOn \/ TurnOff
  <2>1. Stored(entries)' /\ (set \in Settings)' /\ (on \in BOOLEAN)' /\ Accepted'
    BY <1>1, <1>7 DEF TurnOn, TurnOff, Accepted, Contents
  <2>2. QED
    BY <2>1, StoredRules, PTL
<1>8. CASE \E r \in Leaves, id \in {NoCat} \cup CatIds : RuleAdd(r, id)
  <2>1. PICK r \in Leaves, id \in {NoCat} \cup CatIds : RuleAdd(r, id)
    BY <1>8
  <2>2. IsRule(r) /\ HasCat(entries, id)
    BY <1>3, RoutingAssumption
  <2>3. Sound(AssignRule(entries, r, 0, id))
    BY <1>1, <2>2, SoundAssign
  <2>4. QED
    BY <1>1, <2>1, <2>3, StoresApplied DEF RuleAdd
<1>9. CASE \E k \in Indices, r \in Leaves, id \in {NoCat} \cup CatIds : RuleUpdate(k, r, id)
  <2>1. PICK k \in Indices, r \in Leaves, id \in {NoCat} \cup CatIds : RuleUpdate(k, r, id)
    BY <1>9
  <2>2. IsRule(r) /\ HasCat(entries, id) /\ k \in 1..Len(Leafs(entries))
    BY <1>3, RoutingAssumption DEF Indices
  <2>3. Sound(AssignRule(entries, r, k, id))
    BY <1>1, <2>2, SoundAssign
  <2>4. QED
    BY <1>1, <2>1, <2>3, StoresApplied DEF RuleUpdate
<1>10. CASE \E k \in {0} \cup Indices, r \in Leaves, id \in Ids \ CatIds, n \in Names : RuleGroup(k, r, id, n)
  <2>1. PICK k \in {0} \cup Indices, r \in Leaves, id \in Ids \ CatIds, n \in Names : RuleGroup(k, r, id, n)
    BY <1>10
  <2>2. IsRule(r) /\ id \in Ids /\ (k = 0 \/ k \in 1..Len(Leafs(entries)))
    BY RoutingAssumption DEF Indices
  <2>3. PICK c : c = [id |-> id, name |-> n, off |-> FALSE, rules |-> <<>>]
    OBVIOUS
  <2>4. Sound(AssignRule(Append(entries, c), r, k, id))
    BY <1>1, <2>2, <2>3, SoundGrouped
  <2>5. Apply(set, AssignRule(Append(entries, c), r, k, id))
    BY <2>1, <2>3 DEF RuleGroup
  <2>6. QED
    BY <1>1, <2>4, <2>5, StoresApplied
<1>11. CASE \E k \in Indices, off \in BOOLEAN : RuleToggle(k, off)
  <2>1. PICK k \in Indices, off \in BOOLEAN : RuleToggle(k, off)
    BY <1>11
  <2>2. Sound(Toggled(entries, k, off))
    BY <1>1, SoundToggled DEF Indices
  <2>3. QED
    BY <1>1, <2>1, <2>2, StoresApplied DEF RuleToggle
<1>12. CASE \E f, t \in Indices : RuleMove(f, t)
  <2>1. PICK f \in Indices, t \in Indices : RuleMove(f, t)
    BY <1>12
  <2>2. Sound(Moved(entries, f, t))
    BY <1>1, <2>1, SoundMoved DEF Indices, RuleMove
  <2>3. QED
    BY <1>1, <2>1, <2>2, StoresApplied DEF RuleMove
<1>13. CASE \E f, t \in DOMAIN entries : EntryMove(f, t)
  <2>1. PICK f \in 1..Len(entries), t \in 1..Len(entries) : EntryMove(f, t)
    BY <1>2, <1>13
  <2>2. Sound(InsertAt(RemoveAt(entries, f), t, entries[f]))
    BY <1>1, EntriesShifted
  <2>3. QED
    BY <1>1, <2>1, <2>2, StoresApplied DEF EntryMove
<1>14. CASE \E k \in Indices : RuleRemove(k)
  <2>1. PICK k \in Indices : RuleRemove(k)
    BY <1>14
  <2>2. Sound(Deleted(entries, k))
    BY <1>1, SoundDeleted DEF Indices
  <2>3. QED
    BY <1>1, <2>1, <2>2, StoresApplied DEF RuleRemove
<1>15. CASE \E c \in Cats, n \in Names : CategoryRename(c, n)
  <2>1. PICK c \in Cats, n \in Names : CategoryRename(c, n)
    BY <1>15
  <2>2. Sound([entries EXCEPT ![c].name = n])
    BY <1>1, <1>2, SoundRenamed DEF Cats
  <2>3. QED
    BY <1>1, <2>1, <2>2, StoresApplied DEF CategoryRename
<1>16. CASE \E c \in Cats, off \in BOOLEAN : CategoryToggle(c, off)
  <2>1. PICK c \in Cats, off \in BOOLEAN : CategoryToggle(c, off)
    BY <1>16
  <2>2. Sound([entries EXCEPT ![c].off = off])
    BY <1>1, <1>2, SoundSwitched DEF Cats
  <2>3. QED
    BY <1>1, <2>1, <2>2, StoresApplied DEF CategoryToggle
<1>17. CASE \E c \in Cats, n \in Targets : CategoryTarget(c, n)
  <2>1. PICK c \in Cats, n \in Targets : CategoryTarget(c, n)
    BY <1>17
  <2>2. PICK es : es = [entries EXCEPT ![c].rules = [j \in DOMAIN @ |->
                          IF @[j].type = <<"SUB-RULE">> THEN @[j] ELSE [@[j] EXCEPT !.target = n]]]
    OBVIOUS
  <2>3. Sound(es)
    BY <1>1, <1>2, <2>2, SoundRetargeted DEF Cats
  <2>4. Apply(set, es)
    BY <2>1, <2>2 DEF CategoryTarget
  <2>5. QED
    BY <1>1, <2>3, <2>4, StoresApplied
<1>18. CASE \E c \in Cats : CategoryRemove(c)
  <2>1. PICK c \in Cats : CategoryRemove(c)
    BY <1>18
  <2>2. Sound(Ungrouped(entries, c))
    BY <1>1, <1>2, SoundUngrouped DEF Cats
  <2>3. QED
    BY <1>1, <2>1, <2>2, StoresApplied DEF CategoryRemove
<1>19. QED
  BY <1>4, <1>5, <1>6, <1>7, <1>8, <1>9, <1>10, <1>11, <1>12, <1>13, <1>14, <1>15, <1>16, <1>17, <1>18
     DEF RoutingNext

\* What is stored always passed the daemon's checks and holds no empty
\* category (apply and PruneCategories), whatever commands edit it.
THEOREM RoutingStores == RoutingSpec => []RulesStored
<1>1. RoutingInit => RulesStored
  BY StoredNothing, StoredRules DEF RoutingInit, Accepted
<1>2. RulesStored /\ UNCHANGED routing => RulesStored'
  <2>1. SUFFICES ASSUME RulesStored, UNCHANGED routing PROVE RulesStored'
    OBVIOUS
  <2>2. Stored(entries)' /\ (set \in Settings)' /\ (on \in BOOLEAN)' /\ Accepted'
    BY <2>1, StoredRules DEF routing, Accepted, Contents
  <2>3. QED
    BY <2>2, StoredRules, PTL
<1>3. RulesStored /\ [RoutingNext]_routing => RulesStored'
  BY <1>2, StoresNext
<1>4. QED
  BY <1>1, <1>3, PTL DEF RoutingSpec

(***************************************************************************)
(* What compileRules makes of a list of entries.                           *)
(***************************************************************************)
\* x is in one of the sequences of ss.
Among(x, ss) == \E i \in 1..Len(ss) : \E j \in 1..Len(ss[i]) : x = ss[i][j]
\* Every element of the concatenation is one of a part.
FlatIn(ss) == \A k \in 1..Len(FlattenSeq(ss)) : Among(FlattenSeq(ss)[k], ss)

\* Every element of FlattenSeq(ss) is in one of the sequences of ss.
LEMMA FlatFrom ==
    ASSUME NEW ss, AllSeqs(ss)
    PROVE  FlatIn(ss)
<1>1. DEFINE A == {k \in Nat : \A s : AllSeqs(s) /\ Len(s) = k => FlatIn(s)}
<1>2. 0 \in A
  <2>1. ASSUME NEW s, AllSeqs(s), Len(s) = 0 PROVE FlatIn(s)
    <3>1. s = <<>>
      BY <2>1, NothingElse DEF AllSeqs
    <3>2. Len(FlattenSeq(s)) = 0
      BY <3>1, FlatNothing, Nothing
    <3>3. QED
      BY <3>2 DEF FlatIn
  <2>2. QED
    BY <2>1
<1>3. ASSUME NEW k \in Nat, k \in A PROVE k + 1 \in A
  <2>1. ASSUME NEW s, AllSeqs(s), Len(s) = k + 1 PROVE FlatIn(s)
    <3>1. PICK a : a = SubSeq(s, 1, k)
      OBVIOUS
    <3>2. PICK x : x = s[k + 1]
      OBVIOUS
    <3>3. AllSeqs(a) /\ Len(a) = k /\ IsSeq(x) /\ s = a \o <<x>>
      BY <2>1, <3>1, <3>2, AllSplit
    <3>4. \A i \in 1..k : a[i] = s[i]
      BY <2>1, <3>1, LastSplit DEF AllSeqs
    <3>5. PICK fa : fa = FlattenSeq(a) /\ IsSeq(fa)
      BY <3>3, FlatSeq
    <3>6. FlattenSeq(s) = fa \o x
      BY <3>3, <3>5, FlatAppend DEF AllSeqs
    <3>7. PICK u : u = fa \o x
      OBVIOUS
    <3>8. /\ Len(u) = Len(fa) + Len(x) /\ Len(fa) \in Nat /\ Len(x) \in Nat
          /\ \A i \in 1..Len(fa) : u[i] = fa[i]
          /\ \A i \in 1..Len(x) : u[Len(fa) + i] = x[i]
      BY <3>3, <3>5, <3>7, Cat
    <3>9. ASSUME NEW i \in 1..Len(u) PROVE Among(u[i], s)
      <4>1. CASE i \in 1..Len(fa)
        <5>1. Among(u[i], a)
          BY <1>3, <3>3, <3>5, <3>8, <4>1 DEF FlatIn
        <5>2. PICK m \in 1..k : \E j \in 1..Len(a[m]) : u[i] = a[m][j]
          BY <3>3, <5>1 DEF Among
        <5>3. m \in 1..Len(s) /\ a[m] = s[m]
          BY <2>1, <3>4
        <5>4. QED
          BY <5>2, <5>3 DEF Among
      <4>2. CASE i \notin 1..Len(fa)
        <5>1. PICK j : j = i - Len(fa)
          OBVIOUS
        <5>2. j \in 1..Len(x) /\ Len(fa) + j = i
          BY <3>8, <4>2, <5>1
        <5>3. u[i] = x[j]
          BY <3>8, <5>2
        <5>4. k + 1 \in 1..Len(s)
          BY <2>1
        <5>5. QED
          BY <3>2, <5>2, <5>3, <5>4 DEF Among
      <4>3. QED
        BY <4>1, <4>2
    <3>10. QED
      BY <3>6, <3>7, <3>9 DEF FlatIn
  <2>2. QED
    BY <2>1
<1>4. Nat \subseteq A
  BY <1>2, <1>3, Induction
<1>5. Len(ss) \in A
  BY <1>4 DEF IsSeq, AllSeqs
<1>6. QED
  BY <1>5

\* An entry's rules as they are listed.
EntryRow(e, p) ==
    [j \in 1..Len(e.rules) |->
        Listed(e.rules[j], "user", e.off \/ e.rules[j].off \/ ~ruleActive(p, e.rules[j]))]
\* The lines of each entry.
CompRows(es, p) == [i \in 1..Len(es) |-> EntryRow(es[i], p)]

\* The rules of one entry as compileRules lists them.
LEMMA EntryRowIs ==
    ASSUME NEW e, IsSeq(e.rules), NEW p
    PROVE  /\ IsSeq(EntryRow(e, p)) /\ Len(EntryRow(e, p)) = Len(e.rules)
           /\ \A j \in 1..Len(e.rules) : EntryRow(e, p)[j] =
                 Listed(e.rules[j], "user", e.off \/ e.rules[j].off \/ ~ruleActive(p, e.rules[j]))
<1>1. PICK n \in Nat : n = Len(e.rules)
  BY DEF IsSeq
<1>2. PICK f : f = EntryRow(e, p)
  OBVIOUS
<1>3. f = [j \in 1..n |-> f[j]] /\ \A j \in 1..n : f[j] =
         Listed(e.rules[j], "user", e.off \/ e.rules[j].off \/ ~ruleActive(p, e.rules[j]))
  BY <1>1, <1>2 DEF EntryRow
<1>4. IsSeq(f) /\ Len(f) = n
  BY <1>3, Mapped
<1>5. QED
  BY <1>1, <1>2, <1>3, <1>4

\* compileRules puts the entries' listed rules in a row.
LEMMA CompRowsAre ==
    ASSUME NEW es, Rowed(es), NEW p
    PROVE  /\ AllSeqs(CompRows(es, p)) /\ IsSeq(CompRows(es, p)) /\ Len(CompRows(es, p)) = Len(es)
           /\ \A i \in 1..Len(es) : CompRows(es, p)[i] = EntryRow(es[i], p)
           /\ compileRules(es, p) = FlattenSeq(CompRows(es, p))
<1>1. PICK n \in Nat : n = Len(es)
  BY DEF Rowed, IsSeq
<1>2. PICK f : f = CompRows(es, p)
  OBVIOUS
<1>3. f = [i \in 1..n |-> f[i]] /\ \A i \in 1..n : f[i] = EntryRow(es[i], p)
  BY <1>1, <1>2 DEF CompRows
<1>4. IsSeq(f) /\ Len(f) = n
  BY <1>3, Mapped
<1>5. ASSUME NEW i \in 1..n PROVE IsSeq(f[i])
  BY <1>1, <1>3, EntryRowIs DEF Rowed
<1>6. AllSeqs(f)
  BY <1>4, <1>5 DEF AllSeqs
<1>7. DOMAIN es = 1..n
  BY <1>1, SeqRange DEF Rowed
<1>8. \A i \in 1..n : DOMAIN es[i].rules = 1..Len(es[i].rules)
  BY <1>1, SeqRange DEF Rowed
<1>9. compileRules(es, p) = FlattenSeq([i \in DOMAIN es |-> [j \in DOMAIN es[i].rules |->
        Listed(es[i].rules[j], "user", es[i].off \/ es[i].rules[j].off \/ ~ruleActive(p, es[i].rules[j]))]])
  BY DEF compileRules
<1>10. [i \in DOMAIN es |-> [j \in DOMAIN es[i].rules |->
        Listed(es[i].rules[j], "user", es[i].off \/ es[i].rules[j].off \/ ~ruleActive(p, es[i].rules[j]))]] = f
  BY <1>1, <1>2, <1>7, <1>8 DEF CompRows, EntryRow
<1>11. QED
  BY <1>1, <1>2, <1>3, <1>4, <1>6, <1>9, <1>10

\* compileRules of two lists of entries: the one's rules, then the other's.
LEMMA CompJoin ==
    ASSUME NEW a, Rowed(a), NEW b, Rowed(b), NEW p
    PROVE  compileRules(Join(a, b), p) = Join(compileRules(a, p), compileRules(b, p))
<1>1. IsSeq(a) /\ IsSeq(b)
  BY DEF Rowed
<1>2. PICK u : u = Join(a, b)
  OBVIOUS
<1>3. Len(u) = Len(a) + Len(b) /\ Len(a) \in Nat /\ Len(b) \in Nat /\ Rowed(u)
  BY <1>1, <1>2, JoinLen, RowedJoin
<1>4. (\A i \in 1..Len(a) : u[i] = a[i]) /\ (\A i \in 1..Len(b) : u[Len(a) + i] = b[i])
  BY <1>1, <1>2, JoinAt
<1>5. PICK ra : ra = CompRows(a, p)
  OBVIOUS
<1>6. PICK rb : rb = CompRows(b, p)
  OBVIOUS
<1>7. PICK ru : ru = CompRows(u, p)
  OBVIOUS
<1>8. /\ AllSeqs(ra) /\ IsSeq(ra) /\ Len(ra) = Len(a)
      /\ (\A i \in 1..Len(a) : ra[i] = EntryRow(a[i], p)) /\ compileRules(a, p) = FlattenSeq(ra)
  BY <1>5, CompRowsAre
<1>9. /\ AllSeqs(rb) /\ IsSeq(rb) /\ Len(rb) = Len(b)
      /\ (\A i \in 1..Len(b) : rb[i] = EntryRow(b[i], p)) /\ compileRules(b, p) = FlattenSeq(rb)
  BY <1>6, CompRowsAre
<1>10. /\ IsSeq(ru) /\ Len(ru) = Len(u)
       /\ (\A i \in 1..Len(u) : ru[i] = EntryRow(u[i], p)) /\ compileRules(u, p) = FlattenSeq(ru)
  BY <1>3, <1>7, CompRowsAre
<1>11. \A i \in 1..Len(ra) : ru[i] = ra[i]
  BY <1>3, <1>4, <1>8, <1>10
<1>12. ASSUME NEW i \in 1..Len(rb) PROVE ru[Len(ra) + i] = rb[i]
  <2>1. i \in 1..Len(b) /\ Len(a) + i \in 1..Len(u)
    BY <1>3, <1>9
  <2>2. QED
    BY <1>4, <1>8, <1>9, <1>10, <2>1
<1>13. Laid(ru, ra, rb)
  BY <1>3, <1>8, <1>9, <1>10, <1>11, <1>12 DEF Laid
<1>14. ru = Join(ra, rb)
  BY <1>8, <1>9, <1>10, <1>13, JoinIs
<1>15. QED
  BY <1>2, <1>8, <1>9, <1>10, <1>14, FlatJoin

\* compileRules of a single entry.
LEMMA CompOne ==
    ASSUME NEW e, IsSeq(e.rules), NEW p
    PROVE  compileRules(One(e), p) = EntryRow(e, p)
<1>1. Rowed(One(e))
  BY LeafsOne
<1>2. IsSeq(One(e)) /\ Len(One(e)) = 1 /\ One(e)[1] = e
  BY OneSeq
<1>3. PICK r : r = CompRows(One(e), p)
  OBVIOUS
<1>4. IsSeq(r) /\ Len(r) = 1 /\ r[1] = EntryRow(e, p) /\ compileRules(One(e), p) = FlattenSeq(r)
  BY <1>1, <1>2, <1>3, CompRowsAre
<1>5. PICK x : x = EntryRow(e, p) /\ IsSeq(x)
  BY EntryRowIs
<1>6. IsSeq(<<x>>) /\ Len(<<x>>) = 1 /\ <<x>>[1] = x
  BY Single
<1>7. r = <<x>>
  BY <1>4, <1>5, <1>6, SeqSame
<1>8. QED
  BY <1>4, <1>5, <1>7, FlatOne

\* compileRules lists rules of the entries, and each as active as it is.
LEMMA CompSeq ==
    ASSUME NEW es, Rowed(es), NEW p
    PROVE  /\ IsSeq(compileRules(es, p)) /\ Len(compileRules(es, p)) \in Nat
           /\ \A k \in 1..Len(compileRules(es, p)) :
                 \E i \in 1..Len(es) : \E j \in 1..Len(es[i].rules) : compileRules(es, p)[k] =
                   Listed(es[i].rules[j], "user", es[i].off \/ es[i].rules[j].off \/ ~ruleActive(p, es[i].rules[j]))
<1>1. PICK r : r = CompRows(es, p)
  OBVIOUS
<1>2. /\ AllSeqs(r) /\ Len(r) = Len(es) /\ \A i \in 1..Len(es) : r[i] = EntryRow(es[i], p)
      /\ compileRules(es, p) = FlattenSeq(r)
  BY <1>1, CompRowsAre
<1>3. PICK c : c = compileRules(es, p) /\ IsSeq(c)
  BY <1>2, FlatSeq
<1>4. ASSUME NEW k \in 1..Len(c)
      PROVE  \E i \in 1..Len(es) : \E j \in 1..Len(es[i].rules) : c[k] =
                Listed(es[i].rules[j], "user", es[i].off \/ es[i].rules[j].off \/ ~ruleActive(p, es[i].rules[j]))
  <2>1. Among(c[k], r)
    BY <1>2, <1>3, FlatFrom DEF FlatIn
  <2>2. PICK i \in 1..Len(es) : \E j \in 1..Len(r[i]) : c[k] = r[i][j]
    BY <1>2, <2>1 DEF Among
  <2>2a. PICK j \in 1..Len(r[i]) : c[k] = r[i][j]
    BY <2>2
  <2>3. IsSeq(es[i].rules) /\ r[i] = EntryRow(es[i], p)
    BY <1>2 DEF Rowed
  <2>4. /\ j \in 1..Len(es[i].rules)
        /\ c[k] = Listed(es[i].rules[j], "user", es[i].off \/ es[i].rules[j].off \/ ~ruleActive(p, es[i].rules[j]))
    BY <2>2a, <2>3, EntryRowIs
  <2>5. QED
    BY <2>4
<1>5. QED
  BY <1>3, <1>4 DEF IsSeq

\* compileRules lists the owner's rules.
LEMMA CompSource ==
    ASSUME NEW es, Rowed(es), NEW p, NEW k \in 1..Len(compileRules(es, p))
    PROVE  compileRules(es, p)[k].source = "user"
<1>1. PICK i \in 1..Len(es) : \E j \in 1..Len(es[i].rules) : compileRules(es, p)[k] =
         Listed(es[i].rules[j], "user", es[i].off \/ es[i].rules[j].off \/ ~ruleActive(p, es[i].rules[j]))
  BY CompSeq
<1>2. \A r, o : Listed(r, "user", o).source = "user"
  BY DEF Listed
<1>3. QED
  BY <1>1, <1>2

(***************************************************************************)
(* Effective: the rules that are in force.                                 *)
(***************************************************************************)
\* KeptCat, for Join.
LEMMA KeptJoin ==
    ASSUME NEW s, IsSeq(s), NEW t, IsSeq(t), NEW I, NEW J, NEW K, Fits(s, t, I, J, K)
    PROVE  Kept(Join(s, t), K) = Join(Kept(s, I), Kept(t, J))
<1>1. Kept(s \o t, K) = Kept(s, I) \o Kept(t, J)
  BY KeptCat
<1>2. QED
  BY <1>1 DEF Join

\* The rules that take part are a sequence.
LEMMA EffSeq ==
    ASSUME NEW a, IsSeq(a)
    PROVE  IsSeq(Effective(a)) /\ Len(Effective(a)) \in Nat
BY KeptSeq DEF Effective, IsSeq

\* The rules that take part, of two lists in a row.
LEMMA EffJoin ==
    ASSUME NEW a, IsSeq(a), NEW b, IsSeq(b)
    PROVE  Effective(Join(a, b)) = Join(Effective(a), Effective(b))
<1>1. PICK u : u = Join(a, b)
  OBVIOUS
<1>2. IsSeq(u) /\ Len(u) = Len(a) + Len(b) /\ Len(a) \in Nat /\ Len(b) \in Nat
  BY <1>1, JoinSeq, JoinLen
<1>3. (\A i \in 1..Len(a) : u[i] = a[i]) /\ (\A i \in 1..Len(b) : u[Len(a) + i] = b[i])
  BY <1>1, JoinAt
<1>4. DOMAIN a = 1..Len(a) /\ DOMAIN b = 1..Len(b) /\ DOMAIN u = 1..Len(u)
  BY <1>2, SeqRange
<1>5. PICK I : I = {i \in DOMAIN a : ~a[i].inactive}
  OBVIOUS
<1>6. PICK J : J = {i \in DOMAIN b : ~b[i].inactive}
  OBVIOUS
<1>7. PICK K : K = {i \in DOMAIN u : ~u[i].inactive}
  OBVIOUS
<1>8. \A i \in 1..Len(a) : i \in K <=> i \in I
  BY <1>2, <1>3, <1>4, <1>5, <1>7
<1>9. ASSUME NEW j \in 1..Len(b) PROVE Len(a) + j \in K <=> j \in J
  <2>1. Len(a) + j \in 1..Len(u)
    BY <1>2
  <2>2. QED
    BY <1>3, <1>4, <1>6, <1>7, <2>1
<1>10. Fits(a, b, I, J, K)
  BY <1>8, <1>9 DEF Fits
<1>11. Kept(Join(a, b), K) = Join(Kept(a, I), Kept(b, J))
  BY <1>10, KeptJoin
<1>12. QED
  BY <1>1, <1>5, <1>6, <1>7, <1>11 DEF Effective

\* Of one rule, it or nothing takes part.
LEMMA EffOne ==
    ASSUME NEW x
    PROVE  Effective(One(x)) = IF x.inactive THEN <<>> ELSE One(x)
<1>1. IsSeq(<<x>>) /\ Len(<<x>>) = 1 /\ <<x>>[1] = x
  BY Single
<1>2. DOMAIN <<x>> = 1..1
  BY <1>1, SeqRange
<1>3. PICK I : I = {i \in DOMAIN <<x>> : ~<<x>>[i].inactive}
  OBVIOUS
<1>4. 1 \in I <=> ~x.inactive
  BY <1>1, <1>2, <1>3
<1>5. Kept(<<x>>, I) = IF 1 \in I THEN <<x>> ELSE <<>>
  BY KeptOne
<1>6. QED
  BY <1>3, <1>4, <1>5 DEF Effective, One

\* Where all are active, all take part.
LEMMA EffAll ==
    ASSUME NEW a, IsSeq(a), \A i \in 1..Len(a) : ~a[i].inactive
    PROVE  Effective(a) = a
<1>1. DOMAIN a = 1..Len(a)
  BY SeqRange
<1>2. 1..Len(a) \subseteq {i \in DOMAIN a : ~a[i].inactive}
  BY <1>1
<1>3. QED
  BY <1>2, KeptAll DEF Effective

\* Where none is active, none takes part.
LEMMA EffNone ==
    ASSUME NEW a, IsSeq(a), \A i \in 1..Len(a) : a[i].inactive
    PROVE  Effective(a) = <<>>
<1>1. \A i \in 1..Len(a) : i \notin {j \in DOMAIN a : ~a[j].inactive}
  OBVIOUS
<1>2. QED
  BY <1>1, KeptNone DEF Effective

\* A rule that takes part was listed, and active.
LEMMA EffFrom ==
    ASSUME NEW a, IsSeq(a), NEW k \in 1..Len(Effective(a))
    PROVE  \E i \in 1..Len(a) : Effective(a)[k] = a[i] /\ ~a[i].inactive
<1>1. PICK I : I = {j \in DOMAIN a : ~a[j].inactive}
  OBVIOUS
<1>2. PICK m : Embeds(m, a, I, Effective(a))
  BY <1>1, KeptEmbeds DEF Effective
<1>3. m[k] \in 1..Len(a) /\ m[k] \in I /\ Effective(a)[k] = a[m[k]]
  BY <1>2 DEF Embeds
<1>4. QED
  BY <1>1, <1>3

\* A rule that was listed as active takes part.
LEMMA EffTo ==
    ASSUME NEW a, IsSeq(a), NEW i \in 1..Len(a), ~a[i].inactive
    PROVE  \E k \in 1..Len(Effective(a)) : Effective(a)[k] = a[i]
<1>1. PICK I : I = {j \in DOMAIN a : ~a[j].inactive}
  OBVIOUS
<1>2. PICK m : Embeds(m, a, I, Effective(a))
  BY <1>1, KeptEmbeds DEF Effective
<1>3. i \in I
  BY <1>1, SeqRange
<1>4. QED
  BY <1>2, <1>3 DEF Embeds

\* The rules of one source as they are listed.
LEMMA SourcedIs ==
    ASSUME NEW rs, IsSeq(rs), NEW source, NEW off
    PROVE  /\ IsSeq(Sourced(rs, source, off)) /\ Len(Sourced(rs, source, off)) = Len(rs)
           /\ \A i \in 1..Len(rs) : /\ Sourced(rs, source, off)[i] = Listed(rs[i], source, off)
                                    /\ Sourced(rs, source, off)[i].source = source
                                    /\ Sourced(rs, source, off)[i].inactive = off
<1>1. PICK n \in Nat : n = Len(rs)
  BY DEF IsSeq
<1>2. DOMAIN rs = 1..n
  BY <1>1, SeqRange
<1>3. PICK f : f = Sourced(rs, source, off)
  OBVIOUS
<1>4. f = [i \in 1..n |-> f[i]] /\ \A i \in 1..n : f[i] = Listed(rs[i], source, off)
  BY <1>2, <1>3 DEF Sourced
<1>5. IsSeq(f) /\ Len(f) = n
  BY <1>4, Mapped
<1>6. \A r : Listed(r, source, off).source = source /\ Listed(r, source, off).inactive = off
  BY DEF Listed
<1>7. QED
  BY <1>1, <1>3, <1>4, <1>5, <1>6

\* A source takes part as a whole or not at all.
LEMMA EffSourced ==
    ASSUME NEW rs, IsSeq(rs), NEW source, NEW off \in BOOLEAN
    PROVE  Effective(Sourced(rs, source, off)) = IF off THEN <<>> ELSE Sourced(rs, source, FALSE)
<1>1. PICK a : a = Sourced(rs, source, off)
  OBVIOUS
<1>2. IsSeq(a) /\ Len(a) = Len(rs) /\ \A i \in 1..Len(rs) : a[i].inactive = off
  BY <1>1, SourcedIs
<1>3. CASE off = TRUE
  <2>1. \A i \in 1..Len(a) : a[i].inactive
    BY <1>2, <1>3
  <2>2. Effective(a) = <<>>
    BY <1>2, <2>1, EffNone
  <2>3. QED
    BY <1>1, <1>3, <2>2
<1>4. CASE off = FALSE
  <2>1. \A i \in 1..Len(a) : ~a[i].inactive
    BY <1>2, <1>4
  <2>2. Effective(a) = a
    BY <1>2, <2>1, EffAll
  <2>3. QED
    BY <1>1, <1>4, <2>2
<1>5. QED
  BY <1>3, <1>4

\* The lines that are not the owner's.
Rest(rules) == {i \in DOMAIN rules : rules[i].source # "user"}
\* withOmihomoRules puts its rules after the first that are the owner's: how
\* many those are.
Lead(rules) ==
    IF Rest(rules) = {} THEN Len(rules)
    ELSE (CHOOSE i \in Rest(rules) : \A j \in Rest(rules) : i <= j) - 1

\* Every line is one of the owner's.
AllOwners(a) == \A i \in 1..Len(a) : a[i].source = "user"
\* No line is one of the owner's.
NoOwners(b) == \A i \in 1..Len(b) : b[i].source # "user"

\* withOmihomoRules finds the end of the owner's rules.
LEMMA LeadIs ==
    ASSUME NEW a, IsSeq(a), NEW b, IsSeq(b), AllOwners(a), NoOwners(b), NEW rules, rules = Join(a, b)
    PROVE  Lead(rules) = Len(a)
<1>0. PICK rest : rest = Rest(rules) /\ rest = {i \in DOMAIN rules : rules[i].source # "user"}
  BY DEF Rest
<1>1. Len(rules) = Len(a) + Len(b) /\ Len(a) \in Nat /\ Len(b) \in Nat
  BY JoinLen
<1>2. (\A i \in 1..Len(a) : rules[i] = a[i]) /\ (\A i \in 1..Len(b) : rules[Len(a) + i] = b[i])
  BY JoinAt
<1>3. DOMAIN rules = 1..Len(rules)
  BY JoinSeq, SeqRange
<1>4. ASSUME NEW i \in rest PROVE i \in 1..Len(rules) /\ i > Len(a)
  BY <1>0, <1>1, <1>2, <1>3 DEF AllOwners
<1>5. ASSUME NEW i \in 1..Len(b) PROVE Len(a) + i \in rest
  <2>1. Len(a) + i \in 1..Len(rules)
    BY <1>1
  <2>2. QED
    BY <1>0, <1>2, <1>3, <2>1 DEF NoOwners
<1>6. CASE Len(b) = 0
  <2>1. rest = {}
    BY <1>1, <1>4, <1>6
  <2>2. QED
    BY <1>0, <1>1, <1>6, <2>1 DEF Lead
<1>7. CASE Len(b) # 0
  <2>1. 1 \in 1..Len(b)
    BY <1>1, <1>7
  <2>2. Len(a) + 1 \in rest
    BY <1>5, <2>1
  <2>3. \A j \in rest : Len(a) + 1 <= j
    BY <1>1, <1>4
  <2>4. PICK c : c = CHOOSE i \in rest : \A j \in rest : i <= j
    OBVIOUS
  <2>5. c \in rest /\ \A j \in rest : c <= j
    BY <2>2, <2>3, <2>4, Zenon
  <2>6. c = Len(a) + 1
    BY <1>1, <1>4, <2>2, <2>3, <2>5
  <2>7. c - 1 = Len(a)
    BY <1>1, <2>6
  <2>8. QED
    BY <1>0, <2>2, <2>4, <2>7 DEF Lead
<1>8. QED
  BY <1>6, <1>7

\* omihomo's own rules are a sequence.
LEMMA IntegrationSeq ==
    ASSUME NEW s, NEW p
    PROVE  IsSeq(IntegrationRules(s, p))
<1>1. \A x, y : IsSeq(<<x, y>>)
  BY DEF IsSeq
<1>2. IsSeq(<<>>)
  BY Nothing
<1>3. PICK x, y, z, w : IntegrationRules(s, p) = <<>> \/ IntegrationRules(s, p) =
        (IF s.tailnetProxy THEN <<x, y>> ELSE <<>>) \o (IF s.tailscale THEN <<z, w>> ELSE <<>>)
  BY DEF IntegrationRules
<1>4. IsSeq(IF s.tailnetProxy THEN <<x, y>> ELSE <<>>) /\ IsSeq(IF s.tailscale THEN <<z, w>> ELSE <<>>)
  BY <1>1, <1>2
<1>5. PICK c, d : c = (IF s.tailnetProxy THEN <<x, y>> ELSE <<>>) /\ d = (IF s.tailscale THEN <<z, w>> ELSE <<>>)
  OBVIOUS
<1>6. IsSeq(c) /\ IsSeq(d) /\ (IntegrationRules(s, p) = <<>> \/ IntegrationRules(s, p) = c \o d)
  BY <1>3, <1>4, <1>5
<1>7. QED
  BY <1>2, <1>6, Cat

(***************************************************************************)
(* The rules and the names of a built profile.                             *)
(***************************************************************************)
\* The rules of a document as ParseRule reads them.
Read(d) == [i \in DOMAIN d.rules |-> ParseRule(d.rules[i])]
\* A rule with the parameters that are known.
Plain(r) == [r EXCEPT !.params = Kept(@, {j \in DOMAIN @ : @[j] \in RuleParams})]

\* A rule of the document that Build knows the names of.
Known(d, names, r) ==
    /\ r.type \in RuleTypes
    /\ IF r.type = <<"SUB-RULE">> THEN r.target \in DOMAIN d.subs
       ELSE r.target \in names \cup {Global}
    /\ r.type = <<"RULE-SET">> => r.value[1] \in RuleSets(d)

\* Every rule Build keeps was read from a line of the document, and its names
\* are known.
LEMMA RulesFrom ==
    ASSUME NEW d, IsDocument(d), NEW names
    PROVE  /\ IsSeq(Rules(d, names))
           /\ \A k \in 1..Len(Rules(d, names)) : \E i \in 1..Len(d.rules) :
                 /\ Rules(d, names)[k] = Plain(ParseRule(d.rules[i]))
                 /\ Known(d, names, ParseRule(d.rules[i]))
<1>1. IsSeq(d.rules)
  BY DEF IsDocument
<1>2. PICK n \in Nat : n = Len(d.rules)
  BY <1>1 DEF IsSeq
<1>3. DOMAIN d.rules = 1..n
  BY <1>1, <1>2, SeqRange
<1>4. PICK read : read = Read(d)
  OBVIOUS
<1>5. read = [i \in 1..n |-> read[i]] /\ \A i \in 1..n : read[i] = ParseRule(d.rules[i])
  BY <1>3, <1>4 DEF Read
<1>6. IsSeq(read) /\ Len(read) = n
  BY <1>5, Mapped
<1>7. PICK I : I = {i \in DOMAIN read : Known(d, names, read[i])}
  OBVIOUS
<1>8. PICK kept : kept = Kept(read, I)
  OBVIOUS
<1>9. IsSeq(kept)
  BY <1>6, <1>8, KeptSeq
<1>10. PICK q \in Nat : q = Len(kept)
  BY <1>9 DEF IsSeq
<1>11. DOMAIN kept = 1..q
  BY <1>9, <1>10, SeqRange
<1>12. PICK out : out = [i \in DOMAIN kept |-> Plain(kept[i])]
  OBVIOUS
<1>13. out = [i \in 1..q |-> out[i]] /\ \A i \in 1..q : out[i] = Plain(kept[i])
  BY <1>11, <1>12
<1>14. IsSeq(out) /\ Len(out) = q
  BY <1>13, Mapped
<1>15. Rules(d, names) = out
  <2>1. Rules(d, names) =
           [i \in DOMAIN Kept(Read(d), {j \in DOMAIN Read(d) : Known(d, names, Read(d)[j])}) |->
              Plain(Kept(Read(d), {j \in DOMAIN Read(d) : Known(d, names, Read(d)[j])})[i])]
    BY Zenon DEF Rules, Known, Plain, Read
  <2>2. QED
    BY <1>4, <1>7, <1>8, <1>12, <2>1
<1>16. PICK m : Embeds(m, read, I, kept)
  BY <1>6, <1>8, KeptEmbeds
<1>17. ASSUME NEW k \in 1..q
       PROVE \E i \in 1..n : out[k] = Plain(ParseRule(d.rules[i])) /\ Known(d, names, ParseRule(d.rules[i]))
  <2>1. PICK i : i = m[k]
    OBVIOUS
  <2>2. i \in 1..n /\ i \in I /\ kept[k] = read[i]
    BY <1>6, <1>10, <1>16, <2>1 DEF Embeds
  <2>3. QED
    BY <1>5, <1>7, <1>13, <2>2
<1>18. QED
  BY <1>2, <1>14, <1>15, <1>17

\* The three results of Build.
LEMMA BuildIs ==
    ASSUME NEW d
    PROVE  \/ Build(d) = Refused
           \/ Build(d) = BuildWrapped(Providers(d)) /\ Providers(d).ok /\ Wrapped(d)
           \/ Build(d) = BuildConfig(d, Providers(d)) /\ Providers(d).ok
BY DEF Build

\* The fields of the empty profile; the refused one is not ok.
LEMMA EmptyIs ==
    /\ Empty.ok = TRUE /\ Empty.proxies = <<>> /\ Empty.groups = <<>> /\ Empty.sets = {}
    /\ DOMAIN Empty.subs = {} /\ Empty.rules = <<>>
    /\ Refused.ok = FALSE
BY DEF Empty, Refused

\* The group made for proxies that come without one.
WrapGroup(b) == [name |-> WrapperGroup, type |-> "select", hidden |-> FALSE, broken |-> FALSE, members |-> b.proxies]

\* What Build makes of bare proxies.
LEMMA WrappedIs ==
    ASSUME NEW b, BuildWrapped(b).ok, NEW p, p = BuildWrapped(b)
    PROVE  /\ b.proxies # <<>> /\ WrapperGroup \notin Range(b.proxies)
           /\ p.proxies = b.proxies /\ p.groups = <<WrapGroup(b)>> /\ p.sets = {} /\ DOMAIN p.subs = {}
           /\ p.rules = <<ParseRule(<<<<"MATCH">>, WrapperGroup>>)>>
<1>1. ~(b.proxies = <<>> \/ WrapperGroup \in Range(b.proxies))
  BY EmptyIs DEF BuildWrapped
<1>2. PICK g, r : g = WrapGroup(b) /\ r = ParseRule(<<<<"MATCH">>, WrapperGroup>>)
  OBVIOUS
<1>3. p = [Empty EXCEPT !.proxies = b.proxies, !.groups = <<g>>, !.rules = <<r>>]
  BY <1>1, <1>2 DEF BuildWrapped, WrapGroup
<1>4. p = [ok |-> TRUE, proxies |-> b.proxies, groups |-> <<g>>, sets |-> {},
           subs |-> Empty.subs, rules |-> <<r>>]
  BY <1>3 DEF Empty
<1>5. p.proxies = b.proxies /\ p.groups = <<g>> /\ p.sets = {} /\ p.subs = Empty.subs /\ p.rules = <<r>>
  BY <1>4
<1>6. QED
  BY <1>1, <1>2, <1>5, EmptyIs

\* What a rule may name as its target.
Named(b, groups) == Builtins \cup Range(b.proxies) \cup {g.name : g \in Range(groups)}

\* What Build makes of a document with groups or rules.
LEMMA ConfigIs ==
    ASSUME NEW d, NEW b, BuildConfig(d, b).ok, NEW p, p = BuildConfig(d, b)
    PROVE  /\ \A g \in Range(Groups(d, b)) : g.members # <<>>
           /\ p.proxies = b.proxies /\ p.groups = Groups(d, b) /\ p.sets = RuleSets(d) /\ p.subs = SubRules(d)
           /\ p.rules = Rules(d, Named(b, Groups(d, b)))
<1>1. PICK groups, sets, subs, rules :
         groups = Groups(d, b) /\ sets = RuleSets(d) /\ subs = SubRules(d) /\ rules = Rules(d, Named(b, Groups(d, b)))
  OBVIOUS
<1>2. /\ \A g \in Range(groups) : ~g.broken /\ g.members # <<>>
      /\ p = [ok |-> TRUE, proxies |-> b.proxies, groups |-> groups, sets |-> sets, subs |-> subs, rules |-> rules]
  BY <1>1, EmptyIs DEF BuildConfig, Named
<1>3. p.proxies = b.proxies /\ p.groups = groups /\ p.sets = sets /\ p.subs = subs /\ p.rules = rules
  BY <1>2
<1>4. QED
  BY <1>1, <1>2, <1>3

\* The rules of what Build makes are a sequence.
LEMMA BuiltRulesSeq ==
    ASSUME NEW d, IsDocument(d), Build(d).ok
    PROVE  IsSeq(Build(d).rules)
<1>1. PICK b : b = Providers(d)
  OBVIOUS
<1>2. CASE Build(d) = BuildWrapped(b)
  BY <1>2, WrappedIs, Single
<1>3. CASE Build(d) = BuildConfig(d, b)
  BY <1>3, ConfigIs, RulesFrom
<1>4. QED
  BY <1>1, <1>2, <1>3, BuildIs, EmptyIs

\* The rules of any profile the daemon may hold are a sequence.
LEMMA ContentRulesSeq ==
    ASSUME NEW p, p \in {Empty} \cup {q \in Contents : q.ok}
    PROVE  IsSeq(p.rules)
<1>1. CASE p = Empty
  BY <1>1, EmptyIs, Nothing
<1>2. CASE p # Empty
  <2>1. PICK d \in Docs : p = Build(d)
    BY <1>2 DEF Contents
  <2>2. IsDocument(d) /\ Build(d).ok
    BY <1>2, <2>1, RoutingAssumption
  <2>3. QED
    BY <2>1, <2>2, BuiltRulesSeq
<1>3. QED
  BY <1>1, <1>2

(***************************************************************************)
(* The listing says what runs: ListingTrue.                                *)
(***************************************************************************)
\* The owner's rules that take part, omihomo's and the subscription's.
UserPart(es, p) == Effective(compileRules(es, p))
\* The program's own lines.
OwnPart(s, p) == IF s.omihomoOff THEN <<>> ELSE Sourced(IntegrationRules(s, p), "omihomo", FALSE)
\* The lines of the subscription.
SubPart(s, p) == IF s.subscriptionOff THEN <<>> ELSE Sourced(p.rules, "subscription", FALSE)

\* The three parts of what the core runs; the owner's part has no rule of
\* others, the subscription's none of the owner's.
LEMMA PartsAre ==
    ASSUME NEW es, Rowed(es), NEW s, NEW p, IsSeq(p.rules)
    PROVE  /\ IsSeq(UserPart(es, p)) /\ IsSeq(OwnPart(s, p)) /\ IsSeq(SubPart(s, p))
           /\ AllOwners(UserPart(es, p)) /\ NoOwners(SubPart(s, p))
<1>1. PICK c : c = compileRules(es, p) /\ IsSeq(c)
  BY CompSeq
<1>2. \A i \in 1..Len(c) : c[i].source = "user"
  BY <1>1, CompSource
<1>3. IsSeq(UserPart(es, p))
  BY <1>1, EffSeq DEF UserPart
<1>4. ASSUME NEW i \in 1..Len(UserPart(es, p)) PROVE UserPart(es, p)[i].source = "user"
  <2>1. PICK j \in 1..Len(c) : Effective(c)[i] = c[j]
    BY <1>1, EffFrom DEF UserPart
  <2>2. QED
    BY <1>1, <1>2, <2>1 DEF UserPart
<1>5. IsSeq(OwnPart(s, p))
  <2>1. IsSeq(Sourced(IntegrationRules(s, p), "omihomo", FALSE))
    BY IntegrationSeq, SourcedIs
  <2>2. QED
    BY <2>1, Nothing DEF OwnPart
<1>6. IsSeq(SubPart(s, p)) /\ NoOwners(SubPart(s, p))
  <2>1. PICK q : q = Sourced(p.rules, "subscription", FALSE)
    OBVIOUS
  <2>2. IsSeq(q) /\ Len(q) = Len(p.rules) /\ \A i \in 1..Len(p.rules) : q[i].source = "subscription"
    <3>1. PICK off : off = FALSE
      OBVIOUS
    <3>2. PICK z : z = Sourced(p.rules, "subscription", off)
      OBVIOUS
    <3>3. IsSeq(z) /\ Len(z) = Len(p.rules) /\ \A i \in 1..Len(p.rules) : z[i].source = "subscription"
      BY <3>2, SourcedIs
    <3>4. QED
      BY <2>1, <3>1, <3>2, <3>3
  <2>3. NoOwners(q)
    BY <2>2 DEF NoOwners
  <2>4. IsSeq(<<>>) /\ NoOwners(<<>>)
    BY Nothing DEF NoOwners
  <2>5. QED
    BY <2>1, <2>2, <2>3, <2>4 DEF SubPart
<1>7. QED
  BY <1>3, <1>4, <1>5, <1>6 DEF AllOwners

\* The core runs the owner's active rules, then omihomo's, then the
\* subscription's.
LEMMA RulesRun ==
    ASSUME NEW es, Rowed(es), NEW s, NEW p, IsSeq(p.rules)
    PROVE  rawConfig(s, es, p).rules = Join(Join(UserPart(es, p), OwnPart(s, p)), SubPart(s, p))
<1>1. rawConfig(s, es, p).rules = withOmihomoRules(runConfig(s, es, p), s, p)
  BY DEF rawConfig
<1>2. runConfig(s, es, p) = Join(UserPart(es, p), SubPart(s, p))
  BY DEF runConfig, Join, UserPart, SubPart
<1>3. PICK a : a = UserPart(es, p)
  OBVIOUS
<1>4. PICK b : b = SubPart(s, p)
  OBVIOUS
<1>5. IsSeq(a) /\ IsSeq(b) /\ AllOwners(a) /\ NoOwners(b)
  BY <1>3, <1>4, PartsAre
<1>6. CASE s.omihomoOff
  <2>1. withOmihomoRules(Join(a, b), s, p) = Join(a, b)
    BY <1>6 DEF withOmihomoRules
  <2>2. OwnPart(s, p) = <<>>
    BY <1>6 DEF OwnPart
  <2>3. Join(a, <<>>) = a
    BY <1>5, JoinNothing
  <2>4. QED
    BY <1>1, <1>2, <1>3, <1>4, <2>1, <2>2, <2>3
<1>7. CASE ~s.omihomoOff
  <2>1. PICK o : o = Sourced(IntegrationRules(s, p), "omihomo", FALSE)
    OBVIOUS
  <2>2. OwnPart(s, p) = o /\ withOmihomoRules(Join(a, b), s, p) = Join(Join(a, o), b)
    <3>1. OwnPart(s, p) = o
      BY <1>7, <2>1 DEF OwnPart
    <3>2. PICK rules : rules = Join(a, b)
      OBVIOUS
    <3>3. Lead(rules) = Len(a)
      BY <1>5, <3>2, LeadIs
    <3>4. SubSeq(rules, 1, Len(a)) = a /\ SubSeq(rules, Len(a) + 1, Len(rules)) = b
      BY <1>5, <3>2, JoinParts
    <3>5. withOmihomoRules(rules, s, p) =
             (SubSeq(rules, 1, Lead(rules)) \o Sourced(IntegrationRules(s, p), "omihomo", FALSE))
             \o SubSeq(rules, Lead(rules) + 1, Len(rules))
      BY <1>7 DEF withOmihomoRules, Lead, Rest
    <3>6. withOmihomoRules(rules, s, p) = Join(Join(a, o), b)
      BY <2>1, <3>3, <3>4, <3>5 DEF Join
    <3>7. QED
      BY <3>1, <3>2, <3>6
  <2>3. QED
    BY <1>1, <1>2, <1>3, <1>4, <2>1, <2>2
<1>8. QED
  BY <1>6, <1>7

\* The rules shown as taking part are those the core runs.
LEMMA ShownIs ==
    ASSUME RulesStored
    PROVE  IsSeq(Shown) /\ Effective(Shown) = rawConfig(set, entries, profile).rules
<1>1. Rowed(entries)
  BY StoredRules, SoundRowed DEF Stored
<1>2. IsSeq(profile.rules) /\ set.omihomoOff \in BOOLEAN /\ set.subscriptionOff \in BOOLEAN
  BY StoredRules, ContentRulesSeq, RoutingAssumption DEF Accepted
<1>3. PICK c : c = compileRules(entries, profile)
  OBVIOUS
<1>4. PICK o : o = Sourced(IntegrationRules(set, profile), "omihomo", set.omihomoOff)
  OBVIOUS
<1>5. PICK u : u = Sourced(profile.rules, "subscription", set.subscriptionOff)
  OBVIOUS
<1>6. IsSeq(c)
  BY <1>1, <1>3, CompSeq
<1>7. IsSeq(o) /\ Effective(o) = OwnPart(set, profile)
  <2>1. PICK rs : rs = IntegrationRules(set, profile) /\ IsSeq(rs)
    BY IntegrationSeq
  <2>2. IsSeq(o)
    BY <1>4, <2>1, SourcedIs
  <2>3. Effective(o) = IF set.omihomoOff THEN <<>> ELSE Sourced(rs, "omihomo", FALSE)
    BY <1>2, <1>4, <2>1, EffSourced
  <2>4. QED
    BY <2>1, <2>2, <2>3 DEF OwnPart
<1>8. IsSeq(u) /\ Effective(u) = SubPart(set, profile)
  <2>1. IsSeq(u)
    BY <1>2, <1>5, SourcedIs
  <2>2. Effective(u) = IF set.subscriptionOff THEN <<>> ELSE Sourced(profile.rules, "subscription", FALSE)
    BY <1>2, <1>5, EffSourced
  <2>3. QED
    BY <2>1, <2>2 DEF SubPart
<1>9. Shown = Join(Join(c, o), u)
  BY <1>3, <1>4, <1>5 DEF Shown, Join
<1>10. IsSeq(Join(c, o))
  BY <1>6, <1>7, JoinSeq
<1>11. IsSeq(Join(Join(c, o), u))
  BY <1>8, <1>10, JoinSeq
<1>12. Effective(Join(c, o)) = Join(Effective(c), Effective(o))
  BY <1>6, <1>7, EffJoin
<1>13. Effective(Join(Join(c, o), u)) = Join(Effective(Join(c, o)), Effective(u))
  BY <1>8, <1>10, EffJoin
<1>14. Effective(c) = UserPart(entries, profile)
  BY <1>3 DEF UserPart
<1>15. rawConfig(set, entries, profile).rules =
         Join(Join(UserPart(entries, profile), OwnPart(set, profile)), SubPart(set, profile))
  BY <1>1, <1>2, RulesRun
<1>16. QED
  BY <1>7, <1>8, <1>9, <1>11, <1>12, <1>13, <1>14, <1>15

\* A sequence up to a place, this included.
LEMMA UpTo ==
    ASSUME NEW s, IsSeq(s), NEW i \in 1..Len(s)
    PROVE  SubSeq(s, 1, i) = Join(Before(s, i), One(s[i]))
<1>1. PICK n \in Nat : n = Len(s)
  BY DEF IsSeq
<1>2. PICK t : t = SubSeq(s, 1, i)
  OBVIOUS
<1>3. i \in Nat /\ i <= Len(s) /\ 1 <= i + 1 /\ 1 > 0
  BY <1>1
<1>4. IsSeq(t) /\ Len(t) = i + 1 - 1 /\ \A j \in 1..(i + 1 - 1) : t[j] = s[1 + j - 1]
  BY <1>2, <1>3, Sub
<1>5. Len(t) = i /\ \A j \in 1..i : t[j] = s[j]
  BY <1>1, <1>4
<1>6. PICK a : a = Before(s, i)
  OBVIOUS
<1>7. IsSeq(a) /\ Len(a) = i - 1
  BY <1>6, Around
<1>8. \A j \in 1..(i - 1) : a[j] = s[j]
  BY <1>6, AroundAt
<1>9. Len(t) = Len(a) + 1 /\ \A j \in 1..Len(a) : t[j] = a[j]
  BY <1>1, <1>5, <1>7, <1>8
<1>10. t = Join(a, One(t[Len(a) + 1]))
  BY <1>4, <1>7, <1>9, JoinLast
<1>11. t[Len(a) + 1] = s[i]
  <2>1. Len(a) + 1 = i /\ i \in 1..i
    BY <1>1, <1>7
  <2>2. QED
    BY <1>5, <2>1
<1>12. QED
  BY <1>2, <1>6, <1>10, <1>11

\* A rule is shown as unreachable exactly when an active MATCH stands before
\* it among those that run.
LEMMA UnreachableFacts ==
    ASSUME NEW shown, IsSeq(shown), NEW i \in 1..Len(shown), ~shown[i].inactive
    PROVE  Unreachable(shown, i) <=>
              \E j \in 1..(Len(Effective(SubSeq(shown, 1, i))) - 1) : Effective(shown)[j].rule.type = <<"MATCH">>
<1>1. PICK n \in Nat : n = Len(shown)
  BY DEF IsSeq
<1>2. PICK x : x = shown[i]
  OBVIOUS
<1>3. PICK a : a = Before(shown, i)
  OBVIOUS
<1>4. PICK b : b = After(shown, i)
  OBVIOUS
<1>5. IsSeq(a) /\ Len(a) = i - 1 /\ IsSeq(b) /\ shown = Join(Join(a, One(x)), b)
  BY <1>2, <1>3, <1>4, Around
<1>6. \A j \in 1..(i - 1) : a[j] = shown[j]
  BY <1>3, AroundAt
<1>7. SubSeq(shown, 1, i) = Join(a, One(x))
  BY <1>2, <1>3, UpTo
<1>8. IsSeq(One(x)) /\ Len(One(x)) = 1
  BY OneSeq
<1>9. PICK ea : ea = Effective(a) /\ IsSeq(ea) /\ Len(ea) \in Nat
  BY <1>5, EffSeq
<1>10. Effective(Join(a, One(x))) = Join(ea, One(x))
  <2>1. Effective(One(x)) = One(x)
    BY <1>2, EffOne
  <2>2. QED
    BY <1>5, <1>8, <1>9, <2>1, EffJoin
<1>11. PICK pre : pre = Join(ea, One(x))
  OBVIOUS
<1>12. IsSeq(pre) /\ Len(pre) = Len(ea) + 1
  BY <1>8, <1>9, <1>11, JoinSeq, JoinLen
<1>13. PICK eb : eb = Effective(b) /\ IsSeq(eb)
  BY <1>5, EffSeq
<1>14. IsSeq(Join(a, One(x)))
  BY <1>5, <1>8, JoinSeq
<1>15. Effective(shown) = Join(pre, eb)
  <2>1. Effective(Join(Join(a, One(x)), b)) = Join(Effective(Join(a, One(x))), Effective(b))
    BY <1>5, <1>14, EffJoin
  <2>2. QED
    BY <1>5, <1>10, <1>11, <1>13, <2>1
<1>16. \A j \in 1..Len(pre) : Effective(shown)[j] = pre[j]
  BY <1>12, <1>13, <1>15, JoinAt, SMTT(30)
<1>17. \A j \in 1..Len(ea) : pre[j] = ea[j]
  BY <1>8, <1>9, <1>11, JoinAt
<1>18. \A j \in 1..Len(ea) : Effective(shown)[j] = ea[j]
  BY <1>9, <1>12, <1>16, <1>17
<1>19. Len(Effective(SubSeq(shown, 1, i))) - 1 = Len(ea)
  <2>1. Effective(SubSeq(shown, 1, i)) = pre
    BY <1>7, <1>10, <1>11
  <2>2. QED
    BY <1>9, <1>12, <2>1
<1>20. ASSUME Unreachable(shown, i)
       PROVE  \E j \in 1..Len(ea) : Effective(shown)[j].rule.type = <<"MATCH">>
  <2>1. PICK j \in 1..(i - 1) : ~shown[j].inactive /\ shown[j].rule.type = <<"MATCH">>
    BY <1>20 DEF Unreachable
  <2>2. j \in 1..Len(a) /\ a[j] = shown[j]
    BY <1>5, <1>6
  <2>3. PICK k \in 1..Len(ea) : ea[k] = a[j]
    BY <1>5, <1>9, <2>1, <2>2, EffTo
  <2>4. QED
    BY <1>18, <2>1, <2>2, <2>3
<1>21. ASSUME NEW j \in 1..Len(ea), Effective(shown)[j].rule.type = <<"MATCH">>
       PROVE  Unreachable(shown, i)
  <2>1. PICK k \in 1..Len(a) : ea[j] = a[k] /\ ~a[k].inactive
    BY <1>5, <1>9, EffFrom
  <2>2. k \in 1..(i - 1) /\ a[k] = shown[k]
    BY <1>5, <1>6
  <2>3. ~shown[k].inactive /\ shown[k].rule.type = <<"MATCH">>
    BY <1>18, <1>21, <2>1, <2>2
  <2>4. QED
    BY <2>2, <2>3 DEF Unreachable
<1>22. QED
  BY <1>19, <1>20, <1>21

\* What rules lists is true whenever what is stored passed the checks.
LEMMA ListingIsTrue == RulesStored => ListingTrue
<1>1. SUFFICES ASSUME RulesStored PROVE ListingTrue
  OBVIOUS
<1>2. PICK shown : shown = Shown
  OBVIOUS
<1>3. PICK run : run = rawConfig(set, entries, profile).rules
  OBVIOUS
<1>4. IsSeq(shown) /\ Effective(shown) = run
  BY <1>1, <1>2, <1>3, ShownIs
<1>5. ListedRuns
  BY <1>2, <1>3, <1>4 DEF ListedRuns
<1>6. DOMAIN shown = 1..Len(shown)
  BY <1>4, SeqRange
<1>7. ASSUME NEW i \in DOMAIN shown, ~shown[i].inactive
      PROVE  Unreachable(shown, i) <=>
                \E j \in 1..(Len(Effective(SubSeq(shown, 1, i))) - 1) : run[j].rule.type = <<"MATCH">>
  BY <1>4, <1>6, <1>7, UnreachableFacts
<1>8. UnreachableIsSo
  BY <1>2, <1>3, <1>7 DEF UnreachableIsSo
<1>9. QED
  BY <1>5, <1>8 DEF ListingTrue

\* The rules that `omihomo rule list` shows as taking part are always those
\* rawConfig hands to the core, in that order, and those marked unreachable
\* are those behind a MATCH the core runs.
THEOREM RoutingListing == RoutingSpec => []ListingTrue
BY RoutingStores, ListingIsTrue, PTL

(***************************************************************************)
(* One rule taken out or put in, in three rows and in five.                *)
(***************************************************************************)
\* A sequence in three parts, the middle one a single element.
LEMMA JoinThree ==
    ASSUME NEW a, IsSeq(a), NEW x, NEW b, IsSeq(b), NEW s, s = Join(Join(a, One(x)), b)
    PROVE  /\ IsSeq(s) /\ Len(s) = Len(a) + 1 + Len(b) /\ Len(a) \in Nat /\ Len(b) \in Nat
           /\ Len(a) + 1 \in 1..Len(s) /\ s[Len(a) + 1] = x
           /\ Before(s, Len(a) + 1) = a /\ After(s, Len(a) + 1) = b
<1>1. IsSeq(One(x)) /\ Len(One(x)) = 1 /\ One(x)[1] = x
  BY OneSeq
<1>2. PICK u : u = Join(a, One(x))
  OBVIOUS
<1>3. IsSeq(u) /\ Len(u) = Len(a) + 1 /\ Len(a) \in Nat
  BY <1>1, <1>2, JoinSeq, JoinLen
<1>4. s = Join(u, b)
  BY <1>2
<1>5. IsSeq(s) /\ Len(s) = Len(u) + Len(b) /\ Len(b) \in Nat
  BY <1>3, <1>4, JoinSeq, JoinLen
<1>6. Len(a) + 1 \in 1..Len(s) /\ Len(a) + 1 \in 1..Len(u) /\ Len(s) = Len(a) + 1 + Len(b)
  BY <1>3, <1>5
<1>7. u[Len(a) + 1] = x
  <2>1. IsSeq(One(x))
    BY <1>1
  <2>2. \A j \in 1..Len(One(x)) : Join(a, One(x))[Len(a) + j] = One(x)[j]
    BY <2>1, JoinAt
  <2>3. 1 \in 1..Len(One(x))
    BY <1>1
  <2>4. QED
    BY <1>1, <1>2, <2>2, <2>3
<1>8. s[Len(a) + 1] = x
  BY <1>3, <1>4, <1>6, <1>7, JoinAt
<1>9. After(s, Len(a) + 1) = b
  <2>1. SubSeq(s, Len(u) + 1, Len(s)) = b
    BY <1>3, <1>4, JoinParts
  <2>2. QED
    BY <1>3, <2>1 DEF After
<1>10. Before(s, Len(a) + 1) = a
  <2>1. PICK w : w = Join(One(x), b)
    OBVIOUS
  <2>2. IsSeq(w)
    BY <1>1, <2>1, JoinSeq
  <2>3. s = Join(a, w)
    BY <1>1, <2>1, JoinJoin
  <2>4. SubSeq(s, 1, Len(a)) = a
    BY <2>2, <2>3, JoinParts
  <2>5. (Len(a) + 1) - 1 = Len(a)
    BY <1>3
  <2>6. QED
    BY <2>4, <2>5 DEF Before
<1>11. QED
  BY <1>3, <1>5, <1>6, <1>8, <1>9, <1>10

\* A part in the middle: what becomes of the whole when the part changes.
LEMMA RemoveInside ==
    ASSUME NEW l, IsSeq(l), NEW s, IsSeq(s), NEW r, IsSeq(r), NEW i \in 1..Len(s)
    PROVE  RemoveAt(Join(Join(l, s), r), Len(l) + i) = Join(Join(l, RemoveAt(s, i)), r)
<1>1. PICK a : a = Before(s, i)
  OBVIOUS
<1>2. PICK b : b = After(s, i)
  OBVIOUS
<1>3. PICK o : o = One(s[i])
  OBVIOUS
<1>4. IsSeq(o)
  BY <1>3, OneSeq
<1>5. IsSeq(a) /\ IsSeq(b) /\ Len(a) + 1 = i /\ s = Join(Join(a, o), b)
  BY <1>1, <1>2, <1>3, Around
<1>6. Join(Join(l, s), r) = Join(Join(Join(l, a), o), Join(b, r))
  BY <1>4, <1>5, JoinJoin, JoinSeq
<1>7. IsSeq(Join(l, a)) /\ IsSeq(Join(b, r))
  BY <1>5, JoinSeq
<1>8. Len(Join(l, a)) + 1 = Len(l) + i
  <2>1. Len(Join(l, a)) = Len(l) + Len(a) /\ Len(l) \in Nat /\ Len(a) \in Nat
    BY <1>5, JoinLen
  <2>2. QED
    BY <1>5, <2>1
<1>9. RemoveAt(Join(Join(Join(l, a), o), Join(b, r)), Len(Join(l, a)) + 1) = Join(Join(l, a), Join(b, r))
  BY <1>3, <1>7, RemoveMid
<1>10. RemoveAt(s, i) = Join(a, b)
  BY <1>1, <1>2, TakenOutLen
<1>11. Join(Join(l, a), Join(b, r)) = Join(Join(l, Join(a, b)), r)
  BY <1>5, JoinJoin, JoinSeq
<1>12. QED
  BY <1>6, <1>8, <1>9, <1>10, <1>11

\* Inserting in the middle part of three.
LEMMA InsertInside ==
    ASSUME NEW l, IsSeq(l), NEW s, IsSeq(s), NEW r, IsSeq(r), NEW i \in 1..(Len(s) + 1), NEW x
    PROVE  InsertAt(Join(Join(l, s), r), Len(l) + i, x) = Join(Join(l, InsertAt(s, i, x)), r)
<1>1. PICK n \in Nat : n = Len(s)
  BY DEF IsSeq
<1>2. PICK a : a = SubSeq(s, 1, i - 1)
  OBVIOUS
<1>3. PICK b : b = SubSeq(s, i, n)
  OBVIOUS
<1>4. /\ IsSeq(a) /\ Len(a) = (i - 1) + 1 - 1 /\ \A j \in 1..((i - 1) + 1 - 1) : a[j] = s[1 + j - 1]
  <2>1. 1 \in Nat /\ 1 > 0 /\ i - 1 \in Nat /\ i - 1 <= Len(s) /\ 1 <= (i - 1) + 1
    BY <1>1
  <2>2. QED
    BY <1>2, <2>1, Sub
<1>5. /\ IsSeq(b) /\ Len(b) = n + 1 - i /\ \A j \in 1..(n + 1 - i) : b[j] = s[i + j - 1]
  <2>1. i \in Nat /\ i > 0 /\ n <= Len(s) /\ i <= n + 1
    BY <1>1
  <2>2. QED
    BY <1>3, <2>1, Sub
<1>6. IsSeq(a) /\ IsSeq(b) /\ Len(a) + 1 = i /\ Len(a) \in Nat
  BY <1>1, <1>4, <1>5
<1>7. s = Join(a, b)
  <2>1. Len(s) = Len(a) + Len(b)
    BY <1>1, <1>4, <1>5
  <2>2. \A j \in 1..Len(a) : s[j] = a[j]
    BY <1>1, <1>4
  <2>3. ASSUME NEW j \in 1..Len(b) PROVE s[Len(a) + j] = b[j]
    <3>0. i \in Nat /\ j \in Nat
      BY <1>1, <1>5
    <3>1. Len(a) + j = i + j - 1 /\ j \in 1..(n + 1 - i)
      <4>1. j \in 1..(n + 1 - i)
        BY <1>5
      <4>2. QED
        BY <1>6, <3>0, <4>1
    <3>2. QED
      BY <1>5, <3>1
  <2>4. Laid(s, a, b)
    BY <2>1, <2>2, <2>3 DEF Laid
  <2>5. QED
    BY <1>6, <2>4, JoinIs
<1>8. PICK o : o = One(x)
  OBVIOUS
<1>9. IsSeq(o)
  BY <1>8, OneSeq
<1>10. InsertAt(s, i, x) = Join(Join(a, o), b)
  BY <1>6, <1>7, <1>8, InsertMid
<1>11. IsSeq(Join(l, a)) /\ IsSeq(Join(b, r))
  BY <1>6, JoinSeq
<1>12. Len(Join(l, a)) + 1 = Len(l) + i
  <2>1. Len(Join(l, a)) = Len(l) + Len(a) /\ Len(l) \in Nat
    BY <1>6, JoinLen
  <2>2. QED
    BY <1>6, <2>1
<1>13. InsertAt(Join(Join(l, a), Join(b, r)), Len(Join(l, a)) + 1, x) = Join(Join(Join(l, a), o), Join(b, r))
  BY <1>8, <1>11, InsertMid
<1>14. Join(Join(l, s), r) = Join(Join(l, a), Join(b, r))
  BY <1>6, <1>7, JoinJoin, JoinSeq
<1>15. Join(Join(Join(l, a), o), Join(b, r)) = Join(Join(l, Join(Join(a, o), b)), r)
  BY <1>6, <1>9, JoinJoin, JoinSeq
<1>16. QED
  BY <1>10, <1>12, <1>13, <1>14, <1>15

\* Two elements and what is around them.
TwoParts(s, i, j, m) ==
    /\ IsSeq(m) /\ Before(s, j) = Join(Join(Before(s, i), One(s[i])), m)
    /\ s = Join(Join(Join(Join(Before(s, i), One(s[i])), m), One(s[j])), After(s, j))
    /\ j = Len(Before(s, i)) + Len(m) + 2 /\ i \in 1..Len(Before(s, j))

\* A sequence around two of its places.
LEMMA TwoAround ==
    ASSUME NEW s, IsSeq(s), NEW i \in 1..Len(s), NEW j \in 1..Len(s), i < j,
           NEW m, m = After(Before(s, j), i)
    PROVE  TwoParts(s, i, j, m)
<1>1. PICK n \in Nat : n = Len(s)
  BY DEF IsSeq
<1>2. PICK b : b = Before(s, j)
  OBVIOUS
<1>3. IsSeq(b) /\ Len(b) = j - 1 /\ s = Join(Join(b, One(s[j])), After(s, j))
  BY <1>2, Around
<1>4. i \in 1..Len(b) /\ i \in 1..(j - 1)
  BY <1>1, <1>3
<1>5. b[i] = s[i]
  BY <1>2, <1>4, AroundAt
<1>6. m = After(b, i)
  BY <1>2
<1>7. Before(b, i) = Before(s, i)
  <2>1. j - 1 \in Nat /\ j - 1 <= Len(s) /\ i - 1 \in Nat /\ i - 1 <= j - 1
    BY <1>1, <1>4
  <2>2. SubSeq(SubSeq(s, 1, j - 1), 1, i - 1) = SubSeq(s, 1, i - 1)
    BY <2>1, SubSub
  <2>3. QED
    BY <1>2, <2>2 DEF Before
<1>8. IsSeq(m) /\ b = Join(Join(Before(b, i), One(b[i])), m) /\ Len(m) = Len(b) - i /\ Len(Before(b, i)) = i - 1
  <2>1. IsSeq(b) /\ i \in 1..Len(b)
    BY <1>3, <1>4
  <2>2. /\ IsSeq(After(b, i)) /\ b = Join(Join(Before(b, i), One(b[i])), After(b, i))
        /\ Len(After(b, i)) = Len(b) - i /\ Len(Before(b, i)) = i - 1
    BY <2>1, Around
  <2>3. QED
    BY <1>6, <2>2
<1>9. j = Len(Before(s, i)) + Len(m) + 2
  BY <1>1, <1>3, <1>7, <1>8
<1>10. b = Join(Join(Before(s, i), One(s[i])), m)
  BY <1>5, <1>7, <1>8
<1>11. QED
  BY <1>2, <1>3, <1>4, <1>8, <1>9, <1>10 DEF TwoParts

(***************************************************************************)
(* The rules before and behind a number, and the edits there.              *)
(***************************************************************************)
\* The rules before rule p of entry e, and those after it.
Ahead(es, p) == Join(Leafs(Before(es, p[1])), Before(es[p[1]].rules, p[2]))
\* The rules after place p, those of its own entry first.
Behind(es, p) == Join(After(es[p[1]].rules, p[2]), Leafs(After(es, p[1])))

\* The rules before an entry, its own and those after it.
LEMMA LeafsAround ==
    ASSUME NEW es, Sound(es), NEW i \in 1..Len(es)
    PROVE  /\ IsSeq(Leafs(Before(es, i))) /\ IsSeq(Leafs(After(es, i))) /\ IsSeq(es[i].rules)
           /\ Leafs(es) = Join(Join(Leafs(Before(es, i)), es[i].rules), Leafs(After(es, i)))
<1>1. PICK a : a = Before(es, i)
  OBVIOUS
<1>2. PICK b : b = After(es, i)
  OBVIOUS
<1>3. PICK e : e = es[i]
  OBVIOUS
<1>4. Sound(a) /\ Sound(b) /\ SoundEntry(e)
  BY <1>1, <1>2, <1>3, SoundAround
<1>5. Rowed(a) /\ Rowed(b) /\ IsSeq(e.rules)
  BY <1>4, SoundRowed, EntryRules DEF RuleSeq
<1>6. Leafs(One(e)) = e.rules /\ Rowed(One(e))
  BY <1>5, LeafsOne
<1>7. es = Join(Join(a, One(e)), b)
  BY <1>1, <1>2, <1>3, SoundRowed, Around
<1>8. Rowed(Join(a, One(e)))
  BY <1>5, <1>6, RowedJoin
<1>9. Leafs(Join(a, One(e))) = Join(Leafs(a), e.rules)
  BY <1>5, <1>6, LeafsJoin
<1>10. Leafs(es) = Join(Leafs(Join(a, One(e))), Leafs(b))
  BY <1>5, <1>7, <1>8, LeafsJoin
<1>11. QED
  BY <1>1, <1>2, <1>3, <1>5, <1>9, <1>10, LeafsSeq

\* The rules of the entries with one entry replaced.
LEMMA LeafsWith ==
    ASSUME NEW es, Sound(es), NEW i \in 1..Len(es), NEW d, IsSeq(d.rules)
    PROVE  Leafs(With(es, i, d)) = Join(Join(Leafs(Before(es, i)), d.rules), Leafs(After(es, i)))
<1>1. PICK a : a = Before(es, i)
  OBVIOUS
<1>2. PICK b : b = After(es, i)
  OBVIOUS
<1>3. Rowed(a) /\ Rowed(b)
  BY <1>1, <1>2, SoundAround, SoundRowed
<1>4. Leafs(One(d)) = d.rules /\ Rowed(One(d))
  BY LeafsOne
<1>5. With(es, i, d) = Join(Join(a, One(d)), b)
  BY <1>1, <1>2, SoundRowed, WithIs
<1>6. Rowed(Join(a, One(d)))
  BY <1>3, <1>4, RowedJoin
<1>7. Leafs(Join(a, One(d))) = Join(Leafs(a), d.rules)
  BY <1>3, <1>4, LeafsJoin
<1>8. Leafs(Join(Join(a, One(d)), b)) = Join(Leafs(Join(a, One(d))), Leafs(b))
  BY <1>3, <1>6, LeafsJoin
<1>9. QED
  BY <1>1, <1>2, <1>5, <1>7, <1>8

\* The rule with number k stands behind k - 1 others.
LEMMA LeafAt ==
    ASSUME NEW es, Sound(es), NEW k \in 1..Len(Leafs(es)), NEW p, p = RuleAt(es, k)
    PROVE  /\ IsSeq(Ahead(es, p)) /\ IsSeq(Behind(es, p)) /\ k = Len(Ahead(es, p)) + 1
           /\ Leafs(es) = Join(Join(Ahead(es, p), One(es[p[1]].rules[p[2]])), Behind(es, p))
<1>1. /\ p[1] \in 1..Len(es) /\ p[2] \in 1..Len(es[p[1]].rules)
      /\ k = Len(Leafs(Before(es, p[1]))) + p[2]
  BY RuleAtIs
<1>2. PICK la : la = Leafs(Before(es, p[1]))
  OBVIOUS
<1>3. PICK lb : lb = Leafs(After(es, p[1]))
  OBVIOUS
<1>4. PICK rs : rs = es[p[1]].rules
  OBVIOUS
<1>5. IsSeq(la) /\ IsSeq(lb) /\ IsSeq(rs) /\ Leafs(es) = Join(Join(la, rs), lb)
  BY <1>1, <1>2, <1>3, <1>4, LeafsAround
<1>6. PICK j : j = p[2]
  OBVIOUS
<1>7. j \in 1..Len(rs)
  BY <1>1, <1>4, <1>6
<1>8. PICK a : a = Before(rs, j)
  OBVIOUS
<1>9. PICK b : b = After(rs, j)
  OBVIOUS
<1>10. PICK o : o = One(rs[j])
  OBVIOUS
<1>11. IsSeq(a) /\ IsSeq(b) /\ Len(a) + 1 = j /\ rs = Join(Join(a, o), b)
  BY <1>5, <1>7, <1>8, <1>9, <1>10, Around
<1>12. IsSeq(o)
  BY <1>10, OneSeq
<1>13. Join(Join(la, rs), lb) = Join(Join(Join(la, a), o), Join(b, lb))
  BY <1>5, <1>11, <1>12, JoinJoin, JoinSeq
<1>14. IsSeq(Join(la, a)) /\ IsSeq(Join(b, lb))
  BY <1>5, <1>11, JoinSeq
<1>15. Len(Join(la, a)) = Len(la) + Len(a) /\ Len(la) \in Nat /\ Len(a) \in Nat
  BY <1>5, <1>11, JoinLen
<1>16. k = Len(Join(la, a)) + 1
  BY <1>1, <1>2, <1>6, <1>11, <1>15
<1>17. Ahead(es, p) = Join(la, a) /\ Behind(es, p) = Join(b, lb)
  BY <1>2, <1>3, <1>4, <1>6, <1>8, <1>9 DEF Ahead, Behind
<1>18. One(es[p[1]].rules[p[2]]) = o
  BY <1>4, <1>6, <1>10
<1>19. QED
  BY <1>5, <1>13, <1>14, <1>16, <1>17, <1>18

\* The rules of entry i after its rules became rs, in which those at j did.
LEMMA LeafAlone ==
    ASSUME NEW es, Sound(es), NEW i \in 1..Len(es), es[i].id = NoCat, NEW p, p[1] = i,
           p[2] \in 1..Len(es[i].rules)
    PROVE  /\ Ahead(es, p) = Leafs(Before(es, i)) /\ Behind(es, p) = Leafs(After(es, i))
           /\ p[2] = 1 /\ es[i].rules = One(es[i].rules[1])
<1>1. PICK e : e = es[i]
  OBVIOUS
<1>2. SoundEntry(e)
  BY <1>1, SoundAround
<1>3. e.rules = One(e.rules[1]) /\ Len(e.rules) = 1 /\ IsSeq(e.rules)
  BY <1>1, <1>2, StandaloneOne, EntryRules DEF RuleSeq
<1>4. p[2] = 1 /\ 1 \in 1..Len(e.rules)
  BY <1>1, <1>3
<1>5. IsSeq(Before(e.rules, 1)) /\ Len(Before(e.rules, 1)) = 1 - 1 /\ IsSeq(After(e.rules, 1))
      /\ Len(After(e.rules, 1)) = Len(e.rules) - 1
  BY <1>3, <1>4, Around
<1>6. Len(Before(e.rules, 1)) = 0 /\ Len(After(e.rules, 1)) = 0
  BY <1>3, <1>5
<1>7. Before(e.rules, 1) = <<>> /\ After(e.rules, 1) = <<>>
  BY <1>5, <1>6, NothingElse
<1>8. IsSeq(Leafs(Before(es, i))) /\ IsSeq(Leafs(After(es, i)))
  BY LeafsAround
<1>9. QED
  BY <1>1, <1>3, <1>4, <1>7, <1>8, JoinNothing DEF Ahead, Behind

\* Deleting a rule takes it out of the list and moves no other.
LEMMA LeafsDeleted ==
    ASSUME NEW es, Sound(es), NEW k \in 1..Len(Leafs(es)), NEW p, p = RuleAt(es, k)
    PROVE  Leafs(Deleted(es, k)) = Join(Ahead(es, p), Behind(es, p))
<1>1. p[1] \in 1..Len(es) /\ p[2] \in 1..Len(es[p[1]].rules) /\ SoundEntry(es[p[1]])
  BY RuleAtIs
<1>2. PICK i : i = p[1]
  OBVIOUS
<1>3. PICK j : j = p[2]
  OBVIOUS
<1>4. PICK e : e = es[i]
  OBVIOUS
<1>5. i \in 1..Len(es) /\ j \in 1..Len(e.rules) /\ SoundEntry(e)
  BY <1>1, <1>2, <1>3, <1>4
<1>6. PICK la : la = Leafs(Before(es, i))
  OBVIOUS
<1>7. PICK lb : lb = Leafs(After(es, i))
  OBVIOUS
<1>8. IsSeq(la) /\ IsSeq(lb) /\ IsSeq(e.rules)
  BY <1>4, <1>5, <1>6, <1>7, LeafsAround
<1>9. CASE e.id = NoCat
  <2>1. Deleted(es, k) = RemoveAt(es, i)
    BY <1>2, <1>4, <1>9 DEF Deleted
  <2>2. RemoveAt(es, i) = Join(Before(es, i), After(es, i))
    BY <1>5, SoundRowed, TakenOutLen
  <2>3. Rowed(Before(es, i)) /\ Rowed(After(es, i))
    BY <1>5, SoundAround, SoundRowed
  <2>4. Leafs(Join(Before(es, i), After(es, i))) = Join(la, lb)
    BY <1>6, <1>7, <2>3, LeafsJoin
  <2>5. Ahead(es, p) = la /\ Behind(es, p) = lb
    BY <1>2, <1>3, <1>4, <1>5, <1>6, <1>7, <1>9, LeafAlone
  <2>6. QED
    BY <2>1, <2>2, <2>4, <2>5
<1>10. CASE e.id # NoCat
  <2>1. PICK d : d = [e EXCEPT !.rules = RemoveAt(e.rules, j)]
    OBVIOUS
  <2>2. Deleted(es, k) = With(es, i, d)
    BY <1>2, <1>3, <1>4, <1>10, <2>1 DEF Deleted, With
  <2>3. d.rules = RemoveAt(e.rules, j)
    <3>1. RuleSeq(RemoveAt(e.rules, j))
      BY <1>5, EntryRules, RuleTakenOut
    <3>2. QED
      BY <1>5, <2>1, <3>1, OtherRules DEF SoundEntry
  <2>4. PICK a : a = Before(e.rules, j)
    OBVIOUS
  <2>5. PICK b : b = After(e.rules, j)
    OBVIOUS
  <2>6. IsSeq(a) /\ IsSeq(b)
    BY <1>5, <1>8, <2>4, <2>5, Around
  <2>7. d.rules = Join(a, b) /\ IsSeq(d.rules)
    BY <1>5, <1>8, <2>3, <2>4, <2>5, TakenOutLen
  <2>8. Leafs(With(es, i, d)) = Join(Join(la, d.rules), lb)
    BY <1>5, <1>6, <1>7, <2>7, LeafsWith
  <2>9. Join(Join(la, Join(a, b)), lb) = Join(Join(la, a), Join(b, lb))
    BY <1>8, <2>6, JoinJoin, JoinSeq
  <2>10. Ahead(es, p) = Join(la, a) /\ Behind(es, p) = Join(b, lb)
    BY <1>2, <1>3, <1>4, <1>6, <1>7, <2>4, <2>5 DEF Ahead, Behind
  <2>11. QED
    BY <2>2, <2>7, <2>8, <2>9, <2>10
<1>11. QED
  BY <1>9, <1>10

\* Another rule r in the place of rule k.
Substituted(es, p, r) == With(es, p[1], [es[p[1]] EXCEPT !.rules = With(es[p[1]].rules, p[2], r)])

\* Replacing a rule replaces it in the list and moves no other.
LEMMA LeafsSubstituted ==
    ASSUME NEW es, Sound(es), NEW k \in 1..Len(Leafs(es)), NEW p, p = RuleAt(es, k), NEW r, IsRule(r)
    PROVE  Leafs(Substituted(es, p, r)) = With(Leafs(es), k, r)
<1>1. p[1] \in 1..Len(es) /\ p[2] \in 1..Len(es[p[1]].rules) /\ SoundEntry(es[p[1]])
  BY RuleAtIs
<1>2. PICK i : i = p[1]
  OBVIOUS
<1>3. PICK j : j = p[2]
  OBVIOUS
<1>4. PICK e : e = es[i]
  OBVIOUS
<1>5. i \in 1..Len(es) /\ j \in 1..Len(e.rules) /\ SoundEntry(e)
  BY <1>1, <1>2, <1>3, <1>4
<1>6. PICK la : la = Leafs(Before(es, i))
  OBVIOUS
<1>7. PICK lb : lb = Leafs(After(es, i))
  OBVIOUS
<1>8. IsSeq(la) /\ IsSeq(lb) /\ IsSeq(e.rules)
  BY <1>4, <1>5, <1>6, <1>7, LeafsAround
<1>9. PICK rs : rs = With(e.rules, j, r)
  OBVIOUS
<1>10. PICK a : a = Before(e.rules, j)
  OBVIOUS
<1>11. PICK b : b = After(e.rules, j)
  OBVIOUS
<1>12. PICK o : o = One(r) /\ IsSeq(o)
  BY OneSeq
<1>13. IsSeq(a) /\ IsSeq(b)
  BY <1>5, <1>8, <1>10, <1>11, Around
<1>14. rs = Join(Join(a, o), b) /\ IsSeq(rs)
  BY <1>5, <1>8, <1>9, <1>10, <1>11, <1>12, WithIs, WithAt
<1>15. PICK d : d = [e EXCEPT !.rules = rs]
  OBVIOUS
<1>16. d.rules = rs
  <2>1. PICK x, y, z, w : e = [id |-> x, name |-> y, off |-> z, rules |-> w]
    BY <1>5 DEF SoundEntry, IsEntry
  <2>2. QED
    BY <1>15, <2>1
<1>17. Substituted(es, p, r) = With(es, i, d)
  BY <1>2, <1>3, <1>4, <1>9, <1>15 DEF Substituted
<1>18. Leafs(With(es, i, d)) = Join(Join(la, rs), lb)
  BY <1>5, <1>6, <1>7, <1>14, <1>16, LeafsWith
<1>19. Join(Join(la, rs), lb) = Join(Join(Join(la, a), o), Join(b, lb))
  <2>1. IsSeq(la) /\ IsSeq(lb) /\ IsSeq(a) /\ IsSeq(b) /\ IsSeq(o) /\ rs = Join(Join(a, o), b)
    BY <1>8, <1>12, <1>13, <1>14
  <2>2. QED
    BY <2>1, JoinJoin, JoinSeq
<1>20. PICK u : u = Ahead(es, p)
  OBVIOUS
<1>21. PICK w : w = Behind(es, p)
  OBVIOUS
<1>22. u = Join(la, a) /\ w = Join(b, lb)
  BY <1>2, <1>3, <1>4, <1>6, <1>7, <1>10, <1>11, <1>20, <1>21 DEF Ahead, Behind
<1>23. PICK x : x = es[p[1]].rules[p[2]]
  OBVIOUS
<1>24. PICK old : old = Leafs(es)
  OBVIOUS
<1>25. IsSeq(u) /\ IsSeq(w) /\ k = Len(u) + 1 /\ old = Join(Join(u, One(x)), w)
  BY <1>20, <1>21, <1>23, <1>24, LeafAt
<1>26. IsSeq(old) /\ k \in 1..Len(old) /\ Before(old, k) = u /\ After(old, k) = w
  BY <1>25, JoinThree
<1>27. With(old, k, r) = Join(Join(u, One(r)), w)
  BY <1>26, WithIs
<1>28. QED
  BY <1>12, <1>17, <1>18, <1>19, <1>22, <1>24, <1>27

\* Putting a rule in a category, or alone, inserts it in the list and moves
\* no other.
LEMMA LeafsPut ==
    ASSUME NEW es, Sound(es), NEW r, IsRule(r), NEW id, HasCat(es, id)
    PROVE  \E u, w : /\ IsSeq(u) /\ IsSeq(w) /\ Leafs(es) = Join(u, w)
                     /\ Leafs(Put(es, r, id)) = Join(Join(u, One(r)), w)
<1>1. IsSeq(es) /\ DOMAIN es = 1..Len(es) /\ Rowed(es)
  BY SoundRowed
<1>2. CASE id = NoCat
  <2>1. Put(es, r, id) = Append(es, Standalone(r))
    BY <1>2 DEF Put
  <2>2. Append(es, Standalone(r)) = Join(es, One(Standalone(r)))
    BY <1>1, AppendIs DEF Join, One
  <2>3. Rowed(One(Standalone(r))) /\ Leafs(One(Standalone(r))) = One(r)
    BY SoundStandalone
  <2>4. Leafs(Put(es, r, id)) = Join(Leafs(es), One(r))
    BY <1>1, <2>1, <2>2, <2>3, LeafsJoin
  <2>5. PICK u : u = Leafs(es) /\ IsSeq(u)
    BY <1>1, LeafsSeq
  <2>6. PICK o : o = One(r) /\ IsSeq(o)
    BY OneSeq
  <2>7. IsSeq(Join(u, o)) /\ IsSeq(<<>>)
    BY <2>5, <2>6, JoinSeq, Nothing
  <2>8. Join(u, <<>>) = u /\ Join(Join(u, o), <<>>) = Join(u, o)
    BY <2>5, <2>7, JoinNothing
  <2>9. QED
    BY <2>4, <2>5, <2>6, <2>7, <2>8
<1>3. CASE id # NoCat
  <2>1. PICK c : c = CategoryAt(es, id)
    OBVIOUS
  <2>2. c \in 1..Len(es) /\ es[c].id = id
    <3>1. \E i \in DOMAIN es : es[i].id = id
      BY <1>1, <1>3 DEF HasCat
    <3>2. CategoryAt(es, id) \in DOMAIN es /\ es[CategoryAt(es, id)].id = id
      BY <3>1, Zenon DEF CategoryAt
    <3>3. QED
      BY <1>1, <2>1, <3>2
  <2>3. PICK e : e = es[c]
    OBVIOUS
  <2>4. SoundEntry(e)
    BY <2>2, <2>3 DEF Sound
  <2>5. PICK d : d = [e EXCEPT !.rules = Append(e.rules, r)]
    OBVIOUS
  <2>6. Put(es, r, id) = With(es, c, d)
    BY <1>1, <1>3, <2>1, <2>2, <2>3, <2>5 DEF Put, With
  <2>7. PICK rs : rs = e.rules
    OBVIOUS
  <2>8. IsSeq(rs) /\ RuleSeq(Append(rs, r)) /\ Append(rs, r) = Join(rs, One(r))
    BY <2>4, <2>7, EntryRules, RulesAppended DEF RuleSeq
  <2>9. d.rules = Join(rs, One(r)) /\ IsSeq(d.rules)
    BY <2>4, <2>5, <2>7, <2>8, OtherRules DEF SoundEntry, RuleSeq
  <2>10. PICK la : la = Leafs(Before(es, c))
    OBVIOUS
  <2>11. PICK lb : lb = Leafs(After(es, c))
    OBVIOUS
  <2>12. IsSeq(la) /\ IsSeq(lb) /\ Leafs(es) = Join(Join(la, rs), lb)
    BY <2>2, <2>3, <2>7, <2>10, <2>11, LeafsAround
  <2>13. Leafs(With(es, c, d)) = Join(Join(la, d.rules), lb)
    BY <2>2, <2>9, <2>10, <2>11, LeafsWith
  <2>14. PICK o : o = One(r) /\ IsSeq(o)
    BY OneSeq
  <2>15. IsSeq(la) /\ IsSeq(rs) /\ IsSeq(o)
    BY <2>8, <2>12, <2>14
  <2>16. Join(la, Join(rs, o)) = Join(Join(la, rs), o) /\ IsSeq(Join(la, rs))
    BY <2>15, JoinJoin, JoinSeq
  <2>17. QED
    BY <2>6, <2>9, <2>12, <2>13, <2>14, <2>16
<1>4. QED
  BY <1>2, <1>3

\* The nested EXCEPT of the commands as a replaced rule.
LEMMA SubstitutedIs ==
    ASSUME NEW es, NEW p, NEW r
    PROVE  [es EXCEPT ![p[1]].rules[p[2]] = r] = Substituted(es, p, r)
BY DEF Substituted, With

\* Switching rule k switches the k-th of the list.
LEMMA LeafsToggled ==
    ASSUME NEW es, Sound(es), NEW k \in 1..Len(Leafs(es))
    PROVE  Leafs(Toggled(es, k, TRUE)) = [Leafs(es) EXCEPT ![k].off = TRUE]
<1>1. PICK p : p = RuleAt(es, k)
  OBVIOUS
<1>2. PICK x : x = es[p[1]].rules[p[2]]
  OBVIOUS
<1>3. IsRule(x)
  BY <1>1, <1>2, RuleAtIs
<1>4. PICK r : r = [x EXCEPT !.off = TRUE]
  OBVIOUS
<1>5. IsRule(r)
  BY <1>3, <1>4, RuleOff
<1>6. Toggled(es, k, TRUE) = Substituted(es, p, r)
  BY <1>1, <1>2, <1>4 DEF Toggled, Substituted, With
<1>7. PICK old : old = Leafs(es)
  OBVIOUS
<1>8. Leafs(Substituted(es, p, r)) = With(old, k, r)
  BY <1>1, <1>5, <1>7, LeafsSubstituted
<1>9. old[k] = x
  <2>1. PICK u : u = Ahead(es, p)
    OBVIOUS
  <2>2. PICK w : w = Behind(es, p)
    OBVIOUS
  <2>3. IsSeq(u) /\ IsSeq(w) /\ k = Len(u) + 1 /\ old = Join(Join(u, One(x)), w)
    BY <1>1, <1>2, <1>7, <2>1, <2>2, LeafAt
  <2>4. QED
    BY <2>3, JoinThree
<1>10. With(old, k, r) = [old EXCEPT ![k].off = TRUE]
  BY <1>4, <1>9 DEF With
<1>11. QED
  BY <1>6, <1>7, <1>8, <1>10

\* A rule that is edited but stays, or goes to another category.
LEMMA LeafsAssigned ==
    ASSUME NEW es, Sound(es), NEW k \in 1..Len(Leafs(es)), NEW id, HasCat(es, id),
           NEW r, r = Leafs(es)[k], NEW new, new = Leafs(AssignRule(es, r, k, id))
    PROVE  \E j \in 1..Len(Leafs(es)) : new[j] = r /\ RemoveAt(new, j) = RemoveAt(Leafs(es), k)
<1>1. PICK p : p = RuleAt(es, k)
  OBVIOUS
<1>2. PICK e : e = es[p[1]]
  OBVIOUS
<1>3. PICK x : x = e.rules[p[2]]
  OBVIOUS
<1>4. p[1] \in 1..Len(es) /\ p[2] \in 1..Len(e.rules) /\ SoundEntry(e) /\ IsRule(x)
  BY <1>1, <1>2, <1>3, RuleAtIs
<1>5. PICK u : u = Ahead(es, p)
  OBVIOUS
<1>6. PICK w : w = Behind(es, p)
  OBVIOUS
<1>7. PICK old : old = Leafs(es)
  OBVIOUS
<1>8. IsSeq(u) /\ IsSeq(w) /\ k = Len(u) + 1 /\ old = Join(Join(u, One(x)), w)
  BY <1>1, <1>2, <1>3, <1>5, <1>6, <1>7, LeafAt
<1>9. IsSeq(old) /\ Len(old) = Len(u) + 1 + Len(w) /\ old[k] = x /\ Len(u) \in Nat /\ Len(w) \in Nat
  BY <1>8, JoinThree
<1>10. r = x /\ IsRule(r)
  BY <1>4, <1>7, <1>9
<1>11. RemoveAt(old, k) = Join(u, w)
  BY <1>8, RemoveMid
<1>12. k # 0
  BY <1>8, <1>9
<1>13. CASE e.id = id
  <2>1. AssignRule(es, r, k, id) = Substituted(es, p, r)
    BY <1>1, <1>2, <1>12, <1>13, SubstitutedIs DEF AssignRule
  <2>2. new = With(old, k, r)
    BY <1>1, <1>7, <1>10, <2>1, LeafsSubstituted
  <2>3. IsSeq(new) /\ Len(new) = Len(old) /\ new[k] = r /\ \A j \in 1..Len(old) : j # k => new[j] = old[j]
    BY <1>7, <1>9, <2>2, WithAt
  <2>4. \A j \in 1..Len(new) : new[j] = old[j]
    BY <1>9, <1>10, <2>3
  <2>5. new = old
    BY <1>9, <2>3, <2>4, SeqSame
  <2>6. QED
    BY <1>7, <1>9, <1>10, <2>5
<1>14. CASE e.id # id
  <2>1. AssignRule(es, r, k, id) = Put(Deleted(es, k), r, id)
    BY <1>1, <1>2, <1>12, <1>14 DEF AssignRule
  <2>2. PICK del : del = Deleted(es, k)
    OBVIOUS
  <2>3. Sound(del) /\ HasCat(del, id)
    BY <1>1, <1>2, <1>14, <2>2, SoundDeleted, DeletedSound
  <2>4. Leafs(del) = Join(u, w)
    BY <1>1, <1>5, <1>6, <2>2, LeafsDeleted
  <2>5. PICK a, b : IsSeq(a) /\ IsSeq(b) /\ Leafs(del) = Join(a, b) /\ new = Join(Join(a, One(r)), b)
    BY <1>10, <2>1, <2>2, <2>3, LeafsPut
  <2>6. PICK j : j = Len(a) + 1
    OBVIOUS
  <2>7. new[j] = r /\ Len(a) \in Nat /\ Len(b) \in Nat
    BY <2>5, <2>6, JoinThree
  <2>8. RemoveAt(new, j) = Join(a, b)
    BY <2>5, <2>6, RemoveMid
  <2>9. Len(Join(a, b)) = Len(a) + Len(b)
    BY <2>5, JoinLen
  <2>10. Len(Join(u, w)) = Len(u) + Len(w)
    BY <1>8, JoinLen
  <2>11. Len(a) + Len(b) = Len(u) + Len(w)
    BY <2>4, <2>5, <2>9, <2>10
  <2>12. j \in 1..Len(old)
    BY <1>9, <2>6, <2>7, <2>11
  <2>13. QED
    BY <1>7, <1>11, <2>4, <2>5, <2>7, <2>8, <2>12
<1>15. QED
  BY <1>13, <1>14

(***************************************************************************)
(* A rule moved from one entry to another.                                 *)
(***************************************************************************)
\* The rules of entries and a standalone rule behind them.
LEMMA LeafsThen ==
    ASSUME NEW a, Rowed(a), NEW e, NEW x, e.rules = One(x)
    PROVE  Rowed(Join(a, One(e))) /\ Leafs(Join(a, One(e))) = Join(Leafs(a), One(x))
<1>1. IsSeq(e.rules)
  BY OneSeq
<1>2. Leafs(One(e)) = e.rules /\ Rowed(One(e))
  BY <1>1, LeafsOne
<1>3. QED
  BY <1>2, LeafsJoin, RowedJoin

\* The rules of entries around two standalone ones, in each order the two may
\* take.
LEMMA LeafsFive ==
    ASSUME NEW a, Rowed(a), NEW e, NEW x, e.rules = One(x), NEW m, Rowed(m), NEW g, NEW y, g.rules = One(y),
           NEW c, Rowed(c)
    PROVE  /\ Leafs(Join(Join(Join(Join(a, One(e)), m), One(g)), c))
                = Join(Join(Join(Join(Leafs(a), One(x)), Leafs(m)), One(y)), Leafs(c))
           /\ Leafs(Join(Join(a, One(e)), m)) = Join(Join(Leafs(a), One(x)), Leafs(m))
           /\ Leafs(Join(Join(Join(Join(a, m), One(g)), One(e)), c))
                = Join(Join(Join(Join(Leafs(a), Leafs(m)), One(y)), One(x)), Leafs(c))
           /\ Leafs(Join(Join(Join(Join(a, One(g)), One(e)), m), c))
                = Join(Join(Join(Join(Leafs(a), One(y)), One(x)), Leafs(m)), Leafs(c))
<1>1. PICK ae : ae = Join(a, One(e))
  OBVIOUS
<1>2. Rowed(ae) /\ Leafs(ae) = Join(Leafs(a), One(x))
  BY <1>1, LeafsThen
<1>3. PICK aem : aem = Join(ae, m)
  OBVIOUS
<1>4. Rowed(aem) /\ Leafs(aem) = Join(Leafs(ae), Leafs(m))
  BY <1>2, <1>3, LeafsJoin, RowedJoin
<1>5. PICK aemg : aemg = Join(aem, One(g))
  OBVIOUS
<1>6. Rowed(aemg) /\ Leafs(aemg) = Join(Leafs(aem), One(y))
  BY <1>4, <1>5, LeafsThen
<1>7. Leafs(Join(aemg, c)) = Join(Leafs(aemg), Leafs(c))
  BY <1>6, LeafsJoin
<1>8. PICK am : am = Join(a, m)
  OBVIOUS
<1>9. Rowed(am) /\ Leafs(am) = Join(Leafs(a), Leafs(m))
  BY <1>8, LeafsJoin, RowedJoin
<1>10. PICK amg : amg = Join(am, One(g))
  OBVIOUS
<1>11. Rowed(amg) /\ Leafs(amg) = Join(Leafs(am), One(y))
  BY <1>9, <1>10, LeafsThen
<1>12. PICK amge : amge = Join(amg, One(e))
  OBVIOUS
<1>13. Rowed(amge) /\ Leafs(amge) = Join(Leafs(amg), One(x))
  BY <1>11, <1>12, LeafsThen
<1>14. Leafs(Join(amge, c)) = Join(Leafs(amge), Leafs(c))
  BY <1>13, LeafsJoin
<1>15. PICK ag : ag = Join(a, One(g))
  OBVIOUS
<1>16. Rowed(ag) /\ Leafs(ag) = Join(Leafs(a), One(y))
  BY <1>15, LeafsThen
<1>17. PICK age : age = Join(ag, One(e))
  OBVIOUS
<1>18. Rowed(age) /\ Leafs(age) = Join(Leafs(ag), One(x))
  BY <1>16, <1>17, LeafsThen
<1>19. PICK agem : agem = Join(age, m)
  OBVIOUS
<1>20. Rowed(agem) /\ Leafs(agem) = Join(Leafs(age), Leafs(m))
  BY <1>18, <1>19, LeafsJoin, RowedJoin
<1>21. Leafs(Join(agem, c)) = Join(Leafs(agem), Leafs(c))
  BY <1>20, LeafsJoin
<1>22. Leafs(Join(Join(Join(Join(a, One(e)), m), One(g)), c))
         = Join(Join(Join(Join(Leafs(a), One(x)), Leafs(m)), One(y)), Leafs(c))
  BY <1>1, <1>2, <1>3, <1>4, <1>5, <1>6, <1>7
<1>23. Leafs(Join(Join(a, One(e)), m)) = Join(Join(Leafs(a), One(x)), Leafs(m))
  BY <1>1, <1>2, <1>3, <1>4
<1>24. Leafs(Join(Join(Join(Join(a, m), One(g)), One(e)), c))
         = Join(Join(Join(Join(Leafs(a), Leafs(m)), One(y)), One(x)), Leafs(c))
  BY <1>8, <1>9, <1>10, <1>11, <1>12, <1>13, <1>14
<1>25. Leafs(Join(Join(Join(Join(a, One(g)), One(e)), m), c))
         = Join(Join(Join(Join(Leafs(a), One(y)), One(x)), Leafs(m)), Leafs(c))
  BY <1>15, <1>16, <1>17, <1>18, <1>19, <1>20, <1>21
<1>26. QED
  BY <1>22, <1>23, <1>24, <1>25

\* Two standalone rules x at i and y at j behind it, and all around them.
Pair(es, i, j, a, e, x, m, g, y, c) ==
    /\ Rowed(a) /\ Rowed(m) /\ Rowed(c) /\ IsSeq(a) /\ IsSeq(m) /\ IsSeq(c)
    /\ e.rules = One(x) /\ g.rules = One(y)
    /\ es = Join(Join(Join(Join(a, One(e)), m), One(g)), c)
    /\ i = Len(a) + 1 /\ j = Len(a) + Len(m) + 2
    /\ Before(es, i) = a /\ Before(es, j) = Join(Join(a, One(e)), m)

\* Entries around two standalone rules.
LEMMA PairIs ==
    ASSUME NEW es, Sound(es), NEW i \in 1..Len(es), NEW j \in 1..Len(es), i < j,
           es[i].id = NoCat, es[j].id = NoCat
    PROVE  \E a, m, c : Pair(es, i, j, a, es[i], es[i].rules[1], m, es[j], es[j].rules[1], c)
<1>1. PICK e : e = es[i]
  OBVIOUS
<1>2. PICK g : g = es[j]
  OBVIOUS
<1>3. SoundEntry(e) /\ SoundEntry(g)
  BY <1>1, <1>2, SoundAround
<1>4. e.rules = One(e.rules[1]) /\ g.rules = One(g.rules[1])
  BY <1>1, <1>2, <1>3, StandaloneOne
<1>5. PICK a : a = Before(es, i)
  OBVIOUS
<1>6. PICK c : c = After(es, j)
  OBVIOUS
<1>7. PICK b : b = Before(es, j)
  OBVIOUS
<1>8. PICK m : m = After(b, i)
  OBVIOUS
<1>9. IsSeq(es) /\ Len(es) \in Nat
  BY SoundRowed
<1>10. /\ IsSeq(m) /\ b = Join(Join(a, One(e)), m) /\ es = Join(Join(Join(Join(a, One(e)), m), One(g)), c)
       /\ j = Len(a) + Len(m) + 2 /\ i \in 1..Len(b)
  <2>1. m = After(Before(es, j), i)
    BY <1>7, <1>8
  <2>2. /\ IsSeq(m) /\ Before(es, j) = Join(Join(Before(es, i), One(es[i])), m)
        /\ es = Join(Join(Join(Join(Before(es, i), One(es[i])), m), One(es[j])), After(es, j))
        /\ j = Len(Before(es, i)) + Len(m) + 2 /\ i \in 1..Len(Before(es, j))
    <3>1. TwoParts(es, i, j, m)
      BY <1>9, <2>1, TwoAround
    <3>2. QED
      BY <3>1 DEF TwoParts
  <2>3. QED
    BY <1>1, <1>2, <1>5, <1>6, <1>7, <2>2
<1>11. Sound(a) /\ Sound(b) /\ Sound(c)
  BY <1>5, <1>6, <1>7, SoundAround
<1>12. Sound(m)
  BY <1>8, <1>10, <1>11, SoundAround
<1>13. Rowed(a) /\ Rowed(m) /\ Rowed(c) /\ IsSeq(a) /\ IsSeq(c)
  BY <1>11, <1>12, SoundRowed
<1>14. i = Len(a) + 1
  BY <1>5, <1>9, Around
<1>15. Pair(es, i, j, a, e, e.rules[1], m, g, g.rules[1], c)
  BY <1>4, <1>5, <1>7, <1>10, <1>13, <1>14 DEF Pair
<1>16. QED
  BY <1>1, <1>2, <1>15

\* Moving one of two standalone rules to the other's place does the same in
\* the list.
LEMMA PairLeafs ==
    ASSUME NEW es, NEW i, NEW j, NEW a, NEW e, NEW x, NEW m, NEW g, NEW y, NEW c,
           Pair(es, i, j, a, e, x, m, g, y, c), NEW f, f = Len(Leafs(Before(es, i))) + 1,
           NEW t, t = Len(Leafs(Before(es, j))) + 1
    PROVE  /\ Leafs(InsertAt(RemoveAt(es, i), j, e)) = InsertAt(RemoveAt(Leafs(es), f), t, x)
           /\ Leafs(InsertAt(RemoveAt(es, j), i, g)) = InsertAt(RemoveAt(Leafs(es), t), f, y)
<1>1. /\ Rowed(a) /\ Rowed(m) /\ Rowed(c) /\ IsSeq(a) /\ IsSeq(m) /\ IsSeq(c)
      /\ e.rules = One(x) /\ g.rules = One(y)
      /\ es = Join(Join(Join(Join(a, One(e)), m), One(g)), c)
      /\ i = Len(a) + 1 /\ j = Len(a) + Len(m) + 2
      /\ Before(es, i) = a /\ Before(es, j) = Join(Join(a, One(e)), m)
  BY DEF Pair
<1>2. PICK la : la = Leafs(a)
  OBVIOUS
<1>3. PICK lm : lm = Leafs(m)
  OBVIOUS
<1>4. PICK lc : lc = Leafs(c)
  OBVIOUS
<1>5. IsSeq(la) /\ IsSeq(lm) /\ IsSeq(lc)
  BY <1>1, <1>2, <1>3, <1>4, LeafsSeq
<1>6. PICK old : old = Leafs(es)
  OBVIOUS
<1>7. /\ old = Join(Join(Join(Join(la, One(x)), lm), One(y)), lc)
      /\ Leafs(Before(es, j)) = Join(Join(la, One(x)), lm)
      /\ Leafs(Join(Join(Join(Join(a, m), One(g)), One(e)), c)) = Join(Join(Join(Join(la, lm), One(y)), One(x)), lc)
  BY <1>1, <1>2, <1>3, <1>4, <1>6, LeafsFive
<1>8. Leafs(Join(Join(Join(Join(a, One(g)), One(e)), m), c)) = Join(Join(Join(Join(la, One(y)), One(x)), lm), lc)
  BY <1>1, <1>2, <1>3, <1>4, LeafsFive
<1>9. f = Len(la) + 1
  BY <1>1, <1>2
<1>10. t = Len(la) + Len(lm) + 2
  <2>1. IsSeq(One(x)) /\ Len(One(x)) = 1
    BY OneSeq
  <2>2. IsSeq(Join(la, One(x))) /\ Len(Join(la, One(x))) = Len(la) + 1 /\ Len(la) \in Nat
    BY <1>5, <2>1, JoinSeq, JoinLen
  <2>3. Len(Join(Join(la, One(x)), lm)) = (Len(la) + 1) + Len(lm) /\ Len(lm) \in Nat
    BY <1>5, <2>2, JoinLen
  <2>4. QED
    BY <1>7, <2>2, <2>3
<1>11. InsertAt(RemoveAt(es, i), j, e) = Join(Join(Join(Join(a, m), One(g)), One(e)), c)
  BY <1>1, ShiftRight
<1>12. InsertAt(RemoveAt(old, f), t, x) = Join(Join(Join(Join(la, lm), One(y)), One(x)), lc)
  BY <1>5, <1>7, <1>9, <1>10, ShiftRight
<1>13. InsertAt(RemoveAt(es, j), i, g) = Join(Join(Join(Join(a, One(g)), One(e)), m), c)
  BY <1>1, ShiftLeft
<1>14. InsertAt(RemoveAt(old, t), f, y) = Join(Join(Join(Join(la, One(y)), One(x)), lm), lc)
  BY <1>5, <1>7, <1>9, <1>10, ShiftLeft
<1>15. QED
  BY <1>6, <1>7, <1>8, <1>11, <1>12, <1>13, <1>14

(***************************************************************************)
(* Edits by number change the rule they name: EditsSound.                  *)
(***************************************************************************)
\* Moving a standalone rule does the same in the list.
LEMMA LeafsMovedAlone ==
    ASSUME NEW es, Sound(es), NEW i \in 1..Len(es), NEW j \in 1..Len(es), es[i].id = NoCat, es[j].id = NoCat,
           NEW f, f = Len(Leafs(Before(es, i))) + 1, NEW t, t = Len(Leafs(Before(es, j))) + 1
    PROVE  Leafs(InsertAt(RemoveAt(es, i), j, es[i])) = InsertAt(RemoveAt(Leafs(es), f), t, es[i].rules[1])
<1>1. IsSeq(es) /\ Len(es) \in Nat
  BY SoundRowed
<1>2. CASE i < j
  <2>1. PICK a, m, c : Pair(es, i, j, a, es[i], es[i].rules[1], m, es[j], es[j].rules[1], c)
    BY <1>2, PairIs
  <2>2. QED
    BY <2>1, PairLeafs
<1>3. CASE j < i
  <2>1. PICK a, m, c : Pair(es, j, i, a, es[j], es[j].rules[1], m, es[i], es[i].rules[1], c)
    BY <1>3, PairIs
  <2>2. QED
    BY <2>1, PairLeafs
<1>4. CASE i = j
  <2>1. PICK e : e = es[i]
    OBVIOUS
  <2>2. PICK x : x = e.rules[1]
    OBVIOUS
  <2>3. SoundEntry(e)
    BY <2>1, SoundAround
  <2>4. e.rules = One(x)
    BY <2>1, <2>2, <2>3, StandaloneOne
  <2>5. PICK a : a = Before(es, i)
    OBVIOUS
  <2>6. PICK b : b = After(es, i)
    OBVIOUS
  <2>7. IsSeq(a) /\ IsSeq(b) /\ Len(a) + 1 = i /\ es = Join(Join(a, One(e)), b)
    BY <1>1, <2>1, <2>5, <2>6, Around, ZenonT(30)
  <2>8. InsertAt(RemoveAt(es, i), j, es[i]) = es
    BY <1>4, <2>1, <2>7, ShiftStay
  <2>9. PICK la : la = Leafs(a)
    OBVIOUS
  <2>10. PICK lb : lb = Leafs(b)
    OBVIOUS
  <2>11. IsSeq(la) /\ IsSeq(lb) /\ Leafs(es) = Join(Join(la, One(x)), lb)
    BY <2>1, <2>4, <2>5, <2>6, <2>9, <2>10, LeafsAround
  <2>12. f = Len(la) + 1 /\ t = Len(la) + 1
    BY <1>4, <2>5, <2>9
  <2>13. InsertAt(RemoveAt(Leafs(es), f), t, x) = Leafs(es)
    BY <2>11, <2>12, ShiftStay
  <2>14. QED
    BY <2>1, <2>2, <2>8, <2>13
<1>5. QED
  BY <1>1, <1>2, <1>3, <1>4

\* Moving an element inside the middle part of three.
LEMMA ShiftedInside ==
    ASSUME NEW l, IsSeq(l), NEW s, IsSeq(s), NEW r, IsSeq(r), NEW i \in 1..Len(s), NEW j \in 1..Len(s), NEW x,
           NEW f, f = Len(l) + i, NEW t, t = Len(l) + j
    PROVE  Join(Join(l, InsertAt(RemoveAt(s, i), j, x)), r) = InsertAt(RemoveAt(Join(Join(l, s), r), f), t, x)
<1>1. PICK q : q = RemoveAt(s, i)
  OBVIOUS
<1>2. IsSeq(q) /\ Len(q) = Len(s) - 1 /\ Len(s) \in Nat
  <2>1. Len(s) \in Nat
    BY DEF IsSeq
  <2>2. QED
    BY <1>1, <2>1, TakenOutLen
<1>3. j \in 1..(Len(q) + 1)
  BY <1>2
<1>4. RemoveAt(Join(Join(l, s), r), f) = Join(Join(l, q), r)
  BY <1>1, RemoveInside
<1>5. InsertAt(Join(Join(l, q), r), t, x) = Join(Join(l, InsertAt(q, j, x)), r)
  BY <1>2, <1>3, InsertInside
<1>6. QED
  BY <1>1, <1>4, <1>5

\* Moving a rule to another's place does the same in the list.
LEMMA LeafsMoved ==
    ASSUME NEW es, Sound(es), checkRules(es), NEW f \in 1..Len(Leafs(es)), NEW t \in 1..Len(Leafs(es)),
           SameList(es, f, t)
    PROVE  Leafs(Moved(es, f, t)) = InsertAt(RemoveAt(Leafs(es), f), t, Leafs(es)[f])
<1>1. PICK p : p = RuleAt(es, f)
  OBVIOUS
<1>2. PICK q : q = RuleAt(es, t)
  OBVIOUS
<1>3. PICK i : i = p[1]
  OBVIOUS
<1>4. PICK e : e = es[i]
  OBVIOUS
<1>5. PICK j : j = q[1]
  OBVIOUS
<1>6. /\ i \in 1..Len(es) /\ SoundEntry(e) /\ p[2] \in 1..Len(e.rules) /\ IsRule(e.rules[p[2]])
      /\ f = Len(Leafs(Before(es, i))) + p[2]
  BY <1>1, <1>3, <1>4, RuleAtIs
<1>7. /\ j \in 1..Len(es) /\ q[2] \in 1..Len(es[j].rules) /\ t = Len(Leafs(Before(es, j))) + q[2]
  BY <1>2, <1>5, RuleAtIs
<1>8. e.id = es[j].id
  BY <1>1, <1>2, <1>3, <1>4, <1>5 DEF SameList
<1>9. PICK old : old = Leafs(es)
  OBVIOUS
<1>10. old[f] = e.rules[p[2]]
  <2>1. PICK u : u = Ahead(es, p)
    OBVIOUS
  <2>2. PICK w : w = Behind(es, p)
    OBVIOUS
  <2>3. IsSeq(u) /\ IsSeq(w) /\ f = Len(u) + 1 /\ old = Join(Join(u, One(es[p[1]].rules[p[2]])), w)
    BY <1>1, <1>9, <2>1, <2>2, LeafAt
  <2>4. old[f] = es[p[1]].rules[p[2]]
    BY <2>3, JoinThree
  <2>5. QED
    BY <1>3, <1>4, <2>4
<1>11. CASE e.id = NoCat
  <2>1. Moved(es, f, t) = InsertAt(RemoveAt(es, i), j, es[i])
    BY <1>1, <1>2, <1>3, <1>4, <1>5, <1>11 DEF Moved
  <2>2. p[2] = 1 /\ q[2] = 1
    <3>1. SoundEntry(es[j])
      BY <1>7, SoundAround
    <3>2. Len(e.rules) = 1 /\ Len(es[j].rules) = 1
      BY <1>6, <1>8, <1>11, <3>1, StandaloneOne
    <3>3. QED
      BY <1>6, <1>7, <3>2
  <2>3. Leafs(InsertAt(RemoveAt(es, i), j, es[i])) = InsertAt(RemoveAt(old, f), t, es[i].rules[1])
    BY <1>4, <1>6, <1>7, <1>8, <1>9, <1>11, <2>2, LeafsMovedAlone
  <2>4. QED
    BY <1>4, <1>9, <1>10, <2>1, <2>2, <2>3
<1>12. CASE e.id # NoCat
  <2>1. i = j
    BY <1>4, <1>6, <1>7, <1>8, <1>12, CategoriesApart
  <2>2. PICK rs : rs = e.rules
    OBVIOUS
  <2>3. PICK a : a = p[2]
    OBVIOUS
  <2>4. PICK b : b = q[2]
    OBVIOUS
  <2>5. PICK x : x = rs[a]
    OBVIOUS
  <2>6. PICK new : new = InsertAt(RemoveAt(rs, a), b, x)
    OBVIOUS
  <2>7. PICK la : la = Leafs(Before(es, i))
    OBVIOUS
  <2>8. PICK lb : lb = Leafs(After(es, i))
    OBVIOUS
  <2>9. IsSeq(la) /\ IsSeq(lb) /\ IsSeq(rs) /\ old = Join(Join(la, rs), lb)
    BY <1>4, <1>6, <1>9, <2>2, <2>7, <2>8, LeafsAround
  <2>10. a \in 1..Len(rs) /\ b \in 1..Len(rs) /\ f = Len(la) + a /\ t = Len(la) + b
    BY <1>4, <1>6, <1>7, <2>1, <2>2, <2>3, <2>4, <2>7
  <2>11. RuleSeq(rs)
    BY <1>6, <2>2, EntryRules
  <2>12. RuleSeq(new) /\ IsSeq(new)
    BY <2>5, <2>6, <2>10, <2>11, RulesShifted DEF RuleSeq
  <2>13. PICK d : d = [e EXCEPT !.rules = new]
    OBVIOUS
  <2>14. d.rules = new
    BY <1>6, <2>12, <2>13, OtherRules DEF SoundEntry
  <2>15. Moved(es, f, t) = With(es, i, d)
    BY <1>1, <1>2, <1>3, <1>4, <1>12, <2>2, <2>3, <2>4, <2>5, <2>6, <2>13 DEF Moved, With
  <2>16. Leafs(With(es, i, d)) = Join(Join(la, new), lb)
    BY <1>6, <2>7, <2>8, <2>12, <2>14, LeafsWith
  <2>17. Join(Join(la, new), lb) = InsertAt(RemoveAt(old, f), t, x)
    BY <2>6, <2>9, <2>10, ShiftedInside
  <2>18. QED
    BY <1>9, <1>10, <2>2, <2>3, <2>5, <2>15, <2>16, <2>17
<1>13. QED
  BY <1>11, <1>12

\* Every command changes the rule its number names, and only this.
LEMMA EditsAreByIndex ==
    ASSUME RulesStored
    PROVE  EditsByIndex
<1>1. Sound(entries) /\ checkRules(entries)
  BY StoredRules DEF Stored
<1>2. DOMAIN entries = 1..Len(entries)
  BY <1>1, SoundRowed
<1>3. PICK old : old = Leafs(entries)
  OBVIOUS
<1>4. Indices = 1..Len(old)
  BY <1>3 DEF Indices
<1>5. ASSUME NEW f \in Indices, NEW t \in Indices, SameList(entries, f, t)
      PROVE  Leafs(Moved(entries, f, t)) = InsertAt(RemoveAt(old, f), t, old[f])
  BY <1>1, <1>3, <1>4, <1>5, LeafsMoved
<1>6. ASSUME NEW k \in Indices
      PROVE  Leafs(Deleted(entries, k)) = RemoveAt(old, k)
  <2>1. PICK p : p = RuleAt(entries, k)
    OBVIOUS
  <2>2. PICK u : u = Ahead(entries, p)
    OBVIOUS
  <2>3. PICK w : w = Behind(entries, p)
    OBVIOUS
  <2>4. PICK x : x = entries[p[1]].rules[p[2]]
    OBVIOUS
  <2>5. IsSeq(u) /\ IsSeq(w) /\ k = Len(u) + 1 /\ old = Join(Join(u, One(x)), w)
    BY <1>1, <1>3, <1>4, <2>1, <2>2, <2>3, <2>4, LeafAt
  <2>6. Leafs(Deleted(entries, k)) = Join(u, w)
    BY <1>1, <1>3, <1>4, <2>1, <2>2, <2>3, LeafsDeleted
  <2>7. QED
    BY <2>5, <2>6, RemoveMid
<1>7. ASSUME NEW k \in Indices
      PROVE  Leafs(Toggled(entries, k, TRUE)) = [old EXCEPT ![k].off = TRUE]
  BY <1>1, <1>3, <1>4, LeafsToggled
<1>8. ASSUME NEW k \in Indices, NEW id \in {NoCat} \cup CatIds
      PROVE  \E j \in Indices : /\ Leafs(AssignRule(entries, old[k], k, id))[j] = old[k]
                                /\ RemoveAt(Leafs(AssignRule(entries, old[k], k, id)), j) = RemoveAt(old, k)
  <2>1. HasCat(entries, id)
    BY <1>2, <1>8 DEF CatIds, Cats, HasCat
  <2>2. PICK r : r = old[k]
    OBVIOUS
  <2>3. PICK new : new = Leafs(AssignRule(entries, r, k, id))
    OBVIOUS
  <2>4. \E j \in 1..Len(old) : new[j] = r /\ RemoveAt(new, j) = RemoveAt(old, k)
    BY <1>1, <1>3, <1>4, <2>1, <2>2, <2>3, LeafsAssigned
  <2>5. QED
    BY <1>4, <2>2, <2>3, <2>4
<1>9. QED
  BY <1>3, <1>5, <1>6, <1>7, <1>8 DEF EditsByIndex

\* A category's rules on their own are listed as they are in it.
LEMMA CompFreed ==
    ASSUME NEW e, SoundEntry(e), NEW p
    PROVE  compileRules(Freed(e), p) = EntryRow(e, p) /\ Rowed(Freed(e))
<1>1. PICK f : f = Freed(e)
  OBVIOUS
<1>2. RuleSeq(e.rules) /\ Len(e.rules) \in Nat /\ IsSeq(e.rules)
  BY EntryRules DEF RuleSeq
<1>3. PICK n \in Nat : n = Len(e.rules)
  BY <1>2
<1>4. /\ Sound(f) /\ Len(f) = n
      /\ \A j \in 1..n : f[j] = Standalone([e.rules[j] EXCEPT !.off = e.rules[j].off \/ e.off])
  BY <1>1, <1>3, FreedIs
<1>5. Rowed(f)
  BY <1>4, SoundRowed
<1>6. PICK row : row = EntryRow(e, p)
  OBVIOUS
<1>7. /\ IsSeq(row) /\ Len(row) = n
      /\ \A j \in 1..n : row[j] =
           Listed(e.rules[j], "user", e.off \/ e.rules[j].off \/ ~ruleActive(p, e.rules[j]))
  BY <1>2, <1>3, <1>6, EntryRowIs
<1>8. PICK rows : rows = CompRows(f, p)
  OBVIOUS
<1>9. /\ IsSeq(rows) /\ Len(rows) = n /\ compileRules(f, p) = FlattenSeq(rows)
      /\ \A j \in 1..n : rows[j] = EntryRow(f[j], p)
  BY <1>4, <1>5, <1>8, CompRowsAre
<1>10. ASSUME NEW j \in 1..n PROVE rows[j] = <<row[j]>>
  <2>1. PICK r : r = e.rules[j]
    OBVIOUS
  <2>2. IsRule(r)
    BY <1>2, <1>3, <2>1 DEF RuleSeq
  <2>3. PICK s : s = [r EXCEPT !.off = r.off \/ e.off]
    OBVIOUS
  <2>4. PICK y, val, g, ps, o : r = [type |-> y, value |-> val, target |-> g, params |-> ps, off |-> o]
    BY <2>2 DEF IsRule
  <2>5. s.type = r.type /\ s.value = r.value /\ s.target = r.target /\ s.params = r.params
        /\ s.off = (r.off \/ e.off)
    BY <2>3, <2>4
  <2>6. ruleActive(p, s) = ruleActive(p, r)
    BY <2>5 DEF ruleActive
  <2>7. PICK d : d = Standalone(s)
    OBVIOUS
  <2>8. d.rules = <<s>> /\ d.off = FALSE
    BY <2>7, StandaloneIs
  <2>9. IsSeq(d.rules) /\ Len(d.rules) = 1 /\ d.rules[1] = s
    BY <2>8, Single
  <2>10. PICK er : er = EntryRow(d, p)
    OBVIOUS
  <2>11. IsSeq(er) /\ Len(er) = 1 /\ er[1] = Listed(s, "user", d.off \/ s.off \/ ~ruleActive(p, s))
    BY <2>9, <2>10, EntryRowIs
  <2>12. Listed(s, "user", d.off \/ s.off \/ ~ruleActive(p, s))
           = Listed(r, "user", e.off \/ r.off \/ ~ruleActive(p, r))
    <3>1. (d.off \/ s.off \/ ~ruleActive(p, s)) = (e.off \/ r.off \/ ~ruleActive(p, r))
      BY <2>5, <2>6, <2>8
    <3>2. QED
      BY <2>5, <3>1 DEF Listed
  <2>13. er[1] = row[j]
    BY <1>7, <2>1, <2>11, <2>12
  <2>14. IsSeq(<<row[j]>>) /\ Len(<<row[j]>>) = 1 /\ <<row[j]>>[1] = row[j]
    BY Single
  <2>15. er = <<row[j]>>
    BY <2>11, <2>13, <2>14, SeqSame
  <2>16. QED
    BY <1>4, <1>9, <2>1, <2>3, <2>7, <2>10, <2>15
<1>11. PICK I : I = 1..n
  OBVIOUS
<1>12. /\ IsSeq(Pieces(row, I)) /\ Len(Pieces(row, I)) = n
       /\ \A j \in 1..n : Pieces(row, I)[j] = <<row[j]>>
  BY <1>7, <1>11, PiecesAre
<1>13. \A j \in 1..Len(rows) : rows[j] = Pieces(row, I)[j]
  BY <1>9, <1>10, <1>12
<1>14. rows = Pieces(row, I)
  BY <1>9, <1>12, <1>13, SeqSame
<1>15. FlattenSeq(rows) = Kept(row, I)
  BY <1>14, KeptIs
<1>16. Kept(row, I) = row
  BY <1>7, <1>11, KeptAll
<1>17. QED
  BY <1>1, <1>5, <1>6, <1>9, <1>15, <1>16

\* compileRules lists the same before and after a category is ungrouped.
LEMMA CompUngrouped ==
    ASSUME NEW es, Sound(es), NEW c \in 1..Len(es), NEW p
    PROVE  compileRules(Ungrouped(es, c), p) = compileRules(es, p) /\ Rowed(Ungrouped(es, c))
<1>1. PICK a : a = Before(es, c)
  OBVIOUS
<1>2. PICK b : b = After(es, c)
  OBVIOUS
<1>3. PICK e : e = es[c]
  OBVIOUS
<1>4. Sound(a) /\ Sound(b) /\ SoundEntry(e)
  BY <1>1, <1>2, <1>3, SoundAround
<1>5. Rowed(a) /\ Rowed(b) /\ IsSeq(e.rules)
  BY <1>4, SoundRowed, EntryRules DEF RuleSeq
<1>6. es = Join(Join(a, One(e)), b)
  BY <1>1, <1>2, <1>3, SoundRowed, Around
<1>7. PICK f : f = Freed(e)
  OBVIOUS
<1>8. Ungrouped(es, c) = Join(Join(a, f), b)
  BY <1>1, <1>2, <1>3, <1>7, UngroupedIs
<1>9. compileRules(f, p) = EntryRow(e, p) /\ Rowed(f)
  BY <1>4, <1>7, CompFreed
<1>10. compileRules(One(e), p) = EntryRow(e, p) /\ Rowed(One(e))
  BY <1>5, CompOne, LeafsOne
<1>11. Rowed(Join(a, f)) /\ compileRules(Join(a, f), p) = Join(compileRules(a, p), compileRules(f, p))
  BY <1>5, <1>9, RowedJoin, CompJoin
<1>12. Rowed(Join(a, One(e))) /\ compileRules(Join(a, One(e)), p) = Join(compileRules(a, p), compileRules(One(e), p))
  BY <1>5, <1>10, RowedJoin, CompJoin
<1>13. /\ Rowed(Join(Join(a, f), b))
       /\ compileRules(Join(Join(a, f), b), p) = Join(compileRules(Join(a, f), p), compileRules(b, p))
  BY <1>5, <1>11, RowedJoin, CompJoin
<1>14. compileRules(Join(Join(a, One(e)), b), p) = Join(compileRules(Join(a, One(e)), p), compileRules(b, p))
  BY <1>5, <1>12, CompJoin
<1>15. QED
  BY <1>6, <1>8, <1>9, <1>10, <1>11, <1>12, <1>13, <1>14

\* Ungrouping a category changes nothing the core runs.
LEMMA UngroupingRoutesAlike ==
    ASSUME RulesStored
    PROVE  UngroupRoutesAlike
<1>1. Sound(entries) /\ Rowed(entries) /\ DOMAIN entries = 1..Len(entries)
  BY StoredRules, SoundRowed DEF Stored
<1>2. ASSUME NEW c \in Cats, NEW p \in {profile} \cup Usable
      PROVE  rawConfig(set, Ungrouped(entries, c), p).rules = rawConfig(set, entries, p).rules
  <2>1. c \in 1..Len(entries)
    BY <1>1 DEF Cats
  <2>2. IsSeq(p.rules)
    <3>1. profile \in {Empty} \cup {q \in Contents : q.ok}
      BY StoredRules DEF Accepted
    <3>2. p \in {Empty} \cup {q \in Contents : q.ok}
      BY <3>1 DEF Usable
    <3>3. QED
      BY <3>2, ContentRulesSeq
  <2>3. PICK es : es = Ungrouped(entries, c)
    OBVIOUS
  <2>4. compileRules(es, p) = compileRules(entries, p) /\ Rowed(es)
    BY <1>1, <2>1, <2>3, CompUngrouped
  <2>5. UserPart(es, p) = UserPart(entries, p)
    BY <2>4 DEF UserPart
  <2>6. rawConfig(set, es, p).rules = Join(Join(UserPart(es, p), OwnPart(set, p)), SubPart(set, p))
    BY <2>2, <2>4, RulesRun
  <2>7. rawConfig(set, entries, p).rules = Join(Join(UserPart(entries, p), OwnPart(set, p)), SubPart(set, p))
    BY <1>1, <2>2, RulesRun
  <2>8. QED
    BY <2>3, <2>5, <2>6, <2>7
<1>3. QED
  BY <1>2 DEF UngroupRoutesAlike

\* In every state the commands can reach, an edit by number (ruleAt,
\* deleteRule, moveRule, assignRule) changes the rule that is listed under it
\* and moves no other, and ungrouping a category leaves the routing as it
\* was.
THEOREM RoutingEdits == RoutingSpec => []EditsSound
<1>1. RulesStored => EditsSound
  BY EditsAreByIndex, UngroupingRoutesAlike DEF EditsSound
<1>2. QED
  BY <1>1, RoutingStores, PTL

(***************************************************************************)
(* A rule is read back from the line written for it.                       *)
(***************************************************************************)
\* A rule, as it is listed or read, that ruleLine writes.
IsLine(r) ==
    /\ r = [type |-> r.type, value |-> r.value, target |-> r.target, params |-> r.params]
    /\ IsSeq(r.value) /\ r.value # <<>> /\ IsSeq(r.params) /\ r.target # <<>>
    /\ r.type = <<"MATCH">> => r.value = NoValue /\ r.params = <<>>
    /\ r.type \in CommaValues => r.value # NoValue /\ r.params = <<>>
    /\ r.type \notin CommaValues \cup {<<"MATCH">>} => r.value # NoValue /\ Len(r.value) = 1

\* MATCH takes no value, so none with commas.
LEMMA NotComma == <<"MATCH">> \notin CommaValues
BY DEF CommaValues

\* A MATCH that ruleLine writes is read back as it was.
LEMMA MatchRead ==
    ASSUME NEW r, IsLine(r), r.type = <<"MATCH">>
    PROVE  ruleLine(r) # <<>> /\ ParseRule(ruleLine(r)) = r
<1>1. PICK t, val, g, ps : t = r.type /\ val = r.value /\ g = r.target /\ ps = r.params
  OBVIOUS
<1>2. r = [type |-> t, value |-> val, target |-> g, params |-> ps]
  BY <1>1 DEF IsLine
<1>3. t = <<"MATCH">> /\ val = NoValue /\ ps = <<>> /\ g # <<>>
  BY <1>1 DEF IsLine
<1>4. PICK f : f = <<t, g>>
  OBVIOUS
<1>5. ruleLine(r) = f
  BY <1>1, <1>3, <1>4, NotComma DEF ruleLine
<1>6. f[1] = t /\ f[2] = g /\ Len(f) = 2 /\ f # <<>>
  BY <1>4
<1>7. ParseRule(f) = [type |-> f[1], value |-> NoValue, target |-> f[2], params |-> <<>>]
  BY <1>3, <1>6, NotComma DEF ParseRule
<1>8. QED
  BY <1>2, <1>3, <1>5, <1>6, <1>7

\* A rule whose value has commas is read back as it was written.
LEMMA CommaRead ==
    ASSUME NEW r, IsLine(r), r.type \in CommaValues
    PROVE  ruleLine(r) # <<>> /\ ParseRule(ruleLine(r)) = r
<1>1. PICK t, val, g, ps : t = r.type /\ val = r.value /\ g = r.target /\ ps = r.params
  OBVIOUS
<1>2. r = [type |-> t, value |-> val, target |-> g, params |-> ps]
  BY <1>1 DEF IsLine
<1>3. t \in CommaValues /\ t # <<"MATCH">> /\ val # NoValue /\ ps = <<>> /\ g # <<>> /\ IsSeq(val) /\ val # <<>>
  BY <1>1, NotComma DEF IsLine
<1>4. PICK f : f = Join(Join(One(t), val), One(g))
  OBVIOUS
<1>5. ruleLine(r) = f
  BY <1>1, <1>3, <1>4 DEF ruleLine, Join, One
<1>6. PICK a : a = Join(One(t), val)
  OBVIOUS
<1>7. IsSeq(One(t)) /\ Len(One(t)) = 1 /\ One(t)[1] = t
  BY OneSeq
<1>8. IsSeq(One(g)) /\ Len(One(g)) = 1 /\ One(g)[1] = g
  BY OneSeq
<1>9. IsSeq(a) /\ Len(a) = 1 + Len(val) /\ Len(val) \in Nat /\ Len(val) # 0
  <2>1. IsSeq(One(t))
    BY <1>7
  <2>2. IsSeq(a) /\ Len(a) = Len(One(t)) + Len(val) /\ Len(val) \in Nat
    BY <1>3, <1>6, <2>1, JoinSeq, JoinLen
  <2>3. Len(val) # 0
    BY <1>3, NothingElse
  <2>4. QED
    BY <1>7, <2>2, <2>3
<1>10. a[1] = t
  <2>1. \A i \in 1..Len(One(t)) : Join(One(t), val)[i] = One(t)[i]
    BY <1>3, <1>7, JoinAt
  <2>2. QED
    BY <1>6, <1>7, <2>1
<1>11. IsSeq(f) /\ Len(f) = Len(a) + 1 /\ Len(f) = Len(val) + 2
  <2>1. IsSeq(One(g)) /\ f = Join(a, One(g))
    BY <1>4, <1>6, <1>8
  <2>2. IsSeq(f) /\ Len(f) = Len(a) + Len(One(g))
    BY <1>9, <2>1, JoinSeq, JoinLen
  <2>3. QED
    BY <1>8, <1>9, <2>2
<1>12. f[1] = t /\ f[Len(f)] = g /\ \A i \in 1..Len(a) : f[i] = a[i]
  <2>1. /\ \A i \in 1..Len(a) : Join(a, One(g))[i] = a[i]
        /\ \A i \in 1..Len(One(g)) : Join(a, One(g))[Len(a) + i] = One(g)[i]
    BY <1>8, <1>9, JoinAt
  <2>2. 1 \in 1..Len(a) /\ 1 \in 1..Len(One(g))
    BY <1>8, <1>9
  <2>3. f = Join(a, One(g))
    BY <1>4, <1>6
  <2>4. QED
    BY <1>8, <1>10, <1>11, <2>1, <2>2, <2>3
<1>13. Last(f) = g
  BY <1>12 DEF Last
<1>14. SubSeq(f, 2, Len(f) - 1) = val
  <2>1. PICK w : w = Join(val, One(g))
    OBVIOUS
  <2>2. PICK n \in Nat : n = Len(val)
    BY <1>9
  <2>3. PICK q : q = Len(f) - 1
    OBVIOUS
  <2>4. 2 \in Nat /\ 2 > 0 /\ q \in Nat /\ q <= Len(f) /\ 2 <= q + 1 /\ q + 1 - 2 = n
    BY <1>9, <1>11, <2>2, <2>3
  <2>3a. PICK s : s = SubSeq(f, 2, q)
    OBVIOUS
  <2>5. IsSeq(s) /\ Len(s) = q + 1 - 2 /\ \A i \in 1..(q + 1 - 2) : s[i] = f[2 + i - 1]
    BY <1>11, <2>3a, <2>4, Sub
  <2>6. Len(s) = n /\ \A i \in 1..n : s[i] = f[1 + i]
    BY <2>2, <2>4, <2>5
  <2>7. \A i \in 1..n : a[1 + i] = val[i]
    <3>1. \A i \in 1..Len(val) : Join(One(t), val)[Len(One(t)) + i] = val[i]
      <4>1. IsSeq(One(t)) /\ IsSeq(val)
        BY <1>3, <1>7
      <4>2. QED
        BY <4>1, JoinAt
    <3>2. QED
      BY <1>6, <1>7, <2>2, <3>1
  <2>8. ASSUME NEW i \in 1..n PROVE s[i] = val[i]
    <3>1. 1 + i \in 1..Len(a)
      BY <1>9, <2>2
    <3>2. QED
      BY <1>12, <2>6, <2>7, <3>1
  <2>9. QED
    BY <1>3, <2>2, <2>3, <2>3a, <2>5, <2>6, <2>8, SeqSame
<1>15. Len(f) >= 3 /\ f # <<>>
  BY <1>9, <1>11, NothingElse
<1>16. ParseRule(f) = [type |-> f[1], value |-> SubSeq(f, 2, Len(f) - 1), target |-> Last(f), params |-> <<>>]
  BY <1>3, <1>12, <1>13, <1>15 DEF ParseRule
<1>17. ParseRule(f) = [type |-> t, value |-> val, target |-> g, params |-> <<>>]
  BY <1>12, <1>13, <1>14, <1>16
<1>18. QED
  BY <1>2, <1>3, <1>5, <1>15, <1>17

\* A line of three fields.
LEMMA Three ==
    ASSUME NEW x, NEW y, NEW z
    PROVE  (<<x>> \o <<y>>) \o <<z>> = <<x, y, z>>
<1>1. PICK a, b, c : a = One(x) /\ b = One(y) /\ c = One(z)
  OBVIOUS
<1>2. IsSeq(a) /\ Len(a) = 1 /\ a[1] = x /\ IsSeq(b) /\ Len(b) = 1 /\ b[1] = y /\ IsSeq(c) /\ Len(c) = 1 /\ c[1] = z
  BY <1>1, OneSeq
<1>3. PICK u : u = Join(a, b)
  OBVIOUS
<1>4. IsSeq(u) /\ Len(u) = 2 /\ u[1] = x /\ u[2] = y
  <2>1. IsSeq(a) /\ IsSeq(b)
    BY <1>2
  <2>2. IsSeq(u) /\ Len(u) = Len(a) + Len(b)
    BY <1>3, <2>1, JoinSeq, JoinLen
  <2>3. /\ \A i \in 1..Len(a) : u[i] = a[i]
        /\ \A i \in 1..Len(b) : u[Len(a) + i] = b[i]
    BY <1>3, <2>1, JoinAt
  <2>4. 1 \in 1..Len(a) /\ 1 \in 1..Len(b) /\ Len(a) + 1 = 2
    BY <1>2
  <2>5. QED
    BY <1>2, <2>2, <2>3, <2>4
<1>5. PICK w : w = Join(u, c)
  OBVIOUS
<1>6. IsSeq(w) /\ Len(w) = 3 /\ w[1] = x /\ w[2] = y /\ w[3] = z
  <2>1. IsSeq(u) /\ IsSeq(c)
    BY <1>2, <1>4
  <2>2. IsSeq(w) /\ Len(w) = Len(u) + Len(c)
    BY <1>5, <2>1, JoinSeq, JoinLen
  <2>3. /\ \A i \in 1..Len(u) : w[i] = u[i]
        /\ \A i \in 1..Len(c) : w[Len(u) + i] = c[i]
    BY <1>5, <2>1, JoinAt
  <2>4. 1 \in 1..Len(u) /\ 2 \in 1..Len(u) /\ 1 \in 1..Len(c) /\ Len(u) + 1 = 3
    BY <1>2, <1>4
  <2>5. QED
    BY <1>2, <1>4, <2>2, <2>3, <2>4
<1>7. PICK h : h = <<x, y, z>>
  OBVIOUS
<1>8. IsSeq(h) /\ Len(h) = 3 /\ h[1] = x /\ h[2] = y /\ h[3] = z
  BY <1>7 DEF IsSeq
<1>9. \A i \in 1..Len(w) : w[i] = h[i]
  BY <1>6, <1>8
<1>10. w = h
  BY <1>6, <1>8, <1>9, SeqSame
<1>11. QED
  BY <1>1, <1>3, <1>5, <1>7, <1>10 DEF Join, One

\* Any other rule is read back as it was written.
LEMMA PlainRead ==
    ASSUME NEW r, IsLine(r), r.type \notin CommaValues \cup {<<"MATCH">>}
    PROVE  ruleLine(r) # <<>> /\ ParseRule(ruleLine(r)) = r
<1>1. PICK t, val, g, ps : t = r.type /\ val = r.value /\ g = r.target /\ ps = r.params
  OBVIOUS
<1>2. r = [type |-> t, value |-> val, target |-> g, params |-> ps]
  BY <1>1 DEF IsLine
<1>3. /\ t \notin CommaValues /\ t # <<"MATCH">> /\ val # NoValue /\ Len(val) = 1 /\ g # <<>> /\ IsSeq(val)
      /\ IsSeq(ps)
  BY <1>1 DEF IsLine
<1>4. PICK x : x = val[1]
  OBVIOUS
<1>5. val = <<x>>
  <2>1. IsSeq(<<x>>) /\ Len(<<x>>) = 1 /\ <<x>>[1] = x
    BY Single
  <2>2. QED
    BY <1>3, <1>4, <2>1, SeqSame
<1>6. x # <<>>
  BY <1>3, <1>5 DEF NoValue
<1>7. PICK h : h = <<t, x, g>>
  OBVIOUS
<1>8. IsSeq(h) /\ Len(h) = 3 /\ h[1] = t /\ h[2] = x /\ h[3] = g
  BY <1>7 DEF IsSeq
<1>9. PICK f : f = Join(h, ps)
  OBVIOUS
<1>10. ruleLine(r) = f
  <2>1. ruleLine(r) = ((<<t>> \o val) \o <<g>>) \o ps
    BY <1>1, <1>3 DEF ruleLine
  <2>2. (<<t>> \o <<x>>) \o <<g>> = <<t, x, g>>
    BY Three
  <2>3. QED
    BY <1>5, <1>7, <1>9, <2>1, <2>2 DEF Join
<1>11. IsSeq(f) /\ Len(f) = 3 + Len(ps) /\ Len(ps) \in Nat
  BY <1>3, <1>8, <1>9, JoinSeq, JoinLen
<1>12. f[1] = t /\ f[2] = x /\ f[3] = g
  <2>0. IsSeq(h) /\ IsSeq(ps)
    BY <1>3, <1>8
  <2>1. \A i \in 1..Len(h) : Join(h, ps)[i] = h[i]
    BY <2>0, JoinAt
  <2>2. \A i \in 1..Len(h) : f[i] = h[i]
    BY <1>9, <2>1, Zenon
  <2>3. 1 \in 1..Len(h) /\ 2 \in 1..Len(h) /\ 3 \in 1..Len(h)
    BY <1>8
  <2>4. f[1] = h[1] /\ f[2] = h[2] /\ f[3] = h[3]
    BY <2>2, <2>3, Zenon
  <2>5. QED
    BY <1>8, <2>4
<1>13. SubSeq(f, 4, Len(f)) = ps
  <2>1. SubSeq(f, Len(h) + 1, Len(f)) = ps
    BY <1>3, <1>8, <1>9, JoinParts
  <2>2. QED
    BY <1>8, <2>1
<1>14. Len(f) >= 3 /\ f # <<>>
  BY <1>11, NothingElse
<1>15. ParseRule(f) = [type |-> f[1], value |-> <<f[2]>>, target |-> f[3], params |-> SubSeq(f, 4, Len(f))]
  BY <1>3, <1>6, <1>12, <1>14 DEF ParseRule
<1>16. ParseRule(f) = [type |-> t, value |-> <<x>>, target |-> g, params |-> ps]
  BY <1>12, <1>13, <1>15
<1>17. QED
  BY <1>2, <1>5, <1>10, <1>14, <1>16

\* What ruleLine writes, ParseRule reads back.
LEMMA LineRead ==
    ASSUME NEW r, IsLine(r)
    PROVE  ruleLine(r) # <<>> /\ ParseRule(ruleLine(r)) = r
BY MatchRead, CommaRead, PlainRead

\* A line that ParseRule reads, with the parameters Build keeps.
LEMMA ReadIs ==
    ASSUME NEW f, IsSeq(f), NEW p, p = ParseRule(f), p.type # <<>>, NEW r, r = Plain(p)
    PROVE  /\ r = [type |-> p.type, value |-> p.value, target |-> p.target, params |-> r.params]
           /\ r.type = p.type /\ r.value = p.value /\ r.target = p.target
           /\ (r.type \in CommaValues /\ r.value = NoValue) \/ IsLine(r)
<1>1. PICK ps : ps = Kept(p.params, {j \in DOMAIN p.params : p.params[j] \in RuleParams})
  OBVIOUS
<1>2. r = [p EXCEPT !.params = ps]
  BY <1>1 DEF Plain
<1>3. CASE p = [type |-> f[1], value |-> NoValue, target |-> f[2], params |-> <<>>]
           /\ f[1] = <<"MATCH">> /\ f[2] # <<>>
  <2>1. p.params = <<>> /\ p.type = f[1] /\ p.value = NoValue /\ p.target = f[2]
    BY <1>3
  <2>2. ps = <<>>
    BY <1>1, <2>1, KeptNothing
  <2>3. r = [type |-> f[1], value |-> NoValue, target |-> f[2], params |-> ps]
    BY <1>2, <1>3
  <2>4. r.type = f[1] /\ r.value = NoValue /\ r.target = f[2] /\ r.params = ps
    BY <2>3
  <2>5. IsSeq(NoValue) /\ NoValue # <<>> /\ IsSeq(<<>>)
    BY Single, Nothing, NothingElse DEF NoValue
  <2>6. IsLine(r)
    BY <1>3, <2>2, <2>3, <2>4, <2>5, NotComma DEF IsLine
  <2>7. QED
    BY <2>1, <2>3, <2>4, <2>6
<1>4. CASE p = [type |-> f[1], value |-> SubSeq(f, 2, Len(f) - 1), target |-> Last(f), params |-> <<>>]
           /\ f[1] \in CommaValues /\ Len(f) >= 3 /\ Last(f) # <<>>
  <2>0. PICK val, g : val = SubSeq(f, 2, Len(f) - 1) /\ g = Last(f)
    OBVIOUS
  <2>1. p.params = <<>> /\ p.type = f[1] /\ p.value = val /\ p.target = g
    BY <1>4, <2>0
  <2>2. ps = <<>>
    BY <1>1, <2>1, KeptNothing
  <2>3. r = [type |-> f[1], value |-> val, target |-> g, params |-> ps]
    <3>1. PICK y : y = f[1]
      OBVIOUS
    <3>2. p = [type |-> y, value |-> val, target |-> g, params |-> <<>>]
      BY <1>4, <2>0, <3>1
    <3>3. QED
      BY <1>2, <3>1, <3>2
  <2>4. r.type = f[1] /\ r.value = val /\ r.target = g /\ r.params = ps
    BY <2>3
  <2>5. Len(f) \in Nat
    BY DEF IsSeq
  <2>6. 2 \in Nat /\ 2 > 0 /\ Len(f) - 1 \in Nat /\ Len(f) - 1 <= Len(f) /\ 2 <= (Len(f) - 1) + 1
    BY <1>4, <2>5
  <2>7. IsSeq(val) /\ Len(val) = (Len(f) - 1) + 1 - 2
    BY <2>0, <2>6, Sub
  <2>8. Len(val) # 0
    <3>1. PICK n \in Nat : n = Len(f) /\ n >= 3
      BY <1>4, <2>5
    <3>2. Len(val) = (n - 1) + 1 - 2
      BY <2>7, <3>1
    <3>3. QED
      BY <3>1, <3>2
  <2>9. val # <<>> /\ IsSeq(<<>>)
    BY <2>7, <2>8, NothingElse, Nothing
  <2>10. val # NoValue => IsLine(r)
    BY <1>4, <2>0, <2>2, <2>3, <2>4, <2>7, <2>9, NotComma DEF IsLine
  <2>11. QED
    BY <1>4, <2>1, <2>3, <2>4, <2>10
<1>5. CASE p = [type |-> f[1], value |-> <<f[2]>>, target |-> f[3], params |-> SubSeq(f, 4, Len(f))]
           /\ f[1] \notin CommaValues \cup {<<"MATCH">>} /\ Len(f) >= 3 /\ f[2] # <<>> /\ f[3] # <<>>
  <2>0. PICK val, q : val = <<f[2]>> /\ q = SubSeq(f, 4, Len(f))
    OBVIOUS
  <2>1. p.params = q /\ p.type = f[1] /\ p.value = val /\ p.target = f[3]
    BY <1>5, <2>0
  <2>2. IsSeq(q)
    <3>1. Len(f) \in Nat
      BY DEF IsSeq
    <3>2. 4 \in Nat /\ 4 > 0 /\ Len(f) <= Len(f) /\ 4 <= Len(f) + 1
      BY <1>5, <3>1
    <3>3. QED
      BY <2>0, <3>1, <3>2, Sub
  <2>3. IsSeq(ps)
    BY <1>1, <2>1, <2>2, KeptSeq
  <2>4. r = [type |-> f[1], value |-> val, target |-> f[3], params |-> ps]
    <3>1. PICK y, z : y = f[1] /\ z = f[3]
      OBVIOUS
    <3>2. p = [type |-> y, value |-> val, target |-> z, params |-> q]
      BY <1>5, <2>0, <3>1
    <3>3. QED
      BY <1>2, <3>1, <3>2
  <2>5. r.type = f[1] /\ r.value = val /\ r.target = f[3] /\ r.params = ps
    BY <2>4
  <2>6. IsSeq(val) /\ Len(val) = 1 /\ val[1] = f[2]
    BY <2>0, Single
  <2>7. val # <<>> /\ val # NoValue
    BY <1>5, <2>0 DEF NoValue
  <2>8. IsLine(r)
    BY <1>5, <2>3, <2>4, <2>5, <2>6, <2>7 DEF IsLine
  <2>9. QED
    BY <2>1, <2>4, <2>5, <2>8
<1>6. CASE p = Malformed
  BY <1>6 DEF Malformed
<1>7. \/ p = [type |-> f[1], value |-> NoValue, target |-> f[2], params |-> <<>>]
         /\ f[1] = <<"MATCH">> /\ f[2] # <<>>
      \/ p = [type |-> f[1], value |-> SubSeq(f, 2, Len(f) - 1), target |-> Last(f), params |-> <<>>]
         /\ f[1] \in CommaValues /\ Len(f) >= 3 /\ Last(f) # <<>>
      \/ p = [type |-> f[1], value |-> <<f[2]>>, target |-> f[3], params |-> SubSeq(f, 4, Len(f))]
         /\ f[1] \notin CommaValues \cup {<<"MATCH">>} /\ Len(f) >= 3 /\ f[2] # <<>> /\ f[3] # <<>>
      \/ p = Malformed
  <2>1. PICK t, g, val, n : t = f[1] /\ g = Last(f) /\ val = SubSeq(f, 2, Len(f) - 1) /\ n = Len(f)
    OBVIOUS
  <2>2. PICK x, y, q, w : x = f[2] /\ y = f[3] /\ q = SubSeq(f, 4, Len(f)) /\ w = <<f[2]>>
    OBVIOUS
  <2>3. ~(t = <<"MATCH">> /\ t \in CommaValues)
    BY NotComma
  <2>4. p = CASE t = <<"MATCH">> /\ n = 2 /\ x # <<>> ->
              [type |-> t, value |-> NoValue, target |-> x, params |-> <<>>]
           [] t \in CommaValues /\ n >= 3 /\ g # <<>> ->
              [type |-> t, value |-> val, target |-> g, params |-> <<>>]
           [] t \notin CommaValues \cup {<<"MATCH">>} /\ n >= 3 /\ x # <<>> /\ y # <<>> ->
              [type |-> t, value |-> w, target |-> y, params |-> q]
           [] OTHER -> Malformed
    BY <2>1, <2>2, Zenon DEF ParseRule
  <2>5. \/ p = [type |-> t, value |-> NoValue, target |-> x, params |-> <<>>] /\ t = <<"MATCH">> /\ x # <<>>
        \/ p = [type |-> t, value |-> val, target |-> g, params |-> <<>>] /\ t \in CommaValues /\ n >= 3 /\ g # <<>>
        \/ /\ p = [type |-> t, value |-> w, target |-> y, params |-> q]
           /\ t \notin CommaValues \cup {<<"MATCH">>} /\ n >= 3 /\ x # <<>> /\ y # <<>>
        \/ p = Malformed
    BY <2>3, <2>4
  <2>6. QED
    BY <2>1, <2>2, <2>5
<1>8. QED
  BY <1>3, <1>4, <1>5, <1>6, <1>7

(***************************************************************************)
(* Names that are free, and lists of names that are distinct.              *)
(***************************************************************************)
\* No name comes twice.
Distinct(s) == \A i, j \in 1..Len(s) : s[i] = s[j] => i = j

\* The elements of a sequence, by their places.
LEMMA InRange ==
    ASSUME NEW s, IsSeq(s)
    PROVE  /\ \A i \in 1..Len(s) : s[i] \in Range(s)
           /\ \A x \in Range(s) : \E i \in 1..Len(s) : s[i] = x
BY SeqRange DEF Range

\* A sequence has finitely many elements, and as many as places if none comes
\* twice.
LEMMA RangeFinite ==
    ASSUME NEW s, IsSeq(s)
    PROVE  /\ IsFiniteSet(Range(s)) /\ Cardinality(Range(s)) \in Nat
           /\ Distinct(s) => Cardinality(Range(s)) = Len(s)
<1>1. PICK n \in Nat : n = Len(s)
  BY DEF IsSeq
<1>2. PICK R : R = Range(s)
  OBVIOUS
<1>3. s = [i \in 1..n |-> s[i]] /\ DOMAIN s = 1..n
  BY <1>1, SeqRange DEF IsSeq
<1>4. \A i \in 1..n : s[i] \in R
  BY <1>1, <1>2, InRange
<1>5. s \in [1..n -> R]
  BY <1>3, <1>4
<1>6. s \in Surjection(1..n, R)
  BY <1>1, <1>2, <1>5, InRange DEF Surjection
<1>7. IsFiniteSet(1..n) /\ Cardinality(1..n) = n
  BY FS_Interval
<1>8. IsFiniteSet(R) /\ (Cardinality(R) = n <=> s \in Injection(1..n, R))
  BY <1>6, <1>7, FS_Surjection
<1>9. Distinct(s) => s \in Injection(1..n, R)
  BY <1>1, <1>3, <1>5 DEF Injection, IsInjective, Distinct
<1>10. QED
  BY <1>1, <1>2, <1>8, <1>9, FS_CardinalityType

\* A name with one more word.
LEMMA NameMore ==
    ASSUME NEW n, IsSeq(n), NEW x
    PROVE  /\ IsSeq(Append(n, x)) /\ Len(Append(n, x)) = Len(n) + 1 /\ Append(n, x)[Len(n) + 1] = x
           /\ Append(n, x) = Join(n, One(x))
<1>1. Append(n, x) = Join(n, One(x))
  BY AppendIs DEF Join, One
<1>2. PICK o : o = One(x)
  OBVIOUS
<1>3. IsSeq(o) /\ Len(o) = 1 /\ o[1] = x
  BY <1>2, OneSeq
<1>4. IsSeq(o)
  BY <1>3
<1>5. IsSeq(Join(n, o)) /\ Len(Join(n, o)) = Len(n) + Len(o) /\ Len(n) \in Nat
  BY <1>4, JoinSeq, JoinLen
<1>6. \A i \in 1..Len(o) : Join(n, o)[Len(n) + i] = o[i]
  BY <1>4, JoinAt
<1>7. QED
  BY <1>1, <1>2, <1>3, <1>5, <1>6

\* A name of several words is none of the reserved ones.
LEMMA LongName ==
    ASSUME NEW n, IsSeq(n), Len(n) > 1
    PROVE  checkName(n)
<1>1. Len(<<"GLOBAL">>) = 1 /\ Len(<<"DIRECT">>) = 1 /\ Len(<<"REJECT">>) = 1 /\ Len(<<"PASS">>) = 1
  BY Single
<1>2. n # <<>>
  BY Nothing
<1>3. PICK g, a, b, c : g = <<"GLOBAL">> /\ a = <<"DIRECT">> /\ b = <<"REJECT">> /\ c = <<"PASS">>
  OBVIOUS
<1>4. Len(g) = 1 /\ Len(a) = 1 /\ Len(b) = 1 /\ Len(c) = 1
  BY <1>1, <1>3
<1>5. n # g /\ n # a /\ n # b /\ n # c
  <2>1. Len(n) # 1
    BY DEF IsSeq
  <2>2. QED
    BY <1>4, <2>1
<1>6. Global = g /\ Builtins = {a, b, c}
  BY <1>3 DEF Global, Builtins
<1>7. QED
  BY <1>2, <1>5, <1>6 DEF checkName

\* The built-in names are finitely many.
LEMMA BuiltinsFinite == IsFiniteSet(Builtins)
<1>1. IsFiniteSet({<<"DIRECT">>})
  BY FS_Singleton
<1>2. IsFiniteSet({<<"DIRECT">>} \cup {<<"REJECT">>})
  BY <1>1, FS_AddElement
<1>3. IsFiniteSet(({<<"DIRECT">>} \cup {<<"REJECT">>}) \cup {<<"PASS">>})
  BY <1>2, FS_AddElement
<1>4. Builtins = ({<<"DIRECT">>} \cup {<<"REJECT">>}) \cup {<<"PASS">>}
  BY DEF Builtins
<1>5. QED
  BY <1>3, <1>4

\* unique finds a name that is not taken and may be taken.
LEMMA UniqueFree ==
    ASSUME NEW taken, IsFiniteSet(taken), NEW n, IsSeq(n), checkName(n)
    PROVE  Unique(taken, n) \notin taken /\ checkName(Unique(taken, n)) /\ IsSeq(Unique(taken, n))
<1>1. CASE n \notin taken
  BY <1>1 DEF Unique
<1>2. CASE n \in taken
  <2>1. PICK c \in Nat : c = Cardinality(taken)
    BY FS_CardinalityType
  <2>2. PICK free : free = {i \in 2..(c + 2) : Append(n, i) \notin taken}
    OBVIOUS
  <2>3. free # {}
    <3>1. SUFFICES ASSUME free = {} PROVE FALSE
      OBVIOUS
    <3>2. PICK f : f = [i \in 2..(c + 2) |-> Append(n, i)]
      OBVIOUS
    <3>3. \A i \in 2..(c + 2) : f[i] = Append(n, i) /\ f[i] \in taken
      BY <2>2, <3>1, <3>2
    <3>4. f \in [2..(c + 2) -> taken] /\ DOMAIN f = 2..(c + 2)
      BY <3>2, <3>3
    <3>5. ASSUME NEW i \in 2..(c + 2), NEW j \in 2..(c + 2), f[i] = f[j] PROVE i = j
      <4>1. Append(n, i)[Len(n) + 1] = i /\ Append(n, j)[Len(n) + 1] = j
        BY NameMore
      <4>2. QED
        BY <3>3, <3>5, <4>1
    <3>6. f \in Injection(2..(c + 2), taken)
      BY <3>4, <3>5 DEF Injection, IsInjective
    <3>7. IsFiniteSet(2..(c + 2)) /\ Cardinality(2..(c + 2)) = c + 1
      BY FS_Interval
    <3>8. Cardinality(2..(c + 2)) <= Cardinality(taken)
      BY <3>6, FS_Injection
    <3>9. QED
      BY <2>1, <3>7, <3>8
  <2>4. free \subseteq Nat
    BY <2>2
  <2>5. \E i \in free : \A j \in free : i <= j
    BY <2>3, <2>4, LeastNumber
  <2>6. PICK k : k = CHOOSE i \in free : \A j \in free : i <= j
    OBVIOUS
  <2>7. k \in free
    BY <2>5, <2>6
  <2>8. Unique(taken, n) = Append(n, k)
    BY <1>2, <2>1, <2>2, <2>6 DEF Unique
  <2>9. Append(n, k) \notin taken
    BY <2>2, <2>7
  <2>10. IsSeq(Append(n, k)) /\ Len(Append(n, k)) = Len(n) + 1
    BY NameMore
  <2>11. Len(n) \in Nat /\ Len(n) # 0
    BY NothingElse DEF checkName
  <2>12. checkName(Append(n, k))
    <3>1. PICK a : a = Append(n, k)
      OBVIOUS
    <3>2. IsSeq(a) /\ Len(a) > 1
      BY <2>10, <2>11, <3>1
    <3>3. QED
      BY <3>1, <3>2, LongName
  <2>13. QED
    BY <2>8, <2>9, <2>10, <2>12
<1>3. QED
  BY <1>1, <1>2

\* What Kept keeps was there, at a place of I.
LEMMA KeptFrom ==
    ASSUME NEW s, IsSeq(s), NEW I
    PROVE  /\ IsSeq(Kept(s, I))
           /\ \A k \in 1..Len(Kept(s, I)) : \E i \in 1..Len(s) : i \in I /\ Kept(s, I)[k] = s[i]
<1>1. PICK r : r = Kept(s, I)
  OBVIOUS
<1>2. PICK m : Embeds(m, s, I, r)
  BY <1>1, KeptEmbeds
<1>3. \A k \in 1..Len(r) : \E i \in 1..Len(s) : i \in I /\ r[k] = s[i]
  BY <1>2 DEF Embeds
<1>4. QED
  BY <1>1, <1>3, KeptSeq

\* Once keeps no name twice, and only names that were there.
LEMMA OnceIs ==
    ASSUME NEW s, IsSeq(s)
    PROVE  /\ IsSeq(Once(s)) /\ Distinct(Once(s))
           /\ \A k \in 1..Len(Once(s)) : \E i \in 1..Len(s) : Once(s)[k] = s[i]
<1>1. PICK I : I = {i \in 1..Len(s) : \A j \in 1..(i - 1) : s[j] # s[i]}
  OBVIOUS
<1>2. PICK r : r = Kept(s, I)
  OBVIOUS
<1>3. Once(s) = r
  BY <1>1, <1>2 DEF Once
<1>4. IsSeq(r) /\ \A k \in 1..Len(r) : \E i \in 1..Len(s) : i \in I /\ r[k] = s[i]
  BY <1>2, KeptFrom
<1>5. PICK m : Embeds(m, s, I, r)
  BY <1>2, KeptEmbeds
<1>6. Len(r) \in Nat /\ Len(s) \in Nat
  BY <1>4 DEF IsSeq
<1>7. ASSUME NEW k \in 1..Len(r), NEW l \in 1..Len(r), k < l PROVE r[k] # r[l]
  <2>1. PICK i \in 1..Len(s), j \in 1..Len(s) : i = m[k] /\ j = m[l]
    BY <1>5 DEF Embeds
  <2>2. i < j /\ r[k] = s[i] /\ r[l] = s[j] /\ j \in I
    BY <1>5, <1>7, <2>1 DEF Embeds
  <2>3. i \in 1..(j - 1)
    BY <1>6, <2>2
  <2>4. QED
    BY <1>1, <2>2, <2>3
<1>8. ASSUME NEW k \in 1..Len(r), NEW l \in 1..Len(r), r[k] = r[l] PROVE k = l
  <2>1. ~(k < l) /\ ~(l < k)
    BY <1>7, <1>8
  <2>2. QED
    BY <1>6, <2>1
<1>9. QED
  BY <1>3, <1>4, <1>8 DEF Distinct

(***************************************************************************)
(* The names the providers draw from.                                      *)
(***************************************************************************)
\* The names a proxy or a group may have, none twice; and a list of some names.
NameList(s) == IsSeq(s) /\ Distinct(s) /\ \A i \in 1..Len(s) : checkName(s[i])
\* A sequence over S.
AllIn(s, S) == IsSeq(s) /\ \A i \in 1..Len(s) : s[i] \in S

\* The proxies that are collected, and where each provider's went.
Drawn(b, top) ==
    /\ b = [ok |-> b.ok, proxies |-> b.proxies, from |-> b.from]
    /\ NameList(b.proxies) /\ AllIn(top, Range(b.proxies))
    /\ \A n \in DOMAIN b.from : AllIn(b.from[n], Range(b.proxies))

\* The elements of a sequence with one more.
LEMMA MoreAllIn ==
    ASSUME NEW s, IsSeq(s), NEW x
    PROVE  /\ IsSeq(Append(s, x)) /\ Len(Append(s, x)) = Len(s) + 1 /\ Len(s) \in Nat
           /\ \A i \in 1..Len(s) : Append(s, x)[i] = s[i]
           /\ Append(s, x)[Len(s) + 1] = x
<1>1. PICK o : o = One(x)
  OBVIOUS
<1>2. IsSeq(o)
  BY <1>1, OneSeq
<1>3. Append(s, x) = Join(s, o)
  BY <1>1, NameMore
<1>4. \A i \in 1..Len(s) : Join(s, o)[i] = s[i]
  BY <1>2, JoinAt
<1>5. Len(s) \in Nat
  BY DEF IsSeq
<1>6. QED
  BY <1>3, <1>4, <1>5, NameMore

\* A list of some names with one more of them.
LEMMA AllInMore ==
    ASSUME NEW s, NEW S, AllIn(s, S), NEW x \in S
    PROVE  AllIn(Append(s, x), S)
<1>1. PICK a : a = Append(s, x)
  OBVIOUS
<1>2. IsSeq(s) /\ \A i \in 1..Len(s) : s[i] \in S
  BY DEF AllIn
<1>3. /\ IsSeq(a) /\ Len(a) = Len(s) + 1 /\ Len(s) \in Nat
      /\ \A i \in 1..Len(s) : a[i] = s[i]
      /\ a[Len(s) + 1] = x
  BY <1>1, <1>2, MoreAllIn
<1>4. \A i \in 1..Len(a) : a[i] \in S
  BY <1>2, <1>3
<1>5. QED
  BY <1>1, <1>3, <1>4 DEF AllIn

\* Names stay distinct with one more that is not among them.
LEMMA NamesMore ==
    ASSUME NEW s, NameList(s), NEW x, x \notin Range(s), checkName(x)
    PROVE  NameList(Append(s, x)) /\ Range(Append(s, x)) = Range(s) \cup {x}
<1>1. PICK a : a = Append(s, x)
  OBVIOUS
<1>2. IsSeq(s) /\ Distinct(s) /\ \A i \in 1..Len(s) : checkName(s[i])
  BY DEF NameList
<1>3. /\ IsSeq(a) /\ Len(a) = Len(s) + 1 /\ Len(s) \in Nat
      /\ \A i \in 1..Len(s) : a[i] = s[i]
      /\ a[Len(s) + 1] = x
  BY <1>1, <1>2, MoreAllIn
<1>4. \A i \in 1..Len(s) : s[i] \in Range(s) /\ s[i] # x
  BY <1>2, InRange
<1>5. ASSUME NEW i \in 1..Len(a), NEW j \in 1..Len(a), a[i] = a[j] PROVE i = j
  <2>1. CASE i \in 1..Len(s) /\ j \in 1..Len(s)
    BY <1>2, <1>3, <1>5, <2>1 DEF Distinct
  <2>2. CASE i \in 1..Len(s) /\ j = Len(s) + 1
    BY <1>3, <1>4, <1>5, <2>2
  <2>3. CASE i = Len(s) + 1 /\ j \in 1..Len(s)
    BY <1>3, <1>4, <1>5, <2>3
  <2>4. CASE i = Len(s) + 1 /\ j = Len(s) + 1
    BY <2>4
  <2>5. QED
    BY <1>3, <2>1, <2>2, <2>3, <2>4
<1>6. \A i \in 1..Len(a) : checkName(a[i])
  BY <1>2, <1>3
<1>7. Range(a) = Range(s) \cup {x}
  <2>1. ASSUME NEW y \in Range(a) PROVE y \in Range(s) \cup {x}
    <3>1. PICK i \in 1..Len(a) : a[i] = y
      BY <1>3, InRange
    <3>2. CASE i \in 1..Len(s)
      BY <1>3, <1>4, <3>1, <3>2
    <3>3. CASE i = Len(s) + 1
      BY <1>3, <3>1, <3>3
    <3>4. QED
      BY <1>3, <3>2, <3>3
  <2>2. ASSUME NEW y \in Range(s) PROVE y \in Range(a)
    <3>1. PICK i \in 1..Len(s) : s[i] = y
      BY <1>2, InRange
    <3>2. i \in 1..Len(a) /\ a[i] = y
      BY <1>3, <3>1
    <3>3. QED
      BY <1>3, <3>2, InRange
  <2>3. x \in Range(a)
    <3>1. Len(s) + 1 \in 1..Len(a)
      BY <1>3
    <3>2. QED
      BY <1>3, <3>1, InRange
  <2>4. QED
    BY <2>1, <2>2, <2>3
<1>8. QED
  BY <1>1, <1>3, <1>5, <1>6, <1>7 DEF NameList, Distinct

\* A list of some names is one of more names.
LEMMA AllInWider ==
    ASSUME NEW s, NEW S, AllIn(s, S), NEW T, S \subseteq T
    PROVE  AllIn(s, T)
BY DEF AllIn

\* Adding a provider's proxy gives it a name of its own.
LEMMA ProxyAdded ==
    ASSUME NEW b, NEW top, Drawn(b, top), NEW p, NEW n, IsSeq(n)
    PROVE  Drawn(AddProxy(b, p, n), top)
<1>1. /\ b = [ok |-> b.ok, proxies |-> b.proxies, from |-> b.from]
      /\ NameList(b.proxies) /\ AllIn(top, Range(b.proxies))
      /\ \A x \in DOMAIN b.from : AllIn(b.from[x], Range(b.proxies))
  BY DEF Drawn
<1>2. PICK c : c = AddProxy(b, p, n)
  OBVIOUS
<1>3. CASE c = b
  BY <1>2, <1>3
<1>4. CASE c = [b EXCEPT !.ok = FALSE]
  <2>1. PICK off : off = FALSE
    OBVIOUS
  <2>2. c = [ok |-> off, proxies |-> b.proxies, from |-> b.from]
    BY <1>1, <1>4, <2>1
  <2>3. c.ok = off /\ c.proxies = b.proxies /\ c.from = b.from
    BY <2>2
  <2>4. QED
    BY <1>1, <1>2, <2>2, <2>3 DEF Drawn
<1>5. PICK taken, name : taken = Builtins \cup Range(b.proxies) /\ name = Unique(taken, n)
  OBVIOUS
<1>6. CASE /\ c = [ok |-> TRUE, proxies |-> Append(b.proxies, name),
                   from |-> [b.from EXCEPT ![p.name] = Append(@, name)]]
           /\ checkName(n)
  <2>1. IsFiniteSet(Range(b.proxies))
    BY <1>1, RangeFinite DEF NameList
  <2>2. IsFiniteSet(taken)
    BY <1>5, <2>1, BuiltinsFinite, FS_Union
  <2>3. name \notin taken /\ checkName(name)
    BY <1>5, <1>6, <2>2, UniqueFree
  <2>4. name \notin Range(b.proxies)
    BY <1>5, <2>3
  <2>5. PICK ps : ps = Append(b.proxies, name)
    OBVIOUS
  <2>6. NameList(ps) /\ Range(ps) = Range(b.proxies) \cup {name}
    BY <1>1, <2>3, <2>4, <2>5, NamesMore
  <2>7. PICK fr : fr = [b.from EXCEPT ![p.name] = Append(@, name)]
    OBVIOUS
  <2>8. PICK ok : ok = TRUE
    OBVIOUS
  <2>9. c = [ok |-> ok, proxies |-> ps, from |-> fr]
    BY <1>6, <2>5, <2>7, <2>8
  <2>10. c.ok = ok /\ c.proxies = ps /\ c.from = fr
    BY <2>9
  <2>11. AllIn(top, Range(ps))
    BY <1>1, <2>6, AllInWider
  <2>12. ASSUME NEW x \in DOMAIN fr PROVE AllIn(fr[x], Range(ps))
    <3>1. x \in DOMAIN b.from
      BY <2>7
    <3>2. AllIn(b.from[x], Range(ps))
      BY <1>1, <2>6, <3>1, AllInWider
    <3>3. name \in Range(ps)
      BY <2>6
    <3>4. PICK w, y : w = b.from[x] /\ y = Append(w, name)
      OBVIOUS
    <3>5. AllIn(y, Range(ps)) /\ AllIn(w, Range(ps))
      BY <3>2, <3>3, <3>4, AllInMore
    <3>6. fr[x] = w \/ fr[x] = y
      BY <2>7, <3>1, <3>4
    <3>7. QED
      BY <3>5, <3>6
  <2>13. QED
    BY <1>2, <2>6, <2>9, <2>10, <2>11, <2>12 DEF Drawn
<1>7. \/ c = b \/ c = [b EXCEPT !.ok = FALSE]
      \/ /\ c = [ok |-> TRUE, proxies |-> Append(b.proxies, name),
                 from |-> [b.from EXCEPT ![p.name] = Append(@, name)]]
         /\ checkName(n)
  BY <1>2, <1>5, Zenon DEF AddProxy
<1>8. QED
  BY <1>3, <1>4, <1>6, <1>7

\* The providers read so far and an empty list for provider p.
Start(b, p) ==
    [ok |-> b.ok, proxies |-> b.proxies,
     from |-> [n \in DOMAIN b.from \cup {p.name} |-> IF n = p.name THEN <<>> ELSE b.from[n]]]
\* f is the reading of p's proxies one by one, as AddProvider does it.
AddedEq(f, b, p, n) == f = [i \in 0..n |-> IF i = 0 THEN Start(b, p) ELSE AddProxy(f[i - 1], p, p.proxies[i])]

\* The recursion of AddProvider, by its values.
LEMMA AddedValues ==
    ASSUME NEW f, NEW b, NEW p, NEW n \in Nat
    PROVE  AddedEq(f, b, p, n) <=>
              /\ f = [i \in 0..n |-> f[i]] /\ f[0] = Start(b, p)
              /\ \A i \in 1..n : f[i] = AddProxy(f[i - 1], p, p.proxies[i])
<1>1. PICK st : st = Start(b, p)
  OBVIOUS
<1>2. ASSUME AddedEq(f, b, p, n)
      PROVE  /\ f = [i \in 0..n |-> f[i]] /\ f[0] = st
             /\ \A i \in 1..n : f[i] = AddProxy(f[i - 1], p, p.proxies[i])
  <2>1. f = [i \in 0..n |-> IF i = 0 THEN st ELSE AddProxy(f[i - 1], p, p.proxies[i])]
    BY <1>1, <1>2, Zenon DEF AddedEq
  <2>2. DOMAIN f = 0..n /\ \A i \in 0..n : f[i] = IF i = 0 THEN st ELSE AddProxy(f[i - 1], p, p.proxies[i])
    BY <2>1, Zenon
  <2>3. f = [i \in 0..n |-> f[i]]
    BY <2>1, <2>2, Zenon
  <2>4. ASSUME NEW i \in 1..n PROVE f[i] = AddProxy(f[i - 1], p, p.proxies[i])
    <3>1. i \in 0..n /\ i # 0
      OBVIOUS
    <3>2. QED
      BY <2>2, <3>1, Zenon
  <2>5. 0 \in 0..n
    OBVIOUS
  <2>6. f[0] = st
    BY <2>2, <2>5, Zenon
  <2>7. QED
    BY <2>3, <2>4, <2>6
<1>3. ASSUME f = [i \in 0..n |-> f[i]], f[0] = st,
             \A i \in 1..n : f[i] = AddProxy(f[i - 1], p, p.proxies[i])
      PROVE  AddedEq(f, b, p, n)
  <2>1. PICK g : g = [i \in 0..n |-> IF i = 0 THEN st ELSE AddProxy(f[i - 1], p, p.proxies[i])]
    OBVIOUS
  <2>2. ASSUME NEW i \in 0..n PROVE f[i] = g[i]
    <3>1. g[i] = IF i = 0 THEN st ELSE AddProxy(f[i - 1], p, p.proxies[i])
      BY <2>1, Zenon
    <3>2. CASE i = 0
      BY <1>3, <3>1, <3>2
    <3>3. CASE i # 0
      <4>1. i \in 1..n
        BY <3>3
      <4>2. QED
        BY <1>3, <3>1, <3>3, <4>1, Zenon
    <3>4. QED
      BY <3>2, <3>3
  <2>3. f = g
    BY <1>3, <2>1, <2>2
  <2>4. QED
    BY <1>1, <2>1, <2>3 DEF AddedEq
<1>4. QED
  BY <1>1, <1>2, <1>3

\* Some function satisfies the recursion of AddProvider.
LEMMA AddedExists ==
    ASSUME NEW b, NEW p, NEW n \in Nat
    PROVE  \E f : AddedEq(f, b, p, n)
<1>1. PICK A : A = {k \in Nat : \E f : AddedEq(f, b, p, k)}
  OBVIOUS
<1>2. 0 \in A
  <2>1. PICK f : f = [i \in 0..0 |-> Start(b, p)]
    OBVIOUS
  <2>2. f = [i \in 0..0 |-> f[i]] /\ f[0] = Start(b, p)
    BY <2>1
  <2>3. AddedEq(f, b, p, 0)
    <3>1. PICK z \in Nat : z = 0
      OBVIOUS
    <3>2. f = [i \in 0..z |-> f[i]] /\ \A i \in 1..z : FALSE
      BY <2>2, <3>1
    <3>3. AddedEq(f, b, p, z)
      BY <2>2, <3>2, AddedValues
    <3>4. QED
      BY <3>1, <3>3
  <2>4. QED
    BY <1>1, <2>3
<1>3. ASSUME NEW k \in Nat, k \in A PROVE k + 1 \in A
  <2>1. PICK f : AddedEq(f, b, p, k)
    BY <1>1, <1>3
  <2>2. /\ f = [i \in 0..k |-> f[i]] /\ f[0] = Start(b, p)
        /\ \A i \in 1..k : f[i] = AddProxy(f[i - 1], p, p.proxies[i])
    BY <2>1, AddedValues
  <2>3. PICK last : last = AddProxy(f[k], p, p.proxies[k + 1])
    OBVIOUS
  <2>4. PICK h : h = [i \in 0..(k + 1) |-> IF i <= k THEN f[i] ELSE last]
    OBVIOUS
  <2>5. h = [i \in 0..(k + 1) |-> h[i]] /\ h[k + 1] = last /\ \A i \in 0..k : h[i] = f[i]
    BY <2>4
  <2>6. h[0] = Start(b, p)
    BY <2>2, <2>5
  <2>7. ASSUME NEW i \in 1..(k + 1) PROVE h[i] = AddProxy(h[i - 1], p, p.proxies[i])
    <3>1. CASE i = k + 1
      <4>1. h[i - 1] = f[k]
        BY <2>5, <3>1
      <4>2. QED
        BY <2>3, <2>5, <3>1, <4>1
    <3>2. CASE i \in 1..k
      <4>1. h[i - 1] = f[i - 1] /\ h[i] = f[i]
        <5>1. i - 1 \in 0..k /\ i \in 0..k
          BY <3>2
        <5>2. QED
          BY <2>5, <5>1
      <4>2. QED
        BY <2>2, <3>2, <4>1
    <3>3. QED
      BY <3>1, <3>2
  <2>8. AddedEq(h, b, p, k + 1)
    <3>1. k + 1 \in Nat
      OBVIOUS
    <3>2. QED
      BY <2>5, <2>6, <2>7, <3>1, AddedValues
  <2>9. QED
    BY <1>1, <2>8
<1>4. Nat \subseteq A
  BY <1>2, <1>3, Induction
<1>5. QED
  BY <1>1, <1>4

\* Adding a provider's proxies keeps all names apart.
LEMMA ProviderAdded ==
    ASSUME NEW b, NEW top, Drawn(b, top), NEW p, IsSeq(p.proxies), \A j \in 1..Len(p.proxies) : IsSeq(p.proxies[j])
    PROVE  Drawn(AddProvider(b, p), top)
<1>1. PICK n \in Nat : n = Len(p.proxies)
  BY DEF IsSeq
<1>2. PICK f : f = CHOOSE g : AddedEq(g, b, p, n)
  OBVIOUS
<1>3. AddedEq(f, b, p, n)
  BY <1>2, AddedExists
<1>4. /\ f[0] = Start(b, p)
      /\ \A i \in 1..n : f[i] = AddProxy(f[i - 1], p, p.proxies[i])
  BY <1>3, AddedValues
<1>5. /\ b = [ok |-> b.ok, proxies |-> b.proxies, from |-> b.from]
      /\ NameList(b.proxies) /\ AllIn(top, Range(b.proxies))
      /\ \A x \in DOMAIN b.from : AllIn(b.from[x], Range(b.proxies))
  BY DEF Drawn
<1>6. Drawn(Start(b, p), top)
  <2>1. PICK fr : fr = [x \in DOMAIN b.from \cup {p.name} |-> IF x = p.name THEN <<>> ELSE b.from[x]]
    OBVIOUS
  <2>2. PICK s : s = [ok |-> b.ok, proxies |-> b.proxies, from |-> fr]
    OBVIOUS
  <2>3. s = Start(b, p)
    BY <2>1, <2>2 DEF Start
  <2>4. s.ok = b.ok /\ s.proxies = b.proxies /\ s.from = fr
    BY <2>2
  <2>5. AllIn(<<>>, Range(b.proxies))
    BY Nothing DEF AllIn
  <2>6. \A x \in DOMAIN fr : AllIn(fr[x], Range(b.proxies))
    BY <1>5, <2>1, <2>5
  <2>7. s = [ok |-> s.ok, proxies |-> s.proxies, from |-> s.from]
    BY <2>2, <2>4
  <2>8. Drawn(s, top)
    BY <1>5, <2>4, <2>6, <2>7 DEF Drawn
  <2>9. QED
    BY <2>3, <2>8
<1>7. PICK A : A = {k \in Nat : k <= n => Drawn(f[k], top)}
  OBVIOUS
<1>8. 0 \in A
  BY <1>4, <1>6, <1>7
<1>9. ASSUME NEW k \in Nat, k \in A PROVE k + 1 \in A
  <2>1. CASE k + 1 <= n
    <3>1. Drawn(f[k], top) /\ k + 1 \in 1..n /\ (k + 1) - 1 = k
      BY <1>7, <1>9, <2>1
    <3>2. f[k + 1] = AddProxy(f[k], p, p.proxies[k + 1])
      BY <1>4, <3>1
    <3>3. IsSeq(p.proxies[k + 1])
      BY <1>1, <3>1
    <3>4. Drawn(f[k + 1], top)
      BY <3>1, <3>2, <3>3, ProxyAdded
    <3>5. QED
      BY <1>7, <3>4
  <2>2. CASE ~(k + 1 <= n)
    BY <1>7, <2>2
  <2>3. QED
    BY <2>1, <2>2
<1>10. Drawn(f[n], top)
  <2>1. Nat \subseteq A
    BY <1>8, <1>9, Induction
  <2>2. QED
    BY <1>7, <2>1
<1>11. CASE AddProvider(b, p) = [b EXCEPT !.ok = FALSE]
  <2>1. PICK off : off = FALSE
    OBVIOUS
  <2>2. PICK c : c = AddProvider(b, p)
    OBVIOUS
  <2>3. c = [ok |-> off, proxies |-> b.proxies, from |-> b.from]
    BY <1>5, <1>11, <2>1, <2>2
  <2>4. c.ok = off /\ c.proxies = b.proxies /\ c.from = b.from
    BY <2>3
  <2>5. QED
    BY <1>5, <2>2, <2>3, <2>4 DEF Drawn
<1>12. \/ AddProvider(b, p) = b \/ AddProvider(b, p) = [b EXCEPT !.ok = FALSE]
       \/ AddProvider(b, p) = (CHOOSE g : AddedEq(g, b, p, Len(p.proxies)))[Len(p.proxies)]
  BY Zenon DEF AddProvider, AddedEq, Start
<1>13. QED
  BY <1>1, <1>2, <1>10, <1>11, <1>12

(***************************************************************************)
(* All of the providers of a document.                                     *)
(***************************************************************************)
\* What is read before the first provider.
Drawing(d) == [ok |-> Len(d.proxies) <= MaxProxies, proxies |-> TopLevel(d), from |-> [n \in {} |-> <<>>]]
\* f is the reading of the providers one by one, as Providers does it.
ReadEq(f, d, n) == f = [i \in 0..n |-> IF i = 0 THEN Drawing(d) ELSE AddProvider(f[i - 1], d.providers[i])]

\* The recursion of Providers, by its values.
LEMMA ReadValues ==
    ASSUME NEW f, NEW d, NEW n \in Nat
    PROVE  ReadEq(f, d, n) <=>
              /\ f = [i \in 0..n |-> f[i]] /\ f[0] = Drawing(d)
              /\ \A i \in 1..n : f[i] = AddProvider(f[i - 1], d.providers[i])
<1>1. PICK st : st = Drawing(d)
  OBVIOUS
<1>2. ASSUME ReadEq(f, d, n)
      PROVE  /\ f = [i \in 0..n |-> f[i]] /\ f[0] = st
             /\ \A i \in 1..n : f[i] = AddProvider(f[i - 1], d.providers[i])
  <2>1. f = [i \in 0..n |-> IF i = 0 THEN st ELSE AddProvider(f[i - 1], d.providers[i])]
    BY <1>1, <1>2, Zenon DEF ReadEq
  <2>2. DOMAIN f = 0..n /\ \A i \in 0..n : f[i] = IF i = 0 THEN st ELSE AddProvider(f[i - 1], d.providers[i])
    BY <2>1, Zenon
  <2>3. f = [i \in 0..n |-> f[i]]
    BY <2>1, <2>2, Zenon
  <2>4. ASSUME NEW i \in 1..n PROVE f[i] = AddProvider(f[i - 1], d.providers[i])
    <3>1. i \in 0..n /\ i # 0
      OBVIOUS
    <3>2. QED
      BY <2>2, <3>1, Zenon
  <2>5. 0 \in 0..n
    OBVIOUS
  <2>6. f[0] = st
    BY <2>2, <2>5, Zenon
  <2>7. QED
    BY <2>3, <2>4, <2>6
<1>3. ASSUME f = [i \in 0..n |-> f[i]], f[0] = st,
             \A i \in 1..n : f[i] = AddProvider(f[i - 1], d.providers[i])
      PROVE  ReadEq(f, d, n)
  <2>1. PICK g : g = [i \in 0..n |-> IF i = 0 THEN st ELSE AddProvider(f[i - 1], d.providers[i])]
    OBVIOUS
  <2>2. ASSUME NEW i \in 0..n PROVE f[i] = g[i]
    <3>1. g[i] = IF i = 0 THEN st ELSE AddProvider(f[i - 1], d.providers[i])
      BY <2>1, Zenon
    <3>2. CASE i = 0
      BY <1>3, <3>1, <3>2
    <3>3. CASE i # 0
      <4>1. i \in 1..n
        BY <3>3
      <4>2. QED
        BY <1>3, <3>1, <3>3, <4>1, Zenon
    <3>4. QED
      BY <3>2, <3>3
  <2>3. f = g
    BY <1>3, <2>1, <2>2
  <2>4. QED
    BY <1>1, <2>1, <2>3 DEF ReadEq
<1>4. QED
  BY <1>1, <1>2, <1>3

\* Some function satisfies the recursion of Providers.
LEMMA ReadExists ==
    ASSUME NEW d, NEW n \in Nat
    PROVE  \E f : ReadEq(f, d, n)
<1>1. PICK A : A = {k \in Nat : \E f : ReadEq(f, d, k)}
  OBVIOUS
<1>2. 0 \in A
  <2>1. PICK f : f = [i \in 0..0 |-> Drawing(d)]
    OBVIOUS
  <2>2. f = [i \in 0..0 |-> f[i]] /\ f[0] = Drawing(d)
    BY <2>1
  <2>3. ReadEq(f, d, 0)
    <3>1. PICK z \in Nat : z = 0
      OBVIOUS
    <3>2. f = [i \in 0..z |-> f[i]] /\ \A i \in 1..z : FALSE
      BY <2>2, <3>1
    <3>3. ReadEq(f, d, z)
      BY <2>2, <3>2, ReadValues
    <3>4. QED
      BY <3>1, <3>3
  <2>4. QED
    BY <1>1, <2>3
<1>3. ASSUME NEW k \in Nat, k \in A PROVE k + 1 \in A
  <2>1. PICK f : ReadEq(f, d, k)
    BY <1>1, <1>3
  <2>2. /\ f = [i \in 0..k |-> f[i]] /\ f[0] = Drawing(d)
        /\ \A i \in 1..k : f[i] = AddProvider(f[i - 1], d.providers[i])
    BY <2>1, ReadValues
  <2>3. PICK last : last = AddProvider(f[k], d.providers[k + 1])
    OBVIOUS
  <2>4. PICK h : h = [i \in 0..(k + 1) |-> IF i <= k THEN f[i] ELSE last]
    OBVIOUS
  <2>5. h = [i \in 0..(k + 1) |-> h[i]] /\ h[k + 1] = last /\ \A i \in 0..k : h[i] = f[i]
    BY <2>4
  <2>6. h[0] = Drawing(d)
    BY <2>2, <2>5
  <2>7. ASSUME NEW i \in 1..(k + 1) PROVE h[i] = AddProvider(h[i - 1], d.providers[i])
    <3>1. CASE i = k + 1
      <4>1. h[i - 1] = f[k]
        BY <2>5, <3>1
      <4>2. QED
        BY <2>3, <2>5, <3>1, <4>1
    <3>2. CASE i \in 1..k
      <4>1. h[i - 1] = f[i - 1] /\ h[i] = f[i]
        <5>1. i - 1 \in 0..k /\ i \in 0..k
          BY <3>2
        <5>2. QED
          BY <2>5, <5>1
      <4>2. QED
        BY <2>2, <3>2, <4>1
    <3>3. QED
      BY <3>1, <3>2
  <2>8. ReadEq(h, d, k + 1)
    <3>1. k + 1 \in Nat
      OBVIOUS
    <3>2. QED
      BY <2>5, <2>6, <2>7, <3>1, ReadValues
  <2>9. QED
    BY <1>1, <2>8
<1>4. Nat \subseteq A
  BY <1>2, <1>3, Induction
<1>5. QED
  BY <1>1, <1>4

\* The document's own proxies have distinct names that may be taken.
LEMMA TopNames ==
    ASSUME NEW d, IsDocument(d)
    PROVE  NameList(TopLevel(d))
<1>1. PICK s : s = d.proxies
  OBVIOUS
<1>2. IsSeq(s) /\ DOMAIN s = 1..Len(s)
  BY <1>1, SeqRange DEF IsDocument
<1>3. PICK I : I = {i \in DOMAIN s : checkName(s[i])}
  OBVIOUS
<1>4. PICK k : k = Kept(s, I)
  OBVIOUS
<1>5. IsSeq(k) /\ \A i \in 1..Len(k) : \E j \in 1..Len(s) : j \in I /\ k[i] = s[j]
  BY <1>2, <1>4, KeptFrom
<1>6. \A i \in 1..Len(k) : checkName(k[i])
  BY <1>3, <1>5
<1>7. TopLevel(d) = Once(k)
  BY <1>1, <1>3, <1>4 DEF TopLevel
<1>8. /\ IsSeq(Once(k)) /\ Distinct(Once(k))
      /\ \A i \in 1..Len(Once(k)) : \E j \in 1..Len(k) : Once(k)[i] = k[j]
  BY <1>5, OnceIs
<1>9. QED
  BY <1>6, <1>7, <1>8 DEF NameList

\* The proxies of a document and its providers have distinct names that may
\* be taken.
LEMMA ProvidersDrawn ==
    ASSUME NEW d, IsDocument(d)
    PROVE  Drawn(Providers(d), TopLevel(d))
<1>1. PICK n \in Nat : n = Len(d.providers)
  BY DEF IsDocument, IsSeq
<1>2. PICK f : f = CHOOSE g : ReadEq(g, d, n)
  OBVIOUS
<1>3. ReadEq(f, d, n)
  BY <1>2, ReadExists
<1>4. /\ f[0] = Drawing(d)
      /\ \A i \in 1..n : f[i] = AddProvider(f[i - 1], d.providers[i])
  BY <1>3, ReadValues
<1>5. PICK top : top = TopLevel(d)
  OBVIOUS
<1>6. NameList(top)
  BY <1>5, TopNames
<1>7. Drawn(Drawing(d), top)
  <2>1. PICK ok, fr : ok = (Len(d.proxies) <= MaxProxies) /\ fr = [x \in {} |-> <<>>]
    OBVIOUS
  <2>2. PICK s : s = [ok |-> ok, proxies |-> top, from |-> fr]
    OBVIOUS
  <2>3. s = Drawing(d)
    BY <1>5, <2>1, <2>2 DEF Drawing
  <2>4. s.ok = ok /\ s.proxies = top /\ s.from = fr
    BY <2>2
  <2>5. AllIn(top, Range(top))
    BY <1>6, InRange DEF AllIn, NameList
  <2>6. s = [ok |-> s.ok, proxies |-> s.proxies, from |-> s.from]
    BY <2>2, <2>4
  <2>7. DOMAIN fr = {}
    BY <2>1
  <2>8. Drawn(s, top)
    BY <1>6, <2>4, <2>5, <2>6, <2>7 DEF Drawn
  <2>9. QED
    BY <2>3, <2>8
<1>8. PICK A : A = {k \in Nat : k <= n => Drawn(f[k], top)}
  OBVIOUS
<1>9. 0 \in A
  BY <1>4, <1>7, <1>8
<1>10. ASSUME NEW k \in Nat, k \in A PROVE k + 1 \in A
  <2>1. CASE k + 1 <= n
    <3>1. Drawn(f[k], top) /\ k + 1 \in 1..n /\ (k + 1) - 1 = k
      BY <1>8, <1>10, <2>1
    <3>2. PICK p : p = d.providers[k + 1]
      OBVIOUS
    <3>3. f[k + 1] = AddProvider(f[k], p)
      BY <1>4, <3>1, <3>2
    <3>4. DOMAIN d.providers = 1..n
      BY <1>1, SeqRange DEF IsDocument
    <3>5. IsSeq(p.proxies) /\ \A j \in DOMAIN p.proxies : IsSeq(p.proxies[j])
      BY <3>1, <3>2, <3>4 DEF IsDocument
    <3>6. \A j \in 1..Len(p.proxies) : IsSeq(p.proxies[j])
      BY <3>5, SeqRange
    <3>7. Drawn(f[k + 1], top)
      BY <3>1, <3>3, <3>5, <3>6, ProviderAdded
    <3>8. QED
      BY <1>8, <3>7
  <2>2. CASE ~(k + 1 <= n)
    BY <1>8, <2>2
  <2>3. QED
    BY <2>1, <2>2
<1>11. Drawn(f[n], top)
  <2>1. Nat \subseteq A
    BY <1>9, <1>10, Induction
  <2>2. QED
    BY <1>8, <2>1
<1>12. Providers(d) = (CHOOSE g : ReadEq(g, d, Len(d.providers)))[Len(d.providers)]
  BY Zenon DEF Providers, ReadEq, Drawing
<1>13. QED
  BY <1>1, <1>2, <1>5, <1>11, <1>12

(***************************************************************************)
(* The groups of a built profile and their members.                        *)
(***************************************************************************)
\* Lists of some names in a row are a list of them.
LEMMA AllInFlat ==
    ASSUME NEW ss, IsSeq(ss), NEW S, \A i \in 1..Len(ss) : AllIn(ss[i], S)
    PROVE  AllIn(FlattenSeq(ss), S)
<1>1. AllSeqs(ss)
  BY DEF AllSeqs, AllIn
<1>2. FlatIn(ss) /\ IsSeq(FlattenSeq(ss))
  BY <1>1, FlatFrom, FlatSeq
<1>3. \A k \in 1..Len(FlattenSeq(ss)) : FlattenSeq(ss)[k] \in S
  BY <1>2 DEF FlatIn, Among, AllIn
<1>4. QED
  BY <1>2, <1>3 DEF AllIn

\* What is kept of some names is a list of them.
LEMMA AllInKept ==
    ASSUME NEW s, NEW S, AllIn(s, S), NEW I
    PROVE  AllIn(Kept(s, I), S)
<1>1. IsSeq(s) /\ \A i \in 1..Len(s) : s[i] \in S
  BY DEF AllIn
<1>2. /\ IsSeq(Kept(s, I))
      /\ \A k \in 1..Len(Kept(s, I)) : \E i \in 1..Len(s) : i \in I /\ Kept(s, I)[k] = s[i]
  BY <1>1, KeptFrom
<1>3. QED
  BY <1>1, <1>2 DEF AllIn

\* Some names, each once, are a list of them.
LEMMA AllInOnce ==
    ASSUME NEW s, NEW S, AllIn(s, S)
    PROVE  AllIn(Once(s), S)
<1>1. IsSeq(s) /\ \A i \in 1..Len(s) : s[i] \in S
  BY DEF AllIn
<1>2. IsSeq(Once(s)) /\ \A k \in 1..Len(Once(s)) : \E i \in 1..Len(s) : Once(s)[k] = s[i]
  BY <1>1, OnceIs
<1>3. QED
  BY <1>1, <1>2 DEF AllIn

\* Two lists of some names in a row are a list of them.
LEMMA AllInJoin ==
    ASSUME NEW s, NEW t, NEW S, AllIn(s, S), AllIn(t, S)
    PROVE  AllIn(Join(s, t), S)
<1>1. IsSeq(s) /\ IsSeq(t)
  BY DEF AllIn
<1>2. PICK u : u = Join(s, t)
  OBVIOUS
<1>3. IsSeq(u) /\ Len(u) = Len(s) + Len(t) /\ Len(s) \in Nat /\ Len(t) \in Nat
  BY <1>1, <1>2, JoinSeq, JoinLen
<1>4. (\A i \in 1..Len(s) : u[i] = s[i]) /\ (\A i \in 1..Len(t) : u[Len(s) + i] = t[i])
  BY <1>1, <1>2, JoinAt
<1>5. ASSUME NEW i \in 1..Len(u) PROVE u[i] \in S
  <2>1. CASE i \in 1..Len(s)
    BY <1>4, <2>1 DEF AllIn
  <2>2. CASE i \notin 1..Len(s)
    <3>1. PICK j \in 1..Len(t) : i = Len(s) + j
      <4>1. i - Len(s) \in 1..Len(t) /\ i = Len(s) + (i - Len(s))
        BY <1>3, <2>2
      <4>2. QED
        BY <4>1
    <3>2. u[i] = t[j]
      BY <1>4, <3>1
    <3>3. QED
      BY <3>2 DEF AllIn
  <2>3. QED
    BY <2>1, <2>2
<1>6. QED
  BY <1>2, <1>3, <1>5 DEF AllIn

\* The groups that may take their name.
Valid(d, proxies) ==
    Kept(d.groups, {i \in DOMAIN d.groups :
        checkName(d.groups[i].name) /\ d.groups[i].ok /\ d.groups[i].name \notin Range(proxies)})

\* The groups have distinct names that may be taken, which no proxy has.
LEMMA PendingIs ==
    ASSUME NEW d, IsDocument(d), NEW proxies, NEW all, all = Pending(d, proxies)
    PROVE  /\ IsSeq(all)
           /\ \A k \in 1..Len(all) :
                 /\ checkName(all[k].name) /\ all[k].name \notin Range(proxies)
                 /\ IsSeq(all[k].proxies) /\ IsSeq(all[k].use)
           /\ \A k, l \in 1..Len(all) : all[k].name = all[l].name => k = l
<1>1. PICK s : s = d.groups
  OBVIOUS
<1>2. IsSeq(s) /\ DOMAIN s = 1..Len(s) /\ Len(s) \in Nat
  BY <1>1, SeqRange DEF IsDocument, IsSeq
<1>3. PICK I : I = {i \in DOMAIN s : checkName(s[i].name) /\ s[i].ok /\ s[i].name \notin Range(proxies)}
  OBVIOUS
<1>4. PICK valid : valid = Kept(s, I)
  OBVIOUS
<1>5. IsSeq(valid) /\ \A k \in 1..Len(valid) : \E i \in 1..Len(s) : i \in I /\ valid[k] = s[i]
  BY <1>2, <1>4, KeptFrom
<1>6. DOMAIN valid = 1..Len(valid) /\ Len(valid) \in Nat
  BY <1>5, SeqRange DEF IsSeq
<1>7. ASSUME NEW k \in 1..Len(valid)
      PROVE  /\ checkName(valid[k].name) /\ valid[k].name \notin Range(proxies)
             /\ IsSeq(valid[k].proxies) /\ IsSeq(valid[k].use)
  <2>1. PICK i \in 1..Len(s) : i \in I /\ valid[k] = s[i]
    BY <1>5
  <2>2. IsSeq(s[i].proxies) /\ IsSeq(s[i].use)
    BY <1>1, <1>2 DEF IsDocument
  <2>3. QED
    BY <1>3, <2>1, <2>2
<1>8. PICK J : J = {i \in DOMAIN valid : \A j \in 1..(i - 1) : valid[j].name # valid[i].name}
  OBVIOUS
<1>9. all = Kept(valid, J)
  <2>1. Valid(d, proxies) = valid
    BY <1>1, <1>3, <1>4 DEF Valid
  <2>2. Pending(d, proxies) = Kept(Valid(d, proxies), {i \in DOMAIN Valid(d, proxies) :
           \A j \in 1..(i - 1) : Valid(d, proxies)[j].name # Valid(d, proxies)[i].name})
    BY Zenon DEF Pending, Valid
  <2>3. QED
    BY <1>8, <2>1, <2>2
<1>10. IsSeq(all) /\ \A k \in 1..Len(all) : \E i \in 1..Len(valid) : i \in J /\ all[k] = valid[i]
  BY <1>5, <1>9, KeptFrom
<1>11. PICK m : Embeds(m, valid, J, all)
  BY <1>5, <1>9, KeptEmbeds
<1>12. Len(all) \in Nat
  BY <1>10 DEF IsSeq
<1>13. ASSUME NEW k \in 1..Len(all), NEW l \in 1..Len(all), k < l PROVE all[k].name # all[l].name
  <2>1. PICK i \in 1..Len(valid), j \in 1..Len(valid) : i = m[k] /\ j = m[l]
    BY <1>11 DEF Embeds
  <2>2. i < j /\ all[k] = valid[i] /\ all[l] = valid[j] /\ j \in J
    BY <1>11, <1>13, <2>1 DEF Embeds
  <2>3. i \in 1..(j - 1)
    BY <1>6, <2>2
  <2>4. QED
    BY <1>8, <2>2, <2>3
<1>14. ASSUME NEW k \in 1..Len(all), NEW l \in 1..Len(all), all[k].name = all[l].name PROVE k = l
  <2>1. ~(k < l) /\ ~(l < k)
    BY <1>13, <1>14
  <2>2. QED
    BY <1>12, <2>1
<1>15. QED
  BY <1>7, <1>10, <1>14

\* A group's members exist and are not the group.
LEMMA MembersAllIn ==
    ASSUME NEW d, IsDocument(d), NEW b, Drawn(b, TopLevel(d)), NEW names, Range(b.proxies) \subseteq names,
           NEW g, IsSeq(g.proxies), IsSeq(g.use), g.name \notin Range(b.proxies)
    PROVE  AllIn(Members(d, b, names, g), names \ {g.name})
<1>1. PICK S : S = names \ {g.name}
  OBVIOUS
<1>2. Range(b.proxies) \subseteq S
  BY <1>1
<1>3. PICK listed : listed = Kept(g.proxies, {i \in DOMAIN g.proxies : g.proxies[i] \in names \ {g.name}})
  OBVIOUS
<1>4. AllIn(listed, S)
  <2>1. PICK I : I = {i \in DOMAIN g.proxies : g.proxies[i] \in names \ {g.name}}
    OBVIOUS
  <2>2. /\ IsSeq(Kept(g.proxies, I))
        /\ \A k \in 1..Len(Kept(g.proxies, I)) :
              \E i \in 1..Len(g.proxies) : i \in I /\ Kept(g.proxies, I)[k] = g.proxies[i]
    BY KeptFrom
  <2>3. QED
    BY <1>1, <1>3, <2>1, <2>2 DEF AllIn
<1>5. PICK own : own = IF g.all \/ g.allProxies THEN TopLevel(d) ELSE <<>>
  OBVIOUS
<1>6. AllIn(<<>>, S)
  BY Nothing DEF AllIn
<1>7. AllIn(own, S)
  <2>1. AllIn(TopLevel(d), S)
    BY <1>2, AllInWider DEF Drawn
  <2>2. QED
    BY <1>5, <1>6, <2>1
<1>8. PICK use : use = IF g.all \/ g.allProviders THEN [i \in DOMAIN d.providers |-> d.providers[i].name] ELSE g.use
  OBVIOUS
<1>9. IsSeq(use)
  <2>1. PICK n \in Nat : n = Len(d.providers)
    BY DEF IsDocument, IsSeq
  <2>2. PICK f : f = [i \in DOMAIN d.providers |-> d.providers[i].name]
    OBVIOUS
  <2>3. DOMAIN d.providers = 1..n
    BY <2>1, SeqRange DEF IsDocument
  <2>4. f = [i \in 1..n |-> f[i]]
    BY <2>2, <2>3
  <2>5. IsSeq(f)
    BY <2>4, Mapped
  <2>6. QED
    BY <1>8, <2>2, <2>5
<1>10. PICK rows : rows = [i \in DOMAIN use |-> IF use[i] \in DOMAIN b.from THEN b.from[use[i]] ELSE <<>>]
  OBVIOUS
<1>11. PICK provided : provided = FlattenSeq(rows)
  OBVIOUS
<1>12. AllIn(provided, S)
  <2>1. PICK n \in Nat : n = Len(use)
    BY <1>9 DEF IsSeq
  <2>2. DOMAIN use = 1..n
    BY <1>9, <2>1, SeqRange
  <2>3. rows = [i \in 1..n |-> rows[i]]
    BY <1>10, <2>2
  <2>4. IsSeq(rows) /\ Len(rows) = n
    BY <2>3, Mapped
  <2>5. ASSUME NEW i \in 1..n PROVE AllIn(rows[i], S)
    <3>1. rows[i] = IF use[i] \in DOMAIN b.from THEN b.from[use[i]] ELSE <<>>
      BY <1>10, <2>2
    <3>2. use[i] \in DOMAIN b.from => AllIn(b.from[use[i]], S)
      BY <1>2, AllInWider DEF Drawn
    <3>3. QED
      BY <1>6, <3>1, <3>2
  <2>6. QED
    BY <1>11, <2>4, <2>5, AllInFlat
<1>13. PICK all : all = Join(own, provided)
  OBVIOUS
<1>14. AllIn(all, S)
  BY <1>7, <1>12, <1>13, AllInJoin
<1>15. PICK kept : kept = Kept(all, {i \in DOMAIN all : Keeps(g.filter, all[i])})
  OBVIOUS
<1>16. AllIn(kept, S)
  BY <1>14, <1>15, AllInKept
<1>17. AllIn(Join(listed, kept), S)
  BY <1>4, <1>16, AllInJoin
<1>18. AllIn(Once(Join(listed, kept)), S)
  BY <1>17, AllInOnce
<1>19. Members(d, b, names, g) = Once(Join(listed, kept))
  BY <1>3, <1>5, <1>8, <1>10, <1>11, <1>13, <1>15, Zenon DEF Members, Join
<1>20. QED
  BY <1>1, <1>18, <1>19

\* The names of the groups.
GroupNames(p) == {p.groups[i].name : i \in 1..Len(p.groups)}
\* What Build makes of a document: no name is taken twice, and a group's
\* members exist and are not the group.
WellBuilt(p) ==
    /\ NameList(p.proxies) /\ IsSeq(p.groups)
    /\ \A i \in 1..Len(p.groups) :
          /\ checkName(p.groups[i].name) /\ p.groups[i].name \notin Range(p.proxies)
          /\ p.groups[i].members # <<>>
          /\ AllIn(p.groups[i].members,
                   (Builtins \cup Range(p.proxies) \cup GroupNames(p)) \ {p.groups[i].name})
    /\ \A i, j \in 1..Len(p.groups) : p.groups[i].name = p.groups[j].name => i = j

\* A document with groups or rules is built well.
LEMMA ConfigWell ==
    ASSUME NEW d, IsDocument(d), NEW b, Drawn(b, TopLevel(d)), BuildConfig(d, b).ok, NEW p, p = BuildConfig(d, b)
    PROVE  WellBuilt(p)
<1>1. /\ \A g \in Range(Groups(d, b)) : g.members # <<>>
      /\ p.proxies = b.proxies /\ p.groups = Groups(d, b)
  BY ConfigIs
<1>2. PICK all : all = Pending(d, b.proxies)
  OBVIOUS
<1>3. /\ IsSeq(all)
      /\ \A k \in 1..Len(all) :
            /\ checkName(all[k].name) /\ all[k].name \notin Range(b.proxies)
            /\ IsSeq(all[k].proxies) /\ IsSeq(all[k].use)
      /\ \A k, l \in 1..Len(all) : all[k].name = all[l].name => k = l
  BY <1>2, PendingIs
<1>4. PICK n \in Nat : n = Len(all)
  BY <1>3 DEF IsSeq
<1>5. DOMAIN all = 1..n
  BY <1>3, <1>4, SeqRange
<1>6. PICK names : names = Builtins \cup Range(b.proxies) \cup {g.name : g \in Range(all)}
  OBVIOUS
<1>7. PICK gs : gs = p.groups
  OBVIOUS
<1>8. gs = [i \in DOMAIN all |->
            [name |-> all[i].name, type |-> all[i].type, hidden |-> all[i].hidden,
             broken |-> all[i].filter.broken, members |-> Members(d, b, names, all[i])]]
  BY <1>1, <1>2, <1>6, <1>7, Zenon DEF Groups
<1>9. gs = [i \in 1..n |-> gs[i]]
  BY <1>5, <1>8
<1>10. IsSeq(gs) /\ Len(gs) = n
  BY <1>9, Mapped
<1>11. \A i \in 1..n : gs[i].name = all[i].name /\ gs[i].members = Members(d, b, names, all[i])
  BY <1>5, <1>8
<1>12. {g.name : g \in Range(all)} = GroupNames(p)
  <2>1. ASSUME NEW x, x \in {g.name : g \in Range(all)} PROVE x \in GroupNames(p)
    <3>1. PICK g \in Range(all) : x = g.name
      BY <2>1
    <3>2. PICK i \in 1..n : all[i] = g
      BY <1>3, <1>4, InRange
    <3>3. QED
      BY <1>7, <1>10, <1>11, <3>1, <3>2 DEF GroupNames
  <2>2. ASSUME NEW x, x \in GroupNames(p) PROVE x \in {g.name : g \in Range(all)}
    <3>1. PICK i \in 1..n : x = gs[i].name
      BY <1>7, <1>10, <2>2 DEF GroupNames
    <3>2. all[i] \in Range(all)
      BY <1>3, <1>4, InRange
    <3>3. QED
      BY <1>11, <3>1, <3>2
  <2>3. QED
    BY <2>1, <2>2
<1>13. names = Builtins \cup Range(p.proxies) \cup GroupNames(p)
  BY <1>1, <1>6, <1>12
<1>14. ASSUME NEW i \in 1..n
       PROVE  /\ checkName(gs[i].name) /\ gs[i].name \notin Range(p.proxies)
              /\ gs[i].members # <<>> /\ AllIn(gs[i].members, names \ {gs[i].name})
  <2>1. PICK g : g = all[i]
    OBVIOUS
  <2>2. checkName(g.name) /\ g.name \notin Range(b.proxies) /\ IsSeq(g.proxies) /\ IsSeq(g.use)
    BY <1>3, <1>4, <2>1
  <2>3. Range(b.proxies) \subseteq names
    BY <1>6
  <2>4. AllIn(Members(d, b, names, g), names \ {g.name})
    BY <2>2, <2>3, MembersAllIn
  <2>5. gs[i] \in Range(gs)
    BY <1>10, InRange
  <2>6. QED
    BY <1>1, <1>7, <1>11, <2>1, <2>2, <2>4, <2>5
<1>15. ASSUME NEW i \in 1..n, NEW j \in 1..n, gs[i].name = gs[j].name PROVE i = j
  BY <1>3, <1>4, <1>11, <1>15
<1>16. NameList(p.proxies)
  BY <1>1 DEF Drawn
<1>17. QED
  BY <1>7, <1>10, <1>13, <1>14, <1>15, <1>16 DEF WellBuilt

\* A document of bare proxies is built well.
LEMMA WrappedWell ==
    ASSUME NEW d, NEW b, Drawn(b, TopLevel(d)), BuildWrapped(b).ok, NEW p, p = BuildWrapped(b)
    PROVE  WellBuilt(p)
<1>1. /\ b.proxies # <<>> /\ WrapperGroup \notin Range(b.proxies)
      /\ p.proxies = b.proxies /\ p.groups = <<WrapGroup(b)>>
  BY WrappedIs
<1>2. PICK g, gs : g = WrapGroup(b) /\ gs = <<g>>
  OBVIOUS
<1>3. IsSeq(gs) /\ Len(gs) = 1 /\ gs[1] = g
  BY <1>2, Single
<1>4. g.name = WrapperGroup /\ g.members = b.proxies
  BY <1>2 DEF WrapGroup
<1>5. p.groups = gs
  BY <1>1, <1>2
<1>6. checkName(WrapperGroup)
  BY DEF checkName, WrapperGroup, Global, Builtins
<1>7. NameList(b.proxies) /\ IsSeq(b.proxies)
  BY DEF Drawn, NameList
<1>8. AllIn(b.proxies, (Builtins \cup Range(b.proxies) \cup GroupNames(p)) \ {WrapperGroup})
  BY <1>1, <1>7, InRange DEF AllIn
<1>9. \A i \in 1..Len(gs) : i = 1
  BY <1>3
<1>10. QED
  BY <1>1, <1>3, <1>4, <1>5, <1>6, <1>7, <1>8, <1>9 DEF WellBuilt

\* Whatever Build accepts is built well.
LEMMA BuiltWell ==
    ASSUME NEW d, IsDocument(d), Build(d).ok
    PROVE  WellBuilt(Build(d))
<1>1. PICK b : b = Providers(d)
  OBVIOUS
<1>2. Drawn(b, TopLevel(d))
  BY <1>1, ProvidersDrawn
<1>3. CASE Build(d) = BuildWrapped(b)
  BY <1>2, <1>3, WrappedWell
<1>4. CASE Build(d) = BuildConfig(d, b)
  BY <1>2, <1>4, ConfigWell
<1>5. QED
  BY <1>1, <1>3, <1>4, BuildIs, EmptyIs

(***************************************************************************)
(* The groups the core is given, and that they fit.                        *)
(***************************************************************************)
\* primaryGroup answers a group's name whenever there is a group.
LEMMA PrimaryIs ==
    ASSUME NEW groups, IsSeq(groups), NEW want, NEW pr, pr = primaryGroup(groups, want)
    PROVE  IF groups = <<>> THEN pr = <<>> ELSE \E i \in 1..Len(groups) : pr = groups[i].name
<1>1. PICK shown : shown = Kept(groups, {i \in DOMAIN groups : ~groups[i].hidden})
  OBVIOUS
<1>2. IsSeq(shown) /\ \A k \in 1..Len(shown) : \E i \in 1..Len(groups) : shown[k] = groups[i]
  <2>1. PICK I : I = {i \in DOMAIN groups : ~groups[i].hidden}
    OBVIOUS
  <2>2. shown = Kept(groups, I)
    BY <1>1, <2>1
  <2>3. QED
    BY <2>2, KeptFrom
<1>3. PICK among : among = IF shown = <<>> THEN groups ELSE shown
  OBVIOUS
<1>4. IsSeq(among) /\ \A k \in 1..Len(among) : \E i \in 1..Len(groups) : among[k] = groups[i]
  BY <1>2, <1>3
<1>5. PICK selects : selects = Kept(among, {i \in DOMAIN among : among[i].type = "select"})
  OBVIOUS
<1>6. IsSeq(selects) /\ \A k \in 1..Len(selects) : \E i \in 1..Len(among) : selects[k] = among[i]
  <2>1. PICK I : I = {i \in DOMAIN among : among[i].type = "select"}
    OBVIOUS
  <2>2. selects = Kept(among, I) /\ IsSeq(among)
    BY <1>4, <1>5, <2>1
  <2>3. QED
    BY <2>2, KeptFrom
<1>7. pr = IF \E g \in Range(groups) : g.name = want THEN want
           ELSE IF selects # <<>> THEN selects[1].name
           ELSE IF groups # <<>> THEN among[1].name
           ELSE <<>>
  BY <1>1, <1>3, <1>5, Zenon DEF primaryGroup
<1>8. CASE groups = <<>>
  <2>1. Len(groups) = 0 /\ 1..0 = {}
    BY <1>8, Nothing
  <2>2. Range(groups) = {}
    <3>1. ASSUME NEW g \in Range(groups) PROVE FALSE
      <4>1. \E i \in 1..Len(groups) : groups[i] = g
        BY InRange
      <4>2. QED
        BY <2>1, <4>1
    <3>2. QED
      BY <3>1
  <2>3. Len(among) = 0
    <3>1. Len(among) \in Nat
      BY <1>4 DEF IsSeq
    <3>2. Len(among) # 0 => 1 \in 1..Len(among)
      BY <3>1
    <3>3. QED
      BY <1>4, <2>1, <3>2
  <2>4. selects = <<>>
    <3>1. Len(selects) \in Nat
      BY <1>6 DEF IsSeq
    <3>2. Len(selects) # 0 => 1 \in 1..Len(selects)
      BY <3>1
    <3>3. Len(selects) = 0
      BY <1>6, <2>3, <3>2
    <3>4. QED
      BY <1>6, <3>3, NothingElse
  <2>5. QED
    BY <1>7, <1>8, <2>2, <2>4
<1>9. CASE groups # <<>>
  <2>1. Len(groups) \in Nat /\ Len(groups) # 0
    BY <1>9, NothingElse
  <2>2. among # <<>>
    BY <1>3, <1>9
  <2>3. 1 \in 1..Len(among)
    <3>1. Len(among) \in Nat /\ Len(among) # 0
      BY <1>4, <2>2, NothingElse
    <3>2. QED
      BY <3>1
  <2>4. CASE \E g \in Range(groups) : g.name = want
    <3>1. PICK g \in Range(groups) : g.name = want
      BY <2>4
    <3>2. PICK i \in 1..Len(groups) : groups[i] = g
      BY InRange
    <3>3. QED
      BY <1>7, <1>9, <2>4, <3>1, <3>2
  <2>5. CASE ~(\E g \in Range(groups) : g.name = want) /\ selects # <<>>
    <3>1. Len(selects) \in Nat /\ Len(selects) # 0
      BY <1>6, <2>5, NothingElse
    <3>2. 1 \in 1..Len(selects)
      BY <3>1
    <3>3. PICK j \in 1..Len(among) : selects[1] = among[j]
      BY <1>6, <3>2
    <3>4. PICK i \in 1..Len(groups) : among[j] = groups[i]
      BY <1>4
    <3>5. pr = selects[1].name
      BY <1>7, <2>5
    <3>6. QED
      BY <1>9, <3>3, <3>4, <3>5
  <2>6. CASE ~(\E g \in Range(groups) : g.name = want) /\ selects = <<>>
    <3>1. pr = among[1].name
      BY <1>7, <1>9, <2>6
    <3>2. PICK i \in 1..Len(groups) : among[1] = groups[i]
      BY <1>4, <2>3
    <3>3. QED
      BY <1>9, <3>1, <3>2
  <2>7. QED
    BY <2>4, <2>5, <2>6
<1>10. QED
  BY <1>8, <1>9

\* The groups the core gets.
TopGroup(pr) == [name |-> Global, members |-> <<pr>>]
\* The groups of a profile, without what the core does not need.
PlainGroups(p) == [i \in DOMAIN p.groups |-> [name |-> p.groups[i].name, members |-> p.groups[i].members]]
\* The groups the core is given.
RawGroups(s, p) ==
    IF primaryGroup(p.groups, s.primary) = <<>> THEN Join(<<>>, PlainGroups(p))
    ELSE Join(One(TopGroup(primaryGroup(p.groups, s.primary))), PlainGroups(p))
\* What the core knows by name.
RawNames(p) == Range(p.proxies) \cup GroupNames(p) \cup (IF p.groups = <<>> THEN {} ELSE {Global})

\* The profile's groups as the core gets them.
LEMMA PlainGroupsAre ==
    ASSUME NEW p, WellBuilt(p), NEW gs, gs = PlainGroups(p)
    PROVE  /\ IsSeq(gs) /\ Len(gs) = Len(p.groups) /\ Len(gs) \in Nat
           /\ \A i \in 1..Len(gs) : gs[i].name = p.groups[i].name /\ gs[i].members = p.groups[i].members
<1>1. IsSeq(p.groups)
  BY DEF WellBuilt
<1>2. PICK n \in Nat : n = Len(p.groups)
  BY <1>1 DEF IsSeq
<1>3. DOMAIN p.groups = 1..n
  BY <1>1, <1>2, SeqRange
<1>4. /\ gs = [i \in 1..n |-> gs[i]]
      /\ \A i \in 1..n : gs[i] = [name |-> p.groups[i].name, members |-> p.groups[i].members]
  BY <1>3 DEF PlainGroups
<1>5. IsSeq(gs) /\ Len(gs) = n
  BY <1>4, Mapped
<1>6. ASSUME NEW i \in 1..n PROVE gs[i].name = p.groups[i].name /\ gs[i].members = p.groups[i].members
  <2>1. PICK x, y, g : x = p.groups[i].name /\ y = p.groups[i].members /\ g = gs[i]
    OBVIOUS
  <2>2. g = [name |-> x, members |-> y]
    BY <1>4, <2>1
  <2>3. g.name = x /\ g.members = y
    BY <2>2
  <2>4. QED
    BY <2>1, <2>3
<1>7. QED
  BY <1>2, <1>5, <1>6

\* A group's members exist, are not itself, and are some.
Fed(g, N) == g.members # <<>> /\ AllIn(g.members, (N \cup Builtins) \ {g.name})

\* The groups the core gets, GLOBAL in front: no name twice or of a proxy,
\* and members that exist.
LEMMA RawGroupsAre ==
    ASSUME NEW p, WellBuilt(p), NEW s, NEW G, G = RawGroups(s, p)
    PROVE  /\ IsSeq(G)
           /\ RawNames(p) = Range(p.proxies) \cup {G[i].name : i \in 1..Len(G)}
           /\ \A i, j \in 1..Len(G) : G[i].name = G[j].name => i = j
           /\ \A i \in 1..Len(G) : G[i].name \notin Range(p.proxies) \cup Builtins
           /\ \A i \in 1..Len(G) : Fed(G[i], RawNames(p))
<1>1. PICK gs : gs = PlainGroups(p)
  OBVIOUS
<1>2. /\ IsSeq(gs) /\ Len(gs) = Len(p.groups) /\ Len(gs) \in Nat
      /\ \A i \in 1..Len(gs) : gs[i].name = p.groups[i].name /\ gs[i].members = p.groups[i].members
  BY <1>1, PlainGroupsAre
<1>3. PICK n \in Nat : n = Len(gs)
  BY <1>2
<1>4. PICK pr : pr = primaryGroup(p.groups, s.primary)
  OBVIOUS
<1>5. IsSeq(p.groups) /\ Len(p.groups) = n
  BY <1>2, <1>3 DEF WellBuilt
<1>6. IF p.groups = <<>> THEN pr = <<>> ELSE \E i \in 1..Len(p.groups) : pr = p.groups[i].name
  BY <1>4, <1>5, PrimaryIs
<1>7. \A i \in 1..n : checkName(gs[i].name) /\ gs[i].name \notin Range(p.proxies) /\ gs[i].name = p.groups[i].name
  BY <1>2, <1>3, <1>5 DEF WellBuilt
<1>8. \A i, j \in 1..n : gs[i].name = gs[j].name => i = j
  BY <1>2, <1>3, <1>5 DEF WellBuilt
<1>9. GroupNames(p) = {gs[i].name : i \in 1..n}
  BY <1>5, <1>7 DEF GroupNames
<1>10. ASSUME NEW i \in 1..n PROVE Fed(gs[i], RawNames(p))
  <2>1. PICK S : S = (Builtins \cup Range(p.proxies) \cup GroupNames(p)) \ {gs[i].name}
    OBVIOUS
  <2>2. AllIn(gs[i].members, S) /\ gs[i].members # <<>>
    BY <1>2, <1>3, <1>5, <1>7, <2>1 DEF WellBuilt
  <2>3. S \subseteq (RawNames(p) \cup Builtins) \ {gs[i].name}
    BY <2>1 DEF RawNames
  <2>4. QED
    BY <2>2, <2>3, AllInWider DEF Fed
<1>11. \A x : checkName(x) => x # <<>> /\ x # Global /\ x \notin Builtins
  BY DEF checkName
<1>12. CASE p.groups = <<>>
  <2>1. G = gs
    <3>1. G = Join(<<>>, gs)
      BY <1>1, <1>4, <1>6, <1>12 DEF RawGroups
    <3>2. QED
      BY <1>2, <3>1, JoinNothing
  <2>2. RawNames(p) = Range(p.proxies) \cup {gs[i].name : i \in 1..n}
    BY <1>9, <1>12 DEF RawNames
  <2>3. Len(G) = n /\ IsSeq(G)
    BY <1>2, <1>3, <2>1
  <2>4. \A i \in 1..n : G[i].name \notin Range(p.proxies) \cup Builtins
    BY <1>7, <1>11, <2>1
  <2>5. \A i \in 1..n : Fed(G[i], RawNames(p))
    BY <1>10, <2>1
  <2>6. \A i, j \in 1..n : G[i].name = G[j].name => i = j
    BY <1>8, <2>1
  <2>7. RawNames(p) = Range(p.proxies) \cup {G[i].name : i \in 1..n}
    BY <2>1, <2>2
  <2>8. QED
    BY <2>3, <2>4, <2>5, <2>6, <2>7
<1>13. CASE p.groups # <<>>
  <2>1. PICK k \in 1..n : pr = gs[k].name
    BY <1>5, <1>6, <1>7, <1>13
  <2>2. pr # <<>> /\ pr # Global /\ pr \in RawNames(p)
    BY <1>7, <1>9, <1>11, <2>1 DEF RawNames
  <2>3. PICK t, o : t = TopGroup(pr) /\ o = One(t)
    OBVIOUS
  <2>4. G = Join(o, gs)
    BY <1>1, <1>4, <2>2, <2>3 DEF RawGroups
  <2>5. IsSeq(o) /\ Len(o) = 1 /\ o[1] = t
    BY <2>3, OneSeq
  <2>6. IsSeq(o)
    BY <2>5
  <2>7. IsSeq(G) /\ Len(G) = Len(o) + Len(gs)
    BY <1>2, <2>4, <2>6, JoinSeq, JoinLen
  <2>8. (\A i \in 1..Len(o) : G[i] = o[i]) /\ (\A i \in 1..Len(gs) : G[Len(o) + i] = gs[i])
    BY <1>2, <2>4, <2>6, JoinAt
  <2>9. Len(G) = n + 1 /\ G[1] = t /\ \A i \in 1..n : G[1 + i] = gs[i]
    BY <1>3, <2>5, <2>7, <2>8
  <2>10. \A i \in 2..(n + 1) : i - 1 \in 1..n /\ G[i] = gs[i - 1]
    <3>1. ASSUME NEW i \in 2..(n + 1) PROVE i - 1 \in 1..n /\ G[i] = gs[i - 1]
      <4>1. i - 1 \in 1..n /\ 1 + (i - 1) = i
        OBVIOUS
      <4>2. QED
        BY <2>9, <4>1
    <3>2. QED
      BY <3>1
  <2>11. t.name = Global /\ t.members = <<pr>>
    BY <2>3 DEF TopGroup
  <2>12. RawNames(p) = Range(p.proxies) \cup {gs[i].name : i \in 1..n} \cup {Global}
    BY <1>9, <1>13 DEF RawNames
  <2>13. {G[i].name : i \in 1..Len(G)} = {gs[i].name : i \in 1..n} \cup {Global}
    <3>1. ASSUME NEW i \in 1..Len(G) PROVE G[i].name \in {gs[j].name : j \in 1..n} \cup {Global}
      <4>1. CASE i = 1
        BY <2>9, <2>11, <4>1
      <4>2. CASE i \in 2..(n + 1)
        BY <2>10, <4>2
      <4>3. QED
        BY <2>9, <4>1, <4>2
    <3>2. ASSUME NEW i \in 1..n PROVE gs[i].name \in {G[j].name : j \in 1..Len(G)}
      <4>1. 1 + i \in 1..Len(G) /\ G[1 + i] = gs[i]
        BY <2>9
      <4>2. QED
        BY <4>1
    <3>3. Global \in {G[j].name : j \in 1..Len(G)}
      <4>1. 1 \in 1..Len(G)
        BY <2>9
      <4>2. QED
        BY <2>9, <2>11, <4>1
    <3>4. QED
      BY <3>1, <3>2, <3>3, ZenonT(30)
  <2>14. ASSUME NEW i \in 1..Len(G), NEW j \in 1..Len(G), G[i].name = G[j].name PROVE i = j
    <3>1. CASE i = 1 /\ j = 1
      BY <3>1
    <3>2. CASE i = 1 /\ j \in 2..(n + 1)
      BY <1>7, <1>11, <2>9, <2>10, <2>11, <2>14, <3>2
    <3>3. CASE i \in 2..(n + 1) /\ j = 1
      BY <1>7, <1>11, <2>9, <2>10, <2>11, <2>14, <3>3
    <3>4. CASE i \in 2..(n + 1) /\ j \in 2..(n + 1)
      <4>1. i - 1 = j - 1
        BY <1>8, <2>10, <2>14, <3>4
      <4>2. QED
        BY <3>4, <4>1
    <3>5. QED
      BY <2>9, <3>1, <3>2, <3>3, <3>4
  <2>15. Global \notin Range(p.proxies) \cup Builtins
    <3>1. Global \notin Builtins
      BY DEF Global, Builtins
    <3>2. ASSUME Global \in Range(p.proxies) PROVE FALSE
      <4>1. IsSeq(p.proxies) /\ \A i \in 1..Len(p.proxies) : checkName(p.proxies[i])
        BY DEF WellBuilt, NameList
      <4>2. PICK i \in 1..Len(p.proxies) : p.proxies[i] = Global
        BY <3>2, <4>1, InRange
      <4>3. QED
        BY <1>11, <4>1, <4>2
    <3>3. QED
      BY <3>1, <3>2
  <2>16. Fed(t, RawNames(p))
    <3>1. PICK m : m = <<pr>>
      OBVIOUS
    <3>2. IsSeq(m) /\ Len(m) = 1 /\ m[1] = pr
      BY <3>1, Single
    <3>3. m # <<>>
      BY <3>2, NothingElse
    <3>4. pr \in (RawNames(p) \cup Builtins) \ {Global}
      BY <2>2
    <3>5. AllIn(m, (RawNames(p) \cup Builtins) \ {Global})
      BY <3>2, <3>4 DEF AllIn
    <3>6. QED
      BY <2>11, <3>1, <3>3, <3>5 DEF Fed
  <2>17. ASSUME NEW i \in 1..Len(G)
         PROVE  G[i].name \notin Range(p.proxies) \cup Builtins /\ Fed(G[i], RawNames(p))
    <3>1. CASE i = 1
      BY <2>9, <2>11, <2>15, <2>16, <3>1
    <3>2. CASE i \in 2..(n + 1)
      BY <1>7, <1>10, <1>11, <2>10, <3>2
    <3>3. QED
      BY <2>9, <3>1, <3>2
  <2>18. QED
    BY <2>7, <2>12, <2>13, <2>14, <2>17
<1>14. QED
  BY <1>12, <1>13

\* The fields of what the core gets.
LEMMA RawIs ==
    ASSUME NEW p, WellBuilt(p), NEW s, NEW es, NEW c, c = rawConfig(s, es, p)
    PROVE  /\ c.proxies = p.proxies /\ c.groups = RawGroups(s, p) /\ c.names = RawNames(p)
           /\ c.sets = p.sets /\ c.subs = p.subs /\ c.dns = s.dns
<1>1. PICK G : G = RawGroups(s, p)
  OBVIOUS
<1>2. c.groups = G
  BY <1>1, Zenon DEF rawConfig, RawGroups, PlainGroups, TopGroup, Join, One
<1>3. /\ c.proxies = p.proxies /\ c.sets = p.sets /\ c.subs = p.subs /\ c.dns = s.dns
      /\ c.names = Range(p.proxies) \cup {g.name : g \in Range(c.groups)}
  BY Zenon DEF rawConfig
<1>4. IsSeq(G) /\ RawNames(p) = Range(p.proxies) \cup {G[i].name : i \in 1..Len(G)}
  BY <1>1, RawGroupsAre
<1>5. {g.name : g \in Range(G)} = {G[i].name : i \in 1..Len(G)}
  BY <1>4, InRange
<1>6. QED
  BY <1>1, <1>2, <1>3, <1>4, <1>5

\* The core finds the proxies and groups of any built profile in order, under
\* any settings and rules.
LEMMA GroupsFit ==
    ASSUME NEW p, WellBuilt(p), NEW s, NEW es
    PROVE  GroupsResolve(rawConfig(s, es, p))
<1>1. PICK c : c = rawConfig(s, es, p)
  OBVIOUS
<1>2. PICK G, N : G = RawGroups(s, p) /\ N = RawNames(p)
  OBVIOUS
<1>3. c.proxies = p.proxies /\ c.groups = G /\ c.names = N
  BY <1>1, <1>2, RawIs
<1>4. /\ IsSeq(G) /\ N = Range(p.proxies) \cup {G[i].name : i \in 1..Len(G)}
      /\ \A i, j \in 1..Len(G) : G[i].name = G[j].name => i = j
      /\ \A i \in 1..Len(G) : G[i].name \notin Range(p.proxies) \cup Builtins
      /\ \A i \in 1..Len(G) : Fed(G[i], N)
  BY <1>2, RawGroupsAre
<1>5. IsSeq(p.proxies) /\ Distinct(p.proxies) /\ \A i \in 1..Len(p.proxies) : checkName(p.proxies[i])
  BY DEF WellBuilt, NameList
<1>6. PICK n \in Nat : n = Len(G)
  BY <1>4 DEF IsSeq
<1>7. PICK ns : ns = [i \in 1..n |-> G[i].name]
  OBVIOUS
<1>8. ns = [i \in 1..n |-> ns[i]] /\ \A i \in 1..n : ns[i] = G[i].name
  BY <1>7
<1>9. IsSeq(ns) /\ Len(ns) = n
  BY <1>8, Mapped
<1>10. Range(ns) = {G[i].name : i \in 1..n}
  BY <1>8, <1>9, InRange, SMTT(30)
<1>11. Distinct(ns)
  BY <1>4, <1>6, <1>8, <1>9 DEF Distinct
<1>12. IsFiniteSet(Range(ns)) /\ Cardinality(Range(ns)) = n
  BY <1>9, <1>11, RangeFinite
<1>13. IsFiniteSet(Range(p.proxies)) /\ Cardinality(Range(p.proxies)) = Len(p.proxies) /\ Len(p.proxies) \in Nat
  BY <1>5, RangeFinite
<1>14. Range(p.proxies) \cap Range(ns) = {}
  BY <1>4, <1>6, <1>10
<1>15. Cardinality(N) = Len(p.proxies) + Len(G)
  <2>1. Cardinality(Range(p.proxies) \cup Range(ns)) =
           Cardinality(Range(p.proxies)) + Cardinality(Range(ns)) - Cardinality(Range(p.proxies) \cap Range(ns))
    BY <1>12, <1>13, FS_Union
  <2>2. Cardinality({}) = 0
    BY FS_EmptySet
  <2>3. N = Range(p.proxies) \cup Range(ns)
    BY <1>4, <1>6, <1>10
  <2>4. Cardinality(Range(p.proxies) \cap Range(ns)) = 0
    BY <1>14, <2>2
  <2>5. PICK a, b : a = Cardinality(Range(p.proxies)) /\ b = Cardinality(Range(ns))
    OBVIOUS
  <2>6. Cardinality(N) = a + b - 0
    BY <2>1, <2>3, <2>4, <2>5
  <2>7. a = Len(p.proxies) /\ b = n /\ a \in Nat
    BY <1>12, <1>13, <2>5
  <2>8. QED
    BY <1>6, <2>6, <2>7
<1>16. N \cap Builtins = {}
  <2>1. \A x \in Range(p.proxies) : x \notin Builtins
    BY <1>5, InRange DEF checkName
  <2>2. QED
    BY <1>4, <2>1
<1>17. ASSUME NEW g \in Range(G) PROVE g.members # <<>> /\ Range(g.members) \subseteq (N \cup Builtins) \ {g.name}
  <2>1. PICK i \in 1..Len(G) : G[i] = g
    BY <1>4, InRange
  <2>2. Fed(g, N)
    BY <1>4, <2>1
  <2>3. PICK m : m = g.members
    OBVIOUS
  <2>4. m # <<>> /\ IsSeq(m) /\ \A j \in 1..Len(m) : m[j] \in (N \cup Builtins) \ {g.name}
    BY <2>2, <2>3 DEF Fed, AllIn
  <2>5. QED
    BY <2>3, <2>4, InRange
<1>18. QED
  BY <1>1, <1>3, <1>15, <1>16, <1>17 DEF GroupsResolve

(***************************************************************************)
(* Every document that is accepted resolves: BuildResolves.                *)
(***************************************************************************)
\* A rule of a built profile: its names are known, and ruleLine writes it
\* unless it is one with an empty value of a type that takes commas.
RuleWell(p, r) ==
    /\ r.type # <<"SUB-RULE">> => r.target \in RawNames(p) \cup Builtins \cup {Global}
    /\ r.type = <<"RULE-SET">> => r.value[1] \in p.sets
    /\ (r.type \in CommaValues /\ r.value = NoValue) \/ IsLine(r)

\* A malformed line's type is no rule type.
LEMMA NotEmptyType == <<>> \notin RuleTypes
BY DEF RuleTypes

\* The rules of a document with groups or rules know their names.
LEMMA ConfigRules ==
    ASSUME NEW d, IsDocument(d), NEW b, BuildConfig(d, b).ok, NEW p, p = BuildConfig(d, b),
           IsSeq(p.groups), NEW k \in 1..Len(p.rules)
    PROVE  RuleWell(p, p.rules[k])
<1>1. PICK names : names = Named(b, Groups(d, b))
  OBVIOUS
<1>2. p.proxies = b.proxies /\ p.groups = Groups(d, b) /\ p.sets = RuleSets(d) /\ p.rules = Rules(d, names)
  BY <1>1, ConfigIs
<1>3. PICK i \in 1..Len(d.rules) : /\ p.rules[k] = Plain(ParseRule(d.rules[i]))
                                   /\ Known(d, names, ParseRule(d.rules[i]))
  BY <1>2, RulesFrom
<1>4. PICK f, q, r : f = d.rules[i] /\ q = ParseRule(f) /\ r = Plain(q)
  OBVIOUS
<1>5. p.rules[k] = r /\ Known(d, names, q)
  BY <1>3, <1>4
<1>6. IsSeq(f)
  BY <1>4, SeqRange DEF IsDocument
<1>7. q.type # <<>>
  BY <1>5, NotEmptyType DEF Known
<1>8. /\ r.type = q.type /\ r.value = q.value /\ r.target = q.target
      /\ (r.type \in CommaValues /\ r.value = NoValue) \/ IsLine(r)
  BY <1>4, <1>6, <1>7, ReadIs
<1>9. names \subseteq RawNames(p) \cup Builtins
  <2>1. ASSUME NEW x, x \in {g.name : g \in Range(p.groups)} PROVE x \in GroupNames(p)
    <3>1. PICK g \in Range(p.groups) : x = g.name
      BY <2>1
    <3>2. PICK j \in 1..Len(p.groups) : p.groups[j] = g
      BY InRange
    <3>3. QED
      BY <3>1, <3>2 DEF GroupNames
  <2>2. QED
    BY <1>1, <1>2, <2>1 DEF Named, RawNames
<1>10. QED
  BY <1>2, <1>5, <1>8, <1>9 DEF Known, RuleWell

\* The one rule of a document of bare proxies knows its name.
LEMMA WrappedRules ==
    ASSUME NEW b, BuildWrapped(b).ok, NEW p, p = BuildWrapped(b), NEW k \in 1..Len(p.rules)
    PROVE  RuleWell(p, p.rules[k])
<1>1. PICK f, r, g, rs, gs : /\ f = <<<<"MATCH">>, WrapperGroup>> /\ r = ParseRule(f) /\ rs = <<r>>
                             /\ g = WrapGroup(b) /\ gs = <<g>>
  OBVIOUS
<1>2. p.rules = rs /\ p.groups = gs
  BY <1>1, WrappedIs
<1>3. Len(rs) = 1 /\ rs[1] = r /\ Len(gs) = 1 /\ gs[1] = g
  BY <1>1, Single
<1>4. p.rules[k] = r
  BY <1>2, <1>3
<1>5. f[1] = <<"MATCH">> /\ f[2] = WrapperGroup /\ Len(f) = 2
  BY <1>1
<1>6. WrapperGroup # <<>>
  BY DEF WrapperGroup
<1>7. r = [type |-> f[1], value |-> NoValue, target |-> f[2], params |-> <<>>]
  BY <1>1, <1>5, <1>6, NotComma DEF ParseRule
<1>8. r.type = <<"MATCH">> /\ r.value = NoValue /\ r.target = WrapperGroup /\ r.params = <<>>
  BY <1>5, <1>7
<1>9. IsSeq(NoValue) /\ NoValue # <<>> /\ IsSeq(<<>>)
  BY Single, Nothing, NothingElse DEF NoValue
<1>10. IsLine(r)
  <2>1. r = [type |-> r.type, value |-> r.value, target |-> r.target, params |-> r.params]
    BY <1>7
  <2>2. QED
    BY <1>6, <1>8, <1>9, <2>1, NotComma DEF IsLine
<1>11. g.name = WrapperGroup
  BY <1>1 DEF WrapGroup
<1>12. WrapperGroup \in RawNames(p)
  <2>1. 1 \in 1..Len(p.groups) /\ p.groups[1].name = WrapperGroup
    BY <1>2, <1>3, <1>11
  <2>2. QED
    BY <2>1 DEF RawNames, GroupNames
<1>13. <<"MATCH">> # <<"RULE-SET">>
  OBVIOUS
<1>14. QED
  BY <1>4, <1>8, <1>10, <1>12, <1>13 DEF RuleWell

\* The rules of whatever Build accepts know their names.
LEMMA BuiltRules ==
    ASSUME NEW d, IsDocument(d), Build(d).ok, NEW k \in 1..Len(Build(d).rules)
    PROVE  RuleWell(Build(d), Build(d).rules[k])
<1>1. PICK b : b = Providers(d)
  OBVIOUS
<1>2. IsSeq(Build(d).groups)
  BY BuiltWell DEF WellBuilt
<1>3. CASE Build(d) = BuildWrapped(b)
  BY <1>3, WrappedRules
<1>4. CASE Build(d) = BuildConfig(d, b)
  BY <1>2, <1>4, ConfigRules
<1>5. QED
  BY <1>1, <1>3, <1>4, BuildIs, EmptyIs

\* BuildResolves holds in every state.
LEMMA BuildAlwaysResolves == BuildResolves
<1>1. SUFFICES ASSUME NEW p \in Built, NEW c, c = rawConfig(set, entries, p)
               PROVE  /\ GroupsResolve(c)
                      /\ \A r \in Range(p.rules) :
                            /\ r.type # <<"SUB-RULE">> => RuleResolves(c, r)
                            /\ (r.type \in CommaValues /\ r.value = NoValue) \/ ParseRule(ruleLine(r)) = r
  BY DEF BuildResolves
<1>2. PICK d \in Documents : p = Build(d) /\ p.ok
  BY <1>1 DEF Built
<1>3. IsDocument(d) /\ Build(d).ok
  BY <1>2, RoutingAssumption
<1>4. WellBuilt(p) /\ IsSeq(p.rules)
  BY <1>2, <1>3, BuiltWell, BuiltRulesSeq
<1>5. GroupsResolve(c)
  BY <1>1, <1>4, GroupsFit
<1>6. c.names = RawNames(p) /\ c.sets = p.sets
  BY <1>1, <1>4, RawIs
<1>7. ASSUME NEW r \in Range(p.rules)
      PROVE  /\ r.type # <<"SUB-RULE">> => RuleResolves(c, r)
             /\ (r.type \in CommaValues /\ r.value = NoValue) \/ ParseRule(ruleLine(r)) = r
  <2>1. PICK k \in 1..Len(p.rules) : p.rules[k] = r
    BY <1>4, InRange
  <2>2. RuleWell(p, r)
    BY <1>2, <1>3, <2>1, BuiltRules
  <2>3. IsLine(r) => ParseRule(ruleLine(r)) = r
    BY LineRead
  <2>4. r.type # <<"SUB-RULE">> => RuleResolves(c, r)
    BY <1>6, <2>2 DEF RuleWell, RuleResolves
  <2>5. QED
    BY <2>2, <2>3, <2>4 DEF RuleWell
<1>8. QED
  BY <1>5, <1>7

\* Whatever document Build accepts, the core is handed proxies, groups and
\* rules whose names resolve, and every rule as it was read from its line,
\* but for the sub-rules and the rule with an empty value that ruleLine
\* refuses.
THEOREM RoutingBuilds == RoutingSpec => []BuildResolves
BY BuildAlwaysResolves, PTL

(***************************************************************************)
(* The owner's rules, and the program's own, name what is there.           *)
(***************************************************************************)
\* A listed rule reaches the core as it is, and the core knows its names.
Reaches(p, l) == IsLine(l.rule) /\ RuleResolves([names |-> RawNames(p), sets |-> p.sets, subs |-> p.subs], l.rule)

\* What a rule resolves to depends on the profile alone.
LEMMA SameNames ==
    ASSUME NEW p, WellBuilt(p), NEW s, NEW es, NEW r
    PROVE  RuleResolves(rawConfig(s, es, p), r)
           <=> RuleResolves([names |-> RawNames(p), sets |-> p.sets, subs |-> p.subs], r)
<1>1. PICK c, e : c = rawConfig(s, es, p) /\ e = [names |-> RawNames(p), sets |-> p.sets, subs |-> p.subs]
  OBVIOUS
<1>2. c.names = RawNames(p) /\ c.sets = p.sets /\ c.subs = p.subs
  BY <1>1, RawIs
<1>3. e.names = RawNames(p) /\ e.sets = p.sets /\ e.subs = p.subs
  BY <1>1
<1>4. RuleResolves(c, r) <=> RuleResolves(e, r)
  BY <1>2, <1>3 DEF RuleResolves
<1>5. QED
  BY <1>1, <1>4

\* A rule that passed checkRule is one ruleLine writes.
LEMMA CheckedLine ==
    ASSUME NEW r, IsRule(r), checkRule(r), NEW x,
           x = [type |-> r.type, value |-> r.value, target |-> r.target, params |-> r.params]
    PROVE  IsLine(x)
<1>1. x.type = r.type /\ x.value = r.value /\ x.target = r.target /\ x.params = r.params
  OBVIOUS
<1>2. <<"RULE-SET">> \notin CommaValues \cup {<<"MATCH">>} /\ <<"IP-CIDR">> \notin CommaValues \cup {<<"MATCH">>}
  BY DEF CommaValues
<1>3. r.type \in CommaValues \cup {<<"MATCH">>} => r.params = <<>>
  BY <1>2 DEF checkRule
<1>4. /\ r.type = <<"MATCH">> => r.value = NoValue
      /\ r.type # <<"MATCH">> => r.value # NoValue
      /\ r.type # <<"MATCH">> /\ r.type \notin CommaValues => Len(r.value) = 1
      /\ r.target # <<>>
  BY DEF checkRule
<1>5. IsSeq(r.value) /\ r.value # <<>> /\ IsSeq(r.params)
  BY DEF IsRule
<1>6. QED
  BY <1>1, <1>3, <1>4, <1>5, NotComma DEF IsLine

\* A rule that ruleActive lets through resolves.
LEMMA ActiveResolves ==
    ASSUME NEW p, WellBuilt(p), NEW r, ruleActive(p, r), NEW x,
           x.type = r.type, x.value = r.value, x.target = r.target
    PROVE  RuleResolves([names |-> RawNames(p), sets |-> p.sets, subs |-> p.subs], x)
<1>1. PICK e : e = [names |-> RawNames(p), sets |-> p.sets, subs |-> p.subs]
  OBVIOUS
<1>2. e.names = RawNames(p) /\ e.sets = p.sets /\ e.subs = p.subs
  BY <1>1
<1>3. ASSUME hasTarget(p, r.target) PROVE r.target \in RawNames(p) \cup Builtins
  <2>1. CASE r.target \in {<<"DIRECT">>, <<"REJECT">>}
    BY <2>1 DEF Builtins
  <2>2. CASE \E g \in Range(p.groups) : g.name = r.target
    <3>1. PICK g \in Range(p.groups) : g.name = r.target
      BY <2>2
    <3>2. PICK j \in 1..Len(p.groups) : p.groups[j] = g
      BY InRange DEF WellBuilt
    <3>3. QED
      BY <3>1, <3>2 DEF RawNames, GroupNames
  <2>3. CASE r.target \in Range(p.proxies)
    BY <2>3 DEF RawNames
  <2>4. QED
    BY <1>3, <2>1, <2>2, <2>3 DEF hasTarget
<1>4. <<"SUB-RULE">> # <<"RULE-SET">>
  OBVIOUS
<1>5. RuleResolves(e, x)
  BY <1>2, <1>3, <1>4 DEF RuleResolves, ruleActive
<1>6. QED
  BY <1>1, <1>5

\* The owner's active rules reach the core and resolve.
LEMMA UserReaches ==
    ASSUME NEW es, Stored(es), NEW p, WellBuilt(p), NEW k \in 1..Len(UserPart(es, p))
    PROVE  Reaches(p, UserPart(es, p)[k])
<1>1. Rowed(es) /\ IsSeq(es)
  BY SoundRowed DEF Stored, Rowed
<1>2. PICK c : c = compileRules(es, p)
  OBVIOUS
<1>3. IsSeq(c) /\ UserPart(es, p) = Effective(c)
  BY <1>1, <1>2, CompSeq DEF UserPart
<1>4. PICK n \in 1..Len(c) : Effective(c)[k] = c[n] /\ ~c[n].inactive
  BY <1>3, EffFrom
<1>5. PICK i \in 1..Len(es) : \E j \in 1..Len(es[i].rules) : c[n] =
         Listed(es[i].rules[j], "user", es[i].off \/ es[i].rules[j].off \/ ~ruleActive(p, es[i].rules[j]))
  BY <1>1, <1>2, CompSeq
<1>6. PICK j \in 1..Len(es[i].rules) : c[n] =
         Listed(es[i].rules[j], "user", es[i].off \/ es[i].rules[j].off \/ ~ruleActive(p, es[i].rules[j]))
  BY <1>5
<1>7. PICK r, off, l : r = es[i].rules[j] /\ off = (es[i].off \/ r.off \/ ~ruleActive(p, r)) /\ l = c[n]
  OBVIOUS
<1>8. l = Listed(r, "user", off)
  BY <1>6, <1>7
<1>9. PICK x : x = [type |-> r.type, value |-> r.value, target |-> r.target, params |-> r.params]
  OBVIOUS
<1>10. l.rule = x /\ l.inactive = off
  BY <1>8, <1>9 DEF Listed
<1>11. ruleActive(p, r)
  BY <1>4, <1>7, <1>10
<1>12. IsRule(r) /\ checkRule(r)
  <2>1. DOMAIN es = 1..Len(es) /\ IsSeq(es[i].rules)
    BY <1>1, SeqRange DEF Rowed
  <2>2. DOMAIN es[i].rules = 1..Len(es[i].rules)
    BY <2>1, SeqRange
  <2>3. r \in Range(es[i].rules)
    BY <1>7, <2>1, InRange
  <2>4. checkRule(r)
    BY <2>1, <2>3 DEF Stored, checkRules
  <2>5. IsRule(r)
    BY <1>7, <2>2 DEF Stored, Sound, SoundEntry, IsEntry
  <2>6. QED
    BY <2>4, <2>5
<1>13. IsLine(x)
  BY <1>9, <1>12, CheckedLine
<1>14. x.type = r.type /\ x.value = r.value /\ x.target = r.target
  BY <1>9
<1>15. RuleResolves([names |-> RawNames(p), sets |-> p.sets, subs |-> p.subs], x)
  BY <1>11, <1>14, ActiveResolves
<1>16. QED
  BY <1>3, <1>4, <1>7, <1>10, <1>13, <1>15 DEF Reaches

\* omihomo's own rules go to DIRECT or to GLOBAL.
OwnRule(r) ==
    /\ IsLine(r) /\ r.target \in {<<"DIRECT">>, Global}
    /\ r.type # <<"SUB-RULE">> /\ r.type # <<"RULE-SET">>

\* A rule omihomo writes to DIRECT or GLOBAL.
LEMMA OwnIs ==
    ASSUME NEW t, t \in {"IP-CIDR", "DOMAIN"}, NEW val, val # <<>>, NEW g, g \in {<<"DIRECT">>, Global},
           NEW ps, IsSeq(ps)
    PROVE  OwnRule([type |-> <<t>>, value |-> <<val>>, target |-> g, params |-> ps])
<1>1. PICK r : r = [type |-> <<t>>, value |-> <<val>>, target |-> g, params |-> ps]
  OBVIOUS
<1>2. r.type = <<t>> /\ r.value = <<val>> /\ r.target = g /\ r.params = ps
  BY <1>1
<1>3. <<t>> \notin CommaValues /\ <<t>> # <<"MATCH">> /\ <<t>> # <<"RULE-SET">> /\ <<t>> # <<"SUB-RULE">>
  BY DEF CommaValues
<1>4. PICK w : w = <<val>>
  OBVIOUS
<1>5. IsSeq(w) /\ Len(w) = 1 /\ w[1] = val
  BY <1>4, Single
<1>6. w # <<>>
  BY <1>5, NothingElse
<1>7. w # NoValue
  BY <1>4 DEF NoValue
<1>8. g # <<>>
  BY DEF Global
<1>9. r = [type |-> r.type, value |-> r.value, target |-> r.target, params |-> r.params]
  BY <1>1, <1>2
<1>10. IsLine(r)
  BY <1>2, <1>3, <1>4, <1>5, <1>6, <1>7, <1>8, <1>9 DEF IsLine
<1>11. QED
  BY <1>1, <1>2, <1>3, <1>10 DEF OwnRule

\* omihomo's own rules go to DIRECT or GLOBAL.
LEMMA OwnRules ==
    ASSUME NEW s, NEW p, NEW rs, rs = IntegrationRules(s, p)
    PROVE  IsSeq(rs) /\ \A i \in 1..Len(rs) : OwnRule(rs[i])
<1>1. PICK flag, a, b, c, d :
         /\ flag = <<<<"no-resolve">>>>
         /\ a = Own("IP-CIDR", "100.64/10", Global, flag) /\ b = Own("DOMAIN", "ts.net", Global, <<>>)
         /\ c = Own("IP-CIDR", "100.64/10", <<"DIRECT">>, flag) /\ d = Own("DOMAIN", "tailscale.com", Global, <<>>)
  OBVIOUS
<1>2. IsSeq(flag) /\ IsSeq(<<>>)
  BY <1>1, Single, Nothing
<1>3. <<"100.64/10">> # <<>> /\ <<"ts.net">> # <<>> /\ <<"tailscale.com">> # <<>>
  OBVIOUS
<1>4. OwnRule(a)
  BY <1>1, <1>2, <1>3, OwnIs DEF Own
<1>5. OwnRule(b)
  BY <1>1, <1>2, <1>3, OwnIs DEF Own
<1>6. OwnRule(c)
  BY <1>1, <1>2, <1>3, OwnIs DEF Own
<1>7. OwnRule(d)
  BY <1>1, <1>2, <1>3, OwnIs DEF Own
<1>8. PICK x, y : x = (IF s.tailnetProxy THEN <<a, b>> ELSE <<>>) /\ y = (IF s.tailscale THEN <<c, d>> ELSE <<>>)
  OBVIOUS
<1>9. PICK S : S = {r \in {a, b, c, d} : OwnRule(r)}
  OBVIOUS
<1>10. \A q, r \in S : AllIn(<<q, r>>, S)
  BY DEF AllIn, IsSeq
<1>11. a \in S /\ b \in S /\ c \in S /\ d \in S
  BY <1>4, <1>5, <1>6, <1>7, <1>9
<1>12. AllIn(<<>>, S)
  BY Nothing DEF AllIn
<1>13. AllIn(<<a, b>>, S) /\ AllIn(<<c, d>>, S)
  BY <1>10, <1>11
<1>14. AllIn(x, S) /\ AllIn(y, S)
  BY <1>8, <1>12, <1>13
<1>15. AllIn(Join(x, y), S)
  BY <1>14, AllInJoin
<1>16. rs = <<>> \/ rs = Join(x, y)
  BY <1>1, <1>8 DEF IntegrationRules, Join
<1>17. AllIn(rs, S)
  BY <1>12, <1>15, <1>16
<1>18. QED
  BY <1>9, <1>17 DEF AllIn

\* omihomo's own rules reach the core and resolve.
LEMMA OwnReaches ==
    ASSUME NEW s, NEW p, NEW k \in 1..Len(OwnPart(s, p))
    PROVE  Reaches(p, OwnPart(s, p)[k])
<1>1. PICK rs, off : rs = IntegrationRules(s, p) /\ off = FALSE
  OBVIOUS
<1>2. IsSeq(rs) /\ \A i \in 1..Len(rs) : OwnRule(rs[i])
  BY <1>1, OwnRules
<1>3. PICK q : q = Sourced(rs, "omihomo", off)
  OBVIOUS
<1>4. IsSeq(q) /\ Len(q) = Len(rs) /\ \A i \in 1..Len(rs) : q[i] = Listed(rs[i], "omihomo", off)
  BY <1>2, <1>3, SourcedIs
<1>5. CASE s.omihomoOff
  <2>1. OwnPart(s, p) = <<>>
    BY <1>5 DEF OwnPart
  <2>2. QED
    BY <2>1, Nothing
<1>6. CASE ~s.omihomoOff
  <2>1. OwnPart(s, p) = q
    BY <1>1, <1>3, <1>6 DEF OwnPart
  <2>2. PICK r, l : r = rs[k] /\ l = q[k]
    OBVIOUS
  <2>3. OwnRule(r) /\ l = Listed(r, "omihomo", off)
    BY <1>2, <1>4, <2>1, <2>2
  <2>4. l.rule = [type |-> r.type, value |-> r.value, target |-> r.target, params |-> r.params]
    BY <2>3 DEF Listed
  <2>5. l.rule = r
    BY <2>3, <2>4 DEF OwnRule, IsLine
  <2>6. PICK e : e = [names |-> RawNames(p), sets |-> p.sets, subs |-> p.subs]
    OBVIOUS
  <2>7. e.names = RawNames(p)
    BY <2>6
  <2>8. r.target \in Builtins \cup {Global}
    BY <2>3 DEF OwnRule, Builtins
  <2>9. RuleResolves(e, r)
    BY <2>3, <2>7, <2>8 DEF RuleResolves, OwnRule
  <2>10. IsLine(r)
    BY <2>3 DEF OwnRule
  <2>11. QED
    BY <2>1, <2>2, <2>5, <2>6, <2>9, <2>10 DEF Reaches
<1>7. QED
  BY <1>5, <1>6

(***************************************************************************)
(* The core never refuses the stored rules: RulesFit.                      *)
(***************************************************************************)
\* Every rule of a list that the core gets is one it accepts.
AllReach(p, ls) ==
    \A k \in 1..Len(ls) :
        /\ ruleLine(ls[k].rule) # <<>>
        /\ RuleResolves([names |-> RawNames(p), sets |-> p.sets, subs |-> p.subs], ParseRule(ruleLine(ls[k].rule)))

\* The core accepts two lists in a row when it accepts each.
LEMMA ReachJoin ==
    ASSUME NEW p, NEW s, IsSeq(s), NEW t, IsSeq(t)
    PROVE  AllReach(p, Join(s, t)) <=> AllReach(p, s) /\ AllReach(p, t)
<1>1. PICK R : R = {x \in Range(Join(s, t)) : /\ ruleLine(x.rule) # <<>>
                       /\ RuleResolves([names |-> RawNames(p), sets |-> p.sets, subs |-> p.subs], ParseRule(ruleLine(x.rule)))}
  OBVIOUS
<1>2. PICK u : u = Join(s, t)
  OBVIOUS
<1>3. IsSeq(u) /\ Len(u) = Len(s) + Len(t) /\ Len(s) \in Nat /\ Len(t) \in Nat
  BY <1>2, JoinSeq, JoinLen
<1>4. (\A i \in 1..Len(s) : u[i] = s[i]) /\ (\A i \in 1..Len(t) : u[Len(s) + i] = t[i])
  BY <1>2, JoinAt
<1>5. \A i \in 1..Len(u) : u[i] \in Range(u)
  BY <1>3, InRange
<1>6. (\A i \in 1..Len(s) : i \in 1..Len(u)) /\ (\A i \in 1..Len(t) : Len(s) + i \in 1..Len(u))
  BY <1>3
<1>7. AllReach(p, u) <=> \A i \in 1..Len(u) : u[i] \in R
  BY <1>1, <1>2, <1>5 DEF AllReach
<1>8. AllReach(p, s) <=> \A i \in 1..Len(s) : s[i] \in R
  <2>1. \A i \in 1..Len(s) : s[i] \in Range(u)
    BY <1>4, <1>5, <1>6
  <2>2. QED
    BY <1>1, <1>2, <2>1 DEF AllReach
<1>9. AllReach(p, t) <=> \A i \in 1..Len(t) : t[i] \in R
  <2>1. \A i \in 1..Len(t) : t[i] \in Range(u)
    BY <1>4, <1>5, <1>6
  <2>2. QED
    BY <1>1, <1>2, <2>1 DEF AllReach
<1>10. ASSUME \A i \in 1..Len(s) : s[i] \in R, \A i \in 1..Len(t) : t[i] \in R, NEW i \in 1..Len(u) PROVE u[i] \in R
  <2>1. CASE i \in 1..Len(s)
    BY <1>4, <1>10, <2>1
  <2>2. CASE i \notin 1..Len(s)
    <3>1. PICK j \in 1..Len(t) : i = Len(s) + j
      <4>1. i - Len(s) \in 1..Len(t) /\ i = Len(s) + (i - Len(s))
        BY <1>3, <2>2
      <4>2. QED
        BY <4>1
    <3>2. u[i] = t[j]
      BY <1>4, <3>1
    <3>3. QED
      BY <1>10, <3>2
  <2>3. QED
    BY <2>1, <2>2
<1>11. ASSUME \A i \in 1..Len(u) : u[i] \in R
       PROVE  (\A i \in 1..Len(s) : s[i] \in R) /\ (\A i \in 1..Len(t) : t[i] \in R)
  BY <1>4, <1>6, <1>11
<1>12. QED
  BY <1>2, <1>7, <1>8, <1>9, <1>10, <1>11

\* The core accepts rules that reach it and resolve.
LEMMA ReachesLine ==
    ASSUME NEW p, NEW ls, \A k \in 1..Len(ls) : Reaches(p, ls[k])
    PROVE  AllReach(p, ls)
<1>1. ASSUME NEW k \in 1..Len(ls)
      PROVE  /\ ruleLine(ls[k].rule) # <<>>
             /\ RuleResolves([names |-> RawNames(p), sets |-> p.sets, subs |-> p.subs], ParseRule(ruleLine(ls[k].rule)))
  <2>1. PICK r : r = ls[k].rule
    OBVIOUS
  <2>2. IsLine(r) /\ RuleResolves([names |-> RawNames(p), sets |-> p.sets, subs |-> p.subs], r)
    BY <2>1 DEF Reaches
  <2>3. ruleLine(r) # <<>> /\ ParseRule(ruleLine(r)) = r
    BY <2>2, LineRead
  <2>4. QED
    BY <2>1, <2>2, <2>3
<1>2. QED
  BY <1>1 DEF AllReach

\* What the core asks of a config's rules.
LEMMA RulesAccepted ==
    ASSUME NEW p, WellBuilt(p), NEW s, NEW es, NEW c, c = rawConfig(s, es, p), IsSeq(c.rules)
    PROVE  (\A l \in Range(c.rules) : ruleLine(l.rule) # <<>> /\ RuleResolves(c, ParseRule(ruleLine(l.rule))))
           <=> AllReach(p, c.rules)
<1>1. PICK e : e = [names |-> RawNames(p), sets |-> p.sets, subs |-> p.subs]
  OBVIOUS
<1>2. \A r : RuleResolves(c, r) <=> RuleResolves(e, r)
  BY <1>1, SameNames
<1>3. PICK ls : ls = c.rules
  OBVIOUS
<1>4. PICK R : R = {l \in Range(ls) : ruleLine(l.rule) # <<>> /\ RuleResolves(c, ParseRule(ruleLine(l.rule)))}
  OBVIOUS
<1>5. AllReach(p, ls) <=> \A k \in 1..Len(ls) : ls[k] \in R
  <2>1. \A k \in 1..Len(ls) : ls[k] \in Range(ls)
    BY <1>3, InRange
  <2>2. QED
    BY <1>1, <1>2, <1>4, <2>1 DEF AllReach
<1>6. (\A k \in 1..Len(ls) : ls[k] \in R) <=> (\A l \in Range(ls) : l \in R)
  BY <1>3, InRange
<1>7. QED
  BY <1>3, <1>4, <1>5, <1>6

\* Content the daemon may hold is built well.
LEMMA ContentWell ==
    ASSUME NEW p, p \in Contents, p.ok
    PROVE  WellBuilt(p) /\ IsSeq(p.rules)
<1>1. PICK d \in Docs : p = Build(d)
  BY DEF Contents
<1>2. IsDocument(d) /\ Build(d).ok
  BY <1>1, RoutingAssumption
<1>3. QED
  BY <1>1, <1>2, BuiltWell, BuiltRulesSeq

\* Content the core would run by itself is run with the owner's rules too,
\* unless it lacks the DNS destination.
LEMMA NeverBlocked ==
    ASSUME RulesStored, NEW p \in Usable,
           set.dns # <<>> => set.dns \in Range(p.proxies) \cup {g.name : g \in Range(p.groups)}
    PROVE  CoreAccepts(set, entries, p)
<1>1. p \in Contents /\ p.ok /\ CoreAccepts(Defaults, <<>>, p)
  BY DEF Usable
<1>2. WellBuilt(p) /\ IsSeq(p.rules)
  BY <1>1, ContentWell
<1>3. Stored(entries) /\ Rowed(entries)
  BY StoredRules, SoundRowed DEF Stored
<1>4. Rowed(<<>>)
  BY LeafsNothing
<1>5. PICK c, e : c = rawConfig(set, entries, p) /\ e = rawConfig(Defaults, <<>>, p)
  OBVIOUS
<1>6. Resolves(e)
  BY <1>1, <1>5 DEF CoreAccepts
<1>7. /\ c.names = RawNames(p) /\ c.sets = p.sets /\ c.subs = p.subs /\ c.dns = set.dns
      /\ e.names = RawNames(p) /\ e.sets = p.sets /\ e.subs = p.subs
  BY <1>2, <1>5, RawIs
<1>8. GroupsResolve(c)
  BY <1>2, <1>5, GroupsFit
<1>9. c.dns # <<>> => c.dns \in c.names \ {Global}
  <2>1. SUFFICES ASSUME set.dns # <<>> PROVE set.dns \in RawNames(p) \ {Global}
    BY <1>7
  <2>2. CASE set.dns \in Range(p.proxies)
    <3>1. IsSeq(p.proxies) /\ \A i \in 1..Len(p.proxies) : checkName(p.proxies[i])
      BY <1>2 DEF WellBuilt, NameList
    <3>2. PICK i \in 1..Len(p.proxies) : p.proxies[i] = set.dns
      BY <2>2, <3>1, InRange
    <3>3. QED
      BY <2>2, <3>1, <3>2 DEF checkName, RawNames
  <2>3. CASE set.dns \in {g.name : g \in Range(p.groups)}
    <3>1. PICK g \in Range(p.groups) : g.name = set.dns
      BY <2>3
    <3>2. PICK i \in 1..Len(p.groups) : p.groups[i] = g
      BY <1>2, InRange DEF WellBuilt
    <3>3. checkName(p.groups[i].name)
      BY <1>2 DEF WellBuilt
    <3>4. QED
      BY <3>1, <3>2, <3>3 DEF checkName, RawNames, GroupNames
  <2>4. QED
    BY <2>1, <2>2, <2>3
<1>10. \A n \in DOMAIN c.subs : \A r \in Range(c.subs[n]) : RuleResolves(c, r)
  <2>1. \A r : RuleResolves(c, r) <=> RuleResolves(e, r)
    BY <1>7 DEF RuleResolves
  <2>2. QED
    BY <1>6, <1>7, <2>1 DEF Resolves
<1>11. PICK a, o, q : a = UserPart(entries, p) /\ o = OwnPart(set, p) /\ q = SubPart(set, p)
  OBVIOUS
<1>12. IsSeq(a) /\ IsSeq(o) /\ IsSeq(q)
  BY <1>2, <1>3, <1>11, PartsAre
<1>13. c.rules = Join(Join(a, o), q)
  BY <1>2, <1>3, <1>5, <1>11, RulesRun
<1>14. PICK a0, o0, q0 : a0 = UserPart(<<>>, p) /\ o0 = OwnPart(Defaults, p) /\ q0 = SubPart(Defaults, p)
  OBVIOUS
<1>15. IsSeq(a0) /\ IsSeq(o0) /\ IsSeq(q0)
  BY <1>2, <1>4, <1>14, PartsAre
<1>16. e.rules = Join(Join(a0, o0), q0)
  BY <1>2, <1>4, <1>5, <1>14, RulesRun
<1>17. IsSeq(Join(a, o)) /\ IsSeq(c.rules)
  <2>1. IsSeq(Join(a, o))
    BY <1>12, JoinSeq
  <2>2. QED
    BY <1>12, <1>13, <2>1, JoinSeq
<1>18. IsSeq(Join(a0, o0)) /\ IsSeq(e.rules)
  <2>1. IsSeq(Join(a0, o0))
    BY <1>15, JoinSeq
  <2>2. QED
    BY <1>15, <1>16, <2>1, JoinSeq
<1>19. AllReach(p, q0)
  <2>1. AllReach(p, e.rules)
    BY <1>2, <1>5, <1>6, <1>18, RulesAccepted DEF Resolves
  <2>2. QED
    BY <1>15, <1>16, <1>18, <2>1, ReachJoin
<1>20. AllReach(p, q)
  <2>1. Defaults.subscriptionOff = FALSE
    BY DEF Defaults
  <2>2. q0 = Sourced(p.rules, "subscription", FALSE)
    BY <1>14, <2>1 DEF SubPart
  <2>3. CASE set.subscriptionOff
    <3>1. q = <<>> /\ Len(<<>>) = 0
      BY <1>11, <2>3, Nothing DEF SubPart
    <3>2. QED
      BY <3>1 DEF AllReach
  <2>4. CASE ~set.subscriptionOff
    BY <1>11, <1>19, <2>2, <2>4 DEF SubPart
  <2>5. QED
    BY <2>3, <2>4
<1>21. AllReach(p, a)
  <2>1. \A k \in 1..Len(a) : Reaches(p, a[k])
    BY <1>2, <1>3, <1>11, UserReaches
  <2>2. QED
    BY <2>1, ReachesLine
<1>22. AllReach(p, o)
  <2>1. \A k \in 1..Len(o) : Reaches(p, o[k])
    BY <1>11, OwnReaches
  <2>2. QED
    BY <2>1, ReachesLine
<1>23. AllReach(p, c.rules)
  <2>1. AllReach(p, Join(a, o))
    BY <1>12, <1>21, <1>22, ReachJoin
  <2>2. QED
    BY <1>12, <1>13, <1>17, <1>20, <2>1, ReachJoin
<1>24. \A l \in Range(c.rules) : ruleLine(l.rule) # <<>> /\ RuleResolves(c, ParseRule(ruleLine(l.rule)))
  BY <1>2, <1>5, <1>17, <1>23, RulesAccepted
<1>25. Resolves(c)
  BY <1>8, <1>9, <1>10, <1>24 DEF Resolves
<1>26. QED
  BY <1>5, <1>25 DEF CoreAccepts

\* apply leaves the daemon with what the core accepted.
LEMMA RunsApplied ==
    ASSUME NEW s, NEW es, Apply(s, es)
    PROVE  RunsResolved'
<1>1. CoreAccepts(s, PruneCategories(es), profile)
  BY DEF Apply
<1>2. set' = s /\ entries' = PruneCategories(es) /\ profile' = profile
  BY DEF Apply
<1>3. QED
  BY <1>1, <1>2 DEF RunsResolved

\* Every step leaves a running proxy with what the core accepted.
LEMMA RunsNext ==
    ASSUME RunsResolved, RoutingNext
    PROVE  RunsResolved'
<1>1. CASE \E s, es : Apply(s, es)
  BY <1>1, RunsApplied
<1>2. CASE \E p \in Contents : AcceptContent(p)
  BY <1>2 DEF AcceptContent, RunsResolved
<1>3. CASE RemoveSub
  BY <1>3 DEF RemoveSub, RunsResolved
<1>4. CASE TurnOn
  BY <1>4 DEF TurnOn, RunsResolved
<1>5. CASE TurnOff
  BY <1>5 DEF TurnOff, RunsResolved
<1>6. QED
  <2>1. (\E s \in Settings : SetSettings(s)) => \E s, es : Apply(s, es)
    BY DEF SetSettings
  <2>2. (\E r \in Leaves, id \in {NoCat} \cup CatIds : RuleAdd(r, id)) => \E s, es : Apply(s, es)
    BY DEF RuleAdd
  <2>3. (\E k \in Indices, r \in Leaves, id \in {NoCat} \cup CatIds : RuleUpdate(k, r, id)) => \E s, es : Apply(s, es)
    BY DEF RuleUpdate
  <2>4. (\E k \in {0} \cup Indices, r \in Leaves, id \in Ids \ CatIds, n \in Names : RuleGroup(k, r, id, n))
        => \E s, es : Apply(s, es)
    BY DEF RuleGroup
  <2>5. (\E k \in Indices, off \in BOOLEAN : RuleToggle(k, off)) => \E s, es : Apply(s, es)
    BY DEF RuleToggle
  <2>6. (\E f, t \in Indices : RuleMove(f, t)) => \E s, es : Apply(s, es)
    BY DEF RuleMove
  <2>7. (\E f, t \in DOMAIN entries : EntryMove(f, t)) => \E s, es : Apply(s, es)
    BY DEF EntryMove
  <2>8. (\E k \in Indices : RuleRemove(k)) => \E s, es : Apply(s, es)
    BY DEF RuleRemove
  <2>9. (\E k \in Cats, n \in Names : CategoryRename(k, n)) => \E s, es : Apply(s, es)
    BY DEF CategoryRename
  <2>10. (\E k \in Cats, off \in BOOLEAN : CategoryToggle(k, off)) => \E s, es : Apply(s, es)
    BY DEF CategoryToggle
  <2>11. (\E k \in Cats, n \in Targets : CategoryTarget(k, n)) => \E s, es : Apply(s, es)
    BY DEF CategoryTarget
  <2>12. (\E k \in Cats : CategoryRemove(k)) => \E s, es : Apply(s, es)
    BY DEF CategoryRemove
  <2>13. QED
    BY <1>1, <1>2, <1>3, <1>4, <1>5, <2>1, <2>2, <2>3, <2>4, <2>5, <2>6, <2>7, <2>8, <2>9, <2>10, <2>11, <2>12
       DEF RoutingNext

\* The saved rules block no content.
LEMMA NeverBlocks == RulesStored => RulesNeverBlock
BY NeverBlocked DEF RulesNeverBlock

\* A running proxy always has a config whose names resolve, whatever the
\* subscription and the rules became meanwhile, and the saved rules never
\* keep out content that the core would run by itself.
THEOREM RoutingFits == RoutingSpec => []RulesFit
<1>1. RoutingInit => RunsResolved
  BY DEF RoutingInit, RunsResolved
<1>2. RunsResolved /\ UNCHANGED routing => RunsResolved'
  BY DEF RunsResolved, routing
<1>3. RunsResolved /\ [RoutingNext]_routing => RunsResolved'
  BY <1>2, RunsNext
<1>4. RulesStored /\ RunsResolved => RulesFit
  BY NeverBlocks DEF RulesFit
<1>5. QED
  BY <1>1, <1>3, <1>4, RoutingStores, PTL DEF RoutingSpec

=============================================================================
