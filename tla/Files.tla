------------------------------- MODULE Files -------------------------------
(***************************************************************************)
(* The owner's settings.json and rules.json (internal/settings) and the    *)
(* transactions on them: every `omihomo set`, `rule` and `apply` locks the *)
(* directory, loads both files, makes its change, has the daemon apply the *)
(* result and saves it (edit in internal/cli/cli.go).  Next to these       *)
(* clients an editor writes the files without the lock, and a systemd path *)
(* unit runs `omihomo apply` when a file changes.  A client may die at any *)
(* point; a request it leaves with the daemon still runs.                  *)
(*                                                                         *)
(* A value is a number, 0 the default; a file is missing, canonical (what  *)
(* Encode writes), raw (any other text of the same value) or malformed.    *)
(***************************************************************************)
EXTENDS Naturals, FiniteSets

CONSTANTS
    Clients,      \* the command line clients that edit
    Values,       \* the values a file may hold; 0 is the default
    Invalid,      \* the values the daemon refuses
    MaxEdits,     \* bound on the edits of clients and editor together
    MaxFaults     \* bound on the deaths of clients and failed writes

Kinds == {"settings", "rules"}
Watcher == "apply.service"
Procs == Clients \cup {Watcher}
Forms == {"missing", "canonical", "raw", "malformed"}
Default == [k \in Kinds |-> 0]
NoEdit == [kind |-> "none", val |-> 0]

ASSUME FilesAssumption ==
    /\ Watcher \notin Clients /\ IsFiniteSet(Clients)
    /\ Values \subseteq Nat /\ 0 \in Values
    /\ Invalid \subseteq Values \ {0}
    /\ MaxEdits \in Nat /\ MaxFaults \in Nat

VARIABLES
    file,        \* each file's value and form
    daemon,      \* the copy the daemon runs
    lock,        \* the processes that hold the directory's lock
    at,          \* where each process is in its transaction
    v,           \* what it loaded and changed
    edit,        \* the change it makes
    fired,       \* the path unit is about to start the service
    strays,      \* requests whose client is gone
    wanted,      \* the last value put in each file on purpose
    raced,       \* the editor or a stray request came in since the last load
    spoiled,     \* something happened that only another apply repairs
    edits, faults

vars == <<file, daemon, lock, at, v, edit, fired, strays, wanted, raced, spoiled,
          edits, faults>>

Init ==
    /\ file = [k \in Kinds |-> [val |-> 0, form |-> "missing"]]
    /\ daemon = Default /\ lock = {}
    /\ at = [p \in Procs |-> "idle"] /\ v = [p \in Procs |-> Default]
    /\ edit = [p \in Procs |-> NoEdit]
    /\ fired = FALSE /\ strays = {} /\ wanted = [k \in Kinds |-> {}]
    /\ raced = FALSE /\ spoiled = FALSE /\ edits = 0 /\ faults = 0

------------------------------------------------------------------------------
(* The path unit watches the directory and both files; a change while its  *)
(* service runs may be missed or may start it once more.                   *)
Watched == Kinds

Trigger(ks) ==
    IF ks \cap Watched = {}
    THEN UNCHANGED fired
    ELSE \/ fired' = TRUE
         \/ at[Watcher] # "idle" /\ UNCHANGED fired

(* A process leaves its transaction, and with it the lock.                 *)
Leave(p) ==
    /\ lock' = lock \ {p}
    /\ at' = [at EXCEPT ![p] = IF p = Watcher THEN "exit" ELSE "idle"]
    /\ edit' = [edit EXCEPT ![p] = NoEdit]
    /\ v' = [v EXCEPT ![p] = Default]

(* A client parses its command; apply has no change to make.               *)
Begin(p, e) ==
    /\ at[p] = "idle" /\ edits < MaxEdits /\ edits' = edits + 1
    /\ at' = [at EXCEPT ![p] = "lock"]
    /\ edit' = [edit EXCEPT ![p] = e]
    /\ UNCHANGED <<file, daemon, lock, v, fired, strays, wanted, raced, spoiled, faults>>

ServiceStarts ==
    /\ fired /\ fired' = FALSE /\ at[Watcher] = "idle"
    /\ at' = [at EXCEPT ![Watcher] = "lock"]
    /\ UNCHANGED <<file, daemon, lock, v, edit, strays, wanted, raced, spoiled, edits,
                   faults>>

ServiceExits ==
    /\ at[Watcher] = "exit"
    /\ at' = [at EXCEPT ![Watcher] = "idle"]
    /\ UNCHANGED <<file, daemon, lock, v, edit, fired, strays, wanted, raced, spoiled,
                   edits, faults>>

LockShared(p) ==
    /\ at[p] = "lock"
    /\ lock' = lock \cup {p}
    /\ at' = [at EXCEPT ![p] = "load"]
    /\ UNCHANGED <<file, daemon, v, edit, fired, strays, wanted, raced, spoiled, edits,
                   faults>>

(* flock of the directory, exclusive.                                      *)
Lock(p) ==
    /\ at[p] = "lock" /\ lock = {}
    /\ lock' = {p}
    /\ at' = [at EXCEPT ![p] = "load"]
    /\ UNCHANGED <<file, daemon, v, edit, fired, strays, wanted, raced, spoiled, edits,
                   faults>>

(* Load of both files, the change, and the request; a malformed file ends  *)
(* the command.                                                            *)
ChangedCopy(p) ==
    [k \in Kinds |-> IF edit[p].kind = k THEN edit[p].val ELSE daemon[k]]
Changed(p) ==
    [k \in Kinds |-> IF edit[p].kind = k THEN edit[p].val ELSE file[k].val]

Load(p) ==
    /\ at[p] = "load"
    /\ IF \E k \in Kinds : file[k].form = "malformed"
       THEN Leave(p) /\ UNCHANGED raced
       ELSE /\ v' = [v EXCEPT ![p] = Changed(p)]
            /\ at' = [at EXCEPT ![p] = "sent"]
            /\ raced' = FALSE
            /\ UNCHANGED <<lock, edit>>
    /\ UNCHANGED <<file, daemon, fired, strays, wanted, spoiled, edits, faults>>

Accepts(x) == \A k \in Kinds : x[k] \notin Invalid

ExecUnchecked(p) ==
    /\ at[p] = "sent"
    /\ at' = [at EXCEPT ![p] = "settings"]
    /\ daemon' = IF Accepts(v[p]) THEN v[p] ELSE daemon
    /\ UNCHANGED <<file, lock, v, edit, fired, strays, wanted, raced, spoiled, edits,
                   faults>>

(* The daemon applies the request, or refuses it and nothing is saved.     *)
Exec(p) ==
    /\ at[p] = "sent"
    /\ \/ /\ Accepts(v[p]) /\ daemon' = v[p]
          /\ at' = [at EXCEPT ![p] = "settings"]
          /\ UNCHANGED <<lock, edit, v>>
       \/ /\ ~Accepts(v[p]) /\ Leave(p)
          /\ UNCHANGED daemon
    /\ UNCHANGED <<file, fired, strays, wanted, raced, spoiled, edits, faults>>

(* Save replaces only a file whose content changes.                        *)
RewritesAlways(p, k) == TRUE
Rewrites(p, k) == file[k] # [val |-> v[p][k], form |-> "canonical"]

SaveFile(p, k) ==
    /\ file' = [file EXCEPT ![k] = [val |-> v[p][k], form |-> "canonical"]]
    /\ Trigger({j \in {k} : Rewrites(p, k)})

SaveSettings(p) ==
    /\ at[p] = "settings" /\ SaveFile(p, "settings")
    /\ at' = [at EXCEPT ![p] = "rules"]
    /\ wanted' = [wanted EXCEPT !["settings"] =
                    IF edit[p].kind = "settings" THEN {} ELSE @]
    /\ UNCHANGED <<daemon, lock, v, edit, strays, raced, spoiled, edits, faults>>

(* The second file is saved and the command reports success.               *)
SaveRules(p) ==
    /\ at[p] = "rules" /\ SaveFile(p, "rules") /\ Leave(p)
    /\ wanted' = [k \in Kinds |->
                    IF edit[p].kind = k /\ ~raced THEN {v[p][k]}
                    ELSE IF edit[p].kind = k THEN {} ELSE wanted[k]]
    /\ spoiled' = (spoiled /\ (raced \/ strays # {}))
    /\ UNCHANGED <<daemon, strays, raced, edits, faults>>

------------------------------------------------------------------------------
(* A client dies, or a write fails: the lock goes with it, a request it    *)
(* sent stays with the daemon.                                             *)
Dies(p) ==
    /\ at[p] \notin {"idle", "lock", "exit"}
    /\ faults < MaxFaults /\ faults' = faults + 1
    /\ strays' = IF at[p] = "sent" THEN strays \cup {v[p]} ELSE strays
    /\ wanted' = [k \in Kinds |-> IF edit[p].kind = k THEN {} ELSE wanted[k]]
    /\ spoiled' = TRUE /\ Leave(p)
    /\ UNCHANGED <<file, daemon, fired, raced, edits>>

ExecStray(x) ==
    /\ x \in strays /\ strays' = strays \ {x}
    /\ daemon' = IF Accepts(x) THEN x ELSE daemon
    /\ spoiled' = TRUE /\ raced' = TRUE
    /\ UNCHANGED <<file, lock, at, v, edit, fired, wanted, edits, faults>>

(* The editor saves a file whenever it likes.  While the service runs and  *)
(* has read the files, nothing need start it again.                        *)
EditorSaves(k, n, form) ==
    /\ edits < MaxEdits /\ edits' = edits + 1
    /\ file' = [file EXCEPT ![k] = [val |-> n, form |-> form]]
    /\ Trigger({k})
    /\ raced' = TRUE
    /\ wanted' = [wanted EXCEPT ![k] = IF lock = {} THEN {n} ELSE {}]
    /\ spoiled' = (spoiled \/ at[Watcher] \notin {"idle", "lock", "load"})
    /\ UNCHANGED <<daemon, lock, at, v, edit, strays, faults>>

Edits == [kind : Kinds, val : Values] \cup {NoEdit}

Transaction(p) ==
    Lock(p) \/ Load(p) \/ Exec(p) \/ SaveSettings(p) \/ SaveRules(p)

Next ==
    \/ \E p \in Clients, e \in Edits : Begin(p, e)
    \/ ServiceStarts \/ ServiceExits
    \/ \E p \in Procs : Transaction(p) \/ Dies(p)
    \/ \E x \in strays : ExecStray(x)
    \/ \E k \in Kinds, n \in Values : EditorSaves(k, n, "raw")
    \/ \E k \in Kinds : EditorSaves(k, 0, "malformed")

Spec == Init /\ [][Next]_vars

(* systemd starts and reaps the service, the kernel hands the lock to each *)
(* waiter in turn, and the daemon answers.                                 *)
FairSpec ==
    /\ Spec /\ WF_vars(ServiceStarts) /\ WF_vars(ServiceExits)
    /\ \A p \in Procs : WF_vars(Transaction(p)) /\ SF_vars(Lock(p))
    /\ WF_vars(\E x \in strays : ExecStray(x))

------------------------------------------------------------------------------
(* Every variable keeps its type, and one process at most is in a          *)
(* transaction.                                                            *)
TypeOK ==
    /\ file \in [Kinds -> [val : Values, form : Forms]]
    /\ daemon \in [Kinds -> Values]
    /\ lock \subseteq Procs /\ Cardinality(lock) =< 1
    /\ at \in [Procs -> {"idle", "lock", "load", "sent", "settings", "rules", "exit"}]
    /\ v \in [Procs -> [Kinds -> Values]] /\ edit \in [Procs -> Edits]
    /\ fired \in BOOLEAN /\ strays \subseteq [Kinds -> Values]
    /\ wanted \in [Kinds -> SUBSET Values]
    /\ raced \in BOOLEAN /\ spoiled \in BOOLEAN
    /\ edits \in 0 .. MaxEdits /\ faults \in 0 .. MaxFaults

(* What is being saved is what the daemon runs, unless a request of a      *)
(* client that died runs in between: "applied to the daemon first and      *)
(* saved only once it runs".                                               *)
SavesWhatRuns ==
    \A p \in Procs : at[p] \in {"settings", "rules"} =>
        daemon = v[p] \/ spoiled

(* An edit that was reported saved, or that the editor made while no       *)
(* transaction ran, stays in its file until that file is edited again: no  *)
(* other client's load and save brings the old value back.                 *)
NoLostEdit == \A k \in Kinds : wanted[k] \subseteq {file[k].val}

(* The inductive strengthening of the two: who is in a transaction holds   *)
(* the lock, what it loaded still has every other edit, and while nothing  *)
(* came in between the first file it saved is the one it loaded.           *)
InTransaction(p) == at[p] \in {"load", "sent", "settings", "rules"}
HoldsLock ==
    /\ \A p \in Procs : InTransaction(p) => p \in lock
    /\ \A p \in Procs : p \in lock => lock = {p}
LoadedEdits ==
    \A p \in Procs, k \in Kinds :
        /\ at[p] \in {"sent", "settings", "rules"} /\ edit[p].kind # k
           => wanted[k] \subseteq {v[p][k]}
        /\ at[p] = "rules" /\ ~raced => file["settings"].val = v[p]["settings"]
FilesInv == HoldsLock /\ LoadedEdits /\ SavesWhatRuns /\ NoLostEdit

(* Edits apply on save: the daemon comes to run what the files hold,       *)
(* unless they hold what it refuses, a client died, or the editor wrote    *)
(* while the service was past its load.                                    *)
EditsApply ==
    <>[](\/ spoiled
         \/ \A k \in Kinds : daemon[k] = file[k].val
         \/ \E k \in Kinds : file[k].form = "malformed" \/ file[k].val \in Invalid)

(* The service's own rewrites of the files do not keep it running.         *)
ServiceQuiets == <>[](at[Watcher] = "idle")

(* The files, the daemon and the watching service come to rest, agreeing.  *)
EditsSettle == EditsApply /\ ServiceQuiets
==============================================================================
