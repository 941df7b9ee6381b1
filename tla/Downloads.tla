----------------------------- MODULE Downloads -----------------------------
(***************************************************************************)
(* Downloads that may have to bypass the proxy, and the owner's consent to *)
(* it: getDownload and decideDownload (internal/daemon/downloads.go), the  *)
(* transport that asks for it (internal/fetch/routing.go), and the calls   *)
(* that download, with the locks they hold meanwhile.                      *)
(*                                                                         *)
(* A goroutine is in one of three roles.  A call that changes what runs    *)
(* holds opMu and downloads the geodata its rules need.  An add or refresh *)
(* holds refreshMu, downloads the subscription and its providers, then     *)
(* takes opMu and downloads geodata too.  The refresh loop renews geodata  *)
(* without a lock and takes opMu to install it.                            *)
(***************************************************************************)
EXTENDS FiniteSets, Naturals

CONSTANTS
    Procs,       \* goroutines: client calls and the refresh loop
    Loop,        \* the refresh loop
    Limit,       \* the most downloads that wait for consent, 64 in the code
    MaxRequests, \* bound: the requests for consent of a behaviour
    None

ASSUME ProcAssumption == Loop \in Procs /\ None \notin Procs
ASSUME LimitAssumption == Limit \in Nat \ {0} /\ MaxRequests \in Nat

(* state.NewID: no id is drawn twice. *)
Ids == 1..MaxRequests

VARIABLES
    proc,      \* per goroutine, its role and the download it is in
    drawn,     \* how many ids are drawn
    opMu, refreshMu, \* their holders
    downloads, \* server.downloads: the ids that wait for consent
    decision,  \* per id, what its decision channel holds
    snap,      \* per publisher, the list it encoded under pubMu, or None
    pushed,    \* the last list pushed on the stream
    owed,      \* the ids decided by a call that has not published yet
    \* History, read by properties only:
    allowed    \* the ids the owner allowed before they expired

locks == <<opMu, refreshMu>>
stream == <<snap, pushed>>
vars == <<proc, drawn, locks, downloads, decision, stream, owed, allowed>>

Out == [pc |-> "out", role |-> "none", second |-> FALSE, initial |-> FALSE,
        permit |-> FALSE, id |-> 0, expired |-> FALSE, ok |-> TRUE]
At(p, pc) == proc[p].pc = pc
Listed(p) == proc[p].id # 0

(***************************************************************************)
(* The calls around a download.  `second' is the part under opMu.          *)
(***************************************************************************)
EnterCall(p) ==
    /\ At(p, "out") /\ opMu = None
    /\ opMu' = p /\ UNCHANGED refreshMu
    /\ proc' = [proc EXCEPT ![p] = [Out EXCEPT !.pc = "ready", !.role = "call",
                                               !.second = TRUE]]
    /\ UNCHANGED <<drawn, downloads, decision, stream, owed, allowed>>

\* Only the add of a first subscription is initial.
EnterRefreshUnlocked(p, initial) ==      \* mutant: adds and refreshes overlap
    /\ At(p, "out")
    /\ refreshMu' = p /\ UNCHANGED opMu
    /\ proc' = [proc EXCEPT ![p] = [Out EXCEPT !.pc = "ready", !.role = "refresh",
                                               !.initial = initial]]
    /\ UNCHANGED <<drawn, downloads, decision, stream, owed, allowed>>
EnterRefresh(p, initial) ==
    /\ At(p, "out") /\ refreshMu = None
    /\ initial => p # Loop
    /\ refreshMu' = p /\ UNCHANGED opMu
    /\ proc' = [proc EXCEPT ![p] = [Out EXCEPT !.pc = "ready", !.role = "refresh",
                                               !.initial = initial]]
    /\ UNCHANGED <<drawn, downloads, decision, stream, owed, allowed>>

EnterGeodata ==
    /\ At(Loop, "out")
    /\ proc' = [proc EXCEPT ![Loop] = [Out EXCEPT !.pc = "ready", !.role = "geodata"]]
    /\ UNCHANGED <<drawn, locks, downloads, decision, stream, owed, allowed>>

\* A refresh takes opMu to use what it got or to record that it failed, the loop
\* to install geodata it got.
TakeOp(p) ==
    /\ At(p, "ready") /\ ~proc[p].second /\ opMu = None
    /\ proc[p].role = "geodata" => proc[p].ok
    /\ opMu' = p /\ UNCHANGED refreshMu
    /\ proc' = [proc EXCEPT ![p].second = TRUE]
    /\ UNCHANGED <<drawn, downloads, decision, stream, owed, allowed>>

Leave(p) ==
    /\ At(p, "ready")
    /\ opMu' = IF opMu = p THEN None ELSE opMu
    /\ refreshMu' = IF refreshMu = p THEN None ELSE refreshMu
    /\ proc' = [proc EXCEPT ![p] = Out]
    /\ UNCHANGED <<drawn, downloads, decision, stream, owed, allowed>>

(***************************************************************************)
(* One download.  A dial that the proxy fails at goes direct if the        *)
(* request permits it, and is what consent is asked for if not.            *)
(***************************************************************************)
Get(p) ==
    /\ At(p, "ready") /\ proc[p].ok
    /\ proc[p].role = "geodata" => ~proc[p].second
    /\ proc' = [proc EXCEPT ![p].pc = "get", ![p].permit = proc[p].initial]
    /\ UNCHANGED <<drawn, locks, downloads, decision, stream, owed, allowed>>

MayGoDirect(p) == At(p, "get") /\ proc[p].permit

\* The deferred removal is due once the download was listed.
Returned(p, ok) ==
    proc' = [proc EXCEPT ![p].pc = IF Listed(p) THEN "unlist" ELSE "ready",
                         ![p].ok = ok, ![p].permit = FALSE]

GetEnds(p, ok) ==
    /\ At(p, "get")
    /\ Returned(p, ok)
    /\ UNCHANGED <<drawn, locks, downloads, decision, stream, owed, allowed>>

\* The proxy did not connect: consent is asked for, unless too many wait.
AskConsent(p) ==
    /\ drawn < MaxRequests
    /\ drawn' = drawn + 1
    /\ downloads' = downloads \cup {drawn'}
    /\ proc' = [proc EXCEPT ![p].pc = "list", ![p].id = drawn']
    /\ UNCHANGED <<locks, decision, stream, owed, allowed>>

TooMany(p) ==
    /\ Returned(p, FALSE)
    /\ UNCHANGED <<drawn, locks, downloads, decision, stream, owed, allowed>>

NeedsDirect(p) ==
    /\ At(p, "get") /\ ~proc[p].permit
    /\ IF Cardinality(downloads) < Limit THEN AskConsent(p) ELSE TooMany(p)

\* 45 seconds passed, or the call that downloads ended.
Expire(p) ==
    /\ proc[p].pc \in {"list", "wait"} /\ ~proc[p].expired
    /\ proc' = [proc EXCEPT ![p].expired = TRUE]
    /\ UNCHANGED <<drawn, locks, downloads, decision, stream, owed, allowed>>

GiveUpNever(p) == FALSE /\ UNCHANGED vars \* mutant: waits for the owner alone
GiveUp(p) ==
    /\ At(p, "wait") /\ proc[p].expired
    /\ Returned(p, FALSE)
    /\ UNCHANGED <<drawn, locks, downloads, decision, stream, owed, allowed>>

\* select may take a decision though the time is over as well.
GrantLate(p) ==                          \* mutant: the time is not looked at again
    /\ At(p, "wait") /\ decision[proc[p].id] # "none"
    /\ decision' = [decision EXCEPT ![proc[p].id] = "none"]
    /\ IF decision[proc[p].id] = "allow"
       THEN proc' = [proc EXCEPT ![p].pc = "get", ![p].permit = TRUE]
       ELSE Returned(p, FALSE)
    /\ UNCHANGED <<drawn, locks, downloads, stream, owed, allowed>>
Grant(p) ==
    /\ At(p, "wait") /\ decision[proc[p].id] # "none"
    /\ decision' = [decision EXCEPT ![proc[p].id] = "none"]
    /\ IF decision[proc[p].id] = "allow" /\ ~proc[p].expired
       THEN proc' = [proc EXCEPT ![p].pc = "get", ![p].permit = TRUE]
       ELSE Returned(p, FALSE)
    /\ UNCHANGED <<drawn, locks, downloads, stream, owed, allowed>>

Unlist(p) ==
    /\ At(p, "unlist")
    /\ downloads' = downloads \ {proc[p].id}
    /\ decision' = [decision EXCEPT ![proc[p].id] = "none"]
    /\ proc' = [proc EXCEPT ![p].pc = "unlisted", ![p].id = 0, ![p].expired = FALSE]
    /\ UNCHANGED <<drawn, locks, stream, owed, allowed>>

(***************************************************************************)
(* The owner's decision, under mu, then a push.                            *)
(***************************************************************************)
InTime(id) == \E p \in Procs :
    proc[p].id = id /\ proc[p].pc \in {"list", "wait"} /\ ~proc[p].expired

decideDownload(id, answer) ==
    /\ id \in downloads
    /\ downloads' = downloads \ {id}
    /\ decision' = [decision EXCEPT ![id] = answer]
    /\ owed' = owed \cup {id}
    /\ allowed' = IF answer = "allow" /\ InTime(id) THEN allowed \cup {id} ELSE allowed
    /\ UNCHANGED <<proc, drawn, locks, stream>>

(***************************************************************************)
(* publishDownloads: encode and push under pubMu.  A publisher is a        *)
(* goroutine that downloads, the call that decided an id, or another call  *)
(* that publishes every stream.                                            *)
(***************************************************************************)
Self(p) == <<p, 0>>
Decider(id) == <<None, id>>
Other == <<None, 0>>
Publishers == {Self(p) : p \in Procs} \cup {Decider(id) : id \in Ids} \cup {Other}
Owes(x) == \/ \E p \in Procs : x = Self(p) /\ proc[p].pc \in {"list", "unlisted"}
           \/ \E id \in owed : x = Decider(id)
           \/ x = Other

EncodeUnordered(x) ==                    \* mutant: encodes before it has pubMu
    /\ Owes(x) /\ snap[x] = {None}
    /\ snap' = [snap EXCEPT ![x] = downloads]
    /\ UNCHANGED <<proc, drawn, locks, downloads, decision, pushed, owed, allowed>>
Encode(x) ==
    /\ Owes(x) /\ \A y \in Publishers : snap[y] = {None}
    /\ snap' = [snap EXCEPT ![x] = downloads]
    /\ UNCHANGED <<proc, drawn, locks, downloads, decision, pushed, owed, allowed>>

Push(x) ==
    /\ snap[x] # {None}
    /\ pushed' = snap[x] /\ snap' = [snap EXCEPT ![x] = {None}]
    /\ owed' = {id \in owed : x # Decider(id)}
    /\ proc' = [p \in Procs |->
                   IF x = Self(p)
                   THEN [proc[p] EXCEPT !.pc = IF At(p, "list") THEN "wait" ELSE "ready"]
                   ELSE proc[p]]
    /\ UNCHANGED <<drawn, locks, downloads, decision, allowed>>

Init ==
    /\ proc = [p \in Procs |-> Out] /\ drawn = 0
    /\ opMu = None /\ refreshMu = None
    /\ downloads = {} /\ decision = [id \in Ids |-> "none"]
    /\ snap = [x \in Publishers |-> {None}] /\ pushed = {}
    /\ owed = {} /\ allowed = {}

Around(p) == \/ EnterCall(p) \/ TakeOp(p) \/ Leave(p)
             \/ \E initial \in BOOLEAN : EnterRefresh(p, initial)
Within(p) == \/ Get(p) \/ NeedsDirect(p)
             \/ Expire(p) \/ GiveUp(p) \/ Grant(p) \/ Unlist(p)
             \/ \E ok \in BOOLEAN : GetEnds(p, ok)
Next == \/ \E p \in Procs : Around(p) \/ Within(p)
        \/ EnterGeodata
        \/ \E id \in Ids, answer \in {"allow", "deny"} : decideDownload(id, answer)
        \/ \E x \in Publishers : Encode(x) \/ Push(x)
Spec == Init /\ [][Next]_vars

(***************************************************************************)
(* Properties.                                                             *)
(***************************************************************************)
Pcs == {"out", "ready", "get", "list", "wait", "unlist", "unlisted"}
Goroutines == [pc : Pcs, role : {"none", "call", "refresh", "geodata"},
               second : BOOLEAN, initial : BOOLEAN, permit : BOOLEAN,
               id : 0..MaxRequests, expired : BOOLEAN, ok : BOOLEAN]

\* Every variable keeps its type.
TypeOK ==
    /\ proc \in [Procs -> Goroutines]
    /\ drawn \in 0..MaxRequests
    /\ opMu \in Procs \cup {None} /\ refreshMu \in Procs \cup {None}
    /\ downloads \in SUBSET Ids
    /\ decision \in [Ids -> {"none", "allow", "deny"}]
    /\ snap \in [Publishers -> (SUBSET Ids) \cup {{None}}]
    /\ pushed \in SUBSET Ids /\ owed \in SUBSET Ids /\ allowed \in SUBSET Ids

\* A download goes around the proxy only if it belongs to the add of the first
\* subscription or if the owner allowed this very one before it expired: no
\* answer that comes late, and none to a download before it, lets it.
DirectNeedsConsent ==
    \A p \in Procs : MayGoDirect(p) =>
        proc[p].initial \/ proc[p].id \in allowed

\* A download that waits for the owner is on the list the clients last got,
\* whoever pushes what else meanwhile: else it expires unseen.
WaitingShown ==
    \A p \in Procs : At(p, "wait") /\ proc[p].id \in downloads => proc[p].id \in pushed

\* Once every push that is owed went out, the clients' list is the daemon's:
\* nothing finished or decided stays on it.
ListSettles ==
    /\ owed = {} /\ \A x \in Publishers : snap[x] = {None}
    /\ \A p \in Procs : proc[p].pc \notin {"list", "unlisted"}
    => pushed = downloads

\* What the pushed list tells the owner: all that waits, and in the end no more.
ListTells == WaitingShown /\ ListSettles

\* However many clients call, the locks keep downloads that wait for the owner
\* apart: no two wait in the same part of a call, so that three wait at most, one
\* under opMu, one under refreshMu alone and the loop's, and the limit is far.
Slot(p) == IF proc[p].second THEN "op" ELSE proc[p].role
FewWait ==
    \A p, q \in Procs : p # q /\ proc[p].id # 0 /\ proc[q].id # 0 => Slot(p) # Slot(q)

(***************************************************************************)
(* The inductive strengthenings.                                           *)
(***************************************************************************)
\* What a goroutine holds in each part of its call, and when it publishes.
LockInv == \A p \in Procs :
    /\ At(p, "out") => proc[p] = Out
    /\ snap[Self(p)] # {None} => proc[p].pc \in {"list", "unlisted"}
    /\ ~At(p, "out") => /\ proc[p].role # "none"
                        /\ proc[p].role = "call" => proc[p].second
                        /\ proc[p].role = "refresh" => refreshMu = p
                        /\ proc[p].role = "geodata" => p = Loop
                        /\ proc[p].second => opMu = p

\* Where an id comes from, and how an answer gets from the owner to the download.
ConsentInv ==
    /\ \A id \in Ids : decision[id] # "none" \/ id \in downloads => id <= drawn
    /\ \A p \in Procs :
          /\ proc[p].pc \in {"list", "wait", "unlist"} => proc[p].id \in Ids
          /\ /\ proc[p].pc \in {"list", "wait"} /\ ~proc[p].expired
             /\ decision[proc[p].id] = "allow"
             => proc[p].id \in allowed
          /\ MayGoDirect(p) => proc[p].initial \/ proc[p].id \in allowed

\* The list that reaches the clients next: the one that is encoded, or else the
\* one they have.  It is the daemon's as long as everyone who changed the
\* daemon's has encoded it since, and it never misses one that waits.
Pending(x) == snap[x] # {None}
Behind == \/ \E p \in Procs : proc[p].pc \in {"list", "unlisted"} /\ ~Pending(Self(p))
          \/ \E id \in owed : ~Pending(Decider(id))
ListInv ==
    /\ \A x, y \in Publishers : Pending(x) /\ Pending(y) => x = y
    /\ \A id \in owed : id <= drawn /\ id \notin downloads
    /\ \A id \in Ids : Pending(Decider(id)) => id \in owed
    /\ \A p \in Procs :
          /\ proc[p].id <= drawn
          /\ At(p, "list") /\ Pending(Self(p)) /\ proc[p].id \in downloads
             => proc[p].id \in snap[Self(p)]
          /\ At(p, "wait") /\ proc[p].id \in downloads
             => /\ proc[p].id \in pushed
                /\ \A x \in Publishers : Pending(x) => proc[p].id \in snap[x]
    /\ \/ Behind
       \/ /\ \A x \in Publishers : Pending(x) => snap[x] = downloads
          /\ (\A x \in Publishers : ~Pending(x)) => pushed = downloads

(***************************************************************************)
(* Liveness.                                                               *)
(***************************************************************************)
\* A get has a timeout, a wait its 45 seconds, a call downloads so many files and
\* no more, and a mutex is handed to a goroutine that starves.  Nothing is
\* assumed of the owner.
Runs(p) == Expire(p) \/ GiveUp(p) \/ Unlist(p) \/ \E ok \in BOOLEAN : GetEnds(p, ok)
Fairness ==
    /\ \A p \in Procs : WF_vars(Runs(p)) /\ SF_vars(Leave(p)) /\ SF_vars(Encode(Self(p)))
    /\ WF_vars(\E x \in Publishers : Push(x))
FairSpec == Spec /\ Fairness

\* Every call that downloads ends and releases its locks, though the owner never
\* answers and the call holds opMu while it waits for the answer.
DownloadsEnd == \A p \in Procs : []<>At(p, "out")

=============================================================================
