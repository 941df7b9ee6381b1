------------------------------ MODULE Refresh ------------------------------
(***************************************************************************)
(* When the daemon asks a subscription's server: the deadlines of          *)
(* internal/daemon/subscriptions.go (nextUpdate, mayAsk, failRefresh,      *)
(* addAsked) and the refresh loop, which looks for what is due and then    *)
(* asks one server after the other, among the owner's own requests.        *)
(*                                                                         *)
(* Requests run one at a time under refreshMu (`req'); time passes while   *)
(* they do.  What a request leaves in the core, on disk and on the streams *)
(* is module Daemon; here its end is one step under opMu, and a record     *)
(* outlives a restart because saveSubs writes it before the memory has it. *)
(* A subscription is known by its URL: no two have the same one.           *)
(***************************************************************************)
EXTENDS Naturals, FiniteSetsExt

CONSTANTS
    Urls,
    Gap,         \* manualGap and retryFirst, one minute both
    Intervals,   \* what profile.Interval reads of an answer
    RetryAfters, \* what fetch reads of a refusal's Retry-After, 0 if nothing
    MaxTime,     \* bound: the last instant of the model
    NoRecord

ASSUME GapAssumption == Gap \in Nat \ {0}
\* An interval is at least an hour.
ASSUME IntervalAssumption == Intervals \subseteq {n \in Nat : n >= Gap}
ASSUME RetryAfterAssumption == RetryAfters \subseteq Nat
ASSUME TimeAssumption == MaxTime \in Nat

(* The deadlines of state.Subscription; 0 is unset. *)
Records == [updatedAt : Nat, interval : Nat, lastAttempt : Nat,
            retryAt : Nat, heldUntil : Nat]
ASSUME RecordAssumption == NoRecord \notin Records

VARIABLES
    now,      \* the clock
    subs,     \* the record per URL, or NoRecord
    addAsked, \* server.addAsked: when an add last asked a URL, or 0
    req,      \* the holder of refreshMu: its kind, URL and the record it read
    due,      \* what refreshDue found due and has not come to yet
    \* History, read by properties only:
    hold,     \* per URL, how long the server's last recorded refusal counts
    added     \* per URL, the last request of an add since the daemon started

history == <<hold, added>>
vars == <<now, subs, addAsked, req, due, history>>

NoReq == [kind |-> "none", url |-> NoRecord, sub |-> NoRecord]
Listed(u) == subs[u] # NoRecord

nextUpdate(s) ==
    IF s.retryAt # 0 THEN s.retryAt ELSE s.updatedAt + s.interval

mayAskUnheld(s) == s.lastAttempt + Gap <= now             \* mutant
mayAsk(s) == s.lastAttempt + Gap <= now /\ s.heldUntil <= now

(***************************************************************************)
(* A request starts.                                                       *)
(***************************************************************************)
Ask(kind, u, s) == req' = [kind |-> kind, url |-> u, sub |-> s]

\* Entries too old to matter go first, whether the URL is then asked or not.
ForgottenAdds == [v \in Urls |-> IF now >= addAsked[v] + Gap THEN 0 ELSE addAsked[v]]
AddBegin(u) ==
    /\ req.kind = "none" /\ ~Listed(u)
    /\ \/ /\ ForgottenAdds[u] = 0
          /\ addAsked' = [ForgottenAdds EXCEPT ![u] = now]
          /\ Ask("add", u, NoRecord)
          /\ added' = [added EXCEPT ![u] = now]
       \/ /\ ForgottenAdds[u] # 0
          /\ addAsked' = ForgottenAdds
          /\ UNCHANGED <<req, added>>
    /\ UNCHANGED <<now, subs, due, hold>>

ManualBegin(u) ==
    /\ req.kind = "none" /\ Listed(u)
    /\ mayAsk(subs[u])
    /\ Ask("manual", u, subs[u])
    /\ UNCHANGED <<now, subs, addAsked, due, history>>

refreshDueUnfailed ==                    \* mutant: passes over what failed before
    /\ due = {}
    /\ due' = {u \in Urls : /\ Listed(u) /\ subs[u].retryAt = 0
                            /\ nextUpdate(subs[u]) <= now}
    /\ UNCHANGED <<now, subs, addAsked, req, history>>

refreshDue ==
    /\ due = {}
    /\ due' = {u \in Urls : Listed(u) /\ nextUpdate(subs[u]) <= now}
    /\ UNCHANGED <<now, subs, addAsked, req, history>>

\* What another request or a removal did meanwhile is seen under refreshMu.
ScheduledBegin(u) ==
    /\ req.kind = "none" /\ u \in due
    /\ due' = due \ {u}
    /\ IF Listed(u) /\ nextUpdate(subs[u]) <= now
       THEN Ask("scheduled", u, subs[u]) ELSE UNCHANGED req
    /\ UNCHANGED <<now, subs, addAsked, history>>

(***************************************************************************)
(* A request ends.                                                         *)
(***************************************************************************)
Ended == req' = NoReq
Refreshing == req.kind \in {"manual", "scheduled"}

AddFails ==
    /\ req.kind = "add"
    /\ Ended
    /\ UNCHANGED <<now, subs, addAsked, due, hold, added>>

AddSucceeds(interval) ==
    /\ req.kind = "add"
    /\ subs' = [subs EXCEPT ![req.url] =
                    [updatedAt |-> now, interval |-> interval, lastAttempt |-> now,
                     retryAt |-> 0, heldUntil |-> 0]]
    /\ Ended
    /\ UNCHANGED <<now, addAsked, due, hold, added>>

backoffUncapped(s, interval) ==                           \* mutant
    IF s.retryAt > s.lastAttempt THEN 2 * (s.retryAt - s.lastAttempt) ELSE Gap
backoff(s, interval) ==
    LET wait == IF s.retryAt > s.lastAttempt /\ s.lastAttempt > 0
                THEN 2 * (s.retryAt - s.lastAttempt) ELSE Gap
    IN  Min({wait, interval})

\* The record is written unless it is gone or the write fails.
failRefresh(s, interval, answer, retryAfter) ==
    LET wait == Max({IF answer THEN interval ELSE backoff(s, interval), retryAfter})
        u == req.url
    IN  \/ /\ Listed(u)
           /\ subs' = [subs EXCEPT ![u].lastAttempt = now, ![u].retryAt = now + wait,
                                   ![u].heldUntil = IF answer THEN now + wait ELSE @]
           /\ hold' = [hold EXCEPT ![u] = IF answer THEN now + wait ELSE @]
        \/ UNCHANGED <<subs, hold>>

\* No answer, or one that is not the content: a Retry-After comes with a status.
DownloadFails(answer, retryAfter) ==
    /\ Refreshing
    /\ retryAfter # 0 => answer
    /\ failRefresh(req.sub, req.sub.interval, answer, retryAfter)
    /\ Ended
    /\ UNCHANGED <<now, addAsked, due, added>>

\* The core refuses the content, or a local failure keeps it from running.
AcceptFails(interval, rejected) ==
    /\ Refreshing /\ Listed(req.url)
    /\ failRefresh(req.sub, interval, rejected, 0)
    /\ Ended
    /\ UNCHANGED <<now, addAsked, due, added>>

\* It was removed meanwhile, or it or its record could not be saved.
RefreshUnrecorded ==
    /\ Refreshing
    /\ Ended
    /\ UNCHANGED <<now, subs, addAsked, due, hold, added>>

RefreshSucceeds(interval) ==
    /\ Refreshing /\ Listed(req.url)
    /\ subs' = [subs EXCEPT ![req.url] =
                    [updatedAt |-> now, interval |-> interval, lastAttempt |-> now,
                     retryAt |-> 0, heldUntil |-> 0]]
    /\ hold' = [hold EXCEPT ![req.url] = 0]
    /\ Ended
    /\ UNCHANGED <<now, addAsked, due, added>>

(***************************************************************************)
(* The rest: removals, restarts and the clock.                             *)
(***************************************************************************)
\* An id is never drawn again, so one that was due is not found any more.
Remove(u) ==
    /\ Listed(u)
    /\ subs' = [subs EXCEPT ![u] = NoRecord]
    /\ due' = due \ {u}
    /\ hold' = [hold EXCEPT ![u] = 0]
    /\ UNCHANGED <<now, addAsked, req, added>>

Restart ==
    /\ req' = NoReq /\ due' = {}
    /\ addAsked' = [u \in Urls |-> 0] /\ added' = [u \in Urls |-> 0]
    /\ UNCHANGED <<now, subs, hold>>

Tick ==
    /\ now < MaxTime
    /\ now' = now + 1
    /\ UNCHANGED <<subs, addAsked, req, due, history>>

\* Instants are counted from 1: 0 is an unset deadline.
Init ==
    /\ now = 1
    /\ subs = [u \in Urls |-> NoRecord]
    /\ addAsked = [u \in Urls |-> 0]
    /\ req = NoReq /\ due = {}
    /\ hold = [u \in Urls |-> 0]
    /\ added = [u \in Urls |-> 0]

End ==
    \/ AddFails \/ RefreshUnrecorded
    \/ \E i \in Intervals : AddSucceeds(i) \/ RefreshSucceeds(i)
    \/ \E a \in BOOLEAN, r \in RetryAfters : DownloadFails(a, r)
    \/ \E i \in Intervals, j \in BOOLEAN : AcceptFails(i, j)
Begin == \E u \in Urls : AddBegin(u) \/ ManualBegin(u) \/ ScheduledBegin(u)
Next == Begin \/ refreshDue \/ End \/ (\E u \in Urls : Remove(u)) \/ Restart \/ Tick
Spec == Init /\ [][Next]_vars

(***************************************************************************)
(* Properties.                                                             *)
(***************************************************************************)
Requests == [kind : {"none", "add", "manual", "scheduled"},
             url : Urls \cup {NoRecord}, sub : Records \cup {NoRecord}]

\* Every variable keeps its type.
TypeOK ==
    /\ now \in Nat \ {0}
    /\ subs \in [Urls -> Records \cup {NoRecord}]
    /\ addAsked \in [Urls -> Nat]
    /\ req \in Requests
    /\ req.kind # "none" => req.url \in Urls
    /\ Refreshing => req.sub \in Records
    /\ due \in SUBSET Urls
    /\ hold \in [Urls -> Nat] /\ added \in [Urls -> Nat]

\* A refresh of u starts in this step.
Starts(u) == req.kind = "none" /\ Refreshing' /\ req'.url = u

\* No refresh, scheduled or asked for, goes out before what the server's last
\* recorded refusal asked for has passed, through restarts and other requests:
\* the loop knows RetryAt only, the owner's requests HeldUntil.
AfterHold == \A u \in Urls : Starts(u) => now >= hold[u]
HoldRespected == [][AfterHold]_vars

\* Two adds of one URL are manualGap apart while the daemon lives, whether the
\* first failed, succeeded or was removed again.
AfterAdd ==
    \A u \in Urls :
        /\ req.kind = "none" /\ req'.kind = "add" /\ req'.url = u
        /\ added[u] # 0
        => now >= added[u] + Gap
AddsSpaced == [][AfterAdd]_vars

\* The loop asks no server again within retryFirst of a request it recorded,
\* nor does the owner within manualGap: whatever deadlines that one left.
AfterGap == \A u \in Urls : Starts(u) => now >= subs[u].lastAttempt + Gap
RequestsSpaced == [][AfterGap]_vars

\* What the server of a subscription may count on, whether the loop or the owner
\* asks and whatever failed, was removed or restarted in between.
ServersRespected == [][AfterHold /\ AfterAdd /\ AfterGap]_vars

\* No deadline is further away than the longest the server can ask for, so that
\* a subscription is asked again however often its server failed.
DeadlineBounded ==
    \A u \in Urls : Listed(u) =>
        \E wait \in Intervals \cup RetryAfters :
            nextUpdate(subs[u]) <= subs[u].lastAttempt + wait

\* The records keep their types and their deadlines within reach.
RecordsSound == TypeOK /\ DeadlineBounded

(***************************************************************************)
(* The inductive strengthening of HoldRespected and RequestsSpaced.        *)
(***************************************************************************)
\* What the deadlines of one record say of the server's hold h.
Deadlines(s, h) ==
    /\ s.interval >= Gap
    /\ h <= s.heldUntil
    /\ s.retryAt = 0 => h = 0 /\ s.updatedAt = s.lastAttempt
    /\ s.retryAt # 0 => s.retryAt >= h /\ s.retryAt >= s.lastAttempt + Gap

\* Every record keeps its server's hold, and a request in progress works on the
\* record that is listed and started after the hold.
DeadlineInv ==
    /\ \A u \in Urls : Listed(u) => Deadlines(subs[u], hold[u])
    /\ \A u \in Urls : ~Listed(u) => hold[u] = 0
    /\ req.kind = "add" => ~Listed(req.url)
    /\ Refreshing => /\ Listed(req.url) => req.sub = subs[req.url]
                     /\ req.sub.interval >= Gap
                     /\ now >= hold[req.url]

\* The strengthening of DeadlineBounded: every interval is one of an answer, and a
\* failure moves the deadline by what the server can ask for at most.
InReach(s) ==
    /\ s.interval \in Intervals
    /\ s.retryAt # 0 => \E wait \in Intervals \cup RetryAfters :
                          s.retryAt <= s.lastAttempt + wait
ReachInv == /\ \A u \in Urls : Listed(u) => InReach(subs[u])
            /\ Refreshing => req.sub.interval \in Intervals

\* An add that is less than a gap ago is remembered: the strengthening of
\* AddsSpaced.
AddInv == \A u \in Urls : added[u] # 0 =>
              addAsked[u] = added[u] \/ now >= added[u] + Gap

(***************************************************************************)
(* Liveness.                                                               *)
(***************************************************************************)
Due(u) == Listed(u) /\ nextUpdate(subs[u]) <= now

\* The loop ticks; a request ends, its context has a deadline; and refreshMu, a
\* sync.Mutex, is handed to the loop when it starves.  Restarts come to an end.
Fairness ==
    /\ WF_vars(refreshDue)
    /\ WF_vars(End)
    /\ \A u \in Urls : SF_vars(ScheduledBegin(u))
StaysUp == <>[][~Restart]_vars
FairSpec == Spec /\ Fairness /\ StaysUp

\* A subscription that is due is asked, or is no longer due: the owner asked its
\* server or removed it.
DueIsAsked ==
    \A u \in Urls : Due(u) ~> ~Due(u) \/ (Refreshing /\ req.url = u)

=============================================================================
