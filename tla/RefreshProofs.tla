--------------------------- MODULE RefreshProofs ---------------------------
(***************************************************************************)
(* The spacing of requests proved of module Refresh, for every gap, every  *)
(* set of intervals no shorter than it and every Retry-After.              *)
(***************************************************************************)
EXTENDS Refresh, TLAPS

USE GapAssumption, IntervalAssumption, RetryAfterAssumption, RecordAssumption

\* The larger and the smaller of two numbers.
LEMMA MaxOfTwo ==
    ASSUME NEW a \in Nat, NEW b \in Nat
    PROVE  /\ Max({a, b}) \in Nat /\ Max({a, b}) >= a /\ Max({a, b}) >= b
           /\ Max({a, b}) \in {a, b}
<1>1. \E x \in {a, b} : \A y \in {a, b} : x >= y
  BY DEF Max
<1>2. Max({a, b}) \in {a, b} /\ \A y \in {a, b} : Max({a, b}) >= y
  BY <1>1 DEF Max
<1>3. QED
  BY <1>2

\* The same of the smaller one.
LEMMA MinOfTwo ==
    ASSUME NEW a \in Nat, NEW b \in Nat
    PROVE  Min({a, b}) \in {a, b} /\ Min({a, b}) <= b
<1>1. \E x \in {a, b} : \A y \in {a, b} : x =< y
  OBVIOUS
<1>2. Min({a, b}) \in {a, b} /\ \A y \in {a, b} : Min({a, b}) =< y
  BY <1>1 DEF Min
<1>3. QED
  BY <1>2

\* Without an answer the next attempt is a gap away or more, an interval at most.
LEMMA BackoffAtLeastGap ==
    ASSUME NEW s \in Records, NEW i \in Nat, i >= Gap,
           s.retryAt # 0 => s.retryAt >= s.lastAttempt + Gap
    PROVE  backoff(s, i) \in Nat /\ backoff(s, i) >= Gap /\ backoff(s, i) <= i
<1> DEFINE w == IF s.retryAt > s.lastAttempt /\ s.lastAttempt > 0
                THEN 2 * (s.retryAt - s.lastAttempt) ELSE Gap
<1>1. w \in Nat /\ w >= Gap
  BY DEF Records
<1> HIDE DEF w
<1>2. Min({w, i}) \in {w, i} /\ Min({w, i}) <= i
  BY <1>1, MinOfTwo
<1>3. backoff(s, i) = Min({w, i})
  BY DEF backoff, w
<1>4. QED
  BY <1>1, <1>2, <1>3

\* The record a failure writes, and the hold it leaves.
Failed(s, answer, wait) ==
    [s EXCEPT !.lastAttempt = now, !.retryAt = now + wait,
              !.heldUntil = IF answer THEN now + wait ELSE s.heldUntil]
HoldAfter(answer, wait) == IF answer THEN now + wait ELSE hold[req.url]

\* What failRefresh leaves: the same records, or one whose new deadlines are a
\* gap away or more and hold what the server asked for.
LEMMA FailEffect ==
    ASSUME TypeOK, DeadlineInv, Refreshing, NEW i \in Nat, i >= Gap,
           NEW answer \in BOOLEAN, NEW r \in Nat,
           failRefresh(req.sub, i, answer, r), ~UNCHANGED <<subs, hold>>
    PROVE  /\ Listed(req.url)
           /\ \E wait \in Nat :
                /\ wait >= Gap /\ (wait <= i \/ wait = r)
                /\ subs' = [subs EXCEPT ![req.url] = Failed(subs[req.url], answer, wait)]
                /\ hold' = [hold EXCEPT ![req.url] = HoldAfter(answer, wait)]
<1> DEFINE base == IF answer THEN i ELSE backoff(req.sub, i)
           wait == Max({base, r})
<1>1. Listed(req.url)
  BY DEF failRefresh
<1>2. req.url \in Urls /\ req.sub \in Records /\ req.sub = subs[req.url]
  BY <1>1 DEF TypeOK, DeadlineInv, Refreshing
<1>3. req.sub.retryAt # 0 => req.sub.retryAt >= req.sub.lastAttempt + Gap
  BY <1>1, <1>2 DEF DeadlineInv, Deadlines
<1>4. base \in Nat /\ base >= Gap /\ base <= i
  BY <1>2, <1>3, BackoffAtLeastGap
<1> HIDE DEF base
<1>5. wait \in Nat /\ wait >= Gap /\ wait \in {base, r}
  BY <1>4, MaxOfTwo
<1>6. /\ subs' = [subs EXCEPT ![req.url] = Failed(subs[req.url], answer, wait)]
      /\ hold' = [hold EXCEPT ![req.url] = HoldAfter(answer, wait)]
  BY <1>1, <1>2 DEF failRefresh, base, TypeOK, Records, Failed, HoldAfter
<1> HIDE DEF wait
<1>7. QED
  BY <1>1, <1>4, <1>5, <1>6

\* The fields of that record, which is one.
LEMMA FailedFields ==
    ASSUME TypeOK, NEW s \in Records, NEW answer \in BOOLEAN, NEW wait \in Nat
    PROVE  LET f == Failed(s, answer, wait)
           IN  /\ f \in Records
               /\ f.lastAttempt = now /\ f.retryAt = now + wait
               /\ f.interval = s.interval /\ f.updatedAt = s.updatedAt
               /\ f.heldUntil = IF answer THEN now + wait ELSE s.heldUntil
<1> DEFINE h == IF answer THEN now + wait ELSE s.heldUntil
<1>1. h \in Nat /\ now \in Nat /\ now + wait \in Nat
  BY DEF Records, TypeOK
<1>2. Failed(s, answer, wait) = [s EXCEPT !.lastAttempt = now, !.retryAt = now + wait,
                                          !.heldUntil = h]
  BY DEF Failed
<1> HIDE DEF h
<1>3. /\ Failed(s, answer, wait) \in Records
      /\ Failed(s, answer, wait).lastAttempt = now
      /\ Failed(s, answer, wait).retryAt = now + wait
      /\ Failed(s, answer, wait).interval = s.interval
      /\ Failed(s, answer, wait).updatedAt = s.updatedAt
      /\ Failed(s, answer, wait).heldUntil = h
  BY <1>1, <1>2 DEF Records
<1>4. QED
  BY <1>3 DEF h

\* The record failRefresh writes is a record.
LEMMA FailTyped ==
    ASSUME TypeOK, DeadlineInv, Refreshing, NEW i \in Nat, i >= Gap,
           NEW answer \in BOOLEAN, NEW r \in Nat,
           failRefresh(req.sub, i, answer, r)
    PROVE  subs' \in [Urls -> Records \cup {NoRecord}] /\ hold' \in [Urls -> Nat]
<1>1. CASE UNCHANGED <<subs, hold>>
  BY <1>1 DEF TypeOK
<1>2. CASE ~UNCHANGED <<subs, hold>>
  <2>1. PICK wait \in Nat :
          /\ subs' = [subs EXCEPT ![req.url] = Failed(subs[req.url], answer, wait)]
          /\ hold' = [hold EXCEPT ![req.url] = HoldAfter(answer, wait)]
    BY <1>2, FailEffect
  <2>2. req.url \in Urls /\ subs[req.url] \in Records
    BY <1>2, FailEffect DEF TypeOK, Listed, Refreshing
  <2>3. HoldAfter(answer, wait) \in Nat
    BY <2>2 DEF HoldAfter, TypeOK
  <2>4. QED
    BY <2>1, <2>2, <2>3, FailedFields DEF TypeOK
<1>3. QED
  BY <1>1, <1>2

\* A record made by an accepted download is one.
LEMMA FreshRecord ==
    ASSUME TypeOK, NEW i \in Intervals
    PROVE  [updatedAt |-> now, interval |-> i, lastAttempt |-> now,
            retryAt |-> 0, heldUntil |-> 0] \in Records
BY DEF TypeOK, Records

\* The request that holds no lock.
LEMMA NoReqTyped == NoReq \in Requests /\ NoReq.kind = "none"
BY DEF NoReq, Requests

\* Every step keeps the types.
LEMMA TypeStep == TypeOK /\ DeadlineInv /\ [Next]_vars => TypeOK'
<1> SUFFICES ASSUME TypeOK, DeadlineInv, [Next]_vars PROVE TypeOK'
  OBVIOUS
<1> USE DEF history
<1>1. ASSUME NEW u \in Urls, AddBegin(u) PROVE TypeOK'
  <2>1. ForgottenAdds \in [Urls -> Nat] /\ now \in Nat
    BY DEF ForgottenAdds, TypeOK
  <2>2. addAsked' \in [Urls -> Nat] /\ added' \in [Urls -> Nat]
    BY <1>1, <2>1 DEF AddBegin, TypeOK
  <2>3. /\ req' \in Requests
        /\ req'.kind # "none" => req'.url \in Urls
        /\ ~Refreshing'
    BY <1>1 DEF AddBegin, TypeOK, Requests, Ask, Refreshing
  <2>4. UNCHANGED <<now, subs, due, hold>>
    BY <1>1 DEF AddBegin
  <2>5. QED
    BY <2>2, <2>3, <2>4 DEF TypeOK
<1>2. ASSUME NEW u \in Urls, ManualBegin(u) PROVE TypeOK'
  BY <1>2 DEF ManualBegin, Listed, Ask, TypeOK, Requests, Refreshing
<1>3. ASSUME NEW u \in Urls, ScheduledBegin(u) PROVE TypeOK'
  BY <1>3 DEF ScheduledBegin, Listed, Ask, TypeOK, Requests, Refreshing
<1>4. CASE refreshDue
  BY <1>4 DEF refreshDue, TypeOK, Refreshing
<1>5. CASE AddFails
  BY <1>5, NoReqTyped DEF AddFails, Ended, TypeOK, Refreshing
<1>6. CASE RefreshUnrecorded
  BY <1>6, NoReqTyped DEF RefreshUnrecorded, Ended, TypeOK, Refreshing
<1>7. ASSUME NEW i \in Intervals, AddSucceeds(i) PROVE TypeOK'
  BY <1>7, NoReqTyped, FreshRecord DEF AddSucceeds, Ended, TypeOK, Refreshing
<1>8. ASSUME NEW i \in Intervals, RefreshSucceeds(i) PROVE TypeOK'
  BY <1>8, NoReqTyped, FreshRecord DEF RefreshSucceeds, Ended, TypeOK, Refreshing
<1>9. ASSUME NEW a \in BOOLEAN, NEW r \in RetryAfters, DownloadFails(a, r) PROVE TypeOK'
  <2>1. Refreshing /\ req.sub \in Records /\ req.sub.interval \in Nat /\ req.sub.interval >= Gap
    BY <1>9 DEF DownloadFails, TypeOK, Records, DeadlineInv
  <2>2. subs' \in [Urls -> Records \cup {NoRecord}] /\ hold' \in [Urls -> Nat]
    BY <1>9, <2>1, FailTyped DEF DownloadFails
  <2>3. QED
    BY <1>9, <2>2, NoReqTyped DEF DownloadFails, Ended, TypeOK, Refreshing
<1>10. ASSUME NEW i \in Intervals, NEW j \in BOOLEAN, AcceptFails(i, j) PROVE TypeOK'
  <2>1. Refreshing /\ i \in Nat /\ i >= Gap
    BY <1>10 DEF AcceptFails
  <2>2. subs' \in [Urls -> Records \cup {NoRecord}] /\ hold' \in [Urls -> Nat]
    BY <1>10, <2>1, FailTyped DEF AcceptFails
  <2>3. QED
    BY <1>10, <2>2, NoReqTyped DEF AcceptFails, Ended, TypeOK, Refreshing
<1>11. ASSUME NEW u \in Urls, Remove(u) PROVE TypeOK'
  BY <1>11 DEF Remove, TypeOK, Refreshing
<1>12. CASE Restart
  BY <1>12, NoReqTyped DEF Restart, TypeOK, Refreshing
<1>13. CASE Tick
  BY <1>13 DEF Tick, TypeOK, Refreshing
<1>14. CASE UNCHANGED vars
  BY <1>14 DEF vars, TypeOK, Refreshing
<1>15. QED
  BY <1>1, <1>2, <1>3, <1>4, <1>5, <1>6, <1>7, <1>8, <1>9, <1>10, <1>11, <1>12,
     <1>13, <1>14 DEF Next, Begin, End

\* After an accepted download nothing is held and the next one is an interval away.
LEMMA FreshDeadlines ==
    ASSUME TypeOK, NEW i \in Intervals
    PROVE  Deadlines([updatedAt |-> now, interval |-> i, lastAttempt |-> now,
                      retryAt |-> 0, heldUntil |-> 0], 0)
BY DEF Deadlines, TypeOK

\* A recorded failure keeps the deadlines of the record it changes.
LEMMA FailDeadlines ==
    ASSUME TypeOK, DeadlineInv, Refreshing, NEW i \in Nat, i >= Gap,
           NEW answer \in BOOLEAN, NEW r \in Nat,
           failRefresh(req.sub, i, answer, r), req' = NoReq
    PROVE  DeadlineInv'
<1>1. ~Refreshing' /\ req'.kind = "none"
  BY NoReqTyped DEF Refreshing
<1>2. CASE UNCHANGED <<subs, hold>>
  BY <1>1, <1>2 DEF DeadlineInv, Listed, Deadlines
<1>3. CASE ~UNCHANGED <<subs, hold>>
  <2> DEFINE s == subs[req.url]
  <2>1. PICK wait \in Nat :
          /\ wait >= Gap
          /\ subs' = [subs EXCEPT ![req.url] = Failed(s, answer, wait)]
          /\ hold' = [hold EXCEPT ![req.url] = HoldAfter(answer, wait)]
    BY <1>3, FailEffect
  <2>2. req.url \in Urls /\ s \in Records /\ now \in Nat \ {0} /\ Listed(req.url)
    BY <1>3, FailEffect DEF TypeOK, Listed, Refreshing
  <2>3. subs'[req.url] = Failed(s, answer, wait) /\ hold'[req.url] = HoldAfter(answer, wait)
    BY <2>1, <2>2 DEF TypeOK
  <2>4. Deadlines(s, hold[req.url]) /\ now >= hold[req.url] /\ hold[req.url] \in Nat
    BY <2>2 DEF DeadlineInv, TypeOK
  <2>5. Deadlines(Failed(s, answer, wait), HoldAfter(answer, wait))
    <3> DEFINE f == Failed(s, answer, wait)
               h == HoldAfter(answer, wait)
    <3>1. /\ f.lastAttempt = now /\ f.retryAt = now + wait /\ f.interval = s.interval
          /\ f.heldUntil = IF answer THEN now + wait ELSE s.heldUntil
      BY <2>2, FailedFields
    <3>2. h = IF answer THEN now + wait ELSE hold[req.url]
      BY DEF HoldAfter
    <3>3. s.interval >= Gap /\ hold[req.url] <= s.heldUntil
      BY <2>4 DEF Deadlines
    <3>4. Gap \in Nat \ {0} /\ s.heldUntil \in Nat
      BY <2>2, GapAssumption DEF Records
    <3> HIDE DEF f, h, s
    <3>5. f.interval >= Gap /\ h <= f.heldUntil
      BY <2>1, <2>2, <2>4, <3>1, <3>2, <3>3, <3>4
    <3>6. f.retryAt # 0 /\ f.retryAt >= h /\ f.retryAt >= f.lastAttempt + Gap
      BY <2>1, <2>2, <2>4, <3>1, <3>2, <3>4
    <3>7. QED
      BY <3>5, <3>6 DEF Deadlines, f, h
  <2>6. Failed(s, answer, wait) # NoRecord
    BY <2>2, FailedFields
  <2>7. \A u \in Urls \ {req.url} : subs'[u] = subs[u] /\ hold'[u] = hold[u]
    BY <2>1, <2>2 DEF TypeOK
  <2>8. QED
    BY <1>1, <2>2, <2>3, <2>5, <2>6, <2>7 DEF DeadlineInv, Listed, Deadlines
<1>4. QED
  BY <1>2, <1>3

\* Every step keeps the deadlines.
LEMMA DeadlineStep == TypeOK /\ DeadlineInv /\ [Next]_vars => DeadlineInv'
<1> SUFFICES ASSUME TypeOK, DeadlineInv, [Next]_vars PROVE DeadlineInv'
  OBVIOUS
<1> USE DEF history, DeadlineInv, Listed
<1>1. ASSUME NEW u \in Urls, AddBegin(u) PROVE DeadlineInv'
  BY <1>1 DEF AddBegin, Ask, Refreshing, Deadlines, Listed
<1>2. ASSUME NEW u \in Urls, ManualBegin(u) PROVE DeadlineInv'
  <2>1. Deadlines(subs[u], hold[u]) /\ now >= hold[u] /\ req' = [kind |-> "manual", url |-> u, sub |-> subs[u]]
    BY <1>2 DEF ManualBegin, mayAsk, Deadlines, Ask, TypeOK, Records
  <2>2. QED
    BY <1>2, <2>1 DEF ManualBegin, Deadlines
<1>3. ASSUME NEW u \in Urls, ScheduledBegin(u) PROVE DeadlineInv'
  <2>1. CASE Listed(u) /\ nextUpdate(subs[u]) <= now
    <3>1. Deadlines(subs[u], hold[u]) /\ now >= hold[u]
      BY <2>1 DEF nextUpdate, Deadlines, TypeOK, Records
    <3>2. QED
      BY <1>3, <2>1, <3>1 DEF ScheduledBegin, Ask, Deadlines
  <2>2. CASE ~(Listed(u) /\ nextUpdate(subs[u]) <= now)
    BY <1>3, <2>2 DEF ScheduledBegin, Refreshing, Deadlines
  <2>3. QED
    BY <2>1, <2>2
<1>4. CASE refreshDue
  BY <1>4 DEF refreshDue, Refreshing, Deadlines
<1>5. CASE AddFails
  BY <1>5, NoReqTyped DEF AddFails, Ended, Refreshing, Deadlines
<1>6. CASE RefreshUnrecorded
  BY <1>6, NoReqTyped DEF RefreshUnrecorded, Ended, Refreshing, Deadlines
<1>7. ASSUME NEW i \in Intervals, AddSucceeds(i) PROVE DeadlineInv'
  <2> DEFINE f == [updatedAt |-> now, interval |-> i, lastAttempt |-> now,
                   retryAt |-> 0, heldUntil |-> 0]
  <2>1. f \in Records /\ Deadlines(f, 0)
    BY FreshRecord, FreshDeadlines
  <2>2. req.url \in Urls /\ hold[req.url] = 0
    BY <1>7 DEF AddSucceeds, TypeOK
  <2>3. /\ subs' = [subs EXCEPT ![req.url] = f] /\ hold' = hold
        /\ req'.kind = "none"
    BY <1>7, NoReqTyped DEF AddSucceeds, Ended
  <2> HIDE DEF f
  <2>4. QED
    BY <2>1, <2>2, <2>3 DEF TypeOK, Deadlines, Refreshing
<1>8. ASSUME NEW i \in Intervals, RefreshSucceeds(i) PROVE DeadlineInv'
  <2> DEFINE f == [updatedAt |-> now, interval |-> i, lastAttempt |-> now,
                   retryAt |-> 0, heldUntil |-> 0]
  <2>1. f \in Records /\ Deadlines(f, 0)
    BY FreshRecord, FreshDeadlines
  <2>2. req.url \in Urls
    BY <1>8 DEF RefreshSucceeds, Refreshing, TypeOK
  <2>3. /\ subs' = [subs EXCEPT ![req.url] = f]
        /\ hold' = [hold EXCEPT ![req.url] = 0]
        /\ req'.kind = "none"
    BY <1>8, NoReqTyped DEF RefreshSucceeds, Ended
  <2> HIDE DEF f
  <2>4. QED
    BY <2>1, <2>2, <2>3 DEF TypeOK, Deadlines, Refreshing
<1>9. ASSUME NEW a \in BOOLEAN, NEW r \in RetryAfters, DownloadFails(a, r) PROVE DeadlineInv'
  <2>1. /\ Refreshing /\ req.sub.interval \in Nat /\ req.sub.interval >= Gap
        /\ failRefresh(req.sub, req.sub.interval, a, r) /\ req' = NoReq
    BY <1>9 DEF DownloadFails, Ended, TypeOK, Records
  <2>2. QED
    BY <2>1, FailDeadlines
<1>10. ASSUME NEW i \in Intervals, NEW j \in BOOLEAN, AcceptFails(i, j) PROVE DeadlineInv'
  <2>1. Refreshing /\ failRefresh(req.sub, i, j, 0) /\ req' = NoReq
    BY <1>10 DEF AcceptFails, Ended
  <2>2. QED
    BY <2>1, FailDeadlines
<1>11. ASSUME NEW u \in Urls, Remove(u) PROVE DeadlineInv'
  BY <1>11 DEF Remove, TypeOK, Refreshing, Deadlines
<1>12. CASE Restart
  BY <1>12, NoReqTyped DEF Restart, Refreshing, Deadlines
<1>13. CASE Tick
  BY <1>13 DEF Tick, TypeOK, Refreshing, Deadlines
<1>14. CASE UNCHANGED vars
  BY <1>14 DEF vars, Refreshing, Deadlines
<1>15. QED
  BY <1>1, <1>2, <1>3, <1>4, <1>5, <1>6, <1>7, <1>8, <1>9, <1>10, <1>11, <1>12,
     <1>13, <1>14 DEF Next, Begin, End

\* Types and deadlines together, from the start.
LEMMA DeadlineInit == Init => TypeOK /\ DeadlineInv
BY NoReqTyped DEF Init, TypeOK, DeadlineInv, Listed, Refreshing

\* The deadlines of every record keep what its server asked for (failRefresh,
\* the record written by an accepted download): the inductive invariant.
THEOREM DeadlinesKept == Spec => [](TypeOK /\ DeadlineInv)
BY DeadlineInit, TypeStep, DeadlineStep, PTL DEF Spec

\* A recorded failure keeps the deadline within reach.
LEMMA FailReach ==
    ASSUME TypeOK, DeadlineInv, ReachInv, Refreshing, NEW i \in Intervals,
           NEW answer \in BOOLEAN, NEW r \in RetryAfters \cup {0},
           failRefresh(req.sub, i, answer, r), req' = NoReq
    PROVE  ReachInv'
<1>1. ~Refreshing'
  BY NoReqTyped DEF Refreshing
<1>2. CASE UNCHANGED <<subs, hold>>
  BY <1>1, <1>2 DEF ReachInv, Listed, InReach
<1>3. CASE ~UNCHANGED <<subs, hold>>
  <2> DEFINE s == subs[req.url]
  <2>1. PICK wait \in Nat :
          /\ wait <= i \/ wait = r
          /\ subs' = [subs EXCEPT ![req.url] = Failed(s, answer, wait)]
    BY <1>3, FailEffect
  <2>2. /\ req.url \in Urls /\ s \in Records /\ Listed(req.url)
        /\ s.interval \in Intervals /\ now \in Nat
    BY <1>3, FailEffect DEF TypeOK, Listed, Refreshing, ReachInv, InReach
  <2> DEFINE f == Failed(s, answer, wait)
  <2>3. f.lastAttempt = now /\ f.retryAt = now + wait /\ f.interval = s.interval
    BY <2>2, FailedFields
  <2>4. \E w \in Intervals \cup RetryAfters : w \in Nat /\ wait <= w
    BY <2>1
  <2>5. subs'[req.url] = f /\ \A u \in Urls \ {req.url} : subs'[u] = subs[u]
    BY <2>1, <2>2 DEF TypeOK
  <2> HIDE DEF f, s
  <2>6. InReach(f)
    BY <2>2, <2>3, <2>4 DEF InReach
  <2>7. \A u \in Urls : Listed(u)' => InReach(subs'[u])
    BY <2>5, <2>6 DEF ReachInv, Listed
  <2>8. QED
    BY <1>1, <2>7 DEF ReachInv
<1>4. QED
  BY <1>2, <1>3

\* Every step keeps the deadlines within reach.
LEMMA ReachStep == TypeOK /\ DeadlineInv /\ ReachInv /\ [Next]_vars => ReachInv'
<1> SUFFICES ASSUME TypeOK, DeadlineInv, ReachInv, [Next]_vars PROVE ReachInv'
  OBVIOUS
<1> DEFINE fresh(i) == [updatedAt |-> now, interval |-> i, lastAttempt |-> now,
                        retryAt |-> 0, heldUntil |-> 0]
<1>0. \A i \in Intervals : InReach(fresh(i))
  BY DEF InReach
<1> HIDE DEF fresh
<1>1. ASSUME NEW u \in Urls, AddBegin(u) PROVE ReachInv'
  BY <1>1 DEF AddBegin, Ask, ReachInv, Refreshing, Listed
<1>2. ASSUME NEW u \in Urls, ManualBegin(u) PROVE ReachInv'
  BY <1>2 DEF ManualBegin, Ask, ReachInv, InReach, Listed
<1>3. ASSUME NEW u \in Urls, ScheduledBegin(u) PROVE ReachInv'
  BY <1>3 DEF ScheduledBegin, Ask, ReachInv, InReach, Refreshing, Listed
<1>4. ASSUME req' = NoReq, subs' = subs PROVE ReachInv'
  BY <1>4, NoReqTyped DEF ReachInv, Refreshing, Listed
<1>5. AddFails \/ RefreshUnrecorded \/ Restart => req' = NoReq /\ subs' = subs
  BY DEF AddFails, RefreshUnrecorded, Restart, Ended
<1>6. ASSUME NEW i \in Intervals, NEW v \in Urls,
             subs' = [subs EXCEPT ![v] = fresh(i)], req' = NoReq
      PROVE  ReachInv'
  BY <1>0, <1>6, NoReqTyped DEF ReachInv, Refreshing, Listed, TypeOK
<1>7. ASSUME NEW i \in Intervals, AddSucceeds(i) \/ RefreshSucceeds(i) PROVE ReachInv'
  <2>1. req.url \in Urls /\ subs' = [subs EXCEPT ![req.url] = fresh(i)] /\ req' = NoReq
    BY <1>7 DEF AddSucceeds, RefreshSucceeds, Ended, fresh, TypeOK, Refreshing
  <2>2. QED
    BY <1>6, <2>1
<1>8. ASSUME NEW a \in BOOLEAN, NEW r \in RetryAfters, DownloadFails(a, r) PROVE ReachInv'
  <2>1. /\ Refreshing /\ req.sub.interval \in Intervals
        /\ failRefresh(req.sub, req.sub.interval, a, r) /\ req' = NoReq
    BY <1>8 DEF DownloadFails, Ended, ReachInv
  <2>2. QED
    BY <2>1, FailReach
<1>9. ASSUME NEW i \in Intervals, NEW j \in BOOLEAN, AcceptFails(i, j) PROVE ReachInv'
  <2>1. Refreshing /\ failRefresh(req.sub, i, j, 0) /\ req' = NoReq
    BY <1>9 DEF AcceptFails, Ended
  <2>2. QED
    BY <2>1, FailReach
<1>10. ASSUME NEW u \in Urls, Remove(u) PROVE ReachInv'
  BY <1>10 DEF Remove, ReachInv, Refreshing, Listed, TypeOK
<1>11. refreshDue \/ Tick \/ UNCHANGED vars => req' = req /\ subs' = subs
  BY DEF refreshDue, Tick, vars
<1>12. ASSUME req' = req, subs' = subs PROVE ReachInv'
  BY <1>12 DEF ReachInv, Refreshing, Listed
<1>13. QED
  BY <1>1, <1>2, <1>3, <1>4, <1>5, <1>7, <1>8, <1>9, <1>10, <1>11, <1>12
     DEF Next, Begin, End

\* However often a server failed and whatever it asked for, the next request is no
\* further from the last than one interval or one Retry-After: failRefresh's
\* doubling ends at the interval (backoff), and no sum of deadlines builds up.
THEOREM DeadlinesInReach == Spec => []RecordsSound
<1>1. Init => ReachInv
  BY NoReqTyped DEF Init, ReachInv, Listed, Refreshing
<1>2. TypeOK /\ DeadlineInv /\ ReachInv => RecordsSound
  <2> SUFFICES ASSUME TypeOK, DeadlineInv, ReachInv, NEW u \in Urls, Listed(u)
               PROVE  \E wait \in Intervals \cup RetryAfters :
                          nextUpdate(subs[u]) <= subs[u].lastAttempt + wait
    BY DEF RecordsSound, DeadlineBounded
  <2>1. /\ subs[u] \in Records /\ InReach(subs[u])
        /\ Deadlines(subs[u], hold[u])
    BY DEF TypeOK, Listed, ReachInv, DeadlineInv
  <2>2. CASE subs[u].retryAt # 0
    BY <2>1, <2>2 DEF InReach, nextUpdate
  <2>3. CASE subs[u].retryAt = 0
    <3>1. nextUpdate(subs[u]) <= subs[u].lastAttempt + subs[u].interval
      BY <2>1, <2>3 DEF nextUpdate, Deadlines, Records
    <3>2. QED
      BY <2>1, <3>1 DEF InReach
  <2>4. QED
    BY <2>2, <2>3
<1>3. QED
  BY <1>1, <1>2, ReachStep, DeadlinesKept, PTL DEF Spec

\* A refresh starts in a step only of the owner or of the loop, on a record
\* whose deadlines allow it.
LEMMA StartStep ==
    ASSUME TypeOK, DeadlineInv, [Next]_vars, NEW u \in Urls, Starts(u)
    PROVE  now >= hold[u] /\ now >= subs[u].lastAttempt + Gap
<1>1. ManualBegin(u) \/ ScheduledBegin(u)
  <2>1. req.kind = "none" /\ req'.kind \in {"manual", "scheduled"} /\ req'.url = u
    BY DEF Starts, Refreshing
  <2>2. \E v \in Urls : ManualBegin(v) \/ ScheduledBegin(v)
    <3>1. End => req' = NoReq
      BY DEF End, AddFails, RefreshUnrecorded, AddSucceeds, RefreshSucceeds,
             DownloadFails, AcceptFails, Ended
    <3>2. Restart => req' = NoReq
      BY DEF Restart
    <3>3. ASSUME NEW v \in Urls, AddBegin(v) PROVE req'.kind \in {"add", "none"}
      BY <2>1, <3>3 DEF AddBegin, Ask
    <3>4. refreshDue \/ Tick \/ UNCHANGED vars => req' = req
      BY DEF refreshDue, Tick, vars
    <3>5. ASSUME NEW v \in Urls, Remove(v) PROVE req' = req
      BY <3>5 DEF Remove
    <3>6. QED
      BY <2>1, <3>1, <3>2, <3>3, <3>4, <3>5, NoReqTyped DEF Next, Begin
  <2>3. QED
    BY <2>1, <2>2 DEF ManualBegin, ScheduledBegin, Ask
<1>2. CASE ManualBegin(u)
  BY <1>2 DEF ManualBegin, mayAsk, Listed, DeadlineInv, Deadlines, TypeOK, Records
<1>3. CASE ScheduledBegin(u)
  <2>1. Listed(u) /\ nextUpdate(subs[u]) <= now
    BY <1>3 DEF ScheduledBegin, Starts, Refreshing
  <2>2. QED
    BY <2>1 DEF nextUpdate, Listed, DeadlineInv, Deadlines, TypeOK, Records
<1>4. QED
  BY <1>1, <1>2, <1>3

\* No refresh goes out before what the server's last recorded refusal asked for
\* has passed: the loop's RetryAt and the owner's HeldUntil both keep it.
THEOREM HoldKept == Spec => HoldRespected
<1>1. TypeOK /\ DeadlineInv /\ [Next]_vars
        => [AfterHold]_vars
  BY StartStep DEF AfterHold
<1>2. QED
  BY <1>1, DeadlinesKept, PTL DEF Spec, HoldRespected

\* No refresh goes out within a gap of a request that was recorded, whatever
\* deadlines that one left (failRefresh's backoff, mayAsk's manualGap).
THEOREM RefreshesSpaced == Spec => RequestsSpaced
<1>1. TypeOK /\ DeadlineInv /\ [Next]_vars
        => [AfterGap]_vars
  BY StartStep DEF AfterGap
<1>2. QED
  BY <1>1, DeadlinesKept, PTL DEF Spec, RequestsSpaced

\* The adds of the last gap are remembered from step to step.
LEMMA AddStep ==
    ASSUME TypeOK, AddInv, [Next]_vars
    PROVE  AddInv'
<1> USE DEF AddInv
<1>1. ASSUME NEW u \in Urls, AddBegin(u) PROVE AddInv'
  BY <1>1 DEF AddBegin, ForgottenAdds, TypeOK
<1>2. CASE Restart
  BY <1>2 DEF Restart
<1>3. CASE Tick
  BY <1>3 DEF Tick, history, TypeOK
<1>4. ASSUME UNCHANGED <<now, addAsked, added>> PROVE AddInv'
  BY <1>4
<1>5. ASSUME NEW u \in Urls, ManualBegin(u) \/ ScheduledBegin(u) \/ Remove(u)
      PROVE  UNCHANGED <<now, addAsked, added>>
  BY <1>5 DEF ManualBegin, ScheduledBegin, Remove, history
<1>6. refreshDue \/ UNCHANGED vars => UNCHANGED <<now, addAsked, added>>
  BY DEF refreshDue, vars, history
<1>7. End => UNCHANGED <<now, addAsked, added>>
  BY DEF End, AddFails, RefreshUnrecorded, AddSucceeds, RefreshSucceeds,
         DownloadFails, AcceptFails
<1>8. QED
  BY <1>1, <1>2, <1>3, <1>4, <1>5, <1>6, <1>7 DEF Next, Begin

\* Only AddBegin starts an add, and it looked at addAsked first.
LEMMA AddStart ==
    ASSUME TypeOK, AddInv, [Next]_vars, NEW u \in Urls,
           req.kind = "none", req'.kind = "add", req'.url = u, added[u] # 0
    PROVE  now >= added[u] + Gap
<1>1. AddBegin(u)
  <2>1. End \/ Restart => req' = NoReq
    BY DEF End, AddFails, RefreshUnrecorded, AddSucceeds, RefreshSucceeds,
           DownloadFails, AcceptFails, Ended, Restart
  <2>2. refreshDue \/ Tick \/ UNCHANGED vars => req' = req
    BY DEF refreshDue, Tick, vars
  <2>3. ASSUME NEW v \in Urls, ManualBegin(v) \/ ScheduledBegin(v) \/ Remove(v)
        PROVE  req'.kind # "add"
    BY <2>3 DEF ManualBegin, ScheduledBegin, Remove, Ask
  <2>4. \E v \in Urls : AddBegin(v)
    BY <2>1, <2>2, <2>3, NoReqTyped DEF Next, Begin
  <2>5. QED
    BY <2>4 DEF AddBegin, Ask
<1>2. QED
  BY <1>1 DEF AddBegin, ForgottenAdds, AddInv, Ask, TypeOK

\* Two adds of one URL are manualGap apart while the daemon lives: addAsked keeps
\* the first one's time though its subscription may be gone.
THEOREM AddsKeptApart == Spec => AddsSpaced
<1>1. Init => AddInv
  BY DEF Init, AddInv
<1>2. TypeOK /\ AddInv /\ [Next]_vars
        => [AfterAdd]_vars
  BY AddStart DEF AfterAdd
<1>3. QED
  BY <1>1, <1>2, AddStep, DeadlinesKept, PTL DEF Spec, AddsSpaced

\* No server is asked before its refusal ran out, or again within a gap, by the
\* loop, by the owner's updates or by adds and removals in turn.
THEOREM ServersLeftAlone == Spec => ServersRespected
<1>1. [AfterHold]_vars /\ [AfterAdd]_vars /\ [AfterGap]_vars
        => [AfterHold /\ AfterAdd /\ AfterGap]_vars
  OBVIOUS
<1>2. QED
  BY <1>1, HoldKept, AddsKeptApart, RefreshesSpaced, PTL
     DEF ServersRespected, HoldRespected, AddsSpaced, RequestsSpaced
=============================================================================
