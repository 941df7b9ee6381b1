-------------------------- MODULE DownloadsProofs --------------------------
(***************************************************************************)
(* Consent and the locks, proved of module Downloads for any number of     *)
(* goroutines, requests and waiting downloads.                             *)
(***************************************************************************)
EXTENDS Downloads, TLAPS

USE ProcAssumption, LimitAssumption

DownloadInv == TypeOK /\ LockInv /\ ConsentInv
PublishInv == DownloadInv /\ ListInv

\* A goroutine outside every call is one.
LEMMA OutTyped == Out \in Goroutines
BY DEF Out, Pcs, Goroutines

\* So is one whose request is listed or taken off the list.
LEMMA RequestTyped ==
    ASSUME NEW g \in Goroutines, NEW pc \in Pcs, NEW i \in 0..MaxRequests,
           NEW e \in BOOLEAN
    PROVE  /\ [g EXCEPT !.pc = pc, !.id = i] \in Goroutines
           /\ [g EXCEPT !.pc = pc, !.id = i, !.expired = e] \in Goroutines
BY DEF Goroutines

\* So is one whose download returned.
LEMMA ReturnTyped ==
    ASSUME TypeOK, NEW p \in Procs, NEW ok \in BOOLEAN, Returned(p, ok)
    PROVE  proc' \in [Procs -> Goroutines]
<1> DEFINE pc == IF Listed(p) THEN "unlist" ELSE "ready"
           g == [proc[p] EXCEPT !.pc = pc, !.ok = ok, !.permit = FALSE]
<1>1. pc \in Pcs /\ proc[p] \in Goroutines
  BY DEF Pcs, TypeOK
<1>2. proc' = [proc EXCEPT ![p] = g]
  BY DEF Returned
<1> HIDE DEF pc
<1>3. g \in Goroutines
  BY <1>1 DEF Goroutines
<1> HIDE DEF g
<1>4. QED
  BY <1>2, <1>3 DEF TypeOK

\* The invariant holds at the start.
LEMMA InvInit == Init => DownloadInv
<1> SUFFICES ASSUME Init PROVE DownloadInv
  OBVIOUS
<1>1. TypeOK
  <2>1. decision \in [Ids -> {"none", "allow", "deny"}] /\ drawn \in 0..MaxRequests
    BY DEF Init
  <2>2. proc \in [Procs -> Goroutines]
    BY OutTyped DEF Init
  <2>3. snap \in [Publishers -> (SUBSET Ids) \cup {{None}}]
    BY DEF Init
  <2>4. QED
    BY <2>1, <2>2, <2>3 DEF Init, TypeOK
<1>2. LockInv
  BY DEF Init, LockInv, At, Out, Publishers
<1>3. ConsentInv
  BY DEF Init, ConsentInv, Out, MayGoDirect, At
<1>4. QED
  BY <1>1, <1>2, <1>3 DEF DownloadInv

\* Every step keeps the types.
LEMMA TypeStep ==
    ASSUME DownloadInv, [Next]_vars
    PROVE  TypeOK'
<1> USE DEF DownloadInv
<1>1. ASSUME NEW p \in Procs, EnterCall(p) PROVE TypeOK'
  <2>1. proc' \in [Procs -> Goroutines]
    BY <1>1, OutTyped DEF EnterCall, Out, TypeOK, Goroutines, Pcs
  <2>2. QED
    BY <1>1, <2>1 DEF EnterCall, TypeOK, locks, stream
<1>2. ASSUME NEW p \in Procs, TakeOp(p) PROVE TypeOK'
  <2> DEFINE g == [proc[p] EXCEPT !.second = TRUE]
  <2>1. proc[p] \in Goroutines
    BY DEF TypeOK
  <2>2. g \in Goroutines
    BY <1>2, <2>1 DEF Goroutines, Pcs
  <2>3. proc' = [proc EXCEPT ![p] = g]
    BY <1>2 DEF TakeOp
  <2> HIDE DEF g
  <2>4. proc' \in [Procs -> Goroutines]
    BY <2>2, <2>3 DEF TypeOK
  <2>5. QED
    BY <1>2, <2>4 DEF TakeOp, TypeOK, locks, stream, Ids
<1>3. ASSUME NEW p \in Procs, Leave(p) PROVE TypeOK'
  <2>1. proc' \in [Procs -> Goroutines]
    BY <1>3, OutTyped DEF Leave, Out, TypeOK, Goroutines, Pcs
  <2>2. QED
    BY <1>3, <2>1 DEF Leave, TypeOK, locks, stream
<1>4. ASSUME NEW p \in Procs, Get(p) PROVE TypeOK'
  <2> DEFINE g == [proc[p] EXCEPT !.pc = "get", !.permit = proc[p].initial]
  <2>1. proc[p] \in Goroutines
    BY DEF TypeOK
  <2>2. g \in Goroutines
    BY <1>4, <2>1 DEF Goroutines, Pcs
  <2>3. proc' = [proc EXCEPT ![p] = g]
    BY <1>4 DEF Get
  <2> HIDE DEF g
  <2>4. proc' \in [Procs -> Goroutines]
    BY <2>2, <2>3 DEF TypeOK
  <2>5. QED
    BY <1>4, <2>4 DEF Get, TypeOK, locks, stream, Ids
<1>5. ASSUME NEW p \in Procs, NeedsDirect(p), AskConsent(p) PROVE TypeOK'
  <2> DEFINE g == [proc[p] EXCEPT !.pc = "list", !.id = drawn']
  <2>1. proc[p] \in Goroutines
    BY DEF TypeOK
  <2>0. drawn' \in 0..MaxRequests
    BY <1>5 DEF NeedsDirect, AskConsent, TypeOK
  <2>2. g \in Goroutines
    BY <2>1, <2>0, RequestTyped DEF Pcs
  <2>3. proc' = [proc EXCEPT ![p] = g]
    BY <1>5 DEF NeedsDirect, AskConsent
  <2> HIDE DEF g
  <2>4. proc' \in [Procs -> Goroutines]
    BY <2>2, <2>3 DEF TypeOK
  <2>5. QED
    BY <1>5, <2>4 DEF NeedsDirect, AskConsent, TypeOK, locks, stream, Ids
<1>6. ASSUME NEW p \in Procs, NeedsDirect(p), TooMany(p) PROVE TypeOK'
  <2>1. proc' \in [Procs -> Goroutines]
    BY <1>6, ReturnTyped DEF NeedsDirect, TooMany
  <2>2. QED
    BY <1>6, <2>1 DEF NeedsDirect, TooMany, TypeOK, locks, stream
<1>7. ASSUME NEW p \in Procs, Expire(p) PROVE TypeOK'
  <2> DEFINE g == [proc[p] EXCEPT !.expired = TRUE]
  <2>1. proc[p] \in Goroutines
    BY DEF TypeOK
  <2>2. g \in Goroutines
    BY <1>7, <2>1 DEF Goroutines, Pcs
  <2>3. proc' = [proc EXCEPT ![p] = g]
    BY <1>7 DEF Expire
  <2> HIDE DEF g
  <2>4. proc' \in [Procs -> Goroutines]
    BY <2>2, <2>3 DEF TypeOK
  <2>5. QED
    BY <1>7, <2>4 DEF Expire, TypeOK, locks, stream, Ids
<1>8. ASSUME NEW p \in Procs, GiveUp(p) PROVE TypeOK'
  <2>1. proc' \in [Procs -> Goroutines]
    BY <1>8, ReturnTyped DEF GiveUp
  <2>2. QED
    BY <1>8, <2>1 DEF GiveUp, TypeOK, locks, stream
<1>9. ASSUME NEW p \in Procs, Grant(p) PROVE TypeOK'
  <2>1. proc' \in [Procs -> Goroutines]
    BY <1>9 DEF Grant, Returned, Listed, TypeOK, Goroutines, Pcs, At
  <2>2. QED
    BY <1>9, <2>1 DEF Grant, Returned, Listed, TypeOK, locks, stream, Ids
<1>10. ASSUME NEW p \in Procs, Unlist(p) PROVE TypeOK'
  <2> DEFINE g == [proc[p] EXCEPT !.pc = "unlisted", !.id = 0, !.expired = FALSE]
  <2>1. proc[p] \in Goroutines
    BY DEF TypeOK
  <2>0. 0 \in 0..MaxRequests
    OBVIOUS
  <2>2. g \in Goroutines
    BY <2>1, <2>0, RequestTyped DEF Pcs
  <2>3. proc' = [proc EXCEPT ![p] = g]
    BY <1>10 DEF Unlist
  <2> HIDE DEF g
  <2>4. proc' \in [Procs -> Goroutines]
    BY <2>2, <2>3 DEF TypeOK
  <2>5. QED
    BY <1>10, <2>4 DEF Unlist, TypeOK, locks, stream, Ids
<1>11. ASSUME NEW p \in Procs, NEW initial \in BOOLEAN, EnterRefresh(p, initial) PROVE TypeOK'
  <2>1. proc' \in [Procs -> Goroutines]
    BY <1>11, OutTyped DEF EnterRefresh, Out, TypeOK, Goroutines, Pcs
  <2>2. QED
    BY <1>11, <2>1 DEF EnterRefresh, TypeOK, locks, stream
<1>12. ASSUME NEW p \in Procs, NEW ok \in BOOLEAN, GetEnds(p, ok) PROVE TypeOK'
  <2>1. proc' \in [Procs -> Goroutines]
    BY <1>12, ReturnTyped DEF GetEnds
  <2>2. QED
    BY <1>12, <2>1 DEF GetEnds, TypeOK, locks, stream
<1>13. CASE EnterGeodata
  <2>1. proc' \in [Procs -> Goroutines]
    BY <1>13, OutTyped DEF EnterGeodata, Out, TypeOK, Goroutines, Pcs
  <2>2. QED
    BY <1>13, <2>1 DEF EnterGeodata, TypeOK, locks, stream
<1>14. ASSUME NEW id \in Ids, NEW answer \in {"allow", "deny"}, decideDownload(id, answer)
      PROVE  TypeOK'
  BY <1>14 DEF decideDownload, InTime, TypeOK, locks, stream
<1>15. ASSUME NEW x \in Publishers, Encode(x) PROVE TypeOK'
  BY <1>15 DEF Encode, TypeOK, locks, stream
<1>16. ASSUME NEW x \in Publishers, Push(x) PROVE TypeOK'
  <2>1. proc' \in [Procs -> Goroutines]
    BY <1>16 DEF Push, TypeOK, Goroutines, Pcs, At
  <2>2. snap' \in [Publishers -> (SUBSET Ids) \cup {{None}}] /\ pushed' \in SUBSET Ids
    BY <1>16 DEF Push, TypeOK
  <2>3. QED
    BY <1>16, <2>1, <2>2 DEF Push, TypeOK, locks
<1>17. CASE UNCHANGED vars
  BY <1>17 DEF vars, TypeOK, locks, stream
<1>18. QED
  BY <1>1, <1>2, <1>3, <1>4, <1>5, <1>6, <1>7, <1>8, <1>9,
     <1>10, <1>11, <1>12, <1>13, <1>14, <1>15, <1>16, <1>17
     DEF Next, Around, Within, NeedsDirect

\* Every step keeps what the parts of a call hold.
LEMMA LockStep ==
    ASSUME DownloadInv, [Next]_vars
    PROVE  LockInv'
<1> USE DEF DownloadInv
<1>1. ASSUME NEW p \in Procs, EnterCall(p) PROVE LockInv'
  BY <1>1, OutTyped DEF EnterCall, Out, LockInv, TypeOK, Goroutines, At, locks, stream
<1>2. ASSUME NEW p \in Procs, TakeOp(p) PROVE LockInv'
  BY <1>2 DEF TakeOp, LockInv, TypeOK, Goroutines, At, locks, stream
<1>3. ASSUME NEW p \in Procs, Leave(p) PROVE LockInv'
  BY <1>3, OutTyped DEF Leave, Out, LockInv, TypeOK, Goroutines, At, locks, stream
<1>4. ASSUME NEW p \in Procs, Get(p) PROVE LockInv'
  BY <1>4 DEF Get, LockInv, TypeOK, Goroutines, At, locks, stream
<1>5. ASSUME NEW p \in Procs, NeedsDirect(p), AskConsent(p) PROVE LockInv'
  BY <1>5 DEF NeedsDirect, AskConsent, LockInv, TypeOK, Goroutines, At, locks, stream
<1>6. ASSUME NEW p \in Procs, NeedsDirect(p), TooMany(p) PROVE LockInv'
  BY <1>6 DEF NeedsDirect, TooMany, Returned, Listed, LockInv, TypeOK, Goroutines, At, locks, stream
<1>7. ASSUME NEW p \in Procs, Expire(p) PROVE LockInv'
  BY <1>7 DEF Expire, LockInv, TypeOK, Goroutines, At, locks, stream
<1>8. ASSUME NEW p \in Procs, GiveUp(p) PROVE LockInv'
  BY <1>8 DEF GiveUp, Returned, Listed, LockInv, TypeOK, Goroutines, At, locks, stream
<1>9. ASSUME NEW p \in Procs, Grant(p) PROVE LockInv'
  BY <1>9 DEF Grant, Returned, Listed, LockInv, TypeOK, Goroutines, At, locks, stream
<1>10. ASSUME NEW p \in Procs, Unlist(p) PROVE LockInv'
  BY <1>10 DEF Unlist, LockInv, TypeOK, Goroutines, At, locks, stream
<1>11. ASSUME NEW p \in Procs, NEW initial \in BOOLEAN, EnterRefresh(p, initial) PROVE LockInv'
  BY <1>11, OutTyped DEF EnterRefresh, Out, LockInv, TypeOK, Goroutines, At, locks, stream
<1>12. ASSUME NEW p \in Procs, NEW ok \in BOOLEAN, GetEnds(p, ok) PROVE LockInv'
  BY <1>12 DEF GetEnds, Returned, Listed, LockInv, TypeOK, Goroutines, At, locks, stream
<1>13. CASE EnterGeodata
  BY <1>13, OutTyped DEF EnterGeodata, Out, LockInv, TypeOK, Goroutines, At, locks, stream
<1>14. ASSUME NEW id \in Ids, NEW answer \in {"allow", "deny"}, decideDownload(id, answer)
      PROVE  LockInv'
  BY <1>14 DEF decideDownload, InTime, LockInv, TypeOK, Goroutines, At, locks, stream
<1>15. ASSUME NEW x \in Publishers, Encode(x) PROVE LockInv'
  <2>1. ASSUME NEW p \in Procs, snap'[Self(p)] # {None}
        PROVE  proc[p].pc \in {"list", "unlisted"}
    <3>1. CASE x = Self(p)
      BY <1>15, <3>1 DEF Encode, Owes, Self, Other, Decider
    <3>2. CASE x # Self(p)
      BY <1>15, <2>1, <3>2 DEF Encode, TypeOK, LockInv, Publishers
    <3>3. QED
      BY <3>1, <3>2
  <2>2. QED
    BY <1>15, <2>1 DEF Encode, LockInv, At, locks
<1>16. ASSUME NEW x \in Publishers, Push(x) PROVE LockInv'
  <2>1. ASSUME NEW p \in Procs, x # Self(p)
        PROVE  proc'[p] = proc[p] /\ snap'[Self(p)] = snap[Self(p)]
    BY <1>16, <2>1 DEF Push, TypeOK, Publishers
  <2>2. ASSUME NEW p \in Procs, x = Self(p)
        PROVE  /\ ~At(p, "out") /\ proc'[p].pc \in {"wait", "ready"}
               /\ snap'[Self(p)] = {None}
               /\ proc'[p].role = proc[p].role /\ proc'[p].second = proc[p].second
    BY <1>16, <2>2 DEF Push, TypeOK, Goroutines, LockInv, At
  <2>3. QED
    BY <1>16, <2>1, <2>2 DEF Push, LockInv, At, locks
<1>17. CASE UNCHANGED vars
  BY <1>17 DEF vars, LockInv, TypeOK, Goroutines, At, locks, stream
<1>18. QED
  BY <1>1, <1>2, <1>3, <1>4, <1>5, <1>6, <1>7, <1>8, <1>9,
     <1>10, <1>11, <1>12, <1>13, <1>14, <1>15, <1>16, <1>17
     DEF Next, Around, Within, NeedsDirect

\* Every step keeps the way of an answer.
LEMMA ConsentStep ==
    ASSUME DownloadInv, [Next]_vars
    PROVE  ConsentInv'
<1> USE DEF DownloadInv
<1>1. ASSUME NEW p \in Procs, EnterCall(p) PROVE ConsentInv'
  BY <1>1, OutTyped DEF EnterCall, Out, ConsentInv, TypeOK, Goroutines, At, MayGoDirect, Ids
<1>2. ASSUME NEW p \in Procs, TakeOp(p) PROVE ConsentInv'
  BY <1>2 DEF TakeOp, ConsentInv, TypeOK, Goroutines, At, MayGoDirect, Ids
<1>3. ASSUME NEW p \in Procs, Leave(p) PROVE ConsentInv'
  BY <1>3, OutTyped DEF Leave, Out, ConsentInv, TypeOK, Goroutines, At, MayGoDirect, Ids
<1>4. ASSUME NEW p \in Procs, Get(p) PROVE ConsentInv'
  BY <1>4 DEF Get, ConsentInv, TypeOK, Goroutines, At, MayGoDirect, Ids
<1>5. ASSUME NEW p \in Procs, NeedsDirect(p), AskConsent(p) PROVE ConsentInv'
  BY <1>5 DEF NeedsDirect, AskConsent, ConsentInv, TypeOK, Goroutines, At, MayGoDirect, Ids
<1>6. ASSUME NEW p \in Procs, NeedsDirect(p), TooMany(p) PROVE ConsentInv'
  BY <1>6 DEF NeedsDirect, TooMany, Returned, Listed, ConsentInv, TypeOK, Goroutines, At, MayGoDirect, Ids
<1>7. ASSUME NEW p \in Procs, Expire(p) PROVE ConsentInv'
  BY <1>7 DEF Expire, ConsentInv, TypeOK, Goroutines, At, MayGoDirect, Ids
<1>8. ASSUME NEW p \in Procs, GiveUp(p) PROVE ConsentInv'
  BY <1>8 DEF GiveUp, Returned, Listed, ConsentInv, TypeOK, Goroutines, At, MayGoDirect, Ids
<1>9. ASSUME NEW p \in Procs, Grant(p) PROVE ConsentInv'
  <2>1. CASE decision[proc[p].id] = "allow" /\ ~proc[p].expired
    <3>1. /\ proc' = [proc EXCEPT ![p].pc = "get", ![p].permit = TRUE]
          /\ proc[p].id \in Ids /\ proc[p].id \in allowed
      BY <1>9, <2>1 DEF Grant, At, ConsentInv
    <3>2. QED
      BY <1>9, <3>1 DEF Grant, ConsentInv, TypeOK, Goroutines, At, MayGoDirect, Ids
  <2>2. CASE ~(decision[proc[p].id] = "allow" /\ ~proc[p].expired)
    <3>1. proc[p].id \in Ids /\ proc[p].id # 0
      BY <1>9 DEF Grant, At, ConsentInv, Ids
    <3>2. Returned(p, FALSE)
      BY <1>9, <2>2 DEF Grant
    <3>3. proc' = [proc EXCEPT ![p].pc = "unlist", ![p].ok = FALSE, ![p].permit = FALSE]
      BY <3>1, <3>2 DEF Returned, Listed
    <3>4. QED
      BY <1>9, <3>3, <3>1 DEF Grant, ConsentInv, TypeOK, Goroutines, At, MayGoDirect, Ids
  <2>3. QED
    BY <2>1, <2>2
<1>10. ASSUME NEW p \in Procs, Unlist(p) PROVE ConsentInv'
  BY <1>10 DEF Unlist, ConsentInv, TypeOK, Goroutines, At, MayGoDirect, Ids
<1>11. ASSUME NEW p \in Procs, NEW initial \in BOOLEAN, EnterRefresh(p, initial) PROVE ConsentInv'
  BY <1>11, OutTyped DEF EnterRefresh, Out, ConsentInv, TypeOK, Goroutines, At, MayGoDirect, Ids
<1>12. ASSUME NEW p \in Procs, NEW ok \in BOOLEAN, GetEnds(p, ok) PROVE ConsentInv'
  BY <1>12 DEF GetEnds, Returned, Listed, ConsentInv, TypeOK, Goroutines, At, MayGoDirect, Ids
<1>13. CASE EnterGeodata
  BY <1>13, OutTyped DEF EnterGeodata, Out, ConsentInv, TypeOK, Goroutines, At, MayGoDirect, Ids
<1>14. ASSUME NEW id \in Ids, NEW answer \in {"allow", "deny"}, decideDownload(id, answer)
      PROVE  ConsentInv'
  BY <1>14 DEF decideDownload, InTime, ConsentInv, TypeOK, Goroutines, At, MayGoDirect, Ids
<1>15. ASSUME NEW x \in Publishers, Encode(x) PROVE ConsentInv'
  BY <1>15 DEF Encode, ConsentInv, TypeOK, Goroutines, At, MayGoDirect, Ids
<1>16. ASSUME NEW x \in Publishers, Push(x) PROVE ConsentInv'
  BY <1>16 DEF Push, ConsentInv, TypeOK, Goroutines, At, MayGoDirect, Ids
<1>17. CASE UNCHANGED vars
  BY <1>17 DEF vars, ConsentInv, TypeOK, Goroutines, At, MayGoDirect, Ids
<1>18. QED
  BY <1>1, <1>2, <1>3, <1>4, <1>5, <1>6, <1>7, <1>8, <1>9,
     <1>10, <1>11, <1>12, <1>13, <1>14, <1>15, <1>16, <1>17
     DEF Next, Around, Within, NeedsDirect

\* Types, locks and consent together: the inductive invariant of getDownload,
\* decideDownload and the calls around them.
THEOREM DownloadsInvariant == Spec => []DownloadInv
<1>1. DownloadInv /\ [Next]_vars => DownloadInv'
  BY TypeStep, LockStep, ConsentStep DEF DownloadInv
<1>2. QED
  BY <1>1, InvInit, PTL DEF Spec

\* No download goes around the proxy (RoutedTransport) without the exception of
\* the first subscription or the owner's consent to it in time (getDownload).
THEOREM ConsentKept == Spec => []DirectNeedsConsent
<1>1. DownloadInv => DirectNeedsConsent
  BY DEF DownloadInv, ConsentInv, DirectNeedsConsent
<1>2. QED
  BY <1>1, DownloadsInvariant, PTL

\* No two downloads wait for the owner in the same part of a call: opMu and
\* refreshMu keep them apart, and there is one refresh loop.
THEOREM WaitersApart == Spec => []FewWait
<1>1. DownloadInv => FewWait
  BY DEF DownloadInv, LockInv, FewWait, Slot, At, Out, TypeOK, Goroutines
<1>2. QED
  BY <1>1, DownloadsInvariant, PTL

\* A step that changes neither list, nor who publishes, nor what waits where.
Apart(p) ==
    /\ proc'[p].id \in {proc[p].id, 0}
    /\ proc'[p].pc \in {"list", "wait"} => proc'[p].id = proc[p].id
    /\ \A pc \in {"list", "unlisted"} : proc'[p].pc = pc <=> proc[p].pc = pc
    /\ proc'[p].pc = "wait" => proc[p].pc = "wait"

\* Such a step keeps the invariant of the lists.
LEMMA ApartKeeps ==
    ASSUME PublishInv, UNCHANGED <<drawn, downloads, snap, pushed, owed>>,
           \A p \in Procs : Apart(p)
    PROVE  ListInv'
<1> USE DEF PublishInv, DownloadInv
<1>1. \A p \in Procs : proc'[p].id <= drawn'
  BY DEF Apart, ListInv, TypeOK
<1>2. Behind' <=> Behind
  BY DEF Behind, Apart, Pending
<1>3. QED
  BY <1>1, <1>2 DEF ListInv, Apart, Pending, At

\* The invariant of the lists holds at the start.
LEMMA ListInit == Init => ListInv
<1> SUFFICES ASSUME Init PROVE ListInv
  OBVIOUS
<1>1. \A x \in Publishers : ~Pending(x)
  BY DEF Init, Pending
<1>2. \A p \in Procs : proc[p].pc = "out" /\ proc[p].id = 0
  BY DEF Init, Out
<1>3. \A id \in Ids : ~Pending(Decider(id))
  BY <1>1 DEF Publishers
<1>4. owed = {} /\ drawn = 0 /\ pushed = downloads
  BY DEF Init
<1>5. QED
  BY <1>1, <1>2, <1>3, <1>4 DEF ListInv, At

\* Every step keeps the invariant of the lists.
LEMMA ListStep ==
    ASSUME PublishInv, [Next]_vars
    PROVE  ListInv'
<1> USE DEF PublishInv, DownloadInv
<1>1. ASSUME NEW p \in Procs, EnterCall(p) PROVE ListInv'
  <2>1. \A q \in Procs : Apart(q)
    BY <1>1 DEF EnterCall, Apart, TypeOK, Goroutines, Out, At
  <2>2. QED
    BY <1>1, <2>1, ApartKeeps DEF EnterCall, stream
<1>2. ASSUME NEW p \in Procs, TakeOp(p) PROVE ListInv'
  <2>1. \A q \in Procs : Apart(q)
    BY <1>2 DEF TakeOp, Apart, TypeOK, Goroutines
  <2>2. QED
    BY <1>2, <2>1, ApartKeeps DEF TakeOp, stream
<1>3. ASSUME NEW p \in Procs, Leave(p) PROVE ListInv'
  <2>1. \A q \in Procs : Apart(q)
    BY <1>3 DEF Leave, Apart, TypeOK, Goroutines, Out, At
  <2>2. QED
    BY <1>3, <2>1, ApartKeeps DEF Leave, stream
<1>4. ASSUME NEW p \in Procs, Get(p) PROVE ListInv'
  <2>1. \A q \in Procs : Apart(q)
    BY <1>4 DEF Get, Apart, TypeOK, Goroutines, At
  <2>2. QED
    BY <1>4, <2>1, ApartKeeps DEF Get, stream
<1>5. ASSUME NEW p \in Procs, NeedsDirect(p), AskConsent(p) PROVE ListInv'
  <2>1. /\ drawn' = drawn + 1 /\ downloads' = downloads \cup {drawn + 1}
        /\ UNCHANGED <<snap, pushed, owed>>
        /\ \A q \in Procs \ {p} : proc'[q] = proc[q]
        /\ proc'[p].pc = "list" /\ proc'[p].id = drawn + 1
    BY <1>5 DEF AskConsent, stream, TypeOK, Goroutines
  <2>2. ~Pending(Self(p))
    BY <1>5 DEF NeedsDirect, At, LockInv, Pending
  <2>3. Behind'
    BY <2>1, <2>2 DEF Behind, Pending
  <2>4. drawn \in Nat /\ \A q \in Procs : proc[q].id \in Nat
    BY DEF TypeOK, Goroutines
  <2>5. \A id \in owed : id \in Nat
    BY DEF TypeOK, Ids
  <2>6. \A q \in Procs : proc'[q].id <= drawn'
    BY <2>1, <2>4 DEF ListInv
  <2>7. \A id \in owed' : id <= drawn' /\ id \notin downloads'
    BY <2>1, <2>4, <2>5 DEF ListInv
  <2>8. \A q \in Procs \ {p} : proc'[q].id \in downloads' => proc[q].id \in downloads
    BY <2>1, <2>4 DEF ListInv
  <2>9. QED
    BY <2>1, <2>2, <2>3, <2>6, <2>7, <2>8 DEF ListInv, Pending, At
<1>6. ASSUME NEW p \in Procs, NeedsDirect(p), TooMany(p) PROVE ListInv'
  <2>1. \A q \in Procs : Apart(q)
    BY <1>6 DEF NeedsDirect, TooMany, Returned, Listed, Apart, TypeOK, Goroutines, At
  <2>2. QED
    BY <1>6, <2>1, ApartKeeps DEF TooMany, stream
<1>7. ASSUME NEW p \in Procs, Expire(p) PROVE ListInv'
  <2>1. \A q \in Procs : Apart(q)
    BY <1>7 DEF Expire, Apart, TypeOK, Goroutines
  <2>2. QED
    BY <1>7, <2>1, ApartKeeps DEF Expire, stream
<1>8. ASSUME NEW p \in Procs, GiveUp(p) PROVE ListInv'
  <2>1. \A q \in Procs : Apart(q)
    BY <1>8 DEF GiveUp, Returned, Listed, Apart, TypeOK, Goroutines, At
  <2>2. QED
    BY <1>8, <2>1, ApartKeeps DEF GiveUp, stream
<1>9. ASSUME NEW p \in Procs, Grant(p) PROVE ListInv'
  <2>1. \A q \in Procs : Apart(q)
    BY <1>9 DEF Grant, Returned, Listed, Apart, TypeOK, Goroutines, At
  <2>2. QED
    BY <1>9, <2>1, ApartKeeps DEF Grant, stream
<1>10. ASSUME NEW p \in Procs, Unlist(p) PROVE ListInv'
  <2>1. /\ downloads' \subseteq downloads
        /\ UNCHANGED <<drawn, snap, pushed, owed>>
        /\ \A q \in Procs \ {p} : proc'[q] = proc[q]
        /\ proc'[p].pc = "unlisted" /\ proc'[p].id = 0
    BY <1>10 DEF Unlist, stream, TypeOK, Goroutines
  <2>2. ~Pending(Self(p))
    BY <1>10 DEF Unlist, At, LockInv, Pending
  <2>3. Behind'
    BY <2>1, <2>2 DEF Behind, Pending
  <2>4. \A q \in Procs : proc'[q].id <= drawn'
    BY <2>1 DEF ListInv, TypeOK
  <2>5. QED
    BY <2>1, <2>2, <2>3, <2>4 DEF ListInv, Pending, At
<1>11. ASSUME NEW p \in Procs, NEW initial \in BOOLEAN, EnterRefresh(p, initial)
      PROVE  ListInv'
  <2>1. \A q \in Procs : Apart(q)
    BY <1>11 DEF EnterRefresh, Apart, TypeOK, Goroutines, Out, At
  <2>2. QED
    BY <1>11, <2>1, ApartKeeps DEF EnterRefresh, stream
<1>12. ASSUME NEW p \in Procs, NEW ok \in BOOLEAN, GetEnds(p, ok) PROVE ListInv'
  <2>1. \A q \in Procs : Apart(q)
    BY <1>12 DEF GetEnds, Returned, Listed, Apart, TypeOK, Goroutines, At
  <2>2. QED
    BY <1>12, <2>1, ApartKeeps DEF GetEnds, stream
<1>13. CASE EnterGeodata
  <2>1. \A q \in Procs : Apart(q)
    BY <1>13 DEF EnterGeodata, Apart, TypeOK, Goroutines, Out, At
  <2>2. QED
    BY <1>13, <2>1, ApartKeeps DEF EnterGeodata, stream
<1>14. ASSUME NEW id \in Ids, NEW answer \in {"allow", "deny"}, decideDownload(id, answer)
      PROVE  ListInv'
  <2>1. /\ id \in downloads /\ downloads' = downloads \ {id}
        /\ owed' = owed \cup {id} /\ UNCHANGED <<proc, drawn, snap, pushed>>
    BY <1>14 DEF decideDownload, stream
  <2>2. id <= drawn
    BY <2>1 DEF ConsentInv
  <2>3. ~Pending(Decider(id))
    BY <2>1 DEF ListInv
  <2>4. Behind'
    BY <2>1, <2>3 DEF Behind, Pending
  <2>5. QED
    BY <2>1, <2>2, <2>4 DEF ListInv, Pending, At
<1>15. ASSUME NEW x \in Publishers, Encode(x) PROVE ListInv'
  <2>1. /\ Owes(x) /\ \A y \in Publishers : ~Pending(y)
        /\ snap' = [snap EXCEPT ![x] = downloads]
        /\ UNCHANGED <<proc, drawn, downloads, pushed, owed>>
    BY <1>15 DEF Encode, Pending
  <2>2. snap'[x] = downloads /\ \A y \in Publishers : y # x => ~Pending(y)'
    BY <2>1 DEF Pending, TypeOK
  <2>3. \A i \in Ids : x = Decider(i) => i \in owed
    BY <2>1 DEF Owes, Decider, Self, Other, Ids
  <2>4. \A i \in Ids : Pending(Decider(i))' => i \in owed'
    BY <2>1, <2>2, <2>3 DEF Publishers
  <2>5. \A p \in Procs : At(p, "list")' /\ Pending(Self(p))' /\ proc'[p].id \in downloads'
                           => proc'[p].id \in snap'[Self(p)]
    BY <2>1, <2>2 DEF Publishers
  <2>6. \A p \in Procs : At(p, "wait")' /\ proc'[p].id \in downloads'
            => /\ proc'[p].id \in pushed'
               /\ \A y \in Publishers : Pending(y)' => proc'[p].id \in snap'[y]
    BY <2>1, <2>2 DEF ListInv, At
  <2>7. \/ Behind'
        \/ /\ \A y \in Publishers : Pending(y)' => snap'[y] = downloads'
           /\ (\A y \in Publishers : ~Pending(y)') => pushed' = downloads'
    <3>1. CASE Pending(x)'
      BY <2>1, <2>2, <3>1
    <3>2. CASE ~Pending(x)'
      <4>1. snap' = snap
        BY <2>1, <2>2, <3>2 DEF Pending, TypeOK
      <4>2. Behind' <=> Behind
        BY <2>1, <4>1 DEF Behind, Pending
      <4>3. QED
        BY <2>1, <4>1, <4>2 DEF ListInv, Pending
    <3>3. QED
      BY <3>1, <3>2
  <2>8. QED
    BY <2>1, <2>2, <2>4, <2>5, <2>6, <2>7 DEF ListInv
<1>16. ASSUME NEW x \in Publishers, Push(x) PROVE ListInv'
  <2>1. /\ Pending(x) /\ pushed' = snap[x]
        /\ owed' = {id \in owed : x # Decider(id)}
        /\ UNCHANGED <<drawn, downloads>>
    BY <1>16 DEF Push, Pending
  <2>2. \A y \in Publishers : ~Pending(y)'
    BY <1>16, <2>1 DEF Push, Pending, ListInv, TypeOK
  <2>3. \A p \in Procs :
           /\ proc'[p].id = proc[p].id
           /\ x # Self(p) => proc'[p].pc = proc[p].pc
           /\ x = Self(p) => /\ proc'[p].pc \in {"wait", "ready"}
                             /\ proc'[p].pc = "wait" => proc[p].pc = "list"
    BY <1>16 DEF Push, TypeOK, Goroutines, At
  <2>4. \A p \in Procs : At(p, "wait")' /\ proc'[p].id \in downloads'
                          => proc'[p].id \in pushed'
    <3> SUFFICES ASSUME NEW p \in Procs, At(p, "wait")', proc'[p].id \in downloads'
                 PROVE  proc'[p].id \in pushed'
      OBVIOUS
    <3>1. CASE x = Self(p)
      BY <2>1, <2>3, <3>1 DEF ListInv, At
    <3>2. CASE x # Self(p)
      BY <2>1, <2>3, <3>2 DEF ListInv, At
    <3>3. QED
      BY <3>1, <3>2
  <2>5. \A i \in Ids : ~Pending(Decider(i))'
    BY <2>2 DEF Publishers
  <2>6. \A p \in Procs : ~Pending(Self(p))'
    BY <2>2 DEF Publishers
  <2>7. Behind => Behind'
    <3>1. ASSUME NEW p \in Procs, proc[p].pc \in {"list", "unlisted"}, ~Pending(Self(p))
          PROVE  Behind'
      <4>1. x # Self(p)
        BY <2>1, <3>1
      <4>2. proc'[p].pc \in {"list", "unlisted"}
        BY <2>3, <3>1, <4>1
      <4>3. QED
        BY <2>6, <4>2 DEF Behind
    <3>2. ASSUME NEW i \in owed, ~Pending(Decider(i))
          PROVE  Behind'
      <4>1. i \in owed' /\ i \in Ids
        BY <2>1, <3>2 DEF TypeOK
      <4>2. QED
        BY <2>5, <4>1 DEF Behind
    <3>3. QED
      BY <3>1, <3>2 DEF Behind
  <2>8. Behind' \/ pushed' = downloads'
    BY <2>1, <2>7 DEF ListInv
  <2>9. \A i \in owed' : i <= drawn' /\ i \notin downloads'
    BY <2>1 DEF ListInv
  <2>10. \A p \in Procs : proc'[p].id <= drawn'
    BY <2>1, <2>3 DEF ListInv
  <2>11. QED
    BY <2>2, <2>4, <2>5, <2>6, <2>8, <2>9, <2>10 DEF ListInv
<1>17. CASE UNCHANGED vars
  BY <1>17, ApartKeeps DEF vars, stream, Apart
<1>18. QED
  BY <1>1, <1>2, <1>3, <1>4, <1>5, <1>6, <1>7, <1>8, <1>9,
     <1>10, <1>11, <1>12, <1>13, <1>14, <1>15, <1>16, <1>17
     DEF Next, Around, Within, NeedsDirect

\* The list the owner's clients have (publishDownloads) shows every download that
\* waits for an answer, and is the daemon's list once the pushes that are owed
\* went out: pubMu orders what is encoded and what is pushed alike.
THEOREM ListKept == Spec => []ListTells
<1>1. PublishInv /\ [Next]_vars => PublishInv'
  BY TypeStep, LockStep, ConsentStep, ListStep DEF PublishInv, DownloadInv
<1>2. Init => PublishInv
  BY InvInit, ListInit DEF PublishInv
<1>3. PublishInv => ListTells
  <2> SUFFICES ASSUME PublishInv PROVE ListTells
    OBVIOUS
  <2>1. WaitingShown
    BY DEF PublishInv, ListInv, WaitingShown
  <2>2. ListSettles
    BY DEF PublishInv, ListInv, ListSettles, Behind, Pending
  <2>3. QED
    BY <2>1, <2>2 DEF ListTells
<1>4. QED
  BY <1>1, <1>2, <1>3, PTL DEF Spec

=============================================================================
