---------------------------- MODULE StreamsProofs ----------------------------
(***************************************************************************)
(* The panel's mirror of the daemon, proved of module Streams for any      *)
(* number of sessions and calls and for every length of the queue.         *)
(***************************************************************************)
EXTENDS Streams, SequenceTheorems, TLAPS

USE NoneAssumption, BoundAssumption, NullAssumption

(***************************************************************************)
(* Lines as queues.                                                        *)
(***************************************************************************)
\* A line with a message put at its end.
LEMMA AppendFacts ==
    ASSUME NEW l \in Seq(Messages), NEW m \in Messages
    PROVE  /\ Append(l, m) \in Seq(Messages)
           /\ Len(l) \in Nat /\ Len(Append(l, m)) = Len(l) + 1
           /\ DOMAIN l = 1..Len(l) /\ DOMAIN Append(l, m) = 1..(Len(l) + 1)
           /\ \A i \in 1..Len(l) : Append(l, m)[i] = l[i]
           /\ Append(l, m)[Len(l) + 1] = m
BY AppendProperties, LenProperties

\* A line without the message read first.
LEMMA TailFacts ==
    ASSUME NEW l \in Seq(Messages), l # <<>>
    PROVE  /\ Head(l) \in Messages /\ Head(l) = l[1] /\ Tail(l) \in Seq(Messages)
           /\ Len(l) \in Nat \ {0} /\ Len(Tail(l)) = Len(l) - 1
           /\ DOMAIN l = 1..Len(l) /\ DOMAIN Tail(l) = 1..(Len(l) - 1)
           /\ \A i \in 1..(Len(l) - 1) : Tail(l)[i] = l[i + 1]
<1>1. /\ Head(l) \in Messages /\ Tail(l) \in Seq(Messages) /\ Len(Tail(l)) = Len(l) - 1
      /\ \A i \in 1..Len(Tail(l)) : Tail(l)[i] = l[i + 1]
  BY HeadTailProperties
<1>2. Len(l) \in Nat /\ Len(l) # 0 /\ DOMAIN l = 1..Len(l) /\ DOMAIN Tail(l) = 1..Len(Tail(l))
  BY <1>1, LenProperties, EmptySeq
<1>3. Head(l) = l[1]
  BY LenProperties, EmptySeq
<1>4. QED
  BY <1>1, <1>2, <1>3

\* What is put at the end does not change what the panel knows before it.
LEMMA StatusBefore ==
    ASSUME NEW l \in Seq(Messages), NEW m \in Messages, NEW w, NEW v,
           NEW k \in 0..Len(l), StatusAt(w, l, k, v)
    PROVE  StatusAt(w, Append(l, m), k, v)
<1> DEFINE a == Append(l, m)
<1>1. Len(l) \in Nat /\ \A i \in 1..Len(l) : a[i] = l[i]
  BY AppendFacts
<1>2. ASSUME NEW j \in 0..k, IsStatus(a, j), \A i \in (j+1)..k : ~IsStatus(a, i)
      PROVE  StatusOf(w, a, j) = v
  <2>1. \A i \in 0..k : (IsStatus(a, i) <=> IsStatus(l, i)) /\ StatusOf(w, a, i) = StatusOf(w, l, i)
    BY <1>1 DEF IsStatus, StatusOf
  <2>2. QED
    BY <1>2, <2>1, <1>1 DEF StatusAt
<1>3. QED
  BY <1>2 DEF StatusAt

\* A message of another stream leaves the status that arrives.
LEMMA StatusKept ==
    ASSUME NEW l \in Seq(Messages), NEW m \in Messages, NEW w, NEW v,
           StatusAt(w, l, Len(l), v), m.stream # "status"
    PROVE  StatusAt(w, Append(l, m), Len(Append(l, m)), v)
<1> DEFINE a == Append(l, m)
<1>1. /\ Len(l) \in Nat /\ Len(a) = Len(l) + 1 /\ a[Len(l) + 1] = m
      /\ \A i \in 1..Len(l) : a[i] = l[i]
  BY AppendFacts
<1>2. StatusAt(w, a, Len(l), v)
  BY <1>1, StatusBefore
<1>3. ~IsStatus(a, Len(l) + 1)
  BY <1>1 DEF IsStatus
<1>4. ASSUME NEW j \in 0..Len(a), IsStatus(a, j), \A i \in (j+1)..Len(a) : ~IsStatus(a, i)
      PROVE  StatusOf(w, a, j) = v
  <2>1. j \in 0..Len(l) /\ \A i \in (j+1)..Len(l) : i \in (j+1)..Len(a)
    BY <1>1, <1>3, <1>4
  <2>2. QED
    BY <2>1, <1>2, <1>4 DEF StatusAt
<1>5. QED
  BY <1>4 DEF StatusAt

\* A status at the end is the one that arrives.
LEMMA StatusSent ==
    ASSUME NEW l \in Seq(Messages), NEW m \in Messages, NEW w, m.stream = "status"
    PROVE  StatusAt(w, Append(l, m), Len(Append(l, m)), m.data)
<1> DEFINE a == Append(l, m)
<1>1. Len(l) \in Nat /\ Len(a) = Len(l) + 1 /\ a[Len(l) + 1] = m
  BY AppendFacts
<1>2. IsStatus(a, Len(l) + 1) /\ StatusOf(w, a, Len(l) + 1) = m.data
  BY <1>1 DEF IsStatus, StatusOf
<1>3. ASSUME NEW j \in 0..Len(a), \A i \in (j+1)..Len(a) : ~IsStatus(a, i)
      PROVE  j = Len(a)
  BY <1>1, <1>2, <1>3
<1>4. QED
  BY <1>1, <1>2, <1>3 DEF StatusAt

\* Groups that arrive stay, unless the status that follows is another.
LEMMA GroupsKept ==
    ASSUME NEW l \in Seq(Messages), NEW m \in Messages, NEW w, NEW g, NEW v,
           GroupsArrive(w, l, g, v), m.stream # "groups",
           m.stream = "status" => m.data = v
    PROVE  GroupsArrive(w, Append(l, m), g, v)
<1> DEFINE a == Append(l, m)
<1>1. /\ Len(l) \in Nat /\ Len(a) = Len(l) + 1 /\ a[Len(l) + 1] = m
      /\ \A i \in 1..Len(l) : a[i] = l[i]
  BY AppendFacts
<1>2. SUFFICES ASSUME NEW k \in 0..Len(a), IsGroups(a, k),
                      \A i \in (k+1)..Len(a) : ~IsGroups(a, i)
               PROVE  /\ GroupsOf(w, a, k) = g
                      /\ k = 0 => w.loaded = (v.started # 0)
                      /\ StatusAt(w, a, k, v)
                      /\ \A i \in (k+1)..Len(a) : IsStatus(a, i) => a[i].data = v
  BY DEF GroupsArrive
<1>3. k \in 0..Len(l)
  BY <1>1, <1>2 DEF IsGroups
<1>4. /\ \A i \in 1..Len(l) : (IsGroups(a, i) <=> IsGroups(l, i)) /\ (IsStatus(a, i) <=> IsStatus(l, i))
      /\ GroupsOf(w, a, k) = GroupsOf(w, l, k) /\ IsGroups(l, k)
  BY <1>1, <1>2, <1>3 DEF IsGroups, IsStatus, GroupsOf
<1>5. \A i \in (k+1)..Len(l) : ~IsGroups(l, i)
  BY <1>1, <1>2, <1>3, <1>4
<1>6. /\ GroupsOf(w, l, k) = g /\ (k = 0 => w.loaded = (v.started # 0))
      /\ StatusAt(w, l, k, v)
      /\ \A i \in (k+1)..Len(l) : IsStatus(l, i) => l[i].data = v
  BY <1>3, <1>4, <1>5 DEF GroupsArrive
<1>7. StatusAt(w, a, k, v)
  BY <1>3, <1>6, StatusBefore
<1>8. ASSUME NEW i \in (k+1)..Len(a), IsStatus(a, i) PROVE a[i].data = v
  <2>1. CASE i = Len(l) + 1
    BY <2>1, <1>1, <1>8 DEF IsStatus
  <2>2. CASE i \in 1..Len(l)
    BY <2>2, <1>1, <1>3, <1>4, <1>6, <1>8
  <2>3. QED
    BY <2>1, <2>2, <1>1, <1>3
<1>9. QED
  BY <1>4, <1>6, <1>7, <1>8

\* Groups sent after the status are the ones that arrive.
LEMMA GroupsSent ==
    ASSUME NEW l \in Seq(Messages), NEW m \in Messages, NEW w, NEW v,
           StatusAt(w, l, Len(l), v), m.stream = "groups"
    PROVE  GroupsArrive(w, Append(l, m), m.data, v)
<1> DEFINE a == Append(l, m)
<1>1. Len(l) \in Nat /\ Len(a) = Len(l) + 1 /\ a[Len(l) + 1] = m
  BY AppendFacts
<1>2. StatusAt(w, a, Len(a), v)
  BY StatusKept
<1>3. SUFFICES ASSUME NEW k \in 0..Len(a), \A i \in (k+1)..Len(a) : ~IsGroups(a, i)
               PROVE  /\ GroupsOf(w, a, k) = m.data
                      /\ k = 0 => w.loaded = (v.started # 0)
                      /\ StatusAt(w, a, k, v)
                      /\ \A i \in (k+1)..Len(a) : IsStatus(a, i) => a[i].data = v
  BY DEF GroupsArrive
<1>4. k = Len(a)
  BY <1>1, <1>3 DEF IsGroups
<1>5. GroupsOf(w, a, k) = m.data /\ k # 0
  BY <1>1, <1>4 DEF GroupsOf
<1>6. QED
  BY <1>1, <1>2, <1>4, <1>5

\* The panel after it read a message, as far as the status goes.
LEMMA StatusRead ==
    ASSUME NEW l \in Seq(Messages), l # <<>>, NEW w, NEW u, NEW v, NEW k \in 1..Len(l),
           StatusAt(w, l, k, v),
           u.status = IF Head(l).stream = "status" THEN Head(l).data ELSE w.status
    PROVE  StatusAt(u, Tail(l), k - 1, v)
<1> DEFINE t == Tail(l)
<1>1. /\ Len(l) \in Nat \ {0} /\ Head(l) = l[1] /\ Len(t) = Len(l) - 1
      /\ \A i \in 1..(Len(l) - 1) : t[i] = l[i + 1]
  BY TailFacts
<1>2. k \in Nat \ {0} /\ k =< Len(l)
  BY <1>1
<1>3. ASSUME NEW j \in 0..(k-1), IsStatus(t, j), \A i \in (j+1)..(k-1) : ~IsStatus(t, i)
      PROVE  StatusOf(u, t, j) = v
  <2>1. \A i \in 1..(k-1) : (IsStatus(t, i) <=> IsStatus(l, i + 1))
                            /\ StatusOf(u, t, i) = StatusOf(w, l, i + 1)
    BY <1>1, <1>2 DEF IsStatus, StatusOf
  <2>2. ASSUME NEW i \in (j+2)..k PROVE ~IsStatus(l, i)
    <3>1. i - 1 \in (j+1)..(k-1) /\ i - 1 \in 1..(k-1) /\ (i - 1) + 1 = i
      BY <1>2
    <3>2. QED
      BY <3>1, <2>1, <1>3
  <2>3. CASE j # 0
    <3>1. IsStatus(l, j + 1) /\ j + 1 \in 0..k /\ StatusOf(u, t, j) = StatusOf(w, l, j + 1)
          /\ (j + 1) + 1 = j + 2
      BY <2>1, <2>3, <1>2, <1>3
    <3>2. QED
      BY <3>1, <2>2 DEF StatusAt
  <2>4. CASE j = 0 /\ l[1].stream = "status"
    <3>1. IsStatus(l, 1) /\ StatusOf(w, l, 1) = l[1].data /\ StatusOf(u, t, 0) = l[1].data
      BY <2>4, <1>1 DEF IsStatus, StatusOf
    <3>2. 1 \in 0..k /\ \A i \in (1+1)..k : ~IsStatus(l, i)
      BY <2>2, <2>4, <1>2
    <3>3. QED
      BY <3>1, <3>2, <2>4 DEF StatusAt
  <2>5. CASE j = 0 /\ l[1].stream # "status"
    <3>1. IsStatus(l, 0) /\ ~IsStatus(l, 1) /\ StatusOf(w, l, 0) = w.status
          /\ StatusOf(u, t, 0) = w.status
      BY <2>5, <1>1 DEF IsStatus, StatusOf
    <3>2. 0 \in 0..k /\ \A i \in (0+1)..k : ~IsStatus(l, i)
      BY <2>2, <2>5, <3>1, <1>2
    <3>3. QED
      BY <3>1, <3>2, <2>5 DEF StatusAt
  <2>6. QED
    BY <2>3, <2>4, <2>5
<1>4. QED
  BY <1>3 DEF StatusAt

\* And as far as the groups go: an open panel that reads on comes to the same.
LEMMA GroupsRead ==
    ASSUME NEW l \in Seq(Messages), l # <<>>, NEW w, NEW u, NEW g, NEW v,
           GroupsArrive(w, l, g, v),
           u.status = IF Head(l).stream = "status" THEN Head(l).data ELSE w.status,
           Head(l).stream = "groups" =>
               u.groups = Head(l).data /\ u.loaded = (w.status.started # 0),
           Head(l).stream # "groups" /\ u.status = w.status =>
               u.groups = w.groups /\ u.loaded = w.loaded
    PROVE  GroupsArrive(u, Tail(l), g, v)
<1> DEFINE t == Tail(l)
           n == Len(l)
<1>1. /\ n \in Nat \ {0} /\ Head(l) = l[1] /\ Len(t) = n - 1
      /\ \A i \in 1..(n - 1) : t[i] = l[i + 1]
  BY TailFacts
<1>2. SUFFICES ASSUME NEW k \in 0..(n - 1), IsGroups(t, k),
                      \A i \in (k+1)..(n - 1) : ~IsGroups(t, i)
               PROVE  /\ GroupsOf(u, t, k) = g
                      /\ k = 0 => u.loaded = (v.started # 0)
                      /\ StatusAt(u, t, k, v)
                      /\ \A i \in (k+1)..(n - 1) : IsStatus(t, i) => t[i].data = v
  BY <1>1 DEF GroupsArrive
<1>3. \A i \in 1..(n-1) : /\ IsGroups(t, i) <=> IsGroups(l, i + 1)
                          /\ IsStatus(t, i) <=> IsStatus(l, i + 1)
  BY <1>1 DEF IsGroups, IsStatus
<1>4. ASSUME NEW i \in (k+2)..n PROVE ~IsGroups(l, i)
  <2>1. i - 1 \in (k+1)..(n-1) /\ i - 1 \in 1..(n-1) /\ (i - 1) + 1 = i
    BY <1>1
  <2>2. QED
    BY <2>1, <1>2, <1>3
\* The place of the last groups before the read.
<1>5. ASSUME NEW o \in {k, k + 1}, IsGroups(l, o), \A i \in (o+1)..n : ~IsGroups(l, i)
      PROVE  /\ GroupsOf(w, l, o) = g /\ (o = 0 => w.loaded = (v.started # 0))
             /\ StatusAt(w, l, o, v)
             /\ \A i \in (o+1)..n : IsStatus(l, i) => l[i].data = v
  BY <1>1, <1>5 DEF GroupsArrive
<1>6. CASE k # 0 \/ l[1].stream = "groups"
  <2>1. IsGroups(l, k + 1) /\ GroupsOf(u, t, k) = GroupsOf(w, l, k + 1)
    <3>1. CASE k # 0
      BY <3>1, <1>1, <1>2, <1>3 DEF GroupsOf
    <3>2. CASE k = 0 /\ l[1].stream = "groups"
      BY <3>2, <1>1 DEF GroupsOf, IsGroups
    <3>3. QED
      BY <3>1, <3>2, <1>6
  <2>2. (k + 1) + 1 = k + 2
    BY <1>1
  <2>3. /\ GroupsOf(w, l, k + 1) = g /\ StatusAt(w, l, k + 1, v)
        /\ \A i \in (k+2)..n : IsStatus(l, i) => l[i].data = v
    BY <2>1, <2>2, <1>4, <1>5
  <2>4. StatusAt(u, t, k, v)
    <3>1. k + 1 \in 1..n /\ (k + 1) - 1 = k
      BY <1>1
    <3>2. QED
      BY <3>1, <2>3, StatusRead
  <2>5. ASSUME NEW i \in (k+1)..(n-1), IsStatus(t, i) PROVE t[i].data = v
    <3>1. i \in 1..(n-1) /\ i + 1 \in (k+2)..n
      BY <1>1
    <3>2. QED
      BY <3>1, <2>3, <2>5, <1>1, <1>3
  <2>6. ASSUME k = 0 PROVE u.loaded = (v.started # 0)
    <3>1. l[1].stream = "groups"
      BY <2>6, <1>6
    <3>2. IsStatus(l, 0) /\ ~IsStatus(l, 1) /\ StatusOf(w, l, 0) = w.status
      BY <3>1 DEF IsStatus, StatusOf
    <3>3. 0 \in 0..1 /\ \A i \in (0+1)..1 : ~IsStatus(l, i)
      BY <3>2
    <3>4. StatusAt(w, l, 1, v)
      BY <2>3, <2>6
    <3>5. w.status = v
      BY <3>2, <3>3, <3>4 DEF StatusAt
    <3>6. QED
      BY <3>1, <3>5, <1>1
  <2>7. QED
    BY <2>1, <2>3, <2>4, <2>5, <2>6
<1>7. CASE k = 0 /\ l[1].stream # "groups"
  <2>1. IsGroups(l, 0) /\ \A i \in (0+1)..n : ~IsGroups(l, i)
    BY <1>1, <1>4, <1>7 DEF IsGroups
  <2>2. /\ GroupsOf(w, l, 0) = g /\ w.loaded = (v.started # 0)
        /\ StatusAt(w, l, 0, v)
        /\ \A i \in 1..n : IsStatus(l, i) => l[i].data = v
    BY <2>1, <1>5, <1>7
  <2>3. w.groups = g /\ w.status = v
    BY <2>2 DEF GroupsOf, StatusAt, IsStatus, StatusOf
  <2>4. u.status = v
    BY <2>2, <2>3, <1>1 DEF IsStatus
  <2>5. u.groups = g /\ u.loaded = (v.started # 0)
    BY <2>2, <2>3, <2>4, <1>1, <1>7
  <2>6. GroupsOf(u, t, 0) = g /\ StatusAt(u, t, 0, v)
    BY <2>4, <2>5 DEF GroupsOf, StatusAt, IsStatus, StatusOf
  <2>7. ASSUME NEW i \in 1..(n-1), IsStatus(t, i) PROVE t[i].data = v
    <3>1. i + 1 \in 1..n
      BY <1>1
    <3>2. QED
      BY <3>1, <2>2, <2>7, <1>1, <1>3
  <2>8. QED
    BY <2>5, <2>6, <2>7, <1>7
<1>8. QED
  BY <1>6, <1>7

\* A message that is no reply changes no replies.
LEMMA RepliesKept ==
    ASSUME NEW l \in Seq(Messages), NEW m \in Messages, m.stream # "reply"
    PROVE  /\ NoReply(l) => NoReply(Append(l, m))
           /\ \A id : OneReply(l, id) => OneReply(Append(l, m), id)
<1> DEFINE a == Append(l, m)
<1>1. /\ Len(l) \in Nat /\ DOMAIN l = 1..Len(l) /\ DOMAIN a = 1..(Len(l) + 1)
      /\ \A i \in 1..Len(l) : a[i] = l[i]
      /\ a[Len(l) + 1] = m
  BY AppendFacts
<1> HIDE DEF a
<1>2. NoReply(l) => NoReply(a)
  BY <1>1 DEF NoReply
<1>3. ASSUME NEW id, OneReply(l, id) PROVE OneReply(a, id)
  <2>1. PICK k \in DOMAIN l : /\ l[k] = [stream |-> "reply", data |-> id]
                              /\ \A i \in DOMAIN l : i # k => l[i].stream # "reply"
    BY <1>3 DEF OneReply
  <2>2. k \in DOMAIN a /\ a[k] = [stream |-> "reply", data |-> id]
    BY <1>1, <2>1
  <2>3. \A i \in DOMAIN a : i # k => a[i].stream # "reply"
    BY <1>1, <2>1
  <2>4. QED
    BY <2>2, <2>3 DEF OneReply
<1>4. QED
  BY <1>2, <1>3 DEF a

\* The one reply of a call, sent on a line without one.
LEMMA ReplySent ==
    ASSUME NEW l \in Seq(Messages), NEW id \in 0..MaxCalls, NoReply(l)
    PROVE  OneReply(Append(l, [stream |-> "reply", data |-> id]), id)
<1> DEFINE m == [stream |-> "reply", data |-> id]
           a == Append(l, m)
<1>1. m \in Messages
  BY DEF Messages
<1>2. /\ Len(l) \in Nat /\ DOMAIN l = 1..Len(l) /\ DOMAIN a = 1..(Len(l) + 1)
      /\ \A i \in 1..Len(l) : a[i] = l[i]
      /\ a[Len(l) + 1] = m
  BY <1>1, AppendFacts
<1> HIDE DEF a
<1>3. Len(l) + 1 \in DOMAIN a /\ \A i \in DOMAIN a : i # Len(l) + 1 => a[i].stream # "reply"
  BY <1>2 DEF NoReply
<1>4. OneReply(a, id)
  BY <1>2, <1>3 DEF OneReply
<1>5. QED
  BY <1>4 DEF a

\* Reading takes the reply off, or leaves it.
LEMMA RepliesRead ==
    ASSUME NEW l \in Seq(Messages), l # <<>>
    PROVE  /\ NoReply(l) => Head(l).stream # "reply" /\ NoReply(Tail(l))
           /\ \A id : OneReply(l, id) =>
                 /\ Head(l).stream # "reply" => OneReply(Tail(l), id)
                 /\ Head(l).stream = "reply" => Head(l).data = id /\ NoReply(Tail(l))
<1> DEFINE t == Tail(l)
           n == Len(l)
<1>1. /\ n \in Nat \ {0} /\ Head(l) = l[1]
      /\ DOMAIN l = 1..n /\ DOMAIN t = 1..(n - 1)
      /\ \A i \in 1..(n - 1) : t[i] = l[i + 1]
  BY TailFacts
<1> HIDE DEF t, n
<1>2. NoReply(l) => l[1].stream # "reply" /\ NoReply(t)
  BY <1>1 DEF NoReply
<1>3. ASSUME NEW id, OneReply(l, id)
      PROVE  /\ l[1].stream # "reply" => OneReply(t, id)
             /\ l[1].stream = "reply" => l[1].data = id /\ NoReply(t)
  <2>1. PICK k \in DOMAIN l : /\ l[k] = [stream |-> "reply", data |-> id]
                              /\ \A i \in DOMAIN l : i # k => l[i].stream # "reply"
    BY <1>3 DEF OneReply
  <2>2. CASE k = 1
    <3>1. l[1].stream = "reply" /\ l[1].data = id
      BY <2>1, <2>2
    <3>2. NoReply(t)
      BY <1>1, <2>1, <2>2 DEF NoReply
    <3>3. QED
      BY <3>1, <3>2
  <2>3. CASE k # 1
    <3>1. l[1].stream # "reply" /\ k - 1 \in DOMAIN t /\ t[k - 1] = l[k]
      BY <1>1, <2>1, <2>3
    <3>2. ASSUME NEW i \in DOMAIN t, i # k - 1 PROVE t[i].stream # "reply"
      <4>1. i + 1 \in DOMAIN l /\ i + 1 # k /\ t[i] = l[i + 1]
        BY <1>1, <3>2
      <4>2. QED
        BY <4>1, <2>1
    <3>3. OneReply(t, id)
      BY <3>1, <3>2, <2>1 DEF OneReply
    <3>4. QED
      BY <3>1, <3>3
  <2>4. QED
    BY <2>2, <2>3
<1>4. QED
  BY <1>1, <1>2, <1>3 DEF t

(***************************************************************************)
(* Types.                                                                  *)
(***************************************************************************)
\* Messages are what the daemon sends.
LEMMA MessageTyped ==
    /\ \A v \in Statuses : [stream |-> "status", data |-> v] \in Messages
    /\ \A g \in Groups : [stream |-> "groups", data |-> g] \in Messages
    /\ \A r \in 1..MaxOps : [stream |-> "connections", data |-> r] \in Messages
    /\ \A i \in 0..MaxCalls : [stream |-> "reply", data |-> i] \in Messages
BY DEF Messages

\* What a send makes of each session: one that is open after it got the message
\* if it was meant for it.
LEMMA Sends ==
    ASSUME TypeOK, NEW to, NEW m \in Messages, sendLine(sess, to, m)
    PROVE  /\ sess' \in [Sessions -> Conns] /\ line' \in [Sessions -> Seq(Messages)]
           /\ \A s \in Sessions :
                 /\ Len(line'[s]) <= Queue
                 /\ sess'[s].calls = sess[s].calls /\ sess'[s].streams = sess[s].streams
                 /\ sess'[s].at = "free" <=> sess[s].at = "free"
                 /\ sess[s].at = "free" => sess'[s] = sess[s] /\ line'[s] = line[s]
                 /\ sess'[s].at = "open" =>
                       /\ sess'[s] = sess[s]
                       /\ line'[s] = IF s \in to THEN Append(line[s], m) ELSE line[s]
<1>1. sess \in [Sessions -> Conns] /\ line \in [Sessions -> Seq(Messages)]
      /\ \A s \in Sessions : Len(line[s]) <= Queue
  BY DEF TypeOK
<1>2. /\ line' = [s \in Sessions |->
                   IF s \in to /\ sess[s].at = "open" /\ Len(line[s]) < Queue
                   THEN Append(line[s], m) ELSE line[s]]
      /\ sess' = [s \in Sessions |->
                   IF s \in to /\ sess[s].at = "open" /\ Len(line[s]) >= Queue
                   THEN [sess[s] EXCEPT !.at = "closed"] ELSE sess[s]]
  BY DEF sendLine
<1>3. ASSUME NEW s \in Sessions
      PROVE  /\ sess'[s] \in Conns /\ line'[s] \in Seq(Messages) /\ Len(line'[s]) <= Queue
             /\ sess'[s].calls = sess[s].calls /\ sess'[s].streams = sess[s].streams
             /\ sess'[s].at = "free" <=> sess[s].at = "free"
             /\ sess[s].at = "free" => sess'[s] = sess[s] /\ line'[s] = line[s]
             /\ sess'[s].at = "open" =>
                   /\ sess'[s] = sess[s]
                   /\ line'[s] = IF s \in to THEN Append(line[s], m) ELSE line[s]
  <2>1. PICK l \in Seq(Messages) : l = line[s]
    BY <1>1
  <2>2. PICK c \in Conns : c = sess[s]
    BY <1>1
  <2>3. /\ Append(l, m) \in Seq(Messages) /\ Len(Append(l, m)) = Len(l) + 1
        /\ Len(l) \in Nat /\ Len(l) <= Queue
    BY <1>1, <2>1, AppendFacts
  <2>4. /\ line'[s] = IF s \in to /\ c.at = "open" /\ Len(l) < Queue
                      THEN Append(l, m) ELSE l
        /\ sess'[s] = IF s \in to /\ c.at = "open" /\ Len(l) >= Queue
                      THEN [c EXCEPT !.at = "closed"] ELSE c
    BY <1>2, <2>1, <2>2
  <2>5. /\ [c EXCEPT !.at = "closed"] \in Conns
        /\ [c EXCEPT !.at = "closed"].at = "closed"
        /\ [c EXCEPT !.at = "closed"].calls = c.calls
        /\ [c EXCEPT !.at = "closed"].streams = c.streams
    BY DEF Conns
  <2>6. PICK d \in Conns : d = [c EXCEPT !.at = "closed"]
    BY <2>5
  <2>7. PICK a \in Seq(Messages) : a = Append(l, m)
    BY <2>3
  <2>8. /\ line'[s] = IF s \in to /\ c.at = "open" /\ Len(l) < Queue THEN a ELSE l
        /\ sess'[s] = IF s \in to /\ c.at = "open" /\ Len(l) >= Queue THEN d ELSE c
        /\ d.at = "closed" /\ d.calls = c.calls /\ d.streams = c.streams
        /\ Len(a) = Len(l) + 1
    BY <2>3, <2>4, <2>5, <2>6, <2>7
  <2>9. QED
    BY <2>1, <2>2, <2>3, <2>7, <2>8
<1>4. QED
  BY <1>2, <1>3

\* What a publish makes of what was pushed, and of each session.
LEMMA Publishes ==
    ASSUME TypeOK, NEW stream \in {"status", "groups"}, NEW also \in Sessions \cup {None},
           publishLocked(stream, also)
    PROVE  /\ sess' \in [Sessions -> Conns] /\ line' \in [Sessions -> Seq(Messages)]
           /\ lastPushed' \in [status : Statuses \cup {None}, groups : Groups \cup {None}]
           /\ lastStatus' \in Statuses
           /\ stream = "status" =>
                 /\ lastPushed'.status = status /\ lastStatus' = status
                 /\ lastPushed'.groups = IF status # lastStatus THEN None ELSE lastPushed.groups
           /\ stream = "groups" =>
                 /\ lastPushed'.groups = groups
                 /\ lastPushed'.status = lastPushed.status /\ lastStatus' = lastStatus
           /\ \A s \in Sessions :
                 /\ Len(line'[s]) <= Queue
                 /\ sess'[s].calls = sess[s].calls /\ sess'[s].streams = sess[s].streams
                 /\ sess'[s].at = "free" <=> sess[s].at = "free"
                 /\ sess[s].at = "free" => sess'[s] = sess[s] /\ line'[s] = line[s]
                 /\ sess'[s].at = "open" =>
                       /\ sess'[s] = sess[s]
                       /\ line'[s] =
                            IF \/ s = also
                               \/ /\ stream \in sess[s].streams
                                  /\ stream = "status" => lastPushed.status # status
                                  /\ stream = "groups" => lastPushed.groups # groups
                            THEN Append(line[s], [stream |-> stream,
                                    data |-> IF stream = "status" THEN status ELSE groups])
                            ELSE line[s]
<1> DEFINE data == snapshot(stream)
           known == IF stream = "status" /\ NewRuntime(status, lastStatus)
                    THEN [lastPushed EXCEPT !.groups = None] ELSE lastPushed
           to == (IF known[stream] # data THEN Subscribers(stream) ELSE {}) \cup ({also} \ {None})
           m == [stream |-> stream, data |-> data]
<1>1. /\ lastPushed' = [known EXCEPT ![stream] = data]
      /\ lastStatus' = IF stream = "status" THEN data ELSE lastStatus
      /\ sendLine(sess, to, m)
  BY DEF publishLocked
<1>2. /\ status \in Statuses /\ groups \in Groups /\ lastStatus \in Statuses
      /\ lastPushed \in [status : Statuses \cup {None}, groups : Groups \cup {None}]
  BY DEF TypeOK
<1>3. data = (IF stream = "status" THEN status ELSE groups) /\ m \in Messages
  BY <1>2, MessageTyped DEF snapshot
<1>4. NewRuntime(status, lastStatus) <=> status # lastStatus
  BY <1>2 DEF NewRuntime, Statuses
<1>5. /\ known \in [status : Statuses \cup {None}, groups : Groups \cup {None}]
      /\ known.status = lastPushed.status
      /\ stream = "status" => known.groups = IF status # lastStatus THEN None ELSE lastPushed.groups
      /\ stream = "groups" => known.groups = lastPushed.groups
  BY <1>2, <1>4
<1> HIDE DEF data, known, m
<1>6. /\ lastPushed' \in [status : Statuses \cup {None}, groups : Groups \cup {None}]
      /\ lastStatus' \in Statuses
      /\ stream = "status" =>
           /\ lastPushed'.status = status /\ lastStatus' = status
           /\ lastPushed'.groups = IF status # lastStatus THEN None ELSE lastPushed.groups
      /\ stream = "groups" =>
           /\ lastPushed'.groups = groups
           /\ lastPushed'.status = lastPushed.status /\ lastStatus' = lastStatus
  <2>1. CASE stream = "status"
    BY <2>1, <1>1, <1>2, <1>3, <1>5
  <2>2. CASE stream = "groups"
    BY <2>2, <1>1, <1>2, <1>3, <1>5
  <2>3. QED
    BY <2>1, <2>2
<1>7. ASSUME NEW s \in Sessions, sess[s].at = "open"
      PROVE  s \in to <=> \/ s = also
                          \/ /\ stream \in sess[s].streams
                             /\ stream = "status" => lastPushed.status # status
                             /\ stream = "groups" => lastPushed.groups # groups
  <2>1. known[stream] # data <=> /\ stream = "status" => lastPushed.status # status
                                 /\ stream = "groups" => lastPushed.groups # groups
    <3>1. CASE stream = "status"
      BY <3>1, <1>3, <1>5
    <3>2. CASE stream = "groups"
      BY <3>2, <1>3, <1>5
    <3>3. QED
      BY <3>1, <3>2
  <2>2. s \in Subscribers(stream) <=> stream \in sess[s].streams
    BY <1>7 DEF Subscribers
  <2>3. QED
    BY <2>1, <2>2, NoneAssumption
<1> HIDE DEF to
<1>8. /\ sess' \in [Sessions -> Conns] /\ line' \in [Sessions -> Seq(Messages)]
      /\ \A s \in Sessions :
           /\ Len(line'[s]) <= Queue
           /\ sess'[s].calls = sess[s].calls /\ sess'[s].streams = sess[s].streams
           /\ sess'[s].at = "free" <=> sess[s].at = "free"
           /\ sess[s].at = "free" => sess'[s] = sess[s] /\ line'[s] = line[s]
           /\ sess'[s].at = "open" =>
                 /\ sess'[s] = sess[s]
                 /\ line'[s] = IF s \in to THEN Append(line[s], m) ELSE line[s]
  BY <1>1, <1>3, Sends
<1>9. ASSUME NEW s \in Sessions, sess'[s].at = "open"
      PROVE  line'[s] =
                IF \/ s = also
                   \/ /\ stream \in sess[s].streams
                      /\ stream = "status" => lastPushed.status # status
                      /\ stream = "groups" => lastPushed.groups # groups
                THEN Append(line[s], [stream |-> stream,
                        data |-> IF stream = "status" THEN status ELSE groups])
                ELSE line[s]
  <2>1. sess[s].at = "open" /\ line'[s] = IF s \in to THEN Append(line[s], m) ELSE line[s]
    BY <1>8, <1>9
  <2>2. m = [stream |-> stream, data |-> IF stream = "status" THEN status ELSE groups]
    BY <1>3 DEF m
  <2>3. QED
    BY <2>1, <2>2, <1>7
<1>10. QED
  BY <1>6, <1>8, <1>9

\* What a call of the panel's makes of the panel and of its session.
Called(s, ss, w, on, streams, again) ==
    /\ NextId \in 1..MaxCalls
    /\ widget' \in Panels
    /\ widget'.sess = w.sess /\ widget'.open = w.open /\ widget'.status = w.status
    /\ widget'.groups = w.groups /\ widget'.loaded = w.loaded
    /\ widget'.pending = w.pending \cup {NextId}
    /\ widget'.again = IF again THEN NextId ELSE w.again
    /\ sess' \in [Sessions -> Conns]
    /\ \A t \in Sessions : /\ sess'[t].at = ss[t].at /\ sess'[t].streams = ss[t].streams
                           /\ t # s => sess'[t] = ss[t]
    /\ ss[s].at = "open" => sess'[s].calls =
          ss[s].calls \cup {[id |-> NextId, on |-> on, streams |-> streams]}

\* A call does just that, from any sessions and panel of their types.
LEMMA Calls ==
    ASSUME TypeOK, FreeIds # {}, NEW s \in Sessions, NEW ss \in [Sessions -> Conns],
           NEW w \in Panels, NEW on \in BOOLEAN, NEW streams \in SUBSET AllStreams,
           NEW again \in BOOLEAN, call(s, ss, w, on, streams, again)
    PROVE  Called(s, ss, w, on, streams, again)
<1>1. NextId \in FreeIds
  BY DEF NextId
<1>2. NextId \in 1..MaxCalls
  BY <1>1 DEF FreeIds
<1>3. PICK id \in 1..MaxCalls : id = NextId
  BY <1>2
<1>4. /\ widget' = [w EXCEPT !.pending = @ \cup {id}, !.again = IF again THEN id ELSE @]
      /\ sess' = IF ss[s].at = "open"
                 THEN [ss EXCEPT ![s].calls = @ \cup {[id |-> id, on |-> on, streams |-> streams]}]
                 ELSE ss
  BY <1>3 DEF call
<1>5. PICK c \in StreamCalls : c = [id |-> id, on |-> on, streams |-> streams]
  BY DEF StreamCalls
<1>6. /\ widget' \in Panels
      /\ widget'.sess = w.sess /\ widget'.open = w.open /\ widget'.status = w.status
      /\ widget'.groups = w.groups /\ widget'.loaded = w.loaded
      /\ widget'.pending = w.pending \cup {id}
      /\ widget'.again = IF again THEN id ELSE w.again
  <2>1. PICK P \in SUBSET (1..MaxCalls) : P = w.pending \cup {id}
    BY DEF Panels
  <2>2. PICK A \in 0..MaxCalls : A = IF again THEN id ELSE w.again
    BY DEF Panels
  <2>3. widget' = [w EXCEPT !.pending = P, !.again = A]
    BY <1>4, <2>1, <2>2
  <2>4. QED
    BY <2>1, <2>2, <2>3 DEF Panels
<1>7. CASE ss[s].at = "open"
  <2>1. sess' = [ss EXCEPT ![s].calls = @ \cup {c}]
    BY <1>4, <1>5, <1>7
  <2>2. PICK o \in Conns : o = [ss[s] EXCEPT !.calls = @ \cup {c}]
    BY DEF Conns
  <2>3. sess' = [ss EXCEPT ![s] = o] /\ o.at = ss[s].at /\ o.streams = ss[s].streams
        /\ o.calls = ss[s].calls \cup {c}
    BY <2>1, <2>2 DEF Conns
  <2>4. sess' \in [Sessions -> Conns] /\ sess'[s] = o /\ \A t \in Sessions : t # s => sess'[t] = ss[t]
    BY <2>3
  <2>5. QED
    BY <1>3, <1>5, <1>6, <1>7, <2>3, <2>4 DEF Called
<1>8. CASE ss[s].at # "open"
  BY <1>3, <1>4, <1>6, <1>8 DEF Called
<1>9. QED
  BY <1>7, <1>8

\* What the panel's actions that call make of it: connecting,
LEMMA ConnectCalls ==
    ASSUME TypeOK, NEW s \in Sessions, Connect(s)
    PROVE  /\ NextId \in 1..MaxCalls /\ widget' \in Panels /\ sess' \in [Sessions -> Conns]
           /\ widget'.sess = s /\ widget'.open = widget.open
           /\ widget'.pending = widget.pending \cup {NextId} /\ widget'.again = widget.again
           /\ sess'[s].at = "open" /\ sess'[s].streams = sess[s].streams
           /\ sess'[s].calls = sess[s].calls \cup
                 {[id |-> NextId, on |-> TRUE, streams |-> wantedStreams]}
           /\ \A t \in Sessions : t # s => sess'[t] = sess[t]
<1>t. sess \in [Sessions -> Conns] /\ widget \in Panels
  BY DEF TypeOK
<1>1. PICK ss \in [Sessions -> Conns] : ss = [sess EXCEPT ![s].at = "open"]
  BY <1>t DEF Conns
<1>2. PICK w \in Panels : w = [widget EXCEPT !.sess = s]
  BY <1>t DEF Panels
<1>3. FreeIds # {} /\ call(s, ss, w, TRUE, wantedStreams, FALSE)
  BY <1>1, <1>2 DEF Connect
<1>4. wantedStreams \in SUBSET AllStreams
  BY DEF wantedStreams, AllStreams
<1>5. Called(s, ss, w, TRUE, wantedStreams, FALSE)
  BY <1>3, <1>4, Calls, Zenon
<1>6. /\ ss[s].at = "open" /\ ss[s].streams = sess[s].streams /\ ss[s].calls = sess[s].calls
      /\ \A t \in Sessions : t # s => ss[t] = sess[t]
  BY <1>t, <1>1 DEF Conns
<1>7. /\ w.sess = s /\ w.open = widget.open /\ w.pending = widget.pending
      /\ w.again = widget.again
  BY <1>t, <1>2 DEF Panels
<1>8. /\ NextId \in 1..MaxCalls /\ widget' \in Panels /\ sess' \in [Sessions -> Conns]
      /\ widget'.sess = w.sess /\ widget'.open = w.open
      /\ widget'.pending = w.pending \cup {NextId} /\ widget'.again = w.again
      /\ sess'[s].at = ss[s].at /\ sess'[s].streams = ss[s].streams
      /\ \A t \in Sessions : t # s => sess'[t] = ss[t]
  BY <1>5 DEF Called
<1>9. sess'[s].calls = ss[s].calls \cup {[id |-> NextId, on |-> TRUE, streams |-> wantedStreams]}
  BY <1>5, <1>6, Zenon DEF Called
<1>10. QED
  BY <1>6, <1>7, <1>8, <1>9

\* reading a reply, which lets a refresh go on,
LEMMA ReadReplyCalls ==
    ASSUME TypeOK, ReadReply, NEW s \in Sessions, s = widget.sess, NEW id, id = Head(line[s]).data
    PROVE  /\ widget' \in Panels /\ sess' \in [Sessions -> Conns]
           /\ widget'.sess = s /\ widget'.open = widget.open /\ widget'.status = widget.status
           /\ widget'.groups = widget.groups /\ widget'.loaded = widget.loaded
           /\ sess'[s].at = sess[s].at /\ sess'[s].streams = sess[s].streams
           /\ \A t \in Sessions : t # s => sess'[t] = sess[t]
           /\ widget.again = id =>
                 /\ NextId \in 1..MaxCalls
                 /\ widget'.pending = (widget.pending \ {id}) \cup {NextId} /\ widget'.again = 0
                 /\ sess[s].at = "open" => sess'[s].calls = sess[s].calls \cup
                       {[id |-> NextId, on |-> TRUE, streams |-> wantedStreams]}
           /\ widget.again # id =>
                 /\ widget'.pending = widget.pending \ {id} /\ widget'.again = widget.again
                 /\ sess' = sess
<1>t. sess \in [Sessions -> Conns] /\ widget \in Panels
  BY DEF TypeOK
<1>1. PICK P \in SUBSET (1..MaxCalls) : P = widget.pending \ {id}
  BY <1>t DEF Panels
<1>2. PICK A \in 0..MaxCalls : A = IF widget.again = id THEN 0 ELSE widget.again
  BY <1>t DEF Panels
<1>3. PICK w \in Panels : w = [widget EXCEPT !.pending = P, !.again = A]
  BY <1>t DEF Panels
<1>4. /\ w.sess = widget.sess /\ w.open = widget.open /\ w.status = widget.status
      /\ w.groups = widget.groups /\ w.loaded = widget.loaded
      /\ w.pending = P /\ w.again = A
  BY <1>t, <1>3 DEF Panels
<1>5. w = [widget EXCEPT !.pending = @ \ {id}, !.again = IF @ = id THEN 0 ELSE @]
  BY <1>1, <1>2, <1>3
<1>6. IF widget.again = id
      THEN FreeIds # {} /\ call(s, sess, w, TRUE, wantedStreams, FALSE)
      ELSE widget' = w /\ sess' = sess
  BY <1>5 DEF ReadReply
<1>7. CASE widget.again # id
  BY <1>1, <1>2, <1>4, <1>6, <1>7, <1>t
<1>8. CASE widget.again = id
  <2>1. FreeIds # {} /\ call(s, sess, w, TRUE, wantedStreams, FALSE)
    BY <1>6, <1>8
  <2>2. wantedStreams \in SUBSET AllStreams
    BY DEF wantedStreams, AllStreams
  <2>3. Called(s, sess, w, TRUE, wantedStreams, FALSE)
    BY <1>t, <2>1, <2>2, Calls, Zenon
  <2>4. /\ NextId \in 1..MaxCalls /\ widget' \in Panels /\ sess' \in [Sessions -> Conns]
        /\ widget'.sess = w.sess /\ widget'.open = w.open /\ widget'.status = w.status
        /\ widget'.groups = w.groups /\ widget'.loaded = w.loaded
        /\ widget'.pending = w.pending \cup {NextId} /\ widget'.again = w.again
        /\ sess'[s].at = sess[s].at /\ sess'[s].streams = sess[s].streams
        /\ \A t \in Sessions : t # s => sess'[t] = sess[t]
    BY <2>3 DEF Called
  <2>5. sess[s].at = "open" => sess'[s].calls =
           sess[s].calls \cup {[id |-> NextId, on |-> TRUE, streams |-> wantedStreams]}
    BY <2>3, Zenon DEF Called
  <2>6. QED
    BY <1>1, <1>2, <1>4, <1>8, <2>4, <2>5
<1>9. QED
  BY <1>7, <1>8

\* opening and closing while it is connected,
LEMMA ToggleCalls ==
    ASSUME TypeOK, TogglePanel, NEW s \in Sessions, s = widget.sess, Ready
    PROVE  /\ NextId \in 1..MaxCalls /\ widget' \in Panels /\ sess' \in [Sessions -> Conns]
           /\ widget'.sess = s /\ widget'.open = ~widget.open /\ widget'.status = widget.status
           /\ widget'.groups = widget.groups /\ widget'.loaded = widget.loaded
           /\ widget'.pending = widget.pending \cup {NextId} /\ widget'.again = widget.again
           /\ sess'[s].at = sess[s].at /\ sess'[s].streams = sess[s].streams
           /\ \A t \in Sessions : t # s => sess'[t] = sess[t]
           /\ sess[s].at = "open" => sess'[s].calls = sess[s].calls \cup
                 {[id |-> NextId, on |-> ~widget.open, streams |-> PanelStreams]}
<1>t. sess \in [Sessions -> Conns] /\ widget \in Panels
  BY DEF TypeOK
<1>1. PICK o : o = ~widget.open
  OBVIOUS
<1>2. o \in BOOLEAN
  BY <1>1
<1>3. PICK w \in Panels : w = [widget EXCEPT !.open = ~@]
  BY <1>t DEF Panels
<1>4. /\ w.sess = widget.sess /\ w.open = o /\ w.status = widget.status
      /\ w.groups = widget.groups /\ w.loaded = widget.loaded
      /\ w.pending = widget.pending /\ w.again = widget.again
  BY <1>t, <1>1, <1>3 DEF Panels
<1>5. FreeIds # {} /\ call(s, sess, w, w.open, PanelStreams, FALSE)
  BY <1>3 DEF TogglePanel
<1>6. call(s, sess, w, o, PanelStreams, FALSE)
  BY <1>4, <1>5, Zenon
<1>7. PanelStreams \in SUBSET AllStreams
  BY DEF AllStreams
<1>8. Called(s, sess, w, o, PanelStreams, FALSE)
  BY <1>t, <1>2, <1>5, <1>6, <1>7, Calls, Zenon
<1>9. /\ NextId \in 1..MaxCalls /\ widget' \in Panels /\ sess' \in [Sessions -> Conns]
      /\ widget'.sess = w.sess /\ widget'.open = w.open /\ widget'.status = w.status
      /\ widget'.groups = w.groups /\ widget'.loaded = w.loaded
      /\ widget'.pending = w.pending \cup {NextId} /\ widget'.again = w.again
      /\ sess'[s].at = sess[s].at /\ sess'[s].streams = sess[s].streams
      /\ \A t \in Sessions : t # s => sess'[t] = sess[t]
  BY <1>8 DEF Called
<1>10. sess[s].at = "open" => sess'[s].calls =
          sess[s].calls \cup {[id |-> NextId, on |-> o, streams |-> PanelStreams]}
  BY <1>8, Zenon DEF Called
<1>11. sess[s].at = "open" => sess'[s].calls =
          sess[s].calls \cup {[id |-> NextId, on |-> ~widget.open, streams |-> PanelStreams]}
  BY <1>1, <1>10, Zenon
<1>12. QED
  BY <1>1, <1>4, <1>9, <1>11

\* and a refresh.
LEMMA RefreshCalls ==
    ASSUME TypeOK, refresh, NEW s \in Sessions, s = widget.sess
    PROVE  /\ NextId \in 1..MaxCalls /\ widget' \in Panels /\ sess' \in [Sessions -> Conns]
           /\ widget'.sess = s /\ widget'.open = widget.open /\ widget'.status = widget.status
           /\ widget'.groups = widget.groups /\ widget'.loaded = widget.loaded
           /\ widget'.pending = widget.pending \cup {NextId} /\ widget'.again = NextId
           /\ sess'[s].at = sess[s].at /\ sess'[s].streams = sess[s].streams
           /\ \A t \in Sessions : t # s => sess'[t] = sess[t]
           /\ sess[s].at = "open" => sess'[s].calls = sess[s].calls \cup
                 {[id |-> NextId, on |-> FALSE, streams |-> AllStreams]}
<1>1. FreeIds # {} /\ call(s, sess, widget, FALSE, AllStreams, TRUE)
      /\ sess \in [Sessions -> Conns] /\ widget \in Panels
  BY DEF refresh, TypeOK
<1>2. AllStreams \in SUBSET AllStreams
  OBVIOUS
<1>3. Called(s, sess, widget, FALSE, AllStreams, TRUE)
  BY <1>1, <1>2, Calls, Zenon
<1>4. /\ NextId \in 1..MaxCalls /\ widget' \in Panels /\ sess' \in [Sessions -> Conns]
      /\ widget'.sess = widget.sess /\ widget'.open = widget.open
      /\ widget'.status = widget.status
      /\ widget'.groups = widget.groups /\ widget'.loaded = widget.loaded
      /\ widget'.pending = widget.pending \cup {NextId} /\ widget'.again = NextId
      /\ sess'[s].at = sess[s].at /\ sess'[s].streams = sess[s].streams
      /\ \A t \in Sessions : t # s => sess'[t] = sess[t]
  BY <1>3 DEF Called
<1>5. sess[s].at = "open" => sess'[s].calls =
         sess[s].calls \cup {[id |-> NextId, on |-> FALSE, streams |-> AllStreams]}
  BY <1>3, Zenon DEF Called
<1>6. QED
  BY <1>4, <1>5

\* A panel that reads a message.
LEMMA Applies ==
    ASSUME TypeOK, NEW m \in Messages, m.stream # "reply"
    PROVE  /\ applyEvent(widget, m) \in Panels
           /\ applyEvent(widget, m).sess = widget.sess
           /\ applyEvent(widget, m).open = widget.open
           /\ applyEvent(widget, m).pending = widget.pending
           /\ applyEvent(widget, m).again = widget.again
           /\ applyEvent(widget, m).status = IF m.stream = "status" THEN m.data ELSE widget.status
           /\ m.stream = "groups" /\ widget.open =>
                 /\ applyEvent(widget, m).groups = m.data
                 /\ applyEvent(widget, m).loaded = (widget.status.started # 0)
           /\ m.stream # "groups" /\ applyEvent(widget, m).status = widget.status =>
                 /\ applyEvent(widget, m).groups = widget.groups
                 /\ applyEvent(widget, m).loaded = widget.loaded
<1>1. widget \in Panels /\ NoGroups \in Groups
  BY DEF TypeOK, Groups
<1>2. /\ m.stream \in {"status", "groups", "connections"}
      /\ m.stream = "status" => m.data \in Statuses
      /\ m.stream = "groups" => m.data \in Groups
      /\ m.stream = "connections" => m.data \in 1..MaxOps
  BY DEF Messages
<1>3. "status" \in wantedStreams /\ (widget.open => "groups" \in wantedStreams)
  BY DEF wantedStreams, AllStreams, PanelStreams
<1>4. CASE m.stream \notin wantedStreams
  <2>1. applyEvent(widget, m) = widget
    BY <1>4 DEF applyEvent
  <2>2. QED
    BY <2>1, <1>1, <1>3, <1>4
<1>5. CASE m.stream \in wantedStreams /\ m.stream = "status"
  <2>1. applyEvent(widget, m) = applyStatus(widget, m.data)
    BY <1>5 DEF applyEvent
  <2>2. NewRuntime(m.data, widget.status) <=> m.data # widget.status
    BY <1>1, <1>2, <1>5 DEF NewRuntime, Statuses, Panels
  <2>3. PICK n \in Panels : n = [widget EXCEPT !.status = m.data]
    BY <1>1, <1>2, <1>5 DEF Panels
  <2>4. /\ n.sess = widget.sess /\ n.open = widget.open /\ n.pending = widget.pending
        /\ n.again = widget.again /\ n.status = m.data
        /\ n.groups = widget.groups /\ n.loaded = widget.loaded
    BY <2>3, <1>1 DEF Panels
  <2>5. PICK f \in Panels : f = forgetRuntime(n)
    BY <1>1 DEF Panels, forgetRuntime
  <2>6. /\ f.sess = n.sess /\ f.open = n.open /\ f.pending = n.pending
        /\ f.again = n.again /\ f.status = n.status
    BY <2>5 DEF forgetRuntime, Panels
  <2>7. applyStatus(widget, m.data) = IF m.data # widget.status THEN f ELSE n
    BY <2>2, <2>3, <2>5 DEF applyStatus
  <2>8. QED
    BY <2>1, <2>4, <2>6, <2>7, <1>5
<1>6. CASE m.stream \in wantedStreams /\ m.stream = "groups"
  <2>1. applyEvent(widget, m) =
           [widget EXCEPT !.groups = m.data, !.loaded = (widget.status.started # 0)]
    BY <1>6 DEF applyEvent
  <2>2. QED
    BY <2>1, <1>1, <1>2, <1>6 DEF Panels
<1>7. CASE m.stream \in wantedStreams /\ m.stream = "connections"
  <2>1. applyEvent(widget, m) = [widget EXCEPT !.conns = @ \cup {m.data}]
    BY <1>7 DEF applyEvent
  <2>2. QED
    BY <2>1, <1>1, <1>2, <1>7 DEF Panels
<1>8. QED
  BY <1>2, <1>4, <1>5, <1>6, <1>7

\* What a subscriber has still to be sent, stream by stream.
LEMMA TodoFacts ==
    /\ \A S : InOrder(S) = IF "status" \in S
                           THEN IF "groups" \in S THEN <<"status", "groups">> ELSE <<"status">>
                           ELSE IF "groups" \in S THEN <<"groups">> ELSE <<>>
    /\ Head(<<"status">>) = "status" /\ Tail(<<"status">>) = <<>>
    /\ Head(<<"groups">>) = "groups" /\ Tail(<<"groups">>) = <<>>
    /\ Head(<<"status", "groups">>) = "status" /\ Tail(<<"status", "groups">>) = <<"groups">>
<1> DEFINE N == {"status", "groups"}
<1>1. <<>> \in Seq(N) /\ <<"status">> \in Seq(N) /\ <<"groups">> \in Seq(N)
      /\ <<"status", "groups">> \in Seq(N)
  BY EmptySeq
<1>2. /\ <<>> \o <<>> = <<>> /\ <<"status">> \o <<>> = <<"status">>
      /\ <<>> \o <<"groups">> = <<"groups">>
  BY <1>1, ConcatEmptySeq
<1>3. <<"status">> \o <<"groups">> = <<"status", "groups">>
  <2>1. PICK c \in Seq(N) : c = <<"status">> \o <<"groups">>
    BY <1>1, ConcatProperties
  <2>2. Len(<<"status">>) = 1 /\ Len(<<"groups">>) = 1 /\ Len(<<"status", "groups">>) = 2
    OBVIOUS
  <2>3. Len(c) = 2 /\ c[1] = "status" /\ c[2] = "groups"
    BY <1>1, <2>1, <2>2, ConcatProperties
  <2>4. c = <<"status", "groups">>
    BY <1>1, <2>2, <2>3, SeqEqual
  <2>5. QED
    BY <2>1, <2>4
<1>4. /\ Head(<<"status">>) = "status" /\ Head(<<"groups">>) = "groups"
      /\ Head(<<"status", "groups">>) = "status"
  OBVIOUS
<1>5. Tail(<<"status">>) = <<>> /\ Tail(<<"groups">>) = <<>>
  OBVIOUS
<1>6. Tail(<<"status", "groups">>) = <<"groups">>
  OBVIOUS
<1>7. ASSUME NEW S
      PROVE  InOrder(S) = IF "status" \in S
                          THEN IF "groups" \in S THEN <<"status", "groups">> ELSE <<"status">>
                          ELSE IF "groups" \in S THEN <<"groups">> ELSE <<>>
  BY <1>2, <1>3, Zenon DEF InOrder
<1>8. QED
  BY <1>4, <1>5, <1>6, <1>7

\* Every step keeps the types.
LEMMA TypeStep == TypeOK /\ [Next]_vars => TypeOK'
<1> SUFFICES ASSUME TypeOK, [Next]_vars PROVE TypeOK'
  OBVIOUS
<1> DEFINE Locks == [todo : Todos, sess : Sessions \cup {None}, call : 0..MaxCalls]
           Pushes == [status : Statuses \cup {None}, groups : Groups \cup {None}]
<1>0. /\ NoOp \in Ops /\ Unlocked \in Locks /\ NothingPushed \in Pushes
      /\ NoStatus \in Statuses /\ NoSession \in Conns /\ NoGroups \in Groups
      /\ <<>> \in Seq(Messages) /\ Len(<<>>) <= Queue
      /\ <<>> \in Todos /\ <<"groups">> \in Todos
  BY EmptySeq DEF NoOp, Ops, Unlocked, Todos, NothingPushed, NoStatus, Statuses, Subs, NoSession,
     Conns, Groups
<1>t. /\ status \in Statuses /\ status.sub # 0 /\ groups \in Groups /\ ops \in 0..MaxOps
      /\ op \in Ops /\ tick \in {NoTick} \cup [at : {"read"}, run : 1..MaxOps]
      /\ pubMu \in Locks /\ lastPushed \in Pushes /\ lastStatus \in Statuses
      /\ sess \in [Sessions -> Conns] /\ line \in [Sessions -> Seq(Messages)]
      /\ \A s \in Sessions : Len(line[s]) <= Queue
      /\ widget \in Panels /\ moved \in BOOLEAN
  BY DEF TypeOK
<1>w. disconnected(widget) \in Panels
  <2>1. None \in Sessions \cup {None} /\ {} \in SUBSET (1..MaxCalls) /\ 0 \in 0..MaxCalls
    OBVIOUS
  <2>2. QED
    BY <1>t, <2>1 DEF disconnected, Panels
<1>1. ASSUME NEW kind \in {"start", "stop", "use"}, OpCore(kind) PROVE TypeOK'
  <2>1. op' \in Ops
    BY <1>1 DEF OpCore, Ops
  <2>2. groups' \in Groups
    BY <1>1 DEF OpCore, Groups
  <2>3. ops' \in 0..MaxOps
    BY <1>1, <1>t DEF OpCore
  <2>4. QED
    BY <1>1, <1>t, <2>1, <2>2, <2>3 DEF OpCore, TypeOK, pushed
<1>2. ASSUME OpMemory PROVE TypeOK'
  <2>1. op.kind \in {"start", "stop", "use"} /\ op' \in Ops
    BY <1>2, <1>t DEF OpMemory, Ops, NoOp
  <2>2. status' \in Statuses /\ status'.sub # 0
    BY <1>2, <1>t, <2>1 DEF OpMemory, Statuses, Subs
  <2>3. QED
    BY <1>2, <1>t, <2>1, <2>2 DEF OpMemory, TypeOK, pushed
<1>3. ASSUME OpPublish PROVE TypeOK'
  <2>1. publishLocked("status", None)
    BY <1>3 DEF OpPublish
  <2>2. /\ sess' \in [Sessions -> Conns] /\ line' \in [Sessions -> Seq(Messages)]
        /\ lastPushed' \in Pushes /\ lastStatus' \in Statuses
        /\ \A s \in Sessions : Len(line'[s]) <= Queue
    BY <2>1, Publishes
  <2>3. op' \in Ops /\ pubMu' \in Locks /\ moved' \in BOOLEAN
    BY <1>3, <1>t, <1>0 DEF OpPublish, Ops, NoOp, Seen
  <2>4. QED
    BY <1>3, <1>t, <2>2, <2>3 DEF OpPublish, TypeOK, core
<1>4. ASSUME OpPublishes PROVE TypeOK'
  <2>1. publishLocked("groups", None)
    BY <1>4 DEF OpPublishes
  <2>2. /\ sess' \in [Sessions -> Conns] /\ line' \in [Sessions -> Seq(Messages)]
        /\ lastPushed' \in Pushes /\ lastStatus' \in Statuses
        /\ \A s \in Sessions : Len(line'[s]) <= Queue
    BY <2>1, Publishes
  <2>3. op' \in Ops /\ pubMu' \in Locks /\ moved' \in BOOLEAN
    BY <1>4, <1>t, <1>0 DEF OpPublishes, Seen
  <2>4. QED
    BY <1>4, <1>t, <2>2, <2>3 DEF OpPublishes, TypeOK, core
<1>5. ASSUME CoreMoves PROVE TypeOK'
  BY <1>5, <1>t DEF CoreMoves, TypeOK, pushed, Groups
<1>6. ASSUME TickGroups PROVE TypeOK'
  <2>1. publishLocked("groups", None)
    BY <1>6 DEF TickGroups
  <2>2. /\ sess' \in [Sessions -> Conns] /\ line' \in [Sessions -> Seq(Messages)]
        /\ lastPushed' \in Pushes /\ lastStatus' \in Statuses
        /\ \A s \in Sessions : Len(line'[s]) <= Queue
    BY <2>1, Publishes
  <2>3. moved' \in BOOLEAN
    BY <1>6, <1>t DEF TickGroups, Seen
  <2>4. QED
    BY <1>6, <1>t, <2>2, <2>3 DEF TickGroups, TypeOK, core
<1>7. ASSUME TickRead PROVE TypeOK'
  <2>1. tick' \in [at : {"read"}, run : 1..MaxOps]
    BY <1>7, <1>t DEF TickRead, Statuses
  <2>2. QED
    BY <1>7, <1>t, <2>1 DEF TickRead, TypeOK, core, pushed
<1>8. ASSUME broadcast PROVE TypeOK'
  <2>1. tick.run \in 1..MaxOps
    BY <1>8, <1>t DEF broadcast, NoTick
  <2>2. [stream |-> "connections", data |-> tick.run] \in Messages
    BY <2>1, MessageTyped
  <2>3. sendLine(sess, Subscribers("connections"), [stream |-> "connections", data |-> tick.run])
    BY <1>8 DEF broadcast
  <2>4. /\ sess' \in [Sessions -> Conns] /\ line' \in [Sessions -> Seq(Messages)]
        /\ \A s \in Sessions : Len(line'[s]) <= Queue
    BY <2>2, <2>3, Sends
  <2>5. QED
    BY <1>8, <1>t, <2>4 DEF broadcast, TypeOK, core, pushed
<1>9. ASSUME NEW s \in Sessions, NEW c \in sess[s].calls, subscribe(s, c) PROVE TypeOK'
  <2>1. c \in StreamCalls
    BY <1>t DEF Conns
  <2>2. InOrder(c.streams \ sess[s].streams) \in Todos
    BY TodoFacts DEF Todos
  <2>3. pubMu' \in Locks
    BY <1>9, <1>0, <2>1, <2>2 DEF subscribe, StreamCalls
  <2>4. PICK o \in Conns : o = [sess[s] EXCEPT !.calls = @ \ {c},
                                  !.streams = IF c.on THEN @ \cup c.streams ELSE @ \ c.streams]
    <3>1. PICK cs \in SUBSET StreamCalls : cs = sess[s].calls \ {c}
      BY <1>t DEF Conns
    <3>2. PICK ns \in SUBSET AllStreams :
             ns = IF c.on THEN sess[s].streams \cup c.streams ELSE sess[s].streams \ c.streams
      BY <1>t, <2>1 DEF Conns, StreamCalls
    <3>3. [sess[s] EXCEPT !.calls = cs, !.streams = ns] \in Conns
      <4>1. PICK x \in Conns : x = sess[s]
        BY <1>t
      <4>2. [x EXCEPT !.calls = cs, !.streams = ns] \in Conns
        BY DEF Conns
      <4>3. QED
        BY <4>1, <4>2
    <3>4. QED
      BY <3>1, <3>2, <3>3
  <2>5. sess' = [sess EXCEPT ![s] = o]
    BY <1>9, <2>4 DEF subscribe
  <2>6. sess' \in [Sessions -> Conns]
    BY <1>t, <2>5
  <2>7. QED
    BY <1>9, <1>t, <2>3, <2>6 DEF subscribe, TypeOK, core, pushed
<1>10. ASSUME NEW s \in Sessions, SessionEnds(s) PROVE TypeOK'
  <2>1. sess' \in [Sessions -> Conns] /\ line' \in [Sessions -> Seq(Messages)]
    BY <1>10, <1>t, <1>0 DEF SessionEnds
  <2>2. \A t \in Sessions : Len(line'[t]) <= Queue
    BY <1>10, <1>t, <1>0 DEF SessionEnds
  <2>3. QED
    BY <1>10, <1>t, <2>1, <2>2 DEF SessionEnds, TypeOK, core, pushed
<1>11. ASSUME NEW s \in Sessions, Connect(s) PROVE TypeOK'
  BY <1>11, <1>t, ConnectCalls DEF Connect, TypeOK, core, pushed
<1>12. ASSUME SubscribePublishes PROVE TypeOK'
  <2>1. Head(pubMu.todo) \in {"status", "groups"} /\ Tail(pubMu.todo) \in Todos
        /\ pubMu.sess \in Sessions
    BY <1>12, <1>t, TodoFacts DEF SubscribePublishes, Todos
  <2>2. PICK x \in {"status", "groups"} : x = Head(pubMu.todo)
    BY <2>1
  <2>3. publishLocked(x, pubMu.sess)
    BY <1>12, <2>2 DEF SubscribePublishes
  <2>4. /\ sess' \in [Sessions -> Conns] /\ line' \in [Sessions -> Seq(Messages)]
        /\ lastPushed' \in Pushes /\ lastStatus' \in Statuses
        /\ \A s \in Sessions : Len(line'[s]) <= Queue
    BY <2>1, <2>3, Publishes
  <2>5. pubMu' \in Locks
    BY <1>12, <1>t, <2>1 DEF SubscribePublishes
  <2>6. moved' \in BOOLEAN
    BY <1>12, <1>t DEF SubscribePublishes, Seen
  <2>7. QED
    BY <1>12, <1>t, <2>4, <2>5, <2>6 DEF SubscribePublishes, TypeOK, core
<1>13. ASSUME Reply PROVE TypeOK'
  <2>1. [stream |-> "reply", data |-> pubMu.call] \in Messages
    BY <1>t, MessageTyped
  <2>2. sendLine(sess, {pubMu.sess}, [stream |-> "reply", data |-> pubMu.call])
    BY <1>13 DEF Reply
  <2>3. /\ sess' \in [Sessions -> Conns] /\ line' \in [Sessions -> Seq(Messages)]
        /\ \A s \in Sessions : Len(line'[s]) <= Queue
    BY <2>1, <2>2, Sends
  <2>4. QED
    BY <1>13, <1>t, <1>0, <2>3 DEF Reply, TypeOK, core, pushed
<1>14. ASSUME Disconnect PROVE TypeOK'
  <2>1. widget.sess \in Sessions
    BY <1>14, <1>t DEF Disconnect, Ready, Panels
  <2>2. sess' \in [Sessions -> Conns]
    BY <1>14, <1>t, <2>1 DEF Disconnect, Conns
  <2>3. widget' \in Panels
    BY <1>14, <1>t, <1>w DEF Disconnect
  <2>4. QED
    BY <1>14, <1>t, <2>2, <2>3 DEF Disconnect, TypeOK, core, pushed
<1>15. ASSUME forgetAll PROVE TypeOK'
  <2>1. PICK w \in Panels : w = [widget EXCEPT !.status = NoStatus]
    BY <1>t, <1>0 DEF Panels
  <2>2. widget' = [w EXCEPT !.groups = NoGroups, !.loaded = FALSE, !.conns = {}]
    BY <1>15, <2>1 DEF forgetAll, forgetRuntime
  <2>3. widget' \in Panels
    BY <2>2, <1>0 DEF Panels
  <2>4. QED
    BY <1>15, <1>t, <2>3 DEF forgetAll, TypeOK, core, pushed
<1>16. ASSUME ReadEvent PROVE TypeOK'
  <2>1. widget.sess \in Sessions
    BY <1>16, <1>t DEF ReadEvent, Ready, Panels
  <2>2. PICK l \in Seq(Messages) : l = line[widget.sess]
    BY <1>t, <2>1
  <2>3. l # <<>> /\ Head(l).stream # "reply" /\ widget' = applyEvent(widget, Head(l))
        /\ line' = [line EXCEPT ![widget.sess] = Tail(l)]
    BY <1>16, <2>2 DEF ReadEvent
  <2>4. Head(l) \in Messages /\ Tail(l) \in Seq(Messages) /\ Len(Tail(l)) = Len(l) - 1
        /\ Len(l) \in Nat
    BY <2>3, TailFacts
  <2>5. widget' \in Panels
    BY <2>3, <2>4, Applies
  <2>6. PICK t \in Seq(Messages) : t = Tail(l)
    BY <2>4
  <2>7. line' \in [Sessions -> Seq(Messages)] /\ \A s \in Sessions : Len(line'[s]) <= Queue
    BY <1>t, <2>1, <2>2, <2>3, <2>4, <2>6
  <2>8. QED
    BY <1>16, <1>t, <2>5, <2>7 DEF ReadEvent, TypeOK, core, pushed
<1>17. ASSUME ReadReply PROVE TypeOK'
  <2>1. widget.sess \in Sessions
    BY <1>17, <1>t DEF ReadReply, Ready, Panels
  <2>2. PICK l \in Seq(Messages) : l = line[widget.sess]
    BY <1>t, <2>1
  <2>3. l # <<>> /\ line' = [line EXCEPT ![widget.sess] = Tail(l)]
    BY <1>17, <2>2 DEF ReadReply
  <2>4. Tail(l) \in Seq(Messages) /\ Len(Tail(l)) = Len(l) - 1 /\ Len(l) \in Nat
    BY <2>3, TailFacts
  <2>5. PICK t \in Seq(Messages) : t = Tail(l)
    BY <2>4
  <2>6. line' \in [Sessions -> Seq(Messages)] /\ \A s \in Sessions : Len(line'[s]) <= Queue
    BY <1>t, <2>1, <2>2, <2>3, <2>4, <2>5
  <2>7. widget' \in Panels /\ sess' \in [Sessions -> Conns]
    BY <1>17, <2>1, ReadReplyCalls
  <2>8. QED
    BY <1>17, <1>t, <2>6, <2>7 DEF ReadReply, TypeOK, core, pushed
<1>18. ASSUME TogglePanel PROVE TypeOK'
  <2>1. CASE Ready
    <3>1. widget.sess \in Sessions
      BY <1>t, <2>1 DEF Ready, Panels
    <3>2. QED
      BY <1>18, <1>t, <2>1, <3>1, ToggleCalls DEF TogglePanel, TypeOK, core, pushed
  <2>2. CASE ~Ready
    <3>1. widget' = [widget EXCEPT !.open = ~@] /\ sess' = sess
      BY <1>18, <2>2 DEF TogglePanel
    <3>2. widget' \in Panels
      BY <1>t, <3>1 DEF Panels
    <3>3. QED
      BY <1>18, <1>t, <3>1, <3>2 DEF TogglePanel, TypeOK, core, pushed
  <2>3. QED
    BY <2>1, <2>2
<1>19. ASSUME refresh PROVE TypeOK'
  <2>1. widget.sess \in Sessions
    BY <1>19, <1>t DEF refresh, Ready, Panels
  <2>2. QED
    BY <1>19, <1>t, <2>1, RefreshCalls DEF refresh, TypeOK, core, pushed
<1>20. ASSUME Restart PROVE TypeOK'
  <2>1. status' \in Statuses /\ status'.sub # 0
    BY <1>20, <1>t DEF Restart, Statuses
  <2>2. widget' \in Panels
    BY <1>20, <1>t, <1>w DEF Restart
  <2>3. sess' \in [Sessions -> Conns] /\ line' \in [Sessions -> Seq(Messages)]
        /\ \A s \in Sessions : Len(line'[s]) <= Queue
    BY <1>20, <1>0 DEF Restart
  <2>4. QED
    BY <1>20, <1>t, <1>0, <2>1, <2>2, <2>3 DEF Restart, TypeOK
<1>21. ASSUME UNCHANGED vars PROVE TypeOK'
  BY <1>21, <1>t DEF vars, core, pushed, TypeOK
<1>22. QED
  BY <1>1, <1>2, <1>3, <1>4, <1>5, <1>6, <1>7, <1>8, <1>9, <1>10, <1>11, <1>12, <1>13,
     <1>14, <1>15, <1>16, <1>17, <1>18, <1>19, <1>20, <1>21 DEF Next

\* Types are kept for ever.
THEOREM StreamsTyped == Spec => []TypeOK
<1>1. Init => TypeOK
  <2> SUFFICES ASSUME Init PROVE TypeOK
    OBVIOUS
  <2>1. status \in Statuses /\ status.sub # 0 /\ groups \in Groups /\ ops \in 0..MaxOps
    BY DEF Init, Statuses, Subs, Groups
  <2>2. op \in Ops /\ tick = NoTick
    BY DEF Init, Ops
  <2>3. pubMu \in [todo : Todos, sess : Sessions \cup {None}, call : 0..MaxCalls]
    BY DEF Init, Unlocked, Todos
  <2>4. /\ lastPushed \in [status : Statuses \cup {None}, groups : Groups \cup {None}]
        /\ lastStatus \in Statuses
    BY DEF Init, NothingPushed, NoStatus, Statuses
  <2>5. sess \in [Sessions -> Conns]
    BY DEF Init, NoSession, Conns
  <2>6. line \in [Sessions -> Seq(Messages)] /\ \A s \in Sessions : Len(line[s]) <= Queue
    BY EmptySeq DEF Init
  <2>7. widget \in Panels /\ moved \in BOOLEAN
    <3>1. PICK v \in Statuses : v = NoStatus
      <4>1. NoStatus \in Statuses
        BY DEF NoStatus, Statuses, Subs
      <4>2. QED
        BY <4>1
    <3>2. widget = [sess |-> None, open |-> FALSE, status |-> v, groups |-> NoGroups,
                    loaded |-> FALSE, conns |-> {}, pending |-> {}, again |-> 0]
      BY <3>1 DEF Init
    <3>3. /\ None \in Sessions \cup {None} /\ NoGroups \in Groups /\ 0 \in 0..MaxCalls
          /\ {} \in SUBSET (1..MaxOps) /\ {} \in SUBSET (1..MaxCalls)
      BY DEF Groups
    <3>4. widget \in Panels
      BY <3>2, <3>3 DEF Panels
    <3>5. QED
      BY <3>4 DEF Init
  <2>8. QED
    BY <2>1, <2>2, <2>3, <2>4, <2>5, <2>6, <2>7 DEF TypeOK
<1>2. QED
  BY <1>1, TypeStep, PTL DEF Spec

(***************************************************************************)
(* The invariant, and what single changes do to its parts.                 *)
(***************************************************************************)
\* Which streams a list of streams lacks.
LEMMA TodoLacks ==
    ASSUME NEW x
    PROVE  /\ \A k \in DOMAIN <<>> : <<>>[k] # x
           /\ (\A k \in DOMAIN <<"status">> : <<"status">>[k] # x) <=> x # "status"
           /\ (\A k \in DOMAIN <<"groups">> : <<"groups">>[k] # x) <=> x # "groups"
           /\ (\A k \in DOMAIN <<"status", "groups">> : <<"status", "groups">>[k] # x)
                 <=> x # "status" /\ x # "groups"
<1>1. DOMAIN <<>> = {} /\ DOMAIN <<"status">> = {1} /\ DOMAIN <<"groups">> = {1}
      /\ DOMAIN <<"status", "groups">> = {1, 2}
  OBVIOUS
<1>2. /\ <<"status">>[1] = "status" /\ <<"groups">>[1] = "groups"
      /\ <<"status", "groups">>[1] = "status" /\ <<"status", "groups">>[2] = "groups"
  OBVIOUS
<1>3. QED
  BY <1>1, <1>2

\* An open panel that is fed groups is fed the status too.
LEMMA FedBoth ==
    ASSUME TypeOK, NEW s \in Sessions, CallInv(s), Fed(s, "groups"), widget.open
    PROVE  Fed(s, "status")
<1>1. wantedStreams = AllStreams /\ "status" \in AllStreams
  BY DEF wantedStreams, AllStreams
<1>2. "groups" \in sess[s].streams
  BY DEF Fed
<1>3. CASE widget.pending = {} /\ Idle(s)
  BY <1>1, <1>3 DEF Idle, Fed
<1>4. ASSUME NEW id \in 1..MaxCalls, Waits(s, id) PROVE Fed(s, "status")
  <2>1. PICK c \in StreamCalls : Asks(c, sess[s].streams)
    BY <1>4 DEF Waits
  <2>2. sess[s].streams = AllStreams
    BY <1>1, <1>2, <2>1 DEF Asks
  <2>3. QED
    BY <1>1, <1>4, <2>2 DEF Waits, Fed
<1>5. ASSUME NEW id \in 1..MaxCalls, Runs(s, id) PROVE Fed(s, "status")
  <2>1. sess[s].streams = AllStreams
    BY <1>1, <1>2, <1>5 DEF Runs, Awaited
  <2>2. pubMu.todo \in Todos /\ pubMu.todo # <<"status">> /\ pubMu.sess = s
    BY <1>5 DEF TypeOK, Runs
  <2>3. \A k \in DOMAIN pubMu.todo : pubMu.todo[k] # "groups"
    BY <2>2 DEF Fed
  <2>4. pubMu.todo # <<"groups">> /\ pubMu.todo # <<"status", "groups">>
    BY <2>3, TodoLacks
  <2>5. pubMu.todo = <<>>
    BY <2>2, <2>4 DEF Todos
  <2>6. \A k \in DOMAIN pubMu.todo : pubMu.todo[k] # "status"
    BY <2>5, TodoLacks
  <2>7. QED
    BY <1>1, <2>1, <2>6 DEF Fed
<1>6. ASSUME NEW id \in 1..MaxCalls, Replies(s, id) PROVE Fed(s, "status")
  BY <1>1, <1>2, <1>6 DEF Replies, Awaited, Fed
<1>7. QED
  BY <1>3, <1>4, <1>5, <1>6 DEF CallInv

\* The account of the panel's calls goes by the panel, its session, who holds the
\* lock for it and the replies on the line.
LEMMA CallKept ==
    ASSUME NEW s \in Sessions, CallInv(s), sess'[s] = sess[s],
           widget'.pending = widget.pending, widget'.again = widget.again,
           widget'.open = widget.open,
           NoReply(line[s]) => NoReply(line'[s]),
           \A id : OneReply(line[s], id) => OneReply(line'[s], id),
           pubMu'.sess = s <=> pubMu.sess = s,
           pubMu.sess = s => /\ pubMu'.call = pubMu.call
                             /\ pubMu'.todo = <<"status">> => pubMu.todo = <<"status">>
    PROVE  CallInv(s)'
<1>1. wantedStreams' = wantedStreams
  BY DEF wantedStreams
<1>2. Awaited' = Awaited
  BY <1>1 DEF Awaited
<1>3. CASE widget.pending = {} /\ Idle(s)
  <2>1. widget'.pending = {} /\ Idle(s)'
    BY <1>1, <1>3 DEF Idle
  <2>2. QED
    BY <2>1 DEF CallInv
<1>4. ASSUME NEW id \in 1..MaxCalls, widget.pending = {id}, widget.again \in {0, id},
             Waits(s, id) \/ Runs(s, id) \/ Replies(s, id)
      PROVE  CallInv(s)'
  <2>1. ASSUME Waits(s, id) PROVE Waits(s, id)'
    <3>1. PICK c \in StreamCalls : /\ sess[s].calls = {c} /\ c.id = id
                                   /\ Asks(c, sess[s].streams)
      BY <2>1 DEF Waits
    <3>2. Asks(c, sess[s].streams)'
      BY <1>1, <3>1 DEF Asks
    <3>3. QED
      BY <2>1, <3>1, <3>2 DEF Waits
  <2>2. ASSUME Runs(s, id) PROVE Runs(s, id)'
    BY <1>2, <2>2 DEF Runs
  <2>3. ASSUME Replies(s, id) PROVE Replies(s, id)'
    BY <1>2, <2>3 DEF Replies
  <2>4. widget'.pending = {id} /\ widget'.again \in {0, id}
    BY <1>4
  <2>5. QED
    BY <1>4, <2>1, <2>2, <2>3, <2>4 DEF CallInv
<1>5. QED
  BY <1>3, <1>4 DEF CallInv

\* A publish, as the panel's session sees it: it is fed the present value.
LEMMA FeedPublished ==
    ASSUME TypeOK, PushInv, Ready, NEW s \in Sessions, s = widget.sess,
           CallInv(s), FeedInv(s),
           NEW stream \in {"status", "groups"}, NEW also \in Sessions \cup {None},
           publishLocked(stream, also), UNCHANGED <<widget, status>>, sess'[s].at = "open"
    PROVE  /\ Fed(s, "status") \/ (also = s /\ stream = "status") =>
                 /\ lastPushed'.status # None
                 /\ StatusAt(widget', line'[s], Len(line'[s]), lastStatus')
           /\ Fed(s, "groups") /\ widget'.open =>
                 IF lastPushed'.groups = None THEN op.at \in {"publish", "publishing"}
                 ELSE GroupsArrive(widget', line'[s], lastPushed'.groups, lastStatus')
           /\ stream = "groups" /\ Fed(s, "status") /\ also = s =>
                 GroupsArrive(widget', line'[s], lastPushed'.groups, lastStatus')
           /\ stream = "groups" => lastPushed'.groups # None
           /\ NoReply(line[s]) => NoReply(line'[s])
           /\ \A id : OneReply(line[s], id) => OneReply(line'[s], id)
<1>1. /\ status \in Statuses /\ groups \in Groups /\ lastStatus \in Statuses
      /\ status # None /\ groups # None
      /\ lastPushed \in [status : Statuses \cup {None}, groups : Groups \cup {None}]
  BY DEF TypeOK
<1>2. PICK l \in Seq(Messages) : l = line[s]
  BY DEF TypeOK
<1>3. PICK m : m = [stream |-> stream, data |-> IF stream = "status" THEN status ELSE groups]
  OBVIOUS
<1>4. m \in Messages /\ m.stream = stream /\ m.stream # "reply"
      /\ (stream = "status" => m.data = status) /\ (stream = "groups" => m.data = groups)
  BY <1>1, <1>3, MessageTyped
<1>5. PICK a \in Seq(Messages) : a = Append(l, m)
  BY <1>4, AppendFacts
<1>6. line'[s] = IF \/ s = also
                    \/ /\ stream \in sess[s].streams
                       /\ stream = "status" => lastPushed.status # status
                       /\ stream = "groups" => lastPushed.groups # groups
                 THEN a ELSE l
  BY <1>2, <1>3, <1>5, Publishes
<1>7. /\ stream = "status" =>
           /\ lastPushed'.status = status /\ lastStatus' = status
           /\ lastPushed'.groups = IF status # lastStatus THEN None ELSE lastPushed.groups
      /\ stream = "groups" =>
           /\ lastPushed'.groups = groups
           /\ lastPushed'.status = lastPushed.status /\ lastStatus' = lastStatus
  BY Publishes
<1>8. Fed(s, "status") => /\ lastPushed.status # None
                          /\ StatusAt(widget, l, Len(l), lastStatus)
  BY <1>2 DEF FeedInv
<1>9. Fed(s, "groups") /\ widget.open =>
         IF lastPushed.groups = None THEN op.at \in {"publish", "publishing"}
         ELSE GroupsArrive(widget, l, lastPushed.groups, lastStatus)
  BY <1>2 DEF FeedInv
<1>10. lastPushed.status # None =>
          lastPushed.status = lastStatus /\ (status = lastStatus \/ op.at = "publish")
  BY DEF PushInv
<1>11. Fed(s, "status") \/ (also = s /\ stream = "status") =>
          /\ lastPushed'.status # None
          /\ StatusAt(widget, line'[s], Len(line'[s]), lastStatus')
  <2>1. CASE stream = "status" /\ line'[s] = a
    BY <2>1, <1>1, <1>4, <1>5, <1>7, StatusSent
  <2>2. CASE stream = "status" /\ line'[s] # a
    <3>1. line'[s] = l /\ ~(also = s) /\ ("status" \in sess[s].streams => lastPushed.status = status)
      BY <2>2, <1>6
    <3>2. Fed(s, "status") => status = lastStatus
      BY <3>1, <1>8, <1>10 DEF Fed
    <3>3. QED
      BY <2>2, <3>1, <3>2, <1>1, <1>7, <1>8
  <2>3. CASE stream = "groups"
    <3>1. StatusAt(widget, l, Len(l), lastStatus) => StatusAt(widget, a, Len(a), lastStatus)
      BY <2>3, <1>4, <1>5, StatusKept
    <3>2. line'[s] = a \/ line'[s] = l
      BY <1>6
    <3>3. QED
      BY <2>3, <3>1, <3>2, <1>7, <1>8
  <2>4. QED
    BY <2>1, <2>2, <2>3
<1>12. Fed(s, "groups") /\ widget.open =>
          IF lastPushed'.groups = None THEN op.at \in {"publish", "publishing"}
          ELSE GroupsArrive(widget, line'[s], lastPushed'.groups, lastStatus')
  <2> SUFFICES ASSUME Fed(s, "groups"), widget.open
               PROVE  IF lastPushed'.groups = None THEN op.at \in {"publish", "publishing"}
                      ELSE GroupsArrive(widget, line'[s], lastPushed'.groups, lastStatus')
    OBVIOUS
  <2>1. Fed(s, "status")
    BY FedBoth
  <2>2. /\ lastPushed.status # None /\ StatusAt(widget, l, Len(l), lastStatus)
        /\ lastPushed.status = lastStatus /\ (status = lastStatus \/ op.at = "publish")
    BY <2>1, <1>8, <1>10
  <2>3. CASE stream = "status"
    <3>1. CASE status # lastStatus
      BY <2>2, <2>3, <3>1, <1>7
    <3>2. CASE status = lastStatus
      <4>1. lastPushed'.groups = lastPushed.groups /\ lastStatus' = lastStatus
        BY <2>3, <3>2, <1>7
      <4>2. GroupsArrive(widget, l, lastPushed.groups, lastStatus)
               => GroupsArrive(widget, a, lastPushed.groups, lastStatus)
        BY <2>3, <3>2, <1>4, <1>5, GroupsKept
      <4>3. line'[s] = a \/ line'[s] = l
        BY <1>6
      <4>4. QED
        BY <4>1, <4>2, <4>3, <1>9
    <3>3. QED
      BY <3>1, <3>2
  <2>4. CASE stream = "groups" /\ line'[s] = a
    BY <2>2, <2>4, <1>1, <1>4, <1>5, <1>7, GroupsSent
  <2>5. CASE stream = "groups" /\ line'[s] # a
    <3>1. line'[s] = l /\ lastPushed.groups = groups
      BY <2>5, <1>6 DEF Fed
    <3>2. QED
      BY <2>5, <3>1, <1>1, <1>7, <1>9
  <2>6. QED
    BY <2>3, <2>4, <2>5
<1>13. stream = "groups" /\ Fed(s, "status") /\ also = s =>
          GroupsArrive(widget, line'[s], lastPushed'.groups, lastStatus')
  BY <1>4, <1>5, <1>6, <1>7, <1>8, GroupsSent
<1>14. /\ NoReply(l) => NoReply(line'[s])
       /\ \A id : OneReply(l, id) => OneReply(line'[s], id)
  <2>1. line'[s] = a \/ line'[s] = l
    BY <1>6
  <2>2. QED
    BY <2>1, <1>4, <1>5, RepliesKept
<1>15. QED
  BY <1>1, <1>2, <1>7, <1>11, <1>12, <1>13, <1>14

\* What the panel comes to know depends on what it shows, not on its calls.
LEMMA ViewSame ==
    ASSUME NEW w, NEW u, u.status = w.status, u.groups = w.groups, u.loaded = w.loaded,
           NEW l, NEW v, NEW g
    PROVE  /\ \A k : StatusAt(w, l, k, v) => StatusAt(u, l, k, v)
           /\ GroupsArrive(w, l, g, v) => GroupsArrive(u, l, g, v)
<1>1. \A k : StatusAt(w, l, k, v) => StatusAt(u, l, k, v)
  BY DEF StatusAt, StatusOf
<1>2. \A k : GroupsOf(u, l, k) = GroupsOf(w, l, k)
  BY DEF GroupsOf
<1>3. GroupsArrive(w, l, g, v) => GroupsArrive(u, l, g, v)
  BY <1>1, <1>2, Zenon DEF GroupsArrive
<1>4. QED
  BY <1>1, <1>3

\* What feeds the panel stays as long as nothing that it reads changes.
LEMMA FeedKept ==
    ASSUME NEW s \in Sessions, FeedInv(s), line'[s] = line[s], UNCHANGED <<lastPushed, lastStatus>>,
           widget'.status = widget.status, widget'.groups = widget.groups,
           widget'.loaded = widget.loaded,
           Fed(s, "status")' => Fed(s, "status"),
           Fed(s, "groups")' /\ widget'.open => Fed(s, "groups") /\ widget.open,
           op.at \in {"publish", "publishing"} => op'.at \in {"publish", "publishing"}
    PROVE  FeedInv(s)'
<1>1. Fed(s, "status")' => /\ lastPushed'.status # None
                           /\ StatusAt(widget', line'[s], Len(line'[s]), lastStatus')
  <2>1. StatusAt(widget, line[s], Len(line[s]), lastStatus)
           => StatusAt(widget', line[s], Len(line[s]), lastStatus)
    BY ViewSame
  <2>2. QED
    BY <2>1 DEF FeedInv
<1>2. Fed(s, "groups")' /\ widget'.open =>
          IF lastPushed'.groups = None THEN op'.at \in {"publish", "publishing"}
          ELSE GroupsArrive(widget', line'[s], lastPushed'.groups, lastStatus')
  <2>1. GroupsArrive(widget, line[s], lastPushed.groups, lastStatus)
           => GroupsArrive(widget', line[s], lastPushed.groups, lastStatus)
    BY ViewSame
  <2>2. QED
    BY <2>1 DEF FeedInv
<1>3. QED
  BY <1>1, <1>2 DEF FeedInv

\* The same for a line that got a message of no concern to it.
LEMMA FeedAppended ==
    ASSUME NEW s \in Sessions, FeedInv(s), line[s] \in Seq(Messages), NEW m \in Messages,
           m.stream \notin {"status", "groups"}, line'[s] = Append(line[s], m),
           UNCHANGED <<lastPushed, lastStatus, widget>>,
           Fed(s, "status")' => Fed(s, "status"),
           Fed(s, "groups")' => Fed(s, "groups"),
           op' = op
    PROVE  FeedInv(s)'
<1>1. PICK l \in Seq(Messages) : l = line[s]
  OBVIOUS
<1>2. PICK a \in Seq(Messages) : a = Append(l, m)
  BY AppendFacts
<1>3. line[s] = l /\ line'[s] = a
  BY <1>1, <1>2
<1>4. StatusAt(widget, l, Len(l), lastStatus) => StatusAt(widget, a, Len(a), lastStatus)
  BY <1>2, StatusKept
<1>5. GroupsArrive(widget, l, lastPushed.groups, lastStatus)
        => GroupsArrive(widget, a, lastPushed.groups, lastStatus)
  BY <1>2, GroupsKept
<1>6. Fed(s, "status")' => /\ lastPushed'.status # None
                           /\ StatusAt(widget', line'[s], Len(line'[s]), lastStatus')
  BY <1>3, <1>4 DEF FeedInv
<1>7. Fed(s, "groups")' /\ widget'.open =>
          IF lastPushed'.groups = None THEN op'.at \in {"publish", "publishing"}
          ELSE GroupsArrive(widget', line'[s], lastPushed'.groups, lastStatus')
  BY <1>3, <1>5 DEF FeedInv
<1>8. QED
  BY <1>6, <1>7 DEF FeedInv

\* A session is fed by what it has and by who holds the lock for it.
LEMMA FedSame ==
    ASSUME NEW s \in Sessions, NEW x, sess'[s].streams = sess[s].streams,
           pubMu.sess # s \/ pubMu' = pubMu, pubMu'.sess = s <=> pubMu.sess = s
    PROVE  Fed(s, x)' <=> Fed(s, x)
BY DEF Fed

(***************************************************************************)
(* What was pushed last.                                                   *)
(***************************************************************************)
\* A publish brings what was pushed last up to date.
LEMMA PushPublished ==
    ASSUME TypeOK, PushInv, NEW stream \in {"status", "groups"},
           NEW also \in Sessions \cup {None}, publishLocked(stream, also), Seen(stream),
           UNCHANGED core
    PROVE  /\ lastPushed'.status # None =>
                 /\ lastPushed'.status = lastStatus'
                 /\ status' = lastStatus' \/ (stream = "groups" /\ op.at = "publish")
           /\ lastPushed'.groups # None /\ ~moved' /\ (op.at = "idle" \/ stream = "groups") =>
                 lastPushed'.groups = groups'
<1>1. /\ stream = "status" =>
           /\ lastPushed'.status = status /\ lastStatus' = status
           /\ lastPushed'.groups = IF status # lastStatus THEN None ELSE lastPushed.groups
      /\ stream = "groups" =>
           /\ lastPushed'.groups = groups
           /\ lastPushed'.status = lastPushed.status /\ lastStatus' = lastStatus
  BY Publishes
<1>2. status' = status /\ groups' = groups /\ (stream = "status" => moved' = moved)
  BY DEF core, Seen, TypeOK
<1>3. /\ lastPushed.status # None =>
            lastPushed.status = lastStatus /\ (status = lastStatus \/ op.at = "publish")
      /\ lastPushed.groups # None /\ ~moved /\ op.at = "idle" => lastPushed.groups = groups
  BY DEF PushInv
<1>4. CASE stream = "status"
  BY <1>1, <1>2, <1>3, <1>4
<1>5. CASE stream = "groups"
  BY <1>1, <1>2, <1>3, <1>5
<1>6. QED
  BY <1>4, <1>5

\* Who holds the lock.
LEMMA LockFacts ==
    /\ Unlocked.sess = None /\ Unlocked.todo = <<>> /\ Unlocked.call = 0
    /\ [Unlocked EXCEPT !.todo = <<"groups">>].sess = None
    /\ [Unlocked EXCEPT !.todo = <<"groups">>].todo = <<"groups">>
    /\ [Unlocked EXCEPT !.todo = <<"groups">>] # Unlocked
    /\ NoOp.at = "idle"
<1>1. <<"groups">> # <<>>
  OBVIOUS
<1>2. QED
  BY <1>1 DEF Unlocked, NoOp

\* Every step keeps it.
LEMMA PushStep ==
    ASSUME TypeOK, PushInv, [Next]_vars
    PROVE  PushInv'
<1>0. /\ lastPushed.status # None =>
            lastPushed.status = lastStatus /\ (status = lastStatus \/ op.at = "publish")
      /\ lastPushed.groups # None /\ ~moved /\ op.at = "idle" => lastPushed.groups = groups
      /\ op.at = "publishing" => pubMu = [Unlocked EXCEPT !.todo = <<"groups">>]
      /\ op \in Ops /\ moved \in BOOLEAN
  BY DEF PushInv, TypeOK
<1>k. ASSUME UNCHANGED <<core, op, pushed, moved>>,
             pubMu' = pubMu \/ pubMu = Unlocked \/ pubMu.sess # None
      PROVE  PushInv'
  BY <1>0, <1>k, LockFacts DEF PushInv, core, pushed
<1>1. ASSUME NEW kind \in {"start", "stop", "use"}, OpCore(kind) PROVE PushInv'
  <2>1. op'.at = "memory" /\ op.at = "idle"
    BY <1>1, LockFacts DEF OpCore
  <2>2. QED
    BY <1>0, <1>1, <2>1 DEF OpCore, PushInv, pushed
<1>2. ASSUME OpMemory PROVE PushInv'
  <2>1. op'.at = "publish" /\ op.at = "memory"
    BY <1>2, <1>0 DEF OpMemory, Ops, NoOp
  <2>2. QED
    BY <1>0, <1>2, <2>1 DEF OpMemory, PushInv, pushed
<1>3. ASSUME OpPublish PROVE PushInv'
  <2>1. publishLocked("status", None) /\ Seen("status") /\ UNCHANGED core
    BY <1>3 DEF OpPublish
  <2>2. op'.at = "publishing" /\ pubMu' = [Unlocked EXCEPT !.todo = <<"groups">>]
    BY <1>3, <1>0 DEF OpPublish, Ops, NoOp
  <2>3. QED
    BY <2>1, <2>2, PushPublished DEF PushInv
<1>4. ASSUME OpPublishes PROVE PushInv'
  <2>1. publishLocked("groups", None) /\ Seen("groups") /\ UNCHANGED core
        /\ op.at = "publishing"
    BY <1>4 DEF OpPublishes
  <2>2. op'.at = "idle"
    BY <1>4, LockFacts DEF OpPublishes
  <2>3. QED
    BY <2>1, <2>2, PushPublished DEF PushInv
<1>5. ASSUME CoreMoves PROVE PushInv'
  BY <1>0, <1>5 DEF CoreMoves, PushInv, pushed
<1>6. ASSUME TickGroups PROVE PushInv'
  <2>1. publishLocked("groups", None) /\ Seen("groups") /\ UNCHANGED core
        /\ op' = op /\ pubMu' = pubMu
    BY <1>6 DEF TickGroups
  <2>2. QED
    BY <1>0, <2>1, PushPublished DEF PushInv
<1>7. ASSUME TickRead PROVE PushInv'
  BY <1>7, <1>k DEF TickRead
<1>8. ASSUME broadcast PROVE PushInv'
  BY <1>8, <1>k DEF broadcast
<1>9. ASSUME NEW s \in Sessions, NEW c \in sess[s].calls, subscribe(s, c) PROVE PushInv'
  BY <1>9, <1>k DEF subscribe
<1>10. ASSUME NEW s \in Sessions, SessionEnds(s) PROVE PushInv'
  BY <1>10, <1>k DEF SessionEnds
<1>11. ASSUME NEW s \in Sessions, Connect(s) PROVE PushInv'
  BY <1>11, <1>k DEF Connect
<1>12. ASSUME SubscribePublishes PROVE PushInv'
  <2>1. PICK x \in {"status", "groups"} : x = Head(pubMu.todo)
    BY <1>12, TodoFacts DEF SubscribePublishes, TypeOK, Todos
  <2>2. pubMu.sess \in Sessions /\ pubMu.sess # None
    BY <1>12 DEF SubscribePublishes, TypeOK
  <2>3. publishLocked(x, pubMu.sess) /\ Seen(x) /\ UNCHANGED core /\ op' = op
    BY <1>12, <2>1 DEF SubscribePublishes
  <2>4. op.at # "publishing"
    BY <1>0, <2>2, LockFacts
  <2>5. QED
    BY <2>2, <2>3, <2>4, PushPublished DEF PushInv
<1>13. ASSUME Reply PROVE PushInv'
  BY <1>13, <1>k DEF Reply
<1>14. ASSUME Disconnect PROVE PushInv'
  BY <1>14, <1>k DEF Disconnect
<1>15. ASSUME forgetAll PROVE PushInv'
  BY <1>15, <1>k DEF forgetAll
<1>16. ASSUME ReadEvent PROVE PushInv'
  BY <1>16, <1>k DEF ReadEvent
<1>17. ASSUME ReadReply PROVE PushInv'
  BY <1>17, <1>k DEF ReadReply
<1>18. ASSUME TogglePanel PROVE PushInv'
  BY <1>18, <1>k DEF TogglePanel
<1>19. ASSUME refresh PROVE PushInv'
  BY <1>19, <1>k DEF refresh
<1>20. ASSUME Restart PROVE PushInv'
  <2>1. lastPushed'.status = None /\ lastPushed'.groups = None /\ op'.at = "idle"
    BY <1>20, LockFacts DEF Restart, NothingPushed
  <2>2. QED
    BY <2>1 DEF PushInv
<1>21. ASSUME UNCHANGED vars PROVE PushInv'
  BY <1>21, <1>k DEF vars
<1>22. QED
  BY <1>1, <1>2, <1>3, <1>4, <1>5, <1>6, <1>7, <1>8, <1>9, <1>10, <1>11, <1>12, <1>13,
     <1>14, <1>15, <1>16, <1>17, <1>18, <1>19, <1>20, <1>21 DEF Next

(***************************************************************************)
(* Sessions that are not there.                                            *)
(***************************************************************************)
\* What a place holds that no session has.
LEMMA FreeFacts ==
    NoSession.at = "free" /\ NoSession.calls = {} /\ NoSession.streams = {}
BY DEF NoSession

\* A panel that is disconnected waits for nothing.
LEMMA DisconnectedFacts ==
    ASSUME TypeOK
    PROVE  /\ disconnected(widget).sess = None /\ disconnected(widget).pending = {}
           /\ disconnected(widget).again = 0
BY DEF disconnected, TypeOK, Panels

\* Every step keeps what is said of sessions that are not there.
LEMMA FreeStep ==
    ASSUME TypeOK, FreeInv, [Next]_vars
    PROVE  FreeInv'
<1>0. /\ \A s \in Sessions : sess[s].at = "free" =>
            sess[s] = NoSession /\ line[s] = <<>> /\ pubMu.sess # s
      /\ widget.sess # None => sess[widget.sess].at # "free"
      /\ widget.sess = None => widget.pending = {} /\ widget.again = 0
  BY DEF FreeInv, Ready
<1>t. /\ sess \in [Sessions -> Conns] /\ line \in [Sessions -> Seq(Messages)]
      /\ widget \in Panels /\ widget.sess \in Sessions \cup {None}
      /\ pubMu.sess \in Sessions \cup {None} /\ pubMu.todo \in Todos
  BY DEF TypeOK, Panels
<1>w. PICK d \in Sessions \cup {None} : d = widget.sess
  BY <1>t
\* Sends change no session that is not there and make none.
<1>s. ASSUME \A s \in Sessions : /\ sess'[s].at = "free" <=> sess[s].at = "free"
                                 /\ sess[s].at = "free" => sess'[s] = sess[s] /\ line'[s] = line[s],
             widget' = widget,
             pubMu'.sess = pubMu.sess \/ pubMu'.sess = None
      PROVE  FreeInv'
  <2>1. ASSUME NEW s \in Sessions, sess'[s].at = "free"
        PROVE  sess'[s] = NoSession /\ line'[s] = <<>> /\ pubMu'.sess # s
    BY <1>0, <1>s, <2>1
  <2>2. widget'.sess # None => sess'[widget'.sess].at # "free"
    BY <1>0, <1>s, <1>t
  <2>3. QED
    BY <1>0, <1>s, <2>1, <2>2 DEF FreeInv, Ready
\* A panel that is there and calls or reads.
<1>p. ASSUME widget.sess # None, widget'.sess = widget.sess, pubMu' = pubMu,
             \A t \in Sessions : /\ sess'[t].at = sess[t].at
                                 /\ t = widget.sess \/ (sess'[t] = sess[t] /\ line'[t] = line[t])
      PROVE  FreeInv'
  <2>1. ASSUME NEW s \in Sessions, sess'[s].at = "free"
        PROVE  sess'[s] = NoSession /\ line'[s] = <<>> /\ pubMu'.sess # s
    BY <1>0, <1>p, <2>1
  <2>2. widget'.sess # None => sess'[widget'.sess].at # "free"
    BY <1>0, <1>p, <1>t
  <2>3. QED
    BY <1>p, <2>1, <2>2 DEF FreeInv, Ready
<1>q. ASSUME sess' = sess, line' = line, pubMu' = pubMu,
             widget'.sess = widget.sess, widget'.pending = widget.pending,
             widget'.again = widget.again
      PROVE  FreeInv'
  BY <1>0, <1>q DEF FreeInv, Ready
<1>1. ASSUME NEW kind \in {"start", "stop", "use"}, OpCore(kind) PROVE FreeInv'
  BY <1>1, <1>q DEF OpCore
<1>2. ASSUME OpMemory PROVE FreeInv'
  BY <1>2, <1>q DEF OpMemory
<1>3. ASSUME OpPublish PROVE FreeInv'
  <2>1. publishLocked("status", None) /\ widget' = widget /\ pubMu'.sess = None
    BY <1>3, LockFacts DEF OpPublish
  <2>2. QED
    BY <2>1, <1>s, Publishes
<1>4. ASSUME OpPublishes PROVE FreeInv'
  <2>1. publishLocked("groups", None) /\ widget' = widget /\ pubMu'.sess = None
    BY <1>4, LockFacts DEF OpPublishes
  <2>2. QED
    BY <2>1, <1>s, Publishes
<1>5. ASSUME CoreMoves PROVE FreeInv'
  BY <1>5, <1>q DEF CoreMoves
<1>6. ASSUME TickGroups PROVE FreeInv'
  <2>1. publishLocked("groups", None) /\ widget' = widget /\ pubMu'.sess = pubMu.sess
    BY <1>6 DEF TickGroups
  <2>2. QED
    BY <2>1, <1>s, Publishes
<1>7. ASSUME TickRead PROVE FreeInv'
  BY <1>7, <1>q DEF TickRead
<1>8. ASSUME broadcast PROVE FreeInv'
  <2>1. tick.run \in 1..MaxOps
    BY <1>8 DEF broadcast, NoTick, TypeOK
  <2>2. [stream |-> "connections", data |-> tick.run] \in Messages
    BY <2>1, MessageTyped
  <2>3. sendLine(sess, Subscribers("connections"), [stream |-> "connections", data |-> tick.run])
        /\ widget' = widget /\ pubMu'.sess = pubMu.sess
    BY <1>8 DEF broadcast
  <2>4. QED
    BY <2>2, <2>3, <1>s, Sends
<1>9. ASSUME NEW s \in Sessions, NEW c \in sess[s].calls, subscribe(s, c) PROVE FreeInv'
  <2>1. sess[s].at # "free"
    BY <1>0, FreeFacts
  <2>2. pubMu'.sess = s /\ widget' = widget /\ line' = line
    BY <1>9 DEF subscribe
  <2>3. /\ sess'[s].at = sess[s].at
        /\ \A t \in Sessions : t # s => sess'[t] = sess[t]
    BY <1>9, <1>t DEF subscribe, Conns
  <2>4. ASSUME NEW t \in Sessions, sess'[t].at = "free"
        PROVE  sess'[t] = NoSession /\ line'[t] = <<>> /\ pubMu'.sess # t
    BY <1>0, <2>1, <2>2, <2>3, <2>4
  <2>5. widget'.sess # None => sess'[widget'.sess].at # "free"
    BY <1>0, <1>t, <2>2, <2>3
  <2>6. QED
    BY <1>0, <2>2, <2>4, <2>5 DEF FreeInv, Ready
<1>10. ASSUME NEW s \in Sessions, SessionEnds(s) PROVE FreeInv'
  <2>1. /\ pubMu' = pubMu /\ pubMu.sess # s /\ widget' = widget /\ widget.sess # s
        /\ sess'[s] = NoSession /\ line'[s] = <<>>
        /\ \A t \in Sessions : t # s => sess'[t] = sess[t] /\ line'[t] = line[t]
    BY <1>10, <1>t DEF SessionEnds
  <2>2. ASSUME NEW t \in Sessions, sess'[t].at = "free"
        PROVE  sess'[t] = NoSession /\ line'[t] = <<>> /\ pubMu'.sess # t
    BY <1>0, <2>1, <2>2
  <2>3. widget'.sess # None => sess'[widget'.sess].at # "free"
    BY <1>0, <1>t, <2>1
  <2>4. QED
    BY <1>0, <2>1, <2>2, <2>3 DEF FreeInv, Ready
<1>11. ASSUME NEW s \in Sessions, Connect(s) PROVE FreeInv'
  <2>1. line' = line /\ pubMu' = pubMu
    BY <1>11 DEF Connect
  <2>2. /\ widget'.sess = s /\ s # None /\ sess'[s].at = "open"
        /\ \A t \in Sessions : t # s => sess'[t] = sess[t]
    BY <1>11, ConnectCalls
  <2>3. ASSUME NEW t \in Sessions, sess'[t].at = "free"
        PROVE  sess'[t] = NoSession /\ line'[t] = <<>> /\ pubMu'.sess # t
    BY <1>0, <2>1, <2>2, <2>3
  <2>4. QED
    BY <2>2, <2>3 DEF FreeInv, Ready
<1>12. ASSUME SubscribePublishes PROVE FreeInv'
  <2>1. PICK x \in {"status", "groups"} : x = Head(pubMu.todo)
    BY <1>12, <1>t, TodoFacts DEF SubscribePublishes, Todos
  <2>2. publishLocked(x, pubMu.sess) /\ widget' = widget /\ pubMu'.sess = pubMu.sess
    BY <1>12, <2>1 DEF SubscribePublishes, TypeOK
  <2>3. QED
    BY <2>2, <1>s, <1>t, Publishes
<1>13. ASSUME Reply PROVE FreeInv'
  <2>1. [stream |-> "reply", data |-> pubMu.call] \in Messages
    BY MessageTyped DEF TypeOK
  <2>2. sendLine(sess, {pubMu.sess}, [stream |-> "reply", data |-> pubMu.call])
        /\ widget' = widget /\ pubMu'.sess = None
    BY <1>13, LockFacts DEF Reply
  <2>3. QED
    BY <2>1, <2>2, <1>s, Sends
<1>14. ASSUME Disconnect PROVE FreeInv'
  <2>1. d # None /\ sess' = [sess EXCEPT ![d].at = "closed"] /\ widget' = disconnected(widget)
        /\ line' = line /\ pubMu' = pubMu
    BY <1>14, <1>w DEF Disconnect, Ready
  <2>2. sess'[d].at = "closed" /\ \A t \in Sessions : t # d => sess'[t] = sess[t]
    BY <2>1, <1>t DEF Conns
  <2>3. ASSUME NEW t \in Sessions, sess'[t].at = "free"
        PROVE  sess'[t] = NoSession /\ line'[t] = <<>> /\ pubMu'.sess # t
    BY <1>0, <2>1, <2>2, <2>3
  <2>4. QED
    BY <2>1, <2>3, DisconnectedFacts DEF FreeInv, Ready
<1>15. ASSUME forgetAll PROVE FreeInv'
  <2>1. PICK w : w = [widget EXCEPT !.status = NoStatus]
    OBVIOUS
  <2>2. w.sess = widget.sess /\ w.pending = widget.pending /\ w.again = widget.again
        /\ w = [sess |-> w.sess, open |-> w.open, status |-> w.status, groups |-> w.groups,
                loaded |-> w.loaded, conns |-> w.conns, pending |-> w.pending, again |-> w.again]
    BY <1>t, <2>1 DEF Panels
  <2>3. widget' = [w EXCEPT !.groups = NoGroups, !.loaded = FALSE, !.conns = {}]
    BY <1>15, <2>1 DEF forgetAll, forgetRuntime
  <2>4. widget'.sess = w.sess /\ widget'.pending = w.pending /\ widget'.again = w.again
    BY <2>2, <2>3
  <2>5. QED
    BY <1>15, <2>2, <2>4, <1>q DEF forgetAll
<1>16. ASSUME ReadEvent PROVE FreeInv'
  <2>1. d # None /\ d \in Sessions
    BY <1>16, <1>w DEF ReadEvent, Ready
  <2>2. PICK l \in Seq(Messages) : l = line[d]
    BY <1>t, <2>1
  <2>3. l # <<>> /\ Head(l).stream # "reply" /\ widget' = applyEvent(widget, Head(l))
        /\ line' = [line EXCEPT ![d] = Tail(l)] /\ sess' = sess /\ pubMu' = pubMu
    BY <1>16, <1>w, <2>2 DEF ReadEvent
  <2>4. widget'.sess = widget.sess
    BY <2>3, TailFacts, Applies
  <2>5. QED
    BY <1>p, <1>t, <1>w, <2>1, <2>3, <2>4
<1>17. ASSUME ReadReply PROVE FreeInv'
  <2>1. d # None /\ d \in Sessions
    BY <1>17, <1>w DEF ReadReply, Ready
  <2>2. line' = [line EXCEPT ![d] = Tail(@)] /\ pubMu' = pubMu
    BY <1>17, <1>w DEF ReadReply
  <2>3. /\ widget'.sess = d /\ sess'[d].at = sess[d].at
        /\ \A t \in Sessions : t # d => sess'[t] = sess[t]
    BY <1>17, <1>w, <2>1, ReadReplyCalls
  <2>4. \A t \in Sessions : t # d => line'[t] = line[t]
    BY <1>t, <2>2
  <2>5. QED
    BY <1>p, <1>w, <2>1, <2>2, <2>3, <2>4
<1>18. ASSUME TogglePanel PROVE FreeInv'
  <2>1. line' = line /\ pubMu' = pubMu
    BY <1>18 DEF TogglePanel
  <2>2. CASE Ready
    <3>1. d # None /\ d \in Sessions
      BY <1>w, <2>2 DEF Ready
    <3>2. /\ widget'.sess = d /\ sess'[d].at = sess[d].at
          /\ \A t \in Sessions : t # d => sess'[t] = sess[t]
      BY <1>18, <1>w, <2>2, <3>1, ToggleCalls
    <3>3. QED
      BY <1>p, <1>w, <2>1, <3>1, <3>2
  <2>3. CASE ~Ready
    <3>1. widget' = [widget EXCEPT !.open = ~@] /\ sess' = sess
      BY <1>18, <2>3 DEF TogglePanel
    <3>2. widget'.sess = widget.sess /\ widget'.pending = widget.pending
          /\ widget'.again = widget.again
      BY <1>t, <3>1 DEF Panels
    <3>3. QED
      BY <1>q, <2>1, <3>1, <3>2
  <2>4. QED
    BY <2>2, <2>3
<1>19. ASSUME refresh PROVE FreeInv'
  <2>1. d # None /\ d \in Sessions /\ line' = line /\ pubMu' = pubMu
    BY <1>19, <1>w DEF refresh, Ready
  <2>2. /\ widget'.sess = d /\ sess'[d].at = sess[d].at
        /\ \A t \in Sessions : t # d => sess'[t] = sess[t]
    BY <1>19, <1>w, <2>1, RefreshCalls
  <2>3. QED
    BY <1>p, <1>w, <2>1, <2>2
<1>20. ASSUME Restart PROVE FreeInv'
  <2>1. /\ \A s \in Sessions : sess'[s] = NoSession /\ line'[s] = <<>>
        /\ pubMu'.sess = None /\ widget' = disconnected(widget)
    BY <1>20, LockFacts DEF Restart
  <2>2. QED
    BY <2>1, DisconnectedFacts DEF FreeInv, Ready
<1>21. ASSUME UNCHANGED vars PROVE FreeInv'
  BY <1>21, <1>q DEF vars
<1>22. QED
  BY <1>1, <1>2, <1>3, <1>4, <1>5, <1>6, <1>7, <1>8, <1>9, <1>10, <1>11, <1>12, <1>13,
     <1>14, <1>15, <1>16, <1>17, <1>18, <1>19, <1>20, <1>21 DEF Next

(***************************************************************************)
(* The panel's session.                                                    *)
(***************************************************************************)
\* Whose goroutine has the lock.
LEMMA RunsCall ==
    ASSUME NEW s \in Sessions, CallInv(s), pubMu.sess = s
    PROVE  \E id \in 1..MaxCalls : /\ widget.pending = {id} /\ widget.again \in {0, id}
                                   /\ Runs(s, id)
BY DEF CallInv, Idle, Waits, Replies

\* A call runs: the session has the streams it asked for, and those it got anew are
\* to be published.
LEMMA SubscribeRuns ==
    ASSUME TypeOK, NEW s \in Sessions, NEW c \in sess[s].calls, subscribe(s, c),
           CallInv(s), FeedInv(s)
    PROVE  CallInv(s)' /\ FeedInv(s)'
<1>1. PICK id \in 1..MaxCalls : /\ widget.pending = {id} /\ widget.again \in {0, id}
                                /\ Waits(s, id)
  BY DEF CallInv, Idle, Runs, Replies
<1>2. /\ pubMu.sess # s /\ NoReply(line[s]) /\ sess[s].calls = {c} /\ c.id = id
      /\ Asks(c, sess[s].streams) /\ c \in StreamCalls
  BY <1>1 DEF Waits
<1>3. /\ pubMu'.sess = s /\ pubMu'.call = id
      /\ pubMu'.todo = IF c.on THEN InOrder(c.streams \ sess[s].streams) ELSE <<>>
      /\ UNCHANGED <<lastPushed, lastStatus, line, widget, op>>
  BY <1>2 DEF subscribe, pushed
<1>4. /\ sess'[s].calls = {}
      /\ sess'[s].streams = IF c.on THEN sess[s].streams \cup c.streams
                            ELSE sess[s].streams \ c.streams
  BY <1>2 DEF subscribe, TypeOK, Conns
<1>5. /\ "status" \notin PanelStreams /\ "groups" \in PanelStreams
      /\ AllStreams = {"status"} \cup PanelStreams
      /\ wantedStreams = IF widget.open THEN AllStreams ELSE {"status"}
      /\ wantedStreams' = wantedStreams
  BY <1>3 DEF PanelStreams, AllStreams, wantedStreams
<1>6. Awaited' = IF widget.again # 0 THEN {} ELSE wantedStreams
  BY <1>3, <1>5 DEF Awaited
<1>7. PICK st \in SUBSET AllStreams : st = sess[s].streams
  BY DEF TypeOK, Conns
\* What each of the four calls leaves: the streams, and what is to be published.
<1>8. /\ sess'[s].streams = Awaited'
      /\ pubMu'.todo = <<"status">> => ~widget.open
      /\ "status" \in sess'[s].streams =>
            \/ "status" \in st
            \/ pubMu'.todo \in {<<"status">>, <<"status", "groups">>}
      /\ "groups" \in sess'[s].streams /\ widget.open =>
            pubMu'.todo \in {<<"groups">>, <<"status", "groups">>}
  <2>1. CASE c.on /\ widget.again = 0 /\ st = {} /\ c.streams = wantedStreams
    <3>1. sess'[s].streams = wantedStreams /\ pubMu'.todo = InOrder(wantedStreams)
      BY <2>1, <1>3, <1>4, <1>7
    <3>2. InOrder(wantedStreams) = IF widget.open THEN <<"status", "groups">> ELSE <<"status">>
      BY <1>5, TodoFacts
    <3>3. <<"status", "groups">> # <<"status">>
      OBVIOUS
    <3>4. QED
      BY <2>1, <3>1, <3>2, <3>3, <1>5, <1>6
  <2>2. CASE c.on /\ widget.again = 0 /\ widget.open /\ st = {"status"}
             /\ c.streams = PanelStreams
    <3>1. sess'[s].streams = wantedStreams /\ pubMu'.todo = InOrder(PanelStreams)
      BY <2>2, <1>3, <1>4, <1>5, <1>7
    <3>2. InOrder(PanelStreams) = <<"groups">> /\ <<"groups">> # <<"status">>
      BY <1>5, TodoFacts
    <3>3. QED
      BY <2>2, <3>1, <3>2, <1>6
  <2>3. CASE ~c.on /\ widget.again = 0 /\ ~widget.open /\ st = AllStreams
             /\ c.streams = PanelStreams
    <3>1. sess'[s].streams = {"status"} /\ "status" \in st
      BY <2>3, <1>4, <1>5, <1>7
    <3>2. QED
      BY <2>3, <3>1, <1>5, <1>6
  <2>4. CASE ~c.on /\ widget.again = c.id /\ st = wantedStreams /\ c.streams = AllStreams
    <3>1. sess'[s].streams = {} /\ pubMu'.todo = <<>> /\ <<>> # <<"status">>
      BY <2>4, <1>3, <1>4, <1>5, <1>7
    <3>2. widget.again # 0
      BY <2>4, <1>2
    <3>3. QED
      BY <3>1, <3>2, <1>6
  <2>5. QED
    BY <2>1, <2>2, <2>3, <2>4, <1>2, <1>7 DEF Asks
<1>9. CallInv(s)'
  <2>1. Runs(s, id)'
    BY <1>2, <1>3, <1>4, <1>8 DEF Runs
  <2>2. QED
    BY <1>1, <1>3, <2>1 DEF CallInv
<1>10. Fed(s, "status")' => Fed(s, "status")
  <2>1. Fed(s, "status")' => "status" \in sess'[s].streams
                             /\ \A k \in DOMAIN pubMu'.todo : pubMu'.todo[k] # "status"
    BY <1>3 DEF Fed
  <2>2. ASSUME Fed(s, "status")' PROVE "status" \in st
    <3>1. pubMu'.todo # <<"status">> /\ pubMu'.todo # <<"status", "groups">>
      BY <2>1, <2>2, TodoLacks
    <3>2. QED
      BY <2>1, <2>2, <3>1, <1>8
  <2>3. QED
    BY <2>2, <1>2, <1>7 DEF Fed
<1>11. ~(Fed(s, "groups")' /\ widget.open)
  <2>1. Fed(s, "groups")' => "groups" \in sess'[s].streams
                             /\ \A k \in DOMAIN pubMu'.todo : pubMu'.todo[k] # "groups"
    BY <1>3 DEF Fed
  <2>2. ASSUME Fed(s, "groups")', widget.open PROVE FALSE
    <3>1. pubMu'.todo # <<"groups">> /\ pubMu'.todo # <<"status", "groups">>
      BY <2>1, <2>2, TodoLacks
    <3>2. QED
      BY <2>1, <2>2, <3>1, <1>8
  <2>3. QED
    BY <2>2
<1>12. FeedInv(s)'
  BY <1>3, <1>10, <1>11, FeedKept
<1>13. QED
  BY <1>9, <1>12

\* Its goroutine publishes a stream it subscribed to.
LEMMA SubscriberFed ==
    ASSUME TypeOK, PushInv, Ready, NEW s \in Sessions, s = widget.sess,
           CallInv(s), FeedInv(s), SubscribePublishes, pubMu.sess = s, sess'[s].at = "open"
    PROVE  CallInv(s)' /\ FeedInv(s)'
<1>1. PICK id \in 1..MaxCalls : /\ widget.pending = {id} /\ widget.again \in {0, id}
                                /\ Runs(s, id)
  BY RunsCall
<1>2. /\ pubMu.todo \in Todos /\ pubMu.todo # <<>>
      /\ pubMu.todo = <<"status">> => ~widget.open
      /\ sess[s].streams = Awaited
  BY <1>1 DEF SubscribePublishes, TypeOK, Runs
<1>3. /\ pubMu'.sess = s /\ pubMu'.call = pubMu.call /\ pubMu'.todo = Tail(pubMu.todo)
      /\ UNCHANGED <<status, widget, op>>
  BY DEF SubscribePublishes, TypeOK, core
<1>4. PICK x \in {"status", "groups"} : x = Head(pubMu.todo)
  BY <1>2, TodoFacts DEF Todos
<1>5. publishLocked(x, s)
  BY <1>4 DEF SubscribePublishes
<1>6. sess'[s] = sess[s]
  BY <1>5, Publishes
<1>7. /\ Fed(s, "status") \/ x = "status" =>
            /\ lastPushed'.status # None
            /\ StatusAt(widget', line'[s], Len(line'[s]), lastStatus')
      /\ x = "groups" /\ Fed(s, "status") =>
            GroupsArrive(widget', line'[s], lastPushed'.groups, lastStatus')
      /\ x = "groups" => lastPushed'.groups # None
      /\ NoReply(line[s]) => NoReply(line'[s])
      /\ \A i : OneReply(line[s], i) => OneReply(line'[s], i)
  BY <1>3, <1>5, FeedPublished
<1>8. \/ pubMu.todo = <<"status">> /\ x = "status" /\ pubMu'.todo = <<>>
      \/ pubMu.todo = <<"groups">> /\ x = "groups" /\ pubMu'.todo = <<>>
      \/ pubMu.todo = <<"status", "groups">> /\ x = "status" /\ pubMu'.todo = <<"groups">>
  BY <1>2, <1>3, <1>4, TodoFacts DEF Todos
<1>9. CallInv(s)'
  <2>1. pubMu'.todo # <<"status">>
    <3>1. <<>> # <<"status">> /\ <<"groups">> # <<"status">>
      OBVIOUS
    <3>2. QED
      BY <1>8, <3>1
  <2>2. QED
    BY <1>3, <1>6, <1>7, <2>1, CallKept
<1>10. x = "groups" => (Fed(s, "status") <=> "status" \in sess[s].streams)
  <2>1. x = "groups" => \A k \in DOMAIN pubMu.todo : pubMu.todo[k] # "status"
    BY <1>8, TodoLacks
  <2>2. QED
    BY <2>1 DEF Fed
<1>11. Fed(s, "status")' => Fed(s, "status") \/ x = "status"
  BY <1>6, <1>10 DEF Fed
<1>12. ASSUME Fed(s, "groups")', widget.open PROVE x = "groups" /\ Fed(s, "status")
  <2>1. "groups" \in sess[s].streams /\ \A k \in DOMAIN pubMu'.todo : pubMu'.todo[k] # "groups"
    BY <1>3, <1>6, <1>12 DEF Fed
  <2>2. pubMu'.todo # <<"groups">>
    BY <2>1, TodoLacks
  <2>3. x = "groups"
    BY <1>2, <1>8, <1>12, <2>2
  <2>4. "status" \in sess[s].streams
    BY <1>2, <1>12, <2>1 DEF Awaited, wantedStreams, AllStreams
  <2>5. QED
    BY <1>10, <2>3, <2>4
<1>13. FeedInv(s)'
  BY <1>3, <1>7, <1>11, <1>12 DEF FeedInv
<1>14. QED
  BY <1>9, <1>13

\* Every step of a patient owner's keeps the account of the panel's session.
LEMMA PanelStep ==
    ASSUME Patient, TypeOK, StreamInv, [Next]_vars,
           NEW s \in Sessions, s = widget'.sess, sess'[s].at = "open"
    PROVE  CallInv(s)' /\ FeedInv(s)'
<1>0. PushInv /\ FreeInv
  BY DEF StreamInv
<1>t. /\ sess \in [Sessions -> Conns] /\ line \in [Sessions -> Seq(Messages)]
      /\ widget \in Panels /\ pubMu.todo \in Todos /\ op \in Ops
  BY DEF TypeOK
<1>h. ASSUME widget.sess = s, sess[s].at = "open" PROVE Ready /\ CallInv(s) /\ FeedInv(s)
  <2>1. Ready /\ Open(widget.sess)
    BY <1>h DEF Ready, Open
  <2>2. CallInv(widget.sess) /\ FeedInv(widget.sess)
    BY <2>1 DEF StreamInv
  <2>3. QED
    BY <1>h, <2>1, <2>2
\* Steps that leave the panel, its session and its line alone,
<1>k. ASSUME widget' = widget, sess'[s] = sess[s], line'[s] = line[s],
             UNCHANGED <<lastPushed, lastStatus>>,
             pubMu' = pubMu \/ (pubMu.sess # s /\ pubMu'.sess # s),
             op.at \in {"publish", "publishing"} => op'.at \in {"publish", "publishing"}
      PROVE  CallInv(s)' /\ FeedInv(s)'
  <2>1. CallInv(s) /\ FeedInv(s)
    BY <1>h, <1>k
  <2>2. CallInv(s)'
    BY <1>k, <2>1, CallKept
  <2>3. (Fed(s, "status")' => Fed(s, "status")) /\ (Fed(s, "groups")' => Fed(s, "groups"))
    BY <1>k, FedSame
  <2>4. FeedInv(s)'
    BY <1>k, <2>1, <2>3, FeedKept
  <2>5. QED
    BY <2>2, <2>4
\* and publishes that are not for it.
<1>p. ASSUME NEW x \in {"status", "groups"}, NEW also \in Sessions \cup {None},
             publishLocked(x, also), widget' = widget, status' = status,
             pubMu.sess # s /\ pubMu'.sess # s,
             \/ x = "groups"
             \/ op.at \in {"publish", "publishing"} => op'.at \in {"publish", "publishing"}
      PROVE  CallInv(s)' /\ FeedInv(s)'
  <2>1. sess'[s] = sess[s]
    BY <1>p, Publishes
  <2>2. Ready /\ CallInv(s) /\ FeedInv(s)
    BY <1>h, <1>p, <2>1
  <2>3. /\ Fed(s, "status") =>
              /\ lastPushed'.status # None
              /\ StatusAt(widget', line'[s], Len(line'[s]), lastStatus')
        /\ Fed(s, "groups") /\ widget'.open =>
              IF lastPushed'.groups = None THEN op.at \in {"publish", "publishing"}
              ELSE GroupsArrive(widget', line'[s], lastPushed'.groups, lastStatus')
        /\ x = "groups" => lastPushed'.groups # None
        /\ NoReply(line[s]) => NoReply(line'[s])
        /\ \A id : OneReply(line[s], id) => OneReply(line'[s], id)
    BY <1>0, <1>p, <2>2, FeedPublished
  <2>4. CallInv(s)'
    BY <1>p, <2>1, <2>2, <2>3, CallKept
  <2>5. (Fed(s, "status")' => Fed(s, "status")) /\ (Fed(s, "groups")' => Fed(s, "groups"))
    BY <1>p, <2>1, FedSame
  <2>6. FeedInv(s)'
    BY <1>p, <2>3, <2>5 DEF FeedInv
  <2>7. QED
    BY <2>4, <2>6
<1>1. ASSUME NEW kind \in {"start", "stop", "use"}, OpCore(kind) PROVE CallInv(s)' /\ FeedInv(s)'
  <2>1. op.at = "idle"
    BY <1>1, LockFacts DEF OpCore
  <2>2. QED
    BY <1>1, <1>k, <2>1 DEF OpCore, pushed
<1>2. ASSUME OpMemory PROVE CallInv(s)' /\ FeedInv(s)'
  <2>1. op'.at = "publish"
    BY <1>2, <1>t DEF OpMemory, Ops, NoOp
  <2>2. QED
    BY <1>2, <1>k, <2>1 DEF OpMemory, pushed
<1>3. ASSUME OpPublish PROVE CallInv(s)' /\ FeedInv(s)'
  <2>1. op'.at = "publishing"
    BY <1>3, <1>t DEF OpPublish, Ops, NoOp
  <2>2. publishLocked("status", None) /\ widget' = widget /\ status' = status
        /\ pubMu.sess # s /\ pubMu'.sess # s
    BY <1>3, LockFacts DEF OpPublish, core
  <2>3. QED
    BY <1>p, <2>1, <2>2
<1>4. ASSUME OpPublishes PROVE CallInv(s)' /\ FeedInv(s)'
  <2>1. pubMu.sess = None
    BY <1>0, <1>4, LockFacts DEF OpPublishes, PushInv
  <2>2. publishLocked("groups", None) /\ widget' = widget /\ status' = status
        /\ pubMu.sess # s /\ pubMu'.sess # s
    BY <1>4, <2>1, LockFacts DEF OpPublishes, core
  <2>3. QED
    BY <1>p, <2>2
<1>5. ASSUME CoreMoves PROVE CallInv(s)' /\ FeedInv(s)'
  BY <1>5, <1>k DEF CoreMoves, pushed
<1>6. ASSUME TickGroups PROVE CallInv(s)' /\ FeedInv(s)'
  <2>1. publishLocked("groups", None) /\ widget' = widget /\ status' = status
        /\ pubMu.sess # s /\ pubMu'.sess # s
    BY <1>6, LockFacts DEF TickGroups, core
  <2>2. QED
    BY <1>p, <2>1
<1>7. ASSUME TickRead PROVE CallInv(s)' /\ FeedInv(s)'
  BY <1>7, <1>k DEF TickRead, pushed
<1>8. ASSUME broadcast PROVE CallInv(s)' /\ FeedInv(s)'
  <2>1. PICK m : m = [stream |-> "connections", data |-> tick.run]
    OBVIOUS
  <2>2. m \in Messages /\ m.stream = "connections"
    <3>1. tick.run \in 1..MaxOps
      BY <1>8 DEF broadcast, NoTick, TypeOK
    <3>2. QED
      BY <2>1, <3>1, MessageTyped
  <2>3. PICK to : sendLine(sess, to, m) /\ UNCHANGED <<lastPushed, lastStatus, widget, pubMu, op>>
    BY <1>8, <2>1 DEF broadcast, pushed
  <2>4. sess'[s] = sess[s] /\ (line'[s] = Append(line[s], m) \/ line'[s] = line[s])
    <3>1. sess'[s].at = "open" =>
             /\ sess'[s] = sess[s]
             /\ line'[s] = IF s \in to THEN Append(line[s], m) ELSE line[s]
      BY <2>2, <2>3, Sends
    <3>2. QED
      BY <3>1
  <2>5. CASE line'[s] = line[s]
    BY <1>k, <2>3, <2>4, <2>5
  <2>6. CASE line'[s] = Append(line[s], m)
    <3>1. CallInv(s) /\ FeedInv(s)
      BY <1>h, <2>3, <2>4
    <3>2. line[s] \in Seq(Messages)
      BY <1>t
    <3>3. (NoReply(line[s]) => NoReply(line'[s]))
          /\ \A id : OneReply(line[s], id) => OneReply(line'[s], id)
      BY <2>2, <2>6, <3>2, RepliesKept
    <3>4. CallInv(s)'
      BY <2>3, <2>4, <3>1, <3>3, CallKept
    <3>5. (Fed(s, "status")' => Fed(s, "status")) /\ (Fed(s, "groups")' => Fed(s, "groups"))
      BY <2>3, <2>4, FedSame
    <3>6. FeedInv(s)'
      BY <2>2, <2>3, <2>6, <3>1, <3>2, <3>5, FeedAppended
    <3>7. QED
      BY <3>4, <3>6
  <2>7. QED
    BY <2>4, <2>5, <2>6
<1>9. ASSUME NEW o \in Sessions, NEW c \in sess[o].calls, subscribe(o, c)
      PROVE  CallInv(s)' /\ FeedInv(s)'
  <2>1. widget' = widget /\ line' = line /\ pubMu.sess = None /\ pubMu'.sess = o
        /\ UNCHANGED <<lastPushed, lastStatus, op>>
    BY <1>9, LockFacts DEF subscribe, pushed
  <2>2. CASE o = s
    <3>1. sess[s].at = "open"
      BY <1>9, <1>t, <2>2 DEF subscribe, Conns
    <3>2. CallInv(s) /\ FeedInv(s)
      BY <1>h, <2>1, <3>1
    <3>3. QED
      BY <1>9, <2>2, <3>2, SubscribeRuns
  <2>3. CASE o # s
    <3>1. sess'[s] = sess[s]
      BY <1>9, <1>t, <2>3 DEF subscribe
    <3>2. QED
      BY <1>k, <2>1, <2>3, <3>1
  <2>4. QED
    BY <2>2, <2>3
<1>10. ASSUME NEW o \in Sessions, SessionEnds(o) PROVE CallInv(s)' /\ FeedInv(s)'
  <2>1. o # s /\ widget' = widget /\ UNCHANGED <<lastPushed, lastStatus, op, pubMu>>
    BY <1>10 DEF SessionEnds, pushed
  <2>2. sess'[s] = sess[s] /\ line'[s] = line[s]
    BY <1>10, <1>t, <2>1 DEF SessionEnds
  <2>3. QED
    BY <1>k, <2>1, <2>2
<1>11. ASSUME NEW o \in Sessions, Connect(o) PROVE CallInv(s)' /\ FeedInv(s)'
  <2>1. /\ NextId \in 1..MaxCalls /\ o = s /\ widget'.open = widget.open
        /\ widget'.pending = widget.pending \cup {NextId} /\ widget'.again = widget.again
        /\ sess'[s].streams = sess[s].streams
        /\ sess'[s].calls = sess[s].calls \cup
              {[id |-> NextId, on |-> TRUE, streams |-> wantedStreams]}
    BY <1>11, ConnectCalls
  <2>2. /\ sess[s] = NoSession /\ line[s] = <<>> /\ pubMu.sess # s
        /\ widget.pending = {} /\ widget.again = 0 /\ line' = line /\ pubMu' = pubMu
    BY <1>0, <1>11, <2>1 DEF Connect, FreeInv
  <2>3. PICK id \in 1..MaxCalls : id = NextId
    BY <2>1
  <2>4. PICK c : c = [id |-> id, on |-> TRUE, streams |-> wantedStreams]
    OBVIOUS
  <2>5. c \in StreamCalls /\ c.id = id /\ c.on /\ c.streams = wantedStreams
    BY <2>4 DEF StreamCalls, wantedStreams, AllStreams
  <2>6. /\ widget'.pending = {id} /\ widget'.again = 0
        /\ sess'[s].calls = {c} /\ sess'[s].streams = {}
    BY <2>1, <2>2, <2>3, <2>4, FreeFacts
  <2>7. wantedStreams' = wantedStreams
    BY <2>1 DEF wantedStreams
  <2>8. NoReply(line'[s])
    BY <2>2 DEF NoReply
  <2>9. Asks(c, sess[s].streams)'
    BY <2>5, <2>6, <2>7 DEF Asks
  <2>10. Waits(s, id)'
    BY <2>2, <2>5, <2>6, <2>8, <2>9 DEF Waits
  <2>11. CallInv(s)'
    BY <2>6, <2>10 DEF CallInv
  <2>12. FeedInv(s)'
    BY <2>6 DEF FeedInv, Fed
  <2>13. QED
    BY <2>11, <2>12
<1>12. ASSUME SubscribePublishes PROVE CallInv(s)' /\ FeedInv(s)'
  <2>1. PICK x \in {"status", "groups"} : x = Head(pubMu.todo)
    BY <1>12, <1>t, TodoFacts DEF SubscribePublishes, Todos
  <2>2. publishLocked(x, pubMu.sess) /\ widget' = widget /\ status' = status /\ op' = op
        /\ pubMu'.sess = pubMu.sess /\ pubMu.sess \in Sessions
    BY <1>12, <2>1 DEF SubscribePublishes, core, TypeOK
  <2>3. CASE pubMu.sess = s
    <3>1. sess'[s] = sess[s]
      BY <2>2, Publishes
    <3>2. Ready /\ CallInv(s) /\ FeedInv(s)
      BY <1>h, <2>2, <3>1
    <3>3. QED
      BY <1>0, <1>12, <2>2, <2>3, <3>2, SubscriberFed
  <2>4. CASE pubMu.sess # s
    BY <1>p, <2>2, <2>4
  <2>5. QED
    BY <2>3, <2>4
<1>13. ASSUME Reply PROVE CallInv(s)' /\ FeedInv(s)'
  <2>1. PICK m : m = [stream |-> "reply", data |-> pubMu.call]
    OBVIOUS
  <2>2. m \in Messages /\ m.stream = "reply" /\ pubMu.call \in 0..MaxCalls
    BY <2>1, MessageTyped DEF TypeOK
  <2>3. sendLine(sess, {pubMu.sess}, m) /\ UNCHANGED <<lastPushed, lastStatus, widget, op>>
        /\ pubMu'.sess = None /\ pubMu.todo = <<>>
    BY <1>13, <2>1, LockFacts DEF Reply, pushed
  <2>4. sess'[s] = sess[s]
        /\ line'[s] = IF s \in {pubMu.sess} THEN Append(line[s], m) ELSE line[s]
    BY <2>2, <2>3, Sends
  <2>5. CallInv(s) /\ FeedInv(s)
    BY <1>h, <2>3, <2>4
  <2>6. CASE pubMu.sess # s
    BY <1>k, <2>3, <2>4, <2>6
  <2>7. CASE pubMu.sess = s
    <3>1. PICK id \in 1..MaxCalls : /\ widget.pending = {id} /\ widget.again \in {0, id}
                                    /\ Runs(s, id)
      BY <2>5, <2>7, RunsCall
    <3>2. line[s] \in Seq(Messages) /\ line'[s] = Append(line[s], m)
      BY <1>t, <2>4, <2>7
    <3>3. OneReply(line'[s], id)
      BY <2>1, <2>2, <3>1, <3>2, ReplySent DEF Runs
    <3>4. Awaited' = Awaited
      BY <2>3 DEF Awaited, wantedStreams
    <3>5. Replies(s, id)'
      BY <2>3, <2>4, <3>1, <3>3, <3>4 DEF Runs, Replies
    <3>6. CallInv(s)'
      BY <2>3, <3>1, <3>5 DEF CallInv
    <3>7. \A x : Fed(s, x)' => Fed(s, x)
      BY <2>3, <2>4, TodoLacks DEF Fed
    <3>8. FeedInv(s)'
      BY <2>2, <2>3, <2>5, <3>2, <3>7, FeedAppended
    <3>9. QED
      BY <3>6, <3>8
  <2>8. QED
    BY <2>6, <2>7
<1>14. ASSUME Disconnect PROVE CallInv(s)' /\ FeedInv(s)'
  BY <1>14, DisconnectedFacts DEF Disconnect
<1>15. ASSUME forgetAll PROVE CallInv(s)' /\ FeedInv(s)'
  <2>1. widget'.sess = None
    <3>1. PICK w : w = [widget EXCEPT !.status = NoStatus]
      OBVIOUS
    <3>2. w = [sess |-> w.sess, open |-> w.open, status |-> w.status, groups |-> w.groups,
               loaded |-> w.loaded, conns |-> w.conns, pending |-> w.pending, again |-> w.again]
          /\ w.sess = None
      BY <1>15, <1>t, <3>1 DEF Panels, forgetAll, Ready
    <3>3. widget' = [w EXCEPT !.groups = NoGroups, !.loaded = FALSE, !.conns = {}]
      BY <1>15, <3>1 DEF forgetAll, forgetRuntime
    <3>4. QED
      BY <3>2, <3>3
  <2>2. QED
    BY <2>1
<1>16. ASSUME ReadEvent PROVE CallInv(s)' /\ FeedInv(s)'
  <2>1. widget.sess \in Sessions
    BY <1>16, <1>t DEF ReadEvent, Ready, Panels
  <2>2. PICK l \in Seq(Messages) : l = line[widget.sess]
    BY <1>t, <2>1
  <2>3. l # <<>> /\ Head(l).stream # "reply" /\ widget' = applyEvent(widget, Head(l))
        /\ line' = [line EXCEPT ![widget.sess] = Tail(l)] /\ sess' = sess
        /\ UNCHANGED <<lastPushed, lastStatus, pubMu, op>>
    BY <1>16, <2>2 DEF ReadEvent, pushed
  <2>4. PICK m \in Messages : m = Head(l)
    BY <2>3, TailFacts
  <2>5. /\ widget'.sess = widget.sess /\ widget'.open = widget.open
        /\ widget'.pending = widget.pending /\ widget'.again = widget.again
        /\ widget'.status = IF m.stream = "status" THEN m.data ELSE widget.status
        /\ m.stream = "groups" /\ widget.open =>
              /\ widget'.groups = m.data /\ widget'.loaded = (widget.status.started # 0)
        /\ m.stream # "groups" /\ widget'.status = widget.status =>
              widget'.groups = widget.groups /\ widget'.loaded = widget.loaded
    BY <2>3, <2>4, Applies
  <2>6. widget.sess = s /\ line[s] = l /\ line'[s] = Tail(l) /\ CallInv(s) /\ FeedInv(s)
    BY <1>h, <1>t, <2>2, <2>3, <2>5
  <2>7. (NoReply(line[s]) => NoReply(line'[s]))
        /\ \A id : OneReply(line[s], id) => OneReply(line'[s], id)
    BY <2>3, <2>6, RepliesRead
  <2>8. CallInv(s)'
    BY <2>3, <2>5, <2>6, <2>7, CallKept
  <2>9. (Fed(s, "status")' => Fed(s, "status")) /\ (Fed(s, "groups")' => Fed(s, "groups"))
    BY <2>3, FedSame
  <2>10. Fed(s, "status")' => /\ lastPushed'.status # None
                              /\ StatusAt(widget', line'[s], Len(line'[s]), lastStatus')
    <3>1. Len(l) \in 1..Len(l) /\ Len(Tail(l)) = Len(l) - 1
      BY <2>3, TailFacts
    <3>2. StatusAt(widget, l, Len(l), lastStatus) =>
             StatusAt(widget', Tail(l), Len(l) - 1, lastStatus)
      BY <2>3, <2>4, <2>5, <3>1, StatusRead
    <3>3. QED
      BY <2>3, <2>6, <2>9, <3>1, <3>2 DEF FeedInv
  <2>11. Fed(s, "groups")' /\ widget'.open =>
            IF lastPushed'.groups = None THEN op'.at \in {"publish", "publishing"}
            ELSE GroupsArrive(widget', line'[s], lastPushed'.groups, lastStatus')
    <3>1. widget.open /\ GroupsArrive(widget, l, lastPushed.groups, lastStatus) =>
             GroupsArrive(widget', Tail(l), lastPushed.groups, lastStatus)
      BY <2>3, <2>4, <2>5, GroupsRead
    <3>2. QED
      BY <2>3, <2>5, <2>6, <2>9, <3>1 DEF FeedInv
  <2>12. FeedInv(s)'
    BY <2>10, <2>11 DEF FeedInv
  <2>13. QED
    BY <2>8, <2>12
<1>17. ASSUME ReadReply PROVE CallInv(s)' /\ FeedInv(s)'
  <2>1. widget.sess \in Sessions
    BY <1>17, <1>t DEF ReadReply, Ready, Panels
  <2>2. PICK l \in Seq(Messages) : l = line[widget.sess]
    BY <1>t, <2>1
  <2>3. l # <<>> /\ Head(l).stream = "reply"
        /\ line' = [line EXCEPT ![widget.sess] = Tail(l)]
        /\ UNCHANGED <<lastPushed, lastStatus, pubMu, op>>
    BY <1>17, <2>2 DEF ReadReply, pushed
  <2>4. widget.sess = s
    BY <1>17, <2>1, ReadReplyCalls
  <2>5. PICK id : id = Head(line[s]).data
    OBVIOUS
  <2>6. /\ widget'.open = widget.open /\ widget'.status = widget.status
        /\ widget'.groups = widget.groups /\ widget'.loaded = widget.loaded
        /\ sess'[s].at = sess[s].at /\ sess'[s].streams = sess[s].streams
        /\ widget.again = id =>
              /\ NextId \in 1..MaxCalls
              /\ widget'.pending = (widget.pending \ {id}) \cup {NextId} /\ widget'.again = 0
              /\ sess[s].at = "open" => sess'[s].calls = sess[s].calls \cup
                    {[id |-> NextId, on |-> TRUE, streams |-> wantedStreams]}
        /\ widget.again # id =>
              /\ widget'.pending = widget.pending \ {id} /\ widget'.again = widget.again
              /\ sess' = sess
    BY <1>17, <2>4, <2>5, ReadReplyCalls
  <2>7. CallInv(s) /\ FeedInv(s) /\ line[s] = l /\ line'[s] = Tail(l) /\ id = Head(l).data
    BY <1>h, <1>t, <2>2, <2>3, <2>4, <2>5, <2>6
  <2>8. ~NoReply(l)
    BY <2>3, RepliesRead
  <2>9. PICK i \in 1..MaxCalls : /\ widget.pending = {i} /\ widget.again \in {0, i}
                                 /\ Replies(s, i)
    BY <2>7, <2>8 DEF CallInv, Idle, Waits, Runs
  <2>10. id = i /\ NoReply(Tail(l)) /\ pubMu.sess # s /\ sess[s].calls = {}
         /\ sess[s].streams = Awaited
    BY <2>3, <2>7, <2>9, RepliesRead DEF Replies
  <2>11. wantedStreams' = wantedStreams
    BY <2>6 DEF wantedStreams
  <2>12. CallInv(s)'
    <3>1. CASE widget.again = id
      <4>1. PICK n \in 1..MaxCalls : n = NextId
        BY <2>6, <3>1
      <4>2. PICK c : c = [id |-> n, on |-> TRUE, streams |-> wantedStreams]
        OBVIOUS
      <4>3. c \in StreamCalls /\ c.id = n /\ c.on /\ c.streams = wantedStreams
        BY <4>2 DEF StreamCalls, wantedStreams, AllStreams
      <4>4. sess[s].at = "open"
        BY <2>6
      <4>5. sess'[s].calls = {c} /\ widget'.pending = {n} /\ widget'.again = 0
        BY <2>6, <2>9, <2>10, <3>1, <4>1, <4>2, <4>4
      <4>6. sess'[s].streams = {}
        BY <2>6, <2>9, <2>10, <3>1 DEF Awaited
      <4>7. Asks(c, sess[s].streams)'
        BY <2>11, <4>3, <4>5, <4>6 DEF Asks
      <4>8. Waits(s, n)'
        BY <2>3, <2>7, <2>10, <4>3, <4>5, <4>7 DEF Waits
      <4>9. QED
        BY <4>5, <4>8 DEF CallInv
    <3>2. CASE widget.again # id
      <4>1. widget'.pending = {} /\ widget'.again = 0 /\ sess' = sess
        BY <2>6, <2>9, <2>10, <3>2
      <4>2. sess'[s].streams = wantedStreams'
        BY <2>6, <2>10, <2>11, <4>1 DEF Awaited
      <4>3. Idle(s)'
        BY <2>3, <2>7, <2>10, <4>1, <4>2 DEF Idle
      <4>4. QED
        BY <4>1, <4>3 DEF CallInv
    <3>3. QED
      BY <3>1, <3>2
  <2>13. (Fed(s, "status")' => Fed(s, "status")) /\ (Fed(s, "groups")' => Fed(s, "groups"))
    BY <2>3, <2>6, FedSame
  <2>14. Fed(s, "status")' => /\ lastPushed'.status # None
                              /\ StatusAt(widget', line'[s], Len(line'[s]), lastStatus')
    <3>1. Len(l) \in 1..Len(l) /\ Len(Tail(l)) = Len(l) - 1
      BY <2>3, TailFacts
    <3>2. StatusAt(widget, l, Len(l), lastStatus) =>
             StatusAt(widget', Tail(l), Len(l) - 1, lastStatus)
      BY <2>3, <2>6, <3>1, StatusRead
    <3>3. QED
      BY <2>3, <2>7, <2>13, <3>1, <3>2 DEF FeedInv
  <2>15. Fed(s, "groups")' /\ widget'.open =>
            IF lastPushed'.groups = None THEN op'.at \in {"publish", "publishing"}
            ELSE GroupsArrive(widget', line'[s], lastPushed'.groups, lastStatus')
    <3>1. GroupsArrive(widget, l, lastPushed.groups, lastStatus) =>
             GroupsArrive(widget', Tail(l), lastPushed.groups, lastStatus)
      BY <2>3, <2>6, GroupsRead
    <3>2. QED
      BY <2>3, <2>6, <2>7, <2>13, <3>1 DEF FeedInv
  <2>16. QED
    BY <2>12, <2>14, <2>15 DEF FeedInv
<1>18. ASSUME TogglePanel PROVE CallInv(s)' /\ FeedInv(s)'
  <2>1. CASE ~Ready
    <3>1. widget' = [widget EXCEPT !.open = ~@] /\ widget.sess = None
      BY <1>18, <2>1 DEF TogglePanel, Ready
    <3>2. widget'.sess = None
      BY <1>t, <3>1 DEF Panels
    <3>3. QED
      BY <3>2
  <2>2. CASE Ready
    <3>1. widget.sess \in Sessions
      BY <1>t, <2>2 DEF Ready, Panels
    <3>2. widget.sess = s
      BY <1>18, <2>2, <3>1, ToggleCalls
    <3>3. /\ NextId \in 1..MaxCalls /\ widget'.open = ~widget.open
          /\ widget'.status = widget.status
          /\ widget'.groups = widget.groups /\ widget'.loaded = widget.loaded
          /\ widget'.pending = widget.pending \cup {NextId} /\ widget'.again = widget.again
          /\ sess'[s].at = sess[s].at /\ sess'[s].streams = sess[s].streams
          /\ sess[s].at = "open" => sess'[s].calls = sess[s].calls \cup
                {[id |-> NextId, on |-> ~widget.open, streams |-> PanelStreams]}
      BY <1>18, <2>2, <3>2, ToggleCalls
    <3>4. widget.pending = {} /\ line' = line
          /\ UNCHANGED <<lastPushed, lastStatus, pubMu, op>>
      BY <1>18 DEF TogglePanel, pushed
    <3>5. CallInv(s) /\ FeedInv(s) /\ sess[s].at = "open"
      BY <1>h, <3>2, <3>3
    <3>6. Idle(s)
      BY <3>4, <3>5 DEF CallInv
    <3>7. PICK n \in 1..MaxCalls : n = NextId
      BY <3>3
    <3>8. PICK o : o = ~widget.open
      OBVIOUS
    <3>9. PICK c : c = [id |-> n, on |-> o, streams |-> PanelStreams]
      OBVIOUS
    <3>10. c \in StreamCalls /\ c.id = n /\ c.on = o /\ c.streams = PanelStreams
      BY <3>8, <3>9 DEF StreamCalls, AllStreams
    <3>11. sess'[s].calls = {c} /\ widget'.pending = {n} /\ widget'.again = 0
      BY <3>3, <3>4, <3>5, <3>6, <3>7, <3>8, <3>9 DEF Idle
    <3>12. sess[s].streams = IF widget.open THEN AllStreams ELSE {"status"}
      BY <3>6 DEF Idle, wantedStreams
    <3>13. Asks(c, sess[s].streams)'
      BY <3>3, <3>8, <3>10, <3>11, <3>12 DEF Asks
    <3>14. Waits(s, n)'
      BY <3>4, <3>6, <3>10, <3>11, <3>13 DEF Waits, Idle
    <3>15. CallInv(s)'
      BY <3>11, <3>14 DEF CallInv
    <3>16. (Fed(s, "status")' => Fed(s, "status")) /\ (Fed(s, "groups")' => Fed(s, "groups"))
      BY <3>3, <3>4, FedSame
    <3>17. ~(Fed(s, "groups")' /\ widget'.open)
      <4>1. widget'.open => ~widget.open
        BY <3>3, Zenon
      <4>2. ~widget.open => sess[s].streams = {"status"}
        BY <3>12, Zenon
      <4>3. "groups" \notin {"status"} /\ sess'[s].streams = sess[s].streams
        BY <3>3
      <4>4. QED
        BY <4>1, <4>2, <4>3, Zenon DEF Fed
    <3>18. FeedInv(s)'
      BY <3>3, <3>4, <3>5, <3>16, <3>17, FeedKept
    <3>19. QED
      BY <3>15, <3>18
  <2>3. QED
    BY <2>1, <2>2
<1>19. ASSUME refresh PROVE CallInv(s)' /\ FeedInv(s)'
  <2>1. widget.sess \in Sessions
    BY <1>19, <1>t DEF refresh, Ready, Panels
  <2>2. widget.sess = s
    BY <1>19, <2>1, RefreshCalls
  <2>3. /\ NextId \in 1..MaxCalls /\ widget'.open = widget.open
        /\ widget'.status = widget.status
        /\ widget'.groups = widget.groups /\ widget'.loaded = widget.loaded
        /\ widget'.pending = widget.pending \cup {NextId} /\ widget'.again = NextId
        /\ sess'[s].at = sess[s].at /\ sess'[s].streams = sess[s].streams
        /\ sess[s].at = "open" => sess'[s].calls = sess[s].calls \cup
              {[id |-> NextId, on |-> FALSE, streams |-> AllStreams]}
    BY <1>19, <2>2, RefreshCalls
  <2>4. widget.pending = {} /\ line' = line
        /\ UNCHANGED <<lastPushed, lastStatus, pubMu, op>>
    BY <1>19 DEF refresh, pushed
  <2>5. CallInv(s) /\ FeedInv(s) /\ sess[s].at = "open"
    BY <1>h, <2>2, <2>3
  <2>6. Idle(s)
    BY <2>4, <2>5 DEF CallInv
  <2>7. PICK n \in 1..MaxCalls : n = NextId
    BY <2>3
  <2>8. PICK c : c = [id |-> n, on |-> FALSE, streams |-> AllStreams]
    OBVIOUS
  <2>9. c \in StreamCalls /\ c.id = n /\ ~c.on /\ c.streams = AllStreams
    BY <2>8 DEF StreamCalls
  <2>10. sess'[s].calls = {c} /\ widget'.pending = {n} /\ widget'.again = n
    BY <2>3, <2>4, <2>5, <2>6, <2>7, <2>8 DEF Idle
  <2>11. sess'[s].streams = wantedStreams'
    BY <2>3, <2>6 DEF Idle, wantedStreams
  <2>12. Asks(c, sess[s].streams)'
    BY <2>9, <2>10, <2>11 DEF Asks
  <2>13. Waits(s, n)'
    BY <2>4, <2>6, <2>9, <2>10, <2>12 DEF Waits, Idle
  <2>14. CallInv(s)'
    BY <2>10, <2>13 DEF CallInv
  <2>15. (Fed(s, "status")' => Fed(s, "status")) /\ (Fed(s, "groups")' => Fed(s, "groups"))
    BY <2>3, <2>4, FedSame
  <2>16. FeedInv(s)'
    BY <2>3, <2>4, <2>5, <2>15, FeedKept
  <2>17. QED
    BY <2>14, <2>16
<1>20. ASSUME Restart PROVE CallInv(s)' /\ FeedInv(s)'
  BY <1>20, DisconnectedFacts DEF Restart
<1>21. ASSUME UNCHANGED vars PROVE CallInv(s)' /\ FeedInv(s)'
  BY <1>21, <1>k DEF vars, pushed
<1>22. QED
  BY <1>1, <1>2, <1>3, <1>4, <1>5, <1>6, <1>7, <1>8, <1>9, <1>10, <1>11, <1>12, <1>13,
     <1>14, <1>15, <1>16, <1>17, <1>18, <1>19, <1>20, <1>21 DEF Next

\* Every step of a patient owner's, of the daemon's or of the core's keeps the
\* inductive invariant.
LEMMA StreamStep ==
    ASSUME Patient, TypeOK, StreamInv, [Next]_vars
    PROVE  StreamInv'
<1>1. TypeOK'
  BY TypeStep
<1>2. PushInv'
  BY PushStep DEF StreamInv
<1>3. FreeInv'
  BY FreeStep DEF StreamInv
<1>4. ASSUME Ready', Open(widget.sess)' PROVE CallInv(widget.sess)' /\ FeedInv(widget.sess)'
  <2>1. widget'.sess \in Sessions
    BY <1>1, <1>4 DEF TypeOK, Ready, Panels
  <2>2. PICK s \in Sessions : s = widget'.sess
    BY <2>1
  <2>3. sess'[s].at = "open"
    BY <1>4, <2>2 DEF Open
  <2>4. CallInv(s)' /\ FeedInv(s)'
    BY <2>2, <2>3, PanelStep
  <2>5. QED
    BY <2>2, <2>4
<1>5. QED
  BY <1>2, <1>3, <1>4 DEF StreamInv

\* The types and the inductive invariant hold throughout.
LEMMA StreamsSound ==
    ASSUME Patient
    PROVE  Spec => [](TypeOK /\ StreamInv)
<1>1. Init => StreamInv
  <2>1. SUFFICES ASSUME Init PROVE StreamInv
    OBVIOUS
  <2>2. PushInv
    BY <2>1 DEF Init, PushInv, NothingPushed, NoOp
  <2>3. widget.sess = None /\ widget.pending = {} /\ widget.again = 0
    BY <2>1 DEF Init
  <2>4. pubMu.sess = None
    BY <2>1 DEF Init, Unlocked
  <2>5. \A s \in Sessions : sess[s] = NoSession /\ line[s] = <<>> /\ s # None
    BY <2>1, NoneAssumption DEF Init
  <2>6. FreeInv
    BY <2>3, <2>4, <2>5 DEF FreeInv, Ready
  <2>7. QED
    BY <2>2, <2>3, <2>6 DEF StreamInv, Ready
<1>2. TypeOK /\ StreamInv /\ [Next]_vars => StreamInv'
  BY StreamStep
<1>3. Spec => []TypeOK
  BY StreamsTyped
<1>4. QED
  BY <1>1, <1>2, <1>3, PTL DEF Spec

\* Once nothing is under way, a patient owner's panel has the streams it
\* wants, and what it shows is what was pushed last.
LEMMA SettledFacts ==
    ASSUME TypeOK, StreamInv, Settled
    PROVE  /\ sess[widget.sess].streams = wantedStreams
           /\ widget.status = status
           /\ widget.open /\ ~moved =>
                 widget.groups = groups /\ widget.loaded = (status.started # 0)
<1>1. PICK s \in Sessions : s = widget.sess
  BY DEF Settled, Ready, TypeOK, Panels
<1>2. /\ op = NoOp /\ op.at = "idle" /\ pubMu.sess = None /\ line[s] = <<>>
      /\ widget.pending = {} /\ s # None
  BY <1>1, NoneAssumption DEF Settled, NoOp, Unlocked
<1>3. CallInv(s) /\ FeedInv(s) /\ PushInv
  BY <1>1 DEF StreamInv, Settled
<1>4. sess[s].streams = wantedStreams
  BY <1>2, <1>3 DEF CallInv, Idle
<1>5. Fed(s, "status")
  BY <1>2, <1>4 DEF Fed, wantedStreams, AllStreams
<1>6. lastPushed.status # None /\ StatusAt(widget, <<>>, 0, lastStatus)
  BY <1>2, <1>3, <1>5 DEF FeedInv
<1>7. widget.status = lastStatus /\ status = lastStatus
  <2>1. status = lastStatus
    BY <1>2, <1>3, <1>6 DEF PushInv
  <2>2. widget.status = lastStatus
    BY <1>6 DEF StatusAt, IsStatus, StatusOf
  <2>3. QED
    BY <2>1, <2>2
<1>8. ASSUME widget.open, ~moved
      PROVE  widget.groups = groups /\ widget.loaded = (status.started # 0)
  <2>1. Fed(s, "groups")
    BY <1>2, <1>4, <1>8 DEF Fed, wantedStreams, AllStreams, PanelStreams
  <2>2. lastPushed.groups # None /\ GroupsArrive(widget, <<>>, lastPushed.groups, lastStatus)
    BY <1>2, <1>3, <1>8, <2>1 DEF FeedInv
  <2>3. lastPushed.groups = groups
    BY <1>2, <1>3, <1>8, <2>2 DEF PushInv
  <2>4. widget.groups = lastPushed.groups /\ widget.loaded = (lastStatus.started # 0)
    BY <2>2 DEF GroupsArrive, IsGroups, GroupsOf
  <2>5. QED
    BY <1>7, <2>3, <2>4
<1>9. QED
  BY <1>1, <1>4, <1>7, <1>8

\* The panel is a mirror of the daemon once nothing is under way: whatever
\* publishes and the ticker push, in whatever order the calls and their replies
\* come, and though publishLocked leaves out a value that equals the last one
\* and the panel forgets the groups at each new runtime, Service.qml ends up
\* with the daemon's status and, when open, with the groups of that run.  The
\* owner toggles and refreshes only once the last call is answered.
THEOREM StreamsMirror ==
    ASSUME Patient
    PROVE  Spec => []MirrorsDaemon
<1>1. TypeOK /\ StreamInv => MirrorsDaemon
  BY SettledFacts DEF MirrorsDaemon, ShowsStatus, ShowsGroups
<1>2. QED
  BY <1>1, StreamsSound, PTL

\* The streams the panel's session is subscribed to are those of a panel that
\* is open, or the status alone of one that is closed, once the calls of
\* Service.qml's toggles, refreshes and reconnections are answered; for an
\* owner who waits for the answer, since each call has a goroutine of its own
\* and nothing else keeps two of them in order.
THEOREM StreamsFollow ==
    ASSUME Patient
    PROVE  Spec => []PanelFollows
<1>1. TypeOK /\ StreamInv => PanelFollows
  BY SettledFacts DEF PanelFollows, wantedStreams
<1>2. QED
  BY <1>1, StreamsSound, PTL
=============================================================================
