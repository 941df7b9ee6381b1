--------------------------- MODULE SessionsProofs ---------------------------
(***************************************************************************)
(* Sessions and their shutdown, proved of module Sessions for any number   *)
(* of connections, calls and events and for every length of the queues.    *)
(***************************************************************************)
EXTENDS Sessions, SequenceTheorems, FiniteSetTheorems, TLAPS

USE SessionsAssumption

(***************************************************************************)
(* Sequences as queues.                                                    *)
(***************************************************************************)
\* What a queue holds after a line was put at its end.
LEMMA HasAppend ==
    ASSUME NEW S, NEW s \in Seq(S), NEW x \in S
    PROVE  /\ Append(s, x) \in Seq(S) /\ Len(Append(s, x)) = Len(s) + 1
           /\ \A y : Has(Append(s, x), y) <=> Has(s, y) \/ y = x
<1>1. /\ Append(s, x) \in Seq(S) /\ Len(Append(s, x)) = Len(s) + 1
      /\ \A i \in 1 .. Len(s) : Append(s, x)[i] = s[i]
      /\ Append(s, x)[Len(s) + 1] = x
  BY AppendProperties
<1>2. Len(s) \in Nat /\ DOMAIN s = 1 .. Len(s)
      /\ DOMAIN Append(s, x) = 1 .. Len(s) + 1
  BY <1>1, LenProperties
<1>3. ASSUME NEW y PROVE Has(Append(s, x), y) <=> Has(s, y) \/ y = x
  BY <1>1, <1>2 DEF Has
<1>4. QED
  BY <1>1, <1>3

\* What it holds besides its first line.
LEMMA HasTail ==
    ASSUME NEW S, NEW s \in Seq(S), s # <<>>
    PROVE  /\ Head(s) \in S /\ Tail(s) \in Seq(S) /\ Len(Tail(s)) = Len(s) - 1
           /\ Len(s) \in Nat \ {0}
           /\ \A i \in 1 .. Len(s) - 1 : Tail(s)[i] = s[i + 1]
           /\ Head(s) = s[1]
           /\ \A y : Has(s, y) <=> Has(Tail(s), y) \/ y = Head(s)
<1>1. /\ Head(s) \in S /\ Tail(s) \in Seq(S) /\ Len(Tail(s)) = Len(s) - 1
      /\ \A i \in 1 .. Len(Tail(s)) : Tail(s)[i] = s[i + 1]
  BY HeadTailProperties
<1>2. Len(s) \in Nat \ {0} /\ DOMAIN s = 1 .. Len(s) /\ Head(s) = s[1]
  BY LenProperties, EmptySeq
<1>3. DOMAIN Tail(s) = 1 .. Len(s) - 1
  BY <1>1, LenProperties
<1> DEFINE t == Tail(s)
           n == Len(s)
<1>4. \A i \in 1 .. n - 1 : t[i] = s[i + 1]
  BY <1>1
<1>5. n \in Nat \ {0} /\ DOMAIN s = 1 .. n /\ DOMAIN t = 1 .. n - 1
  BY <1>2, <1>3
<1> HIDE DEF t, n
<1>6. ASSUME NEW y PROVE Has(s, y) <=> Has(t, y) \/ y = s[1]
  <2>1. ASSUME Has(s, y) PROVE Has(t, y) \/ y = s[1]
    <3>1. PICK k \in 1 .. n : s[k] = y
      BY <1>5, <2>1 DEF Has
    <3>2. CASE k = 1
      BY <3>1, <3>2
    <3>3. CASE k # 1
      <4>1. k - 1 \in 1 .. n - 1 /\ (k - 1) + 1 = k
        BY <1>5, <3>1, <3>3
      <4>2. t[k - 1] = y
        BY <1>4, <3>1, <4>1
      <4>3. QED
        BY <1>5, <4>1, <4>2 DEF Has
    <3>4. QED
      BY <3>2, <3>3
  <2>2. ASSUME Has(t, y) PROVE Has(s, y)
    <3>1. PICK k \in 1 .. n - 1 : t[k] = y
      BY <1>5, <2>2 DEF Has
    <3>2. k + 1 \in 1 .. n /\ s[k + 1] = y
      BY <1>4, <1>5, <3>1
    <3>3. QED
      BY <1>5, <3>2 DEF Has
  <2>3. y = s[1] => Has(s, y)
    BY <1>5 DEF Has
  <2>4. QED
    BY <2>1, <2>2, <2>3
<1>7. QED
  BY <1>1, <1>2, <1>6 DEF t, n

\* What it holds with a line before its first.
LEMMA HasCons ==
    ASSUME NEW S, NEW s \in Seq(S), NEW x \in S
    PROVE  /\ <<x>> \o s \in Seq(S) /\ Len(<<x>> \o s) = Len(s) + 1
           /\ (<<x>> \o s)[1] = x
           /\ \A i \in 1 .. Len(s) : (<<x>> \o s)[i + 1] = s[i]
           /\ \A y : Has(<<x>> \o s, y) <=> Has(s, y) \/ y = x
<1>1. <<x>> \in Seq(S) /\ Len(<<x>>) = 1 /\ <<x>>[1] = x
  OBVIOUS
<1>2. PICK t : t = <<x>> \o s
  OBVIOUS
<1>3. /\ t \in Seq(S) /\ Len(t) = 1 + Len(s)
      /\ \A i \in 1 .. 1 + Len(s) : t[i] = IF i <= 1 THEN <<x>>[i] ELSE s[i - 1]
  <2>1. /\ <<x>> \o s \in Seq(S) /\ Len(<<x>> \o s) = Len(<<x>>) + Len(s)
        /\ \A i \in 1 .. Len(<<x>>) + Len(s) : (<<x>> \o s)[i] =
              IF i <= Len(<<x>>) THEN <<x>>[i] ELSE s[i - Len(<<x>>)]
    BY <1>1, ConcatProperties
  <2>2. QED
    BY <1>1, <1>2, <2>1
<1>4. Len(s) \in Nat /\ DOMAIN s = 1 .. Len(s) /\ DOMAIN t = 1 .. Len(s) + 1
  BY <1>3, LenProperties
<1>5. t[1] = x /\ \A i \in 1 .. Len(s) : t[i + 1] = s[i]
  BY <1>1, <1>3, <1>4
<1>6. \A i \in 2 .. Len(s) + 1 : t[i] = s[i - 1] /\ i - 1 \in 1 .. Len(s)
  BY <1>3, <1>4
<1>7. ASSUME NEW y PROVE Has(t, y) <=> Has(s, y) \/ y = x
  <2>1. ASSUME Has(t, y) PROVE Has(s, y) \/ y = x
    <3>1. PICK k \in 1 .. Len(s) + 1 : t[k] = y
      BY <1>4, <2>1 DEF Has
    <3>2. k = 1 \/ k \in 2 .. Len(s) + 1
      BY <1>4
    <3>3. QED
      BY <1>4, <1>5, <1>6, <3>1, <3>2 DEF Has
  <2>2. ASSUME Has(s, y) PROVE Has(t, y)
    <3>1. PICK k \in 1 .. Len(s) : s[k] = y
      BY <1>4, <2>2 DEF Has
    <3>2. k + 1 \in 1 .. Len(s) + 1 /\ t[k + 1] = y
      BY <1>4, <1>5, <3>1
    <3>3. QED
      BY <1>4, <3>2 DEF Has
  <2>3. 1 \in 1 .. Len(s) + 1
    BY <1>4
  <2>4. y = x => Has(t, y)
    BY <1>4, <1>5, <2>3 DEF Has
  <2>5. QED
    BY <2>1, <2>2, <2>4
<1>8. QED
  BY <1>2, <1>3, <1>4, <1>5, <1>7

\* An empty queue.
LEMMA HasNone == \A y : ~Has(<<>>, y)
BY DEF Has

\* A line that moves from the head of one queue to the end of the one before it
\* changes nothing of the two together.
LEMMA LineMoved ==
    ASSUME NEW S, NEW a \in Seq(S), NEW b \in Seq(S), b # <<>>
    PROVE  Append(a, Head(b)) \o Tail(b) = a \o b
<1>1. /\ Head(b) \in S /\ Tail(b) \in Seq(S) /\ Len(Tail(b)) = Len(b) - 1
      /\ Len(b) \in Nat \ {0} /\ Len(a) \in Nat /\ Head(b) = b[1]
      /\ \A i \in 1 .. Len(b) - 1 : Tail(b)[i] = b[i + 1]
  BY HasTail, LenProperties
<1>2. PICK a1, b1, s, t : /\ a1 = Append(a, Head(b)) /\ b1 = Tail(b)
                          /\ s = a1 \o b1 /\ t = a \o b
  OBVIOUS
<1>3. /\ a1 \in Seq(S) /\ Len(a1) = Len(a) + 1
      /\ \A i \in 1 .. Len(a) : a1[i] = a[i]
      /\ a1[Len(a) + 1] = b[1]
  BY <1>1, <1>2, AppendProperties
<1>4. /\ s \in Seq(S) /\ Len(s) = Len(a) + Len(b)
      /\ \A i \in 1 .. Len(a) + Len(b) : s[i] =
            IF i <= Len(a) + 1 THEN a1[i] ELSE b1[i - (Len(a) + 1)]
  <2>1. b1 \in Seq(S) /\ Len(b1) = Len(b) - 1
    BY <1>1, <1>2
  <2>2. /\ a1 \o b1 \in Seq(S) /\ Len(a1 \o b1) = Len(a1) + Len(b1)
        /\ \A i \in 1 .. Len(a1) + Len(b1) : (a1 \o b1)[i] =
              IF i <= Len(a1) THEN a1[i] ELSE b1[i - Len(a1)]
    BY <1>3, <2>1, ConcatProperties
  <2>3. Len(a1) = Len(a) + 1 /\ Len(a1) + Len(b1) = Len(a) + Len(b)
    BY <1>1, <1>3, <2>1
  <2>4. QED
    BY <1>2, <2>2, <2>3
<1>5. /\ t \in Seq(S) /\ Len(t) = Len(a) + Len(b)
      /\ \A i \in 1 .. Len(a) + Len(b) : t[i] =
            IF i <= Len(a) THEN a[i] ELSE b[i - Len(a)]
  BY <1>2, ConcatProperties
<1>6. /\ b1 \in Seq(S) /\ Len(b1) = Len(b) - 1
      /\ \A i \in 1 .. Len(b) - 1 : b1[i] = b[i + 1]
  BY <1>1, <1>2
<1>7. Len(s) = Len(t) /\ Len(t) \in Nat
  BY <1>1, <1>4, <1>5
<1>8. ASSUME NEW i \in 1 .. Len(s) PROVE s[i] = t[i]
  <2>1. i \in Nat /\ i >= 1 /\ i <= Len(a) + Len(b)
    BY <1>5, <1>7
  <2>2. CASE i <= Len(a)
    <3>1. i \in 1 .. Len(a) /\ i \in 1 .. Len(a) + Len(b) /\ i <= Len(a) + 1
      BY <1>1, <2>1, <2>2
    <3>2. s[i] = a1[i] /\ t[i] = a[i]
      BY <1>4, <1>5, <2>2, <3>1
    <3>3. QED
      BY <1>3, <3>1, <3>2
  <2>3. CASE i = Len(a) + 1
    BY <1>1, <1>3, <1>4, <1>5, <1>6, <2>1, <2>3
  <2>4. CASE i > Len(a) + 1
    <3>1. /\ i \in 1 .. Len(a) + Len(b) /\ ~(i <= Len(a)) /\ ~(i <= Len(a) + 1)
          /\ i - (Len(a) + 1) \in 1 .. Len(b) - 1
          /\ (i - (Len(a) + 1)) + 1 = i - Len(a)
      BY <1>1, <2>1, <2>4
    <3>2. s[i] = b1[i - (Len(a) + 1)] /\ t[i] = b[i - Len(a)]
      BY <1>4, <1>5, <3>1
    <3>3. QED
      BY <1>6, <3>1, <3>2
  <2>5. QED
    BY <1>1, <2>1, <2>2, <2>3, <2>4
<1>9. s = t
  BY <1>4, <1>5, <1>7, <1>8, SeqEqual
<1>10. QED
  BY <1>2, <1>9

\* A line at the end of the second queue is at the end of the two.
LEMMA LineAdded ==
    ASSUME NEW S, NEW a \in Seq(S), NEW b \in Seq(S), NEW x \in S
    PROVE  a \o Append(b, x) = Append(a \o b, x)
<1>1. PICK b1, s, c, t : /\ b1 = Append(b, x) /\ s = a \o b1
                         /\ c = a \o b /\ t = Append(c, x)
  OBVIOUS
<1>2. /\ b1 \in Seq(S) /\ Len(b1) = Len(b) + 1 /\ Len(b) \in Nat /\ Len(a) \in Nat
      /\ \A i \in 1 .. Len(b) : b1[i] = b[i]
      /\ b1[Len(b) + 1] = x
  BY <1>1, AppendProperties, LenProperties
<1>3. /\ s \in Seq(S) /\ Len(s) = Len(a) + (Len(b) + 1)
      /\ \A i \in 1 .. Len(a) + (Len(b) + 1) : s[i] =
            IF i <= Len(a) THEN a[i] ELSE b1[i - Len(a)]
  <2>1. /\ a \o b1 \in Seq(S) /\ Len(a \o b1) = Len(a) + Len(b1)
        /\ \A i \in 1 .. Len(a) + Len(b1) : (a \o b1)[i] =
              IF i <= Len(a) THEN a[i] ELSE b1[i - Len(a)]
    BY <1>2, ConcatProperties
  <2>2. QED
    BY <1>1, <1>2, <2>1
<1>4. /\ c \in Seq(S) /\ Len(c) = Len(a) + Len(b)
      /\ \A i \in 1 .. Len(a) + Len(b) : c[i] =
            IF i <= Len(a) THEN a[i] ELSE b[i - Len(a)]
  BY <1>1, ConcatProperties
<1>5. /\ t \in Seq(S) /\ Len(t) = Len(c) + 1
      /\ \A i \in 1 .. Len(c) : t[i] = c[i]
      /\ t[Len(c) + 1] = x
  BY <1>1, <1>4, AppendProperties
<1>6. Len(s) = Len(t)
  BY <1>2, <1>3, <1>4, <1>5
<1>7. ASSUME NEW i \in 1 .. Len(s) PROVE s[i] = t[i]
  <2>1. i \in Nat /\ i >= 1 /\ i <= Len(a) + (Len(b) + 1)
    BY <1>2, <1>3
  <2>2. CASE i <= Len(a)
    <3>1. /\ i \in 1 .. Len(a) + (Len(b) + 1) /\ i \in 1 .. Len(a) + Len(b)
          /\ i \in 1 .. Len(c)
      BY <1>2, <1>4, <2>1, <2>2
    <3>2. QED
      BY <1>3, <1>4, <1>5, <2>2, <3>1
  <2>3. CASE i > Len(a) /\ i <= Len(a) + Len(b)
    <3>1. /\ i \in 1 .. Len(a) + (Len(b) + 1) /\ i \in 1 .. Len(a) + Len(b)
          /\ i \in 1 .. Len(c) /\ ~(i <= Len(a)) /\ i - Len(a) \in 1 .. Len(b)
      BY <1>2, <1>4, <2>1, <2>3
    <3>2. s[i] = b1[i - Len(a)] /\ c[i] = b[i - Len(a)] /\ t[i] = c[i]
      BY <1>3, <1>4, <1>5, <3>1
    <3>3. QED
      BY <1>2, <3>1, <3>2
  <2>4. CASE i = Len(a) + (Len(b) + 1)
    <3>1. /\ i \in 1 .. Len(a) + (Len(b) + 1) /\ ~(i <= Len(a))
          /\ i - Len(a) = Len(b) + 1 /\ i = Len(c) + 1
      BY <1>2, <1>4, <2>1, <2>4
    <3>2. s[i] = b1[i - Len(a)] /\ t[i] = x
      BY <1>3, <1>5, <3>1
    <3>3. QED
      BY <1>2, <3>1, <3>2
  <2>5. i <= Len(a) \/ (i > Len(a) /\ i <= Len(a) + Len(b)) \/ i = Len(a) + (Len(b) + 1)
    <3>1. \A n, m \in Nat : i <= n + (m + 1) =>
             i <= n \/ (i > n /\ i <= n + m) \/ i = n + (m + 1)
      BY <2>1
    <3>2. QED
      BY <1>2, <2>1, <3>1
  <2>6. QED
    BY <2>2, <2>3, <2>4, <2>5
<1>8. s = t
  BY <1>3, <1>5, <1>6, <1>7, SeqEqual
<1>9. QED
  BY <1>1, <1>8, Zenon

\* The first line of the first queue is the first of the two.
LEMMA LineTaken ==
    ASSUME NEW S, NEW a \in Seq(S), NEW b \in Seq(S), a # <<>>
    PROVE  /\ a \o b \in Seq(S) /\ a \o b # <<>> /\ Head(a \o b) = Head(a)
           /\ Tail(a) \o b = Tail(a \o b)
<1>1. /\ Head(a) \in S /\ Tail(a) \in Seq(S) /\ Len(Tail(a)) = Len(a) - 1
      /\ Len(a) \in Nat \ {0} /\ Len(b) \in Nat /\ Head(a) = a[1]
      /\ \A i \in 1 .. Len(a) - 1 : Tail(a)[i] = a[i + 1]
  BY HasTail, LenProperties
<1>2. PICK a1, s, t, t1 : a1 = Tail(a) /\ s = a1 \o b /\ t = a \o b /\ t1 = Tail(a \o b)
  OBVIOUS
<1>3. /\ s \in Seq(S) /\ Len(s) = (Len(a) - 1) + Len(b)
      /\ \A i \in 1 .. (Len(a) - 1) + Len(b) : s[i] =
            IF i <= Len(a) - 1 THEN a1[i] ELSE b[i - (Len(a) - 1)]
  <2>1. a1 \in Seq(S) /\ Len(a1) = Len(a) - 1
    BY <1>1, <1>2
  <2>2. /\ a1 \o b \in Seq(S) /\ Len(a1 \o b) = Len(a1) + Len(b)
        /\ \A i \in 1 .. Len(a1) + Len(b) : (a1 \o b)[i] =
              IF i <= Len(a1) THEN a1[i] ELSE b[i - Len(a1)]
    BY <2>1, ConcatProperties
  <2>3. QED
    BY <1>2, <2>1, <2>2
<1>4. /\ t \in Seq(S) /\ Len(t) = Len(a) + Len(b)
      /\ \A i \in 1 .. Len(a) + Len(b) : t[i] =
            IF i <= Len(a) THEN a[i] ELSE b[i - Len(a)]
  BY <1>2, ConcatProperties
<1>5. t # <<>>
  BY <1>1, <1>4
<1>6. /\ t1 \in Seq(S) /\ Len(t1) = Len(t) - 1 /\ Head(t) = t[1]
      /\ \A i \in 1 .. Len(t) - 1 : t1[i] = t[i + 1]
  BY <1>2, <1>4, <1>5, HasTail
<1>7. /\ a1 \in Seq(S) /\ Len(a1) = Len(a) - 1
      /\ \A i \in 1 .. Len(a) - 1 : a1[i] = a[i + 1]
  BY <1>1, <1>2
<1>8. Len(s) = Len(t1) /\ Len(s) = (Len(a) - 1) + Len(b)
  BY <1>1, <1>3, <1>4, <1>6, <1>7
<1>9. ASSUME NEW i \in 1 .. Len(s) PROVE s[i] = t1[i]
  <2>1. /\ i \in Nat /\ i >= 1 /\ i <= (Len(a) - 1) + Len(b)
        /\ t1[i] = t[i + 1]
    BY <1>1, <1>4, <1>6, <1>8
  <2>2. CASE i <= Len(a) - 1
    <3>1. s[i] = a1[i] /\ t[i + 1] = a[i + 1] /\ a1[i] = a[i + 1]
      BY <1>1, <1>3, <1>4, <1>7, <2>1, <2>2
    <3>2. QED
      BY <2>1, <3>1
  <2>3. CASE i > Len(a) - 1
    <3>1. /\ i \in 1 .. (Len(a) - 1) + Len(b) /\ ~(i <= Len(a) - 1)
          /\ i + 1 \in 1 .. Len(a) + Len(b) /\ ~(i + 1 <= Len(a))
          /\ i - (Len(a) - 1) = (i + 1) - Len(a)
      BY <1>1, <2>1, <2>3
    <3>2. s[i] = b[i - (Len(a) - 1)] /\ t[i + 1] = b[(i + 1) - Len(a)]
      BY <1>3, <1>4, <3>1
    <3>3. QED
      BY <2>1, <3>1, <3>2
  <2>4. QED
    BY <1>1, <2>1, <2>2, <2>3
<1>10. s = t1
  BY <1>3, <1>6, <1>8, <1>9, SeqEqual
<1>11. t[1] = a[1]
  BY <1>1, <1>4
<1>12. QED
  BY <1>1, <1>2, <1>4, <1>5, <1>6, <1>10, <1>11

\* The events of a line that grows.
LEMMA NumbersAppend ==
    ASSUME NEW s \in Seq(Lines), NEW m \in Lines, Ascending(s),
           m.type = "event" => \A n \in Numbers(s) : n < m.id
    PROVE  /\ Ascending(Append(s, m))
           /\ Numbers(Append(s, m)) =
                 IF m.type = "event" THEN Numbers(s) \cup {m.id} ELSE Numbers(s)
<1>1. PICK t : t = Append(s, m)
  OBVIOUS
<1>2. /\ t \in Seq(Lines) /\ Len(t) = Len(s) + 1 /\ Len(s) \in Nat
      /\ \A i \in 1 .. Len(s) : t[i] = s[i]
      /\ t[Len(s) + 1] = m
  BY <1>1, AppendProperties, LenProperties
<1>3. DOMAIN s = 1 .. Len(s) /\ DOMAIN t = 1 .. Len(s) + 1
  BY <1>2, LenProperties
<1>4. Numbers(t) = IF m.type = "event" THEN Numbers(s) \cup {m.id} ELSE Numbers(s)
  BY <1>2, <1>3 DEF Numbers
<1>5. Ascending(t)
  <2> SUFFICES ASSUME NEW k \in DOMAIN t, NEW l \in DOMAIN t, k < l,
                      t[k].type = "event", t[l].type = "event"
               PROVE  t[k].id < t[l].id
    BY DEF Ascending
  <2>1. k \in 1 .. Len(s) /\ t[k] = s[k]
    BY <1>2, <1>3
  <2>2. CASE l \in 1 .. Len(s)
    BY <1>2, <1>3, <2>1, <2>2 DEF Ascending
  <2>3. CASE l = Len(s) + 1
    BY <1>2, <1>3, <2>1, <2>3 DEF Numbers
  <2>4. QED
    BY <1>2, <1>3, <2>2, <2>3
<1>6. QED
  BY <1>1, <1>4, <1>5

\* The events of a line whose first was taken.
LEMMA NumbersTail ==
    ASSUME NEW s \in Seq(Lines), s # <<>>, Ascending(s)
    PROVE  /\ Ascending(Tail(s))
           /\ Head(s).type # "event" => Numbers(Tail(s)) = Numbers(s)
           /\ Head(s).type = "event" =>
                 /\ Head(s).id \in Numbers(s)
                 /\ \A n \in Numbers(s) : Head(s).id <= n
                 /\ Numbers(Tail(s)) = Numbers(s) \ {Head(s).id}
<1>1. PICK t, n : t = Tail(s) /\ n = Len(s)
  OBVIOUS
<1>2. /\ t \in Seq(Lines) /\ Len(t) = n - 1 /\ n \in Nat \ {0} /\ Head(s) = s[1]
      /\ \A i \in 1 .. n - 1 : t[i] = s[i + 1]
  BY <1>1, HasTail
<1>3. DOMAIN s = 1 .. n /\ DOMAIN t = 1 .. n - 1
  BY <1>1, <1>2, LenProperties
<1>4. \A i \in 1 .. n : s[i] \in Lines
  BY <1>1, LenProperties
<1>5. \A k \in 1 .. n : k = 1 \/ (k - 1 \in 1 .. n - 1 /\ t[k - 1] = s[k])
  BY <1>2
<1>6. Ascending(t)
  <2> SUFFICES ASSUME NEW k \in 1 .. n - 1, NEW l \in 1 .. n - 1, k < l,
                      t[k].type = "event", t[l].type = "event"
               PROVE  t[k].id < t[l].id
    BY <1>3 DEF Ascending
  <2>1. /\ k + 1 \in 1 .. n /\ l + 1 \in 1 .. n /\ k + 1 < l + 1
        /\ t[k] = s[k + 1] /\ t[l] = s[l + 1]
    BY <1>2
  <2>2. QED
    BY <1>3, <2>1 DEF Ascending
<1>7. \A i \in 1 .. n - 1 : i + 1 \in 1 .. n /\ t[i] = s[i + 1]
  BY <1>2
<1>8. Numbers(t) \subseteq Numbers(s)
  BY <1>3, <1>7 DEF Numbers
<1>9. \A m \in Numbers(s) : m \in Numbers(t) \/ (s[1].type = "event" /\ m = s[1].id)
  BY <1>3, <1>5 DEF Numbers
<1>10. CASE s[1].type # "event"
  BY <1>1, <1>2, <1>6, <1>8, <1>9, <1>10
<1>11. CASE s[1].type = "event"
  <2>1. 1 \in 1 .. n
    BY <1>2
  <2>2. s[1].id \in Numbers(s) /\ s[1].id \in Nat
    BY <1>3, <1>4, <1>11, <2>1 DEF Numbers, Lines
  <2>3. ASSUME NEW m \in Numbers(t) PROVE s[1].id < m
    <3>1. PICK k \in 1 .. n - 1 : t[k].type = "event" /\ m = t[k].id
      BY <1>3 DEF Numbers
    <3>2. k + 1 \in 1 .. n /\ 1 < k + 1 /\ t[k] = s[k + 1]
      BY <1>2, <3>1
    <3>3. QED
      BY <1>3, <1>11, <2>1, <3>1, <3>2 DEF Ascending
  <2>4. \A m \in Numbers(s) : s[1].id <= m
    <3>1. \A m \in Numbers(s) : m \in Nat
      BY <1>3, <1>4 DEF Numbers, Lines
    <3>2. QED
      BY <1>8, <1>9, <2>2, <2>3, <3>1
  <2>5. Numbers(t) = Numbers(s) \ {s[1].id}
    BY <1>8, <1>9, <2>2, <2>3
  <2>6. QED
    BY <1>1, <1>2, <1>6, <1>11, <2>2, <2>4, <2>5
<1>12. QED
  BY <1>10, <1>11

(***************************************************************************)
(* The lines to the daemon.                                                *)
(***************************************************************************)
\* A line is a call or a call cut short.
LEMMA RequestForms ==
    /\ \A r \in Requests : /\ r.call \in Calls \cup {0} /\ r.cut \in BOOLEAN
                           /\ r = IF r.cut THEN Cut(r.call) ELSE Whole(r.call)
                           /\ ~r.cut => r.call \in Calls
    /\ \A i \in Calls : Whole(i) \in Requests
    /\ \A i \in Calls \cup {0} : Cut(i) \in Requests
    /\ \A i, j : Whole(i) # Cut(j) /\ (Whole(i) = Whole(j) => i = j)
                 /\ (Cut(i) = Cut(j) => i = j)
    /\ 0 \notin Calls
<1>1. \A r \in Requests : /\ r.call \in Calls \cup {0} /\ r.cut \in BOOLEAN
                          /\ r = IF r.cut THEN Cut(r.call) ELSE Whole(r.call)
                          /\ ~r.cut => r.call \in Calls
  BY DEF Requests, Cut, Whole
<1>2. 0 \notin Calls
  OBVIOUS
<1>3. \A i \in Calls : Whole(i) \in Requests
  BY <1>2 DEF Requests, Whole
<1>4. \A i \in Calls \cup {0} : Cut(i) \in Requests
  BY DEF Requests, Cut
<1>5. ASSUME NEW i, NEW j
      PROVE  /\ Whole(i) # Cut(j) /\ (Whole(i) = Whole(j) => i = j)
             /\ (Cut(i) = Cut(j) => i = j)
  <2>1. /\ Whole(i).cut = FALSE /\ Cut(j).cut = TRUE /\ Whole(i).call = i
        /\ Whole(j).call = j /\ Cut(i).call = i /\ Cut(j).call = j
    BY DEF Whole, Cut
  <2>2. QED
    BY <2>1
<1>6. QED
  BY <1>1, <1>2, <1>3, <1>4, <1>5

\* A call that is not among the lines is there once when it is written.
LEMMA OnceAppend ==
    ASSUME NEW s \in Seq(Requests), NEW x \in Requests, Once(s),
           ~Has(s, Whole(x.call)), ~Has(s, Cut(x.call))
    PROVE  Once(Append(s, x))
<1>1. PICK t, n : t = Append(s, x) /\ n = Len(s)
  OBVIOUS
<1>2. /\ t \in Seq(Requests) /\ Len(t) = n + 1 /\ n \in Nat
      /\ \A i \in 1 .. n : t[i] = s[i]
      /\ t[n + 1] = x
  BY <1>1, AppendProperties, LenProperties
<1>3. DOMAIN s = 1 .. n /\ DOMAIN t = 1 .. n + 1 /\ \A i \in 1 .. n : s[i] \in Requests
  BY <1>1, <1>2, LenProperties
<1>4. \A i \in 1 .. n : s[i].call # x.call
  BY <1>3, RequestForms DEF Has
<1>5. ASSUME NEW k \in 1 .. n + 1, NEW l \in 1 .. n + 1, t[k].call = t[l].call,
             t[k].call # 0
      PROVE  k = l
  <2>1. (k \in 1 .. n \/ k = n + 1) /\ (l \in 1 .. n \/ l = n + 1)
    BY <1>2
  <2>2. CASE k \in 1 .. n /\ l \in 1 .. n
    BY <1>2, <1>3, <1>5, <2>2 DEF Once
  <2>3. QED
    BY <1>2, <1>4, <1>5, <2>1, <2>2
<1>6. Once(t)
  BY <1>3, <1>5 DEF Once
<1>7. QED
  BY <1>1, <1>6

\* The call of the line that is read is not among the others.
LEMMA OnceTail ==
    ASSUME NEW s \in Seq(Requests), s # <<>>, Once(s)
    PROVE  /\ Once(Tail(s))
           /\ Head(s).call # 0 => /\ ~Has(Tail(s), Whole(Head(s).call))
                                  /\ ~Has(Tail(s), Cut(Head(s).call))
<1>1. PICK t, n : t = Tail(s) /\ n = Len(s)
  OBVIOUS
<1>2. /\ t \in Seq(Requests) /\ Len(t) = n - 1 /\ n \in Nat \ {0} /\ Head(s) = s[1]
      /\ \A i \in 1 .. n - 1 : t[i] = s[i + 1]
  BY <1>1, HasTail
<1>3. DOMAIN s = 1 .. n /\ DOMAIN t = 1 .. n - 1
  BY <1>1, <1>2, LenProperties
<1>4. \A i \in 1 .. n - 1 : i + 1 \in 1 .. n /\ t[i] = s[i + 1]
  BY <1>2
<1>5. ASSUME NEW k \in 1 .. n - 1, NEW l \in 1 .. n - 1, t[k].call = t[l].call,
             t[k].call # 0
      PROVE  k = l
  <2>1. /\ k + 1 \in 1 .. n /\ l + 1 \in 1 .. n
        /\ s[k + 1].call = s[l + 1].call /\ s[k + 1].call # 0
    BY <1>4, <1>5
  <2>2. k + 1 = l + 1
    BY <1>3, <2>1 DEF Once
  <2>3. QED
    BY <2>2
<1>6. Once(t)
  BY <1>3, <1>5 DEF Once
<1>7. 1 \in 1 .. n
  BY <1>2
<1>8. ASSUME s[1].call # 0, NEW k \in 1 .. n - 1 PROVE t[k].call # s[1].call
  <2>1. k + 1 # 1 /\ k + 1 \in 1 .. n /\ t[k] = s[k + 1]
    BY <1>4
  <2>2. QED
    BY <1>3, <1>7, <1>8, <2>1 DEF Once
<1>9. \A i : Whole(i).call = i /\ Cut(i).call = i
  BY DEF Whole, Cut
<1>10. s[1].call # 0 => ~Has(t, Whole(s[1].call)) /\ ~Has(t, Cut(s[1].call))
  BY <1>3, <1>8, <1>9 DEF Has
<1>11. QED
  BY <1>1, <1>2, <1>6, <1>10

\* Two cut lines run together are no call.
LEMMA OnceCons ==
    ASSUME NEW s \in Seq(Requests), Once(s)
    PROVE  Once(<<Cut(0)>> \o s)
<1>1. PICK t, n : t = <<Cut(0)>> \o s /\ n = Len(s)
  OBVIOUS
<1>2. Cut(0) \in Requests
  BY RequestForms
<1>3. /\ t \in Seq(Requests) /\ Len(t) = n + 1 /\ t[1] = Cut(0)
      /\ \A i \in 1 .. n : t[i + 1] = s[i]
  BY <1>1, <1>2, HasCons
<1>4. n \in Nat /\ DOMAIN s = 1 .. n /\ DOMAIN t = 1 .. n + 1
  BY <1>1, <1>3, LenProperties
<1>5. Cut(0).call = 0
  BY DEF Cut
<1>6. ASSUME NEW k \in 1 .. n + 1, NEW l \in 1 .. n + 1, t[k].call = t[l].call,
             t[k].call # 0
      PROVE  k = l
  <2>1. k # 1 /\ l # 1
    BY <1>3, <1>5, <1>6
  <2>2. /\ k - 1 \in 1 .. n /\ l - 1 \in 1 .. n
        /\ (k - 1) + 1 = k /\ (l - 1) + 1 = l
    BY <1>4, <2>1
  <2>3. t[k] = s[k - 1] /\ t[l] = s[l - 1]
    BY <1>3, <2>2
  <2>4. k - 1 = l - 1
    BY <1>4, <1>6, <2>2, <2>3 DEF Once
  <2>5. QED
    BY <2>4
<1>7. Once(t)
  BY <1>4, <1>6 DEF Once
<1>8. QED
  BY <1>1, <1>7

(***************************************************************************)
(* What the parts of the actions do.                                       *)
(***************************************************************************)
\* The lines of a session are lines.
LEMMA LineForms ==
    /\ Hello \in Lines /\ Refusal \in Lines
    /\ \A n \in Nat : Event(n) \in Lines
    /\ \A i \in Calls \cup {0}, code \in Codes : Reply(i, code) \in Lines
    /\ \A n : Event(n).type = "event" /\ Event(n).id = n
    /\ \A i, code : Reply(i, code).type = "reply" /\ Reply(i, code).id = i
                    /\ Reply(i, code).code = code
    /\ Hello.type = "hello" /\ Refusal.type = "refused"
    /\ \A m \in Lines : m.type = "reply" => m = Reply(m.id, m.code)
BY DEF Hello, Refusal, Lines, Event, Reply, Codes

\* A line was queued, dropped, or closed the session.
Takes(c, m) ==
    \/ ~done[c] /\ ~done'[c] /\ forced'[c] = forced[c] /\ out'[c] = Append(out[c], m)
    \/ done[c] /\ done'[c] /\ forced'[c] = forced[c] /\ out'[c] = out[c]
    \/ ~done[c] /\ done'[c] /\ forced'[c] /\ out'[c] = out[c]

\* sendLine queues the line, drops it on a closed session, or closes the session.
LEMMA SendLineEffect ==
    ASSUME TypeOK, NEW c \in Conns, NEW m \in Lines, SendLine(c, m)
    PROVE  /\ out' \in [Conns -> Seq(Lines)]
           /\ done' \in [Conns -> BOOLEAN] /\ forced' \in [Conns -> BOOLEAN]
           /\ \A d \in Conns : Len(out'[d]) =< SendQueue
           /\ \A d \in Conns \ {c} : /\ out'[d] = out[d] /\ done'[d] = done[d]
                                     /\ forced'[d] = forced[d]
           /\ Takes(c, m)
<1> DEFINE q == Queued(out, c, m)
<1>1. /\ out[c] \in Seq(Lines) /\ Len(out[c]) \in Nat /\ Len(out[c]) =< SendQueue
      /\ done[c] \in BOOLEAN /\ forced[c] \in BOOLEAN /\ SendQueue \in Nat
  BY LenProperties DEF TypeOK
<1>2. Append(out[c], m) \in Seq(Lines) /\ Len(Append(out[c], m)) = Len(out[c]) + 1
  BY <1>1, AppendProperties
<1>3. q \in Seq(Lines) /\ Len(q) =< SendQueue
  BY <1>1, <1>2 DEF Queued
<1>4. /\ out' = [out EXCEPT ![c] = q]
      /\ done' = [done EXCEPT ![c] = done[c] \/ Overflows(c)]
      /\ forced' = [forced EXCEPT ![c] = forced[c] \/ Overflows(c)]
  BY DEF SendLine
<1>5. \/ q = Append(out[c], m) /\ ~done[c] /\ ~Overflows(c)
      \/ q = out[c] /\ done[c] /\ ~Overflows(c)
      \/ q = out[c] /\ ~done[c] /\ Overflows(c)
  BY DEF Queued, Overflows
<1>6. Overflows(c) \in BOOLEAN
  BY DEF Overflows
<1> HIDE DEF q
<1>7. out' \in [Conns -> Seq(Lines)] /\ \A d \in Conns : Len(out'[d]) =< SendQueue
  BY <1>3, <1>4 DEF TypeOK
<1>8. out'[c] = q /\ done'[c] = (done[c] \/ Overflows(c))
      /\ forced'[c] = (forced[c] \/ Overflows(c))
  BY <1>4 DEF TypeOK
<1>9. done' \in [Conns -> BOOLEAN] /\ forced' \in [Conns -> BOOLEAN]
  BY <1>4, <1>6 DEF TypeOK
<1>10. \A d \in Conns \ {c} : /\ out'[d] = out[d] /\ done'[d] = done[d]
                              /\ forced'[d] = forced[d]
  BY <1>4 DEF TypeOK
<1>11. Takes(c, m)
  BY <1>1, <1>5, <1>8 DEF Takes
<1>12. QED
  BY <1>7, <1>9, <1>10, <1>11

\* broadcast does so for every session that listens.
LEMMA BroadcastEffect ==
    ASSUME TypeOK, Broadcast
    PROVE  /\ out' \in [Conns -> Seq(Lines)]
           /\ done' \in [Conns -> BOOLEAN] /\ forced' \in [Conns -> BOOLEAN]
           /\ \A d \in Conns : Len(out'[d]) =< SendQueue
           /\ \A d \in Conns :
                 IF d \in Subscribers THEN Takes(d, Event(pushed + 1))
                 ELSE out'[d] = out[d] /\ done'[d] = done[d] /\ forced'[d] = forced[d]
<1> DEFINE m == Event(pushed + 1)
           q(d) == IF d \in Subscribers THEN Queued(out, d, m) ELSE out[d]
           x(d) == d \in Subscribers /\ Overflows(d)
<1>1. m \in Lines
  BY LineForms DEF TypeOK
<1>2. /\ out' = [d \in Conns |-> q(d)] /\ done' = [d \in Conns |-> done[d] \/ x(d)]
      /\ forced' = [d \in Conns |-> forced[d] \/ x(d)]
  BY DEF Broadcast
<1> HIDE DEF m
<1>3. ASSUME NEW d \in Conns
      PROVE  /\ q(d) \in Seq(Lines) /\ Len(q(d)) =< SendQueue
             /\ x(d) \in BOOLEAN /\ done[d] \in BOOLEAN /\ forced[d] \in BOOLEAN
             /\ IF d \in Subscribers
                THEN \/ q(d) = Append(out[d], m) /\ ~done[d] /\ ~x(d)
                     \/ q(d) = out[d] /\ done[d] /\ ~x(d)
                     \/ q(d) = out[d] /\ ~done[d] /\ x(d)
                ELSE q(d) = out[d] /\ ~x(d)
  <2>1. /\ out[d] \in Seq(Lines) /\ Len(out[d]) \in Nat /\ Len(out[d]) =< SendQueue
        /\ done[d] \in BOOLEAN /\ forced[d] \in BOOLEAN /\ SendQueue \in Nat
    BY LenProperties DEF TypeOK
  <2>2. Append(out[d], m) \in Seq(Lines) /\ Len(Append(out[d], m)) = Len(out[d]) + 1
    BY <1>1, <2>1, AppendProperties
  <2>3. QED
    BY <2>1, <2>2 DEF Queued, Overflows
<1> HIDE DEF q, x
<1>4. \A d \in Conns : /\ out'[d] = q(d) /\ done'[d] = (done[d] \/ x(d))
                        /\ forced'[d] = (forced[d] \/ x(d))
  BY <1>2
<1>5. /\ out' \in [Conns -> Seq(Lines)]
      /\ done' \in [Conns -> BOOLEAN] /\ forced' \in [Conns -> BOOLEAN]
  BY <1>2, <1>3
<1>6. ASSUME NEW d \in Conns
      PROVE  IF d \in Subscribers THEN Takes(d, m)
             ELSE out'[d] = out[d] /\ done'[d] = done[d] /\ forced'[d] = forced[d]
  BY <1>3, <1>4 DEF Takes
<1>7. QED
  BY <1>3, <1>4, <1>5, <1>6 DEF m

\* A handler that ends counts its call.
LEMMA HandleCounts ==
    ASSUME TypeOK, NEW c \in Conns, NEW i \in Calls, Handle(c, i)
    PROVE  /\ handled' \in [Conns -> [Calls -> Nat]]
           /\ handled'[c][i] = handled[c][i] + 1
           /\ \A j \in Calls \ {i} : handled'[c][j] = handled[c][j]
           /\ \A d \in Conns \ {c} : handled'[d] = handled[d]
<1>1. /\ handled \in [Conns -> [Calls -> Nat]] /\ handled[c] \in [Calls -> Nat]
      /\ handled[c][i] + 1 \in Nat
  <2>1. handled \in [Conns -> [Calls -> Nat]]
    BY DEF TypeOK
  <2>2. handled[c] \in [Calls -> Nat] /\ handled[c][i] \in Nat
    BY <2>1
  <2>3. \A k \in Nat : k + 1 \in Nat
    OBVIOUS
  <2>4. QED
    BY <2>1, <2>2, <2>3, Zenon
<1>2. PICK g, n : n = handled[c][i] + 1 /\ g = [handled[c] EXCEPT ![i] = n]
  OBVIOUS
<1>3. /\ g \in [Calls -> Nat] /\ g[i] = handled[c][i] + 1
      /\ \A j \in Calls \ {i} : g[j] = handled[c][j]
  BY <1>1, <1>2
<1>4. handled' = [handled EXCEPT ![c] = g]
  BY <1>2 DEF Handle
<1>5. QED
  BY <1>1, <1>3, <1>4

\* A step of one call leaves the others.
LEMMA SetCallEffect ==
    ASSUME TypeOK, NEW c \in Conns, NEW i \in Calls, NEW s \in CallStates, SetCall(c, i, s)
    PROVE  /\ call' \in [Conns -> [Calls -> CallStates]]
           /\ call'[c][i] = s
           /\ \A j \in Calls \ {i} : call'[c][j] = call[c][j]
           /\ \A d \in Conns \ {c} : call'[d] = call[d]
<1>1. call \in [Conns -> [Calls -> CallStates]] /\ call[c] \in [Calls -> CallStates]
  BY DEF TypeOK
<1>2. PICK g : g = [call[c] EXCEPT ![i] = s]
  OBVIOUS
<1>3. /\ g \in [Calls -> CallStates] /\ g[i] = s
      /\ \A j \in Calls \ {i} : g[j] = call[c][j]
  BY <1>1, <1>2
<1>4. call' = [call EXCEPT ![c] = g]
  BY <1>2 DEF SetCall
<1>5. QED
  BY <1>1, <1>3, <1>4

\* A reply goes to the call that waits for it.
LEMMA TakesReplyEffect ==
    ASSUME TypeOK, NEW c \in Conns, NEW m \in Lines, TakesReply(c, m)
    PROVE  /\ call' \in [Conns -> [Calls -> CallStates]]
           /\ \A j \in Calls : call'[c][j] = IF j = m.id /\ call[c][j] = "sent"
                                          THEN m.code ELSE call[c][j]
           /\ \A d \in Conns \ {c} : call'[d] = call[d]
<1>1. call \in [Conns -> [Calls -> CallStates]] /\ call[c] \in [Calls -> CallStates]
  BY DEF TypeOK
<1>2. PICK g : g = [i \in Calls |->
                     IF i = m.id /\ call[c][i] = "sent" THEN m.code ELSE call[c][i]]
  OBVIOUS
<1>3. m.code \in CallStates
  BY DEF Lines, CallStates
<1>4. /\ g \in [Calls -> CallStates]
      /\ \A j \in Calls : g[j] = IF j = m.id /\ call[c][j] = "sent"
                                 THEN m.code ELSE call[c][j]
  BY <1>1, <1>2, <1>3
<1>5. call' = [call EXCEPT ![c] = g]
  BY <1>2 DEF TakesReply
<1>6. QED
  BY <1>1, <1>4, <1>5

\* A line that ran into another: some line was cut.
CutIn(c) == \E k \in Calls \cup {0} : Has(up[c], Cut(k))

\* What the reader takes off the socket, and what becomes of it: a call that is
\* handled or answered, an answer to nobody, or nothing.
LEMMA ReadEffect ==
    ASSUME TypeOK, NEW c \in Conns, Once(up[c]), Read(c)
    PROVE  /\ up' \in [Conns -> Seq(Requests)] /\ Once(up'[c])
           /\ \A d \in Conns \ {c} : up'[d] = up[d]
           /\ \A i \in Calls : Unread(c, i)' => Unread(c, i)
           /\ CutIn(c)' => CutIn(c)
           /\ \/ \E i \in Calls :
                   /\ Request(c, i) /\ Unread(c, i) /\ ~Unread(c, i)'
                   /\ \A j \in Calls \ {i} :
                         Has(up[c], Whole(j)) => Has(up'[c], Whole(j)) \/ CutIn(c)
              \/ NotRequest(c) /\ CutIn(c)
              \/ UNCHANGED <<queue, running, slots>> /\ CutIn(c)
<1>1. PICK s, line, rest, t, n :
         s = up[c] /\ line = Head(s) /\ rest = Tail(s) /\ t = Tail(rest) /\ n = Len(s)
  OBVIOUS
<1>2. s \in Seq(Requests) /\ s # <<>>
  BY <1>1 DEF Read, TypeOK
<1>3. /\ line \in Requests /\ rest \in Seq(Requests) /\ Len(rest) = n - 1
      /\ n \in Nat \ {0}
      /\ \A y : Has(s, y) <=> Has(rest, y) \/ y = line
  BY <1>1, <1>2, HasTail
<1>4. /\ Once(rest)
      /\ line.call # 0 => ~Has(rest, Whole(line.call)) /\ ~Has(rest, Cut(line.call))
  BY <1>1, <1>2, OnceTail
<1>5. PICK i : i = line.call
  OBVIOUS
<1>6. /\ i \in Calls \cup {0} /\ line.cut \in BOOLEAN
      /\ line = IF line.cut THEN Cut(i) ELSE Whole(i)
      /\ ~line.cut => i \in Calls
  BY <1>3, <1>5, RequestForms
<1>7. line.cut => CutIn(c)
  BY <1>1, <1>3, <1>6 DEF CutIn
<1>8. \A u \in Seq(Requests) : up' = [up EXCEPT ![c] = u] =>
          /\ up'[c] = u /\ up' \in [Conns -> Seq(Requests)]
          /\ \A d \in Conns \ {c} : up'[d] = up[d]
  BY DEF TypeOK
<1>9. CASE ~line.cut /\ Request(c, i) /\ up' = [up EXCEPT ![c] = rest]
  <2>1. /\ up'[c] = rest /\ up' \in [Conns -> Seq(Requests)]
        /\ \A d \in Conns \ {c} : up'[d] = up[d]
    BY <1>3, <1>8, <1>9
  <2>2. i \in Calls /\ i # 0 /\ line = Whole(i)
    BY <1>6, <1>9, RequestForms
  <2>3. Has(up[c], Whole(i)) /\ ~Has(up'[c], Whole(i)) /\ ~Has(up'[c], Cut(i))
    BY <1>1, <1>3, <1>4, <1>5, <2>1, <2>2, Zenon
  <2>4. Unread(c, i) /\ ~Unread(c, i)'
    BY <2>3 DEF Unread
  <2>5. ASSUME NEW j \in Calls \ {i}, Has(up[c], Whole(j)) PROVE Has(up'[c], Whole(j))
    BY <1>1, <1>3, <2>1, <2>2, <2>5, RequestForms, Zenon
  <2>6. \A j \in Calls : Unread(c, j)' => Unread(c, j)
    BY <1>1, <1>3, <2>1 DEF Unread
  <2>7. CutIn(c)' => CutIn(c)
    BY <1>1, <1>3, <2>1 DEF CutIn
  <2>8. \E k \in Calls :
           /\ Request(c, k) /\ Unread(c, k) /\ ~Unread(c, k)'
           /\ \A j \in Calls \ {k} :
                 Has(up[c], Whole(j)) => Has(up'[c], Whole(j)) \/ CutIn(c)
    BY <1>9, <2>2, <2>4, <2>5, Zenon
  <2>9. Once(up'[c])
    BY <1>4, <2>1
  <2>10. QED
    BY <2>1, <2>6, <2>7, <2>8, <2>9, Zenon
<1>10. CASE line.cut /\ n > 1
            /\ \/ /\ up' = [up EXCEPT ![c] = <<Cut(0)>> \o t]
                  /\ UNCHANGED <<queue, running, slots>>
               \/ up' = [up EXCEPT ![c] = t] /\ NotRequest(c)
  <2>1. rest # <<>>
    <3>1. Len(rest) > 0
      BY <1>3, <1>10
    <3>2. QED
      BY <3>1
  <2>2. t \in Seq(Requests) /\ \A y : Has(t, y) => Has(rest, y)
    BY <1>1, <1>3, <2>1, HasTail
  <2>3. Once(t)
    BY <1>1, <1>3, <1>4, <2>1, OnceTail
  <2>4. Cut(0) \in Requests
    BY RequestForms
  <2>5. /\ <<Cut(0)>> \o t \in Seq(Requests)
        /\ \A y : Has(<<Cut(0)>> \o t, y) <=> Has(t, y) \/ y = Cut(0)
    BY <2>2, <2>4, HasCons
  <2>6. Once(<<Cut(0)>> \o t)
    BY <2>2, <2>3, OnceCons
  <2>7. PICK u \in Seq(Requests) :
           /\ up' = [up EXCEPT ![c] = u] /\ Once(u)
           /\ \A y : Has(u, y) => Has(t, y) \/ y = Cut(0)
    <3>1. CASE up' = [up EXCEPT ![c] = <<Cut(0)>> \o t]
      BY <2>5, <2>6, <3>1
    <3>2. CASE up' = [up EXCEPT ![c] = t]
      BY <2>2, <2>3, <3>2
    <3>3. QED
      BY <1>10, <3>1, <3>2
  <2>8. /\ up'[c] = u /\ up' \in [Conns -> Seq(Requests)]
        /\ \A d \in Conns \ {c} : up'[d] = up[d]
    BY <1>8, <2>7
  <2>9. \A y : Has(up'[c], y) => Has(up[c], y) \/ y = Cut(0)
    BY <1>1, <1>3, <2>2, <2>7, <2>8
  <2>10. ASSUME NEW j \in Calls PROVE Unread(c, j)' => Unread(c, j)
    <3>1. Whole(j) # Cut(0) /\ Cut(j) # Cut(0)
      BY RequestForms
    <3>2. QED
      BY <2>9, <3>1 DEF Unread
  <2>11. NotRequest(c) \/ UNCHANGED <<queue, running, slots>>
    BY <1>10
  <2>12. QED
    BY <1>7, <1>10, <2>7, <2>8, <2>10, <2>11, Zenon
<1>11. CASE /\ line.cut /\ up' = [up EXCEPT ![c] = <<>>]
            /\ NotRequest(c) \/ (i # 0 /\ Request(c, i))
  <2>1. <<>> \in Seq(Requests) /\ Once(<<>>)
    BY DEF Once
  <2>2. /\ up'[c] = <<>> /\ up' \in [Conns -> Seq(Requests)]
        /\ \A d \in Conns \ {c} : up'[d] = up[d]
    BY <1>8, <1>11, <2>1
  <2>3. \A j \in Calls : ~Unread(c, j)'
    BY <2>2, HasNone DEF Unread
  <2>4. i # 0 => i \in Calls /\ Unread(c, i)
    BY <1>1, <1>3, <1>6, <1>11 DEF Unread
  <2>5. QED
    BY <1>7, <1>11, <2>1, <2>2, <2>3, <2>4
<1>12. QED
  <2>1. \/ /\ ~line.cut /\ Request(c, i) /\ up' = [up EXCEPT ![c] = rest]
        \/ /\ line.cut /\ n > 1
           /\ \/ /\ up' = [up EXCEPT ![c] = <<Cut(0)>> \o t]
                 /\ UNCHANGED <<queue, running, slots>>
              \/ up' = [up EXCEPT ![c] = t] /\ NotRequest(c)
        \/ /\ line.cut /\ up' = [up EXCEPT ![c] = <<>>]
           /\ NotRequest(c) \/ (i # 0 /\ Request(c, i))
    BY <1>1, <1>5, Zenon DEF Read
  <2>2. QED
    BY <1>9, <1>10, <1>11, <2>1, Zenon

\* A request is handled, or answered at once when too many are.
LEMMA RequestEffect ==
    ASSUME TypeOK, NEW c \in Conns, NEW i \in Calls, IsFiniteSet(slots[c]), Request(c, i)
    PROVE  /\ running' \in [Conns -> SUBSET Calls] /\ slots' \in [Conns -> SUBSET Calls]
           /\ \A d \in Conns \ {c} : running'[d] = running[d] /\ slots'[d] = slots[d]
           /\ running'[c] \subseteq slots'[c]
           /\ IsFiniteSet(slots'[c]) /\ Cardinality(slots'[c]) =< MaxInFlight
           /\ \/ running'[c] = running[c] \cup {i} /\ UNCHANGED queue
              \/ SendLine(c, Reply(i, "busy")) /\ UNCHANGED <<running, slots>>
<1>1. CASE Cardinality(slots[c]) < MaxInFlight
  <2>1. /\ running' = [running EXCEPT ![c] = running[c] \cup {i}]
        /\ slots' = [slots EXCEPT ![c] = slots[c] \cup {i}] /\ UNCHANGED queue
    BY <1>1 DEF Request
  <2>2. PICK S : S = slots[c]
    OBVIOUS
  <2>3. /\ IsFiniteSet(S) /\ Cardinality(S) \in Nat /\ IsFiniteSet(S \cup {i})
        /\ Cardinality(S \cup {i}) = IF i \in S THEN Cardinality(S) ELSE Cardinality(S) + 1
    BY <2>2, FS_AddElement, FS_CardinalityType
  <2>4. Cardinality(S) + 1 =< MaxInFlight
    BY <1>1, <2>2, <2>3
  <2>5. Cardinality(S \cup {i}) =< MaxInFlight
    BY <2>3, <2>4
  <2>6. QED
    BY <2>1, <2>2, <2>3, <2>5 DEF TypeOK
<1>2. CASE ~(Cardinality(slots[c]) < MaxInFlight)
  BY <1>2 DEF Request, TypeOK
<1>3. QED
  BY <1>1, <1>2

(***************************************************************************)
(* Types.                                                                  *)
(***************************************************************************)
\* The places taken stay within the limit when a session is admitted.
LEMMA AdmitFits ==
    ASSUME TypeOK, NEW c \in Conns, ~Full
    PROVE  Cardinality(sessions \cup {c}) =< MaxClients
<1>1. PICK S : S = sessions
  OBVIOUS
<1>2. IsFiniteSet(S)
  BY <1>1, FS_Subset DEF TypeOK
<1>3. /\ Cardinality(S) \in Nat
      /\ Cardinality(S \cup {c}) = IF c \in S THEN Cardinality(S) ELSE Cardinality(S) + 1
  BY <1>2, FS_AddElement, FS_CardinalityType
<1>4. Cardinality(S) + 1 =< MaxClients
  BY <1>1, <1>3 DEF Full, TypeOK
<1>5. QED
  BY <1>1, <1>3, <1>4

\* What one connection's goroutines do to the types.
LEMMA TypeServing ==
    ASSUME TypeOK, SessionInv, NEW c \in Conns,
           Serving(c) \/ Writing(c) \/ Refuse(c, FALSE)
    PROVE  TypeOK'
<1> USE DEF place, queue, work, wire, client, count
<1>1. CASE Accept(c)
  BY <1>1 DEF Accept, TypeOK
<1>2. ASSUME NEW mayServe, Refuse(c, mayServe) PROVE TypeOK'
  <2>1. down[c] = <<>>
    BY <1>2 DEF Refuse, SessionInv, ConnInv, ServeInv
  <2>2. Append(down[c], Refusal) = <<Refusal>> /\ Refusal \in Lines
    BY <2>1, LineForms
  <2>3. Append(down[c], Refusal) \in Seq(Lines) /\ Len(Append(down[c], Refusal)) =< Buffer
    BY <2>2
  <2> DEFINE d == Append(down[c], Refusal)
  <2>4. down' = [down EXCEPT ![c] = d]
    BY <1>2 DEF Refuse
  <2> HIDE DEF d
  <2>5. d \in Seq(Lines) /\ Len(d) =< Buffer
    BY <2>3 DEF d
  <2>6. /\ UNCHANGED <<phase, sessions, others, out, writer, work, up, upEnd, client, count>>
        /\ st' = [st EXCEPT ![c] = "over"] /\ done' = [done EXCEPT ![c] = TRUE]
        /\ forced' = [forced EXCEPT ![c] = TRUE]
    BY <1>2 DEF Refuse
  <2>7. QED
    BY <2>4, <2>5, <2>6 DEF TypeOK
<1>3. CASE Admit(c)
  <2>1. Cardinality(sessions \cup {c}) =< MaxClients
    BY <1>3, AdmitFits DEF Admit
  <2>2. <<Hello>> \in Seq(Lines) /\ Len(<<Hello>>) =< SendQueue
    BY LineForms
  <2>3. QED
    BY <1>3, <2>1, <2>2 DEF Admit, TypeOK
<1>4. CASE CloseOnCancel(c)
  BY <1>4 DEF CloseOnCancel, TypeOK
<1>5. CASE Read(c)
  <2>1. Once(up[c]) /\ IsFiniteSet(slots[c])
    BY DEF SessionInv, ConnInv, ServeInv
  <2>2. up' \in [Conns -> Seq(Requests)]
    BY <1>5, <2>1, ReadEffect
  <2>3. UNCHANGED <<phase, place, writer, handled, upEnd, down, client, count>>
    BY <1>5 DEF Read
  <2>4. \/ \E i \in Calls : Request(c, i)
        \/ NotRequest(c)
        \/ UNCHANGED <<queue, running, slots>>
    BY <1>5, <2>1, ReadEffect
  <2>5. ASSUME NEW m \in Lines, SendLine(c, m), UNCHANGED <<running, slots>> PROVE TypeOK'
    <3>1. /\ out' \in [Conns -> Seq(Lines)]
          /\ done' \in [Conns -> BOOLEAN] /\ forced' \in [Conns -> BOOLEAN]
          /\ \A d \in Conns : Len(out'[d]) =< SendQueue
      BY <2>5, SendLineEffect
    <3>2. QED
      BY <2>2, <2>3, <2>5, <3>1 DEF TypeOK
  <2>6. ASSUME NEW i \in Calls, Request(c, i) PROVE TypeOK'
    <3>1. /\ running' \in [Conns -> SUBSET Calls] /\ slots' \in [Conns -> SUBSET Calls]
          /\ \A d \in Conns \ {c} : running'[d] = running[d] /\ slots'[d] = slots[d]
          /\ running'[c] \subseteq slots'[c]
          /\ Cardinality(slots'[c]) =< MaxInFlight
          /\ \/ UNCHANGED queue
             \/ SendLine(c, Reply(i, "busy")) /\ UNCHANGED <<running, slots>>
      BY <2>1, <2>6, RequestEffect
    <3>2. CASE SendLine(c, Reply(i, "busy")) /\ UNCHANGED <<running, slots>>
      BY <2>5, <3>2, LineForms DEF Codes
    <3>3. CASE UNCHANGED queue
      BY <2>2, <2>3, <3>1, <3>3 DEF TypeOK
    <3>4. QED
      BY <3>1, <3>2, <3>3
  <2>7. NotRequest(c) => TypeOK'
    BY <2>5, LineForms DEF NotRequest, Codes
  <2>8. CASE UNCHANGED <<queue, running, slots>>
    BY <2>2, <2>3, <2>8 DEF TypeOK
  <2>9. QED
    BY <2>4, <2>6, <2>7, <2>8
<1>6. CASE ReadEnds(c)
  BY <1>6 DEF ReadEnds, TypeOK
<1>7. CASE Drain(c)
  BY <1>7 DEF Drain, TypeOK
<1>8. CASE ServeEnds(c)
  <2>1. Cardinality(sessions \ {c}) =< MaxClients
    <3>1. PICK S : S = sessions
      OBVIOUS
    <3>2. IsFiniteSet(S) /\ Cardinality(S) =< MaxClients
      BY <3>1, FS_Subset DEF TypeOK
    <3>3. IsFiniteSet(S \ {c}) /\ Cardinality(S) \in Nat
          /\ Cardinality(S \ {c}) = IF c \in S THEN Cardinality(S) - 1 ELSE Cardinality(S)
      BY <3>2, FS_RemoveElement, FS_CardinalityType
    <3>4. QED
      BY <3>1, <3>2, <3>3
  <2>2. QED
    BY <1>8, <2>1 DEF ServeEnds, TypeOK
<1>9. ASSUME NEW i \in Calls, Release(c, i) PROVE TypeOK'
  <2>1. PICK S, T : S = slots[c] /\ T = S \ {i}
    OBVIOUS
  <2>2. IsFiniteSet(S) /\ Cardinality(S) =< MaxInFlight
    BY <2>1 DEF SessionInv, ConnInv, ServeInv, TypeOK
  <2>3. Cardinality(S) \in Nat
        /\ Cardinality(T) = IF i \in S THEN Cardinality(S) - 1 ELSE Cardinality(S)
    BY <2>1, <2>2, FS_RemoveElement, FS_CardinalityType
  <2>4. Cardinality(T) =< MaxInFlight
    BY <2>2, <2>3
  <2>5. T \subseteq Calls /\ running[c] \subseteq T
    BY <1>9, <2>1 DEF TypeOK, Release
  <2>6. slots' = [slots EXCEPT ![c] = T]
    BY <1>9, <2>1 DEF Release
  <2>7. QED
    BY <1>9, <2>4, <2>5, <2>6 DEF Release, TypeOK
<1>10. ASSUME NEW i \in Calls, Handle(c, i) PROVE TypeOK'
  <2>1. SendLine(c, Reply(i, "ok")) /\ Reply(i, "ok") \in Lines
    BY <1>10, LineForms DEF Handle, Codes
  <2>2. /\ out' \in [Conns -> Seq(Lines)]
        /\ done' \in [Conns -> BOOLEAN] /\ forced' \in [Conns -> BOOLEAN]
        /\ \A d \in Conns : Len(out'[d]) =< SendQueue
    BY <2>1, SendLineEffect
  <2>3. handled' \in [Conns -> [Calls -> Nat]]
    BY <1>10, HandleCounts
  <2>4. running' \in [Conns -> SUBSET Calls] /\ \A d \in Conns : running'[d] \subseteq running[d]
    BY <1>10 DEF Handle, TypeOK
  <2>5. UNCHANGED <<phase, place, writer, slots, wire, client, count>>
    BY <1>10 DEF Handle
  <2>6. QED
    BY <2>2, <2>3, <2>4, <2>5 DEF TypeOK
<1>11. CASE Writes(c)
  <2>1. PICK a, b, b1, m : a = down[c] /\ b = out[c] /\ b1 = Tail(b) /\ m = Head(b)
    OBVIOUS
  <2>2. /\ a \in Seq(Lines) /\ Len(a) < Buffer /\ b \in Seq(Lines) /\ b # <<>>
        /\ Len(b) =< SendQueue
    BY <1>11, <2>1 DEF Writes, TypeOK
  <2>3. m \in Lines /\ b1 \in Seq(Lines) /\ Len(b1) = Len(b) - 1 /\ Len(b) \in Nat \ {0}
    BY <2>1, <2>2, HasTail
  <2>4. Append(a, m) \in Seq(Lines) /\ Len(Append(a, m)) = Len(a) + 1 /\ Len(a) \in Nat
    BY <2>2, <2>3, HasAppend, LenProperties
  <2>5. PICK a1 : a1 = Append(a, m)
    OBVIOUS
  <2>6. a1 \in Seq(Lines) /\ Len(a1) =< Buffer /\ Len(b1) =< SendQueue
    BY <2>2, <2>3, <2>4, <2>5
  <2>7. /\ down' = [down EXCEPT ![c] = a1] /\ out' = [out EXCEPT ![c] = b1]
        /\ UNCHANGED <<phase, place, done, forced, writer, work, up, upEnd, client, count>>
    BY <1>11, <2>1, <2>5 DEF Writes
  <2>8. QED
    BY <2>3, <2>6, <2>7 DEF TypeOK
<1>12. CASE WriteFails(c)
  BY <1>12 DEF WriteFails, TypeOK
<1>13. CASE WriterEnds(c)
  BY <1>13 DEF WriterEnds, TypeOK
<1>14. QED
  BY <1>1, <1>2, <1>3, <1>4, <1>5, <1>6, <1>7, <1>8, <1>9, <1>10, <1>11, <1>12, <1>13
  DEF Serving, Writing

\* A line on its way to the daemon.
LEMMA SentEffect ==
    ASSUME TypeOK, NEW c \in Conns, NEW i \in Calls, NEW s \in CallStates,
           NEW r \in Requests, Sent(c, i, s, r)
    PROVE  /\ up' \in [Conns -> Seq(Requests)] /\ up'[c] = Append(up[c], r)
           /\ \A d \in Conns \ {c} : up'[d] = up[d]
           /\ SetCall(c, i, s)
<1>1. Append(up[c], r) \in Seq(Requests)
  BY AppendProperties DEF TypeOK
<1>2. PICK t : t = Append(up[c], r)
  OBVIOUS
<1>3. up' = [up EXCEPT ![c] = t] /\ t \in Seq(Requests) /\ SetCall(c, i, s)
  BY <1>1, <1>2 DEF Sent
<1>4. QED
  BY <1>2, <1>3 DEF TypeOK

\* What a client takes off its socket.
LEMMA DownTakes ==
    ASSUME TypeOK, NEW c \in Conns, down[c] # <<>>, down' = [down EXCEPT ![c] = Tail(@)]
    PROVE  /\ down' \in [Conns -> Seq(Lines)] /\ down'[c] = Tail(down[c])
           /\ \A d \in Conns \ {c} : down'[d] = down[d]
           /\ \A d \in Conns : Len(down'[d]) =< Buffer
           /\ Head(down[c]) \in Lines
           /\ \A y : Has(down[c], y) <=> Has(down'[c], y) \/ y = Head(down[c])
<1>1. PICK a, t, m : a = down[c] /\ t = Tail(a) /\ m = Head(a)
  OBVIOUS
<1>2. a \in Seq(Lines) /\ a # <<>> /\ Len(a) =< Buffer
  BY <1>1 DEF TypeOK
<1>3. /\ m \in Lines /\ t \in Seq(Lines) /\ Len(t) = Len(a) - 1 /\ Len(a) \in Nat \ {0}
      /\ \A y : Has(a, y) <=> Has(t, y) \/ y = m
  BY <1>1, <1>2, HasTail
<1>4. Len(t) =< Buffer
  BY <1>2, <1>3
<1>5. down' = [down EXCEPT ![c] = t]
  BY <1>1
<1>6. QED
  BY <1>1, <1>3, <1>4, <1>5 DEF TypeOK

\* What a client does to the types.
LEMMA TypeClient ==
    ASSUME TypeOK, NEW c \in Conns,
           \/ Receiving(c) \/ Dial(c) \/ ReadEvent(c) \/ HalfClose(c) \/ Close(c)
           \/ \E i \in Calls : Start(c, i) \/ Cancel(c, i) \/ SendCut(c, i)
    PROVE  TypeOK'
<1> USE DEF place, queue, work, wire, client, count
<1>1. CASE Greeted(c)
  <2>1. upEnd' \in [Conns -> BOOLEAN]
    BY <1>1 DEF Greeted, TypeOK
  <2>2. cst' \in [Conns -> {"off", "dialling", "open", "closed"}]
    BY <1>1 DEF Greeted, TypeOK
  <2>3. down' \in [Conns -> Seq(Lines)] /\ \A d \in Conns : Len(down'[d]) =< Buffer
    <3>1. CASE down[c] # <<>> /\ down' = [down EXCEPT ![c] = Tail(@)]
      BY <3>1, DownTakes
    <3>2. CASE UNCHANGED down
      BY <3>2 DEF TypeOK
    <3>3. QED
      BY <1>1, <3>1, <3>2 DEF Greeted
  <2>4. UNCHANGED <<phase, place, queue, writer, work, up, call, cancelled, events, got,
                    count>>
    BY <1>1 DEF Greeted
  <2>5. QED
    BY <2>1, <2>2, <2>3, <2>4 DEF TypeOK
<1>2. CASE ReadLoop(c)
  <2>1. UNCHANGED <<phase, place, queue, writer, work, up, cancelled, got, count>>
    BY <1>2 DEF ReadLoop
  <2>2. ASSUME Closes(c), UNCHANGED <<call, events>>,
               down' \in [Conns -> Seq(Lines)] /\ \A d \in Conns : Len(down'[d]) =< Buffer
        PROVE  TypeOK'
    BY <2>1, <2>2 DEF Closes, TypeOK
  <2>3. CASE down[c] # <<>> /\ down' = [down EXCEPT ![c] = Tail(@)]
    <3>1. PICK m : m = Head(down[c])
      OBVIOUS
    <3>2. /\ m \in Lines /\ down' \in [Conns -> Seq(Lines)]
          /\ \A d \in Conns : Len(down'[d]) =< Buffer
      BY <2>3, <3>1, DownTakes
    <3>3. CASE TakesReply(c, m)
      <4>1. call' \in [Conns -> [Calls -> CallStates]]
        BY <3>2, <3>3, TakesReplyEffect
      <4>2. UNCHANGED <<cst, upEnd, events>>
        BY <3>3 DEF TakesReply
      <4>3. QED
        BY <2>1, <3>2, <4>1, <4>2 DEF TypeOK
    <3>4. CASE TakesEvent(c, m)
      <4>1. CASE Len(events[c]) < EventQueue
        <5>1. PICK e, e1 : e = events[c] /\ e1 = Append(e, m.id)
          OBVIOUS
        <5>2. e \in Seq(Nat) /\ m.id \in Nat /\ Len(e) < EventQueue
          BY <3>2, <4>1, <5>1 DEF TypeOK, Lines
        <5>3. e1 \in Seq(Nat) /\ Len(e1) = Len(e) + 1 /\ Len(e) \in Nat
          BY <5>1, <5>2, AppendProperties, LenProperties
        <5>4. Len(e1) =< EventQueue
          BY <5>2, <5>3
        <5>5. events' = [events EXCEPT ![c] = e1] /\ UNCHANGED <<cst, upEnd, call>>
          BY <3>4, <4>1, <5>1 DEF TakesEvent
        <5>6. QED
          BY <2>1, <3>2, <5>3, <5>4, <5>5 DEF TypeOK
      <4>2. CASE ~(Len(events[c]) < EventQueue)
        BY <2>2, <3>2, <3>4, <4>2 DEF TakesEvent
      <4>3. QED
        BY <4>1, <4>2
    <3>5. down[c] # <<>>
      BY <2>3
    <3>6. QED
      BY <1>2, <3>1, <3>3, <3>4, <3>5 DEF ReadLoop
  <2>4. CASE Closes(c) /\ UNCHANGED <<down, call, events>>
    BY <2>2, <2>4 DEF TypeOK
  <2>5. QED
    BY <1>2, <2>3, <2>4 DEF ReadLoop
<1>3. ASSUME NEW i \in Calls, Send(c, i) PROVE TypeOK'
  <2>1. UNCHANGED <<phase, place, queue, writer, work, upEnd, down, cst, cancelled,
                    events, got, count>>
    BY <1>3 DEF Send
  <2>2. CASE \E s \in {"unsent", "failed"} : SetCall(c, i, s) /\ UNCHANGED up
    <3>1. call' \in [Conns -> [Calls -> CallStates]] /\ UNCHANGED up
      BY <2>2, SetCallEffect DEF CallStates
    <3>2. QED
      BY <2>1, <3>1 DEF TypeOK
  <2>3. CASE Sent(c, i, "sent", Whole(i))
    <3>1. /\ up' \in [Conns -> Seq(Requests)] /\ SetCall(c, i, "sent")
      BY <2>3, SentEffect, RequestForms DEF CallStates
    <3>2. call' \in [Conns -> [Calls -> CallStates]]
      BY <3>1, SetCallEffect DEF CallStates
    <3>3. QED
      BY <2>1, <3>1, <3>2 DEF TypeOK
  <2>4. QED
    BY <1>3, <2>2, <2>3 DEF Send, SendsNow
<1>4. ASSUME NEW i \in Calls, Returns(c, i) PROVE TypeOK'
  <2>1. call' \in [Conns -> [Calls -> CallStates]]
    BY <1>4, SetCallEffect DEF Returns, CallStates
  <2>2. QED
    BY <1>4, <2>1 DEF Returns, TypeOK
<1>5. CASE Dial(c)
  BY <1>5 DEF Dial, TypeOK
<1>6. CASE ReadEvent(c)
  <2>1. PICK e, t, n : e = events[c] /\ t = Tail(e) /\ n = Head(e)
    OBVIOUS
  <2>2. e \in Seq(Nat) /\ e # <<>> /\ Len(e) =< EventQueue
    BY <1>6, <2>1 DEF ReadEvent, TypeOK
  <2>3. n \in Nat /\ t \in Seq(Nat) /\ Len(t) = Len(e) - 1 /\ Len(e) \in Nat \ {0}
    BY <2>1, <2>2, HasTail
  <2>4. Len(t) =< EventQueue
    BY <2>2, <2>3
  <2>5. /\ events' = [events EXCEPT ![c] = t] /\ got' = [got EXCEPT ![c] = n]
        /\ UNCHANGED <<phase, place, queue, writer, work, wire, cst, call, cancelled, count>>
    BY <1>6, <2>1 DEF ReadEvent
  <2>6. QED
    BY <2>3, <2>4, <2>5 DEF TypeOK
<1>7. CASE HalfClose(c)
  <2>1. faults' \in Nat
    BY <1>7 DEF HalfClose, TypeOK
  <2>2. /\ upEnd' \in [Conns -> BOOLEAN]
        /\ UNCHANGED <<phase, place, queue, writer, work, up, down, client, pushed, calls>>
    BY <1>7 DEF HalfClose, TypeOK
  <2>3. QED
    BY <2>1, <2>2 DEF TypeOK
<1>8. CASE Close(c)
  BY <1>8 DEF Close, Closes, TypeOK
<1>9. ASSUME NEW i \in Calls, Start(c, i) PROVE TypeOK'
  <2>1. call' \in [Conns -> [Calls -> CallStates]]
    BY <1>9, SetCallEffect DEF Start, CallStates
  <2>2. calls' \in Nat
    BY <1>9 DEF Start, TypeOK
  <2>3. UNCHANGED <<phase, place, queue, writer, work, wire, cst, cancelled, events, got,
                    pushed, faults>>
    BY <1>9 DEF Start
  <2>4. QED
    BY <2>1, <2>2, <2>3 DEF TypeOK
<1>10. ASSUME NEW i \in Calls, Cancel(c, i) PROVE TypeOK'
  <2>1. faults' \in Nat
    BY <1>10 DEF Cancel, TypeOK
  <2>2. cancelled' \in [Conns -> SUBSET Calls]
    <3>1. PICK S : S = cancelled[c] \cup {i}
      OBVIOUS
    <3>2. S \in SUBSET Calls
      BY <3>1 DEF TypeOK
    <3>3. cancelled' = [cancelled EXCEPT ![c] = S]
      BY <1>10, <3>1 DEF Cancel
    <3>4. QED
      BY <3>2, <3>3 DEF TypeOK
  <2>3. UNCHANGED <<phase, place, queue, writer, work, wire, cst, call, events, got,
                    pushed, calls>>
    BY <1>10 DEF Cancel
  <2>4. QED
    BY <2>1, <2>2, <2>3 DEF TypeOK
<1>11. ASSUME NEW i \in Calls, SendCut(c, i) PROVE TypeOK'
  <2>1. /\ up' \in [Conns -> Seq(Requests)] /\ SetCall(c, i, "failed")
    BY <1>11, SentEffect, RequestForms DEF SendCut, CallStates
  <2>2. call' \in [Conns -> [Calls -> CallStates]]
    BY <2>1, SetCallEffect DEF CallStates
  <2>3. faults' \in Nat
    BY <1>11 DEF SendCut, TypeOK
  <2>4. UNCHANGED <<phase, place, queue, writer, work, upEnd, down, cst, cancelled,
                    events, got, pushed, calls>>
    BY <1>11 DEF SendCut
  <2>5. QED
    BY <2>1, <2>2, <2>3, <2>4 DEF TypeOK
<1>12. QED
  BY <1>1, <1>2, <1>3, <1>4, <1>5, <1>6, <1>7, <1>8, <1>9, <1>10, <1>11 DEF Receiving

\* Every step keeps the types.
LEMMA TypeStep ==
    ASSUME TypeOK, SessionInv, [Next]_vars
    PROVE  TypeOK'
<1>1. CASE Broadcast
  <2>1. /\ out' \in [Conns -> Seq(Lines)]
        /\ done' \in [Conns -> BOOLEAN] /\ forced' \in [Conns -> BOOLEAN]
        /\ \A d \in Conns : Len(out'[d]) =< SendQueue
    BY <1>1, BroadcastEffect
  <2>2. pushed' \in Nat
    BY <1>1 DEF Broadcast, TypeOK
  <2>3. UNCHANGED <<phase, place, writer, work, wire, client, calls, faults>>
    BY <1>1 DEF Broadcast
  <2>4. QED
    BY <2>1, <2>2, <2>3 DEF TypeOK, place, work, wire, client
<1>2. CASE ListenersClose \/ CoreStops \/ Shutdown
  BY <1>2 DEF ListenersClose, CoreStops, Shutdown, TypeOK, place, queue, work, wire, client,
              count
<1>3. CASE UNCHANGED vars
  BY <1>3 DEF vars, server, TypeOK, place, queue, work, wire, client, count
<1>4. QED
  BY <1>1, <1>2, <1>3, TypeServing, TypeClient DEF Next, Progress

(***************************************************************************)
(* The connections a step does not touch.                                  *)
(***************************************************************************)
\* Nothing of a connection changes.
SameServer(d) ==
    /\ st'[d] = st[d] /\ (d \in sessions' <=> d \in sessions)
    /\ done'[d] = done[d] /\ forced'[d] = forced[d] /\ out'[d] = out[d]
    /\ writer'[d] = writer[d]
    /\ running'[d] = running[d] /\ slots'[d] = slots[d] /\ handled'[d] = handled[d]
SameClient(d) ==
    /\ up'[d] = up[d] /\ upEnd'[d] = upEnd[d] /\ down'[d] = down[d]
    /\ cst'[d] = cst[d] /\ call'[d] = call[d]
    /\ events'[d] = events[d] /\ got'[d] = got[d]
Same(d) == SameServer(d) /\ SameClient(d)

\* The parts of a connection's invariant that do not change with what they are
\* about.
LEMMA ServeKept ==
    ASSUME NEW d \in Conns, ServeInv(d),
           st'[d] = st[d], d \in sessions' <=> d \in sessions, writer'[d] = writer[d],
           out'[d] = out[d], down'[d] = down[d], events'[d] = events[d],
           slots'[d] = slots[d], cst'[d] = cst[d], upEnd'[d] = upEnd[d],
           call'[d] = call[d],
           phase' = "stopped" => phase = "stopped" \/ st[d] \in {"none", "over"}
    PROVE  ServeInv(d)'
BY DEF ServeInv

LEMMA DrainKept ==
    ASSUME NEW d \in Conns, DrainInv(d), up'[d] = up[d], call'[d] = call[d],
           forced'[d] = forced[d], done'[d] = done[d], st'[d] = st[d],
           writer'[d] = writer[d], upEnd'[d] = upEnd[d], out'[d] = out[d],
           down'[d] = down[d], running'[d] = running[d]
    PROVE  DrainInv(d)'
<1>1. SomeFailed(d)' <=> SomeFailed(d)
  BY DEF SomeFailed
<1>2. \A i \in Calls, code \in Codes : Answer(d, i, code)' <=> Answer(d, i, code)
  BY DEF Answer
<1>3. \A i \in Calls : Kept(d, i)' <=> Kept(d, i)
  BY <1>1, <1>2 DEF Kept
<1>4. QED
  BY <1>1, <1>3 DEF DrainInv

LEMMA TellsKept ==
    ASSUME NEW d \in Conns, NEW i \in Calls, TellsInv(d, i), up'[d] = up[d],
           handled'[d] = handled[d], running'[d] = running[d], out'[d] = out[d],
           down'[d] = down[d], call'[d] = call[d]
    PROVE  TellsInv(d, i)'
<1>1. /\ Unread(d, i)' <=> Unread(d, i)
      /\ AtRest(d, i)' <=> AtRest(d, i)
      /\ \A code : Answer(d, i, code)' <=> Answer(d, i, code)
  BY DEF Unread, AtRest, Answer
<1>2. QED
  BY <1>1 DEF TellsInv

LEMMA GapKept ==
    ASSUME NEW d \in Conns, GreetsFirst(d), d \in Listeners => Unbroken(d),
           cst'[d] = cst[d], down'[d] = down[d], out'[d] = out[d], got'[d] = got[d],
           events'[d] = events[d], pushed' = pushed, d \in sessions' => d \in sessions,
           done[d] => done'[d]
    PROVE  GreetsFirst(d)' /\ (d \in Listeners => Unbroken(d)')
<1>1. Line(d)' = Line(d)
  BY DEF Line
<1>2. GreetsFirst(d)'
  BY <1>1 DEF GreetsFirst
<1>3. ASSUME d \in Listeners PROVE Unbroken(d)'
  BY <1>1, <1>3 DEF Unbroken
<1>4. QED
  BY <1>2, <1>3

LEMMA SameKept ==
    ASSUME NEW d \in Conns, ConnInv(d), Same(d), pushed' = pushed,
           phase' = "stopped" => phase = "stopped" \/ st[d] \in {"none", "over"}
    PROVE  ConnInv(d)'
<1> USE DEF Same, SameServer, SameClient
<1>1. ServeInv(d)'
  BY ServeKept DEF ConnInv
<1>2. DrainInv(d)'
  BY DrainKept DEF ConnInv
<1>3. \A i \in Calls : TellsInv(d, i)'
  BY TellsKept DEF ConnInv
<1>4. GreetsFirst(d)' /\ (d \in Listeners => Unbroken(d)')
  BY GapKept DEF ConnInv
<1>5. Once(up[d])'
  BY DEF ConnInv
<1>6. QED
  BY <1>1, <1>2, <1>3, <1>4, <1>5 DEF ConnInv

\* A step of a connection, by its place in the daemon's or the client's code.
Step(c) ==
    \/ Serving(c) \/ Writing(c) \/ Refuse(c, FALSE)
    \/ Receiving(c) \/ Dial(c) \/ ReadEvent(c) \/ HalfClose(c) \/ Close(c)
    \/ \E i \in Calls : Start(c, i) \/ Cancel(c, i) \/ SendCut(c, i)

\* A step of one connection leaves the others and the daemon's phase.
LEMMA OthersSame ==
    ASSUME TypeOK, SessionInv, NEW c \in Conns, Step(c)
    PROVE  phase' = phase /\ pushed' = pushed /\ \A d \in Conns \ {c} : Same(d)
<1> DEFINE R == phase' = phase /\ pushed' = pushed /\ \A d \in Conns \ {c} : Same(d)
<1> USE DEF place, queue, work, wire, client, count, Same, SameServer, SameClient
<1>1. Accept(c) => R
  BY DEF Accept, TypeOK
<1>2. ASSUME NEW mayServe PROVE Refuse(c, mayServe) => R
  BY DEF Refuse, TypeOK
<1>3. ASSUME Admit(c) PROVE R
  <2>1. PICK h : h = <<Hello>>
    OBVIOUS
  <2>2. /\ st' = [st EXCEPT ![c] = "reading"] /\ sessions' = sessions \cup {c}
        /\ out' = [out EXCEPT ![c] = h] /\ writer' = [writer EXCEPT ![c] = "run"]
        /\ got' = [got EXCEPT ![c] = pushed]
        /\ UNCHANGED <<phase, others, done, forced, work, wire, cst, call, cancelled,
                       events, count>>
    BY <1>3, <2>1 DEF Admit
  <2>3. QED
    BY <2>2 DEF TypeOK
<1>4. CloseOnCancel(c) => R
  BY DEF CloseOnCancel, TypeOK
<1>5. ASSUME Read(c) PROVE R
  <2>1. Once(up[c]) /\ IsFiniteSet(slots[c])
    BY DEF SessionInv, ConnInv, ServeInv
  <2>2. \A d \in Conns \ {c} : up'[d] = up[d]
    BY <1>5, <2>1, ReadEffect
  <2>3. UNCHANGED <<phase, place, writer, handled, upEnd, down, client, count>>
    BY <1>5 DEF Read
  <2>4. \/ \E i \in Calls : Request(c, i)
        \/ NotRequest(c)
        \/ UNCHANGED <<queue, running, slots>>
    BY <1>5, <2>1, ReadEffect
  <2>5. ASSUME NEW m \in Lines, SendLine(c, m), UNCHANGED <<running, slots>> PROVE R
    <3>1. \A d \in Conns \ {c} : /\ out'[d] = out[d] /\ done'[d] = done[d]
                                 /\ forced'[d] = forced[d]
      BY <2>5, SendLineEffect
    <3>2. QED
      BY <2>2, <2>3, <2>5, <3>1
  <2>6. ASSUME NEW i \in Calls, Request(c, i) PROVE R
    <3>1. /\ \A d \in Conns \ {c} : running'[d] = running[d] /\ slots'[d] = slots[d]
          /\ \/ UNCHANGED queue
             \/ SendLine(c, Reply(i, "busy")) /\ UNCHANGED <<running, slots>>
      BY <2>1, <2>6, RequestEffect
    <3>2. CASE SendLine(c, Reply(i, "busy")) /\ UNCHANGED <<running, slots>>
      BY <2>5, <3>2, LineForms DEF Codes
    <3>3. CASE UNCHANGED queue
      BY <2>2, <2>3, <3>1, <3>3
    <3>4. QED
      BY <3>1, <3>2, <3>3
  <2>7. NotRequest(c) => R
    BY <2>5, LineForms DEF NotRequest, Codes
  <2>8. CASE UNCHANGED <<queue, running, slots>>
    BY <2>2, <2>3, <2>8
  <2>9. QED
    BY <2>4, <2>6, <2>7, <2>8
<1>6. ReadEnds(c) => R
  BY DEF ReadEnds, TypeOK
<1>7. Drain(c) => R
  BY DEF Drain, TypeOK
<1>8. ServeEnds(c) => R
  BY DEF ServeEnds, TypeOK
<1>9. ASSUME NEW i \in Calls PROVE Release(c, i) => R
  BY DEF Release, TypeOK
<1>10. ASSUME NEW i \in Calls, Handle(c, i) PROVE R
  <2>1. SendLine(c, Reply(i, "ok")) /\ Reply(i, "ok") \in Lines
    BY <1>10, LineForms DEF Handle, Codes
  <2>2. \A d \in Conns \ {c} : /\ out'[d] = out[d] /\ done'[d] = done[d]
                               /\ forced'[d] = forced[d]
    BY <2>1, SendLineEffect
  <2>3. \A d \in Conns \ {c} : handled'[d] = handled[d]
    BY <1>10, HandleCounts
  <2>4. \A d \in Conns \ {c} : running'[d] = running[d]
    BY <1>10 DEF Handle, TypeOK
  <2>5. UNCHANGED <<phase, place, writer, slots, wire, client, count>>
    BY <1>10 DEF Handle
  <2>6. QED
    BY <2>2, <2>3, <2>4, <2>5
<1>11. Writes(c) => R
  BY DEF Writes, TypeOK
<1>12. WriteFails(c) => R
  BY DEF WriteFails, TypeOK
<1>13. WriterEnds(c) => R
  BY DEF WriterEnds, TypeOK
<1>14. ASSUME Greeted(c) PROVE R
  <2>1. UNCHANGED <<phase, place, queue, writer, work, up, call, cancelled, events, got,
                    count>>
    BY <1>14 DEF Greeted
  <2>2. \A d \in Conns \ {c} : down'[d] = down[d] /\ cst'[d] = cst[d] /\ upEnd'[d] = upEnd[d]
    BY <1>14 DEF Greeted, TypeOK
  <2>3. QED
    BY <2>1, <2>2
<1>15. ASSUME ReadLoop(c) PROVE R
  <2>1. UNCHANGED <<phase, place, queue, writer, work, up, cancelled, got, count>>
    BY <1>15 DEF ReadLoop
  <2>2. \A d \in Conns \ {c} : down'[d] = down[d]
    BY <1>15 DEF ReadLoop, TypeOK
  <2>3. \A d \in Conns \ {c} : /\ cst'[d] = cst[d] /\ upEnd'[d] = upEnd[d]
                               /\ call'[d] = call[d] /\ events'[d] = events[d]
    <3>1. PICK m : m = Head(down[c])
      OBVIOUS
    <3>2. CASE TakesReply(c, m)
      BY <3>2 DEF TakesReply, TypeOK
    <3>3. CASE TakesEvent(c, m)
      <4>1. UNCHANGED call
        BY <3>3 DEF TakesEvent
      <4>2. CASE UNCHANGED <<cst, upEnd>> /\ \E e : events' = [events EXCEPT ![c] = e]
        BY <4>1, <4>2 DEF TypeOK
      <4>3. CASE Closes(c) /\ UNCHANGED events
        BY <4>1, <4>3 DEF Closes, TypeOK
      <4>4. QED
        BY <3>3, <4>2, <4>3 DEF TakesEvent
    <3>4. CASE Closes(c) /\ UNCHANGED <<down, call, events>>
      BY <3>4 DEF Closes, TypeOK
    <3>5. QED
      BY <1>15, <3>1, <3>2, <3>3, <3>4, Zenon DEF ReadLoop
  <2>4. QED
    BY <2>1, <2>2, <2>3
<1>16. ASSUME NEW i \in Calls, Send(c, i) PROVE R
  <2>1. UNCHANGED <<phase, place, queue, writer, work, upEnd, down, cst, cancelled,
                    events, got, count>>
    BY <1>16 DEF Send
  <2>2. \A d \in Conns \ {c} : call'[d] = call[d] /\ up'[d] = up[d]
    <3>1. CASE Sent(c, i, "sent", Whole(i))
      BY <3>1, SentEffect, SetCallEffect, RequestForms DEF CallStates
    <3>2. CASE \E s \in {"unsent", "failed"} : SetCall(c, i, s) /\ UNCHANGED up
      BY <3>2, SetCallEffect DEF CallStates
    <3>3. QED
      BY <1>16, <3>1, <3>2 DEF Send, SendsNow
  <2>3. QED
    BY <2>1, <2>2
<1>17. ASSUME NEW i \in Calls PROVE Returns(c, i) => R
  BY DEF Returns, SetCall, TypeOK
<1>18. Dial(c) => R
  BY DEF Dial, TypeOK
<1>19. ReadEvent(c) => R
  BY DEF ReadEvent, TypeOK
<1>20. HalfClose(c) => R
  BY DEF HalfClose, TypeOK
<1>21. Close(c) => R
  BY DEF Close, Closes, TypeOK
<1>22. ASSUME NEW i \in Calls PROVE Start(c, i) => R
  BY DEF Start, SetCall, TypeOK
<1>23. ASSUME NEW i \in Calls PROVE Cancel(c, i) => R
  BY DEF Cancel, TypeOK
<1>24. ASSUME NEW i \in Calls PROVE SendCut(c, i) => R
  BY DEF SendCut, Sent, SetCall, TypeOK
<1> HIDE DEF R
<1>25. Serving(c) => R
  BY <1>1, <1>2, <1>3, <1>4, <1>5, <1>6, <1>7, <1>8, <1>9, <1>10 DEF Serving
<1>26. Writing(c) => R
  BY <1>11, <1>12, <1>13 DEF Writing
<1>27. Receiving(c) => R
  BY <1>14, <1>15, <1>16, <1>17 DEF Receiving
<1>28. R
  BY <1>2, <1>18, <1>19, <1>20, <1>21, <1>22, <1>23, <1>24, <1>25, <1>26, <1>27
  DEF Step
<1>29. QED
  BY <1>28 DEF R

(***************************************************************************)
(* A connection's life.                                                    *)
(***************************************************************************)
\* Every step of a connection keeps what its place in its life says.
LEMMA ServeStep ==
    ASSUME TypeOK, NEW c \in Conns, ConnInv(c), Step(c), phase' = phase
    PROVE  ServeInv(c)'
<1> USE DEF place, queue, work, wire, client, count
<1>1. ServeInv(c) /\ Once(up[c])
  BY DEF ConnInv
<1>2. CASE Accept(c)
  BY <1>1, <1>2 DEF Accept, ServeInv, TypeOK
<1>3. ASSUME NEW mayServe, Refuse(c, mayServe) PROVE ServeInv(c)'
  BY <1>1, <1>3 DEF Refuse, ServeInv, TypeOK
<1>4. CASE Admit(c)
  BY <1>1, <1>4 DEF Admit, ServeInv, TypeOK
<1>5. CASE CloseOnCancel(c)
  BY <1>1, <1>5 DEF CloseOnCancel, ServeInv, TypeOK
<1>6. CASE Read(c)
  <2>1. UNCHANGED <<phase, place, writer, handled, upEnd, down, client, count>>
        /\ st[c] = "reading"
    BY <1>6 DEF Read
  <2>2. IsFiniteSet(slots'[c])
    <3>1. \/ \E i \in Calls : Request(c, i)
          \/ NotRequest(c)
          \/ UNCHANGED <<queue, running, slots>>
      BY <1>1, <1>6, ReadEffect
    <3>2. IsFiniteSet(slots[c])
      BY <1>1 DEF ServeInv
    <3>3. ASSUME NEW i \in Calls, Request(c, i) PROVE IsFiniteSet(slots'[c])
      BY <3>2, <3>3, RequestEffect
    <3>4. QED
      BY <3>1, <3>2, <3>3 DEF NotRequest
  <2>3. QED
    BY <1>1, <2>1, <2>2 DEF ServeInv
<1>7. CASE ReadEnds(c)
  BY <1>1, <1>7 DEF ReadEnds, ServeInv, TypeOK
<1>8. CASE Drain(c)
  BY <1>1, <1>8 DEF Drain, CallsWaited, ServeInv, TypeOK
<1>9. CASE ServeEnds(c)
  BY <1>1, <1>9 DEF ServeEnds, ServeInv, TypeOK
<1>10. ASSUME NEW i \in Calls, Release(c, i) PROVE ServeInv(c)'
  <2>1. slots'[c] = slots[c] \ {i} /\ slots[c] # {}
    BY <1>10 DEF Release, TypeOK
  <2>2. IsFiniteSet(slots'[c])
    BY <1>1, <2>1, FS_RemoveElement DEF ServeInv
  <2>3. UNCHANGED <<phase, place, queue, writer, running, handled, wire, client, count>>
    BY <1>10 DEF Release
  <2>4. QED
    BY <1>1, <2>1, <2>2, <2>3 DEF ServeInv
<1>11. ASSUME NEW i \in Calls, Handle(c, i) PROVE ServeInv(c)'
  <2>1. slots[c] # {}
    BY <1>11 DEF Handle, TypeOK
  <2>2. UNCHANGED <<phase, place, writer, slots, wire, client, count>>
    BY <1>11 DEF Handle
  <2>3. QED
    BY <1>1, <2>1, <2>2 DEF ServeInv
<1>12. CASE Writes(c)
  <2>1. out[c] # <<>>
        /\ UNCHANGED <<phase, place, done, forced, writer, work, up, upEnd, client, count>>
    BY <1>12 DEF Writes
  <2>2. QED
    BY <1>1, <2>1 DEF ServeInv
<1>13. CASE WriteFails(c)
  BY <1>1, <1>13 DEF WriteFails, ServeInv, TypeOK
<1>14. CASE WriterEnds(c)
  BY <1>1, <1>14 DEF WriterEnds, ServeInv, TypeOK
<1>15. CASE Greeted(c)
  <2>1. UNCHANGED <<phase, place, queue, writer, work, up, call, cancelled, events, got,
                    count>>
    BY <1>15 DEF Greeted
  <2>2. cst'[c] \in {"open", "closed"}
    BY <1>15 DEF Greeted, TypeOK
  <2>3. down[c] # <<>> \/ down'[c] = down[c]
    BY <1>15 DEF Greeted
  <2>4. QED
    BY <1>1, <2>1, <2>2, <2>3 DEF ServeInv
<1>16. CASE ReadLoop(c)
  <2>1. UNCHANGED <<phase, place, queue, writer, work, up, cancelled, got, count>>
        /\ cst[c] = "open"
    BY <1>16 DEF ReadLoop
  <2>2. CASE down[c] # <<>>
    <3>1. PICK m : m = Head(down[c])
      OBVIOUS
    <3>2. cst'[c] \in {"open", "closed"}
      <4>1. TakesReply(c, m) \/ TakesEvent(c, m) \/ Closes(c)
        BY <1>16, <3>1 DEF ReadLoop
      <4>2. cst' = cst \/ Closes(c)
        BY <4>1 DEF TakesReply, TakesEvent
      <4>3. QED
        BY <2>1, <4>2 DEF Closes, TypeOK
    <3>3. QED
      BY <1>1, <2>1, <2>2, <3>2 DEF ServeInv
  <2>3. CASE down[c] = <<>>
    <3>1. Closes(c) /\ UNCHANGED <<down, call, events>>
      BY <1>16, <2>3 DEF ReadLoop
    <3>2. cst'[c] = "closed"
      BY <3>1 DEF Closes, TypeOK
    <3>3. QED
      BY <1>1, <2>1, <3>1, <3>2 DEF ServeInv
  <2>4. QED
    BY <2>2, <2>3
<1>17. ASSUME NEW i \in Calls, call[c][i] # "new",
              UNCHANGED <<phase, place, queue, writer, work, upEnd, down, cst, events>>
       PROVE  ServeInv(c)'
  BY <1>1, <1>17 DEF ServeInv
<1>18. ASSUME NEW i \in Calls, Send(c, i) \/ SendCut(c, i) \/ Returns(c, i)
       PROVE  ServeInv(c)'
  <2>1. call[c][i] # "new"
    BY <1>18 DEF Send, SendCut, Returns
  <2>2. UNCHANGED <<phase, place, queue, writer, work, upEnd, down, cst, events>>
    BY <1>18 DEF Send, SendCut, Returns
  <2>3. QED
    BY <1>17, <2>1, <2>2
<1>19. CASE Dial(c)
  BY <1>1, <1>19 DEF Dial, ServeInv, TypeOK
<1>20. CASE ReadEvent(c)
  BY <1>1, <1>20 DEF ReadEvent, ServeInv, TypeOK
<1>21. CASE HalfClose(c)
  BY <1>1, <1>21 DEF HalfClose, ServeInv, TypeOK
<1>22. CASE Close(c)
  BY <1>1, <1>22 DEF Close, Closes, ServeInv, TypeOK
<1>23. ASSUME NEW i \in Calls, Start(c, i) PROVE ServeInv(c)'
  BY <1>1, <1>23 DEF Start, ServeInv
<1>24. ASSUME NEW i \in Calls, Cancel(c, i) PROVE ServeInv(c)'
  BY <1>1, <1>24 DEF Cancel, ServeInv
<1>25. QED
  BY <1>2, <1>3, <1>4, <1>5, <1>6, <1>7, <1>8, <1>9, <1>10, <1>11, <1>12, <1>13, <1>14,
     <1>15, <1>16, <1>18, <1>19, <1>20, <1>21, <1>22, <1>23, <1>24
  DEF Step, Serving, Writing, Receiving

(***************************************************************************)
(* Calls and their answers.                                                *)
(***************************************************************************)
\* Answers on their way: the writer moves them,
LEMMA AnswersMoved ==
    ASSUME TypeOK, NEW c \in Conns, Writes(c)
    PROVE  \A i, code : Answer(c, i, code)' <=> Answer(c, i, code)
<1>1. PICK a, b, b1, m, a1 : /\ a = down[c] /\ b = out[c] /\ b1 = Tail(b) /\ m = Head(b)
                             /\ a1 = Append(a, m)
  OBVIOUS
<1>2. a \in Seq(Lines) /\ b \in Seq(Lines) /\ b # <<>>
  BY <1>1 DEF Writes, TypeOK
<1>3. m \in Lines /\ \A y : Has(b, y) <=> Has(b1, y) \/ y = m
  BY <1>1, <1>2, HasTail
<1>4. \A y : Has(a1, y) <=> Has(a, y) \/ y = m
  BY <1>1, <1>2, <1>3, HasAppend
<1>5. down'[c] = a1 /\ out'[c] = b1
  BY <1>1 DEF Writes, TypeOK
<1>6. QED
  BY <1>1, <1>3, <1>4, <1>5 DEF Answer

\* a handler adds one,
LEMMA AnswersQueued ==
    ASSUME TypeOK, NEW c \in Conns, NEW m \in Lines, Takes(c, m), down'[c] = down[c]
    PROVE  /\ \A i, code : Answer(c, i, code) => Answer(c, i, code)'
           /\ \A i, code : Answer(c, i, code)' => Answer(c, i, code) \/ m = Reply(i, code)
           /\ ~done'[c] => \A i, code : m = Reply(i, code) => Answer(c, i, code)'
<1>1. out[c] \in Seq(Lines)
  BY DEF TypeOK
<1>2. \A y : Has(Append(out[c], m), y) <=> Has(out[c], y) \/ y = m
  BY <1>1, HasAppend
<1>3. PICK q : q = Append(out[c], m)
  OBVIOUS
<1>4. QED
  BY <1>2, <1>3 DEF Takes, Answer

\* the client takes one.
LEMMA AnswersTaken ==
    ASSUME TypeOK, NEW c \in Conns, down[c] # <<>>, down' = [down EXCEPT ![c] = Tail(@)],
           out'[c] = out[c]
    PROVE  /\ \A i, code : Answer(c, i, code)' => Answer(c, i, code)
           /\ \A i, code : Answer(c, i, code) =>
                 Answer(c, i, code)' \/ Head(down[c]) = Reply(i, code)
           /\ \A i, code : Head(down[c]) = Reply(i, code) => Answer(c, i, code)
<1>1. \A y : Has(down[c], y) <=> Has(down'[c], y) \/ y = Head(down[c])
  BY DownTakes
<1>2. PICK m : m = Head(down[c])
  OBVIOUS
<1>3. QED
  BY <1>1, <1>2 DEF Answer

\* Replies are told apart by call and code.
LEMMA ReplyForms ==
    /\ \A i, j, code, kode : Reply(i, code) = Reply(j, kode) => i = j /\ code = kode
    /\ \A i, code : Reply(i, code) # Hello /\ Reply(i, code) # Refusal
    /\ \A i, code, n : Reply(i, code) # Event(n)
    /\ 0 \notin Calls
BY LineForms

\* How a call of the client moves on without a handler.
Moved(c, i) ==
    \/ call'[c][i] = call[c][i]
    \/ call[c][i] = "new" /\ call'[c][i] = "ready"
    \/ call[c][i] = "ready" /\ call'[c][i] \in {"unsent", "failed"}
    \/ call[c][i] = "sent" /\ call'[c][i] \in {"gaveUp", "lost"}
    \/ /\ call[c][i] = "sent"
       /\ \E code \in Codes : call'[c][i] = code /\ Answer(c, i, code)

\* That tells no less.
LEMMA TellsMoved ==
    ASSUME NEW c \in Conns, NEW i \in Calls, TellsInv(c, i), Moved(c, i),
           handled'[c][i] = handled[c][i], running'[c] = running[c],
           Unread(c, i)' => Unread(c, i),
           \A code \in Codes : Answer(c, i, code)' => Answer(c, i, code)
    PROVE  TellsInv(c, i)'
<1>1. AtRest(c, i) => AtRest(c, i)'
  BY DEF AtRest
<1>2. ~Answer(c, i, "ok") => ~Answer(c, i, "ok")'
  BY DEF Codes
<1>3. ~Answer(c, i, "busy") => ~Answer(c, i, "busy")'
  BY DEF Codes
<1>4. i \in running'[c] => ~Unread(c, i)'
  BY DEF TellsInv
<1>5. ~AtRest(c, i)' => handled'[c][i] = 0
  BY <1>1 DEF TellsInv
<1>6. call'[c][i] \in {"new", "ready", "unsent"} =>
         \/ call[c][i] = call'[c][i]
         \/ call[c][i] \in {"new", "ready"}
  BY DEF Moved, Codes
<1>7. \A code \in Codes : Answer(c, i, code)' =>
          AtRest(c, i)' /\ call'[c][i] \notin {"new", "ready", "unsent"}
  BY <1>1, <1>6 DEF TellsInv
<1>8. (Answer(c, i, "ok")' => handled'[c][i] = 1) /\ (Answer(c, i, "busy")' => handled'[c][i] = 0)
  BY <1>2, <1>3 DEF TellsInv
<1>9. call'[c][i] = "ok" => handled'[c][i] = 1
  <2>1. call'[c][i] = "ok" => call[c][i] = "ok" \/ Answer(c, i, "ok")
    BY DEF Moved, Codes
  <2>2. QED
    BY <2>1 DEF TellsInv
<1>10. call'[c][i] \in {"new", "ready", "unsent", "busy"} => AtRest(c, i)' /\ handled'[c][i] = 0
  <2>1. call'[c][i] = "busy" => call[c][i] = "busy" \/ Answer(c, i, "busy")
    BY DEF Moved, Codes
  <2>2. "busy" \in Codes
    BY DEF Codes
  <2>3. QED
    BY <1>1, <1>6, <2>1, <2>2 DEF TellsInv
<1>11. handled'[c][i] =< 1
  BY DEF TellsInv
<1>12. QED
  BY <1>4, <1>5, <1>7, <1>8, <1>9, <1>10, <1>11 DEF TellsInv

\* A request read: the call runs, or its answer is that the daemon is busy.
LEMMA TellsRequest ==
    ASSUME TypeOK, NEW c \in Conns, NEW i \in Calls, TellsInv(c, i), Unread(c, i),
           ~Unread(c, i)', handled' = handled, call' = call, down' = down,
           \/ running'[c] = running[c] \cup {i} /\ UNCHANGED queue
           \/ Takes(c, Reply(i, "busy")) /\ UNCHANGED running
    PROVE  TellsInv(c, i)'
<1>1. /\ i \notin running[c] /\ ~AtRest(c, i) /\ handled[c][i] = 0
      /\ call[c][i] \notin {"new", "ready", "unsent", "busy", "ok"}
      /\ \A code \in Codes : ~Answer(c, i, code)
  BY DEF TellsInv, AtRest
<1>2. CASE running'[c] = running[c] \cup {i} /\ UNCHANGED queue
  <2>1. \A code \in Codes : ~Answer(c, i, code)'
    BY <1>1, <1>2 DEF Answer, queue
  <2>2. QED
    BY <1>1, <1>2, <2>1 DEF TellsInv, AtRest, Codes
<1>3. CASE Takes(c, Reply(i, "busy")) /\ UNCHANGED running
  <2>1. Reply(i, "busy") \in Lines
    BY LineForms DEF Codes
  <2>2. \A code \in Codes : Answer(c, i, code)' => code = "busy"
    BY <1>1, <1>3, <2>1, AnswersQueued, ReplyForms
  <2>3. AtRest(c, i)' /\ ~Answer(c, i, "ok")'
    BY <1>1, <1>3, <2>2 DEF AtRest, Codes
  <2>4. QED
    BY <1>1, <2>2, <2>3 DEF TellsInv
<1>4. QED
  BY <1>2, <1>3

\* Every step of a connection keeps what its calls tell.
LEMMA TellsStep ==
    ASSUME TypeOK, NEW c \in Conns, ConnInv(c), Step(c)
    PROVE  Once(up'[c]) /\ \A i \in Calls : TellsInv(c, i)'
<1> USE DEF place, queue, work, wire, client, count
<1> DEFINE R == Once(up'[c]) /\ \A i \in Calls : TellsInv(c, i)'
<1>1. /\ ServeInv(c) /\ Once(up[c]) /\ \A i \in Calls : TellsInv(c, i)
      /\ up[c] \in Seq(Requests)
  BY DEF ConnInv, TypeOK
<1>2. ASSUME UNCHANGED <<handled, running, up, out, down, call>> PROVE R
  BY <1>1, <1>2, TellsKept
<1>3. ASSUME \/ Accept(c) \/ CloseOnCancel(c) \/ ReadEnds(c) \/ Drain(c) \/ ServeEnds(c)
             \/ (\E i \in Calls : Release(c, i)) \/ WriteFails(c) \/ WriterEnds(c)
             \/ Dial(c) \/ ReadEvent(c) \/ HalfClose(c) \/ Close(c)
             \/ (\E i \in Calls : Cancel(c, i))
      PROVE  R
  BY <1>2, <1>3 DEF Accept, CloseOnCancel, ReadEnds, Drain, ServeEnds, Release, WriteFails,
              WriterEnds, Dial, ReadEvent, HalfClose, Close, Cancel
<1>4. ASSUME UNCHANGED <<handled, running, up>>, \A i \in Calls : Moved(c, i),
             \A i \in Calls, code \in Codes : Answer(c, i, code)' => Answer(c, i, code)
      PROVE  R
  <2>1. \A i \in Calls : Unread(c, i)' => Unread(c, i)
    BY <1>4 DEF Unread
  <2>2. ASSUME NEW i \in Calls PROVE TellsInv(c, i)'
    BY <1>1, <1>4, <2>1, TellsMoved
  <2>3. QED
    BY <1>1, <1>4, <2>2
<1>5. ASSUME NEW mayServe, Refuse(c, mayServe) PROVE R
  <2>1. out[c] = <<>> /\ down[c] = <<>>
    BY <1>1, <1>5 DEF ServeInv, Refuse
  <2>2. out'[c] = <<>> /\ down'[c] = <<Refusal>>
    BY <1>5, <2>1 DEF Refuse, TypeOK
  <2>3. \A y : Has(<<Refusal>>, y) <=> y = Refusal
    BY DEF Has
  <2>4. \A i \in Calls, code \in Codes : ~Answer(c, i, code)'
    BY <2>2, <2>3, HasNone, ReplyForms DEF Answer
  <2>5. QED
    BY <1>4, <1>5, <2>4 DEF Refuse, Moved
<1>6. ASSUME Admit(c) PROVE R
  <2>1. down[c] = <<>>
    BY <1>1, <1>6 DEF ServeInv, Admit
  <2>2. out'[c] = <<Hello>> /\ down'[c] = <<>>
    BY <1>6, <2>1 DEF Admit, TypeOK
  <2>3. \A y : Has(<<Hello>>, y) <=> y = Hello
    BY DEF Has
  <2>4. \A i \in Calls, code \in Codes : ~Answer(c, i, code)'
    BY <2>2, <2>3, HasNone, ReplyForms DEF Answer
  <2>5. QED
    BY <1>4, <1>6, <2>4 DEF Admit, Moved
<1>7. ASSUME Read(c) PROVE R
  <2>1. /\ Once(up'[c])
        /\ \A j \in Calls : Unread(c, j)' => Unread(c, j)
        /\ \/ \E i \in Calls : Request(c, i) /\ Unread(c, i) /\ ~Unread(c, i)'
           \/ NotRequest(c)
           \/ UNCHANGED <<queue, running, slots>>
    BY <1>1, <1>7, ReadEffect
  <2>2. UNCHANGED <<handled, down, call>>
    BY <1>7 DEF Read
  <2>3. \A j \in Calls : Moved(c, j)
    BY <2>2 DEF Moved
  <2>4. ASSUME NEW i \in Calls \cup {0}, NEW code \in Codes, Takes(c, Reply(i, code))
        PROVE  \A j \in Calls \ {i}, kode \in Codes : Answer(c, j, kode)' => Answer(c, j, kode)
    <3>1. PICK m : m = Reply(i, code)
      OBVIOUS
    <3>2. m \in Lines /\ Takes(c, m)
      BY <2>4, <3>1, LineForms
    <3>3. \A j, kode : Answer(c, j, kode)' => Answer(c, j, kode) \/ m = Reply(j, kode)
      BY <2>2, <3>2, AnswersQueued
    <3>4. QED
      BY <3>1, <3>3, ReplyForms
  <2>5. CASE NotRequest(c)
    <3>1. Takes(c, Reply(0, "error")) /\ UNCHANGED running
      BY <2>5, SendLineEffect, LineForms DEF NotRequest, Codes
    <3>2. \A j \in Calls, code \in Codes : Answer(c, j, code)' => Answer(c, j, code)
      BY <2>4, <3>1, ReplyForms DEF Codes
    <3>3. \A j \in Calls : TellsInv(c, j)'
      BY <1>1, <2>1, <2>2, <2>3, <3>1, <3>2, TellsMoved
    <3>4. QED
      BY <2>1, <3>3
  <2>6. CASE UNCHANGED <<queue, running, slots>>
    <3>1. \A j \in Calls, code \in Codes : Answer(c, j, code)' => Answer(c, j, code)
      BY <2>2, <2>6 DEF Answer
    <3>2. \A j \in Calls : TellsInv(c, j)'
      BY <1>1, <2>1, <2>2, <2>3, <2>6, <3>1, TellsMoved
    <3>3. QED
      BY <2>1, <3>2
  <2>7. ASSUME NEW i \in Calls, Request(c, i), Unread(c, i), ~Unread(c, i)' PROVE R
    <3>1. \/ running'[c] = running[c] \cup {i} /\ UNCHANGED queue
          \/ Takes(c, Reply(i, "busy")) /\ UNCHANGED running
      <4>1. IsFiniteSet(slots[c])
        BY <1>1 DEF ServeInv
      <4>2. \/ running'[c] = running[c] \cup {i} /\ UNCHANGED queue
            \/ SendLine(c, Reply(i, "busy")) /\ UNCHANGED <<running, slots>>
        BY <2>7, <4>1, RequestEffect
      <4>3. Reply(i, "busy") \in Lines
        BY LineForms DEF Codes
      <4>4. QED
        BY <4>2, <4>3, SendLineEffect
    <3>2. TellsInv(c, i)'
      BY <1>1, <2>2, <2>7, <3>1, TellsRequest
    <3>3. ASSUME NEW j \in Calls \ {i} PROVE TellsInv(c, j)'
      <4>1. \A code \in Codes : Answer(c, j, code)' => Answer(c, j, code)
        <5>1. CASE UNCHANGED queue
          BY <2>2, <5>1 DEF Answer
        <5>2. CASE Takes(c, Reply(i, "busy"))
          BY <2>4, <5>2 DEF Codes
        <5>3. QED
          BY <3>1, <5>1, <5>2
      <4>2. j \in running'[c] <=> j \in running[c]
        BY <3>1
      <4>3. /\ Unread(c, j)' => Unread(c, j)
            /\ AtRest(c, j) => AtRest(c, j)'
            /\ handled'[c][j] = handled[c][j] /\ call'[c][j] = call[c][j]
        BY <2>1, <2>2, <4>2 DEF AtRest
      <4>4. TellsInv(c, j)
        BY <1>1
      <4>5. QED
        BY <4>1, <4>2, <4>3, <4>4 DEF TellsInv, Codes
    <3>4. QED
      BY <2>1, <3>2, <3>3
  <2>8. QED
    BY <2>1, <2>5, <2>6, <2>7
<1>8. ASSUME NEW i \in Calls, Handle(c, i) PROVE R
  <2>1. UNCHANGED <<up, down, call>> /\ i \in running[c] /\ running'[c] = running[c] \ {i}
    BY <1>8 DEF Handle, TypeOK
  <2>2. PICK m : m = Reply(i, "ok")
    OBVIOUS
  <2>3. m \in Lines /\ Takes(c, m)
    BY <1>8, <2>2, LineForms, SendLineEffect DEF Handle, Codes
  <2>4. \A j, code : Answer(c, j, code)' => Answer(c, j, code) \/ m = Reply(j, code)
    BY <2>1, <2>3, AnswersQueued
  <2>5. /\ handled'[c][i] = handled[c][i] + 1
        /\ \A j \in Calls \ {i} : handled'[c][j] = handled[c][j]
    BY <1>8, HandleCounts
  <2>6. \A j \in Calls : Unread(c, j)' <=> Unread(c, j)
    BY <2>1 DEF Unread
  <2>7. TellsInv(c, i)'
    <3>1. /\ ~AtRest(c, i) /\ ~Unread(c, i) /\ handled[c][i] = 0
          /\ call[c][i] \notin {"new", "ready", "unsent", "busy"}
          /\ \A code \in Codes : ~Answer(c, i, code)
      BY <1>1, <2>1 DEF TellsInv, AtRest
    <3>2. \A code \in Codes : Answer(c, i, code)' => code = "ok"
      BY <2>2, <2>4, <3>1, ReplyForms
    <3>3. AtRest(c, i)' /\ ~Answer(c, i, "busy")' /\ handled'[c][i] = 1
      BY <2>1, <2>5, <2>6, <3>1, <3>2 DEF AtRest, Codes
    <3>4. QED
      BY <2>1, <3>1, <3>2, <3>3 DEF TellsInv
  <2>8. ASSUME NEW j \in Calls \ {i} PROVE TellsInv(c, j)'
    <3>1. \A code \in Codes : Answer(c, j, code)' => Answer(c, j, code)
      BY <2>2, <2>4, ReplyForms
    <3>2. (j \in running'[c] <=> j \in running[c]) /\ (AtRest(c, j) <=> AtRest(c, j)')
      BY <2>1, <2>6 DEF AtRest
    <3>3. TellsInv(c, j)
      BY <1>1
    <3>4. QED
      BY <2>1, <2>5, <2>6, <3>1, <3>2, <3>3 DEF TellsInv, Codes
  <2>9. QED
    BY <1>1, <2>1, <2>7, <2>8
<1>9. ASSUME Writes(c) PROVE R
  BY <1>4, <1>9, AnswersMoved DEF Writes, Moved
<1>10. ASSUME Greeted(c) PROVE R
  <2>1. \A i \in Calls, code \in Codes : Answer(c, i, code)' => Answer(c, i, code)
    <3>1. CASE down[c] # <<>> /\ down' = [down EXCEPT ![c] = Tail(@)]
      BY <1>10, <3>1, AnswersTaken DEF Greeted
    <3>2. CASE UNCHANGED down
      BY <1>10, <3>2 DEF Greeted, Answer
    <3>3. QED
      BY <1>10, <3>1, <3>2 DEF Greeted
  <2>2. QED
    BY <1>4, <1>10, <2>1 DEF Greeted, Moved
<1>11. ASSUME ReadLoop(c) PROVE R
  <2>1. UNCHANGED <<handled, running, up, out>>
    BY <1>11 DEF ReadLoop
  <2>2. CASE down[c] # <<>> /\ down' = [down EXCEPT ![c] = Tail(@)]
    <3>1. PICK m : m = Head(down[c])
      OBVIOUS
    <3>2. /\ \A i, code : Answer(c, i, code)' => Answer(c, i, code)
          /\ \A i, code : m = Reply(i, code) => Answer(c, i, code)
          /\ m \in Lines
      BY <2>1, <2>2, <3>1, AnswersTaken, DownTakes
    <3>3. \/ m.type = "reply" /\ TakesReply(c, m)
          \/ UNCHANGED call
      BY <1>11, <3>1 DEF ReadLoop, TakesEvent
    <3>4. CASE m.type = "reply" /\ TakesReply(c, m)
      <4>1. m = Reply(m.id, m.code) /\ m.code \in Codes
        BY <3>2, <3>4, LineForms DEF Lines, Codes
      <4>2. \A i \in Calls : call'[c][i] = IF i = m.id /\ call[c][i] = "sent"
                                           THEN m.code ELSE call[c][i]
        BY <3>2, <3>4, TakesReplyEffect
      <4>3. \A i \in Calls : Moved(c, i)
        BY <3>2, <4>1, <4>2 DEF Moved
      <4>4. QED
        BY <1>4, <2>1, <3>2, <4>3
    <3>5. CASE UNCHANGED call
      BY <1>4, <2>1, <3>2, <3>5 DEF Moved
    <3>6. QED
      BY <3>3, <3>4, <3>5
  <2>3. CASE UNCHANGED <<down, call, events>>
    BY <1>2, <2>1, <2>3
  <2>4. QED
    BY <1>11, <2>2, <2>3 DEF ReadLoop
<1>12. ASSUME NEW i \in Calls, NEW s \in CallStates, SetCall(c, i, s),
              UNCHANGED <<handled, running, up, out, down>>,
              \/ call[c][i] = "new" /\ s = "ready"
              \/ call[c][i] = "ready" /\ s \in {"unsent", "failed"}
              \/ call[c][i] = "sent" /\ s \in {"gaveUp", "lost"}
       PROVE  R
  <2>1. call'[c][i] = s /\ \A j \in Calls \ {i} : call'[c][j] = call[c][j]
    BY <1>12, SetCallEffect
  <2>2. \A j \in Calls : Moved(c, j)
    BY <1>12, <2>1 DEF Moved
  <2>3. \A j \in Calls, code \in Codes : Answer(c, j, code)' => Answer(c, j, code)
    BY <1>12 DEF Answer
  <2>4. QED
    BY <1>4, <1>12, <2>2, <2>3
<1>13. ASSUME NEW i \in Calls, NEW s \in {"sent", "failed"}, NEW r \in {Whole(i), Cut(i)},
              call[c][i] = "ready", Sent(c, i, s, r), UNCHANGED <<handled, running, out, down>>
       PROVE  R
  <2>1. r \in Requests /\ s \in CallStates
    BY RequestForms DEF CallStates
  <2>2. /\ up'[c] = Append(up[c], r) /\ SetCall(c, i, s)
    BY <1>13, <2>1, SentEffect
  <2>3. call'[c][i] = s /\ \A j \in Calls \ {i} : call'[c][j] = call[c][j]
    BY <2>1, <2>2, SetCallEffect
  <2>4. \A y : Has(up'[c], y) <=> Has(up[c], y) \/ y = r
    BY <1>1, <2>1, <2>2, HasAppend
  <2>5. r.call = i
    BY DEF Whole, Cut
  <2>6. /\ AtRest(c, i) /\ ~Unread(c, i) /\ handled[c][i] = 0
        /\ \A code \in Codes : ~Answer(c, i, code)
    BY <1>1, <1>13 DEF TellsInv, AtRest
  <2>7. Once(up'[c])
    BY <1>1, <2>1, <2>2, <2>5, <2>6, OnceAppend DEF Unread
  <2>8. \A j \in Calls, code \in Codes : Answer(c, j, code)' => Answer(c, j, code)
    BY <1>13 DEF Answer
  <2>9. TellsInv(c, i)'
    <3>1. i \notin running'[c] /\ handled'[c][i] = 0 /\ call'[c][i] \in {"sent", "failed"}
          /\ \A code \in Codes : ~Answer(c, i, code)'
      BY <1>13, <2>3, <2>6, <2>8 DEF AtRest
    <3>2. QED
      BY <3>1 DEF TellsInv, Codes
  <2>10. ASSUME NEW j \in Calls \ {i} PROVE TellsInv(c, j)'
    <3>1. Whole(j) # r /\ Cut(j) # r
      BY RequestForms
    <3>2. Unread(c, j)' => Unread(c, j)
      BY <2>4, <3>1 DEF Unread
    <3>3. QED
      BY <1>1, <1>13, <2>3, <2>8, <3>2, TellsMoved DEF Moved
  <2>11. QED
    BY <2>7, <2>9, <2>10
<1>14. ASSUME NEW i \in Calls, Send(c, i) PROVE R
  <2>1. call[c][i] = "ready" /\ UNCHANGED <<handled, running, out, down>>
    BY <1>14 DEF Send
  <2>2. CASE \E s \in {"unsent", "failed"} : SetCall(c, i, s) /\ UNCHANGED up
    BY <1>12, <2>1, <2>2 DEF CallStates
  <2>3. CASE Sent(c, i, "sent", Whole(i))
    BY <1>13, <2>1, <2>3
  <2>4. QED
    BY <1>14, <2>2, <2>3 DEF Send, SendsNow
<1>15. ASSUME NEW i \in Calls, SendCut(c, i) PROVE R
  BY <1>13, <1>15 DEF SendCut
<1>16. ASSUME NEW i \in Calls, Returns(c, i) PROVE R
  BY <1>12, <1>16 DEF Returns, CallStates
<1>17. ASSUME NEW i \in Calls, Start(c, i) PROVE R
  BY <1>12, <1>17 DEF Start, CallStates
<1> HIDE DEF R
<1>18. Serving(c) => R
  BY <1>3, <1>5, <1>6, <1>7, <1>8 DEF Serving
<1>19. Writing(c) => R
  BY <1>3, <1>9 DEF Writing
<1>20. Receiving(c) => R
  BY <1>10, <1>11, <1>14, <1>16 DEF Receiving
<1>21. R
  BY <1>3, <1>5, <1>15, <1>17, <1>18, <1>19, <1>20 DEF Step
<1>22. QED
  BY <1>21 DEF R

(***************************************************************************)
(* No call is lost.                                                        *)
(***************************************************************************)
\* A step of the client: it may end calls, take answers to calls that wait no
\* more and stop sending, but leaves the session and the lines on the way to it.
LEMMA DrainClient ==
    ASSUME NEW c \in Conns, DrainInv(c), up'[c] = up[c], forced'[c] = forced[c],
           done'[c] = done[c], st'[c] = st[c], writer'[c] = writer[c], out'[c] = out[c],
           running'[c] = running[c], upEnd[c] => upEnd'[c],
           SomeFailed(c) => SomeFailed(c)',
           \A i \in Calls : call'[c][i] = "sent" => call[c][i] = "sent",
           \A i \in Calls, code \in Codes :
              call'[c][i] = "sent" /\ Answer(c, i, code) => Answer(c, i, code)'
    PROVE  DrainInv(c)'
<1>1. ASSUME NEW i \in Calls, call'[c][i] = "sent", Kept(c, i) PROVE Kept(c, i)'
  BY <1>1 DEF Kept
<1>2. \A i \in Calls \cup {0} : Has(up'[c], Cut(i)) => SomeFailed(c)'
  BY DEF DrainInv
<1>3. ASSUME ~forced'[c], NEW i \in Calls, call'[c][i] = "sent" PROVE Kept(c, i)'
  BY <1>1, <1>3 DEF DrainInv
<1>4. QED
  BY <1>2, <1>3 DEF DrainInv

\* Every step of a connection keeps its calls on their way.
LEMMA DrainStep ==
    ASSUME TypeOK, NEW c \in Conns, ConnInv(c), Step(c)
    PROVE  DrainInv(c)'
<1> USE DEF place, queue, work, wire, client, count
<1> DEFINE R == DrainInv(c)'
<1>1. /\ ServeInv(c) /\ Once(up[c]) /\ DrainInv(c) /\ up[c] \in Seq(Requests)
      /\ forced[c] \in BOOLEAN /\ done[c] \in BOOLEAN
  BY DEF ConnInv, TypeOK
<1>2. CutIn(c) => SomeFailed(c)
  BY <1>1 DEF CutIn, DrainInv
<1>3. ASSUME forced'[c] = TRUE, UNCHANGED <<up, call>> PROVE R
  <2>1. SomeFailed(c)' <=> SomeFailed(c)
    BY <1>3 DEF SomeFailed
  <2>2. QED
    BY <1>1, <1>3, <2>1 DEF DrainInv
<1>4. ASSUME (\E b : Refuse(c, b)) \/ CloseOnCancel(c) \/ WriteFails(c) PROVE R
  <2>1. forced'[c] = TRUE /\ UNCHANGED <<up, call>>
    BY <1>4 DEF Refuse, CloseOnCancel, WriteFails, TypeOK
  <2>2. QED
    BY <1>3, <2>1
<1>5. ASSUME UNCHANGED <<up, call, down, running, forced, upEnd>>,
             \A i, code : Answer(c, i, code) => Answer(c, i, code)',
             ~forced[c] =>
                /\ done'[c] => st'[c] = "over"
                /\ st'[c] = "over" => writer'[c] = "ended"
                /\ st'[c] \in {"waiting", "draining", "over"} => up[c] = <<>> /\ upEnd[c]
                /\ writer'[c] = "ended" =>
                      /\ st'[c] \in {"draining", "over"}
                      /\ \A i \in Calls, code \in Codes : ~Has(out'[c], Reply(i, code))
      PROVE  R
  <2>1. SomeFailed(c)' <=> SomeFailed(c)
    BY <1>5 DEF SomeFailed
  <2>2. \A i \in Calls : Kept(c, i) => Kept(c, i)'
    BY <1>5, <2>1 DEF Kept
  <2>3. QED
    BY <1>1, <1>5, <2>1, <2>2 DEF DrainInv
<1>6. ASSUME Accept(c) PROVE R
  <2>1. /\ UNCHANGED <<up, call, down, running, forced, upEnd, out, done, writer>>
        /\ st[c] = "none" /\ st'[c] = "accepted"
    BY <1>6 DEF Accept, TypeOK
  <2>2. \A i, code : Answer(c, i, code) => Answer(c, i, code)'
    BY <2>1 DEF Answer
  <2>3. QED
    BY <1>1, <1>5, <2>1, <2>2 DEF DrainInv
<1>7. ASSUME Admit(c) PROVE R
  <2>1. /\ UNCHANGED <<up, call, down, running, forced, upEnd, done>>
        /\ st[c] = "accepted" /\ st'[c] = "reading" /\ writer'[c] = "run"
    BY <1>7 DEF Admit, TypeOK
  <2>2. out[c] = <<>> /\ down[c] = <<>>
    BY <1>1, <2>1 DEF ServeInv
  <2>3. \A i, code : ~Answer(c, i, code)
    BY <2>2, HasNone DEF Answer
  <2>4. QED
    BY <1>1, <1>5, <2>1, <2>3 DEF DrainInv
<1>8. ASSUME ReadEnds(c) PROVE R
  <2>1. /\ UNCHANGED <<up, call, down, running, forced, upEnd, out, done, writer>>
        /\ st[c] = "reading" /\ st'[c] = "waiting" /\ (done[c] \/ (upEnd[c] /\ up[c] = <<>>))
    BY <1>8 DEF ReadEnds, TypeOK
  <2>2. \A i, code : Answer(c, i, code) => Answer(c, i, code)'
    BY <2>1 DEF Answer
  <2>3. QED
    BY <1>1, <1>5, <2>1, <2>2 DEF DrainInv
<1>9. ASSUME Drain(c) PROVE R
  <2>1. /\ UNCHANGED <<up, call, down, running, forced, upEnd, out, done, writer>>
        /\ st[c] = "waiting" /\ st'[c] = "draining"
    BY <1>9 DEF Drain, CallsWaited, TypeOK
  <2>2. \A i, code : Answer(c, i, code) => Answer(c, i, code)'
    BY <2>1 DEF Answer
  <2>3. QED
    BY <1>1, <1>5, <2>1, <2>2 DEF DrainInv
<1>10. ASSUME ServeEnds(c) PROVE R
  <2>1. /\ UNCHANGED <<up, call, down, running, forced, upEnd, out, writer>>
        /\ st[c] = "draining" /\ st'[c] = "over" /\ writer[c] = "ended"
    BY <1>10 DEF ServeEnds, TypeOK
  <2>2. \A i, code : Answer(c, i, code) => Answer(c, i, code)'
    BY <2>1 DEF Answer
  <2>3. QED
    BY <1>1, <1>5, <2>1, <2>2 DEF DrainInv
<1>11. ASSUME Writes(c) PROVE R
  <2>1. /\ UNCHANGED <<up, call, running, forced, upEnd, done, writer, st>>
        /\ writer[c] = "run"
    BY <1>11 DEF Writes
  <2>2. \A i, code : Answer(c, i, code)' <=> Answer(c, i, code)
    BY <1>11, AnswersMoved
  <2>3. SomeFailed(c)' <=> SomeFailed(c)
    BY <2>1 DEF SomeFailed
  <2>4. \A i \in Calls : Kept(c, i) => Kept(c, i)'
    BY <2>1, <2>2, <2>3 DEF Kept
  <2>5. QED
    BY <1>1, <2>1, <2>3, <2>4 DEF DrainInv
<1>12. ASSUME WriterEnds(c) PROVE R
  <2>1. /\ UNCHANGED <<up, call, down, running, forced, upEnd, out, done, st>>
        /\ writer[c] = "run" /\ writer'[c] = "ended" /\ Drained(c)
    BY <1>12 DEF WriterEnds, TypeOK
  <2>2. \A i, code : Answer(c, i, code) => Answer(c, i, code)'
    BY <2>1 DEF Answer
  <2>3. st[c] # "over"
    BY <1>1, <2>1 DEF ServeInv
  <2>4. ~forced[c] => st[c] = "draining" /\ out[c] = <<>>
    BY <1>1, <2>1, <2>3 DEF DrainInv, Drained
  <2>5. QED
    BY <1>1, <1>5, <2>1, <2>2, <2>4, HasNone DEF DrainInv
<1>13. ASSUME Read(c) PROVE R
  <2>1. /\ CutIn(c)' => CutIn(c)
        /\ \/ \E i \in Calls :
                /\ Request(c, i)
                /\ \A j \in Calls \ {i} :
                      Has(up[c], Whole(j)) => Has(up'[c], Whole(j)) \/ CutIn(c)
           \/ NotRequest(c) /\ CutIn(c)
           \/ UNCHANGED <<queue, running, slots>> /\ CutIn(c)
    BY <1>1, <1>13, ReadEffect
  <2>2. /\ UNCHANGED <<st, writer, down, call>> /\ st[c] = "reading"
        /\ ~forced[c] => ~done[c]
    BY <1>1, <1>13 DEF Read, DrainInv
  <2>3. SomeFailed(c)' <=> SomeFailed(c)
    BY <2>2 DEF SomeFailed
  <2>4. \A i \in Calls \cup {0} : Has(up'[c], Cut(i)) => SomeFailed(c)'
    BY <1>2, <2>1, <2>3 DEF CutIn
  <2>5. ASSUME ~forced'[c] => ~forced[c] /\ ~done'[c],
               ~forced'[c] => \A i \in Calls : Kept(c, i) => Kept(c, i)'
        PROVE  R
    <3>1. ~forced'[c] => \A i \in Calls : call[c][i] = "sent" => Kept(c, i)'
      BY <1>1, <2>5 DEF DrainInv
    <3>2. ~forced'[c] => writer[c] # "ended"
      BY <1>1, <2>2, <2>5 DEF DrainInv
    <3>3. QED
      BY <2>2, <2>4, <2>5, <3>1, <3>2 DEF DrainInv
  <2>6. ASSUME NEW m \in Lines, Takes(c, m)
        PROVE  /\ ~forced'[c] => ~forced[c] /\ ~done'[c]
               /\ \A i, code : Answer(c, i, code) => Answer(c, i, code)'
               /\ ~forced'[c] => \A i, code : m = Reply(i, code) => Answer(c, i, code)'
    <3>1. ~forced'[c] => ~forced[c] /\ ~done'[c]
      BY <2>2, <2>6 DEF Takes
    <3>2. QED
      BY <2>2, <2>6, <3>1, AnswersQueued
  <2>7. ASSUME NotRequest(c), CutIn(c) PROVE R
    <3>1. Takes(c, Reply(0, "error")) /\ Reply(0, "error") \in Lines
      BY <2>7, SendLineEffect, LineForms DEF NotRequest, Codes
    <3>2. \A i \in Calls : Kept(c, i)'
      BY <1>2, <2>3, <2>7 DEF Kept
    <3>3. QED
      BY <2>5, <2>6, <3>1, <3>2
  <2>8. ASSUME UNCHANGED <<queue, running, slots>>, CutIn(c) PROVE R
    <3>1. \A i \in Calls : Kept(c, i)'
      BY <1>2, <2>3, <2>8 DEF Kept
    <3>2. QED
      BY <2>2, <2>5, <2>8, <3>1
  <2>9. ASSUME NEW i \in Calls, Request(c, i),
               \A j \in Calls \ {i} :
                  Has(up[c], Whole(j)) => Has(up'[c], Whole(j)) \/ CutIn(c)
        PROVE  R
    <3>1. IsFiniteSet(slots[c])
      BY <1>1 DEF ServeInv
    <3>2. \/ running'[c] = running[c] \cup {i} /\ UNCHANGED queue
          \/ SendLine(c, Reply(i, "busy")) /\ UNCHANGED <<running, slots>>
      BY <2>9, <3>1, RequestEffect
    <3>3. CASE running'[c] = running[c] \cup {i} /\ UNCHANGED queue
      <4>1. \A j \in Calls, code \in Codes : Answer(c, j, code) => Answer(c, j, code)'
        BY <2>2, <3>3 DEF Answer
      <4>2. \A j \in Calls : Kept(c, j) => Kept(c, j)'
        BY <1>2, <2>3, <2>9, <3>3, <4>1 DEF Kept
      <4>3. QED
        BY <2>2, <2>5, <3>3, <4>2
    <3>4. CASE SendLine(c, Reply(i, "busy")) /\ UNCHANGED <<running, slots>>
      <4>1. PICK m : m = Reply(i, "busy")
        OBVIOUS
      <4>2. Takes(c, m) /\ m \in Lines /\ "busy" \in Codes
        BY <3>4, <4>1, SendLineEffect, LineForms DEF Codes
      <4>3. /\ ~forced'[c] => ~forced[c] /\ ~done'[c]
            /\ \A j, code : Answer(c, j, code) => Answer(c, j, code)'
            /\ ~forced'[c] => Answer(c, i, "busy")'
        BY <2>6, <4>1, <4>2
      <4>4. ~forced'[c] => \A j \in Calls : Kept(c, j) => Kept(c, j)'
        BY <1>2, <2>3, <2>9, <3>4, <4>2, <4>3 DEF Kept
      <4>5. QED
        BY <2>5, <4>3, <4>4
    <3>5. QED
      BY <3>2, <3>3, <3>4
  <2>10. QED
    BY <2>1, <2>7, <2>8, <2>9
<1>14. ASSUME NEW i \in Calls, Handle(c, i) PROVE R
  <2>1. /\ UNCHANGED <<up, down, call, st, writer, upEnd>> /\ i \in running[c]
        /\ running'[c] = running[c] \ {i}
    BY <1>14 DEF Handle, TypeOK
  <2>2. PICK m : m = Reply(i, "ok")
    OBVIOUS
  <2>3. m \in Lines /\ Takes(c, m) /\ "ok" \in Codes
    BY <1>14, <2>2, LineForms, SendLineEffect DEF Handle, Codes
  <2>4. st[c] \in {"reading", "waiting"}
    <3>1. slots[c] # {}
      BY <2>1 DEF TypeOK
    <3>2. QED
      BY <1>1, <3>1 DEF ServeInv
  <2>5. ~forced'[c] => ~forced[c] /\ ~done'[c]
    BY <1>1, <2>3, <2>4 DEF Takes, DrainInv
  <2>6. /\ \A j, code : Answer(c, j, code) => Answer(c, j, code)'
        /\ ~forced'[c] => Answer(c, i, "ok")'
    BY <2>1, <2>2, <2>3, <2>5, AnswersQueued
  <2>7. SomeFailed(c)' <=> SomeFailed(c)
    BY <2>1 DEF SomeFailed
  <2>8. ~forced'[c] => \A j \in Calls : Kept(c, j) => Kept(c, j)'
    BY <2>1, <2>3, <2>6, <2>7 DEF Kept
  <2>9. QED
    BY <1>1, <2>1, <2>4, <2>5, <2>7, <2>8 DEF DrainInv
<1>15. ASSUME \/ (\E i \in Calls : Release(c, i)) \/ Dial(c) \/ ReadEvent(c)
              \/ HalfClose(c) \/ Close(c) \/ (\E i \in Calls : Cancel(c, i))
       PROVE  R
  <2>1. UNCHANGED <<up, forced, done, st, writer, out, running, call, down>>
    BY <1>15 DEF Release, Dial, ReadEvent, HalfClose, Close, Cancel
  <2>2. upEnd[c] => upEnd'[c]
    BY <1>15 DEF Release, Dial, ReadEvent, HalfClose, Close, Closes, Cancel, TypeOK
  <2>3. SomeFailed(c) => SomeFailed(c)'
    BY <2>1 DEF SomeFailed
  <2>4. \A i, code : Answer(c, i, code) => Answer(c, i, code)'
    BY <2>1 DEF Answer
  <2>5. QED
    BY <1>1, <2>1, <2>2, <2>3, <2>4, DrainClient
<1>16. ASSUME Greeted(c) PROVE R
  <2>1. UNCHANGED <<up, forced, done, st, writer, out, running, call>>
    BY <1>16 DEF Greeted
  <2>2. ~upEnd[c] /\ \A i \in Calls : call[c][i] = "new"
    BY <1>1, <1>16 DEF Greeted, ServeInv
  <2>3. SomeFailed(c) => SomeFailed(c)'
    BY <2>1 DEF SomeFailed
  <2>4. QED
    BY <1>1, <2>1, <2>2, <2>3, DrainClient
<1>17. ASSUME ReadLoop(c) PROVE R
  <2>1. UNCHANGED <<up, forced, done, st, writer, out, running>>
    BY <1>17 DEF ReadLoop
  <2>2. CASE down[c] # <<>> /\ down' = [down EXCEPT ![c] = Tail(@)]
    <3>1. PICK m : m = Head(down[c])
      OBVIOUS
    <3>2. /\ \A i, code : Answer(c, i, code) => Answer(c, i, code)' \/ m = Reply(i, code)
          /\ m \in Lines
      BY <2>1, <2>2, <3>1, AnswersTaken, DownTakes
    <3>3. \/ m.type = "reply" /\ TakesReply(c, m)
          \/ m.type = "event" /\ TakesEvent(c, m)
      BY <1>17, <2>2, <3>1 DEF ReadLoop
    <3>4. CASE m.type = "reply" /\ TakesReply(c, m)
      <4>1. m.code \in Codes
        BY <3>2 DEF Lines, Codes
      <4>2. \A i \in Calls : call'[c][i] = IF i = m.id /\ call[c][i] = "sent"
                                           THEN m.code ELSE call[c][i]
        BY <3>2, <3>4, TakesReplyEffect
      <4>3. UNCHANGED upEnd
        BY <3>4 DEF TakesReply
      <4>4. SomeFailed(c) => SomeFailed(c)'
        BY <4>2 DEF SomeFailed
      <4>5. \A i \in Calls : call'[c][i] = "sent" => call[c][i] = "sent" /\ i # m.id
        BY <4>1, <4>2 DEF Codes
      <4>6. ASSUME NEW i \in Calls, NEW code \in Codes, call'[c][i] = "sent",
                   Answer(c, i, code)
            PROVE  Answer(c, i, code)'
        BY <3>2, <4>5, <4>6, LineForms
      <4>7. QED
        BY <1>1, <2>1, <4>3, <4>4, <4>5, <4>6, DrainClient
    <3>5. CASE m.type = "event" /\ TakesEvent(c, m)
      <4>1. UNCHANGED call /\ (upEnd[c] => upEnd'[c])
        BY <3>5 DEF TakesEvent, Closes, TypeOK
      <4>2. SomeFailed(c) => SomeFailed(c)'
        BY <4>1 DEF SomeFailed
      <4>3. \A i, code : m # Reply(i, code)
        BY <3>5, LineForms
      <4>4. QED
        BY <1>1, <2>1, <3>2, <4>1, <4>2, <4>3, DrainClient
    <3>6. QED
      BY <3>3, <3>4, <3>5
  <2>3. CASE Closes(c) /\ UNCHANGED <<down, call, events>>
    <3>1. upEnd[c] => upEnd'[c]
      BY <2>3 DEF Closes, TypeOK
    <3>2. SomeFailed(c) => SomeFailed(c)'
      BY <2>3 DEF SomeFailed
    <3>3. \A i, code : Answer(c, i, code) => Answer(c, i, code)'
      BY <2>1, <2>3 DEF Answer
    <3>4. QED
      BY <1>1, <2>1, <2>3, <3>1, <3>2, <3>3, DrainClient
  <2>4. QED
    BY <1>17, <2>2, <2>3 DEF ReadLoop
<1>18. ASSUME NEW i \in Calls, NEW s \in CallStates \ {"sent"}, call[c][i] # "failed",
              SetCall(c, i, s),
              UNCHANGED <<up, forced, done, st, writer, out, running, down, upEnd>>
       PROVE  R
  <2>1. call'[c][i] = s /\ \A j \in Calls \ {i} : call'[c][j] = call[c][j]
    BY <1>18, SetCallEffect
  <2>2. SomeFailed(c) => SomeFailed(c)'
    BY <1>18, <2>1 DEF SomeFailed
  <2>3. \A j, code : Answer(c, j, code) => Answer(c, j, code)'
    BY <1>18 DEF Answer
  <2>4. \A j \in Calls : call'[c][j] = "sent" => call[c][j] = "sent"
    BY <1>18, <2>1
  <2>5. QED
    BY <1>1, <1>18, <2>2, <2>3, <2>4, DrainClient
<1>19. ASSUME NEW i \in Calls, Start(c, i) PROVE R
  BY <1>18, <1>19 DEF Start, CallStates
<1>20. ASSUME NEW i \in Calls, Returns(c, i) PROVE R
  BY <1>18, <1>20 DEF Returns, CallStates
<1>21. ASSUME NEW i \in Calls, call[c][i] = "ready", ~upEnd[c],
              Sent(c, i, "sent", Whole(i)) \/ Sent(c, i, "failed", Cut(i)),
              UNCHANGED <<forced, done, st, writer, out, running, down, upEnd>>
       PROVE  R
  <2>0. PICK s \in CallStates, r \in Requests :
           /\ Sent(c, i, s, r)
           /\ (s = "sent" /\ r = Whole(i)) \/ (s = "failed" /\ r = Cut(i))
    <3>1. Whole(i) \in Requests /\ Cut(i) \in Requests
      BY RequestForms
    <3>2. "sent" \in CallStates /\ "failed" \in CallStates
      BY DEF CallStates
    <3>3. CASE Sent(c, i, "sent", Whole(i))
      <4>1. \E s \in CallStates, r \in Requests :
               Sent(c, i, s, r) /\ s = "sent" /\ r = Whole(i)
        BY <3>1, <3>2, <3>3
      <4>2. QED
        BY <4>1
    <3>4. CASE Sent(c, i, "failed", Cut(i))
      <4>1. \E s \in CallStates, r \in Requests :
               Sent(c, i, s, r) /\ s = "failed" /\ r = Cut(i)
        BY <3>1, <3>2, <3>4
      <4>2. QED
        BY <4>1
    <3>5. QED
      BY <1>21, <3>3, <3>4
  <2>1. /\ up'[c] = Append(up[c], r) /\ SetCall(c, i, s)
    BY <2>0, SentEffect
  <2>2. call'[c][i] = s /\ \A j \in Calls \ {i} : call'[c][j] = call[c][j]
    BY <2>1, SetCallEffect
  <2>3. \A y : Has(up'[c], y) <=> Has(up[c], y) \/ y = r
    BY <1>1, <2>1, HasAppend
  <2>4. SomeFailed(c) => SomeFailed(c)'
    BY <1>21, <2>0, <2>2 DEF SomeFailed
  <2>5. ASSUME NEW j \in Calls \cup {0}, Has(up'[c], Cut(j)) PROVE SomeFailed(c)'
    <3>1. CASE Has(up[c], Cut(j))
      BY <1>1, <2>4, <3>1 DEF DrainInv
    <3>2. CASE Cut(j) = r
      <4>1. s = "failed"
        BY <2>0, <3>2, RequestForms
      <4>2. QED
        BY <2>2, <4>1 DEF SomeFailed
    <3>3. QED
      BY <2>3, <2>5, <3>1, <3>2
  <2>6. \A j \in Calls, code \in Codes : Answer(c, j, code) => Answer(c, j, code)'
    BY <1>21 DEF Answer
  <2>7. \A j \in Calls : Kept(c, j) => Kept(c, j)'
    BY <1>21, <2>3, <2>4, <2>6 DEF Kept
  <2>8. call'[c][i] = "sent" => Kept(c, i)'
    <3>1. call'[c][i] = "sent" => r = Whole(i)
      BY <2>0, <2>2
    <3>2. QED
      BY <2>3, <3>1 DEF Kept
  <2>9. ASSUME ~forced[c], NEW j \in Calls, call'[c][j] = "sent" PROVE Kept(c, j)'
    BY <1>1, <2>2, <2>7, <2>8, <2>9 DEF DrainInv
  <2>10. ~forced[c] => st[c] \notin {"waiting", "draining", "over"}
    BY <1>1, <1>21 DEF DrainInv
  <2>11. QED
    BY <1>1, <1>21, <2>5, <2>9, <2>10 DEF DrainInv
<1>22. ASSUME NEW i \in Calls, Send(c, i) PROVE R
  <2>1. call[c][i] = "ready" /\ UNCHANGED <<forced, done, st, writer, out, running, down, upEnd>>
    BY <1>22 DEF Send
  <2>2. CASE \E s \in {"unsent", "failed"} : SetCall(c, i, s) /\ UNCHANGED up
    BY <1>18, <2>1, <2>2 DEF CallStates
  <2>3. CASE Sent(c, i, "sent", Whole(i)) /\ ~upEnd[c]
    BY <1>21, <2>1, <2>3
  <2>4. QED
    BY <1>22, <2>2, <2>3 DEF Send, SendsNow
<1>23. ASSUME NEW i \in Calls, SendCut(c, i) PROVE R
  BY <1>21, <1>23 DEF SendCut
<1> HIDE DEF R
<1>24. Serving(c) => R
  BY <1>4, <1>6, <1>7, <1>8, <1>9, <1>10, <1>13, <1>14, <1>15 DEF Serving
<1>25. Writing(c) => R
  BY <1>4, <1>11, <1>12 DEF Writing
<1>26. Receiving(c) => R
  BY <1>16, <1>17, <1>20, <1>22 DEF Receiving
<1>27. R
  BY <1>4, <1>15, <1>19, <1>23, <1>24, <1>25, <1>26 DEF Step
<1>28. QED
  BY <1>27 DEF R

(***************************************************************************)
(* Events without a gap.                                                   *)
(***************************************************************************)
\* The lines to a client are lines.
LEMMA LineType ==
    ASSUME TypeOK, NEW c \in Conns
    PROVE  /\ down[c] \in Seq(Lines) /\ out[c] \in Seq(Lines) /\ Line(c) \in Seq(Lines)
           /\ got[c] \in Nat /\ Len(events[c]) \in Nat /\ pushed \in Nat
           /\ events[c] \in Seq(Nat)
<1>1. /\ down[c] \in Seq(Lines) /\ out[c] \in Seq(Lines) /\ events[c] \in Seq(Nat)
      /\ got[c] \in Nat /\ pushed \in Nat
  BY DEF TypeOK
<1>2. Len(events[c]) \in Nat
  BY <1>1, LenProperties
<1>3. QED
  BY <1>1, <1>2, ConcatProperties DEF Line

\* A line other than an event at the end.
LEMMA GapQueued ==
    ASSUME TypeOK, NEW c \in Conns, NEW m \in Lines, m.type # "event", Takes(c, m),
           GreetsFirst(c), c \in Listeners => Unbroken(c), cst'[c] = cst[c],
           down'[c] = down[c], got'[c] = got[c], events'[c] = events[c], pushed' = pushed,
           sessions' = sessions
    PROVE  GreetsFirst(c)' /\ (c \in Listeners => Unbroken(c)')
<1>1. CASE out'[c] = out[c]
  <2>1. done[c] => done'[c]
    BY DEF Takes
  <2>2. QED
    BY <1>1, <2>1, GapKept
<1>2. CASE out'[c] = Append(out[c], m) /\ ~done[c] /\ ~done'[c]
  <2>1. PICK s, t : s = Line(c) /\ t = Append(s, m)
    OBVIOUS
  <2>2. s \in Seq(Lines) /\ Line(c)' = t
    <3>1. down[c] \in Seq(Lines) /\ out[c] \in Seq(Lines) /\ s \in Seq(Lines)
      BY <2>1, LineType
    <3>2. down[c] \o Append(out[c], m) = Append(down[c] \o out[c], m)
      <4>1. PICK a, b : a = down[c] /\ b = out[c]
        OBVIOUS
      <4>2. a \o Append(b, m) = Append(a \o b, m)
        <5>1. a \in Seq(Lines) /\ b \in Seq(Lines)
          BY <3>1, <4>1
        <5>2. QED
          BY <5>1, LineAdded
      <4>3. QED
        BY <4>1, <4>2, Zenon
    <3>3. Line(c)' = down[c] \o Append(out[c], m)
      BY <1>2 DEF Line
    <3>4. QED
      BY <2>1, <3>1, <3>2, <3>3, Zenon DEF Line
  <2>3. t # <<>> /\ (t[1].type # "event" \/ (s # <<>> /\ t[1] = s[1]))
    <3>1. /\ Len(t) = Len(s) + 1 /\ Len(s) \in Nat /\ t \in Seq(Lines)
          /\ \A i \in 1 .. Len(s) : t[i] = s[i]
          /\ t[Len(s) + 1] = m
      BY <2>1, <2>2, AppendProperties, LenProperties
    <3>2. t # <<>>
      BY <3>1
    <3>3. CASE Len(s) = 0
      <4>1. t[1] = m
        BY <3>1, <3>3
      <4>2. t[1].type # "event"
        BY <4>1
      <4>3. QED
        BY <3>2, <4>2, Zenon
    <3>4. CASE Len(s) # 0
      <4>1. 1 \in 1 .. Len(s) /\ s # <<>>
        BY <3>1, <3>4
      <4>2. QED
        BY <3>1, <3>2, <4>1
    <3>5. QED
      BY <3>3, <3>4
  <2>4. GreetsFirst(c)'
    BY <2>1, <2>2, <2>3 DEF GreetsFirst
  <2>5. ASSUME c \in Listeners PROVE Unbroken(c)'
    <3>1. ASSUME Ascending(s) PROVE Ascending(t) /\ Numbers(t) = Numbers(s)
      BY <2>1, <2>2, <3>1, NumbersAppend
    <3>2. QED
      BY <1>2, <2>1, <2>2, <2>5, <3>1 DEF Unbroken
  <2>6. QED
    BY <2>4, <2>5
<1>3. QED
  BY <1>1, <1>2 DEF Takes

\* A line taken that is no event.
LEMMA GapTaken ==
    ASSUME TypeOK, NEW c \in Conns, GreetsFirst(c), c \in Listeners => Unbroken(c),
           down[c] # <<>>, down' = [down EXCEPT ![c] = Tail(@)],
           Head(down[c]).type # "event",
           cst[c] \in {"dialling", "open"}, cst'[c] \in {"open", "closed"},
           out'[c] = out[c], got'[c] = got[c], events'[c] = events[c], pushed' = pushed,
           sessions' = sessions, done'[c] = done[c]
    PROVE  GreetsFirst(c)' /\ (c \in Listeners => Unbroken(c)')
<1>1. PICK s, t : s = Line(c) /\ t = Tail(s)
  OBVIOUS
<1>2. s \in Seq(Lines) /\ s # <<>> /\ Head(s) = Head(down[c]) /\ Line(c)' = t
  <2>1. down[c] \in Seq(Lines) /\ out[c] \in Seq(Lines) /\ down'[c] = Tail(down[c])
    BY LineType, DownTakes
  <2>2. /\ down[c] \o out[c] \in Seq(Lines) /\ down[c] \o out[c] # <<>>
        /\ Head(down[c] \o out[c]) = Head(down[c])
        /\ Tail(down[c]) \o out[c] = Tail(down[c] \o out[c])
    <3>1. PICK a, b : a = down[c] /\ b = out[c]
      OBVIOUS
    <3>2. /\ a \o b \in Seq(Lines) /\ a \o b # <<>> /\ Head(a \o b) = Head(a)
          /\ Tail(a) \o b = Tail(a \o b)
      <4>1. a \in Seq(Lines) /\ b \in Seq(Lines) /\ a # <<>>
        BY <2>1, <3>1
      <4>2. QED
        BY <4>1, LineTaken
    <3>3. QED
      BY <3>1, <3>2, Zenon
  <2>3. Line(c)' = Tail(down[c]) \o out[c] /\ Line(c) = down[c] \o out[c]
    BY <2>1 DEF Line
  <2>4. QED
    BY <1>1, <2>2, <2>3, Zenon
<1>3. GreetsFirst(c)'
  BY DEF GreetsFirst
<1>4. ASSUME c \in Listeners PROVE Unbroken(c)'
  <2>1. ASSUME Ascending(s) PROVE Ascending(t) /\ Numbers(t) = Numbers(s)
    BY <1>1, <1>2, <2>1, NumbersTail
  <2>2. QED
    BY <1>1, <1>2, <1>4, <2>1 DEF Unbroken
<1>5. QED
  BY <1>3, <1>4

\* The least of a run of numbers, and the run without it.
LEMMA LeastTaken ==
    ASSUME NEW n \in Nat, NEW top \in Nat, NEW x \in n + 1 .. top,
           \A k \in n + 1 .. top : x <= k
    PROVE  x = n + 1 /\ n + 1 <= top /\ (n + 1 .. top) \ {x} = (n + 1) + 1 .. top
<1>1. x \in Nat /\ n + 1 <= x /\ x <= top
  OBVIOUS
<1>2. n + 1 \in n + 1 .. top
  BY <1>1
<1>3. x = n + 1
  BY <1>1, <1>2
<1>4. QED
  BY <1>1, <1>3

\* The run with the next number.
LEMMA RunExtended ==
    ASSUME NEW n \in Nat, NEW top \in Nat, n <= top
    PROVE  (n + 1 .. top) \cup {top + 1} = n + 1 .. top + 1
OBVIOUS

\* A queue that counts on.
LEMMA CountExtended ==
    ASSUME NEW g \in Nat, NEW e \in Seq(Nat), \A k \in DOMAIN e : e[k] = g + k,
           NEW n, n = Len(e), NEW x, x = (g + n) + 1
    PROVE  /\ Append(e, x) \in Seq(Nat) /\ Len(Append(e, x)) = n + 1
           /\ \A k \in DOMAIN Append(e, x) : Append(e, x)[k] = g + k
<1>1. n \in Nat /\ DOMAIN e = 1 .. n /\ x \in Nat
  BY LenProperties
<1>2. PICK f : f = Append(e, x)
  OBVIOUS
<1>3. /\ f \in Seq(Nat) /\ Len(f) = n + 1 /\ f[n + 1] = x
      /\ \A k \in 1 .. n : f[k] = e[k]
  BY <1>1, <1>2, AppendProperties
<1>4. DOMAIN f = 1 .. n + 1
  BY <1>3, LenProperties
<1>5. ASSUME NEW k \in 1 .. n + 1 PROVE f[k] = g + k
  <2>1. CASE k \in 1 .. n
    BY <1>1, <1>3, <2>1
  <2>2. CASE k = n + 1
    BY <1>1, <1>3, <2>2
  <2>3. QED
    BY <1>1, <2>1, <2>2, SMTT(30)
<1>6. QED
  BY <1>2, <1>3, <1>4, <1>5

\* The next event is the one after what was read.
LEMMA GapEvent ==
    ASSUME TypeOK, NEW c \in Conns, Unbroken(c),
           down[c] # <<>>, down' = [down EXCEPT ![c] = Tail(@)],
           Head(down[c]).type = "event", cst[c] = "open", cst'[c] = "open",
           out'[c] = out[c], got'[c] = got[c], pushed' = pushed,
           events'[c] = Append(events[c], Head(down[c]).id),
           sessions' = sessions, done'[c] = done[c]
    PROVE  Unbroken(c)'
<1>1. PICK s, t, m, e, n, read : /\ s = Line(c) /\ t = Tail(s) /\ m = Head(down[c])
                                 /\ e = events[c] /\ n = Len(e) /\ read = got[c] + n
  OBVIOUS
<1>2. s \in Seq(Lines) /\ s # <<>> /\ Head(s) = m /\ Line(c)' = t
  <2>1. down[c] \in Seq(Lines) /\ out[c] \in Seq(Lines) /\ down'[c] = Tail(down[c])
    BY LineType, DownTakes
  <2>2. /\ down[c] \o out[c] \in Seq(Lines) /\ down[c] \o out[c] # <<>>
        /\ Head(down[c] \o out[c]) = Head(down[c])
        /\ Tail(down[c]) \o out[c] = Tail(down[c] \o out[c])
    <3>1. PICK a, b : a = down[c] /\ b = out[c]
      OBVIOUS
    <3>2. /\ a \o b \in Seq(Lines) /\ a \o b # <<>> /\ Head(a \o b) = Head(a)
          /\ Tail(a) \o b = Tail(a \o b)
      <4>1. a \in Seq(Lines) /\ b \in Seq(Lines) /\ a # <<>>
        BY <2>1, <3>1
      <4>2. QED
        BY <4>1, LineTaken
    <3>3. QED
      BY <3>1, <3>2, Zenon
  <2>3. Line(c)' = Tail(down[c]) \o out[c] /\ Line(c) = down[c] \o out[c]
    BY <2>1 DEF Line
  <2>4. QED
    BY <1>1, <2>2, <2>3, Zenon
<1>3. PICK g, x : g = got[c] /\ x = m.id
  OBVIOUS
<1>4. e \in Seq(Nat) /\ n \in Nat /\ g \in Nat /\ pushed \in Nat
  BY <1>1, <1>3, LineType
<1>5. read \in Nat /\ read = g + n
  <2>1. read = g + n
    BY <1>1, <1>3, Zenon
  <2>2. \A a, b \in Nat : a + b \in Nat
    OBVIOUS
  <2>3. QED
    BY <1>4, <2>1, <2>2, Zenon
<1>6. (\A k \in DOMAIN e : e[k] = g + k) /\ Ascending(s)
  BY <1>1, <1>3 DEF Unbroken
<1>7. PICK top \in read .. pushed : /\ Numbers(s) = read + 1 .. top
                                    /\ c \in sessions /\ ~done[c] => top = pushed
  BY <1>1 DEF Unbroken
<1>8. /\ Ascending(t) /\ x \in Numbers(s) /\ (\A k \in Numbers(s) : x <= k)
      /\ Numbers(t) = Numbers(s) \ {x}
  BY <1>1, <1>2, <1>3, <1>6, NumbersTail, Zenon
<1>9. x = read + 1 /\ read + 1 <= top /\ Numbers(t) = (read + 1) + 1 .. top
  <2>1. top \in Nat
    BY <1>4, <1>5, <1>7
  <2>2. x \in read + 1 .. top /\ (\A k \in read + 1 .. top : x <= k)
    BY <1>7, <1>8
  <2>3. x = read + 1 /\ read + 1 <= top /\ (read + 1 .. top) \ {x} = (read + 1) + 1 .. top
    BY <1>5, <2>1, <2>2, LeastTaken
  <2>4. QED
    BY <1>7, <1>8, <2>3
<1>10. PICK e1 : e1 = Append(e, x)
  OBVIOUS
<1>11. /\ e1 \in Seq(Nat) /\ Len(e1) = n + 1
       /\ \A k \in DOMAIN e1 : e1[k] = g + k
  <2>1. x = (g + n) + 1 /\ n = Len(e)
    BY <1>1, <1>5, <1>9, Zenon
  <2>2. QED
    BY <1>4, <1>6, <1>10, <2>1, CountExtended, SMTT(30)
<1>12. events'[c] = e1 /\ got'[c] = g
  BY <1>1, <1>3, <1>10
<1>13. g + (n + 1) = read + 1 /\ top \in read + 1 .. pushed
  BY <1>4, <1>5, <1>7, <1>9
<1>14. \E u \in read + 1 .. pushed : /\ Numbers(t) = (read + 1) + 1 .. u
                                     /\ c \in sessions /\ ~done[c] => u = pushed
  BY <1>7, <1>9, <1>13
<1>15. g + Len(e1) = read + 1
  BY <1>11, <1>13
<1>16. QED
  BY <1>2, <1>8, <1>11, <1>12, <1>14, <1>15 DEF Unbroken

\* Every step of a connection keeps the greeting first and the events in a row.
LEMMA GapStep ==
    ASSUME TypeOK, NEW c \in Conns, ConnInv(c), Step(c), pushed' = pushed
    PROVE  GreetsFirst(c)' /\ (c \in Listeners => Unbroken(c)')
<1> USE DEF place, queue, work, wire, client, count
<1> DEFINE R == GreetsFirst(c)' /\ (c \in Listeners => Unbroken(c)')
<1>1. /\ ServeInv(c) /\ Once(up[c]) /\ GreetsFirst(c) /\ (c \in Listeners => Unbroken(c))
  BY DEF ConnInv
<1>2. /\ down[c] \in Seq(Lines) /\ out[c] \in Seq(Lines) /\ got[c] \in Nat
      /\ pushed \in Nat /\ events[c] \in Seq(Nat)
  BY LineType
<1>3. ASSUME UNCHANGED <<cst, down, out, got, events>>, sessions' \subseteq sessions,
             done[c] => done'[c]
      PROVE  R
  BY <1>1, <1>3, GapKept
<1>4. ASSUME \/ Accept(c) \/ CloseOnCancel(c) \/ ReadEnds(c) \/ Drain(c) \/ ServeEnds(c)
             \/ (\E i \in Calls : Release(c, i)) \/ WriteFails(c) \/ WriterEnds(c)
      PROVE  R
  <2>1. UNCHANGED <<cst, down, out, got, events>> /\ sessions' \subseteq sessions
    BY <1>4 DEF Accept, CloseOnCancel, ReadEnds, Drain, ServeEnds, Release, WriteFails,
                WriterEnds
  <2>2. done[c] => done'[c]
    BY <1>4 DEF Accept, CloseOnCancel, ReadEnds, Drain, ServeEnds, Release, WriteFails,
                WriterEnds, TypeOK
  <2>3. QED
    BY <1>3, <2>1, <2>2
<1>5. ASSUME \/ HalfClose(c)
             \/ \E i \in Calls : \/ Start(c, i) \/ Cancel(c, i) \/ SendCut(c, i)
                                 \/ Send(c, i) \/ Returns(c, i)
      PROVE  R
  <2>1. UNCHANGED <<cst, down, out, got, events, sessions, done>>
    BY <1>5 DEF HalfClose, Start, Cancel, SendCut, Send, Returns
  <2>2. QED
    BY <1>3, <2>1
<1>6. ASSUME NEW mayServe, Refuse(c, mayServe) PROVE R
  <2>1. out[c] = <<>> /\ down[c] = <<>> /\ events[c] = <<>>
    BY <1>1, <1>6 DEF ServeInv, Refuse
  <2>2. /\ out'[c] = <<>> /\ down'[c] = <<Refusal>> /\ done'[c] = TRUE
        /\ UNCHANGED <<cst, got, events, pushed>>
    BY <1>6, <2>1 DEF Refuse, TypeOK
  <2>3. Line(c)' = <<Refusal>> /\ Line(c) = <<>>
    BY <2>1, <2>2 DEF Line
  <2>4. /\ Ascending(<<Refusal>>) /\ Numbers(<<Refusal>>) = {} /\ Numbers(<<>>) = {}
        /\ <<Refusal>>[1].type # "event"
    BY LineForms DEF Ascending, Numbers
  <2>5. GreetsFirst(c)'
    <3>1. <<Refusal>> # <<>>
      OBVIOUS
    <3>2. QED
      BY <2>3, <2>4, <3>1 DEF GreetsFirst
  <2>6. ASSUME c \in Listeners PROVE Unbroken(c)'
    BY <1>1, <2>2, <2>3, <2>4, <2>6 DEF Unbroken
  <2>7. QED
    BY <2>5, <2>6
<1>7. ASSUME Admit(c) PROVE R
  <2>1. down[c] = <<>> /\ events[c] = <<>>
    BY <1>1, <1>7 DEF ServeInv, Admit
  <2>2. /\ out'[c] = <<Hello>> /\ down'[c] = <<>> /\ events'[c] = <<>> /\ got'[c] = pushed
    BY <1>7, <2>1 DEF Admit, TypeOK
  <2>3. Line(c)' = <<Hello>>
    BY <2>2 DEF Line
  <2>4. /\ Ascending(<<Hello>>) /\ Numbers(<<Hello>>) = {}
        /\ <<Hello>>[1].type # "event"
    BY LineForms DEF Ascending, Numbers
  <2>5. GreetsFirst(c)'
    <3>1. <<Hello>> # <<>>
      OBVIOUS
    <3>2. QED
      BY <2>3, <2>4, <3>1 DEF GreetsFirst
  <2>6. Unbroken(c)'
    <3>1. PICK n : n = got'[c] + Len(events'[c])
      OBVIOUS
    <3>2. n = pushed
      BY <1>2, <2>2, <3>1
    <3>3. n \in n .. pushed /\ n + 1 .. n = {}
      BY <1>2, <3>2
    <3>4. \A k \in DOMAIN events'[c] : FALSE
      BY <2>2
    <3>5. \E top \in n .. pushed : /\ Numbers(<<Hello>>) = n + 1 .. top
                                   /\ c \in sessions' /\ ~done'[c] => top = pushed
      BY <2>4, <3>2, <3>3
    <3>6. QED
      BY <2>3, <2>4, <3>1, <3>4, <3>5 DEF Unbroken
  <2>7. QED
    BY <2>5, <2>6
<1>8. ASSUME NEW m \in Lines, m.type # "event", SendLine(c, m),
             UNCHANGED <<cst, down, got, events, sessions>>
      PROVE  R
  <2>1. Takes(c, m)
    BY <1>8, SendLineEffect
  <2>2. QED
    BY <1>1, <1>8, <2>1, GapQueued
<1>9. ASSUME NEW i \in Calls, Handle(c, i) PROVE R
  <2>1. Reply(i, "ok") \in Lines /\ Reply(i, "ok").type # "event"
    BY LineForms DEF Codes
  <2>2. SendLine(c, Reply(i, "ok")) /\ UNCHANGED <<cst, down, got, events, sessions>>
    BY <1>9 DEF Handle
  <2>3. QED
    BY <1>8, <2>1, <2>2
<1>10. ASSUME Read(c) PROVE R
  <2>1. UNCHANGED <<cst, down, got, events, sessions>>
    BY <1>10 DEF Read
  <2>2. \/ \E i \in Calls : Request(c, i)
        \/ NotRequest(c)
        \/ UNCHANGED <<queue, running, slots>>
    BY <1>1, <1>10, ReadEffect
  <2>3. ASSUME NEW i \in Calls \cup {0}, NEW code \in Codes, SendLine(c, Reply(i, code))
        PROVE  R
    <3>1. Reply(i, code) \in Lines /\ Reply(i, code).type # "event"
      BY LineForms
    <3>2. QED
      BY <1>8, <2>1, <2>3, <3>1
  <2>4. CASE UNCHANGED queue
    BY <1>3, <2>1, <2>4
  <2>5. QED
    BY <2>2, <2>3, <2>4 DEF Request, NotRequest, Codes
<1>11. ASSUME Writes(c) PROVE R
  <2>1. /\ out[c] # <<>> /\ UNCHANGED <<cst, got, events, sessions, done>>
        /\ down'[c] = Append(down[c], Head(out[c])) /\ out'[c] = Tail(out[c])
    BY <1>11 DEF Writes, TypeOK
  <2>2. Line(c)' = Line(c)
    <3>1. PICK a, b : a = down[c] /\ b = out[c]
      OBVIOUS
    <3>2. a \in Seq(Lines) /\ b \in Seq(Lines) /\ b # <<>>
      BY <1>2, <2>1, <3>1
    <3>3. Append(a, Head(b)) \o Tail(b) = a \o b
      BY <3>2, LineMoved
    <3>4. QED
      BY <2>1, <3>1, <3>3, Zenon DEF Line
  <2>3. GreetsFirst(c)'
    BY <1>1, <2>1, <2>2 DEF GreetsFirst
  <2>4. ASSUME c \in Listeners PROVE Unbroken(c)'
    BY <1>1, <2>1, <2>2, <2>4 DEF Unbroken
  <2>5. QED
    BY <2>3, <2>4
<1>12. ASSUME Dial(c) PROVE R
  <2>1. /\ UNCHANGED <<down, out, got, events, sessions, done>>
        /\ cst[c] = "off" /\ cst'[c] = "dialling"
    BY <1>12 DEF Dial, TypeOK
  <2>2. Line(c)' = Line(c)
    BY <2>1 DEF Line
  <2>3. GreetsFirst(c)'
    BY <1>1, <2>1, <2>2 DEF GreetsFirst
  <2>4. ASSUME c \in Listeners PROVE Unbroken(c)'
    BY <1>1, <2>1, <2>2, <2>4 DEF Unbroken
  <2>5. QED
    BY <2>3, <2>4
<1>13. ASSUME cst'[c] = "closed", UNCHANGED <<got, events>> PROVE R
  <2>1. GreetsFirst(c)'
    BY <1>13 DEF GreetsFirst
  <2>2. ASSUME c \in Listeners PROVE Unbroken(c)'
    BY <1>1, <1>13, <2>2 DEF Unbroken
  <2>3. QED
    BY <2>1, <2>2
<1>14. ASSUME Close(c) PROVE R
  <2>1. cst'[c] = "closed" /\ UNCHANGED <<got, events>>
    BY <1>14 DEF Close, Closes, TypeOK
  <2>2. QED
    BY <1>13, <2>1
<1>15. ASSUME Greeted(c) PROVE R
  <2>1. cst[c] = "dialling" /\ UNCHANGED <<out, got, events, sessions, done>>
    BY <1>15 DEF Greeted
  <2>2. CASE down[c] # <<>> /\ down' = [down EXCEPT ![c] = Tail(@)]
    <3>1. cst'[c] \in {"open", "closed"}
      BY <1>15 DEF Greeted, TypeOK
    <3>2. Head(down[c]).type # "event"
      <4>1. PICK a, b, s : a = down[c] /\ b = out[c] /\ s = a \o b
        OBVIOUS
      <4>2. a \in Seq(Lines) /\ b \in Seq(Lines) /\ a # <<>>
        BY <1>2, <2>2, <4>1
      <4>3. s \in Seq(Lines) /\ s # <<>> /\ Head(s) = Head(a)
        BY <4>1, <4>2, LineTaken
      <4>4. Head(s) = s[1]
        BY <4>3, HasTail
      <4>5. s[1].type # "event"
        BY <1>1, <2>1, <4>1, <4>3 DEF GreetsFirst, Line
      <4>6. QED
        BY <4>1, <4>3, <4>4, <4>5, Zenon
    <3>3. QED
      BY <1>1, <2>1, <2>2, <3>1, <3>2, GapTaken
  <2>3. CASE cst' = [cst EXCEPT ![c] = "closed"]
    <3>1. cst'[c] = "closed"
      BY <2>3 DEF TypeOK
    <3>2. QED
      BY <1>13, <2>1, <3>1
  <2>4. QED
    BY <1>15, <2>2, <2>3 DEF Greeted
<1>16. ASSUME ReadLoop(c) PROVE R
  <2>1. cst[c] = "open" /\ UNCHANGED <<out, got, sessions, done>>
    BY <1>16 DEF ReadLoop
  <2>2. ASSUME Closes(c), UNCHANGED events PROVE R
    <3>1. cst'[c] = "closed"
      BY <2>2 DEF Closes, TypeOK
    <3>2. QED
      BY <1>13, <2>1, <2>2, <3>1
  <2>3. ASSUME down[c] # <<>>, down' = [down EXCEPT ![c] = Tail(@)],
               Head(down[c]).type = "reply", TakesReply(c, Head(down[c]))
        PROVE  R
    <3>1. cst'[c] = "open" /\ events'[c] = events[c]
      BY <2>1, <2>3 DEF TakesReply
    <3>2. Head(down[c]).type # "event"
      BY <2>3
    <3>3. QED
      BY <1>1, <2>1, <2>3, <3>1, <3>2, GapTaken
  <2>4. ASSUME down[c] # <<>>, down' = [down EXCEPT ![c] = Tail(@)],
               Head(down[c]).type = "event", TakesEvent(c, Head(down[c]))
        PROVE  R
    <3>1. CASE Len(events[c]) < EventQueue
      <4>1. cst'[c] = "open" /\ events'[c] = Append(events[c], Head(down[c]).id)
        BY <2>1, <2>4, <3>1 DEF TakesEvent, TypeOK
      <4>2. GreetsFirst(c)'
        BY <4>1 DEF GreetsFirst
      <4>3. ASSUME c \in Listeners PROVE Unbroken(c)'
        BY <1>1, <2>1, <2>4, <4>1, <4>3, GapEvent
      <4>4. QED
        BY <4>2, <4>3
    <3>2. CASE ~(Len(events[c]) < EventQueue)
      BY <2>2, <2>4, <3>2 DEF TakesEvent
    <3>3. QED
      BY <3>1, <3>2
  <2>5. QED
    BY <1>16, <2>2, <2>3, <2>4, Zenon DEF ReadLoop
<1>17. ASSUME ReadEvent(c) PROVE R
  <2>1. PICK e, t, g, n : e = events[c] /\ t = Tail(e) /\ g = got[c] /\ n = Len(e)
    OBVIOUS
  <2>2. /\ e # <<>> /\ e \in Seq(Nat) /\ g \in Nat
    BY <1>2, <1>17, <2>1 DEF ReadEvent
  <2>3. /\ UNCHANGED <<cst, down, out, sessions, done>>
        /\ events'[c] = t /\ got'[c] = Head(e)
    BY <1>17, <2>1 DEF ReadEvent, TypeOK
  <2>4. /\ t \in Seq(Nat) /\ Len(t) = n - 1 /\ n \in Nat \ {0} /\ Head(e) = e[1]
        /\ \A i \in 1 .. n - 1 : t[i] = e[i + 1]
    BY <2>1, <2>2, HasTail
  <2>5. DOMAIN e = 1 .. n /\ DOMAIN t = 1 .. n - 1
    BY <2>1, <2>2, <2>4, LenProperties
  <2>6. Line(c)' = Line(c)
    BY <2>3 DEF Line
  <2>7. GreetsFirst(c)'
    BY <1>1, <2>3, <2>6 DEF GreetsFirst
  <2>8. ASSUME c \in Listeners PROVE Unbroken(c)'
    <3>1. \A k \in 1 .. n : e[k] = g + k
      BY <1>1, <2>1, <2>5, <2>8 DEF Unbroken
    <3>2. e[1] = g + 1
      BY <2>4, <3>1
    <3>3. ASSUME NEW k \in 1 .. n - 1 PROVE t[k] = (g + 1) + k
      <4>1. k + 1 \in 1 .. n /\ t[k] = e[k + 1]
        BY <2>4
      <4>2. e[k + 1] = g + (k + 1)
        BY <3>1, <4>1
      <4>3. g + (k + 1) = (g + 1) + k
        BY <2>2
      <4>4. QED
        BY <4>1, <4>2, <4>3
    <3>4. got'[c] = g + 1 /\ (g + 1) + Len(t) = g + n
      BY <2>2, <2>3, <2>4, <3>2
    <3>5. \A k \in DOMAIN t : t[k] = got'[c] + k
      BY <2>5, <3>3, <3>4
    <3>6. got'[c] + Len(events'[c]) = got[c] + Len(events[c])
      BY <2>1, <2>3, <3>4
    <3>7. QED
      BY <1>1, <2>3, <2>6, <2>8, <3>5, <3>6 DEF Unbroken
  <2>9. QED
    BY <2>7, <2>8
<1> HIDE DEF R
<1>18. Serving(c) => R
  BY <1>4, <1>6, <1>7, <1>9, <1>10 DEF Serving
<1>19. Writing(c) => R
  BY <1>4, <1>11 DEF Writing
<1>20. Receiving(c) => R
  BY <1>5, <1>15, <1>16 DEF Receiving
<1>21. R
  BY <1>5, <1>6, <1>12, <1>14, <1>17, <1>18, <1>19, <1>20 DEF Step
<1>22. QED
  BY <1>21 DEF R

\* An event broadcast follows the last one in every session that stands.
LEMMA BroadcastStep ==
    ASSUME TypeOK, NEW c \in Conns, ConnInv(c), Broadcast
    PROVE  ConnInv(c)'
<1>1. /\ UNCHANGED <<phase, place, writer, work, wire, client>> /\ pushed' = pushed + 1
      /\ pushed < MaxEvents
  BY DEF Broadcast
<1> USE DEF place, work, wire, client
<1>2. IF c \in Subscribers THEN Takes(c, Event(pushed + 1))
      ELSE out'[c] = out[c] /\ done'[c] = done[c] /\ forced'[c] = forced[c]
  BY BroadcastEffect
<1>3. /\ ServeInv(c) /\ DrainInv(c) /\ Once(up[c]) /\ (\A i \in Calls : TellsInv(c, i))
      /\ GreetsFirst(c) /\ (c \in Listeners => Unbroken(c))
  BY DEF ConnInv
<1>4. PICK m : m = Event(pushed + 1)
  OBVIOUS
<1>5. /\ m \in Lines /\ m.type = "event" /\ m.id = pushed + 1
      /\ \A i, code : m # Reply(i, code)
  BY <1>4, LineForms DEF TypeOK
<1>6. /\ down[c] \in Seq(Lines) /\ out[c] \in Seq(Lines) /\ Line(c) \in Seq(Lines)
      /\ got[c] \in Nat /\ Len(events[c]) \in Nat /\ pushed \in Nat
  BY LineType
<1>7. CASE c \in Subscribers
  <2>1. Takes(c, m) /\ c \in sessions /\ c \in Listeners
    BY <1>2, <1>4, <1>7 DEF Subscribers
  <2>2. st[c] \in {"reading", "waiting", "draining"}
    BY <1>3, <2>1 DEF ServeInv
  <2>3. ServeInv(c)'
    BY <1>1, <1>3, <2>2 DEF ServeInv
  <2>4. \A i, code : Answer(c, i, code)' <=> Answer(c, i, code)
    BY <1>1, <1>5, <2>1, AnswersQueued
  <2>5. \A i \in Calls : TellsInv(c, i)'
    <3>1. \A i \in Calls : Unread(c, i)' <=> Unread(c, i)
      BY <1>1 DEF Unread
    <3>2. QED
      BY <1>1, <1>3, <2>4, <3>1, TellsMoved DEF Moved
  <2>6. DrainInv(c)'
    <3>1. SomeFailed(c)' <=> SomeFailed(c)
      BY <1>1 DEF SomeFailed
    <3>2. \A i \in Calls : Kept(c, i)' <=> Kept(c, i)
      BY <1>1, <2>4, <3>1 DEF Kept
    <3>3. \A i \in Calls, code \in Codes :
             Has(out'[c], Reply(i, code)) <=> Has(out[c], Reply(i, code))
      <4>1. \A y : Has(Append(out[c], m), y) <=> Has(out[c], y) \/ y = m
        BY <1>5, <1>6, HasAppend
      <4>2. QED
        BY <1>5, <2>1, <4>1 DEF Takes
    <3>4. ~forced'[c] => ~forced[c] /\ ~done'[c]
      BY <1>3, <2>1, <2>2 DEF Takes, DrainInv
    <3>5. QED
      BY <1>1, <1>3, <2>2, <3>1, <3>2, <3>3, <3>4 DEF DrainInv
  <2>7. CASE out'[c] = out[c] /\ done'[c]
    <3>1. Line(c)' = Line(c)
      BY <1>1, <2>7 DEF Line
    <3>2. GreetsFirst(c)'
      BY <1>1, <1>3, <3>1 DEF GreetsFirst
    <3>3. \A n : n \in Nat => n .. pushed \subseteq n .. pushed + 1
      BY <1>6
    <3>4. got[c] + Len(events[c]) \in Nat
      BY <1>6
    <3>5. Unbroken(c)'
      BY <1>1, <1>3, <2>1, <2>7, <3>1, <3>3, <3>4 DEF Unbroken
    <3>6. QED
      BY <1>1, <1>3, <2>3, <2>5, <2>6, <3>2, <3>5 DEF ConnInv
  <2>8. CASE out'[c] = Append(out[c], m) /\ ~done[c] /\ ~done'[c]
    <3>1. PICK s, t : s = Line(c) /\ t = Append(s, m)
      OBVIOUS
    <3>2. s \in Seq(Lines) /\ Line(c)' = t
      <4>1. PICK a, b : a = down[c] /\ b = out[c]
        OBVIOUS
      <4>2. a \in Seq(Lines) /\ b \in Seq(Lines)
        BY <1>6, <4>1
      <4>3. a \o Append(b, m) = Append(a \o b, m)
        BY <1>5, <4>2, LineAdded, SMTT(30)
      <4>4. Line(c)' = a \o Append(b, m)
        BY <1>1, <2>8, <4>1 DEF Line
      <4>5. Line(c) = a \o b
        BY <4>1 DEF Line
      <4>6. QED
        BY <1>6, <3>1, <4>3, <4>4, <4>5, Zenon
    <3>3. /\ Len(t) = Len(s) + 1 /\ Len(s) \in Nat /\ t \in Seq(Lines)
          /\ \A i \in 1 .. Len(s) : t[i] = s[i]
      BY <1>5, <3>1, <3>2, AppendProperties, LenProperties
    <3>4. t # <<>>
      BY <3>3
    <3>5. GreetsFirst(c)'
      <4>1. ASSUME s # <<>> PROVE t[1] = s[1]
        <5>1. Len(s) # 0
          BY <3>2, <4>1, EmptySeq
        <5>2. 1 \in 1 .. Len(s)
          BY <3>3, <5>1
        <5>3. QED
          BY <3>3, <5>2
      <4>2. QED
        BY <1>1, <1>3, <2>1, <3>1, <3>2, <3>4, <4>1 DEF GreetsFirst
    <3>6. Unbroken(c)'
      <4>1. PICK n : n = got[c] + Len(events[c])
        OBVIOUS
      <4>2. n \in Nat
        <5>1. \A a, b \in Nat : a + b \in Nat
          OBVIOUS
        <5>2. QED
          BY <1>6, <4>1, <5>1, Zenon
      <4>3. \A k \in DOMAIN events[c] : events[c][k] = got[c] + k
        BY <1>3, <2>1 DEF Unbroken
      <4>4. ASSUME cst[c] # "closed"
            PROVE  /\ Ascending(t) /\ Numbers(t) = n + 1 .. pushed + 1
                   /\ pushed + 1 \in n .. pushed + 1
        <5>1. Ascending(s) /\ Numbers(s) = n + 1 .. pushed /\ pushed \in n .. pushed
          BY <1>3, <2>1, <2>8, <3>1, <4>1, <4>4 DEF Unbroken
        <5>2. \A k \in Numbers(s) : k < m.id
          BY <1>5, <1>6, <4>2, <5>1
        <5>3. Ascending(t) /\ Numbers(t) = Numbers(s) \cup {pushed + 1}
          <6>1. /\ Ascending(Append(s, m))
                /\ Numbers(Append(s, m)) = IF m.type = "event" THEN Numbers(s) \cup {m.id}
                                           ELSE Numbers(s)
            BY <1>5, <3>2, <5>1, <5>2, NumbersAppend, Zenon
          <6>2. QED
            BY <1>5, <3>1, <6>1, Zenon
        <5>4. (n + 1 .. pushed) \cup {pushed + 1} = n + 1 .. pushed + 1
          <6>1. n <= pushed
            BY <1>6, <4>2, <5>1
          <6>2. QED
            BY <1>6, <4>2, <6>1, RunExtended
        <5>5. QED
          BY <1>6, <4>2, <5>1, <5>3, <5>4
      <4>5. QED
        BY <1>1, <3>2, <4>1, <4>3, <4>4 DEF Unbroken
    <3>7. QED
      BY <1>1, <1>3, <2>3, <2>5, <2>6, <3>5, <3>6 DEF ConnInv
  <2>9. QED
    BY <2>1, <2>7, <2>8 DEF Takes
<1>8. CASE c \notin Subscribers
  <2>1. out'[c] = out[c] /\ done'[c] = done[c] /\ forced'[c] = forced[c]
    BY <1>2, <1>8
  <2>2. ServeInv(c)'
    BY <1>1, <1>3, <2>1, ServeKept
  <2>3. DrainInv(c)'
    BY <1>1, <1>3, <2>1, DrainKept
  <2>4. \A i \in Calls : TellsInv(c, i)'
    BY <1>1, <1>3, <2>1, TellsKept
  <2>5. Line(c)' = Line(c)
    BY <1>1, <2>1 DEF Line
  <2>6. GreetsFirst(c)'
    BY <1>1, <1>3, <2>5 DEF GreetsFirst
  <2>7. ASSUME c \in Listeners PROVE Unbroken(c)'
    <3>1. c \notin sessions
      BY <1>8, <2>7 DEF Subscribers
    <3>2. \A n : n \in Nat => n .. pushed \subseteq n .. pushed + 1
      BY <1>6
    <3>3. got[c] + Len(events[c]) \in Nat
      BY <1>6
    <3>4. QED
      BY <1>1, <1>3, <2>1, <2>5, <2>7, <3>1, <3>2, <3>3 DEF Unbroken
  <2>8. QED
    BY <1>1, <1>3, <2>2, <2>3, <2>4, <2>6, <2>7 DEF ConnInv
<1>9. QED
  BY <1>7, <1>8

(***************************************************************************)
(* The theorems.                                                           *)
(***************************************************************************)
\* Everything holds before the first connection.
LEMMA SessionsInit ==
    ASSUME Init
    PROVE  TypeOK /\ SessionInv
<1>1. Cardinality({}) = 0 /\ IsFiniteSet({})
  BY FS_EmptySet
<1>2. TypeOK
  BY <1>1 DEF Init, TypeOK, CallStates
<1>3. ASSUME NEW c \in Conns PROVE ConnInv(c)
  <2>1. /\ phase = "up" /\ st[c] = "none" /\ sessions = {} /\ done[c] = FALSE
        /\ forced[c] = FALSE /\ out[c] = <<>> /\ writer[c] = "none" /\ running[c] = {}
        /\ slots[c] = {} /\ (\A i \in Calls : handled[c][i] = 0) /\ up[c] = <<>>
        /\ upEnd[c] = FALSE /\ down[c] = <<>> /\ cst[c] = "off"
        /\ (\A i \in Calls : call[c][i] = "new") /\ events[c] = <<>> /\ got[c] = 0
        /\ pushed = 0
    BY DEF Init
  <2>2. ServeInv(c)
    BY <1>1, <2>1 DEF ServeInv
  <2>3. DrainInv(c)
    BY <2>1, HasNone DEF DrainInv
  <2>4. Once(up[c])
    BY <2>1 DEF Once
  <2>5. ASSUME NEW i \in Calls PROVE TellsInv(c, i)
    <3>1. ~Unread(c, i) /\ \A code : ~Answer(c, i, code)
      BY <2>1, HasNone DEF Unread, Answer
    <3>2. QED
      BY <2>1, <3>1 DEF TellsInv, AtRest
  <2>6. Line(c) = <<>>
    BY <2>1 DEF Line
  <2>7. GreetsFirst(c)
    BY <2>1, <2>6 DEF GreetsFirst
  <2>8. Unbroken(c)
    <3>1. Ascending(<<>>) /\ Numbers(<<>>) = {}
      BY DEF Ascending, Numbers
    <3>2. 0 \in 0 .. 0 /\ 0 + 1 .. 0 = {}
      OBVIOUS
    <3>3. got[c] + Len(events[c]) = 0 /\ pushed = 0
      BY <2>1
    <3>4. \E top \in 0 .. 0 : Numbers(<<>>) = 0 + 1 .. top /\ top = 0
      BY <3>1, <3>2
    <3>5. \A k \in DOMAIN events[c] : FALSE
      BY <2>1
    <3>6. QED
      BY <2>6, <3>1, <3>3, <3>4, <3>5 DEF Unbroken
  <2>9. QED
    BY <2>2, <2>3, <2>4, <2>5, <2>7, <2>8 DEF ConnInv
<1>4. QED
  BY <1>2, <1>3 DEF SessionInv

\* Every step keeps every connection's invariant.
LEMMA SessionsStep ==
    ASSUME TypeOK, SessionInv, [Next]_vars
    PROVE  SessionInv'
<1>1. ASSUME NEW c \in Conns, Step(c) PROVE SessionInv'
  <2>1. phase' = phase /\ pushed' = pushed /\ \A d \in Conns \ {c} : Same(d)
    BY <1>1, OthersSame
  <2>2. ASSUME NEW d \in Conns \ {c} PROVE ConnInv(d)'
    BY <2>1, SameKept DEF SessionInv
  <2>3. ConnInv(c)
    BY DEF SessionInv
  <2>4. ServeInv(c)'
    BY <1>1, <2>1, <2>3, ServeStep
  <2>5. DrainInv(c)'
    BY <1>1, <2>3, DrainStep
  <2>6. Once(up[c])' /\ \A i \in Calls : TellsInv(c, i)'
    BY <1>1, <2>3, TellsStep
  <2>7. GreetsFirst(c)' /\ (c \in Listeners => Unbroken(c)')
    BY <1>1, <2>1, <2>3, GapStep
  <2>8. ConnInv(c)'
    BY <2>4, <2>5, <2>6, <2>7 DEF ConnInv
  <2>9. QED
    BY <2>2, <2>8 DEF SessionInv
<1>2. CASE Broadcast
  BY <1>2, BroadcastStep DEF SessionInv
<1>3. CASE ListenersClose \/ CoreStops \/ Shutdown \/ UNCHANGED vars
  <2>1. ASSUME NEW d \in Conns PROVE ConnInv(d)'
    <3>1. UNCHANGED <<place, queue, writer, work, wire, client, count>>
      BY <1>3 DEF ListenersClose, CoreStops, Shutdown, vars, server
    <3>2. Same(d) /\ pushed' = pushed
      BY <3>1 DEF Same, SameServer, SameClient, place, queue, work, wire, client, count
    <3>3. phase' = "stopped" => phase = "stopped" \/ st[d] \in {"none", "over"}
      BY <1>3 DEF ListenersClose, CoreStops, ClientsOver, Shutdown, vars, server
    <3>4. QED
      BY <3>2, <3>3, SameKept DEF SessionInv
  <2>2. QED
    BY <2>1 DEF SessionInv
<1>4. QED
  BY <1>1, <1>2, <1>3 DEF Next, Progress, Step

\* The invariant of every connection, with the types, from which the rest follows.
THEOREM SessionsSafe == Spec => [](TypeOK /\ SessionInv)
<1>1. Init => TypeOK /\ SessionInv
  BY SessionsInit
<1>2. TypeOK /\ SessionInv /\ [Next]_vars => (TypeOK /\ SessionInv)'
  BY TypeStep, SessionsStep
<1>3. QED
  BY <1>1, <1>2, PTL DEF Spec

\* Queues, slots and places never pass their limits, whatever clients do.
THEOREM SessionsTyped == Spec => []TypeOK
BY SessionsSafe, PTL

\* What a call returns tells whether its handler ran, and a session that ends by
\* itself has an answer on its way to every call it was sent.
THEOREM EveryCallAnswered == Spec => []CallsAnswered
<1>1. TypeOK /\ SessionInv => AnswerTells
  <2> SUFFICES ASSUME TypeOK, SessionInv, NEW c \in Conns, NEW i \in Calls
               PROVE  /\ handled[c][i] =< 1
                      /\ call[c][i] = "ok" => handled[c][i] = 1
                      /\ call[c][i] \in {"busy", "unsent"} => handled[c][i] = 0
    BY DEF AnswerTells
  <2>1. TellsInv(c, i)
    BY DEF SessionInv, ConnInv
  <2>2. QED
    BY <2>1 DEF TellsInv
<1>2. TypeOK /\ SessionInv => HalfCloseAnswered
  <2> SUFFICES ASSUME TypeOK, SessionInv, NEW c \in Conns, st[c] = "over", ~forced[c],
                      NEW i \in Calls, call[c][i] = "sent"
               PROVE  Coming(c, i) \/ \E j \in Calls : call[c][j] = "failed"
    BY DEF HalfCloseAnswered
  <2>1. ServeInv(c) /\ DrainInv(c)
    BY DEF SessionInv, ConnInv
  <2>2. slots[c] = {} /\ running[c] = {}
    BY <2>1 DEF ServeInv, TypeOK
  <2>3. up[c] = <<>> /\ Kept(c, i)
        /\ \A code \in Codes : ~Has(out[c], Reply(i, code))
    BY <2>1 DEF DrainInv
  <2>4. SomeFailed(c) \/ \E code \in Codes : Has(down[c], Reply(i, code))
    BY <2>2, <2>3, HasNone DEF Kept, Answer
  <2>5. QED
    BY <2>4, LineForms DEF SomeFailed, Has, Coming
<1>3. QED
  BY <1>1, <1>2, SessionsSafe, PTL DEF CallsAnswered

\* A listener's events have no gap, on the wire or in its queue, whatever it loses
\* with its connection.
THEOREM EventsInARow == Spec => []NoGap
<1>1. TypeOK /\ SessionInv => NoGap
  <2> SUFFICES ASSUME TypeOK, SessionInv, NEW c \in Listeners PROVE Unbroken(c)
    BY DEF NoGap
  <2>1. c \in Conns
    OBVIOUS
  <2>2. QED
    BY <2>1 DEF SessionInv, ConnInv
<1>2. QED
  BY <1>1, SessionsSafe, PTL

\* The core is stopped only after every session and every handler has ended.
THEOREM CoreStopsLast == Spec => []StopIsLast
<1>1. TypeOK /\ SessionInv => StopIsLast
  <2> SUFFICES ASSUME TypeOK, SessionInv, phase = "stopped"
               PROVE  /\ sessions = {}
                      /\ \A c \in Conns : running[c] = {} /\ st[c] \in {"none", "over"}
    BY DEF StopIsLast
  <2>1. ASSUME NEW c \in Conns
        PROVE  c \notin sessions /\ running[c] = {} /\ st[c] \in {"none", "over"}
    <3>1. ServeInv(c)
      BY DEF SessionInv, ConnInv
    <3>2. st[c] \in {"none", "over"} /\ slots[c] = {} /\ c \notin sessions
      BY <3>1 DEF ServeInv
    <3>3. QED
      BY <3>2 DEF TypeOK
  <2>2. sessions = {}
    BY <2>1 DEF TypeOK
  <2>3. QED
    BY <2>1, <2>2
<1>2. QED
  BY <1>1, SessionsSafe, PTL

=============================================================================
