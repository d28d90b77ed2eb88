--------------------------- MODULE AuthWatcherProofs ---------------------------
(***************************************************************************)
(* Theorems about AuthWatcher, for any files, keys, channels, contents,    *)
(* configurations and reloads: no update is overtaken, and at rest the     *)
(* manager has the credentials that their sources call for.                *)
(***************************************************************************)
EXTENDS AuthWatcher, TLAPS, SequenceTheorems, FiniteSetTheorems, WellFoundedInduction

-----------------------------------------------------------------------------
(***************************************************************************)
(* Coalescing.                                                             *)
(***************************************************************************)

\* A non-empty set of naturals has a least element.
LEMMA LeastExists ==
  ASSUME NEW S, S \subseteq Nat, S # {}
  PROVE  \E x \in S : \A y \in S : x <= y
<1>1. PICK x \in S : \A y \in S : <<y, x>> \notin OpToRel(<, Nat)
  BY NatLessThanWellFounded, WFMin, Zenon
<1>2. \A m, n \in Nat : m < n => <<m, n>> \in OpToRel(<, Nat) BY DEF OpToRel
<1>3. \A y \in S : ~(y < x) BY <1>1, <1>2, Zenon
<1>4. \A y \in S : x <= y BY <1>3
<1> QED BY <1>4

\* Position n is the last one that mentions i.
LastAt(ups, i, n) ==
  /\ n \in DOMAIN ups /\ ups[n].id = i
  /\ \A m \in DOMAIN ups : ups[m].id = i => m <= n

\* There is one if the sequence mentions i.
LEMMA LastExists ==
  ASSUME NEW S, NEW ups \in Seq(S), NEW i, Mentions(ups, i)
  PROVE  \E n : LastAt(ups, i, n)
<1>1. PICK k \in Nat : k = Len(ups) /\ DOMAIN ups = 1 .. k BY LenProperties
<1> DEFINE B == {b \in Nat : \A m \in DOMAIN ups : ups[m].id = i => m <= b}
<1>2. k \in B BY <1>1
<1>3. PICK b \in B : \A c \in B : b <= c
  <2> HIDE DEF B
  <2>1. B \subseteq Nat BY DEF B
  <2> QED BY <1>2, <2>1, LeastExists
<1>4. PICK m \in 1 .. k : ups[m].id = i BY <1>1 DEF Mentions
<1>5. m <= b BY <1>1, <1>3, <1>4
<1>6. b \in Nat /\ b # 0 BY <1>3, <1>4, <1>5
<1>7. b - 1 \notin B
  <2> HIDE DEF B
  <2>1. ~(b <= b - 1) BY <1>6
  <2> QED BY <1>3, <2>1
<1>8. PICK n \in 1 .. k : ups[n].id = i /\ ~(n <= b - 1) BY <1>1, <1>6, <1>7
<1>9. n = b BY <1>1, <1>3, <1>6, <1>8
<1>10. LastAt(ups, i, n) BY <1>1, <1>3, <1>8, <1>9 DEF LastAt
<1> QED BY <1>10

\* coalesceAuthUpdates finds it.
LEMMA CoalesceIsLast ==
  ASSUME NEW S, NEW ups \in Seq(S), NEW i, NEW n, LastAt(ups, i, n)
  PROVE  coalesceAuthUpdates(ups, i) = ups[n]
<1>1. PICK k \in Nat : DOMAIN ups = 1 .. k BY LenProperties
<1> DEFINE c == CHOOSE x \in DOMAIN ups : ups[x].id = i /\ \A m \in DOMAIN ups : ups[m].id = i => m <= x
<1>2. c \in DOMAIN ups /\ ups[c].id = i /\ \A m \in DOMAIN ups : ups[m].id = i => m <= c
  BY Zenon DEF LastAt
<1>3. coalesceAuthUpdates(ups, i) = ups[c] BY Zenon DEF coalesceAuthUpdates
<1> HIDE DEF c
<1>4. c = n BY <1>1, <1>2 DEF LastAt
<1> QED BY <1>3, <1>4

\* The newest value of a credential among updates, or the manager's.
Newest(ups, a, i) == IF Mentions(ups, i) THEN coalesceAuthUpdates(ups, i).val ELSE a[i]

\* Of two sequences the second one counts.
LEMMA NewestOfConcat ==
  ASSUME NEW S, NEW s \in Seq(S), NEW t \in Seq(S), NEW a, NEW i
  PROVE  /\ Mentions(s \o t, i) <=> Mentions(s, i) \/ Mentions(t, i)
         /\ Newest(s \o t, a, i) = IF Mentions(t, i) THEN coalesceAuthUpdates(t, i).val
                                   ELSE Newest(s, a, i)
<1>1. PICK j \in Nat : j = Len(s) /\ DOMAIN s = 1 .. j BY LenProperties
<1>2. PICK k \in Nat : k = Len(t) /\ DOMAIN t = 1 .. k BY LenProperties
<1>3. PICK u : u = s \o t OBVIOUS
<1>4. /\ u \in Seq(S) /\ DOMAIN u = 1 .. (j + k)
      /\ \A n \in 1 .. (j + k) : u[n] = IF n <= j THEN s[n] ELSE t[n - j]
  <2>1. u \in Seq(S) /\ Len(u) = Len(s) + Len(t)
        /\ \A n \in 1 .. (Len(s) + Len(t)) : u[n] = IF n <= Len(s) THEN s[n] ELSE t[n - Len(s)]
    BY <1>3, ConcatProperties
  <2>2. DOMAIN u = 1 .. Len(u) BY <2>1, LenProperties
  <2> QED BY <1>1, <1>2, <2>1, <2>2
<1>5. ASSUME NEW n \in 1 .. j PROVE n \in DOMAIN u /\ u[n] = s[n] BY <1>4
<1>6. ASSUME NEW n \in 1 .. k PROVE n + j \in DOMAIN u /\ u[n + j] = t[n]
  <2>1. n + j \in 1 .. (j + k) /\ ~(n + j <= j) /\ (n + j) - j = n OBVIOUS
  <2> QED BY <1>4, <2>1
<1>7. ASSUME NEW n \in DOMAIN u
      PROVE  \/ n \in 1 .. j /\ u[n] = s[n]
             \/ n - j \in 1 .. k /\ ~(n <= j) /\ u[n] = t[n - j]
  <2>1. n \in 1 .. (j + k) BY <1>4
  <2>2. ~(n <= j) => n - j \in 1 .. k BY <2>1
  <2> QED BY <1>4, <2>1, <2>2
<1>8. Mentions(u, i) <=> Mentions(s, i) \/ Mentions(t, i)
  <2>1. Mentions(s, i) => Mentions(u, i) BY <1>1, <1>5 DEF Mentions
  <2>2. Mentions(t, i) => Mentions(u, i) BY <1>2, <1>6 DEF Mentions
  <2>3. Mentions(u, i) => Mentions(s, i) \/ Mentions(t, i) BY <1>1, <1>2, <1>7 DEF Mentions
  <2> QED BY <2>1, <2>2, <2>3
<1>9. CASE Mentions(t, i)
  <2>1. PICK n : LastAt(t, i, n) BY <1>9, LastExists
  <2>2. n \in 1 .. k /\ t[n].id = i /\ \A m \in 1 .. k : t[m].id = i => m <= n
    BY <1>2, <2>1 DEF LastAt
  <2>3. n + j \in DOMAIN u /\ u[n + j] = t[n] BY <1>6, <2>2
  <2>4. ASSUME NEW m \in DOMAIN u, u[m].id = i PROVE m <= n + j
    <3>1. CASE m \in 1 .. j BY <2>2, <3>1
    <3>2. CASE m - j \in 1 .. k /\ u[m] = t[m - j]
      <4>1. m - j <= n BY <2>2, <2>4, <3>2
      <4>2. m \in 1 .. (j + k) BY <1>4
      <4> QED BY <2>2, <4>1, <4>2
    <3> QED BY <1>7, <3>1, <3>2
  <2>5. LastAt(u, i, n + j) BY <2>2, <2>3, <2>4 DEF LastAt
  <2>6. coalesceAuthUpdates(u, i) = t[n] BY <1>4, <2>3, <2>5, CoalesceIsLast
  <2>7. coalesceAuthUpdates(t, i) = t[n] BY <2>1, CoalesceIsLast
  <2> QED BY <1>3, <1>8, <1>9, <2>6, <2>7 DEF Newest
<1>10. CASE ~Mentions(t, i) /\ Mentions(s, i)
  <2>1. PICK n : LastAt(s, i, n) BY <1>10, LastExists
  <2>2. n \in 1 .. j /\ s[n].id = i /\ \A m \in 1 .. j : s[m].id = i => m <= n
    BY <1>1, <2>1 DEF LastAt
  <2>3. n \in DOMAIN u /\ u[n] = s[n] BY <1>5, <2>2
  <2>4. ASSUME NEW m \in DOMAIN u, u[m].id = i PROVE m <= n
    BY <1>2, <1>7, <1>10, <2>2, <2>4 DEF Mentions
  <2>5. LastAt(u, i, n) BY <2>2, <2>3, <2>4 DEF LastAt
  <2>6. coalesceAuthUpdates(u, i) = s[n] BY <1>4, <2>3, <2>5, CoalesceIsLast
  <2>7. coalesceAuthUpdates(s, i) = s[n] BY <2>1, CoalesceIsLast
  <2> QED BY <1>3, <1>8, <1>10, <2>6, <2>7 DEF Newest
<1>11. CASE ~Mentions(t, i) /\ ~Mentions(s, i) BY <1>3, <1>8, <1>11 DEF Newest
<1> QED BY <1>3, <1>8, <1>9, <1>10, <1>11

-----------------------------------------------------------------------------
(***************************************************************************)
(* pendingUpdates.                                                         *)
(***************************************************************************)

\* A credential has one update at most.
Distinct(ups) == \A m, n \in DOMAIN ups : ups[m].id = ups[n].id => m = n

\* The sequence has an update of i with value v.
Has(ups, i, v) == \E n \in DOMAIN ups : ups[n].id = i /\ ups[n].val = v

\* The only update of a credential is its newest.
LEMMA OnlyIsNewest ==
  ASSUME NEW S, NEW ups \in Seq(S), Distinct(ups), NEW i, NEW v, Has(ups, i, v)
  PROVE  Mentions(ups, i) /\ coalesceAuthUpdates(ups, i).val = v
<1>1. PICK k \in Nat : DOMAIN ups = 1 .. k BY LenProperties
<1>2. PICK n \in DOMAIN ups : ups[n].id = i /\ ups[n].val = v BY DEF Has
<1>3. LastAt(ups, i, n) BY <1>1, <1>2 DEF LastAt, Distinct
<1>4. coalesceAuthUpdates(ups, i) = ups[n] BY <1>3, CoalesceIsLast
<1> QED BY <1>2, <1>4 DEF Mentions

\* What a credential's newest value is depends on the pending updates only
\* through its own.
LEMMA NewestPending ==
  ASSUME NEW S, NEW s \in Seq(S), NEW q \in Seq(S), Distinct(q), NEW a, NEW i
  PROVE  /\ \A v : Has(q, i, v) => Newest(s \o q, a, i) = v
         /\ ~Mentions(q, i) => Newest(s \o q, a, i) = Newest(s, a, i)
<1>1. Newest(s \o q, a, i) = IF Mentions(q, i) THEN coalesceAuthUpdates(q, i).val
                             ELSE Newest(s, a, i)
  BY NewestOfConcat
<1>2. ASSUME NEW v, Has(q, i, v) PROVE Newest(s \o q, a, i) = v
  BY <1>1, <1>2, OnlyIsNewest
<1> QED BY <1>1, <1>2

\* An update replaces the one that waits for the same credential and leaves the
\* others alone.
LEMMA EnqueueOne ==
  ASSUME NEW S, NEW q \in Seq(S), NEW u \in S, Distinct(q)
  PROVE  /\ enqueuePending(q, u) \in Seq(S) /\ Distinct(enqueuePending(q, u))
         /\ Has(enqueuePending(q, u), u.id, u.val)
         /\ \A i, v : i # u.id => (Has(enqueuePending(q, u), i, v) <=> Has(q, i, v))
<1>1. PICK k \in Nat : k = Len(q) /\ DOMAIN q = 1 .. k /\ q \in [1 .. k -> S] BY LenProperties
<1>2. PICK p : p = enqueuePending(q, u) OBVIOUS
<1>3. CASE Mentions(q, u.id)
  <2>1. p = [n \in 1 .. k |-> IF q[n].id = u.id THEN u ELSE q[n]]
    BY <1>1, <1>2, <1>3 DEF enqueuePending
  <2>2. p \in Seq(S)
    <3>1. p \in [1 .. k -> S] BY <1>1, <2>1
    <3> QED BY <1>1, <3>1, SeqDef
  <2>3. DOMAIN p = 1 .. k /\ \A n \in 1 .. k : p[n] = IF q[n].id = u.id THEN u ELSE q[n]
    BY <2>1
  <2>4. \A n \in 1 .. k : p[n].id = q[n].id BY <2>3
  <2>5. Distinct(p) BY <1>1, <2>3, <2>4 DEF Distinct
  <2>6. Has(p, u.id, u.val)
    <3>1. PICK n \in 1 .. k : q[n].id = u.id BY <1>1, <1>3 DEF Mentions
    <3>2. p[n] = u BY <2>3, <3>1
    <3> QED BY <2>3, <3>2 DEF Has
  <2>7. ASSUME NEW i, NEW v, i # u.id PROVE Has(p, i, v) <=> Has(q, i, v)
    BY <1>1, <2>3, <2>4, <2>7 DEF Has
  <2> QED BY <1>2, <2>2, <2>5, <2>6, <2>7
<1>4. CASE ~Mentions(q, u.id)
  <2>1. p = Append(q, u) BY <1>2, <1>4 DEF enqueuePending
  <2>2. /\ p \in Seq(S) /\ Len(p) = k + 1
        /\ \A n \in 1 .. k : p[n] = q[n]
        /\ p[k + 1] = u
    BY <1>1, <2>1, AppendProperties
  <2>3. DOMAIN p = 1 .. (k + 1) BY <2>2, LenProperties
  <2>4. \A n \in 1 .. (k + 1) : n \in 1 .. k \/ n = k + 1 OBVIOUS
  <2>5. \A n \in 1 .. k : n \in 1 .. (k + 1) /\ p[n] = q[n] /\ q[n].id # u.id
    BY <1>1, <1>4, <2>2 DEF Mentions
  <2>6. Distinct(p) BY <1>1, <2>2, <2>3, <2>4, <2>5 DEF Distinct
  <2>7. Has(p, u.id, u.val)
    <3>1. k + 1 \in DOMAIN p BY <2>3
    <3> QED BY <2>2, <3>1 DEF Has
  <2>8. ASSUME NEW i, NEW v, i # u.id PROVE Has(p, i, v) <=> Has(q, i, v)
    <3>1. Has(q, i, v) => Has(p, i, v) BY <1>1, <2>3, <2>5 DEF Has
    <3>2. Has(p, i, v) => Has(q, i, v) BY <1>1, <2>2, <2>3, <2>4, <2>5, <2>8 DEF Has
    <3> QED BY <3>1, <3>2
  <2> QED BY <1>2, <2>2, <2>6, <2>7, <2>8
<1> QED BY <1>3, <1>4

\* Updates are enqueued one after the other.
LEMMA EnqueueSteps ==
  ASSUME NEW q, NEW ups, NEW k \in Nat, Len(ups) = k
  PROVE  \E h : /\ h[0] = q
                /\ \A n \in 1 .. k : h[n] = enqueuePending(h[n - 1], ups[n])
                /\ enqueueAll(q, ups) = h[k]
<1> DEFINE Step(f, n) == IF n = 0 THEN q ELSE enqueuePending(f[n - 1], ups[n])
           h == CHOOSE f : f = [n \in 0 .. Len(ups) |->
                                  IF n = 0 THEN q ELSE enqueuePending(f[n - 1], ups[n])]
<1>1. enqueueAll(q, ups) = h[Len(ups)] BY Zenon DEF enqueueAll
<1> DEFINE Found(j) == \E f : f = [n \in 0 .. j |-> Step(f, n)]
           Bad == {j \in 0 .. k : ~Found(j)}
<1>2. Bad = {}
  <2> SUFFICES ASSUME Bad # {} PROVE FALSE OBVIOUS
  <2>1. Bad \subseteq Nat OBVIOUS
  <2> HIDE DEF Bad
  <2>2. PICK j \in Bad : \A m \in Bad : j <= m BY <2>1, LeastExists
  <2> USE DEF Bad
  <2>3. CASE j = 0
    <3>1. PICK f : f = [n \in 0 .. 0 |-> q] OBVIOUS
    <3>2. f = [n \in 0 .. 0 |-> Step(f, n)] BY <3>1
    <3>3. Found(0) BY <3>2
    <3> QED BY <2>2, <2>3, <3>3
  <2>4. CASE j # 0
    <3>1. j \in Nat /\ j - 1 \in 0 .. k /\ j - 1 < j BY <2>2, <2>4
    <3>2. j - 1 \notin Bad BY <2>2, <3>1
    <3>3. Found(j - 1) BY <3>1, <3>2
    <3>4. PICK f : f = [n \in 0 .. (j - 1) |-> Step(f, n)] BY <3>3
    <3>5. PICK g : g = [n \in 0 .. j |-> IF n = j THEN enqueuePending(f[j - 1], ups[j]) ELSE f[n]]
      OBVIOUS
    <3>6. \A n \in 0 .. j : g[n] = Step(g, n)
      <4> SUFFICES ASSUME NEW n \in 0 .. j PROVE g[n] = Step(g, n) OBVIOUS
      <4>1. n # 0 => g[n - 1] = f[n - 1] BY <3>1, <3>5
      <4>2. CASE n = j BY <2>4, <3>1, <3>5, <4>1, <4>2
      <4>3. CASE n # j
        <5>1. n \in 0 .. (j - 1) /\ g[n] = f[n] BY <3>1, <3>5, <4>3
        <5>2. f[n] = Step(f, n) BY <3>4, <5>1, Zenon
        <5> QED BY <4>1, <5>1, <5>2
      <4> QED BY <4>2, <4>3
    <3>7. g = [n \in 0 .. j |-> Step(g, n)]
      <4> HIDE DEF Step
      <4>1. g = [n \in 0 .. j |-> g[n]] BY <3>5
      <4> QED BY <3>6, <4>1
    <3>8. Found(j) BY <3>7, Zenon
    <3> QED BY <2>2, <3>8
  <2> QED BY <2>3, <2>4
<1>3. Found(k)
  <2>1. k \in 0 .. k OBVIOUS
  <2> HIDE DEF Found
  <2> QED BY <1>2, <2>1
<1>4. h = [n \in 0 .. Len(ups) |-> IF n = 0 THEN q ELSE enqueuePending(h[n - 1], ups[n])]
  BY <1>3, Zenon
<1>5. \A n \in 0 .. Len(ups) : h[n] = IF n = 0 THEN q ELSE enqueuePending(h[n - 1], ups[n])
  BY <1>4, Zenon
<1> HIDE DEF h
<1>6. h[0] = q /\ \A n \in 1 .. k : h[n] = enqueuePending(h[n - 1], ups[n]) BY <1>5
<1> HIDE DEF Bad, Found, Step
<1> QED BY <1>1, <1>6

\* Afterwards each of the credentials has its new update pending and the others
\* have what they had.
LEMMA EnqueueAll ==
  ASSUME NEW S, NEW q \in Seq(S), Distinct(q), NEW ups \in Seq(S), Distinct(ups)
  PROVE  /\ enqueueAll(q, ups) \in Seq(S) /\ Distinct(enqueueAll(q, ups))
         /\ \A n \in DOMAIN ups : Has(enqueueAll(q, ups), ups[n].id, ups[n].val)
         /\ \A i, v : ~Mentions(ups, i) => (Has(enqueueAll(q, ups), i, v) <=> Has(q, i, v))
<1>1. PICK k \in Nat : k = Len(ups) /\ DOMAIN ups = 1 .. k /\ ups \in [1 .. k -> S] BY LenProperties
<1>2. PICK h : /\ h[0] = q
               /\ \A n \in 1 .. k : h[n] = enqueuePending(h[n - 1], ups[n])
               /\ enqueueAll(q, ups) = h[k]
  BY <1>1, EnqueueSteps
<1> DEFINE Fine(n) ==
      /\ h[n] \in Seq(S) /\ Distinct(h[n])
      /\ \A m \in 1 .. n : Has(h[n], ups[m].id, ups[m].val)
      /\ \A i, v : (\A m \in 1 .. n : ups[m].id # i) => (Has(h[n], i, v) <=> Has(q, i, v))
<1>3. Fine(0) BY <1>2
<1>4. ASSUME NEW n \in 1 .. k, Fine(n - 1) PROVE Fine(n)
  <2>1. ups[n] \in S BY <1>1
  <2>2. PICK p : p = h[n - 1] OBVIOUS
  <2>3. p \in Seq(S) /\ Distinct(p) BY <1>4, <2>2
  <2>4. h[n] = enqueuePending(p, ups[n]) BY <1>2, <2>2
  <2>5. PICK u \in S : u = ups[n] BY <2>1
  <2>6. /\ h[n] \in Seq(S) /\ Distinct(h[n]) /\ Has(h[n], u.id, u.val)
        /\ \A i, v : i # u.id => (Has(h[n], i, v) <=> Has(p, i, v))
    <3>1. h[n] = enqueuePending(p, u) BY <2>4, <2>5
    <3>2. PICK c : c = h[n] OBVIOUS
    <3>3. /\ c \in Seq(S) /\ Distinct(c) /\ Has(c, u.id, u.val)
          /\ \A i, v : i # u.id => (Has(c, i, v) <=> Has(p, i, v))
      <4>1. c = enqueuePending(p, u) BY <3>1, <3>2
      <4> QED BY <2>3, <4>1, EnqueueOne
    <3> QED BY <3>2, <3>3
  <2>7. ASSUME NEW m \in 1 .. n PROVE Has(h[n], ups[m].id, ups[m].val)
    <3>1. CASE m = n BY <2>5, <2>6, <3>1
    <3>2. CASE m # n
      <4>1. m \in 1 .. (n - 1) /\ m \in 1 .. k BY <3>2
      <4>2. ups[m].id # u.id BY <1>1, <2>5, <3>2, <4>1 DEF Distinct
      <4>3. Has(p, ups[m].id, ups[m].val) BY <1>4, <2>2, <4>1
      <4> QED BY <2>6, <4>2, <4>3
    <3> QED BY <3>1, <3>2
  <2>8. ASSUME NEW i, NEW v, \A m \in 1 .. n : ups[m].id # i PROVE Has(h[n], i, v) <=> Has(q, i, v)
    <3>1. i # u.id BY <2>5, <2>8
    <3>2. \A m \in 1 .. (n - 1) : ups[m].id # i BY <2>8
    <3>3. Has(p, i, v) <=> Has(q, i, v) BY <1>4, <2>2, <3>2
    <3> QED BY <2>6, <3>1, <3>3
  <2> QED BY <2>6, <2>7, <2>8
<1> HIDE DEF Fine
<1> DEFINE Bad == {n \in 0 .. k : ~Fine(n)}
<1>5. Bad = {}
  <2> SUFFICES ASSUME Bad # {} PROVE FALSE OBVIOUS
  <2>1. Bad \subseteq Nat OBVIOUS
  <2>2. PICK n \in Bad : \A m \in Bad : n <= m
    <3> HIDE DEF Bad
    <3> QED BY <2>1, LeastExists
  <2>3. n \in 1 .. k BY <1>3, <2>2
  <2>4. n - 1 \in 0 .. k /\ ~(n <= n - 1) BY <2>3
  <2>5. Fine(n - 1) BY <2>2, <2>4
  <2> QED BY <1>4, <2>2, <2>3, <2>5
<1>6. Fine(k)
  <2>1. k \in 0 .. k OBVIOUS
  <2> QED BY <1>5, <2>1, Zenon
<1> HIDE DEF Bad
<1> QED BY <1>1, <1>2, <1>6 DEF Fine, Mentions

\* A finite set can be listed, and SetToSeq lists it.
LEMMA SetToSeqLists ==
  ASSUME NEW S, IsFiniteSet(S)
  PROVE  /\ SetToSeq(S) \in Seq(S)
         /\ \A m, n \in DOMAIN SetToSeq(S) : SetToSeq(S)[m] = SetToSeq(S)[n] => m = n
         /\ \A x \in S : \E n \in DOMAIN SetToSeq(S) : SetToSeq(S)[n] = x
<1>1. PICK k \in Nat : k = Cardinality(S) BY FS_CardinalityType
<1>2. ExistsBijection(1 .. k, S) BY <1>1, FS_CardinalityType
<1>3. PICK g : g \in Bijection(1 .. k, S) BY <1>2 DEF ExistsBijection
<1>4. g \in [1 .. k -> S] /\ IsInjective(g) BY <1>3 DEF Bijection, Injection, IsInjective
<1>5. PICK f : f = SetToSeq(S) OBVIOUS
<1>6. f \in [1 .. k -> S] /\ IsInjective(f)
  <2>1. f = CHOOSE x \in [1 .. k -> S] : IsInjective(x) BY <1>1, <1>5, Zenon DEF SetToSeq
  <2> QED BY <1>4, <2>1, Zenon
<1>7. f \in Injection(1 .. k, S) BY <1>6 DEF Injection, IsInjective
<1>8. IsFiniteSet(1 .. k) /\ Cardinality(1 .. k) = k BY FS_Interval
<1>9. f \in Surjection(1 .. k, S) BY <1>1, <1>7, <1>8, FS_Injection
<1>10. \A x \in S : \E n \in 1 .. k : f[n] = x BY <1>9 DEF Surjection
<1>11. f \in Seq(S) BY <1>6, SeqDef
<1>12. DOMAIN f = 1 .. k BY <1>6
<1> QED BY <1>5, <1>6, <1>10, <1>11, <1>12 DEF IsInjective

-----------------------------------------------------------------------------
(***************************************************************************)
(* Types, and what the program counters of the goroutines say about what   *)
(* they have in hand.                                                      *)
(***************************************************************************)
Events == [kind : {"remove", "write"}, file : Files] \union [kind : {"config"}, file : {"none"}]

EvRecords == [pc : {"idle", "sleep", "commit", "dispatch"}, file : Files \union {"none"},
              data : Versions \union {"none", "foreign"}, cfg : Configs \union {{}}, known : BOOLEAN,
              ups : Seq(Updates)]

RlRecords == [pc : {"idle", "load", "set", "filter", "rescan", "scan", "prepare", "dispatch", "hash"},
              start : BOOLEAN, cfg : Configs \union {{}}, affected : BOOLEAN, force : BOOLEAN,
              scan : {<<>>} \union [Files -> Contents], ups : Seq(Updates)]

Calls == [n : Nat, pc : {"reload", "hook", "dispatch"}, id : Ids \union {"none"}, val : Values]

Odds == [untold : SUBSET Ids, crossed : SUBSET Ids, stale : SUBSET (Files \union Keys),
         missed : SUBSET Files, lost : BOOLEAN]

DiskTypes ==
  /\ files \in [Files -> Contents] /\ configFile \in Configs /\ changes \in 0 .. MaxChanges
  /\ events \in Seq(Events)

ShadowTypes ==
  /\ config \in Configs /\ config.loads /\ configHash \subseteq Configs
  /\ hashes \in [Files -> Versions \union {"none", "broken", "foreign"}]
  /\ fileAuths \subseteq Files /\ recent \subseteq Files /\ runtime \subseteq Channels
  /\ current \in [Ids -> Values]

\* What the event goroutine has in hand.
EvDiscipline(e) ==
  /\ e.pc \in {"sleep", "commit"} => e.file \in Files
  /\ e.pc = "commit" => Parses(e.data) /\ e.cfg \in Configs
  /\ e.pc # "dispatch" => e.ups = <<>>
  /\ Distinct(e.ups)

\* What a reload has in hand.
RlDiscipline(e) ==
  /\ e.pc \in {"set", "prepare"} => e.cfg \in Configs /\ e.cfg.loads
  /\ e.pc # "dispatch" => e.ups = <<>>
  /\ Distinct(e.ups)

EvTypes == ev \in EvRecords /\ EvDiscipline(ev)

RlTypes == rl \in [Reloaders -> RlRecords] /\ \A r \in Reloaders : RlDiscipline(rl[r])

CallTypes ==
  /\ calls \subseteq Calls
  /\ \A c \in calls : (c.pc = "dispatch" => c.id \in Ids) /\ (c.pc = "hook" => c.id \in Files)

QueueTypes ==
  /\ pending \in Seq(Updates) /\ Distinct(pending)
  /\ queue \in Seq(Updates)
  /\ applied \in [Ids -> Values]

WatchTypes ==
  /\ DiskTypes /\ ShadowTypes /\ EvTypes /\ RlTypes /\ CallTypes /\ QueueTypes
  /\ odd \in Odds

\* They include the types of the variables.
LEMMA TypesGive == WatchTypes => TypeOK
<1> SUFFICES ASSUME WatchTypes PROVE TypeOK OBVIOUS
<1>1. ev.pc \in {"idle", "sleep", "commit", "dispatch"} BY DEF WatchTypes, EvTypes, EvRecords
<1>2. \A r \in Reloaders : rl[r].pc \in {"idle", "load", "set", "filter", "rescan", "scan", "prepare",
                                         "dispatch", "hash"}
  BY DEF WatchTypes, RlTypes, RlRecords
<1> QED BY <1>1, <1>2 DEF WatchTypes, DiskTypes, ShadowTypes, QueueTypes, Distinct, TypeOK

\* Values of credentials.
LEMMA ValueTypes ==
  /\ Gone \in Values
  /\ \A v \in Versions \union {"key", "ws"} : Raw(v) \in Values
  /\ \A c \in Configs : \A content : SynthesizeAuthFile(c, content) \in Values
  /\ \A i \in Ids, v \in Values : Update(i, v) \in Updates /\ Update(i, v).id = i /\ Update(i, v).val = v
<1> USE DEF Gone, Raw, SynthesizeAuthFile, Values, Updates, Update
<1>1. Gone \in Values OBVIOUS
<1>2. \A v \in Versions \union {"key", "ws"} : Raw(v) \in Values OBVIOUS
<1>3. \A c \in Configs : \A content : SynthesizeAuthFile(c, content) \in Values OBVIOUS
<1>4. \A i \in Ids, v \in Values : Update(i, v) \in Updates /\ Update(i, v).id = i /\ Update(i, v).val = v
  OBVIOUS
<1> QED BY <1>1, <1>2, <1>3, <1>4

\* No update, and one.
LEMMA ShortUpdates ==
  /\ <<>> \in Seq(Updates) /\ Distinct(<<>>)
  /\ \A u \in Updates : <<u>> \in Seq(Updates) /\ Distinct(<<u>>)
  /\ \A i : ~Mentions(<<>>, i)
BY DEF Distinct, Mentions

\* The idle goroutines.
LEMMA IdleTypes ==
  /\ EvIdle \in EvRecords /\ EvDiscipline(EvIdle)
  /\ RlIdle \in RlRecords /\ RlDiscipline(RlIdle)
<1>1. EvIdle \in EvRecords BY ShortUpdates DEF EvIdle, EvRecords
<1>2. EvDiscipline(EvIdle) BY ShortUpdates DEF EvIdle, EvDiscipline
<1>3. RlIdle \in RlRecords BY ShortUpdates DEF RlIdle, RlRecords
<1>4. RlDiscipline(RlIdle) BY ShortUpdates DEF RlIdle, RlDiscipline
<1> QED BY <1>1, <1>2, <1>3, <1>4

\* The watcher before its start.
LEMMA InitTypes == Init => WatchTypes
<1> SUFFICES ASSUME Init PROVE WatchTypes OBVIOUS
<1>1. DiskTypes BY WatcherAssumption DEF Init, DiskTypes, Contents
<1>2. ShadowTypes BY WatcherAssumption, ValueTypes DEF Init, ShadowTypes
<1>3. EvTypes BY IdleTypes DEF Init, EvTypes
<1>4. RlTypes
  <2> DEFINE first == [RlIdle EXCEPT !.pc = "filter", !.start = TRUE]
  <2>1. first \in RlRecords
    <3>1. TRUE \in BOOLEAN OBVIOUS
    <3>2. "filter" \in {"idle", "load", "set", "filter", "rescan", "scan", "prepare", "dispatch", "hash"} OBVIOUS
    <3> QED BY <3>1, <3>2, IdleTypes, Zenon DEF RlRecords
  <2>2. RlDiscipline(first) BY ShortUpdates DEF RlDiscipline, RlIdle
  <2>3. rl = [r \in Reloaders |-> IF r = Starter THEN first ELSE RlIdle] BY DEF Init
  <2> HIDE DEF first
  <2> QED BY <2>1, <2>2, <2>3, IdleTypes DEF RlTypes
<1>5. CallTypes BY DEF Init, CallTypes
<1>6. QueueTypes
  <2>1. \A i \in Ids : applied[i] \in Values
    <3> SUFFICES ASSUME NEW i \in Ids PROVE applied[i] \in Values OBVIOUS
    <3>1. CASE i \in Files /\ files[i] \in Versions
      BY <3>1, ValueTypes DEF Init
    <3>2. CASE ~(i \in Files /\ files[i] \in Versions) /\ i \in configFile.keys
      BY <3>2, ValueTypes DEF Init
    <3>3. CASE ~(i \in Files /\ files[i] \in Versions) /\ i \notin configFile.keys
      BY <3>3, ValueTypes DEF Init
    <3> QED BY <3>1, <3>2, <3>3
  <2>2. applied = [i \in Ids |-> applied[i]] BY DEF Init
  <2>3. applied \in [Ids -> Values] BY <2>1, <2>2
  <2> QED BY <2>3, ShortUpdates DEF Init, QueueTypes
<1>7. odd \in Odds BY DEF Init, Odds
<1> QED BY <1>1, <1>2, <1>3, <1>4, <1>5, <1>6, <1>7 DEF WatchTypes

\* The changes of a record that is in hand.
LEMMA OddTypes ==
  ASSUME NEW o \in Odds
  PROVE  /\ \A ups \in Seq(Updates) : Produced(o, ups) \in Odds
         /\ \A s, t : s \subseteq Files \union Keys => Marked(o, s, t) \in Odds
         /\ \A s : [o EXCEPT !.missed = @ \ s] \in Odds
         /\ \A f \in Files : [o EXCEPT !.missed = @ \union {f}] \in Odds
         /\ \A s : s \subseteq Ids => [o EXCEPT !.untold = @ \union s] \in Odds
         /\ \A b \in BOOLEAN : [o EXCEPT !.lost = b] \in Odds
<1>1. ASSUME NEW ups \in Seq(Updates) PROVE Produced(o, ups) \in Odds
  <2>1. PICK a : a = o.untold \ Mentioned(ups) OBVIOUS
  <2>2. PICK b : b = (o.crossed \ Mentioned(ups)) \union {i \in Mentioned(ups) : InFlight(i)} OBVIOUS
  <2>3. Mentioned(ups) \subseteq Ids
    <3>1. \A n \in DOMAIN ups : ups[n] \in Updates BY ElementOfSeq, LenProperties
    <3> QED BY <3>1 DEF Mentioned, Updates
  <2>4. a \in SUBSET Ids /\ b \in SUBSET Ids BY <2>1, <2>2, <2>3 DEF Odds
  <2>5. Produced(o, ups) = [o EXCEPT !.untold = a, !.crossed = b] BY <2>1, <2>2, Zenon DEF Produced
  <2> QED BY <2>4, <2>5, Zenon DEF Odds
<1>2. ASSUME NEW s, NEW t, s \subseteq Files \union Keys PROVE Marked(o, s, t) \in Odds
  BY <1>2 DEF Marked, Odds
<1>3. \A s : [o EXCEPT !.missed = @ \ s] \in Odds BY DEF Odds
<1>4. \A f \in Files : [o EXCEPT !.missed = @ \union {f}] \in Odds BY DEF Odds
<1>5. \A s : s \subseteq Ids => [o EXCEPT !.untold = @ \union s] \in Odds BY DEF Odds
<1>6. \A b \in BOOLEAN : [o EXCEPT !.lost = b] \in Odds BY DEF Odds
<1> QED BY <1>1, <1>2, <1>3, <1>4, <1>5, <1>6

\* The outside world.
LEMMA EnvironmentTypes ==
  ASSUME WatchTypes, Environment
  PROVE  WatchTypes'
<1> USE DEF WatchTypes
<1>0. Change => changes' \in 0 .. MaxChanges /\ changes \in Nat
  BY WatcherAssumption DEF Change, DiskTypes
<1>1. ASSUME NEW f \in Files, NEW content \in Contents, WriteFile(f, content)
      PROVE  WatchTypes'
  <2>1. DiskTypes'
    <3>1. PICK e : e = [kind |-> IF content = "absent" THEN "remove" ELSE "write", file |-> f] OBVIOUS
    <3>2. e \in Events BY <3>1 DEF Events
    <3>3. events' = Append(events, e) BY <1>1, <3>1 DEF WriteFile
    <3>4. events' \in Seq(Events) BY <3>2, <3>3, AppendProperties DEF DiskTypes
    <3> QED BY <1>0, <1>1, <3>4 DEF WriteFile, DiskTypes
  <2> QED BY <1>1, <2>1 DEF WriteFile, configVars, shadowVars, actorVars, queueVars,
        ShadowTypes, EvTypes, RlTypes, CallTypes, QueueTypes
<1>2. ASSUME NEW c \in Configs, NEW managed \in BOOLEAN, WriteConfig(c, managed)
      PROVE  WatchTypes'
  <2>1. DiskTypes'
    <3>1. PICK e : e = [kind |-> "config", file |-> "none"] OBVIOUS
    <3>2. e \in Events BY <3>1 DEF Events
    <3>3. events' = Append(events, e) BY <1>2, <3>1 DEF WriteConfig
    <3>4. events' \in Seq(Events) BY <3>2, <3>3, AppendProperties DEF DiskTypes
    <3> QED BY <1>0, <1>2, <3>4 DEF WriteConfig, DiskTypes
  <2>2. CallTypes'
    <3>1. PICK d : d = [n |-> changes, pc |-> "reload", id |-> "none", val |-> Gone] OBVIOUS
    <3>2. d \in Calls /\ d.pc = "reload" BY <1>0, <1>2, <3>1, ValueTypes DEF WriteConfig, Calls
    <3>3. calls' \subseteq calls \union {d} BY <1>2, <3>1 DEF WriteConfig
    <3> QED BY <3>2, <3>3 DEF CallTypes
  <2> QED BY <1>2, <2>1, <2>2 DEF WriteConfig, configVars, shadowVars, queueVars,
        ShadowTypes, EvTypes, RlTypes, QueueTypes
<1>3. ASSUME NEW c \in Channels, dispatchRuntimeAuthUpdate(c)
      PROVE  WatchTypes'
  <2>1. PICK val \in Values : val = IF c \in runtime THEN Gone ELSE Raw("ws") BY ValueTypes
  <2>2. c \in Ids BY DEF Ids
  <2>3. ShadowTypes' BY <1>3, <2>1, <2>2 DEF dispatchRuntimeAuthUpdate, configVars, ShadowTypes
  <2>4. CallTypes'
    <3>1. PICK d : d = [n |-> changes, pc |-> "dispatch", id |-> c, val |-> val] OBVIOUS
    <3>2. d \in Calls /\ d.pc = "dispatch" /\ d.id = c
      BY <1>0, <1>3, <2>2, <3>1 DEF dispatchRuntimeAuthUpdate, Calls
    <3>3. calls' = calls \union {d} BY <1>3, <2>1, <3>1 DEF dispatchRuntimeAuthUpdate
    <3> QED BY <2>2, <3>2, <3>3 DEF CallTypes
  <2>5. odd' \in Odds
    <3>1. Update(c, val) \in Updates BY <2>2, ValueTypes
    <3>2. <<Update(c, val)>> \in Seq(Updates) BY <3>1, ShortUpdates
    <3>3. odd' = Produced(odd, <<Update(c, val)>>) BY <1>3, <2>1 DEF dispatchRuntimeAuthUpdate
    <3> QED BY <3>2, <3>3, OddTypes
  <2>6. DiskTypes' BY <1>0, <1>3 DEF dispatchRuntimeAuthUpdate, DiskTypes
  <2> QED BY <1>3, <2>3, <2>4, <2>5, <2>6 DEF dispatchRuntimeAuthUpdate, queueVars,
        EvTypes, RlTypes, QueueTypes
<1>4. ASSUME NEW f \in Files, NEW content \in Versions, saveTokenRecord(f, content)
      PROVE  WatchTypes'
  <2>1. DiskTypes'
    <3>1. PICK e : e = [kind |-> "write", file |-> f] OBVIOUS
    <3>2. e \in Events BY <3>1 DEF Events
    <3>3. events' = Append(events, e) BY <1>4, <3>1 DEF saveTokenRecord
    <3>4. events' \in Seq(Events) BY <3>2, <3>3, AppendProperties DEF DiskTypes
    <3> QED BY <1>0, <1>4, <3>4 DEF saveTokenRecord, DiskTypes, Contents
  <2>2. CallTypes'
    <3>1. PICK d : d = [n |-> changes, pc |-> "hook", id |-> f, val |-> Raw(content)] OBVIOUS
    <3>2. d \in Calls /\ d.pc = "hook" /\ d.id = f
      BY <1>0, <1>4, <3>1, ValueTypes DEF saveTokenRecord, Calls, Ids
    <3>3. calls' = calls \union {d} BY <1>4, <3>1 DEF saveTokenRecord
    <3> QED BY <3>2, <3>3 DEF CallTypes
  <2> QED BY <1>4, <2>1, <2>2 DEF saveTokenRecord, configVars, shadowVars, queueVars,
        ShadowTypes, EvTypes, RlTypes, QueueTypes
<1> HIDE DEF WatchTypes
<1> QED BY <1>1, <1>2, <1>3, <1>4 DEF Environment

\* Dispatching keeps the types of pendingUpdates.
LEMMA DispatchTypes ==
  ASSUME WatchTypes, NEW ups \in Seq(Updates), Distinct(ups), dispatchAuthUpdates(ups),
         UNCHANGED <<queue, applied>>
  PROVE  QueueTypes'
<1>1. pending' = enqueueAll(pending, ups) BY DEF dispatchAuthUpdates
<1>2. enqueueAll(pending, ups) \in Seq(Updates) /\ Distinct(enqueueAll(pending, ups))
  BY EnqueueAll DEF WatchTypes, QueueTypes
<1> QED BY <1>1, <1>2 DEF WatchTypes, QueueTypes

\* The event at the head of the channel.
LEMMA HeadTypes ==
  ASSUME WatchTypes, events # <<>>
  PROVE  /\ Tail(events) \in Seq(Events)
         /\ Head(events).kind # "config" => Head(events).file \in Files
<1>1. Head(events) \in Events /\ Tail(events) \in Seq(Events)
  BY HeadTailProperties DEF WatchTypes, DiskTypes
<1> QED BY <1>1 DEF Events

\* addOrUpdateClientLocked.
LEMMA AddTypes ==
  ASSUME WatchTypes, NEW f \in Files, addOrUpdateClientLocked(f), UNCHANGED <<configVars, recent, runtime>>
  PROVE  ShadowTypes' /\ EvTypes' /\ odd' \in Odds
<1> USE DEF WatchTypes
<1>1. odd' \in Odds BY OddTypes DEF addOrUpdateClientLocked
<1>2. CASE Parses(files[f]) /\ hashes[f] # files[f]
  <2>0. files[f] \in Versions \union {"none", "foreign"} BY <1>2 DEF Parses
  <2>1. ShadowTypes' BY <1>2, <2>0 DEF addOrUpdateClientLocked, ShadowTypes, configVars
  <2>2. PICK e : e = [EvIdle EXCEPT !.pc = "commit", !.file = f, !.data = files[f], !.cfg = config,
                                    !.known = f \in fileAuths]
    OBVIOUS
  <2>3. ev' = e BY <1>2, <2>2 DEF addOrUpdateClientLocked
  <2>4. e \in EvRecords
    <3>1. "commit" \in {"idle", "sleep", "commit", "dispatch"} OBVIOUS
    <3>2. f \in Files \union {"none"} /\ (f \in fileAuths) \in BOOLEAN OBVIOUS
    <3>3. config \in Configs \union {{}} BY DEF ShadowTypes
    <3> QED BY <2>0, <2>2, <3>1, <3>2, <3>3, IdleTypes, Zenon DEF EvRecords
  <2>5. /\ e.pc = "commit" /\ e.file = f /\ e.data = files[f] /\ e.cfg = config /\ e.ups = <<>>
    BY <2>2 DEF EvIdle
  <2>6. EvDiscipline(e) BY <1>2, <2>5, ShortUpdates DEF EvDiscipline, ShadowTypes
  <2> QED BY <1>1, <2>1, <2>3, <2>4, <2>6 DEF EvTypes
<1>3. CASE ~(Parses(files[f]) /\ hashes[f] # files[f])
  BY <1>1, <1>3, IdleTypes DEF addOrUpdateClientLocked, ShadowTypes, configVars, EvTypes
<1> QED BY <1>2, <1>3

\* The event goroutine has updates to dispatch.
LEMMA EvDispatches ==
  ASSUME NEW e \in EvRecords, NEW ups \in Seq(Updates), Distinct(ups)
  PROVE  /\ [e EXCEPT !.pc = "dispatch", !.ups = ups] \in EvRecords
         /\ EvDiscipline([e EXCEPT !.pc = "dispatch", !.ups = ups])
         /\ [e EXCEPT !.pc = "dispatch", !.ups = ups].ups = ups
<1>1. PICK d : d = [e EXCEPT !.pc = "dispatch", !.ups = ups] OBVIOUS
<1>2. d \in EvRecords
  <2>1. "dispatch" \in {"idle", "sleep", "commit", "dispatch"} OBVIOUS
  <2> QED BY <1>1, <2>1, Zenon DEF EvRecords
<1>3. d.pc = "dispatch" /\ d.ups = ups BY <1>1 DEF EvRecords
<1> QED BY <1>1, <1>2, <1>3 DEF EvDiscipline

\* removeClientLocked.
LEMMA RemoveTypes ==
  ASSUME WatchTypes, NEW f \in Files, removeClientLocked(f), UNCHANGED <<configVars, recent, runtime>>
  PROVE  ShadowTypes' /\ EvTypes' /\ odd' \in Odds
<1> USE DEF WatchTypes
<1>1. f \in Ids BY DEF Ids
<1>2. PICK ups : ups = IF f \in fileAuths THEN <<Update(f, Gone)>> ELSE <<>> OBVIOUS
<1>3. ups \in Seq(Updates) /\ Distinct(ups) BY <1>1, <1>2, ValueTypes, ShortUpdates
<1>4. ShadowTypes'
  BY <1>1, ValueTypes DEF removeClientLocked, ShadowTypes, configVars
<1>5. EvTypes'
  <2>1. ev' = [EvIdle EXCEPT !.pc = "dispatch", !.ups = ups] BY <1>2 DEF removeClientLocked
  <2> QED BY <1>3, <2>1, IdleTypes, EvDispatches DEF EvTypes
<1>6. odd' \in Odds
  <2>1. PICK o : o = Marked(Produced(odd, ups), {}, {f} \cap fileAuths) OBVIOUS
  <2>2. Produced(odd, ups) \in Odds BY <1>3, OddTypes
  <2>3. o \in Odds BY <2>1, <2>2, OddTypes
  <2>4. odd' = [o EXCEPT !.missed = @ \ {f}] BY <1>2, <2>1 DEF removeClientLocked
  <2> QED BY <2>3, <2>4, OddTypes
<1> QED BY <1>4, <1>5, <1>6

\* The update the event goroutine computes.
LEMMA PerPathTypes ==
  ASSUME WatchTypes, computePerPathUpdatesLocked
  PROVE  WatchTypes'
<1> USE DEF WatchTypes
<1>1. PICK f \in Files : f = ev.file BY DEF computePerPathUpdatesLocked, EvTypes, EvDiscipline
<1>2. PICK new \in Values : new = SynthesizeAuthFile(ev.cfg, ev.data)
  BY ValueTypes DEF computePerPathUpdatesLocked, EvTypes, EvDiscipline
<1>0. PICK same : same = IF new = Gone THEN ~ev.known ELSE current[f] = new OBVIOUS
<1>3. PICK ups : ups = IF same THEN <<>> ELSE <<Update(f, new)>> OBVIOUS
<1>4. f \in Ids BY DEF Ids
<1>5. ups \in Seq(Updates) /\ Distinct(ups) BY <1>3, <1>4, ValueTypes, ShortUpdates
<1>6. ShadowTypes'
  <2>1. current' = IF same THEN current ELSE [current EXCEPT ![f] = new]
    BY <1>0, <1>1, <1>2 DEF computePerPathUpdatesLocked
  <2>2. fileAuths' \subseteq fileAuths \union {f} BY <1>1 DEF computePerPathUpdatesLocked
  <2> QED BY <1>4, <2>1, <2>2 DEF computePerPathUpdatesLocked, ShadowTypes, configVars
<1>7. EvTypes'
  <2>1. ev' = [ev EXCEPT !.pc = "dispatch", !.ups = ups]
    BY <1>0, <1>1, <1>2, <1>3 DEF computePerPathUpdatesLocked
  <2> QED BY <1>5, <2>1, EvDispatches DEF EvTypes
<1>8. odd' \in Odds
  <2>1. PICK s : s = IF current'[f] = SynthesizeAuthFile(config, ev.data) THEN {} ELSE {f} OBVIOUS
  <2>2. odd' = Marked(Produced(odd, ups), s, {f})
    BY <1>0, <1>1, <1>2, <1>3, <2>1 DEF computePerPathUpdatesLocked
  <2>3. Produced(odd, ups) \in Odds BY <1>5, OddTypes
  <2>4. s \subseteq Files \union Keys BY <2>1
  <2> QED BY <2>2, <2>3, <2>4, OddTypes
<1> QED BY <1>6, <1>7, <1>8 DEF computePerPathUpdatesLocked, diskVars, queueVars,
      DiskTypes, RlTypes, CallTypes, QueueTypes

\* The event goroutine.
LEMMA EventTypes ==
  ASSUME WatchTypes, EventStep
  PROVE  WatchTypes'
<1> USE DEF WatchTypes
<1>1. CASE handleConfigEvent
  <2>1. DiskTypes' BY <1>1, HeadTypes DEF handleConfigEvent, DiskTypes
  <2> QED BY <1>1, <2>1 DEF handleConfigEvent, shadowVars, actorVars, queueVars,
        ShadowTypes, EvTypes, RlTypes, CallTypes, QueueTypes
<1>2. CASE handleWriteEvent
  <2>1. DiskTypes' BY <1>2, HeadTypes DEF handleWriteEvent, DiskTypes
  <2>2. Head(events).file \in Files BY <1>2, HeadTypes DEF handleWriteEvent
  <2>3. ShadowTypes' /\ EvTypes' /\ odd' \in Odds
    BY <1>2, <2>2, AddTypes DEF handleWriteEvent
  <2> QED BY <1>2, <2>1, <2>3 DEF handleWriteEvent, queueVars, RlTypes, CallTypes, QueueTypes
<1>3. ASSUME NEW early \in BOOLEAN, handleRemoveEvent(early) PROVE WatchTypes'
  <2>1. DiskTypes' BY <1>3, HeadTypes DEF handleRemoveEvent, DiskTypes
  <2>2. PICK f \in Files : f = Head(events).file BY <1>3, HeadTypes DEF handleRemoveEvent
  <2>3. ShadowTypes' BY <1>3, <2>2 DEF handleRemoveEvent, ShadowTypes, configVars
  <2>4. odd' \in Odds BY <1>3, <2>2, OddTypes DEF handleRemoveEvent
  <2>5. EvTypes'
    <3>1. CASE early BY <1>3, <3>1 DEF handleRemoveEvent, EvTypes
    <3>2. CASE ~early
      <4>1. PICK e : e = [EvIdle EXCEPT !.pc = "sleep", !.file = f] OBVIOUS
      <4>2. ev' = e BY <1>3, <2>2, <3>2, <4>1 DEF handleRemoveEvent
      <4>3. e \in EvRecords
        <5>1. "sleep" \in {"idle", "sleep", "commit", "dispatch"} OBVIOUS
        <5>2. f \in Files \union {"none"} OBVIOUS
        <5> QED BY <4>1, <5>1, <5>2, IdleTypes, Zenon DEF EvRecords
      <4>4. e.pc = "sleep" /\ e.file = f /\ e.ups = <<>> BY <4>1 DEF EvIdle
      <4> QED BY <4>2, <4>3, <4>4, ShortUpdates DEF EvTypes, EvDiscipline
    <3> QED BY <3>1, <3>2
  <2> QED BY <1>3, <2>1, <2>3, <2>4, <2>5 DEF handleRemoveEvent, queueVars, RlTypes, CallTypes, QueueTypes
<1>4. CASE handleReplace
  <2>1. PICK f \in Files : f = ev.file BY <1>4 DEF handleReplace, EvTypes, EvDiscipline
  <2>2. ShadowTypes' /\ EvTypes' /\ odd' \in Odds
    <3>1. CASE files[f] # "absent"
      <4>1. addOrUpdateClientLocked(f) BY <1>4, <2>1, <3>1 DEF handleReplace
      <4> QED BY <1>4, <4>1, AddTypes DEF handleReplace
    <3>2. CASE files[f] = "absent" /\ hashes[f] # "none"
      <4>1. removeClientLocked(f) BY <1>4, <2>1, <3>2 DEF handleReplace
      <4> QED BY <1>4, <4>1, RemoveTypes DEF handleReplace
    <3>3. CASE files[f] = "absent" /\ hashes[f] = "none"
      <4>1. ev' = EvIdle /\ UNCHANGED <<hashes, fileAuths, current, odd>>
        BY <1>4, <2>1, <3>3 DEF handleReplace
      <4> QED BY <1>4, <4>1, IdleTypes DEF handleReplace, configVars, ShadowTypes, EvTypes
    <3> QED BY <3>1, <3>2, <3>3
  <2> QED BY <1>4, <2>2 DEF handleReplace, diskVars, queueVars, DiskTypes, RlTypes, CallTypes, QueueTypes
<1>5. CASE computePerPathUpdatesLocked BY <1>5, PerPathTypes
<1>6. CASE dispatchEvent
  <2>1. EvTypes' BY <1>6, IdleTypes DEF dispatchEvent, EvTypes
  <2>2. ev.ups \in Seq(Updates) /\ Distinct(ev.ups) BY DEF EvTypes, EvRecords, EvDiscipline
  <2>3. QueueTypes' BY <1>6, <2>2, DispatchTypes DEF dispatchEvent
  <2> QED BY <1>6, <2>1, <2>3 DEF dispatchEvent, diskVars, configVars, shadowVars,
        DiskTypes, ShadowTypes, RlTypes, CallTypes
<1> HIDE DEF WatchTypes
<1> QED BY <1>1, <1>2, <1>3, <1>4, <1>5, <1>6 DEF EventStep

\* The updates of a set of credentials.
UpdatesOf(changed, new) ==
  LET order == SetToSeq(changed)
  IN  [n \in DOMAIN order |-> Update(order[n], new[order[n]])]

\* There is one of each, with the new value.
LEMMA UpdatesOfSet ==
  ASSUME NEW new \in [Ids -> Values], NEW changed, changed \subseteq Ids
  PROVE  /\ UpdatesOf(changed, new) \in Seq(Updates) /\ Distinct(UpdatesOf(changed, new))
         /\ \A i : Mentions(UpdatesOf(changed, new), i) <=> i \in changed
         /\ \A n \in DOMAIN UpdatesOf(changed, new) :
              UpdatesOf(changed, new)[n].val = new[UpdatesOf(changed, new)[n].id]
<1>1. IsFiniteSet(changed)
  <2>1. IsFiniteSet(Files \union Keys) BY WatcherAssumption, FS_Union
  <2>2. IsFiniteSet(Ids) BY <2>1, WatcherAssumption, FS_Union DEF Ids
  <2> QED BY <2>2, FS_Subset
<1>2. PICK order : order = SetToSeq(changed) OBVIOUS
<1>3. /\ order \in Seq(changed)
      /\ \A m, n \in DOMAIN order : order[m] = order[n] => m = n
      /\ \A x \in changed : \E n \in DOMAIN order : order[n] = x
  BY <1>1, <1>2, SetToSeqLists
<1>4. PICK k \in Nat : DOMAIN order = 1 .. k /\ order \in [1 .. k -> changed] BY <1>3, LenProperties
<1>5. PICK ups : ups = UpdatesOf(changed, new) OBVIOUS
<1>6. ups = [n \in 1 .. k |-> Update(order[n], new[order[n]])] BY <1>2, <1>4, <1>5 DEF UpdatesOf
<1>7. ASSUME NEW n \in 1 .. k
      PROVE  /\ ups[n] \in Updates /\ ups[n].id = order[n] /\ ups[n].val = new[order[n]]
             /\ order[n] \in changed
  <2>1. order[n] \in changed /\ order[n] \in Ids /\ new[order[n]] \in Values BY <1>4
  <2>2. ups[n] = Update(order[n], new[order[n]]) BY <1>6
  <2> QED BY <2>1, <2>2, ValueTypes
<1>8. DOMAIN ups = 1 .. k BY <1>6
<1>9. ups \in Seq(Updates)
  <2>1. ups \in [1 .. k -> Updates] BY <1>6, <1>7
  <2> QED BY <2>1, SeqDef
<1>10. Distinct(ups) BY <1>3, <1>4, <1>7, <1>8 DEF Distinct
<1>11. \A i : Mentions(ups, i) <=> i \in changed BY <1>3, <1>4, <1>7, <1>8 DEF Mentions
<1> QED BY <1>5, <1>7, <1>8, <1>9, <1>10, <1>11

\* What a refresh makes of the files, the configuration and the runtime
\* credentials are credentials.
LEMMA NewStateTypes ==
  ASSUME NEW r, rl[r].cfg \in Configs, runtime \subseteq Channels
  PROVE  newState(r) \in [Ids -> Values]
<1>1. \A i \in Ids : newState(r)[i] \in Values
  <2> SUFFICES ASSUME NEW i \in Ids PROVE newState(r)[i] \in Values OBVIOUS
  <2>1. CASE i \in Files
    <3>1. newState(r)[i] = SynthesizeAuthFile(rl[r].cfg, rl[r].scan[i])
      <4>1. i \notin rl[r].cfg.keys /\ i \notin runtime BY <2>1, WatcherAssumption
      <4> QED BY <2>1, <4>1 DEF newState
    <3> QED BY <3>1, ValueTypes
  <2>2. CASE i \notin Files /\ (i \in rl[r].cfg.keys \/ i \in runtime)
    BY <2>2, ValueTypes DEF newState
  <2>3. CASE i \notin Files /\ ~(i \in rl[r].cfg.keys \/ i \in runtime)
    BY <2>3, ValueTypes DEF newState
  <2> QED BY <2>1, <2>2, <2>3
<1>2. newState(r) = [i \in Ids |-> newState(r)[i]] BY DEF newState
<1> QED BY <1>1, <1>2

\* A reload takes a step.
LEMMA OneReload ==
  ASSUME WatchTypes, NEW r \in Reloaders, NEW e \in RlRecords, RlDiscipline(e),
         rl' = [rl EXCEPT ![r] = e]
  PROVE  RlTypes' /\ rl'[r] = e /\ \A s \in Reloaders : s # r => rl'[s] = rl[s]
BY DEF WatchTypes, RlTypes

RlPcs == {"idle", "load", "set", "filter", "rescan", "scan", "prepare", "dispatch", "hash"}

\* The records it steps to.
LEMMA RlRecordSteps ==
  ASSUME NEW e \in RlRecords, RlDiscipline(e)
  PROVE  /\ \A pc \in {"idle", "load", "filter", "rescan", "scan"} : e.pc # "dispatch" =>
              [e EXCEPT !.pc = pc] \in RlRecords /\ RlDiscipline([e EXCEPT !.pc = pc])
         /\ \A c \in Configs : e.pc # "dispatch" /\ c.loads =>
              /\ [e EXCEPT !.pc = "set", !.cfg = c] \in RlRecords
              /\ RlDiscipline([e EXCEPT !.pc = "set", !.cfg = c])
         /\ \A a \in BOOLEAN, f \in BOOLEAN : e.pc # "dispatch" =>
              /\ [e EXCEPT !.pc = "filter", !.affected = a, !.force = f] \in RlRecords
              /\ RlDiscipline([e EXCEPT !.pc = "filter", !.affected = a, !.force = f])
         /\ \A c \in Configs, d \in [Files -> Contents] : e.pc # "dispatch" /\ c.loads =>
              /\ [e EXCEPT !.pc = "prepare", !.cfg = c, !.scan = d] \in RlRecords
              /\ RlDiscipline([e EXCEPT !.pc = "prepare", !.cfg = c, !.scan = d])
         /\ \A ups \in Seq(Updates) : Distinct(ups) =>
              /\ [e EXCEPT !.pc = "dispatch", !.ups = ups] \in RlRecords
              /\ RlDiscipline([e EXCEPT !.pc = "dispatch", !.ups = ups])
         /\ [RlIdle EXCEPT !.pc = "hash"] \in RlRecords /\ RlDiscipline([RlIdle EXCEPT !.pc = "hash"])
<1>0. \A pc \in {"idle", "load", "set", "filter", "rescan", "scan", "prepare", "dispatch", "hash"} : pc \in RlPcs
  BY DEF RlPcs
<1>1. ASSUME NEW pc \in {"idle", "load", "filter", "rescan", "scan"}, e.pc # "dispatch"
      PROVE  [e EXCEPT !.pc = pc] \in RlRecords /\ RlDiscipline([e EXCEPT !.pc = pc])
  <2>1. PICK d : d = [e EXCEPT !.pc = pc] OBVIOUS
  <2>2. pc \in RlPcs BY <1>0
  <2>3. d \in RlRecords BY <2>1, <2>2, Zenon DEF RlRecords, RlPcs
  <2>4. d.pc = pc /\ d.ups = e.ups BY <2>1 DEF RlRecords
  <2> QED BY <1>1, <2>1, <2>3, <2>4 DEF RlDiscipline
<1>2. ASSUME NEW c \in Configs, e.pc # "dispatch", c.loads
      PROVE  /\ [e EXCEPT !.pc = "set", !.cfg = c] \in RlRecords
             /\ RlDiscipline([e EXCEPT !.pc = "set", !.cfg = c])
  <2>1. PICK d : d = [e EXCEPT !.pc = "set", !.cfg = c] OBVIOUS
  <2>2. "set" \in RlPcs /\ c \in Configs \union {{}} BY <1>0
  <2>3. d \in RlRecords BY <2>1, <2>2, Zenon DEF RlRecords, RlPcs
  <2>4. d.pc = "set" /\ d.cfg = c /\ d.ups = e.ups BY <2>1 DEF RlRecords
  <2> QED BY <1>2, <2>1, <2>3, <2>4 DEF RlDiscipline
<1>3. ASSUME NEW a \in BOOLEAN, NEW f \in BOOLEAN, e.pc # "dispatch"
      PROVE  /\ [e EXCEPT !.pc = "filter", !.affected = a, !.force = f] \in RlRecords
             /\ RlDiscipline([e EXCEPT !.pc = "filter", !.affected = a, !.force = f])
  <2>1. PICK d : d = [e EXCEPT !.pc = "filter", !.affected = a, !.force = f] OBVIOUS
  <2>2. "filter" \in RlPcs BY <1>0
  <2>3. d \in RlRecords BY <2>1, <2>2, Zenon DEF RlRecords, RlPcs
  <2>4. d.pc = "filter" /\ d.ups = e.ups BY <2>1 DEF RlRecords
  <2> QED BY <1>3, <2>1, <2>3, <2>4 DEF RlDiscipline
<1>4. ASSUME NEW c \in Configs, NEW f \in [Files -> Contents], e.pc # "dispatch", c.loads
      PROVE  /\ [e EXCEPT !.pc = "prepare", !.cfg = c, !.scan = f] \in RlRecords
             /\ RlDiscipline([e EXCEPT !.pc = "prepare", !.cfg = c, !.scan = f])
  <2>1. PICK d : d = [e EXCEPT !.pc = "prepare", !.cfg = c, !.scan = f] OBVIOUS
  <2>2. "prepare" \in RlPcs /\ c \in Configs \union {{}} /\ f \in {<<>>} \union [Files -> Contents]
    BY <1>0
  <2>3. d \in RlRecords BY <2>1, <2>2, Zenon DEF RlRecords, RlPcs
  <2>4. d.pc = "prepare" /\ d.cfg = c /\ d.ups = e.ups BY <2>1 DEF RlRecords
  <2> QED BY <1>4, <2>1, <2>3, <2>4 DEF RlDiscipline
<1>5. ASSUME NEW ups \in Seq(Updates), Distinct(ups)
      PROVE  /\ [e EXCEPT !.pc = "dispatch", !.ups = ups] \in RlRecords
             /\ RlDiscipline([e EXCEPT !.pc = "dispatch", !.ups = ups])
  <2>1. PICK d : d = [e EXCEPT !.pc = "dispatch", !.ups = ups] OBVIOUS
  <2>2. "dispatch" \in RlPcs BY <1>0
  <2>3. d \in RlRecords BY <2>1, <2>2, Zenon DEF RlRecords, RlPcs
  <2>4. d.pc = "dispatch" /\ d.ups = ups BY <2>1 DEF RlRecords
  <2> QED BY <1>5, <2>1, <2>3, <2>4 DEF RlDiscipline
<1>6. [RlIdle EXCEPT !.pc = "hash"] \in RlRecords /\ RlDiscipline([RlIdle EXCEPT !.pc = "hash"])
  <2>1. PICK d : d = [RlIdle EXCEPT !.pc = "hash"] OBVIOUS
  <2>2. "hash" \in RlPcs BY <1>0
  <2>3. d \in RlRecords BY <2>1, <2>2, IdleTypes, Zenon DEF RlRecords, RlPcs
  <2>4. d.pc = "hash" /\ d.ups = <<>> BY <2>1 DEF RlIdle
  <2> QED BY <2>1, <2>3, <2>4, ShortUpdates DEF RlDiscipline
<1> QED BY <1>1, <1>2, <1>3, <1>4, <1>5, <1>6

\* Each action of a reload changes its own record.
LEMMA ReloadRecords ==
  ASSUME rl \in [Reloaders -> RlRecords], NEW r \in Reloaders
  PROVE  /\ \A a, b : [rl EXCEPT ![r].pc = a, ![r].cfg = b] =
                        [rl EXCEPT ![r] = [rl[r] EXCEPT !.pc = a, !.cfg = b]]
         /\ \A a, b : [rl EXCEPT ![r].pc = a, ![r].ups = b] =
                        [rl EXCEPT ![r] = [rl[r] EXCEPT !.pc = a, !.ups = b]]
         /\ \A a, b, c : [rl EXCEPT ![r].pc = a, ![r].cfg = b, ![r].scan = c] =
                        [rl EXCEPT ![r] = [rl[r] EXCEPT !.pc = a, !.cfg = b, !.scan = c]]
         /\ \A a, b, c : [rl EXCEPT ![r].pc = a, ![r].affected = b, ![r].force = c] =
                        [rl EXCEPT ![r] = [rl[r] EXCEPT !.pc = a, !.affected = b, !.force = c]]
         /\ \A a : [rl EXCEPT ![r].pc = a] = [rl EXCEPT ![r] = [rl[r] EXCEPT !.pc = a]]
OBVIOUS

\* reloadConfigIfChanged.
LEMMA LoadTypes ==
  ASSUME WatchTypes, NEW r \in Reloaders, reloadConfigIfChanged(r)
  PROVE  /\ RlTypes'
         /\ \A s \in Reloaders : rl'[s].ups = rl[s].ups
<1>0. rl \in [Reloaders -> RlRecords] /\ rl[r] \in RlRecords /\ RlDiscipline(rl[r])
  BY DEF WatchTypes, RlTypes
<1>1. CASE configUnchanged BY <1>1 DEF reloadConfigIfChanged, WatchTypes, RlTypes
<1>2. CASE ~configUnchanged
  <2>1. PICK e : e = [rl[r] EXCEPT !.pc = "load"] OBVIOUS
  <2>2. rl' = [rl EXCEPT ![r] = e] BY <1>0, <1>2, <2>1, ReloadRecords DEF reloadConfigIfChanged
  <2>3. e \in RlRecords /\ RlDiscipline(e)
    BY <1>0, <2>1, RlRecordSteps DEF reloadConfigIfChanged
  <2>4. e.ups = rl[r].ups BY <1>0, <2>1 DEF RlRecords
  <2>5. RlTypes' /\ rl'[r] = e /\ \A s \in Reloaders : s # r => rl'[s] = rl[s]
    BY <2>2, <2>3, OneReload
  <2> QED BY <2>4, <2>5
<1> QED BY <1>1, <1>2

\* The steps of a reload that compute or dispatch no update.
QuietReload(r) ==
  \/ loadConfig(r) \/ reloadConfig(r) \/ reloadClients(r) \/ rescanAuth(r) \/ snapshotCoreAuths(r)
  \/ recordConfigHash(r)

\* A step of a reload that dispatches nothing keeps the types.
LEMMA QuietReloadTypes ==
  ASSUME WatchTypes, NEW r \in Reloaders, QuietReload(r)
  PROVE  /\ WatchTypes'
         /\ \A s \in Reloaders : rl'[s].ups = rl[s].ups
<1> USE DEF WatchTypes
<1>0. rl \in [Reloaders -> RlRecords] /\ rl[r] \in RlRecords /\ RlDiscipline(rl[r]) BY DEF RlTypes
<1>1. CASE reloadConfig(r)
  <2>1. PICK a \in BOOLEAN : a = (config.excluded # rl[r].cfg.excluded) OBVIOUS
  <2>2. PICK b \in BOOLEAN : b = (config.retry # rl[r].cfg.retry) OBVIOUS
  <2>3. PICK e : e = [rl[r] EXCEPT !.pc = "filter", !.affected = a, !.force = b] OBVIOUS
  <2>4. rl' = [rl EXCEPT ![r] = e]
    <3>1. rl' = [rl EXCEPT ![r].pc = "filter", ![r].affected = a, ![r].force = b]
      BY <1>1, <2>1, <2>2, Zenon DEF reloadConfig
    <3> QED BY <1>0, <2>3, <3>1, ReloadRecords
  <2>5. e \in RlRecords /\ RlDiscipline(e) BY <1>0, <1>1, <2>3, RlRecordSteps DEF reloadConfig
  <2>6. e.ups = rl[r].ups BY <1>0, <2>3 DEF RlRecords
  <2>7. RlTypes' /\ rl'[r] = e /\ \A s \in Reloaders : s # r => rl'[s] = rl[s]
    BY <2>4, <2>5, OneReload
  <2>8. ShadowTypes' BY <1>0, <1>1 DEF reloadConfig, ShadowTypes, shadowVars, RlDiscipline
  <2> QED BY <1>1, <2>6, <2>7, <2>8 DEF reloadConfig, diskVars, queueVars,
        DiskTypes, EvTypes, CallTypes, QueueTypes
<1>2. CASE reloadClients(r)
  <2>1. PICK pc \in {"rescan", "scan"} : pc = IF rl[r].start THEN "rescan" ELSE "scan" OBVIOUS
  <2>2. PICK e : e = [rl[r] EXCEPT !.pc = pc] OBVIOUS
  <2>3. rl' = [rl EXCEPT ![r] = e] BY <1>0, <1>2, <2>1, <2>2, ReloadRecords DEF reloadClients, reload
  <2>4. e \in RlRecords /\ RlDiscipline(e) BY <1>0, <1>2, <2>2, RlRecordSteps DEF reloadClients
  <2>5. e.ups = rl[r].ups BY <1>0, <2>2 DEF RlRecords
  <2>6. RlTypes' /\ rl'[r] = e /\ \A s \in Reloaders : s # r => rl'[s] = rl[s]
    BY <2>3, <2>4, OneReload
  <2>7. PICK dropped : dropped = IF rl[r].affected
                                 THEN {i \in Files \union Keys : current[i] # Gone} ELSE {}
    OBVIOUS
  <2>8. ShadowTypes'
    <3>1. current' = [i \in Ids |-> IF i \in dropped THEN Gone ELSE current[i]]
      BY <1>2, <2>7 DEF reloadClients
    <3>2. current' \in [Ids -> Values] BY <3>1, ValueTypes DEF ShadowTypes
    <3> QED BY <1>2, <3>2 DEF reloadClients, ShadowTypes, configVars
  <2>9. odd' \in Odds
    <3>1. dropped \subseteq Ids BY <2>7 DEF Ids
    <3>2. odd' = [odd EXCEPT !.untold = @ \union dropped] BY <1>2, <2>7 DEF reloadClients
    <3> QED BY <3>1, <3>2, OddTypes
  <2> QED BY <1>2, <2>5, <2>6, <2>8, <2>9 DEF reloadClients, diskVars, queueVars,
        DiskTypes, EvTypes, CallTypes, QueueTypes
<1>3. CASE rescanAuth(r)
  <2>2. PICK e : e = [rl[r] EXCEPT !.pc = "scan"] OBVIOUS
  <2>3. rl' = [rl EXCEPT ![r] = e] BY <1>0, <1>3, <2>2, ReloadRecords DEF rescanAuth, reload
  <2>4. e \in RlRecords /\ RlDiscipline(e) BY <1>0, <1>3, <2>2, RlRecordSteps DEF rescanAuth
  <2>5. e.ups = rl[r].ups BY <1>0, <2>2 DEF RlRecords
  <2>6. RlTypes' /\ rl'[r] = e /\ \A s \in Reloaders : s # r => rl'[s] = rl[s]
    BY <2>3, <2>4, OneReload
  <2>7. ShadowTypes'
    <3>1. \A f \in Files : HashOf(files[f]) \in Versions \union {"none", "broken", "foreign"}
      BY DEF HashOf, DiskTypes, Contents
    <3> QED BY <1>3, <3>1 DEF rescanAuth, ShadowTypes, configVars
  <2> QED BY <1>3, <2>5, <2>6, <2>7 DEF rescanAuth, diskVars, queueVars,
        DiskTypes, EvTypes, CallTypes, QueueTypes
<1>4. CASE snapshotCoreAuths(r)
  <2>2. PICK e : e = [rl[r] EXCEPT !.pc = "prepare", !.cfg = config, !.scan = files] OBVIOUS
  <2>3. rl' = [rl EXCEPT ![r] = e] BY <1>0, <1>4, <2>2, ReloadRecords DEF snapshotCoreAuths
  <2>4. e \in RlRecords /\ RlDiscipline(e)
    BY <1>0, <1>4, <2>2, RlRecordSteps DEF snapshotCoreAuths, DiskTypes, ShadowTypes
  <2>5. e.ups = rl[r].ups BY <1>0, <2>2 DEF RlRecords
  <2>6. RlTypes' /\ rl'[r] = e /\ \A s \in Reloaders : s # r => rl'[s] = rl[s]
    BY <2>3, <2>4, OneReload
  <2> QED BY <1>4, <2>5, <2>6 DEF snapshotCoreAuths, diskVars, configVars, shadowVars, queueVars,
        DiskTypes, ShadowTypes, EvTypes, CallTypes, QueueTypes
<1>5. CASE recordConfigHash(r)
  <2>1. rl' = [rl EXCEPT ![r] = RlIdle] BY <1>5 DEF recordConfigHash
  <2>2. RlTypes' /\ rl'[r] = RlIdle /\ \A s \in Reloaders : s # r => rl'[s] = rl[s]
    BY <2>1, IdleTypes, OneReload
  <2>3. RlIdle.ups = rl[r].ups BY <1>0, <1>5 DEF recordConfigHash, RlIdle, RlDiscipline
  <2>4. ShadowTypes' BY <1>5 DEF recordConfigHash, ShadowTypes, DiskTypes, shadowVars
  <2>5. odd' \in Odds BY <1>5, OddTypes DEF recordConfigHash
  <2> QED BY <1>5, <2>2, <2>3, <2>4, <2>5 DEF recordConfigHash, diskVars, queueVars,
        DiskTypes, EvTypes, CallTypes, QueueTypes
<1>6. CASE loadConfig(r)
  <2>1. PICK e : e = IF configFile.loads THEN [rl[r] EXCEPT !.pc = "set", !.cfg = configFile]
                     ELSE [rl[r] EXCEPT !.pc = "idle"]
    OBVIOUS
  <2>2. rl' = [rl EXCEPT ![r] = e] BY <1>0, <1>6, <2>1, ReloadRecords DEF loadConfig
  <2>3. e \in RlRecords /\ RlDiscipline(e)
    BY <1>0, <1>6, <2>1, RlRecordSteps DEF loadConfig, DiskTypes
  <2>4. e.ups = rl[r].ups BY <1>0, <2>1 DEF RlRecords
  <2>5. RlTypes' /\ rl'[r] = e /\ \A s \in Reloaders : s # r => rl'[s] = rl[s]
    BY <2>2, <2>3, OneReload
  <2> QED BY <1>6, <2>4, <2>5 DEF loadConfig, diskVars, configVars, shadowVars, queueVars,
        DiskTypes, ShadowTypes, EvTypes, CallTypes, QueueTypes
<1> HIDE DEF WatchTypes
<1> QED BY <1>1, <1>2, <1>3, <1>4, <1>5, <1>6 DEF QuietReload

\* The refresh computes its updates.
LEMMA PrepareTypes ==
  ASSUME WatchTypes, NEW r \in Reloaders, prepareAuthUpdatesLocked(r)
  PROVE  /\ WatchTypes'
         /\ \E changed, ups :
              /\ changed \subseteq Ids /\ ups \in Seq(Updates) /\ Distinct(ups)
              /\ \A i \in Ids \ changed : current'[i] = current[i]
              /\ \A i : Mentions(ups, i) <=> i \in changed
              /\ \A n \in DOMAIN ups : ups[n].val = current'[ups[n].id]
              /\ rl'[r].ups = ups /\ rl[r].ups = <<>> /\ \A s \in Reloaders : s # r => rl'[s] = rl[s]
              /\ odd'.untold = odd.untold \ changed
              /\ odd'.crossed = (odd.crossed \ changed) \union {i \in changed : InFlight(i)}
<1> USE DEF WatchTypes
<1>0. /\ rl \in [Reloaders -> RlRecords] /\ rl[r] \in RlRecords /\ RlDiscipline(rl[r])
      /\ rl[r].cfg \in Configs /\ rl[r].ups = <<>>
  BY DEF RlTypes, RlDiscipline, prepareAuthUpdatesLocked
<1>1. PICK new \in [Ids -> Values] : new = newState(r) BY <1>0, NewStateTypes DEF ShadowTypes
<1>2. PICK changed : changed = {i \in Ids : new[i] # current[i] \/ (rl[r].force /\ new[i] # Gone)}
  OBVIOUS
<1>3. PICK ups : ups = UpdatesOf(changed, new) OBVIOUS
<1>4. PICK fits : fits = {i \in Files \union Keys :
                           /\ rl[r].cfg = config
                           /\ i \in Files => hashes[i] = HashOf(rl[r].scan[i])}
  OBVIOUS
<1>5. /\ current' = new
      /\ rl' = [rl EXCEPT ![r].pc = "dispatch", ![r].ups = ups]
      /\ odd' = Marked(Produced(odd, ups), (Files \union Keys) \ fits, fits)
  BY <1>1, <1>2, <1>3, <1>4, Zenon DEF prepareAuthUpdatesLocked, UpdatesOf
<1>6. changed \subseteq Ids /\ \A i \in Ids \ changed : current'[i] = current[i] BY <1>2, <1>5
<1>7. /\ ups \in Seq(Updates) /\ Distinct(ups)
      /\ \A i : Mentions(ups, i) <=> i \in changed
      /\ \A n \in DOMAIN ups : ups[n].val = new[ups[n].id]
  BY <1>3, <1>6, UpdatesOfSet
<1>8. PICK e : e = [rl[r] EXCEPT !.pc = "dispatch", !.ups = ups] OBVIOUS
<1>9. rl' = [rl EXCEPT ![r] = e] BY <1>0, <1>5, <1>8, ReloadRecords
<1>10. e \in RlRecords /\ RlDiscipline(e) BY <1>0, <1>7, <1>8, RlRecordSteps
<1>11. e.ups = ups BY <1>0, <1>8 DEF RlRecords
<1>12. RlTypes' /\ rl'[r] = e /\ \A s \in Reloaders : s # r => rl'[s] = rl[s]
  BY <1>9, <1>10, OneReload
<1>13. PICK o : o = Produced(odd, ups) OBVIOUS
<1>14. o \in Odds BY <1>7, <1>13, OddTypes
<1>15. odd' \in Odds BY <1>5, <1>13, <1>14, OddTypes
<1>16. /\ odd'.untold = odd.untold \ Mentioned(ups)
       /\ odd'.crossed = (odd.crossed \ Mentioned(ups)) \union {i \in Mentioned(ups) : InFlight(i)}
  <2>1. /\ o.untold = odd.untold \ Mentioned(ups)
        /\ o.crossed = (odd.crossed \ Mentioned(ups)) \union {i \in Mentioned(ups) : InFlight(i)}
    BY <1>13 DEF Produced, Odds
  <2>2. odd'.untold = o.untold /\ odd'.crossed = o.crossed BY <1>5, <1>13, <1>14 DEF Marked, Odds
  <2> QED BY <2>1, <2>2
<1>17. Mentioned(ups) = changed BY <1>7 DEF Mentioned, Mentions
<1>18. ShadowTypes' BY <1>5 DEF prepareAuthUpdatesLocked, ShadowTypes, configVars
<1>19. WatchTypes' BY <1>12, <1>15, <1>18 DEF prepareAuthUpdatesLocked, diskVars, queueVars,
        DiskTypes, EvTypes, CallTypes, QueueTypes
<1> HIDE DEF WatchTypes
<1>20. \A n \in DOMAIN ups : ups[n].val = current'[ups[n].id] BY <1>5, <1>7
<1> QED BY <1>0, <1>6, <1>7, <1>11, <1>12, <1>16, <1>17, <1>19, <1>20

-----------------------------------------------------------------------------
(***************************************************************************)
(* The inductive invariant.  A credential that has not gone astray has at  *)
(* most one update between the two locks, and it carries the value of the  *)
(* snapshot; without one, the newest update on its way to the manager, or  *)
(* else the manager, has that value.                                       *)
(***************************************************************************)
Agrees(ups, i) == \A n \in DOMAIN ups : ups[n].id = i => ups[n].val = current[i]

CallHolds(c, i) == c \in calls /\ c.pc = "dispatch" /\ c.id = i

EvAlone(i) ==
  Mentions(ev.ups, i) =>
    /\ Agrees(ev.ups, i)
    /\ \A r \in Reloaders : ~Mentions(rl[r].ups, i)
    /\ \A c : ~CallHolds(c, i)

ReloadAlone(i) ==
  \A r \in Reloaders : Mentions(rl[r].ups, i) =>
    /\ Agrees(rl[r].ups, i)
    /\ \A s \in Reloaders : Mentions(rl[s].ups, i) => s = r
    /\ \A c : ~CallHolds(c, i)

CallAlone(i) ==
  \A c : CallHolds(c, i) => c.val = current[i] /\ \A d : CallHolds(d, i) => d = c

Straight(i) ==
  /\ EvAlone(i) /\ ReloadAlone(i) /\ CallAlone(i)
  /\ ~InFlight(i) => Latest(i) = current[i]

Flows == \A i \in Ids \ (odd.crossed \union odd.untold) : Straight(i)

WatchInv == WatchTypes /\ Flows

\* A step that does not concern the credential i.
Spares(i) ==
  /\ Mentions(ev.ups, i) \/ Mentions(ev'.ups, i) => ev'.ups = ev.ups
  /\ \A r \in Reloaders : Mentions(rl[r].ups, i) \/ Mentions(rl'[r].ups, i) => rl'[r].ups = rl[r].ups
  /\ \A c : c.pc = "dispatch" /\ c.id = i => (c \in calls' <=> c \in calls)
  /\ current'[i] = current[i]
  /\ Latest(i)' = Latest(i)

\* A step that spares a credential leaves it straight.
LEMMA SparedStaysStraight ==
  ASSUME NEW i \in Ids, Spares(i), Straight(i)
  PROVE  Straight(i)'
<1>1. /\ Mentions(ev'.ups, i) <=> Mentions(ev.ups, i)
      /\ \A r \in Reloaders : Mentions(rl'[r].ups, i) <=> Mentions(rl[r].ups, i)
  BY DEF Spares
<1>2. \A c : CallHolds(c, i)' <=> CallHolds(c, i) BY DEF Spares, CallHolds
<1>3. EvAlone(i)' BY <1>1, <1>2 DEF EvAlone, Straight, Spares, Agrees
<1>4. ReloadAlone(i)' BY <1>1, <1>2 DEF ReloadAlone, Straight, Spares, Agrees
<1>5. CallAlone(i)' BY <1>2 DEF CallAlone, Straight, Spares
<1>6. InFlight(i)' <=> InFlight(i)
  <2>1. (\E c \in calls' : c.pc = "dispatch" /\ c.id = i) <=> \E c \in calls : c.pc = "dispatch" /\ c.id = i
    BY DEF Spares
  <2> QED BY <1>1, <2>1 DEF InFlight
<1>7. ~InFlight(i)' => Latest(i)' = current'[i] BY <1>6 DEF Straight, Spares
<1> QED BY <1>3, <1>4, <1>5, <1>7 DEF Straight

\* The newest update on its way is the same when the queues are.
LEMMA SameLatest ==
  ASSUME NEW i, UNCHANGED queueVars
  PROVE  Latest(i)' = Latest(i)
BY DEF queueVars, Latest

\* What is applied in the end comes from the last update in the channel or the
\* dispatcher's maps, before and after a step.
LEMMA LatestIsNewest ==
  ASSUME NEW i
  PROVE  /\ Latest(i) = Newest(queue \o pending, applied, i)
         /\ Latest(i)' = Newest(queue' \o pending', applied', i)
BY DEF Latest, Newest

\* Dispatching makes the update the newest one of its credential, and concerns
\* no other.
LEMMA DispatchLatest ==
  ASSUME WatchTypes, NEW ups \in Seq(Updates), Distinct(ups), dispatchAuthUpdates(ups),
         UNCHANGED <<queue, applied>>, NEW i
  PROVE  /\ \A n \in DOMAIN ups : ups[n].id = i => Latest(i)' = ups[n].val
         /\ ~Mentions(ups, i) => Latest(i)' = Latest(i)
<1>1. pending \in Seq(Updates) /\ Distinct(pending) /\ queue \in Seq(Updates)
  BY DEF WatchTypes, QueueTypes
<1>2. PICK p : p = enqueueAll(pending, ups) OBVIOUS
<1>3. /\ p \in Seq(Updates) /\ Distinct(p)
      /\ \A n \in DOMAIN ups : Has(p, ups[n].id, ups[n].val)
      /\ \A v : ~Mentions(ups, i) => (Has(p, i, v) <=> Has(pending, i, v))
  BY <1>1, <1>2, EnqueueAll
<1>4. Latest(i)' = Newest(queue \o p, applied, i)
  BY <1>2, LatestIsNewest DEF dispatchAuthUpdates
<1>5. ASSUME NEW n \in DOMAIN ups, ups[n].id = i PROVE Latest(i)' = ups[n].val
  <2>1. Has(p, i, ups[n].val) BY <1>3, <1>5
  <2> QED BY <1>1, <1>3, <1>4, <2>1, NewestPending
<1>6. ASSUME ~Mentions(ups, i) PROVE Latest(i)' = Latest(i)
  <2>1. \A v : Has(p, i, v) <=> Has(pending, i, v) BY <1>3, <1>6
  <2>2. CASE Mentions(pending, i)
    <3>1. PICK v : Has(pending, i, v) BY <2>2 DEF Mentions, Has
    <3>2. Has(p, i, v) BY <2>1, <3>1
    <3>3. Latest(i) = v BY <1>1, <3>1, NewestPending, LatestIsNewest
    <3>4. Latest(i)' = v BY <1>1, <1>3, <1>4, <3>2, NewestPending
    <3> QED BY <3>3, <3>4
  <2>3. CASE ~Mentions(pending, i)
    <3>1. ~Mentions(p, i) BY <2>1, <2>3 DEF Mentions, Has
    <3>2. Latest(i) = Newest(queue, applied, i) BY <1>1, <2>3, NewestPending, LatestIsNewest
    <3>3. Latest(i)' = Newest(queue, applied, i) BY <1>1, <1>3, <1>4, <3>1, NewestPending
    <3> QED BY <3>2, <3>3
  <2> QED BY <2>2, <2>3
<1> QED BY <1>5, <1>6

\* Taking a batch and draining the channel leave the newest update the newest.
LEMMA QueueSteps ==
  ASSUME WatchTypes, nextPendingBatch \/ ConsumerStep
  PROVE  QueueTypes' /\ \A i \in Ids : Latest(i)' = Latest(i)
<1>1. pending \in Seq(Updates) /\ Distinct(pending) /\ queue \in Seq(Updates) /\ applied \in [Ids -> Values]
  BY DEF WatchTypes, QueueTypes
<1>2. CASE nextPendingBatch
  <2>1. pending' = <<>> /\ queue' = queue \o pending /\ applied' = applied BY <1>2 DEF nextPendingBatch
  <2>2. queue \o pending \in Seq(Updates) BY <1>1, ConcatProperties
  <2>3. queue' \o pending' = queue \o pending BY <2>1, <2>2, ConcatEmptySeq
  <2>4. QueueTypes' BY <1>1, <2>1, <2>2, ShortUpdates DEF QueueTypes
  <2> QED BY <2>1, <2>3, <2>4, LatestIsNewest
<1>3. CASE ConsumerStep
  <2>1. PICK n \in DOMAIN queue : handleAuthUpdates(n) BY <1>3 DEF ConsumerStep
  <2>2. PICK k \in Nat : k = Len(queue) /\ DOMAIN queue = 1 .. k BY <1>1, LenProperties
  <2>3. PICK s : s = SubSeq(queue, 1, n) OBVIOUS
  <2>4. PICK t : t = SubSeq(queue, n + 1, Len(queue)) OBVIOUS
  <2>5. s \in Seq(Updates) /\ t \in Seq(Updates)
    <3>1. \A m \in 1 .. n : queue[m] \in Updates BY <1>1, <2>2, ElementOfSeq
    <3>2. \A m \in (n + 1) .. Len(queue) : queue[m] \in Updates BY <1>1, <2>2, ElementOfSeq
    <3>3. n \in Nat /\ n + 1 \in Nat /\ Len(queue) \in Nat BY <2>2
    <3> QED BY <1>1, <2>2, <2>3, <2>4, SubSeqProperties
  <2>6. queue = s \o t
    <3>1. SubSeq(queue, 1, n) \o SubSeq(queue, n + 1, Len(queue)) = SubSeq(queue, 1, Len(queue))
      <4>1. 1 \in 1 .. Len(queue) + 1 /\ n \in 1 - 1 .. Len(queue) /\ Len(queue) \in n .. Len(queue)
        BY <2>2
      <4> QED BY <1>1, <4>1, ConcatAdjacentSubSeq
    <3>2. SubSeq(queue, 1, Len(queue)) = queue BY <1>1, SubSeqFull
    <3> QED BY <2>3, <2>4, <3>1, <3>2
  <2>7. /\ applied' = [i \in Ids |-> IF Mentions(s, i) THEN coalesceAuthUpdates(s, i).val ELSE applied[i]]
        /\ queue' = t /\ pending' = pending
    BY <2>1, <2>3, <2>4 DEF handleAuthUpdates
  <2>8. ASSUME NEW i \in Ids PROVE Latest(i)' = Latest(i) /\ applied'[i] = Newest(s, applied, i)
    <3>1. applied'[i] = Newest(s, applied, i) BY <2>7 DEF Newest
    <3>2. Newest(t, applied', i) = Newest(s \o t, applied, i)
      BY <2>5, <3>1, NewestOfConcat DEF Newest
    <3>3. /\ Latest(i)' = IF Mentions(pending, i) THEN coalesceAuthUpdates(pending, i).val
                          ELSE Newest(t, applied', i)
      <4>1. PICK a : a = applied' OBVIOUS
      <4>2. Latest(i)' = Newest(t \o pending, a, i) BY <2>7, <4>1, LatestIsNewest
      <4> QED BY <1>1, <2>5, <4>1, <4>2, NewestOfConcat
    <3>4. Latest(i) = IF Mentions(pending, i) THEN coalesceAuthUpdates(pending, i).val
                      ELSE Newest(queue, applied, i)
      BY <1>1, LatestIsNewest, NewestOfConcat
    <3> QED BY <2>6, <3>1, <3>2, <3>3, <3>4
  <2>9. applied' \in [Ids -> Values]
    <3>1. ASSUME NEW i \in Ids, Mentions(s, i) PROVE coalesceAuthUpdates(s, i).val \in Values
      <4>1. PICK m : LastAt(s, i, m) BY <2>5, <3>1, LastExists
      <4>2. coalesceAuthUpdates(s, i) = s[m] BY <2>5, <4>1, CoalesceIsLast
      <4>3. s[m] \in Updates BY <2>5, <4>1, ElementOfSeq, LenProperties DEF LastAt
      <4> QED BY <4>2, <4>3 DEF Updates
    <3> QED BY <1>1, <2>7, <3>1
  <2> QED BY <1>1, <2>5, <2>7, <2>8, <2>9 DEF QueueTypes
<1> QED BY <1>2, <1>3

-----------------------------------------------------------------------------
(***************************************************************************)
(* Steps that compute and dispatch no update.                              *)
(***************************************************************************)
Quiet ==
  /\ ev'.ups = ev.ups
  /\ \A r \in Reloaders : rl'[r].ups = rl[r].ups
  /\ \A c : c.pc = "dispatch" => (c \in calls' <=> c \in calls)
  /\ UNCHANGED queueVars
  /\ odd.crossed \union odd.untold \subseteq odd'.crossed \union odd'.untold
  /\ \A i \in Ids : i \in odd'.crossed \union odd'.untold \/ current'[i] = current[i]

\* They leave every credential straight that was and has not gone astray now.
LEMMA QuietKeepsFlows ==
  ASSUME Flows, Quiet
  PROVE  Flows'
<1> SUFFICES ASSUME NEW i \in Ids, i \notin odd'.crossed \union odd'.untold
             PROVE  Straight(i)'
  BY DEF Flows
<1>1. Straight(i) BY DEF Quiet, Flows
<1>2. Latest(i)' = Latest(i) BY SameLatest DEF Quiet
<1>3. Spares(i) BY <1>2 DEF Quiet, Spares
<1> QED BY <1>1, <1>3, SparedStaysStraight

\* The world outside, but for the runtime providers.
LEMMA QuietEnvironment ==
  ASSUME WatchTypes,
         \/ \E f \in Files, content \in Contents : WriteFile(f, content)
         \/ \E c \in Configs, managed \in BOOLEAN : WriteConfig(c, managed)
         \/ \E f \in Files, content \in Versions : saveTokenRecord(f, content)
  PROVE  Quiet
<1>1. ASSUME NEW f \in Files, NEW content \in Contents, WriteFile(f, content) PROVE Quiet
  BY <1>1 DEF WriteFile, actorVars, shadowVars, Quiet
<1>2. ASSUME NEW c \in Configs, NEW managed \in BOOLEAN, WriteConfig(c, managed) PROVE Quiet
  <2>1. PICK d : d = [n |-> changes, pc |-> "reload", id |-> "none", val |-> Gone] OBVIOUS
  <2>2. d.pc = "reload" BY <2>1
  <2>3. calls' = (IF managed THEN calls \union {d} ELSE calls) BY <1>2, <2>1 DEF WriteConfig
  <2> QED BY <1>2, <2>2, <2>3 DEF WriteConfig, shadowVars, Quiet
<1>3. ASSUME NEW f \in Files, NEW content \in Versions, saveTokenRecord(f, content) PROVE Quiet
  <2>1. PICK d : d = [n |-> changes, pc |-> "hook", id |-> f, val |-> Raw(content)] OBVIOUS
  <2>2. d.pc = "hook" BY <2>1
  <2>3. calls' = calls \union {d} BY <1>3, <2>1 DEF saveTokenRecord
  <2> QED BY <1>3, <2>2, <2>3 DEF saveTokenRecord, shadowVars, Quiet
<1> QED BY <1>1, <1>2, <1>3

\* An event that is looked at.
LEMMA QuietAdd ==
  ASSUME WatchTypes, NEW f \in Files, addOrUpdateClientLocked(f), ev.pc # "dispatch",
         UNCHANGED <<rl, calls, queueVars>>
  PROVE  Quiet
<1>1. ev.ups = <<>> BY DEF WatchTypes, EvTypes, EvDiscipline
<1>2. ev'.ups = <<>>
  <2>1. [EvIdle EXCEPT !.pc = "commit", !.file = f, !.data = files[f], !.cfg = config,
                       !.known = f \in fileAuths].ups = <<>>
    BY DEF EvIdle
  <2>2. EvIdle.ups = <<>> BY DEF EvIdle
  <2> QED BY <2>1, <2>2 DEF addOrUpdateClientLocked
<1>3. odd'.crossed = odd.crossed /\ odd'.untold = odd.untold
  BY DEF addOrUpdateClientLocked, WatchTypes, Odds
<1> QED BY <1>1, <1>2, <1>3 DEF addOrUpdateClientLocked, Quiet

\* The steps of an event that take no update under clientsMutex and dispatch
\* none are quiet.
LEMMA QuietEvents ==
  ASSUME WatchTypes,
         handleConfigEvent \/ handleWriteEvent \/ \E early \in BOOLEAN : handleRemoveEvent(early)
  PROVE  Quiet
<1>1. CASE handleConfigEvent BY <1>1 DEF handleConfigEvent, shadowVars, actorVars, Quiet
<1>2. CASE handleWriteEvent
  <2>1. Head(events).file \in Files BY <1>2, HeadTypes DEF handleWriteEvent
  <2> QED BY <1>2, <2>1, QuietAdd DEF handleWriteEvent
<1>3. ASSUME NEW early \in BOOLEAN, handleRemoveEvent(early) PROVE Quiet
  <2>1. ev.ups = <<>> BY <1>3 DEF handleRemoveEvent, WatchTypes, EvTypes, EvDiscipline
  <2>2. ev'.ups = <<>>
    <3>1. \A f : [EvIdle EXCEPT !.pc = "sleep", !.file = f].ups = <<>> BY DEF EvIdle
    <3> QED BY <1>3, <2>1, <3>1 DEF handleRemoveEvent
  <2>3. odd'.crossed = odd.crossed /\ odd'.untold = odd.untold
    BY <1>3 DEF handleRemoveEvent, WatchTypes, Odds
  <2> QED BY <1>3, <2>1, <2>2, <2>3 DEF handleRemoveEvent, Quiet
<1> QED BY <1>1, <1>2, <1>3

\* Reloads.
LEMMA QuietReloads ==
  ASSUME WatchTypes, NEW r \in Reloaders, QuietReload(r)
  PROVE  Quiet
<1>1. \A s \in Reloaders : rl'[s].ups = rl[s].ups BY QuietReloadTypes
<1>2. CASE reloadConfig(r) BY <1>1, <1>2 DEF reloadConfig, shadowVars, Quiet
<1>3. CASE reloadClients(r)
  <2>1. PICK dropped : dropped = IF rl[r].affected
                                 THEN {i \in Files \union Keys : current[i] # Gone} ELSE {}
    OBVIOUS
  <2>2. /\ current' = [i \in Ids |-> IF i \in dropped THEN Gone ELSE current[i]]
        /\ odd' = [odd EXCEPT !.untold = @ \union dropped]
    BY <1>3, <2>1 DEF reloadClients
  <2>3. odd'.crossed = odd.crossed /\ odd'.untold = odd.untold \union dropped
    BY <2>2 DEF WatchTypes, Odds
  <2> QED BY <1>1, <1>3, <2>2, <2>3 DEF reloadClients, Quiet
<1>4. CASE rescanAuth(r) BY <1>1, <1>4 DEF rescanAuth, Quiet
<1>5. CASE snapshotCoreAuths(r) BY <1>1, <1>5 DEF snapshotCoreAuths, shadowVars, Quiet
<1>6. CASE recordConfigHash(r)
  <2>1. odd'.crossed = odd.crossed /\ odd'.untold = odd.untold
    BY <1>6 DEF recordConfigHash, WatchTypes, Odds
  <2> QED BY <1>1, <1>6, <2>1 DEF recordConfigHash, shadowVars, Quiet
<1>7. CASE loadConfig(r) BY <1>1, <1>7 DEF loadConfig, shadowVars, Quiet
<1> QED BY <1>2, <1>3, <1>4, <1>5, <1>6, <1>7 DEF QuietReload

\* Reading the configuration, by a login's reload or by the debounce timer, is
\* quiet and keeps the types.
LEMMA QuietLoads ==
  ASSUME WatchTypes, NEW r \in Reloaders,
         reloadTimer(r) \/ \E c \in calls : ReloadConfigIfChanged(c, r)
  PROVE  Quiet /\ WatchTypes'
<1> USE DEF WatchTypes
<1>1. CASE reloadTimer(r)
  <2>1. RlTypes' /\ \A s \in Reloaders : rl'[s].ups = rl[s].ups BY <1>1, LoadTypes DEF reloadTimer
  <2>2. Quiet BY <1>1, <2>1 DEF reloadTimer, shadowVars, Quiet
  <2>3. WatchTypes' BY <1>1, <2>1 DEF reloadTimer, diskVars, shadowVars, queueVars,
          DiskTypes, ShadowTypes, EvTypes, CallTypes, QueueTypes
  <2> QED BY <2>2, <2>3
<1>2. ASSUME NEW c \in calls, ReloadConfigIfChanged(c, r) PROVE Quiet /\ WatchTypes'
  <2>1. RlTypes' /\ \A s \in Reloaders : rl'[s].ups = rl[s].ups
    BY <1>2, LoadTypes DEF ReloadConfigIfChanged
  <2>2. Quiet BY <1>2, <2>1 DEF ReloadConfigIfChanged, shadowVars, Quiet
  <2>3. CallTypes' BY <1>2 DEF ReloadConfigIfChanged, CallTypes
  <2>4. WatchTypes' BY <1>2, <2>1, <2>3 DEF ReloadConfigIfChanged, diskVars, configVars, shadowVars,
          queueVars, DiskTypes, ShadowTypes, EvTypes, QueueTypes
  <2> QED BY <2>2, <2>4
<1> QED BY <1>1, <1>2

-----------------------------------------------------------------------------
(***************************************************************************)
(* Steps that compute updates.                                             *)
(***************************************************************************)

\* A credential that has one update between the locks.
Fresh(i) == EvAlone(i) /\ ReloadAlone(i) /\ CallAlone(i) /\ InFlight(i)

\* The credentials they concern have one, unless it crosses another.
LEMMA ProductionKeepsFlows ==
  ASSUME Flows, NEW changed, changed \subseteq Ids,
         odd'.untold = odd.untold \ changed,
         odd'.crossed = (odd.crossed \ changed) \union {i \in changed : InFlight(i)},
         \A i \in Ids \ changed : Spares(i),
         \A i \in changed : ~InFlight(i) => Fresh(i)'
  PROVE  Flows'
<1> SUFFICES ASSUME NEW i \in Ids, i \notin odd'.crossed \union odd'.untold
             PROVE  Straight(i)'
  BY DEF Flows
<1>1. CASE i \in changed BY <1>1 DEF Fresh, Straight
<1>2. CASE i \notin changed
  <2>1. i \notin odd.crossed \union odd.untold BY <1>2
  <2>2. Straight(i) /\ Spares(i) BY <1>2, <2>1 DEF Flows
  <2> QED BY <2>2, SparedStaysStraight
<1> QED BY <1>1, <1>2

\* What an update adds to the history.
LEMMA ProducedHistory ==
  ASSUME NEW o \in Odds, NEW ups, NEW s, NEW t
  PROVE  /\ Produced(o, ups).untold = o.untold \ Mentioned(ups)
         /\ Produced(o, ups).crossed =
              (o.crossed \ Mentioned(ups)) \union {i \in Mentioned(ups) : InFlight(i)}
         /\ Marked(o, s, t).untold = o.untold /\ Marked(o, s, t).crossed = o.crossed
BY DEF Produced, Marked, Odds

\* A sequence of one update or none.
LEMMA AtMostOne ==
  ASSUME NEW f, NEW val
  PROVE  /\ Mentioned(<<>>) = {} /\ Mentioned(<<Update(f, val)>>) = {f}
         /\ \A i : Mentions(<<Update(f, val)>>, i) <=> i = f
         /\ \A n \in DOMAIN <<Update(f, val)>> : <<Update(f, val)>>[n].val = val
BY DEF Mentioned, Mentions, Update

\* The event goroutine has the update ups of the file f.
LEMMA EventProduces ==
  ASSUME Flows, WatchTypes, NEW f \in Files, NEW ups, NEW val,
         \/ ups = <<Update(f, val)>> /\ current'[f] = val
         \/ ups = <<>> /\ current'[f] = current[f],
         \A i \in Ids : i # f => current'[i] = current[i],
         ev.ups = <<>>, ev'.ups = ups, UNCHANGED <<rl, calls, queueVars>>,
         odd'.untold = Produced(odd, ups).untold, odd'.crossed = Produced(odd, ups).crossed
  PROVE  Flows'
<1>1. PICK changed : changed = Mentioned(ups) OBVIOUS
<1>2. f \in Ids BY DEF Ids
<1>3. changed \subseteq {f} /\ (changed = {} <=> ups = <<>>) /\ \A i : Mentions(ups, i) <=> i \in changed
  <2>1. CASE ups = <<Update(f, val)>>
    <3>1. <<Update(f, val)>> # <<>> OBVIOUS
    <3>2. changed = {f} BY <1>1, <2>1, AtMostOne
    <3>3. \A i : Mentions(ups, i) <=> i = f BY <2>1, AtMostOne
    <3> QED BY <2>1, <3>1, <3>2, <3>3
  <2>2. CASE ups = <<>>
    <3>1. changed = {} BY <1>1, <2>2, AtMostOne
    <3>2. \A i : ~Mentions(ups, i) BY <2>2, ShortUpdates
    <3> QED BY <2>2, <3>1, <3>2
  <2> QED BY <2>1, <2>2
<1>4. /\ odd'.untold = odd.untold \ changed
      /\ odd'.crossed = (odd.crossed \ changed) \union {i \in changed : InFlight(i)}
  BY <1>1, ProducedHistory DEF WatchTypes
<1>5. ASSUME NEW i \in Ids \ changed PROVE Spares(i)
  <2>1. ~Mentions(ev.ups, i) /\ ~Mentions(ev'.ups, i) BY <1>3, <1>5, ShortUpdates
  <2>2. current'[i] = current[i] BY <1>3, <1>5
  <2>3. Latest(i)' = Latest(i) BY SameLatest
  <2> QED BY <2>1, <2>2, <2>3 DEF Spares
<1>6. ASSUME NEW i \in changed, ~InFlight(i) PROVE Fresh(i)'
  <2>1. i = f /\ ups = <<Update(f, val)>> /\ current'[f] = val
    BY <1>3, <1>6
  <2>2. Agrees(ev.ups, i)' BY <2>1, AtMostOne DEF Agrees
  <2>3. \A r \in Reloaders : ~Mentions(rl'[r].ups, i) BY <1>6 DEF InFlight
  <2>4. \A c : ~CallHolds(c, i)' BY <1>6 DEF InFlight, CallHolds
  <2>5. Mentions(ev'.ups, i) BY <1>3
  <2> QED BY <2>2, <2>3, <2>4, <2>5 DEF Fresh, EvAlone, ReloadAlone, CallAlone, InFlight
<1>7. changed \subseteq Ids BY <1>2, <1>3
<1> QED BY <1>4, <1>5, <1>6, <1>7, ProductionKeepsFlows

\* The call c has the update of its credential.
LEMMA CallProduces ==
  ASSUME Flows, WatchTypes, NEW c, c.pc = "dispatch", c.id \in Ids, current'[c.id] = c.val,
         \A i \in Ids : i # c.id => current'[i] = current[i],
         \A d : d.pc = "dispatch" => (d \in calls' <=> d \in calls \/ d = c),
         UNCHANGED <<ev, rl, queueVars>>,
         odd'.untold = Produced(odd, <<Update(c.id, c.val)>>).untold,
         odd'.crossed = Produced(odd, <<Update(c.id, c.val)>>).crossed
  PROVE  Flows'
<1>1. PICK changed : changed = {c.id} OBVIOUS
<1>2. /\ odd'.untold = odd.untold \ changed
      /\ odd'.crossed = (odd.crossed \ changed) \union {i \in changed : InFlight(i)}
  BY <1>1, ProducedHistory, AtMostOne DEF WatchTypes
<1>3. ASSUME NEW i \in Ids \ changed PROVE Spares(i)
  <2>1. current'[i] = current[i] /\ i # c.id BY <1>1, <1>3
  <2>2. Latest(i)' = Latest(i) BY SameLatest
  <2> QED BY <2>1, <2>2 DEF Spares
<1>4. ASSUME NEW i \in changed, ~InFlight(i) PROVE Fresh(i)'
  <2>1. i = c.id BY <1>1
  <2>2. ~Mentions(ev'.ups, i) /\ \A r \in Reloaders : ~Mentions(rl'[r].ups, i) BY <1>4 DEF InFlight
  <2>3. \A d : CallHolds(d, i)' => d = c BY <1>4, <2>1 DEF InFlight, CallHolds
  <2>4. InFlight(i)'
    <3>1. c \in calls' OBVIOUS
    <3> QED BY <2>1, <3>1 DEF InFlight
  <2>5. CallAlone(i)' BY <2>1, <2>3 DEF CallAlone
  <2> QED BY <2>2, <2>4, <2>5 DEF Fresh, EvAlone, ReloadAlone
<1> QED BY <1>1, <1>2, <1>3, <1>4, ProductionKeepsFlows

\* The refresh r has updates.
LEMMA RefreshProduces ==
  ASSUME Flows, WatchTypes, NEW r \in Reloaders, prepareAuthUpdatesLocked(r)
  PROVE  Flows'
<1>1. PICK changed, ups :
        /\ changed \subseteq Ids /\ ups \in Seq(Updates) /\ Distinct(ups)
        /\ \A i \in Ids \ changed : current'[i] = current[i]
        /\ \A i : Mentions(ups, i) <=> i \in changed
        /\ \A n \in DOMAIN ups : ups[n].val = current'[ups[n].id]
        /\ rl'[r].ups = ups /\ rl[r].ups = <<>> /\ \A s \in Reloaders : s # r => rl'[s] = rl[s]
        /\ odd'.untold = odd.untold \ changed
        /\ odd'.crossed = (odd.crossed \ changed) \union {i \in changed : InFlight(i)}
  BY PrepareTypes
<1>2. UNCHANGED <<ev, calls, queueVars>> BY DEF prepareAuthUpdatesLocked
<1>3. ASSUME NEW i \in Ids \ changed PROVE Spares(i)
  <2>1. ~Mentions(rl'[r].ups, i) /\ ~Mentions(rl[r].ups, i) BY <1>1, <1>3, ShortUpdates
  <2>2. Latest(i)' = Latest(i) BY <1>2, SameLatest
  <2> QED BY <1>1, <1>2, <1>3, <2>1, <2>2 DEF Spares
<1>4. ASSUME NEW i \in changed, ~InFlight(i) PROVE Fresh(i)'
  <2>1. Agrees(rl[r].ups, i)' BY <1>1 DEF Agrees
  <2>2. Mentions(rl'[r].ups, i) BY <1>1
  <2>3. \A s \in Reloaders : Mentions(rl'[s].ups, i) => s = r BY <1>1, <1>4 DEF InFlight
  <2>4. ~Mentions(ev'.ups, i) BY <1>2, <1>4 DEF InFlight
  <2>5. \A c : ~CallHolds(c, i)' BY <1>2, <1>4 DEF InFlight, CallHolds
  <2>6. ReloadAlone(i)' BY <2>1, <2>3, <2>5 DEF ReloadAlone
  <2> QED BY <2>2, <2>4, <2>5, <2>6 DEF Fresh, EvAlone, CallAlone, InFlight
<1> QED BY <1>1, <1>3, <1>4, ProductionKeepsFlows

-----------------------------------------------------------------------------
(***************************************************************************)
(* Steps that dispatch updates.                                            *)
(***************************************************************************)

\* Of a credential that is straight the update dispatched is the only one, so
\* afterwards the newest one is what the snapshot says.
LEMMA DispatchKeepsFlows ==
  ASSUME Flows, WatchTypes, NEW ups \in Seq(Updates), Distinct(ups), dispatchAuthUpdates(ups),
         UNCHANGED <<queue, applied, current, odd>>,
         \A i \in Ids : ~Mentions(ups, i) /\ Latest(i)' = Latest(i) => Spares(i),
         \A i \in Ids : Mentions(ups, i) /\ Straight(i) => Agrees(ups, i) /\ ~InFlight(i)'
  PROVE  Flows'
<1> SUFFICES ASSUME NEW i \in Ids, i \notin odd'.crossed \union odd'.untold
             PROVE  Straight(i)'
  BY DEF Flows
<1>1. Straight(i) BY DEF Flows
<1>2. CASE ~Mentions(ups, i)
  <2>1. Latest(i)' = Latest(i) BY <1>2, DispatchLatest
  <2>2. Spares(i) BY <1>2, <2>1
  <2> QED BY <1>1, <2>2, SparedStaysStraight
<1>3. CASE Mentions(ups, i)
  <2>1. Agrees(ups, i) /\ ~InFlight(i)' BY <1>1, <1>3
  <2>2. PICK n \in DOMAIN ups : ups[n].id = i BY <1>3 DEF Mentions
  <2>3. Latest(i)' = ups[n].val BY <2>2, DispatchLatest
  <2>4. Latest(i)' = current'[i] BY <2>1, <2>2, <2>3 DEF Agrees
  <2>5. /\ ~Mentions(ev'.ups, i) /\ \A r \in Reloaders : ~Mentions(rl'[r].ups, i)
        /\ \A c : ~CallHolds(c, i)'
    BY <2>1 DEF InFlight, CallHolds
  <2> QED BY <2>4, <2>5 DEF Straight, EvAlone, ReloadAlone, CallAlone
<1> QED BY <1>2, <1>3

\* The dispatch that ends an event keeps the flows.
LEMMA EventDispatches ==
  ASSUME Flows, WatchTypes, dispatchEvent
  PROVE  Flows'
<1>1. ev.ups \in Seq(Updates) /\ Distinct(ev.ups) BY DEF WatchTypes, EvTypes, EvRecords, EvDiscipline
<1>2. /\ dispatchAuthUpdates(ev.ups) /\ ev' = EvIdle
      /\ UNCHANGED <<queue, applied, current, odd, rl, calls>>
  BY DEF dispatchEvent, shadowVars
<1>3. \A i : ~Mentions(ev'.ups, i) BY <1>2, ShortUpdates DEF EvIdle
<1>4. ASSUME NEW i \in Ids, ~Mentions(ev.ups, i), Latest(i)' = Latest(i) PROVE Spares(i)
  BY <1>2, <1>3, <1>4 DEF Spares
<1>5. ASSUME NEW i \in Ids, Mentions(ev.ups, i), Straight(i)
      PROVE  Agrees(ev.ups, i) /\ ~InFlight(i)'
  <2>1. /\ Agrees(ev.ups, i)
        /\ \A r \in Reloaders : ~Mentions(rl[r].ups, i)
        /\ \A c : ~CallHolds(c, i)
    BY <1>5 DEF Straight, EvAlone
  <2> QED BY <1>2, <1>3, <2>1 DEF InFlight, CallHolds
<1> QED BY <1>1, <1>2, <1>4, <1>5, DispatchKeepsFlows

\* The dispatch that ends a refresh keeps the flows.
LEMMA RefreshDispatches ==
  ASSUME Flows, WatchTypes, NEW r \in Reloaders, dispatchRefresh(r)
  PROVE  Flows' /\ WatchTypes'
<1>1. /\ rl \in [Reloaders -> RlRecords] /\ rl[r].ups \in Seq(Updates) /\ Distinct(rl[r].ups)
      /\ rl[r] \in RlRecords /\ RlDiscipline(rl[r])
  BY DEF WatchTypes, RlTypes, RlRecords, RlDiscipline
<1>2. /\ dispatchAuthUpdates(rl[r].ups)
      /\ UNCHANGED <<queue, applied, current, odd, ev, calls>>
  BY DEF dispatchRefresh, shadowVars
<1>3. PICK e : e = IF rl[r].start THEN RlIdle ELSE [RlIdle EXCEPT !.pc = "hash"] OBVIOUS
<1>4. e \in RlRecords /\ RlDiscipline(e) /\ e.ups = <<>>
  <2>1. RlIdle.ups = <<>> /\ [RlIdle EXCEPT !.pc = "hash"].ups = <<>> BY DEF RlIdle
  <2> QED BY <1>1, <1>3, <2>1, IdleTypes, RlRecordSteps
<1>5. rl' = [rl EXCEPT ![r] = e] BY <1>3 DEF dispatchRefresh
<1>6. RlTypes' /\ rl'[r] = e /\ \A s \in Reloaders : s # r => rl'[s] = rl[s]
  BY <1>4, <1>5, OneReload
<1>7. \A i : ~Mentions(rl'[r].ups, i) BY <1>4, <1>6, ShortUpdates
<1>8. QueueTypes' BY <1>1, <1>2, DispatchTypes
<1>9. WatchTypes'
  BY <1>6, <1>8 DEF WatchTypes, dispatchRefresh, diskVars, configVars, shadowVars,
     DiskTypes, ShadowTypes, EvTypes, CallTypes
<1>10. ASSUME NEW i \in Ids, ~Mentions(rl[r].ups, i), Latest(i)' = Latest(i) PROVE Spares(i)
  BY <1>2, <1>6, <1>7, <1>10 DEF Spares
<1>11. ASSUME NEW i \in Ids, Mentions(rl[r].ups, i), Straight(i)
       PROVE  Agrees(rl[r].ups, i) /\ ~InFlight(i)'
  <2>1. /\ Agrees(rl[r].ups, i)
        /\ \A s \in Reloaders : Mentions(rl[s].ups, i) => s = r
        /\ \A c : ~CallHolds(c, i)
    BY <1>11 DEF Straight, ReloadAlone
  <2>2. ~Mentions(ev.ups, i) BY <1>11 DEF Straight, EvAlone
  <2> QED BY <1>2, <1>6, <1>7, <2>1, <2>2 DEF InFlight, CallHolds
<1>12. Flows' BY <1>1, <1>2, <1>10, <1>11, DispatchKeepsFlows
<1> QED BY <1>9, <1>12

\* The dispatch that ends a login's hook keeps the flows and the types.
LEMMA CallDispatches ==
  ASSUME Flows, WatchTypes, NEW c \in calls, dispatchCall(c)
  PROVE  Flows' /\ WatchTypes'
<1>1. c.id \in Ids /\ c.val \in Values /\ c.pc = "dispatch"
  BY DEF WatchTypes, CallTypes, Calls, dispatchCall
<1>2. PICK ups : ups = <<Update(c.id, c.val)>> OBVIOUS
<1>3. ups \in Seq(Updates) /\ Distinct(ups) BY <1>1, <1>2, ValueTypes, ShortUpdates
<1>4. /\ dispatchAuthUpdates(ups) /\ calls' = calls \ {c}
      /\ UNCHANGED <<queue, applied, current, odd, ev, rl>>
  BY <1>2 DEF dispatchCall, shadowVars
<1>5. (\A i : Mentions(ups, i) <=> i = c.id) /\ \A n \in DOMAIN ups : ups[n].val = c.val
  BY <1>2, AtMostOne
<1>6. WatchTypes'
  <2>1. QueueTypes' BY <1>3, <1>4, DispatchTypes
  <2>2. CallTypes' BY <1>4 DEF WatchTypes, CallTypes
  <2> QED BY <2>1, <2>2 DEF WatchTypes, dispatchCall, diskVars, configVars, shadowVars,
        DiskTypes, ShadowTypes, EvTypes, RlTypes
<1>7. ASSUME NEW i \in Ids, ~Mentions(ups, i), Latest(i)' = Latest(i) PROVE Spares(i)
  BY <1>4, <1>5, <1>7 DEF Spares
<1>8. ASSUME NEW i \in Ids, Mentions(ups, i), Straight(i)
      PROVE  Agrees(ups, i) /\ ~InFlight(i)'
  <2>1. CallHolds(c, i) BY <1>1, <1>5, <1>8 DEF CallHolds
  <2>2. c.val = current[i] /\ \A d : CallHolds(d, i) => d = c BY <1>8, <2>1 DEF Straight, CallAlone
  <2>3. ~Mentions(ev.ups, i) /\ \A r \in Reloaders : ~Mentions(rl[r].ups, i)
    BY <1>8, <2>1 DEF Straight, EvAlone, ReloadAlone
  <2>4. Agrees(ups, i) BY <1>5, <2>2 DEF Agrees
  <2> QED BY <1>4, <2>2, <2>3, <2>4 DEF InFlight, CallHolds
<1>9. Flows' BY <1>3, <1>4, <1>7, <1>8, DispatchKeepsFlows
<1> QED BY <1>6, <1>9

-----------------------------------------------------------------------------
(***************************************************************************)
(* The theorem.                                                            *)
(***************************************************************************)

\* The service knows the credentials, the watcher none.
LEMMA InitWatch == Init => WatchInv
<1> SUFFICES ASSUME Init PROVE WatchInv OBVIOUS
<1>1. ASSUME NEW i \in Ids, i \notin odd.untold PROVE Straight(i)
  <2>1. \A r \in Reloaders : rl[r].ups = <<>>
    <3>1. [RlIdle EXCEPT !.pc = "filter", !.start = TRUE].ups = <<>> /\ RlIdle.ups = <<>> BY DEF RlIdle
    <3> QED BY <3>1 DEF Init
  <2>2. ev.ups = <<>> /\ calls = {} BY DEF Init, EvIdle
  <2>3. applied[i] = Gone /\ current[i] = Gone
    <3>1. odd.untold = {j \in Ids : applied[j] # Gone} BY DEF Init
    <3> QED BY <1>1, <3>1 DEF Init
  <2>4. Latest(i) = applied[i]
    <3>1. <<>> \o <<>> = <<>> OBVIOUS
    <3> QED BY <3>1, ShortUpdates DEF Init, Latest
  <2> QED BY <2>1, <2>2, <2>3, <2>4, ShortUpdates
        DEF Straight, EvAlone, ReloadAlone, CallAlone, CallHolds
<1> QED BY <1>1, InitTypes DEF WatchInv, Flows

\* Every step of an event keeps the flows.
LEMMA EventKeepsFlows ==
  ASSUME WatchTypes, Flows, EventStep
  PROVE  Flows'
<1>1. CASE handleConfigEvent \/ handleWriteEvent \/ \E early \in BOOLEAN : handleRemoveEvent(early)
  BY <1>1, QuietEvents, QuietKeepsFlows
<1>2. CASE handleReplace
  <2>1. PICK f \in Files : f = ev.file BY <1>2 DEF handleReplace, WatchTypes, EvTypes, EvDiscipline
  <2>2. ev.ups = <<>> BY <1>2 DEF handleReplace, WatchTypes, EvTypes, EvDiscipline
  <2>3. UNCHANGED <<rl, calls, queueVars>> BY <1>2 DEF handleReplace
  <2>4. CASE files[f] # "absent"
    <3>1. addOrUpdateClientLocked(f) /\ ev.pc # "dispatch" BY <1>2, <2>1, <2>4 DEF handleReplace
    <3> QED BY <2>3, <3>1, QuietAdd, QuietKeepsFlows
  <2>5. CASE files[f] = "absent" /\ hashes[f] # "none"
    <3>1. removeClientLocked(f) BY <1>2, <2>1, <2>5 DEF handleReplace
    <3>2. PICK ups : ups = IF f \in fileAuths THEN <<Update(f, Gone)>> ELSE <<>> OBVIOUS
    <3>3. f \in Ids BY DEF Ids
    <3>4. ups \in Seq(Updates) /\ Distinct(ups) BY <3>2, <3>3, ValueTypes, ShortUpdates
    <3>5. ev'.ups = ups
      BY <3>1, <3>2, <3>4, IdleTypes, EvDispatches DEF removeClientLocked
    <3>6. \/ ups = <<Update(f, Gone)>> /\ current'[f] = Gone
          \/ ups = <<>> /\ current'[f] = current[f]
      BY <3>1, <3>2, <3>3 DEF removeClientLocked, WatchTypes, ShadowTypes
    <3>7. \A i \in Ids : i # f => current'[i] = current[i]
      BY <3>1 DEF removeClientLocked, WatchTypes, ShadowTypes
    <3>8. odd'.untold = Produced(odd, ups).untold /\ odd'.crossed = Produced(odd, ups).crossed
      <4>1. PICK p \in Odds : p = Produced(odd, ups) BY <3>4, OddTypes DEF WatchTypes
      <4>2. PICK o \in Odds : o = Marked(p, {}, {f} \cap fileAuths) BY OddTypes
      <4>3. odd' = [o EXCEPT !.missed = @ \ {f}] BY <3>1, <3>2, <4>1, <4>2 DEF removeClientLocked
      <4>4. odd'.untold = o.untold /\ odd'.crossed = o.crossed BY <4>3 DEF Odds
      <4>5. o.untold = p.untold /\ o.crossed = p.crossed BY <4>2, ProducedHistory
      <4> QED BY <4>1, <4>4, <4>5
    <3> QED BY <2>2, <2>3, <3>5, <3>6, <3>7, <3>8, EventProduces
  <2>6. CASE files[f] = "absent" /\ hashes[f] = "none"
    <3>1. ev' = EvIdle /\ UNCHANGED <<hashes, fileAuths, current, odd>>
      BY <1>2, <2>1, <2>6 DEF handleReplace
    <3>2. Quiet BY <2>2, <2>3, <3>1 DEF Quiet, EvIdle
    <3> QED BY <3>2, QuietKeepsFlows
  <2> QED BY <2>4, <2>5, <2>6
<1>3. CASE computePerPathUpdatesLocked
  <2>1. PICK f \in Files : f = ev.file
    BY <1>3 DEF computePerPathUpdatesLocked, WatchTypes, EvTypes, EvDiscipline
  <2>2. PICK new \in Values : new = SynthesizeAuthFile(ev.cfg, ev.data)
    BY <1>3, ValueTypes DEF computePerPathUpdatesLocked, WatchTypes, EvTypes, EvDiscipline
  <2>0. PICK same : same = IF new = Gone THEN ~ev.known ELSE current[f] = new OBVIOUS
  <2>3. PICK ups : ups = IF same THEN <<>> ELSE <<Update(f, new)>> OBVIOUS
  <2>4. f \in Ids BY DEF Ids
  <2>5. ups \in Seq(Updates) /\ Distinct(ups) BY <2>3, <2>4, ValueTypes, ShortUpdates
  <2>6. ev.ups = <<>> BY <1>3 DEF computePerPathUpdatesLocked, WatchTypes, EvTypes, EvDiscipline
  <2>7. ev'.ups = ups
    <3>1. ev' = [ev EXCEPT !.pc = "dispatch", !.ups = ups]
      BY <1>3, <2>0, <2>1, <2>2, <2>3 DEF computePerPathUpdatesLocked
    <3> QED BY <2>5, <3>1, EvDispatches DEF WatchTypes, EvTypes
  <2>8. current' = IF same THEN current ELSE [current EXCEPT ![f] = new]
    BY <1>3, <2>0, <2>1, <2>2 DEF computePerPathUpdatesLocked
  <2>9. \/ ups = <<Update(f, new)>> /\ current'[f] = new
        \/ ups = <<>> /\ current'[f] = current[f]
    BY <2>3, <2>4, <2>8 DEF WatchTypes, ShadowTypes
  <2>10. \A i \in Ids : i # f => current'[i] = current[i] BY <2>8 DEF WatchTypes, ShadowTypes
  <2>11. odd'.untold = Produced(odd, ups).untold /\ odd'.crossed = Produced(odd, ups).crossed
    <3>1. PICK p \in Odds : p = Produced(odd, ups) BY <2>5, OddTypes DEF WatchTypes
    <3>2. PICK s : s = IF current'[f] = SynthesizeAuthFile(config, ev.data) THEN {} ELSE {f} OBVIOUS
    <3>3. odd' = Marked(p, s, {f})
      BY <1>3, <2>0, <2>1, <2>2, <2>3, <3>1, <3>2 DEF computePerPathUpdatesLocked
    <3> QED BY <3>1, <3>3, ProducedHistory
  <2>12. UNCHANGED <<rl, calls, queueVars>> BY <1>3 DEF computePerPathUpdatesLocked
  <2> QED BY <2>6, <2>7, <2>9, <2>10, <2>11, <2>12, EventProduces
<1>4. CASE dispatchEvent BY <1>4, EventDispatches
<1> QED BY <1>1, <1>2, <1>3, <1>4 DEF EventStep

\* Runtime providers connect and disconnect.
LEMMA RuntimeKeepsFlows ==
  ASSUME WatchTypes, Flows, NEW c \in Channels, dispatchRuntimeAuthUpdate(c)
  PROVE  Flows'
<1>1. c \in Ids BY DEF Ids
<1>2. PICK val \in Values : val = IF c \in runtime THEN Gone ELSE Raw("ws") BY ValueTypes
<1>3. PICK d : d = [n |-> changes, pc |-> "dispatch", id |-> c, val |-> val] OBVIOUS
<1>4. d.pc = "dispatch" /\ d.id = c /\ d.val = val BY <1>3
<1>5. /\ current' = [current EXCEPT ![c] = val] /\ calls' = calls \union {d}
      /\ odd' = Produced(odd, <<Update(c, val)>>) /\ UNCHANGED <<ev, rl, queueVars>>
  BY <1>2, <1>3 DEF dispatchRuntimeAuthUpdate
<1>6. current'[d.id] = d.val /\ \A i \in Ids : i # d.id => current'[i] = current[i]
  BY <1>1, <1>4, <1>5 DEF WatchTypes, ShadowTypes
<1> QED BY <1>1, <1>4, <1>5, <1>6, CallProduces

\* The hook of a login.
LEMMA HookKeeps ==
  ASSUME WatchTypes, Flows, NEW c \in calls, dispatchPersistedAuthUpdate(c)
  PROVE  Flows' /\ WatchTypes'
<1>1. c.id \in Ids /\ c.id \in Files /\ c.val \in Values /\ c.pc = "hook" /\ c \in Calls
  BY DEF WatchTypes, CallTypes, Calls, dispatchPersistedAuthUpdate, Ids
<1>2. PICK d : d = [c EXCEPT !.pc = "dispatch"] OBVIOUS
<1>3. d.pc = "dispatch" /\ d.id = c.id /\ d.val = c.val /\ d \in Calls BY <1>1, <1>2 DEF Calls
<1>4. PICK ups : ups = <<Update(c.id, c.val)>> OBVIOUS
<1>5. ups \in Seq(Updates) BY <1>1, <1>4, ValueTypes, ShortUpdates
<1>6. /\ current' = [current EXCEPT ![c.id] = c.val] /\ calls' = (calls \ {c}) \union {d}
      /\ odd' = Marked(Produced(odd, ups), {c.id}, {}) /\ UNCHANGED <<ev, rl, queueVars>>
  BY <1>2, <1>4 DEF dispatchPersistedAuthUpdate
<1>7. current'[d.id] = d.val /\ \A i \in Ids : i # d.id => current'[i] = current[i]
  BY <1>1, <1>3, <1>6 DEF WatchTypes, ShadowTypes
<1>8. PICK p \in Odds : p = Produced(odd, ups) BY <1>5, OddTypes DEF WatchTypes
<1>9. odd'.untold = p.untold /\ odd'.crossed = p.crossed BY <1>6, <1>8, ProducedHistory
<1>10. \A e : e.pc = "dispatch" => (e \in calls' <=> e \in calls \/ e = d) BY <1>1, <1>6
<1>11. Flows'
  <2>1. ups = <<Update(d.id, d.val)>> BY <1>3, <1>4
  <2> QED BY <1>1, <1>3, <1>6, <1>7, <1>8, <1>9, <1>10, <2>1, CallProduces
<1>12. odd' \in Odds
  <2>1. {c.id} \subseteq Files \union Keys BY <1>1
  <2> QED BY <1>6, <1>8, <2>1, OddTypes
<1>13. ShadowTypes'
  BY <1>1, <1>6 DEF WatchTypes, ShadowTypes, dispatchPersistedAuthUpdate, configVars
<1>14. CallTypes' BY <1>1, <1>3, <1>6 DEF WatchTypes, CallTypes
<1>15. WatchTypes'
  BY <1>12, <1>13, <1>14 DEF WatchTypes, dispatchPersistedAuthUpdate, diskVars, queueVars,
     DiskTypes, EvTypes, RlTypes, QueueTypes
<1> QED BY <1>11, <1>15

\* Every step.
LEMMA NextWatch == WatchInv /\ [Next]_vars => WatchInv'
<1> SUFFICES ASSUME WatchTypes, Flows, [Next]_vars PROVE WatchTypes' /\ Flows' BY DEF WatchInv
<1>1. CASE Environment
  <2>1. WatchTypes' BY <1>1, EnvironmentTypes
  <2>2. ASSUME NEW c \in Channels, dispatchRuntimeAuthUpdate(c) PROVE Flows'
    BY <2>2, RuntimeKeepsFlows
  <2>3. CASE \/ \E f \in Files, content \in Contents : WriteFile(f, content)
             \/ \E c \in Configs, managed \in BOOLEAN : WriteConfig(c, managed)
             \/ \E f \in Files, content \in Versions : saveTokenRecord(f, content)
    BY <2>1, <2>3, QuietEnvironment, QuietKeepsFlows
  <2> QED BY <1>1, <2>1, <2>2, <2>3 DEF Environment
<1>2. CASE EventStep BY <1>2, EventTypes, EventKeepsFlows
<1>3. CASE CallStep
  <2>1. PICK c \in calls : \/ dispatchPersistedAuthUpdate(c) \/ dispatchCall(c)
                           \/ \E r \in Reloaders : ReloadConfigIfChanged(c, r)
    BY <1>3 DEF CallStep
  <2>2. CASE dispatchPersistedAuthUpdate(c) BY <2>2, HookKeeps
  <2>3. CASE dispatchCall(c) BY <2>3, CallDispatches
  <2>4. ASSUME NEW r \in Reloaders, ReloadConfigIfChanged(c, r) PROVE WatchTypes' /\ Flows'
    BY <2>4, QuietLoads, QuietKeepsFlows
  <2> QED BY <2>1, <2>2, <2>3, <2>4
<1>4. CASE nextPendingBatch \/ ConsumerStep
  <2>1. QueueTypes' /\ \A i \in Ids : Latest(i)' = Latest(i) BY <1>4, QueueSteps
  <2>2. UNCHANGED <<diskVars, configVars, shadowVars, actorVars, odd>>
    BY <1>4 DEF nextPendingBatch, ConsumerStep, handleAuthUpdates
  <2>3. WatchTypes'
    BY <2>1, <2>2 DEF WatchTypes, diskVars, configVars, shadowVars, actorVars,
       DiskTypes, ShadowTypes, EvTypes, RlTypes, CallTypes
  <2>4. \A i \in Ids : Spares(i) BY <2>1, <2>2 DEF shadowVars, actorVars, Spares
  <2>5. Flows'
    <3> SUFFICES ASSUME NEW i \in Ids, i \notin odd'.crossed \union odd'.untold PROVE Straight(i)'
      BY DEF Flows
    <3>1. Straight(i) BY <2>2 DEF Flows
    <3> QED BY <2>4, <3>1, SparedStaysStraight
  <2> QED BY <2>3, <2>5
<1>5. CASE TimerStep
  <2>1. PICK r \in Reloaders : reloadTimer(r) BY <1>5 DEF TimerStep
  <2> QED BY <2>1, QuietLoads, QuietKeepsFlows
<1>6. ASSUME NEW r \in Reloaders, ReloadStep(r) PROVE WatchTypes' /\ Flows'
  <2>1. CASE QuietReload(r) BY <2>1, QuietReloads, QuietReloadTypes, QuietKeepsFlows
  <2>2. CASE prepareAuthUpdatesLocked(r) BY <2>2, PrepareTypes, RefreshProduces
  <2>3. CASE dispatchRefresh(r) BY <2>3, RefreshDispatches
  <2> QED BY <1>6, <2>1, <2>2, <2>3 DEF ReloadStep, QuietReload
<1>7. CASE UNCHANGED vars
  <2>1. UNCHANGED <<diskVars, configVars, shadowVars, actorVars, queueVars, odd>> BY <1>7 DEF vars
  <2>2. WatchTypes'
    BY <2>1 DEF WatchTypes, diskVars, configVars, shadowVars, actorVars, queueVars,
       DiskTypes, ShadowTypes, EvTypes, RlTypes, CallTypes, QueueTypes
  <2>3. Quiet BY <2>1 DEF Quiet, shadowVars, actorVars
  <2> QED BY <2>2, <2>3, QuietKeepsFlows
<1> QED BY <1>1, <1>2, <1>3, <1>4, <1>5, <1>6, <1>7 DEF Next

\* The inductive invariant of the watcher holds: of a credential that has not
\* gone astray at most one update is between clientsMutex and dispatchMu, it
\* carries the value of currentAuths, and without one the dispatcher's maps and
\* the channel end in that value.
THEOREM WatchInvariance == Spec => []WatchInv
BY InitWatch, NextWatch, PTL DEF Spec

\* No older update wins in pendingUpdates, the batch, the channel or the
\* consumer: once its updates are dispatched, what the manager has or will have
\* of a credential is what currentAuths says, unless updates crossed between the
\* two locks or an entry was dropped without one.
THEOREM LatestIsCurrentHolds == Spec => []LatestIsCurrent
<1>1. WatchInv => LatestIsCurrent BY TypesGive DEF WatchInv, Flows, Straight, LatestIsCurrent
<1> QED BY <1>1, WatchInvariance, PTL
-----------------------------------------------------------------------------
(***************************************************************************)
(* Where the snapshot comes from.                                          *)
(***************************************************************************)
\* A notification that the event goroutine has not taken yet.
Notified(kind, f) == \E n \in DOMAIN events : events[n].kind = kind /\ events[n].file = f

Committing(f) == ev.pc = "commit" /\ ev.file = f

\* Reloads that will compute the snapshot anew, that will scan the directory,
\* that will record the hash of the configuration, and that have set it.
RefreshDue == \E r \in Reloaders : rl[r].pc \in {"filter", "rescan", "scan", "prepare"}
Starting == \E r \in Reloaders : rl[r].start /\ rl[r].pc \in {"filter", "rescan"}
Recording == \E r \in Reloaders : ~rl[r].start /\ rl[r].pc # "idle"
Renewing == \E r \in Reloaders : ~rl[r].start /\ rl[r].pc \notin {"idle", "load", "set"}

\* The part of the configuration: a difference between a file that can be loaded
\* and the snapshot is going to be noticed.
ConfigFollows ==
  config # configFile /\ configFile.loads =>
    odd.lost \/ timer \/ Recording \/ Notified("config", "none")
IdleIsNoStart == \A r \in Reloaders : rl[r].pc \in {"idle", "load", "set"} => ~rl[r].start
HashFollows == \A c \in configHash : c # config => odd.lost \/ Renewing

\* The part of the directory: hashes are those of the files, but for changes
\* that are going to be noticed, and files with a credential have an entry.
WritesFollow ==
  \A f \in Files : Parses(files[f]) /\ hashes[f] # files[f] => Starting \/ Notified("write", f)
RemovalsFollow ==
  \A f \in Files : files[f] = "absent" /\ hashes[f] # "none" =>
    f \in odd.missed \/ Notified("remove", f) \/ (ev.pc = "sleep" /\ ev.file = f)
CommitFollows == ev.pc = "commit" => hashes[ev.file] = ev.data
Registered == \A f \in Files : hashes[f] \in Versions => f \in fileAuths \/ Committing(f)

\* The part of the snapshot: it has what hashes, configuration and connections
\* call for.
RuntimeValue(c) == IF c \in runtime THEN Raw("ws") ELSE Gone
KeyValue(k) == IF k \in config.keys THEN Raw("key") ELSE Gone
FileValue(f) == SynthesizeAuthFile(config, hashes[f])

ChannelsFollow == \A c \in Channels : current[c] = RuntimeValue(c)
KeysFollow == \A k \in Keys \ odd.stale : RefreshDue \/ current[k] = KeyValue(k)
FilesFollow == \A f \in Files \ odd.stale : RefreshDue \/ Committing(f) \/ current[f] = FileValue(f)

ConfigPart == ConfigFollows /\ HashFollows /\ IdleIsNoStart
DirectoryPart == WritesFollow /\ RemovalsFollow /\ CommitFollows /\ Registered
SnapshotPart == ChannelsFollow /\ KeysFollow /\ FilesFollow
SourceInv == ConfigPart /\ DirectoryPart /\ SnapshotPart

\* Steps that leave the configuration and the reloads alone.
LEMMA ConfigStays ==
  ASSUME ConfigPart, UNCHANGED <<config, configHash, configFile, rl>>, odd'.lost = odd.lost,
         timer => timer', Notified("config", "none") => Notified("config", "none")'
  PROVE  ConfigPart'
BY DEF ConfigPart, ConfigFollows, HashFollows, IdleIsNoStart, Recording, Renewing

\* Steps that leave the directory, its hashes and their goroutines alone.
LEMMA DirectoryStays ==
  ASSUME DirectoryPart, UNCHANGED <<files, hashes, fileAuths, ev, rl>>, odd'.missed = odd.missed,
         \A kind \in {"write", "remove"} : \A f : Notified(kind, f) => Notified(kind, f)'
  PROVE  DirectoryPart'
<1>1. Starting' <=> Starting BY DEF Starting
<1>2. WritesFollow' BY <1>1 DEF DirectoryPart, WritesFollow
<1>3. RemovalsFollow' BY DEF DirectoryPart, RemovalsFollow
<1>4. CommitFollows' BY DEF DirectoryPart, CommitFollows
<1>5. Registered' BY DEF DirectoryPart, Registered, Committing
<1> QED BY <1>2, <1>3, <1>4, <1>5 DEF DirectoryPart

\* Steps that leave the snapshot and its sources alone.
LEMMA SnapshotStays ==
  ASSUME SnapshotPart, UNCHANGED <<current, runtime, config, hashes, ev, rl>>, odd'.stale = odd.stale
  PROVE  SnapshotPart'
<1>1. RefreshDue' <=> RefreshDue BY DEF RefreshDue
<1>2. ChannelsFollow' BY DEF SnapshotPart, ChannelsFollow, RuntimeValue
<1>3. KeysFollow' BY <1>1 DEF SnapshotPart, KeysFollow, KeyValue
<1>4. FilesFollow' BY <1>1 DEF SnapshotPart, FilesFollow, FileValue, Committing
<1> QED BY <1>2, <1>3, <1>4 DEF SnapshotPart

\* A notification is appended.
LEMMA Notifying ==
  ASSUME WatchTypes, NEW e \in Events, events' = Append(events, e)
  PROVE  /\ \A kind, f : Notified(kind, f) => Notified(kind, f)'
         /\ Notified(e.kind, e.file)'
<1>1. events \in Seq(Events) BY DEF WatchTypes, DiskTypes
<1>2. DOMAIN events' = 1 .. Len(events) + 1 /\ DOMAIN events = 1 .. Len(events) /\ Len(events) \in Nat
  BY <1>1
<1>3. \A n \in DOMAIN events : n \in DOMAIN events' /\ events'[n] = events[n] BY <1>1, <1>2
<1>4. Len(events) + 1 \in DOMAIN events' /\ events'[Len(events) + 1] = e BY <1>1, <1>2
<1> QED BY <1>3, <1>4 DEF Notified

\* The first notification is taken; the others stay.
LEMMA Taking ==
  ASSUME WatchTypes, events # <<>>, events' = Tail(events)
  PROVE  \A kind, f : Notified(kind, f) =>
           Notified(kind, f)' \/ (Head(events).kind = kind /\ Head(events).file = f)
<1>1. events \in Seq(Events) BY DEF WatchTypes, DiskTypes
<1> SUFFICES ASSUME NEW kind, NEW f, Notified(kind, f),
                    ~(Head(events).kind = kind /\ Head(events).file = f)
             PROVE  Notified(kind, f)'
  OBVIOUS
<1>2. PICK n \in DOMAIN events : events[n].kind = kind /\ events[n].file = f BY DEF Notified
<1>3. n \in 2 .. Len(events) /\ Len(events) \in Nat BY <1>1, <1>2
<1>4. n - 1 \in DOMAIN events' /\ events'[n - 1] = events[n] BY <1>1, <1>3
<1> QED BY <1>2, <1>4 DEF Notified

\* The fields of the history.
LEMMA OddFields ==
  ASSUME NEW o \in Odds
  PROVE  /\ \A ups : LET p == Produced(o, ups)
                     IN  p.stale = o.stale /\ p.missed = o.missed /\ p.lost = o.lost
         /\ \A a, b : LET p == Marked(o, a, b)
                      IN  p.stale = (o.stale \ b) \union a /\ p.missed = o.missed /\ p.lost = o.lost
BY DEF Produced, Marked, Odds

-----------------------------------------------------------------------------
(***************************************************************************)
(* The outside world.                                                      *)
(***************************************************************************)
\* Files that are written are notified of.
LEMMA WriteKeepsSource ==
  ASSUME WatchTypes, SourceInv, NEW f \in Files, NEW content \in Contents,
         files' = [files EXCEPT ![f] = content],
         UNCHANGED <<configFile, configVars, shadowVars, ev, rl, odd>>,
         events' = Append(events, [kind |-> IF content = "absent" THEN "remove" ELSE "write",
                                   file |-> f])
  PROVE  SourceInv'
<1>1. PICK e : e = [kind |-> IF content = "absent" THEN "remove" ELSE "write", file |-> f] OBVIOUS
<1>2. e \in Events /\ e.kind = (IF content = "absent" THEN "remove" ELSE "write") /\ e.file = f
  BY <1>1 DEF Events
<1>3. /\ \A kind, g : Notified(kind, g) => Notified(kind, g)'
      /\ Notified(IF content = "absent" THEN "remove" ELSE "write", f)'
  BY <1>1, <1>2, Notifying
<1>4. ConfigPart' BY <1>3, ConfigStays DEF SourceInv, configVars
<1>5. SnapshotPart' BY SnapshotStays DEF SourceInv, configVars, shadowVars
<1>6. \A g \in Files : g # f => files'[g] = files[g] BY DEF WatchTypes, DiskTypes
<1>7. files'[f] = content BY DEF WatchTypes, DiskTypes
<1>8. Parses(content) => content # "absent" BY WatcherAssumption DEF Parses
<1>9. WritesFollow'
  <2>1. Starting' <=> Starting BY DEF Starting
  <2> SUFFICES ASSUME NEW g \in Files, Parses(files'[g]), hashes[g] # files'[g]
               PROVE  Starting \/ Notified("write", g)'
    BY <2>1 DEF WritesFollow, shadowVars
  <2>2. CASE g = f BY <1>3, <1>7, <1>8, <2>2
  <2>3. CASE g # f BY <1>3, <1>6, <2>3 DEF SourceInv, DirectoryPart, WritesFollow
  <2> QED BY <2>2, <2>3
<1>10. RemovalsFollow'
  <2> SUFFICES ASSUME NEW g \in Files, files'[g] = "absent", hashes[g] # "none"
               PROVE  g \in odd.missed \/ Notified("remove", g)' \/ (ev.pc = "sleep" /\ ev.file = g)
    BY DEF RemovalsFollow, shadowVars
  <2>2. CASE g = f BY <1>3, <1>7, <2>2
  <2>3. CASE g # f BY <1>3, <1>6, <2>3 DEF SourceInv, DirectoryPart, RemovalsFollow
  <2> QED BY <2>2, <2>3
<1>11. CommitFollows' /\ Registered'
  BY DEF SourceInv, DirectoryPart, CommitFollows, Registered, Committing, shadowVars
<1> QED BY <1>4, <1>5, <1>9, <1>10, <1>11 DEF SourceInv, DirectoryPart

\* The configuration, connections and logins.
LEMMA EnvironmentKeepsSource ==
  ASSUME WatchTypes, SourceInv, Environment
  PROVE  SourceInv'
<1>1. ASSUME NEW f \in Files, NEW content \in Contents, WriteFile(f, content) PROVE SourceInv'
  BY <1>1, WriteKeepsSource DEF WriteFile, actorVars
<1>2. ASSUME NEW c \in Configs, NEW managed \in BOOLEAN, WriteConfig(c, managed) PROVE SourceInv'
  <2>1. PICK e : e = [kind |-> "config", file |-> "none"] OBVIOUS
  <2>2. e \in Events /\ e.kind = "config" /\ e.file = "none" BY <2>1 DEF Events
  <2>3. (\A kind, g : Notified(kind, g) => Notified(kind, g)') /\ Notified("config", "none")'
    BY <1>2, <2>1, <2>2, Notifying DEF WriteConfig
  <2>4. DirectoryPart' BY <1>2, <2>3, DirectoryStays DEF SourceInv, WriteConfig, shadowVars
  <2>5. SnapshotPart' BY <1>2, SnapshotStays DEF SourceInv, WriteConfig, configVars, shadowVars
  <2>6. HashFollows' /\ IdleIsNoStart'
    BY <1>2 DEF SourceInv, ConfigPart, HashFollows, IdleIsNoStart, Renewing, WriteConfig, configVars
  <2>7. ConfigFollows' BY <2>3 DEF ConfigFollows
  <2> QED BY <2>4, <2>5, <2>6, <2>7 DEF SourceInv, ConfigPart
<1>3. ASSUME NEW c \in Channels, dispatchRuntimeAuthUpdate(c) PROVE SourceInv'
  <2>1. PICK val : val = IF c \in runtime THEN Gone ELSE Raw("ws") OBVIOUS
  <2>2. /\ runtime' = IF c \in runtime THEN runtime \ {c} ELSE runtime \union {c}
        /\ current' = [current EXCEPT ![c] = val] /\ odd' = Produced(odd, <<Update(c, val)>>)
    BY <1>3, <2>1 DEF dispatchRuntimeAuthUpdate
  <2>3. odd'.stale = odd.stale /\ odd'.missed = odd.missed /\ odd'.lost = odd.lost
    BY <2>2, OddFields DEF WatchTypes
  <2>4. \A kind, g : Notified(kind, g) => Notified(kind, g)'
    BY <1>3 DEF dispatchRuntimeAuthUpdate, Notified
  <2>5. ConfigPart' BY <1>3, <2>3, <2>4, ConfigStays DEF SourceInv, dispatchRuntimeAuthUpdate, configVars
  <2>6. DirectoryPart' BY <1>3, <2>3, <2>4, DirectoryStays DEF SourceInv, dispatchRuntimeAuthUpdate
  <2>7. current'[c] = val /\ \A i \in Ids : i # c => current'[i] = current[i]
    BY <2>2 DEF WatchTypes, ShadowTypes, Ids
  <2>8. c \notin Files /\ c \notin Keys BY WatcherAssumption
  <2>9. ChannelsFollow'
    <3> SUFFICES ASSUME NEW d \in Channels PROVE current'[d] = RuntimeValue(d)' BY DEF ChannelsFollow
    <3>1. d \in Ids BY DEF Ids
    <3>2. CASE d = c BY <2>1, <2>2, <2>7, <3>2 DEF RuntimeValue
    <3>3. CASE d # c
      BY <2>2, <2>7, <3>1, <3>3 DEF SourceInv, SnapshotPart, ChannelsFollow, RuntimeValue
    <3> QED BY <3>2, <3>3
  <2>10. RefreshDue' <=> RefreshDue BY <1>3 DEF dispatchRuntimeAuthUpdate, RefreshDue
  <2>11. KeysFollow'
    <3> SUFFICES ASSUME NEW k \in Keys \ odd.stale PROVE RefreshDue \/ current'[k] = KeyValue(k)
      BY <1>3, <2>3, <2>10 DEF KeysFollow, KeyValue, dispatchRuntimeAuthUpdate, configVars
    <3>1. current'[k] = current[k] BY <2>7, <2>8 DEF Ids
    <3> QED BY <3>1 DEF SourceInv, SnapshotPart, KeysFollow
  <2>12. FilesFollow'
    <3> SUFFICES ASSUME NEW f \in Files \ odd.stale
                 PROVE  RefreshDue \/ Committing(f) \/ current'[f] = FileValue(f)
      BY <1>3, <2>3, <2>10 DEF FilesFollow, FileValue, Committing, dispatchRuntimeAuthUpdate, configVars
    <3>1. current'[f] = current[f] BY <2>7, <2>8 DEF Ids
    <3> QED BY <3>1 DEF SourceInv, SnapshotPart, FilesFollow
  <2> QED BY <2>5, <2>6, <2>9, <2>11, <2>12 DEF SourceInv, SnapshotPart
<1>4. ASSUME NEW f \in Files, NEW content \in Versions, saveTokenRecord(f, content) PROVE SourceInv'
  <2>1. content \in Contents /\ content # "absent" BY WatcherAssumption DEF Contents
  <2> QED BY <1>4, <2>1, WriteKeepsSource DEF saveTokenRecord
<1> QED BY <1>1, <1>2, <1>3, <1>4 DEF Environment

-----------------------------------------------------------------------------
(***************************************************************************)
(* The event goroutine.                                                    *)
(***************************************************************************)
\* addOrUpdateClientLocked records the hash before the credential is committed.
LEMMA AddKeepsSource ==
  ASSUME WatchTypes, SourceInv, NEW f \in Files, addOrUpdateClientLocked(f),
         UNCHANGED <<files, configFile, configVars, runtime, rl>>,
         ev.pc = "idle" \/ (ev.pc = "sleep" /\ ev.file = f /\ files[f] # "absent"),
         \A kind, g : Notified(kind, g) => Notified(kind, g)' \/ (kind = "write" /\ g = f)
  PROVE  SourceInv'
<1> DEFINE new == Parses(files[f]) /\ hashes[f] # files[f]
<1>1. /\ new => hashes' = [hashes EXCEPT ![f] = files[f]]
      /\ ~new => hashes' = hashes
      /\ UNCHANGED <<fileAuths, current>>
  BY DEF addOrUpdateClientLocked
<1>2. new => ev'.pc = "commit" /\ ev'.file = f /\ ev'.data = files[f]
  BY DEF addOrUpdateClientLocked, EvIdle
<1>3. ~new => ev'.pc = "idle" BY DEF addOrUpdateClientLocked, EvIdle
<1>4. /\ odd'.stale = odd.stale /\ odd'.lost = odd.lost /\ odd.missed \ {f} \subseteq odd'.missed
      /\ ~Parses(files[f]) => odd' = odd
  BY DEF addOrUpdateClientLocked, WatchTypes, Odds
<1>5. \A g \in Files : g # f => hashes'[g] = hashes[g] BY <1>1 DEF WatchTypes, ShadowTypes
<1>6. new => hashes'[f] = files[f] BY <1>1 DEF WatchTypes, ShadowTypes
<1>7. \A g : ~Committing(g) BY DEF Committing
<1>8. new => Committing(f)' BY <1>2 DEF Committing
<1>9. ConfigPart'
  BY <1>4, ConfigStays DEF SourceInv, configVars
<1>10. WritesFollow'
  <2>1. Starting' <=> Starting BY DEF Starting
  <2> SUFFICES ASSUME NEW g \in Files, Parses(files[g]), hashes'[g] # files[g]
               PROVE  Starting \/ Notified("write", g)'
    BY <2>1 DEF WritesFollow
  <2>2. g # f BY <1>1, <1>6
  <2> QED BY <1>5, <2>2 DEF SourceInv, DirectoryPart, WritesFollow
<1>11. RemovalsFollow'
  <2> SUFFICES ASSUME NEW g \in Files, files[g] = "absent", hashes'[g] # "none"
               PROVE  g \in odd'.missed \/ Notified("remove", g)'
    BY DEF RemovalsFollow
  <2>1. ~Parses("absent") BY WatcherAssumption DEF Parses
  <2>2. hashes[g] # "none" BY <1>1, <1>5, <2>1
  <2>3. g \in odd.missed \/ Notified("remove", g)
    BY <2>2 DEF SourceInv, DirectoryPart, RemovalsFollow
  <2>4. g \in odd.missed => g \in odd'.missed BY <1>4, <2>1
  <2> QED BY <2>3, <2>4
<1>12. CommitFollows' BY <1>2, <1>3, <1>6 DEF CommitFollows
<1>13. Registered'
  <2> SUFFICES ASSUME NEW g \in Files, hashes'[g] \in Versions PROVE g \in fileAuths \/ Committing(g)'
    BY <1>1 DEF Registered
  <2>1. CASE new /\ g = f BY <1>8, <2>1
  <2>2. CASE ~(new /\ g = f) BY <1>1, <1>5, <1>7, <2>2 DEF SourceInv, DirectoryPart, Registered
  <2> QED BY <2>1, <2>2
<1>14. RefreshDue' <=> RefreshDue BY DEF RefreshDue
<1>15. ChannelsFollow' /\ KeysFollow'
  BY <1>1, <1>4, <1>14 DEF SourceInv, SnapshotPart, ChannelsFollow, RuntimeValue, KeysFollow, KeyValue, configVars
<1>16. FilesFollow'
  <2> SUFFICES ASSUME NEW g \in Files \ odd.stale
               PROVE  RefreshDue \/ Committing(g)' \/ current[g] = SynthesizeAuthFile(config, hashes'[g])
    BY <1>1, <1>4, <1>14 DEF FilesFollow, FileValue, configVars
  <2>1. CASE new /\ g = f BY <1>8, <2>1
  <2>2. CASE ~(new /\ g = f)
    BY <1>1, <1>5, <1>7, <2>2 DEF SourceInv, SnapshotPart, FilesFollow, FileValue
  <2> QED BY <2>1, <2>2
<1> QED BY <1>9, <1>10, <1>11, <1>12, <1>13, <1>15, <1>16 DEF SourceInv, DirectoryPart, SnapshotPart

\* removeClientLocked: a file with a credential has an entry, so the credential
\* goes.
LEMMA RemoveKeepsSource ==
  ASSUME WatchTypes, SourceInv, NEW f \in Files, removeClientLocked(f),
         UNCHANGED <<diskVars, configVars, runtime, rl>>,
         ev.pc = "sleep", ev.file = f, files[f] = "absent", hashes[f] # "none"
  PROVE  SourceInv'
<1>1. hashes[f] \in Versions => f \in fileAuths BY DEF SourceInv, DirectoryPart, Registered, Committing
<1>2. /\ hashes' = [hashes EXCEPT ![f] = "none"] /\ fileAuths' = fileAuths \ {f}
      /\ current' = (IF f \in fileAuths THEN [current EXCEPT ![f] = Gone] ELSE current)
      /\ ev'.pc = "dispatch"
  BY DEF removeClientLocked, EvIdle
<1>3. /\ odd'.stale = odd.stale \ ({f} \cap fileAuths)
      /\ odd'.lost = odd.lost /\ odd'.missed = odd.missed \ {f}
  <2>1. PICK ups : ups = IF f \in fileAuths THEN <<Update(f, Gone)>> ELSE <<>> OBVIOUS
  <2>2. ups \in Seq(Updates) BY <2>1, ValueTypes, ShortUpdates DEF Ids
  <2>3. PICK p \in Odds : p = Produced(odd, ups) BY <2>2, OddTypes DEF WatchTypes
  <2>4. PICK o \in Odds : o = Marked(p, {}, {f} \cap fileAuths) BY OddTypes
  <2>5. odd' = [o EXCEPT !.missed = @ \ {f}] BY <2>1, <2>3, <2>4 DEF removeClientLocked
  <2>6. odd'.stale = o.stale /\ odd'.lost = o.lost /\ odd'.missed = o.missed \ {f}
    BY <2>5 DEF Odds
  <2>7. p.stale = odd.stale /\ p.missed = odd.missed /\ p.lost = odd.lost
    BY <2>3, OddFields DEF WatchTypes
  <2>8. o.stale = (p.stale \ ({f} \cap fileAuths)) \union {} /\ o.missed = p.missed /\ o.lost = p.lost
    BY <2>4, OddFields
  <2> QED BY <2>6, <2>7, <2>8
<1>4. \A g \in Files : g # f => hashes'[g] = hashes[g] BY <1>2 DEF WatchTypes, ShadowTypes
<1>5. hashes'[f] = "none" BY <1>2 DEF WatchTypes, ShadowTypes
<1>6. /\ f \in fileAuths => current'[f] = Gone
      /\ f \notin fileAuths => current'[f] = current[f]
      /\ \A i \in Ids : i # f => current'[i] = current[i]
  BY <1>2 DEF WatchTypes, ShadowTypes, Ids
<1>7. \A kind, g : Notified(kind, g) => Notified(kind, g)' BY DEF Notified, diskVars
<1>8. \A g : ~Committing(g) /\ ~Committing(g)' BY <1>2 DEF Committing
<1>9. ~Parses("absent") /\ "none" \notin Versions BY WatcherAssumption DEF Parses
<1>10. ConfigPart' BY <1>3, <1>7, ConfigStays DEF SourceInv, configVars, diskVars
<1>11. WritesFollow'
  <2>1. Starting' <=> Starting BY DEF Starting
  <2> QED BY <1>4, <1>7, <1>9, <2>1 DEF SourceInv, DirectoryPart, WritesFollow, diskVars
<1>12. RemovalsFollow'
  <2> SUFFICES ASSUME NEW g \in Files, files[g] = "absent", hashes'[g] # "none"
               PROVE  g \in odd'.missed \/ Notified("remove", g)'
    BY DEF RemovalsFollow, diskVars
  <2>1. g # f /\ hashes[g] # "none" BY <1>4, <1>5
  <2> QED BY <1>3, <1>7, <2>1 DEF SourceInv, DirectoryPart, RemovalsFollow
<1>13. CommitFollows' BY <1>2 DEF CommitFollows
<1>14. Registered' BY <1>2, <1>4, <1>5, <1>8, <1>9 DEF SourceInv, DirectoryPart, Registered
<1>15. RefreshDue' <=> RefreshDue BY DEF RefreshDue
<1>16. ChannelsFollow' /\ KeysFollow'
  <2>1. f \notin Channels /\ f \notin Keys BY WatcherAssumption
  <2>2. \A c \in Channels \union Keys : current'[c] = current[c] BY <1>6, <2>1 DEF Ids
  <2>3. ChannelsFollow' BY <2>2 DEF SourceInv, SnapshotPart, ChannelsFollow, RuntimeValue
  <2>4. KeysFollow'
    BY <1>3, <1>15, <2>1, <2>2 DEF SourceInv, SnapshotPart, KeysFollow, KeyValue, configVars
  <2> QED BY <2>3, <2>4
<1>17. FilesFollow'
  <2> SUFFICES ASSUME NEW g \in Files \ odd'.stale, ~RefreshDue
               PROVE  current'[g] = SynthesizeAuthFile(config, hashes'[g])
    BY <1>15 DEF FilesFollow, FileValue, configVars
  <2>1. CASE g = f
    <3>1. SynthesizeAuthFile(config, hashes'[f]) = Gone BY <1>5, <1>9 DEF SynthesizeAuthFile
    <3>2. CASE f \in fileAuths BY <1>6, <2>1, <3>1, <3>2
    <3>3. CASE f \notin fileAuths
      <4>1. current[f] = SynthesizeAuthFile(config, hashes[f])
        BY <1>3, <1>8, <2>1, <3>3 DEF SourceInv, SnapshotPart, FilesFollow, FileValue
      <4>2. SynthesizeAuthFile(config, hashes[f]) = Gone BY <1>1, <3>3 DEF SynthesizeAuthFile
      <4> QED BY <1>6, <2>1, <3>1, <3>3, <4>1, <4>2
    <3> QED BY <3>2, <3>3
  <2>2. CASE g # f
    <3>1. g \in Ids BY DEF Ids
    <3> QED BY <1>3, <1>4, <1>6, <1>8, <2>2, <3>1 DEF SourceInv, SnapshotPart, FilesFollow, FileValue
  <2> QED BY <2>1, <2>2
<1> QED BY <1>10, <1>11, <1>12, <1>13, <1>14, <1>16, <1>17 DEF SourceInv, DirectoryPart, SnapshotPart

\* The update of one file: it is made from the content that was hashed.
LEMMA PerPathKeepsSource ==
  ASSUME WatchTypes, SourceInv, computePerPathUpdatesLocked
  PROVE  SourceInv'
<1>1. PICK f \in Files : f = ev.file
  BY DEF computePerPathUpdatesLocked, WatchTypes, EvTypes, EvDiscipline
<1>2. PICK new : new = SynthesizeAuthFile(ev.cfg, ev.data) OBVIOUS
<1>0. PICK same : same = IF new = Gone THEN ~ev.known ELSE current[f] = new OBVIOUS
<1>3. PICK ups : ups = IF same THEN <<>> ELSE <<Update(f, new)>> OBVIOUS
<1>4. PICK astray : astray = IF current'[f] = SynthesizeAuthFile(config, ev.data) THEN {} ELSE {f}
  OBVIOUS
<1>5. /\ ev.pc = "commit"
      /\ fileAuths' = (IF new = Gone THEN fileAuths \ {f} ELSE fileAuths \union {f})
      /\ current' = (IF same THEN current ELSE [current EXCEPT ![f] = new])
      /\ ev' = [ev EXCEPT !.pc = "dispatch", !.ups = ups]
      /\ odd' = Marked(Produced(odd, ups), astray, {f})
      /\ UNCHANGED <<diskVars, configVars, hashes, recent, runtime, rl, calls, queueVars>>
  BY <1>0, <1>1, <1>2, <1>3, <1>4 DEF computePerPathUpdatesLocked
<1>6. ev'.pc = "dispatch" BY <1>5 DEF WatchTypes, EvTypes, EvRecords
<1>7. new \in Values
  BY <1>2, <1>5, ValueTypes DEF WatchTypes, EvTypes, EvDiscipline
<1>8. odd'.stale = (odd.stale \ {f}) \union astray /\ odd'.lost = odd.lost /\ odd'.missed = odd.missed
  <2>1. ups \in Seq(Updates) BY <1>3, <1>7, ValueTypes, ShortUpdates DEF Ids
  <2>2. PICK p \in Odds : p = Produced(odd, ups) BY <2>1, OddTypes DEF WatchTypes
  <2>3. p.stale = odd.stale /\ p.missed = odd.missed /\ p.lost = odd.lost
    BY <2>2, OddFields DEF WatchTypes
  <2> QED BY <1>5, <2>2, <2>3, OddFields
<1>9. \A i \in Ids : i # f => current'[i] = current[i] BY <1>5 DEF WatchTypes, ShadowTypes, Ids
<1>10. \A kind, g : Notified(kind, g) => Notified(kind, g)' BY <1>5 DEF Notified, diskVars
<1>11. hashes[f] = ev.data BY <1>1, <1>5 DEF SourceInv, DirectoryPart, CommitFollows
<1>12. \A g : (Committing(g) => g = f) /\ ~Committing(g)' BY <1>1, <1>6 DEF Committing
<1>13. ConfigPart' BY <1>5, <1>8, <1>10, ConfigStays DEF SourceInv, configVars, diskVars
<1>14. WritesFollow'
  <2>1. Starting' <=> Starting BY <1>5 DEF Starting
  <2> QED BY <1>5, <1>10, <2>1 DEF SourceInv, DirectoryPart, WritesFollow, diskVars
<1>15. RemovalsFollow'
  BY <1>5, <1>8, <1>10 DEF SourceInv, DirectoryPart, RemovalsFollow, diskVars
<1>16. CommitFollows' BY <1>6 DEF CommitFollows
<1>17. Registered'
  <2>1. new = Gone => hashes[f] \notin Versions
    <3>1. "gone" \notin Versions BY WatcherAssumption
    <3> QED BY <1>2, <1>11, <3>1 DEF SynthesizeAuthFile, Gone
  <2> QED BY <1>5, <1>12, <2>1 DEF SourceInv, DirectoryPart, Registered
<1>18. RefreshDue' <=> RefreshDue BY <1>5 DEF RefreshDue
<1>19. ChannelsFollow' /\ KeysFollow'
  <2>1. f \notin Channels /\ f \notin Keys BY WatcherAssumption
  <2>2. \A c \in Channels \union Keys : current'[c] = current[c] BY <1>9, <2>1 DEF Ids
  <2>3. ChannelsFollow' BY <1>5, <2>2 DEF SourceInv, SnapshotPart, ChannelsFollow, RuntimeValue
  <2>4. KeysFollow'
    BY <1>5, <1>8, <1>18, <2>1, <2>2 DEF SourceInv, SnapshotPart, KeysFollow, KeyValue, configVars
  <2> QED BY <2>3, <2>4
<1>20. FilesFollow'
  <2> SUFFICES ASSUME NEW g \in Files \ odd'.stale, ~RefreshDue
               PROVE  current'[g] = SynthesizeAuthFile(config, hashes[g])
    BY <1>5, <1>18 DEF FilesFollow, FileValue, configVars
  <2>1. CASE g = f
    <3>1. current'[f] = SynthesizeAuthFile(config, ev.data) BY <1>4, <1>8, <2>1
    <3> QED BY <1>11, <2>1, <3>1
  <2>2. CASE g # f
    <3>1. g \in Ids BY DEF Ids
    <3> QED BY <1>8, <1>9, <1>12, <2>2, <3>1 DEF SourceInv, SnapshotPart, FilesFollow, FileValue
  <2> QED BY <2>1, <2>2
<1> QED BY <1>13, <1>14, <1>15, <1>16, <1>17, <1>19, <1>20
     DEF SourceInv, DirectoryPart, SnapshotPart

\* Steps that only move the event goroutine on, from a file that needs nothing.
LEMMA MoveKeepsSource ==
  ASSUME SourceInv, UNCHANGED <<files, configFile, configVars, hashes, fileAuths, current, runtime, rl>>,
         ev.pc # "commit", ev'.pc # "commit",
         odd'.stale = odd.stale, odd'.lost = odd.lost, odd.missed \subseteq odd'.missed,
         \A kind \in {"write", "config"} : \A f : Notified(kind, f) => Notified(kind, f)',
         \A f \in Files : Notified("remove", f) \/ (ev.pc = "sleep" /\ ev.file = f) =>
            \/ Notified("remove", f)' \/ (ev'.pc = "sleep" /\ ev'.file = f)
            \/ f \in odd'.missed \/ hashes[f] = "none" \/ files[f] # "absent"
  PROVE  SourceInv'
<1>1. ConfigPart' BY ConfigStays DEF SourceInv, configVars
<1>2. \A g : ~Committing(g) /\ ~Committing(g)' BY DEF Committing
<1>3. WritesFollow'
  <2>1. Starting' <=> Starting BY DEF Starting
  <2> QED BY <2>1 DEF SourceInv, DirectoryPart, WritesFollow
<1>4. RemovalsFollow' BY DEF SourceInv, DirectoryPart, RemovalsFollow
<1>5. CommitFollows' /\ Registered' BY <1>2 DEF SourceInv, DirectoryPart, CommitFollows, Registered
<1>6. RefreshDue' <=> RefreshDue BY DEF RefreshDue
<1>7. ChannelsFollow' BY DEF SourceInv, SnapshotPart, ChannelsFollow, RuntimeValue
<1>8. KeysFollow' BY <1>6 DEF SourceInv, SnapshotPart, KeysFollow, KeyValue, configVars
<1>9. FilesFollow' BY <1>2, <1>6 DEF SourceInv, SnapshotPart, FilesFollow, FileValue, configVars
<1> QED BY <1>1, <1>3, <1>4, <1>5, <1>7, <1>8, <1>9 DEF SourceInv, DirectoryPart, SnapshotPart

\* The event goroutine.
LEMMA EventKeepsSource ==
  ASSUME WatchTypes, SourceInv, EventStep
  PROVE  SourceInv'
<1>1. CASE handleConfigEvent
  <2>1. \A kind \in {"write", "remove"} : \A f : Notified(kind, f) => Notified(kind, f)'
    BY <1>1, Taking DEF handleConfigEvent
  <2>2. DirectoryPart' BY <1>1, <2>1, DirectoryStays DEF SourceInv, handleConfigEvent, shadowVars, actorVars
  <2>3. SnapshotPart' BY <1>1, SnapshotStays DEF SourceInv, handleConfigEvent, shadowVars, actorVars
  <2>4. ConfigFollows' BY <1>1 DEF handleConfigEvent, ConfigFollows
  <2>5. HashFollows' /\ IdleIsNoStart'
    BY <1>1 DEF handleConfigEvent, actorVars, SourceInv, ConfigPart, HashFollows, IdleIsNoStart, Renewing
  <2> QED BY <2>2, <2>3, <2>4, <2>5 DEF SourceInv, ConfigPart
<1>2. CASE handleWriteEvent
  <2>1. PICK f \in Files : f = Head(events).file BY <1>2, HeadTypes DEF handleWriteEvent
  <2>2. \A kind, g : Notified(kind, g) => Notified(kind, g)' \/ (kind = "write" /\ g = f)
    BY <1>2, <2>1, Taking DEF handleWriteEvent
  <2> QED BY <1>2, <2>1, <2>2, AddKeepsSource DEF handleWriteEvent
<1>3. ASSUME NEW early \in BOOLEAN, handleRemoveEvent(early) PROVE SourceInv'
  <2>1. PICK f \in Files : f = Head(events).file BY <1>3, HeadTypes DEF handleRemoveEvent
  <2>2. \A kind, g : Notified(kind, g) => Notified(kind, g)' \/ (kind = "remove" /\ g = f)
    BY <1>3, <2>1, Taking DEF handleRemoveEvent
  <2>3. CASE early
    <3>1. odd' = [odd EXCEPT !.missed = @ \union {f}] /\ ev' = ev
      BY <1>3, <2>1, <2>3 DEF handleRemoveEvent
    <3>2. odd'.stale = odd.stale /\ odd'.lost = odd.lost /\ odd'.missed = odd.missed \union {f}
      BY <3>1 DEF WatchTypes, Odds
    <3> QED BY <1>3, <2>2, <3>1, <3>2, MoveKeepsSource DEF handleRemoveEvent
  <2>4. CASE ~early
    <3>1. ev'.pc = "sleep" /\ ev'.file = f /\ odd' = odd
      BY <1>3, <2>1, <2>4 DEF handleRemoveEvent, EvIdle
    <3> QED BY <1>3, <2>2, <3>1, MoveKeepsSource DEF handleRemoveEvent
  <2> QED BY <2>3, <2>4
<1>4. CASE handleReplace
  <2>1. PICK f \in Files : f = ev.file BY <1>4 DEF handleReplace, WatchTypes, EvTypes, EvDiscipline
  <2>2. \A kind, g : Notified(kind, g) => Notified(kind, g)' BY <1>4 DEF Notified, handleReplace, diskVars
  <2>3. CASE files[f] # "absent"
    <3>1. addOrUpdateClientLocked(f) BY <1>4, <2>1, <2>3 DEF handleReplace
    <3> QED BY <1>4, <2>1, <2>2, <2>3, <3>1, AddKeepsSource DEF handleReplace, diskVars
  <2>4. CASE files[f] = "absent" /\ hashes[f] # "none"
    <3>1. removeClientLocked(f) BY <1>4, <2>1, <2>4 DEF handleReplace
    <3> QED BY <1>4, <2>1, <2>4, <3>1, RemoveKeepsSource DEF handleReplace
  <2>5. CASE files[f] = "absent" /\ hashes[f] = "none"
    <3>1. ev' = EvIdle /\ UNCHANGED <<hashes, fileAuths, current, odd>>
      BY <1>4, <2>1, <2>5 DEF handleReplace
    <3>2. ev'.pc = "idle" BY <3>1 DEF EvIdle
    <3> QED BY <1>4, <2>1, <2>2, <2>5, <3>1, <3>2, MoveKeepsSource DEF handleReplace, diskVars
  <2> QED BY <2>3, <2>4, <2>5
<1>5. CASE computePerPathUpdatesLocked BY <1>5, PerPathKeepsSource
<1>6. CASE dispatchEvent
  <2>1. \A kind, g : Notified(kind, g) => Notified(kind, g)' BY <1>6 DEF Notified, dispatchEvent, diskVars
  <2>2. ev'.pc = "idle" BY <1>6 DEF dispatchEvent, EvIdle
  <2> QED BY <1>6, <2>1, <2>2, MoveKeepsSource DEF dispatchEvent, diskVars, shadowVars
<1> QED BY <1>1, <1>2, <1>3, <1>4, <1>5, <1>6 DEF EventStep

-----------------------------------------------------------------------------
(***************************************************************************)
(* Reloads.                                                                *)
(***************************************************************************)
\* A reload moves on alone.
Moves(r, pc, start) ==
  rl'[r].pc = pc /\ rl'[r].start = start /\ \A s \in Reloaders : s # r => rl'[s] = rl[s]

\* Where each step leads.
LEMMA ReloadMoves ==
  ASSUME WatchTypes, NEW r \in Reloaders
  PROVE  /\ reloadConfigIfChanged(r) => \/ configUnchanged /\ rl' = rl
                                        \/ ~configUnchanged /\ Moves(r, "load", rl[r].start)
         /\ loadConfig(r) => Moves(r, IF configFile.loads THEN "set" ELSE "idle", rl[r].start)
         /\ reloadConfig(r) => Moves(r, "filter", rl[r].start)
         /\ reloadClients(r) => Moves(r, IF rl[r].start THEN "rescan" ELSE "scan", rl[r].start)
         /\ rescanAuth(r) => Moves(r, "scan", rl[r].start)
         /\ snapshotCoreAuths(r) => Moves(r, "prepare", rl[r].start)
         /\ prepareAuthUpdatesLocked(r) => Moves(r, "dispatch", rl[r].start)
         /\ dispatchRefresh(r) => Moves(r, IF rl[r].start THEN "idle" ELSE "hash", FALSE)
         /\ recordConfigHash(r) => Moves(r, "idle", FALSE)
<1>0. rl \in [Reloaders -> RlRecords] /\ rl[r] \in RlRecords BY DEF WatchTypes, RlTypes
<1>1. ASSUME reloadConfigIfChanged(r)
      PROVE  \/ configUnchanged /\ rl' = rl
             \/ ~configUnchanged /\ Moves(r, "load", rl[r].start)
  BY <1>0, <1>1 DEF reloadConfigIfChanged, Moves, RlRecords
<1>9. ASSUME loadConfig(r)
      PROVE  Moves(r, IF configFile.loads THEN "set" ELSE "idle", rl[r].start)
  BY <1>0, <1>9 DEF loadConfig, Moves, RlRecords
<1>2. ASSUME reloadConfig(r) PROVE Moves(r, "filter", rl[r].start)
  <2>1. PICK a : a = (config.excluded # rl[r].cfg.excluded) OBVIOUS
  <2>2. PICK b : b = (config.retry # rl[r].cfg.retry) OBVIOUS
  <2>3. rl' = [rl EXCEPT ![r].pc = "filter", ![r].affected = a, ![r].force = b]
    BY <1>2, <2>1, <2>2, Zenon DEF reloadConfig
  <2> QED BY <1>0, <2>3 DEF Moves, RlRecords
<1>3. ASSUME reloadClients(r)
      PROVE  Moves(r, IF rl[r].start THEN "rescan" ELSE "scan", rl[r].start)
  BY <1>0, <1>3 DEF reloadClients, reload, Moves, RlRecords
<1>4. ASSUME rescanAuth(r) PROVE Moves(r, "scan", rl[r].start)
  BY <1>0, <1>4 DEF rescanAuth, reload, Moves, RlRecords
<1>5. ASSUME snapshotCoreAuths(r) PROVE Moves(r, "prepare", rl[r].start)
  BY <1>0, <1>5 DEF snapshotCoreAuths, Moves, RlRecords
<1>6. ASSUME prepareAuthUpdatesLocked(r) PROVE Moves(r, "dispatch", rl[r].start)
  <2>1. PICK ups : rl' = [rl EXCEPT ![r].pc = "dispatch", ![r].ups = ups]
    BY <1>6 DEF prepareAuthUpdatesLocked
  <2> QED BY <1>0, <2>1 DEF Moves, RlRecords
<1>7. ASSUME dispatchRefresh(r) PROVE Moves(r, IF rl[r].start THEN "idle" ELSE "hash", FALSE)
  BY <1>0, <1>7 DEF dispatchRefresh, Moves, RlRecords, RlIdle
<1>8. ASSUME recordConfigHash(r) PROVE Moves(r, "idle", FALSE)
  BY <1>0, <1>8 DEF recordConfigHash, Moves, RlRecords, RlIdle
<1> QED BY <1>1, <1>2, <1>3, <1>4, <1>5, <1>6, <1>7, <1>8, <1>9

\* What the other reloads do goes on.
LEMMA MovesKeep ==
  ASSUME NEW r \in Reloaders, NEW pc, NEW start, Moves(r, pc, start)
  PROVE  /\ pc \in {"filter", "rescan", "scan", "prepare"} => RefreshDue'
         /\ rl[r].pc \notin {"filter", "rescan", "scan", "prepare"} => (RefreshDue => RefreshDue')
         /\ start /\ pc \in {"filter", "rescan"} => Starting'
         /\ ~(rl[r].start /\ rl[r].pc \in {"filter", "rescan"}) => (Starting => Starting')
         /\ ~start /\ pc # "idle" => Recording'
         /\ (rl[r].start \/ rl[r].pc = "idle") => (Recording => Recording')
         /\ ~start /\ pc \notin {"idle", "load", "set"} => Renewing'
         /\ (rl[r].start \/ rl[r].pc \in {"idle", "load", "set"}) => (Renewing => Renewing')
BY DEF Moves, RefreshDue, Starting, Recording, Renewing

\* Steps of a reload that leave configuration and its hash alone.
LEMMA MovesKeepConfig ==
  ASSUME ConfigPart, NEW r \in Reloaders, NEW pc, NEW start, Moves(r, pc, start),
         UNCHANGED <<config, configHash, configFile>>, odd'.lost = odd.lost,
         timer => timer', Notified("config", "none") => Notified("config", "none")',
         rl[r].pc # "idle", rl[r].start \/ rl[r].pc \notin {"load", "set"},
         pc = "idle" => rl[r].start /\ ~start, pc # "idle" => start = rl[r].start \/ ~start,
         pc \notin {"load", "set"}
  PROVE  ConfigPart'
<1>1. IdleIsNoStart' BY DEF ConfigPart, IdleIsNoStart, Moves
<1>2. (Recording => Recording') /\ (Renewing => Renewing')
  BY DEF Moves, Recording, Renewing
<1>3. ConfigFollows' BY <1>2 DEF ConfigPart, ConfigFollows
<1>4. HashFollows' BY <1>2 DEF ConfigPart, HashFollows
<1> QED BY <1>1, <1>3, <1>4 DEF ConfigPart

\* Steps that leave the directory alone.
LEMMA MovesKeepDirectory ==
  ASSUME DirectoryPart, Starting => Starting',
         UNCHANGED <<files, hashes, fileAuths, ev>>, odd'.missed = odd.missed,
         \A kind \in {"write", "remove"} : \A f : Notified(kind, f) => Notified(kind, f)'
  PROVE  DirectoryPart'
<1>2. WritesFollow' BY DEF DirectoryPart, WritesFollow
<1>3. RemovalsFollow' BY DEF DirectoryPart, RemovalsFollow
<1>4. CommitFollows' BY DEF DirectoryPart, CommitFollows
<1>5. Registered' BY DEF DirectoryPart, Registered, Committing
<1> QED BY <1>2, <1>3, <1>4, <1>5 DEF DirectoryPart

\* While a refresh is to come, only the channels are determined.
LEMMA DueKeepsSnapshot ==
  ASSUME SnapshotPart, RefreshDue', UNCHANGED runtime, \A c \in Channels : current'[c] = current[c]
  PROVE  SnapshotPart'
BY DEF SnapshotPart, ChannelsFollow, KeysFollow, FilesFollow, RuntimeValue

\* Steps that leave the snapshot and what it is made from alone.
LEMMA MovesKeepSnapshot ==
  ASSUME SnapshotPart, RefreshDue => RefreshDue',
         UNCHANGED <<current, runtime, config, hashes, ev>>, odd'.stale = odd.stale
  PROVE  SnapshotPart'
<1>2. ChannelsFollow' BY DEF SnapshotPart, ChannelsFollow, RuntimeValue
<1>3. KeysFollow' BY DEF SnapshotPart, KeysFollow, KeyValue
<1>4. FilesFollow' BY DEF SnapshotPart, FilesFollow, FileValue, Committing
<1> QED BY <1>2, <1>3, <1>4 DEF SnapshotPart

\* The hash check: a configuration that is taken for the one that is loaded is,
\* or a reload that changes it is under way.
LEMMA LoadKeepsSource ==
  ASSUME WatchTypes, SourceInv, NEW r \in Reloaders, reloadConfigIfChanged(r),
         UNCHANGED <<diskVars, config, configHash, shadowVars, ev, odd>>
  PROVE  SourceInv'
<1>1. rl[r].pc = "idle" /\ ~rl[r].start
  BY DEF reloadConfigIfChanged, SourceInv, ConfigPart, IdleIsNoStart
<1>2. \A kind, f : Notified(kind, f) => Notified(kind, f)' BY DEF Notified, diskVars
<1>3. CASE configUnchanged /\ rl' = rl
  <2>1. DirectoryPart' BY <1>2, <1>3, DirectoryStays DEF SourceInv, diskVars, shadowVars
  <2>2. SnapshotPart' BY <1>3, SnapshotStays DEF SourceInv, shadowVars
  <2>3. Renewing => Recording BY DEF Renewing, Recording
  <2>4. ConfigPart'
    BY <1>3, <2>3 DEF SourceInv, ConfigPart, ConfigFollows, HashFollows, IdleIsNoStart, configUnchanged,
       Recording, Renewing, diskVars
  <2> QED BY <2>1, <2>2, <2>4 DEF SourceInv
<1>4. CASE Moves(r, "load", rl[r].start)
  <2>1. (RefreshDue => RefreshDue') /\ (Starting => Starting') /\ Recording' /\ (Renewing => Renewing')
    BY <1>1, <1>4, MovesKeep
  <2>2. DirectoryPart' BY <1>2, <2>1, MovesKeepDirectory DEF SourceInv, diskVars, shadowVars
  <2>3. SnapshotPart' BY <2>1, MovesKeepSnapshot DEF SourceInv, shadowVars
  <2>4. ConfigFollows' BY <2>1 DEF ConfigFollows
  <2>5. HashFollows' BY <2>1 DEF SourceInv, ConfigPart, HashFollows
  <2>6. IdleIsNoStart' BY <1>1, <1>4 DEF SourceInv, ConfigPart, IdleIsNoStart, Moves
  <2> QED BY <2>2, <2>3, <2>4, <2>5, <2>6 DEF SourceInv, ConfigPart
<1> QED BY <1>3, <1>4, ReloadMoves

\* What a refresh computes for files, keys and channels.
LEMMA NewStateForm ==
  ASSUME NEW r, rl[r].cfg \in Configs, runtime \subseteq Channels
  PROVE  /\ \A f \in Files : newState(r)[f] = SynthesizeAuthFile(rl[r].cfg, rl[r].scan[f])
         /\ \A k \in Keys : newState(r)[k] = IF k \in rl[r].cfg.keys THEN Raw("key") ELSE Gone
         /\ \A c \in Channels : newState(r)[c] = RuntimeValue(c)
<1>1. ASSUME NEW f \in Files
      PROVE  newState(r)[f] = SynthesizeAuthFile(rl[r].cfg, rl[r].scan[f])
  <2>1. f \in Ids BY DEF Ids
  <2>2. f \notin rl[r].cfg.keys /\ f \notin runtime BY WatcherAssumption
  <2> QED BY <2>1, <2>2 DEF newState
<1>2. ASSUME NEW k \in Keys
      PROVE  newState(r)[k] = IF k \in rl[r].cfg.keys THEN Raw("key") ELSE Gone
  <2>1. k \in Ids BY DEF Ids
  <2>2. k \notin Files /\ k \notin runtime BY WatcherAssumption
  <2> QED BY <2>1, <2>2 DEF newState
<1>3. ASSUME NEW c \in Channels PROVE newState(r)[c] = RuntimeValue(c)
  <2>1. c \in Ids BY DEF Ids
  <2>2. c \notin Files /\ c \notin Keys /\ c \notin rl[r].cfg.keys BY WatcherAssumption
  <2> QED BY <2>1, <2>2 DEF newState, RuntimeValue
<1> QED BY <1>1, <1>2, <1>3

\* The refresh marks what it did not make from the recorded sources.
LEMMA PrepareKeepsSource ==
  ASSUME WatchTypes, SourceInv, NEW r \in Reloaders, prepareAuthUpdatesLocked(r)
  PROVE  SourceInv'
<1>1. rl[r].pc = "prepare" /\ rl[r].cfg \in Configs /\ runtime \subseteq Channels
  BY DEF prepareAuthUpdatesLocked, WatchTypes, RlTypes, RlDiscipline, ShadowTypes
<1>2. Moves(r, "dispatch", rl[r].start) BY ReloadMoves
<1>3. \A kind, f : Notified(kind, f) => Notified(kind, f)'
  BY DEF Notified, prepareAuthUpdatesLocked, diskVars
<1>4. PICK fits : fits = {i \in Files \union Keys :
                            /\ rl[r].cfg = config
                            /\ i \in Files => hashes[i] = HashOf(rl[r].scan[i])}
  OBVIOUS
<1>5. odd'.stale = (odd.stale \ fits) \union ((Files \union Keys) \ fits)
      /\ odd'.missed = odd.missed /\ odd'.lost = odd.lost
  <2>1. PICK changed : changed = {i \in Ids : newState(r)[i] # current[i]
                                              \/ (rl[r].force /\ newState(r)[i] # Gone)}
    OBVIOUS
  <2>2. PICK ups : ups = UpdatesOf(changed, newState(r)) OBVIOUS
  <2>3. odd' = Marked(Produced(odd, ups), (Files \union Keys) \ fits, fits)
    BY <1>4, <2>1, <2>2 DEF prepareAuthUpdatesLocked, UpdatesOf
  <2>4. changed \subseteq Ids BY <2>1
  <2>5. ups \in Seq(Updates) BY <1>1, <2>2, <2>4, NewStateTypes, UpdatesOfSet
  <2>6. PICK p \in Odds : p = Produced(odd, ups) BY <2>5, OddTypes DEF WatchTypes
  <2>7. p.stale = odd.stale /\ p.missed = odd.missed /\ p.lost = odd.lost
    BY <2>6, OddFields DEF WatchTypes
  <2> QED BY <2>3, <2>6, <2>7, OddFields
<1>6. current' = newState(r) /\ UNCHANGED <<diskVars, configVars, hashes, fileAuths, runtime, ev>>
  BY DEF prepareAuthUpdatesLocked
<1>7. Starting => Starting' BY <1>1, <1>2, MovesKeep
<1>8. ConfigPart' BY <1>1, <1>2, <1>3, <1>5, <1>6, MovesKeepConfig DEF SourceInv, configVars, diskVars
<1>9. DirectoryPart' BY <1>3, <1>5, <1>6, <1>7, MovesKeepDirectory DEF SourceInv, diskVars
<1>10. ChannelsFollow' BY <1>1, <1>6, NewStateForm DEF ChannelsFollow, RuntimeValue
<1>11. KeysFollow'
  <2> SUFFICES ASSUME NEW k \in Keys \ odd'.stale PROVE current'[k] = KeyValue(k)'
    BY DEF KeysFollow
  <2>1. rl[r].cfg = config BY <1>4, <1>5
  <2> QED BY <1>1, <1>6, <2>1, NewStateForm DEF KeyValue, configVars
<1>12. FilesFollow'
  <2> SUFFICES ASSUME NEW f \in Files \ odd'.stale PROVE current'[f] = FileValue(f)'
    BY DEF FilesFollow
  <2>1. rl[r].cfg = config /\ hashes[f] = HashOf(rl[r].scan[f]) BY <1>4, <1>5
  <2>2. {"none", "absent", "empty"} \cap Versions = {} BY WatcherAssumption
  <2>3. SynthesizeAuthFile(config, HashOf(rl[r].scan[f])) = SynthesizeAuthFile(config, rl[r].scan[f])
    BY <2>2 DEF SynthesizeAuthFile, HashOf
  <2> QED BY <1>1, <1>6, <2>1, <2>3, NewStateForm DEF FileValue, configVars
<1> QED BY <1>8, <1>9, <1>10, <1>11, <1>12 DEF SourceInv, SnapshotPart

\* The other steps of a reload.
LEMMA ReloadKeepsSource ==
  ASSUME WatchTypes, SourceInv, NEW r \in Reloaders, ReloadStep(r)
  PROVE  SourceInv'
<1>1. CASE reloadConfig(r)
  <2>1. Moves(r, "filter", rl[r].start) /\ rl[r].pc = "set" BY <1>1, ReloadMoves DEF reloadConfig
  <2>2. \A kind, f : Notified(kind, f) => Notified(kind, f)' BY <1>1 DEF Notified, reloadConfig, diskVars
  <2>3. RefreshDue' /\ (Starting => Starting') BY <2>1, MovesKeep
  <2>4. DirectoryPart'
    BY <1>1, <2>2, <2>3, MovesKeepDirectory DEF SourceInv, reloadConfig, diskVars, shadowVars
  <2>5. SnapshotPart' BY <1>1, <2>3, DueKeepsSnapshot DEF SourceInv, reloadConfig, shadowVars
  <2>6. IdleIsNoStart' BY <2>1 DEF SourceInv, ConfigPart, IdleIsNoStart, Moves
  <2>7. ~rl[r].start BY <2>1 DEF SourceInv, ConfigPart, IdleIsNoStart
  <2>8. Recording' /\ Renewing' BY <2>1, <2>7, MovesKeep
  <2> QED BY <2>4, <2>5, <2>6, <2>8 DEF SourceInv, ConfigPart, ConfigFollows, HashFollows
<1>2. CASE reloadClients(r)
  <2>1. Moves(r, IF rl[r].start THEN "rescan" ELSE "scan", rl[r].start) /\ rl[r].pc = "filter"
    BY <1>2, ReloadMoves DEF reloadClients
  <2>2. \A kind, f : Notified(kind, f) => Notified(kind, f)' BY <1>2 DEF Notified, reloadClients, diskVars
  <2>3. PICK dropped : dropped = IF rl[r].affected
                                 THEN {i \in Files \union Keys : current[i] # Gone} ELSE {}
    OBVIOUS
  <2>4. /\ current' = [i \in Ids |-> IF i \in dropped THEN Gone ELSE current[i]]
        /\ odd' = [odd EXCEPT !.untold = @ \union dropped]
    BY <1>2, <2>3 DEF reloadClients
  <2>5. odd'.stale = odd.stale /\ odd'.missed = odd.missed /\ odd'.lost = odd.lost
    BY <2>4 DEF WatchTypes, Odds
  <2>6. \A c \in Channels : current'[c] = current[c]
    <3>1. \A c \in Channels : c \in Ids /\ c \notin dropped BY <2>3, WatcherAssumption DEF Ids
    <3> QED BY <2>4, <3>1
  <2>7. RefreshDue' BY <2>1, MovesKeep
  <2>8. Starting => Starting' BY <2>1 DEF Moves, Starting
  <2>9. ConfigPart'
    BY <1>2, <2>1, <2>2, <2>5, MovesKeepConfig DEF SourceInv, reloadClients, configVars, diskVars
  <2>10. DirectoryPart'
    BY <1>2, <2>2, <2>5, <2>8, MovesKeepDirectory DEF SourceInv, reloadClients, diskVars
  <2>11. SnapshotPart' BY <1>2, <2>6, <2>7, DueKeepsSnapshot DEF SourceInv, reloadClients
  <2> QED BY <2>9, <2>10, <2>11 DEF SourceInv
<1>3. CASE rescanAuth(r)
  <2>1. Moves(r, "scan", rl[r].start) /\ rl[r].pc = "rescan" BY <1>3, ReloadMoves DEF rescanAuth
  <2>2. \A kind, f : Notified(kind, f) => Notified(kind, f)' BY <1>3 DEF Notified, rescanAuth, diskVars
  <2>3. RefreshDue' BY <2>1, MovesKeep
  <2>4. ConfigPart'
    BY <1>3, <2>1, <2>2, MovesKeepConfig DEF SourceInv, rescanAuth, configVars, diskVars
  <2>5. SnapshotPart' BY <1>3, <2>3, DueKeepsSnapshot DEF SourceInv, rescanAuth
  <2>6. /\ \A f \in Files : hashes'[f] = HashOf(files[f])
        /\ fileAuths' = {f \in Files : files[f] \in Versions} /\ files' = files
        /\ ev' = ev /\ ev.pc = "idle"
    BY <1>3 DEF rescanAuth, diskVars
  <2>7. WritesFollow'
    <3>1. \A content : Parses(content) => HashOf(content) = content
      BY WatcherAssumption DEF Parses, HashOf
    <3> QED BY <2>6, <3>1 DEF WritesFollow
  <2>8. RemovalsFollow' BY <2>6 DEF RemovalsFollow, HashOf
  <2>9. CommitFollows' /\ Registered'
    <3>1. "none" \notin Versions BY WatcherAssumption
    <3> QED BY <2>6, <3>1 DEF CommitFollows, Registered, HashOf
  <2> QED BY <2>4, <2>5, <2>7, <2>8, <2>9 DEF SourceInv, DirectoryPart
<1>4. CASE snapshotCoreAuths(r)
  <2>1. Moves(r, "prepare", rl[r].start) /\ rl[r].pc = "scan" BY <1>4, ReloadMoves DEF snapshotCoreAuths
  <2>2. \A kind, f : Notified(kind, f) => Notified(kind, f)'
    BY <1>4 DEF Notified, snapshotCoreAuths, diskVars
  <2>3. RefreshDue' /\ (Starting => Starting') BY <2>1, MovesKeep
  <2>4. ConfigPart'
    BY <1>4, <2>1, <2>2, MovesKeepConfig DEF SourceInv, snapshotCoreAuths, configVars, diskVars
  <2>5. DirectoryPart'
    BY <1>4, <2>2, <2>3, MovesKeepDirectory DEF SourceInv, snapshotCoreAuths, diskVars, shadowVars
  <2>6. SnapshotPart' BY <1>4, <2>3, DueKeepsSnapshot DEF SourceInv, snapshotCoreAuths, shadowVars
  <2> QED BY <2>4, <2>5, <2>6 DEF SourceInv
<1>5. CASE prepareAuthUpdatesLocked(r) BY <1>5, PrepareKeepsSource
<1>6. CASE dispatchRefresh(r)
  <2>1. Moves(r, IF rl[r].start THEN "idle" ELSE "hash", FALSE) /\ rl[r].pc = "dispatch"
    BY <1>6, ReloadMoves DEF dispatchRefresh
  <2>2. \A kind, f : Notified(kind, f) => Notified(kind, f)'
    BY <1>6 DEF Notified, dispatchRefresh, diskVars
  <2>3. (RefreshDue => RefreshDue') /\ (Starting => Starting') BY <2>1, MovesKeep
  <2>4. ConfigPart'
    BY <1>6, <2>1, <2>2, MovesKeepConfig DEF SourceInv, dispatchRefresh, configVars, diskVars
  <2>5. DirectoryPart'
    BY <1>6, <2>2, <2>3, MovesKeepDirectory DEF SourceInv, dispatchRefresh, diskVars, shadowVars
  <2>6. SnapshotPart'
    BY <1>6, <2>3, MovesKeepSnapshot DEF SourceInv, dispatchRefresh, configVars, shadowVars
  <2> QED BY <2>4, <2>5, <2>6 DEF SourceInv
<1>7. CASE recordConfigHash(r)
  <2>1. Moves(r, "idle", FALSE) /\ rl[r].pc = "hash" BY <1>7, ReloadMoves DEF recordConfigHash
  <2>2. \A kind, f : Notified(kind, f) => Notified(kind, f)'
    BY <1>7 DEF Notified, recordConfigHash, diskVars
  <2>3. (RefreshDue => RefreshDue') /\ (Starting => Starting') BY <2>1, MovesKeep
  <2>4. odd'.stale = odd.stale /\ odd'.missed = odd.missed /\ odd'.lost = (configFile # config)
    BY <1>7 DEF recordConfigHash, WatchTypes, Odds
  <2>5. ConfigFollows' /\ HashFollows'
    BY <1>7, <2>4 DEF recordConfigHash, ConfigFollows, HashFollows, diskVars
  <2>6. IdleIsNoStart' BY <2>1 DEF SourceInv, ConfigPart, IdleIsNoStart, Moves
  <2>7. DirectoryPart'
    BY <1>7, <2>2, <2>3, <2>4, MovesKeepDirectory DEF SourceInv, recordConfigHash, diskVars, shadowVars
  <2>8. SnapshotPart'
    BY <1>7, <2>3, <2>4, MovesKeepSnapshot DEF SourceInv, recordConfigHash, configVars, shadowVars
  <2> QED BY <2>5, <2>6, <2>7, <2>8 DEF SourceInv, ConfigPart
<1>8. CASE loadConfig(r)
  <2>1. Moves(r, IF configFile.loads THEN "set" ELSE "idle", rl[r].start) /\ rl[r].pc = "load"
    BY <1>8, ReloadMoves DEF loadConfig
  <2>2. \A kind, f : Notified(kind, f) => Notified(kind, f)' BY <1>8 DEF Notified, loadConfig, diskVars
  <2>3. (RefreshDue => RefreshDue') /\ (Starting => Starting') /\ (Renewing => Renewing')
    BY <2>1, MovesKeep
  <2>4. ~rl[r].start BY <2>1 DEF SourceInv, ConfigPart, IdleIsNoStart
  <2>5. configFile.loads => Recording' BY <2>1, <2>4, MovesKeep
  <2>6. ConfigFollows' BY <1>8, <2>5 DEF ConfigFollows, loadConfig, diskVars
  <2>7. HashFollows' BY <1>8, <2>3 DEF SourceInv, ConfigPart, HashFollows, loadConfig, configVars
  <2>8. IdleIsNoStart' BY <2>1, <2>4 DEF SourceInv, ConfigPart, IdleIsNoStart, Moves
  <2>9. DirectoryPart'
    BY <1>8, <2>2, <2>3, MovesKeepDirectory DEF SourceInv, loadConfig, diskVars, shadowVars
  <2>10. SnapshotPart'
    BY <1>8, <2>3, MovesKeepSnapshot DEF SourceInv, loadConfig, configVars, shadowVars
  <2> QED BY <2>6, <2>7, <2>8, <2>9, <2>10 DEF SourceInv, ConfigPart
<1> QED BY <1>1, <1>2, <1>3, <1>4, <1>5, <1>6, <1>7, <1>8 DEF ReloadStep

-----------------------------------------------------------------------------
(***************************************************************************)
(* Logins, the queue and all steps.                                        *)
(***************************************************************************)
\* The hook of a login puts a credential into the snapshot that has no hash.
LEMMA HookKeepsSource ==
  ASSUME WatchTypes, SourceInv, NEW c \in calls, dispatchPersistedAuthUpdate(c)
  PROVE  SourceInv'
<1>1. c.id \in Files BY DEF dispatchPersistedAuthUpdate, WatchTypes, CallTypes
<1>2. PICK ups : ups = <<Update(c.id, c.val)>> OBVIOUS
<1>3. odd' = Marked(Produced(odd, ups), {c.id}, {}) BY <1>2 DEF dispatchPersistedAuthUpdate
<1>4. ups \in Seq(Updates)
  <2>1. c.id \in Ids /\ c.val \in Values BY <1>1 DEF WatchTypes, CallTypes, Calls, Ids
  <2>2. Update(c.id, c.val) \in Updates BY <2>1 DEF Update, Updates
  <2> QED BY <1>2, <2>2
<1>5. PICK p \in Odds : p = Produced(odd, ups) BY <1>4, OddTypes DEF WatchTypes
<1>6. odd'.stale = odd.stale \union {c.id} /\ odd'.missed = odd.missed /\ odd'.lost = odd.lost
  <2>1. p.stale = odd.stale /\ p.missed = odd.missed /\ p.lost = odd.lost
    BY <1>5, OddFields DEF WatchTypes
  <2> QED BY <1>3, <1>5, <2>1, OddFields
<1>7. /\ fileAuths' = fileAuths \union {c.id} /\ current' = [current EXCEPT ![c.id] = c.val]
      /\ UNCHANGED <<diskVars, configVars, hashes, runtime, ev, rl>>
  BY DEF dispatchPersistedAuthUpdate
<1>8. \A kind, f : Notified(kind, f) => Notified(kind, f)' BY <1>7 DEF Notified, diskVars
<1>9. ConfigPart' BY <1>6, <1>7, <1>8, ConfigStays DEF SourceInv, configVars, diskVars
<1>10. DirectoryPart'
  <2>1. Starting' <=> Starting BY <1>7 DEF Starting
  <2>2. WritesFollow' BY <1>7, <1>8, <2>1 DEF SourceInv, DirectoryPart, WritesFollow, diskVars
  <2>3. RemovalsFollow' BY <1>6, <1>7, <1>8 DEF SourceInv, DirectoryPart, RemovalsFollow, diskVars
  <2>4. CommitFollows' BY <1>7 DEF SourceInv, DirectoryPart, CommitFollows
  <2>5. Registered' BY <1>7 DEF SourceInv, DirectoryPart, Registered, Committing
  <2> QED BY <2>2, <2>3, <2>4, <2>5 DEF DirectoryPart
<1>11. SnapshotPart'
  <2>1. RefreshDue' <=> RefreshDue BY <1>7 DEF RefreshDue
  <2>2. \A i \in Ids : i # c.id => current'[i] = current[i] BY <1>7 DEF WatchTypes, ShadowTypes
  <2>3. c.id \notin Keys /\ c.id \notin Channels BY <1>1, WatcherAssumption
  <2>4. ChannelsFollow'
    <3> SUFFICES ASSUME NEW d \in Channels PROVE current'[d] = RuntimeValue(d)
      BY <1>7 DEF ChannelsFollow, RuntimeValue
    <3>1. current'[d] = current[d] BY <2>2, <2>3 DEF Ids
    <3> QED BY <3>1 DEF SourceInv, SnapshotPart, ChannelsFollow
  <2>5. KeysFollow'
    <3> SUFFICES ASSUME NEW k \in Keys \ odd.stale PROVE RefreshDue \/ current'[k] = KeyValue(k)
      BY <1>6, <1>7, <2>1 DEF KeysFollow, KeyValue, configVars
    <3>1. current'[k] = current[k] BY <2>2, <2>3 DEF Ids
    <3> QED BY <3>1 DEF SourceInv, SnapshotPart, KeysFollow
  <2>6. FilesFollow'
    <3> SUFFICES ASSUME NEW f \in Files \ odd.stale, f # c.id
                 PROVE  RefreshDue \/ Committing(f) \/ current'[f] = FileValue(f)
      BY <1>6, <1>7, <2>1 DEF FilesFollow, FileValue, Committing, configVars
    <3>1. current'[f] = current[f] BY <2>2 DEF Ids
    <3> QED BY <3>1 DEF SourceInv, SnapshotPart, FilesFollow
  <2> QED BY <2>4, <2>5, <2>6 DEF SnapshotPart
<1> QED BY <1>9, <1>10, <1>11 DEF SourceInv

\* Steps of the queue leave all of it alone.
LEMMA QueueKeepsSource ==
  ASSUME SourceInv, UNCHANGED <<diskVars, configVars, shadowVars, ev, rl, odd>>
  PROVE  SourceInv'
<1>1. \A kind, f : Notified(kind, f) => Notified(kind, f)' BY DEF Notified, diskVars
<1>2. ConfigPart' BY <1>1, ConfigStays DEF SourceInv, configVars, diskVars
<1>3. DirectoryPart' BY <1>1, DirectoryStays DEF SourceInv, shadowVars, diskVars
<1>4. SnapshotPart' BY SnapshotStays DEF SourceInv, shadowVars, configVars
<1> QED BY <1>2, <1>3, <1>4 DEF SourceInv

\* The watcher starts with a refresh that is going to scan the directory.
LEMMA InitSource == Init => SourceInv
<1> SUFFICES ASSUME Init PROVE SourceInv OBVIOUS
<1>1. /\ \A r \in Reloaders : r # Starter => rl[r].pc = "idle" /\ ~rl[r].start
      /\ rl[Starter].pc = "filter" /\ rl[Starter].start /\ Starter \in Reloaders
  <2>1. RlIdle.pc = "idle" /\ RlIdle.start = FALSE BY DEF RlIdle
  <2>2. LET s == [RlIdle EXCEPT !.pc = "filter", !.start = TRUE] IN s.pc = "filter" /\ s.start = TRUE
    BY DEF RlIdle
  <2> QED BY <2>1, <2>2, WatcherAssumption DEF Init
<1>2. RefreshDue /\ Starting BY <1>1 DEF RefreshDue, Starting
<1>3. ConfigPart BY <1>1 DEF Init, ConfigPart, ConfigFollows, HashFollows, IdleIsNoStart
<1>4. \A f \in Files : hashes[f] = "none" BY DEF Init
<1>5. ev.pc = "idle" BY DEF Init, EvIdle
<1>6. DirectoryPart
  BY <1>2, <1>4, <1>5, WatcherAssumption DEF DirectoryPart, WritesFollow, RemovalsFollow, CommitFollows, Registered
<1>7. ChannelsFollow
  <2>1. \A c \in Channels : c \in Ids BY DEF Ids
  <2> QED BY <2>1 DEF Init, ChannelsFollow, RuntimeValue
<1>8. SnapshotPart BY <1>2, <1>7 DEF SnapshotPart, KeysFollow, FilesFollow
<1> QED BY <1>3, <1>6, <1>8 DEF SourceInv

\* Every step preserves it.
LEMMA NextSource == WatchTypes /\ SourceInv /\ [Next]_vars => SourceInv'
<1> SUFFICES ASSUME WatchTypes, SourceInv, [Next]_vars PROVE SourceInv' OBVIOUS
<1>1. CASE Environment BY <1>1, EnvironmentKeepsSource
<1>2. CASE EventStep BY <1>2, EventKeepsSource
<1>3. CASE CallStep
  <2>1. PICK c \in calls : \/ dispatchPersistedAuthUpdate(c) \/ dispatchCall(c)
                           \/ \E r \in Reloaders : ReloadConfigIfChanged(c, r)
    BY <1>3 DEF CallStep
  <2>2. CASE dispatchPersistedAuthUpdate(c) BY <2>2, HookKeepsSource
  <2>3. CASE dispatchCall(c) BY <2>3, QueueKeepsSource DEF dispatchCall
  <2>4. ASSUME NEW r \in Reloaders, ReloadConfigIfChanged(c, r) PROVE SourceInv'
    BY <2>4, LoadKeepsSource DEF ReloadConfigIfChanged, configVars
  <2> QED BY <2>1, <2>2, <2>3, <2>4
<1>4. CASE nextPendingBatch \/ ConsumerStep
  BY <1>4, QueueKeepsSource DEF nextPendingBatch, ConsumerStep, handleAuthUpdates, actorVars
<1>5. CASE TimerStep
  <2>1. PICK r \in Reloaders : reloadTimer(r) BY <1>5 DEF TimerStep
  <2> QED BY <2>1, LoadKeepsSource DEF reloadTimer
<1>6. ASSUME NEW r \in Reloaders, ReloadStep(r) PROVE SourceInv' BY <1>6, ReloadKeepsSource
<1>7. CASE UNCHANGED vars BY <1>7, QueueKeepsSource DEF vars, actorVars
<1> QED BY <1>1, <1>2, <1>3, <1>4, <1>5, <1>6, <1>7 DEF Next

\* The second inductive invariant of the watcher holds: configuration, hash
\* table and snapshot differ from their sources only while a notification, the
\* timer or a reload is going to bring them up to date, or where the history
\* says that they went astray.
THEOREM SourceInvariance == Spec => []SourceInv
<1>1. WatchInv => WatchTypes BY DEF WatchInv
<1> QED BY <1>1, InitSource, NextSource, WatchInvariance, PTL DEF Spec

\* At rest nothing is in flight and the snapshot is what the manager has.
LEMMA RestIsApplied ==
  ASSUME WatchInv, Rest, NEW i \in Ids, i \notin odd.crossed \union odd.untold
  PROVE  applied[i] = current[i]
<1>1. ev.ups = <<>> /\ \A r \in Reloaders : rl[r].ups = <<>>
  BY DEF WatchInv, WatchTypes, EvTypes, RlTypes, EvDiscipline, RlDiscipline, Rest
<1>2. ~InFlight(i) BY <1>1, ShortUpdates DEF InFlight, Rest
<1>3. Latest(i) = applied[i]
  <2>1. <<>> \o <<>> = <<>> OBVIOUS
  <2> QED BY <2>1, ShortUpdates DEF Rest, Latest
<1> QED BY <1>2, <1>3 DEF WatchInv, Flows, Straight

\* At rest the snapshot is what the sources call for.
LEMMA RestIsDesired ==
  ASSUME WatchTypes, SourceInv, Rest, NEW i \in Ids, ~Astray(i)
  PROVE  current[i] = Desired(i)
<1>1. ~RefreshDue /\ ~Starting /\ ~Recording /\ \A f : ~Committing(f)
  BY DEF Rest, RefreshDue, Starting, Recording, Committing
<1>2. \A kind, f : ~Notified(kind, f) BY DEF Rest, Notified
<1>3. config \in Configs /\ Wanted \in Configs /\ files \in [Files -> Contents]
  BY DEF WatchTypes, DiskTypes, ShadowTypes, Wanted
<1>4. ~odd.lost => config = Wanted
  BY <1>1, <1>2 DEF Rest, SourceInv, ConfigPart, ConfigFollows, Wanted
<1>5. CASE i \in Channels
  <2>1. i \notin Files /\ i \notin Wanted.keys BY <1>3, <1>5, WatcherAssumption
  <2>2. Desired(i) = RuntimeValue(i) BY <2>1 DEF Desired, RuntimeValue
  <2> QED BY <1>5, <2>2 DEF SourceInv, SnapshotPart, ChannelsFollow
<1>6. CASE i \in Keys
  <2>1. i \notin Files /\ i \notin Channels BY <1>6, WatcherAssumption
  <2>2. i \notin runtime BY <2>1 DEF WatchTypes, ShadowTypes
  <2>3. i \notin odd.stale /\ config = Wanted BY <1>4, <2>1 DEF Astray
  <2>4. Desired(i) = KeyValue(i) BY <2>1, <2>2, <2>3 DEF Desired, KeyValue
  <2> QED BY <1>1, <1>6, <2>3, <2>4 DEF SourceInv, SnapshotPart, KeysFollow
<1>7. CASE i \in Files
  <2>1. i \notin Channels BY <1>7, WatcherAssumption
  <2>2. /\ i \notin odd.stale /\ i \notin odd.missed /\ config = Wanted
        /\ files[i] \notin {"empty", "broken"}
    BY <1>4, <1>7, <2>1 DEF Astray
  <2>3. "none" \notin Versions /\ "absent" \notin Versions BY WatcherAssumption
  <2>4. Desired(i) = SynthesizeAuthFile(config, files[i])
    <3>1. i \notin Wanted.keys /\ i \notin runtime
      BY <1>3, <1>7, <2>1, WatcherAssumption DEF WatchTypes, ShadowTypes
    <3> QED BY <1>7, <2>2, <3>1 DEF Desired
  <2>5. current[i] = SynthesizeAuthFile(config, hashes[i])
    BY <1>1, <1>7, <2>2 DEF SourceInv, SnapshotPart, FilesFollow, FileValue
  <2>6. Parses(files[i]) \/ files[i] = "absent" BY <1>3, <1>7, <2>2 DEF Contents, Parses
  <2>7. CASE Parses(files[i])
    <3>1. hashes[i] = files[i]
      BY <1>1, <1>2, <1>7, <2>7 DEF SourceInv, DirectoryPart, WritesFollow
    <3> QED BY <2>4, <2>5, <3>1
  <2>8. CASE files[i] = "absent"
    <3>1. hashes[i] = "none"
      BY <1>2, <1>7, <2>2, <2>8 DEF SourceInv, DirectoryPart, RemovalsFollow, Rest
    <3> QED BY <2>3, <2>4, <2>5, <2>8, <3>1 DEF SynthesizeAuthFile
  <2> QED BY <2>6, <2>7, <2>8
<1> QED BY <1>5, <1>6, <1>7 DEF Ids

\* When everything has come to rest, the manager has exactly the credentials
\* that files, configuration and connections call for; the exceptions that the
\* history names are the only ones.
THEOREM SettledIsDesiredHolds == Spec => []SettledIsDesired
<1>1. WatchInv /\ SourceInv => SettledIsDesired
  <2> SUFFICES ASSUME WatchInv, SourceInv, Rest, NEW i \in Ids, ~Astray(i)
               PROVE  applied[i] = Desired(i)
    BY DEF SettledIsDesired
  <2>1. i \notin odd.crossed \union odd.untold BY DEF Astray
  <2>2. WatchTypes BY DEF WatchInv
  <2> QED BY <2>1, <2>2, RestIsApplied, RestIsDesired
<1> QED BY <1>1, WatchInvariance, SourceInvariance, PTL
================================================================================
