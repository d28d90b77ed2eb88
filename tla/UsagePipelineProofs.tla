------------------------- MODULE UsagePipelineProofs -------------------------
(***************************************************************************)
(* Theorems about UsagePipeline, for any number of records, subscribers    *)
(* and forwarders, any capacity, batch size and retention.                 *)
(***************************************************************************)
EXTENDS UsagePipeline, TLAPS, WellFoundedInduction, FiniteSetTheorems, SequenceTheorems

-----------------------------------------------------------------------------
(***************************************************************************)
(* What the queues hold.                                                   *)
(***************************************************************************)

\* Append adds one element.
LEMMA AppendElements ==
  ASSUME NEW S, NEW s \in Seq(S), NEW x \in S
  PROVE  Elements(Append(s, x)) = Elements(s) \cup {x}
<1>1. /\ Append(s, x) \in Seq(S) /\ Len(Append(s, x)) = Len(s) + 1
      /\ \A i \in 1 .. Len(s) : Append(s, x)[i] = s[i]
      /\ Append(s, x)[Len(s) + 1] = x
  BY AppendProperties
<1>2. /\ DOMAIN Append(s, x) = 1 .. Len(s) + 1 /\ DOMAIN s = 1 .. Len(s) /\ Len(s) \in Nat
  BY <1>1, LenProperties
<1>3. \A i \in 1 .. Len(s) + 1 : i \in 1 .. Len(s) \/ i = Len(s) + 1 BY <1>2
<1>4. \A i \in 1 .. Len(s) : i \in 1 .. Len(s) + 1 BY <1>2
<1>5. Len(s) + 1 \in 1 .. Len(s) + 1 BY <1>2
<1> QED BY <1>1, <1>2, <1>3, <1>4, <1>5 DEF Elements

\* Head and Tail divide what a sequence holds.
LEMMA TailElements ==
  ASSUME NEW S, NEW s \in Seq(S), s # <<>>
  PROVE  /\ Head(s) \in S /\ Tail(s) \in Seq(S)
         /\ Elements(s) = Elements(Tail(s)) \cup {Head(s)}
<1>1. /\ Head(s) \in S /\ Tail(s) \in Seq(S) /\ Len(Tail(s)) = Len(s) - 1
      /\ \A i \in 1 .. Len(Tail(s)) : Tail(s)[i] = s[i + 1]
  BY HeadTailProperties
<1>2. /\ DOMAIN Tail(s) = 1 .. Len(s) - 1 /\ DOMAIN s = 1 .. Len(s) /\ Len(s) \in Nat \ {0}
  BY <1>1, LenProperties, EmptySeq
<1>3. Head(s) = s[1] OBVIOUS
<1>4. \A i \in 1 .. Len(s) : i = 1 \/ (i - 1 \in 1 .. Len(s) - 1 /\ (i - 1) + 1 = i) BY <1>2
<1>5. \A i \in 1 .. Len(s) - 1 : i + 1 \in 1 .. Len(s) BY <1>2
<1>6. 1 \in 1 .. Len(s) BY <1>2
<1>7. ASSUME NEW x \in Elements(s) PROVE x \in Elements(Tail(s)) \cup {Head(s)}
  <2>1. PICK i \in 1 .. Len(s) : x = s[i] BY <1>2 DEF Elements
  <2>2. CASE i = 1 BY <2>1, <2>2, <1>3
  <2>3. CASE i # 1
    <3>1. i - 1 \in DOMAIN Tail(s) /\ Tail(s)[i - 1] = s[i] BY <1>1, <1>2, <1>4, <2>3
    <3> QED BY <2>1, <3>1 DEF Elements
  <2> QED BY <2>2, <2>3
<1>8. ASSUME NEW x \in Elements(Tail(s)) \cup {Head(s)} PROVE x \in Elements(s)
  BY <1>1, <1>2, <1>3, <1>5, <1>6 DEF Elements
<1> QED BY <1>1, <1>7, <1>8

\* A sequence lists no element twice.
Once(s) == \A i, j \in DOMAIN s : s[i] = s[j] => i = j

\* Tail takes out the only copy of the head.
LEMMA OnceTail ==
  ASSUME NEW S, NEW s \in Seq(S), s # <<>>, Once(s)
  PROVE  Once(Tail(s)) /\ Head(s) \notin Elements(Tail(s))
<1>1. /\ Tail(s) \in Seq(S) /\ Len(Tail(s)) = Len(s) - 1
      /\ \A i \in 1 .. Len(Tail(s)) : Tail(s)[i] = s[i + 1]
  BY HeadTailProperties
<1>2. /\ DOMAIN Tail(s) = 1 .. Len(s) - 1 /\ DOMAIN s = 1 .. Len(s) /\ Len(s) \in Nat \ {0}
  BY <1>1, LenProperties, EmptySeq
<1>3. \A i \in 1 .. Len(s) - 1 : i + 1 \in 1 .. Len(s) /\ i + 1 # 1 BY <1>2
<1>4. 1 \in 1 .. Len(s) /\ Head(s) = s[1] BY <1>2
<1>5. Once(Tail(s))
  <2>1. \A i, j \in 1 .. Len(s) - 1 : s[i + 1] = s[j + 1] => i + 1 = j + 1
    BY <1>2, <1>3 DEF Once
  <2>2. \A i, j \in 1 .. Len(s) - 1 : i + 1 = j + 1 => i = j BY <1>2
  <2> QED BY <1>1, <1>2, <2>1, <2>2 DEF Once
<1>6. \A i \in 1 .. Len(s) - 1 : s[i + 1] # s[1] BY <1>2, <1>3, <1>4 DEF Once
<1> QED BY <1>1, <1>2, <1>4, <1>5, <1>6 DEF Elements

\* Appending what is not there keeps a sequence free of duplicates.
LEMMA OnceAppend ==
  ASSUME NEW S, NEW s \in Seq(S), NEW x \in S, Once(s), x \notin Elements(s)
  PROVE  Once(Append(s, x))
<1>1. /\ Append(s, x) \in Seq(S) /\ Len(Append(s, x)) = Len(s) + 1
      /\ \A i \in 1 .. Len(s) : Append(s, x)[i] = s[i]
      /\ Append(s, x)[Len(s) + 1] = x
  BY AppendProperties
<1>2. /\ DOMAIN Append(s, x) = 1 .. Len(s) + 1 /\ DOMAIN s = 1 .. Len(s) /\ Len(s) \in Nat
  BY <1>1, LenProperties
<1>3. \A i \in 1 .. Len(s) + 1 : i \in 1 .. Len(s) \/ i = Len(s) + 1 BY <1>2
<1>4. \A i \in 1 .. Len(s) : s[i] # x BY <1>2 DEF Elements
<1> QED BY <1>1, <1>2, <1>3, <1>4 DEF Once

-----------------------------------------------------------------------------
(***************************************************************************)
(* pruneLocked.                                                            *)
(***************************************************************************)

Entry == [record : Records, at : 0 .. MaxTime]

\* The expired items are a prefix: pruneLocked stops at the first fresh one.
LEMMA PrefixIsInterval ==
  ASSUME items \in Seq(Entry)
  PROVE  \E k \in 0 .. Len(items) : ExpiredPrefix = 1 .. k /\ Cardinality(ExpiredPrefix) = k
<1>1. Len(items) \in Nat /\ DOMAIN items = 1 .. Len(items) BY LenProperties
<1> DEFINE Kept == {i \in Nat : i # 0 /\ i \notin ExpiredPrefix}
<1>2. Len(items) + 1 \in Kept BY <1>1 DEF ExpiredPrefix
<1>3. PICK m \in Kept : \A i \in Kept : m <= i
  <2>1. Kept \subseteq Nat /\ Kept # {} BY <1>2
  <2> HIDE DEF Kept
  <2>2. PICK m \in Kept : \A y \in Kept : <<y, m>> \notin OpToRel(<, Nat)
    BY <2>1, NatLessThanWellFounded, WFMin, Zenon
  <2>3. \A a, b \in Nat : a < b => <<a, b>> \in OpToRel(<, Nat) BY DEF OpToRel
  <2>4. \A y \in Kept : ~(y < m) BY <2>1, <2>2, <2>3, Zenon
  <2> QED BY <2>1, <2>4
<1>4. m \in 1 .. Len(items) + 1 /\ m - 1 \in 0 .. Len(items) BY <1>1, <1>2, <1>3
<1>5. \A i \in 1 .. m - 1 : i \in ExpiredPrefix BY <1>1, <1>3, <1>4
<1>6. ASSUME NEW i \in ExpiredPrefix PROVE i \in 1 .. m - 1
  <2>1. i \in 1 .. Len(items) /\ \A j \in 1 .. i : Expired(items[j]) BY <1>1 DEF ExpiredPrefix
  <2>2. ASSUME m <= i PROVE FALSE
    <3>1. m \in DOMAIN items BY <1>1, <1>4, <2>1, <2>2
    <3>2. \A j \in 1 .. m : j \in 1 .. i BY <1>1, <1>4, <2>1, <2>2
    <3>3. m \in ExpiredPrefix BY <2>1, <3>1, <3>2 DEF ExpiredPrefix
    <3> QED BY <1>3, <3>3
  <2> QED BY <1>1, <1>4, <2>1, <2>2
<1>7. ExpiredPrefix = 1 .. m - 1 BY <1>5, <1>6
<1>8. Cardinality(1 .. m - 1) = m - 1 BY <1>1, <1>4, FS_Interval
<1> QED BY <1>4, <1>7, <1>8

\* What pruneLocked leaves is the rest of the items, and it lists what it drops.
LEMMA FreshItems ==
  ASSUME items \in Seq(Entry)
  PROVE  \E k \in 0 .. Len(items) :
           /\ ExpiredPrefix = 1 .. k
           /\ Fresh \in Seq(Entry) /\ Len(Fresh) = Len(items) - k
           /\ DOMAIN Fresh = 1 .. Len(items) - k /\ DOMAIN items = 1 .. Len(items)
           /\ \A i \in 1 .. Len(items) - k : Fresh[i] = items[i + k]
<1>1. PICK k \in 0 .. Len(items) : ExpiredPrefix = 1 .. k /\ Cardinality(ExpiredPrefix) = k
  BY PrefixIsInterval
<1>2. Len(items) \in Nat /\ DOMAIN items = 1 .. Len(items) BY LenProperties
<1>3. Fresh = SubSeq(items, k + 1, Len(items)) BY <1>1 DEF Fresh
<1>4. \A i \in k + 1 .. Len(items) : items[i] \in Entry BY <1>2, ElementOfSeq
<1>5. /\ Fresh \in Seq(Entry)
      /\ Len(Fresh) = IF k + 1 <= Len(items) THEN Len(items) - (k + 1) + 1 ELSE 0
      /\ \A i \in 1 .. Len(items) - (k + 1) + 1 : Fresh[i] = items[k + 1 + i - 1]
  <2>1. k + 1 \in Int /\ Len(items) \in Int BY <1>2
  <2> QED BY <1>3, <1>4, <2>1, SubSeqProperties
<1>a. k \in Nat /\ k <= Len(items) BY <1>2
<1>b. \A n \in Nat : \A j \in 0 .. n : (IF j + 1 <= n THEN n - (j + 1) + 1 ELSE 0) = n - j
  OBVIOUS
<1>6. Len(Fresh) = Len(items) - k BY <1>1, <1>2, <1>5, <1>b
<1>c. Len(items) - (k + 1) + 1 = Len(items) - k BY <1>2, <1>a
<1>d. \A i \in 1 .. Len(items) - k : k + 1 + i - 1 = i + k BY <1>2, <1>a
<1>7. \A i \in 1 .. Len(items) - k : Fresh[i] = items[i + k] BY <1>5, <1>c, <1>d
<1> QED BY <1>1, <1>2, <1>5, <1>6, <1>7, LenProperties

\* What it drops are records.
LEMMA PrunedTypes ==
  ASSUME items \in Seq(Entry)
  PROVE  PrunedRecords \subseteq Records
<1>1. \A i \in DOMAIN items : items[i] \in Entry BY LenProperties, ElementOfSeq
<1>2. \A i \in DOMAIN items : items[i].record \in Records BY <1>1 DEF Entry
<1> QED BY <1>2 DEF PrunedRecords, ExpiredPrefix

-----------------------------------------------------------------------------
(***************************************************************************)
(* Types and the order of steps.                                           *)
(***************************************************************************)

\* Whoever is inside Enqueue has a record in hand; a forwarder has a batch while
\* it pushes and only then, and a backlog only while it requeues.  A connection
\* that has not subscribed has nothing to read.
Discipline ==
  /\ \A e \in Enqueuers : step[e] # "idle" => backlog[e] # <<>>
  /\ \A f \in Forwarders : /\ forwarder[f] = "push" <=> batch[f] # <<>>
                           /\ forwarder[f] # "requeue" => backlog[f] = <<>>
  /\ \A s \in Subscribers : reader[s] = "new" => s \notin table /\ unread[s] = 0

Basic == TypeOK /\ Discipline

\* The empty pipeline.
LEMMA InitBasic == Init => Basic
<1> SUFFICES ASSUME Init PROVE Basic OBVIOUS
<1>1. 0 \in 0 .. MaxTime /\ 0 \in 0 .. BufferCap /\ 0 \in 0 .. MaxRefreshes
  BY PipelineAssumption
<1>2. <<>> \in Seq(Records) /\ <<>> \in Seq(Records \cup Notices) BY EmptySeq
<1>4. items \in Seq([record : Records, at : 0 .. MaxTime]) BY EmptySeq DEF Init
<1>5. TypeOK BY <1>1, <1>2, <1>4 DEF Init, TypeOK
<1>3. Discipline BY DEF Init, Discipline, Enqueuers
<1> QED BY <1>3, <1>5 DEF Basic

\* Publish, Stop and the dispatcher.
LEMMA ManagerBasic ==
  ASSUME Basic, (\E r \in Records : Publish(r)) \/ StopManager \/ Dispatch
  PROVE  Basic'
<1> USE DEF Basic, managerVars, storeVars, channelVars, enqueueVars, forwarderVars
<1>1. ASSUME NEW r \in Records, Publish(r) PROVE Basic'
  <2>1. Append(queue, r) \in Seq(Records) BY AppendProperties DEF TypeOK
  <2>2. TypeOK' BY <1>1, <2>1 DEF TypeOK, Publish
  <2>3. Discipline' BY <1>1 DEF Discipline, Publish
  <2> QED BY <2>2, <2>3
<1>2. CASE StopManager
  <2>1. TypeOK' BY <1>2 DEF TypeOK, StopManager
  <2>2. Discipline' BY <1>2 DEF Discipline, StopManager
  <2> QED BY <2>1, <2>2
<1>3. CASE Dispatch
  <2>1. Head(queue) \in Records /\ Tail(queue) \in Seq(Records)
    BY <1>3, HeadTailProperties DEF TypeOK, Dispatch
  <2>2. <<Head(queue)>> \in Seq(Records) /\ <<Head(queue)>> # <<>> BY <2>1
  <2>3. Dispatcher \in Enqueuers /\ Dispatcher \notin Forwarders
    BY PipelineAssumption DEF Enqueuers, Dispatcher
  <2>4. backlog' \in [Enqueuers -> Seq(Records)] BY <1>3, <2>2 DEF TypeOK, Dispatch
  <2>5. TypeOK' BY <1>3, <2>1, <2>4 DEF TypeOK, Dispatch
  <2>6. /\ \A e \in Enqueuers : backlog'[e] = IF e = Dispatcher THEN <<Head(queue)>> ELSE backlog[e]
        /\ UNCHANGED <<step, forwarder, batch, reader, table, unread>>
    BY <1>3 DEF TypeOK, Dispatch
  <2>7. Discipline' BY <2>2, <2>3, <2>6 DEF Discipline, Enqueuers
  <2> QED BY <2>5, <2>7
<1> QED BY <1>1, <1>2, <1>3

\* What Broadcast does to the types, for any message.
LEMMA BroadcastTypes ==
  ASSUME TypeOK, NEW m \in Records \cup Notices, Broadcast(m)
  PROVE  /\ table' \subseteq Subscribers
         /\ inbox' \in [Subscribers -> Seq(Records \cup Notices)]
         /\ unread' \in [Subscribers -> 0 .. BufferCap]
         /\ closes' \in [Subscribers -> Nat]
         /\ stream' \in Seq(Records \cup Notices)
         /\ UNCHANGED <<reader, closing, joined>>
         /\ \A s \in Subscribers : s \notin table => s \notin table' /\ unread'[s] = unread[s]
<1>1. stream' \in Seq(Records \cup Notices) BY AppendProperties DEF TypeOK, Broadcast
<1>2. \A s \in Subscribers : Append(inbox[s], m) \in Seq(Records \cup Notices)
  BY AppendProperties DEF TypeOK
<1>3. inbox' \in [Subscribers -> Seq(Records \cup Notices)] BY <1>2 DEF TypeOK, Broadcast
<1>4. \A s \in table : HasRoom(s) => unread[s] + 1 \in 0 .. BufferCap
  BY PipelineAssumption DEF TypeOK, HasRoom
<1>5. unread' \in [Subscribers -> 0 .. BufferCap] BY <1>4 DEF TypeOK, Broadcast
<1>6. closes' \in [Subscribers -> Nat] BY DEF TypeOK, Broadcast
<1>7. \A s \in Subscribers : s \notin table => s \notin table' /\ unread'[s] = unread[s]
  BY DEF Broadcast
<1> QED BY <1>1, <1>3, <1>5, <1>6, <1>7 DEF Broadcast, TypeOK

\* Enqueue returns.
LEMMA EnqueuedBasic ==
  ASSUME Basic, NEW e \in Enqueuers, backlog[e] # <<>>, Enqueued(e), UNCHANGED <<forwarder, batch, reader>>,
         \A s \in Subscribers : s \notin table => s \notin table' /\ unread'[s] = unread[s]
  PROVE  /\ backlog' \in [Enqueuers -> Seq(Records)]
         /\ step' \in [Enqueuers -> {"idle", "publish", "append"}]
         /\ Head(backlog[e]) \in Records
         /\ Discipline'
<1>1. Head(backlog[e]) \in Records /\ Tail(backlog[e]) \in Seq(Records)
  BY HeadTailProperties DEF Basic, TypeOK
<1>2. backlog' \in [Enqueuers -> Seq(Records)] BY <1>1 DEF Basic, TypeOK, Enqueued
<1>3. step' \in [Enqueuers -> {"idle", "publish", "append"}] BY DEF Basic, TypeOK, Enqueued
<1>4. \A d \in Enqueuers : /\ backlog'[d] = IF d = e THEN Tail(backlog[e]) ELSE backlog[d]
                           /\ step'[d] = IF d = e THEN "idle" ELSE step[d]
  BY DEF Basic, TypeOK, Enqueued
<1>5. \A d \in Enqueuers : step'[d] # "idle" => backlog'[d] # <<>>
  BY <1>4 DEF Basic, Discipline
<1>6. \A f \in Forwarders : forwarder[f] # "requeue" => backlog'[f] = <<>>
  BY <1>4 DEF Basic, Discipline, Enqueuers
<1>7. \A s \in Subscribers : reader'[s] = "new" => s \notin table' /\ unread'[s] = 0
  BY DEF Basic, Discipline
<1> QED BY <1>1, <1>2, <1>3, <1>5, <1>6, <1>7 DEF Basic, Discipline

\* The steps of Enqueue.
LEMMA EnqueueBasic ==
  ASSUME Basic, NEW e \in Enqueuers, EnqueueStep(e)
  PROVE  Basic'
<1> USE DEF managerVars, storeVars, channelVars, enqueueVars, forwarderVars
<1>1. CASE CheckEnabled(e)
  <2>1. CASE switch = "on"
    <3>1. step' = [step EXCEPT ![e] = "publish"] /\ UNCHANGED <<backlog, excused>>
      BY <1>1, <2>1 DEF CheckEnabled
    <3>2. TypeOK' BY <1>1, <3>1 DEF TypeOK, CheckEnabled, Basic
    <3>3. Discipline' BY <1>1, <3>1 DEF Discipline, CheckEnabled, Basic, TypeOK
    <3> QED BY <3>2, <3>3 DEF Basic
  <2>2. CASE switch # "on"
    <3>1. /\ backlog[e] # <<>> /\ Enqueued(e) /\ excused' = excused \cup {Head(backlog[e])}
          /\ UNCHANGED <<managerVars, storeVars, channelVars, forwarderVars>>
      BY <1>1, <2>2 DEF CheckEnabled
    <3>2. /\ backlog' \in [Enqueuers -> Seq(Records)]
          /\ step' \in [Enqueuers -> {"idle", "publish", "append"}]
          /\ Head(backlog[e]) \in Records /\ Discipline'
      BY <3>1, EnqueuedBasic
    <3>3. TypeOK' BY <3>1, <3>2 DEF TypeOK, Basic
    <3> QED BY <3>2, <3>3 DEF Basic
  <2> QED BY <2>1, <2>2
<1>2. CASE PublishToSubscribers(e)
  <2>0. step[e] = "publish" /\ backlog[e] # <<>> /\ UNCHANGED <<managerVars, storeVars, forwarderVars>>
    BY <1>2 DEF PublishToSubscribers, Basic, Discipline
  <2>1. CASE table = {}
    <3>1. step' = [step EXCEPT ![e] = "append"] /\ UNCHANGED <<backlog, channelVars, excused>>
      BY <1>2, <2>1 DEF PublishToSubscribers
    <3>2. TypeOK' BY <2>0, <3>1 DEF TypeOK, Basic
    <3>3. Discipline' BY <2>0, <3>1 DEF Discipline, Basic, TypeOK
    <3> QED BY <3>2, <3>3 DEF Basic
  <2>2. CASE table # {}
    <3>1. /\ Broadcast(Head(backlog[e])) /\ Enqueued(e) /\ UNCHANGED refreshes
          /\ excused' = IF table' = {} THEN excused \cup {Head(backlog[e])} ELSE excused
      BY <1>2, <2>2 DEF PublishToSubscribers
    <3>0. Head(backlog[e]) \in Records BY <2>0, HeadTailProperties DEF Basic, TypeOK
    <3>3. /\ table' \subseteq Subscribers
          /\ inbox' \in [Subscribers -> Seq(Records \cup Notices)]
          /\ unread' \in [Subscribers -> 0 .. BufferCap]
          /\ closes' \in [Subscribers -> Nat]
          /\ stream' \in Seq(Records \cup Notices)
          /\ UNCHANGED <<reader, closing, joined>>
          /\ \A s \in Subscribers : s \notin table => s \notin table' /\ unread'[s] = unread[s]
      BY <3>0, <3>1, BroadcastTypes DEF Basic
    <3>2. /\ backlog' \in [Enqueuers -> Seq(Records)]
          /\ step' \in [Enqueuers -> {"idle", "publish", "append"}]
          /\ Head(backlog[e]) \in Records /\ Discipline'
      BY <2>0, <3>1, <3>3, EnqueuedBasic
    <3>4. excused' \subseteq Records BY <3>1, <3>2 DEF TypeOK, Basic
    <3>5. TypeOK' BY <2>0, <3>1, <3>2, <3>3, <3>4 DEF TypeOK, Basic
    <3> QED BY <3>2, <3>5 DEF Basic
  <2> QED BY <2>1, <2>2
<1>3. CASE Store(e)
  <2>1. /\ backlog[e] # <<>> /\ Enqueued(e)
        /\ items' = Append(Fresh, [record |-> Head(backlog[e]), at |-> clock])
        /\ excused' = excused \cup PrunedRecords
        /\ UNCHANGED <<managerVars, clock, switch, taken, channelVars, forwarderVars>>
    BY <1>3 DEF Store, Basic, Discipline
  <2>2. /\ backlog' \in [Enqueuers -> Seq(Records)]
        /\ step' \in [Enqueuers -> {"idle", "publish", "append"}]
        /\ Head(backlog[e]) \in Records /\ Discipline'
    BY <2>1, EnqueuedBasic
  <2>3. [record |-> Head(backlog[e]), at |-> clock] \in Entry BY <2>2 DEF Basic, TypeOK, Entry
  <2>4. items \in Seq(Entry) BY DEF Basic, TypeOK, Entry
  <2>5. Fresh \in Seq(Entry) BY <2>4, FreshItems
  <2>6. items' \in Seq(Entry) BY <2>1, <2>3, <2>5, AppendProperties
  <2>7. PrunedRecords \subseteq Records BY <2>4, PrunedTypes
  <2>8. TypeOK' BY <2>1, <2>2, <2>6, <2>7 DEF TypeOK, Basic, Entry
  <2> QED BY <2>2, <2>8 DEF Basic
<1> QED BY <1>1, <1>2, <1>3 DEF EnqueueStep

\* What popOldest leaves and what it gives away.
LEMMA PopTypes ==
  ASSUME items \in Seq(Entry), NEW n \in Nat, PopOldest(n)
  PROVE  /\ items' \in Seq(Entry)
         /\ Len(items') = IF n < Len(Fresh) THEN Len(Fresh) - n ELSE 0
         /\ \A i \in 1 .. Len(Fresh) - n : items'[i] = Fresh[i + n]
         /\ Oldest(n) \subseteq Records
<1>1. Fresh \in Seq(Entry) BY FreshItems
<1>2. /\ Len(Fresh) \in Nat /\ DOMAIN Fresh = 1 .. Len(Fresh)
      /\ \A i \in 1 .. Len(Fresh) : Fresh[i] \in Entry
  BY <1>1, LenProperties, ElementOfSeq
<1>3. \A i \in n + 1 .. Len(Fresh) : Fresh[i] \in Entry BY <1>2
<1>4. /\ items' \in Seq(Entry)
      /\ Len(items') = IF n + 1 <= Len(Fresh) THEN Len(Fresh) - (n + 1) + 1 ELSE 0
      /\ \A i \in 1 .. Len(Fresh) - (n + 1) + 1 : items'[i] = Fresh[n + 1 + i - 1]
  <2>1. n + 1 \in Int /\ Len(Fresh) \in Int BY <1>2
  <2>2. items' = SubSeq(Fresh, n + 1, Len(Fresh)) BY DEF PopOldest
  <2> QED BY <1>3, <2>1, <2>2, SubSeqProperties
<1>5. \A k \in Nat : /\ (IF n + 1 <= k THEN k - (n + 1) + 1 ELSE 0) = (IF n < k THEN k - n ELSE 0)
                     /\ k - (n + 1) + 1 = k - n
                     /\ \A i \in 1 .. k - n : n + 1 + i - 1 = i + n
  OBVIOUS
<1>6. Len(items') = IF n < Len(Fresh) THEN Len(Fresh) - n ELSE 0 BY <1>2, <1>4, <1>5
<1>7. \A i \in 1 .. Len(Fresh) - n : items'[i] = Fresh[i + n] BY <1>2, <1>4, <1>5
<1>8. \A i \in DOMAIN Fresh : Fresh[i].record \in Records BY <1>2 DEF Entry
<1>9. Oldest(n) \subseteq Records BY <1>8 DEF Oldest
<1> QED BY <1>4, <1>6, <1>7, <1>9

\* Management clients, subscribers, the switch and the clock.
LEMMA ClientBasic ==
  ASSUME Basic,
         \/ \E count \in DOMAIN items : ManagementPop(count)
         \/ NotifyUsageRefresh \/ Tick \/ Disable \/ Clear \/ Enable
         \/ \E s \in Subscribers :
               \/ Subscribe(s) \/ Unsubscribe(s)
               \/ \E written \in BOOLEAN : Read(s, written)
               \/ \E who \in {"unsubscribe", "clear"} : CloseChannel(who, s)
  PROVE  Basic'
<1> USE DEF managerVars, storeVars, channelVars, enqueueVars, forwarderVars
<1>0. items \in Seq(Entry) BY DEF Basic, TypeOK, Entry
<1>1. ASSUME NEW count \in DOMAIN items, ManagementPop(count) PROVE Basic'
  <2>0. count \in Nat BY <1>0, LenProperties
  <2>1. items' \in Seq(Entry) /\ Oldest(count) \subseteq Records
    BY <1>0, <1>1, <2>0, PopTypes DEF ManagementPop
  <2>2. PrunedRecords \subseteq Records BY <1>0, PrunedTypes
  <2>3. TypeOK' BY <1>1, <2>1, <2>2 DEF TypeOK, ManagementPop, PopOldest, Basic, Entry
  <2>4. Discipline' BY <1>1 DEF Discipline, ManagementPop, Basic
  <2> QED BY <2>3, <2>4 DEF Basic
<1>2. CASE NotifyUsageRefresh
  <2>1. /\ table' \subseteq Subscribers
        /\ inbox' \in [Subscribers -> Seq(Records \cup Notices)]
        /\ unread' \in [Subscribers -> 0 .. BufferCap]
        /\ closes' \in [Subscribers -> Nat]
        /\ stream' \in Seq(Records \cup Notices)
        /\ UNCHANGED <<reader, closing, joined>>
        /\ \A s \in Subscribers : s \notin table => s \notin table' /\ unread'[s] = unread[s]
    <3>1. Broadcast("refresh") BY <1>2 DEF NotifyUsageRefresh
    <3>2. "refresh" \in Records \cup Notices BY DEF Notices
    <3> QED BY <3>1, <3>2, BroadcastTypes DEF Basic
  <2>2. refreshes' \in 0 .. MaxRefreshes
    BY <1>2, PipelineAssumption DEF NotifyUsageRefresh, Basic, TypeOK
  <2>3. TypeOK' BY <1>2, <2>1, <2>2 DEF TypeOK, NotifyUsageRefresh, Basic
  <2>4. Discipline' BY <1>2, <2>1 DEF Discipline, NotifyUsageRefresh, Basic
  <2> QED BY <2>3, <2>4 DEF Basic
<1>3. CASE Tick
  <2>1. clock' \in 0 .. MaxTime BY <1>3, PipelineAssumption DEF Tick, Basic, TypeOK
  <2>2. TypeOK' BY <1>3, <2>1 DEF TypeOK, Tick, Basic
  <2>3. Discipline' BY <1>3 DEF Discipline, Tick, Basic
  <2> QED BY <2>2, <2>3 DEF Basic
<1>4. CASE Disable \/ Enable
  <2>1. TypeOK' BY <1>4 DEF TypeOK, Disable, Enable, Basic
  <2>2. Discipline' BY <1>4 DEF Discipline, Disable, Enable, Basic
  <2> QED BY <2>1, <2>2 DEF Basic
<1>5. CASE Clear
  <2>1. items' \in Seq([record : Records, at : 0 .. MaxTime]) BY <1>5, EmptySeq DEF Clear
  <2>2. Stored \subseteq Records
    <3>1. \A i \in DOMAIN items : items[i] \in Entry BY <1>0, LenProperties, ElementOfSeq
    <3>2. \A i \in DOMAIN items : items[i].record \in Records BY <3>1 DEF Entry
    <3> QED BY <3>2 DEF Stored
  <2>3. closing' \subseteq ({"unsubscribe", "clear"} \X Subscribers)
    BY <1>5 DEF Clear, Basic, TypeOK
  <2>4. TypeOK' BY <1>5, <2>1, <2>2, <2>3 DEF TypeOK, Clear, Basic
  <2>5. Discipline' BY <1>5 DEF Discipline, Clear, Basic
  <2> QED BY <2>4, <2>5 DEF Basic
<1>6. ASSUME NEW s \in Subscribers, Subscribe(s) PROVE Basic'
  <2>1. <<"supportRefresh">> \in Seq(Records \cup Notices) BY DEF Notices
  <2>2. inbox' \in [Subscribers -> Seq(Records \cup Notices)]
    BY <1>6, <2>1 DEF Basic, TypeOK, Subscribe
  <2>3. unread' \in [Subscribers -> 0 .. BufferCap]
    BY <1>6, PipelineAssumption DEF Basic, TypeOK, Subscribe
  <2>4. joined' \in [Subscribers -> Nat]
    <3>1. Len(stream) \in Nat BY LenProperties DEF Basic, TypeOK
    <3> QED BY <1>6, <3>1 DEF Basic, TypeOK, Subscribe
  <2>5. TypeOK' BY <1>6, <2>2, <2>3, <2>4 DEF TypeOK, Subscribe, Basic
  <2>6. Discipline' BY <1>6 DEF Discipline, Subscribe, Basic, TypeOK
  <2> QED BY <2>5, <2>6 DEF Basic
<1>7. ASSUME NEW s \in Subscribers, NEW written \in BOOLEAN, Read(s, written) PROVE Basic'
  <2>1. unread' \in [Subscribers -> 0 .. BufferCap]
    <3>1. /\ unread' = [unread EXCEPT ![s] = unread[s] - 1] /\ unread[s] > 0
          /\ unread \in [Subscribers -> 0 .. BufferCap]
      BY <1>7 DEF Basic, TypeOK, Read
    <3>2. unread[s] - 1 \in 0 .. BufferCap BY <3>1, PipelineAssumption
    <3> QED BY <3>1, <3>2
  <2>2. TypeOK' BY <1>7, <2>1 DEF TypeOK, Read, Basic
  <2>3. Discipline' BY <1>7 DEF Discipline, Read, Basic, TypeOK
  <2> QED BY <2>2, <2>3 DEF Basic
<1>8. ASSUME NEW s \in Subscribers, Unsubscribe(s) PROVE Basic'
  <2>1. closing' \subseteq ({"unsubscribe", "clear"} \X Subscribers)
    BY <1>8 DEF Unsubscribe, Basic, TypeOK
  <2>2. Unread(s) \subseteq Records /\ unread' \in [Subscribers -> 0 .. BufferCap]
    BY <1>8, PipelineAssumption DEF Unread, Unsubscribe, Basic, TypeOK
  <2>4. TypeOK' BY <1>8, <2>1, <2>2 DEF TypeOK, Unsubscribe, Basic
  <2>3. Discipline' BY <1>8 DEF Discipline, Unsubscribe, Basic, TypeOK
  <2> QED BY <2>3, <2>4 DEF Basic
<1>9. ASSUME NEW s \in Subscribers, NEW who \in {"unsubscribe", "clear"}, CloseChannel(who, s)
      PROVE  Basic'
  <2>1. closes' \in [Subscribers -> Nat]
    <3>1. closes' = [closes EXCEPT ![s] = closes[s] + 1] /\ closes \in [Subscribers -> Nat]
      BY <1>9 DEF CloseChannel, Basic, TypeOK
    <3> QED BY <3>1
  <2>2. TypeOK' BY <1>9, <2>1 DEF TypeOK, CloseChannel, Basic
  <2>3. Discipline' BY <1>9 DEF Discipline, CloseChannel, Basic
  <2> QED BY <2>2, <2>3 DEF Basic
<1> QED BY <1>1, <1>2, <1>3, <1>4, <1>5, <1>6, <1>7, <1>8, <1>9

\* A step of a forwarder.
ForwarderStep(f) ==
  \/ StartForwarder(f) \/ CheckQueue(f) \/ PopBatch(f) \/ PushSucceeds(f)
  \/ \E received \in BOOLEAN : PushFails(f, received)
  \/ Requeued(f) \/ CancelLifetime(f) \/ Exit(f)

\* The batch a forwarder pops: the oldest fresh records, at most BatchSize.
LEMMA BatchTypes ==
  ASSUME items \in Seq(Entry), NEW f \in Forwarders, batch \in [Forwarders -> Seq(Records)],
         PopBatch(f)
  PROVE  \E n \in Nat :
           /\ n <= Len(Fresh) /\ n <= BatchSize /\ (n = 0 <=> Fresh = <<>>)
           /\ n = BatchSize \/ n = Len(Fresh)
           /\ batch'[f] \in Seq(Records) /\ Len(batch'[f]) = n
           /\ DOMAIN batch'[f] = 1 .. n
           /\ \A i \in 1 .. n : batch'[f][i] = Fresh[i].record
           /\ batch' = [batch EXCEPT ![f] = batch'[f]]
<1>1. Fresh \in Seq(Entry) BY FreshItems
<1>2. /\ Len(Fresh) \in Nat /\ (Len(Fresh) = 0 <=> Fresh = <<>>) /\ DOMAIN Fresh = 1 .. Len(Fresh)
      /\ \A i \in 1 .. Len(Fresh) : Fresh[i] \in Entry
  BY <1>1, LenProperties, ElementOfSeq, EmptySeq
<1> DEFINE n == IF Len(Fresh) < BatchSize THEN Len(Fresh) ELSE BatchSize
           b == [i \in 1 .. n |-> Fresh[i].record]
<1>3. n \in Nat /\ n <= Len(Fresh) /\ n <= BatchSize /\ (n = 0 <=> Fresh = <<>>) /\ (n = BatchSize \/ n = Len(Fresh))
  BY <1>2, PipelineAssumption
<1>4. batch' = [batch EXCEPT ![f] = b] BY DEF PopBatch
<1>5. batch'[f] = b BY <1>4
<1> HIDE DEF n
<1>c. \A k, m \in Nat : m <= k => \A i \in 1 .. m : i \in 1 .. k OBVIOUS
<1>a. \A i \in 1 .. n : i \in 1 .. Len(Fresh) BY <1>2, <1>3, <1>c
<1>b. \A i \in 1 .. Len(Fresh) : Fresh[i].record \in Records BY <1>2 DEF Entry
<1>6. \A i \in 1 .. n : Fresh[i].record \in Records BY <1>a, <1>b
<1>7. b \in [1 .. n -> Records] BY <1>6
<1>8. b \in Seq(Records) /\ Len(b) = n /\ DOMAIN b = 1 .. n BY <1>3, <1>7
<1> QED BY <1>3, <1>4, <1>5, <1>8

\* Home counts a record once more.
LEMMA ReceivedTypes ==
  ASSUME home \in [Records -> Nat], NEW r \in Records, Received(r)
  PROVE  /\ home' \in [Records -> Nat]
         /\ \A x \in Records : home'[x] = IF x = r THEN home[r] + 1 ELSE home[x]
BY DEF Received

\* The steps of a forwarder.
LEMMA ForwarderBasic ==
  ASSUME Basic, NEW f \in Forwarders, ForwarderStep(f)
  PROVE  Basic'
<1> USE DEF managerVars, storeVars, channelVars, enqueueVars, forwarderVars
<1>0. items \in Seq(Entry) /\ f \in Enqueuers BY DEF Basic, TypeOK, Entry, Enqueuers
<1>1. CASE StartForwarder(f) \/ CheckQueue(f) \/ Exit(f)
  <2>1. TypeOK' BY <1>1 DEF TypeOK, StartForwarder, CheckQueue, Exit, Basic
  <2>2. Discipline' BY <1>1 DEF Discipline, StartForwarder, CheckQueue, Exit, Basic, TypeOK
  <2> QED BY <2>1, <2>2 DEF Basic
<1>2. CASE Requeued(f) \/ CancelLifetime(f)
  <2>1. TypeOK' BY <1>2 DEF TypeOK, Requeued, CancelLifetime, Basic
  <2>2. Discipline' BY <1>2 DEF Discipline, Requeued, CancelLifetime, Basic, TypeOK
  <2> QED BY <2>1, <2>2 DEF Basic
<1>3. CASE PopBatch(f)
  <2>1. /\ batch'[f] \in Seq(Records) /\ (batch'[f] = <<>> <=> Fresh = <<>>)
        /\ batch' = [batch EXCEPT ![f] = batch'[f]]
    BY <1>0, <1>3, BatchTypes, EmptySeq DEF Basic, TypeOK
  <2>2. items' \in Seq(Entry) BY <1>0, <1>3, PopTypes, PipelineAssumption DEF PopBatch
  <2>3. PrunedRecords \subseteq Records BY <1>0, PrunedTypes
  <2>4. batch' \in [Forwarders -> Seq(Records)] BY <2>1 DEF Basic, TypeOK
  <2>5. excused' \subseteq Records BY <1>3, <2>3 DEF PopBatch, PopOldest, Basic, TypeOK
  <2>6. /\ forwarder' = [forwarder EXCEPT ![f] = IF Fresh = <<>> THEN "idle" ELSE "push"]
        /\ UNCHANGED <<managerVars, clock, switch, taken, channelVars, enqueueVars, cancelled, home,
                       failures>>
        /\ forwarder[f] = "pop"
    BY <1>3 DEF PopBatch
  <2>7. TypeOK' BY <2>2, <2>4, <2>5, <2>6 DEF TypeOK, Basic, Entry
  <2>8. Discipline' BY <2>1, <2>6 DEF Discipline, Basic, TypeOK
  <2> QED BY <2>7, <2>8 DEF Basic
<1>4. CASE PushSucceeds(f)
  <2>1. batch[f] # <<>> /\ batch[f] \in Seq(Records) BY <1>4 DEF PushSucceeds, Basic, TypeOK, Discipline
  <2>2. Head(batch[f]) \in Records /\ Tail(batch[f]) \in Seq(Records) BY <2>1, HeadTailProperties
  <2>3. home' \in [Records -> Nat] BY <1>4, <2>2, ReceivedTypes DEF PushSucceeds, Basic, TypeOK
  <2>4. batch' = [batch EXCEPT ![f] = Tail(batch[f])] BY <1>4 DEF PushSucceeds
  <2>5. batch' \in [Forwarders -> Seq(Records)] BY <2>2, <2>4 DEF Basic, TypeOK
  <2>6. /\ forwarder' = [forwarder EXCEPT ![f] = IF batch'[f] = <<>> THEN "idle" ELSE "push"]
        /\ forwarder[f] = "push"
        /\ UNCHANGED <<managerVars, storeVars, channelVars, enqueueVars, cancelled, failures, excused>>
    BY <1>4 DEF PushSucceeds, Basic, TypeOK
  <2>7. TypeOK' BY <2>3, <2>5, <2>6 DEF TypeOK, Basic
  <2>8. Discipline' BY <2>4, <2>6 DEF Discipline, Basic, TypeOK
  <2> QED BY <2>7, <2>8 DEF Basic
<1>5. ASSUME NEW received \in BOOLEAN, PushFails(f, received) PROVE Basic'
  <2>1. batch[f] # <<>> /\ batch[f] \in Seq(Records) BY <1>5 DEF PushFails, Basic, TypeOK, Discipline
  <2>2. Head(batch[f]) \in Records BY <2>1, HeadTailProperties
  <2>3. failures' \in [Records -> Nat] BY <1>5, <2>2 DEF PushFails, Basic, TypeOK
  <2>4. home' \in [Records -> Nat]
    <3>1. CASE received BY <1>5, <2>2, <3>1, ReceivedTypes DEF PushFails, Basic, TypeOK
    <3>2. CASE ~received BY <1>5, <3>2 DEF PushFails, Basic, TypeOK
    <3> QED BY <3>1, <3>2
  <2>5. /\ backlog' = [backlog EXCEPT ![f] = batch[f]] /\ batch' = [batch EXCEPT ![f] = <<>>]
        /\ forwarder' = [forwarder EXCEPT ![f] = "requeue"]
        /\ UNCHANGED <<managerVars, storeVars, channelVars, step, cancelled, excused>>
    BY <1>5 DEF PushFails
  <2>6. <<>> \in Seq(Records) BY EmptySeq
  <2>7. TypeOK' BY <1>0, <2>1, <2>3, <2>4, <2>5, <2>6 DEF TypeOK, Basic
  <2>8. Discipline' BY <1>0, <2>1, <2>5 DEF Discipline, Basic, TypeOK, Enqueuers
  <2> QED BY <2>7, <2>8 DEF Basic
<1> QED BY <1>1, <1>2, <1>3, <1>4, <1>5 DEF ForwarderStep

\* Every step keeps the types and the order of steps.
LEMMA NextBasic == Basic /\ [Next]_vars => Basic'
<1> SUFFICES ASSUME Basic, [Next]_vars PROVE Basic' OBVIOUS
<1>1. CASE UNCHANGED vars
  BY <1>1 DEF Basic, TypeOK, Discipline, vars, managerVars, storeVars, channelVars, enqueueVars,
              forwarderVars
<1>2. CASE (\E r \in Records : Publish(r)) \/ StopManager \/ Dispatch BY <1>2, ManagerBasic
<1>3. CASE \E e \in Enqueuers : EnqueueStep(e) BY <1>3, EnqueueBasic
<1>4. CASE \/ \E count \in DOMAIN items : ManagementPop(count)
           \/ NotifyUsageRefresh \/ Tick \/ Disable \/ Clear \/ Enable
           \/ \E s \in Subscribers :
                 \/ Subscribe(s) \/ Unsubscribe(s)
                 \/ \E written \in BOOLEAN : Read(s, written)
                 \/ \E who \in {"unsubscribe", "clear"} : CloseChannel(who, s)
  BY <1>4, ClientBasic
<1>5. CASE \E f \in Forwarders : ForwarderStep(f) BY <1>5, ForwarderBasic
<1> QED BY <1>1, <1>2, <1>3, <1>4, <1>5 DEF Next, ForwarderStep

\* No step changes the type of a variable.
THEOREM PipelineTypeCorrect == Spec => []TypeOK
<1>1. Basic => TypeOK BY DEF Basic
<1> QED BY <1>1, InitBasic, NextBasic, PTL DEF Spec

-----------------------------------------------------------------------------
(***************************************************************************)
(* Subscribers.                                                            *)
(***************************************************************************)
Closers == {"unsubscribe", "clear"}

\* Goroutines that have taken s out of the map and not closed its channel.
Pending(s) == {w \in Closers : <<w, s>> \in closing}

\* The channel of s is open and nobody is about to close it.
Untouched(s) == closes[s] = 0 /\ Pending(s) = {}

\* A connection that has not subscribed has an untouched channel, a subscriber
\* of the map as well, and every other channel has one close, done or to come.
CloseInv ==
  /\ \A s \in Subscribers : \/ Untouched(s)
                            \/ closes[s] = 1 /\ Pending(s) = {}
                            \/ closes[s] = 0 /\ \E w \in Closers : Pending(s) = {w}
  /\ \A s \in Subscribers : reader[s] = "new" => s \notin table /\ Untouched(s)
  /\ \A s \in table : Untouched(s)

\* The map's subscribers have what was broadcast since they joined.
GapInv ==
  \A s \in table : /\ joined[s] <= Len(stream)
                   /\ inbox[s] = <<"supportRefresh">> \o SubSeq(stream, joined[s] + 1, Len(stream))

\* A message that is appended to the stream and to the channel leaves no gap.
LEMMA NoGapAfterBroadcast ==
  ASSUME NEW S, NEW st \in Seq(S), NEW m \in S, NEW first \in S, NEW j \in Nat, j <= Len(st)
  PROVE  /\ j <= Len(Append(st, m))
         /\ Append(<<first>> \o SubSeq(st, j + 1, Len(st)), m) =
              <<first>> \o SubSeq(Append(st, m), j + 1, Len(Append(st, m)))
<1>1. PICK n \in Nat : n = Len(st) /\ st \in [1 .. n -> S] BY LenProperties
<1> DEFINE a == Append(st, m)
           rest == SubSeq(st, j + 1, n)
           more == SubSeq(a, j + 1, n + 1)
<1>0. j <= n BY <1>1
<1>2. a \in Seq(S) /\ Len(a) = n + 1 /\ (\A i \in 1 .. n : a[i] = st[i]) /\ a[n + 1] = m
  BY <1>1, AppendProperties
<1> HIDE DEF a
<1>3. j + 1 \in Int /\ n \in Int /\ n + 1 \in Int /\ j + 1 <= n + 1 BY <1>0
<1>4. \A i \in j + 1 .. n : st[i] \in S BY <1>1
<1>5. \A i \in j + 1 .. n + 1 : a[i] \in S
  <2>1. \A i \in j + 1 .. n + 1 : i \in 1 .. Len(a) BY <1>1, <1>2
  <2> QED BY <1>2, <2>1, ElementOfSeq
<1>6. /\ rest \in Seq(S)
      /\ Len(rest) = IF j + 1 <= n THEN n - (j + 1) + 1 ELSE 0
      /\ \A i \in 1 .. n - (j + 1) + 1 : rest[i] = st[j + 1 + i - 1]
  BY <1>3, <1>4, SubSeqProperties
<1>7. /\ more \in Seq(S)
      /\ Len(more) = IF j + 1 <= n + 1 THEN n + 1 - (j + 1) + 1 ELSE 0
      /\ \A i \in 1 .. n + 1 - (j + 1) + 1 : more[i] = a[j + 1 + i - 1]
  BY <1>3, <1>5, SubSeqProperties
<1> HIDE DEF rest, more
<1>8. Len(rest) = n - j /\ Len(more) = n - j + 1
  <2>1. (IF j + 1 <= n THEN n - (j + 1) + 1 ELSE 0) = n - j BY <1>0
  <2>2. n + 1 - (j + 1) + 1 = n - j + 1 BY <1>0
  <2> QED BY <1>3, <1>6, <1>7, <2>1, <2>2
<1>9. more = Append(rest, m)
  <2>1. /\ Append(rest, m) \in Seq(S) /\ Len(Append(rest, m)) = n - j + 1
        /\ \A i \in 1 .. n - j : Append(rest, m)[i] = rest[i]
        /\ Append(rest, m)[n - j + 1] = m
    <3>1. rest \in Seq(S) BY <1>6
    <3>2. /\ Append(rest, m) \in Seq(S) /\ Len(Append(rest, m)) = Len(rest) + 1
          /\ \A i \in 1 .. Len(rest) : Append(rest, m)[i] = rest[i]
          /\ Append(rest, m)[Len(rest) + 1] = m
      BY <3>1, AppendProperties
    <3>3. Len(rest) = n - j BY <1>8
    <3> QED BY <3>2, <3>3
  <2>2. ASSUME NEW i \in 1 .. n - j + 1 PROVE more[i] = Append(rest, m)[i]
    <3>1. more[i] = a[j + i]
      <4>1. i \in 1 .. n + 1 - (j + 1) + 1 /\ j + 1 + i - 1 = j + i BY <1>0, <2>2
      <4> QED BY <1>7, <4>1
    <3>2. CASE i = n - j + 1
      <4>1. j + i = n + 1 BY <1>0, <3>2
      <4> QED BY <1>2, <2>1, <3>1, <3>2, <4>1
    <3>3. CASE i # n - j + 1
      <4>0. i \in Nat /\ i >= 1 /\ i <= n - j BY <1>0, <2>2, <3>3
      <4>1. /\ i \in 1 .. n - j /\ i \in 1 .. n - (j + 1) + 1 /\ j + 1 + i - 1 = j + i
            /\ j + i \in 1 .. n
        BY <1>0, <4>0
      <4>2. rest[i] = st[j + i] BY <1>6, <4>1
      <4>3. a[j + i] = st[j + i] BY <1>2, <4>1
      <4> QED BY <2>1, <3>1, <4>1, <4>2, <4>3
    <3> QED BY <3>2, <3>3
  <2> QED BY <1>7, <1>8, <2>1, <2>2, SeqEqual
<1>10. Append(<<first>> \o rest, m) = <<first>> \o Append(rest, m)
  <2> DEFINE one == <<first>>
  <2>1. one \in Seq(S) /\ Len(one) = 1 OBVIOUS
  <2> HIDE DEF one
  <2>2. PICK k \in Nat : Len(rest) = k BY <1>6, LenProperties
  <2>3. /\ one \o rest \in Seq(S) /\ Len(one \o rest) = 1 + k
        /\ \A i \in 1 .. 1 + k : (one \o rest)[i] = IF i <= 1 THEN one[i] ELSE rest[i - 1]
    <3>1. rest \in Seq(S) BY <1>6
    <3>2. /\ one \o rest \in Seq(S) /\ Len(one \o rest) = Len(one) + Len(rest)
          /\ \A i \in 1 .. Len(one) + Len(rest) :
               (one \o rest)[i] = IF i <= Len(one) THEN one[i] ELSE rest[i - Len(one)]
      BY <2>1, <3>1, ConcatProperties, Zenon
    <3> QED BY <2>1, <2>2, <3>2
  <2>4. /\ Append(rest, m) \in Seq(S) /\ Len(Append(rest, m)) = k + 1
        /\ \A i \in 1 .. k : Append(rest, m)[i] = rest[i]
        /\ Append(rest, m)[k + 1] = m
    BY <1>6, <2>2, AppendProperties
  <2>5. /\ one \o Append(rest, m) \in Seq(S) /\ Len(one \o Append(rest, m)) = 1 + (k + 1)
        /\ \A i \in 1 .. 1 + (k + 1) :
             (one \o Append(rest, m))[i] = IF i <= 1 THEN one[i] ELSE Append(rest, m)[i - 1]
    <3> DEFINE tail == Append(rest, m)
    <3>1. tail \in Seq(S) /\ Len(tail) = k + 1 BY <2>4
    <3> HIDE DEF tail
    <3>0. tail \in Seq(S) BY <3>1
    <3>2. /\ one \o tail \in Seq(S) /\ Len(one \o tail) = Len(one) + Len(tail)
          /\ \A i \in 1 .. Len(one) + Len(tail) :
               (one \o tail)[i] = IF i <= Len(one) THEN one[i] ELSE tail[i - Len(one)]
      BY <2>1, <3>0, ConcatProperties, Zenon
    <3>3. /\ one \o tail \in Seq(S) /\ Len(one \o tail) = 1 + (k + 1)
          /\ \A i \in 1 .. 1 + (k + 1) :
               (one \o tail)[i] = IF i <= 1 THEN one[i] ELSE tail[i - 1]
      BY <2>1, <3>1, <3>2
    <3> QED BY <3>3 DEF tail
  <2>6. /\ Append(one \o rest, m) \in Seq(S) /\ Len(Append(one \o rest, m)) = 1 + k + 1
        /\ \A i \in 1 .. 1 + k : Append(one \o rest, m)[i] = (one \o rest)[i]
        /\ Append(one \o rest, m)[1 + k + 1] = m
    BY <2>3, AppendProperties
  <2>7. ASSUME NEW i \in 1 .. 1 + k + 1
        PROVE  Append(one \o rest, m)[i] = (one \o Append(rest, m))[i]
    <3>1. CASE i = 1 + k + 1
      <4>1. ~(i <= 1) /\ i - 1 = k + 1 /\ i \in 1 .. 1 + (k + 1) BY <3>1
      <4> QED BY <2>4, <2>5, <2>6, <3>1, <4>1
    <3>2. CASE i # 1 + k + 1
      <4>1. i \in 1 .. 1 + k /\ i \in 1 .. 1 + (k + 1) /\ (~(i <= 1) => i - 1 \in 1 .. k)
        BY <2>7, <3>2
      <4> QED BY <2>3, <2>4, <2>5, <2>6, <4>1
    <3> QED BY <3>1, <3>2
  <2>8. 1 + k + 1 = 1 + (k + 1) OBVIOUS
  <2> QED BY <2>5, <2>6, <2>7, <2>8, SeqEqual DEF one
<1>11. j <= n + 1 BY <1>0
<1>12. SubSeq(st, j + 1, Len(st)) = rest BY <1>1 DEF rest
<1> QED BY <1>2, <1>9, <1>10, <1>11, <1>12 DEF a, more

\* publishToSubscribers: who has room gets the message, who has not leaves.
LEMMA BroadcastChannels ==
  ASSUME TypeOK, CloseInv, GapInv, NEW m \in Records \cup Notices, Broadcast(m)
  PROVE  CloseInv' /\ GapInv'
<1> DEFINE served == {s \in table : HasRoom(s)}
<1>1. /\ table' = served /\ stream' = Append(stream, m) /\ UNCHANGED <<closing, joined, reader>>
      /\ \A s \in Subscribers :
           /\ inbox'[s] = IF s \in served THEN Append(inbox[s], m) ELSE inbox[s]
           /\ closes'[s] = IF s \in table \ served THEN closes[s] + 1 ELSE closes[s]
  BY DEF Broadcast
<1>2. served \subseteq table /\ table \subseteq Subscribers BY DEF TypeOK
<1> HIDE DEF served
<1>3. \A s \in Subscribers : Pending(s)' = Pending(s) BY <1>1 DEF Pending
<1>4. \A s \in Subscribers : s \notin table \/ s \in served => (Untouched(s)' <=> Untouched(s))
  BY <1>1, <1>3 DEF Untouched
<1>5. \A s \in table \ served : closes'[s] = 1 /\ Pending(s)' = {}
  BY <1>1, <1>2, <1>3 DEF CloseInv, Untouched
<1>7. CloseInv'
  <2>1. ASSUME NEW s \in Subscribers
        PROVE  \/ Untouched(s)'
               \/ closes'[s] = 1 /\ Pending(s)' = {}
               \/ closes'[s] = 0 /\ \E w \in Closers : Pending(s)' = {w}
    BY <1>1, <1>3, <1>4, <1>5 DEF CloseInv
  <2>2. ASSUME NEW s \in Subscribers, reader'[s] = "new" PROVE s \notin table' /\ Untouched(s)'
    BY <1>1, <1>2, <1>4, <2>2 DEF CloseInv
  <2>3. \A s \in table' : Untouched(s)' BY <1>1, <1>2, <1>4 DEF CloseInv
  <2> QED BY <2>1, <2>2, <2>3 DEF CloseInv
<1>8. ASSUME NEW s \in served
      PROVE  /\ joined'[s] <= Len(stream')
             /\ inbox'[s] = <<"supportRefresh">> \o SubSeq(stream', joined'[s] + 1, Len(stream'))
  <2>1. /\ stream \in Seq(Records \cup Notices) /\ joined[s] \in Nat
        /\ "supportRefresh" \in Records \cup Notices
    BY <1>2 DEF TypeOK, Notices
  <2>2. /\ joined[s] <= Len(stream)
        /\ inbox[s] = <<"supportRefresh">> \o SubSeq(stream, joined[s] + 1, Len(stream))
    BY <1>2 DEF GapInv
  <2>3. /\ joined[s] <= Len(Append(stream, m))
        /\ Append(inbox[s], m) = <<"supportRefresh">> \o
             SubSeq(Append(stream, m), joined[s] + 1, Len(Append(stream, m)))
    <3> DEFINE first == "supportRefresh"
               j == joined[s]
               S == Records \cup Notices
    <3>1. stream \in Seq(S) /\ first \in S /\ j \in Nat /\ m \in S /\ j <= Len(stream)
      BY <2>1, <2>2
    <3>2. inbox[s] = <<first>> \o SubSeq(stream, j + 1, Len(stream)) BY <2>2
    <3> HIDE DEF first, j, S
    <3>3. /\ j <= Len(Append(stream, m))
          /\ Append(<<first>> \o SubSeq(stream, j + 1, Len(stream)), m) =
               <<first>> \o SubSeq(Append(stream, m), j + 1, Len(Append(stream, m)))
      BY <3>1, NoGapAfterBroadcast, Zenon
    <3>4. /\ j <= Len(Append(stream, m))
          /\ Append(inbox[s], m) = <<first>> \o
               SubSeq(Append(stream, m), j + 1, Len(Append(stream, m)))
      BY <3>2, <3>3, Zenon
    <3> QED BY <3>4 DEF first, j
  <2>4. inbox'[s] = Append(inbox[s], m) BY <1>1, <1>2
  <2> QED BY <1>1, <2>3, <2>4, Zenon
<1>9. GapInv' BY <1>1, <1>8 DEF GapInv
<1> QED BY <1>7, <1>9

\* A step that neither touches channels nor undoes a subscription.
ChannelsQuiet ==
  /\ UNCHANGED <<table, inbox, closing, closes, stream, joined>>
  /\ \A s \in Subscribers : reader'[s] = "new" => reader[s] = "new"

\* Only these steps touch channels.
LEMMA ChannelSteps ==
  ASSUME Basic, [Next]_vars
  PROVE  \/ ChannelsQuiet
         \/ \E m \in Records \cup Notices : Broadcast(m)
         \/ Clear
         \/ \E s \in Subscribers : \/ Subscribe(s) \/ Unsubscribe(s)
                                   \/ \E who \in Closers : CloseChannel(who, s)
<1> USE DEF channelVars, ChannelsQuiet
<1>1. CASE UNCHANGED vars BY <1>1 DEF vars
<1>2. CASE (\E r \in Records : Publish(r)) \/ StopManager \/ Dispatch
  BY <1>2 DEF Publish, StopManager, Dispatch
<1>3. ASSUME NEW e \in Enqueuers, EnqueueStep(e)
      PROVE  \/ ChannelsQuiet
             \/ \E m \in Records \cup Notices : Broadcast(m)
  <2>1. CASE CheckEnabled(e) \/ Store(e) BY <2>1 DEF CheckEnabled, Store
  <2>2. CASE PublishToSubscribers(e) /\ table = {} BY <2>2 DEF PublishToSubscribers
  <2>3. CASE PublishToSubscribers(e) /\ table # {}
    <3>1. Broadcast(Head(backlog[e])) BY <2>3 DEF PublishToSubscribers
    <3>2. backlog[e] # <<>> /\ backlog[e] \in Seq(Records)
      BY <2>3 DEF PublishToSubscribers, Basic, Discipline, TypeOK
    <3>3. Head(backlog[e]) \in Records BY <3>2, HeadTailProperties
    <3> QED BY <3>1, <3>3
  <2> QED BY <1>3, <2>1, <2>2, <2>3 DEF EnqueueStep
<1>4. CASE (\E count \in DOMAIN items : ManagementPop(count)) \/ Tick \/ Disable \/ Enable
  BY <1>4 DEF ManagementPop, Tick, Disable, Enable
<1>5. CASE NotifyUsageRefresh BY <1>5 DEF NotifyUsageRefresh, Notices
<1>6. CASE Clear BY <1>6
<1>7. ASSUME NEW s \in Subscribers,
             \/ Subscribe(s) \/ Unsubscribe(s)
             \/ \E written \in BOOLEAN : Read(s, written)
             \/ \E who \in {"unsubscribe", "clear"} : CloseChannel(who, s)
      PROVE  \/ ChannelsQuiet
             \/ Subscribe(s) \/ Unsubscribe(s) \/ \E who \in Closers : CloseChannel(who, s)
  BY <1>7 DEF Read, Closers, Basic, TypeOK
<1>8. ASSUME NEW f \in Forwarders, ForwarderStep(f)
      PROVE  ChannelsQuiet
  BY <1>8 DEF ForwarderStep, StartForwarder, CheckQueue, PopBatch, PushSucceeds, PushFails, Requeued,
              CancelLifetime, Exit
<1> QED BY <1>1, <1>2, <1>3, <1>4, <1>5, <1>6, <1>7, <1>8 DEF Next, ForwarderStep

ChannelInv == Basic /\ CloseInv /\ GapInv

\* Nobody has subscribed.
LEMMA InitChannels == Init => ChannelInv
<1> SUFFICES ASSUME Init PROVE ChannelInv OBVIOUS
<1>1. \A s \in Subscribers : Untouched(s) BY DEF Init, Untouched, Pending
<1>2. CloseInv /\ GapInv BY <1>1 DEF Init, CloseInv, GapInv
<1> QED BY <1>2, InitBasic DEF ChannelInv

\* unsubscribe, clear and publishToSubscribers each take the subscriber out of
\* the map in the step in which they decide to close its channel.
LEMMA NextChannels == ChannelInv /\ [Next]_vars => ChannelInv'
<1> SUFFICES ASSUME ChannelInv, [Next]_vars PROVE ChannelInv' OBVIOUS
<1>0. Basic' /\ TypeOK BY NextBasic DEF ChannelInv, Basic
<1>1. CASE ChannelsQuiet
  BY <1>0, <1>1 DEF ChannelsQuiet, ChannelInv, CloseInv, GapInv, Untouched, Pending
<1>2. CASE \E m \in Records \cup Notices : Broadcast(m)
  BY <1>0, <1>2, BroadcastChannels DEF ChannelInv
<1>3. CASE Clear
  <2>1. /\ table' = {} /\ UNCHANGED <<inbox, closes, stream, joined, reader>>
        /\ closing' = closing \cup ({"clear"} \X table)
    BY <1>3 DEF Clear
  <2>2. \A s \in Subscribers \ table : Pending(s)' = Pending(s) BY <2>1 DEF Pending
  <2>3. \A s \in table : Pending(s)' = Pending(s) \cup {"clear"} BY <2>1 DEF Pending, Closers
  <2>4. \A s \in table : closes[s] = 0 /\ Pending(s) = {} BY DEF ChannelInv, CloseInv, Untouched
  <2>5. ASSUME NEW s \in Subscribers
        PROVE  \/ Untouched(s)'
               \/ closes'[s] = 1 /\ Pending(s)' = {}
               \/ closes'[s] = 0 /\ \E w \in Closers : Pending(s)' = {w}
    <3>1. CASE s \in table
      <4>1. closes'[s] = 0 /\ Pending(s)' = {"clear"} BY <2>1, <2>3, <2>4, <3>1
      <4> QED BY <4>1 DEF Closers
    <3>2. CASE s \notin table BY <2>1, <2>2, <3>2 DEF ChannelInv, CloseInv, Untouched
    <3> QED BY <3>1, <3>2
  <2>7. \A s \in Subscribers : reader'[s] = "new" => s \notin table' /\ Untouched(s)'
    BY <2>1, <2>2 DEF ChannelInv, CloseInv, Untouched
  <2>8. CloseInv' BY <2>1, <2>5, <2>7 DEF CloseInv
  <2>6. GapInv' BY <2>1 DEF GapInv
  <2> QED BY <1>0, <2>6, <2>8 DEF ChannelInv
<1>4. ASSUME NEW s \in Subscribers, Subscribe(s) PROVE ChannelInv'
  <2>1. /\ reader[s] = "new" /\ table' = table \cup {s} /\ UNCHANGED <<closing, closes, stream>>
        /\ reader' = [reader EXCEPT ![s] = "reading"]
        /\ inbox' = [inbox EXCEPT ![s] = <<"supportRefresh">>]
        /\ joined' = [joined EXCEPT ![s] = Len(stream)]
    BY <1>4 DEF Subscribe
  <2>2. \A d \in Subscribers : /\ (Untouched(d)' <=> Untouched(d)) /\ Pending(d)' = Pending(d)
                               /\ (d # s => /\ inbox'[d] = inbox[d] /\ joined'[d] = joined[d]
                                            /\ reader'[d] = reader[d])
    BY <1>0, <2>1 DEF Untouched, Pending, TypeOK
  <2>3. inbox'[s] = <<"supportRefresh">> /\ joined'[s] = Len(stream) /\ reader'[s] = "reading"
    BY <1>0, <2>1 DEF TypeOK
  <2>5. CloseInv'
    <3>1. closes' = closes /\ Untouched(s) BY <2>1 DEF ChannelInv, CloseInv
    <3>2. \A d \in Subscribers : \/ Untouched(d)'
                                 \/ closes'[d] = 1 /\ Pending(d)' = {}
                                 \/ closes'[d] = 0 /\ \E w \in Closers : Pending(d)' = {w}
      BY <2>2, <3>1 DEF ChannelInv, CloseInv
    <3>3. \A d \in Subscribers : reader'[d] = "new" => d \notin table' /\ Untouched(d)'
      BY <2>1, <2>2, <2>3 DEF ChannelInv, CloseInv
    <3>4. \A d \in table' : Untouched(d)' BY <1>0, <2>1, <2>2, <3>1 DEF ChannelInv, CloseInv, TypeOK
    <3> QED BY <3>2, <3>3, <3>4 DEF CloseInv
  <2>6. SubSeq(stream, Len(stream) + 1, Len(stream)) = <<>>
    <3>1. Len(stream) \in Nat BY <1>0, LenProperties DEF TypeOK
    <3>2. Len(stream) + 1 \in Int /\ Len(stream) \in Int /\ Len(stream) < Len(stream) + 1 BY <3>1
    <3> QED BY <3>2, SubSeqEmpty, Zenon
  <2>7. <<"supportRefresh">> = <<"supportRefresh">> \o <<>> OBVIOUS
  <2>8. Len(stream) <= Len(stream)
    <3>1. Len(stream) \in Nat BY <1>0, LenProperties DEF TypeOK
    <3> QED BY <3>1
  <2>9. ASSUME NEW d \in table'
        PROVE  /\ joined'[d] <= Len(stream)
               /\ inbox'[d] = <<"supportRefresh">> \o SubSeq(stream, joined'[d] + 1, Len(stream))
    <3>1. CASE d = s BY <2>3, <2>6, <2>7, <2>8, <3>1
    <3>2. CASE d # s
      <4>1. d \in table /\ d \in Subscribers BY <1>0, <2>1, <2>9, <3>2 DEF TypeOK
      <4>2. /\ joined[d] <= Len(stream)
            /\ inbox[d] = <<"supportRefresh">> \o SubSeq(stream, joined[d] + 1, Len(stream))
        BY <4>1 DEF ChannelInv, GapInv
      <4>3. inbox'[d] = inbox[d] /\ joined'[d] = joined[d] BY <2>2, <3>2, <4>1
      <4> QED BY <4>2, <4>3
    <3> QED BY <3>1, <3>2
  <2>10. GapInv' BY <2>1, <2>9 DEF GapInv
  <2> QED BY <1>0, <2>5, <2>10 DEF ChannelInv
<1>5. ASSUME NEW s \in Subscribers, Unsubscribe(s) PROVE ChannelInv'
  <2>1. /\ table' = table \ {s} /\ UNCHANGED <<inbox, closes, stream, joined>>
        /\ closing' = closing \cup ({"unsubscribe"} \X (table \cap {s}))
        /\ reader' = [reader EXCEPT ![s] = "left"]
    BY <1>5 DEF Unsubscribe
  <2>2. \A d \in Subscribers \ {s} : Pending(d)' = Pending(d) BY <2>1 DEF Pending
  <2>3. \A d \in Subscribers : reader'[d] = "new" => d # s /\ reader[d] = "new"
    BY <1>0, <2>1 DEF TypeOK
  <2>4. ASSUME s \in table PROVE CloseInv'
    <3>1. Pending(s)' = Pending(s) \cup {"unsubscribe"} BY <2>1, <2>4 DEF Pending, Closers
    <3>2. closes[s] = 0 /\ Pending(s) = {} BY <2>4 DEF ChannelInv, CloseInv, Untouched
    <3>3. closes'[s] = 0 /\ Pending(s)' = {"unsubscribe"} /\ "unsubscribe" \in Closers
      BY <2>1, <3>1, <3>2 DEF Closers
    <3>4. \A d \in Subscribers \ {s} : (Untouched(d)' <=> Untouched(d)) /\ closes'[d] = closes[d]
      BY <2>1, <2>2 DEF Untouched
    <3>5. \A d \in Subscribers : \/ Untouched(d)'
                                 \/ closes'[d] = 1 /\ Pending(d)' = {}
                                 \/ closes'[d] = 0 /\ \E w \in Closers : Pending(d)' = {w}
      BY <2>2, <3>3, <3>4 DEF ChannelInv, CloseInv
    <3>6. \A d \in Subscribers : reader'[d] = "new" => d \notin table' /\ Untouched(d)'
      BY <2>1, <2>3, <3>4 DEF ChannelInv, CloseInv
    <3>7. \A d \in table' : Untouched(d)' BY <1>0, <2>1, <3>4 DEF ChannelInv, CloseInv, TypeOK
    <3> QED BY <3>5, <3>6, <3>7 DEF CloseInv
  <2>5. ASSUME s \notin table PROVE CloseInv'
    <3>1. table' = table /\ closing' = closing BY <2>1, <2>5
    <3>2. \A d \in Subscribers : Pending(d)' = Pending(d) BY <3>1 DEF Pending
    <3>3. \A d \in Subscribers : (Untouched(d)' <=> Untouched(d)) /\ closes'[d] = closes[d]
      BY <2>1, <3>2 DEF Untouched
    <3>4. \A d \in Subscribers : \/ Untouched(d)'
                                 \/ closes'[d] = 1 /\ Pending(d)' = {}
                                 \/ closes'[d] = 0 /\ \E w \in Closers : Pending(d)' = {w}
      BY <3>2, <3>3 DEF ChannelInv, CloseInv
    <3>5. \A d \in Subscribers : reader'[d] = "new" => d \notin table' /\ Untouched(d)'
      BY <2>3, <3>1, <3>3 DEF ChannelInv, CloseInv
    <3>6. \A d \in table' : Untouched(d)' BY <1>0, <3>1, <3>3 DEF ChannelInv, CloseInv, TypeOK
    <3> QED BY <3>4, <3>5, <3>6 DEF CloseInv
  <2>7. CloseInv' BY <2>4, <2>5
  <2>6. GapInv' BY <2>1 DEF GapInv, ChannelInv
  <2> QED BY <1>0, <2>6, <2>7 DEF ChannelInv
<1>6. ASSUME NEW s \in Subscribers, NEW who \in Closers, CloseChannel(who, s) PROVE ChannelInv'
  <2>1. /\ <<who, s>> \in closing /\ closing' = closing \ {<<who, s>>}
        /\ closes' = [closes EXCEPT ![s] = @ + 1] /\ UNCHANGED <<table, inbox, stream, joined, reader>>
    BY <1>6 DEF CloseChannel
  <2>2. \A d \in Subscribers \ {s} : Pending(d)' = Pending(d) /\ closes'[d] = closes[d]
    BY <1>0, <2>1 DEF Pending, TypeOK
  <2>3. who \in Pending(s) /\ Pending(s)' = Pending(s) \ {who} BY <2>1 DEF Pending
  <2>4. closes[s] = 0 /\ Pending(s) = {who} BY <2>3 DEF ChannelInv, CloseInv, Untouched
  <2>5. closes'[s] = 1 /\ Pending(s)' = {} BY <1>0, <2>1, <2>3, <2>4 DEF TypeOK
  <2>6. s \notin table /\ reader[s] # "new"
    BY <2>4 DEF ChannelInv, CloseInv, Untouched
  <2>7. CloseInv'
    <3>1. \A d \in Subscribers \ {s} : Untouched(d)' <=> Untouched(d) BY <2>2 DEF Untouched
    <3>2. \A d \in Subscribers : \/ Untouched(d)'
                                 \/ closes'[d] = 1 /\ Pending(d)' = {}
                                 \/ closes'[d] = 0 /\ \E w \in Closers : Pending(d)' = {w}
      BY <2>2, <2>5, <3>1 DEF ChannelInv, CloseInv
    <3>3. \A d \in Subscribers : reader'[d] = "new" => d \notin table' /\ Untouched(d)'
      BY <2>1, <2>6, <3>1 DEF ChannelInv, CloseInv
    <3>4. \A d \in table' : Untouched(d)' BY <1>0, <2>1, <2>6, <3>1 DEF ChannelInv, CloseInv, TypeOK
    <3> QED BY <3>2, <3>3, <3>4 DEF CloseInv
  <2>8. GapInv' BY <2>1 DEF GapInv, ChannelInv
  <2> QED BY <1>0, <2>7, <2>8 DEF ChannelInv
<1>7. Basic BY DEF ChannelInv
<1> QED BY <1>1, <1>2, <1>3, <1>4, <1>5, <1>6, <1>7, ChannelSteps

\* A subscriber sees everything that was broadcast since it joined, and no
\* channel holds more than its capacity.
THEOREM SubscriptionHasNoGapHolds == Spec => []SubscriptionHasNoGap
<1>1. ChannelInv => SubscriptionHasNoGap
  BY DEF ChannelInv, Basic, GapInv, SubscriptionHasNoGap
<1> QED BY <1>1, InitChannels, NextChannels, PTL DEF Spec

\* A channel is closed once, and never while publishToSubscribers could send.
THEOREM ClosedOnceHolds == Spec => []ClosedOnce
<1>1. ASSUME ChannelInv PROVE ClosedOnce
  <2>1. ASSUME NEW s \in Subscribers PROVE closes[s] + Cardinality(Pending(s)) <= 1
    <3>1. Cardinality({}) = 0 /\ \A w : Cardinality({w}) = 1 BY FS_EmptySet, FS_Singleton
    <3>2. CASE Pending(s) = {} /\ closes[s] \in {0, 1} BY <3>1, <3>2
    <3>3. CASE closes[s] = 0 /\ \E w \in Closers : Pending(s) = {w} BY <3>1, <3>3
    <3> QED BY <1>1, <3>2, <3>3 DEF ChannelInv, CloseInv, Untouched
  <2>2. ASSUME NEW s \in Subscribers, s \in table
        PROVE  closes[s] = 0 /\ \A w \in {"unsubscribe", "clear"} : <<w, s>> \notin closing
    BY <1>1, <2>2 DEF ChannelInv, CloseInv, Untouched, Pending, Closers
  <2> QED BY <2>1, <2>2 DEF ClosedOnce, Pending, Closers
<1> QED BY <1>1, InitChannels, NextChannels, PTL DEF Spec

-----------------------------------------------------------------------------
(***************************************************************************)
(* Records.                                                                *)
(***************************************************************************)
FreshRecords == {Fresh[i].record : i \in DOMAIN Fresh}

\* The items list no record twice.
ItemsOnce(s) == \A i, j \in DOMAIN s : s[i].record = s[j].record => i = j

\* pruneLocked keeps the fresh records and drops the pruned ones.
LEMMA PruneFlow ==
  ASSUME items \in Seq(Entry)
  PROVE  /\ FreshRecords \subseteq Stored
         /\ Stored \subseteq FreshRecords \cup PrunedRecords
         /\ ItemsOnce(items) => ItemsOnce(Fresh)
<1>1. PICK k \in 0 .. Len(items) :
        /\ ExpiredPrefix = 1 .. k
        /\ Fresh \in Seq(Entry) /\ Len(Fresh) = Len(items) - k
        /\ DOMAIN Fresh = 1 .. Len(items) - k /\ DOMAIN items = 1 .. Len(items)
        /\ \A i \in 1 .. Len(items) - k : Fresh[i] = items[i + k]
  BY FreshItems
<1>2. PICK n \in Nat : n = Len(items) BY LenProperties
<1>3. /\ k \in 0 .. n /\ DOMAIN Fresh = 1 .. n - k /\ DOMAIN items = 1 .. n
      /\ \A i \in 1 .. n - k : Fresh[i] = items[i + k]
  BY <1>1, <1>2
<1>4. \A i \in 1 .. n - k : i + k \in 1 .. n BY <1>3
<1>5. \A i \in 1 .. n : i \in 1 .. k \/ (i - k \in 1 .. n - k /\ (i - k) + k = i) BY <1>3
<1>6. FreshRecords \subseteq Stored BY <1>3, <1>4 DEF FreshRecords, Stored
<1>7. ASSUME NEW i \in 1 .. n PROVE items[i].record \in FreshRecords \cup PrunedRecords
  <2>1. CASE i \in 1 .. k BY <1>1, <2>1 DEF PrunedRecords
  <2>2. CASE i - k \in 1 .. n - k /\ (i - k) + k = i
    <3>1. Fresh[i - k] = items[i] /\ i - k \in DOMAIN Fresh BY <1>3, <2>2
    <3> QED BY <3>1 DEF FreshRecords
  <2> QED BY <1>5, <2>1, <2>2
<1>8. ASSUME ItemsOnce(items), NEW i \in 1 .. n - k, NEW j \in 1 .. n - k,
             Fresh[i].record = Fresh[j].record
      PROVE  i = j
  <2>1. items[i + k].record = items[j + k].record BY <1>3, <1>8
  <2>2. i + k = j + k BY <1>3, <1>4, <1>8, <2>1 DEF ItemsOnce
  <2> QED BY <1>3, <2>2
<1>9. ItemsOnce(items) => ItemsOnce(Fresh) BY <1>3, <1>8 DEF ItemsOnce
<1> QED BY <1>3, <1>6, <1>7, <1>9 DEF Stored

\* popOldest divides the fresh records between who asked and the queue.
LEMMA PopFlow ==
  ASSUME items \in Seq(Entry), NEW n \in Nat, PopOldest(n)
  PROVE  /\ Stored' \subseteq FreshRecords
         /\ FreshRecords \subseteq Stored' \cup Oldest(n)
         /\ Oldest(n) \subseteq FreshRecords
         /\ ItemsOnce(items) => ItemsOnce(items') /\ Stored' \cap Oldest(n) = {}
<1>1. /\ items' \in Seq(Entry)
      /\ Len(items') = IF n < Len(Fresh) THEN Len(Fresh) - n ELSE 0
      /\ \A i \in 1 .. Len(Fresh) - n : items'[i] = Fresh[i + n]
  BY PopTypes
<1>2. Fresh \in Seq(Entry) BY FreshItems
<1>3. PICK k \in Nat : k = Len(Fresh) /\ DOMAIN Fresh = 1 .. k BY <1>2, LenProperties
<1>4. /\ DOMAIN items' = 1 .. k - n /\ \A i \in 1 .. k - n : items'[i] = Fresh[i + n]
  <2>1. DOMAIN items' = 1 .. Len(items') BY <1>1, LenProperties
  <2>2. Len(items') = IF n < k THEN k - n ELSE 0 BY <1>1, <1>3
  <2>3. 1 .. (IF n < k THEN k - n ELSE 0) = 1 .. k - n BY <1>3
  <2> QED BY <1>1, <1>3, <2>1, <2>2, <2>3
<1>5. \A i \in 1 .. k - n : i + n \in 1 .. k /\ ~(i + n <= n) BY <1>3
<1>6. \A i \in 1 .. k : i <= n \/ (i - n \in 1 .. k - n /\ (i - n) + n = i) BY <1>3
<1>7. Stored' \subseteq FreshRecords BY <1>3, <1>4, <1>5 DEF Stored, FreshRecords
<1>8. ASSUME NEW i \in 1 .. k PROVE Fresh[i].record \in Stored' \cup Oldest(n)
  <2>1. CASE i <= n BY <1>3, <2>1 DEF Oldest
  <2>2. CASE i - n \in 1 .. k - n /\ (i - n) + n = i
    <3>1. items'[i - n] = Fresh[i] /\ i - n \in DOMAIN items' BY <1>4, <2>2
    <3> QED BY <3>1 DEF Stored
  <2> QED BY <1>6, <2>1, <2>2
<1>9. Oldest(n) \subseteq FreshRecords BY DEF Oldest, FreshRecords
<1>10. ASSUME ItemsOnce(items) PROVE ItemsOnce(items') /\ Stored' \cap Oldest(n) = {}
  <2>1. ItemsOnce(Fresh) BY <1>10, PruneFlow
  <2>2. ASSUME NEW i \in 1 .. k - n, NEW j \in 1 .. k - n, items'[i].record = items'[j].record
        PROVE  i = j
    <3>1. Fresh[i + n].record = Fresh[j + n].record BY <1>4, <2>2
    <3>2. i + n = j + n BY <1>3, <1>5, <2>1, <2>2, <3>1 DEF ItemsOnce
    <3> QED BY <1>3, <3>2
  <2>3. ASSUME NEW i \in 1 .. k - n, NEW j \in 1 .. k, j <= n, items'[i].record = Fresh[j].record
        PROVE  FALSE
    <3>1. Fresh[i + n].record = Fresh[j].record BY <1>4, <2>3
    <3>2. i + n = j BY <1>3, <1>5, <2>1, <2>3, <3>1 DEF ItemsOnce
    <3> QED BY <1>5, <2>3, <3>2
  <2>4. Stored' \cap Oldest(n) = {} BY <1>3, <1>4, <2>3 DEF Stored, Oldest
  <2> QED BY <1>4, <2>2, <2>4 DEF ItemsOnce
<1> QED BY <1>3, <1>7, <1>8, <1>9, <1>10 DEF FreshRecords

\* What the channels hold is in inbox and unread.
LEMMA OfferedStays == UNCHANGED <<inbox, unread>> => Offered' = Offered
BY DEF Offered, Unread

\* What publishToSubscribers sends is in the channel of whoever is still
\* subscribed after it.
LEMMA BroadcastOffers ==
  ASSUME TypeOK, NEW m \in Records \cup Notices, Broadcast(m)
  PROVE  /\ Offered \subseteq Offered'
         /\ table' # {} /\ m \in Records => m \in Offered'
<1>1. \A s \in Subscribers :
        IF s \in table' THEN inbox'[s] = Append(inbox[s], m) /\ unread'[s] = unread[s] + 1
                        ELSE inbox'[s] = inbox[s] /\ unread'[s] = unread[s]
  BY DEF Broadcast
<1>2. ASSUME NEW s \in table'
      PROVE  Unread(s) \subseteq Unread(s)' /\ (m \in Records => m \in Unread(s)')
  <2>0. s \in Subscribers BY DEF Broadcast, TypeOK
  <2>1. PICK n \in Nat : n = Len(inbox[s]) BY <2>0, LenProperties DEF TypeOK
  <2>2. PICK u \in Nat : u = unread[s] BY <2>0, PipelineAssumption DEF TypeOK
  <2>3. inbox[s] \in Seq(Records \cup Notices) BY <2>0 DEF TypeOK
  <2>4. /\ Append(inbox[s], m) \in Seq(Records \cup Notices) /\ Len(Append(inbox[s], m)) = n + 1
        /\ \A i \in 1 .. n : Append(inbox[s], m)[i] = inbox[s][i]
        /\ Append(inbox[s], m)[n + 1] = m
    BY <2>1, <2>3, AppendProperties
  <2>5. /\ DOMAIN inbox[s] = 1 .. n /\ DOMAIN inbox'[s] = 1 .. n + 1 /\ Len(inbox'[s]) = n + 1
        /\ inbox'[s][n + 1] = m /\ \A i \in 1 .. n : inbox'[s][i] = inbox[s][i]
        /\ unread'[s] = u + 1
    BY <1>1, <2>0, <2>1, <2>2, <2>3, <2>4, LenProperties
  <2>6. /\ \A i \in 1 .. n : i \in 1 .. n + 1 /\ (i + u > n => i + (u + 1) > n + 1)
        /\ n + 1 \in 1 .. n + 1 /\ n + 1 + (u + 1) > n + 1
    OBVIOUS
  <2>7. /\ Unread(s) = {inbox[s][i] : i \in {j \in 1 .. n : j + u > n}} \cap Records
        /\ Unread(s)' = {inbox'[s][i] : i \in {j \in 1 .. n + 1 : j + (u + 1) > n + 1}} \cap Records
    BY <2>1, <2>2, <2>5 DEF Unread
  <2> QED BY <2>5, <2>6, <2>7
<1>3. ASSUME NEW s \in Subscribers, s \notin table' PROVE Unread(s)' = Unread(s)
  BY <1>1, <1>3 DEF Unread
<1>4. table' \subseteq Subscribers BY DEF Broadcast, TypeOK
<1> QED BY <1>2, <1>3, <1>4 DEF Offered

\* A message leaves its channel when it is written or its reader leaves, and a
\* connection subscribes with an empty channel.
LEMMA ClientOffers ==
  ASSUME Basic, NEW s \in Subscribers,
         Subscribe(s) \/ Unsubscribe(s) \/ \E written \in BOOLEAN : Read(s, written)
  PROVE  taken \cup Offered \cup excused \subseteq (taken \cup Offered \cup excused)'
<1> USE DEF managerVars, storeVars, channelVars, enqueueVars, forwarderVars
<1>1. PICK n \in Nat : n = Len(inbox[s]) /\ DOMAIN inbox[s] = 1 .. n
  BY LenProperties DEF Basic, TypeOK
<1>2. PICK u \in Nat : u = unread[s] BY PipelineAssumption DEF Basic, TypeOK
<1>3. Unread(s) = {inbox[s][i] : i \in {j \in 1 .. n : j + u > n}} \cap Records
  BY <1>1, <1>2 DEF Unread
<1>4. /\ \A d \in Subscribers : d # s => inbox'[d] = inbox[d] /\ unread'[d] = unread[d]
      /\ taken \subseteq taken' /\ excused \subseteq excused'
  BY DEF Subscribe, Unsubscribe, Read, Basic, TypeOK
<1>5. \A d \in Subscribers : d # s => Unread(d)' = Unread(d) BY <1>4 DEF Unread
<1>6. SUFFICES Unread(s) \subseteq taken' \cup Unread(s)' \cup excused' BY <1>4, <1>5 DEF Offered
<1>7. CASE Subscribe(s)
  <2>1. u = 0 BY <1>2, <1>7 DEF Subscribe, Basic, Discipline
  <2> QED BY <1>3, <2>1
<1>8. CASE Unsubscribe(s) BY <1>8 DEF Unsubscribe
<1>9. ASSUME NEW written \in BOOLEAN, Read(s, written) PROVE Unread(s) \subseteq taken' \cup Unread(s)'
  <2>1. /\ u > 0 /\ unread'[s] = u - 1 /\ inbox' = inbox
        /\ taken' = taken \cup ({inbox[s][n - u + 1]} \cap Records)
    BY <1>1, <1>2, <1>9 DEF Read, Message, Basic, TypeOK
  <2>2. Unread(s)' = {inbox[s][i] : i \in {j \in 1 .. n : j + (u - 1) > n}} \cap Records
    BY <1>1, <2>1 DEF Unread
  <2>3. \A i \in 1 .. n : i + u > n => i + (u - 1) > n \/ i = n - u + 1 BY <2>1
  <2> QED BY <1>3, <2>1, <2>2, <2>3
<1> QED BY <1>7, <1>8, <1>9

\* A record is inside the pipeline: it waits, is stored or is being forwarded.
Held(x) ==
  \/ x \in Elements(queue) \/ x \in Stored
  \/ \E e \in Enqueuers : x \in Elements(backlog[e])
  \/ \E f \in Forwarders : x \in Elements(batch[f])

\* A published record is inside, was delivered or was given up.
Accounted ==
  \A x \in published : \/ Held(x) \/ x \in taken \/ x \in Offered \/ home[x] > 0
                       \/ x \in excused

\* Each sequence lists a record once ...
Single ==
  /\ Once(queue) /\ ItemsOnce(items)
  /\ \A e \in Enqueuers : Once(backlog[e])
  /\ \A f \in Forwarders : Once(batch[f])

\* ... and no two of them the same: there is one copy of a record.
Exclusive ==
  /\ \A x \in Elements(queue) : /\ x \notin Stored
                                /\ \A e \in Enqueuers : x \notin Elements(backlog[e])
                                /\ \A f \in Forwarders : x \notin Elements(batch[f])
  /\ \A x \in Stored : /\ \A e \in Enqueuers : x \notin Elements(backlog[e])
                       /\ \A f \in Forwarders : x \notin Elements(batch[f])
  /\ \A e \in Enqueuers : \A x \in Elements(backlog[e]) :
       /\ \A d \in Enqueuers : x \in Elements(backlog[d]) => d = e
       /\ \A f \in Forwarders : x \notin Elements(batch[f])
  /\ \A f, g \in Forwarders : \A x \in Elements(batch[f]) : x \in Elements(batch[g]) => f = g

\* Home has received a record that is still inside no more often than a push of
\* it failed, and otherwise at most once more; it knows published records only.
Counted ==
  /\ \A x \in Records : home[x] <= 1 + failures[x]
  /\ \A x \in Records : Held(x) => x \in published /\ home[x] <= failures[x]
  /\ \A x \in Records : x \notin published => home[x] = 0

FlowInv == Basic /\ Accounted /\ Single /\ Exclusive /\ Counted

\* The empty pipeline.
LEMMA InitFlow == Init => FlowInv
<1> SUFFICES ASSUME Init PROVE FlowInv OBVIOUS
<1>1. Elements(<<>>) = {} /\ Once(<<>>) /\ ItemsOnce(<<>>) BY DEF Elements, Once, ItemsOnce
<1>2. Stored = {} BY DEF Init, Stored
<1>3. /\ \A e \in Enqueuers : backlog[e] = <<>>
      /\ \A f \in Forwarders : batch[f] = <<>>
      /\ \A x \in Records : home[x] = 0 /\ failures[x] = 0
  BY DEF Init
<1>4. queue = <<>> /\ items = <<>> /\ published = {} BY DEF Init
<1>5. \A x : ~Held(x) BY <1>1, <1>2, <1>3, <1>4 DEF Held
<1>6. Accounted BY <1>4 DEF Accounted
<1>7. Single BY <1>1, <1>3, <1>4 DEF Single
<1>8. Exclusive BY <1>1, <1>2, <1>3, <1>4 DEF Exclusive
<1>9. Counted BY <1>3, <1>5 DEF Counted
<1> QED BY <1>6, <1>7, <1>8, <1>9, InitBasic DEF FlowInv

\* A step that puts nothing anywhere brings nothing inside.
LEMMA DropFlow ==
  ASSUME Exclusive,
         Elements(queue') \subseteq Elements(queue), Stored' \subseteq Stored,
         \A e \in Enqueuers : Elements(backlog'[e]) \subseteq Elements(backlog[e]),
         \A f \in Forwarders : Elements(batch'[f]) \subseteq Elements(batch[f])
  PROVE  Exclusive' /\ \A x : Held(x)' => Held(x)
<1>1. \A x : Held(x)' => Held(x) BY DEF Held
<1>2. Exclusive' BY DEF Exclusive
<1> QED BY <1>1, <1>2

\* Publish: the record is new.
LEMMA PublishFlow ==
  ASSUME FlowInv, NEW r \in Records, Publish(r)
  PROVE  Accounted' /\ Single' /\ Exclusive' /\ Counted'
<1> USE DEF managerVars, storeVars, channelVars, enqueueVars, forwarderVars
<1>1. /\ r \notin published /\ published' = published \cup {r}
      /\ UNCHANGED <<items, taken, inbox, unread, backlog, batch, home, failures>>
  BY DEF Publish
<1>2. ~Held(r) /\ home[r] = 0 /\ Stored' = Stored BY <1>1 DEF FlowInv, Counted, Stored
<1>3. queue \in Seq(Records) /\ failures \in [Records -> Nat] /\ home \in [Records -> Nat]
  BY DEF FlowInv, Basic, TypeOK
<1>4. CASE stopped
  <2>1. queue' = queue /\ excused' = excused \cup {r} BY <1>4 DEF Publish
  <2>2. \A x : Held(x)' <=> Held(x) BY <1>1, <1>2, <2>1 DEF Held
  <2>3. Accounted' BY <1>1, <2>1, <2>2, OfferedStays DEF FlowInv, Accounted
  <2>4. Single' BY <1>1, <2>1 DEF FlowInv, Single
  <2>5. Exclusive' BY <1>1, <1>2, <2>1 DEF FlowInv, Exclusive
  <2>6. Counted' BY <1>1, <1>2, <2>2 DEF FlowInv, Counted
  <2> QED BY <2>3, <2>4, <2>5, <2>6
<1>5. CASE ~stopped
  <2>1. queue' = Append(queue, r) /\ excused' = excused BY <1>5 DEF Publish
  <2>2. Elements(queue') = Elements(queue) \cup {r} BY <1>3, <2>1, AppendElements
  <2>3. \A x : Held(x)' <=> Held(x) \/ x = r BY <1>1, <1>2, <2>2 DEF Held
  <2>4. Accounted' BY <1>1, <2>1, <2>3, OfferedStays DEF FlowInv, Accounted
  <2>5. r \notin Elements(queue) /\ Once(queue) BY <1>2 DEF Held, FlowInv, Single
  <2>6. Once(queue') BY <1>3, <2>1, <2>5, OnceAppend
  <2>7. Single' BY <1>1, <2>6 DEF FlowInv, Single
  <2>8. Exclusive' BY <1>1, <1>2, <2>2 DEF FlowInv, Exclusive, Held
  <2>9. \A x \in Records : Held(x)' => x \in published' /\ home'[x] <= failures'[x]
    BY <1>1, <1>2, <1>3, <2>3 DEF FlowInv, Counted
  <2>10. Counted' BY <1>1, <1>2, <2>9 DEF FlowInv, Counted
  <2> QED BY <2>4, <2>7, <2>8, <2>10
<1> QED BY <1>4, <1>5

\* The dispatcher takes the oldest record of the queue.
LEMMA DispatchFlow ==
  ASSUME FlowInv, Dispatch
  PROVE  Accounted' /\ Single' /\ Exclusive' /\ Counted'
<1> USE DEF managerVars, storeVars, channelVars, enqueueVars, forwarderVars
<1>1. /\ queue # <<>> /\ backlog[Dispatcher] = <<>> /\ queue' = Tail(queue)
      /\ backlog' = [backlog EXCEPT ![Dispatcher] = <<Head(queue)>>]
      /\ UNCHANGED <<published, items, taken, inbox, unread, batch, home, failures, excused>>
  BY DEF Dispatch
<1>2. queue \in Seq(Records) /\ backlog \in [Enqueuers -> Seq(Records)] BY DEF FlowInv, Basic, TypeOK
<1>3. PICK h \in Records : h = Head(queue) BY <1>1, <1>2, HeadTailProperties
<1>4. /\ Elements(queue) = Elements(queue') \cup {h} /\ h \notin Elements(queue') /\ Once(queue')
  BY <1>1, <1>2, <1>3, TailElements, OnceTail DEF FlowInv, Single
<1>5. Elements(<<h>>) = {h} /\ Once(<<h>>) /\ Elements(<<>>) = {} BY DEF Elements, Once
<1>6. /\ Dispatcher \in Enqueuers /\ backlog'[Dispatcher] = <<h>>
      /\ \A e \in Enqueuers : e # Dispatcher => backlog'[e] = backlog[e]
  BY <1>1, <1>2, <1>3 DEF Enqueuers
<1>7. Stored' = Stored BY <1>1 DEF Stored
<1>8. \A x : Held(x)' <=> Held(x)
  <2>1. ASSUME NEW x, Held(x) PROVE Held(x)' BY <1>1, <1>4, <1>5, <1>6, <1>7, <2>1 DEF Held
  <2>2. ASSUME NEW x, Held(x)' PROVE Held(x) BY <1>1, <1>4, <1>5, <1>6, <1>7, <2>2 DEF Held
  <2> QED BY <2>1, <2>2
<1>9. Accounted' BY <1>1, <1>8, OfferedStays DEF FlowInv, Accounted
<1>10. Single' BY <1>1, <1>4, <1>5, <1>6 DEF FlowInv, Single
<1>11. Counted' BY <1>1, <1>8 DEF FlowInv, Counted
<1>12. Exclusive'
  <2>1. \A x \in Elements(queue') : /\ x \notin Stored'
                                    /\ \A e \in Enqueuers : x \notin Elements(backlog'[e])
                                    /\ \A f \in Forwarders : x \notin Elements(batch'[f])
    BY <1>1, <1>4, <1>5, <1>6, <1>7 DEF FlowInv, Exclusive
  <2>2. \A x \in Stored' : /\ \A e \in Enqueuers : x \notin Elements(backlog'[e])
                           /\ \A f \in Forwarders : x \notin Elements(batch'[f])
    BY <1>1, <1>4, <1>5, <1>6, <1>7 DEF FlowInv, Exclusive
  <2>3. \A e \in Enqueuers : \A x \in Elements(backlog'[e]) :
          /\ \A d \in Enqueuers : x \in Elements(backlog'[d]) => d = e
          /\ \A f \in Forwarders : x \notin Elements(batch'[f])
    BY <1>1, <1>4, <1>5, <1>6 DEF FlowInv, Exclusive
  <2>4. \A f, g \in Forwarders : \A x \in Elements(batch'[f]) : x \in Elements(batch'[g]) => f = g
    BY <1>1 DEF FlowInv, Exclusive
  <2> QED BY <2>1, <2>2, <2>3, <2>4 DEF Exclusive
<1> QED BY <1>9, <1>10, <1>11, <1>12

\* Enqueue has dealt with the record at the head of the backlog.
LEMMA EnqueuedFlow ==
  ASSUME FlowInv, NEW e \in Enqueuers, backlog[e] # <<>>, Enqueued(e)
  PROVE  /\ Head(backlog[e]) \in Records /\ Head(backlog[e]) \in Elements(backlog[e])
         /\ Elements(backlog[e]) = Elements(backlog'[e]) \cup {Head(backlog[e])}
         /\ Head(backlog[e]) \notin Elements(backlog'[e])
         /\ \A d \in Enqueuers : Once(backlog'[d])
         /\ \A d \in Enqueuers : d # e => backlog'[d] = backlog[d]
<1>1. backlog[e] \in Seq(Records) /\ Once(backlog[e]) BY DEF FlowInv, Basic, TypeOK, Single
<1>2. backlog'[e] = Tail(backlog[e]) /\ \A d \in Enqueuers : d # e => backlog'[d] = backlog[d]
  BY DEF Enqueued, FlowInv, Basic, TypeOK
<1>3. /\ Head(backlog[e]) \in Records
      /\ Elements(backlog[e]) = Elements(backlog'[e]) \cup {Head(backlog[e])}
  BY <1>1, <1>2, TailElements
<1>4. Once(backlog'[e]) /\ Head(backlog[e]) \notin Elements(backlog'[e]) BY <1>1, <1>2, OnceTail
<1>5. \A d \in Enqueuers : Once(backlog'[d]) BY <1>2, <1>4 DEF FlowInv, Single
<1> QED BY <1>2, <1>3, <1>4, <1>5

\* A record that leaves the backlog for good was broadcast or given up.
LEMMA LeaveBacklogFlow ==
  ASSUME FlowInv, NEW e \in Enqueuers, backlog[e] # <<>>, Enqueued(e),
         UNCHANGED <<queue, items, published, taken, batch, home, failures>>,
         Offered \subseteq Offered',
         \A x \in excused : x \in excused',
         Head(backlog[e]) \in Offered' \/ Head(backlog[e]) \in excused'
  PROVE  Accounted' /\ Single' /\ Exclusive' /\ Counted'
<1>1. /\ Elements(backlog[e]) = Elements(backlog'[e]) \cup {Head(backlog[e])}
      /\ \A d \in Enqueuers : Once(backlog'[d])
      /\ \A d \in Enqueuers : d # e => backlog'[d] = backlog[d]
  BY EnqueuedFlow
<1>2. Stored' = Stored BY DEF Stored
<1>3. \A d \in Enqueuers : Elements(backlog'[d]) \subseteq Elements(backlog[d]) BY <1>1
<1>4. Exclusive' /\ \A x : Held(x)' => Held(x) BY <1>2, <1>3, DropFlow DEF FlowInv
<1>5. \A x : Held(x) => Held(x)' \/ x = Head(backlog[e]) BY <1>1, <1>2 DEF Held
<1>6. Accounted' BY <1>5 DEF FlowInv, Accounted
<1>7. Single' BY <1>1 DEF FlowInv, Single
<1>8. Counted' BY <1>4 DEF FlowInv, Counted
<1> QED BY <1>4, <1>6, <1>7, <1>8

\* Enqueue appends the record to the items that pruneLocked leaves.
LEMMA StoreFlow ==
  ASSUME FlowInv, NEW e \in Enqueuers, Store(e)
  PROVE  Accounted' /\ Single' /\ Exclusive' /\ Counted'
<1> USE DEF managerVars, storeVars, channelVars, enqueueVars, forwarderVars
<1>1. /\ backlog[e] # <<>> /\ Enqueued(e) /\ excused' = excused \cup PrunedRecords
      /\ items' = Append(Fresh, [record |-> Head(backlog[e]), at |-> clock])
      /\ UNCHANGED <<queue, published, taken, inbox, unread, batch, home, failures>>
  BY DEF Store, FlowInv, Basic, Discipline
<1>2. PICK h \in Records : h = Head(backlog[e]) BY <1>1, EnqueuedFlow
<1>3. /\ h \in Elements(backlog[e]) /\ h \notin Elements(backlog'[e])
      /\ Elements(backlog[e]) = Elements(backlog'[e]) \cup {h}
      /\ \A d \in Enqueuers : Once(backlog'[d])
      /\ \A d \in Enqueuers : d # e => backlog'[d] = backlog[d]
  BY <1>1, <1>2, EnqueuedFlow
<1>4. items \in Seq(Entry) /\ clock \in 0 .. MaxTime BY DEF FlowInv, Basic, TypeOK, Entry
<1>5. /\ FreshRecords \subseteq Stored /\ Stored \subseteq FreshRecords \cup PrunedRecords
      /\ ItemsOnce(Fresh) /\ Fresh \in Seq(Entry)
  BY <1>4, PruneFlow, FreshItems DEF FlowInv, Single
<1>6. h \notin Stored BY <1>3 DEF FlowInv, Exclusive
<1> DEFINE it == [record |-> h, at |-> clock]
<1>7. it \in Entry /\ it.record = h BY <1>4 DEF Entry
<1>8. items' = Append(Fresh, it) BY <1>1, <1>2
<1> HIDE DEF it
<1>9. PICK n \in Nat : n = Len(Fresh) /\ DOMAIN Fresh = 1 .. n BY <1>5, LenProperties
<1>10. /\ DOMAIN items' = 1 .. n + 1 /\ items'[n + 1] = it
       /\ \A i \in 1 .. n : items'[i] = Fresh[i]
  <2>1. /\ Append(Fresh, it) \in Seq(Entry) /\ Len(Append(Fresh, it)) = Len(Fresh) + 1
        /\ \A i \in 1 .. Len(Fresh) : Append(Fresh, it)[i] = Fresh[i]
        /\ Append(Fresh, it)[Len(Fresh) + 1] = it
    BY <1>5, <1>7, AppendProperties
  <2>2. DOMAIN Append(Fresh, it) = 1 .. Len(Fresh) + 1 BY <2>1, LenProperties
  <2> QED BY <1>8, <1>9, <2>1, <2>2
<1>11. /\ \A i \in 1 .. n + 1 : i \in 1 .. n \/ i = n + 1
       /\ \A i \in 1 .. n : i \in 1 .. n + 1
       /\ n + 1 \in 1 .. n + 1
  BY <1>9
<1>12. Stored' = FreshRecords \cup {h} BY <1>7, <1>9, <1>10, <1>11 DEF Stored, FreshRecords
<1>13. \A i \in 1 .. n : Fresh[i].record # h BY <1>5, <1>6, <1>9 DEF FreshRecords
<1>14. ItemsOnce(items') BY <1>5, <1>7, <1>9, <1>10, <1>11, <1>13 DEF ItemsOnce
<1>15. Single' BY <1>1, <1>3, <1>14 DEF FlowInv, Single
<1>16. \A x : Held(x)' => Held(x) BY <1>1, <1>3, <1>5, <1>12 DEF Held
<1>17. \A x : Held(x) => Held(x)' \/ x \in PrunedRecords
  <2> SUFFICES ASSUME NEW x, Held(x), x \notin PrunedRecords PROVE Held(x)' OBVIOUS
  <2>1. CASE x \in Elements(queue) BY <1>1, <2>1 DEF Held
  <2>2. CASE x \in Stored BY <1>5, <1>12, <2>2 DEF Held
  <2>3. CASE \E d \in Enqueuers : x \in Elements(backlog[d]) BY <1>3, <1>12, <2>3 DEF Held
  <2>4. CASE \E f \in Forwarders : x \in Elements(batch[f]) BY <1>1, <2>4 DEF Held
  <2> QED BY <2>1, <2>2, <2>3, <2>4 DEF Held
<1>18. Accounted' BY <1>1, <1>17, OfferedStays DEF FlowInv, Accounted
<1>19. Counted' BY <1>1, <1>16 DEF FlowInv, Counted
<1>20. Exclusive'
  <2>1. \A x \in Elements(queue') : /\ x \notin Stored'
                                    /\ \A d \in Enqueuers : x \notin Elements(backlog'[d])
                                    /\ \A f \in Forwarders : x \notin Elements(batch'[f])
    BY <1>1, <1>3, <1>5, <1>12 DEF FlowInv, Exclusive
  <2>2. \A x \in Stored' : /\ \A d \in Enqueuers : x \notin Elements(backlog'[d])
                           /\ \A f \in Forwarders : x \notin Elements(batch'[f])
    BY <1>1, <1>3, <1>5, <1>12 DEF FlowInv, Exclusive
  <2>3. \A c \in Enqueuers : \A x \in Elements(backlog'[c]) :
          /\ \A d \in Enqueuers : x \in Elements(backlog'[d]) => d = c
          /\ \A f \in Forwarders : x \notin Elements(batch'[f])
    BY <1>1, <1>3 DEF FlowInv, Exclusive
  <2>4. \A f, g \in Forwarders : \A x \in Elements(batch'[f]) : x \in Elements(batch'[g]) => f = g
    BY <1>1 DEF FlowInv, Exclusive
  <2> QED BY <2>1, <2>2, <2>3, <2>4 DEF Exclusive
<1> QED BY <1>15, <1>18, <1>19, <1>20

\* Steps of clients: what was in a channel is written or given up.
LEMMA QuietFlow ==
  ASSUME FlowInv,
         UNCHANGED <<queue, items, backlog, batch, published, home, failures>>,
         taken \cup Offered \cup excused \subseteq (taken \cup Offered \cup excused)'
  PROVE  Accounted' /\ Single' /\ Exclusive' /\ Counted'
<1>1. Stored' = Stored BY DEF Stored
<1>2. \A x : Held(x)' <=> Held(x) BY <1>1 DEF Held
<1>3. Accounted' BY <1>2 DEF FlowInv, Accounted
<1>4. Single' BY DEF FlowInv, Single
<1>5. Exclusive' BY <1>1 DEF FlowInv, Exclusive
<1>6. Counted' BY <1>2 DEF FlowInv, Counted
<1> QED BY <1>3, <1>4, <1>5, <1>6

\* The steps of Enqueue.
LEMMA EnqueueFlow ==
  ASSUME FlowInv, NEW e \in Enqueuers, EnqueueStep(e)
  PROVE  Accounted' /\ Single' /\ Exclusive' /\ Counted'
<1> USE DEF managerVars, storeVars, channelVars, enqueueVars, forwarderVars
<1>1. CASE CheckEnabled(e) /\ switch = "on" BY <1>1, QuietFlow, OfferedStays DEF CheckEnabled
<1>2. CASE CheckEnabled(e) /\ switch # "on"
  <2>1. /\ backlog[e] # <<>> /\ Enqueued(e) /\ excused' = excused \cup {Head(backlog[e])}
        /\ UNCHANGED <<queue, items, published, taken, batch, home, failures, inbox, unread>>
    BY <1>2 DEF CheckEnabled
  <2> QED BY <2>1, LeaveBacklogFlow, OfferedStays
<1>3. CASE PublishToSubscribers(e) /\ table = {} BY <1>3, QuietFlow, OfferedStays DEF PublishToSubscribers
<1>4. CASE PublishToSubscribers(e) /\ table # {}
  <2>1. /\ backlog[e] # <<>> /\ Enqueued(e) /\ Broadcast(Head(backlog[e]))
        /\ excused' = IF table' = {} THEN excused \cup {Head(backlog[e])} ELSE excused
        /\ UNCHANGED <<queue, items, published, taken, batch, home, failures>>
    BY <1>4 DEF PublishToSubscribers, FlowInv, Basic, Discipline
  <2>2. Head(backlog[e]) \in Records BY <2>1, EnqueuedFlow
  <2>3. Offered \subseteq Offered' /\ (table' # {} => Head(backlog[e]) \in Offered')
    BY <2>1, <2>2, BroadcastOffers DEF FlowInv, Basic
  <2> QED BY <2>1, <2>3, LeaveBacklogFlow
<1>5. CASE Store(e) BY <1>5, StoreFlow
<1> QED BY <1>1, <1>2, <1>3, <1>4, <1>5 DEF EnqueueStep

\* clear gives up what is stored.
LEMMA ClearFlow ==
  ASSUME FlowInv, Clear
  PROVE  Accounted' /\ Single' /\ Exclusive' /\ Counted'
<1> USE DEF managerVars, storeVars, channelVars, enqueueVars, forwarderVars
<1>1. /\ items' = <<>> /\ excused' = excused \cup Stored
      /\ UNCHANGED <<queue, published, taken, inbox, unread, backlog, batch, home, failures>>
  BY DEF Clear
<1>2. Stored' = {} /\ ItemsOnce(items') BY <1>1 DEF Stored, ItemsOnce
<1>3. Exclusive' /\ \A x : Held(x)' => Held(x) BY <1>1, <1>2, DropFlow DEF FlowInv
<1>4. \A x : Held(x) => Held(x)' \/ x \in Stored BY <1>1 DEF Held
<1>5. Accounted' BY <1>1, <1>4, OfferedStays DEF FlowInv, Accounted
<1>6. Single' BY <1>1, <1>2 DEF FlowInv, Single
<1>7. Counted' BY <1>1, <1>3 DEF FlowInv, Counted
<1> QED BY <1>3, <1>5, <1>6, <1>7

\* A management client pops the oldest records.
LEMMA ManagementPopFlow ==
  ASSUME FlowInv, NEW count \in DOMAIN items, ManagementPop(count)
  PROVE  Accounted' /\ Single' /\ Exclusive' /\ Counted'
<1> USE DEF managerVars, storeVars, channelVars, enqueueVars, forwarderVars
<1>1. /\ PopOldest(count) /\ taken' = taken \cup Oldest(count) /\ excused' = excused \cup PrunedRecords
      /\ UNCHANGED <<queue, published, inbox, unread, backlog, batch, home, failures>>
  BY DEF ManagementPop, PopOldest
<1>2. items \in Seq(Entry) /\ ItemsOnce(items) BY DEF FlowInv, Basic, TypeOK, Entry, Single
<1>n. count \in Nat BY <1>2, LenProperties
<1>3. FreshRecords \subseteq Stored /\ Stored \subseteq FreshRecords \cup PrunedRecords
  BY <1>2, PruneFlow
<1>4. /\ Stored' \subseteq FreshRecords /\ FreshRecords \subseteq Stored' \cup Oldest(count)
      /\ ItemsOnce(items')
  BY <1>1, <1>2, <1>n, PopFlow
<1>5. Exclusive' /\ \A x : Held(x)' => Held(x) BY <1>1, <1>3, <1>4, DropFlow DEF FlowInv
<1>6. \A x : Held(x) => Held(x)' \/ x \in Oldest(count) \/ x \in PrunedRecords
  BY <1>1, <1>3, <1>4 DEF Held
<1>7. Accounted' BY <1>1, <1>6, OfferedStays DEF FlowInv, Accounted
<1>8. Single' BY <1>1, <1>4 DEF FlowInv, Single
<1>9. Counted' BY <1>1, <1>5 DEF FlowInv, Counted
<1> QED BY <1>5, <1>7, <1>8, <1>9

\* A forwarder takes its batch out of the items.
LEMMA PopBatchFlow ==
  ASSUME FlowInv, NEW f \in Forwarders, PopBatch(f)
  PROVE  Accounted' /\ Single' /\ Exclusive' /\ Counted'
<1> USE DEF managerVars, storeVars, channelVars, enqueueVars, forwarderVars
<1>1. /\ PopOldest(BatchSize) /\ excused' = excused \cup PrunedRecords
      /\ UNCHANGED <<queue, published, taken, inbox, unread, backlog, home, failures>>
      /\ batch[f] = <<>>
  BY DEF PopBatch, PopOldest, FlowInv, Basic, Discipline
<1>2. items \in Seq(Entry) /\ ItemsOnce(items) /\ batch \in [Forwarders -> Seq(Records)]
  BY DEF FlowInv, Basic, TypeOK, Entry, Single
<1>3. /\ FreshRecords \subseteq Stored /\ Stored \subseteq FreshRecords \cup PrunedRecords
      /\ ItemsOnce(Fresh) /\ Fresh \in Seq(Entry)
  BY <1>2, PruneFlow, FreshItems
<1>4. /\ Stored' \subseteq FreshRecords /\ FreshRecords \subseteq Stored' \cup Oldest(BatchSize)
      /\ Oldest(BatchSize) \subseteq FreshRecords
      /\ ItemsOnce(items') /\ Stored' \cap Oldest(BatchSize) = {}
  BY <1>1, <1>2, PopFlow, PipelineAssumption
<1>5. PICK n \in Nat :
        /\ n <= Len(Fresh) /\ n <= BatchSize /\ (n = BatchSize \/ n = Len(Fresh))
        /\ DOMAIN batch'[f] = 1 .. n
        /\ \A i \in 1 .. n : batch'[f][i] = Fresh[i].record
        /\ batch' = [batch EXCEPT ![f] = batch'[f]]
  BY <1>2, BatchTypes
<1>6. PICK k \in Nat : k = Len(Fresh) /\ DOMAIN Fresh = 1 .. k BY <1>3, LenProperties
<1>7. n <= k /\ n <= BatchSize /\ (n = BatchSize \/ n = k) /\ BatchSize \in Nat
  BY <1>5, <1>6, PipelineAssumption
<1>8. \A i \in 1 .. k : i <= BatchSize <=> i \in 1 .. n BY <1>7
<1>9. \A i \in 1 .. n : i \in 1 .. k BY <1>7
<1>10. Elements(batch'[f]) = Oldest(BatchSize)
  BY <1>5, <1>6, <1>8, <1>9 DEF Elements, Oldest
<1>11. Once(batch'[f]) BY <1>3, <1>5, <1>6, <1>9 DEF Once, ItemsOnce
<1>12. \A g \in Forwarders : g # f => batch'[g] = batch[g] BY <1>2, <1>5
<1>13. Single' BY <1>1, <1>4, <1>11, <1>12 DEF FlowInv, Single
<1>14. Elements(batch[f]) = {} BY <1>1 DEF Elements
<1>15. \A x : Held(x)' => Held(x) BY <1>1, <1>3, <1>4, <1>10, <1>12 DEF Held
<1>16. \A x : Held(x) => Held(x)' \/ x \in PrunedRecords
  <2> SUFFICES ASSUME NEW x, Held(x), x \notin PrunedRecords PROVE Held(x)' OBVIOUS
  <2>1. CASE x \in Elements(queue) \/ \E d \in Enqueuers : x \in Elements(backlog[d])
    BY <1>1, <2>1 DEF Held
  <2>2. CASE x \in Stored BY <1>3, <1>4, <1>10, <2>2 DEF Held
  <2>3. CASE \E g \in Forwarders : x \in Elements(batch[g]) BY <1>12, <1>14, <2>3 DEF Held
  <2> QED BY <2>1, <2>2, <2>3 DEF Held
<1>17. Accounted' BY <1>1, <1>16, OfferedStays DEF FlowInv, Accounted
<1>18. Counted' BY <1>1, <1>15 DEF FlowInv, Counted
<1>19. Exclusive'
  <2>1. \A x \in Elements(queue') : /\ x \notin Stored'
                                    /\ \A d \in Enqueuers : x \notin Elements(backlog'[d])
                                    /\ \A g \in Forwarders : x \notin Elements(batch'[g])
    BY <1>1, <1>3, <1>4, <1>10, <1>12 DEF FlowInv, Exclusive
  <2>2. \A x \in Stored' : /\ \A d \in Enqueuers : x \notin Elements(backlog'[d])
                           /\ \A g \in Forwarders : x \notin Elements(batch'[g])
    BY <1>1, <1>3, <1>4, <1>10, <1>12 DEF FlowInv, Exclusive
  <2>3. \A c \in Enqueuers : \A x \in Elements(backlog'[c]) :
          /\ \A d \in Enqueuers : x \in Elements(backlog'[d]) => d = c
          /\ \A g \in Forwarders : x \notin Elements(batch'[g])
    <3>1. \A c \in Enqueuers : \A x \in Elements(backlog[c]) :
            /\ x \notin Stored
            /\ \A d \in Enqueuers : x \in Elements(backlog[d]) => d = c
            /\ \A g \in Forwarders : x \notin Elements(batch[g])
      BY DEF FlowInv, Exclusive
    <3>2. backlog' = backlog /\ Elements(batch'[f]) \subseteq Stored BY <1>1, <1>3, <1>4, <1>10
    <3>3. ASSUME NEW c \in Enqueuers, NEW x \in Elements(backlog[c]), NEW g \in Forwarders
          PROVE  x \notin Elements(batch'[g])
      <4>1. CASE g = f BY <3>1, <3>2, <4>1
      <4>2. CASE g # f BY <1>12, <3>1, <4>2
      <4> QED BY <4>1, <4>2
    <3> QED BY <3>1, <3>2, <3>3
  <2>4. \A h, g \in Forwarders : \A x \in Elements(batch'[h]) : x \in Elements(batch'[g]) => h = g
    BY <1>3, <1>4, <1>10, <1>12 DEF FlowInv, Exclusive
  <2> QED BY <2>1, <2>2, <2>3, <2>4 DEF Exclusive
<1> QED BY <1>13, <1>17, <1>18, <1>19

\* Home receives the head of the batch.
LEMMA PushSucceedsFlow ==
  ASSUME FlowInv, NEW f \in Forwarders, PushSucceeds(f)
  PROVE  Accounted' /\ Single' /\ Exclusive' /\ Counted'
<1> USE DEF managerVars, storeVars, channelVars, enqueueVars, forwarderVars
<1>1. /\ batch[f] # <<>> /\ Received(Head(batch[f])) /\ batch' = [batch EXCEPT ![f] = Tail(batch[f])]
      /\ UNCHANGED <<queue, items, published, taken, inbox, unread, backlog, failures, excused>>
  BY DEF PushSucceeds, FlowInv, Basic, Discipline
<1>2. /\ batch \in [Forwarders -> Seq(Records)] /\ home \in [Records -> Nat]
      /\ failures \in [Records -> Nat] /\ published \subseteq Records
  BY DEF FlowInv, Basic, TypeOK
<1>n. \A x \in Records : home[x] \in Nat /\ failures[x] \in Nat BY <1>2
<1>3. batch[f] \in Seq(Records) /\ Once(batch[f]) BY <1>2 DEF FlowInv, Single
<1>4. PICK h \in Records : h = Head(batch[f]) BY <1>1, <1>3, TailElements
<1>5. /\ batch'[f] = Tail(batch[f]) /\ \A g \in Forwarders : g # f => batch'[g] = batch[g]
  BY <1>1, <1>2
<1>6. /\ Elements(batch[f]) = Elements(batch'[f]) \cup {h}
      /\ h \notin Elements(batch'[f]) /\ Once(batch'[f])
  BY <1>1, <1>3, <1>4, <1>5, TailElements, OnceTail
<1>7. Stored' = Stored BY <1>1 DEF Stored
<1>8. \A x \in Records : home'[x] = IF x = h THEN home[h] + 1 ELSE home[x]
  BY <1>1, <1>2, <1>4, ReceivedTypes
<1>9. \A g \in Forwarders : Elements(batch'[g]) \subseteq Elements(batch[g]) BY <1>5, <1>6
<1>10. Exclusive' /\ \A x : Held(x)' => Held(x) BY <1>1, <1>7, <1>9, DropFlow DEF FlowInv
<1>11. \A x : Held(x) => Held(x)' \/ x = h BY <1>1, <1>5, <1>6, <1>7 DEF Held
<1>12. Single' BY <1>1, <1>5, <1>6 DEF FlowInv, Single
<1>13. \A x \in Records : home[x] > 0 => home'[x] > 0 BY <1>n, <1>8
<1>14. home'[h] > 0 BY <1>n, <1>8
<1>15. Accounted' BY <1>1, <1>2, <1>11, <1>13, <1>14, OfferedStays DEF FlowInv, Accounted
<1>16. Held(h) BY <1>6 DEF Held
<1>17. h \in published /\ home[h] <= failures[h] BY <1>16 DEF FlowInv, Counted
<1>18. ~Held(h)'
  <2>1. h \in Elements(batch[f]) BY <1>6
  <2>2. /\ h \notin Elements(queue) /\ h \notin Stored
        /\ \A e \in Enqueuers : h \notin Elements(backlog[e])
        /\ \A g \in Forwarders : g # f => h \notin Elements(batch[g])
    BY <2>1 DEF FlowInv, Exclusive
  <2> QED BY <1>1, <1>5, <1>6, <1>7, <2>2 DEF Held
<1>19. \A x \in Records : home'[x] <= 1 + failures'[x]
  <2>1. \A x \in Records : home[x] <= 1 + failures[x] BY DEF FlowInv, Counted
  <2>2. failures' = failures BY <1>1
  <2> QED BY <1>n, <1>8, <1>17, <2>1, <2>2
<1>20. \A x \in Records : Held(x)' => x \in published' /\ home'[x] <= failures'[x]
  BY <1>1, <1>8, <1>10, <1>18 DEF FlowInv, Counted
<1>21. \A x \in Records : x \notin published' => home'[x] = 0
  BY <1>1, <1>8, <1>17 DEF FlowInv, Counted
<1>22. Counted' BY <1>19, <1>20, <1>21 DEF Counted
<1> QED BY <1>10, <1>12, <1>15, <1>22

\* A push fails, and the whole batch becomes the forwarder's backlog.
LEMMA PushFailsFlow ==
  ASSUME FlowInv, NEW f \in Forwarders, NEW received \in BOOLEAN, PushFails(f, received)
  PROVE  Accounted' /\ Single' /\ Exclusive' /\ Counted'
<1> USE DEF managerVars, storeVars, channelVars, enqueueVars, forwarderVars
<1>1. /\ batch[f] # <<>> /\ backlog[f] = <<>> /\ batch' = [batch EXCEPT ![f] = <<>>]
      /\ backlog' = [backlog EXCEPT ![f] = batch[f]]
      /\ failures' = [failures EXCEPT ![Head(batch[f])] = @ + 1]
      /\ IF received THEN Received(Head(batch[f])) ELSE home' = home
      /\ UNCHANGED <<queue, items, published, taken, inbox, unread, excused>>
  BY DEF PushFails, FlowInv, Basic, Discipline
<1>2. /\ batch \in [Forwarders -> Seq(Records)] /\ backlog \in [Enqueuers -> Seq(Records)]
      /\ home \in [Records -> Nat] /\ failures \in [Records -> Nat] /\ published \subseteq Records
      /\ f \in Enqueuers
  BY DEF FlowInv, Basic, TypeOK, Enqueuers
<1>n. \A x \in Records : home[x] \in Nat /\ failures[x] \in Nat BY <1>2
<1>3. batch[f] \in Seq(Records) BY <1>2
<1>4. PICK h \in Records : h = Head(batch[f]) /\ h \in Elements(batch[f])
  BY <1>1, <1>3, TailElements
<1>5. /\ batch'[f] = <<>> /\ \A g \in Forwarders : g # f => batch'[g] = batch[g]
      /\ backlog'[f] = batch[f] /\ \A e \in Enqueuers : e # f => backlog'[e] = backlog[e]
  BY <1>1, <1>2
<1>6. Elements(<<>>) = {} /\ Once(<<>>) BY DEF Elements, Once
<1>7. Stored' = Stored BY <1>1 DEF Stored
<1>8. \A x \in Records : failures'[x] = IF x = h THEN failures[h] + 1 ELSE failures[x]
  BY <1>1, <1>2, <1>4
<1>9. \A x \in Records : home'[x] = home[x] \/ (x = h /\ home'[x] = home[x] + 1)
  <2>1. CASE received BY <1>1, <1>2, <1>4, <2>1, ReceivedTypes
  <2>2. CASE ~received BY <1>1, <2>2
  <2> QED BY <2>1, <2>2
<1>10. \A x : Held(x)' => Held(x) BY <1>1, <1>5, <1>6, <1>7 DEF Held
<1>11. \A x : Held(x) => Held(x)'
  <2> SUFFICES ASSUME NEW x, Held(x) PROVE Held(x)' OBVIOUS
  <2>1. CASE x \in Elements(queue) \/ x \in Stored BY <1>1, <1>7, <2>1 DEF Held
  <2>2. CASE \E e \in Enqueuers : x \in Elements(backlog[e]) BY <1>1, <1>5, <1>6, <2>2 DEF Held
  <2>3. CASE \E g \in Forwarders : x \in Elements(batch[g]) BY <1>2, <1>5, <2>3 DEF Held
  <2> QED BY <2>1, <2>2, <2>3 DEF Held
<1>12. Single' BY <1>1, <1>5, <1>6 DEF FlowInv, Single
<1>13. \A x \in Records : home[x] > 0 => home'[x] > 0 BY <1>n, <1>9
<1>14. Accounted' BY <1>1, <1>2, <1>11, <1>13, OfferedStays DEF FlowInv, Accounted
<1>15. h \in published /\ home[h] <= failures[h]
  <2>1. Held(h) BY <1>4 DEF Held
  <2> QED BY <2>1 DEF FlowInv, Counted
<1>16. \A x \in Records : home'[x] <= 1 + failures'[x]
  <2>1. \A x \in Records : home[x] <= 1 + failures[x] BY DEF FlowInv, Counted
  <2> QED BY <1>n, <1>8, <1>9, <1>15, <2>1
<1>17. \A x \in Records : Held(x)' => x \in published' /\ home'[x] <= failures'[x]
  <2>1. \A x \in Records : Held(x) => x \in published /\ home[x] <= failures[x]
    BY DEF FlowInv, Counted
  <2>2. published' = published BY <1>1
  <2> QED BY <1>n, <1>8, <1>9, <1>10, <1>15, <2>1, <2>2
<1>18. \A x \in Records : x \notin published' => home'[x] = 0
  BY <1>1, <1>9, <1>15 DEF FlowInv, Counted
<1>19. Counted' BY <1>16, <1>17, <1>18 DEF Counted
<1>20. Exclusive'
  <2>1. \A x \in Elements(queue') : /\ x \notin Stored'
                                    /\ \A d \in Enqueuers : x \notin Elements(backlog'[d])
                                    /\ \A g \in Forwarders : x \notin Elements(batch'[g])
    BY <1>1, <1>5, <1>6, <1>7 DEF FlowInv, Exclusive
  <2>2. \A x \in Stored' : /\ \A d \in Enqueuers : x \notin Elements(backlog'[d])
                           /\ \A g \in Forwarders : x \notin Elements(batch'[g])
    BY <1>5, <1>6, <1>7 DEF FlowInv, Exclusive
  <2>3. \A c \in Enqueuers : \A x \in Elements(backlog'[c]) :
          /\ \A d \in Enqueuers : x \in Elements(backlog'[d]) => d = c
          /\ \A g \in Forwarders : x \notin Elements(batch'[g])
    <3>1. \A c \in Enqueuers : \A x \in Elements(backlog[c]) :
            /\ \A d \in Enqueuers : x \in Elements(backlog[d]) => d = c
            /\ \A g \in Forwarders : x \notin Elements(batch[g])
      BY DEF FlowInv, Exclusive
    <3>2. \A x \in Elements(batch[f]) :
            /\ \A d \in Enqueuers : x \notin Elements(backlog[d])
            /\ \A g \in Forwarders : g # f => x \notin Elements(batch[g])
      BY DEF FlowInv, Exclusive
    <3>3. ASSUME NEW c \in Enqueuers, NEW x \in Elements(backlog'[c])
          PROVE  /\ \A d \in Enqueuers : x \in Elements(backlog'[d]) => d = c
                 /\ \A g \in Forwarders : x \notin Elements(batch'[g])
      <4>1. CASE c = f BY <1>5, <1>6, <3>2, <3>3, <4>1
      <4>2. CASE c # f BY <1>5, <1>6, <3>1, <3>2, <3>3, <4>2
      <4> QED BY <4>1, <4>2
    <3> QED BY <3>3
  <2>4. \A k, g \in Forwarders : \A x \in Elements(batch'[k]) : x \in Elements(batch'[g]) => k = g
    BY <1>5, <1>6 DEF FlowInv, Exclusive
  <2> QED BY <2>1, <2>2, <2>3, <2>4 DEF Exclusive
<1> QED BY <1>12, <1>14, <1>19, <1>20

\* Every step moves a record or says why it is given up.
LEMMA NextFlow == FlowInv /\ [Next]_vars => FlowInv'
<1> SUFFICES ASSUME FlowInv, [Next]_vars PROVE FlowInv' OBVIOUS
<1> USE DEF managerVars, storeVars, channelVars, enqueueVars, forwarderVars
<1>0. Basic' BY NextBasic DEF FlowInv
<1>1. CASE UNCHANGED <<queue, items, backlog, batch, published, taken, home, failures, excused, inbox, unread>>
  BY <1>0, <1>1, QuietFlow, OfferedStays DEF FlowInv
<1>2. ASSUME NEW r \in Records, Publish(r) PROVE FlowInv' BY <1>0, <1>2, PublishFlow DEF FlowInv
<1>3. CASE Dispatch BY <1>0, <1>3, DispatchFlow DEF FlowInv
<1>4. ASSUME NEW e \in Enqueuers, EnqueueStep(e) PROVE FlowInv' BY <1>0, <1>4, EnqueueFlow DEF FlowInv
<1>5. ASSUME NEW count \in DOMAIN items, ManagementPop(count) PROVE FlowInv'
  BY <1>0, <1>5, ManagementPopFlow DEF FlowInv
<1>6. CASE Clear BY <1>0, <1>6, ClearFlow DEF FlowInv
<1>7. ASSUME NEW s \in Subscribers, Subscribe(s) \/ Unsubscribe(s) \/ \E written \in BOOLEAN : Read(s, written)
      PROVE  FlowInv'
  <2>1. UNCHANGED <<queue, items, backlog, batch, published, home, failures>>
    BY <1>7 DEF Subscribe, Unsubscribe, Read
  <2>2. taken \cup Offered \cup excused \subseteq (taken \cup Offered \cup excused)'
    BY <1>7, ClientOffers DEF FlowInv
  <2> QED BY <1>0, <2>1, <2>2, QuietFlow DEF FlowInv
<1>8. CASE NotifyUsageRefresh
  <2>1. Broadcast("refresh") /\ "refresh" \in Records \cup Notices
    BY <1>8 DEF NotifyUsageRefresh, Notices
  <2>2. Offered \subseteq Offered' BY <2>1, BroadcastOffers DEF FlowInv, Basic
  <2>3. UNCHANGED <<queue, items, backlog, batch, published, taken, home, failures, excused>>
    BY <1>8 DEF NotifyUsageRefresh
  <2> QED BY <1>0, <2>2, <2>3, QuietFlow DEF FlowInv
<1>9. ASSUME NEW f \in Forwarders, PopBatch(f) PROVE FlowInv' BY <1>0, <1>9, PopBatchFlow DEF FlowInv
<1>10. ASSUME NEW f \in Forwarders, PushSucceeds(f) PROVE FlowInv'
  BY <1>0, <1>10, PushSucceedsFlow DEF FlowInv
<1>11. ASSUME NEW f \in Forwarders, NEW received \in BOOLEAN, PushFails(f, received) PROVE FlowInv'
  BY <1>0, <1>11, PushFailsFlow DEF FlowInv
<1>12. CASE StopManager \/ Tick \/ Disable \/ Enable
  BY <1>1, <1>12 DEF StopManager, Tick, Disable, Enable
<1>13. ASSUME NEW s \in Subscribers,
              \E who \in {"unsubscribe", "clear"} : CloseChannel(who, s)
       PROVE  FlowInv'
  BY <1>1, <1>13 DEF CloseChannel
<1>14. ASSUME NEW f \in Forwarders,
              \/ StartForwarder(f) \/ CheckQueue(f) \/ Requeued(f) \/ CancelLifetime(f) \/ Exit(f)
       PROVE  FlowInv'
  BY <1>1, <1>14 DEF StartForwarder, CheckQueue, Requeued, CancelLifetime, Exit
<1>15. CASE UNCHANGED vars BY <1>1, <1>15 DEF vars
<1> QED
  BY <1>2, <1>3, <1>4, <1>5, <1>6, <1>7, <1>8, <1>9, <1>10, <1>11, <1>12, <1>13, <1>14, <1>15
  DEF Next

\* No record vanishes: a published record waits, is stored, is being forwarded
\* or is in a channel, was delivered, or was given up for a reason the code states.
THEOREM NothingVanishesHolds == Spec => []NothingVanishes
<1>1. ASSUME FlowInv PROVE NothingVanishes
  <2>1. published \subseteq Records BY <1>1 DEF FlowInv, Basic, TypeOK
  <2>2. ASSUME NEW x, Held(x) PROVE x \in Waiting \cup Stored \cup Forwarding
    BY <2>2 DEF Held, Waiting, Forwarding
  <2> QED BY <1>1, <2>1, <2>2 DEF FlowInv, Accounted, NothingVanishes, Delivered
<1> QED BY <1>1, InitFlow, NextFlow, PTL DEF Spec

\* Home receives a record again only after a push of it has failed: whoever pops
\* a record takes the only copy.
THEOREM DuplicateNeedsFailureHolds == Spec => []DuplicateNeedsFailure
<1>1. FlowInv => DuplicateNeedsFailure BY DEF FlowInv, Counted, DuplicateNeedsFailure
<1> QED BY <1>1, InitFlow, NextFlow, PTL DEF Spec
=============================================================================
