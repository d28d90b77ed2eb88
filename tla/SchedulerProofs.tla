---------------------------- MODULE SchedulerProofs ----------------------------
(***************************************************************************)
(* Theorems about the scheduler: ModelShard and ShardRotation, then        *)
(* CredentialSync. They hold for any credentials and priorities and any    *)
(* length of time.                                                         *)
(***************************************************************************)
EXTENDS ShardRotation, CredentialSync, TLAPS, WellFoundedInduction, FiniteSetTheorems

-----------------------------------------------------------------------------
(***************************************************************************)
(* The indexes.                                                            *)
(***************************************************************************)

\* The indexes X are those of the entries E.
Matches(E, X) ==
  /\ X.blocked = BlockedSet(E)
  /\ \A p \in Priorities : /\ X.views[p].all.flat = buildReadyView(E, p, FALSE)
                           /\ X.views[p].ws.flat = buildReadyView(E, p, TRUE)

\* rebuildIndexesLocked derives the indexes from the entries alone.
LEMMA RebuildMatches ==
  ASSUME NEW E, NEW X
  PROVE  Matches(E, rebuildIndexesLocked(E, X))
BY DEF Matches, rebuildIndexesLocked, restoreReadyViewCursors

\* Replacing an entry by one with the same schedule leaves the indexes right,
\* so upsertEntryLocked may return early.
LEMMA UpsertMatches ==
  ASSUME NEW E, NEW X, NEW i, NEW a, NEW t, Matches(E, X)
  PROVE  Matches(upsertEntryLocked(E, X, i, a, t).entries, upsertEntryLocked(E, X, i, a, t).index)
<1> DEFINE e == scheduledAuth(a, t)
           F == with(E, i, e)
<1>1. CASE i \in DOMAIN E /\ SameSchedule(E[i], e)
  <2>1. DOMAIN F = DOMAIN E BY <1>1 DEF with
  <2>2. \A j \in DOMAIN E : /\ F[j].state = E[j].state
                            /\ F[j].auth.prio = E[j].auth.prio
                            /\ F[j].auth.ws = E[j].auth.ws
    BY <1>1 DEF with, SameSchedule
  <2>3. BlockedSet(F) = BlockedSet(E) BY <2>1, <2>2 DEF BlockedSet
  <2>4. ASSUME NEW p, NEW w PROVE ReadySet(F, p, w) = ReadySet(E, p, w)
    BY <2>1, <2>2 DEF ReadySet
  <2>5. ASSUME NEW p, NEW w PROVE buildReadyView(F, p, w) = buildReadyView(E, p, w)
    BY <2>4 DEF buildReadyView
  <2>6. Matches(F, X) BY <2>3, <2>5 DEF Matches
  <2> QED BY <1>1, <2>6 DEF upsertEntryLocked
<1>2. CASE ~(i \in DOMAIN E /\ SameSchedule(E[i], e))
  <2>1. Matches(F, rebuildIndexesLocked(F, X)) BY RebuildMatches
  <2> QED BY <1>2, <2>1 DEF upsertEntryLocked
<1> QED BY <1>1, <1>2

\* Promotion rebuilds the indexes whenever an entry is due.
LEMMA PromoteMatches ==
  ASSUME NEW E, NEW X, NEW t, Matches(E, X), E = [i \in DOMAIN E |-> E[i]]
  PROVE  Matches(promoteExpiredLocked(E, X, t).entries, promoteExpiredLocked(E, X, t).index)
<1> DEFINE due == Due(E, X, t)
           F == [i \in DOMAIN E |-> IF i \in due THEN scheduledAuth(E[i].auth, t) ELSE E[i]]
<1>1. CASE due = {}
  <2>1. F = E BY <1>1
  <2> QED BY <1>1, <2>1 DEF promoteExpiredLocked
<1>2. CASE due # {}
  <2>1. Matches(F, rebuildIndexesLocked(F, X)) BY RebuildMatches
  <2> QED BY <1>2, <2>1 DEF promoteExpiredLocked
<1> QED BY <1>1, <1>2

\* Moving a cursor does not change what a view lists.
LEMMA CursorMatches ==
  ASSUME NEW E, NEW X, NEW p, NEW kind, NEW c, Matches(E, X)
  PROVE  Matches(E, moveCursor(X, p, kind, c))
BY DEF Matches, moveCursor

\* Removal rebuilds the indexes if there was an entry.
LEMMA RemoveMatches ==
  ASSUME NEW E, NEW X, NEW i, Matches(E, X)
  PROVE  Matches(removeEntryLocked(E, X, i).entries, removeEntryLocked(E, X, i).index)
<1>1. Matches(without(E, i), rebuildIndexesLocked(without(E, i), X)) BY RebuildMatches
<1> QED BY <1>1 DEF removeEntryLocked

\* A pick is a promotion and perhaps a move of one cursor.
LEMMA PickMatches ==
  ASSUME NEW E, NEW X, NEW t, NEW r, Matches(E, X), E = [i \in DOMAIN E |-> E[i]]
  PROVE  Matches(pickSingle(E, X, t, r).entries, pickSingle(E, X, t, r).index)
<1> DEFINE s == promoteExpiredLocked(E, X, t)
           p == highestReadyPriorityLocked(s.index, r)
           kind == ViewKind(s.index, p, r)
           picked == pickReadyAtPriorityLocked(s.index.views[p][kind], r)
<1>1. Matches(s.entries, s.index) BY PromoteMatches
<1>2. Matches(s.entries, moveCursor(s.index, p, kind, picked.cursor)) BY <1>1, CursorMatches
<1>3. CASE HasReady(s.index, r)
  <2>1. /\ pickSingle(E, X, t, r).entries = s.entries
        /\ pickSingle(E, X, t, r).index = moveCursor(s.index, p, kind, picked.cursor)
    BY <1>3 DEF pickSingle
  <2> QED BY <1>2, <2>1
<1>4. CASE ~HasReady(s.index, r)
  <2>1. /\ pickSingle(E, X, t, r).entries = s.entries
        /\ pickSingle(E, X, t, r).index = s.index
    BY <1>4 DEF pickSingle
  <2> QED BY <1>1, <2>1
<1> QED BY <1>3, <1>4

\* A non-empty set of naturals has a least element, and Min is it.
LEMMA MinIsLeast ==
  ASSUME NEW S, S \subseteq Nat, S # {}
  PROVE  Min(S) \in S /\ \A y \in S : Min(S) <= y
<1>1. PICK x \in S : \A y \in S : <<y, x>> \notin OpToRel(<, Nat)
  BY NatLessThanWellFounded, WFMin, Zenon
<1>2. \A m, n \in Nat : m < n => <<m, n>> \in OpToRel(<, Nat) BY DEF OpToRel
<1>3. \A y \in S : ~(y < x) BY <1>1, <1>2, Zenon
<1>4. \A y \in S : x <= y BY <1>3
<1> QED BY <1>4 DEF Min

\* s lists S in increasing order.
Lists(s, S) ==
  /\ s \in [1 .. Cardinality(S) -> S]
  /\ Increasing(s, Cardinality(S))
  /\ Covers(s, Cardinality(S), S)

\* A least element in front of a list of the others is a list.
LEMMA ListCons ==
  ASSUME NEW S, S \subseteq Nat, IsFiniteSet(S), NEW m \in S, \A y \in S : m <= y,
         NEW s, Lists(s, S \ {m})
  PROVE  \E z : Lists(z, S)
<1> DEFINE n == Cardinality(S)
           z == [k \in 1 .. n |-> IF k = 1 THEN m ELSE s[k - 1]]
<1>1. n \in Nat /\ n # 0 /\ Cardinality(S \ {m}) = n - 1
  BY FS_RemoveElement, FS_CardinalityType, FS_EmptySet
<1>2. \A k \in 1 .. n : k # 1 => /\ k - 1 \in 1 .. n - 1
                                 /\ s[k - 1] \in S \ {m}
                                 /\ z[k] = s[k - 1]
  <2>1. s \in [1 .. n - 1 -> S \ {m}] BY <1>1 DEF Lists
  <2>2. ASSUME NEW k \in 1 .. n, k # 1 PROVE k - 1 \in 1 .. n - 1 BY <1>1, <2>2
  <2>3. ASSUME NEW k \in 1 .. n, k # 1 PROVE s[k - 1] \in S \ {m} BY <2>1, <2>2, <2>3
  <2>4. ASSUME NEW k \in 1 .. n, k # 1 PROVE z[k] = s[k - 1] BY <2>4
  <2> QED BY <2>2, <2>3, <2>4
<1>3. z \in [1 .. n -> S] BY <1>2
<1>4. ASSUME NEW j \in 1 .. n, NEW k \in 1 .. n, j < k PROVE z[j] < z[k]
  <2>1. k # 1 /\ z[k] = s[k - 1] /\ s[k - 1] \in S \ {m} /\ k - 1 \in 1 .. n - 1
    BY <1>2, <1>4, <1>1
  <2>2. CASE j = 1
    <3>1. z[j] = m BY <2>2
    <3>2. m <= s[k - 1] /\ m # s[k - 1] /\ m \in Nat /\ s[k - 1] \in Nat BY <2>1
    <3> QED BY <2>1, <3>1, <3>2
  <2>3. CASE j # 1
    <3>1. z[j] = s[j - 1] /\ j - 1 \in 1 .. n - 1 BY <1>2, <2>3
    <3>2. j - 1 < k - 1 BY <1>4, <1>1
    <3> QED BY <1>1, <2>1, <3>1, <3>2 DEF Lists, Increasing
  <2> QED BY <2>2, <2>3
<1>5. ASSUME NEW x \in S PROVE \E k \in 1 .. n : z[k] = x
  <2>1. CASE x = m
    <3>1. 1 \in 1 .. n /\ z[1] = m BY <1>1
    <3> QED BY <2>1, <3>1
  <2>2. CASE x # m
    <3>1. PICK k \in 1 .. n - 1 : s[k] = x BY <1>1, <2>2 DEF Lists, Covers
    <3>2. k + 1 \in 1 .. n /\ k + 1 # 1 /\ (k + 1) - 1 = k BY <1>1
    <3>3. z[k + 1] = s[k] BY <3>2
    <3> QED BY <3>1, <3>2, <3>3
  <2> QED BY <2>1, <2>2
<1> QED BY <1>3, <1>4, <1>5 DEF Lists, Increasing, Covers

\* Every finite set of naturals has a list: the smallest set without one would have
\* a least element, and the rest of it a list.
LEMMA ListExists ==
  ASSUME NEW T, T \subseteq Nat, IsFiniteSet(T)
  PROVE  \E s : Lists(s, T)
<1>f. \A S \in SUBSET T : IsFiniteSet(S) /\ Cardinality(S) \in Nat /\ S \subseteq Nat
  BY FS_Subset, FS_CardinalityType
<1> DEFINE Bad == {S \in SUBSET T : ~\E s : Lists(s, S)}
           Sizes == {Cardinality(S) : S \in Bad}
<1> SUFFICES ASSUME Bad # {} PROVE FALSE OBVIOUS
<1>1. Sizes \subseteq Nat /\ Sizes # {} BY <1>f
<1>2. PICK S \in Bad : \A n \in Sizes : Cardinality(S) <= n
  <2>1. Min(Sizes) \in Sizes /\ \A n \in Sizes : Min(Sizes) <= n
    <3> HIDE DEF Sizes
    <3> QED BY <1>1, MinIsLeast
  <2>2. PICK S \in Bad : Min(Sizes) = Cardinality(S) BY <2>1
  <2> QED BY <2>1, <2>2
<1>3. CASE S = {}
  <2>1. Cardinality(S) = 0 BY <1>3, FS_EmptySet
  <2>2. <<>> \in [1 .. 0 -> {}] OBVIOUS
  <2>3. Lists(<<>>, S) BY <1>3, <2>1, <2>2 DEF Lists, Increasing, Covers
  <2> QED BY <1>2, <2>3
<1>4. CASE S # {}
  <2> DEFINE m == Min(S)
  <2>1. m \in S /\ \A y \in S : m <= y BY <1>4, <1>f, MinIsLeast
  <2>2. S \ {m} \in SUBSET T OBVIOUS
  <2>3. Cardinality(S \ {m}) = Cardinality(S) - 1 BY <1>f, <2>1, FS_RemoveElement
  <2>4. S \ {m} \notin Bad
    <3>1. Cardinality(S \ {m}) \in Nat /\ Cardinality(S) \in Nat BY <1>f, <2>2
    <3>2. ~(Cardinality(S) <= Cardinality(S \ {m})) BY <2>3, <3>1
    <3>3. Cardinality(S \ {m}) \notin Sizes BY <1>2, <3>2
    <3> QED BY <3>3
  <2>5. PICK s : Lists(s, S \ {m}) BY <2>2, <2>4
  <2>6. \E z : Lists(z, S) BY <1>f, <2>1, <2>5, ListCons
  <2> QED BY <1>2, <2>6
<1> QED BY <1>3, <1>4

\* buildReadyView lists its credentials.
LEMMA SortedLists ==
  ASSUME NEW S, S \subseteq Nat, IsFiniteSet(S)
  PROVE  Lists(Sorted(S), S)
<1> DEFINE n == Cardinality(S)
<1>1. \E s \in [1 .. n -> S] : Increasing(s, n) /\ Covers(s, n, S) BY ListExists DEF Lists
<1> QED BY <1>1, Zenon DEF Lists, Sorted

\* A non-empty finite set of naturals has a greatest element, and Max is it.
LEMMA MaxIsGreatest ==
  ASSUME NEW S, S \subseteq Nat, IsFiniteSet(S), S # {}
  PROVE  Max(S) \in S /\ \A y \in S : y <= Max(S)
<1> DEFINE n == Cardinality(S)
<1>1. n \in Nat /\ n # 0 BY FS_CardinalityType, FS_EmptySet
<1>2. PICK s : Lists(s, S) BY ListExists
<1>3. s[n] \in S BY <1>1, <1>2 DEF Lists
<1>4. ASSUME NEW y \in S PROVE y <= s[n]
  <2>1. PICK k \in 1 .. n : s[k] = y BY <1>2 DEF Lists, Covers
  <2>2. CASE k = n BY <2>1, <2>2
  <2>3. CASE k # n
    <3>1. k < n /\ n \in 1 .. n BY <1>1, <2>3
    <3>2. s[k] < s[n] BY <1>2, <3>1 DEF Lists, Increasing
    <3>3. y \in Nat /\ s[n] \in Nat BY <1>3
    <3> QED BY <2>1, <3>2, <3>3
  <2> QED BY <2>2, <2>3
<1>5. \E x \in S : \A y \in S : x >= y BY <1>3, <1>4
<1>6. Max(S) \in S /\ \A y \in S : Max(S) >= y BY <1>5, Zenon DEF Max
<1> QED BY <1>6

\* A view of a set of credentials holds every one of them and nothing else.
LEMMA SortedView ==
  ASSUME NEW S, S \subseteq Ids
  PROVE  /\ Sorted(S) \in Seq(Ids)
         /\ Len(Sorted(S)) \in Nat
         /\ \A k \in 1 .. Len(Sorted(S)) : Sorted(S)[k] \in S
         /\ \A i \in S : \E k \in 1 .. Len(Sorted(S)) : Sorted(S)[k] = i
<1>1. S \subseteq Nat /\ IsFiniteSet(S) BY IdsAssumption, FS_Subset
<1>2. Lists(Sorted(S), S) BY <1>1, SortedLists
<1>3. Cardinality(S) \in Nat BY <1>1, FS_CardinalityType
<1>4. Sorted(S) \in Seq(Ids) /\ Len(Sorted(S)) = Cardinality(S) BY <1>2, <1>3 DEF Lists
<1> QED BY <1>2, <1>3, <1>4 DEF Lists, Covers

\* No credential makes an empty view.
LEMMA SortedEmpty == Sorted({}) = <<>>
<1>1. Cardinality({}) = 0 BY FS_EmptySet
<1>2. \A f \in [1 .. 0 -> {}] : f = <<>> OBVIOUS
<1>3. <<>> \in [1 .. 0 -> {}] OBVIOUS
<1> QED BY <1>1, <1>2, <1>3 DEF Sorted, Increasing, Covers

-----------------------------------------------------------------------------
(***************************************************************************)
(* The entries.  Honest(E, t): every entry is the schedule its snapshot    *)
(* had at some time up to t.                                               *)
(***************************************************************************)
Honest(E, t) ==
  /\ E = [i \in DOMAIN E |-> E[i]]
  /\ DOMAIN E \subseteq Ids
  /\ \A i \in DOMAIN E : /\ E[i].auth \in Auths
                          /\ \E u \in 0 .. t : E[i] = scheduledAuth(E[i].auth, u)

\* A schedule whose retry time is not over is still the right one.
LEMMA ScheduleLasts ==
  ASSUME NEW a \in Auths, NEW u \in Nat, NEW t \in Nat, u <= t,
         scheduledAuth(a, u).state \in {"cooldown", "blocked"}
           => scheduledAuth(a, u).next = 0 \/ scheduledAuth(a, u).next > t
  PROVE  scheduledAuth(a, u) = scheduledAuth(a, t)
<1>1. a.until \in Nat /\ a.cred \in Nat BY TimeAssumption DEF Auths
<1>2. isAuthBlockedForModel(a, u) = isAuthBlockedForModel(a, t)
  <2>1. CASE a.block = "disabled" BY <2>1 DEF isAuthBlockedForModel
  <2>2. CASE a.block # "disabled" /\ a.cred > u
    <3>1. a.cred > t BY <1>1, <2>2 DEF scheduledAuth, isAuthBlockedForModel
    <3> QED BY <1>1, <2>2, <3>1 DEF isAuthBlockedForModel
  <2>3. CASE a.block # "disabled" /\ ~(a.cred > u)
    <3>1. /\ isAuthBlockedForModel(a, u) = availabilityBlock(a, u)
          /\ isAuthBlockedForModel(a, t) = availabilityBlock(a, t)
      BY <1>1, <2>3 DEF isAuthBlockedForModel
    <3>2. CASE a.block = "none" BY <3>1, <3>2 DEF availabilityBlock
    <3>3. CASE a.block # "none" /\ a.until > u
      <4>1. a.until > t BY <1>1, <3>1, <3>3 DEF scheduledAuth, availabilityBlock
      <4> QED BY <1>1, <3>1, <3>3, <4>1 DEF availabilityBlock
    <3>4. CASE a.block # "none" /\ ~(a.until > u)
      BY <1>1, <3>1, <3>4 DEF availabilityBlock
    <3> QED BY <3>2, <3>3, <3>4
  <2> QED BY <2>1, <2>2, <2>3
<1> QED BY <1>2 DEF scheduledAuth

\* Entries stay honest as time goes on.
LEMMA HonestLater ==
  ASSUME NEW E, NEW t \in Nat, Honest(E, t)
  PROVE  Honest(E, t + 1)
BY DEF Honest

\* An upsert schedules the snapshot as of now.
LEMMA UpsertHonest ==
  ASSUME NEW E, NEW X, NEW i \in Ids, NEW a \in Auths, NEW t \in Nat, Honest(E, t)
  PROVE  Honest(upsertEntryLocked(E, X, i, a, t).entries, t)
<1> DEFINE F == with(E, i, scheduledAuth(a, t))
<1>1. F = [j \in DOMAIN F |-> F[j]] BY DEF with
<1>2. ASSUME NEW j \in DOMAIN F
      PROVE  F[j].auth \in Auths /\ \E u \in 0 .. t : F[j] = scheduledAuth(F[j].auth, u)
  <2>1. CASE j = i
    <3>1. F[j] = scheduledAuth(a, t) BY <2>1 DEF with
    <3>2. F[j].auth = a BY <3>1 DEF scheduledAuth
    <3>3. t \in 0 .. t OBVIOUS
    <3> QED BY <3>1, <3>2, <3>3
  <2>2. CASE j # i
    <3>1. j \in DOMAIN E /\ F[j] = E[j] BY <1>2, <2>2 DEF with
    <3> QED BY <3>1 DEF Honest
  <2> QED BY <2>1, <2>2
<1>3. DOMAIN F \subseteq Ids BY DEF with, Honest
<1>4. Honest(F, t) BY <1>1, <1>2, <1>3 DEF Honest
<1> QED BY <1>4 DEF upsertEntryLocked

\* A removal leaves the other entries alone.
LEMMA RemoveHonest ==
  ASSUME NEW E, NEW X, NEW i, NEW t \in Nat, Honest(E, t)
  PROVE  Honest(removeEntryLocked(E, X, i).entries, t)
<1>1. Honest(without(E, i), t) BY DEF Honest, without
<1> QED BY <1>1 DEF removeEntryLocked

\* After promotion every entry is the schedule of its snapshot at that moment,
\* although only the entries in the blocked index were looked at.
LEMMA PromoteIsCurrent ==
  ASSUME NEW E, NEW X, NEW t \in Nat, Honest(E, t), Matches(E, X)
  PROVE  LET F == promoteExpiredLocked(E, X, t).entries
         IN  /\ F = [i \in DOMAIN F |-> F[i]]
             /\ DOMAIN F \subseteq Ids
             /\ \A i \in DOMAIN F : F[i].auth \in Auths /\ F[i] = scheduledAuth(F[i].auth, t)
<1> DEFINE due == Due(E, X, t)
           F == [i \in DOMAIN E |-> IF i \in due THEN scheduledAuth(E[i].auth, t) ELSE E[i]]
<1>1. promoteExpiredLocked(E, X, t).entries = F BY DEF promoteExpiredLocked
<1>2. ASSUME NEW i \in DOMAIN E
      PROVE  F[i].auth \in Auths /\ F[i] = scheduledAuth(F[i].auth, t)
  <2>1. E[i].auth \in Auths BY DEF Honest
  <2>2. CASE i \in due
    <3>1. F[i] = scheduledAuth(E[i].auth, t) BY <2>2
    <3>2. F[i].auth = E[i].auth BY <3>1 DEF scheduledAuth
    <3> QED BY <2>1, <3>1, <3>2
  <2>3. CASE i \notin due
    <3>1. PICK u \in 0 .. t : E[i] = scheduledAuth(E[i].auth, u) BY DEF Honest
    <3>2. F[i] = E[i] BY <2>3
    <3>3. E[i].next \in Nat
      <4>1. E[i].next = isAuthBlockedForModel(E[i].auth, u).next BY <3>1 DEF scheduledAuth
      <4>2. E[i].auth.until \in Nat /\ E[i].auth.cred \in Nat BY <2>1, TimeAssumption DEF Auths
      <4> QED BY <4>1, <4>2 DEF isAuthBlockedForModel, availabilityBlock
    <3>4. E[i].state \in {"cooldown", "blocked"} => E[i].next = 0 \/ E[i].next > t
      BY <2>3, <3>3 DEF Due, Matches, BlockedSet
    <3>5. scheduledAuth(E[i].auth, u) = scheduledAuth(E[i].auth, t)
      BY <2>1, <3>1, <3>4, ScheduleLasts
    <3> QED BY <2>1, <3>1, <3>2, <3>5
  <2> QED BY <2>2, <2>3
<1>3. F = [i \in DOMAIN F |-> F[i]] BY Zenon
<1>4. DOMAIN F \subseteq Ids BY DEF Honest
<1> QED BY <1>1, <1>2, <1>3, <1>4

\* What a pick leaves behind.
LEMMA PickIsCurrent ==
  ASSUME NEW E, NEW X, NEW t \in Nat, NEW r, Honest(E, t), Matches(E, X)
  PROVE  LET F == pickSingle(E, X, t, r).entries
         IN  /\ Honest(F, t)
             /\ \A i \in DOMAIN F : F[i].auth \in Auths /\ F[i] = scheduledAuth(F[i].auth, t)
<1> DEFINE F == promoteExpiredLocked(E, X, t).entries
<1>1. pickSingle(E, X, t, r).entries = F BY DEF pickSingle
<1>2. /\ F = [i \in DOMAIN F |-> F[i]]
      /\ DOMAIN F \subseteq Ids
      /\ \A i \in DOMAIN F : F[i].auth \in Auths /\ F[i] = scheduledAuth(F[i].auth, t)
  BY PromoteIsCurrent
<1>3. t \in 0 .. t OBVIOUS
<1>4. Honest(F, t) BY <1>2, <1>3 DEF Honest
<1> QED BY <1>1, <1>2, <1>4

-----------------------------------------------------------------------------
(***************************************************************************)
(* The cooldown error.                                                     *)
(***************************************************************************)

\* At the end of its schedule a cooling credential is free, or the pause of the
\* model shows that the credential's quota has hidden.
FreeOrHidden(a, at) ==
  \/ isAuthBlockedForModel(a, at).state = "ready"
  \/ a.cred = at /\ availabilityBlock(a, at).state # "ready"

\* A current entry that is cooling does so at every instant up to its retry time.
LEMMA CoolingSchedule ==
  ASSUME NEW a \in Auths, NEW t \in Nat, scheduledAuth(a, t).state = "cooldown"
  PROVE  LET next == scheduledAuth(a, t).next
         IN  /\ next \in Nat /\ next > t
             /\ \A u \in t .. next - 1 : isAuthBlockedForModel(a, u).state = "cooldown"
             /\ FreeOrHidden(a, next)
<1> DEFINE next == scheduledAuth(a, t).next
<1>1. a.until \in Nat /\ a.cred \in Nat
  BY TimeAssumption DEF Auths
<1>2. isAuthBlockedForModel(a, t).state = "cooldown" /\ next = isAuthBlockedForModel(a, t).next
  BY DEF scheduledAuth
<1>3. a.block # "disabled" BY <1>2 DEF isAuthBlockedForModel
<1>4. CASE a.cred > t
  <2>1. next = a.cred BY <1>2, <1>3, <1>4 DEF isAuthBlockedForModel
  <2>2. ASSUME NEW u \in t .. next - 1 PROVE isAuthBlockedForModel(a, u).state = "cooldown"
    BY <1>1, <1>3, <2>1, <2>2 DEF isAuthBlockedForModel
  <2>3. isAuthBlockedForModel(a, next) = availabilityBlock(a, next)
    BY <1>1, <1>3, <2>1 DEF isAuthBlockedForModel
  <2> QED BY <1>1, <1>4, <2>1, <2>2, <2>3 DEF FreeOrHidden
<1>5. CASE ~(a.cred > t)
  <2>1. isAuthBlockedForModel(a, t) = availabilityBlock(a, t)
    BY <1>3, <1>5 DEF isAuthBlockedForModel
  <2>2. a.block = "quota" /\ a.until > t /\ next = a.until
    BY <1>1, <1>2, <2>1 DEF availabilityBlock
  <2>3. ASSUME NEW u \in t .. next - 1 PROVE isAuthBlockedForModel(a, u).state = "cooldown"
    <3>1. u \in Nat /\ ~(a.cred > u) /\ a.until > u BY <1>1, <1>5, <2>2, <2>3
    <3> QED BY <1>1, <2>2, <3>1 DEF isAuthBlockedForModel, availabilityBlock
  <2>4. isAuthBlockedForModel(a, next).state = "ready"
    <3>1. ~(a.cred > next) /\ a.until \in 1 .. next BY <1>1, <1>5, <2>2
    <3> QED BY <2>2, <3>1 DEF isAuthBlockedForModel, availabilityBlock
  <2> QED BY <1>1, <2>2, <2>3, <2>4 DEF FreeOrHidden
<1> QED BY <1>4, <1>5

\* The error unavailableErrorLocked makes of current entries names the earliest
\* end of their schedules.
LEMMA CooldownError ==
  ASSUME NEW E, NEW t \in Nat, NEW r,
         \A i \in DOMAIN E : E[i].auth \in Auths /\ E[i] = scheduledAuth(E[i].auth, t),
         unavailableErrorLocked(E, r).kind = "cooldown"
  PROVE  LET total == DOMAIN E \intersect r.allowed
             at == unavailableErrorLocked(E, r).at
         IN  /\ t < at
             /\ \A i \in total, u \in t .. at - 1 :
                  isAuthBlockedForModel(E[i].auth, u).state = "cooldown"
             /\ \E i \in total : FreeOrHidden(E[i].auth, at)
<1> DEFINE total == r.allowed \intersect DOMAIN E
           cooling == {i \in total : E[i].state = "cooldown"}
           times == {E[i].next : i \in cooling} \ {0}
           at == unavailableErrorLocked(E, r).at
<1>1. cooling = total /\ times # {} /\ at = Min(times)
  <2>1. CASE total = {} BY <2>1 DEF unavailableErrorLocked
  <2>2. CASE total # {} /\ cooling = total /\ times # {} BY <2>2 DEF unavailableErrorLocked
  <2>3. CASE total # {} /\ ~(cooling = total /\ times # {}) BY <2>3 DEF unavailableErrorLocked
  <2> QED BY <2>1, <2>2, <2>3
<1>2. \A i \in total :
        /\ E[i].next \in Nat /\ E[i].next > t
        /\ \A u \in t .. E[i].next - 1 : isAuthBlockedForModel(E[i].auth, u).state = "cooldown"
        /\ FreeOrHidden(E[i].auth, E[i].next)
  <2> SUFFICES ASSUME NEW i \in total
               PROVE  /\ E[i].next \in Nat /\ E[i].next > t
                      /\ \A u \in t .. E[i].next - 1 :
                           isAuthBlockedForModel(E[i].auth, u).state = "cooldown"
                      /\ FreeOrHidden(E[i].auth, E[i].next)
    OBVIOUS
  <2>1. E[i].auth \in Auths /\ E[i] = scheduledAuth(E[i].auth, t) OBVIOUS
  <2>2. E[i].state = "cooldown" BY <1>1
  <2> QED BY <2>1, <2>2, CoolingSchedule
<1>3. times = {E[i].next : i \in total} BY <1>1, <1>2
<1>4. times \subseteq Nat BY <1>2, <1>3
<1>5. at \in times /\ \A y \in times : at <= y
  <2> HIDE DEF times, at
  <2> QED BY <1>1, <1>4, MinIsLeast
<1>6. PICK k \in total : E[k].next = at BY <1>3, <1>5
<1>7. t < at /\ FreeOrHidden(E[k].auth, at) BY <1>2, <1>6
<1>8. ASSUME NEW i \in total, NEW u \in t .. at - 1
      PROVE  isAuthBlockedForModel(E[i].auth, u).state = "cooldown"
  <2>1. at <= E[i].next /\ E[i].next \in Nat /\ at \in Nat BY <1>2, <1>3, <1>4, <1>5
  <2> HIDE DEF at
  <2>2. u \in t .. E[i].next - 1 BY <2>1
  <2> QED BY <1>2, <2>2
<1> QED BY <1>7, <1>8

-----------------------------------------------------------------------------
(***************************************************************************)
(* Failures.                                                               *)
(***************************************************************************)

\* A shard without a ready match has no ready credential that is allowed.
LEMMA NoMatchNoReady ==
  ASSUME NEW E, DOMAIN E \subseteq Ids, NEW X, Matches(E, X), NEW r, ~HasReady(X, r),
         NEW i \in DOMAIN E, E[i].auth \in Auths, i \in r.allowed
  PROVE  E[i].state # "ready"
<1> SUFFICES ASSUME E[i].state = "ready" PROVE FALSE OBVIOUS
<1> DEFINE p == E[i].auth.prio
           S == ReadySet(E, p, FALSE)
<1>1. p \in Priorities BY DEF Auths
<1>2. i \in S /\ S \subseteq Ids BY DEF ReadySet
<1>3. PICK k \in 1 .. Len(Sorted(S)) : Sorted(S)[k] = i
  <2> HIDE DEF S
  <2> QED BY <1>2, SortedView
<1>4. X.views[p].all.flat = Sorted(S) BY <1>1 DEF Matches, buildReadyView
<1>5. k \in Matching(X.views[p]["all"], r.allowed)
  <2> HIDE DEF S, p
  <2> QED BY <1>3, <1>4 DEF Matching
<1> QED BY <1>1, <1>5 DEF HasReady, ReadyPriorities

-----------------------------------------------------------------------------
(***************************************************************************)
(* Successes.                                                              *)
(***************************************************************************)

\* Every cursor is a position of its view, or just past it.
Cursors(X) ==
  \A p \in Priorities : /\ X.views[p].all.cursor \in 0 .. Len(X.views[p].all.flat)
                        /\ X.views[p].ws.cursor \in 0 .. Len(X.views[p].ws.flat)

\* A remainder lies below the divisor.
LEMMA RemainderRange ==
  ASSUME NEW x \in Nat, NEW n \in Nat, n # 0
  PROVE  x % n \in 0 .. n - 1
OBVIOUS

\* From any cursor, some offset leads to any position.
LEMMA OffsetExists ==
  ASSUME NEW n \in Nat, n # 0, NEW c \in 0 .. n, NEW k \in 1 .. n
  PROVE  \E o \in 0 .. n - 1 : ((c + o) % n) + 1 = k
<1>1. (k - 1) % n = k - 1 OBVIOUS
<1>2. (k - 1 + n) % n = k - 1 OBVIOUS
<1>3. CASE c <= k - 1
  <2> DEFINE o == k - 1 - c
  <2>1. o \in 0 .. n - 1 /\ c + o = k - 1 BY <1>3
  <2>2. ((c + o) % n) + 1 = k BY <1>1, <2>1
  <2> HIDE DEF o
  <2> QED BY <2>1, <2>2, Zenon
<1>4. CASE ~(c <= k - 1)
  <2> DEFINE o == k - 1 + n - c
  <2>1. o \in 0 .. n - 1 /\ c + o = k - 1 + n BY <1>4
  <2>2. ((c + o) % n) + 1 = k BY <1>2, <2>1
  <2> HIDE DEF o
  <2> QED BY <2>1, <2>2, Zenon
<1> QED BY <1>3, <1>4

\* A round-robin pick lands on a match, wherever the cursor is.
LEMMA RoundRobinMatches ==
  ASSUME NEW view, Len(view.flat) \in Nat, view.cursor \in 0 .. Len(view.flat),
         NEW allowed, Matching(view, allowed) # {}
  PROVE  /\ pickRoundRobin(view, allowed).pos \in Matching(view, allowed)
         /\ pickRoundRobin(view, allowed).cursor \in 0 .. Len(view.flat)
<1> DEFINE n == Len(view.flat)
           c == view.cursor
           S == {o \in 0 .. n - 1 : view.flat[((c + o) % n) + 1] \in allowed}
           pos == ((c + Min(S)) % n) + 1
<1>1. PICK k \in 1 .. n : view.flat[k] \in allowed BY DEF Matching
<1>2. n \in Nat /\ n # 0 /\ c \in 0 .. n BY <1>1
<1>3. PICK o \in 0 .. n - 1 : ((c + o) % n) + 1 = k
  <2> HIDE DEF n, c
  <2> QED BY <1>2, OffsetExists
<1>4. S # {} /\ S \subseteq Nat
  <2>1. view.flat[((c + o) % n) + 1] \in allowed BY <1>1, <1>3, Zenon
  <2>2. o \in S BY <2>1, Zenon
  <2>3. 0 .. n - 1 \subseteq Nat BY <1>2
  <2>4. S \subseteq 0 .. n - 1 BY Zenon
  <2> QED BY <2>2, <2>3, <2>4, Zenon
<1>5. Min(S) \in S
  <2> HIDE DEF S
  <2> QED BY <1>4, MinIsLeast
<1>6. Min(S) \in 0 .. n - 1 /\ view.flat[pos] \in allowed BY <1>5, Zenon
<1>7. pos \in 1 .. n
  <2>1. ASSUME NEW m \in 0 .. n - 1 PROVE ((c + m) % n) + 1 \in 1 .. n
    <3> HIDE DEF n, c
    <3>1. c + m \in Nat BY <1>2
    <3>2. (c + m) % n \in 0 .. n - 1 BY <1>2, <3>1, RemainderRange
    <3> QED BY <1>2, <3>2
  <2> QED BY <1>6, <2>1, Zenon
<1>8. pickRoundRobin(view, allowed) = [pos |-> pos, cursor |-> pos] BY DEF pickRoundRobin
<1>9. pos \in 0 .. n BY <1>2, <1>7
<1>10. pos \in Matching(view, allowed) BY <1>6, <1>7, Zenon DEF Matching
<1> HIDE DEF pos
<1> QED BY <1>8, <1>9, <1>10

\* So does a pick of either strategy.
LEMMA PickLands ==
  ASSUME NEW view, Len(view.flat) \in Nat, view.cursor \in 0 .. Len(view.flat),
         NEW r, Matching(view, r.allowed) # {}
  PROVE  /\ pickReadyAtPriorityLocked(view, r).pos \in Matching(view, r.allowed)
         /\ pickReadyAtPriorityLocked(view, r).cursor \in 0 .. Len(view.flat)
<1>1. CASE r.strategy = "fillFirst"
  <2>1. Matching(view, r.allowed) \subseteq Nat BY DEF Matching
  <2>2. Min(Matching(view, r.allowed)) \in Matching(view, r.allowed) BY <2>1, MinIsLeast
  <2> QED BY <1>1, <2>2 DEF pickReadyAtPriorityLocked, pickFirst
<1>2. CASE r.strategy # "fillFirst"
  BY <1>2, RoundRobinMatches DEF pickReadyAtPriorityLocked
<1> QED BY <1>1, <1>2

\* The allowed ready credentials, and those of them with a websocket.
Ready(E, allowed) == {i \in DOMAIN E \intersect allowed : E[i].state = "ready"}
ReadyWs(E, allowed) == {i \in Ready(E, allowed) : E[i].auth.ws}

\* The matches of a view are the allowed ready credentials of its priority.
ViewsServe(E, X, p, allowed) ==
  LET v == X.views[p]["all"]
      w == X.views[p]["ws"]
  IN  /\ Len(v.flat) \in Nat /\ Len(w.flat) \in Nat
      /\ \A k \in Matching(v, allowed) : /\ v.flat[k] \in Ready(E, allowed)
                                         /\ E[v.flat[k]].auth.prio = p
      /\ \A k \in Matching(w, allowed) : /\ w.flat[k] \in ReadyWs(E, allowed)
                                         /\ E[w.flat[k]].auth.prio = p
      /\ \A i \in Ready(E, allowed) : E[i].auth.prio = p => Matching(v, allowed) # {}
      /\ \A i \in ReadyWs(E, allowed) : E[i].auth.prio = p => Matching(w, allowed) # {}

\* Indexes that are those of the entries serve every priority.
LEMMA MatchesAreReady ==
  ASSUME NEW E, DOMAIN E \subseteq Ids, NEW X, Matches(E, X), NEW p \in Priorities, NEW allowed
  PROVE  ViewsServe(E, X, p, allowed)
<1> DEFINE v == X.views[p]["all"]
           w == X.views[p]["ws"]
           S == ReadySet(E, p, FALSE)
           T == ReadySet(E, p, TRUE)
<1>1. v.flat = Sorted(S) /\ w.flat = Sorted(T) BY DEF Matches, buildReadyView
<1>2. S \subseteq Ids /\ T \subseteq Ids BY DEF ReadySet
<1>3. /\ \A i \in S : i \in DOMAIN E /\ E[i].state = "ready" /\ E[i].auth.prio = p
      /\ \A i \in T : i \in S /\ E[i].auth.ws
      /\ \A i \in DOMAIN E : E[i].state = "ready" /\ E[i].auth.prio = p => i \in S
      /\ \A i \in S : E[i].auth.ws => i \in T
  BY Zenon DEF ReadySet
<1> HIDE DEF v, w, S, T
<1>4. /\ Len(v.flat) \in Nat
      /\ \A k \in 1 .. Len(v.flat) : v.flat[k] \in S
      /\ \A i \in S : \E k \in 1 .. Len(v.flat) : v.flat[k] = i
  BY <1>1, <1>2, SortedView
<1>5. /\ Len(w.flat) \in Nat
      /\ \A k \in 1 .. Len(w.flat) : w.flat[k] \in T
      /\ \A i \in T : \E k \in 1 .. Len(w.flat) : w.flat[k] = i
  BY <1>1, <1>2, SortedView
<1>6. \A k \in Matching(v, allowed) : v.flat[k] \in S \intersect allowed
  BY <1>4 DEF Matching
<1>7. \A k \in Matching(w, allowed) : w.flat[k] \in T \intersect allowed
  BY <1>5 DEF Matching
<1>8. \A i \in S \intersect allowed : Matching(v, allowed) # {} BY <1>4 DEF Matching
<1>9. \A i \in T \intersect allowed : Matching(w, allowed) # {} BY <1>5 DEF Matching
<1>10. \A k \in Matching(v, allowed) : v.flat[k] \in Ready(E, allowed) /\ E[v.flat[k]].auth.prio = p
  BY <1>3, <1>6, Zenon DEF Ready
<1>11. \A k \in Matching(w, allowed) : w.flat[k] \in ReadyWs(E, allowed) /\ E[w.flat[k]].auth.prio = p
  BY <1>3, <1>7, Zenon DEF Ready, ReadyWs
<1>12. \A i \in Ready(E, allowed) : E[i].auth.prio = p => Matching(v, allowed) # {}
  BY <1>3, <1>8, Zenon DEF Ready
<1>13. \A i \in ReadyWs(E, allowed) : E[i].auth.prio = p => Matching(w, allowed) # {}
  BY <1>3, <1>9, Zenon DEF Ready, ReadyWs
<1> QED BY <1>4, <1>5, <1>10, <1>11, <1>12, <1>13, Zenon DEF v, w, ViewsServe

\* The credentials a pick chooses from.
Field(E, r) ==
  IF r.ws /\ ReadyWs(E, r.allowed) # {} THEN ReadyWs(E, r.allowed) ELSE Ready(E, r.allowed)

\* The pick takes a credential of the field whose priority is the highest.
LEMMA PickedIsBest ==
  ASSUME NEW E, DOMAIN E \subseteq Ids, \A i \in DOMAIN E : E[i].auth \in Auths,
         NEW X, Matches(E, X), Cursors(X), NEW r, HasReady(X, r)
  PROVE  LET p == highestReadyPriorityLocked(X, r)
             kind == ViewKind(X, p, r)
             view == X.views[p][kind]
             picked == pickReadyAtPriorityLocked(view, r)
             id == view.flat[picked.pos]
         IN  /\ picked.cursor \in 0 .. Len(view.flat)
             /\ p \in Priorities
             /\ kind \in {"all", "ws"}
             /\ id \in Field(E, r)
             /\ \A i \in Field(E, r) : E[i].auth.prio <= E[id].auth.prio
<1> DEFINE A == r.allowed
           WP == ReadyPriorities(X, "ws", A)
           AP == ReadyPriorities(X, "all", A)
           p == highestReadyPriorityLocked(X, r)
           kind == ViewKind(X, p, r)
           view == X.views[p][kind]
           picked == pickReadyAtPriorityLocked(view, r)
           id == view.flat[picked.pos]
<1>0. \A q \in Priorities : ViewsServe(E, X, q, A) BY MatchesAreReady
<1>1. \A i \in Ready(E, A) : E[i].auth.prio \in Priorities /\ E[i].auth.prio \in AP
  <2> TAKE i \in Ready(E, A)
  <2>1. E[i].auth.prio \in Priorities BY DEF Ready, Auths
  <2> QED BY <2>1, <1>0, Zenon DEF ReadyPriorities, ViewsServe
<1>2. \A i \in ReadyWs(E, A) : E[i].auth.prio \in WP
  <2> TAKE i \in ReadyWs(E, A)
  <2>1. E[i].auth.prio \in Priorities BY DEF Ready, ReadyWs, Auths
  <2> QED BY <2>1, <1>0, Zenon DEF ReadyPriorities, ViewsServe
<1>3. AP # {} BY DEF HasReady
<1>4. \A Q \in SUBSET Priorities : Q # {} => Max(Q) \in Q /\ \A q \in Q : q <= Max(Q)
  BY PrioritiesAssumption, FS_Subset, MaxIsGreatest
<1>5. AP \subseteq Priorities /\ WP \subseteq Priorities BY DEF ReadyPriorities
<1>6. CASE r.ws /\ WP # {}
  <2>1. p = Max(WP) BY <1>6 DEF highestReadyPriorityLocked
  <2>2. p \in WP /\ \A q \in WP : q <= p BY <1>4, <1>5, <1>6, <2>1
  <2>3. p \in Priorities /\ Matching(X.views[p]["ws"], A) # {} BY <2>2 DEF ReadyPriorities
  <2>4. kind = "ws" BY <1>6, <2>3 DEF ViewKind
  <2>5. /\ Len(view.flat) \in Nat
        /\ \A k \in Matching(view, A) : view.flat[k] \in ReadyWs(E, A) /\ E[view.flat[k]].auth.prio = p
    <3> HIDE DEF p, kind
    <3> DEFINE u == X.views[p]["ws"]
    <3>1. view = u BY <2>4
    <3>2. /\ Len(u.flat) \in Nat
          /\ \A k \in Matching(u, A) : u.flat[k] \in ReadyWs(E, A) /\ E[u.flat[k]].auth.prio = p
      BY <2>3, <1>0, Zenon DEF ViewsServe
    <3> HIDE DEF u, view
    <3> QED BY <3>1, <3>2, Zenon
  <2>6. view.cursor \in 0 .. Len(view.flat)
    <3> HIDE DEF p, kind
    <3> QED BY <2>3, <2>4 DEF Cursors
  <2>7. picked.pos \in Matching(view, A) /\ picked.cursor \in 0 .. Len(view.flat)
    <3>1. Matching(view, r.allowed) # {} BY <2>3, <2>4
    <3> HIDE DEF view
    <3> QED BY <3>1, <2>5, <2>6, PickLands
  <2>8. id \in ReadyWs(E, A) /\ E[id].auth.prio = p
    <3> HIDE DEF view, picked, p
    <3> QED BY <2>5, <2>7
  <2>9. Field(E, r) = ReadyWs(E, A) BY <1>6, <2>8 DEF Field
  <2> HIDE DEF id, p, kind, picked, view
  <2>10. \A i \in Field(E, r) : E[i].auth.prio <= E[id].auth.prio BY <1>2, <2>2, <2>8, <2>9
  <2> QED BY <2>3, <2>4, <2>7, <2>8, <2>9, <2>10, Zenon DEF id, p, kind, picked, view
<1>7. CASE ~(r.ws /\ WP # {})
  <2>1. p = Max(AP) BY <1>7 DEF highestReadyPriorityLocked
  <2>2. p \in AP /\ \A q \in AP : q <= p BY <1>3, <1>4, <1>5, <2>1
  <2>3. p \in Priorities /\ Matching(X.views[p]["all"], A) # {} BY <2>2 DEF ReadyPriorities
  <2>4. kind = "all"
    <3>1. r.ws => Matching(X.views[p]["ws"], A) = {} BY <1>7, <2>3 DEF ReadyPriorities
    <3> QED BY <3>1 DEF ViewKind
  <2>5. /\ Len(view.flat) \in Nat
        /\ \A k \in Matching(view, A) : view.flat[k] \in Ready(E, A) /\ E[view.flat[k]].auth.prio = p
    <3> HIDE DEF p, kind
    <3> DEFINE u == X.views[p]["all"]
    <3>1. view = u BY <2>4
    <3>2. /\ Len(u.flat) \in Nat
          /\ \A k \in Matching(u, A) : u.flat[k] \in Ready(E, A) /\ E[u.flat[k]].auth.prio = p
      BY <2>3, <1>0, Zenon DEF ViewsServe
    <3> HIDE DEF u, view
    <3> QED BY <3>1, <3>2, Zenon
  <2>6. view.cursor \in 0 .. Len(view.flat)
    <3> HIDE DEF p, kind
    <3> QED BY <2>3, <2>4 DEF Cursors
  <2>7. picked.pos \in Matching(view, A) /\ picked.cursor \in 0 .. Len(view.flat)
    <3>1. Matching(view, r.allowed) # {} BY <2>3, <2>4
    <3> HIDE DEF view
    <3> QED BY <3>1, <2>5, <2>6, PickLands
  <2>8. id \in Ready(E, A) /\ E[id].auth.prio = p
    <3> HIDE DEF view, picked, p
    <3> QED BY <2>5, <2>7
  <2>9. Field(E, r) = Ready(E, A) BY <1>2, <1>7 DEF Field
  <2> HIDE DEF id, p, kind, picked, view
  <2>10. \A i \in Field(E, r) : E[i].auth.prio <= E[id].auth.prio BY <1>1, <2>2, <2>8, <2>9
  <2> QED BY <2>3, <2>4, <2>7, <2>8, <2>9, <2>10, Zenon DEF id, p, kind, picked, view
<1> QED BY <1>6, <1>7

-----------------------------------------------------------------------------
(***************************************************************************)
(* Cursors.                                                                *)
(***************************************************************************)
\* restoreReadyViewCursors brings every cursor back into its view.
LEMMA RebuildCursors ==
  ASSUME NEW E, DOMAIN E \subseteq Ids, NEW X, Cursors(X)
  PROVE  Cursors(rebuildIndexesLocked(E, X))
<1> DEFINE Y == rebuildIndexesLocked(E, X)
<1> SUFFICES ASSUME NEW p \in Priorities
             PROVE  /\ Y.views[p].all.cursor \in 0 .. Len(Y.views[p].all.flat)
                    /\ Y.views[p].ws.cursor \in 0 .. Len(Y.views[p].ws.flat)
  BY DEF Cursors
<1>1. ASSUME NEW c \in Nat, NEW n \in Nat PROVE normalizeCursor(c, n) \in 0 .. n
  <2>1. CASE n = 0 BY <2>1 DEF normalizeCursor
  <2>2. CASE n # 0
    <3>1. c % n \in 0 .. n - 1 BY <2>2, RemainderRange
    <3> QED BY <2>2, <3>1 DEF normalizeCursor
  <2> QED BY <2>1, <2>2
<1>2. X.views[p].all.cursor \in Nat /\ X.views[p].ws.cursor \in Nat BY DEF Cursors
<1>3. \A S \in SUBSET Ids : Len(Sorted(S)) \in Nat BY SortedView
<1> DEFINE v == buildReadyView(E, p, FALSE)
           w == buildReadyView(E, p, TRUE)
<1>4. Len(v) \in Nat /\ Len(w) \in Nat BY <1>3, Zenon DEF buildReadyView, ReadySet
<1>5. /\ Y.views[p].all = restoreReadyViewCursors(X.views[p].all, v)
      /\ Y.views[p].ws = restoreReadyViewCursors(X.views[p].ws, w)
  BY DEF rebuildIndexesLocked
<1> HIDE DEF Y, v, w
<1>6. /\ Y.views[p].all.flat = v /\ Y.views[p].ws.flat = w
      /\ Y.views[p].all.cursor = normalizeCursor(X.views[p].all.cursor, Len(v))
      /\ Y.views[p].ws.cursor = normalizeCursor(X.views[p].ws.cursor, Len(w))
  BY <1>5 DEF restoreReadyViewCursors
<1>7. /\ normalizeCursor(X.views[p].all.cursor, Len(v)) \in 0 .. Len(v)
      /\ normalizeCursor(X.views[p].ws.cursor, Len(w)) \in 0 .. Len(w)
  BY <1>1, <1>2, <1>4
<1> QED BY <1>6, <1>7

\* A cursor moved within its view stays within it.
LEMMA MoveCursors ==
  ASSUME NEW X, Cursors(X), NEW p \in Priorities, NEW kind \in {"all", "ws"},
         NEW c, c \in 0 .. Len(X.views[p][kind].flat)
  PROVE  Cursors(moveCursor(X, p, kind, c))
<1>1. CASE kind = "all" BY <1>1 DEF Cursors, moveCursor
<1>2. CASE kind = "ws" BY <1>2 DEF Cursors, moveCursor
<1> QED BY <1>1, <1>2

\* Promotion keeps the cursors in their views.
LEMMA PromoteCursors ==
  ASSUME NEW E, DOMAIN E \subseteq Ids, NEW X, Cursors(X), NEW t
  PROVE  Cursors(promoteExpiredLocked(E, X, t).index)
<1> DEFINE F == [i \in DOMAIN E |-> IF i \in Due(E, X, t) THEN scheduledAuth(E[i].auth, t) ELSE E[i]]
<1>1. DOMAIN F \subseteq Ids OBVIOUS
<1> HIDE DEF F
<1>2. Cursors(rebuildIndexesLocked(F, X)) BY <1>1, RebuildCursors
<1> QED BY <1>2 DEF promoteExpiredLocked, F

\* So does an upsert.
LEMMA UpsertCursors ==
  ASSUME NEW E, DOMAIN E \subseteq Ids, NEW X, Cursors(X), NEW i \in Ids, NEW a, NEW t
  PROVE  Cursors(upsertEntryLocked(E, X, i, a, t).index)
<1> DEFINE F == with(E, i, scheduledAuth(a, t))
<1>1. DOMAIN F \subseteq Ids BY DEF with
<1> HIDE DEF F
<1>2. Cursors(rebuildIndexesLocked(F, X)) BY <1>1, RebuildCursors
<1> QED BY <1>2 DEF upsertEntryLocked, F

\* So does a removal.
LEMMA RemoveCursors ==
  ASSUME NEW E, DOMAIN E \subseteq Ids, NEW X, Cursors(X), NEW i
  PROVE  Cursors(removeEntryLocked(E, X, i).index)
<1> DEFINE F == without(E, i)
<1>1. DOMAIN F \subseteq Ids BY DEF without
<1> HIDE DEF F
<1>2. Cursors(rebuildIndexesLocked(F, X)) BY <1>1, RebuildCursors
<1> QED BY <1>2 DEF removeEntryLocked, F

\* What pickSingle answers and which cursor it moves.
LEMMA PickOutcome ==
  ASSUME NEW E, NEW X, NEW t \in Nat, NEW r, Honest(E, t), Matches(E, X), Cursors(X)
  PROVE  LET s == pickSingle(E, X, t, r)
         IN  /\ Cursors(s.index)
             /\ s.kind \in {"auth", "cooldown", "unavailable", "notFound"}
             /\ s.kind = "auth" =>
                  /\ s.id \in Field(s.entries, r)
                  /\ \A i \in Field(s.entries, r) :
                       s.entries[i].auth.prio <= s.entries[s.id].auth.prio
<1> DEFINE F == promoteExpiredLocked(E, X, t).entries
           Y == promoteExpiredLocked(E, X, t).index
           p == highestReadyPriorityLocked(Y, r)
           kind == ViewKind(Y, p, r)
           view == Y.views[p][kind]
           picked == pickReadyAtPriorityLocked(view, r)
           id == view.flat[picked.pos]
           s == pickSingle(E, X, t, r)
<1>1. DOMAIN F \subseteq Ids /\ \A i \in DOMAIN F : F[i].auth \in Auths BY PromoteIsCurrent
<1>2. Matches(F, Y) BY PromoteMatches DEF Honest
<1>3. Cursors(Y) BY PromoteCursors DEF Honest
<1>4. CASE HasReady(Y, r)
  <2>1. /\ picked.cursor \in 0 .. Len(view.flat) /\ kind \in {"all", "ws"}
        /\ p \in Priorities
        /\ id \in Field(F, r)
        /\ \A i \in Field(F, r) : F[i].auth.prio <= F[id].auth.prio
    <3> HIDE DEF F, Y
    <3> QED BY <1>1, <1>2, <1>3, <1>4, PickedIsBest
  <2>2. s = [entries |-> F, index |-> moveCursor(Y, p, kind, picked.cursor),
             kind |-> "auth", id |-> id, at |-> 0]
    BY <1>4 DEF pickSingle
  <2>3. Cursors(moveCursor(Y, p, kind, picked.cursor))
    <3> HIDE DEF Y, p, kind, picked
    <3> QED BY <1>3, <2>1, MoveCursors
  <2> HIDE DEF F, Y, p, kind, picked, id, s
  <2> QED BY <2>1, <2>2, <2>3 DEF s
<1>5. CASE ~HasReady(Y, r)
  <2> DEFINE e == unavailableErrorLocked(F, r)
  <2>1. e.kind \in {"cooldown", "unavailable", "notFound"} BY DEF unavailableErrorLocked
  <2>2. s = [entries |-> F, index |-> Y, kind |-> e.kind, id |-> 0, at |-> e.at]
    BY <1>5 DEF pickSingle
  <2> HIDE DEF F, Y, e, s
  <2> QED BY <1>3, <2>1, <2>2 DEF s
<1> QED BY <1>4, <1>5

-----------------------------------------------------------------------------
(***************************************************************************)
(* The inductive invariant.  IndexMatchesEntries is needed to know that    *)
(* promotion, which reads the blocked index, misses no entry, Honest that  *)
(* what it does not touch is current, and Cursors that a round-robin scan  *)
(* starts inside the view.                                                 *)
(***************************************************************************)
ShardInv ==
  /\ now \in 0 .. MaxTime
  /\ last.kind \in {"none", "auth", "cooldown", "unavailable", "notFound"}
  /\ Honest(entries, now)
  /\ IndexMatchesEntries
  /\ Cursors(index)
  /\ PickSeesCurrentState
  /\ PickIsBest
  /\ FailureIsReal
  /\ CooldownTimeIsEarliest

\* A new shard satisfies the invariant.
LEMMA InitShard == Init => ShardInv
<1> SUFFICES ASSUME Init PROVE ShardInv OBVIOUS
<1>1. Honest(entries, now) BY DEF Init, Honest
<1>2. IndexMatchesEntries
  <2>1. BlockedSet(entries) = {} BY DEF Init, BlockedSet
  <2>2. ASSUME NEW p \in Priorities, NEW w PROVE ReadySet(entries, p, w) = {}
    BY DEF Init, ReadySet
  <2>3. Sorted({}) = <<>> BY SortedEmpty
  <2> QED BY <2>1, <2>2, <2>3 DEF Init, IndexMatchesEntries, EmptyIndex, EmptyView, buildReadyView
<1>3. PickSeesCurrentState BY DEF Init, NoAnswer, PickSeesCurrentState
<1>4. CooldownTimeIsEarliest BY DEF Init, NoAnswer, CooldownTimeIsEarliest
<1>5. FailureIsReal BY DEF Init, NoAnswer, FailureIsReal
<1>6. PickIsBest BY DEF Init, NoAnswer, PickIsBest
<1>7. Cursors(index)
  <2>1. Len(<<>>) = 0 OBVIOUS
  <2> QED BY <2>1 DEF Init, EmptyIndex, EmptyView, Cursors
<1>8. now \in 0 .. MaxTime BY TimeAssumption DEF Init
<1>9. last.kind = "none" BY DEF Init, NoAnswer
<1> QED BY <1>1, <1>2, <1>3, <1>4, <1>5, <1>6, <1>7, <1>8, <1>9 DEF ShardInv

\* Every operation on the shard, and time, preserves the invariant.
LEMMA NextShard == ShardInv /\ [Next]_vars => ShardInv'
<1> SUFFICES ASSUME ShardInv, [Next]_vars PROVE ShardInv' OBVIOUS
<1>t. now \in 0 .. MaxTime /\ now \in Nat /\ Honest(entries, now) /\ Cursors(index)
  BY TimeAssumption DEF ShardInv
<1>d. DOMAIN entries \subseteq Ids BY <1>t DEF Honest
<1>m. Matches(entries, index) BY DEF Matches, ShardInv, IndexMatchesEntries
<1>q. ASSUME last' = NoAnswer
      PROVE  /\ last'.kind \in {"none", "auth", "cooldown", "unavailable", "notFound"}
             /\ PickSeesCurrentState' /\ PickIsBest' /\ FailureIsReal' /\ CooldownTimeIsEarliest'
  BY <1>q DEF NoAnswer, PickSeesCurrentState, PickIsBest, FailureIsReal, CooldownTimeIsEarliest
<1>1. ASSUME NEW i \in Ids, NEW a \in Snapshots, upsert(i, a) PROVE ShardInv'
  <2>0. a \in Auths BY SnapshotsAssumption
  <2>1. /\ entries' = upsertEntryLocked(entries, index, i, a, now).entries
        /\ index' = upsertEntryLocked(entries, index, i, a, now).index
        /\ last' = NoAnswer /\ now' = now
    BY <1>1 DEF upsert
  <2>2. Honest(entries', now') BY <1>t, <2>0, <2>1, UpsertHonest
  <2>3. Matches(entries', index') BY <1>m, <2>1, UpsertMatches
  <2>4. Cursors(index') BY <1>t, <1>d, <2>1, UpsertCursors
  <2> QED BY <1>t, <1>q, <2>1, <2>2, <2>3, <2>4 DEF ShardInv, Matches, IndexMatchesEntries
<1>2. ASSUME NEW i \in Ids, remove(i) PROVE ShardInv'
  <2>1. /\ entries' = removeEntryLocked(entries, index, i).entries
        /\ index' = removeEntryLocked(entries, index, i).index
        /\ last' = NoAnswer /\ now' = now
    BY <1>2 DEF remove
  <2>2. Honest(entries', now') BY <1>t, <2>1, RemoveHonest
  <2>3. Matches(entries', index') BY <1>m, <2>1, RemoveMatches
  <2>4. Cursors(index') BY <1>t, <1>d, <2>1, RemoveCursors
  <2> QED BY <1>t, <1>q, <2>1, <2>2, <2>3, <2>4 DEF ShardInv, Matches, IndexMatchesEntries
<1>3. ASSUME NEW r \in Requests, pick(r) PROVE ShardInv'
  <2> DEFINE s == pickSingle(entries, index, now, r)
  <2>1. /\ entries' = s.entries /\ index' = s.index /\ now' = now
        /\ last' = [kind |-> s.kind, id |-> s.id, at |-> s.at, req |-> r]
    BY <1>3 DEF pick
  <2>2. Honest(entries', now')
        /\ \A i \in DOMAIN entries' : /\ entries'[i].auth \in Auths
                                      /\ entries'[i] = scheduledAuth(entries'[i].auth, now')
    BY <1>t, <1>m, <2>1, PickIsCurrent
  <2>3. Matches(entries', index')
    BY <1>t, <1>m, <2>1, PickMatches DEF Honest
  <2>4. PickSeesCurrentState' BY <2>2 DEF PickSeesCurrentState
  <2>5. ASSUME s.kind = "cooldown"
        PROVE  unavailableErrorLocked(entries', r).kind = "cooldown"
               /\ s.at = unavailableErrorLocked(entries', r).at
    BY <2>1, <2>5 DEF pickSingle
  <2>6. CooldownTimeIsEarliest'
    <3> SUFFICES ASSUME last'.kind = "cooldown"
        PROVE LET total == DOMAIN entries' \intersect last'.req.allowed
              IN  /\ now' < last'.at
                  /\ \A i \in total, t \in now' .. last'.at - 1 :
                       isAuthBlockedForModel(entries'[i].auth, t).state = "cooldown"
                  /\ \E i \in total : FreeOrHidden(entries'[i].auth, last'.at)
      BY DEF CooldownTimeIsEarliest, CoolsAt, FreeOrHidden
    <3>1. s.kind = "cooldown" /\ last'.at = s.at /\ last'.req = r BY <2>1
    <3>2. now' \in Nat BY <1>t, <2>1
    <3> QED BY <2>2, <2>5, <3>1, <3>2, CooldownError
  <2>7. ASSUME last'.kind \in {"cooldown", "unavailable", "notFound"}
        PROVE  ~HasReady(promoteExpiredLocked(entries, index, now).index, r)
               /\ index' = promoteExpiredLocked(entries, index, now).index
    BY <2>1, <2>7 DEF pickSingle
  <2>8. FailureIsReal'
    <3> SUFFICES ASSUME last'.kind \in {"cooldown", "unavailable", "notFound"},
                        NEW i \in DOMAIN entries' \intersect r.allowed
                 PROVE  isAuthBlockedForModel(entries'[i].auth, now').state # "ready"
      BY <2>1 DEF FailureIsReal, Candidates, Unblocked
    <3>1. entries'[i].state # "ready" BY <2>2, <2>3, <2>7, NoMatchNoReady DEF Honest
    <3>2. entries'[i] = scheduledAuth(entries'[i].auth, now') BY <2>2
    <3> QED BY <3>1, <3>2 DEF scheduledAuth
  <2>9. /\ Cursors(index')
        /\ last'.kind \in {"auth", "cooldown", "unavailable", "notFound"}
        /\ last'.kind = "auth" =>
             /\ last'.id \in Field(entries', r)
             /\ \A i \in Field(entries', r) :
                  entries'[i].auth.prio <= entries'[last'.id].auth.prio
    <3>1. /\ Cursors(s.index)
          /\ s.kind \in {"auth", "cooldown", "unavailable", "notFound"}
          /\ s.kind = "auth" =>
               /\ s.id \in Field(s.entries, r)
               /\ \A i \in Field(s.entries, r) :
                    s.entries[i].auth.prio <= s.entries[s.id].auth.prio
      BY <1>t, <1>m, PickOutcome
    <3>2. last'.kind = s.kind /\ last'.id = s.id BY <2>1
    <3> HIDE DEF s
    <3> QED BY <2>1, <3>1, <3>2
  <2>10. PickIsBest'
    <3> DEFINE C == {i \in DOMAIN entries' \intersect r.allowed :
                       isAuthBlockedForModel(entries'[i].auth, now').state = "ready"}
               W == {i \in C : r.ws /\ entries'[i].auth.ws}
    <3>1. \A i \in DOMAIN entries' :
            entries'[i].state = isAuthBlockedForModel(entries'[i].auth, now').state
      BY <2>2 DEF scheduledAuth
    <3>2. C = Ready(entries', r.allowed) BY <3>1 DEF Ready
    <3>3. Field(entries', r) = IF W # {} THEN W ELSE C
      <4>1. CASE r.ws
        <5>1. W = ReadyWs(entries', r.allowed) BY <3>2, <4>1 DEF ReadyWs
        <5> QED BY <3>2, <4>1, <5>1 DEF Field
      <4>2. CASE ~r.ws
        <5>1. W = {} BY <4>2
        <5> QED BY <3>2, <4>2, <5>1 DEF Field
      <4> QED BY <4>1, <4>2
    <3>4. last'.req = r BY <2>1
    <3> QED BY <2>9, <3>3, <3>4, Zenon DEF PickIsBest, Candidates, Unblocked
  <2> QED BY <1>t, <2>1, <2>2, <2>3, <2>4, <2>6, <2>8, <2>9, <2>10
          DEF ShardInv, Matches, IndexMatchesEntries
<1>4. CASE Tick
  <2>1. /\ entries' = entries /\ index' = index /\ last' = NoAnswer
        /\ now' = now + 1 /\ now < MaxTime
    BY <1>4 DEF Tick
  <2>2. Honest(entries, now + 1) BY <1>t, HonestLater
  <2>3. Matches(entries', index') BY <1>m, <2>1
  <2>4. now' \in 0 .. MaxTime BY <1>t, <2>1, TimeAssumption
  <2>5. Honest(entries', now') BY <2>1, <2>2
  <2>6. Cursors(index') BY <1>t, <2>1
  <2> QED BY <1>q, <2>1, <2>3, <2>4, <2>5, <2>6 DEF ShardInv, Matches, IndexMatchesEntries
<1>5. CASE UNCHANGED vars
  <2>1. entries' = entries /\ index' = index /\ last' = last /\ now' = now BY <1>5 DEF vars
  <2> QED BY <2>1 DEF ShardInv, IndexMatchesEntries, PickSeesCurrentState, CooldownTimeIsEarliest,
                      PickIsBest, FailureIsReal, Candidates, Unblocked, CoolsAt
<1> QED BY <1>1, <1>2, <1>3, <1>4, <1>5 DEF Next

\* The inductive invariant holds in every reachable state of the shard.
THEOREM ShardInvariance == Spec => []ShardInv
BY InitShard, NextShard, PTL DEF Spec

\* The ready views and the blocked index always list the entries that
\* rebuildIndexesLocked would find, although upsertEntryLocked and
\* promoteExpiredLocked often skip it.
THEOREM IndexMatchesEntriesHolds == Spec => []IndexMatchesEntries
<1>1. ShardInv => IndexMatchesEntries BY DEF ShardInv
<1> QED BY <1>1, ShardInvariance, PTL

\* pickSingle answers from states that are current, however long ago the
\* scheduler was given the snapshots.
THEOREM PickSeesCurrentStateHolds == Spec => []PickSeesCurrentState
<1>1. ShardInv => PickSeesCurrentState BY DEF ShardInv
<1> QED BY <1>1, ShardInvariance, PTL

\* A pick fails only when every allowed credential is blocked at that moment.
THEOREM FailureIsRealHolds == Spec => []FailureIsReal
<1>1. ShardInv => FailureIsReal BY DEF ShardInv
<1> QED BY <1>1, ShardInvariance, PTL

\* For any snapshots: until the retry time in a model cooldown error every
\* allowed credential cools, and then one is free or shows a pause of the model
\* that a credential-wide quota had hidden.
THEOREM CooldownTimeIsEarliestHolds == Spec => []CooldownTimeIsEarliest
<1>1. ShardInv => CooldownTimeIsEarliest BY DEF ShardInv
<1> QED BY <1>1, ShardInvariance, PTL

\* A pick takes an unblocked credential of the highest priority, websocket
\* credentials first for a websocket request.
THEOREM PickIsBestHolds == Spec => []PickIsBest
<1>1. ShardInv => PickIsBest BY DEF ShardInv
<1> QED BY <1>1, ShardInvariance, PTL

\* Type correctness; in particular no cursor ever points outside its view, so
\* pickRoundRobin never indexes past the end of flat.
THEOREM ShardTypeCorrect == Spec => []TypeOK
<1>1. ShardInv => TypeOK
  <2> SUFFICES ASSUME ShardInv PROVE TypeOK OBVIOUS
  <2>1. now \in 0 .. MaxTime /\ DOMAIN entries \subseteq Ids BY DEF ShardInv, Honest
  <2>2. ASSUME NEW i \in DOMAIN entries PROVE entries[i] \in Entries
    <3> DEFINE a == entries[i].auth
    <3>1. PICK u \in 0 .. now : entries[i] = scheduledAuth(a, u) BY DEF ShardInv, Honest
    <3>2. a \in Auths BY DEF ShardInv, Honest
    <3>3. a.until \in 0 .. MaxTime /\ a.cred \in 0 .. MaxTime BY <3>2 DEF Auths
    <3>4. isAuthBlockedForModel(a, u).state \in States
      BY DEF isAuthBlockedForModel, availabilityBlock, States
    <3>5. isAuthBlockedForModel(a, u).next \in 0 .. MaxTime
      BY <3>3, TimeAssumption DEF isAuthBlockedForModel, availabilityBlock
    <3> HIDE DEF a
    <3> QED BY <3>1, <3>2, <3>4, <3>5 DEF scheduledAuth, Entries
  <2>3. index.blocked \subseteq Ids BY <2>1 DEF ShardInv, IndexMatchesEntries, BlockedSet
  <2>4. ASSUME NEW v \in Views(index) PROVE v.flat \in Seq(Ids) /\ v.cursor \in 0 .. Len(v.flat)
    <3>1. PICK p \in Priorities : v = index.views[p].all \/ v = index.views[p].ws
      BY DEF Views
    <3>2. \A S \in SUBSET Ids : Sorted(S) \in Seq(Ids) BY SortedView
    <3>3. /\ index.views[p].all.flat \in Seq(Ids)
          /\ index.views[p].ws.flat \in Seq(Ids)
      <4>1. /\ ReadySet(entries, p, FALSE) \in SUBSET Ids
            /\ ReadySet(entries, p, TRUE) \in SUBSET Ids
        BY <2>1 DEF ReadySet
      <4> QED BY <3>2, <4>1 DEF ShardInv, IndexMatchesEntries, buildReadyView
    <3> QED BY <3>1, <3>3 DEF ShardInv, Cursors
  <2> QED BY <2>1, <2>2, <2>3, <2>4 DEF ShardInv, TypeOK
<1> QED BY <1>1, ShardInvariance, PTL

-----------------------------------------------------------------------------
(***************************************************************************)
(* Rotation.  How often a ready credential was passed over is bounded by   *)
(* the way the cursor has gone since it stood before the credential.       *)
(***************************************************************************)

\* The steps, modulo n, from position k to cursor c of a view of n credentials.
Distance(c, k, n) == IF k <= c THEN c - k ELSE c + n - k

\* Position, view and count of a credential that was passed over.
Turn(i) ==
  passed[i] > 0 =>
    LET p == entries[i].auth.prio
        v == index.views[p].all
    IN  /\ i \in DOMAIN entries /\ p \in Priorities
        /\ \E k \in 1 .. Len(v.flat) :
             v.flat[k] = i /\ passed[i] <= Distance(v.cursor, k, Len(v.flat))

\* The inductive invariant of the rotation.
RotationInv ==
  /\ ShardInv
  /\ passed \in [Ids -> Nat]
  /\ \A i \in Ids : Turn(i)

\* A pick brings the cursor one step further away from all others, and being
\* normalised does not move it.
LEMMA DistanceGrows ==
  ASSUME NEW n \in Nat, n # 0, NEW c \in 0 .. n, NEW k \in 1 .. n
  PROVE  /\ Distance(c % n, k, n) = Distance(c, k, n)
         /\ (c % n) + 1 \in 1 .. n
         /\ k # (c % n) + 1 => Distance((c % n) + 1, k, n) = Distance(c, k, n) + 1
         /\ Distance(c, k, n) \in 0 .. n - 1
<1>1. CASE c = n
  <2>1. c % n = 0 BY <1>1
  <2> QED BY <1>1, <2>1 DEF Distance
<1>2. CASE c # n
  <2>1. c % n = c BY <1>2
  <2>2. c + 1 \in 1 .. n BY <1>2
  <2>3. k # c + 1 => Distance(c + 1, k, n) = Distance(c, k, n) + 1 BY <1>2 DEF Distance
  <2>4. Distance(c, k, n) \in 0 .. n - 1 BY DEF Distance
  <2> HIDE DEF Distance
  <2> QED BY <2>1, <2>2, <2>3, <2>4
<1> QED BY <1>1, <1>2

\* An unrestricted round-robin pick takes the credential behind the cursor.
LEMMA RoundRobinTakesNext ==
  ASSUME NEW view, Len(view.flat) \in Nat, Len(view.flat) # 0,
         view.cursor \in 0 .. Len(view.flat),
         \A k \in 1 .. Len(view.flat) : view.flat[k] \in Ids
  PROVE  /\ pickRoundRobin(view, Ids).pos = (view.cursor % Len(view.flat)) + 1
         /\ pickRoundRobin(view, Ids).cursor = (view.cursor % Len(view.flat)) + 1
<1> DEFINE n == Len(view.flat)
           c == view.cursor
           S == {o \in 0 .. n - 1 : view.flat[((c + o) % n) + 1] \in Ids}
           pos == ((c + Min(S)) % n) + 1
<1>1. n \in Nat /\ n # 0 /\ c \in Nat /\ c + 0 = c /\ 0 \in 0 .. n - 1 OBVIOUS
<1>2. (c % n) + 1 \in 1 .. n
  <2> HIDE DEF n, c
  <2>1. c % n \in 0 .. n - 1 BY <1>1, RemainderRange
  <2> QED BY <1>1, <2>1
<1>3. 0 \in S
  <2>1. view.flat[((c + 0) % n) + 1] \in Ids BY <1>1, <1>2
  <2> HIDE DEF n, c
  <2> QED BY <1>1, <2>1
<1>4. S \subseteq Nat
  <2>1. 0 .. n - 1 \subseteq Nat BY <1>1
  <2>2. S \subseteq 0 .. n - 1 BY Zenon
  <2> QED BY <2>1, <2>2, Zenon
<1>5. Min(S) = 0
  <2> HIDE DEF S
  <2>1. Min(S) \in S /\ Min(S) <= 0 BY <1>3, <1>4, MinIsLeast
  <2> QED BY <1>4, <2>1
<1>6. pos = (c % n) + 1 BY <1>1, <1>5, Zenon
<1>7. pickRoundRobin(view, Ids) = [pos |-> pos, cursor |-> pos] BY DEF pickRoundRobin
<1> HIDE DEF pos
<1> QED BY <1>6, <1>7

\* Promotion leaves the cursors of the views it does not change where they are,
\* modulo the length of the view.
LEMMA PromoteKeepsCursor ==
  ASSUME NEW E, NEW X, NEW t, NEW p \in Priorities
  PROVE  LET Y == promoteExpiredLocked(E, X, t).index
         IN  \/ Y.views[p].all.cursor = X.views[p].all.cursor
             \/ Y.views[p].all.cursor = normalizeCursor(X.views[p].all.cursor,
                                                        Len(Y.views[p].all.flat))
<1> DEFINE F == [i \in DOMAIN E |-> IF i \in Due(E, X, t) THEN scheduledAuth(E[i].auth, t) ELSE E[i]]
<1>1. promoteExpiredLocked(E, X, t).index \in {X, rebuildIndexesLocked(F, X)}
  BY DEF promoteExpiredLocked
<1> HIDE DEF F
<1>2. LET Z == rebuildIndexesLocked(F, X)
      IN  Z.views[p].all.cursor = normalizeCursor(X.views[p].all.cursor, Len(Z.views[p].all.flat))
  BY DEF rebuildIndexesLocked, restoreReadyViewCursors
<1> HIDE DEF normalizeCursor
<1> QED BY <1>1, <1>2

\* What a pick of a whole round does: cursor and answer.
LEMMA WholePick ==
  ASSUME ShardInv, NEW r \in Requests, RoundRobinPick(r), WholeRound(r)
  PROVE  \E p \in Priorities :
           LET v == index.views[p].all
               n == Len(v.flat)
               pos == (v.cursor % n) + 1
           IN  /\ n # 0
               /\ index'.views[p].all.flat = v.flat /\ index'.views[p].all.cursor = pos
               /\ last'.id = v.flat[pos]
               /\ entries'[last'.id].auth.prio = p
<1> DEFINE s == pickSingle(entries, index, now, r)
           F == promoteExpiredLocked(entries, index, now).entries
           Y == promoteExpiredLocked(entries, index, now).index
           p == highestReadyPriorityLocked(Y, r)
           kind == ViewKind(Y, p, r)
           view == Y.views[p][kind]
           picked == pickReadyAtPriorityLocked(view, r)
<1>1. /\ entries' = s.entries /\ index' = s.index /\ now' = now
      /\ last'.kind = s.kind /\ last'.id = s.id /\ s.kind = "auth"
      /\ r.allowed = Ids /\ ~r.ws /\ r.strategy = "roundRobin" /\ entries' = entries
  BY DEF RoundRobinPick, pick, WholeRound
<1>2. now \in Nat /\ Honest(entries, now) /\ Matches(entries, index) /\ Cursors(index)
  <2>1. now \in Nat BY TimeAssumption DEF ShardInv
  <2> QED BY <2>1 DEF ShardInv, Matches, IndexMatchesEntries
<1>3. HasReady(Y, r)
  <2> SUFFICES ASSUME ~HasReady(Y, r) PROVE FALSE OBVIOUS
  <2>1. s.kind = unavailableErrorLocked(F, r).kind BY DEF pickSingle
  <2>2. unavailableErrorLocked(F, r).kind \in {"cooldown", "unavailable", "notFound"}
    BY DEF unavailableErrorLocked
  <2> HIDE DEF s, F, Y
  <2> QED BY <1>1, <2>1, <2>2
<1>4. s = [entries |-> F, index |-> moveCursor(Y, p, kind, picked.cursor),
           kind |-> "auth", id |-> view.flat[picked.pos], at |-> 0]
  BY <1>3 DEF pickSingle
<1>5. F = entries
  <2> HIDE DEF s, F, Y, p, kind, view, picked
  <2> QED BY <1>1, <1>4
<1>6. Matches(entries, Y) /\ Cursors(Y) /\ DOMAIN entries \subseteq Ids
  BY <1>2, <1>5, PromoteMatches, PromoteCursors DEF Honest
<1>7. kind = "all" BY <1>1 DEF ViewKind
<1>8. p \in Priorities /\ Matching(Y.views[p]["all"], Ids) # {}
  <2> DEFINE AP == ReadyPriorities(Y, "all", Ids)
  <2>1. AP # {} /\ AP \subseteq Priorities BY <1>1, <1>3 DEF HasReady, ReadyPriorities
  <2>2. p = Max(AP) BY <1>1 DEF highestReadyPriorityLocked
  <2>3. Max(AP) \in AP
    <3> HIDE DEF AP
    <3> QED BY <2>1, PrioritiesAssumption, FS_Subset, MaxIsGreatest
  <2> HIDE DEF p
  <2> QED BY <2>2, <2>3 DEF ReadyPriorities
<1> HIDE DEF s, F, Y, p, kind
<1> DEFINE S == ReadySet(entries, p, FALSE)
           v == index.views[p].all
<1>9. /\ view = Y.views[p].all
      /\ view.flat = Sorted(S) /\ v.flat = Sorted(S)
  BY <1>2, <1>6, <1>7, <1>8 DEF Matches, buildReadyView
<1>10. S \subseteq Ids /\ \A i \in S : entries[i].auth.prio = p BY <1>6 DEF ReadySet
<1>11. /\ Len(view.flat) \in Nat /\ \A k \in 1 .. Len(view.flat) : view.flat[k] \in S
  <2> HIDE DEF S, view
  <2> QED BY <1>9, <1>10, SortedView
<1>12. Len(view.flat) # 0
  <2>1. Matching(view, Ids) # {} BY <1>7, <1>8
  <2> HIDE DEF view
  <2> QED BY <2>1, <1>11 DEF Matching
<1>13. view.cursor \in 0 .. Len(view.flat) /\ v.cursor \in 0 .. Len(v.flat)
  BY <1>2, <1>6, <1>8, <1>9 DEF Cursors
<1> DEFINE n == Len(view.flat)
           pos == (view.cursor % n) + 1
<1>14. picked.pos = pos /\ picked.cursor = pos
  <2> HIDE DEF S, view
  <2>1. picked = pickRoundRobin(view, Ids)
    BY <1>1 DEF pickReadyAtPriorityLocked
  <2> HIDE DEF picked
  <2> QED BY <1>10, <1>11, <1>12, <1>13, <2>1, RoundRobinTakesNext
<1>15. pos \in 1 .. n
  <2> HIDE DEF view, S
  <2>0. view.cursor \in Nat BY <1>11, <1>13
  <2>1. view.cursor % n \in 0 .. n - 1 BY <1>11, <1>12, <2>0, RemainderRange
  <2> QED BY <1>11, <2>1
<1>16. view.cursor % n = v.cursor % n
  <2>1. view.cursor = v.cursor \/ view.cursor = normalizeCursor(v.cursor, n)
    <3>1. \/ Y.views[p].all.cursor = v.cursor
          \/ Y.views[p].all.cursor = normalizeCursor(v.cursor, Len(Y.views[p].all.flat))
      BY <1>8, PromoteKeepsCursor, Zenon DEF Y
    <3> HIDE DEF view, v
    <3> QED BY <1>9, <3>1
  <2>2. normalizeCursor(v.cursor, n) = v.cursor % n
    <3> HIDE DEF view, v
    <3> QED BY <1>11, <1>12 DEF normalizeCursor
  <2>3. Len(v.flat) = n BY <1>9, Zenon
  <2> HIDE DEF view, v, n
  <2>4. ASSUME NEW x \in 0 .. n, n \in Nat, n # 0 PROVE (x % n) % n = x % n
    BY <2>4
  <2>5. n \in Nat /\ n # 0 BY <1>11, <1>12 DEF n
  <2> QED BY <1>13, <2>1, <2>2, <2>3, <2>4, <2>5
<1>17. /\ index'.views[p].all.flat = view.flat /\ index'.views[p].all.cursor = picked.cursor
       /\ last'.id = view.flat[picked.pos]
  <2> HIDE DEF view, picked
  <2>1. index' = moveCursor(Y, p, kind, picked.cursor) /\ last'.id = view.flat[picked.pos]
    BY <1>1, <1>4
  <2> QED BY <1>7, <1>8, <1>9, <2>1 DEF moveCursor
<1>18. entries'[last'.id].auth.prio = p
  <2> HIDE DEF view, picked, S, n
  <2> QED BY <1>1, <1>10, <1>11, <1>14, <1>15, <1>17 DEF n
<1>19. Len(v.flat) = n /\ view.flat = v.flat BY <1>9, Zenon
<1> HIDE DEF view, v, picked, S, n
<1>20. /\ Len(v.flat) # 0
       /\ index'.views[p].all.flat = v.flat
       /\ index'.views[p].all.cursor = (v.cursor % Len(v.flat)) + 1
       /\ last'.id = v.flat[(v.cursor % Len(v.flat)) + 1]
  BY <1>12, <1>14, <1>16, <1>17, <1>19 DEF n
<1> QED BY <1>8, <1>18, <1>20 DEF v

\* A whole-round pick passes the others over once more and gives the picked
\* credential its turn.
LEMMA WholeRoundTurns ==
  ASSUME RotationInv, NEW r \in Requests, RoundRobinPick(r), WholeRound(r)
  PROVE  passed' \in [Ids -> Nat] /\ \A i \in Ids : Turn(i)'
<1>1. ShardInv /\ passed \in [Ids -> Nat] /\ \A i \in Ids : Turn(i) BY DEF RotationInv
<1>2. PICK p \in Priorities :
           LET v == index.views[p].all
               n == Len(v.flat)
               pos == (v.cursor % n) + 1
           IN  /\ n # 0
               /\ index'.views[p].all.flat = v.flat /\ index'.views[p].all.cursor = pos
               /\ last'.id = v.flat[pos]
               /\ entries'[last'.id].auth.prio = p
  BY <1>1, WholePick
<1> DEFINE v == index.views[p].all
           n == Len(v.flat)
           pos == (v.cursor % n) + 1
           S == ReadySet(entries, p, FALSE)
<1>3. entries' = entries
  BY DEF WholeRound
<1>4. passed' = [i \in Ids |-> IF i \in S \ {last'.id} THEN passed[i] + 1 ELSE 0]
  BY <1>2, <1>3 DEF RoundRobinPick
<1>5. DOMAIN entries \subseteq Ids /\ v.flat = Sorted(S) /\ v.cursor \in 0 .. n
  BY <1>1 DEF ShardInv, Honest, IndexMatchesEntries, Cursors, buildReadyView
<1>6. S \subseteq DOMAIN entries /\ S \subseteq Ids /\ \A i \in S : entries[i].auth.prio = p
  BY <1>5 DEF ReadySet
<1>7. n \in Nat /\ \A i \in S : \E k \in 1 .. n : v.flat[k] = i
  <2> HIDE DEF v, S
  <2> QED BY <1>5, <1>6, SortedView
<1> HIDE DEF S
<1>8. n # 0 /\ index'.views[p].all.flat = v.flat /\ index'.views[p].all.cursor = pos
      /\ last'.id = v.flat[pos]
  BY <1>2
<1>9. passed' \in [Ids -> Nat]
  BY <1>1, <1>4
<1>10. ASSUME NEW i \in Ids, passed'[i] > 0
       PROVE  /\ i \in DOMAIN entries /\ entries[i].auth.prio = p
              /\ \E k \in 1 .. n : v.flat[k] = i /\ passed'[i] <= Distance(pos, k, n)
  <2>1. i \in S /\ i # last'.id /\ passed'[i] = passed[i] + 1
    BY <1>4, <1>10
  <2>2. \E k \in 1 .. n : v.flat[k] = i /\ passed[i] <= Distance(v.cursor, k, n)
    <3>1. CASE passed[i] > 0
      <4>1. entries[i].auth.prio = p BY <1>6, <2>1
      <4>2. \E k \in 1 .. Len(index.views[p].all.flat) :
              /\ index.views[p].all.flat[k] = i
              /\ passed[i] <= Distance(index.views[p].all.cursor, k, Len(index.views[p].all.flat))
        BY <1>1, <3>1, <4>1 DEF Turn
      <4> QED BY <4>2
    <3>2. CASE ~(passed[i] > 0)
      <4>1. passed[i] = 0 BY <1>1, <3>2
      <4>2. PICK k \in 1 .. n : v.flat[k] = i BY <1>7, <2>1
      <4>3. Distance(v.cursor, k, n) \in 0 .. n - 1
        <5> HIDE DEF n, v
        <5> QED BY <1>5, <1>7, <1>8, DistanceGrows
      <4> HIDE DEF n, v
      <4>4. 0 <= Distance(v.cursor, k, n) BY <1>7, <4>3
      <4> QED BY <4>1, <4>2, <4>4
    <3> QED BY <3>1, <3>2
  <2>3. PICK k \in 1 .. n : v.flat[k] = i /\ passed[i] <= Distance(v.cursor, k, n)
    BY <2>2
  <2> HIDE DEF n, v
  <2>4. k # pos BY <1>8, <2>1, <2>3
  <2>5. Distance(pos, k, n) = Distance(v.cursor, k, n) + 1 /\ Distance(v.cursor, k, n) \in 0 .. n - 1
    BY <1>5, <1>7, <1>8, <2>4, DistanceGrows
  <2> HIDE DEF pos
  <2>6. passed'[i] <= Distance(pos, k, n)
    <3>1. passed[i] \in Nat BY <1>1
    <3> QED BY <1>7, <2>1, <2>3, <2>5, <3>1
  <2> QED BY <1>6, <2>1, <2>3, <2>6
<1>11. ASSUME NEW i \in Ids PROVE Turn(i)'
  <2> SUFFICES ASSUME passed'[i] > 0
               PROVE  LET q == entries'[i].auth.prio
                          w == index'.views[q].all
                      IN  /\ i \in DOMAIN entries' /\ q \in Priorities
                          /\ \E k \in 1 .. Len(w.flat) :
                               w.flat[k] = i /\ passed'[i] <= Distance(w.cursor, k, Len(w.flat))
    BY DEF Turn
  <2>1. /\ i \in DOMAIN entries /\ entries[i].auth.prio = p
        /\ \E k \in 1 .. n : v.flat[k] = i /\ passed'[i] <= Distance(pos, k, n)
    BY <1>10
  <2> DEFINE w == index'.views[p].all
  <2>2. w.flat = v.flat /\ w.cursor = pos /\ Len(w.flat) = n
    BY <1>8
  <2> HIDE DEF v, n, pos, w
  <2>3. \E k \in 1 .. Len(w.flat) : w.flat[k] = i /\ passed'[i] <= Distance(w.cursor, k, Len(w.flat))
    BY <2>1, <2>2
  <2> QED BY <1>3, <2>1, <2>3 DEF w
<1> QED BY <1>9, <1>11

\* The rotation starts with nobody passed over.
LEMMA RotationInitial == RotationInit => RotationInv
<1> SUFFICES ASSUME RotationInit PROVE RotationInv OBVIOUS
<1>1. ShardInv BY InitShard DEF RotationInit
<1>2. passed = [i \in Ids |-> 0] BY DEF RotationInit, NonePassed
<1> QED BY <1>1, <1>2 DEF RotationInv, Turn

\* The invariant of the rotation is inductive; all steps but the picks of a
\* whole round start a new round.
LEMMA RotationStep == RotationInv /\ [RotationNext]_rotationVars => RotationInv'
<1> SUFFICES ASSUME RotationInv, [RotationNext]_rotationVars PROVE RotationInv' OBVIOUS
<1>1. [Next]_vars
  BY DEF RotationNext, RoundRobinPick, OtherStep, Next, rotationVars
<1>2. ShardInv' BY <1>1, NextShard DEF RotationInv
<1>3. ASSUME passed' = NonePassed PROVE RotationInv'
  BY <1>2, <1>3 DEF RotationInv, Turn, NonePassed
<1>4. ASSUME NEW r \in Requests, RoundRobinPick(r) PROVE RotationInv'
  <2>1. CASE WholeRound(r)
    BY <1>2, <1>4, <2>1, WholeRoundTurns DEF RotationInv
  <2>2. CASE ~WholeRound(r)
    BY <1>3, <1>4, <2>2 DEF RoundRobinPick
  <2> QED BY <2>1, <2>2
<1>5. CASE OtherStep
  BY <1>3, <1>5 DEF OtherStep
<1>6. CASE UNCHANGED rotationVars
  <2>1. passed' = passed /\ entries' = entries /\ index' = index
    BY <1>6 DEF rotationVars, vars
  <2> QED BY <1>2, <2>1 DEF RotationInv, Turn
<1> QED BY <1>4, <1>5, <1>6 DEF RotationNext

\* For any number of credentials: as long as the shard does not change,
\* unrestricted round-robin picks pass over no ready credential for a whole round.
THEOREM RotationCoversAllHolds == RotationSpec => []RotationCoversAll
<1>1. RotationInv => RotationCoversAll
  <2> SUFFICES ASSUME RotationInv, NEW i \in Ids, passed[i] > 0
               PROVE  passed[i] < Cardinality(ReadySet(entries, entries[i].auth.prio, FALSE))
    BY DEF RotationCoversAll
  <2> DEFINE p == entries[i].auth.prio
             v == index.views[p].all
             S == ReadySet(entries, p, FALSE)
             n == Len(v.flat)
  <2>1. /\ p \in Priorities
        /\ \E k \in 1 .. n : v.flat[k] = i /\ passed[i] <= Distance(v.cursor, k, n)
    BY DEF RotationInv, Turn
  <2>2. v.flat = Sorted(S) /\ v.cursor \in 0 .. n /\ S \subseteq Ids
    BY <2>1 DEF RotationInv, ShardInv, Honest, IndexMatchesEntries, Cursors, buildReadyView, ReadySet
  <2>3. n = Cardinality(S) /\ n \in Nat
    <3> HIDE DEF S, v
    <3>1. S \subseteq Nat /\ IsFiniteSet(S) BY <2>2, IdsAssumption, FS_Subset
    <3>2. Lists(Sorted(S), S) BY <3>1, SortedLists
    <3>3. Cardinality(S) \in Nat BY <3>1, FS_CardinalityType
    <3> QED BY <2>2, <3>2, <3>3 DEF Lists
  <2>4. passed[i] \in Nat BY DEF RotationInv
  <2> HIDE DEF p, v, S, n
  <2>5. PICK k \in 1 .. n : passed[i] <= Distance(v.cursor, k, n)
    BY <2>1
  <2>6. n # 0 BY <2>3, <2>5
  <2>7. Distance(v.cursor, k, n) \in 0 .. n - 1
    BY <2>2, <2>3, <2>6, DistanceGrows
  <2>8. passed[i] < n BY <2>3, <2>4, <2>5, <2>7
  <2> QED BY <2>3, <2>8 DEF p, S
<1>2. RotationSpec => []RotationInv
  BY RotationInitial, RotationStep, PTL DEF RotationSpec
<1> QED BY <1>1, <1>2, PTL

-----------------------------------------------------------------------------
(***************************************************************************)
(* The scheduler's copy of the credentials: shard and metadata agree, and  *)
(* what the service has deleted or disabled is not offered any more.       *)
(***************************************************************************)

\* The scheduler believes that credential i has models.
Supported(i) == i \in DOMAIN metas /\ metas[i].supports

\* A shard that does not exist has no entries.
NoShard == ~built => entries = <<>>

\* While the service adds or updates a credential, only management can have
\* taken it away.
AddedOrErased ==
  svc.pc \in {"update", "upsert", "models", "reconcile", "reupsert", "refresh", "refreshUpsert"}
    => svc.id \in DOMAIN auths \/ svc.id \in erased

\* While it removes one, the models are unregistered.
RemovedHasNoModels == svc.pc \in {"remove", "unschedule"} => svc.id \notin registered

\* A credential that the service has removed, or never had, has no models.
AbsentIsUnsupported ==
  \A i \in Ids : i \notin DOMAIN auths /\ i \notin erased =>
    /\ i \notin registered
    /\ Supported(i) => svc.pc = "unschedule" /\ svc.id = i

\* The scheduler is behind the registry only while the service is about to
\* tell it.
StaleIsBeingCleared ==
  \A i \in Ids : i \notin registered /\ Supported(i) /\ i \notin erased =>
    /\ svc.id = i
    /\ svc.pc \in {"upsert", "reconcile", "reupsert", "refresh", "refreshUpsert",
                   "remove", "unschedule"}

\* The scheduler's two copies agree.
InStep == ShardMatchesMetas /\ NoShard

\* The inductive invariant.
SyncInv ==
  /\ InStep
  /\ AddedOrErased /\ RemovedHasNoModels /\ AbsentIsUnsupported /\ StaleIsBeingCleared

-----------------------------------------------------------------------------
(***************************************************************************)
(* The scheduler's operations.                                             *)
(***************************************************************************)

\* removeAuthLocked takes the credential out of both copies.
LEMMA RemoveTold ==
  ASSUME NEW i, InStep, removeAuthLocked(i)
  PROVE  /\ InStep'
         /\ \A j : Supported(j)' => j # i /\ Supported(j)
<1>1. /\ metas' = without(metas, i) /\ built' = built
      /\ entries' = removeEntryLocked(entries, index, i).entries
  BY DEF removeAuthLocked
<1>2. entries' = IF i \in DOMAIN entries THEN without(entries, i) ELSE entries
  BY <1>1 DEF removeEntryLocked
<1>3. \A j : Supported(j)' => j # i /\ Supported(j)
  BY <1>1 DEF Supported, without
<1>4. NoShard'
  BY <1>1, <1>2 DEF InStep, NoShard
<1>5. ASSUME built PROVE ShardMatchesMetas'
  <2>1. /\ DOMAIN entries = {j \in DOMAIN metas : metas[j].supports}
        /\ \A j \in DOMAIN entries : entries[j].auth = metas[j].auth
    BY <1>5 DEF InStep, ShardMatchesMetas
  <2>2. /\ DOMAIN metas' = DOMAIN metas \ {i}
        /\ \A j \in DOMAIN metas' : metas'[j] = metas[j]
    BY <1>1 DEF without
  <2>3. /\ DOMAIN entries' = DOMAIN entries \ {i}
        /\ \A j \in DOMAIN entries' : entries'[j] = entries[j]
    BY <1>2 DEF without
  <2>4. DOMAIN entries' = {j \in DOMAIN metas' : metas'[j].supports}
    BY <2>1, <2>2, <2>3
  <2>5. ASSUME NEW j \in DOMAIN entries' PROVE entries'[j].auth = metas'[j].auth
    BY <2>1, <2>2, <2>3, <2>5
  <2> QED BY <2>4, <2>5 DEF ShardMatchesMetas
<1> QED BY <1>1, <1>3, <1>4, <1>5 DEF InStep, ShardMatchesMetas

\* upsertAuthLocked brings the credential up to date in both copies: it is
\* offered only if the model registry has models of it at that moment.
LEMMA UpsertTold ==
  ASSUME NEW i, NEW a, InStep, upsertAuthLocked(i, a)
  PROVE  /\ InStep'
         /\ \A j : Supported(j)' => \/ j # i /\ Supported(j)
                                    \/ j = i /\ i \in registered
<1>1. CASE Disabled(a)
  BY <1>1, RemoveTold DEF upsertAuthLocked
<1>2. CASE ~Disabled(a)
  <2>1. /\ metas' = with(metas, i, [auth |-> a, supports |-> i \in registered])
        /\ built' = built
    BY <1>2 DEF upsertAuthLocked
  <2>2. /\ DOMAIN metas' = DOMAIN metas \union {i}
        /\ metas'[i].auth = a /\ (metas'[i].supports <=> i \in registered)
        /\ \A j \in DOMAIN metas : j # i => metas'[j] = metas[j]
    BY <2>1 DEF with
  <2>3. \A j : Supported(j)' => \/ j # i /\ Supported(j)
                                \/ j = i /\ i \in registered
    BY <2>2 DEF Supported
  <2>4. CASE ~built
    <3>1. entries' = entries
      BY <1>2, <2>4 DEF upsertAuthLocked
    <3> QED BY <2>1, <2>3, <2>4, <3>1 DEF InStep, NoShard, ShardMatchesMetas
  <2>5. CASE built
    <3>1. /\ DOMAIN entries = {j \in DOMAIN metas : metas[j].supports}
          /\ \A j \in DOMAIN entries : entries[j].auth = metas[j].auth
      BY <2>5 DEF InStep, ShardMatchesMetas
    <3>2. CASE i \in registered
      <4>1. entries' = with(entries, i, scheduledAuth(a, now))
        BY <1>2, <2>5, <3>2 DEF upsertAuthLocked, upsertEntryLocked
      <4>2. scheduledAuth(a, now).auth = a
        BY DEF scheduledAuth
      <4>3. /\ DOMAIN entries' = DOMAIN entries \union {i}
            /\ entries'[i].auth = a
            /\ \A j \in DOMAIN entries : j # i => entries'[j] = entries[j]
        BY <4>1, <4>2 DEF with
      <4>4. DOMAIN entries' = {j \in DOMAIN metas' : metas'[j].supports}
        BY <2>2, <3>1, <3>2, <4>3
      <4>5. \A j \in DOMAIN entries' : entries'[j].auth = metas'[j].auth
        BY <2>2, <3>1, <4>3
      <4> QED BY <2>1, <2>3, <2>5, <4>4, <4>5 DEF InStep, NoShard, ShardMatchesMetas
    <3>3. CASE i \notin registered
      <4>1. entries' = removeEntryLocked(entries, index, i).entries
        BY <1>2, <2>5, <3>3 DEF upsertAuthLocked
      <4>2. entries' = IF i \in DOMAIN entries THEN without(entries, i) ELSE entries
        BY <4>1 DEF removeEntryLocked
      <4>3. /\ DOMAIN entries' = DOMAIN entries \ {i}
            /\ \A j \in DOMAIN entries' : entries'[j] = entries[j]
        BY <4>2 DEF without
      <4>4. DOMAIN entries' = {j \in DOMAIN metas' : metas'[j].supports}
        BY <2>2, <3>1, <3>3, <4>3
      <4>5. \A j \in DOMAIN entries' : entries'[j].auth = metas'[j].auth
        BY <2>2, <3>1, <4>3
      <4> QED BY <2>1, <2>3, <2>5, <4>4, <4>5 DEF InStep, NoShard, ShardMatchesMetas
    <3> QED BY <3>2, <3>3
  <2> QED BY <2>4, <2>5
<1> QED BY <1>1, <1>2

\* A rebuild forgets the shard and asks the registry for every credential.
LEMMA RebuildTold ==
  ASSUME NEW snapshot, rebuild(snapshot)
  PROVE  /\ InStep'
         /\ \A j : Supported(j)' => j \in registered
BY DEF rebuild, InStep, NoShard, ShardMatchesMetas, Supported

\* A pick promotes entries, and neither adds, drops nor replaces one.
LEMMA PickKeeps ==
  ASSUME NEW E, NEW X, NEW t, NEW r
  PROVE  /\ DOMAIN pickSingle(E, X, t, r).entries = DOMAIN E
         /\ \A i \in DOMAIN E : pickSingle(E, X, t, r).entries[i].auth = E[i].auth
<1>1. pickSingle(E, X, t, r).entries = promoteExpiredLocked(E, X, t).entries
  BY DEF pickSingle
<1>2. PICK due : promoteExpiredLocked(E, X, t).entries =
        [i \in DOMAIN E |-> IF i \in due THEN scheduledAuth(E[i].auth, t) ELSE E[i]]
  BY DEF promoteExpiredLocked
<1>3. \A a : scheduledAuth(a, t).auth = a
  BY DEF scheduledAuth
<1> QED BY <1>1, <1>2, <1>3

\* A pick builds the shard from the metadata if there is none.
LEMMA PickTold ==
  ASSUME NEW r, InStep, metas' = metas, built' = TRUE,
         entries' = pickSingle(ensureModelLocked.entries, ensureModelLocked.index, now, r).entries
  PROVE  /\ InStep'
         /\ \A j : Supported(j)' <=> Supported(j)
<1> DEFINE E == ensureModelLocked.entries
<1>1. /\ DOMAIN E = {j \in DOMAIN metas : metas[j].supports}
      /\ \A j \in DOMAIN E : E[j].auth = metas[j].auth
  <2>1. CASE built
    BY <2>1 DEF ensureModelLocked, InStep, ShardMatchesMetas
  <2>2. CASE ~built
    <3>1. E = [i \in {j \in DOMAIN metas : metas[j].supports} |-> scheduledAuth(metas[i].auth, now)]
      BY <2>2 DEF ensureModelLocked
    <3>2. \A a : scheduledAuth(a, now).auth = a
      BY DEF scheduledAuth
    <3> QED BY <3>1, <3>2
  <2> QED BY <2>1, <2>2
<1>2. /\ DOMAIN entries' = DOMAIN E
      /\ \A j \in DOMAIN E : entries'[j].auth = E[j].auth
  BY PickKeeps
<1> HIDE DEF E
<1>3. ShardMatchesMetas' /\ NoShard'
  BY <1>1, <1>2 DEF ShardMatchesMetas, NoShard
<1> QED BY <1>3 DEF InStep, Supported

-----------------------------------------------------------------------------
(***************************************************************************)
(* The actions.                                                            *)
(***************************************************************************)

\* A step that leaves the scheduler alone leaves its copies in step.
LEMMA SchedulerAlone ==
  ASSUME InStep, UNCHANGED <<metas, built, entries>>
  PROVE  InStep' /\ \A j : Supported(j)' <=> Supported(j)
BY DEF InStep, ShardMatchesMetas, NoShard, Supported

\* A change in place reaches both copies, or none.
LEMMA MutateTold ==
  ASSUME NEW i, NEW a, InStep, mutate(i, a)
  PROVE  InStep' /\ \A j : Supported(j)' <=> Supported(j)
<1>1. /\ DOMAIN metas' = DOMAIN metas /\ DOMAIN entries' = DOMAIN entries /\ built' = built
      /\ \A j \in DOMAIN metas : metas'[j].supports = metas[j].supports
      /\ ~(i \in shared) => /\ \A j \in DOMAIN metas : metas'[j] = metas[j]
                            /\ \A j \in DOMAIN entries : entries'[j] = entries[j]
      /\ i \in shared =>
           /\ \A j \in DOMAIN metas : metas'[j].auth = IF j = i THEN a ELSE metas[j].auth
           /\ \A j \in DOMAIN entries : entries'[j].auth = IF j = i THEN a ELSE entries[j].auth
  BY DEF mutate
<1>2. NoShard'
  <2>1. entries = <<>> => entries' = <<>> BY DEF mutate
  <2> QED BY <1>1, <2>1 DEF InStep, NoShard
<1>3. ShardMatchesMetas'
  BY <1>1 DEF InStep, ShardMatchesMetas
<1> QED BY <1>1, <1>2, <1>3 DEF InStep, Supported

\* A step that leaves manager and service alone, and after which the scheduler
\* offers a further credential only if it has models.
LEMMA OthersAlone ==
  ASSUME SyncInv, InStep', UNCHANGED <<managerVars, svc>>,
         \A j : Supported(j)' => Supported(j) \/ j \in registered
  PROVE  SyncInv'
<1>1. /\ auths' = auths /\ registered' = registered /\ erased' = erased /\ svc' = svc
  BY DEF managerVars
<1>2. AddedOrErased' /\ RemovedHasNoModels'
  BY <1>1 DEF SyncInv, AddedOrErased, RemovedHasNoModels
<1>3. AbsentIsUnsupported'
  <2> SUFFICES ASSUME NEW i \in Ids, i \notin DOMAIN auths, i \notin erased
               PROVE  i \notin registered /\ (Supported(i)' => svc.pc = "unschedule" /\ svc.id = i)
    BY <1>1 DEF AbsentIsUnsupported
  <2> QED BY DEF SyncInv, AbsentIsUnsupported
<1>4. StaleIsBeingCleared'
  <2> SUFFICES ASSUME NEW i \in Ids, i \notin registered, Supported(i)', i \notin erased
               PROVE  /\ svc.id = i
                      /\ svc.pc \in {"upsert", "reconcile", "reupsert", "refresh",
                                     "refreshUpsert", "remove", "unschedule"}
    BY <1>1 DEF StaleIsBeingCleared
  <2> QED BY DEF SyncInv, StaleIsBeingCleared
<1> QED BY <1>2, <1>3, <1>4 DEF SyncInv

\* The clones of request goroutines, and the picks with their resync.
LEMMA RequestKeeps == SyncInv /\ RequestStep => SyncInv'
<1> SUFFICES ASSUME SyncInv, RequestStep PROVE SyncInv'
  OBVIOUS
<1>1. InStep
  BY DEF SyncInv
<1>2. ASSUME NEW i \in Ids, NEW o, MarkResult(i, o) PROVE SyncInv'
  <2> DEFINE a == resulting(auths[i], o)
  <2>0. mutate(i, a) /\ i \in DOMAIN auths /\ UNCHANGED <<registered, erased>>
        /\ svc' = IF svc.pc = "upsert" /\ svc.id = i THEN [svc EXCEPT !.auth = a] ELSE svc
    BY <1>2 DEF MarkResult
  <2> HIDE DEF a
  <2>1. /\ DOMAIN auths' = DOMAIN auths /\ UNCHANGED <<registered, erased>>
        /\ svc'.pc = svc.pc /\ svc'.id = svc.id
    BY <2>0 DEF mutate, with
  <2>2. InStep' /\ \A j : Supported(j)' <=> Supported(j)
    BY <1>1, <2>0, MutateTold
  <2> QED BY <2>1, <2>2 DEF SyncInv, AddedOrErased, RemovedHasNoModels, AbsentIsUnsupported,
                            StaleIsBeingCleared
<1>3. ASSUME NEW i \in Ids, MarkResultDisabled(i) PROVE SyncInv'
  BY <1>1, <1>3, SchedulerAlone, OthersAlone DEF MarkResultDisabled, schedulerVars
<1>4. ASSUME NEW i \in Ids, ManagementRemove(i) PROVE SyncInv'
  <2>1. /\ DOMAIN auths' = DOMAIN auths \ {i} /\ erased' = erased \union {i}
        /\ UNCHANGED <<registered, metas, built, entries, svc>>
    BY <1>4 DEF ManagementRemove, without
  <2>2. InStep' /\ \A j : Supported(j)' <=> Supported(j)
    BY <1>1, <2>1, SchedulerAlone
  <2> QED BY <2>1, <2>2 DEF SyncInv, AddedOrErased, RemovedHasNoModels, AbsentIsUnsupported,
                            StaleIsBeingCleared
<1>5. ASSUME NEW c \in calls, Deliver(c) PROVE SyncInv'
  <2>1. UNCHANGED <<managerVars, svc>>
    BY <1>5 DEF Deliver
  <2>2. CASE c.op = "upsert"
    <3>1. upsertAuthLocked(c.id, c.auth)
      BY <1>5, <2>2 DEF Deliver
    <3> QED BY <1>1, <2>1, <3>1, UpsertTold, OthersAlone
  <2>3. CASE c.op # "upsert"
    <3>1. removeAuthLocked(c.id)
      BY <1>5, <2>3 DEF Deliver
    <3> QED BY <1>1, <2>1, <3>1, RemoveTold, OthersAlone
  <2> QED BY <2>2, <2>3
<1>6. ASSUME NEW r \in PickRequests, PickFirst(r) PROVE SyncInv'
  <2>1. /\ entries' = pickSingle(ensureModelLocked.entries, ensureModelLocked.index, now, r).entries
        /\ metas' = metas /\ built' = TRUE /\ UNCHANGED <<managerVars, svc>>
    BY <1>6 DEF PickFirst
  <2> QED BY <1>1, <2>1, PickTold, OthersAlone
<1>7. ASSUME snapshotAuths PROVE SyncInv'
  BY <1>1, <1>7, SchedulerAlone, OthersAlone DEF snapshotAuths, schedulerVars
<1>8. ASSUME syncSchedulerFromSnapshot PROVE SyncInv'
  BY <1>8, RebuildTold, OthersAlone DEF syncSchedulerFromSnapshot
<1>9. ASSUME PickRetry PROVE SyncInv'
  <2>1. /\ entries' = pickSingle(ensureModelLocked.entries, ensureModelLocked.index, now,
                                 picker.req).entries
        /\ metas' = metas /\ built' = TRUE /\ UNCHANGED <<managerVars, svc>>
    BY <1>9 DEF PickRetry
  <2> QED BY <1>1, <2>1, PickTold, OthersAlone
<1> QED BY <1>2, <1>3, <1>4, <1>5, <1>6, <1>7, <1>8, <1>9 DEF RequestStep

\* Steps of the service that do not reach the scheduler.
LEMMA ManagerKeeps ==
  ASSUME SyncInv, InStep', \A j : Supported(j)' <=> Supported(j),
         \/ \E i \in Ids : \E a : applyCoreAuthAddOrUpdate(i, a)
         \/ Register \/ Update \/ registerModelsForAuth \/ ReconcileRegistryModelStates
         \/ RefreshSchedulerEntry
         \/ \E i \in Ids : applyCoreAuthRemoval(i)
         \/ RemoveAuth
  PROVE  SyncInv'
<1>1. InStep' /\ \A j : Supported(j)' <=> Supported(j)
  OBVIOUS
<1> USE DEF SyncInv, AddedOrErased, RemovedHasNoModels, AbsentIsUnsupported, StaleIsBeingCleared
<1>2. ASSUME NEW i \in Ids, NEW a, applyCoreAuthAddOrUpdate(i, a) PROVE SyncInv'
  <2>1. /\ svc.pc = "idle" /\ UNCHANGED <<auths, registered, erased>>
        /\ svc'.id = i /\ svc'.pc = IF i \in DOMAIN auths THEN "update" ELSE "register"
    BY <1>2 DEF applyCoreAuthAddOrUpdate, service, managerVars
  <2> QED BY <1>1, <2>1
<1>3. ASSUME Register PROVE SyncInv'
  <2>1. /\ svc.pc = "register" /\ DOMAIN auths' = DOMAIN auths \union {svc.id}
        /\ erased' = erased \ {svc.id} /\ registered' = registered
        /\ svc'.id = svc.id /\ svc'.pc = "upsert"
    BY <1>3 DEF Register, service, with
  <2> QED BY <1>1, <2>1
<1>4. ASSUME Update PROVE SyncInv'
  <2>1. /\ svc.pc = "update" /\ DOMAIN auths' = DOMAIN auths
        /\ erased' = erased /\ registered' = registered /\ svc'.id = svc.id
        /\ svc'.pc = IF svc.id \in DOMAIN auths THEN "upsert" ELSE "models"
    BY <1>4 DEF Update, service, with
  <2> QED BY <1>1, <2>1
<1>5. ASSUME registerModelsForAuth PROVE SyncInv'
  <2>1. /\ svc.pc = "models" /\ UNCHANGED <<auths, erased>>
        /\ registered' = registered \ {svc.id} \/ registered' = registered \union {svc.id}
        /\ svc'.id = svc.id /\ svc'.pc = "reconcile"
    BY <1>5 DEF registerModelsForAuth, service
  <2> QED BY <1>1, <2>1
<1>6. ASSUME ReconcileRegistryModelStates PROVE SyncInv'
  <2>1. /\ svc.pc = "reconcile" /\ DOMAIN auths' = DOMAIN auths
        /\ UNCHANGED <<registered, erased>>
        /\ svc'.id = svc.id /\ svc'.pc \in {"reupsert", "refresh"}
    BY <1>6 DEF ReconcileRegistryModelStates, mutate, service, with
  <2> QED BY <1>1, <2>1
<1>7. ASSUME RefreshSchedulerEntry PROVE SyncInv'
  <2>1. /\ svc.pc = "refresh" /\ UNCHANGED <<auths, registered, erased>>
        /\ IF svc.id \in DOMAIN auths THEN svc'.id = svc.id /\ svc'.pc = "refreshUpsert"
           ELSE svc'.pc = "idle"
    BY <1>7 DEF RefreshSchedulerEntry, service, IdleService, managerVars
  <2> QED BY <1>1, <2>1
<1>8. ASSUME NEW i \in Ids, applyCoreAuthRemoval(i) PROVE SyncInv'
  <2>1. /\ svc.pc = "idle" /\ UNCHANGED <<auths, erased>> /\ registered' = registered \ {i}
        /\ svc'.id = i /\ svc'.pc = "remove"
    BY <1>8 DEF applyCoreAuthRemoval, service
  <2> QED BY <1>1, <2>1
<1>9. ASSUME RemoveAuth PROVE SyncInv'
  <2>1. /\ svc.pc = "remove" /\ UNCHANGED <<registered, erased>>
        /\ IF svc.id \in DOMAIN auths
           THEN DOMAIN auths' = DOMAIN auths \ {svc.id} /\ svc'.id = svc.id /\ svc'.pc = "unschedule"
           ELSE auths' = auths /\ svc'.pc = "idle"
    BY <1>9 DEF RemoveAuth, service, without, IdleService
  <2> QED BY <1>1, <2>1
<1> QED BY <1>2, <1>3, <1>4, <1>5, <1>6, <1>7, <1>8, <1>9

\* Steps of the service at the scheduler.
LEMMA ServiceTells == SyncInv /\ (serviceUpsert \/ serviceUnschedule) => SyncInv'
<1> USE DEF SyncInv, AddedOrErased, RemovedHasNoModels, AbsentIsUnsupported, StaleIsBeingCleared
<1>1. ASSUME SyncInv, serviceUpsert PROVE SyncInv'
  <2>1. /\ svc.pc \in {"upsert", "reupsert", "refreshUpsert"}
        /\ upsertAuthLocked(svc.id, svc.auth)
        /\ UNCHANGED <<auths, registered, erased>>
        /\ svc'.pc = CASE svc.pc = "upsert" -> "models"
                       [] svc.pc = "reupsert" -> "refresh"
                       [] OTHER -> "idle"
        /\ svc.pc # "refreshUpsert" => svc'.id = svc.id
    BY <1>1 DEF serviceUpsert, service, managerVars
  <2>2. InStep' /\ \A j : Supported(j)' => \/ j # svc.id /\ Supported(j)
                                           \/ j = svc.id /\ j \in registered
    BY <1>1, <2>1, UpsertTold
  <2> QED BY <1>1, <2>1, <2>2
<1>2. ASSUME SyncInv, serviceUnschedule PROVE SyncInv'
  <2>1. /\ svc.pc = "unschedule" /\ removeAuthLocked(svc.id)
        /\ UNCHANGED <<auths, registered, erased>> /\ svc'.pc = "idle"
    BY <1>2 DEF serviceUnschedule, IdleService, managerVars
  <2>2. InStep' /\ \A j : Supported(j)' => j # svc.id /\ Supported(j)
    BY <1>2, <2>1, RemoveTold
  <2> QED BY <1>2, <2>1, <2>2
<1> QED BY <1>1, <1>2

\* Nothing is known to anybody at the start.
LEMMA SyncInvInit == SyncInit => SyncInv
BY DEF SyncInit, Init, IdleService, SyncInv, InStep, ShardMatchesMetas, NoShard, AddedOrErased,
       RemovedHasNoModels, AbsentIsUnsupported, StaleIsBeingCleared, Supported

\* The invariant is inductive.
LEMMA SyncInvNext == SyncInv /\ [SyncNext]_syncVars => SyncInv'
<1> SUFFICES ASSUME SyncInv, [SyncNext]_syncVars PROVE SyncInv'
  OBVIOUS
<1>1. CASE ServiceStep
  <2> DEFINE Untold == InStep' /\ \A j : Supported(j)' <=> Supported(j)
  <2>0. ASSUME UNCHANGED <<metas, built, entries>> PROVE Untold
    BY <2>0, SchedulerAlone DEF SyncInv
  <2>1. ASSUME NEW i \in Ids, NEW a, applyCoreAuthAddOrUpdate(i, a) PROVE Untold
    BY <2>0, <2>1 DEF applyCoreAuthAddOrUpdate, schedulerVars
  <2>2. ASSUME Register \/ Update \/ registerModelsForAuth \/ RefreshSchedulerEntry \/ RemoveAuth
        PROVE  Untold
    BY <2>0, <2>2 DEF Register, Update, registerModelsForAuth, RefreshSchedulerEntry, RemoveAuth,
                      schedulerVars
  <2>3. ASSUME NEW i \in Ids, applyCoreAuthRemoval(i) PROVE Untold
    BY <2>0, <2>3 DEF applyCoreAuthRemoval, schedulerVars
  <2>4. ASSUME ReconcileRegistryModelStates PROVE Untold
    <3>1. CASE UNCHANGED schedulerVars BY <2>0, <3>1 DEF schedulerVars
    <3>2. CASE mutate(svc.id, Clean(auths[svc.id])) BY <3>2, MutateTold DEF SyncInv
    <3> QED BY <2>4, <3>1, <3>2 DEF ReconcileRegistryModelStates
  <2> HIDE DEF Untold
  <2>5. ASSUME Untold PROVE InStep' /\ \A j : Supported(j)' <=> Supported(j) BY <2>5 DEF Untold
  <2> QED BY <1>1, <2>1, <2>2, <2>3, <2>4, <2>5, ManagerKeeps, ServiceTells DEF ServiceStep
<1>2. CASE RequestStep
  BY <1>2, RequestKeeps
<1>3. CASE SyncTick \/ UNCHANGED syncVars
  <2>1. UNCHANGED <<metas, built, entries>> /\ UNCHANGED <<managerVars, svc>>
    BY <1>3 DEF SyncTick, Tick, actorVars, syncVars, schedulerVars
  <2> QED BY <2>1, SchedulerAlone, OthersAlone DEF SyncInv
<1> QED BY <1>1, <1>2, <1>3 DEF SyncNext

\* Manager, registry and scheduler agree as far as SyncInv says.
THEOREM SyncInvariance == SyncSpec => []SyncInv
BY SyncInvInit, SyncInvNext, PTL DEF SyncSpec

\* For any credentials, requests and interleaving of clones: the shard holds
\* the credentials of the provider's metadata that have models, with the same
\* snapshots.
THEOREM ShardMatchesMetasHolds == SyncSpec => []ShardMatchesMetas
<1>1. SyncInv => ShardMatchesMetas
  BY DEF SyncInv, InStep
<1> QED BY <1>1, SyncInvariance, PTL

\* For any number of results, resyncs and late removals under way: what the
\* service has deleted or disabled is in no shard once the service has finished.
THEOREM RemovedIsNotOfferedHolds == SyncSpec => []RemovedIsNotOffered
<1>1. SyncInv => RemovedIsNotOffered
  <2> SUFFICES ASSUME SyncInv, NEW i \in Ids \ erased, i \notin registered, svc.pc = "idle"
               PROVE  i \notin DOMAIN entries
    BY DEF RemovedIsNotOffered
  <2>1. ~Supported(i)
    BY DEF SyncInv, StaleIsBeingCleared
  <2>2. CASE built
    BY <2>1, <2>2 DEF SyncInv, InStep, ShardMatchesMetas, Supported
  <2>3. CASE ~built
    BY <2>3 DEF SyncInv, InStep, NoShard
  <2> QED BY <2>2, <2>3
<1> QED BY <1>1, SyncInvariance, PTL
===============================================================================
