----------------------- MODULE CredentialCooldownProofs -----------------------
(***************************************************************************)
(* Theorems about CredentialCooldown, for any models, failures, pauses and *)
(* bounds: types, levels and deadlines, the pause of the whole credential, *)
(* and what a restart brings back from the file.                           *)
(***************************************************************************)
EXTENDS CredentialCooldown, WellFoundedInduction, FiniteSetTheorems, TLAPS

-----------------------------------------------------------------------------
(***************************************************************************)
(* Least and greatest elements.                                            *)
(***************************************************************************)

\* A non-empty set of naturals has a least element.
LEMMA LeastExists ==
  ASSUME NEW S, S \subseteq Nat, S # {}
  PROVE  \E x \in S : \A y \in S : x <= y
<1>1. PICK x \in S : \A y \in S : <<y, x>> \notin OpToRel(<, Nat)
  BY NatLessThanWellFounded, WFMin, Zenon
<1>2. \A m, n \in Nat : m < n => <<m, n>> \in OpToRel(<, Nat) BY DEF OpToRel
<1>3. \A y \in S : ~(y < x) BY <1>1, <1>2, Zenon
<1>4. \A y \in S : x <= y BY <1>3
<1> QED BY <1>4

\* Min is it.
LEMMA MinIsLeast ==
  ASSUME NEW S, S \subseteq Nat, S # {}
  PROVE  Min(S) \in S /\ \A y \in S : Min(S) <= y
<1>1. \E x \in S : \A y \in S : x <= y BY LeastExists
<1> QED BY <1>1, Zenon DEF Min

\* A non-empty bounded set of naturals has a greatest element, the least of
\* its bounds, and Max is it.
LEMMA MaxIsGreatest ==
  ASSUME NEW G \in Nat, NEW S, S \subseteq 0 .. G, S # {}
  PROVE  Max(S) \in S /\ \A y \in S : y <= Max(S)
<1> DEFINE B == {b \in Nat : \A y \in S : y <= b}
<1>1. G \in B OBVIOUS
<1>2. PICK b \in B : \A c \in B : b <= c BY <1>1, LeastExists
<1>3. b \in S
  <2> SUFFICES ASSUME b \notin S PROVE FALSE OBVIOUS
  <2>1. \A y \in S : y \in Nat /\ y < b BY <1>2
  <2>2. b \in Nat /\ b # 0
    <3>1. PICK y \in S : TRUE OBVIOUS
    <3>2. y \in Nat /\ y < b BY <2>1
    <3>3. b \in Nat BY <1>2
    <3> QED BY <3>2, <3>3
  <2>3. b - 1 \in B BY <1>2, <2>1, <2>2
  <2> QED BY <1>2, <2>3
<1>4. \E x \in S : \A y \in S : x >= y BY <1>2, <1>3
<1>5. Max(S) \in S /\ \A y \in S : Max(S) >= y BY <1>4, Zenon DEF Max
<1> QED BY <1>5

\* Of two.
LEMMA MaxOfTwo ==
  ASSUME NEW x \in Nat, NEW y \in Nat
  PROVE  Max({x, y}) \in {x, y} /\ x <= Max({x, y}) /\ y <= Max({x, y})
<1> DEFINE G == IF x <= y THEN y ELSE x
<1>1. G \in Nat /\ {x, y} \subseteq 0 .. G OBVIOUS
<1> HIDE DEF G
<1> QED BY <1>1, MaxIsGreatest

-----------------------------------------------------------------------------
(***************************************************************************)
(* The data, with levels from a set L.                                     *)
(***************************************************************************)
QuotasIn(L) == [ex : BOOLEAN, cred : BOOLEAN, rec : Nat, lvl : L]
StatesIn(L) == [unavail : BOOLEAN, next : Nat, q : QuotasIn(L), err : Errors]
RecordsIn(L) == [model : Places, next : Nat, q : QuotasIn(L), err : Errors]

\* The model states of a credential.
ModelStatesIn(L) == UNION {[M -> StatesIn(L)] : M \in SUBSET Models}

AuthsIn(L) == [unavail : BOOLEAN, next : Nat, q : QuotasIn(L), ms : ModelStatesIn(L)]

\* Levels are naturals up to W, 0 among them.
LevelsUpTo(L, W) == W \in Nat /\ L \subseteq 0 .. W /\ 0 \in L

\* What ModelStatesIn means.
LEMMA ModelStates ==
  ASSUME NEW L, NEW ms
  PROVE  ms \in ModelStatesIn(L) <=>
           DOMAIN ms \subseteq Models /\ ms \in [DOMAIN ms -> StatesIn(L)]
<1> HIDE DEF StatesIn
<1> QED BY DEF ModelStatesIn

\* Wider bounds hold more.
LEMMA Wider ==
  ASSUME NEW L, NEW M, L \subseteq M
  PROVE  /\ QuotasIn(L) \subseteq QuotasIn(M)
         /\ StatesIn(L) \subseteq StatesIn(M)
         /\ RecordsIn(L) \subseteq RecordsIn(M)
         /\ ModelStatesIn(L) \subseteq ModelStatesIn(M)
         /\ AuthsIn(L) \subseteq AuthsIn(M)
<1>2. QuotasIn(L) \subseteq QuotasIn(M) BY DEF QuotasIn
<1>3. StatesIn(L) \subseteq StatesIn(M) BY <1>2 DEF StatesIn
<1>4. RecordsIn(L) \subseteq RecordsIn(M) BY <1>2 DEF RecordsIn
<1>5. ModelStatesIn(L) \subseteq ModelStatesIn(M)
  <2> SUFFICES ASSUME NEW ms \in ModelStatesIn(L) PROVE ms \in ModelStatesIn(M) OBVIOUS
  <2>1. DOMAIN ms \subseteq Models /\ ms \in [DOMAIN ms -> StatesIn(L)] BY ModelStates
  <2>2. ms \in [DOMAIN ms -> StatesIn(M)] BY <1>3, <2>1
  <2> QED BY <2>1, <2>2, ModelStates
<1>6. AuthsIn(L) \subseteq AuthsIn(M) BY <1>2, <1>5 DEF AuthsIn
<1> QED BY <1>2, <1>3, <1>4, <1>5, <1>6

\* The states the program starts from.
LEMMA FreshStates ==
  ASSUME NEW L, 0 \in L
  PROVE  /\ NoQuota \in QuotasIn(L)
         /\ Clean \in StatesIn(L)
         /\ <<>> \in ModelStatesIn(L)
         /\ FreshAuth \in AuthsIn(L)
<1>1. NoQuota \in QuotasIn(L) BY DEF NoQuota, QuotasIn
<1>2. Clean \in StatesIn(L) BY <1>1 DEF Clean, StatesIn, Errors
<1>3. <<>> \in ModelStatesIn(L)
  <2>1. DOMAIN <<>> = {} /\ <<>> \in [{} -> StatesIn(L)] OBVIOUS
  <2> QED BY <2>1, ModelStates
<1>4. FreshAuth \in AuthsIn(L) BY <1>1, <1>3 DEF FreshAuth, AuthsIn
<1> QED BY <1>1, <1>2, <1>3, <1>4

\* Changing the model states of a credential.
LEMMA WithStates ==
  ASSUME NEW L, NEW a \in AuthsIn(L), NEW ms, DOMAIN ms \subseteq Models,
         ms \in [DOMAIN ms -> StatesIn(L)]
  PROVE  [a EXCEPT !.ms = ms] \in AuthsIn(L) /\ [a EXCEPT !.ms = ms].ms = ms
<1>1. ms \in ModelStatesIn(L) BY ModelStates
<1> QED BY <1>1 DEF AuthsIn

\* Reading them.
LEMMA StatesOf ==
  ASSUME NEW L, NEW a \in AuthsIn(L)
  PROVE  /\ DOMAIN a.ms \subseteq Models /\ a.ms \in [DOMAIN a.ms -> StatesIn(L)]
         /\ \A m \in DOMAIN a.ms : a.ms[m] \in StatesIn(L)
<1>1. a.ms \in ModelStatesIn(L) BY DEF AuthsIn
<1>2. DOMAIN a.ms \subseteq Models /\ a.ms \in [DOMAIN a.ms -> StatesIn(L)]
  BY <1>1, ModelStates
<1> QED BY <1>2

-----------------------------------------------------------------------------
(***************************************************************************)
(* The operations on a credential keep its data within the bounds.         *)
(***************************************************************************)

\* Clearing a pause that has passed.
LEMMA SettledIn ==
  ASSUME NEW L, NEW s \in StatesIn(L)
  PROVE  settled(s) \in StatesIn(L) /\ settled(s).q = s.q
<1>1. 0 \in Nat /\ FALSE \in BOOLEAN OBVIOUS
<1>2. [s EXCEPT !.unavail = FALSE, !.next = 0] \in StatesIn(L) BY <1>1, Zenon DEF StatesIn
<1>3. [s EXCEPT !.unavail = FALSE, !.next = 0].q = s.q BY DEF StatesIn
<1> QED BY <1>2, <1>3 DEF settled

\* The aggregation makes no deadline or level of its own.
LEMMA AggregateIn ==
  ASSUME NEW L, NEW W, LevelsUpTo(L, W), NEW a \in AuthsIn(L)
  PROVE  updateAggregatedAvailability(a) \in AuthsIn(L)
<1> DEFINE ms == [m \in DOMAIN a.ms |-> settled(a.ms[m])]
           all == \A m \in DOMAIN ms : Cooling(ms[m])
           exceeded == {m \in DOMAIN ms : ms[m].q.ex}
           recovers == {ms[m].q.rec : m \in exceeded} \ {0}
           q == CASE exceeded # {} ->
                       Quota(Max({a.q.rec} \union IF recovers = {} THEN {} ELSE {Min(recovers)}),
                             Max({ms[m].q.lvl : m \in exceeded}))
                  [] exceeded = {} /\ a.q.ex /\ a.q.rec > now -> a.q
                  [] OTHER -> NoQuota
           next == IF all THEN Min({ms[m].next : m \in DOMAIN ms}) ELSE 0
<1>1. /\ DOMAIN a.ms \subseteq Models
      /\ \A m \in DOMAIN a.ms : a.ms[m] \in StatesIn(L)
      /\ a.q \in QuotasIn(L) /\ a.next \in Nat
  BY StatesOf DEF AuthsIn
<1>2. DOMAIN ms = DOMAIN a.ms /\ \A m \in DOMAIN ms : ms[m] \in StatesIn(L)
  BY <1>1, SettledIn
<1>3. ms \in ModelStatesIn(L)
  <2>1. ms \in [DOMAIN ms -> StatesIn(L)] BY <1>2
  <2> HIDE DEF ms
  <2> QED BY <1>1, <1>2, <2>1, ModelStates
<1> HIDE DEF ms
<1>4. \A m \in DOMAIN ms : ms[m].next \in Nat /\ ms[m].q.rec \in Nat /\ ms[m].q.lvl \in L
  BY <1>2 DEF StatesIn, QuotasIn
<1>5. ASSUME exceeded # {}
      PROVE  /\ Max({a.q.rec} \union IF recovers = {} THEN {} ELSE {Min(recovers)}) \in Nat
             /\ Max({ms[m].q.lvl : m \in exceeded}) \in L
  <2>1. recovers # {} => Min(recovers) \in Nat
    <3>1. recovers \subseteq Nat BY <1>4
    <3> HIDE DEF recovers
    <3> QED BY <3>1, MinIsLeast
  <2>2. a.q.rec \in Nat BY <1>1 DEF QuotasIn
  <2> DEFINE R == {a.q.rec} \union IF recovers = {} THEN {} ELSE {Min(recovers)}
  <2>4. Max(R) \in Nat
    <3> HIDE DEF recovers
    <3>1. PICK y : y = IF recovers = {} THEN a.q.rec ELSE Min(recovers) OBVIOUS
    <3>2. y \in Nat /\ R = {a.q.rec, y} BY <2>1, <2>2, <3>1
    <3> QED BY <2>2, <3>2, MaxOfTwo
  <2> DEFINE V == {ms[m].q.lvl : m \in exceeded}
  <2>5. V \subseteq L /\ V # {} BY <1>4, <1>5
  <2>6. Max(V) \in L
    <3> HIDE DEF V
    <3>1. V \subseteq 0 .. W BY <2>5 DEF LevelsUpTo
    <3> QED BY <2>5, <3>1, MaxIsGreatest DEF LevelsUpTo
  <2> QED BY <2>4, <2>6
<1>6. q \in QuotasIn(L)
  <2>1. NoQuota \in QuotasIn(L) BY FreshStates DEF LevelsUpTo
  <2>2. \A u \in Nat, l \in L : Quota(u, l) \in QuotasIn(L) BY DEF Quota, QuotasIn
  <2>3. CASE exceeded # {}
    <3> HIDE DEF recovers
    <3>1. q = Quota(Max({a.q.rec} \union IF recovers = {} THEN {} ELSE {Min(recovers)}),
                    Max({ms[m].q.lvl : m \in exceeded}))
      BY <2>3, Zenon
    <3> HIDE DEF q, exceeded
    <3> QED BY <1>5, <2>2, <2>3, <3>1
  <2>4. CASE exceeded = {}
    <3>1. q \in {a.q, NoQuota} BY <2>4
    <3> QED BY <1>1, <2>1, <3>1
  <2> QED BY <2>3, <2>4
<1>7. DOMAIN ms # {} => next \in Nat
  <2> SUFFICES ASSUME DOMAIN ms # {} PROVE Min({ms[m].next : m \in DOMAIN ms}) \in Nat
    OBVIOUS
  <2> DEFINE N == {ms[m].next : m \in DOMAIN ms}
  <2>1. N \subseteq Nat /\ N # {} BY <1>4
  <2>2. Nat \subseteq Nat OBVIOUS
  <2> HIDE DEF N
  <2>3. Min(N) \in Nat BY <2>1, <2>2, MinIsLeast
  <2> QED BY <2>3 DEF N
<1>8. updateAggregatedAvailability(a) =
        CASE credentialQuota(a) -> [a EXCEPT !.unavail = TRUE]
          [] ~credentialQuota(a) /\ DOMAIN ms = {} -> clearAggregatedAvailability(a)
          [] OTHER -> [unavail |-> all, next |-> next, q |-> q, ms |-> ms]
  BY DEF updateAggregatedAvailability, ms
<1> HIDE DEF q, next, all
<1>9. all \in BOOLEAN BY DEF all
<1>10. [a EXCEPT !.unavail = TRUE] \in AuthsIn(L) BY DEF AuthsIn
<1>11. clearAggregatedAvailability(a) \in AuthsIn(L)
  <2>1. NoQuota \in QuotasIn(L) BY FreshStates DEF LevelsUpTo
  <2>2. 0 \in Nat /\ FALSE \in BOOLEAN OBVIOUS
  <2>3. [a EXCEPT !.unavail = FALSE, !.next = 0, !.q = NoQuota] \in AuthsIn(L)
    BY <2>1, <2>2, Zenon DEF AuthsIn
  <2> QED BY <2>3 DEF clearAggregatedAvailability
<1>12. DOMAIN ms # {} => [unavail |-> all, next |-> next, q |-> q, ms |-> ms] \in AuthsIn(L)
  BY <1>3, <1>6, <1>7, <1>9 DEF AuthsIn
<1> QED BY <1>8, <1>10, <1>11, <1>12

\* A model gets a state.
LEMMA EnsureIn ==
  ASSUME NEW L, 0 \in L, NEW a \in AuthsIn(L), NEW m \in Models
  PROVE  /\ ensureModelState(a, m) \in AuthsIn(L)
         /\ DOMAIN ensureModelState(a, m).ms = DOMAIN a.ms \union {m}
         /\ \A n \in DOMAIN a.ms : ensureModelState(a, m).ms[n] = a.ms[n]
         /\ m \notin DOMAIN a.ms => ensureModelState(a, m).ms[m] = Clean
         /\ ensureModelState(a, m).unavail = a.unavail
         /\ ensureModelState(a, m).next = a.next /\ ensureModelState(a, m).q = a.q
<1> DEFINE ms == [n \in DOMAIN a.ms \union {m} |-> IF n \in DOMAIN a.ms THEN a.ms[n] ELSE Clean]
<1>1. /\ DOMAIN a.ms \subseteq Models
      /\ \A n \in DOMAIN a.ms : a.ms[n] \in StatesIn(L)
  BY StatesOf
<1>2. Clean \in StatesIn(L) BY FreshStates
<1>3. /\ DOMAIN ms \subseteq Models /\ ms \in [DOMAIN ms -> StatesIn(L)]
      /\ DOMAIN ms = DOMAIN a.ms \union {m} /\ \A n \in DOMAIN a.ms : ms[n] = a.ms[n]
      /\ m \notin DOMAIN a.ms => ms[m] = Clean
  BY <1>1, <1>2
<1>4. ensureModelState(a, m) = [a EXCEPT !.ms = ms] BY DEF ensureModelState
<1> HIDE DEF ms
<1>5. [a EXCEPT !.ms = ms] \in AuthsIn(L) /\ [a EXCEPT !.ms = ms].ms = ms
  BY <1>3, WithStates
<1>6. /\ [a EXCEPT !.ms = ms].unavail = a.unavail
      /\ [a EXCEPT !.ms = ms].next = a.next /\ [a EXCEPT !.ms = ms].q = a.q
  BY DEF AuthsIn
<1> QED BY <1>3, <1>4, <1>5, <1>6

\* A model's state is replaced.
LEMMA SetStateIn ==
  ASSUME NEW L, NEW a \in AuthsIn(L), NEW m \in DOMAIN a.ms,
         NEW s \in StatesIn(L)
  PROVE  /\ [a EXCEPT !.ms[m] = s] \in AuthsIn(L)
         /\ [a EXCEPT !.ms[m] = s].ms = [a.ms EXCEPT ![m] = s]
         /\ [a EXCEPT !.ms[m] = s].unavail = a.unavail
         /\ [a EXCEPT !.ms[m] = s].next = a.next /\ [a EXCEPT !.ms[m] = s].q = a.q
<1> DEFINE ms == [a.ms EXCEPT ![m] = s]
<1>1. /\ DOMAIN a.ms \subseteq Models /\ a.ms \in [DOMAIN a.ms -> StatesIn(L)]
  BY StatesOf
<1>2. DOMAIN ms \subseteq Models /\ ms \in [DOMAIN ms -> StatesIn(L)] BY <1>1
<1>3. [a EXCEPT !.ms[m] = s] = [a EXCEPT !.ms = ms] OBVIOUS
<1> HIDE DEF ms
<1>4. [a EXCEPT !.ms = ms] \in AuthsIn(L) /\ [a EXCEPT !.ms = ms].ms = ms
  BY <1>2, WithStates
<1>5. /\ [a EXCEPT !.ms = ms].unavail = a.unavail
      /\ [a EXCEPT !.ms = ms].next = a.next /\ [a EXCEPT !.ms = ms].q = a.q
  BY DEF AuthsIn
<1> QED BY <1>3, <1>4, <1>5 DEF ms

\* Clearing a cooldown.
LEMMA ClearedIn ==
  ASSUME NEW L, NEW W, LevelsUpTo(L, W)
  PROVE  /\ \A s \in StatesIn(L) : clearedState(s) \in StatesIn(L)
         /\ \A a \in AuthsIn(L) : clearedState(a) \in AuthsIn(L) /\ clearedState(a).ms = a.ms
<1>1. 0 \in Nat /\ FALSE \in BOOLEAN OBVIOUS
<1>2. NoQuota \in QuotasIn(L) BY FreshStates DEF LevelsUpTo
<1>3. ASSUME NEW s \in StatesIn(L) PROVE clearedState(s) \in StatesIn(L)
  <2>1. [s EXCEPT !.unavail = FALSE, !.next = 0, !.q = NoQuota] \in StatesIn(L)
    BY <1>1, <1>2, Zenon DEF StatesIn
  <2> QED BY <2>1 DEF clearedState
<1>4. ASSUME NEW a \in AuthsIn(L)
      PROVE  clearedState(a) \in AuthsIn(L) /\ clearedState(a).ms = a.ms
  <2>1. [a EXCEPT !.unavail = FALSE, !.next = 0, !.q = NoQuota] \in AuthsIn(L)
    BY <1>1, <1>2, Zenon DEF AuthsIn
  <2>2. [a EXCEPT !.unavail = FALSE, !.next = 0, !.q = NoQuota].ms = a.ms BY DEF AuthsIn
  <2> QED BY <2>1, <2>2 DEF clearedState
<1> QED BY <1>3, <1>4

\* Of the whole credential.
LEMMA ClearAllIn ==
  ASSUME NEW L, NEW W, LevelsUpTo(L, W), NEW a \in AuthsIn(L)
  PROVE  clearCooldownStateForAuth(a) \in AuthsIn(L)
<1> DEFINE ms == [m \in DOMAIN a.ms |-> clearedState(a.ms[m])]
           b == [clearedState(a) EXCEPT !.ms = ms]
<1>1. DOMAIN a.ms \subseteq Models /\ \A m \in DOMAIN a.ms : a.ms[m] \in StatesIn(L)
  BY StatesOf
<1>2. DOMAIN ms \subseteq Models /\ ms \in [DOMAIN ms -> StatesIn(L)] BY <1>1, ClearedIn
<1>3. clearedState(a) \in AuthsIn(L) BY ClearedIn
<1>4. clearCooldownStateForAuth(a) =
        IF DOMAIN a.ms = {} THEN b ELSE updateAggregatedAvailability(b)
  BY Zenon DEF clearCooldownStateForAuth
<1> HIDE DEF ms
<1>5. b \in AuthsIn(L) BY <1>2, <1>3, WithStates
<1> HIDE DEF b
<1>6. updateAggregatedAvailability(b) \in AuthsIn(L) BY <1>5, AggregateIn
<1> QED BY <1>4, <1>5, <1>6

\* Every model gets a clean state.
LEMMA ResetIn ==
  ASSUME NEW L, NEW W, LevelsUpTo(L, W), NEW a \in AuthsIn(L), NEW D
  PROVE  /\ [a EXCEPT !.ms = [m \in DOMAIN a.ms |-> Clean]] \in AuthsIn(L)
         /\ [a EXCEPT !.ms = [m \in DOMAIN a.ms |-> IF m \in D THEN Clean ELSE a.ms[m]]]
              \in AuthsIn(L)
<1>1. DOMAIN a.ms \subseteq Models /\ \A m \in DOMAIN a.ms : a.ms[m] \in StatesIn(L)
  BY StatesOf
<1>2. Clean \in StatesIn(L) BY FreshStates DEF LevelsUpTo
<1>3. PICK ms : ms = [m \in DOMAIN a.ms |-> Clean] OBVIOUS
<1>4. DOMAIN ms \subseteq Models /\ ms \in [DOMAIN ms -> StatesIn(L)] BY <1>1, <1>2, <1>3
<1>5. PICK ns : ns = [m \in DOMAIN a.ms |-> IF m \in D THEN Clean ELSE a.ms[m]] OBVIOUS
<1>6. DOMAIN ns \subseteq Models /\ ns \in [DOMAIN ns -> StatesIn(L)] BY <1>1, <1>2, <1>5
<1>7. [a EXCEPT !.ms = ms] \in AuthsIn(L) BY <1>4, WithStates
<1>8. [a EXCEPT !.ms = ns] \in AuthsIn(L) BY <1>6, WithStates
<1> QED BY <1>3, <1>5, <1>7, <1>8

\* A credential-wide quota failure spreads a deadline and a level that are there.
LEMMA ScopeIn ==
  ASSUME NEW L, NEW a \in AuthsIn(L), NEW m \in DOMAIN a.ms
  PROVE  /\ credentialScope(a, m) \in AuthsIn(L)
         /\ credentialScope(a, m).q.ex /\ credentialScope(a, m).q.cred
         /\ credentialScope(a, m).q.rec = credentialScope(a, m).next
<1> DEFINE until == a.ms[m].next
           lvl == a.ms[m].q.lvl
           t(s) == IF s.q.ex THEN Max({until, s.q.rec}) ELSE until
           Spread(s) == [s EXCEPT !.unavail = TRUE, !.next = t(s), !.q = Quota(t(s), lvl)]
           authNext == Max({until, a.q.rec})
           q == [a.q EXCEPT !.ex = TRUE, !.cred = TRUE, !.rec = authNext]
           ms == [n \in DOMAIN a.ms |-> IF n = m THEN a.ms[n] ELSE Spread(a.ms[n])]
<1>1. /\ DOMAIN a.ms \subseteq Models
      /\ \A n \in DOMAIN a.ms : a.ms[n] \in StatesIn(L)
      /\ a.q \in QuotasIn(L)
  BY StatesOf DEF AuthsIn
<1>2. until \in Nat /\ lvl \in L BY <1>1 DEF StatesIn, QuotasIn
<1>3. credentialScope(a, m) = [unavail |-> TRUE, next |-> authNext, q |-> q, ms |-> ms]
  BY Zenon DEF credentialScope
<1> HIDE DEF until, lvl
<1>4. ASSUME NEW n \in DOMAIN a.ms PROVE Spread(a.ms[n]) \in StatesIn(L)
  <2>1. a.ms[n].q.rec \in Nat BY <1>1 DEF StatesIn, QuotasIn
  <2>2. Max({until, a.ms[n].q.rec}) \in Nat BY <1>2, <2>1, MaxOfTwo
  <2>3. t(a.ms[n]) \in Nat BY <1>2, <2>2
  <2> HIDE DEF t
  <2>4. Quota(t(a.ms[n]), lvl) \in QuotasIn(L) BY <1>2, <2>3 DEF Quota, QuotasIn
  <2>5. TRUE \in BOOLEAN OBVIOUS
  <2> QED BY <1>1, <2>3, <2>4, <2>5, Zenon DEF StatesIn
<1>5. authNext \in Nat
  <2>1. a.q.rec \in Nat BY <1>1 DEF QuotasIn
  <2> QED BY <1>2, <2>1, MaxOfTwo
<1> HIDE DEF authNext, Spread
<1>6. q \in QuotasIn(L)
  <2>1. TRUE \in BOOLEAN OBVIOUS
  <2> QED BY <1>1, <1>5, <2>1, Zenon DEF QuotasIn
<1>7. ms \in ModelStatesIn(L)
  <2>1. DOMAIN ms \subseteq Models /\ ms \in [DOMAIN ms -> StatesIn(L)] BY <1>1, <1>4
  <2> HIDE DEF ms
  <2> QED BY <2>1, ModelStates
<1>8. q.ex /\ q.cred /\ q.rec = authNext BY <1>1 DEF QuotasIn
<1> HIDE DEF q, ms
<1>9. credentialScope(a, m) \in AuthsIn(L) BY <1>3, <1>5, <1>6, <1>7 DEF AuthsIn
<1>10. credentialScope(a, m).q = q /\ credentialScope(a, m).next = authNext BY <1>3
<1> QED BY <1>8, <1>9, <1>10

-----------------------------------------------------------------------------
(***************************************************************************)
(* Results.                                                                *)
(***************************************************************************)

\* The pause of the ladder is never longer than BackoffMax, and the level rises
\* by one at most, below the top only.
LEMMA LadderStep ==
  ASSUME NEW l \in Nat
  PROVE  /\ nextQuotaCooldown(l).pause \in 0 .. BackoffMax
         /\ nextQuotaCooldown(l).lvl = IF climbs(l) THEN l + 1 ELSE l
<1>1. BackoffMax \in Nat /\ BackoffBase \in Nat BY CooldownAssumption
<1>2. climbs(l) => backoff(l) \in BackoffBase .. BackoffMax - 1 BY DEF climbs
<1> QED BY <1>1, <1>2 DEF nextQuotaCooldown

\* The window a quota failure leaves open: what the failure calls for, or the
\* window that is open already; the level rises when a window opens.
LEMMA QuotaUntilIn ==
  ASSUME NEW L, NEW K, L \subseteq K, K \subseteq Nat, NEW s \in StatesIn(L),
         NEW f \in Failures, now \in Nat \ {0}, f.kind = "quota", ~coolingOff(f),
         opensWindow(s, f) => \A l \in L : nextQuotaCooldown(l).lvl \in K
  PROVE  quotaUntil(s.q, f).until \in Nat \ {0} /\ quotaUntil(s.q, f).lvl \in K
<1>1. s.q.rec \in Nat /\ s.q.lvl \in L BY DEF StatesIn, QuotasIn
<1>2. f.after \in Nat /\ BackoffMax \in Nat BY CooldownAssumption
<1> DEFINE step == IF f.after > 0 THEN [until |-> now + f.after, lvl |-> s.q.lvl]
                   ELSE quotaCooldownAfterFailure(s.q)
<1>5. \E u \in Nat \ {0}, l \in K : step = [until |-> u, lvl |-> l]
  <2>1. CASE f.after > 0
    <3>1. now + f.after \in Nat \ {0} BY <1>2
    <3> QED BY <1>1, <2>1, <3>1
  <2>2. CASE ~(f.after > 0) /\ s.q.rec > now
    <3>1. step = [until |-> s.q.rec, lvl |-> s.q.lvl] BY <2>2 DEF quotaCooldownAfterFailure
    <3>2. s.q.rec \in Nat \ {0} BY <1>1, <2>2
    <3> HIDE DEF step
    <3> QED BY <1>1, <3>1, <3>2
  <2>3. CASE ~(f.after > 0) /\ ~(s.q.rec > now)
    <3>1. step = [until |-> now + nextQuotaCooldown(s.q.lvl).pause,
                  lvl |-> nextQuotaCooldown(s.q.lvl).lvl]
      BY <2>3 DEF quotaCooldownAfterFailure
    <3>2. opensWindow(s, f) BY <1>1, <1>2, <2>3 DEF opensWindow
    <3>3. nextQuotaCooldown(s.q.lvl).lvl \in K BY <1>1, <3>2
    <3>4. nextQuotaCooldown(s.q.lvl).pause \in 0 .. BackoffMax BY <1>1, LadderStep
    <3> HIDE DEF step
    <3>5. now + nextQuotaCooldown(s.q.lvl).pause \in Nat \ {0} BY <1>2, <3>4
    <3> QED BY <3>1, <3>3, <3>5
  <2> QED BY <2>1, <2>2, <2>3
<1>6. PICK u \in Nat \ {0}, l \in K : step = [until |-> u, lvl |-> l] BY <1>5
<1>7. quotaUntil(s.q, f) = [step EXCEPT !.until = IF s.q.ex THEN Max({@, s.q.rec}) ELSE @]
  BY Zenon DEF quotaUntil
<1> HIDE DEF step
<1>8. Max({u, s.q.rec}) \in Nat \ {0}
  <2>1. u \in Nat /\ s.q.rec \in Nat BY <1>1
  <2>2. Max({u, s.q.rec}) \in {u, s.q.rec} /\ u <= Max({u, s.q.rec}) BY <2>1, MaxOfTwo
  <2> QED BY <2>1, <2>2
<1>9. quotaUntil(s.q, f).until \in {u, Max({u, s.q.rec})} BY <1>6, <1>7
<1>10. quotaUntil(s.q, f).lvl = l BY <1>6, <1>7
<1> QED BY <1>8, <1>9, <1>10

\* And a Cloudflare challenge.
LEMMA CloudflareIn ==
  ASSUME NEW L, NEW K, L \subseteq K, K \subseteq Nat, NEW s \in StatesIn(L),
         NEW f \in Failures, now \in Nat \ {0}, f.kind = "cloudflare", ~coolingOff(f),
         opensWindow(s, f) => \A l \in L : nextQuotaCooldown(l).lvl \in K
  PROVE  /\ nextCloudflareCooldown(s.q).until \in Nat \ {0}
         /\ nextCloudflareCooldown(s.q).lvl \in K
<1>1. s.q.lvl \in L /\ s.q.lvl \in Nat BY DEF StatesIn, QuotasIn
<1>2. CloudflareMin \in Nat /\ BackoffMax \in Nat BY CooldownAssumption
<1>5. PICK p : p = nextQuotaCooldown(s.q.lvl).pause OBVIOUS
<1>6. p \in 0 .. BackoffMax BY <1>1, <1>5, LadderStep
<1>7. Max({p, CloudflareMin}) \in {p, CloudflareMin} BY <1>2, <1>6, MaxOfTwo
<1>8. now + Max({p, CloudflareMin}) \in Nat \ {0} BY <1>2, <1>6, <1>7
<1>9. opensWindow(s, f) BY DEF opensWindow
<1>10. nextQuotaCooldown(s.q.lvl).lvl \in K BY <1>1, <1>9
<1>11. nextCloudflareCooldown(s.q) = [until |-> now + Max({p, CloudflareMin}),
                                      lvl |-> nextQuotaCooldown(s.q.lvl).lvl]
  BY <1>5, Zenon DEF nextCloudflareCooldown
<1> QED BY <1>8, <1>10, <1>11

\* What a failure makes of a model's state.
LEMMA FailedStateIn ==
  ASSUME NEW L, NEW K, L \subseteq K, K \subseteq Nat, NEW s \in StatesIn(L),
         NEW f \in Failures, now \in Nat \ {0}, opensWindow(s, f) => \A l \in L : nextQuotaCooldown(l).lvl \in K
  PROVE  failedState(s, f) \in StatesIn(K)
<1> DEFINE off == coolingOff(f)
           s1 == [s EXCEPT !.unavail = TRUE,
                           !.err = IF f.kind = "unauthorized" THEN "401" ELSE "other"]
           step == CASE off -> [until |-> 0, lvl |-> s.q.lvl]
                     [] ~off /\ f.kind = "quota" -> quotaUntil(s.q, f)
                     [] OTHER -> nextCloudflareCooldown(s.q)
           next == recoverableFailureRetryAfter(f)
           s2 == CASE f.kind = "unsupported" -> [s1 EXCEPT !.next = now + LongPause]
                   [] f.kind \in {"suspend", "unauthorized"} ->
                        [s1 EXCEPT !.next = IF off THEN 0 ELSE now + LongPause]
                   [] f.kind = "transient" -> [s1 EXCEPT !.next = next, !.unavail = next # 0]
                   [] OTHER -> [s1 EXCEPT !.next = step.until, !.q = Quota(step.until, step.lvl)]
           s3 == IF off /\ s2.next = 0 /\ s2.q.rec = 0
                 THEN [s2 EXCEPT !.unavail = FALSE, !.q.ex = FALSE] ELSE s2
<1>1. failedState(s, f) =
        IF f.force /\ s3.next = 0 THEN [s3 EXCEPT !.next = now + ForcePause, !.unavail = TRUE] ELSE s3
  BY Zenon DEF failedState
<1>2. /\ s.next \in Nat /\ s.q \in QuotasIn(K) /\ s.q.lvl \in K
      /\ s \in StatesIn(K) /\ s.q.rec \in Nat
  <2>1. s \in StatesIn(K) BY Wider
  <2> QED BY <2>1 DEF StatesIn, QuotasIn
<1>3. /\ f.after \in Nat /\ f.kind \in Kinds
      /\ {LongPause, Transient, ForcePause, BackoffMax, CloudflareMin} \subseteq Nat
      /\ LongPause # 0
  BY CooldownAssumption
<1>4. s1 \in StatesIn(K)
  <2>1. (IF f.kind = "unauthorized" THEN "401" ELSE "other") \in Errors BY DEF Errors
  <2>2. TRUE \in BOOLEAN OBVIOUS
  <2> QED BY <1>2, <2>1, <2>2, Zenon DEF StatesIn
<1> HIDE DEF s1
<1>5. f.kind \in {"suspend", "unauthorized", "unsupported"} => now + LongPause \in Nat \ {0}
  BY <1>3
<1>6. f.kind = "transient" => next \in Nat /\ now + ForcePause \in Nat \ {0}
  <2> SUFFICES ASSUME f.kind = "transient" PROVE next \in Nat /\ now + ForcePause \in Nat \ {0}
    OBVIOUS
  <2>3. now + Transient \in Nat /\ now + ForcePause \in Nat \ {0} BY <1>3
  <2>4. next \in {0, now + Transient} BY DEF recoverableFailureRetryAfter
  <2> QED BY <2>3, <2>4
<1>7. f.kind \in {"quota", "cloudflare"} =>
        step.until \in Nat /\ step.lvl \in K /\ (~off => step.until # 0)
  <2>1. CASE off
    <3>1. step = [until |-> 0, lvl |-> s.q.lvl] BY <2>1
    <3> QED BY <1>2, <2>1, <3>1
  <2>2. CASE ~off /\ f.kind = "quota"
    <3>1. step = quotaUntil(s.q, f) BY <2>2
    <3>2. quotaUntil(s.q, f).until \in Nat \ {0} /\ quotaUntil(s.q, f).lvl \in K
      BY <2>2, QuotaUntilIn
    <3> HIDE DEF step
    <3> QED BY <3>1, <3>2
  <2>3. CASE ~off /\ f.kind = "cloudflare"
    <3>1. step = nextCloudflareCooldown(s.q) BY <2>3
    <3>2. nextCloudflareCooldown(s.q).until \in Nat \ {0} /\ nextCloudflareCooldown(s.q).lvl \in K
      BY <2>3, CloudflareIn
    <3> HIDE DEF step
    <3> QED BY <3>1, <3>2
  <2> QED BY <2>1, <2>2, <2>3
<1> HIDE DEF next, step
<1>8. s2 \in StatesIn(K) /\ (f.force /\ s2.next = 0 => f.kind = "transient")
  <2>1. CASE f.kind = "unsupported"
    <3>1. s2 = [s1 EXCEPT !.next = now + LongPause] BY <2>1
    <3> QED BY <1>4, <1>5, <2>1, <3>1 DEF StatesIn
  <2>2. CASE f.kind \in {"suspend", "unauthorized"}
    <3>1. s2 = [s1 EXCEPT !.next = IF off THEN 0 ELSE now + LongPause] BY <2>2
    <3>2. f.force => ~off BY DEF coolingOff
    <3>3. PICK n : n = IF off THEN 0 ELSE now + LongPause OBVIOUS
    <3>4. n \in Nat /\ (f.force => n # 0) BY <1>5, <2>2, <3>2, <3>3
    <3> QED BY <1>4, <3>1, <3>3, <3>4 DEF StatesIn
  <2>3. CASE f.kind = "transient"
    <3>1. s2 = [s1 EXCEPT !.next = next, !.unavail = next # 0] BY <2>3
    <3>2. (next # 0) \in BOOLEAN OBVIOUS
    <3>3. [s1 EXCEPT !.next = next, !.unavail = next # 0] \in StatesIn(K)
      BY <1>4, <1>6, <2>3, <3>2, Zenon DEF StatesIn
    <3> QED BY <2>3, <3>1, <3>3
  <2>4. CASE f.kind \in {"quota", "cloudflare"}
    <3>1. s2 = [s1 EXCEPT !.next = step.until, !.q = Quota(step.until, step.lvl)] BY <2>4
    <3>2. Quota(step.until, step.lvl) \in QuotasIn(K) BY <1>7, <2>4 DEF Quota, QuotasIn
    <3>3. [s1 EXCEPT !.next = step.until, !.q = Quota(step.until, step.lvl)] \in StatesIn(K)
      BY <1>4, <1>7, <2>4, <3>2, Zenon DEF StatesIn
    <3>4. s2.next = step.until BY <1>4, <3>1 DEF StatesIn
    <3>5. f.force => ~off BY DEF coolingOff
    <3> QED BY <1>7, <2>4, <3>1, <3>3, <3>4, <3>5
  <2> QED BY <1>3, <2>1, <2>2, <2>3, <2>4 DEF Kinds
<1> HIDE DEF s2
<1>9. s3 \in StatesIn(K) /\ s3.next = s2.next
  <2>1. PICK q : q = [s2.q EXCEPT !.ex = FALSE] OBVIOUS
  <2>2. q \in QuotasIn(K) BY <1>8, <2>1 DEF StatesIn, QuotasIn
  <2>3. FALSE \in BOOLEAN OBVIOUS
  <2>4. [s2 EXCEPT !.unavail = FALSE, !.q = q] \in StatesIn(K)
    BY <1>8, <2>2, <2>3, Zenon DEF StatesIn
  <2>5. [s2 EXCEPT !.unavail = FALSE, !.q = q].next = s2.next BY <1>8 DEF StatesIn
  <2>6. [s2 EXCEPT !.unavail = FALSE, !.q.ex = FALSE] = [s2 EXCEPT !.unavail = FALSE, !.q = q]
    BY <1>8, <2>1 DEF StatesIn
  <2> QED BY <1>8, <2>4, <2>5, <2>6
<1> HIDE DEF s3
<1>10. CASE f.force /\ s3.next = 0
  <2>1. now + ForcePause \in Nat BY <1>6, <1>8, <1>9, <1>10
  <2>2. TRUE \in BOOLEAN OBVIOUS
  <2>3. [s3 EXCEPT !.next = now + ForcePause, !.unavail = TRUE] \in StatesIn(K)
    BY <1>9, <2>1, <2>2, Zenon DEF StatesIn
  <2> QED BY <1>1, <1>10, <2>3
<1> QED BY <1>1, <1>9, <1>10

\* MarkResult, success.
LEMMA SucceededIn ==
  ASSUME NEW L, NEW W, LevelsUpTo(L, W), NEW a \in AuthsIn(L), NEW m \in Models
  PROVE  succeeded(a, m) \in AuthsIn(L)
<1>1. PICK b : b = ensureModelState(a, m) OBVIOUS
<1>2. b \in AuthsIn(L) /\ m \in DOMAIN b.ms BY <1>1, EnsureIn DEF LevelsUpTo
<1>3. Clean \in StatesIn(L) BY FreshStates DEF LevelsUpTo
<1>4. [b EXCEPT !.ms[m] = Clean] \in AuthsIn(L) BY <1>2, <1>3, SetStateIn
<1>5. updateAggregatedAvailability([b EXCEPT !.ms[m] = Clean]) \in AuthsIn(L)
  BY <1>4, AggregateIn
<1> QED BY <1>1, <1>5 DEF succeeded

\* The state a failure finds.
StateOf(a, m) == IF m \in DOMAIN a.ms THEN a.ms[m] ELSE Clean

\* MarkResult, failure.
LEMMA FailedIn ==
  ASSUME NEW L, NEW K, NEW V, NEW W, LevelsUpTo(L, V), LevelsUpTo(K, W), L \subseteq K,
         NEW a \in AuthsIn(L), NEW m \in Models,
         NEW f \in Failures, now \in Nat \ {0},
         opensWindow(StateOf(a, m), f) => \A l \in L : nextQuotaCooldown(l).lvl \in K
  PROVE  /\ failed(a, m, f) \in AuthsIn(K)
         /\ \E d \in AuthsIn(K) :
              /\ failed(a, m, f) = updateAggregatedAvailability(d)
              /\ \/ d.q = a.q /\ d.next = a.next
                 \/ d.q.ex /\ d.q.cred /\ d.q.rec = d.next
<1>1. PICK b : b = ensureModelState(a, m) OBVIOUS
<1>2. b \in AuthsIn(L) /\ m \in DOMAIN b.ms /\ b.ms[m] = StateOf(a, m)
  BY <1>1, EnsureIn DEF LevelsUpTo, StateOf
<1>3. b.ms[m] \in StatesIn(L) BY <1>2, StatesOf
<1>4. K \subseteq Nat BY DEF LevelsUpTo
<1>5. failedState(b.ms[m], f) \in StatesIn(K) BY <1>2, <1>3, <1>4, FailedStateIn
<1>6. b \in AuthsIn(K) BY <1>2, Wider
<1>7. PICK c : c = [b EXCEPT !.ms[m] = failedState(b.ms[m], f)] OBVIOUS
<1>8. c \in AuthsIn(K) BY <1>2, <1>5, <1>6, <1>7, SetStateIn
<1>9. c.ms = [b.ms EXCEPT ![m] = failedState(b.ms[m], f)]
  BY <1>2, <1>5, <1>6, <1>7, SetStateIn
<1>10. m \in DOMAIN c.ms BY <1>2, <1>9
<1>11. credentialScope(c, m) \in AuthsIn(K) BY <1>8, <1>10, ScopeIn
<1>12. PICK d : d = IF f.kind = "quota" /\ f.scope /\ ~coolingOff(f) THEN credentialScope(c, m) ELSE c
  OBVIOUS
<1>13. d \in AuthsIn(K) BY <1>8, <1>11, <1>12
<1>14. updateAggregatedAvailability(d) \in AuthsIn(K) BY <1>13, AggregateIn
<1>15. failed(a, m, f) = updateAggregatedAvailability(d) BY <1>1, <1>7, <1>12, Zenon DEF failed
<1>16. b.q = a.q /\ b.next = a.next BY <1>1, EnsureIn DEF LevelsUpTo
<1>17. c.q = b.q /\ c.next = b.next BY <1>2, <1>5, <1>6, <1>7, SetStateIn
<1>18. \/ d.q = a.q /\ d.next = a.next
       \/ d.q.ex /\ d.q.cred /\ d.q.rec = d.next
  BY <1>8, <1>10, <1>12, <1>16, <1>17, ScopeIn
<1> QED BY <1>13, <1>14, <1>15, <1>18

-----------------------------------------------------------------------------
(***************************************************************************)
(* Records, written and read back.                                         *)
(***************************************************************************)

\* What is written.
LEMMA RecordsAreIn ==
  ASSUME NEW L, NEW a \in AuthsIn(L)
  PROVE  cooldownStateRecords(a) \subseteq RecordsIn(L)
<1>1. /\ DOMAIN a.ms \subseteq Models /\ \A m \in DOMAIN a.ms : a.ms[m] \in StatesIn(L)
      /\ a.next \in Nat /\ a.q \in QuotasIn(L)
  BY StatesOf DEF AuthsIn
<1>2. \A m \in DOMAIN a.ms : cooldownStateRecord(a.ms[m], m, a.ms[m].err) \in RecordsIn(L)
  BY <1>1 DEF cooldownStateRecord, RecordsIn, StatesIn, Places
<1>3. cooldownStateRecord(a, Whole, "other") \in RecordsIn(L)
  BY <1>1 DEF cooldownStateRecord, RecordsIn, Errors, Places
<1> QED BY <1>2, <1>3 DEF cooldownStateRecords

\* A record's quota.
LEMMA RecordQuotaIn ==
  ASSUME NEW L, NEW r \in RecordsIn(L)
  PROVE  recordQuota(r) \in QuotasIn(L)
<1>1. r.q \in QuotasIn(L) /\ r.next \in Nat BY DEF RecordsIn
<1>2. PICK n : n = IF r.q.ex /\ r.q.rec = 0 THEN r.next ELSE r.q.rec OBVIOUS
<1>3. n \in Nat BY <1>1, <1>2 DEF QuotasIn
<1>4. recordQuota(r) = [r.q EXCEPT !.rec = n] BY <1>2 DEF recordQuota
<1> QED BY <1>1, <1>3, <1>4 DEF QuotasIn

\* Merging takes the later of two deadlines and the higher of two levels.
LEMMA MergeIn ==
  ASSUME NEW L, NEW W, LevelsUpTo(L, W), NEW s \in StatesIn(L),
         NEW r \in RecordsIn(L)
  PROVE  mergeModelState(s, r) \in StatesIn(L)
<1>1. PICK q : q = recordQuota(r) OBVIOUS
<1>2. q \in QuotasIn(L) BY <1>1, RecordQuotaIn
<1>3. /\ s.next \in Nat /\ s.q \in QuotasIn(L) /\ s.err \in Errors
      /\ r.next \in Nat /\ r.err \in Errors
  BY DEF StatesIn, RecordsIn
<1>4. /\ s.q.rec \in Nat /\ q.rec \in Nat /\ s.q.lvl \in L /\ q.lvl \in L
      /\ s.q.ex \in BOOLEAN /\ q.ex \in BOOLEAN
  BY <1>2, <1>3 DEF QuotasIn
<1>5. L \subseteq Nat BY DEF LevelsUpTo
<1>6. Max({s.next, r.next}) \in Nat BY <1>3, MaxOfTwo
<1>7. Max({s.q.rec, q.rec}) \in Nat BY <1>4, MaxOfTwo
<1>8. Max({s.q.lvl, q.lvl}) \in L BY <1>4, <1>5, MaxOfTwo
<1>9. PICK p : p = [ex |-> s.q.ex \/ q.ex, cred |-> FALSE, rec |-> Max({s.q.rec, q.rec}),
                    lvl |-> Max({s.q.lvl, q.lvl})]
  OBVIOUS
<1>10. p \in QuotasIn(L)
  <2>1. (s.q.ex \/ q.ex) \in BOOLEAN OBVIOUS
  <2> QED BY <1>7, <1>8, <1>9, <2>1 DEF QuotasIn
<1>11. PICK e : e = IF s.err # "none" THEN s.err ELSE r.err OBVIOUS
<1>12. e \in Errors BY <1>3, <1>11
<1>13. mergeModelState(s, r) = [unavail |-> TRUE, next |-> Max({s.next, r.next}), q |-> p, err |-> e]
  BY <1>1, <1>9, <1>11, Zenon DEF mergeModelState
<1> QED BY <1>6, <1>10, <1>12, <1>13 DEF StatesIn

\* Restoring one record.
LEMMA RestoreRecordIn ==
  ASSUME NEW L, NEW W, LevelsUpTo(L, W), NEW a \in AuthsIn(L),
         NEW r \in RecordsIn(L)
  PROVE  restoreCooldownRecord(a, r) \in AuthsIn(L)
<1>1. CASE r.model = Whole
  <2>1. recordQuota(r) \in QuotasIn(L) /\ r.next \in Nat BY RecordQuotaIn DEF RecordsIn
  <2>2. TRUE \in BOOLEAN OBVIOUS
  <2>3. [a EXCEPT !.unavail = TRUE, !.next = r.next, !.q = recordQuota(r)] \in AuthsIn(L)
    BY <2>1, <2>2, Zenon DEF AuthsIn
  <2>4. \/ restoreCooldownRecord(a, r) = a
        \/ restoreCooldownRecord(a, r) =
             [a EXCEPT !.unavail = TRUE, !.next = r.next, !.q = recordQuota(r)]
    BY <1>1, Zenon DEF restoreCooldownRecord
  <2> QED BY <2>3, <2>4
<1>2. CASE r.model # Whole
  <2>1. r.model \in Models BY <1>2 DEF RecordsIn, Places
  <2>2. PICK b : b = ensureModelState(a, r.model) OBVIOUS
  <2>3. b \in AuthsIn(L) /\ r.model \in DOMAIN b.ms BY <2>1, <2>2, EnsureIn DEF LevelsUpTo
  <2>4. b.ms[r.model] \in StatesIn(L) BY <2>3, StatesOf
  <2>5. mergeModelState(b.ms[r.model], r) \in StatesIn(L) BY <2>4, MergeIn
  <2>6. PICK c : c = [b EXCEPT !.ms[r.model] = mergeModelState(b.ms[r.model], r)] OBVIOUS
  <2>7. c \in AuthsIn(L) BY <2>3, <2>5, <2>6, SetStateIn
  <2>8. updateAggregatedAvailability(c) \in AuthsIn(L) BY <2>7, AggregateIn
  <2>9. restoreCooldownRecord(a, r) \in {a, updateAggregatedAvailability(c)}
    <3>1. CASE r.next <= now \/ ~config.cooling
      <4>1. restoreCooldownRecord(a, r) = a BY <3>1, Zenon DEF restoreCooldownRecord
      <4> QED BY <4>1
    <3>2. CASE ~(r.next <= now \/ ~config.cooling)
      <4>1. restoreCooldownRecord(a, r) = updateAggregatedAvailability(c)
        BY <1>2, <2>2, <2>6, <3>2, Zenon DEF restoreCooldownRecord
      <4> QED BY <4>1
    <3> QED BY <3>1, <3>2
  <2> QED BY <2>8, <2>9
<1> QED BY <1>1, <1>2

\* And the record of a model, if there is one.
LEMMA RestoreModelIn ==
  ASSUME NEW L, NEW W, LevelsUpTo(L, W), NEW a \in AuthsIn(L),
         NEW recs, recs \subseteq RecordsIn(L), NEW m
  PROVE  restoreModel(a, recs, m) \in AuthsIn(L)
<1>1. CASE \E r \in recs : r.model = m
  <2>1. PICK r : r = CHOOSE x \in recs : x.model = m OBVIOUS
  <2>2. r \in recs BY <1>1, <2>1, Zenon
  <2>3. restoreCooldownRecord(a, r) \in AuthsIn(L) BY <2>2, RestoreRecordIn
  <2>4. restoreModel(a, recs, m) = restoreCooldownRecord(a, r)
    BY <1>1, <2>1, Zenon DEF restoreModel
  <2> QED BY <2>3, <2>4
<1>2. CASE ~\E r \in recs : r.model = m
  <2>1. restoreModel(a, recs, m) = a BY <1>2, Zenon DEF restoreModel
  <2> QED BY <2>1
<1> QED BY <1>1, <1>2

\* The models of records have a greatest one.
LEMMA ModelsBounded == \E N \in Nat : Models \subseteq 0 .. N
<1>1. Models \subseteq Nat /\ IsFiniteSet(Models) BY CooldownAssumption
<1>2a. PICK n \in Nat : ExistsBijection(1 .. n, Models) BY <1>1, FS_NatBijection
<1>2. PICK f : f \in Bijection(1 .. n, Models) BY <1>2a DEF ExistsBijection
<1>3. f \in [1 .. n -> Models] /\ \A m \in Models : \E i \in 1 .. n : f[i] = m
  BY <1>2 DEF Bijection, Surjection
<1> DEFINE Bounds(k) == \E N \in Nat : \A i \in 1 .. k : f[i] <= N
           Bad == {k \in 0 .. n : ~Bounds(k)}
<1>4. Bad = {}
  <2> SUFFICES ASSUME Bad # {} PROVE FALSE OBVIOUS
  <2>1. Bad \subseteq Nat OBVIOUS
  <2> HIDE DEF Bad
  <2>2. PICK k \in Bad : \A j \in Bad : k <= j BY <2>1, LeastExists
  <2> USE DEF Bad
  <2>3. k # 0
    <3>1. \A i \in 1 .. 0 : f[i] <= 0 OBVIOUS
    <3>2. 0 \in Nat OBVIOUS
    <3>3. Bounds(0) BY <3>1, <3>2, Zenon
    <3> QED BY <2>2, <3>3
  <2>4. k \in 1 .. n /\ k - 1 \in 0 .. n /\ k - 1 < k BY <2>2, <2>3
  <2>5. k - 1 \notin Bad
    <3> HIDE DEF Bad
    <3> QED BY <2>2, <2>4
  <2>6. Bounds(k - 1) BY <2>4, <2>5, Zenon
  <2>7. PICK N \in Nat : \A i \in 1 .. (k - 1) : f[i] <= N BY <2>6, Zenon
  <2>8. f[k] \in Nat BY <1>1, <1>3, <2>4
  <2>9. PICK M \in Nat : N <= M /\ f[k] <= M
    <3>1. N <= f[k] \/ f[k] <= N BY <2>8
    <3>2. N <= N /\ f[k] <= f[k] BY <2>8
    <3> QED BY <2>8, <3>1, <3>2, Zenon
  <2>10. \A i \in 1 .. k : f[i] \in Nat
    <3>1. \A i \in 1 .. k : i \in 1 .. n BY <2>4
    <3> QED BY <1>1, <1>3, <3>1
  <2>11. \A i \in 1 .. k : f[i] <= M
    <3> SUFFICES ASSUME NEW i \in 1 .. k PROVE f[i] <= M OBVIOUS
    <3>1. i = k \/ i \in 1 .. (k - 1) BY <2>4
    <3> QED BY <2>7, <2>8, <2>9, <2>10, <3>1
  <2>12. Bounds(k) BY <2>11, Zenon
  <2> QED BY <2>2, <2>12
<1>5. n \notin Bad BY <1>4
<1>6. PICK N \in Nat : \A i \in 1 .. n : f[i] <= N
  <2>1. n \in 0 .. n OBVIOUS
  <2> QED BY <1>5, <2>1, Zenon
<1>7. Models \subseteq 0 .. N BY <1>1, <1>3, <1>6
<1> QED BY <1>7

\* Restoring a file: the records of models one after the other, then the
\* credential's own.
LEMMA RestoredSteps ==
  ASSUME NEW L, NEW W, LevelsUpTo(L, W), NEW a \in AuthsIn(L),
         NEW recs, recs \subseteq RecordsIn(L)
  PROVE  \E n, h :
           /\ n \in Nat
           /\ h[0] = a
           /\ \A k \in 1 .. n : h[k] = restoreModel(h[k - 1], recs, k)
           /\ \A k \in 0 .. n : h[k] \in AuthsIn(L)
           /\ \A r \in recs : r.model \in 0 .. n
           /\ restored(a, recs) = restoreModel(h[n], recs, Whole)
<1> DEFINE last == Max({Whole} \union {r.model : r \in recs})
           Step(f, n) == IF n = 0 THEN a ELSE restoreModel(f[n - 1], recs, n)
           h == CHOOSE f : f = [n \in 0 .. last |-> IF n = 0 THEN a ELSE restoreModel(f[n - 1], recs, n)]
<1>1. last \in Nat /\ \A r \in recs : r.model \in 0 .. last
  <2>1. PICK N \in Nat : Models \subseteq 0 .. N BY ModelsBounded
  <2>2. PICK S : S = {Whole} \union {r.model : r \in recs} OBVIOUS
  <2>3. S \subseteq 0 .. N /\ S # {}
    <3>1. \A r \in recs : r.model \in Models \union {Whole} BY DEF RecordsIn, Places
    <3>2. Whole \in 0 .. N BY DEF Whole
    <3> QED BY <2>1, <2>2, <3>1, <3>2
  <2>4. Max(S) \in S /\ \A y \in S : y <= Max(S) BY <2>3, MaxIsGreatest
  <2>5. PICK x : x = Max(S) OBVIOUS
  <2>6. x \in S /\ \A y \in S : y \in 0 .. N /\ y <= x BY <2>3, <2>4, <2>5
  <2>7. x \in Nat /\ \A y \in S : y \in 0 .. x BY <2>6
  <2> QED BY <2>2, <2>5, <2>7
<1>2. restored(a, recs) = restoreModel(h[last], recs, Whole) BY Zenon DEF restored
<1> HIDE DEF last
<1> DEFINE Found(k) == \E f : f = [n \in 0 .. k |-> Step(f, n)]
           Bad == {k \in 0 .. last : ~Found(k)}
<1>3. Bad = {}
  <2> SUFFICES ASSUME Bad # {} PROVE FALSE OBVIOUS
  <2>1. Bad \subseteq Nat BY <1>1
  <2> HIDE DEF Bad
  <2>2. PICK k \in Bad : \A j \in Bad : k <= j BY <2>1, LeastExists
  <2> USE DEF Bad
  <2>3. CASE k = 0
    <3>1. PICK f : f = [n \in 0 .. 0 |-> a] OBVIOUS
    <3>2. f = [n \in 0 .. 0 |-> Step(f, n)] BY <3>1
    <3>3. Found(0) BY <3>2
    <3> QED BY <2>2, <2>3, <3>3
  <2>4. CASE k # 0
    <3>1. k \in Nat /\ k - 1 \in 0 .. last /\ k - 1 < k BY <1>1, <2>2, <2>4
    <3>2. k - 1 \notin Bad BY <2>2, <3>1
    <3>3. Found(k - 1) BY <3>1, <3>2
    <3>4. PICK f : f = [n \in 0 .. (k - 1) |-> Step(f, n)] BY <3>3
    <3>5. PICK g : g = [n \in 0 .. k |-> IF n = k THEN restoreModel(f[k - 1], recs, k) ELSE f[n]]
      OBVIOUS
    <3>6. \A n \in 0 .. k : g[n] = Step(g, n)
      <4> SUFFICES ASSUME NEW n \in 0 .. k PROVE g[n] = Step(g, n) OBVIOUS
      <4>1. n # 0 => g[n - 1] = f[n - 1] BY <3>1, <3>5
      <4>2. CASE n = k BY <2>4, <3>1, <3>5, <4>1, <4>2
      <4>3. CASE n # k
        <5>1. n \in 0 .. (k - 1) /\ g[n] = f[n] BY <3>1, <3>5, <4>3
        <5>2. f[n] = Step(f, n) BY <3>4, <5>1, Zenon
        <5> QED BY <4>1, <5>1, <5>2
      <4> QED BY <4>2, <4>3
    <3>7. g = [n \in 0 .. k |-> Step(g, n)]
      <4> HIDE DEF Step
      <4>1. g = [n \in 0 .. k |-> g[n]] BY <3>5
      <4> QED BY <3>6, <4>1
    <3>8. Found(k) BY <3>7, Zenon
    <3> QED BY <2>2, <3>8
  <2> QED BY <2>3, <2>4
<1>4. Found(last)
  <2>1. last \in 0 .. last BY <1>1
  <2> QED BY <1>3, <2>1, Zenon
<1>5. h = [n \in 0 .. last |-> IF n = 0 THEN a ELSE restoreModel(h[n - 1], recs, n)]
  BY <1>4, Zenon
<1>6. \A n \in 0 .. last : h[n] = IF n = 0 THEN a ELSE restoreModel(h[n - 1], recs, n)
  BY <1>5, Zenon
<1> HIDE DEF h
<1> DEFINE Off == {k \in 0 .. last : h[k] \notin AuthsIn(L)}
<1>7. Off = {}
  <2> SUFFICES ASSUME Off # {} PROVE FALSE OBVIOUS
  <2>1. Off \subseteq Nat BY <1>1
  <2> HIDE DEF Off
  <2>2. PICK k \in Off : \A j \in Off : k <= j BY <2>1, LeastExists
  <2> USE DEF Off
  <2>3. k # 0 BY <1>6, <2>2
  <2>4. k - 1 \in 0 .. last /\ k - 1 < k BY <1>1, <2>2, <2>3
  <2>5. h[k - 1] \in AuthsIn(L) BY <2>2, <2>4
  <2>6. restoreModel(h[k - 1], recs, k) \in AuthsIn(L) BY <2>5, RestoreModelIn
  <2>7. h[k] = restoreModel(h[k - 1], recs, k) BY <1>6, <2>2, <2>3
  <2> QED BY <2>2, <2>6, <2>7
<1>8. \A k \in 0 .. last : h[k] \in AuthsIn(L) BY <1>7
<1>9. h[0] = a BY <1>1, <1>6
<1>10. \A k \in 1 .. last : h[k] = restoreModel(h[k - 1], recs, k) BY <1>1, <1>6
<1> HIDE DEF Off, Bad, Found, Step
<1> QED BY <1>1, <1>2, <1>8, <1>9, <1>10, Zenon

\* It stays within the bounds.
LEMMA RestoredIn ==
  ASSUME NEW L, NEW W, LevelsUpTo(L, W), NEW a \in AuthsIn(L),
         NEW recs, recs \subseteq RecordsIn(L)
  PROVE  restored(a, recs) \in AuthsIn(L)
<1>1. PICK n, h :
        /\ n \in Nat
        /\ \A k \in 0 .. n : h[k] \in AuthsIn(L)
        /\ restored(a, recs) = restoreModel(h[n], recs, Whole)
  BY RestoredSteps
<1>2. h[n] \in AuthsIn(L) BY <1>1
<1> QED BY <1>1, <1>2, RestoreModelIn

-----------------------------------------------------------------------------
(***************************************************************************)
(* The invariant.  Deadlines and levels leave the manager's credential for *)
(* the clone of a refresh, for a snapshot under way to the file, for the   *)
(* file and for the records a reload has read, and come back from each of  *)
(* them: the bounds hold wherever they are.                                *)
(***************************************************************************)
Levels == {l \in 0 .. windows : l <= MaxLevel}

Records == RecordsIn(Levels)

Counters ==
  /\ now \in 1 .. MaxTime
  /\ results \in 0 .. MaxResults /\ windows \in 0 .. results
  /\ due \in Nat
  /\ config \in [cooling : BOOLEAN, save : BOOLEAN] /\ store \in BOOLEAN
  /\ saver.pc \in {"free", "held", "write"} /\ loader.pc \in {"idle", "load", "merge"}

Bounded ==
  /\ auth \in AuthsIn(Levels) /\ clone \subseteq AuthsIn(Levels)
  /\ registering.ms \in ModelStatesIn(Levels)
  /\ disk \subseteq Records /\ saver.recs \subseteq Records /\ loader.recs \subseteq Records

BoundInv == Counters /\ Bounded

\* The top of the ladder.
LEMMA TopOfLadder ==
  /\ MaxLevel \in Nat
  /\ \A l \in 0 .. MaxResults : climbs(l) => l + 1 <= MaxLevel
<1>1. MaxResults \in Nat BY CooldownAssumption
<1>2. PICK S : S = {0} \union {n + 1 : n \in {l \in 0 .. MaxResults : climbs(l)}} OBVIOUS
<1>3. S # {} /\ \A l \in 0 .. MaxResults : climbs(l) => l + 1 \in S BY <1>2
<1>4. S \subseteq 0 .. (MaxResults + 1) BY <1>1, <1>2
<1>5. MaxLevel = Max(S) BY <1>2, Zenon DEF MaxLevel
<1>6. MaxResults + 1 \in Nat BY <1>1
<1>7. Max(S) \in S /\ \A y \in S : y <= Max(S) BY <1>3, <1>4, <1>6, MaxIsGreatest
<1>8. Max(S) \in Nat
  <2>1. PICK x : x = Max(S) OBVIOUS
  <2>2. x \in 0 .. (MaxResults + 1) BY <1>4, <1>7, <2>1
  <2> QED BY <1>1, <2>1, <2>2
<1> QED BY <1>3, <1>5, <1>7, <1>8

\* Levels are natural.
LEMMA LevelsAreNat ==
  ASSUME windows \in Nat
  PROVE  LevelsUpTo(Levels, windows)
BY TopOfLadder DEF Levels, LevelsUpTo

\* What the invariant says of the credential.
LEMMA BoundsMean ==
  ASSUME BoundInv
  PROVE  TypeOK /\ LadderCountsWindows
<1> USE DEF BoundInv, Counters, Bounded
<1>1. windows \in Nat /\ results \in Nat OBVIOUS
<1>2. MaxLevel \in Nat /\ \A l \in Levels : l \in 0 .. MaxLevel /\ l <= windows
  BY <1>1, TopOfLadder DEF Levels
<1>3. \A q \in QuotasIn(Levels) : q \in Quotas /\ q.lvl <= windows
  BY <1>1, <1>2 DEF QuotasIn, Quotas
<1>4. \A s \in StatesIn(Levels) :
         /\ s \in [unavail : BOOLEAN, next : Nat, q : Quotas, err : Errors]
         /\ s.q.lvl <= windows
  BY <1>1, <1>3 DEF StatesIn
<1>5. \A r \in Records :
         /\ r \in [model : Places, next : Nat, q : Quotas, err : Errors]
         /\ r.q.lvl <= windows
  BY <1>1, <1>3 DEF Records, RecordsIn
<1>6. /\ DOMAIN auth.ms \subseteq Models
      /\ \A m \in DOMAIN auth.ms : auth.ms[m] \in StatesIn(Levels)
  BY StatesOf
<1>7. /\ auth.unavail \in BOOLEAN /\ auth.next \in Nat /\ auth.q \in QuotasIn(Levels)
  BY DEF AuthsIn
<1>8. TypeOK
  <2>1. auth.next \in Nat /\ auth.q \in Quotas BY <1>1, <1>3, <1>7
  <2> QED BY <1>4, <1>5, <1>6, <1>7, <2>1 DEF TypeOK
<1>9. LadderCountsWindows BY <1>3, <1>4, <1>5, <1>6, <1>7 DEF LadderCountsWindows
<1> QED BY <1>8, <1>9

\* Model states and a credential-wide quota that an update keeps.
LEMMA KeptIn ==
  ASSUME auth \in AuthsIn(Levels), NEW a \in AuthsIn(Levels)
  PROVE  kept(a) \in AuthsIn(Levels)
<1> DEFINE ms == IF DOMAIN a.ms = {} THEN auth.ms ELSE a.ms
           b == [a EXCEPT !.ms = ms]
<1>1. DOMAIN ms \subseteq Models /\ ms \in [DOMAIN ms -> StatesIn(Levels)]
  BY StatesOf
<1>2. kept(a) = IF credentialQuota(auth)
                THEN [b EXCEPT !.unavail = auth.unavail, !.next = auth.next, !.q = auth.q] ELSE b
  BY Zenon DEF kept
<1> HIDE DEF ms
<1>3. b \in AuthsIn(Levels) BY <1>1, WithStates
<1> HIDE DEF b
<1>4. /\ auth.unavail \in BOOLEAN /\ auth.next \in Nat
      /\ auth.q \in QuotasIn(Levels)
  BY DEF AuthsIn
<1>5. [b EXCEPT !.unavail = auth.unavail, !.next = auth.next, !.q = auth.q]
        \in AuthsIn(Levels)
  BY <1>3, <1>4, Zenon DEF AuthsIn
<1> QED BY <1>2, <1>3, <1>5

\* What a refresh, an update or a registration brings is kept within the bounds.
LEMMA UpdateIn ==
  ASSUME BoundInv, NEW a \in AuthsIn(Levels), Update(a), UNCHANGED <<windows, granted>>
  PROVE  auth' \in AuthsIn(Levels)' /\ due' \in Nat
<1>1. LevelsUpTo(Levels, windows) /\ auth \in AuthsIn(Levels)
  BY LevelsAreNat DEF BoundInv, Counters, Bounded
<1>2. kept(a) \in AuthsIn(Levels) BY <1>1, KeptIn
<1>3. clearCooldownStateForAuth(kept(a)) \in AuthsIn(Levels) BY <1>1, <1>2, ClearAllIn
<1>4. auth' \in AuthsIn(Levels)
  BY <1>2, <1>3 DEF Update
<1>5. AuthsIn(Levels)' = AuthsIn(Levels)
  BY DEF AuthsIn, Levels, QuotasIn, ModelStatesIn, StatesIn
<1>6. due' \in Nat BY DEF Update, BoundInv, Counters
<1> QED BY <1>4, <1>5, <1>6

\* A failure: the only step that makes a deadline or raises a level.
LEMMA FailureKeepsBounds ==
  ASSUME BoundInv, NEW m \in Models, NEW f \in Failures, MarkFailure(m, f)
  PROVE  BoundInv'
<1>1. /\ now \in Nat \ {0} /\ windows \in Nat /\ results \in Nat
      /\ windows <= results /\ results < MaxResults /\ MaxResults \in Nat
      /\ auth \in AuthsIn(Levels)
  BY CooldownAssumption DEF BoundInv, Counters, Bounded, MarkFailure, Result
<1>2. windows' = IF opensWindow(StateOf(auth, m), f) THEN windows + 1 ELSE windows
  BY Zenon DEF MarkFailure, StateOf
<1>5. windows' \in Nat /\ windows <= windows' /\ windows' <= windows + 1 BY <1>1, <1>2
<1>6. Levels' = {l \in 0 .. windows' : l <= MaxLevel} BY DEF Levels, MaxLevel, climbs, backoff
<1>7. LevelsUpTo(Levels, windows) BY <1>1, LevelsAreNat
<1>8. LevelsUpTo(Levels', windows') BY <1>5, <1>6, TopOfLadder DEF LevelsUpTo
<1>9. Levels \subseteq Levels' BY <1>1, <1>5, <1>6 DEF Levels
<1>10. opensWindow(StateOf(auth, m), f) => \A l \in Levels : nextQuotaCooldown(l).lvl \in Levels'
  <2> SUFFICES ASSUME opensWindow(StateOf(auth, m), f), NEW l \in Levels
               PROVE  nextQuotaCooldown(l).lvl \in Levels'
    OBVIOUS
  <2>1. windows' = windows + 1 BY <1>2
  <2>2. l \in Nat /\ l <= windows /\ l <= MaxLevel /\ l \in 0 .. MaxResults BY <1>1 DEF Levels
  <2>3. nextQuotaCooldown(l).lvl = IF climbs(l) THEN l + 1 ELSE l BY <2>2, LadderStep
  <2>4. CASE climbs(l)
    <3>1. l + 1 <= MaxLevel BY <2>2, <2>4, TopOfLadder
    <3>2. l + 1 \in 0 .. windows' BY <1>1, <2>1, <2>2
    <3> QED BY <1>6, <2>3, <2>4, <3>1, <3>2
  <2>5. CASE ~climbs(l) BY <1>9, <2>3, <2>5
  <2> QED BY <2>4, <2>5
<1>11. failed(auth, m, f) \in AuthsIn(Levels')
  BY <1>1, <1>7, <1>8, <1>9, <1>10, FailedIn
<1>12. /\ AuthsIn(Levels) \subseteq AuthsIn(Levels')
       /\ RecordsIn(Levels) \subseteq RecordsIn(Levels')
       /\ ModelStatesIn(Levels) \subseteq ModelStatesIn(Levels')
  BY <1>9, Wider
<1>13. /\ AuthsIn(Levels)' = AuthsIn(Levels')
       /\ RecordsIn(Levels)' = RecordsIn(Levels')
       /\ ModelStatesIn(Levels)' = ModelStatesIn(Levels')
  BY DEF AuthsIn, QuotasIn, ModelStatesIn, StatesIn, RecordsIn
<1>14. Bounded'
  <2>1. auth' \in AuthsIn(Levels') BY <1>11 DEF MarkFailure, Result
  <2>2. clone' \subseteq AuthsIn(Levels')
    BY <1>12 DEF MarkFailure, Result, BoundInv, Bounded
  <2>3. /\ disk' \subseteq RecordsIn(Levels')
        /\ saver'.recs \subseteq RecordsIn(Levels')
        /\ loader'.recs \subseteq RecordsIn(Levels')
    BY <1>12 DEF MarkFailure, Result, BoundInv, Bounded, Records
  <2>4. registering'.ms \in ModelStatesIn(Levels')
    BY <1>12 DEF MarkFailure, Result, BoundInv, Bounded
  <2> QED BY <1>13, <2>1, <2>2, <2>3, <2>4 DEF Bounded, Records
<1>15. Counters'
  <2>1. results' \in 0 .. MaxResults /\ windows' \in 0 .. results'
    BY <1>1, <1>5 DEF MarkFailure, Result
  <2>2. due' \in Nat BY DEF MarkFailure, Result, BoundInv, Counters
  <2> QED BY <2>1, <2>2 DEF MarkFailure, Result, BoundInv, Counters
<1> QED BY <1>14, <1>15 DEF BoundInv

\* In a step that opens no window, the bounds are the same.
LEMMA SameBounds ==
  ASSUME UNCHANGED <<windows, granted>>
  PROVE  /\ Levels' = Levels /\ Records' = Records
         /\ AuthsIn(Levels)' = AuthsIn(Levels) /\ ModelStatesIn(Levels)' = ModelStatesIn(Levels)
BY DEF Levels, Records, MaxLevel, climbs, backoff, AuthsIn, QuotasIn, ModelStatesIn, StatesIn, RecordsIn

\* The other results, and the clock.
LEMMA SuccessKeepsBounds ==
  ASSUME BoundInv, NEW m \in Models, MarkSuccess(m)
  PROVE  BoundInv'
<1>1. UNCHANGED <<windows, granted>> BY DEF MarkSuccess
<1>2. LevelsUpTo(Levels, windows) /\ auth \in AuthsIn(Levels)
  BY LevelsAreNat DEF BoundInv, Counters, Bounded
<1>3. succeeded(auth, m) \in AuthsIn(Levels) BY <1>2, SucceededIn
<1>4. Bounded' BY <1>1, <1>3, SameBounds DEF BoundInv, Bounded, MarkSuccess, Result
<1>5. Counters'
  <2>1. results' \in 0 .. MaxResults /\ windows' \in 0 .. results'
    BY <1>1, CooldownAssumption DEF MarkSuccess, Result, BoundInv, Counters
  <2>2. due' \in Nat BY DEF MarkSuccess, Result, BoundInv, Counters
  <2> QED BY <1>1, <2>1, <2>2 DEF MarkSuccess, Result, BoundInv, Counters
<1> QED BY <1>4, <1>5 DEF BoundInv

\* Time passes.
LEMMA TickKeepsBounds ==
  ASSUME BoundInv, Tick
  PROVE  BoundInv'
<1>1. UNCHANGED <<windows, granted>> BY DEF Tick
<1>2. Bounded' BY <1>1, SameBounds DEF BoundInv, Bounded, Tick
<1>3. Counters' BY CooldownAssumption DEF BoundInv, Counters, Tick
<1> QED BY <1>2, <1>3 DEF BoundInv

\* Saving: the snapshot, the file and the change of store.
LEMMA ReleaseKeepsBounds ==
  ASSUME BoundInv, NEW ok, Release(ok), UNCHANGED <<windows, granted, config>>
  PROVE  /\ saver'.recs \subseteq Records' /\ loader'.recs \subseteq Records'
         /\ saver'.pc \in {"free", "held", "write"} /\ loader'.pc \in {"idle", "load", "merge"}
         /\ store' \in BOOLEAN
<1>1. Records' = Records BY SameBounds
<1>2. saver'.recs = {} /\ saver'.pc = "free" BY DEF Release, Free
<1>3. /\ loader'.recs = {} /\ loader'.pc = "load"
      \/ loader' = loader
  BY DEF Release, Loaded
<1>4. store' \in {config.save, store} BY DEF Release
<1> QED BY <1>1, <1>2, <1>3, <1>4 DEF BoundInv, Counters, Bounded

\* A save copies what the manager holds, and the file what the save holds.
LEMMA SavesKeepBounds ==
  ASSUME BoundInv, SaveStep
  PROVE  BoundInv'
<1>1. CASE persistCooldownStates
  <2>1. UNCHANGED <<windows, granted>> BY <1>1 DEF persistCooldownStates
  <2>2. saver'.recs = {} /\ saver'.pc = "held" BY <1>1 DEF persistCooldownStates, Free
  <2>3. Bounded' BY <1>1, <2>1, <2>2, SameBounds DEF BoundInv, Bounded, persistCooldownStates
  <2>4. Counters' BY <1>1, <2>2 DEF BoundInv, Counters, persistCooldownStates
  <2> QED BY <2>3, <2>4 DEF BoundInv
<1>2. CASE cooldownStateRecordsSnapshot
  <2>1. UNCHANGED <<windows, granted, config, auth, clone, registering, disk, now, results, due>>
    BY <1>2 DEF cooldownStateRecordsSnapshot
  <2>2. /\ saver'.recs \subseteq Records' /\ loader'.recs \subseteq Records'
        /\ saver'.pc \in {"free", "held", "write"} /\ loader'.pc \in {"idle", "load", "merge"}
        /\ store' \in BOOLEAN
    <3>1. CASE store
      <4>1. /\ saver' = [pc |-> "write", by |-> saver.by, recs |-> cooldownStateRecords(auth)]
            /\ UNCHANGED <<store, loader>>
        BY <1>2, <3>1 DEF cooldownStateRecordsSnapshot
      <4>2. saver'.recs = cooldownStateRecords(auth) /\ saver'.pc = "write" BY <4>1
      <4>3. cooldownStateRecords(auth) \subseteq Records
        BY RecordsAreIn DEF Records, BoundInv, Bounded, Counters
      <4>4. Records' = Records BY <2>1, SameBounds
      <4> QED BY <4>1, <4>2, <4>3, <4>4 DEF BoundInv, Bounded, Counters
    <3>2. CASE ~store
      <4>1. Release(TRUE) BY <1>2, <3>2 DEF cooldownStateRecordsSnapshot
      <4> QED BY <2>1, <4>1, ReleaseKeepsBounds
    <3> QED BY <3>1, <3>2
  <2>3. Bounded' BY <2>1, <2>2, SameBounds DEF BoundInv, Bounded
  <2>4. Counters' BY <2>1, <2>2 DEF BoundInv, Counters
  <2> QED BY <2>3, <2>4 DEF BoundInv
<1>3. ASSUME NEW ok \in BOOLEAN, Save(ok) PROVE BoundInv'
  <2>1. UNCHANGED <<windows, granted, config, auth, clone, registering, now, results, due>> /\ Release(ok)
    BY <1>3 DEF Save
  <2>2. /\ saver'.recs \subseteq Records' /\ loader'.recs \subseteq Records'
        /\ saver'.pc \in {"free", "held", "write"} /\ loader'.pc \in {"idle", "load", "merge"}
        /\ store' \in BOOLEAN
    BY <2>1, ReleaseKeepsBounds
  <2>3. disk' \in {saver.recs, disk} BY <1>3 DEF Save
  <2>4. Bounded' BY <2>1, <2>2, <2>3, SameBounds DEF BoundInv, Bounded
  <2>5. Counters' BY <2>1, <2>2 DEF BoundInv, Counters
  <2> QED BY <2>4, <2>5 DEF BoundInv
<1> QED BY <1>1, <1>2, <1>3 DEF SaveStep

\* The configuration, the reload and the reset of a quota.
LEMMA OperationsKeepBounds ==
  ASSUME BoundInv
  PROVE  /\ \A c \in [cooling : BOOLEAN, save : BOOLEAN] :
              ApplyConfigWithCooldownStateStore(c) => BoundInv'
         /\ LoadRecords => BoundInv'
         /\ RestoreCooldownStates => BoundInv'
         /\ \A ok \in BOOLEAN : ResetQuota(ok) => BoundInv'
<1>1. LevelsUpTo(Levels, windows) /\ auth \in AuthsIn(Levels)
  BY LevelsAreNat DEF BoundInv, Counters, Bounded
<1>2. ASSUME NEW c \in [cooling : BOOLEAN, save : BOOLEAN], ApplyConfigWithCooldownStateStore(c)
      PROVE  BoundInv'
  <2>1. UNCHANGED <<windows, granted>> BY <1>2 DEF ApplyConfigWithCooldownStateStore
  <2>2. saver'.recs = {} /\ saver'.pc = "held" BY <1>2 DEF ApplyConfigWithCooldownStateStore, Free
  <2>3. auth' \in AuthsIn(Levels)
    <3>1. auth' \in {auth, clearCooldownStateForAuth(auth)}
      BY <1>2 DEF ApplyConfigWithCooldownStateStore
    <3> QED BY <1>1, <3>1, ClearAllIn
  <2>4. Bounded'
    BY <1>2, <2>1, <2>2, <2>3, SameBounds DEF BoundInv, Bounded, ApplyConfigWithCooldownStateStore
  <2>5. Counters' BY <1>2, <2>2 DEF BoundInv, Counters, ApplyConfigWithCooldownStateStore
  <2> QED BY <2>4, <2>5 DEF BoundInv
<1>3. ASSUME LoadRecords PROVE BoundInv'
  <2>1. UNCHANGED <<windows, granted>> BY <1>3 DEF LoadRecords
  <2>2. loader'.recs = disk /\ loader'.pc = "merge" BY <1>3 DEF LoadRecords
  <2>3. Bounded' BY <1>3, <2>1, <2>2, SameBounds DEF BoundInv, Bounded, LoadRecords
  <2>4. Counters' BY <1>3, <2>2 DEF BoundInv, Counters, LoadRecords
  <2> QED BY <2>3, <2>4 DEF BoundInv
<1>4. ASSUME RestoreCooldownStates PROVE BoundInv'
  <2>1. UNCHANGED <<windows, granted>> BY <1>4 DEF RestoreCooldownStates
  <2>2. loader'.recs = {} /\ loader'.pc = "idle" BY <1>4 DEF RestoreCooldownStates, Loaded
  <2>3. restored(auth, loader.recs) \in AuthsIn(Levels)
    BY <1>1, RestoredIn DEF BoundInv, Bounded, Records
  <2>4. auth' \in AuthsIn(Levels) BY <1>4, <2>3 DEF RestoreCooldownStates
  <2>5. Bounded'
    BY <1>4, <2>1, <2>2, <2>4, SameBounds DEF BoundInv, Bounded, RestoreCooldownStates
  <2>6. Counters' BY <1>4, <2>2 DEF BoundInv, Counters, RestoreCooldownStates
  <2> QED BY <2>5, <2>6 DEF BoundInv
<1>5. ASSUME NEW ok \in BOOLEAN, ResetQuota(ok) PROVE BoundInv'
  <2>1. UNCHANGED <<windows, granted>> BY <1>5 DEF ResetQuota
  <2>2. PICK a : a = [auth EXCEPT !.ms = [m \in DOMAIN auth.ms |-> Clean]] OBVIOUS
  <2>3. a \in AuthsIn(Levels) BY <1>1, <2>2, ResetIn
  <2>4. auth' = clearCooldownStateForAuth(a) BY <1>5, <2>2, Zenon DEF ResetQuota
  <2>5. auth' \in AuthsIn(Levels) BY <1>1, <2>3, <2>4, ClearAllIn
  <2>6. Bounded' BY <1>5, <2>1, <2>5, SameBounds DEF BoundInv, Bounded, ResetQuota
  <2>7. due' \in {due, due + 1} BY <1>5 DEF ResetQuota
  <2>8. Counters' BY <1>5, <2>7 DEF BoundInv, Counters, ResetQuota
  <2> QED BY <2>6, <2>8 DEF BoundInv
<1> QED BY <1>2, <1>3, <1>4, <1>5

\* Updates and refreshes.
LEMMA UpdatesKeepBounds ==
  ASSUME BoundInv
  PROVE  /\ prepareCoreAuth => BoundInv'
         /\ UpdateAuth => BoundInv'
         /\ ReconcileRegistryModelStates => BoundInv'
         /\ BeginRefresh => BoundInv'
         /\ \A a \in clone : EndRefresh(a) => BoundInv'
         /\ RefreshUnauthorized => BoundInv'
<1>1. LevelsUpTo(Levels, windows) /\ auth \in AuthsIn(Levels)
  BY LevelsAreNat DEF BoundInv, Counters, Bounded
<1>0. <<>> \in ModelStatesIn(Levels) BY <1>1, FreshStates DEF LevelsUpTo
<1>7. ASSUME prepareCoreAuth PROVE BoundInv'
  <2>1. UNCHANGED <<windows, granted>> BY <1>7 DEF prepareCoreAuth
  <2>2. registering'.ms = auth.ms BY <1>7 DEF prepareCoreAuth
  <2>3. auth.ms \in ModelStatesIn(Levels) BY <1>1 DEF AuthsIn
  <2>4. Bounded' BY <1>7, <2>1, <2>2, <2>3, SameBounds DEF BoundInv, Bounded, prepareCoreAuth
  <2>5. Counters' BY <1>7 DEF BoundInv, Counters, prepareCoreAuth
  <2> QED BY <2>4, <2>5 DEF BoundInv
<1>2. ASSUME UpdateAuth PROVE BoundInv'
  <2>1. UNCHANGED <<windows, granted>> BY <1>2 DEF UpdateAuth
  <2>2. FreshAuth \in AuthsIn(Levels) BY <1>1, FreshStates DEF LevelsUpTo
  <2>3. PICK a : a = [FreshAuth EXCEPT !.ms = registering.ms] OBVIOUS
  <2>4. a \in AuthsIn(Levels) BY <2>2, <2>3 DEF BoundInv, Bounded, AuthsIn
  <2>5. Update(a) BY <1>2, <2>3 DEF UpdateAuth
  <2>6. auth' \in AuthsIn(Levels)' /\ due' \in Nat BY <2>1, <2>4, <2>5, UpdateIn
  <2>7. registering'.ms = <<>> BY <1>2 DEF UpdateAuth
  <2>8. Bounded' BY <1>0, <1>2, <2>1, <2>6, <2>7, SameBounds DEF BoundInv, Bounded, UpdateAuth
  <2>9. Counters' BY <1>2, <2>6 DEF BoundInv, Counters, UpdateAuth
  <2> QED BY <2>8, <2>9 DEF BoundInv
<1>3. ASSUME ReconcileRegistryModelStates PROVE BoundInv'
  <2>1. UNCHANGED <<windows, granted>> BY <1>3 DEF ReconcileRegistryModelStates
  <2>2. PICK a : a = [auth EXCEPT !.ms = [m \in DOMAIN auth.ms |-> Clean]] OBVIOUS
  <2>3. a \in AuthsIn(Levels) BY <1>1, <2>2, ResetIn
  <2>4. updateAggregatedAvailability(a) \in AuthsIn(Levels) BY <1>1, <2>3, AggregateIn
  <2>5. auth' = auth \/ auth' = updateAggregatedAvailability(a)
    BY <1>3, <2>2, Zenon DEF ReconcileRegistryModelStates
  <2>6. auth' \in AuthsIn(Levels) BY <1>1, <2>4, <2>5
  <2>7. Bounded'
    BY <1>0, <1>3, <2>1, <2>6, SameBounds
       DEF BoundInv, Bounded, ReconcileRegistryModelStates, Registered
  <2>8. Counters' BY <1>3 DEF BoundInv, Counters, ReconcileRegistryModelStates
  <2> QED BY <2>7, <2>8 DEF BoundInv
<1>4. ASSUME BeginRefresh PROVE BoundInv'
  <2>1. UNCHANGED <<windows, granted>> BY <1>4 DEF BeginRefresh
  <2>2. Bounded' BY <1>4, <2>1, SameBounds DEF BoundInv, Bounded, BeginRefresh
  <2>3. Counters' BY <1>4 DEF BoundInv, Counters, BeginRefresh
  <2> QED BY <2>2, <2>3 DEF BoundInv
<1>5. ASSUME NEW a \in clone, EndRefresh(a) PROVE BoundInv'
  <2>1. UNCHANGED <<windows, granted>> BY <1>5 DEF EndRefresh
  <2>2. a \in AuthsIn(Levels) BY DEF BoundInv, Bounded
  <2> DEFINE denied == {m \in DOMAIN a.ms : a.ms[m].err = "401"}
             ms == [m \in DOMAIN a.ms |-> IF m \in denied THEN Clean ELSE a.ms[m]]
             b == [a EXCEPT !.unavail = FALSE, !.ms = ms]
  <2>3. Update(IF denied = {} THEN b ELSE updateAggregatedAvailability(b))
    BY <1>5, Zenon DEF EndRefresh
  <2> HIDE DEF denied
  <2>4. [a EXCEPT !.ms = ms] \in AuthsIn(Levels) BY <1>1, <2>2, ResetIn
  <2> HIDE DEF ms
  <2>5. ms \in ModelStatesIn(Levels)
    <3>1. [a EXCEPT !.ms = ms].ms = ms BY <2>2 DEF AuthsIn
    <3> QED BY <2>4, <3>1 DEF AuthsIn
  <2>6. b \in AuthsIn(Levels)
    <3>1. FALSE \in BOOLEAN OBVIOUS
    <3> QED BY <2>2, <2>5, <3>1, Zenon DEF AuthsIn
  <2> HIDE DEF b
  <2>7. updateAggregatedAvailability(b) \in AuthsIn(Levels) BY <1>1, <2>6, AggregateIn
  <2>8. PICK c : c = IF denied = {} THEN b ELSE updateAggregatedAvailability(b) OBVIOUS
  <2>9. c \in AuthsIn(Levels) BY <2>6, <2>7, <2>8
  <2>10. Update(c) BY <2>3, <2>8
  <2>11. auth' \in AuthsIn(Levels)' /\ due' \in Nat BY <2>1, <2>9, <2>10, UpdateIn
  <2>12. Bounded' BY <1>5, <2>1, <2>11, SameBounds DEF BoundInv, Bounded, EndRefresh
  <2>13. Counters' BY <1>5, <2>11 DEF BoundInv, Counters, EndRefresh
  <2> QED BY <2>12, <2>13 DEF BoundInv
<1>6. ASSUME RefreshUnauthorized PROVE BoundInv'
  <2>1. UNCHANGED <<windows, granted>> BY <1>6 DEF RefreshUnauthorized
  <2>2. [auth EXCEPT !.unavail = TRUE] \in AuthsIn(Levels) BY <1>1 DEF AuthsIn
  <2>3. auth' \in AuthsIn(Levels) BY <1>6, <2>2 DEF RefreshUnauthorized
  <2>4. Bounded' BY <1>6, <2>1, <2>3, SameBounds DEF BoundInv, Bounded, RefreshUnauthorized
  <2>5. Counters' BY <1>6 DEF BoundInv, Counters, RefreshUnauthorized
  <2> QED BY <2>4, <2>5 DEF BoundInv
<1> QED BY <1>2, <1>3, <1>4, <1>5, <1>6, <1>7

\* The end of the process and the start of the next one.
LEMMA RestartKeepsBounds ==
  ASSUME BoundInv, NEW ok \in BOOLEAN, Restart(ok)
  PROVE  BoundInv'
<1>1. LevelsUpTo(Levels, windows)
  BY LevelsAreNat DEF BoundInv, Counters, Bounded
<1>2. UNCHANGED <<windows, granted>> BY DEF Restart
<1>3. FreshAuth \in AuthsIn(Levels) BY <1>1, FreshStates DEF LevelsUpTo
<1>4. restored(FreshAuth, disk) \in AuthsIn(Levels)
  BY <1>1, <1>3, RestoredIn DEF BoundInv, Bounded, Records
<1>5. auth' = IF config.save THEN restored(FreshAuth, disk) ELSE FreshAuth BY DEF Restart
<1>6. auth' \in AuthsIn(Levels) BY <1>3, <1>4, <1>5
<1>7. disk' \subseteq Records
  <2>1. PICK a : a = IF config.save THEN restored(FreshAuth, disk) ELSE FreshAuth OBVIOUS
  <2>2. a \in AuthsIn(Levels) BY <1>3, <1>4, <2>1
  <2>3. cooldownStateRecords(a) \subseteq Records BY <1>1, <2>2, RecordsAreIn DEF Records
  <2>4. disk' = disk \/ disk' = cooldownStateRecords(a) BY <2>1, Zenon DEF Restart
  <2> QED BY <2>3, <2>4 DEF BoundInv, Bounded
<1>8. saver'.recs = {} /\ saver'.pc = "free" BY DEF Restart, Free
<1>9. loader'.recs = {} /\ loader'.pc = "idle" BY DEF Restart, Loaded
<1>12. registering'.ms = <<>> /\ <<>> \in ModelStatesIn(Levels)
  BY <1>1, FreshStates DEF LevelsUpTo, Restart, Registered
<1>10. Bounded' BY <1>2, <1>6, <1>7, <1>8, <1>9, <1>12, SameBounds DEF Bounded, Restart
<1>11. Counters' BY <1>8, <1>9 DEF BoundInv, Counters, Restart
<1> QED BY <1>10, <1>11 DEF BoundInv

-----------------------------------------------------------------------------
(***************************************************************************)
(* The theorems.                                                           *)
(***************************************************************************)

\* The invariant holds throughout.
THEOREM BoundInvariance == Spec => []BoundInv
<1>1. Init => BoundInv
  <2> SUFFICES ASSUME Init PROVE BoundInv OBVIOUS
  <2>1. windows \in Nat BY DEF Init
  <2>2. LevelsUpTo(Levels, windows) BY <2>1, LevelsAreNat
  <2>3. FreshAuth \in AuthsIn(Levels) BY <2>1, <2>2, FreshStates DEF LevelsUpTo
  <2>6. <<>> \in ModelStatesIn(Levels) BY <2>2, FreshStates DEF LevelsUpTo
  <2>4. Bounded BY <2>3, <2>6 DEF Init, Bounded, Free, Loaded, Registered
  <2>5. Counters BY CooldownAssumption DEF Init, Counters, Free, Loaded
  <2> QED BY <2>4, <2>5 DEF BoundInv
<1>2. BoundInv /\ [Next]_vars => BoundInv'
  <2> SUFFICES ASSUME BoundInv, [Next]_vars PROVE BoundInv' OBVIOUS
  <2>1. CASE Next
    BY <2>1, FailureKeepsBounds, SuccessKeepsBounds, TickKeepsBounds, SavesKeepBounds,
       OperationsKeepBounds, UpdatesKeepBounds, RestartKeepsBounds DEF Next
  <2>2. CASE UNCHANGED vars
    <3>1. UNCHANGED <<windows, granted>> BY <2>2 DEF vars
    <3>2. Bounded' BY <2>2, <3>1, SameBounds DEF vars, BoundInv, Bounded
    <3>3. Counters' BY <2>2 DEF vars, BoundInv, Counters
    <3> QED BY <3>2, <3>3 DEF BoundInv
  <2> QED BY <2>1, <2>2
<1> QED BY <1>1, <1>2, PTL DEF Spec

\* The credential, the file and the goroutines keep their types, and no
\* back-off level leaves the ladder of nextQuotaCooldown.
THEOREM CooldownTypeCorrect == Spec => []TypeOK
BY BoundInvariance, BoundsMean, PTL

\* A burst of failures climbs the ladder once per window: no level, in memory
\* or in the file, is higher than the number of windows that opened, whatever
\* reloads, refreshes and restarts brought back.
THEOREM LadderCountsWindowsHolds == Spec => []LadderCountsWindows
BY BoundInvariance, BoundsMean, PTL

-----------------------------------------------------------------------------
(***************************************************************************)
(* Deadlines.  A function g grants a set of deadlines to every model, and  *)
(* to the credential as a whole at least those of its models.  No          *)
(* operation makes a deadline of its own: it keeps one the model has,      *)
(* drops it, or chooses the earliest or the latest of those that are there.*)
(***************************************************************************)
Grants(g) == \A m \in Places : 0 \in g[m] /\ g[m] \subseteq g[Whole]

GrantedIn(x, D) == x.next \in D /\ x.q.rec \in D
GrantedStates(ms, g) == \A m \in DOMAIN ms : GrantedIn(ms[m], g[m])
GrantedAuth(a, g) == GrantedIn(a, g[Whole]) /\ GrantedStates(a.ms, g)
GrantedRecords(recs, g) == \A r \in recs : GrantedIn(r, g[r.model])

\* A state without a deadline.
LEMMA NothingGranted ==
  ASSUME NEW g, Grants(g)
  PROVE  /\ 0 \in g[Whole] /\ \A m \in Models : 0 \in g[m] /\ g[m] \subseteq g[Whole]
         /\ \A m \in Places : GrantedIn(Clean, g[m])
         /\ GrantedAuth(FreshAuth, g) /\ GrantedStates(<<>>, g) /\ GrantedRecords({}, g)
<1>1. 0 \in g[Whole] /\ \A m \in Models : 0 \in g[m] /\ g[m] \subseteq g[Whole]
  BY DEF Grants, Places
<1>2. \A m \in Places : GrantedIn(Clean, g[m]) BY DEF Grants, GrantedIn, Clean, NoQuota
<1>3. GrantedStates(<<>>, g) BY DEF GrantedStates
<1>4. GrantedAuth(FreshAuth, g) BY <1>1, <1>3 DEF GrantedAuth, GrantedIn, FreshAuth, NoQuota
<1> QED BY <1>1, <1>2, <1>3, <1>4 DEF GrantedRecords

\* More deadlines grant as much.
LEMMA MoreGranted ==
  ASSUME NEW L, NEW g, NEW h, \A m \in Places : g[m] \subseteq h[m]
  PROVE  /\ \A a \in AuthsIn(L) : GrantedAuth(a, g) => GrantedAuth(a, h)
         /\ \A ms \in ModelStatesIn(L) : GrantedStates(ms, g) => GrantedStates(ms, h)
         /\ \A recs : recs \subseteq RecordsIn(L) /\ GrantedRecords(recs, g) => GrantedRecords(recs, h)
<1>1. ASSUME NEW ms \in ModelStatesIn(L), GrantedStates(ms, g) PROVE GrantedStates(ms, h)
  <2>1. DOMAIN ms \subseteq Models BY ModelStates
  <2> QED BY <1>1, <2>1 DEF GrantedStates, GrantedIn, Places
<1>2. ASSUME NEW a \in AuthsIn(L), GrantedAuth(a, g) PROVE GrantedAuth(a, h)
  <2>1. a.ms \in ModelStatesIn(L) BY DEF AuthsIn
  <2>2. GrantedStates(a.ms, h) BY <1>1, <1>2, <2>1 DEF GrantedAuth
  <2>3. GrantedIn(a, h[Whole]) BY <1>2 DEF GrantedAuth, GrantedIn, Places
  <2> QED BY <2>2, <2>3 DEF GrantedAuth
<1>3. ASSUME NEW recs, recs \subseteq RecordsIn(L), GrantedRecords(recs, g)
      PROVE  GrantedRecords(recs, h)
  <2>1. \A r \in recs : r.model \in Places BY <1>3 DEF RecordsIn
  <2> QED BY <1>3, <2>1 DEF GrantedRecords, GrantedIn
<1> QED BY <1>1, <1>2, <1>3

\* Clearing a pause that has passed.
LEMMA SettledGranted ==
  ASSUME NEW L, NEW s \in StatesIn(L), NEW D, 0 \in D, GrantedIn(s, D)
  PROVE  GrantedIn(settled(s), D)
<1>1. PICK u : u = [s EXCEPT !.unavail = FALSE, !.next = 0] OBVIOUS
<1>2. u.next = 0 /\ u.q = s.q BY <1>1 DEF StatesIn
<1>3. settled(s) \in {s, u} BY <1>1 DEF settled
<1> QED BY <1>2, <1>3 DEF GrantedIn

\* The aggregation.
LEMMA AggregateGranted ==
  ASSUME NEW L, NEW W, LevelsUpTo(L, W), NEW a \in AuthsIn(L), NEW g, Grants(g), GrantedAuth(a, g)
  PROVE  GrantedAuth(updateAggregatedAvailability(a), g)
<1> DEFINE ms == [m \in DOMAIN a.ms |-> settled(a.ms[m])]
           all == \A m \in DOMAIN ms : Cooling(ms[m])
           exceeded == {m \in DOMAIN ms : ms[m].q.ex}
           recovers == {ms[m].q.rec : m \in exceeded} \ {0}
           rec == Max({a.q.rec} \union IF recovers = {} THEN {} ELSE {Min(recovers)})
           lvl == Max({ms[m].q.lvl : m \in exceeded})
           q == CASE exceeded # {} -> Quota(rec, lvl)
                  [] exceeded = {} /\ a.q.ex /\ a.q.rec > now -> a.q
                  [] OTHER -> NoQuota
           next == IF all THEN Min({ms[m].next : m \in DOMAIN ms}) ELSE 0
<1>1. /\ DOMAIN a.ms \subseteq Models /\ \A m \in DOMAIN a.ms : a.ms[m] \in StatesIn(L)
      /\ a.q.rec \in Nat /\ a.next \in g[Whole] /\ a.q.rec \in g[Whole]
      /\ \A m \in DOMAIN a.ms : GrantedIn(a.ms[m], g[m])
  BY StatesOf DEF AuthsIn, QuotasIn, GrantedAuth, GrantedIn, GrantedStates
<1>2. 0 \in g[Whole] /\ \A m \in DOMAIN a.ms : 0 \in g[m] /\ g[m] \subseteq g[Whole]
  BY <1>1, NothingGranted
<1>3. DOMAIN ms = DOMAIN a.ms
      /\ \A m \in DOMAIN ms : ms[m] \in StatesIn(L) /\ GrantedIn(ms[m], g[m])
  BY <1>1, <1>2, SettledIn, SettledGranted
<1>4. updateAggregatedAvailability(a) =
        CASE credentialQuota(a) -> [a EXCEPT !.unavail = TRUE]
          [] ~credentialQuota(a) /\ DOMAIN ms = {} -> clearAggregatedAvailability(a)
          [] OTHER -> [unavail |-> all, next |-> next, q |-> q, ms |-> ms]
  BY DEF updateAggregatedAvailability, ms
<1> HIDE DEF ms
<1>5. \A m \in DOMAIN ms : /\ ms[m].next \in Nat /\ ms[m].q.rec \in Nat
                           /\ ms[m].next \in g[Whole] /\ ms[m].q.rec \in g[Whole]
  BY <1>2, <1>3 DEF StatesIn, QuotasIn, GrantedIn
<1>6. rec \in g[Whole]
  <2>1. recovers \subseteq Nat /\ recovers \subseteq g[Whole] BY <1>5
  <2> HIDE DEF recovers
  <2>2. recovers # {} => Min(recovers) \in Nat /\ Min(recovers) \in g[Whole] BY <2>1, MinIsLeast
  <2>3. PICK y : y = IF recovers = {} THEN a.q.rec ELSE Min(recovers) OBVIOUS
  <2>4. y \in Nat /\ y \in g[Whole] BY <1>1, <2>2, <2>3
  <2>5. {a.q.rec} \union (IF recovers = {} THEN {} ELSE {Min(recovers)}) = {a.q.rec, y} BY <2>3
  <2>6. Max({a.q.rec, y}) \in {a.q.rec, y} BY <1>1, <2>4, MaxOfTwo
  <2> QED BY <1>1, <2>4, <2>5, <2>6
<1> HIDE DEF rec, lvl
<1>7. q.rec \in g[Whole]
  <2>1. CASE exceeded # {}
    <3>1. q = Quota(rec, lvl) BY <2>1
    <3>2. q.rec = rec BY <3>1 DEF Quota
    <3> QED BY <1>6, <3>2
  <2>2. CASE exceeded = {}
    <3>1. q \in {a.q, NoQuota} BY <2>2
    <3>2. NoQuota.rec = 0 BY DEF NoQuota
    <3> QED BY <1>1, <1>2, <3>1, <3>2
  <2> QED BY <2>1, <2>2
<1>8. DOMAIN ms # {} => next \in g[Whole]
  <2> SUFFICES ASSUME DOMAIN ms # {} PROVE Min({ms[m].next : m \in DOMAIN ms}) \in g[Whole]
    BY <1>2
  <2> DEFINE N == {ms[m].next : m \in DOMAIN ms}
  <2>1. N \subseteq Nat /\ N \subseteq g[Whole] /\ N # {} BY <1>5
  <2> HIDE DEF N
  <2>2. Min(N) \in g[Whole] BY <2>1, MinIsLeast
  <2> QED BY <2>2 DEF N
<1> HIDE DEF q, next, all
<1>9. PICK b : b = [a EXCEPT !.unavail = TRUE] OBVIOUS
<1>10. GrantedAuth(b, g)
  <2>1. b.next = a.next /\ b.q = a.q /\ b.ms = a.ms BY <1>9 DEF AuthsIn
  <2> QED BY <2>1 DEF GrantedAuth, GrantedIn
<1>11. PICK c : c = clearAggregatedAvailability(a) OBVIOUS
<1>12. GrantedAuth(c, g)
  <2>1. c.next = 0 /\ c.q.rec = 0 /\ c.ms = a.ms
    BY <1>11 DEF clearAggregatedAvailability, AuthsIn, NoQuota
  <2> QED BY <1>2, <2>1 DEF GrantedAuth, GrantedIn
<1>13. PICK d : d = [unavail |-> all, next |-> next, q |-> q, ms |-> ms] OBVIOUS
<1>14. DOMAIN ms # {} => GrantedAuth(d, g)
  <2>1. d.next = next /\ d.q = q /\ d.ms = ms BY <1>13
  <2> QED BY <1>3, <1>7, <1>8, <2>1 DEF GrantedAuth, GrantedIn, GrantedStates
<1>15. updateAggregatedAvailability(a) \in {b, c} \/
       (DOMAIN ms # {} /\ updateAggregatedAvailability(a) = d)
  BY <1>4, <1>9, <1>11, <1>13
<1> QED BY <1>10, <1>12, <1>14, <1>15

\* A model's state is made, or replaced.
LEMMA SetStateGranted ==
  ASSUME NEW L, 0 \in L, NEW a \in AuthsIn(L), NEW g, Grants(g), GrantedAuth(a, g), NEW m \in Models
  PROVE  /\ GrantedAuth(ensureModelState(a, m), g)
         /\ \A s \in StatesIn(L) : m \in DOMAIN a.ms /\ GrantedIn(s, g[m]) =>
              GrantedAuth([a EXCEPT !.ms[m] = s], g)
<1>1. PICK b : b = ensureModelState(a, m) OBVIOUS
<1>2. /\ DOMAIN b.ms = DOMAIN a.ms \union {m} /\ b.next = a.next /\ b.q = a.q
      /\ \A n \in DOMAIN a.ms : b.ms[n] = a.ms[n]
      /\ m \notin DOMAIN a.ms => b.ms[m] = Clean
  BY <1>1, EnsureIn
<1>3. GrantedIn(Clean, g[m]) BY NothingGranted DEF Places
<1>4. GrantedAuth(b, g) BY <1>2, <1>3 DEF GrantedAuth, GrantedIn, GrantedStates
<1>5. ASSUME NEW s \in StatesIn(L), m \in DOMAIN a.ms, GrantedIn(s, g[m]), NEW c, c = [a EXCEPT !.ms[m] = s]
      PROVE  GrantedAuth(c, g)
  <2>1. c.ms = [a.ms EXCEPT ![m] = s] /\ c.next = a.next /\ c.q = a.q BY <1>5, SetStateIn
  <2> QED BY <1>5, <2>1 DEF GrantedAuth, GrantedIn, GrantedStates
<1> QED BY <1>1, <1>4, <1>5

\* Cooldowns are cleared.
LEMMA ClearGranted ==
  ASSUME NEW L, NEW W, LevelsUpTo(L, W), NEW a \in AuthsIn(L), NEW g, Grants(g), GrantedAuth(a, g)
  PROVE  GrantedAuth(clearCooldownStateForAuth(a), g)
<1> DEFINE ms == [m \in DOMAIN a.ms |-> clearedState(a.ms[m])]
           b == [clearedState(a) EXCEPT !.ms = ms]
<1>1. DOMAIN a.ms \subseteq Models /\ \A m \in DOMAIN a.ms : a.ms[m] \in StatesIn(L) BY StatesOf
<1>2. 0 \in g[Whole] /\ \A m \in DOMAIN a.ms : 0 \in g[m] BY <1>1, NothingGranted
<1>3. ASSUME NEW m \in DOMAIN a.ms PROVE GrantedIn(clearedState(a.ms[m]), g[m])
  <2>1. PICK s : s = a.ms[m] OBVIOUS
  <2>2. s \in StatesIn(L) /\ GrantedIn(s, g[m]) BY <1>1, <2>1 DEF GrantedAuth, GrantedStates
  <2>3. PICK u : u = [s EXCEPT !.unavail = FALSE, !.next = 0, !.q = NoQuota] OBVIOUS
  <2>4. u.next = 0 /\ u.q.rec = 0 BY <2>2, <2>3 DEF StatesIn, NoQuota
  <2>5. clearedState(s) \in {s, u} BY <2>3 DEF clearedState
  <2> QED BY <1>2, <2>1, <2>2, <2>4, <2>5 DEF GrantedIn
<1>4. /\ DOMAIN ms = DOMAIN a.ms /\ DOMAIN ms \subseteq Models /\ ms \in [DOMAIN ms -> StatesIn(L)]
      /\ GrantedStates(ms, g)
  BY <1>1, <1>3, ClearedIn DEF GrantedStates
<1>5. clearedState(a) \in AuthsIn(L) BY ClearedIn
<1>6. GrantedIn(clearedState(a), g[Whole])
  <2>1. PICK u : u = [a EXCEPT !.unavail = FALSE, !.next = 0, !.q = NoQuota] OBVIOUS
  <2>2. u.next = 0 /\ u.q.rec = 0 BY <2>1 DEF AuthsIn, NoQuota
  <2>3. clearedState(a) \in {a, u} BY <2>1 DEF clearedState
  <2> QED BY <1>2, <2>2, <2>3 DEF GrantedAuth, GrantedIn
<1>7. clearCooldownStateForAuth(a) =
        IF DOMAIN a.ms = {} THEN b ELSE updateAggregatedAvailability(b)
  BY Zenon DEF clearCooldownStateForAuth
<1> HIDE DEF ms
<1>8. b \in AuthsIn(L) /\ b.ms = ms BY <1>4, <1>5, WithStates
<1>9. b.next = clearedState(a).next /\ b.q = clearedState(a).q BY <1>5 DEF AuthsIn
<1> HIDE DEF b
<1>10. GrantedAuth(b, g) BY <1>4, <1>6, <1>8, <1>9 DEF GrantedAuth, GrantedIn
<1> QED BY <1>7, <1>8, <1>10, AggregateGranted

\* Models get a clean state.
LEMMA ResetGranted ==
  ASSUME NEW L, NEW a \in AuthsIn(L), NEW g, Grants(g), GrantedAuth(a, g), NEW D
  PROVE  /\ GrantedAuth([a EXCEPT !.ms = [m \in DOMAIN a.ms |-> Clean]], g)
         /\ GrantedStates([m \in DOMAIN a.ms |-> IF m \in D THEN Clean ELSE a.ms[m]], g)
<1>1. \A m \in DOMAIN a.ms : GrantedIn(Clean, g[m]) BY StatesOf, NothingGranted DEF Places
<1>2. PICK b : b = [a EXCEPT !.ms = [m \in DOMAIN a.ms |-> Clean]] OBVIOUS
<1>3. b.next = a.next /\ b.q = a.q /\ b.ms = [m \in DOMAIN a.ms |-> Clean] BY <1>2 DEF AuthsIn
<1>4. GrantedAuth(b, g) BY <1>1, <1>3 DEF GrantedAuth, GrantedIn, GrantedStates
<1>5. GrantedStates([m \in DOMAIN a.ms |-> IF m \in D THEN Clean ELSE a.ms[m]], g)
  BY <1>1 DEF GrantedAuth, GrantedStates
<1> QED BY <1>2, <1>4, <1>5

\* A credential-wide quota failure spreads a deadline that all are granted.
LEMMA ScopeGranted ==
  ASSUME NEW L, NEW a \in AuthsIn(L), NEW g, Grants(g), GrantedAuth(a, g), NEW m \in DOMAIN a.ms,
         \A n \in Places : a.ms[m].next \in g[n]
  PROVE  GrantedAuth(credentialScope(a, m), g)
<1> DEFINE until == a.ms[m].next
           lvl == a.ms[m].q.lvl
           t(s) == IF s.q.ex THEN Max({until, s.q.rec}) ELSE until
           Spread(s) == [s EXCEPT !.unavail = TRUE, !.next = t(s), !.q = Quota(t(s), lvl)]
           authNext == Max({until, a.q.rec})
           q == [a.q EXCEPT !.ex = TRUE, !.cred = TRUE, !.rec = authNext]
           ms == [n \in DOMAIN a.ms |-> IF n = m THEN a.ms[n] ELSE Spread(a.ms[n])]
<1>1. /\ DOMAIN a.ms \subseteq Models /\ \A n \in DOMAIN a.ms : a.ms[n] \in StatesIn(L)
      /\ a.q \in QuotasIn(L) /\ a.q.rec \in Nat /\ a.q.rec \in g[Whole]
      /\ \A n \in DOMAIN a.ms : GrantedIn(a.ms[n], g[n])
  BY StatesOf DEF AuthsIn, QuotasIn, GrantedAuth, GrantedIn, GrantedStates
<1>2. /\ until \in Nat /\ until \in g[Whole] /\ \A n \in DOMAIN a.ms : until \in g[n]
  BY <1>1 DEF StatesIn, Places
<1>3. credentialScope(a, m) = [unavail |-> TRUE, next |-> authNext, q |-> q, ms |-> ms]
  BY Zenon DEF credentialScope
<1> HIDE DEF until, lvl
<1>4. ASSUME NEW n \in DOMAIN a.ms PROVE GrantedIn(Spread(a.ms[n]), g[n])
  <2>1. PICK s : s = a.ms[n] OBVIOUS
  <2>2. s \in StatesIn(L) /\ s.q.rec \in Nat /\ s.q.rec \in g[n]
    BY <1>1, <2>1 DEF StatesIn, QuotasIn, GrantedIn
  <2>3. Max({until, s.q.rec}) \in {until, s.q.rec} BY <1>2, <2>2, MaxOfTwo
  <2>4. t(s) \in g[n] BY <1>2, <2>2, <2>3
  <2> HIDE DEF t
  <2>5. Spread(s).next = t(s) /\ Spread(s).q.rec = t(s) BY <2>2 DEF StatesIn, Quota
  <2> QED BY <2>1, <2>4, <2>5 DEF GrantedIn
<1>5. authNext \in g[Whole] BY <1>1, <1>2, MaxOfTwo
<1> HIDE DEF authNext, Spread
<1>6. q.rec = authNext BY <1>1 DEF QuotasIn
<1>7. GrantedStates(ms, g) BY <1>1, <1>4 DEF GrantedStates
<1> HIDE DEF q, ms
<1>8. PICK c : c = credentialScope(a, m) OBVIOUS
<1>9. c.next = authNext /\ c.q = q /\ c.ms = ms BY <1>3, <1>8
<1>10. GrantedAuth(c, g) BY <1>5, <1>6, <1>7, <1>9 DEF GrantedAuth, GrantedIn
<1> QED BY <1>8, <1>10

\* The deadlines a failure calls for.
Called(s, f) == {now + p : p \in calledFor(s, f)}

\* A window of the model that is still open.
OpenWindow(s) == {s.q.rec} \ 0 .. now

\* The deadline of a 429 is the one it calls for or the end of the open window.
LEMMA QuotaUntilCalled ==
  ASSUME NEW L, L \subseteq Nat, NEW s \in StatesIn(L), NEW f \in Failures, now \in Nat \ {0},
         f.kind = "quota", ~coolingOff(f)
  PROVE  quotaUntil(s.q, f).until \in Called(s, f) \union OpenWindow(s)
<1>1. s.q.rec \in Nat /\ s.q.lvl \in L /\ s.q.lvl \in Nat /\ f.after \in Nat
  BY CooldownAssumption DEF StatesIn, QuotasIn
<1>2. PICK rung : rung = nextQuotaCooldown(s.q.lvl).pause OBVIOUS
<1>3. rung \in Nat BY <1>1, <1>2, LadderStep, CooldownAssumption
<1> DEFINE step == IF f.after > 0 THEN [until |-> now + f.after, lvl |-> s.q.lvl]
                   ELSE quotaCooldownAfterFailure(s.q)
<1>4. quotaUntil(s.q, f) = [step EXCEPT !.until = IF s.q.ex THEN Max({@, s.q.rec}) ELSE @]
  BY Zenon DEF quotaUntil
<1>5. ASSUME NEW u \in Nat, NEW l, step = [until |-> u, lvl |-> l]
      PROVE  quotaUntil(s.q, f).until \in {u, s.q.rec} /\ u <= quotaUntil(s.q, f).until
  <2>1. Max({u, s.q.rec}) \in {u, s.q.rec} /\ u <= Max({u, s.q.rec}) BY <1>1, MaxOfTwo
  <2> HIDE DEF step
  <2>2. quotaUntil(s.q, f).until = IF s.q.ex THEN Max({u, s.q.rec}) ELSE u BY <1>4, <1>5
  <2> QED BY <2>1, <2>2
<1>6. CASE f.after > 0
  <2>1. calledFor(s, f) = {f.after} BY <1>6 DEF calledFor
  <2>2. now + f.after \in Called(s, f) BY <2>1 DEF Called
  <2>3. step = [until |-> now + f.after, lvl |-> s.q.lvl] /\ now + f.after \in Nat BY <1>1, <1>6
  <2>4. PICK u : u = quotaUntil(s.q, f).until OBVIOUS
  <2> HIDE DEF step
  <2>5. u \in {now + f.after, s.q.rec} /\ now + f.after <= u BY <1>5, <2>3, <2>4
  <2>6. u = s.q.rec => u \in OpenWindow(s) BY <1>1, <1>6, <2>5 DEF OpenWindow
  <2> QED BY <2>2, <2>4, <2>5, <2>6
<1>7. CASE ~(f.after > 0) /\ s.q.rec > now
  <2>1. step = [until |-> s.q.rec, lvl |-> s.q.lvl] BY <1>7 DEF quotaCooldownAfterFailure
  <2> HIDE DEF step
  <2>2. quotaUntil(s.q, f).until = s.q.rec BY <1>1, <1>5, <2>1
  <2>3. s.q.rec \in OpenWindow(s) BY <1>1, <1>7 DEF OpenWindow
  <2> QED BY <2>2, <2>3
<1>8. CASE ~(f.after > 0) /\ ~(s.q.rec > now)
  <2>1. step = [until |-> now + rung, lvl |-> nextQuotaCooldown(s.q.lvl).lvl]
    BY <1>2, <1>8 DEF quotaCooldownAfterFailure
  <2>2. f.after = 0 /\ s.q.rec <= now /\ now + rung \in Nat BY <1>1, <1>3, <1>8
  <2>3. calledFor(s, f) = {p \in {rung} : s.q.rec <= now} BY <1>2, <2>2 DEF calledFor
  <2>4. now + rung \in Called(s, f) BY <2>2, <2>3 DEF Called
  <2>5. PICK u : u = quotaUntil(s.q, f).until OBVIOUS
  <2> HIDE DEF step
  <2>6. u \in {now + rung, s.q.rec} /\ now + rung <= u BY <1>5, <2>1, <2>2, <2>5
  <2>7. u = now + rung BY <1>1, <1>3, <2>2, <2>6
  <2> QED BY <2>4, <2>5, <2>7
<1> QED BY <1>6, <1>7, <1>8

\* The state a failure leaves has the deadlines it had or that the failure calls
\* for; that of a 429 has just one.
LEMMA FailedStateGranted ==
  ASSUME NEW L, L \subseteq Nat, NEW s \in StatesIn(L), NEW f \in Failures, now \in Nat \ {0},
         NEW D, 0 \in D, GrantedIn(s, D), Called(s, f) \subseteq D
  PROVE  /\ GrantedIn(failedState(s, f), D)
         /\ f.kind = "quota" /\ ~coolingOff(f) =>
              failedState(s, f).next \in Called(s, f) \union OpenWindow(s)
<1> DEFINE off == coolingOff(f)
           s1 == [s EXCEPT !.unavail = TRUE,
                           !.err = IF f.kind = "unauthorized" THEN "401" ELSE "other"]
           step == CASE off -> [until |-> 0, lvl |-> s.q.lvl]
                     [] ~off /\ f.kind = "quota" -> quotaUntil(s.q, f)
                     [] OTHER -> nextCloudflareCooldown(s.q)
           next == recoverableFailureRetryAfter(f)
           s2 == CASE f.kind = "unsupported" -> [s1 EXCEPT !.next = now + LongPause]
                   [] f.kind \in {"suspend", "unauthorized"} ->
                        [s1 EXCEPT !.next = IF off THEN 0 ELSE now + LongPause]
                   [] f.kind = "transient" -> [s1 EXCEPT !.next = next, !.unavail = next # 0]
                   [] OTHER -> [s1 EXCEPT !.next = step.until, !.q = Quota(step.until, step.lvl)]
           s3 == IF off /\ s2.next = 0 /\ s2.q.rec = 0
                 THEN [s2 EXCEPT !.unavail = FALSE, !.q.ex = FALSE] ELSE s2
<1>1. failedState(s, f) =
        IF f.force /\ s3.next = 0 THEN [s3 EXCEPT !.next = now + ForcePause, !.unavail = TRUE] ELSE s3
  BY Zenon DEF failedState
<1>2. /\ f.after \in Nat /\ f.kind \in Kinds
      /\ {LongPause, Transient, ForcePause, CloudflareMin} \subseteq Nat
      /\ LongPause # 0 /\ ForcePause # 0 /\ (off => ~f.force)
  BY CooldownAssumption DEF coolingOff
<1>3. s.q.rec \in Nat /\ s.q.lvl \in Nat /\ s.q.rec \in D BY DEF StatesIn, QuotasIn, GrantedIn
<1>4. s1.q = s.q /\ DOMAIN s1 = {"unavail", "next", "q", "err"} BY DEF StatesIn
<1>5. f.kind \in {"quota", "cloudflare"} =>
        /\ step.until \in D /\ step.until \in Nat /\ (~off => step.until # 0)
        /\ f.kind = "quota" /\ ~off => step.until \in Called(s, f) \union OpenWindow(s)
  <2>1. CASE off
    <3>1. step.until = 0 BY <2>1
    <3> QED BY <2>1, <3>1
  <2>2. CASE ~off /\ f.kind = "quota"
    <3>1. step = quotaUntil(s.q, f) BY <2>2
    <3>2. quotaUntil(s.q, f).until \in Called(s, f) \union OpenWindow(s) BY <2>2, QuotaUntilCalled
    <3> DEFINE K == L \union {nextQuotaCooldown(l).lvl : l \in L}
    <3>3. K \subseteq Nat /\ L \subseteq K /\ \A l \in L : nextQuotaCooldown(l).lvl \in K
      <4>1. \A l \in L : nextQuotaCooldown(l).lvl \in Nat BY LadderStep
      <4> QED BY <4>1
    <3> HIDE DEF K
    <3>4. quotaUntil(s.q, f).until \in Nat \ {0} BY <2>2, <3>3, QuotaUntilIn
    <3> HIDE DEF step
    <3>5. OpenWindow(s) \subseteq D BY <1>3 DEF OpenWindow
    <3> QED BY <3>1, <3>2, <3>4, <3>5
  <2>3. CASE ~off /\ f.kind = "cloudflare"
    <3>1. step = nextCloudflareCooldown(s.q) BY <2>3
    <3>2. PICK p : p = Max({nextQuotaCooldown(s.q.lvl).pause, CloudflareMin}) OBVIOUS
    <3>3. nextCloudflareCooldown(s.q).until = now + p BY <3>2, Zenon DEF nextCloudflareCooldown
    <3>4. calledFor(s, f) = {p} BY <2>3, <3>2 DEF calledFor
    <3>5. nextQuotaCooldown(s.q.lvl).pause \in Nat BY <1>3, LadderStep, CooldownAssumption
    <3>6. p \in Nat BY <1>2, <3>2, <3>5, MaxOfTwo
    <3>7. now + p \in Called(s, f) BY <3>4 DEF Called
    <3> HIDE DEF step
    <3> QED BY <2>3, <3>1, <3>3, <3>6, <3>7
  <2> QED BY <2>1, <2>2, <2>3
<1>6. f.kind = "transient" =>
        next \in D /\ (next = 0 /\ f.force => now + ForcePause \in D)
  <2> SUFFICES ASSUME f.kind = "transient"
               PROVE  next \in D /\ (next = 0 /\ f.force => now + ForcePause \in D)
    OBVIOUS
  <2>1. CASE off \/ Transient = 0
    <3>1. next = 0 BY <2>1 DEF recoverableFailureRetryAfter
    <3>2. f.force => ~off /\ Transient = 0 BY <1>2, <2>1
    <3>3. f.force => calledFor(s, f) = {ForcePause} BY <3>2 DEF calledFor
    <3>4. f.force => now + ForcePause \in D BY <3>3 DEF Called
    <3> QED BY <3>1, <3>4
  <2>2. CASE ~off /\ Transient # 0
    <3>1. next = now + Transient BY <2>2 DEF recoverableFailureRetryAfter
    <3>2. calledFor(s, f) = {Transient} BY <2>2 DEF calledFor
    <3>3. now + Transient \in D BY <3>2 DEF Called
    <3>4. next # 0 BY <1>2, <3>1
    <3> QED BY <3>1, <3>3, <3>4
  <2> QED BY <2>1, <2>2
<1>7. f.kind \in {"suspend", "unauthorized", "unsupported"} =>
        /\ ~off \/ f.kind = "unsupported" => now + LongPause \in D /\ now + LongPause # 0
  <2> SUFFICES ASSUME f.kind \in {"suspend", "unauthorized", "unsupported"},
                      ~off \/ f.kind = "unsupported"
               PROVE  now + LongPause \in D /\ now + LongPause # 0
    OBVIOUS
  <2>1. calledFor(s, f) = {LongPause} BY DEF calledFor
  <2>2. now + LongPause \in D BY <2>1 DEF Called
  <2> QED BY <1>2, <2>2
<1> HIDE DEF s1, step, next
<1>8. /\ GrantedIn(s2, D) /\ DOMAIN s2 = {"unavail", "next", "q", "err"}
      /\ f.force /\ s2.next = 0 => f.kind = "transient" /\ now + ForcePause \in D
      /\ f.kind = "quota" /\ ~off =>
           s2.next # 0 /\ s2.next \in Called(s, f) \union OpenWindow(s)
  <2>1. CASE f.kind = "unsupported"
    <3>1. s2 = [s1 EXCEPT !.next = now + LongPause] BY <2>1
    <3>2. s2.next = now + LongPause /\ s2.q = s.q /\ DOMAIN s2 = {"unavail", "next", "q", "err"}
      BY <1>4, <3>1
    <3> HIDE DEF s2
    <3> QED BY <1>3, <1>7, <2>1, <3>2 DEF GrantedIn
  <2>2. CASE f.kind \in {"suspend", "unauthorized"}
    <3>1. PICK n : n = IF off THEN 0 ELSE now + LongPause OBVIOUS
    <3>2. s2 = [s1 EXCEPT !.next = n] BY <2>2, <3>1
    <3>3. s2.next = n /\ s2.q = s.q /\ DOMAIN s2 = {"unavail", "next", "q", "err"} BY <1>4, <3>2
    <3>4. n \in D /\ (f.force => n # 0) BY <1>2, <1>7, <2>2, <3>1
    <3> HIDE DEF s2
    <3> QED BY <1>3, <2>2, <3>3, <3>4 DEF GrantedIn
  <2>3. CASE f.kind = "transient"
    <3>1. s2 = [s1 EXCEPT !.next = next, !.unavail = next # 0] BY <2>3
    <3>2. s2.next = next /\ s2.q = s.q /\ DOMAIN s2 = {"unavail", "next", "q", "err"} BY <1>4, <3>1
    <3> HIDE DEF s2
    <3> QED BY <1>3, <1>6, <2>3, <3>2 DEF GrantedIn
  <2>4. CASE f.kind \in {"quota", "cloudflare"}
    <3>1. s2 = [s1 EXCEPT !.next = step.until, !.q = Quota(step.until, step.lvl)] BY <2>4
    <3>2. PICK q : q = Quota(step.until, step.lvl) OBVIOUS
    <3>3. q.rec = step.until BY <3>2 DEF Quota
    <3>4. s2.next = step.until /\ s2.q = q /\ DOMAIN s2 = {"unavail", "next", "q", "err"}
      BY <1>4, <3>1, <3>2
    <3> HIDE DEF s2
    <3> QED BY <1>2, <1>5, <2>4, <3>3, <3>4 DEF GrantedIn
  <2> QED BY <1>2, <2>1, <2>2, <2>3, <2>4 DEF Kinds
<1> HIDE DEF s2
<1>9. /\ s3.next = s2.next /\ GrantedIn(s3, D) /\ DOMAIN s3 = {"unavail", "next", "q", "err"}
  <2>1. CASE s3 = s2 BY <1>8, <2>1
  <2>2. CASE s3 # s2
    <3>1. s3 = [s2 EXCEPT !.unavail = FALSE, !.q.ex = FALSE] /\ s2.q.rec = 0 BY <2>2
    <3>2. s3.next = s2.next /\ s3.q = [s2.q EXCEPT !.ex = FALSE]
          /\ DOMAIN s3 = {"unavail", "next", "q", "err"}
      BY <1>8, <3>1
    <3>3. s3.q.rec = s2.q.rec BY <3>2
    <3> QED BY <1>8, <3>2, <3>3 DEF GrantedIn
  <2> QED BY <2>1, <2>2
<1> HIDE DEF s3
<1>10. CASE f.force /\ s3.next = 0
  <2>1. PICK u : u = [s3 EXCEPT !.next = now + ForcePause, !.unavail = TRUE] OBVIOUS
  <2>2. u.next = now + ForcePause /\ u.q = s3.q BY <1>9, <2>1
  <2>3. now + ForcePause \in D /\ f.kind # "quota" BY <1>8, <1>9, <1>10
  <2> QED BY <1>1, <1>9, <1>10, <2>1, <2>2, <2>3 DEF GrantedIn
<1> QED BY <1>1, <1>8, <1>9, <1>10

\* MarkResult.
LEMMA ResultsGranted ==
  ASSUME NEW L, NEW W, LevelsUpTo(L, W), NEW a \in AuthsIn(L), NEW m \in Models, now \in Nat \ {0},
         NEW g, Grants(g), GrantedAuth(a, g)
  PROVE  /\ GrantedAuth(succeeded(a, m), g)
         /\ \A f \in Failures :
              (/\ Called(StateOf(a, m), f) \subseteq g[m]
               /\ f.kind = "quota" /\ f.scope /\ ~coolingOff(f) =>
                    \A n \in Places : Called(StateOf(a, m), f) \union OpenWindow(StateOf(a, m)) \subseteq g[n])
              => GrantedAuth(failed(a, m, f), g)
<1>0. 0 \in L /\ L \subseteq Nat BY DEF LevelsUpTo
<1>1. PICK b : b = ensureModelState(a, m) OBVIOUS
<1>2. b \in AuthsIn(L) /\ m \in DOMAIN b.ms /\ b.ms[m] = StateOf(a, m) /\ GrantedAuth(b, g)
  BY <1>0, <1>1, EnsureIn, SetStateGranted DEF StateOf
<1>3. succeeded(a, m) \in {a, updateAggregatedAvailability([b EXCEPT !.ms[m] = Clean])}
  BY <1>1 DEF succeeded
<1>4. Clean \in StatesIn(L) /\ GrantedIn(Clean, g[m]) BY <1>0, FreshStates, NothingGranted DEF Places
<1>5. PICK c : c = [b EXCEPT !.ms[m] = Clean] OBVIOUS
<1>6. c \in AuthsIn(L) BY <1>2, <1>4, <1>5, SetStateIn
<1>7. GrantedAuth(c, g) BY <1>0, <1>2, <1>4, <1>5, SetStateGranted
<1>8. GrantedAuth(succeeded(a, m), g) BY <1>3, <1>5, <1>6, <1>7, AggregateGranted
<1>9. ASSUME NEW f \in Failures, NEW s, s = StateOf(a, m), Called(s, f) \subseteq g[m],
             f.kind = "quota" /\ f.scope /\ ~coolingOff(f) =>
               \A n \in Places : Called(s, f) \union OpenWindow(s) \subseteq g[n]
      PROVE  GrantedAuth(failed(a, m, f), g)
  <2>1. s \in StatesIn(L) /\ GrantedIn(s, g[m]) /\ 0 \in g[m]
    BY <1>2, <1>9, StatesOf, NothingGranted DEF GrantedAuth, GrantedStates
  <2>2. PICK u : u = failedState(s, f) OBVIOUS
  <2>3. /\ GrantedIn(u, g[m])
        /\ f.kind = "quota" /\ ~coolingOff(f) => u.next \in Called(s, f) \union OpenWindow(s)
    BY <1>0, <1>9, <2>1, <2>2, FailedStateGranted
  <2> DEFINE K == L \union {nextQuotaCooldown(l).lvl : l \in L}
             V == W + 1
  <2>4. LevelsUpTo(K, V) /\ L \subseteq K /\ K \subseteq Nat /\ 0 \in K
    <3>1. \A l \in L : l \in 0 .. W /\ W \in Nat BY DEF LevelsUpTo
    <3>2. \A l \in L : nextQuotaCooldown(l).lvl \in 0 .. V
      <4> SUFFICES ASSUME NEW l \in L PROVE nextQuotaCooldown(l).lvl \in 0 .. V OBVIOUS
      <4>1. nextQuotaCooldown(l).lvl = IF climbs(l) THEN l + 1 ELSE l BY <3>1, LadderStep
      <4> QED BY <3>1, <4>1
    <3>3. W \in Nat /\ V \in Nat /\ 0 .. W \subseteq 0 .. V /\ 0 .. V \subseteq Nat BY <1>0, <3>1
    <3> HIDE DEF V
    <3>4. K \subseteq 0 .. V BY <3>1, <3>2, <3>3
    <3> QED BY <1>0, <3>3, <3>4 DEF LevelsUpTo
  <2>5. \A l \in L : nextQuotaCooldown(l).lvl \in K OBVIOUS
  <2> HIDE DEF K, V
  <2>6. u \in StatesIn(K) BY <2>1, <2>2, <2>4, <2>5, FailedStateIn
  <2>7. b \in AuthsIn(K) BY <1>2, <2>4, Wider
  <2>8. PICK d : d = [b EXCEPT !.ms[m] = u] OBVIOUS
  <2>9. d \in AuthsIn(K) /\ d.ms = [b.ms EXCEPT ![m] = u] BY <1>2, <2>6, <2>7, <2>8, SetStateIn
  <2>10. GrantedAuth(d, g) BY <1>2, <2>3, <2>4, <2>6, <2>7, <2>8, SetStateGranted
  <2>11. m \in DOMAIN d.ms /\ d.ms[m] = u BY <1>2, <2>9
  <2>12. PICK e : e = IF f.kind = "quota" /\ f.scope /\ ~coolingOff(f) THEN credentialScope(d, m) ELSE d
    OBVIOUS
  <2>13. e \in AuthsIn(K) /\ GrantedAuth(e, g)
    <3>1. CASE f.kind = "quota" /\ f.scope /\ ~coolingOff(f)
      <4>1. \A n \in Places : d.ms[m].next \in g[n] BY <1>9, <2>3, <2>11, <3>1
      <4>2. e = credentialScope(d, m) BY <2>12, <3>1
      <4> QED BY <2>9, <2>10, <2>11, <4>1, <4>2, ScopeIn, ScopeGranted
    <3>2. CASE ~(f.kind = "quota" /\ f.scope /\ ~coolingOff(f)) BY <2>9, <2>10, <2>12, <3>2
    <3> QED BY <3>1, <3>2
  <2>14. failed(a, m, f) = updateAggregatedAvailability(e)
    BY <1>1, <1>2, <1>9, <2>2, <2>8, <2>12, Zenon DEF failed
  <2> QED BY <2>4, <2>13, <2>14, AggregateGranted
<1> QED BY <1>8, <1>9

\* What is written of a credential.
LEMMA RecordsGranted ==
  ASSUME NEW L, NEW a \in AuthsIn(L), NEW g, GrantedAuth(a, g)
  PROVE  GrantedRecords(cooldownStateRecords(a), g)
<1>1. \A r \in cooldownStateRecords(a) :
        \/ \E m \in DOMAIN a.ms : r.model = m /\ r.next = a.ms[m].next /\ r.q = a.ms[m].q
        \/ r.model = Whole /\ r.next = a.next /\ r.q = a.q
  BY DEF cooldownStateRecords, cooldownStateRecord
<1> QED BY <1>1 DEF GrantedRecords, GrantedAuth, GrantedStates, GrantedIn

\* A record merged into the state of its model.
LEMMA MergeGranted ==
  ASSUME NEW L, NEW r \in RecordsIn(L), NEW D, GrantedIn(r, D)
  PROVE  /\ recordQuota(r).rec \in D
         /\ \A s \in StatesIn(L) : GrantedIn(s, D) => GrantedIn(mergeModelState(s, r), D)
<1>1. r.q \in QuotasIn(L) /\ r.next \in Nat /\ r.next \in D /\ r.q.rec \in D
  BY DEF RecordsIn, GrantedIn
<1>2. PICK n : n = IF r.q.ex /\ r.q.rec = 0 THEN r.next ELSE r.q.rec OBVIOUS
<1>3. PICK q : q = recordQuota(r) OBVIOUS
<1>4. q.rec = n /\ n \in D /\ n \in Nat
  BY <1>1, <1>2, <1>3 DEF recordQuota, QuotasIn
<1>5. ASSUME NEW s \in StatesIn(L), GrantedIn(s, D) PROVE GrantedIn(mergeModelState(s, r), D)
  <2>1. s.next \in Nat /\ s.q.rec \in Nat /\ s.next \in D /\ s.q.rec \in D
    BY <1>5 DEF StatesIn, QuotasIn, GrantedIn
  <2>2. Max({s.next, r.next}) \in D BY <1>1, <2>1, MaxOfTwo
  <2>3. Max({s.q.rec, q.rec}) \in D BY <1>4, <2>1, MaxOfTwo
  <2>4. PICK p : p = [ex |-> s.q.ex \/ q.ex, cred |-> FALSE, rec |-> Max({s.q.rec, q.rec}),
                      lvl |-> Max({s.q.lvl, q.lvl})]
    OBVIOUS
  <2>5. p.rec = Max({s.q.rec, q.rec}) BY <2>4
  <2>6. PICK e : e = IF s.err # "none" THEN s.err ELSE r.err OBVIOUS
  <2>7. PICK u : u = mergeModelState(s, r) OBVIOUS
  <2>8. u = [unavail |-> TRUE, next |-> Max({s.next, r.next}), q |-> p, err |-> e]
    BY <1>3, <2>4, <2>6, <2>7, Zenon DEF mergeModelState
  <2>9. u.next = Max({s.next, r.next}) /\ u.q = p BY <2>8
  <2> QED BY <2>2, <2>3, <2>5, <2>7, <2>9 DEF GrantedIn
<1> QED BY <1>3, <1>4, <1>5

\* Restoring one record.
LEMMA RestoreModelGranted ==
  ASSUME NEW L, NEW W, LevelsUpTo(L, W), NEW a \in AuthsIn(L), NEW g, Grants(g), GrantedAuth(a, g),
         NEW recs, recs \subseteq RecordsIn(L), GrantedRecords(recs, g), NEW m
  PROVE  GrantedAuth(restoreModel(a, recs, m), g)
<1>1. CASE \E r \in recs : r.model = m
  <2>1. PICK r : r = CHOOSE x \in recs : x.model = m OBVIOUS
  <2>2. r \in recs BY <1>1, <2>1, Zenon
  <2>3. restoreModel(a, recs, m) = restoreCooldownRecord(a, r)
    BY <1>1, <2>1, Zenon DEF restoreModel
  <2>4. r \in RecordsIn(L) /\ GrantedIn(r, g[r.model]) BY <2>2 DEF GrantedRecords
  <2>5. CASE r.model = Whole
    <3>1. PICK b : b = [a EXCEPT !.unavail = TRUE, !.next = r.next, !.q = recordQuota(r)] OBVIOUS
    <3>2. b.next = r.next /\ b.q = recordQuota(r) /\ b.ms = a.ms BY <3>1 DEF AuthsIn
    <3>3. recordQuota(r).rec \in g[Whole] BY <2>4, <2>5, MergeGranted
    <3>4. GrantedAuth(b, g) BY <2>4, <2>5, <3>2, <3>3 DEF GrantedAuth, GrantedIn
    <3>5. restoreCooldownRecord(a, r) = a \/ restoreCooldownRecord(a, r) = b
      BY <2>5, <3>1, Zenon DEF restoreCooldownRecord
    <3> QED BY <2>3, <3>4, <3>5
  <2>6. CASE r.model # Whole
    <3>1. r.model \in Models /\ 0 \in L BY <2>4, <2>6 DEF RecordsIn, Places, LevelsUpTo
    <3>2. PICK b : b = ensureModelState(a, r.model) OBVIOUS
    <3>3. b \in AuthsIn(L) /\ r.model \in DOMAIN b.ms BY <3>1, <3>2, EnsureIn
    <3>4. GrantedAuth(b, g) BY <3>1, <3>2, SetStateGranted
    <3>5. PICK s : s = mergeModelState(b.ms[r.model], r) OBVIOUS
    <3>6. b.ms[r.model] \in StatesIn(L) /\ GrantedIn(b.ms[r.model], g[r.model])
      BY <3>3, <3>4, StatesOf DEF GrantedAuth, GrantedStates
    <3>7. s \in StatesIn(L) BY <2>4, <3>5, <3>6, MergeIn
    <3>8. GrantedIn(s, g[r.model]) BY <2>4, <3>5, <3>6, MergeGranted
    <3>9. PICK c : c = [b EXCEPT !.ms[r.model] = s] OBVIOUS
    <3>10. c \in AuthsIn(L) BY <3>3, <3>7, <3>9, SetStateIn
    <3>11. GrantedAuth(c, g) BY <3>1, <3>3, <3>4, <3>7, <3>8, <3>9, SetStateGranted
    <3>12. GrantedAuth(updateAggregatedAvailability(c), g) BY <3>10, <3>11, AggregateGranted
    <3>13. \/ restoreCooldownRecord(a, r) = a
           \/ restoreCooldownRecord(a, r) = updateAggregatedAvailability(c)
      BY <2>6, <3>2, <3>5, <3>9, Zenon DEF restoreCooldownRecord
    <3> QED BY <2>3, <3>12, <3>13
  <2> QED BY <2>5, <2>6
<1>2. CASE ~\E r \in recs : r.model = m
  <2>1. restoreModel(a, recs, m) = a BY <1>2, Zenon DEF restoreModel
  <2> QED BY <2>1
<1> QED BY <1>1, <1>2

\* Restoring a file.
LEMMA RestoredGranted ==
  ASSUME NEW L, NEW W, LevelsUpTo(L, W), NEW a \in AuthsIn(L), NEW g, Grants(g), GrantedAuth(a, g),
         NEW recs, recs \subseteq RecordsIn(L), GrantedRecords(recs, g)
  PROVE  GrantedAuth(restored(a, recs), g)
<1>1. PICK n, h :
        /\ n \in Nat
        /\ h[0] = a
        /\ \A k \in 1 .. n : h[k] = restoreModel(h[k - 1], recs, k)
        /\ \A k \in 0 .. n : h[k] \in AuthsIn(L)
        /\ restored(a, recs) = restoreModel(h[n], recs, Whole)
  BY RestoredSteps
<1> DEFINE Off == {k \in 0 .. n : ~GrantedAuth(h[k], g)}
<1>2. Off = {}
  <2> SUFFICES ASSUME Off # {} PROVE FALSE OBVIOUS
  <2>1. Off \subseteq Nat BY <1>1
  <2> HIDE DEF Off
  <2>2. PICK k \in Off : \A j \in Off : k <= j BY <2>1, LeastExists
  <2> USE DEF Off
  <2>3. k # 0 BY <1>1, <2>2
  <2>4. k \in 1 .. n /\ k - 1 \in 0 .. n /\ k - 1 < k BY <1>1, <2>2, <2>3
  <2>5. GrantedAuth(h[k - 1], g) /\ h[k - 1] \in AuthsIn(L) BY <1>1, <2>2, <2>4
  <2>6. GrantedAuth(restoreModel(h[k - 1], recs, k), g) BY <2>5, RestoreModelGranted
  <2>7. h[k] = restoreModel(h[k - 1], recs, k) BY <1>1, <2>4
  <2> QED BY <2>2, <2>6, <2>7
<1>3. h[n] \in AuthsIn(L) /\ GrantedAuth(h[n], g) BY <1>1, <1>2
<1> QED BY <1>1, <1>3, RestoreModelGranted

-----------------------------------------------------------------------------
(***************************************************************************)
(* The invariant.  Deadlines travel with the clone of a refresh, with the  *)
(* model states a registration has read, with a snapshot on its way to the *)
(* file, with the file and with the records a reload has read; wherever    *)
(* they are, each is one that was granted to the place it belongs to.      *)
(***************************************************************************)
GrantInv ==
  /\ Grants(granted)
  /\ GrantedAuth(auth, granted) /\ \A a \in clone : GrantedAuth(a, granted)
  /\ GrantedStates(registering.ms, granted)
  /\ GrantedRecords(disk, granted)
  /\ GrantedRecords(saver.recs, granted) /\ GrantedRecords(loader.recs, granted)

\* What the invariant takes after a step.
LEMMA GrantAfter ==
  ASSUME Grants(granted'), GrantedAuth(auth', granted'), \A a \in clone' : GrantedAuth(a, granted'),
         GrantedStates(registering'.ms, granted'), GrantedRecords(disk', granted'),
         GrantedRecords(saver'.recs, granted'), GrantedRecords(loader'.recs, granted')
  PROVE  GrantInv'
BY DEF GrantInv, Grants, GrantedAuth, GrantedIn, GrantedStates, GrantedRecords

\* Results: a failure grants what it calls for, and nothing is taken back.
LEMMA ResultsKeepGrants ==
  ASSUME BoundInv, GrantInv, NEW m \in Models
  PROVE  /\ MarkSuccess(m) => GrantInv'
         /\ \A f \in Failures : MarkFailure(m, f) => GrantInv'
<1>1. /\ LevelsUpTo(Levels, windows) /\ auth \in AuthsIn(Levels) /\ clone \subseteq AuthsIn(Levels)
      /\ registering.ms \in ModelStatesIn(Levels) /\ disk \subseteq RecordsIn(Levels)
      /\ saver.recs \subseteq RecordsIn(Levels) /\ loader.recs \subseteq RecordsIn(Levels)
      /\ now \in Nat \ {0}
  BY LevelsAreNat, CooldownAssumption DEF BoundInv, Counters, Bounded, Records
<1>2. ASSUME MarkSuccess(m) PROVE GrantInv'
  <2>1. GrantedAuth(succeeded(auth, m), granted) BY <1>1, ResultsGranted DEF GrantInv
  <2> QED BY <1>2, <2>1, GrantAfter DEF GrantInv, MarkSuccess, Result
<1>3. ASSUME NEW f \in Failures, MarkFailure(m, f) PROVE GrantInv'
  <2>1. PICK s : s = StateOf(auth, m) OBVIOUS
  <2>2. PICK wide : wide = (f.kind = "quota" /\ f.scope /\ ~coolingOff(f)) OBVIOUS
  <2>3. granted' = [n \in Places |->
           CASE wide -> granted[n] \union Called(s, f) \union OpenWindow(s)
             [] ~wide /\ n \in {m, Whole} -> granted[n] \union Called(s, f)
             [] OTHER -> granted[n]]
    BY <1>3, <2>1, <2>2, Zenon DEF MarkFailure, StateOf, Called, OpenWindow
  <2>4. PICK h : h = granted' OBVIOUS
  <2>5. m \in Places /\ Whole \in Places BY DEF Places
  <2>6. \A n \in Places : granted[n] \subseteq h[n] BY <2>3, <2>4
  <2>7. Called(s, f) \subseteq h[m] /\ Called(s, f) \subseteq h[Whole] BY <2>3, <2>4, <2>5
  <2>8. wide => \A n \in Places : Called(s, f) \union OpenWindow(s) \subseteq h[n] BY <2>3, <2>4
  <2>9. Grants(h)
    <3>1. \A n \in Places : 0 \in granted[n] /\ granted[n] \subseteq granted[Whole]
      BY DEF GrantInv, Grants
    <3>2. \A n \in Places : h[n] \subseteq h[Whole] BY <2>3, <2>4, <2>5, <3>1
    <3> QED BY <2>6, <3>1, <3>2 DEF Grants
  <2>10. GrantedAuth(auth, h) BY <1>1, <2>6, MoreGranted DEF GrantInv
  <2>11. GrantedAuth(failed(auth, m, f), h)
    BY <1>1, <2>1, <2>2, <2>7, <2>8, <2>9, <2>10, ResultsGranted
  <2>12. \A a \in clone : GrantedAuth(a, h) BY <1>1, <2>6, MoreGranted DEF GrantInv
  <2>13. GrantedStates(registering.ms, h) BY <1>1, <2>6, MoreGranted DEF GrantInv
  <2>14. /\ GrantedRecords(disk, h) /\ GrantedRecords(saver.recs, h)
         /\ GrantedRecords(loader.recs, h)
    BY <1>1, <2>6, MoreGranted DEF GrantInv
  <2>15. auth' = failed(auth, m, f) /\ UNCHANGED <<clone, registering, disk, saver, loader>>
    BY <1>3 DEF MarkFailure, Result
  <2> QED BY <2>4, <2>9, <2>11, <2>12, <2>13, <2>14, <2>15, GrantAfter
<1> QED BY <1>2, <1>3

\* Saving, and what a change of store leaves.
LEMMA SavesKeepGrants ==
  ASSUME BoundInv, GrantInv, SaveStep
  PROVE  GrantInv'
<1>1. auth \in AuthsIn(Levels) /\ GrantedRecords({}, granted)
  BY NothingGranted DEF BoundInv, Bounded, GrantInv
<1>2. ASSUME NEW ok, Release(ok)
      PROVE  GrantedRecords(saver'.recs, granted) /\ GrantedRecords(loader'.recs, granted)
  <2>1. saver'.recs = {} BY <1>2 DEF Release, Free
  <2>2. loader'.recs = {} \/ loader' = loader BY <1>2 DEF Release, Loaded
  <2> QED BY <1>1, <2>1, <2>2 DEF GrantInv
<1>3. CASE persistCooldownStates
  <2>1. saver'.recs = {} BY <1>3 DEF persistCooldownStates, Free
  <2> QED BY <1>1, <1>3, <2>1, GrantAfter DEF GrantInv, persistCooldownStates
<1>4. CASE cooldownStateRecordsSnapshot
  <2>1. GrantedRecords(saver'.recs, granted) /\ GrantedRecords(loader'.recs, granted)
    <3>1. CASE store
      <4>1. saver'.recs = cooldownStateRecords(auth) /\ loader' = loader
        BY <1>4, <3>1 DEF cooldownStateRecordsSnapshot
      <4> QED BY <1>1, <4>1, RecordsGranted DEF GrantInv
    <3>2. CASE ~store
      <4>1. Release(TRUE) BY <1>4, <3>2 DEF cooldownStateRecordsSnapshot
      <4> QED BY <1>2, <4>1
    <3> QED BY <3>1, <3>2
  <2>2. UNCHANGED <<granted, auth, clone, registering, disk>> BY <1>4 DEF cooldownStateRecordsSnapshot
  <2> QED BY <2>1, <2>2, GrantAfter DEF GrantInv
<1>5. ASSUME NEW ok \in BOOLEAN, Save(ok) PROVE GrantInv'
  <2>1. GrantedRecords(saver'.recs, granted) /\ GrantedRecords(loader'.recs, granted)
    BY <1>2, <1>5 DEF Save
  <2>2. disk' \in {saver.recs, disk} BY <1>5 DEF Save
  <2>3. UNCHANGED <<granted, auth, clone, registering>> BY <1>5 DEF Save
  <2> QED BY <2>1, <2>2, <2>3, GrantAfter DEF GrantInv
<1> QED BY <1>3, <1>4, <1>5 DEF SaveStep

\* The configuration, the reload and the reset of a quota.
LEMMA OperationsKeepGrants ==
  ASSUME BoundInv, GrantInv
  PROVE  /\ \A c \in [cooling : BOOLEAN, save : BOOLEAN] :
              ApplyConfigWithCooldownStateStore(c) => GrantInv'
         /\ LoadRecords => GrantInv'
         /\ RestoreCooldownStates => GrantInv'
         /\ \A ok \in BOOLEAN : ResetQuota(ok) => GrantInv'
<1>1. /\ LevelsUpTo(Levels, windows) /\ auth \in AuthsIn(Levels)
      /\ loader.recs \subseteq RecordsIn(Levels) /\ GrantedRecords({}, granted)
  BY LevelsAreNat, NothingGranted DEF BoundInv, Counters, Bounded, Records, GrantInv
<1>2. ASSUME NEW c \in [cooling : BOOLEAN, save : BOOLEAN], ApplyConfigWithCooldownStateStore(c)
      PROVE  GrantInv'
  <2>1. auth' \in {auth, clearCooldownStateForAuth(auth)}
    BY <1>2 DEF ApplyConfigWithCooldownStateStore
  <2>2. GrantedAuth(auth', granted) BY <1>1, <2>1, ClearGranted DEF GrantInv
  <2>3. saver'.recs = {} BY <1>2 DEF ApplyConfigWithCooldownStateStore, Free
  <2> QED BY <1>1, <1>2, <2>2, <2>3, GrantAfter DEF GrantInv, ApplyConfigWithCooldownStateStore
<1>3. ASSUME LoadRecords PROVE GrantInv'
  <2>1. loader'.recs = disk BY <1>3 DEF LoadRecords
  <2> QED BY <1>3, <2>1, GrantAfter DEF GrantInv, LoadRecords
<1>4. ASSUME RestoreCooldownStates PROVE GrantInv'
  <2>1. GrantedAuth(restored(auth, loader.recs), granted) BY <1>1, RestoredGranted DEF GrantInv
  <2>2. loader'.recs = {} BY <1>4 DEF RestoreCooldownStates, Loaded
  <2> QED BY <1>1, <1>4, <2>1, <2>2, GrantAfter DEF GrantInv, RestoreCooldownStates
<1>5. ASSUME NEW ok \in BOOLEAN, ResetQuota(ok) PROVE GrantInv'
  <2>1. PICK a : a = [auth EXCEPT !.ms = [m \in DOMAIN auth.ms |-> Clean]] OBVIOUS
  <2>2. a \in AuthsIn(Levels) BY <1>1, <2>1, ResetIn
  <2>3. GrantedAuth(a, granted) BY <1>1, <2>1, ResetGranted DEF GrantInv
  <2>4. auth' = clearCooldownStateForAuth(a) BY <1>5, <2>1, Zenon DEF ResetQuota
  <2>5. GrantedAuth(auth', granted) BY <1>1, <2>2, <2>3, <2>4, ClearGranted DEF GrantInv
  <2> QED BY <1>5, <2>5, GrantAfter DEF GrantInv, ResetQuota
<1> QED BY <1>2, <1>3, <1>4, <1>5

\* What an update keeps.
LEMMA UpdateGranted ==
  ASSUME BoundInv, GrantInv, NEW a \in AuthsIn(Levels), GrantedAuth(a, granted), Update(a),
         UNCHANGED <<windows, granted>>
  PROVE  GrantedAuth(auth', granted)
<1>1. LevelsUpTo(Levels, windows) /\ auth \in AuthsIn(Levels) /\ GrantedAuth(auth, granted)
  BY LevelsAreNat DEF BoundInv, Counters, Bounded, GrantInv
<1>2. PICK b : b = kept(a) OBVIOUS
<1>3. b \in AuthsIn(Levels) BY <1>1, <1>2, KeptIn
<1>4. GrantedAuth(b, granted)
  <2>1. b.ms \in {a.ms, auth.ms} /\ (<<b.next, b.q>> = <<a.next, a.q>> \/ <<b.next, b.q>> = <<auth.next, auth.q>>)
    BY <1>1, <1>2 DEF kept, AuthsIn
  <2> QED BY <1>1, <2>1 DEF GrantedAuth, GrantedIn
<1>5. auth' = IF config.cooling THEN b ELSE clearCooldownStateForAuth(b) BY <1>2, Zenon DEF Update
<1>6. GrantedAuth(clearCooldownStateForAuth(b), granted)
  BY <1>1, <1>3, <1>4, ClearGranted DEF GrantInv
<1> QED BY <1>4, <1>5, <1>6

\* Updates and refreshes.
LEMMA UpdatesKeepGrants ==
  ASSUME BoundInv, GrantInv
  PROVE  /\ prepareCoreAuth => GrantInv'
         /\ UpdateAuth => GrantInv'
         /\ ReconcileRegistryModelStates => GrantInv'
         /\ BeginRefresh => GrantInv'
         /\ \A a \in clone : EndRefresh(a) => GrantInv'
         /\ RefreshUnauthorized => GrantInv'
<1>1. LevelsUpTo(Levels, windows) /\ auth \in AuthsIn(Levels) /\ GrantedAuth(auth, granted)
  BY LevelsAreNat DEF BoundInv, Counters, Bounded, GrantInv
<1>2. GrantedStates(<<>>, granted) /\ GrantedAuth(FreshAuth, granted)
  BY NothingGranted DEF GrantInv
<1>3. ASSUME prepareCoreAuth PROVE GrantInv'
  <2>1. registering'.ms = auth.ms BY <1>3 DEF prepareCoreAuth
  <2>2. GrantedStates(registering'.ms, granted) BY <1>1, <2>1 DEF GrantedAuth
  <2> QED BY <1>3, <2>2, GrantAfter DEF GrantInv, prepareCoreAuth
<1>4. ASSUME UpdateAuth PROVE GrantInv'
  <2>1. FreshAuth \in AuthsIn(Levels) BY <1>1, FreshStates DEF LevelsUpTo
  <2>2. PICK a : a = [FreshAuth EXCEPT !.ms = registering.ms] OBVIOUS
  <2>3. a \in AuthsIn(Levels) BY <2>1, <2>2 DEF BoundInv, Bounded, AuthsIn
  <2>4. a.next = FreshAuth.next /\ a.q = FreshAuth.q /\ a.ms = registering.ms
    BY <2>1, <2>2 DEF AuthsIn
  <2>5. GrantedAuth(a, granted) BY <1>2, <2>4 DEF GrantInv, GrantedAuth, GrantedIn
  <2>6. Update(a) BY <1>4, <2>2 DEF UpdateAuth
  <2>7. UNCHANGED <<windows, granted, clone, disk, saver, loader>> /\ registering'.ms = <<>>
    BY <1>4 DEF UpdateAuth
  <2>8. GrantedAuth(auth', granted) BY <2>3, <2>5, <2>6, <2>7, UpdateGranted
  <2> QED BY <1>2, <2>7, <2>8, GrantAfter DEF GrantInv
<1>5. ASSUME ReconcileRegistryModelStates PROVE GrantInv'
  <2>1. PICK a : a = [auth EXCEPT !.ms = [m \in DOMAIN auth.ms |-> Clean]] OBVIOUS
  <2>2. a \in AuthsIn(Levels) BY <1>1, <2>1, ResetIn
  <2>3. GrantedAuth(a, granted) BY <1>1, <2>1, ResetGranted DEF GrantInv
  <2>4. GrantedAuth(updateAggregatedAvailability(a), granted)
    BY <1>1, <2>2, <2>3, AggregateGranted DEF GrantInv
  <2>5. auth' = auth \/ auth' = updateAggregatedAvailability(a)
    BY <1>5, <2>1, Zenon DEF ReconcileRegistryModelStates
  <2>6. GrantedAuth(auth', granted) BY <1>1, <2>4, <2>5
  <2>7. UNCHANGED <<granted, clone, disk, saver, loader>> /\ registering'.ms = <<>>
    BY <1>5 DEF ReconcileRegistryModelStates, Registered
  <2> QED BY <1>2, <2>6, <2>7, GrantAfter DEF GrantInv
<1>6. ASSUME BeginRefresh PROVE GrantInv'
  <2>1. clone' = {auth} /\ UNCHANGED <<granted, auth, registering, disk, saver, loader>>
    BY <1>6 DEF BeginRefresh
  <2> QED BY <1>1, <2>1, GrantAfter DEF GrantInv
<1>7. ASSUME NEW a \in clone, EndRefresh(a) PROVE GrantInv'
  <2>1. a \in AuthsIn(Levels) /\ GrantedAuth(a, granted) BY DEF BoundInv, Bounded, GrantInv
  <2> DEFINE denied == {m \in DOMAIN a.ms : a.ms[m].err = "401"}
             ms == [m \in DOMAIN a.ms |-> IF m \in denied THEN Clean ELSE a.ms[m]]
             b == [a EXCEPT !.unavail = FALSE, !.ms = ms]
  <2>2. Update(IF denied = {} THEN b ELSE updateAggregatedAvailability(b))
    BY <1>7, Zenon DEF EndRefresh
  <2>3. DOMAIN a.ms \subseteq Models /\ \A m \in DOMAIN a.ms : GrantedIn(Clean, granted[m])
    BY <2>1, StatesOf, NothingGranted DEF GrantInv, Places
  <2> HIDE DEF denied
  <2>4. GrantedStates(ms, granted) BY <2>1, <2>3 DEF GrantedStates, GrantedAuth
  <2>5. [a EXCEPT !.ms = ms] \in AuthsIn(Levels) BY <1>1, <2>1, ResetIn
  <2> HIDE DEF ms
  <2>6. ms \in ModelStatesIn(Levels)
    <3>1. [a EXCEPT !.ms = ms].ms = ms BY <2>1 DEF AuthsIn
    <3> QED BY <2>5, <3>1 DEF AuthsIn
  <2>7. b \in AuthsIn(Levels)
    <3>1. FALSE \in BOOLEAN OBVIOUS
    <3> QED BY <2>1, <2>6, <3>1, Zenon DEF AuthsIn
  <2>8. b.next = a.next /\ b.q = a.q /\ b.ms = ms BY <2>1 DEF AuthsIn
  <2> HIDE DEF b
  <2>9. GrantedAuth(b, granted) BY <2>1, <2>4, <2>8 DEF GrantedAuth, GrantedIn
  <2>10. /\ updateAggregatedAvailability(b) \in AuthsIn(Levels)
         /\ GrantedAuth(updateAggregatedAvailability(b), granted)
    BY <1>1, <2>7, <2>9, AggregateIn, AggregateGranted DEF GrantInv
  <2>11. PICK c : c = IF denied = {} THEN b ELSE updateAggregatedAvailability(b) OBVIOUS
  <2>12. c \in AuthsIn(Levels) /\ GrantedAuth(c, granted) BY <2>7, <2>9, <2>10, <2>11
  <2>13. Update(c) BY <2>2, <2>11
  <2>14. UNCHANGED <<windows, granted, registering, disk, saver, loader>> /\ clone' = {}
    BY <1>7 DEF EndRefresh
  <2>15. GrantedAuth(auth', granted) BY <2>12, <2>13, <2>14, UpdateGranted
  <2> QED BY <2>14, <2>15, GrantAfter DEF GrantInv
<1>8. ASSUME RefreshUnauthorized PROVE GrantInv'
  <2>1. auth' = [auth EXCEPT !.unavail = TRUE] /\ clone' = {}
        /\ UNCHANGED <<granted, registering, disk, saver, loader>>
    BY <1>8 DEF RefreshUnauthorized
  <2>2. auth'.next = auth.next /\ auth'.q = auth.q /\ auth'.ms = auth.ms
    BY <1>1, <2>1 DEF AuthsIn
  <2>3. GrantedAuth(auth', granted) BY <1>1, <2>2 DEF GrantedAuth, GrantedIn
  <2> QED BY <2>1, <2>3, GrantAfter DEF GrantInv
<1> QED BY <1>3, <1>4, <1>5, <1>6, <1>7, <1>8

\* The end of the process and the start of the next one.
LEMMA RestartKeepsGrants ==
  ASSUME BoundInv, GrantInv, NEW ok \in BOOLEAN, Restart(ok)
  PROVE  GrantInv'
<1>1. LevelsUpTo(Levels, windows) /\ disk \subseteq RecordsIn(Levels)
  BY LevelsAreNat DEF BoundInv, Counters, Bounded, Records
<1>2. /\ FreshAuth \in AuthsIn(Levels) /\ GrantedAuth(FreshAuth, granted)
      /\ GrantedStates(<<>>, granted) /\ GrantedRecords({}, granted)
  BY <1>1, FreshStates, NothingGranted DEF LevelsUpTo, GrantInv
<1>3. /\ restored(FreshAuth, disk) \in AuthsIn(Levels)
      /\ GrantedAuth(restored(FreshAuth, disk), granted)
  BY <1>1, <1>2, RestoredIn, RestoredGranted DEF GrantInv
<1>4. PICK a : a = IF config.save THEN restored(FreshAuth, disk) ELSE FreshAuth OBVIOUS
<1>5. a \in AuthsIn(Levels) /\ GrantedAuth(a, granted) BY <1>2, <1>3, <1>4
<1>6. auth' = a /\ (disk' = disk \/ disk' = cooldownStateRecords(a)) BY <1>4, Zenon DEF Restart
<1>7. GrantedRecords(disk', granted) BY <1>5, <1>6, RecordsGranted DEF GrantInv
<1>8. saver'.recs = {} /\ loader'.recs = {} /\ registering'.ms = <<>> /\ clone' = {}
      /\ granted' = granted
  BY DEF Restart, Free, Loaded, Registered
<1> QED BY <1>2, <1>5, <1>6, <1>7, <1>8, GrantAfter DEF GrantInv

\* The invariant holds throughout.
THEOREM GrantInvariance == Spec => []GrantInv
<1>1. Init => GrantInv
  <2> SUFFICES ASSUME Init PROVE GrantInv OBVIOUS
  <2>1. Grants(granted) BY DEF Init, Grants, Places
  <2>2. /\ GrantedAuth(FreshAuth, granted) /\ GrantedStates(<<>>, granted)
        /\ GrantedRecords({}, granted)
    BY <2>1, NothingGranted
  <2> QED BY <2>1, <2>2 DEF Init, GrantInv, Free, Loaded, Registered
<1>2. BoundInv /\ GrantInv /\ [Next]_vars => GrantInv'
  <2> SUFFICES ASSUME BoundInv, GrantInv, [Next]_vars PROVE GrantInv' OBVIOUS
  <2>1. CASE Tick BY <2>1, GrantAfter DEF Tick, GrantInv
  <2>2. CASE UNCHANGED vars BY <2>2, GrantAfter DEF vars, GrantInv
  <2> QED BY <2>1, <2>2, ResultsKeepGrants, SavesKeepGrants, OperationsKeepGrants,
             UpdatesKeepGrants, RestartKeepsGrants DEF Next
<1> QED BY <1>1, <1>2, BoundInvariance, PTL DEF Spec

\* No pause is prolonged, nor given to another model, by spreading, aggregating,
\* merging or restoring: every deadline the credential holds is exactly one that
\* a failure of that model, or a credential-wide one, called for.
THEOREM DeadlinesWereGrantedHolds == Spec => []DeadlinesWereGranted
<1>1. GrantInv => DeadlinesWereGranted
  BY DEF GrantInv, GrantedAuth, GrantedIn, GrantedStates, DeadlinesWereGranted
<1> QED BY <1>1, GrantInvariance, PTL

-----------------------------------------------------------------------------
(***************************************************************************)
(* The pause of the whole credential.                                      *)
(*                                                                         *)
(* A credential-wide quota is marked as such and lasts as long as the      *)
(* pause.  Any other pause is the shortest of the models' pauses, at the   *)
(* moment it is computed and for as long as it lasts: a model's pause is   *)
(* only ever changed together with the credential's.  Copies of the        *)
(* credential and its records have the same two properties, unless a       *)
(* reload spoiled them.                                                    *)
(***************************************************************************)
SoundQuota(x) == x.q.cred => x.q.ex /\ x.next <= x.q.rec

Waits(s, t) == s.unavail /\ s.next >= t

Total(a) ==
  (~a.q.cred /\ a.next > now) =>
    DOMAIN a.ms # {} /\ \A m \in DOMAIN a.ms : Waits(a.ms[m], a.next)

TotalRecords(recs) ==
  \A w \in recs : (w.model = Whole /\ ~w.q.cred /\ w.next > now) =>
    (\E r \in recs : r.model # Whole) /\ \A r \in recs : r.model # Whole => r.next >= w.next

SoundRecords(recs) == \A r \in recs : r.model = Whole => SoundQuota(r)

PauseInv ==
  /\ SoundQuota(auth) /\ \A a \in clone : SoundQuota(a)
  /\ SoundRecords(disk) /\ SoundRecords(saver.recs) /\ SoundRecords(loader.recs)
  /\ "manager" \notin stale => Total(auth)
  /\ "clone" \notin stale => \A a \in clone : Total(a)
  /\ "save" \notin stale => TotalRecords(saver.recs)
  /\ "file" \notin stale => TotalRecords(disk)

\* When the first of the models is back, if all of them are cooling.
Earliest(ms) == IF \A m \in DOMAIN ms : Cooling(ms[m])
                THEN Min({ms[m].next : m \in DOMAIN ms}) ELSE 0

\* What the aggregation returns, case by case.
LEMMA AggregateForm ==
  ASSUME NEW a, NEW u, u = updateAggregatedAvailability(a)
  PROVE  /\ credentialQuota(a) => u = [a EXCEPT !.unavail = TRUE]
         /\ ~credentialQuota(a) /\ DOMAIN a.ms = {} => u = clearAggregatedAvailability(a)
         /\ ~credentialQuota(a) /\ DOMAIN a.ms # {} =>
              /\ u.ms = [m \in DOMAIN a.ms |-> settled(a.ms[m])]
              /\ u.next = Earliest(u.ms)
              /\ ~u.q.cred
<1> DEFINE ms == [m \in DOMAIN a.ms |-> settled(a.ms[m])]
           all == \A m \in DOMAIN ms : Cooling(ms[m])
           exceeded == {m \in DOMAIN ms : ms[m].q.ex}
           recovers == {ms[m].q.rec : m \in exceeded} \ {0}
           until == Max({a.q.rec} \union IF recovers = {} THEN {} ELSE {Min(recovers)})
           level == Max({ms[m].q.lvl : m \in exceeded})
           q == CASE exceeded # {} -> Quota(until, level)
                  [] exceeded = {} /\ a.q.ex /\ a.q.rec > now -> a.q
                  [] OTHER -> NoQuota
           next == IF all THEN Min({ms[m].next : m \in DOMAIN ms}) ELSE 0
<1>1. updateAggregatedAvailability(a) =
        CASE credentialQuota(a) -> [a EXCEPT !.unavail = TRUE]
          [] ~credentialQuota(a) /\ DOMAIN ms = {} -> clearAggregatedAvailability(a)
          [] OTHER -> [unavail |-> all, next |-> next, q |-> q, ms |-> ms]
  BY DEF updateAggregatedAvailability
<1>2. DOMAIN ms = DOMAIN a.ms OBVIOUS
<1>3. ~(q.cred /\ ~(q = a.q /\ a.q.ex /\ a.q.rec > now))
  <2> HIDE DEF exceeded, until, level
  <2>1. ~Quota(until, level).cred /\ ~NoQuota.cred BY DEF Quota, NoQuota
  <2>2. \/ q = Quota(until, level)
        \/ q = NoQuota
        \/ q = a.q /\ a.q.ex /\ a.q.rec > now
    OBVIOUS
  <2> HIDE DEF q
  <2> QED BY <2>1, <2>2
<1> HIDE DEF q, next
<1>4. credentialQuota(a) => u = [a EXCEPT !.unavail = TRUE] BY <1>1
<1>5. ~credentialQuota(a) /\ DOMAIN a.ms = {} => u = clearAggregatedAvailability(a) BY <1>1, <1>2
<1>6. ASSUME ~credentialQuota(a), DOMAIN a.ms # {}
      PROVE  u.ms = ms /\ u.next = next /\ ~u.q.cred
  <2>1. u = [unavail |-> all, next |-> next, q |-> q, ms |-> ms] BY <1>1, <1>2, <1>6
  <2>2. ~q.cred BY <1>3, <1>6 DEF credentialQuota
  <2> QED BY <2>1, <2>2
<1>7. ASSUME u.ms = ms, u.next = next
      PROVE  u.next = Earliest(u.ms)
  <2> HIDE DEF ms
  <2> QED BY <1>7, Zenon DEF next, Earliest
<1> QED BY <1>4, <1>5, <1>6, <1>7

\* Its outcome has both properties, whatever pause the credential had, and
\* keeps the models' pauses that have not passed.
LEMMA AggregateTotal ==
  ASSUME NEW L, NEW W, LevelsUpTo(L, W), NEW a \in AuthsIn(L), now \in Nat,
         SoundQuota(a)
  PROVE  /\ SoundQuota(updateAggregatedAvailability(a)) /\ Total(updateAggregatedAvailability(a))
         /\ DOMAIN updateAggregatedAvailability(a).ms = DOMAIN a.ms
         /\ \A t \in Nat : (t > now /\ \A m \in DOMAIN a.ms : Waits(a.ms[m], t)) =>
              \A m \in DOMAIN a.ms : Waits(updateAggregatedAvailability(a).ms[m], t)
<1>1. PICK u : u = updateAggregatedAvailability(a) OBVIOUS
<1>2. /\ a.next \in Nat /\ a.q.rec \in Nat /\ a.q.cred \in BOOLEAN
      /\ \A m \in DOMAIN a.ms : a.ms[m] \in StatesIn(L)
  <2>1. a.next \in Nat /\ a.q \in QuotasIn(L) BY DEF AuthsIn
  <2> QED BY <2>1, StatesOf DEF QuotasIn
<1>3. CASE credentialQuota(a)
  <2>1. u = [a EXCEPT !.unavail = TRUE] BY <1>1, <1>3, AggregateForm
  <2>2. u.q = a.q /\ u.next = a.next /\ u.ms = a.ms BY <2>1 DEF AuthsIn
  <2>3. a.q.cred BY <1>3 DEF credentialQuota
  <2> QED BY <1>1, <2>2, <2>3 DEF SoundQuota, Total
<1>4. CASE ~credentialQuota(a) /\ DOMAIN a.ms = {}
  <2>1. u = [a EXCEPT !.unavail = FALSE, !.next = 0, !.q = NoQuota]
    BY <1>1, <1>4, AggregateForm DEF clearAggregatedAvailability
  <2>2. u.q = NoQuota /\ u.next = 0 /\ u.ms = a.ms BY <2>1 DEF AuthsIn
  <2> QED BY <1>1, <1>4, <2>2 DEF SoundQuota, Total, NoQuota
<1>5. CASE ~credentialQuota(a) /\ DOMAIN a.ms # {}
  <2>1. PICK ms : ms = u.ms OBVIOUS
  <2>2. ms = [m \in DOMAIN a.ms |-> settled(a.ms[m])] /\ ~u.q.cred
    BY <1>1, <1>5, <2>1, AggregateForm
  <2> DEFINE all == \A m \in DOMAIN ms : Cooling(ms[m])
  <2>3. u.next = Earliest(ms) BY <1>1, <1>5, <2>1, AggregateForm
  <2>4. u.next = IF all THEN Min({ms[m].next : m \in DOMAIN ms}) ELSE 0
    BY <2>3, Zenon DEF Earliest
  <2>5. DOMAIN ms = DOMAIN a.ms BY <2>2
  <2>6. \A m \in DOMAIN ms : ms[m].next \in Nat
    <3> SUFFICES ASSUME NEW m \in DOMAIN ms PROVE ms[m].next \in Nat OBVIOUS
    <3>1. settled(a.ms[m]) \in StatesIn(L) BY <1>2, <2>5, SettledIn
    <3>2. ms[m] = settled(a.ms[m]) BY <2>2, <2>5
    <3> QED BY <3>1, <3>2 DEF StatesIn
  <2>7. Total(u)
    <3>1. CASE all
      <4>1. \A m \in DOMAIN ms : ms[m].unavail BY <3>1 DEF Cooling
      <4>2. PICK N : N = {ms[m].next : m \in DOMAIN ms} OBVIOUS
      <4>3. N \subseteq Nat /\ N # {} /\ \A m \in DOMAIN ms : ms[m].next \in N
        BY <1>5, <2>5, <2>6, <4>2
      <4>4. Min(N) \in Nat /\ \A y \in N : Min(N) <= y BY <4>3, MinIsLeast
      <4>5. u.next = Min(N) BY <2>4, <3>1, <4>2
      <4>6. \A m \in DOMAIN ms : ms[m].next >= u.next BY <2>6, <4>3, <4>4, <4>5
      <4> QED BY <1>5, <2>1, <2>5, <4>1, <4>6 DEF Total, Waits
    <3>2. CASE ~all
      <4>1. u.next = 0 BY <2>4, <3>2
      <4> QED BY <4>1 DEF Total
    <3> QED BY <3>1, <3>2
  <2>8. SoundQuota(u) BY <2>2 DEF SoundQuota
  <2>9. ASSUME NEW t \in Nat, t > now, \A m \in DOMAIN a.ms : Waits(a.ms[m], t)
        PROVE  \A m \in DOMAIN a.ms : Waits(u.ms[m], t)
    <3> SUFFICES ASSUME NEW m \in DOMAIN a.ms PROVE Waits(u.ms[m], t) OBVIOUS
    <3>1. a.ms[m].next \in Nat BY <1>2 DEF StatesIn
    <3>2. ~(a.ms[m].next <= now) BY <2>9, <3>1 DEF Waits
    <3>3. settled(a.ms[m]) = a.ms[m] BY <3>2 DEF settled
    <3>4. u.ms[m] = a.ms[m] BY <2>1, <2>2, <3>3
    <3> QED BY <2>9, <3>4
  <2> QED BY <1>1, <2>1, <2>5, <2>7, <2>8, <2>9
<1> QED BY <1>3, <1>4, <1>5

\* A result.
LEMMA SucceededTotal ==
  ASSUME NEW L, NEW W, LevelsUpTo(L, W), NEW a \in AuthsIn(L), NEW m \in Models,
         now \in Nat, SoundQuota(a)
  PROVE  SoundQuota(succeeded(a, m)) /\ Total(succeeded(a, m))
<1>1. PICK b : b = ensureModelState(a, m) OBVIOUS
<1>2. b \in AuthsIn(L) /\ m \in DOMAIN b.ms /\ b.q = a.q /\ b.next = a.next
  BY <1>1, EnsureIn DEF LevelsUpTo
<1>3. Clean \in StatesIn(L) BY FreshStates DEF LevelsUpTo
<1>4. PICK c : c = [b EXCEPT !.ms[m] = Clean] OBVIOUS
<1>5. c \in AuthsIn(L) /\ c.q = b.q /\ c.next = b.next BY <1>2, <1>3, <1>4, SetStateIn
<1>6. SoundQuota(c) BY <1>2, <1>5 DEF SoundQuota
<1>7. /\ SoundQuota(updateAggregatedAvailability(c))
      /\ Total(updateAggregatedAvailability(c))
  BY <1>5, <1>6, AggregateTotal
<1>8. CASE a.q.cred /\ a.q.rec > now
  <2>1. succeeded(a, m) = a BY <1>8 DEF succeeded
  <2> QED BY <1>8, <2>1 DEF Total
<1>9. CASE ~(a.q.cred /\ a.q.rec > now)
  <2>1. succeeded(a, m) = updateAggregatedAvailability(c) BY <1>1, <1>4, <1>9, Zenon DEF succeeded
  <2> QED BY <1>7, <2>1
<1> QED BY <1>8, <1>9

\* Clearing.
LEMMA ClearTotal ==
  ASSUME NEW L, NEW W, LevelsUpTo(L, W), NEW a \in AuthsIn(L), now \in Nat,
         SoundQuota(a)
  PROVE  /\ SoundQuota(clearCooldownStateForAuth(a)) /\ Total(clearCooldownStateForAuth(a))
<1> DEFINE ms == [m \in DOMAIN a.ms |-> clearedState(a.ms[m])]
           b == [clearedState(a) EXCEPT !.ms = ms]
<1>1. DOMAIN a.ms \subseteq Models /\ \A m \in DOMAIN a.ms : a.ms[m] \in StatesIn(L)
  BY StatesOf
<1>2. DOMAIN ms \subseteq Models /\ ms \in [DOMAIN ms -> StatesIn(L)] BY <1>1, ClearedIn
<1>3. clearedState(a) \in AuthsIn(L) BY ClearedIn
<1>4. clearCooldownStateForAuth(a) =
        IF DOMAIN a.ms = {} THEN b ELSE updateAggregatedAvailability(b)
  BY Zenon DEF clearCooldownStateForAuth
<1>5. clearedState(a).next = 0 /\ SoundQuota(clearedState(a))
  <2>1. CASE a.unavail \/ a.next # 0 \/ a.q.ex \/ a.q.rec # 0
    <3>1. clearedState(a) = [a EXCEPT !.unavail = FALSE, !.next = 0, !.q = NoQuota]
      BY <2>1 DEF clearedState
    <3>2. clearedState(a).next = 0 /\ clearedState(a).q = NoQuota BY <3>1 DEF AuthsIn
    <3> QED BY <3>2 DEF SoundQuota, NoQuota
  <2>2. CASE ~(a.unavail \/ a.next # 0 \/ a.q.ex \/ a.q.rec # 0)
    <3>1. clearedState(a) = a BY <2>2 DEF clearedState
    <3> QED BY <2>2, <3>1
  <2> QED BY <2>1, <2>2
<1> HIDE DEF ms
<1>6. b \in AuthsIn(L) BY <1>2, <1>3, WithStates
<1>7. b.next = clearedState(a).next /\ b.q = clearedState(a).q BY <1>3 DEF AuthsIn
<1> HIDE DEF b
<1>8. SoundQuota(b) /\ Total(b) BY <1>5, <1>7 DEF SoundQuota, Total
<1>9. SoundQuota(updateAggregatedAvailability(b)) /\ Total(updateAggregatedAvailability(b))
  BY <1>6, <1>8, AggregateTotal
<1> QED BY <1>4, <1>8, <1>9

\* What Update keeps.
LEMMA KeptTotal ==
  ASSUME NEW L, NEW W, LevelsUpTo(L, W), NEW a \in AuthsIn(L),
         auth \in AuthsIn(L), now \in Nat, SoundQuota(a), SoundQuota(auth)
  PROVE  /\ kept(a) \in AuthsIn(L) /\ SoundQuota(kept(a))
         /\ Total(a) => Total(kept(a))
<1> DEFINE ms == IF DOMAIN a.ms = {} THEN auth.ms ELSE a.ms
           b == [a EXCEPT !.ms = ms]
           c == [b EXCEPT !.unavail = auth.unavail, !.next = auth.next, !.q = auth.q]
<1>1. DOMAIN ms \subseteq Models /\ ms \in [DOMAIN ms -> StatesIn(L)] BY StatesOf
<1>2. kept(a) = IF credentialQuota(auth) THEN c ELSE b BY Zenon DEF kept
<1>3. DOMAIN a.ms # {} => ms = a.ms OBVIOUS
<1> HIDE DEF ms
<1>4. b \in AuthsIn(L) /\ b.ms = ms BY <1>1, WithStates
<1>5. b.q = a.q /\ b.next = a.next BY DEF AuthsIn
<1> HIDE DEF b
<1>6. /\ auth.unavail \in BOOLEAN /\ auth.next \in Nat /\ auth.q \in QuotasIn(L)
  BY DEF AuthsIn
<1>7. c \in AuthsIn(L) BY <1>4, <1>6, Zenon DEF AuthsIn
<1>8. c.q = auth.q /\ c.next = auth.next BY <1>4 DEF AuthsIn
<1> HIDE DEF c
<1>9. CASE credentialQuota(auth)
  <2>1. c.q.cred BY <1>8, <1>9 DEF credentialQuota
  <2> QED BY <1>2, <1>7, <1>8, <1>9, <2>1 DEF SoundQuota, Total
<1>10. CASE ~credentialQuota(auth)
  <2>1. kept(a) = b BY <1>2, <1>10
  <2>2. Total(a) => Total(b) BY <1>3, <1>4, <1>5 DEF Total
  <2> QED BY <1>4, <1>5, <2>1, <2>2 DEF SoundQuota
<1> QED BY <1>9, <1>10

\* And what it makes of a credential.
LEMMA UpdateTotal ==
  ASSUME NEW L, NEW W, LevelsUpTo(L, W), NEW a \in AuthsIn(L),
         auth \in AuthsIn(L), now \in Nat, SoundQuota(a), SoundQuota(auth), Update(a)
  PROVE  \E c : auth' = c /\ SoundQuota(c) /\ (Total(a) => Total(c))
<1>1. PICK b : b = kept(a) OBVIOUS
<1>2. b \in AuthsIn(L) /\ SoundQuota(b) /\ (Total(a) => Total(b)) BY <1>1, KeptTotal
<1>3. /\ SoundQuota(clearCooldownStateForAuth(b)) /\ Total(clearCooldownStateForAuth(b))
  BY <1>2, ClearTotal
<1>4. auth' = b \/ auth' = clearCooldownStateForAuth(b) BY <1>1, Zenon DEF Update
<1> QED BY <1>2, <1>3, <1>4

\* What is written of such a credential.
LEMMA RecordsTotal ==
  ASSUME NEW L, NEW a \in AuthsIn(L), now \in Nat, SoundQuota(a)
  PROVE  /\ SoundRecords(cooldownStateRecords(a))
         /\ Total(a) => TotalRecords(cooldownStateRecords(a))
         /\ \A w \in cooldownStateRecords(a) : w.model = Whole => w.next = a.next /\ w.q = a.q
<1>1. /\ DOMAIN a.ms \subseteq Models /\ \A m \in DOMAIN a.ms : a.ms[m] \in StatesIn(L)
      /\ a.next \in Nat
  BY StatesOf DEF AuthsIn
<1>2. \A m \in DOMAIN a.ms : m # Whole /\ a.ms[m].next \in Nat
  BY <1>1, CooldownAssumption DEF Whole, StatesIn
<1>3. CASE ~config.cooling
  <2>1. cooldownStateRecords(a) = {} BY <1>3 DEF cooldownStateRecords
  <2> QED BY <2>1 DEF SoundRecords, TotalRecords
<1>4. CASE config.cooling
  <2>1. \A r \in cooldownStateRecords(a) :
          \/ \E m \in DOMAIN a.ms : r.model = m /\ r.next = a.ms[m].next
          \/ r.model = Whole /\ r.next = a.next /\ r.q = a.q /\ Cooling(a)
    BY DEF cooldownStateRecords, cooldownStateRecord
  <2>2. \A m \in DOMAIN a.ms : Cooling(a.ms[m]) =>
          \E r \in cooldownStateRecords(a) : r.model = m
    <3> SUFFICES ASSUME NEW m \in DOMAIN a.ms, Cooling(a.ms[m])
                 PROVE  \E r \in cooldownStateRecords(a) : r.model = m
      OBVIOUS
    <3>1. PICK r : r = cooldownStateRecord(a.ms[m], m, a.ms[m].err) OBVIOUS
    <3>2. r \in cooldownStateRecords(a) BY <1>4, <3>1, Zenon DEF cooldownStateRecords
    <3>3. r.model = m BY <3>1 DEF cooldownStateRecord
    <3> QED BY <3>2, <3>3
  <2>3. SoundRecords(cooldownStateRecords(a)) BY <1>2, <2>1 DEF SoundRecords, SoundQuota
  <2>4. ASSUME Total(a), NEW w \in cooldownStateRecords(a), w.model = Whole, ~w.q.cred, w.next > now
        PROVE  /\ \E r \in cooldownStateRecords(a) : r.model # Whole
               /\ \A r \in cooldownStateRecords(a) : r.model # Whole => r.next >= w.next
    <3>1. w.next = a.next /\ w.q = a.q /\ Cooling(a) BY <1>2, <2>1, <2>4
    <3>2. DOMAIN a.ms # {} /\ \A m \in DOMAIN a.ms : Waits(a.ms[m], a.next)
      BY <2>4, <3>1 DEF Total
    <3>3. \A m \in DOMAIN a.ms : Cooling(a.ms[m])
      BY <1>1, <1>2, <2>4, <3>1, <3>2 DEF Waits, Cooling
    <3>4. \E r \in cooldownStateRecords(a) : r.model # Whole BY <1>2, <2>2, <3>2, <3>3
    <3>5. \A r \in cooldownStateRecords(a) : r.model # Whole => r.next >= w.next
      BY <2>1, <3>1, <3>2 DEF Waits
    <3> QED BY <3>4, <3>5
  <2>5. Total(a) => TotalRecords(cooldownStateRecords(a)) BY <2>4 DEF TotalRecords
  <2>6. \A w \in cooldownStateRecords(a) : w.model = Whole => w.next = a.next /\ w.q = a.q
    BY <1>2, <2>1
  <2> QED BY <2>3, <2>5, <2>6
<1> QED BY <1>3, <1>4

\* The credential's models, and those of the records, wait until t.
WaitUntil(a, recs, t) ==
  /\ t > now
  /\ \A n \in DOMAIN a.ms : Waits(a.ms[n], t)
  /\ \A r \in recs : r.model # Whole => r.next >= t

\* Restoring the record of a model.
LEMMA RestoreModelTotal ==
  ASSUME NEW L, NEW W, LevelsUpTo(L, W), NEW a \in AuthsIn(L), now \in Nat,
         SoundQuota(a), NEW recs, recs \subseteq RecordsIn(L), NEW m, m # Whole,
         NEW b, b = restoreModel(a, recs, m)
  PROVE  /\ SoundQuota(b) /\ (Total(a) => Total(b)) /\ DOMAIN a.ms \subseteq DOMAIN b.ms
         /\ \A t \in Nat : WaitUntil(a, recs, t) =>
              /\ WaitUntil(b, recs, t)
              /\ config.cooling /\ (\E r \in recs : r.model = m) => m \in DOMAIN b.ms
<1>1. CASE ~\E r \in recs : r.model = m
  <2>1. b = a BY <1>1, Zenon DEF restoreModel
  <2> QED BY <1>1, <2>1
<1>2. CASE \E r \in recs : r.model = m
  <2>1. PICK r : r = CHOOSE x \in recs : x.model = m OBVIOUS
  <2>2. r \in recs /\ r.model = m BY <1>2, <2>1, Zenon
  <2>3. b = restoreCooldownRecord(a, r) BY <1>2, <2>1, Zenon DEF restoreModel
  <2>4. r \in RecordsIn(L) /\ r.next \in Nat /\ m \in Models BY <2>2 DEF RecordsIn, Places
  <2>5. CASE r.next <= now \/ ~config.cooling
    <3>1. b = a BY <2>3, <2>5, Zenon DEF restoreCooldownRecord
    <3> QED BY <2>2, <2>4, <2>5, <3>1 DEF WaitUntil
  <2>6. CASE ~(r.next <= now \/ ~config.cooling)
    <3>1. PICK c : c = ensureModelState(a, m) OBVIOUS
    <3>2. /\ c \in AuthsIn(L) /\ DOMAIN c.ms = DOMAIN a.ms \union {m}
          /\ \A n \in DOMAIN a.ms : c.ms[n] = a.ms[n]
          /\ c.q = a.q /\ c.next = a.next
      BY <2>4, <3>1, EnsureIn DEF LevelsUpTo
    <3>3. m \in DOMAIN c.ms /\ c.ms[m] \in StatesIn(L) BY <3>2, StatesOf
    <3>4. PICK s : s = mergeModelState(c.ms[m], r) OBVIOUS
    <3>5. s \in StatesIn(L) BY <2>4, <3>3, <3>4, MergeIn
    <3>6. s.unavail /\ s.next = Max({c.ms[m].next, r.next}) BY <3>4 DEF mergeModelState
    <3>7. s.next \in Nat /\ s.next >= r.next
      <4>1. c.ms[m].next \in Nat BY <3>3 DEF StatesIn
      <4> QED BY <2>4, <3>6, <4>1, MaxOfTwo
    <3>8. PICK d : d = [c EXCEPT !.ms[m] = s] OBVIOUS
    <3>9. /\ d \in AuthsIn(L) /\ d.q = c.q /\ d.next = c.next
          /\ d.ms = [c.ms EXCEPT ![m] = s]
      BY <3>2, <3>3, <3>5, <3>8, SetStateIn
    <3>10. SoundQuota(d) BY <3>2, <3>9 DEF SoundQuota
    <3>11. b = updateAggregatedAvailability(d)
      BY <2>2, <2>3, <2>6, <3>1, <3>4, <3>8, Zenon DEF restoreCooldownRecord
    <3>12. DOMAIN d.ms = DOMAIN a.ms \union {m} BY <3>2, <3>9
    <3>13. SoundQuota(b) /\ Total(b) /\ DOMAIN b.ms = DOMAIN d.ms
      BY <3>9, <3>10, <3>11, AggregateTotal
    <3>14. ASSUME NEW t \in Nat, t > now, \A n \in DOMAIN a.ms : Waits(a.ms[n], t),
                  \A x \in recs : x.model # Whole => x.next >= t
           PROVE  \A n \in DOMAIN b.ms : Waits(b.ms[n], t)
      <4>1. r.next >= t BY <2>2, <3>14
      <4>2. Waits(s, t) BY <2>4, <3>6, <3>7, <4>1 DEF Waits
      <4>3. \A n \in DOMAIN d.ms : d.ms[n] = IF n = m THEN s ELSE a.ms[n] BY <3>2, <3>9, <3>12
      <4>4. \A n \in DOMAIN d.ms : Waits(d.ms[n], t)
        <5> SUFFICES ASSUME NEW n \in DOMAIN d.ms PROVE Waits(d.ms[n], t) OBVIOUS
        <5>1. CASE n = m BY <4>2, <4>3, <5>1
        <5>2. CASE n # m BY <3>12, <3>14, <4>3, <5>2
        <5> QED BY <5>1, <5>2
      <4> QED BY <3>9, <3>10, <3>11, <3>13, <3>14, <4>4, AggregateTotal
    <3> QED BY <3>12, <3>13, <3>14 DEF WaitUntil
  <2> QED BY <2>5, <2>6
<1> QED BY <1>1, <1>2

\* Restoring the credential's own record.
LEMMA RestoreWholeTotal ==
  ASSUME NEW L, NEW W, LevelsUpTo(L, W), NEW a \in AuthsIn(L), now \in Nat,
         SoundQuota(a), NEW recs, recs \subseteq RecordsIn(L), SoundRecords(recs),
         NEW b, b = restoreModel(a, recs, Whole)
  PROVE  /\ SoundQuota(b)
         /\ (/\ Total(a)
             /\ \A w \in recs : (/\ config.cooling /\ w.model = Whole /\ ~w.q.cred
                                 /\ w.next > now) =>
                  DOMAIN a.ms # {} /\ \A m \in DOMAIN a.ms : Waits(a.ms[m], w.next)) =>
            Total(b)
<1>1. CASE ~\E r \in recs : r.model = Whole
  <2>1. b = a BY <1>1, Zenon DEF restoreModel
  <2> QED BY <2>1
<1>2. CASE \E r \in recs : r.model = Whole
  <2>1. PICK r : r = CHOOSE x \in recs : x.model = Whole OBVIOUS
  <2>2. r \in recs /\ r.model = Whole BY <1>2, <2>1, Zenon
  <2>3. b = restoreCooldownRecord(a, r) BY <1>2, <2>1, Zenon DEF restoreModel
  <2>4. /\ r \in RecordsIn(L) /\ r.next \in Nat /\ r.q \in QuotasIn(L) /\ r.q.rec \in Nat
        /\ SoundQuota(r)
    <3>1. r \in RecordsIn(L) /\ SoundQuota(r) BY <2>2 DEF SoundRecords
    <3>2. r.q \in QuotasIn(L) /\ r.next \in Nat BY <3>1 DEF RecordsIn
    <3> QED BY <3>1, <3>2 DEF QuotasIn
  <2>5. CASE r.next <= now \/ ~config.cooling
    <3>1. b = a BY <2>3, <2>5, Zenon DEF restoreCooldownRecord
    <3> QED BY <3>1
  <2>6. CASE ~(r.next <= now \/ ~config.cooling)
    <3>1. PICK q : q = recordQuota(r) OBVIOUS
    <3>2. q = [r.q EXCEPT !.rec = IF r.q.ex /\ r.q.rec = 0 THEN r.next ELSE r.q.rec]
      BY <3>1 DEF recordQuota
    <3>3. /\ q.ex = r.q.ex /\ q.cred = r.q.cred
          /\ q.rec = IF r.q.ex /\ r.q.rec = 0 THEN r.next ELSE r.q.rec
      BY <2>4, <3>2 DEF QuotasIn
    <3>4. b = [a EXCEPT !.unavail = TRUE, !.next = r.next, !.q = q]
      BY <2>2, <2>3, <2>6, <3>1, Zenon DEF restoreCooldownRecord
    <3>5. b.q = q /\ b.next = r.next /\ b.ms = a.ms BY <3>4 DEF AuthsIn
    <3>6. SoundQuota(b) BY <2>4, <3>3, <3>5 DEF SoundQuota
    <3>7. r.next > now /\ config.cooling BY <2>4, <2>6
    <3> QED BY <2>2, <3>3, <3>5, <3>6, <3>7 DEF Total
  <2> QED BY <2>5, <2>6
<1> QED BY <1>1, <1>2

\* Restoring a file: the credential's own pause goes with those of its models,
\* when the file is sound and the credential has no model that is back sooner.
LEMMA RestoredTotal ==
  ASSUME NEW L, NEW W, LevelsUpTo(L, W), NEW a \in AuthsIn(L), now \in Nat,
         SoundQuota(a), NEW recs, recs \subseteq RecordsIn(L), SoundRecords(recs)
  PROVE  /\ SoundQuota(restored(a, recs))
         /\ (/\ Total(a) /\ TotalRecords(recs)
             /\ \A w \in recs : (w.model = Whole /\ ~w.q.cred /\ w.next > now) =>
                  \A m \in DOMAIN a.ms : Waits(a.ms[m], w.next)) =>
            Total(restored(a, recs))
<1>1. PICK n, h :
        /\ n \in Nat
        /\ h[0] = a
        /\ \A k \in 1 .. n : h[k] = restoreModel(h[k - 1], recs, k)
        /\ \A k \in 0 .. n : h[k] \in AuthsIn(L)
        /\ \A r \in recs : r.model \in 0 .. n
        /\ restored(a, recs) = restoreModel(h[n], recs, Whole)
  BY RestoredSteps
<1> DEFINE Clear(k) ==
      /\ SoundQuota(h[k]) /\ (Total(a) => Total(h[k]))
      /\ \A t \in Nat : WaitUntil(a, recs, t) =>
           /\ WaitUntil(h[k], recs, t)
           /\ config.cooling => \A r \in recs : r.model \in 1 .. k => r.model \in DOMAIN h[k].ms
<1>2. Clear(0) BY <1>1
<1>3. ASSUME NEW k \in 1 .. n, Clear(k - 1) PROVE Clear(k)
  <2>1. /\ k # Whole /\ k - 1 \in 0 .. n /\ k \in Nat /\ k \in 0 .. n BY <1>1 DEF Whole
  <2>2. PICK b : b = h[k - 1] OBVIOUS
  <2>3. PICK c : c = h[k] OBVIOUS
  <2>4. b \in AuthsIn(L) /\ c = restoreModel(b, recs, k) BY <1>1, <2>1, <2>2, <2>3
  <2>5. SoundQuota(b) /\ (Total(a) => Total(b)) BY <1>3, <2>2
  <2>6. /\ SoundQuota(c) /\ (Total(b) => Total(c)) /\ DOMAIN b.ms \subseteq DOMAIN c.ms
        /\ \A t \in Nat : WaitUntil(b, recs, t) =>
              /\ WaitUntil(c, recs, t)
              /\ config.cooling /\ (\E r \in recs : r.model = k) => k \in DOMAIN c.ms
    BY <2>1, <2>4, <2>5, RestoreModelTotal
  <2>7. ASSUME NEW t \in Nat, WaitUntil(a, recs, t)
        PROVE  /\ WaitUntil(c, recs, t)
               /\ config.cooling => \A r \in recs : r.model \in 1 .. k => r.model \in DOMAIN c.ms
    <3>1. /\ WaitUntil(b, recs, t)
          /\ config.cooling => \A r \in recs : r.model \in 1 .. (k - 1) => r.model \in DOMAIN b.ms
      BY <1>3, <2>2, <2>7
    <3>2. /\ WaitUntil(c, recs, t)
          /\ config.cooling /\ (\E r \in recs : r.model = k) => k \in DOMAIN c.ms
      BY <2>6, <2>7, <3>1
    <3>3. ASSUME config.cooling, NEW r \in recs, r.model \in 1 .. k PROVE r.model \in DOMAIN c.ms
      <4>1. r.model = k \/ r.model \in 1 .. (k - 1) BY <2>1, <3>3
      <4> QED BY <2>6, <3>1, <3>2, <3>3, <4>1
    <3> QED BY <3>2, <3>3
  <2> QED BY <2>3, <2>5, <2>6, <2>7
<1> HIDE DEF Clear
<1> DEFINE Bad == {k \in 0 .. n : ~Clear(k)}
<1>4. Bad = {}
  <2> SUFFICES ASSUME Bad # {} PROVE FALSE OBVIOUS
  <2>1. Bad \subseteq Nat OBVIOUS
  <2>2. PICK k \in Bad : \A j \in Bad : k <= j
    <3> HIDE DEF Bad
    <3> QED BY <2>1, LeastExists
  <2>3. k \in 1 .. n BY <1>1, <1>2, <2>2
  <2>4. k - 1 \in 0 .. n /\ ~(k <= k - 1) BY <1>1, <2>3
  <2>5. Clear(k - 1) BY <2>2, <2>4
  <2> QED BY <1>3, <2>2, <2>3, <2>5
<1>5. Clear(n)
  <2>1. n \in 0 .. n BY <1>1
  <2> QED BY <1>4, <2>1, Zenon
<1>6. h[n] \in AuthsIn(L) BY <1>1
<1>7. SoundQuota(h[n]) BY <1>5 DEF Clear
<1>8. SoundQuota(restored(a, recs)) BY <1>1, <1>6, <1>7, RestoreWholeTotal
<1>9. ASSUME Total(a), TotalRecords(recs),
             \A w \in recs : (w.model = Whole /\ ~w.q.cred /\ w.next > now) =>
                  \A m \in DOMAIN a.ms : Waits(a.ms[m], w.next)
      PROVE  Total(restored(a, recs))
  <2>1. ASSUME config.cooling, NEW w \in recs, w.model = Whole, ~w.q.cred, w.next > now
        PROVE  DOMAIN h[n].ms # {} /\ \A m \in DOMAIN h[n].ms : Waits(h[n].ms[m], w.next)
    <3>1. w.next \in Nat BY DEF RecordsIn
    <3>2. /\ \E r \in recs : r.model # Whole
          /\ \A r \in recs : r.model # Whole => r.next >= w.next
      BY <1>9, <2>1 DEF TotalRecords
    <3>3. PICK r \in recs : r.model # Whole BY <3>2
    <3>4. r.model \in 1 .. n
      <4>1. r.model \in 0 .. n BY <1>1
      <4> QED BY <3>3, <4>1 DEF Whole
    <3>5. \A m \in DOMAIN a.ms : Waits(a.ms[m], w.next) BY <1>9, <2>1
    <3>6. /\ \A m \in DOMAIN h[n].ms : Waits(h[n].ms[m], w.next)
          /\ \A x \in recs : x.model \in 1 .. n => x.model \in DOMAIN h[n].ms
      <4>1. WaitUntil(a, recs, w.next) BY <2>1, <3>2, <3>5 DEF WaitUntil
      <4>2. /\ WaitUntil(h[n], recs, w.next)
            /\ \A x \in recs : x.model \in 1 .. n => x.model \in DOMAIN h[n].ms
        BY <1>5, <2>1, <3>1, <4>1 DEF Clear
      <4> QED BY <4>2 DEF WaitUntil
    <3> QED BY <3>4, <3>6
  <2>2. Total(h[n]) BY <1>5, <1>9 DEF Clear
  <2> QED BY <1>1, <1>6, <1>7, <2>1, <2>2, RestoreWholeTotal
<1> QED BY <1>8, <1>9

\* What the bounds say that the pauses need.
LEMMA BoundsGive ==
  ASSUME BoundInv
  PROVE  /\ LevelsUpTo(Levels, windows) /\ now \in Nat \ {0}
         /\ auth \in AuthsIn(Levels) /\ clone \subseteq AuthsIn(Levels)
         /\ disk \subseteq RecordsIn(Levels)
         /\ loader.recs \subseteq RecordsIn(Levels)
BY LevelsAreNat DEF BoundInv, Counters, Bounded, Records

\* Results.
LEMMA ResultsKeepPauses ==
  ASSUME BoundInv, PauseInv, NEW m \in Models
  PROVE  /\ MarkSuccess(m) => PauseInv'
         /\ \A f \in Failures : MarkFailure(m, f) => PauseInv'
<1>1. LevelsUpTo(Levels, windows) /\ now \in Nat \ {0}
      /\ auth \in AuthsIn(Levels)
  BY BoundsGive
<1>2. ASSUME NEW a, Result(a), SoundQuota(a), Total(a) PROVE PauseInv'
  <2>1. /\ auth' = a /\ UNCHANGED <<now, disk, saver, loader, clone>> /\ stale' = stale \ {"manager"}
    BY <1>2 DEF Result
  <2>2. SoundQuota(auth)' /\ Total(auth)' BY <1>2, <2>1 DEF SoundQuota, Total, Waits
  <2> QED BY <2>1, <2>2 DEF PauseInv, SoundQuota, Total, Waits, SoundRecords, TotalRecords
<1>3. ASSUME MarkSuccess(m) PROVE PauseInv'
  <2>1. SoundQuota(succeeded(auth, m)) /\ Total(succeeded(auth, m))
    BY <1>1, SucceededTotal DEF PauseInv
  <2> QED BY <1>2, <1>3, <2>1 DEF MarkSuccess
<1>4. ASSUME NEW f \in Failures, MarkFailure(m, f) PROVE PauseInv'
  <2> DEFINE K == Levels \union {nextQuotaCooldown(l).lvl : l \in Levels}
             V == windows + 1
  <2>3. LevelsUpTo(K, V) /\ Levels \subseteq K
    <3>1. \A l \in Levels : l \in 0 .. windows /\ windows \in Nat BY <1>1 DEF LevelsUpTo
    <3>2. \A l \in Levels : nextQuotaCooldown(l).lvl \in 0 .. V
      <4> SUFFICES ASSUME NEW l \in Levels PROVE nextQuotaCooldown(l).lvl \in 0 .. V OBVIOUS
      <4>1. nextQuotaCooldown(l).lvl = IF climbs(l) THEN l + 1 ELSE l BY <3>1, LadderStep
      <4> QED BY <3>1, <4>1
    <3>3. 0 \in Levels BY <1>1 DEF LevelsUpTo
    <3> QED BY <3>1, <3>2, <3>3 DEF LevelsUpTo
  <2>4. \A l \in Levels : nextQuotaCooldown(l).lvl \in K OBVIOUS
  <2> HIDE DEF K, V
  <2>5. PICK d \in AuthsIn(K) :
          /\ failed(auth, m, f) = updateAggregatedAvailability(d)
          /\ \/ d.q = auth.q /\ d.next = auth.next
             \/ d.q.ex /\ d.q.cred /\ d.q.rec = d.next
    BY <1>1, <2>3, <2>4, FailedIn
  <2>6. SoundQuota(d)
    <3>1. d.next \in Nat BY DEF AuthsIn
    <3> QED BY <2>5, <3>1 DEF SoundQuota, PauseInv
  <2>7. SoundQuota(failed(auth, m, f)) /\ Total(failed(auth, m, f))
    BY <1>1, <2>3, <2>5, <2>6, AggregateTotal
  <2> QED BY <1>2, <1>4, <2>7 DEF MarkFailure
<1> QED BY <1>3, <1>4

\* Time and saving.
LEMMA SavesKeepPauses ==
  ASSUME BoundInv, PauseInv
  PROVE  (Tick \/ SaveStep) => PauseInv'
<1>1. now \in Nat /\ auth \in AuthsIn(Levels)
      /\ clone \subseteq AuthsIn(Levels)
  BY BoundsGive
<1>2. ASSUME Tick PROVE PauseInv'
  <2>1. now' = now + 1 /\ UNCHANGED <<auth, disk, saver, loader, clone, stale>> BY <1>2 DEF Tick
  <2>2. \A a \in AuthsIn(Levels) : a.next > now' => a.next > now
    BY <1>1, <2>1 DEF AuthsIn
  <2>3. \A r \in RecordsIn(Levels) : r.next > now' => r.next > now
    BY <1>1, <2>1 DEF RecordsIn
  <2>4. disk \subseteq RecordsIn(Levels) /\ saver.recs \subseteq RecordsIn(Levels)
    BY DEF BoundInv, Bounded, Records
  <2>5. /\ SoundQuota(auth)' /\ (\A a \in clone : SoundQuota(a))'
        /\ SoundRecords(disk)' /\ SoundRecords(saver.recs)' /\ SoundRecords(loader.recs)'
    BY <2>1 DEF PauseInv, SoundQuota, SoundRecords
  <2>6. Total(auth) => Total(auth)' BY <1>1, <2>1, <2>2 DEF Total, Waits
  <2>7. (\A a \in clone : Total(a)) => (\A a \in clone : Total(a))'
    BY <1>1, <2>1, <2>2 DEF Total, Waits
  <2>8. TotalRecords(disk) => TotalRecords(disk)' BY <2>1, <2>3, <2>4 DEF TotalRecords
  <2>9. TotalRecords(saver.recs) => TotalRecords(saver.recs)'
    BY <2>1, <2>3, <2>4 DEF TotalRecords
  <2> QED BY <2>1, <2>5, <2>6, <2>7, <2>8, <2>9 DEF PauseInv
<1>3. ASSUME persistCooldownStates PROVE PauseInv'
  <2>1. saver'.recs = {} /\ UNCHANGED <<now, auth, disk, loader, clone, stale>>
    BY <1>3 DEF persistCooldownStates, Free
  <2> QED BY <2>1 DEF PauseInv, SoundQuota, Total, Waits, SoundRecords, TotalRecords
<1>4. ASSUME NEW ok, Release(ok)
      PROVE  saver'.recs = {} /\ loader'.recs \in {loader.recs, {}}
  BY <1>4 DEF Release, Free, Loaded
<1>5. ASSUME cooldownStateRecordsSnapshot PROVE PauseInv'
  <2>1. UNCHANGED <<now, auth, disk, clone>> BY <1>5 DEF cooldownStateRecordsSnapshot
  <2>2. CASE store
    <3>1. /\ saver' = [pc |-> "write", by |-> saver.by, recs |-> cooldownStateRecords(auth)]
          /\ loader' = loader
          /\ stale' = IF "manager" \in stale THEN stale \union {"save"} ELSE stale \ {"save"}
      BY <1>5, <2>2 DEF cooldownStateRecordsSnapshot, Copied
    <3>2. PICK recs : recs = cooldownStateRecords(auth) OBVIOUS
    <3>3. saver'.recs = recs BY <3>1, <3>2
    <3>4. SoundRecords(recs) /\ (Total(auth) => TotalRecords(recs))
      BY <1>1, <3>2, RecordsTotal DEF PauseInv
    <3>5. /\ SoundRecords(saver.recs)'
          /\ ("save" \notin stale => TotalRecords(saver.recs))'
      BY <2>1, <3>1, <3>3, <3>4 DEF PauseInv, SoundRecords, SoundQuota, TotalRecords
    <3>6. \A p \in {"manager", "clone", "file"} : p \in stale' <=> p \in stale BY <3>1
    <3> QED BY <2>1, <3>1, <3>5, <3>6
        DEF PauseInv, SoundQuota, Total, Waits, SoundRecords, TotalRecords
  <2>3. CASE ~store
    <3>1. Release(TRUE) /\ stale' = stale BY <1>5, <2>3 DEF cooldownStateRecordsSnapshot
    <3>2. saver'.recs = {} /\ loader'.recs \in {loader.recs, {}} BY <1>4, <3>1
    <3> QED BY <2>1, <3>1, <3>2
        DEF PauseInv, SoundQuota, Total, Waits, SoundRecords, TotalRecords
  <2> QED BY <2>2, <2>3
<1>6. ASSUME NEW ok \in BOOLEAN, Save(ok) PROVE PauseInv'
  <2>1. UNCHANGED <<now, auth, clone>> /\ Release(ok) BY <1>6 DEF Save
  <2>2. saver'.recs = {} /\ loader'.recs \in {loader.recs, {}} BY <1>4, <2>1
  <2>3. \/ disk' = disk /\ stale' = stale
        \/ disk' = saver.recs /\ stale' = Copied("save", "file")
    BY <1>6 DEF Save
  <2>4. \A p \in {"manager", "clone"} : p \in stale' <=> p \in stale BY <2>3 DEF Copied
  <2>5. "file" \notin stale' => TotalRecords(disk)' BY <2>1, <2>3 DEF Copied, PauseInv, TotalRecords
  <2>6. SoundRecords(disk)' BY <2>3 DEF PauseInv, SoundRecords, SoundQuota
  <2> QED BY <2>1, <2>2, <2>4, <2>5, <2>6
      DEF PauseInv, SoundQuota, Total, Waits, SoundRecords, TotalRecords
<1> QED BY <1>2, <1>3, <1>5, <1>6 DEF SaveStep

\* The steps that leave the file, the snapshot and the records read alone and
\* give the manager a credential.
LEMMA ManagerKeepsPauses ==
  ASSUME PauseInv, UNCHANGED <<now, disk, saver>>, loader'.recs \in {loader.recs, {}},
         clone' \in {clone, {}}, NEW c, auth' = c, SoundQuota(c),
         \A p \in {"clone", "save", "file"} : p \in stale' <=> p \in stale,
         "manager" \notin stale' => Total(c)
  PROVE  PauseInv'
<1>1. SoundQuota(auth)' /\ ("manager" \notin stale => Total(auth))'
  BY DEF SoundQuota, Total, Waits
<1>2. (\A a \in clone : SoundQuota(a))' BY DEF PauseInv, SoundQuota
<1>3. ("clone" \notin stale => \A a \in clone : Total(a))' BY DEF PauseInv, Total, Waits
<1>4. SoundRecords(disk)' /\ SoundRecords(saver.recs)' /\ SoundRecords(loader.recs)'
  BY DEF PauseInv, SoundRecords, SoundQuota
<1>5. ("save" \notin stale => TotalRecords(saver.recs))' /\ ("file" \notin stale => TotalRecords(disk))'
  BY DEF PauseInv, TotalRecords
<1> QED BY <1>1, <1>2, <1>3, <1>4, <1>5 DEF PauseInv

\* Configuration, reload and reset.
LEMMA OperationsKeepPauses ==
  ASSUME BoundInv, PauseInv
  PROVE  /\ \A c \in [cooling : BOOLEAN, save : BOOLEAN] :
              ApplyConfigWithCooldownStateStore(c) => PauseInv'
         /\ LoadRecords => PauseInv'
         /\ RestoreCooldownStates => PauseInv'
         /\ \A ok \in BOOLEAN : ResetQuota(ok) => PauseInv'
<1>1. /\ LevelsUpTo(Levels, windows) /\ now \in Nat
      /\ auth \in AuthsIn(Levels) /\ SoundQuota(auth)
      /\ loader.recs \subseteq RecordsIn(Levels) /\ SoundRecords(loader.recs)
  BY BoundsGive DEF PauseInv
<1>2. ASSUME NEW c \in [cooling : BOOLEAN, save : BOOLEAN], ApplyConfigWithCooldownStateStore(c)
      PROVE  PauseInv'
  <2>1. /\ UNCHANGED <<now, disk, loader, clone, stale>> /\ saver'.recs = {}
        /\ auth' \in {auth, clearCooldownStateForAuth(auth)}
    BY <1>2 DEF ApplyConfigWithCooldownStateStore, Free
  <2>2. PICK a : a = auth' OBVIOUS
  <2>3. SoundQuota(a) /\ ("manager" \notin stale => Total(a))
    BY <1>1, <2>1, <2>2, ClearTotal DEF PauseInv
  <2>4. SoundQuota(auth)' /\ ("manager" \notin stale => Total(auth))'
    BY <2>1, <2>2, <2>3 DEF SoundQuota, Total, Waits
  <2> QED BY <2>1, <2>4 DEF PauseInv, SoundQuota, Total, Waits, SoundRecords, TotalRecords
<1>3. ASSUME LoadRecords PROVE PauseInv'
  <2>1. /\ UNCHANGED <<now, auth, disk, saver, clone, stale>> /\ loader'.recs = disk
    BY <1>3 DEF LoadRecords
  <2> QED BY <2>1 DEF PauseInv, SoundQuota, Total, Waits, SoundRecords, TotalRecords
<1>4. ASSUME RestoreCooldownStates PROVE PauseInv'
  <2>1. /\ UNCHANGED <<now, disk, saver, clone>> /\ loader'.recs = {}
        /\ auth' = restored(auth, loader.recs)
        /\ stale' = IF loader.recs # cooldownStateRecords(auth)
                    THEN stale \union {"manager"} ELSE stale
    BY <1>4 DEF RestoreCooldownStates, Loaded
  <2>2. SoundQuota(restored(auth, loader.recs)) BY <1>1, RestoredTotal
  <2>3. ASSUME "manager" \notin stale' PROVE Total(restored(auth, loader.recs))
    <3>1. loader.recs = cooldownStateRecords(auth) /\ Total(auth) BY <2>1, <2>3 DEF PauseInv
    <3>2. /\ TotalRecords(loader.recs)
          /\ \A w \in loader.recs : w.model = Whole => w.next = auth.next /\ w.q = auth.q
      BY <1>1, <3>1, RecordsTotal
    <3>3. \A w \in loader.recs : (w.model = Whole /\ ~w.q.cred /\ w.next > now) =>
            \A m \in DOMAIN auth.ms : Waits(auth.ms[m], w.next)
      BY <3>1, <3>2 DEF Total
    <3> QED BY <1>1, <3>1, <3>2, <3>3, RestoredTotal
  <2>4. \A p \in {"clone", "save", "file"} : p \in stale' <=> p \in stale BY <2>1
  <2> QED BY <2>1, <2>2, <2>3, <2>4, ManagerKeepsPauses
<1>5. ASSUME NEW ok \in BOOLEAN, ResetQuota(ok) PROVE PauseInv'
  <2>1. PICK a : a = [auth EXCEPT !.ms = [m \in DOMAIN auth.ms |-> Clean]] OBVIOUS
  <2>2. a \in AuthsIn(Levels) BY <1>1, <2>1, ResetIn
  <2>3. a.q = auth.q /\ a.next = auth.next BY <1>1, <2>1 DEF AuthsIn
  <2>4. SoundQuota(a) BY <1>1, <2>3 DEF SoundQuota
  <2>5. PICK c : c = clearCooldownStateForAuth(a) OBVIOUS
  <2>6. SoundQuota(c) /\ Total(c) BY <1>1, <2>2, <2>4, <2>5, ClearTotal
  <2>7. auth' = c BY <1>5, <2>1, <2>5, Zenon DEF ResetQuota
  <2>8. UNCHANGED <<now, disk, saver, loader, clone, stale>> BY <1>5 DEF ResetQuota
  <2> QED BY <2>6, <2>7, <2>8, ManagerKeepsPauses
<1> QED BY <1>2, <1>3, <1>4, <1>5

\* Updates and refreshes.
LEMMA UpdatesKeepPauses ==
  ASSUME BoundInv, PauseInv
  PROVE  /\ prepareCoreAuth => PauseInv'
         /\ UpdateAuth => PauseInv'
         /\ ReconcileRegistryModelStates => PauseInv'
         /\ BeginRefresh => PauseInv'
         /\ \A a \in clone : EndRefresh(a) => PauseInv'
         /\ RefreshUnauthorized => PauseInv'
<1>1. /\ LevelsUpTo(Levels, windows) /\ now \in Nat
      /\ auth \in AuthsIn(Levels) /\ SoundQuota(auth)
  BY BoundsGive DEF PauseInv
<1>7. ASSUME prepareCoreAuth PROVE PauseInv'
  <2>1. UNCHANGED <<now, auth, disk, saver, loader, clone, stale>> BY <1>7 DEF prepareCoreAuth
  <2> QED BY <2>1 DEF PauseInv, SoundQuota, Total, Waits, SoundRecords, TotalRecords
<1>2. ASSUME UpdateAuth PROVE PauseInv'
  <2>1. PICK a : a = [FreshAuth EXCEPT !.ms = registering.ms] OBVIOUS
  <2>2. a \in AuthsIn(Levels) /\ a.q = NoQuota /\ a.next = 0
    <3>1. FreshAuth \in AuthsIn(Levels) BY <1>1, FreshStates DEF LevelsUpTo
    <3>2. registering.ms \in ModelStatesIn(Levels) BY DEF BoundInv, Bounded
    <3>3. FreshAuth.q = NoQuota /\ FreshAuth.next = 0 BY DEF FreshAuth
    <3> QED BY <2>1, <3>1, <3>2, <3>3 DEF AuthsIn
  <2>3. SoundQuota(a) /\ Total(a) BY <1>1, <2>2 DEF NoQuota, SoundQuota, Total
  <2>4. Update(a) /\ UNCHANGED <<now, disk, saver, loader, clone, stale>>
    BY <1>2, <2>1 DEF UpdateAuth
  <2>5. PICK c : auth' = c /\ SoundQuota(c) /\ Total(c) BY <1>1, <2>2, <2>3, <2>4, UpdateTotal
  <2> QED BY <2>4, <2>5, ManagerKeepsPauses
<1>3. ASSUME ReconcileRegistryModelStates PROVE PauseInv'
  <2>1. PICK a : a = [auth EXCEPT !.ms = [m \in DOMAIN auth.ms |-> Clean]] OBVIOUS
  <2>2. a \in AuthsIn(Levels) BY <1>1, <2>1, ResetIn
  <2>3. a.q = auth.q /\ a.next = auth.next BY <1>1, <2>1 DEF AuthsIn
  <2>4. SoundQuota(a) BY <1>1, <2>3 DEF SoundQuota
  <2>5. PICK b : b = updateAggregatedAvailability(a) OBVIOUS
  <2>6. SoundQuota(b) /\ Total(b) BY <1>1, <2>2, <2>4, <2>5, AggregateTotal
  <2>7. auth' = auth \/ auth' = b BY <1>3, <2>1, <2>5, Zenon DEF ReconcileRegistryModelStates
  <2>8. UNCHANGED <<now, disk, saver, loader, clone, stale>> BY <1>3 DEF ReconcileRegistryModelStates
  <2>9. PICK c : c = auth' OBVIOUS
  <2>10. SoundQuota(c) /\ ("manager" \notin stale => Total(c))
    BY <1>1, <2>6, <2>7, <2>9 DEF PauseInv
  <2> QED BY <2>8, <2>9, <2>10, ManagerKeepsPauses
<1>4. ASSUME BeginRefresh PROVE PauseInv'
  <2>1. UNCHANGED <<now, auth, disk, saver, loader>> /\ clone' = {auth}
        /\ stale' = IF "manager" \in stale THEN stale \union {"clone"} ELSE stale \ {"clone"}
    BY <1>4 DEF BeginRefresh, Copied
  <2>2. \A p \in {"manager", "save", "file"} : p \in stale' <=> p \in stale BY <2>1
  <2>3. ("clone" \notin stale => \A a \in clone : Total(a))' BY <2>1 DEF PauseInv, Total, Waits
  <2> QED BY <2>1, <2>2, <2>3
      DEF PauseInv, SoundQuota, Total, Waits, SoundRecords, TotalRecords
<1>5. ASSUME NEW a \in clone, EndRefresh(a) PROVE PauseInv'
  <2>1. a \in AuthsIn(Levels) /\ SoundQuota(a) /\ ("clone" \notin stale => Total(a))
    BY BoundsGive DEF PauseInv
  <2> DEFINE denied == {m \in DOMAIN a.ms : a.ms[m].err = "401"}
             ms == [m \in DOMAIN a.ms |-> IF m \in denied THEN Clean ELSE a.ms[m]]
             b == [a EXCEPT !.unavail = FALSE, !.ms = ms]
  <2>2. Update(IF denied = {} THEN b ELSE updateAggregatedAvailability(b))
    BY <1>5, Zenon DEF EndRefresh
  <2>3. denied = {} => \A m \in DOMAIN a.ms : ms[m] = a.ms[m] OBVIOUS
  <2>4. DOMAIN ms = DOMAIN a.ms OBVIOUS
  <2> HIDE DEF denied
  <2>5. [a EXCEPT !.ms = ms] \in AuthsIn(Levels) BY <1>1, <2>1, ResetIn
  <2> HIDE DEF ms
  <2>6. ms \in ModelStatesIn(Levels)
    <3>1. [a EXCEPT !.ms = ms].ms = ms BY <2>1 DEF AuthsIn
    <3> QED BY <2>5, <3>1 DEF AuthsIn
  <2>7. b \in AuthsIn(Levels)
    <3>1. FALSE \in BOOLEAN OBVIOUS
    <3> QED BY <2>1, <2>6, <3>1, Zenon DEF AuthsIn
  <2>8. b.q = a.q /\ b.next = a.next /\ b.ms = ms BY <2>1 DEF AuthsIn
  <2> HIDE DEF b
  <2>9. SoundQuota(b) BY <2>1, <2>8 DEF SoundQuota
  <2>10. denied = {} /\ Total(a) => Total(b) BY <2>3, <2>4, <2>8 DEF Total
  <2>11. PICK u : u = updateAggregatedAvailability(b) OBVIOUS
  <2>12. u \in AuthsIn(Levels) /\ SoundQuota(u) /\ Total(u)
    BY <1>1, <2>7, <2>9, <2>11, AggregateIn, AggregateTotal
  <2>13. PICK x : x = IF denied = {} THEN b ELSE u OBVIOUS
  <2>14. x \in AuthsIn(Levels) /\ SoundQuota(x) /\ (Total(a) => Total(x))
    BY <2>7, <2>9, <2>10, <2>12, <2>13
  <2>15. Update(x) BY <2>2, <2>11, <2>13
  <2>16. PICK c : auth' = c /\ SoundQuota(c) /\ (Total(x) => Total(c))
    BY <1>1, <2>14, <2>15, UpdateTotal
  <2>17. /\ UNCHANGED <<now, disk, saver, loader>> /\ clone' = {}
         /\ stale' = IF "clone" \in stale THEN stale \union {"manager"} ELSE stale
    BY <1>5 DEF EndRefresh
  <2>18. "manager" \notin stale' => Total(c) BY <2>1, <2>14, <2>16, <2>17
  <2>19. \A p \in {"clone", "save", "file"} : p \in stale' <=> p \in stale BY <2>17
  <2> QED BY <2>16, <2>17, <2>18, <2>19, ManagerKeepsPauses
<1>6. ASSUME RefreshUnauthorized PROVE PauseInv'
  <2>1. UNCHANGED <<now, disk, saver, loader, stale>> /\ clone' = {}
        /\ auth' = [auth EXCEPT !.unavail = TRUE]
    BY <1>6 DEF RefreshUnauthorized
  <2>2. PICK c : c = [auth EXCEPT !.unavail = TRUE] OBVIOUS
  <2>3. c.q = auth.q /\ c.next = auth.next /\ c.ms = auth.ms BY <1>1, <2>2 DEF AuthsIn
  <2>4. SoundQuota(c) /\ ("manager" \notin stale => Total(c))
    BY <1>1, <2>3 DEF PauseInv, SoundQuota, Total
  <2> QED BY <2>1, <2>2, <2>4, ManagerKeepsPauses
<1> QED BY <1>2, <1>3, <1>4, <1>5, <1>6, <1>7

\* The next process.
LEMMA RestartKeepsPauses ==
  ASSUME BoundInv, PauseInv, NEW ok \in BOOLEAN, Restart(ok)
  PROVE  PauseInv'
<1>1. /\ LevelsUpTo(Levels, windows) /\ now \in Nat
      /\ disk \subseteq RecordsIn(Levels) /\ SoundRecords(disk)
  BY BoundsGive DEF PauseInv
<1>2. FreshAuth \in AuthsIn(Levels) BY <1>1, FreshStates DEF LevelsUpTo
<1>3. SoundQuota(FreshAuth) /\ Total(FreshAuth) /\ DOMAIN FreshAuth.ms = {}
  BY <1>1 DEF FreshAuth, NoQuota, SoundQuota, Total
<1>4. PICK a : a = IF config.save THEN restored(FreshAuth, disk) ELSE FreshAuth OBVIOUS
<1>5. /\ a \in AuthsIn(Levels) /\ SoundQuota(a)
      /\ "file" \notin stale => Total(a)
  <2>1. restored(FreshAuth, disk) \in AuthsIn(Levels) BY <1>1, <1>2, RestoredIn
  <2>2. SoundQuota(restored(FreshAuth, disk)) BY <1>1, <1>2, <1>3, RestoredTotal
  <2>3. ASSUME "file" \notin stale PROVE Total(restored(FreshAuth, disk))
    <3>1. TotalRecords(disk) BY <2>3 DEF PauseInv
    <3>2. \A w \in disk : (w.model = Whole /\ ~w.q.cred /\ w.next > now) =>
            \A m \in DOMAIN FreshAuth.ms : Waits(FreshAuth.ms[m], w.next)
      BY <1>3
    <3> QED BY <1>1, <1>2, <1>3, <3>1, <3>2, RestoredTotal
  <2> QED BY <1>2, <1>3, <1>4, <2>1, <2>2, <2>3
<1>6. /\ auth' = a /\ UNCHANGED now /\ saver'.recs = {} /\ loader'.recs = {} /\ clone' = {}
      /\ stale' = {p \in {"manager", "file"} : "file" \in stale}
  BY <1>4, Zenon DEF Restart, Free, Loaded
<1>7. PICK d : d = disk' OBVIOUS
<1>8. SoundRecords(d) /\ ("file" \notin stale => TotalRecords(d))
  <2>1. disk' = disk \/ disk' = cooldownStateRecords(a) BY <1>4, Zenon DEF Restart
  <2>2. SoundRecords(cooldownStateRecords(a)) /\ (Total(a) => TotalRecords(cooldownStateRecords(a)))
    BY <1>1, <1>5, RecordsTotal
  <2> QED BY <1>1, <1>5, <1>7, <2>1, <2>2 DEF PauseInv
<1>9. \A p \in {"manager", "file"} : p \in stale' <=> "file" \in stale BY <1>6
<1>10. SoundQuota(auth)' /\ ("manager" \notin stale => Total(auth))'
  BY <1>5, <1>6, <1>9 DEF SoundQuota, Total, Waits
<1>11. SoundRecords(disk)' /\ ("file" \notin stale => TotalRecords(disk))'
  BY <1>6, <1>7, <1>8, <1>9 DEF SoundRecords, SoundQuota, TotalRecords
<1> QED BY <1>6, <1>10, <1>11 DEF PauseInv, SoundRecords, TotalRecords

\* The pauses of the credential and its copies stay sound.
THEOREM PauseInvariance == Spec => []PauseInv
<1>1. Init => PauseInv
  BY DEF Init, PauseInv, FreshAuth, NoQuota, Free, Loaded, SoundQuota, Total, SoundRecords, TotalRecords
<1>2. BoundInv /\ PauseInv /\ [Next]_vars => PauseInv'
  <2> SUFFICES ASSUME BoundInv, PauseInv, [Next]_vars PROVE PauseInv' OBVIOUS
  <2>1. CASE Next
    BY <2>1, ResultsKeepPauses, SavesKeepPauses, OperationsKeepPauses, UpdatesKeepPauses,
       RestartKeepsPauses DEF Next
  <2>2. CASE UNCHANGED vars
    <3>1. UNCHANGED <<now, auth, disk, saver, loader, clone, stale>> BY <2>2 DEF vars
    <3> QED BY <3>1 DEF PauseInv, SoundQuota, Total, Waits, SoundRecords, TotalRecords
  <2> QED BY <2>1, <2>2
<1> QED BY <1>1, <1>2, BoundInvariance, PTL DEF Spec

\* While updateAggregatedAvailability, a restored record or a credential-wide
\* quota holds the credential back as a whole, every model it has a state for
\* is blocked - unless the credential goes back to records merged out of date.
THEOREM CredentialPauseIsTotalHolds == Spec => []CredentialPauseIsTotal
<1>1. BoundInv /\ PauseInv => CredentialPauseIsTotal
  <2> SUFFICES ASSUME BoundInv, PauseInv, auth.unavail, auth.next > now, "manager" \notin stale,
                      NEW m \in DOMAIN auth.ms
               PROVE  isAuthBlockedForModel(auth, m)
    BY DEF CredentialPauseIsTotal
  <2>1. /\ now \in Nat /\ auth.next \in Nat /\ auth.q.rec \in Nat
        /\ auth.ms[m] \in StatesIn(Levels)
    <3>1. now \in Nat /\ auth \in AuthsIn(Levels) BY BoundsGive
    <3>2. auth.next \in Nat /\ auth.q \in QuotasIn(Levels) BY <3>1 DEF AuthsIn
    <3> QED BY <3>1, <3>2, StatesOf DEF QuotasIn
  <2>2. SoundQuota(auth) /\ Total(auth) BY DEF PauseInv
  <2>3. CASE auth.q.cred
    <3>1. auth.q.ex /\ auth.q.rec > now BY <2>1, <2>2, <2>3 DEF SoundQuota
    <3> QED BY <2>3, <3>1 DEF isAuthBlockedForModel, credentialQuota
  <2>4. CASE ~auth.q.cred
    <3>1. Waits(auth.ms[m], auth.next) BY <2>2, <2>4 DEF Total
    <3>2. auth.ms[m].next \in Nat BY <2>1 DEF StatesIn
    <3>3. availabilityBlock(auth.ms[m]) BY <2>1, <3>1, <3>2 DEF Waits, availabilityBlock
    <3> QED BY <3>3 DEF isAuthBlockedForModel
  <2> QED BY <2>3, <2>4
<1> QED BY <1>1, BoundInvariance, PauseInvariance, PTL

-----------------------------------------------------------------------------
(***************************************************************************)
(* What a restart brings back.                                             *)
(*                                                                         *)
(* A model's state and the credential say what they hold back until when;  *)
(* the file is what records of such states are, and when nothing is on its *)
(* way to it, its live records are those of the manager's credential - all *)
(* of them, but for a pause of the whole credential that one of its models *)
(* outlasts.                                                               *)
(***************************************************************************)
SoundState(s) ==
  /\ ~s.q.cred
  /\ s.q.ex <=> s.q.rec # 0
  /\ ~s.unavail => s.next = 0
  /\ s.unavail => s.next # 0 \/ s.q.rec # 0

\* A quota has an end, a credential-wide one that of the pause.
Exact(x) == (x.q.ex => x.q.rec # 0) /\ (x.q.cred => x.q.ex /\ x.q.rec = x.next)

SoundParts(a) == Exact(a) /\ \A m \in DOMAIN a.ms : SoundState(a.ms[m])

\* Without model states only a credential-wide quota holds it back.
Bare(a) == DOMAIN a.ms = {} => a.q.cred \/ (a.next = 0 /\ a.q = NoQuota)

Covered(a) == a.next # 0 => a.q.cred \/ \E m \in DOMAIN a.ms : Waits(a.ms[m], a.next)

SoundAuth(a) == SoundParts(a) /\ Bare(a) /\ Covered(a)

SoundRecord(r) ==
  /\ r.next # 0 /\ Exact(r)
  /\ r.model # Whole => ~r.q.cred /\ (r.q.rec # 0 => r.q.ex)
  /\ r.model = Whole => r.err = "other"

\* The record of a pause that a model's record outlasts.
Outlasted(w, recs) == w.model = Whole /\ ~w.q.cred /\ \E r \in recs : r.model # Whole /\ r.next >= w.next

SoundFile(recs) ==
  /\ \A r, s \in recs : r.model = s.model => r = s
  /\ \A r \in recs : SoundRecord(r) /\ (r.model = Whole => r.q.cred \/ Outlasted(r, recs))

Live(recs) == {r \in recs : r.next > now}

Shows(recs, own) == Live(recs) \subseteq own /\ \A w \in own \ Live(recs) : Outlasted(w, Live(recs))

Sound ==
  /\ SoundAuth(auth) /\ \A a \in clone : SoundAuth(a)
  /\ SoundFile(disk) /\ SoundFile(saver.recs) /\ SoundFile(loader.recs)

\* Nothing is on its way to the file.
Still == store /\ config.cooling /\ due = 0 /\ saver = Free /\ loader = Loaded /\ ~unsaved

Saved ==
  /\ saver.pc = "write" => store /\ (due = 0 /\ ~unsaved => Shows(saver.recs, cooldownStateRecords(auth)))
  /\ Still => Shows(disk, cooldownStateRecords(auth))

FileInv == Sound /\ Saved

\* The states an update under way has read.
Reads == \A m \in DOMAIN registering.ms : SoundState(registering.ms[m])

\* Clearing a pause that has passed keeps a state sound.
LEMMA SettledSound ==
  ASSUME NEW L, NEW s \in StatesIn(L), now \in Nat, SoundState(s)
  PROVE  /\ SoundState(settled(s))
         /\ \A t \in Nat : t > now /\ Waits(s, t) => settled(s) = s
<1>1. s.next \in Nat BY DEF StatesIn
<1>2. CASE s.unavail /\ s.next # 0 /\ s.next <= now
  <2>1. PICK u : u = [s EXCEPT !.unavail = FALSE, !.next = 0] OBVIOUS
  <2>2. settled(s) = u BY <1>2, <2>1 DEF settled
  <2>3. u.q = s.q /\ u.next = 0 /\ u.unavail = FALSE BY <2>1 DEF StatesIn
  <2>4. SoundState(u) BY <2>3 DEF SoundState
  <2> QED BY <1>1, <1>2, <2>2, <2>4 DEF Waits
<1>3. CASE ~(s.unavail /\ s.next # 0 /\ s.next <= now)
  <2>1. settled(s) = s BY <1>3 DEF settled
  <2> QED BY <2>1
<1> QED BY <1>2, <1>3

\* The window the aggregation makes for the credential has an end.
LEMMA AggregateQuota ==
  ASSUME NEW L, NEW W, LevelsUpTo(L, W), NEW a \in AuthsIn(L), now \in Nat,
         SoundParts(a), ~credentialQuota(a), DOMAIN a.ms # {},
         NEW u, u = updateAggregatedAvailability(a)
  PROVE  u.q.ex => u.q.rec # 0
<1> DEFINE ms == [m \in DOMAIN a.ms |-> settled(a.ms[m])]
           all == \A m \in DOMAIN ms : Cooling(ms[m])
           exceeded == {m \in DOMAIN ms : ms[m].q.ex}
           recovers == {ms[m].q.rec : m \in exceeded} \ {0}
           until == Max({a.q.rec} \union IF recovers = {} THEN {} ELSE {Min(recovers)})
           level == Max({ms[m].q.lvl : m \in exceeded})
           q == CASE exceeded # {} -> Quota(until, level)
                  [] exceeded = {} /\ a.q.ex /\ a.q.rec > now -> a.q
                  [] OTHER -> NoQuota
           next == IF all THEN Min({ms[m].next : m \in DOMAIN ms}) ELSE 0
<1>1. u = CASE credentialQuota(a) -> [a EXCEPT !.unavail = TRUE]
            [] ~credentialQuota(a) /\ DOMAIN ms = {} -> clearAggregatedAvailability(a)
            [] OTHER -> [unavail |-> all, next |-> next, q |-> q, ms |-> ms]
  BY DEF updateAggregatedAvailability
<1>2. DOMAIN ms = DOMAIN a.ms OBVIOUS
<1>3. \A m \in DOMAIN ms : ms[m].q.rec \in Nat /\ (ms[m].q.ex => ms[m].q.rec # 0)
  <2> SUFFICES ASSUME NEW m \in DOMAIN a.ms
               PROVE  ms[m].q.rec \in Nat /\ (ms[m].q.ex => ms[m].q.rec # 0)
    BY <1>2
  <2>1. a.ms[m] \in StatesIn(L) /\ SoundState(a.ms[m]) BY StatesOf DEF SoundParts
  <2>2. ms[m] = settled(a.ms[m]) OBVIOUS
  <2>3. ms[m] \in StatesIn(L) /\ ms[m].q = a.ms[m].q BY <2>1, <2>2, SettledIn
  <2>4. a.ms[m].q.rec \in Nat BY <2>1 DEF StatesIn, QuotasIn
  <2> QED BY <2>1, <2>3, <2>4 DEF SoundState
<1>4. a.q.rec \in Nat
  <2>1. a.q \in QuotasIn(L) BY DEF AuthsIn
  <2> QED BY <2>1 DEF QuotasIn
<1> HIDE DEF ms
<1>5. exceeded # {} => until # 0
  <2> SUFFICES ASSUME exceeded # {} PROVE until # 0 OBVIOUS
  <2>1. recovers \subseteq Nat \ {0} /\ recovers # {} BY <1>3
  <2> HIDE DEF recovers
  <2>2. PICK x : x = Min(recovers) OBVIOUS
  <2>3. x \in Nat \ {0} BY <2>1, <2>2, MinIsLeast
  <2>4. until = Max({a.q.rec, x})
    <3>1. {a.q.rec} \union (IF recovers = {} THEN {} ELSE {Min(recovers)}) = {a.q.rec, x}
      BY <2>1, <2>2
    <3> QED BY <3>1, Zenon
  <2> HIDE DEF until
  <2>5. Max({a.q.rec, x}) \in {a.q.rec, x} /\ x <= Max({a.q.rec, x}) BY <1>4, <2>3, MaxOfTwo
  <2> QED BY <1>4, <2>3, <2>4, <2>5
<1> HIDE DEF exceeded, until, level, all, next
<1>6. q.ex => q.rec # 0
  <2>1. \/ exceeded # {} /\ q = Quota(until, level)
        \/ q = NoQuota
        \/ q = a.q
    OBVIOUS
  <2>2. Quota(until, level).rec = until /\ ~NoQuota.ex BY DEF Quota, NoQuota
  <2>3. a.q.ex => a.q.rec # 0 BY DEF SoundParts, Exact
  <2> HIDE DEF q
  <2> QED BY <1>5, <2>1, <2>2, <2>3
<1> HIDE DEF q
<1>7. u = [unavail |-> all, next |-> next, q |-> q, ms |-> ms] BY <1>1, <1>2
<1> QED BY <1>6, <1>7

\* The aggregation makes a sound credential, and keeps what lasts.
LEMMA AggregateSound ==
  ASSUME NEW L, NEW W, LevelsUpTo(L, W), NEW a \in AuthsIn(L), now \in Nat,
         SoundParts(a), NEW u, u = updateAggregatedAvailability(a)
  PROVE  /\ SoundAuth(u) /\ DOMAIN u.ms = DOMAIN a.ms
         /\ \A m \in DOMAIN a.ms, t \in Nat : t > now /\ Waits(a.ms[m], t) => u.ms[m] = a.ms[m]
<1>1. \A m \in DOMAIN a.ms : a.ms[m] \in StatesIn(L) /\ SoundState(a.ms[m])
  BY StatesOf DEF SoundParts
<1>2. CASE credentialQuota(a)
  <2>1. u = [a EXCEPT !.unavail = TRUE] BY <1>2, AggregateForm
  <2>2. u.q = a.q /\ u.next = a.next /\ u.ms = a.ms BY <2>1 DEF AuthsIn
  <2>3. u.q.cred BY <1>2, <2>2 DEF credentialQuota
  <2> QED BY <2>2, <2>3 DEF SoundAuth, SoundParts, Exact, Bare, Covered
<1>3. CASE ~credentialQuota(a) /\ DOMAIN a.ms = {}
  <2>1. u = [a EXCEPT !.unavail = FALSE, !.next = 0, !.q = NoQuota]
    BY <1>3, AggregateForm DEF clearAggregatedAvailability
  <2>2. u.q = NoQuota /\ u.next = 0 /\ u.ms = a.ms BY <2>1 DEF AuthsIn
  <2>3. Exact(u) BY <2>2 DEF Exact, NoQuota
  <2> QED BY <1>3, <2>2, <2>3 DEF SoundAuth, SoundParts, Bare, Covered
<1>4. CASE ~credentialQuota(a) /\ DOMAIN a.ms # {}
  <2>1. PICK ms : ms = u.ms OBVIOUS
  <2>2. ms = [m \in DOMAIN a.ms |-> settled(a.ms[m])] /\ ~u.q.cred /\ u.next = Earliest(ms)
    BY <1>4, <2>1, AggregateForm
  <2>3. DOMAIN ms = DOMAIN a.ms BY <2>2
  <2>4. \A m \in DOMAIN ms : ms[m] = settled(a.ms[m]) BY <2>2
  <2>5. \A m \in DOMAIN ms : ms[m].next \in Nat /\ SoundState(ms[m])
    <3> SUFFICES ASSUME NEW m \in DOMAIN ms PROVE ms[m].next \in Nat /\ SoundState(ms[m]) OBVIOUS
    <3>1. settled(a.ms[m]) \in StatesIn(L) /\ SoundState(settled(a.ms[m]))
      BY <1>1, <2>3, SettledIn, SettledSound
    <3> QED BY <2>4, <3>1 DEF StatesIn
  <2>6. Exact(u) BY <1>4, <2>2, AggregateQuota DEF Exact
  <2>7. Covered(u)
    <3> SUFFICES ASSUME u.next # 0 PROVE \E m \in DOMAIN ms : Waits(ms[m], u.next)
      BY <2>1 DEF Covered
    <3>1. (\A m \in DOMAIN ms : Cooling(ms[m])) /\ u.next = Min({ms[m].next : m \in DOMAIN ms})
      BY <2>2 DEF Earliest
    <3>2. PICK N : N = {ms[m].next : m \in DOMAIN ms} OBVIOUS
    <3>3. N \subseteq Nat /\ N # {} BY <1>4, <2>3, <2>5, <3>2
    <3>4. u.next \in N BY <3>1, <3>2, <3>3, MinIsLeast
    <3>5. PICK m \in DOMAIN ms : ms[m].next = u.next BY <3>2, <3>4
    <3>6. ms[m].unavail /\ ms[m].next \in Nat BY <2>5, <3>1, <3>5 DEF Cooling
    <3>7. Waits(ms[m], u.next) BY <3>5, <3>6 DEF Waits
    <3> QED BY <3>7
  <2>8. ASSUME NEW m \in DOMAIN a.ms, NEW t \in Nat, t > now, Waits(a.ms[m], t)
        PROVE  u.ms[m] = a.ms[m]
    BY <1>1, <2>1, <2>3, <2>4, <2>8, SettledSound
  <2> QED BY <1>4, <2>1, <2>3, <2>5, <2>6, <2>7, <2>8 DEF SoundAuth, SoundParts, Bare
<1> QED BY <1>2, <1>3, <1>4

\* A failure leaves a model's state sound; one of a quota that cooldowns apply
\* to has a pause.
LEMMA FailedStateSound ==
  ASSUME NEW L, L \subseteq Nat, NEW s \in StatesIn(L), SoundState(s),
         NEW f \in Failures, now \in Nat \ {0}
  PROVE  /\ SoundState(failedState(s, f))
         /\ f.kind = "quota" /\ ~coolingOff(f) => failedState(s, f).next # 0
<1> DEFINE off == coolingOff(f)
           s1 == [s EXCEPT !.unavail = TRUE,
                           !.err = IF f.kind = "unauthorized" THEN "401" ELSE "other"]
           step == CASE off -> [until |-> 0, lvl |-> s.q.lvl]
                     [] ~off /\ f.kind = "quota" -> quotaUntil(s.q, f)
                     [] OTHER -> nextCloudflareCooldown(s.q)
           next == recoverableFailureRetryAfter(f)
           s2 == CASE f.kind = "unsupported" -> [s1 EXCEPT !.next = now + LongPause]
                   [] f.kind \in {"suspend", "unauthorized"} ->
                        [s1 EXCEPT !.next = IF off THEN 0 ELSE now + LongPause]
                   [] f.kind = "transient" -> [s1 EXCEPT !.next = next, !.unavail = next # 0]
                   [] OTHER -> [s1 EXCEPT !.next = step.until, !.q = Quota(step.until, step.lvl)]
           s3 == IF off /\ s2.next = 0 /\ s2.q.rec = 0
                 THEN [s2 EXCEPT !.unavail = FALSE, !.q.ex = FALSE] ELSE s2
<1>1. failedState(s, f) =
        IF f.force /\ s3.next = 0 THEN [s3 EXCEPT !.next = now + ForcePause, !.unavail = TRUE] ELSE s3
  BY Zenon DEF failedState
<1>2. /\ f.after \in Nat /\ f.kind \in Kinds /\ LongPause \in Nat /\ ForcePause \in Nat \ {0}
      /\ off => ~f.force
  BY CooldownAssumption DEF coolingOff
<1>3. f.kind \in {"quota", "cloudflare"} => (step.until # 0 <=> ~off)
  <2> DEFINE K == L \union {nextQuotaCooldown(l).lvl : l \in L}
  <2>2. K \subseteq Nat /\ L \subseteq K /\ \A l \in L : nextQuotaCooldown(l).lvl \in K
    <3>1. \A l \in L : nextQuotaCooldown(l).lvl \in Nat BY LadderStep
    <3> QED BY <3>1
  <2> HIDE DEF K
  <2>4. CASE off
    <3>1. step = [until |-> 0, lvl |-> s.q.lvl] BY <2>4
    <3> QED BY <2>4, <3>1
  <2>5. CASE ~off /\ f.kind = "quota"
    <3>1. step = quotaUntil(s.q, f) BY <2>5
    <3>2. quotaUntil(s.q, f).until \in Nat \ {0} BY <2>2, <2>5, QuotaUntilIn
    <3> HIDE DEF step
    <3> QED BY <2>5, <3>1, <3>2
  <2>6. CASE ~off /\ f.kind = "cloudflare"
    <3>1. step = nextCloudflareCooldown(s.q) BY <2>6
    <3>2. nextCloudflareCooldown(s.q).until \in Nat \ {0} BY <2>2, <2>6, CloudflareIn
    <3> HIDE DEF step
    <3> QED BY <2>6, <3>1, <3>2
  <2> QED BY <2>4, <2>5, <2>6
<1>4. s1.unavail = TRUE /\ s1.q = s.q /\ DOMAIN s1 = {"unavail", "next", "q", "err"}
  BY DEF StatesIn
<1> HIDE DEF s1, step, next
\* s2 has a pause, or none of a quota either, or the window it had.
<1>5. /\ ~s2.q.cred /\ DOMAIN s2 = {"unavail", "next", "q", "err"}
      /\ ~s2.unavail => s2.next = 0 /\ f.kind = "transient"
      /\ s2.q.ex <=> s2.q.rec # 0 \/ (s2.next = 0 /\ f.kind \in {"quota", "cloudflare"})
      /\ s2.next = 0 /\ f.kind # "transient" => off
      /\ f.kind \in {"quota", "cloudflare"} => s2.q.rec = s2.next
      /\ f.kind = "transient" => (s2.unavail <=> s2.next # 0)
  <2>0. SoundState(s) OBVIOUS
  <2>1. CASE f.kind = "unsupported"
    <3>1. s2 = [s1 EXCEPT !.next = now + LongPause] BY <2>1
    <3>2. s2.next = now + LongPause /\ s2.q = s.q /\ s2.unavail = TRUE
          /\ DOMAIN s2 = {"unavail", "next", "q", "err"}
      BY <1>4, <3>1
    <3>3. s2.next # 0 BY <1>2, <3>2
    <3> HIDE DEF s2
    <3> QED BY <2>0, <2>1, <3>2, <3>3 DEF SoundState
  <2>2. CASE f.kind \in {"suspend", "unauthorized"}
    <3>1. PICK n : n = IF off THEN 0 ELSE now + LongPause OBVIOUS
    <3>2. s2 = [s1 EXCEPT !.next = n] BY <2>2, <3>1
    <3>3. s2.next = n /\ s2.q = s.q /\ s2.unavail = TRUE /\ DOMAIN s2 = {"unavail", "next", "q", "err"}
      BY <1>4, <3>2
    <3>4. n = 0 => off BY <1>2, <3>1
    <3> HIDE DEF s2
    <3> QED BY <2>0, <2>2, <3>3, <3>4 DEF SoundState
  <2>3. CASE f.kind = "transient"
    <3>1. PICK b : b = (next # 0) OBVIOUS
    <3>2. s2 = [s1 EXCEPT !.next = next, !.unavail = b] BY <2>3, <3>1, Zenon
    <3>3. s2.next = next /\ s2.q = s.q /\ s2.unavail = b /\ DOMAIN s2 = {"unavail", "next", "q", "err"}
      BY <1>4, <3>2
    <3> HIDE DEF s2
    <3> QED BY <2>0, <2>3, <3>1, <3>3 DEF SoundState
  <2>4. CASE f.kind \in {"quota", "cloudflare"}
    <3>1. PICK q : q = Quota(step.until, step.lvl) OBVIOUS
    <3>2. s2 = [s1 EXCEPT !.next = step.until, !.q = q] BY <2>4, <3>1
    <3>3. s2.next = step.until /\ s2.q = q /\ s2.unavail = TRUE
          /\ DOMAIN s2 = {"unavail", "next", "q", "err"}
      BY <1>4, <3>2
    <3>4. q.ex /\ ~q.cred /\ q.rec = step.until BY <3>1 DEF Quota
    <3> HIDE DEF s2
    <3> QED BY <1>3, <2>4, <3>3, <3>4
  <2> QED BY <1>2, <2>1, <2>2, <2>3, <2>4 DEF Kinds
<1>6. DOMAIN s2.q = {"ex", "cred", "rec", "lvl"}
  <2>1. \/ s2 \in {[s1 EXCEPT !.next = now + LongPause], [s1 EXCEPT !.next = IF off THEN 0 ELSE now + LongPause]}
        \/ s2 = [s1 EXCEPT !.next = next, !.unavail = next # 0]
        \/ s2 = [s1 EXCEPT !.next = step.until, !.q = Quota(step.until, step.lvl)]
    BY <1>2, Zenon DEF Kinds
  <2>2. DOMAIN s.q = {"ex", "cred", "rec", "lvl"} BY DEF StatesIn, QuotasIn
  <2>3. DOMAIN Quota(step.until, step.lvl) = {"ex", "cred", "rec", "lvl"} BY DEF Quota
  <2>4. s2.q = s.q \/ s2.q = Quota(step.until, step.lvl) BY <1>4, <2>1
  <2> QED BY <2>2, <2>3, <2>4
<1> HIDE DEF s2
<1>7. /\ SoundState(s3) \/ f.force
      /\ s3.next = s2.next /\ ~s3.q.cred /\ (f.force => s3 = s2)
      /\ DOMAIN s3 = {"unavail", "next", "q", "err"}
  <2>1. CASE off /\ s2.next = 0 /\ s2.q.rec = 0
    <3>1. PICK q : q = [s2.q EXCEPT !.ex = FALSE] OBVIOUS
    <3>2. q.ex = FALSE /\ q.cred = s2.q.cred /\ q.rec = s2.q.rec BY <1>6, <3>1
    <3>3. s3 = [s2 EXCEPT !.unavail = FALSE, !.q = q] BY <1>5, <2>1, <3>1
    <3>4. s3.unavail = FALSE /\ s3.q = q /\ s3.next = s2.next /\ DOMAIN s3 = DOMAIN s2 BY <1>5, <3>3
    <3> HIDE DEF s3
    <3> QED BY <1>2, <1>5, <2>1, <3>2, <3>4 DEF SoundState
  <2>2. CASE ~(off /\ s2.next = 0 /\ s2.q.rec = 0)
    <3>1. s3 = s2 BY <2>2
    <3> HIDE DEF s3
    <3>2. SoundState(s2) BY <1>5, <2>2 DEF SoundState
    <3> QED BY <1>5, <3>1, <3>2
  <2> QED BY <2>1, <2>2
<1> HIDE DEF s3
<1>8. CASE f.force /\ s3.next = 0
  <2>1. PICK u : u = [s3 EXCEPT !.next = now + ForcePause, !.unavail = TRUE] OBVIOUS
  <2>2. u.next = now + ForcePause /\ u.unavail = TRUE /\ u.q = s3.q BY <1>7, <2>1
  <2>3. u.next # 0 BY <1>2, <2>2
  <2>4. s3 = s2 /\ ~off BY <1>2, <1>7, <1>8
  <2>5. f.kind = "transient" BY <1>5, <1>8, <2>4
  <2>6. SoundState(u) BY <1>5, <2>2, <2>3, <2>4, <2>5 DEF SoundState
  <2>7. failedState(s, f) = u BY <1>1, <1>8, <2>1
  <2> QED BY <2>3, <2>6, <2>7
<1>9. CASE ~(f.force /\ s3.next = 0)
  <2>1. failedState(s, f) = s3 BY <1>1, <1>9
  <2>2. SoundState(s3)
    <3>1. CASE f.force
      <4>1. s3 = s2 /\ s2.next # 0 BY <1>7, <1>9, <3>1
      <4> QED BY <1>5, <4>1 DEF SoundState
    <3>2. CASE ~f.force BY <1>7, <3>2
    <3> QED BY <3>1, <3>2
  <2>3. f.kind = "quota" /\ ~off => s3.next # 0 BY <1>5, <1>7
  <2> QED BY <2>1, <2>2, <2>3
<1> QED BY <1>8, <1>9

\* A credential-wide quota failure with a pause.
LEMMA ScopeSound ==
  ASSUME NEW L, NEW a \in AuthsIn(L), NEW m \in DOMAIN a.ms,
         \A n \in DOMAIN a.ms : SoundState(a.ms[n]), a.ms[m].next # 0
  PROVE  SoundParts(credentialScope(a, m))
<1> DEFINE until == a.ms[m].next
           lvl == a.ms[m].q.lvl
           t(s) == IF s.q.ex THEN Max({until, s.q.rec}) ELSE until
           Spread(s) == [s EXCEPT !.unavail = TRUE, !.next = t(s), !.q = Quota(t(s), lvl)]
           authNext == Max({until, a.q.rec})
           q == [a.q EXCEPT !.ex = TRUE, !.cred = TRUE, !.rec = authNext]
           ms == [n \in DOMAIN a.ms |-> IF n = m THEN a.ms[n] ELSE Spread(a.ms[n])]
<1>1. /\ \A n \in DOMAIN a.ms : a.ms[n] \in StatesIn(L)
      /\ a.q \in QuotasIn(L)
  BY StatesOf DEF AuthsIn
<1>2. until \in Nat \ {0} BY <1>1 DEF StatesIn
<1>3. credentialScope(a, m) = [unavail |-> TRUE, next |-> authNext, q |-> q, ms |-> ms]
  BY Zenon DEF credentialScope
<1> HIDE DEF until, lvl
<1>4. ASSUME NEW n \in DOMAIN a.ms PROVE SoundState(Spread(a.ms[n]))
  <2>1. PICK s : s = a.ms[n] OBVIOUS
  <2>2. s \in StatesIn(L) /\ s.q.rec \in Nat BY <1>1, <2>1 DEF StatesIn, QuotasIn
  <2>3. Max({until, s.q.rec}) \in Nat /\ until <= Max({until, s.q.rec}) BY <1>2, <2>2, MaxOfTwo
  <2>4. PICK x : x = t(s) OBVIOUS
  <2>5. x \in Nat \ {0} BY <1>2, <2>3, <2>4
  <2>6. PICK p : p = Quota(x, lvl) OBVIOUS
  <2>7. p.ex = TRUE /\ p.cred = FALSE /\ p.rec = x BY <2>6 DEF Quota
  <2>8. PICK u : u = [s EXCEPT !.unavail = TRUE, !.next = x, !.q = p] OBVIOUS
  <2>9. u.unavail = TRUE /\ u.next = x /\ u.q = p BY <2>2, <2>8 DEF StatesIn
  <2>10. SoundState(u) BY <2>5, <2>7, <2>9 DEF SoundState
  <2>11. Spread(s) = u BY <2>4, <2>6, <2>8, Zenon
  <2> HIDE DEF Spread
  <2> QED BY <2>1, <2>10, <2>11
<1> HIDE DEF Spread
<1>5. authNext \in Nat \ {0}
  <2>1. a.q.rec \in Nat BY <1>1 DEF QuotasIn
  <2>2. Max({until, a.q.rec}) \in {until, a.q.rec} /\ until <= Max({until, a.q.rec})
    BY <1>2, <2>1, MaxOfTwo
  <2> QED BY <1>2, <2>1, <2>2
<1> HIDE DEF authNext
<1>6. q.ex = TRUE /\ q.cred = TRUE /\ q.rec = authNext BY <1>1 DEF QuotasIn
<1>7. DOMAIN ms = DOMAIN a.ms /\ \A n \in DOMAIN ms : SoundState(ms[n]) BY <1>4
<1> HIDE DEF q, ms
<1>8. credentialScope(a, m).q = q /\ credentialScope(a, m).next = authNext
      /\ credentialScope(a, m).ms = ms
  BY <1>3
<1> QED BY <1>5, <1>6, <1>7, <1>8 DEF SoundParts, Exact

\* The state a model starts with.
LEMMA CleanSound == SoundState(Clean)
BY DEF SoundState, Clean, NoQuota

\* A credential whose model m gets the state s.
Given(a, m, s) == [ensureModelState(a, m) EXCEPT !.ms[m] = s]

\* Nothing else of it changes.
LEMMA SetStateSound ==
  ASSUME NEW L, 0 \in L, NEW a \in AuthsIn(L), SoundParts(a), NEW m \in Models,
         NEW s \in StatesIn(L), SoundState(s), NEW c, c = Given(a, m, s)
  PROVE  /\ c \in AuthsIn(L) /\ SoundParts(c) /\ DOMAIN c.ms = DOMAIN a.ms \union {m}
         /\ c.ms[m] = s /\ \A n \in DOMAIN a.ms : n # m => c.ms[n] = a.ms[n]
         /\ c.q = a.q /\ c.next = a.next
<1>1. PICK b : b = ensureModelState(a, m) OBVIOUS
<1>2. /\ b \in AuthsIn(L) /\ DOMAIN b.ms = DOMAIN a.ms \union {m}
      /\ \A n \in DOMAIN a.ms : b.ms[n] = a.ms[n]
      /\ b.q = a.q /\ b.next = a.next
  BY <1>1, EnsureIn
<1>3. /\ c \in AuthsIn(L) /\ c.ms = [b.ms EXCEPT ![m] = s] /\ c.q = b.q /\ c.next = b.next
  <2>1. c = [b EXCEPT !.ms[m] = s] BY <1>1, Zenon DEF Given
  <2> QED BY <1>2, <2>1, SetStateIn
<1>4. DOMAIN c.ms = DOMAIN a.ms \union {m} /\ c.ms[m] = s BY <1>2, <1>3
<1>5. \A n \in DOMAIN a.ms : n # m => c.ms[n] = a.ms[n] BY <1>2, <1>3
<1>6. \A n \in DOMAIN c.ms : SoundState(c.ms[n]) BY <1>4, <1>5 DEF SoundParts
<1>7. SoundParts(c) BY <1>2, <1>3, <1>6 DEF SoundParts, Exact
<1> QED BY <1>2, <1>3, <1>4, <1>5, <1>7

\* MarkResult.
LEMMA ResultsSound ==
  ASSUME NEW L, NEW W, LevelsUpTo(L, W), NEW a \in AuthsIn(L), now \in Nat \ {0},
         NEW m \in Models, SoundAuth(a)
  PROVE  /\ SoundAuth(succeeded(a, m))
         /\ \A f \in Failures : SoundAuth(failed(a, m, f))
<1>0. SoundParts(a) /\ 0 \in L /\ L \subseteq Nat BY DEF SoundAuth, LevelsUpTo
<1>1. SoundAuth(succeeded(a, m))
  <2>1. PICK c : c = Given(a, m, Clean) OBVIOUS
  <2>2. Clean \in StatesIn(L) BY <1>0, FreshStates
  <2>3. c \in AuthsIn(L) /\ SoundParts(c) BY <1>0, <2>1, <2>2, CleanSound, SetStateSound
  <2>4. SoundAuth(updateAggregatedAvailability(c)) BY <2>3, AggregateSound
  <2>5. succeeded(a, m) \in {a, updateAggregatedAvailability(c)}
    <3>1. CASE a.q.cred /\ a.q.rec > now BY <3>1 DEF succeeded
    <3>2. CASE ~(a.q.cred /\ a.q.rec > now)
      <4>1. succeeded(a, m) = updateAggregatedAvailability(c) BY <2>1, <3>2, Zenon DEF succeeded, Given
      <4> QED BY <4>1
    <3> QED BY <3>1, <3>2
  <2> QED BY <2>4, <2>5
<1>2. ASSUME NEW f \in Failures PROVE SoundAuth(failed(a, m, f))
  <2> DEFINE K == L \union {nextQuotaCooldown(l).lvl : l \in L}
             V == W + 1
  <2>3. LevelsUpTo(K, V) /\ L \subseteq K /\ K \subseteq Nat /\ 0 \in K
    <3>1. \A l \in L : l \in 0 .. W /\ W \in Nat BY DEF LevelsUpTo
    <3>2. \A l \in L : nextQuotaCooldown(l).lvl \in 0 .. V
      <4> SUFFICES ASSUME NEW l \in L PROVE nextQuotaCooldown(l).lvl \in 0 .. V OBVIOUS
      <4>1. nextQuotaCooldown(l).lvl = IF climbs(l) THEN l + 1 ELSE l BY <3>1, LadderStep
      <4> QED BY <3>1, <4>1
    <3>3. W \in Nat /\ V \in Nat /\ 0 .. W \subseteq 0 .. V /\ 0 .. V \subseteq Nat BY <1>0, <3>1
    <3> HIDE DEF V
    <3>4. K \subseteq 0 .. V BY <3>1, <3>2, <3>3
    <3> QED BY <1>0, <3>3, <3>4 DEF LevelsUpTo
  <2>4. \A l \in L : nextQuotaCooldown(l).lvl \in K OBVIOUS
  <2> HIDE DEF K, V
  <2>5. PICK b : b = ensureModelState(a, m) OBVIOUS
  <2>6. /\ b \in AuthsIn(L) /\ m \in DOMAIN b.ms /\ SoundState(b.ms[m])
        /\ b.ms[m] \in StatesIn(L)
    <3>1. /\ b \in AuthsIn(L) /\ m \in DOMAIN b.ms
          /\ m \in DOMAIN a.ms => b.ms[m] = a.ms[m]
          /\ m \notin DOMAIN a.ms => b.ms[m] = Clean
      BY <1>0, <2>5, EnsureIn
    <3>2. SoundState(b.ms[m]) BY <1>0, <3>1, CleanSound DEF SoundParts
    <3> QED BY <3>1, <3>2, StatesOf
  <2>7. PICK s : s = failedState(b.ms[m], f) OBVIOUS
  <2>8. s \in StatesIn(K) BY <2>3, <2>4, <2>6, <2>7, FailedStateIn
  <2>9. SoundState(s) /\ (f.kind = "quota" /\ ~coolingOff(f) => s.next # 0)
    BY <1>0, <2>6, <2>7, FailedStateSound
  <2>10. PICK c : c = [b EXCEPT !.ms[m] = s] OBVIOUS
  <2>11. a \in AuthsIn(K) BY <2>3, Wider
  <2>12. c \in AuthsIn(K) /\ SoundParts(c) /\ m \in DOMAIN c.ms /\ c.ms[m] = s
    <3>1. c = Given(a, m, s) BY <2>5, <2>10, Zenon DEF Given
    <3>2. 0 \in K /\ SoundState(s) BY <2>3, <2>9
    <3>3. c \in AuthsIn(K) /\ SoundParts(c) /\ DOMAIN c.ms = DOMAIN a.ms \union {m} /\ c.ms[m] = s
      BY <1>0, <2>8, <2>11, <3>1, <3>2, SetStateSound
    <3> QED BY <3>3
  <2>13. PICK d : d = IF f.kind = "quota" /\ f.scope /\ ~coolingOff(f) THEN credentialScope(c, m) ELSE c
    OBVIOUS
  <2>14. d \in AuthsIn(K) /\ SoundParts(d)
    <3>1. CASE f.kind = "quota" /\ f.scope /\ ~coolingOff(f)
      <4>1. d = credentialScope(c, m) BY <2>13, <3>1
      <4>2. c.ms[m].next # 0 BY <2>9, <2>12, <3>1
      <4>3. \A n \in DOMAIN c.ms : SoundState(c.ms[n]) BY <2>12 DEF SoundParts
      <4> QED BY <2>12, <4>1, <4>2, <4>3, ScopeIn, ScopeSound
    <3>2. CASE ~(f.kind = "quota" /\ f.scope /\ ~coolingOff(f))
      <4>1. d = c BY <2>13, <3>2
      <4> QED BY <2>12, <4>1
    <3> QED BY <3>1, <3>2
  <2>15. SoundAuth(updateAggregatedAvailability(d)) BY <2>3, <2>14, AggregateSound
  <2>16. failed(a, m, f) = updateAggregatedAvailability(d)
    BY <2>5, <2>7, <2>10, <2>13, Zenon DEF failed
  <2> QED BY <2>15, <2>16
<1> QED BY <1>1, <1>2

\* Clearing a cooldown leaves nothing that holds back.
LEMMA ClearedSound ==
  ASSUME NEW L
  PROVE  /\ \A s \in StatesIn(L) : SoundState(s) => SoundState(clearedState(s))
         /\ \A a \in AuthsIn(L) : Exact(a) =>
              LET b == clearedState(a)
              IN  Exact(b) /\ b.next = 0 /\ ~b.q.cred /\ (a.q = NoQuota => b.q = NoQuota)
                  /\ (b.q = NoQuota \/ b.q = a.q)
<1>1. ASSUME NEW s \in StatesIn(L), SoundState(s) PROVE SoundState(clearedState(s))
  <2>1. CASE s.unavail \/ s.next # 0 \/ s.q.ex \/ s.q.rec # 0
    <3>1. PICK u : u = [s EXCEPT !.unavail = FALSE, !.next = 0, !.q = NoQuota] OBVIOUS
    <3>2. clearedState(s) = u BY <2>1, <3>1 DEF clearedState
    <3>3. u.unavail = FALSE /\ u.next = 0 /\ u.q = NoQuota BY <3>1 DEF StatesIn
    <3>4. SoundState(u) BY <3>3 DEF SoundState, NoQuota
    <3> QED BY <3>2, <3>4
  <2>2. CASE ~(s.unavail \/ s.next # 0 \/ s.q.ex \/ s.q.rec # 0)
    <3>1. clearedState(s) = s BY <2>2 DEF clearedState
    <3> QED BY <1>1, <3>1
  <2> QED BY <2>1, <2>2
<1>2. ASSUME NEW a \in AuthsIn(L), Exact(a), NEW b, b = clearedState(a)
      PROVE  Exact(b) /\ b.next = 0 /\ ~b.q.cred /\ (a.q = NoQuota => b.q = NoQuota)
             /\ (b.q = NoQuota \/ b.q = a.q)
  <2>1. CASE a.unavail \/ a.next # 0 \/ a.q.ex \/ a.q.rec # 0
    <3>1. b = [a EXCEPT !.unavail = FALSE, !.next = 0, !.q = NoQuota]
      BY <1>2, <2>1 DEF clearedState
    <3>2. b.next = 0 /\ b.q = NoQuota BY <3>1 DEF AuthsIn
    <3> QED BY <3>2 DEF Exact, NoQuota
  <2>2. CASE ~(a.unavail \/ a.next # 0 \/ a.q.ex \/ a.q.rec # 0)
    <3>1. b = a BY <1>2, <2>2 DEF clearedState
    <3> QED BY <1>2, <2>2, <3>1 DEF Exact
  <2> QED BY <2>1, <2>2
<1> QED BY <1>1, <1>2

\* And of the whole credential.
LEMMA ClearSound ==
  ASSUME NEW L, NEW W, LevelsUpTo(L, W), NEW a \in AuthsIn(L), now \in Nat,
         SoundParts(a), Bare(a)
  PROVE  SoundAuth(clearCooldownStateForAuth(a))
<1> DEFINE ms == [m \in DOMAIN a.ms |-> clearedState(a.ms[m])]
           b == [clearedState(a) EXCEPT !.ms = ms]
<1>1. /\ DOMAIN a.ms \subseteq Models
      /\ \A m \in DOMAIN a.ms : a.ms[m] \in StatesIn(L) /\ SoundState(a.ms[m])
  BY StatesOf DEF SoundParts
<1>2. /\ DOMAIN ms \subseteq Models /\ ms \in [DOMAIN ms -> StatesIn(L)] /\ DOMAIN ms = DOMAIN a.ms
      /\ \A m \in DOMAIN ms : SoundState(ms[m])
  BY <1>1, ClearedIn, ClearedSound
<1>3. clearedState(a) \in AuthsIn(L) BY ClearedIn
<1>4. clearCooldownStateForAuth(a) =
        IF DOMAIN a.ms = {} THEN b ELSE updateAggregatedAvailability(b)
  BY Zenon DEF clearCooldownStateForAuth
<1>5. PICK c : c = clearedState(a) OBVIOUS
<1>6. Exact(c) /\ c.next = 0 /\ ~c.q.cred /\ (a.q = NoQuota => c.q = NoQuota)
      /\ (c.q = NoQuota \/ c.q = a.q)
  BY <1>5, ClearedSound DEF SoundParts
<1> HIDE DEF ms
<1>7. b \in AuthsIn(L) /\ b.ms = ms BY <1>2, <1>3, WithStates
<1>8. b.next = c.next /\ b.q = c.q BY <1>3, <1>5 DEF AuthsIn
<1> HIDE DEF b
<1>9. SoundParts(b) BY <1>2, <1>6, <1>7, <1>8 DEF SoundParts, Exact
<1>10. DOMAIN a.ms = {} => SoundAuth(b)
  BY <1>6, <1>8, <1>9 DEF SoundAuth, Bare, Covered
<1>11. SoundAuth(updateAggregatedAvailability(b)) BY <1>7, <1>9, AggregateSound
<1> QED BY <1>4, <1>10, <1>11

\* Model states replaced by clean ones.
LEMMA ResetSound ==
  ASSUME NEW L, NEW a \in AuthsIn(L), SoundAuth(a), NEW D, NEW ms,
         ms = [m \in DOMAIN a.ms |-> IF m \in D THEN Clean ELSE a.ms[m]],
         NEW b, b.q = a.q, b.next = a.next, b.ms = ms
  PROVE  SoundParts(b) /\ Bare(b) /\ (D = {} => SoundAuth(b))
<1>1. DOMAIN ms = DOMAIN a.ms /\ \A m \in DOMAIN ms : ms[m] = IF m \in D THEN Clean ELSE a.ms[m]
  OBVIOUS
<1>2. SoundParts(b) BY <1>1, CleanSound DEF SoundAuth, SoundParts, Exact
<1>3. Bare(b) BY <1>1 DEF SoundAuth, Bare
<1>4. D = {} => Covered(b) BY <1>1 DEF SoundAuth, Covered
<1> QED BY <1>2, <1>3, <1>4 DEF SoundAuth

\* What Update makes of a credential.
LEMMA UpdateSound ==
  ASSUME NEW L, NEW W, LevelsUpTo(L, W), NEW a \in AuthsIn(L),
         auth \in AuthsIn(L), now \in Nat, SoundAuth(a), SoundAuth(auth), Update(a)
  PROVE  \E c : auth' = c /\ SoundAuth(c)
<1> DEFINE ms == IF DOMAIN a.ms = {} THEN auth.ms ELSE a.ms
           b == [a EXCEPT !.ms = ms]
           c == [b EXCEPT !.unavail = auth.unavail, !.next = auth.next, !.q = auth.q]
<1>1. DOMAIN ms \subseteq Models /\ ms \in [DOMAIN ms -> StatesIn(L)] BY StatesOf
<1>2. kept(a) = IF credentialQuota(auth) THEN c ELSE b BY Zenon DEF kept
<1>3. /\ DOMAIN a.ms # {} => ms = a.ms
      /\ \A m \in DOMAIN ms : SoundState(ms[m])
  BY DEF SoundAuth, SoundParts
<1> HIDE DEF ms
<1>4. b \in AuthsIn(L) /\ b.ms = ms BY <1>1, WithStates
<1>5. b.q = a.q /\ b.next = a.next BY DEF AuthsIn
<1> HIDE DEF b
<1>6. /\ auth.unavail \in BOOLEAN /\ auth.next \in Nat /\ auth.q \in QuotasIn(L)
  BY DEF AuthsIn
<1>7. c \in AuthsIn(L) BY <1>4, <1>6, Zenon DEF AuthsIn
<1>8. c.q = auth.q /\ c.next = auth.next /\ c.ms = ms BY <1>4 DEF AuthsIn
<1> HIDE DEF c
<1>9. credentialQuota(auth) => SoundAuth(c)
  <2> SUFFICES ASSUME credentialQuota(auth) PROVE SoundAuth(c) OBVIOUS
  <2>1. c.q.cred BY <1>8 DEF credentialQuota
  <2>2. SoundParts(c) BY <1>3, <1>8 DEF SoundAuth, SoundParts, Exact
  <2> QED BY <2>1, <2>2 DEF SoundAuth, Bare, Covered
<1>10. SoundAuth(b)
  <2>1. SoundParts(b) BY <1>3, <1>4, <1>5 DEF SoundAuth, SoundParts, Exact
  <2>2. CASE DOMAIN a.ms # {} BY <1>3, <1>4, <1>5, <2>1, <2>2 DEF SoundAuth, Bare, Covered
  <2>3. CASE DOMAIN a.ms = {}
    <3>1. a.q.cred \/ (a.next = 0 /\ a.q = NoQuota) BY <2>3 DEF SoundAuth, Bare
    <3> QED BY <1>5, <2>1, <3>1 DEF SoundAuth, Bare, Covered
  <2> QED BY <2>2, <2>3
<1>11. PICK k : k = kept(a) OBVIOUS
<1>12. k \in AuthsIn(L) /\ SoundAuth(k) BY <1>2, <1>4, <1>7, <1>9, <1>10, <1>11
<1>13. SoundAuth(clearCooldownStateForAuth(k)) BY <1>12, ClearSound DEF SoundAuth
<1>14. auth' = k \/ auth' = clearCooldownStateForAuth(k) BY <1>11, Zenon DEF Update
<1> QED BY <1>12, <1>13, <1>14

\* The records of a model and of the credential.
StateRecord(a, m) == cooldownStateRecord(a.ms[m], m, a.ms[m].err)
OwnRecord(a) == cooldownStateRecord(a, Whole, "other")

\* What a record holds.
LEMMA RecordFields ==
  ASSUME NEW a
  PROVE  /\ \A m : LET r == StateRecord(a, m)
                   IN  r.model = m /\ r.next = a.ms[m].next /\ r.q = a.ms[m].q /\ r.err = a.ms[m].err
         /\ LET r == OwnRecord(a)
            IN  r.model = Whole /\ r.next = a.next /\ r.q = a.q /\ r.err = "other"
BY DEF StateRecord, OwnRecord, cooldownStateRecord

\* Which records are written.
LEMMA RecordsAre ==
  ASSUME NEW a
  PROVE  /\ ~config.cooling => cooldownStateRecords(a) = {}
         /\ config.cooling =>
              /\ \A m \in DOMAIN a.ms : Cooling(a.ms[m]) => StateRecord(a, m) \in cooldownStateRecords(a)
              /\ Cooling(a) => OwnRecord(a) \in cooldownStateRecords(a)
         /\ \A r \in cooldownStateRecords(a) :
              \/ \E m \in DOMAIN a.ms : Cooling(a.ms[m]) /\ r = StateRecord(a, m)
              \/ Cooling(a) /\ r = OwnRecord(a)
<1>1. cooldownStateRecords(a) =
        IF ~config.cooling THEN {}
        ELSE {StateRecord(a, m) : m \in {n \in DOMAIN a.ms : Cooling(a.ms[n])}}
             \union (IF Cooling(a) THEN {OwnRecord(a)} ELSE {})
  BY Zenon DEF cooldownStateRecords, StateRecord, OwnRecord
<1> HIDE DEF StateRecord, OwnRecord
<1> QED BY <1>1

\* The records of a sound credential make a sound file.
LEMMA RecordsSound ==
  ASSUME NEW L, NEW a \in AuthsIn(L), now \in Nat, SoundAuth(a),
         NEW recs, recs = cooldownStateRecords(a)
  PROVE  SoundFile(recs) /\ Shows(recs, recs) /\ \A r \in recs : r.next > now
<1>1. /\ \A m \in DOMAIN a.ms : m # Whole /\ SoundState(a.ms[m]) /\ a.ms[m].next \in Nat
      /\ a.next \in Nat
  <2>1. DOMAIN a.ms \subseteq Models /\ \A m \in DOMAIN a.ms : a.ms[m] \in StatesIn(L) BY StatesOf
  <2> QED BY <2>1, CooldownAssumption DEF StatesIn, AuthsIn, SoundAuth, SoundParts, Whole
<1>2. \A r \in recs :
        \/ \E m \in DOMAIN a.ms : Cooling(a.ms[m]) /\ r = StateRecord(a, m)
        \/ Cooling(a) /\ r = OwnRecord(a)
  BY RecordsAre
<1>3. \A r \in recs : r.next > now
  BY <1>2, RecordFields DEF Cooling
<1>4. Shows(recs, recs) BY <1>3 DEF Shows, Live
<1>5. \A r, s \in recs : r.model = s.model => r = s
  <2> SUFFICES ASSUME NEW r \in recs, NEW s \in recs, r.model = s.model PROVE r = s OBVIOUS
  <2>1. \/ r.model \in DOMAIN a.ms /\ r = StateRecord(a, r.model)
        \/ r.model = Whole /\ r = OwnRecord(a)
    BY <1>2, RecordFields
  <2>2. \/ s.model \in DOMAIN a.ms /\ s = StateRecord(a, s.model)
        \/ s.model = Whole /\ s = OwnRecord(a)
    BY <1>2, RecordFields
  <2> QED BY <1>1, <2>1, <2>2
<1>6. ASSUME NEW r \in recs PROVE SoundRecord(r) /\ (r.model = Whole => r.q.cred \/ Outlasted(r, recs))
  <2>1. r.next # 0 BY <1>3
  <2>2. CASE \E m \in DOMAIN a.ms : Cooling(a.ms[m]) /\ r = StateRecord(a, m)
    <3>1. PICK m \in DOMAIN a.ms : Cooling(a.ms[m]) /\ r = StateRecord(a, m) BY <2>2
    <3>2. r.model = m /\ r.q = a.ms[m].q BY <3>1, RecordFields
    <3>3. m # Whole /\ SoundState(a.ms[m]) BY <1>1
    <3> QED BY <2>1, <3>2, <3>3 DEF SoundRecord, SoundState, Exact
  <2>3. CASE Cooling(a) /\ r = OwnRecord(a)
    <3>1. r.model = Whole /\ r.next = a.next /\ r.q = a.q /\ r.err = "other" BY <2>3, RecordFields
    <3>2. Exact(r) BY <3>1 DEF SoundAuth, SoundParts, Exact
    <3>3. SoundRecord(r) BY <2>1, <3>1, <3>2 DEF SoundRecord
    <3>4. ASSUME ~r.q.cred PROVE Outlasted(r, recs)
      <4>1. PICK m \in DOMAIN a.ms : Waits(a.ms[m], a.next)
        BY <2>1, <3>1, <3>4 DEF SoundAuth, Covered
      <4>2. Cooling(a.ms[m]) BY <1>1, <1>3, <3>1, <4>1 DEF Waits, Cooling
      <4>3. PICK x : x = StateRecord(a, m) OBVIOUS
      <4>4. config.cooling BY RecordsAre
      <4>5. x \in recs BY <4>2, <4>3, <4>4, RecordsAre
      <4>6. x.model # Whole /\ x.next >= r.next BY <1>1, <3>1, <4>1, <4>3, RecordFields DEF Waits
      <4> QED BY <3>1, <3>4, <4>5, <4>6 DEF Outlasted
    <3> QED BY <3>3, <3>4
  <2> QED BY <1>2, <2>2, <2>3
<1>7. SoundFile(recs) BY <1>5, <1>6 DEF SoundFile
<1> QED BY <1>3, <1>4, <1>7

\* The state a record brings to a model that has none.
Back(r) == [unavail |-> TRUE, next |-> r.next, q |-> r.q, err |-> r.err]

\* A sound record says when its quota ends.
LEMMA QuotaOfSound ==
  ASSUME NEW L, NEW r \in RecordsIn(L), Exact(r)
  PROVE  recordQuota(r) = r.q
<1>1. r.q \in QuotasIn(L) BY DEF RecordsIn
<1>2. recordQuota(r) = [r.q EXCEPT !.rec = r.q.rec] BY DEF recordQuota, Exact
<1> QED BY <1>1, <1>2 DEF QuotasIn

\* Merging a sound record.
LEMMA MergeSound ==
  ASSUME NEW L, NEW W, LevelsUpTo(L, W), NEW s \in StatesIn(L), SoundState(s),
         NEW r \in RecordsIn(L), SoundRecord(r), r.model # Whole,
         NEW u, u = mergeModelState(s, r)
  PROVE  /\ SoundState(u) /\ u.unavail /\ u.next \in Nat /\ u.next >= s.next /\ u.next >= r.next
         /\ s = Clean => u = Back(r)
<1>1. recordQuota(r) = r.q BY QuotaOfSound DEF SoundRecord
<1>2. /\ s.next \in Nat /\ r.next \in Nat \ {0}
      /\ s.q \in QuotasIn(L) /\ r.q \in QuotasIn(L)
  BY DEF StatesIn, RecordsIn, SoundRecord
<1>3. /\ s.q.rec \in Nat /\ r.q.rec \in Nat /\ s.q.ex \in BOOLEAN /\ r.q.ex \in BOOLEAN
      /\ s.q.lvl \in Nat /\ r.q.lvl \in Nat
  <2>1. L \subseteq Nat BY DEF LevelsUpTo
  <2>2. /\ s.q.rec \in Nat /\ r.q.rec \in Nat /\ s.q.lvl \in L /\ r.q.lvl \in L
        /\ s.q.ex \in BOOLEAN /\ r.q.ex \in BOOLEAN
    BY <1>2 DEF QuotasIn
  <2>3. Nat \subseteq Nat OBVIOUS
  <2> QED BY <2>1, <2>2, <2>3, Zenon
<1>4. PICK n, c, l : n = Max({s.next, r.next}) /\ c = Max({s.q.rec, r.q.rec})
                     /\ l = Max({s.q.lvl, r.q.lvl})
  OBVIOUS
<1>5. /\ n \in {s.next, r.next} /\ s.next <= n /\ r.next <= n
      /\ c \in {s.q.rec, r.q.rec} /\ s.q.rec <= c /\ r.q.rec <= c
      /\ l \in {s.q.lvl, r.q.lvl} /\ s.q.lvl <= l /\ r.q.lvl <= l
  BY <1>2, <1>3, <1>4, MaxOfTwo
<1>6. PICK p : p = [ex |-> s.q.ex \/ r.q.ex, cred |-> FALSE, rec |-> c, lvl |-> l] OBVIOUS
<1>7. PICK e : e = IF s.err # "none" THEN s.err ELSE r.err OBVIOUS
<1>8. u = [unavail |-> TRUE, next |-> n, q |-> p, err |-> e]
  BY <1>1, <1>4, <1>6, <1>7, Zenon DEF mergeModelState
<1>9. u.unavail = TRUE /\ u.next = n /\ u.q = p BY <1>8
<1>10. (p.ex <=> s.q.ex \/ r.q.ex) /\ p.cred = FALSE /\ p.rec = c BY <1>6
<1>11. r.q.ex <=> r.q.rec # 0 BY DEF SoundRecord, Exact
<1>12. s.q.ex <=> s.q.rec # 0 BY DEF SoundState
<1>13. (s.q.rec # 0 \/ r.q.rec # 0) <=> c # 0 BY <1>3, <1>5
<1>14. SoundState(u)
  <2>1. n # 0 BY <1>2, <1>5
  <2> QED BY <1>9, <1>10, <1>11, <1>12, <1>13, <2>1 DEF SoundState
<1>15. ASSUME s = Clean PROVE u = Back(r)
  <2>1. s.next = 0 /\ s.q.rec = 0 /\ s.q.lvl = 0 /\ s.q.ex = FALSE /\ s.err = "none"
    BY <1>15 DEF Clean, NoQuota
  <2>2. n = r.next /\ c = r.q.rec /\ l = r.q.lvl BY <1>2, <1>3, <1>5, <2>1
  <2>3. e = r.err BY <1>7, <2>1
  <2>4. p.ex = r.q.ex BY <1>3, <1>6, <2>1
  <2>5. r.q.cred = FALSE BY <1>2 DEF SoundRecord, QuotasIn
  <2>6. p = r.q
    <3>1. p = [ex |-> r.q.ex, cred |-> FALSE, rec |-> r.q.rec, lvl |-> r.q.lvl]
      <4>1. (s.q.ex \/ r.q.ex) = r.q.ex BY <1>3, <2>1
      <4> QED BY <1>6, <2>2, <4>1
    <3> QED BY <1>2, <2>5, <3>1 DEF QuotasIn
  <2> QED BY <1>8, <2>2, <2>3, <2>6 DEF Back
<1> QED BY <1>2, <1>5, <1>9, <1>14, <1>15

\* A credential after the record r of a model.
Merged(a, r) == Given(a, r.model, mergeModelState(StateOf(a, r.model), r))

\* What a restored record of a model makes of a credential.
LEMMA RestoreModelForm ==
  ASSUME NEW L, NEW W, LevelsUpTo(L, W), NEW a \in AuthsIn(L), now \in Nat,
         NEW recs, recs \subseteq RecordsIn(L), SoundFile(recs), NEW m, m # Whole,
         NEW b, b = restoreModel(a, recs, m)
  PROVE  /\ (~config.cooling \/ ~\E r \in Live(recs) : r.model = m) => b = a
         /\ config.cooling => \A r \in Live(recs) :
              r.model = m => b = updateAggregatedAvailability(Merged(a, r))
<1>1. CASE ~\E r \in recs : r.model = m
  <2>1. b = a BY <1>1, Zenon DEF restoreModel
  <2>2. ~\E r \in Live(recs) : r.model = m BY <1>1 DEF Live
  <2> QED BY <2>1, <2>2
<1>2. CASE \E r \in recs : r.model = m
  <2>1. PICK r : r = CHOOSE x \in recs : x.model = m OBVIOUS
  <2>2. r \in recs /\ r.model = m BY <1>2, <2>1, Zenon
  <2>3. b = restoreCooldownRecord(a, r) BY <1>2, <2>1, Zenon DEF restoreModel
  <2>4. r \in RecordsIn(L) /\ r.next \in Nat /\ m \in Models BY <2>2 DEF RecordsIn, Places
  <2>5. \A x \in recs : x.model = m => x = r BY <2>2 DEF SoundFile
  <2>6. CASE r.next <= now \/ ~config.cooling
    <3>1. b = a BY <2>3, <2>6, Zenon DEF restoreCooldownRecord
    <3>2. config.cooling => \A x \in Live(recs) : x.model # m BY <2>4, <2>5, <2>6 DEF Live
    <3> QED BY <3>1, <3>2
  <2>7. CASE ~(r.next <= now \/ ~config.cooling)
    <3>1. PICK c : c = ensureModelState(a, m) OBVIOUS
    <3>2. c.ms[m] = StateOf(a, m)
      BY <2>4, <3>1, EnsureIn DEF LevelsUpTo, StateOf
    <3>3. b = updateAggregatedAvailability([c EXCEPT !.ms[m] = mergeModelState(c.ms[m], r)])
      BY <2>2, <2>3, <2>7, <3>1, Zenon DEF restoreCooldownRecord
    <3>4. b = updateAggregatedAvailability(Merged(a, r))
      BY <2>2, <3>1, <3>2, <3>3, Zenon DEF Merged, Given
    <3>5. r \in Live(recs) /\ config.cooling BY <2>2, <2>4, <2>7 DEF Live
    <3>6. \A x \in Live(recs) : x.model = m => x = r BY <2>5 DEF Live
    <3> QED BY <2>2, <3>4, <3>5, <3>6
  <2> QED BY <2>6, <2>7
<1> QED BY <1>1, <1>2

\* The credential b is a with the pause of the file's own record, if that lives.
OwnRestored(a, recs, b) ==
  /\ (~config.cooling \/ ~\E r \in Live(recs) : r.model = Whole) => b = a
  /\ config.cooling => \A w \in Live(recs) : w.model = Whole =>
       b.unavail = TRUE /\ b.next = w.next /\ b.q = w.q /\ b.ms = a.ms

\* And the credential's own record.
LEMMA RestoreWholeForm ==
  ASSUME NEW L, NEW a \in AuthsIn(L), now \in Nat,
         NEW recs, recs \subseteq RecordsIn(L), SoundFile(recs),
         NEW b, b = restoreModel(a, recs, Whole)
  PROVE  OwnRestored(a, recs, b)
<1> USE DEF OwnRestored
<1>1. CASE ~\E r \in recs : r.model = Whole
  <2>1. b = a BY <1>1, Zenon DEF restoreModel
  <2>2. ~\E r \in Live(recs) : r.model = Whole BY <1>1 DEF Live
  <2> QED BY <2>1, <2>2
<1>2. CASE \E r \in recs : r.model = Whole
  <2>1. PICK r : r = CHOOSE x \in recs : x.model = Whole OBVIOUS
  <2>2. r \in recs /\ r.model = Whole BY <1>2, <2>1, Zenon
  <2>3. b = restoreCooldownRecord(a, r) BY <1>2, <2>1, Zenon DEF restoreModel
  <2>4. r \in RecordsIn(L) /\ r.next \in Nat BY <2>2 DEF RecordsIn
  <2>5. \A x \in recs : x.model = Whole => x = r BY <2>2 DEF SoundFile
  <2>6. CASE r.next <= now \/ ~config.cooling
    <3>1. b = a BY <2>3, <2>6, Zenon DEF restoreCooldownRecord
    <3>2. config.cooling => \A x \in Live(recs) : x.model # Whole BY <2>4, <2>5, <2>6 DEF Live
    <3> QED BY <3>1, <3>2
  <2>7. CASE ~(r.next <= now \/ ~config.cooling)
    <3>1. Exact(r) BY <2>2 DEF SoundFile, SoundRecord
    <3>2. recordQuota(r) = r.q BY <2>4, <3>1, QuotaOfSound
    <3>3. b = [a EXCEPT !.unavail = TRUE, !.next = r.next, !.q = r.q]
      BY <2>2, <2>3, <2>7, <3>2, Zenon DEF restoreCooldownRecord
    <3>4. b.unavail = TRUE /\ b.next = r.next /\ b.q = r.q /\ b.ms = a.ms BY <3>3 DEF AuthsIn
    <3>5. r \in Live(recs) /\ config.cooling BY <2>2, <2>4, <2>7 DEF Live
    <3>6. \A x \in Live(recs) : x.model = Whole => x = r BY <2>5 DEF Live
    <3> QED BY <2>2, <3>4, <3>5, <3>6
  <2> QED BY <2>6, <2>7
<1> QED BY <1>1, <1>2

\* Merging the record of a model into a sound credential.
LEMMA MergedSound ==
  ASSUME NEW L, NEW W, LevelsUpTo(L, W), NEW a \in AuthsIn(L), now \in Nat,
         SoundAuth(a), NEW r \in RecordsIn(L), SoundRecord(r), r.model # Whole, r.next > now,
         NEW b, b = updateAggregatedAvailability(Merged(a, r))
  PROVE  /\ SoundAuth(b) /\ DOMAIN b.ms = DOMAIN a.ms \union {r.model}
         /\ Waits(b.ms[r.model], r.next)
         /\ \A n \in DOMAIN a.ms, t \in Nat : t > now /\ Waits(a.ms[n], t) =>
              /\ Waits(b.ms[n], t)
              /\ n # r.model => b.ms[n] = a.ms[n]
         /\ r.model \notin DOMAIN a.ms /\ ~a.q.cred => b.ms[r.model] = Back(r) /\ ~b.q.cred
<1>1. PICK m : m = r.model OBVIOUS
<1>2. m \in Models /\ r.next \in Nat BY <1>1 DEF RecordsIn, Places
<1>3. PICK s : s = StateOf(a, m) OBVIOUS
<1>4. /\ s \in StatesIn(L) /\ SoundState(s) /\ s.next \in Nat
      /\ m \in DOMAIN a.ms => s = a.ms[m]
      /\ m \notin DOMAIN a.ms => s = Clean
  <2>1. m \in DOMAIN a.ms => a.ms[m] \in StatesIn(L) /\ SoundState(a.ms[m])
    BY StatesOf DEF SoundAuth, SoundParts
  <2>2. Clean \in StatesIn(L) /\ SoundState(Clean) BY FreshStates, CleanSound DEF LevelsUpTo
  <2>3. s \in StatesIn(L) /\ SoundState(s) BY <1>3, <2>1, <2>2 DEF StateOf
  <2> QED BY <1>3, <2>3 DEF StateOf, StatesIn
<1>5. PICK u : u = mergeModelState(s, r) OBVIOUS
<1>6. u \in StatesIn(L) BY <1>4, <1>5, MergeIn
<1>7. /\ SoundState(u) /\ u.unavail /\ u.next \in Nat /\ u.next >= s.next /\ u.next >= r.next
      /\ s = Clean => u = Back(r)
  BY <1>4, <1>5, MergeSound
<1>8. PICK d : d = Given(a, m, u) OBVIOUS
<1>9. /\ d \in AuthsIn(L) /\ SoundParts(d) /\ DOMAIN d.ms = DOMAIN a.ms \union {m}
      /\ d.ms[m] = u /\ \A n \in DOMAIN a.ms : n # m => d.ms[n] = a.ms[n]
      /\ d.q = a.q /\ d.next = a.next
  <2>1. SoundParts(a) /\ 0 \in L BY DEF SoundAuth, LevelsUpTo
  <2> QED BY <1>2, <1>6, <1>7, <1>8, <2>1, SetStateSound
<1>10. b = updateAggregatedAvailability(d) BY <1>1, <1>3, <1>5, <1>8, Zenon DEF Merged
<1>11. /\ SoundAuth(b) /\ DOMAIN b.ms = DOMAIN d.ms
       /\ \A n \in DOMAIN d.ms, t \in Nat : t > now /\ Waits(d.ms[n], t) => b.ms[n] = d.ms[n]
  BY <1>9, <1>10, AggregateSound
<1>12. Waits(u, r.next) /\ m \in DOMAIN d.ms BY <1>7, <1>9 DEF Waits
<1>13. b.ms[m] = u BY <1>2, <1>9, <1>11, <1>12
<1>14. ASSUME NEW n \in DOMAIN a.ms, NEW t \in Nat, t > now, Waits(a.ms[n], t)
       PROVE  Waits(b.ms[n], t) /\ (n # m => b.ms[n] = a.ms[n])
  <2>1. CASE n = m
    <3>1. Waits(u, t) BY <1>4, <1>7, <1>14, <2>1 DEF Waits
    <3> QED BY <1>13, <2>1, <3>1
  <2>2. CASE n # m
    <3>1. d.ms[n] = a.ms[n] /\ n \in DOMAIN d.ms BY <1>9, <2>2
    <3>2. b.ms[n] = a.ms[n] BY <1>11, <1>14, <3>1
    <3> QED BY <1>14, <3>2
  <2> QED BY <2>1, <2>2
<1>15. ASSUME ~a.q.cred PROVE ~b.q.cred
  <2>1. ~credentialQuota(d) /\ DOMAIN d.ms # {} BY <1>9, <1>15 DEF credentialQuota
  <2> QED BY <1>10, <2>1, AggregateForm
<1> QED BY <1>1, <1>4, <1>7, <1>9, <1>11, <1>12, <1>13, <1>14, <1>15

\* The credential waits for every live record of a model up to k.
WaitsFor(a, recs, k) ==
  \A r \in Live(recs) : r.model \in 1 .. k => r.model \in DOMAIN a.ms /\ Waits(a.ms[r.model], r.next)

\* Restoring a sound file into a sound credential.
LEMMA RestoredSound ==
  ASSUME NEW L, NEW W, LevelsUpTo(L, W), NEW a \in AuthsIn(L), now \in Nat,
         SoundAuth(a), NEW recs, recs \subseteq RecordsIn(L), SoundFile(recs)
  PROVE  SoundAuth(restored(a, recs))
<1>1. PICK n, h :
        /\ n \in Nat
        /\ h[0] = a
        /\ \A k \in 1 .. n : h[k] = restoreModel(h[k - 1], recs, k)
        /\ \A k \in 0 .. n : h[k] \in AuthsIn(L)
        /\ \A r \in recs : r.model \in 0 .. n
        /\ restored(a, recs) = restoreModel(h[n], recs, Whole)
  BY RestoredSteps
<1>0. \A r \in Live(recs) : r \in recs /\ r \in RecordsIn(L) /\ r.next \in Nat /\ r.next > now
                            /\ SoundRecord(r)
  BY DEF Live, RecordsIn, SoundFile
<1> DEFINE Good(k) == SoundAuth(h[k]) /\ (config.cooling => WaitsFor(h[k], recs, k))
           Bad == {k \in 0 .. n : ~Good(k)}
<1>2. Good(0) BY <1>1 DEF WaitsFor
<1>3. ASSUME NEW k \in 1 .. n, Good(k - 1) PROVE Good(k)
  <2>1. k # Whole /\ k - 1 \in 0 .. n /\ k \in Nat BY <1>1 DEF Whole
  <2>2. PICK b : b = h[k - 1] OBVIOUS
  <2>3. PICK c : c = h[k] OBVIOUS
  <2>4. b \in AuthsIn(L) /\ c = restoreModel(b, recs, k) BY <1>1, <2>1, <2>2, <2>3
  <2>5. SoundAuth(b) /\ (config.cooling => WaitsFor(b, recs, k - 1)) BY <1>3, <2>2
  <2>6. CASE ~config.cooling \/ ~\E r \in Live(recs) : r.model = k
    <3>1. c = b BY <2>1, <2>4, <2>6, RestoreModelForm
    <3>2. config.cooling => WaitsFor(c, recs, k)
      <4> SUFFICES ASSUME config.cooling, NEW r \in Live(recs), r.model \in 1 .. k
                   PROVE  r.model \in DOMAIN c.ms /\ Waits(c.ms[r.model], r.next)
        BY DEF WaitsFor
      <4>1. r.model \in 1 .. (k - 1) BY <2>1, <2>6
      <4> QED BY <2>5, <3>1, <4>1 DEF WaitsFor
    <3> QED BY <2>3, <2>5, <3>1, <3>2
  <2>7. CASE config.cooling /\ \E r \in Live(recs) : r.model = k
    <3>1. PICK r \in Live(recs) : r.model = k BY <2>7
    <3>2. c = updateAggregatedAvailability(Merged(b, r)) BY <2>1, <2>4, <2>7, <3>1, RestoreModelForm
    <3>3. /\ SoundAuth(c) /\ DOMAIN c.ms = DOMAIN b.ms \union {k} /\ Waits(c.ms[k], r.next)
          /\ \A m \in DOMAIN b.ms, t \in Nat : t > now /\ Waits(b.ms[m], t) => Waits(c.ms[m], t)
      BY <1>0, <2>1, <2>4, <2>5, <3>1, <3>2, MergedSound
    <3>4. ASSUME NEW x \in Live(recs), x.model \in 1 .. k
          PROVE  x.model \in DOMAIN c.ms /\ Waits(c.ms[x.model], x.next)
      <4>1. CASE x.model = k
        <5>1. x = r BY <1>0, <3>1, <4>1 DEF SoundFile
        <5> QED BY <3>1, <3>3, <5>1
      <4>2. CASE x.model # k
        <5>1. x.model \in 1 .. (k - 1) BY <2>1, <3>4, <4>2
        <5>2. x.model \in DOMAIN b.ms /\ Waits(b.ms[x.model], x.next)
          BY <2>5, <2>7, <5>1 DEF WaitsFor
        <5> QED BY <1>0, <3>3, <5>2
      <4> QED BY <4>1, <4>2
    <3> QED BY <2>3, <3>3, <3>4 DEF WaitsFor
  <2> QED BY <2>6, <2>7
<1>4. Bad = {}
  <2> SUFFICES ASSUME Bad # {} PROVE FALSE OBVIOUS
  <2>1. Bad \subseteq Nat BY <1>1
  <2> HIDE DEF Bad
  <2>2. PICK k \in Bad : \A j \in Bad : k <= j BY <2>1, LeastExists
  <2> USE DEF Bad
  <2> HIDE DEF Good
  <2>3. k # 0 BY <1>2, <2>2
  <2>4. k \in 1 .. n /\ k - 1 \in 0 .. n /\ k - 1 < k BY <1>1, <2>2, <2>3
  <2>5. Good(k - 1) BY <2>2, <2>4
  <2> QED BY <1>3, <2>2, <2>4, <2>5
<1>5. n \in 0 .. n BY <1>1
<1>6. Good(n) BY <1>4, <1>5, Zenon
<1>7. PICK b : b = h[n] OBVIOUS
<1>8. b \in AuthsIn(L) /\ SoundAuth(b) /\ (config.cooling => WaitsFor(b, recs, n))
  BY <1>1, <1>5, <1>6, <1>7
<1> HIDE DEF Good, Bad
<1>9. PICK c : c = restored(a, recs) OBVIOUS
<1>10. c = restoreModel(b, recs, Whole) BY <1>1, <1>7, <1>9
<1>13. OwnRestored(b, recs, c)
  <2>1. b \in AuthsIn(L) BY <1>8
  <2> QED BY <1>10, <2>1, RestoreWholeForm
<1>11. CASE ~config.cooling \/ ~\E r \in Live(recs) : r.model = Whole
  <2>1. c = b BY <1>11, <1>13 DEF OwnRestored
  <2> QED BY <1>8, <1>9, <2>1
<1>12. CASE config.cooling /\ \E r \in Live(recs) : r.model = Whole
  <2>1. PICK w \in Live(recs) : w.model = Whole BY <1>12
  <2>2. c.next = w.next /\ c.q = w.q /\ c.ms = b.ms BY <1>12, <1>13, <2>1 DEF OwnRestored
  <2>3. SoundParts(c)
    <3>1. Exact(c) BY <1>0, <2>2 DEF SoundRecord, Exact
    <3> QED BY <1>8, <2>2, <3>1 DEF SoundAuth, SoundParts
  <2>4. ASSUME ~w.q.cred PROVE \E m \in DOMAIN b.ms : Waits(b.ms[m], w.next)
    <3>1. w \in recs /\ w.next \in Nat /\ w.next > now BY <1>0
    <3>2. Outlasted(w, recs) BY <2>1, <2>4, <3>1 DEF SoundFile
    <3>3. PICK r \in recs : r.model # Whole /\ r.next >= w.next BY <3>2 DEF Outlasted
    <3>4. r.next \in Nat /\ r.model \in 0 .. n BY <1>1 DEF RecordsIn
    <3>5. r \in Live(recs) BY <3>1, <3>3, <3>4 DEF Live
    <3>6. r.model \in 1 .. n BY <1>1, <3>3, <3>4 DEF Whole
    <3>7. r.model \in DOMAIN b.ms /\ Waits(b.ms[r.model], r.next)
      BY <1>8, <1>12, <3>5, <3>6 DEF WaitsFor
    <3>8. b.ms[r.model].next \in Nat
      <4>1. b.ms[r.model] \in StatesIn(L) BY <1>8, <3>7, StatesOf
      <4> QED BY <4>1 DEF StatesIn
    <3>9. Waits(b.ms[r.model], w.next) BY <3>1, <3>3, <3>4, <3>7, <3>8 DEF Waits
    <3> QED BY <3>7, <3>9
  <2>5. Bare(c) /\ Covered(c) BY <2>2, <2>4 DEF Bare, Covered
  <2> QED BY <1>9, <2>3, <2>5 DEF SoundAuth
<1> QED BY <1>11, <1>12

\* A credential made of the live records of models up to k alone.
MadeOf(a, recs, k) ==
  /\ \A m : m \in DOMAIN a.ms <=> \E r \in Live(recs) : r.model = m /\ m \in 1 .. k
  /\ \A r \in Live(recs) : r.model \in 1 .. k => a.ms[r.model] = Back(r)
  /\ ~a.q.cred /\ (DOMAIN a.ms = {} => a = FreshAuth)

\* A state that waits.
LEMMA BackWaits ==
  ASSUME NEW r, r.next \in Nat
  PROVE  Back(r).unavail /\ Back(r).next = r.next /\ Back(r).q = r.q /\ Back(r).err = r.err
         /\ Waits(Back(r), r.next)
BY DEF Back, Waits

\* And of all of them.
ModelsBack(b, recs) ==
  /\ \A m : m \in DOMAIN b.ms <=> \E r \in Live(recs) : r.model = m /\ m # Whole
  /\ \A r \in Live(recs) : r.model # Whole => b.ms[r.model] = Back(r)
  /\ ~b.q.cred /\ (DOMAIN b.ms = {} => b = FreshAuth)

\* The credential of the next process, before its own record.
LEMMA RebuiltModels ==
  ASSUME NEW L, NEW W, LevelsUpTo(L, W), now \in Nat, config.cooling,
         NEW recs, recs \subseteq RecordsIn(L), SoundFile(recs)
  PROVE  \E b \in AuthsIn(L) :
           restored(FreshAuth, recs) = restoreModel(b, recs, Whole) /\ ModelsBack(b, recs)
<1>0. FreshAuth \in AuthsIn(L) /\ FreshAuth.ms = <<>> /\ ~FreshAuth.q.cred /\ DOMAIN FreshAuth.ms = {}
  BY FreshStates DEF LevelsUpTo, FreshAuth, NoQuota
<1>1. PICK n, h :
        /\ n \in Nat
        /\ h[0] = FreshAuth
        /\ \A k \in 1 .. n : h[k] = restoreModel(h[k - 1], recs, k)
        /\ \A k \in 0 .. n : h[k] \in AuthsIn(L)
        /\ \A r \in recs : r.model \in 0 .. n
        /\ restored(FreshAuth, recs) = restoreModel(h[n], recs, Whole)
  <2>1. PICK a : a = FreshAuth OBVIOUS
  <2>2. a \in AuthsIn(L) BY <1>0, <2>1
  <2>3. \E n, h :
          /\ n \in Nat
          /\ h[0] = a
          /\ \A k \in 1 .. n : h[k] = restoreModel(h[k - 1], recs, k)
          /\ \A k \in 0 .. n : h[k] \in AuthsIn(L)
          /\ \A r \in recs : r.model \in 0 .. n
          /\ restored(a, recs) = restoreModel(h[n], recs, Whole)
    BY <2>2, RestoredSteps
  <2> QED BY <2>1, <2>3
<1>2. \A r \in Live(recs) : r \in recs /\ r \in RecordsIn(L) /\ r.next \in Nat /\ r.next > now
                            /\ SoundRecord(r) /\ r.model \in 0 .. n
  BY <1>1 DEF Live, RecordsIn, SoundFile
<1> DEFINE Good(k) == SoundAuth(h[k]) /\ MadeOf(h[k], recs, k)
           Bad == {k \in 0 .. n : ~Good(k)}
<1>3. Good(0)
  <2>1. SoundAuth(FreshAuth)
    BY <1>0 DEF SoundAuth, SoundParts, Bare, Covered, Exact, FreshAuth, NoQuota
  <2>2. MadeOf(FreshAuth, recs, 0) BY <1>0 DEF MadeOf
  <2> QED BY <1>1, <2>1, <2>2
<1>4. ASSUME NEW k \in 1 .. n, Good(k - 1) PROVE Good(k)
  <2>1. k # Whole /\ k - 1 \in 0 .. n /\ k \in Nat BY <1>1 DEF Whole
  <2>2. PICK b : b = h[k - 1] OBVIOUS
  <2>3. PICK c : c = h[k] OBVIOUS
  <2>4. b \in AuthsIn(L) /\ c = restoreModel(b, recs, k) BY <1>1, <2>1, <2>2, <2>3
  <2>5. SoundAuth(b) /\ MadeOf(b, recs, k - 1) BY <1>4, <2>2
  <2>6. \A j : j \in 1 .. k <=> j = k \/ j \in 1 .. (k - 1) BY <2>1, <1>1
  <2>7. k \notin 1 .. (k - 1) BY <2>1
  <2>8. CASE ~\E r \in Live(recs) : r.model = k
    <3>1. c = b BY <2>1, <2>4, <2>8, RestoreModelForm
    <3>2. MadeOf(c, recs, k) BY <2>5, <2>6, <2>8, <3>1 DEF MadeOf
    <3> QED BY <2>3, <2>5, <3>1, <3>2
  <2>9. CASE \E r \in Live(recs) : r.model = k
    <3>1. PICK r \in Live(recs) : r.model = k BY <2>9
    <3>2. c = updateAggregatedAvailability(Merged(b, r)) BY <2>1, <2>4, <3>1, RestoreModelForm
    <3>3. k \notin DOMAIN b.ms /\ ~b.q.cred BY <2>5, <2>7 DEF MadeOf
    <3>4. /\ SoundAuth(c) /\ DOMAIN c.ms = DOMAIN b.ms \union {k}
          /\ \A m \in DOMAIN b.ms, t \in Nat : t > now /\ Waits(b.ms[m], t) /\ m # k => c.ms[m] = b.ms[m]
          /\ c.ms[k] = Back(r) /\ ~c.q.cred
      BY <1>2, <2>1, <2>4, <2>5, <3>1, <3>2, <3>3, MergedSound
    <3>5. ASSUME NEW x \in Live(recs), x.model \in 1 .. k PROVE c.ms[x.model] = Back(x)
      <4>1. CASE x.model = k
        <5>1. x = r BY <1>2, <3>1, <4>1 DEF SoundFile
        <5> QED BY <3>1, <3>4, <5>1
      <4>2. CASE x.model # k
        <5>1. x.model \in 1 .. (k - 1) BY <2>6, <3>5, <4>2
        <5>2. x.model \in DOMAIN b.ms /\ b.ms[x.model] = Back(x) BY <2>5, <5>1 DEF MadeOf
        <5>3. Waits(b.ms[x.model], x.next) BY <1>2, <5>2, BackWaits
        <5> QED BY <1>2, <3>4, <4>2, <5>2, <5>3
      <4> QED BY <4>1, <4>2
    <3>6. ASSUME NEW m
          PROVE  m \in DOMAIN c.ms <=> \E x \in Live(recs) : x.model = m /\ m \in 1 .. k
      <4>1. m \in DOMAIN b.ms <=> \E x \in Live(recs) : x.model = m /\ m \in 1 .. (k - 1)
        BY <2>5 DEF MadeOf
      <4> QED BY <2>6, <3>1, <3>4, <4>1
    <3> QED BY <2>3, <3>4, <3>5, <3>6 DEF MadeOf
  <2> QED BY <2>8, <2>9
<1>5. Bad = {}
  <2> SUFFICES ASSUME Bad # {} PROVE FALSE OBVIOUS
  <2>1. Bad \subseteq Nat BY <1>1
  <2> HIDE DEF Bad
  <2>2. PICK k \in Bad : \A j \in Bad : k <= j BY <2>1, LeastExists
  <2> USE DEF Bad
  <2> HIDE DEF Good
  <2>3. k # 0 BY <1>3, <2>2
  <2>4. k \in 1 .. n /\ k - 1 \in 0 .. n /\ k - 1 < k BY <1>1, <2>2, <2>3
  <2>5. Good(k - 1) BY <2>2, <2>4
  <2> QED BY <1>4, <2>2, <2>4, <2>5
<1>6. n \in 0 .. n BY <1>1
<1>7. Good(n) BY <1>5, <1>6, Zenon
<1>8. PICK b : b = h[n] OBVIOUS
<1>9. b \in AuthsIn(L) /\ MadeOf(b, recs, n) /\ restored(FreshAuth, recs) = restoreModel(b, recs, Whole)
  BY <1>1, <1>6, <1>7, <1>8
<1> HIDE DEF Good, Bad
<1>10. \A r \in Live(recs) : r.model \in 1 .. n <=> r.model # Whole BY <1>1, <1>2 DEF Whole
<1>11. \A m : m \in DOMAIN b.ms <=> \E r \in Live(recs) : r.model = m /\ m # Whole
  BY <1>9, <1>10 DEF MadeOf
<1>12. ModelsBack(b, recs) BY <1>9, <1>10, <1>11 DEF MadeOf, ModelsBack
<1> QED BY <1>9, <1>12

\* The credential b is what the live records say, and nothing else.
Rebuilt(b, recs) ==
  /\ \A m : m \in DOMAIN b.ms <=> \E r \in Live(recs) : r.model = m /\ m # Whole
  /\ \A r \in Live(recs) : r.model # Whole => b.ms[r.model] = Back(r)
  /\ \A w \in Live(recs) : w.model = Whole => b.unavail /\ b.next = w.next /\ b.q = w.q
  /\ (~\E w \in Live(recs) : w.model = Whole) => ~b.q.cred /\ (DOMAIN b.ms = {} => b = FreshAuth)

\* The credential of the next process.
LEMMA RestoredRebuilt ==
  ASSUME NEW L, NEW W, LevelsUpTo(L, W), now \in Nat, config.cooling,
         NEW recs, recs \subseteq RecordsIn(L), SoundFile(recs),
         NEW c, c = restored(FreshAuth, recs)
  PROVE  Rebuilt(c, recs)
<1>1. PICK b \in AuthsIn(L) :
        restored(FreshAuth, recs) = restoreModel(b, recs, Whole) /\ ModelsBack(b, recs)
  BY RebuiltModels
<1>2. OwnRestored(b, recs, c) BY <1>1, RestoreWholeForm
<1>3. CASE ~\E w \in Live(recs) : w.model = Whole
  <2>1. c = b BY <1>2, <1>3 DEF OwnRestored
  <2> QED BY <1>1, <1>3, <2>1 DEF Rebuilt, ModelsBack
<1>4. CASE \E w \in Live(recs) : w.model = Whole
  <2>1. \A w \in Live(recs) : w.model = Whole =>
          c.unavail = TRUE /\ c.next = w.next /\ c.q = w.q /\ c.ms = b.ms
    BY <1>2 DEF OwnRestored
  <2>2. c.ms = b.ms BY <1>4, <2>1
  <2> QED BY <1>1, <1>4, <2>1, <2>2 DEF Rebuilt, ModelsBack
<1> QED BY <1>3, <1>4

\* Its records are the file's that live.
LEMMA RebuiltShows ==
  ASSUME NEW L, now \in Nat, config.cooling,
         NEW recs, recs \subseteq RecordsIn(L), SoundFile(recs),
         NEW b \in AuthsIn(L), SoundAuth(b), Rebuilt(b, recs)
  PROVE  Shows(recs, cooldownStateRecords(b))
<1>1. PICK own : own = cooldownStateRecords(b) OBVIOUS
<1>2. \A r \in Live(recs) : r \in RecordsIn(L) /\ r.next \in Nat /\ r.next > now /\ SoundRecord(r)
  BY DEF Live, RecordsIn, SoundFile
<1>3. ASSUME NEW r \in Live(recs), r.model # Whole
      PROVE  r.model \in DOMAIN b.ms /\ Cooling(b.ms[r.model]) /\ StateRecord(b, r.model) = r
  <2>1. r.model \in DOMAIN b.ms /\ b.ms[r.model] = Back(r) BY <1>3 DEF Rebuilt
  <2>2. Back(r).unavail /\ Back(r).next = r.next /\ Back(r).q = r.q /\ Back(r).err = r.err
    BY <1>2, BackWaits
  <2>3. Cooling(b.ms[r.model]) BY <1>2, <2>1, <2>2 DEF Cooling
  <2>4. StateRecord(b, r.model) = [model |-> r.model, next |-> r.next, q |-> r.q, err |-> r.err]
    BY <2>1, <2>2 DEF StateRecord, cooldownStateRecord
  <2>5. r \in RecordsIn(L) BY <1>2
  <2>6. r = [model |-> r.model, next |-> r.next, q |-> r.q, err |-> r.err] BY <2>5 DEF RecordsIn
  <2> QED BY <2>1, <2>3, <2>4, <2>6
<1>4. ASSUME NEW w \in Live(recs), w.model = Whole PROVE Cooling(b) /\ OwnRecord(b) = w
  <2>1. b.unavail /\ b.next = w.next /\ b.q = w.q BY <1>4 DEF Rebuilt
  <2>2. w.err = "other" /\ w \in RecordsIn(L) BY <1>2, <1>4 DEF SoundRecord
  <2>3. OwnRecord(b) = [model |-> Whole, next |-> w.next, q |-> w.q, err |-> "other"]
    BY <2>1 DEF OwnRecord, cooldownStateRecord
  <2>4. w = [model |-> w.model, next |-> w.next, q |-> w.q, err |-> w.err] BY <2>2 DEF RecordsIn
  <2>5. OwnRecord(b) = w BY <1>4, <2>2, <2>3, <2>4
  <2> QED BY <1>2, <2>1, <2>5 DEF Cooling
<1>5. Live(recs) \subseteq own
  <2> SUFFICES ASSUME NEW r \in Live(recs) PROVE r \in own OBVIOUS
  <2>1. CASE r.model = Whole BY <1>1, <1>4, <2>1, RecordsAre
  <2>2. CASE r.model # Whole BY <1>1, <1>3, <2>2, RecordsAre
  <2> QED BY <2>1, <2>2
<1>6. ASSUME NEW m \in DOMAIN b.ms PROVE StateRecord(b, m) \in Live(recs) /\ m # Whole
  <2>1. PICK r \in Live(recs) : r.model = m /\ m # Whole BY DEF Rebuilt
  <2> QED BY <1>3, <2>1
<1>7. ASSUME NEW w \in own, w \notin Live(recs) PROVE Outlasted(w, Live(recs))
  <2>1. \/ \E m \in DOMAIN b.ms : Cooling(b.ms[m]) /\ w = StateRecord(b, m)
        \/ Cooling(b) /\ w = OwnRecord(b)
    BY <1>1, RecordsAre
  <2>2. Cooling(b) /\ w = OwnRecord(b) BY <1>6, <1>7, <2>1
  <2>3. w.model = Whole /\ w.next = b.next /\ w.q = b.q BY <2>2, RecordFields
  <2>4. ~\E x \in Live(recs) : x.model = Whole BY <1>4, <1>7, <2>2
  <2>5. ~b.q.cred BY <2>4 DEF Rebuilt
  <2>6. b.next # 0 BY <2>2 DEF Cooling
  <2>7. PICK m \in DOMAIN b.ms : Waits(b.ms[m], b.next) BY <2>5, <2>6 DEF SoundAuth, Covered
  <2>8. PICK r : r = StateRecord(b, m) OBVIOUS
  <2>9. r \in Live(recs) /\ r.model # Whole /\ r.next >= w.next
    BY <1>6, <2>3, <2>7, <2>8, RecordFields DEF Waits
  <2> QED BY <2>3, <2>5, <2>9 DEF Outlasted
<1> QED BY <1>1, <1>5, <1>7 DEF Shows

\* A live record of the model, or of a quota of the whole credential.
Blocks(recs, m) == \E r \in Live(recs) : r.model = m \/ (r.model = Whole /\ r.q.cred)

\* It blocks a model where a record does.
LEMMA RebuiltBlocks ==
  ASSUME NEW L, now \in Nat, config.cooling,
         NEW recs, recs \subseteq RecordsIn(L), SoundFile(recs),
         NEW b, Rebuilt(b, recs), NEW m \in Models
  PROVE  isAuthBlockedForModel(b, m) <=> Blocks(recs, m)
<1>1. \A r \in Live(recs) : r \in recs /\ r.next \in Nat /\ r.next > now /\ SoundRecord(r)
                            /\ (r.model = Whole => r.q.cred \/ Outlasted(r, recs))
  BY DEF Live, RecordsIn, SoundFile
<1>2. m # Whole BY CooldownAssumption DEF Whole
<1>3. ASSUME NEW w \in Live(recs), w.model = Whole, w.q.cred PROVE credentialQuota(b)
  <2>1. b.q = w.q BY <1>3 DEF Rebuilt
  <2>2. w.q.ex /\ w.q.rec = w.next /\ w.next > now BY <1>1, <1>3 DEF SoundRecord, Exact
  <2> QED BY <1>3, <2>1, <2>2 DEF credentialQuota
<1>4. ASSUME credentialQuota(b) PROVE \E w \in Live(recs) : w.model = Whole /\ w.q.cred
  <2>1. b.q.cred BY <1>4 DEF credentialQuota
  <2>2. PICK w \in Live(recs) : w.model = Whole BY <2>1 DEF Rebuilt
  <2>3. b.q = w.q BY <2>2 DEF Rebuilt
  <2> QED BY <2>1, <2>2, <2>3
<1>5. ASSUME NEW r \in Live(recs), r.model = m
      PROVE  m \in DOMAIN b.ms /\ availabilityBlock(b.ms[m])
  <2>1. m \in DOMAIN b.ms /\ b.ms[m] = Back(r) BY <1>2, <1>5 DEF Rebuilt
  <2>2. Back(r).unavail /\ Back(r).next > now BY <1>1, BackWaits
  <2> QED BY <2>1, <2>2 DEF availabilityBlock
<1>6. ASSUME m \in DOMAIN b.ms PROVE \E r \in Live(recs) : r.model = m
  BY <1>6 DEF Rebuilt
<1>7. ASSUME DOMAIN b.ms = {}, ~credentialQuota(b) PROVE ~availabilityBlock(b)
  <2>1. ~\E w \in Live(recs) : w.model = Whole
    <3> SUFFICES ASSUME NEW w \in Live(recs), w.model = Whole PROVE FALSE OBVIOUS
    <3>1. Outlasted(w, recs) BY <1>1, <1>3, <1>7
    <3>2. PICK r \in recs : r.model # Whole /\ r.next >= w.next BY <3>1 DEF Outlasted
    <3>3. r.next \in Nat /\ w.next \in Nat /\ w.next > now BY <1>1 DEF RecordsIn
    <3>4. r \in Live(recs) BY <3>2, <3>3 DEF Live
    <3>5. r.model \in DOMAIN b.ms BY <3>2, <3>4 DEF Rebuilt
    <3> QED BY <1>7, <3>5
  <2>2. b = FreshAuth BY <1>7, <2>1 DEF Rebuilt
  <2>3. b.unavail = FALSE /\ b.q.ex = FALSE BY <2>2 DEF FreshAuth, NoQuota
  <2> QED BY <2>3 DEF availabilityBlock
<1>8. isAuthBlockedForModel(b, m) => Blocks(recs, m)
  BY <1>4, <1>6, <1>7 DEF isAuthBlockedForModel, Blocks
<1>9. Blocks(recs, m) => isAuthBlockedForModel(b, m)
  BY <1>3, <1>5 DEF isAuthBlockedForModel, Blocks
<1> QED BY <1>8, <1>9

\* A credential and a file without anything.
LEMMA NothingSound == SoundAuth(FreshAuth) /\ SoundFile({})
<1>1. DOMAIN FreshAuth.ms = {} /\ FreshAuth.q = NoQuota /\ FreshAuth.next = 0 BY DEF FreshAuth
<1>2. SoundAuth(FreshAuth) BY <1>1 DEF SoundAuth, SoundParts, Bare, Covered, Exact, NoQuota
<1> QED BY <1>2 DEF SoundFile

\* A step that changes the manager's credential alone keeps the file true to it
\* when the records are the same, or something is under way to the file, or
\* nothing is saved.
LEMMA ManagerKeepsFile ==
  ASSUME FileInv, UNCHANGED <<now, config, store, disk, saver>>, NEW c, auth' = c, SoundAuth(c),
         loader'.recs \in {loader.recs, {}}, clone' \subseteq clone \union {auth},
         \/ /\ cooldownStateRecords(c) = cooldownStateRecords(auth)
            /\ loader' = loader /\ due' = due /\ (unsaved => unsaved')
         \/ ~store
         \/ unsaved'
         \/ due' # 0
  PROVE  FileInv'
<1>1. Sound'
  <2>1. (\A a \in clone : SoundAuth(a))' BY DEF FileInv, Sound
  <2>2. SoundFile(loader.recs)' BY NothingSound DEF FileInv, Sound
  <2> QED BY <2>1, <2>2 DEF FileInv, Sound
<1>2. CASE ~store
  <2>1. saver'.pc # "write" /\ ~Still' BY <1>2 DEF FileInv, Saved, Still
  <2> QED BY <1>1, <2>1 DEF FileInv, Saved
<1>3. CASE store /\ (unsaved' \/ due' # 0)
  <2>1. store' /\ ~(due' = 0 /\ ~unsaved') /\ ~Still' BY <1>3 DEF Still
  <2> QED BY <1>1, <2>1 DEF FileInv, Saved
<1>4. CASE /\ cooldownStateRecords(c) = cooldownStateRecords(auth)
           /\ loader' = loader /\ due' = due /\ (unsaved => unsaved')
  <2>1. cooldownStateRecords(auth)' = cooldownStateRecords(c) BY DEF cooldownStateRecords, Cooling
  <2>2. cooldownStateRecords(auth)' = cooldownStateRecords(auth) BY <1>4, <2>1
  <2>3. Still' => Still BY <1>4 DEF Still
  <2>4. Shows(disk, cooldownStateRecords(auth)) => Shows(disk, cooldownStateRecords(auth))'
    BY <2>2 DEF Shows, Live
  <2>5. Shows(saver.recs, cooldownStateRecords(auth)) => Shows(saver.recs, cooldownStateRecords(auth))'
    BY <2>2 DEF Shows, Live
  <2>6. Saved' BY <1>4, <2>3, <2>4, <2>5 DEF FileInv, Saved
  <2> QED BY <1>1, <2>6 DEF FileInv
<1> QED BY <1>2, <1>3, <1>4

\* Results.
LEMMA ResultsKeepFile ==
  ASSUME BoundInv, FileInv, NEW m \in Models
  PROVE  /\ MarkSuccess(m) => FileInv'
         /\ \A f \in Failures : MarkFailure(m, f) => FileInv'
<1>1. LevelsUpTo(Levels, windows) /\ now \in Nat \ {0}
      /\ auth \in AuthsIn(Levels) /\ SoundAuth(auth) /\ due \in Nat
  BY BoundsGive DEF FileInv, Sound, BoundInv, Counters
<1>2. ASSUME NEW a, Result(a), SoundAuth(a) PROVE FileInv'
  <2>1. /\ auth' = a /\ UNCHANGED <<now, config, store, disk, saver, loader, clone, unsaved>>
        /\ due' = IF store /\ cooldownStateRecords(a) # cooldownStateRecords(auth) THEN due + 1 ELSE due
    BY <1>2 DEF Result
  <2>2. \/ cooldownStateRecords(a) = cooldownStateRecords(auth) /\ due' = due
        \/ ~store
        \/ due' # 0
    BY <1>1, <2>1
  <2>3. loader'.recs \in {loader.recs, {}} /\ clone' \subseteq clone \union {auth} BY <2>1
  <2> QED BY <1>2, <2>1, <2>2, <2>3, ManagerKeepsFile
<1>3. SoundAuth(succeeded(auth, m)) /\ \A f \in Failures : SoundAuth(failed(auth, m, f))
  BY <1>1, ResultsSound
<1>4. MarkSuccess(m) => FileInv' BY <1>2, <1>3 DEF MarkSuccess
<1>5. ASSUME NEW f \in Failures, MarkFailure(m, f) PROVE FileInv'
  BY <1>2, <1>3, <1>5 DEF MarkFailure
<1> QED BY <1>4, <1>5

\* As time passes, records go and none comes.
LEMMA RecordsLater ==
  ASSUME NEW L, NEW a \in AuthsIn(L), auth = a, auth' = a, now \in Nat,
         now' = now + 1, config' = config
  PROVE  cooldownStateRecords(auth)' = {r \in cooldownStateRecords(a) : r.next > now'}
<1>1. a.next \in Nat /\ \A m \in DOMAIN a.ms : a.ms[m].next \in Nat
  <2>1. \A m \in DOMAIN a.ms : a.ms[m] \in StatesIn(L) BY StatesOf
  <2> QED BY <2>1 DEF AuthsIn, StatesIn
<1>2. PICK t : t = now' OBVIOUS
<1> DEFINE Later(s) == s.unavail /\ s.next > t
<1>3. cooldownStateRecords(auth)' =
        IF ~config.cooling THEN {}
        ELSE {StateRecord(a, m) : m \in {n \in DOMAIN a.ms : Later(a.ms[n])}}
             \union (IF Later(a) THEN {OwnRecord(a)} ELSE {})
  BY <1>2 DEF cooldownStateRecords, Cooling, StateRecord, OwnRecord
<1>4. \A m \in DOMAIN a.ms : Later(a.ms[m]) <=> Cooling(a.ms[m]) /\ StateRecord(a, m).next > t
  BY <1>1, <1>2, RecordFields DEF Cooling
<1>5. Later(a) <=> Cooling(a) /\ OwnRecord(a).next > t BY <1>1, <1>2, RecordFields DEF Cooling
<1> HIDE DEF Later
<1>6. cooldownStateRecords(auth)' \subseteq {r \in cooldownStateRecords(a) : r.next > t}
  BY <1>3, <1>4, <1>5, RecordsAre
<1>7. ASSUME NEW r \in cooldownStateRecords(a), r.next > t PROVE r \in cooldownStateRecords(auth)'
  <2>1. config.cooling BY RecordsAre
  <2>2. CASE \E m \in DOMAIN a.ms : Cooling(a.ms[m]) /\ r = StateRecord(a, m)
    BY <1>3, <1>4, <1>7, <2>1, <2>2
  <2>3. CASE Cooling(a) /\ r = OwnRecord(a) BY <1>3, <1>5, <1>7, <2>1, <2>3
  <2> QED BY <2>2, <2>3, RecordsAre
<1> QED BY <1>2, <1>6, <1>7

\* And a file stays true.
LEMMA ShowsLater ==
  ASSUME NEW L, NEW own, NEW recs, recs \subseteq RecordsIn(L),
         own \subseteq RecordsIn(L), now \in Nat, now' = now + 1, Shows(recs, own),
         NEW later, later = {r \in own : r.next > now'}
  PROVE  Shows(recs, later)'
<1>1. PICK t : t = now' OBVIOUS
<1>2. \A r \in RecordsIn(L) : r.next \in Nat BY DEF RecordsIn
<1>3. PICK live : live = {r \in recs : r.next > t} OBVIOUS
<1>4. later = {r \in own : r.next > t} BY <1>1
<1>5. live \subseteq Live(recs) /\ live \subseteq later
  BY <1>1, <1>2, <1>3, <1>4 DEF Shows, Live
<1>6. ASSUME NEW w \in later \ live PROVE Outlasted(w, live)
  <2>1. w \in own /\ w.next > t /\ w.next \in Nat BY <1>2, <1>4
  <2>2. w \notin Live(recs) BY <1>3, <1>6, <2>1 DEF Live
  <2>3. Outlasted(w, Live(recs)) BY <2>1, <2>2 DEF Shows
  <2>4. PICK r \in Live(recs) : r.model # Whole /\ r.next >= w.next BY <2>3 DEF Outlasted
  <2>5. r \in recs /\ r.next \in Nat BY <1>2 DEF Live
  <2>6. t \in Nat BY <1>1
  <2>7. r \in live BY <1>3, <2>1, <2>4, <2>5, <2>6
  <2> QED BY <2>3, <2>4, <2>7 DEF Outlasted
<1>7. Live(recs)' = live BY <1>1, <1>3 DEF Live
<1> QED BY <1>1, <1>4, <1>5, <1>6, <1>7 DEF Shows

\* Time and saving.
LEMMA SavesKeepFile ==
  ASSUME BoundInv, FileInv
  PROVE  (Tick \/ SaveStep) => FileInv'
<1>1. /\ now \in Nat /\ auth \in AuthsIn(Levels)
      /\ disk \subseteq RecordsIn(Levels) /\ saver.recs \subseteq RecordsIn(Levels)
      /\ SoundAuth(auth)
  BY BoundsGive DEF FileInv, Sound, BoundInv, Bounded, Records
<1>2. ASSUME Tick PROVE FileInv'
  <2>1. /\ now' = now + 1 /\ UNCHANGED <<auth, config, store, disk, due, saver, loader, clone, unsaved>>
    BY <1>2 DEF Tick
  <2>2. PICK a : a = auth OBVIOUS
  <2>3. PICK own : own = cooldownStateRecords(a) OBVIOUS
  <2>4. own \subseteq RecordsIn(Levels) BY <1>1, <2>2, <2>3, RecordsAreIn
  <2>5. PICK later : later = {r \in own : r.next > now'} OBVIOUS
  <2>6. cooldownStateRecords(auth)' = later BY <1>1, <2>1, <2>2, <2>3, <2>5, RecordsLater
  <2>7. ASSUME NEW recs, recs \subseteq RecordsIn(Levels), Shows(recs, own)
        PROVE  Shows(recs, later)'
    BY <1>1, <2>1, <2>4, <2>5, <2>7, ShowsLater
  <2>8. Shows(disk, cooldownStateRecords(auth)) => Shows(disk, cooldownStateRecords(auth))'
    <3> SUFFICES ASSUME Shows(disk, cooldownStateRecords(auth))
                 PROVE  Shows(disk, cooldownStateRecords(auth))'
      OBVIOUS
    <3>1. PICK recs : recs = disk OBVIOUS
    <3>2. Shows(recs, later)' BY <1>1, <2>2, <2>3, <2>7, <3>1
    <3> QED BY <2>1, <2>6, <3>1, <3>2 DEF Shows, Live
  <2>9. Shows(saver.recs, cooldownStateRecords(auth)) => Shows(saver.recs, cooldownStateRecords(auth))'
    <3> SUFFICES ASSUME Shows(saver.recs, cooldownStateRecords(auth))
                 PROVE  Shows(saver.recs, cooldownStateRecords(auth))'
      OBVIOUS
    <3>1. PICK recs : recs = saver.recs OBVIOUS
    <3>2. Shows(recs, later)' BY <1>1, <2>2, <2>3, <2>7, <3>1
    <3> QED BY <2>1, <2>6, <3>1, <3>2 DEF Shows, Live
  <2>10. Sound' /\ (Still' => Still) BY <2>1 DEF FileInv, Sound, Still
  <2> QED BY <2>1, <2>8, <2>9, <2>10 DEF FileInv, Saved
<1>3. ASSUME NEW ok \in BOOLEAN, Release(ok)
      PROVE  /\ saver' = Free /\ saver'.pc # "write" /\ SoundFile(saver.recs)'
             /\ loader'.recs \in {loader.recs, {}}
             /\ store' /\ loader' = Loaded => store
  BY <1>3, NothingSound DEF Release, Free, Loaded
<1>4. ASSUME persistCooldownStates PROVE FileInv'
  <2>1. /\ saver'.recs = {} /\ saver'.pc = "held" /\ UNCHANGED <<auth, disk, loader, clone>>
    BY <1>4 DEF persistCooldownStates, Free
  <2>2. Sound' BY <2>1, NothingSound DEF FileInv, Sound
  <2>3. ~Still' BY <2>1 DEF Still, Free
  <2> QED BY <2>1, <2>2, <2>3 DEF FileInv, Saved
<1>5. ASSUME cooldownStateRecordsSnapshot PROVE FileInv'
  <2>1. UNCHANGED <<now, auth, config, disk, due, clone>> BY <1>5 DEF cooldownStateRecordsSnapshot
  <2>2. CASE store
    <3>1. PICK recs : recs = cooldownStateRecords(auth) OBVIOUS
    <3>2. /\ saver' = [pc |-> "write", by |-> saver.by, recs |-> recs]
          /\ loader' = loader /\ store' = store
      BY <1>5, <2>2, <3>1 DEF cooldownStateRecordsSnapshot
    <3>3. saver'.pc = "write" /\ saver'.recs = recs BY <3>2
    <3>4. SoundFile(recs) /\ Shows(recs, recs) BY <1>1, <3>1, RecordsSound
    <3>5. cooldownStateRecords(auth)' = recs BY <2>1, <3>1 DEF cooldownStateRecords, Cooling
    <3>6. Shows(saver.recs, cooldownStateRecords(auth))' BY <2>1, <3>3, <3>4, <3>5 DEF Shows, Live
    <3>7. Sound' BY <2>1, <3>2, <3>3, <3>4 DEF FileInv, Sound
    <3>8. ~Still' BY <3>3 DEF Still, Free
    <3> QED BY <2>2, <3>2, <3>6, <3>7, <3>8 DEF FileInv, Saved
  <2>3. CASE ~store
    <3>1. Release(TRUE) BY <1>5, <2>3 DEF cooldownStateRecordsSnapshot
    <3>2. /\ saver'.pc # "write" /\ SoundFile(saver.recs)' /\ loader'.recs \in {loader.recs, {}}
          /\ store' /\ loader' = Loaded => store
      BY <1>3, <3>1
    <3>3. ~Still' BY <2>3, <3>2 DEF Still
    <3>4. SoundFile(loader.recs)' BY <3>2, NothingSound DEF FileInv, Sound
    <3>5. Sound' BY <2>1, <3>2, <3>4 DEF FileInv, Sound
    <3> QED BY <3>2, <3>3, <3>5 DEF FileInv, Saved
  <2> QED BY <2>2, <2>3
<1>6. ASSUME NEW ok \in BOOLEAN, Save(ok) PROVE FileInv'
  <2>1. /\ UNCHANGED <<now, auth, config, due, clone>> /\ Release(ok) /\ saver.pc = "write"
        /\ disk' = (IF ok THEN saver.recs ELSE disk) /\ unsaved' = (unsaved \/ ~ok)
    BY <1>6 DEF Save
  <2>2. /\ saver' = Free /\ saver'.pc # "write" /\ SoundFile(saver.recs)'
        /\ loader'.recs \in {loader.recs, {}} /\ (store' /\ loader' = Loaded => store)
    BY <1>3, <2>1
  <2>3. SoundFile(loader.recs)' BY <2>2, NothingSound DEF FileInv, Sound
  <2>4. SoundFile(disk)' BY <2>1 DEF FileInv, Sound
  <2>5. Sound' BY <2>1, <2>2, <2>3, <2>4 DEF FileInv, Sound
  <2>6. ASSUME Still' PROVE Shows(disk, cooldownStateRecords(auth))'
    <3>1. ok /\ ~unsaved /\ due = 0 BY <2>1, <2>6 DEF Still
    <3>2. Shows(saver.recs, cooldownStateRecords(auth)) /\ disk' = saver.recs
      BY <2>1, <3>1 DEF FileInv, Saved
    <3>3. cooldownStateRecords(auth)' = cooldownStateRecords(auth)
      BY <2>1 DEF cooldownStateRecords, Cooling
    <3> QED BY <2>1, <3>2, <3>3 DEF Shows, Live
  <2> QED BY <2>2, <2>5, <2>6 DEF FileInv, Saved
<1> QED BY <1>2, <1>4, <1>5, <1>6 DEF SaveStep

\* Configuration, reload and reset.
LEMMA OperationsKeepFile ==
  ASSUME BoundInv, FileInv
  PROVE  /\ \A c \in [cooling : BOOLEAN, save : BOOLEAN] :
              ApplyConfigWithCooldownStateStore(c) => FileInv'
         /\ LoadRecords => FileInv'
         /\ RestoreCooldownStates => FileInv'
         /\ \A ok \in BOOLEAN : ResetQuota(ok) => FileInv'
<1>1. /\ LevelsUpTo(Levels, windows) /\ now \in Nat /\ due \in Nat
      /\ auth \in AuthsIn(Levels) /\ SoundAuth(auth)
      /\ loader.recs \subseteq RecordsIn(Levels) /\ SoundFile(loader.recs)
  BY BoundsGive DEF FileInv, Sound, BoundInv, Counters
<1>2. ASSUME NEW c \in [cooling : BOOLEAN, save : BOOLEAN], ApplyConfigWithCooldownStateStore(c)
      PROVE  FileInv'
  <2>1. /\ UNCHANGED <<disk, loader, clone>> /\ saver'.recs = {} /\ saver'.pc = "held"
        /\ auth' \in {auth, clearCooldownStateForAuth(auth)}
    BY <1>2 DEF ApplyConfigWithCooldownStateStore, Free
  <2>2. PICK a : a = auth' OBVIOUS
  <2>3. SoundAuth(clearCooldownStateForAuth(auth)) BY <1>1, ClearSound DEF SoundAuth
  <2>4. SoundAuth(a) BY <1>1, <2>1, <2>2, <2>3
  <2>5. Sound' BY <2>1, <2>2, <2>4, NothingSound DEF FileInv, Sound
  <2>6. ~Still' BY <2>1 DEF Still, Free
  <2> QED BY <2>1, <2>5, <2>6 DEF FileInv, Saved
<1>3. ASSUME LoadRecords PROVE FileInv'
  <2>1. /\ UNCHANGED <<now, auth, config, store, disk, due, saver, clone, unsaved>>
        /\ loader'.recs = disk /\ loader'.pc = "merge"
    BY <1>3 DEF LoadRecords
  <2>2. Sound' BY <2>1 DEF FileInv, Sound
  <2>3. ~Still' BY <2>1 DEF Still, Loaded
  <2>4. cooldownStateRecords(auth)' = cooldownStateRecords(auth)
    BY <2>1 DEF cooldownStateRecords, Cooling
  <2>5. Shows(saver.recs, cooldownStateRecords(auth)) => Shows(saver.recs, cooldownStateRecords(auth))'
    BY <2>1, <2>4 DEF Shows, Live
  <2> QED BY <2>1, <2>2, <2>3, <2>5 DEF FileInv, Saved
<1>4. ASSUME RestoreCooldownStates PROVE FileInv'
  <2>1. /\ UNCHANGED <<now, config, store, disk, saver, clone>> /\ loader'.recs = {}
        /\ auth' = restored(auth, loader.recs)
        /\ due' = (IF loader.recs # {} THEN due + 1 ELSE due)
        /\ unsaved' = (unsaved \/ loader.recs = {})
    BY <1>4 DEF RestoreCooldownStates, Loaded
  <2>2. PICK c : c = restored(auth, loader.recs) OBVIOUS
  <2>3. SoundAuth(c) BY <1>1, <2>2, RestoredSound
  <2>4. unsaved' \/ due' # 0
    <3>1. loader.recs = {} => unsaved' BY <2>1
    <3>2. loader.recs # {} => due' # 0 BY <1>1, <2>1
    <3> QED BY <3>1, <3>2
  <2>5. loader'.recs \in {loader.recs, {}} /\ clone' \subseteq clone \union {auth} BY <2>1
  <2> QED BY <2>1, <2>2, <2>3, <2>4, <2>5, ManagerKeepsFile
<1>5. ASSUME NEW ok \in BOOLEAN, ResetQuota(ok) PROVE FileInv'
  <2>1. PICK a : a = [auth EXCEPT !.ms = [m \in DOMAIN auth.ms |-> Clean]] OBVIOUS
  <2>2. a \in AuthsIn(Levels) BY <1>1, <2>1, ResetIn
  <2>3. SoundParts(a) /\ Bare(a)
    <3>1. PICK ms : ms = [m \in DOMAIN auth.ms |-> IF m \in DOMAIN auth.ms THEN Clean ELSE auth.ms[m]]
      OBVIOUS
    <3>2. ms = [m \in DOMAIN auth.ms |-> Clean] BY <3>1
    <3>3. a.q = auth.q /\ a.next = auth.next /\ a.ms = ms BY <1>1, <2>1, <3>2 DEF AuthsIn
    <3> QED BY <1>1, <3>1, <3>3, ResetSound
  <2>4. PICK c : c = clearCooldownStateForAuth(a) OBVIOUS
  <2>5. SoundAuth(c) BY <1>1, <2>2, <2>3, <2>4, ClearSound
  <2>6. /\ auth' = c
        /\ due' = IF ok /\ store /\ cooldownStateRecords(auth) # cooldownStateRecords(c)
                  THEN due + 1 ELSE due
    BY <1>5, <2>1, <2>4, Zenon DEF ResetQuota
  <2>7. UNCHANGED <<now, config, store, disk, saver, loader, clone>> /\ unsaved' = (unsaved \/ ~ok)
    BY <1>5 DEF ResetQuota
  <2>8. loader'.recs \in {loader.recs, {}} /\ clone' \subseteq clone \union {auth} BY <2>7
  <2>9. CASE ~ok
    <3>1. unsaved' BY <2>7, <2>9
    <3> QED BY <2>5, <2>6, <2>7, <2>8, <3>1, ManagerKeepsFile
  <2>10. CASE ok /\ ~(store /\ cooldownStateRecords(auth) # cooldownStateRecords(c))
    <3>1. due' = due BY <2>6, <2>10
    <3>2. (unsaved => unsaved') /\ (~store \/ cooldownStateRecords(c) = cooldownStateRecords(auth))
      BY <2>7, <2>10
    <3> QED BY <2>5, <2>6, <2>7, <2>8, <3>1, <3>2, ManagerKeepsFile
  <2>11. CASE ok /\ store /\ cooldownStateRecords(auth) # cooldownStateRecords(c)
    <3>1. due' # 0 BY <1>1, <2>6, <2>11
    <3> QED BY <2>5, <2>6, <2>7, <2>8, <3>1, ManagerKeepsFile
  <2> QED BY <2>9, <2>10, <2>11
<1> QED BY <1>2, <1>3, <1>4, <1>5

\* Updates and refreshes.
LEMMA UpdatesKeepFile ==
  ASSUME BoundInv, FileInv, Reads
  PROVE  /\ prepareCoreAuth => FileInv'
         /\ UpdateAuth => FileInv'
         /\ ReconcileRegistryModelStates => FileInv'
         /\ BeginRefresh => FileInv'
         /\ \A a \in clone : EndRefresh(a) => FileInv'
         /\ RefreshUnauthorized => FileInv'
<1>1. /\ LevelsUpTo(Levels, windows) /\ now \in Nat
      /\ auth \in AuthsIn(Levels) /\ SoundAuth(auth)
  BY BoundsGive DEF FileInv, Sound
<1>2. ASSUME NEW c, auth' = c, SoundAuth(c), unsaved', clone' \subseteq clone,
             UNCHANGED <<now, config, store, disk, saver, loader>>
      PROVE  FileInv'
  <2>1. loader'.recs \in {loader.recs, {}} /\ clone' \subseteq clone \union {auth} BY <1>2
  <2> QED BY <1>2, <2>1, ManagerKeepsFile
<1>8. ASSUME prepareCoreAuth PROVE FileInv'
  <2>1. UNCHANGED <<now, auth, config, store, disk, due, saver, loader, clone, unsaved>>
    BY <1>8 DEF prepareCoreAuth
  <2>2. PICK c : c = auth OBVIOUS
  <2>3. loader'.recs \in {loader.recs, {}} /\ clone' \subseteq clone \union {auth} BY <2>1
  <2>4. cooldownStateRecords(c) = cooldownStateRecords(auth) /\ auth' = c /\ SoundAuth(c)
    BY <1>1, <2>1, <2>2
  <2> QED BY <2>1, <2>3, <2>4, ManagerKeepsFile
<1>3. ASSUME UpdateAuth PROVE FileInv'
  <2>1. PICK a : a = [FreshAuth EXCEPT !.ms = registering.ms] OBVIOUS
  <2>2. a \in AuthsIn(Levels) /\ a.q = NoQuota /\ a.next = 0 /\ a.ms = registering.ms
    <3>1. FreshAuth \in AuthsIn(Levels) BY <1>1, FreshStates DEF LevelsUpTo
    <3>2. registering.ms \in ModelStatesIn(Levels) BY DEF BoundInv, Bounded
    <3>3. FreshAuth.q = NoQuota /\ FreshAuth.next = 0 BY DEF FreshAuth
    <3> QED BY <2>1, <3>1, <3>2, <3>3 DEF AuthsIn
  <2>3. SoundAuth(a)
    BY <2>2 DEF SoundAuth, SoundParts, Exact, Bare, Covered, NoQuota, Reads
  <2>4. Update(a) /\ UNCHANGED <<now, config, store, disk, saver, loader, clone>>
    BY <1>3, <2>1 DEF UpdateAuth
  <2>5. PICK c : auth' = c /\ SoundAuth(c) BY <1>1, <2>2, <2>3, <2>4, UpdateSound
  <2>6. unsaved' BY <2>4 DEF Update
  <2> QED BY <1>2, <2>4, <2>5, <2>6
<1>4. ASSUME ReconcileRegistryModelStates PROVE FileInv'
  <2>1. PICK a : a = [auth EXCEPT !.ms = [m \in DOMAIN auth.ms |-> Clean]] OBVIOUS
  <2>2. a \in AuthsIn(Levels) BY <1>1, <2>1, ResetIn
  <2>3. SoundParts(a)
    <3>1. PICK ms : ms = [m \in DOMAIN auth.ms |-> IF m \in DOMAIN auth.ms THEN Clean ELSE auth.ms[m]]
      OBVIOUS
    <3>2. ms = [m \in DOMAIN auth.ms |-> Clean] BY <3>1
    <3>3. a.q = auth.q /\ a.next = auth.next /\ a.ms = ms BY <1>1, <2>1, <3>2 DEF AuthsIn
    <3> QED BY <1>1, <3>1, <3>3, ResetSound
  <2>4. PICK b : b = updateAggregatedAvailability(a) OBVIOUS
  <2>5. SoundAuth(b) BY <1>1, <2>2, <2>3, <2>4, AggregateSound
  <2>6. auth' = auth \/ auth' = b BY <1>4, <2>1, <2>4, Zenon DEF ReconcileRegistryModelStates
  <2>7. UNCHANGED <<now, config, store, disk, saver, loader, clone>> /\ unsaved'
    BY <1>4 DEF ReconcileRegistryModelStates
  <2>8. PICK c : c = auth' OBVIOUS
  <2>9. SoundAuth(c) BY <1>1, <2>5, <2>6, <2>8
  <2> QED BY <1>2, <2>7, <2>8, <2>9
<1>5. ASSUME BeginRefresh PROVE FileInv'
  <2>1. /\ UNCHANGED <<now, auth, config, store, disk, due, saver, loader, unsaved>> /\ clone' = {auth}
    BY <1>5 DEF BeginRefresh
  <2>2. PICK c : c = auth OBVIOUS
  <2>3. loader'.recs \in {loader.recs, {}} /\ clone' \subseteq clone \union {auth} BY <2>1
  <2>4. cooldownStateRecords(c) = cooldownStateRecords(auth) /\ auth' = c /\ SoundAuth(c)
    BY <1>1, <2>1, <2>2
  <2> QED BY <2>1, <2>3, <2>4, ManagerKeepsFile
<1>6. ASSUME NEW a \in clone, EndRefresh(a) PROVE FileInv'
  <2>1. a \in AuthsIn(Levels) /\ SoundAuth(a) BY BoundsGive DEF FileInv, Sound
  <2> DEFINE denied == {m \in DOMAIN a.ms : a.ms[m].err = "401"}
             ms == [m \in DOMAIN a.ms |-> IF m \in denied THEN Clean ELSE a.ms[m]]
             b == [a EXCEPT !.unavail = FALSE, !.ms = ms]
  <2>2. Update(IF denied = {} THEN b ELSE updateAggregatedAvailability(b))
    BY <1>6, Zenon DEF EndRefresh
  <2> HIDE DEF denied
  <2>3. [a EXCEPT !.ms = ms] \in AuthsIn(Levels) BY <1>1, <2>1, ResetIn
  <2>4. PICK ns : ns = ms OBVIOUS
  <2>5. ns = [m \in DOMAIN a.ms |-> IF m \in denied THEN Clean ELSE a.ms[m]] BY <2>4
  <2> HIDE DEF ms
  <2>6. ms \in ModelStatesIn(Levels)
    <3>1. [a EXCEPT !.ms = ms].ms = ms BY <2>1 DEF AuthsIn
    <3> QED BY <2>3, <3>1 DEF AuthsIn
  <2>7. b \in AuthsIn(Levels)
    <3>1. FALSE \in BOOLEAN OBVIOUS
    <3> QED BY <2>1, <2>6, <3>1, Zenon DEF AuthsIn
  <2>8. b.q = a.q /\ b.next = a.next /\ b.ms = ns BY <2>1, <2>4 DEF AuthsIn
  <2> HIDE DEF b
  <2>9. SoundParts(b) /\ (denied = {} => SoundAuth(b)) BY <1>1, <2>1, <2>5, <2>8, ResetSound
  <2>10. PICK u : u = updateAggregatedAvailability(b) OBVIOUS
  <2>11. u \in AuthsIn(Levels) /\ SoundAuth(u)
    BY <1>1, <2>7, <2>9, <2>10, AggregateIn, AggregateSound
  <2>12. PICK x : x = IF denied = {} THEN b ELSE u OBVIOUS
  <2>13. x \in AuthsIn(Levels) /\ SoundAuth(x) BY <2>7, <2>9, <2>11, <2>12
  <2>14. Update(x) BY <2>2, <2>10, <2>12
  <2>15. PICK c : auth' = c /\ SoundAuth(c) BY <1>1, <2>13, <2>14, UpdateSound
  <2>16. UNCHANGED <<now, config, store, disk, saver, loader>> /\ clone' = {} BY <1>6 DEF EndRefresh
  <2>17. unsaved' /\ clone' \subseteq clone BY <2>14, <2>16 DEF Update
  <2> QED BY <1>2, <2>15, <2>16, <2>17
<1>7. ASSUME RefreshUnauthorized PROVE FileInv'
  <2>1. UNCHANGED <<now, config, store, disk, saver, loader>> /\ clone' = {} /\ unsaved'
        /\ auth' = [auth EXCEPT !.unavail = TRUE]
    BY <1>7 DEF RefreshUnauthorized
  <2>2. PICK c : c = [auth EXCEPT !.unavail = TRUE] OBVIOUS
  <2>3. c.q = auth.q /\ c.next = auth.next /\ c.ms = auth.ms BY <1>1, <2>2 DEF AuthsIn
  <2>4. SoundAuth(c) BY <1>1, <2>3 DEF SoundAuth, SoundParts, Exact, Bare, Covered
  <2>5. clone' \subseteq clone BY <2>1
  <2> QED BY <1>2, <2>1, <2>2, <2>4, <2>5
<1> QED BY <1>3, <1>4, <1>5, <1>6, <1>7, <1>8

\* An update under way has read sound states.
LEMMA ReadsKept ==
  ASSUME BoundInv, FileInv, Reads, [Next]_vars
  PROVE  Reads'
<1>1. CASE UNCHANGED registering BY <1>1 DEF Reads
<1>2. CASE registering'.ms = auth.ms BY <1>2 DEF Reads, FileInv, Sound, SoundAuth, SoundParts
<1>3. CASE registering'.ms = <<>> BY <1>3 DEF Reads
<1>4. prepareCoreAuth => registering'.ms = auth.ms BY DEF prepareCoreAuth
<1>5. /\ UpdateAuth => registering'.ms = <<>>
      /\ ReconcileRegistryModelStates => registering'.ms = <<>>
      /\ \A ok \in BOOLEAN : Restart(ok) => registering'.ms = <<>>
  BY DEF UpdateAuth, ReconcileRegistryModelStates, Restart, Registered
<1>6. /\ \A m \in Models : MarkSuccess(m) => UNCHANGED registering
      /\ \A m \in Models, f \in Failures : MarkFailure(m, f) => UNCHANGED registering
      /\ Tick => UNCHANGED registering
  BY DEF MarkSuccess, MarkFailure, Result, Tick
<1>7. SaveStep => UNCHANGED registering
  BY DEF SaveStep, persistCooldownStates, cooldownStateRecordsSnapshot, Save
<1>8. /\ \A c \in [cooling : BOOLEAN, save : BOOLEAN] :
           ApplyConfigWithCooldownStateStore(c) => UNCHANGED registering
      /\ LoadRecords => UNCHANGED registering
      /\ RestoreCooldownStates => UNCHANGED registering
      /\ \A ok \in BOOLEAN : ResetQuota(ok) => UNCHANGED registering
  BY DEF ApplyConfigWithCooldownStateStore, LoadRecords, RestoreCooldownStates, ResetQuota
<1>9. /\ BeginRefresh => UNCHANGED registering
      /\ RefreshUnauthorized => UNCHANGED registering
      /\ \A a \in clone : EndRefresh(a) => UNCHANGED registering
  BY DEF BeginRefresh, RefreshUnauthorized, EndRefresh
<1>10. UNCHANGED registering \/ registering'.ms = auth.ms \/ registering'.ms = <<>>
  <2>1. CASE Next BY <1>4, <1>5, <1>6, <1>7, <1>8, <1>9, <2>1 DEF Next
  <2>2. CASE UNCHANGED vars BY <2>2 DEF vars
  <2> QED BY <2>1, <2>2
<1> QED BY <1>1, <1>2, <1>3, <1>10

\* The next process.
LEMMA RestartKeepsFile ==
  ASSUME BoundInv, FileInv, NEW ok \in BOOLEAN, Restart(ok)
  PROVE  FileInv'
<1>1. /\ LevelsUpTo(Levels, windows) /\ now \in Nat
      /\ disk \subseteq RecordsIn(Levels) /\ SoundFile(disk)
  BY BoundsGive DEF FileInv, Sound
<1>2. FreshAuth \in AuthsIn(Levels) BY <1>1, FreshStates DEF LevelsUpTo
<1>3. PICK b : b = restored(FreshAuth, disk) OBVIOUS
<1>4. b \in AuthsIn(Levels) /\ SoundAuth(b)
  BY <1>1, <1>2, <1>3, NothingSound, RestoredIn, RestoredSound
<1>5. PICK a : a = IF config.save THEN b ELSE FreshAuth OBVIOUS
<1>6. a \in AuthsIn(Levels) /\ SoundAuth(a) BY <1>2, <1>4, <1>5, NothingSound
<1>7. /\ auth' = a /\ UNCHANGED <<now, config>> /\ saver' = Free /\ loader' = Loaded /\ clone' = {}
      /\ store' = config.save
      /\ disk' = IF config.save /\ disk # {} /\ ok THEN cooldownStateRecords(a) ELSE disk
  BY <1>3, <1>5, Zenon DEF Restart
<1>8. PICK own : own = cooldownStateRecords(a) OBVIOUS
<1>9. SoundFile(own) /\ Shows(own, own) BY <1>1, <1>6, <1>8, RecordsSound
<1>10. PICK d : d = disk' OBVIOUS
<1>11. d = own \/ d = disk BY <1>7, <1>8, <1>10
<1>12. Sound'
  <2>1. SoundFile(d) BY <1>1, <1>9, <1>11
  <2>2. saver'.recs = {} /\ loader'.recs = {} BY <1>7 DEF Free, Loaded
  <2>3. SoundFile(saver.recs)' /\ SoundFile(loader.recs)' BY <2>2, NothingSound
  <2> QED BY <1>6, <1>7, <1>10, <2>1, <2>3 DEF Sound
<1>13. saver'.pc # "write" BY <1>7 DEF Free
<1>14. ASSUME Still' PROVE Shows(disk, cooldownStateRecords(auth))'
  <2>1. config.save /\ config.cooling /\ a = b BY <1>5, <1>7, <1>14 DEF Still
  <2>2. Rebuilt(b, disk) BY <1>1, <1>3, <2>1, RestoredRebuilt
  <2>3. Shows(disk, own) BY <1>1, <1>4, <1>8, <2>1, <2>2, RebuiltShows
  <2>4. Shows(d, own) BY <1>9, <1>11, <2>3
  <2>5. cooldownStateRecords(auth)' = own BY <1>7, <1>8 DEF cooldownStateRecords, Cooling
  <2> QED BY <1>7, <1>10, <2>4, <2>5 DEF Shows, Live
<1> QED BY <1>12, <1>13, <1>14 DEF FileInv, Saved

\* The states and their records stay sound, and the file true to the manager
\* whenever nothing is under way to it.
THEOREM FileInvariance == Spec => [](FileInv /\ Reads)
<1>1. Init => FileInv /\ Reads
  <2> SUFFICES ASSUME Init PROVE FileInv /\ Reads OBVIOUS
  <2>1. /\ auth = FreshAuth /\ disk = {} /\ saver = Free /\ loader = Loaded /\ clone = {}
        /\ config.cooling /\ now = 1
    BY DEF Init
  <2>2. saver.recs = {} /\ loader.recs = {} /\ saver.pc # "write" BY <2>1 DEF Free, Loaded
  <2>3. Sound BY <2>1, <2>2, NothingSound DEF Sound
  <2>4. cooldownStateRecords(auth) = {} BY <2>1 DEF cooldownStateRecords, Cooling, FreshAuth
  <2>5. Shows(disk, cooldownStateRecords(auth)) BY <2>1, <2>4 DEF Shows, Live
  <2>6. Reads BY DEF Init, Registered, Reads
  <2> QED BY <2>2, <2>3, <2>5, <2>6 DEF FileInv, Saved
<1>2. BoundInv /\ FileInv /\ Reads /\ [Next]_vars => FileInv' /\ Reads'
  <2> SUFFICES ASSUME BoundInv, FileInv, Reads, [Next]_vars PROVE FileInv'
    BY ReadsKept
  <2>1. CASE Next
    BY <2>1, ResultsKeepFile, SavesKeepFile, OperationsKeepFile, UpdatesKeepFile,
       RestartKeepsFile DEF Next
  <2>2. CASE UNCHANGED vars
    <3>1. UNCHANGED <<now, auth, config, store, disk, due, saver, loader, clone, unsaved>>
      BY <2>2 DEF vars
    <3>2. cooldownStateRecords(auth)' = cooldownStateRecords(auth)
      BY <3>1 DEF cooldownStateRecords, Cooling
    <3>3. Sound' /\ (Still' => Still) BY <3>1 DEF FileInv, Sound, Still
    <3>4. Saved' BY <3>1, <3>2, <3>3 DEF FileInv, Saved, Shows, Live
    <3> QED BY <3>3, <3>4 DEF FileInv
  <2> QED BY <2>1, <2>2
<1> QED BY <1>1, <1>2, BoundInvariance, PTL DEF Spec

\* What RestoreCooldownStates would bring back from the file after a restart is
\* what isAuthBlockedForModel blocks now, whenever no save is outstanding - for
\* every credential, failure, schedule of saves and clock, with the exceptions
\* the property names.
THEOREM RestartKeepsBlocksHolds == Spec => []RestartKeepsBlocks
<1>1. BoundInv /\ FileInv => RestartKeepsBlocks
  <2> SUFFICES ASSUME BoundInv, FileInv, Still, NEW m \in Models,
                      ~(credentialQuota(auth) /\ Hidden(auth)),
                      ~(m \in DOMAIN auth.ms /\ Hidden(auth.ms[m])),
                      ~(DOMAIN auth.ms = {} /\ auth.unavail /\ auth.next = 0)
               PROVE  isAuthBlockedForModel(auth, m) <=> isAuthBlockedForModel(restored(FreshAuth, disk), m)
    BY DEF RestartKeepsBlocks, Still
  <2>1. /\ LevelsUpTo(Levels, windows) /\ now \in Nat /\ config.cooling
        /\ disk \subseteq RecordsIn(Levels) /\ SoundFile(disk)
        /\ auth \in AuthsIn(Levels) /\ SoundAuth(auth)
    BY BoundsGive DEF FileInv, Sound, Still
  <2>2. PICK own : own = cooldownStateRecords(auth) OBVIOUS
  <2>3. Shows(disk, own) BY <2>2 DEF FileInv, Saved
  <2>4. PICK b : b = restored(FreshAuth, disk) OBVIOUS
  <2>5. Rebuilt(b, disk) BY <2>1, <2>4, RestoredRebuilt
  <2>6. isAuthBlockedForModel(b, m) <=> Blocks(disk, m) BY <2>1, <2>5, RebuiltBlocks
  <2>7. /\ auth.next \in Nat /\ auth.q.rec \in Nat /\ Exact(auth)
        /\ \A n \in DOMAIN auth.ms : /\ n # Whole /\ SoundState(auth.ms[n])
                                     /\ auth.ms[n].next \in Nat /\ auth.ms[n].q.rec \in Nat
    <3>1. auth.next \in Nat /\ auth.q \in QuotasIn(Levels) BY <2>1 DEF AuthsIn
    <3>2. auth.q.rec \in Nat BY <2>1, <3>1 DEF QuotasIn
    <3>3. /\ DOMAIN auth.ms \subseteq Models
          /\ \A n \in DOMAIN auth.ms : auth.ms[n] \in StatesIn(Levels)
      BY <2>1, StatesOf
    <3>4. \A n \in DOMAIN auth.ms : auth.ms[n].next \in Nat /\ auth.ms[n].q \in QuotasIn(Levels)
      BY <2>1, <3>3 DEF StatesIn
    <3>5. \A n \in DOMAIN auth.ms : auth.ms[n].q.rec \in Nat BY <2>1, <3>4 DEF QuotasIn
    <3>6. \A n \in DOMAIN auth.ms : n # Whole BY <3>3, CooldownAssumption DEF Whole
    <3> QED BY <2>1, <3>1, <3>2, <3>4, <3>5, <3>6 DEF SoundAuth, SoundParts
  <2>8. \A r \in own : \/ \E n \in DOMAIN auth.ms : Cooling(auth.ms[n]) /\ r = StateRecord(auth, n)
                       \/ Cooling(auth) /\ r = OwnRecord(auth)
    BY <2>2, RecordsAre
  <2>9. m # Whole BY CooldownAssumption DEF Whole
  <2>10. ASSUME Blocks(disk, m) PROVE isAuthBlockedForModel(auth, m)
    <3>1. PICK r \in Live(disk) : r.model = m \/ (r.model = Whole /\ r.q.cred) BY <2>10 DEF Blocks
    <3>2. r \in own BY <2>3 DEF Shows
    <3>3. CASE r.model = m
      <4>1. m \in DOMAIN auth.ms /\ Cooling(auth.ms[m]) BY <2>8, <2>9, <3>2, <3>3, RecordFields
      <4>2. availabilityBlock(auth.ms[m]) BY <4>1 DEF Cooling, availabilityBlock
      <4> QED BY <4>1, <4>2 DEF isAuthBlockedForModel
    <3>4. CASE r.model = Whole /\ r.q.cred
      <4>1. Cooling(auth) /\ r.q = auth.q BY <2>7, <2>8, <3>2, <3>4, RecordFields
      <4>2. credentialQuota(auth) BY <2>7, <3>4, <4>1 DEF Exact, Cooling, credentialQuota
      <4> QED BY <4>2 DEF isAuthBlockedForModel
    <3> QED BY <3>1, <3>3, <3>4
  <2>11. ASSUME NEW r \in own, r.model = m \/ (r.model = Whole /\ r.q.cred) PROVE Blocks(disk, m)
    <3>1. ~Outlasted(r, Live(disk)) BY <2>9, <2>11 DEF Outlasted
    <3>2. r \in Live(disk) BY <2>3, <3>1 DEF Shows
    <3> QED BY <2>11, <3>2 DEF Blocks
  <2>12. ASSUME isAuthBlockedForModel(auth, m) PROVE Blocks(disk, m)
    <3>1. CASE credentialQuota(auth)
      <4>1. auth.q.ex /\ auth.q.cred /\ auth.q.rec > now BY <3>1 DEF credentialQuota
      <4>2. auth.unavail /\ auth.next >= auth.q.rec BY <3>1, <4>1 DEF Hidden
      <4>3. Cooling(auth) BY <2>1, <2>7, <4>1, <4>2 DEF Cooling
      <4>4. PICK r : r = OwnRecord(auth) OBVIOUS
      <4>5. r \in own BY <2>1, <2>2, <4>3, <4>4, RecordsAre
      <4>6. r.model = Whole /\ r.q = auth.q BY <4>4, RecordFields
      <4> QED BY <2>11, <4>1, <4>5, <4>6
    <3>2. CASE ~credentialQuota(auth) /\ DOMAIN auth.ms = {}
      <4>1. availabilityBlock(auth) BY <2>12, <3>2 DEF isAuthBlockedForModel
      <4>2. auth.q.cred \/ (auth.next = 0 /\ auth.q = NoQuota) BY <2>1, <3>2 DEF SoundAuth, Bare
      <4>3. CASE auth.q.cred
        <5>1. auth.q.ex /\ auth.q.rec = auth.next /\ auth.q.rec # 0 BY <2>7, <4>3 DEF Exact
        <5>2. auth.q.rec > now BY <4>1, <5>1 DEF availabilityBlock
        <5> QED BY <3>2, <4>3, <5>1, <5>2 DEF credentialQuota
      <4>4. CASE auth.next = 0 /\ auth.q = NoQuota
        <5>1. ~auth.q.ex BY <4>4 DEF NoQuota
        <5>2. auth.unavail BY <4>1, <5>1 DEF availabilityBlock
        <5> QED BY <3>2, <4>4, <5>2
      <4> QED BY <4>2, <4>3, <4>4
    <3>3. CASE ~credentialQuota(auth) /\ DOMAIN auth.ms # {}
      <4>1. m \in DOMAIN auth.ms /\ availabilityBlock(auth.ms[m])
        BY <2>12, <3>3 DEF isAuthBlockedForModel
      <4>2. PICK s : s = auth.ms[m] OBVIOUS
      <4>3. SoundState(s) /\ s.next \in Nat /\ s.q.rec \in Nat /\ availabilityBlock(s) /\ ~Hidden(s)
        BY <2>7, <4>1, <4>2
      <4>4. Cooling(s)
        <5>1. CASE s.q.rec > now
          <6>1. s.q.ex BY <2>1, <4>3, <5>1 DEF SoundState
          <6>2. s.unavail /\ s.next >= s.q.rec BY <4>3, <5>1, <6>1 DEF Hidden
          <6> QED BY <2>1, <4>3, <5>1, <6>2 DEF Cooling
        <5>2. CASE ~(s.q.rec > now)
          <6>1. s.next > now \/ (s.next = 0 /\ s.q.rec = 0) BY <4>3, <5>2 DEF availabilityBlock
          <6>2. s.next > now
            <7> SUFFICES ASSUME s.next = 0, s.q.rec = 0 PROVE FALSE BY <6>1
            <7>1. ~s.unavail /\ ~s.q.ex BY <4>3 DEF SoundState
            <7> QED BY <4>3, <7>1 DEF availabilityBlock
          <6>3. s.unavail BY <2>1, <4>3, <6>2 DEF SoundState
          <6> QED BY <6>2, <6>3 DEF Cooling
        <5> QED BY <5>1, <5>2
      <4>5. PICK r : r = StateRecord(auth, m) OBVIOUS
      <4>6. r \in own BY <2>1, <2>2, <4>1, <4>2, <4>4, <4>5, RecordsAre
      <4>7. r.model = m BY <4>5, RecordFields
      <4> QED BY <2>11, <4>6, <4>7
    <3> QED BY <3>1, <3>2, <3>3
  <2> QED BY <2>4, <2>6, <2>10, <2>12
<1> QED BY <1>1, BoundInvariance, FileInvariance, PTL
==============================================================================
