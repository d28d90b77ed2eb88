-------------------------- MODULE CredentialCooldown --------------------------
(***************************************************************************)
(* Cooldowns of one credential: what MarkResult records per model, how the *)
(* credential's own availability is aggregated from it, and how both reach *)
(* the .cds file and come back after a restart                             *)
(* (sdk/cliproxy/auth: conductor_cooldown.go, cooldown_state.go).          *)
(*                                                                         *)
(* The manager's lock makes MarkResult one step; the save that follows     *)
(* takes configCooldownMu, then a snapshot under the manager's lock, then  *)
(* writes the file.  Results, refreshes, registrations, configuration      *)
(* changes and a crash fall between these steps.  Time is a counter, 0 the *)
(* zero time; every result names a model and the credential is enabled.    *)
(***************************************************************************)
EXTENDS Naturals, FiniteSets, FiniteSetsExt

CONSTANTS Models,        \* canonical model names, in the order of the file
          Failures,      \* [kind, after, force, scope]: failures upstream can answer with
          BackoffBase,   \* quotaBackoffBase
          BackoffMax,    \* quotaBackoffMax
          CloudflareMin, \* the shortest pause after a Cloudflare challenge
          LongPause,     \* 30 minutes or 12 hours
          Transient,     \* pause after a transient error, 0 if disabled
          ForcePause,    \* transientErrorCooldown
          MaxTime, MaxResults, MaxOps \* bounds: clock, results, other operations

Kinds == {"transient", "suspend", "unauthorized", "unsupported", "cloudflare", "quota"}

ASSUME CooldownAssumption ==
  /\ Models \subseteq Nat \ {0} /\ IsFiniteSet(Models)
  /\ \A f \in Failures : f.kind \in Kinds /\ f.after \in Nat
  /\ {BackoffBase, BackoffMax, LongPause, ForcePause} \subseteq Nat \ {0}
  /\ {CloudflareMin, Transient, MaxResults, MaxOps} \subseteq Nat /\ MaxTime \in Nat \ {0}

VARIABLES
  now,       \* time.Now()
  auth,      \* the manager's credential: [unavail, next, q, ms]
  config,    \* runtimeConfig: [cooling, save]
  store,     \* cooldownStore is set
  disk,      \* the records in the credential's .cds file
  due,       \* goroutines on their way to persistCooldownStates
  saver,     \* configCooldownMu: [pc, by, recs]
  loader,    \* RestoreCooldownStates: [pc, recs]
  clone,     \* the credential a refresh under way works on, if any
  registering, \* the watcher's update of the credential: [pc, ms]
  results, ops, \* results and other operations so far
  unsaved,   \* history: the state changed and no save followed, or it failed
  stale,     \* history: where the outcome of merging records that were out of date is held
  granted,   \* history: the deadlines failures called for, by model and as a Whole
  windows    \* history: quota windows and challenges that opened

vars == <<now, auth, config, store, disk, due, saver, loader, clone, registering, results, ops,
          unsaved, stale, granted, windows>>

NoQuota == [ex |-> FALSE, cred |-> FALSE, rec |-> 0, lvl |-> 0]
Clean == [unavail |-> FALSE, next |-> 0, q |-> NoQuota, err |-> "none"]
FreshAuth == [unavail |-> FALSE, next |-> 0, q |-> NoQuota, ms |-> <<>>]
Free == [pc |-> "free", by |-> "none", recs |-> {}]
Loaded == [pc |-> "idle", recs |-> {}]
Registered == [pc |-> "no", ms |-> <<>>]

Whole == 0  \* the credential itself, where a model is named
Places == Models \union {Whole}

Init ==
  /\ now = 1
  /\ auth = FreshAuth
  /\ config = [cooling |-> TRUE, save |-> TRUE]
  /\ store = TRUE
  /\ disk = {}
  /\ due = 0
  /\ saver = Free
  /\ loader = Loaded
  /\ clone = {}
  /\ registering = Registered
  /\ results = 0 /\ ops = 0
  /\ unsaved = FALSE /\ stale = {}
  /\ granted = [m \in Places |-> {0}]
  /\ windows = 0

-----------------------------------------------------------------------------
(***************************************************************************)
(* The state of a model after a failure.                                   *)
(***************************************************************************)
backoff(lvl) == BackoffBase * 2 ^ lvl

\* Below the top of the ladder.
climbs(lvl) == backoff(lvl) \in BackoffBase .. BackoffMax - 1

\* Faulty variant: the level goes on rising at the longest pause.
nextQuotaUncapped(lvl) ==
  [pause |-> IF climbs(lvl) THEN backoff(lvl) ELSE BackoffMax, lvl |-> lvl + 1]

nextQuotaCooldown(lvl) ==
  IF climbs(lvl) THEN [pause |-> backoff(lvl), lvl |-> lvl + 1]
  ELSE [pause |-> BackoffMax, lvl |-> lvl]

\* Faulty variant: failures of one burst each climb the ladder.
quotaCooldownEscalating(q) ==
  LET step == nextQuotaCooldown(q.lvl) IN [until |-> now + step.pause, lvl |-> step.lvl]

\* A failure within an open window does not open another one.
quotaCooldownAfterFailure(q) ==
  IF q.rec > now THEN [until |-> q.rec, lvl |-> q.lvl]
  ELSE LET step == nextQuotaCooldown(q.lvl) IN [until |-> now + step.pause, lvl |-> step.lvl]

nextCloudflareCooldown(q) ==
  LET step == nextQuotaCooldown(q.lvl)
  IN  [until |-> now + Max({step.pause, CloudflareMin}), lvl |-> step.lvl]

coolingOff(f) == ~config.cooling /\ ~f.force

recoverableFailureRetryAfter(f) == IF coolingOff(f) \/ Transient = 0 THEN 0 ELSE now + Transient

Quota(until, lvl) == [ex |-> TRUE, cred |-> FALSE, rec |-> until, lvl |-> lvl]

\* 429: Retry-After or the ladder, and never earlier than the open window.
quotaUntil(q, f) ==
  LET step == IF f.after > 0 THEN [until |-> now + f.after, lvl |-> q.lvl]
              ELSE quotaCooldownAfterFailure(q)
  IN  [step EXCEPT !.until = IF q.ex THEN Max({@, q.rec}) ELSE @]

failedState(s, f) ==
  LET off == coolingOff(f)
      s1 == [s EXCEPT !.unavail = TRUE, !.err = IF f.kind = "unauthorized" THEN "401" ELSE "other"]
      s2 == CASE f.kind = "unsupported" -> [s1 EXCEPT !.next = now + LongPause]
              [] f.kind \in {"suspend", "unauthorized"} ->
                   [s1 EXCEPT !.next = IF off THEN 0 ELSE now + LongPause]
              [] f.kind = "transient" ->
                   LET next == recoverableFailureRetryAfter(f)
                   IN  [s1 EXCEPT !.next = next, !.unavail = next # 0]
              [] OTHER ->
                   LET step == CASE off -> [until |-> 0, lvl |-> s.q.lvl]
                                 [] ~off /\ f.kind = "quota" -> quotaUntil(s.q, f)
                                 [] OTHER -> nextCloudflareCooldown(s.q)
                   IN  [s1 EXCEPT !.next = step.until, !.q = Quota(step.until, step.lvl)]
      s3 == IF off /\ s2.next = 0 /\ s2.q.rec = 0
            THEN [s2 EXCEPT !.unavail = FALSE, !.q.ex = FALSE] ELSE s2
  IN  IF f.force /\ s3.next = 0 THEN [s3 EXCEPT !.next = now + ForcePause, !.unavail = TRUE] ELSE s3

-----------------------------------------------------------------------------
(***************************************************************************)
(* The credential.                                                         *)
(***************************************************************************)
credentialQuota(a) == a.q.ex /\ a.q.cred /\ a.q.rec > now

clearAggregatedAvailability(a) == [a EXCEPT !.unavail = FALSE, !.next = 0, !.q = NoQuota]

Cooling(s) == s.unavail /\ s.next > now

\* Pauses that have passed are cleared while the states are read.
settled(s) == IF s.unavail /\ s.next # 0 /\ s.next <= now
              THEN [s EXCEPT !.unavail = FALSE, !.next = 0] ELSE s

\* Faulty variant: one cooling model makes the credential unavailable.
aggregateAny(a) ==
  LET ms == [m \in DOMAIN a.ms |-> settled(a.ms[m])]
      cooling == {m \in DOMAIN ms : Cooling(ms[m])}
  IN  IF credentialQuota(a) \/ DOMAIN ms = {} THEN a
      ELSE [a EXCEPT !.ms = ms, !.unavail = cooling # {},
                     !.next = IF cooling # {} THEN Min({ms[m].next : m \in cooling}) ELSE 0]

updateAggregatedAvailability(a) ==
  LET ms == [m \in DOMAIN a.ms |-> settled(a.ms[m])]
      all == \A m \in DOMAIN ms : Cooling(ms[m])
      exceeded == {m \in DOMAIN ms : ms[m].q.ex}
      recovers == {ms[m].q.rec : m \in exceeded} \ {0}
      q == CASE exceeded # {} ->
                  Quota(Max({a.q.rec} \union IF recovers = {} THEN {} ELSE {Min(recovers)}),
                        Max({ms[m].q.lvl : m \in exceeded}))
             [] exceeded = {} /\ a.q.ex /\ a.q.rec > now -> a.q
             [] OTHER -> NoQuota
  IN  CASE credentialQuota(a) -> [a EXCEPT !.unavail = TRUE]
        [] ~credentialQuota(a) /\ DOMAIN ms = {} -> clearAggregatedAvailability(a)
        [] OTHER -> [unavail |-> all,
                     next |-> IF all THEN Min({ms[m].next : m \in DOMAIN ms}) ELSE 0,
                     q |-> q, ms |-> ms]

ensureModelState(a, m) ==
  [a EXCEPT !.ms = [n \in DOMAIN a.ms \union {m} |-> IF n \in DOMAIN a.ms THEN a.ms[n] ELSE Clean]]

clearedState(s) ==
  IF s.unavail \/ s.next # 0 \/ s.q.ex \/ s.q.rec # 0
  THEN [s EXCEPT !.unavail = FALSE, !.next = 0, !.q = NoQuota] ELSE s

clearCooldownStateForAuth(a) ==
  LET b == [clearedState(a) EXCEPT !.ms = [m \in DOMAIN a.ms |-> clearedState(a.ms[m])]]
  IN  IF DOMAIN a.ms = {} THEN b ELSE updateAggregatedAvailability(b)

\* Faulty variant: every model waits as long as the credential, which may be in
\* the longer window of another model.
credentialScopeUniform(a, m) ==
  LET authNext == Max({a.ms[m].next, a.q.rec})
  IN  [unavail |-> TRUE, next |-> authNext,
       q |-> [a.q EXCEPT !.ex = TRUE, !.cred = TRUE, !.rec = authNext],
       ms |-> [n \in DOMAIN a.ms |->
                 [a.ms[n] EXCEPT !.unavail = TRUE, !.next = authNext,
                                 !.q = Quota(authNext, a.ms[m].q.lvl)]]]

\* A credential-wide quota failure: every model waits at least as long, and so
\* does the credential.
credentialScope(a, m) ==
  LET until == a.ms[m].next
      Spread(s) == LET t == IF s.q.ex THEN Max({until, s.q.rec}) ELSE until
                   IN  [s EXCEPT !.unavail = TRUE, !.next = t, !.q = Quota(t, a.ms[m].q.lvl)]
      authNext == Max({until, a.q.rec})
  IN  [unavail |-> TRUE, next |-> authNext,
       q |-> [a.q EXCEPT !.ex = TRUE, !.cred = TRUE, !.rec = authNext],
       ms |-> [n \in DOMAIN a.ms |-> IF n = m THEN a.ms[n] ELSE Spread(a.ms[n])]]

succeeded(a, m) ==
  IF a.q.cred /\ a.q.rec > now THEN a
  ELSE updateAggregatedAvailability([ensureModelState(a, m) EXCEPT !.ms[m] = Clean])

failed(a, m, f) ==
  LET b == ensureModelState(a, m)
      c == [b EXCEPT !.ms[m] = failedState(b.ms[m], f)]
  IN  updateAggregatedAvailability(
        IF f.kind = "quota" /\ f.scope /\ ~coolingOff(f) THEN credentialScope(c, m) ELSE c)

availabilityBlock(s) ==
  /\ s.unavail \/ s.q.ex
  /\ \/ s.next > now \/ s.q.rec > now
     \/ s.next = 0 /\ s.q.rec = 0

isAuthBlockedForModel(a, m) ==
  \/ credentialQuota(a)
  \/ IF DOMAIN a.ms = {} THEN availabilityBlock(a)
     ELSE m \in DOMAIN a.ms /\ availabilityBlock(a.ms[m])

-----------------------------------------------------------------------------
(***************************************************************************)
(* Records.                                                                *)
(***************************************************************************)
cooldownStateRecord(s, m, err) == [model |-> m, next |-> s.next, q |-> s.q, err |-> err]

cooldownStateRecords(a) ==
  IF ~config.cooling THEN {}
  ELSE {cooldownStateRecord(a.ms[m], m, a.ms[m].err) : m \in {n \in DOMAIN a.ms : Cooling(a.ms[n])}}
       \union (IF Cooling(a) THEN {cooldownStateRecord(a, Whole, "other")} ELSE {})

\* A window without an end lasts as long as the pause.
recordQuota(r) == [r.q EXCEPT !.rec = IF r.q.ex /\ @ = 0 THEN r.next ELSE @]

\* mergeModelState: the longer pause, the later recovery, the higher level.
mergeModelState(s, r) ==
  LET q == recordQuota(r)
  IN  [unavail |-> TRUE, next |-> Max({s.next, r.next}),
       q |-> [ex |-> s.q.ex \/ q.ex, cred |-> FALSE, rec |-> Max({s.q.rec, q.rec}),
              lvl |-> Max({s.q.lvl, q.lvl})],
       err |-> IF s.err # "none" THEN s.err ELSE r.err]

restoreCooldownRecord(a, r) ==
  LET b == ensureModelState(a, r.model)
  IN  IF r.next <= now \/ ~config.cooling THEN a
      ELSE IF r.model = Whole
      THEN [a EXCEPT !.unavail = TRUE, !.next = r.next, !.q = recordQuota(r)]
      ELSE updateAggregatedAvailability([b EXCEPT !.ms[r.model] = mergeModelState(b.ms[r.model], r)])

\* The record of a model, if the file has one.
restoreModel(a, recs, m) ==
  IF \E r \in recs : r.model = m
  THEN restoreCooldownRecord(a, CHOOSE r \in recs : r.model = m) ELSE a

\* Records of models come first, in the order of the file, which is theirs.
restored(a, recs) ==
  LET last == Max({Whole} \union {r.model : r \in recs})
      upTo[n \in 0 .. last] == IF n = 0 THEN a ELSE restoreModel(upTo[n - 1], recs, n)
  IN  restoreModel(upTo[last], recs, Whole)

-----------------------------------------------------------------------------
(***************************************************************************)
(* Results and time.                                                       *)
(***************************************************************************)
\* The save is asked for when the credential's records changed.
Result(a) ==
  /\ results < MaxResults
  /\ results' = results + 1
  /\ auth' = a
  /\ due' = IF store /\ cooldownStateRecords(a) # cooldownStateRecords(auth) THEN due + 1 ELSE due
  /\ stale' = stale \ {"manager"}
  /\ UNCHANGED <<now, config, store, disk, saver, loader, clone, registering, ops, unsaved>>

MarkSuccess(m) == Result(succeeded(auth, m)) /\ UNCHANGED <<granted, windows>>

\* History: a failure opens a quota window, or is a challenge.
opensWindow(s, f) ==
  /\ ~coolingOff(f)
  /\ \/ f.kind = "cloudflare"
     \/ f.kind = "quota" /\ f.after = 0 /\ s.q.rec <= now

\* History: the pause a failure calls for, if any.  One that finds the quota
\* window open, and names no pause, calls for none.
calledFor(s, f) ==
  LET rung == nextQuotaCooldown(s.q.lvl).pause
  IN  CASE f.kind = "unsupported" -> {LongPause}
        [] f.kind # "unsupported" /\ coolingOff(f) -> {}
        [] f.kind \in {"suspend", "unauthorized"} /\ ~coolingOff(f) -> {LongPause}
        [] f.kind = "transient" /\ ~coolingOff(f) ->
             IF Transient # 0 THEN {Transient} ELSE {p \in {ForcePause} : f.force}
        [] f.kind = "quota" /\ ~coolingOff(f) /\ f.after > 0 -> {f.after}
        [] f.kind = "quota" /\ ~coolingOff(f) /\ f.after = 0 -> {p \in {rung} : s.q.rec <= now}
        [] OTHER -> {Max({rung, CloudflareMin})}

\* A credential-wide quota failure calls for its deadline, or that of the window
\* it found, at every model.
MarkFailure(m, f) ==
  /\ Result(failed(auth, m, f))
  /\ LET s == IF m \in DOMAIN auth.ms THEN auth.ms[m] ELSE Clean
         deadlines == {now + p : p \in calledFor(s, f)}
         wide == f.kind = "quota" /\ f.scope /\ ~coolingOff(f)
     IN  /\ windows' = IF opensWindow(s, f) THEN windows + 1 ELSE windows
         /\ granted' = [n \in Places |->
              CASE wide -> granted[n] \union deadlines \union ({s.q.rec} \ 0 .. now)
                [] ~wide /\ n \in {m, Whole} -> granted[n] \union deadlines
                [] OTHER -> granted[n]]

Tick == /\ now < MaxTime
        /\ now' = now + 1
        /\ UNCHANGED <<auth, config, store, disk, due, saver, loader, clone, registering, results,
                       ops, unsaved, stale, granted, windows>>

-----------------------------------------------------------------------------
(***************************************************************************)
(* Saving.                                                                 *)
(***************************************************************************)
persistCooldownStates ==
  /\ due > 0
  /\ saver.pc = "free"
  /\ due' = due - 1
  /\ saver' = [Free EXCEPT !.pc = "held", !.by = "persist"]
  /\ UNCHANGED <<now, auth, config, store, disk, loader, clone, registering, results, ops, unsaved,
                 stale, granted, windows>>

\* History: what one place holds is copied to another.
Copied(from, to) == IF from \in stale THEN stale \union {to} ELSE stale \ {to}

\* What happens once the old store is written: a configuration change swaps it.
Release(ok) ==
  /\ saver' = Free
  /\ store' = IF saver.by = "apply" /\ ok THEN config.save ELSE store
  /\ loader' = IF saver.by = "apply" /\ ok /\ config.save THEN [Loaded EXCEPT !.pc = "load"] ELSE loader

cooldownStateRecordsSnapshot ==
  /\ saver.pc = "held"
  /\ IF store THEN /\ saver' = [pc |-> "write", by |-> saver.by, recs |-> cooldownStateRecords(auth)]
                   /\ unsaved' = FALSE
                   /\ stale' = Copied("manager", "save")
                   /\ UNCHANGED <<store, loader>>
     ELSE Release(TRUE) /\ UNCHANGED <<unsaved, stale>>
  /\ UNCHANGED <<now, auth, config, disk, due, clone, registering, results, ops, granted, windows>>

\* Faulty variant: nothing is written when no record is left.
SaveSomething(ok) ==
  /\ saver.pc = "write"
  /\ disk' = IF ok /\ saver.recs # {} THEN saver.recs ELSE disk
  /\ unsaved' = (unsaved \/ ~ok)
  /\ stale' = IF ok THEN Copied("save", "file") ELSE stale
  /\ Release(ok)
  /\ UNCHANGED <<now, auth, config, due, clone, registering, results, ops, granted, windows>>

\* The file is replaced by a rename, or removed when no record is left.
Save(ok) ==
  /\ saver.pc = "write"
  /\ disk' = IF ok THEN saver.recs ELSE disk
  /\ unsaved' = (unsaved \/ ~ok)
  /\ stale' = IF ok THEN Copied("save", "file") ELSE stale
  /\ Release(ok)
  /\ UNCHANGED <<now, auth, config, due, clone, registering, results, ops, granted, windows>>

-----------------------------------------------------------------------------
(***************************************************************************)
(* Other operations.                                                       *)
(***************************************************************************)
Operation == ops < MaxOps /\ ops' = ops + 1

ApplyConfigWithCooldownStateStore(c) ==
  /\ Operation
  /\ c # config
  /\ saver.pc = "free" /\ loader.pc = "idle"
  /\ config' = c
  /\ auth' = IF c.cooling THEN auth ELSE clearCooldownStateForAuth(auth)
  /\ saver' = [Free EXCEPT !.pc = "held", !.by = "apply"]
  /\ unsaved' = (unsaved \/ ~store)
  /\ UNCHANGED <<now, store, disk, due, loader, clone, registering, results, stale, granted, windows>>

\* RestoreCooldownStates reads the file with no lock held.
LoadRecords ==
  /\ loader.pc = "load"
  /\ loader' = [pc |-> "merge", recs |-> disk]
  /\ UNCHANGED <<now, auth, config, store, disk, due, saver, clone, registering, results, ops,
                 unsaved, stale, granted, windows>>

RestoreCooldownStates ==
  /\ loader.pc = "merge"
  /\ loader' = Loaded
  /\ auth' = restored(auth, loader.recs)
  /\ due' = IF loader.recs # {} THEN due + 1 ELSE due
  /\ unsaved' = (unsaved \/ loader.recs = {})
  /\ stale' = IF loader.recs # cooldownStateRecords(auth) THEN stale \union {"manager"} ELSE stale
  /\ UNCHANGED <<now, config, store, disk, saver, clone, registering, results, ops, granted, windows>>

\* A failing save of the credential ends it early.
ResetQuota(ok) ==
  /\ Operation
  /\ LET a == [auth EXCEPT !.ms = [m \in DOMAIN auth.ms |-> Clean]]
         b == clearCooldownStateForAuth(a)
     IN  /\ auth' = b
         /\ due' = IF ok /\ store /\ cooldownStateRecords(auth) # cooldownStateRecords(b)
                   THEN due + 1 ELSE due
  /\ unsaved' = (unsaved \/ ~ok)
  /\ UNCHANGED <<now, config, store, disk, saver, loader, clone, registering, results, stale, granted,
                 windows>>

\* Update: model states are kept when the new credential brings none, and so is
\* a credential-wide quota; only clearing them asks for a save.
kept(a) ==
  LET b == [a EXCEPT !.ms = IF DOMAIN a.ms = {} THEN auth.ms ELSE a.ms]
  IN  IF credentialQuota(auth)
      THEN [b EXCEPT !.unavail = auth.unavail, !.next = auth.next, !.q = auth.q] ELSE b

Update(a) ==
  LET b == kept(a)
      c == IF config.cooling THEN b ELSE clearCooldownStateForAuth(b)
  IN  /\ auth' = c
      /\ due' = IF c # b THEN due + 1 ELSE due
      /\ unsaved' = TRUE

\* The watcher found the file new or changed: the service reads the model states
\* the manager has, and then updates the credential with them.
prepareCoreAuth ==
  /\ \/ registering.pc = "update" /\ UNCHANGED ops
     \/ registering.pc = "no" /\ Operation
  /\ registering' = [pc |-> "write", ms |-> auth.ms]
  /\ UNCHANGED <<now, auth, config, store, disk, due, saver, loader, clone, results, unsaved, stale,
                 granted, windows>>

UpdateAuth ==
  /\ registering.pc = "write"
  /\ registering' = [pc |-> "models", ms |-> <<>>]
  /\ Update([FreshAuth EXCEPT !.ms = registering.ms])
  /\ UNCHANGED <<now, config, store, disk, saver, loader, clone, results, ops, stale, granted, windows>>

\* The registration that follows resets the models the credential has.
ReconcileRegistryModelStates ==
  /\ registering.pc = "models"
  /\ registering' = Registered
  /\ LET dirty == {m \in DOMAIN auth.ms : auth.ms[m] # Clean}
     IN  auth' = IF dirty = {} THEN auth
                 ELSE updateAggregatedAvailability([auth EXCEPT !.ms = [m \in DOMAIN auth.ms |-> Clean]])
  /\ unsaved' = TRUE
  /\ UNCHANGED <<now, config, store, disk, due, saver, loader, clone, results, ops, stale, granted, windows>>

BeginRefresh ==
  /\ Operation
  /\ clone = {}
  /\ clone' = {auth}
  /\ stale' = Copied("manager", "clone")
  /\ UNCHANGED <<now, auth, config, store, disk, due, saver, loader, registering, results, unsaved,
                 granted, windows>>

\* A refreshed credential replaces the manager's with what the clone held,
\* models that failed with 401 cleared.
EndRefresh(a) ==
  /\ a \in clone
  /\ clone' = {}
  /\ LET denied == {m \in DOMAIN a.ms : a.ms[m].err = "401"}
         b == [a EXCEPT !.unavail = FALSE,
                        !.ms = [m \in DOMAIN a.ms |-> IF m \in denied THEN Clean ELSE a.ms[m]]]
     IN  Update(IF denied = {} THEN b ELSE updateAggregatedAvailability(b))
  /\ stale' = IF "clone" \in stale THEN stale \union {"manager"} ELSE stale
  /\ UNCHANGED <<now, config, store, disk, saver, loader, registering, results, ops, granted, windows>>

RefreshUnauthorized ==
  /\ clone # {}
  /\ clone' = {}
  /\ auth' = [auth EXCEPT !.unavail = TRUE]
  /\ unsaved' = TRUE
  /\ UNCHANGED <<now, config, store, disk, due, saver, loader, registering, results, ops, stale, granted,
                 windows>>

\* The process ends; the next one loads credentials without states, restores
\* the records and saves them before it serves requests, and then the watcher
\* registers every credential.
Restart(ok) ==
  /\ Operation
  /\ LET a == IF config.save THEN restored(FreshAuth, disk) ELSE FreshAuth
     IN  /\ auth' = a
         /\ disk' = IF config.save /\ disk # {} /\ ok THEN cooldownStateRecords(a) ELSE disk
  /\ store' = config.save
  /\ due' = 0
  /\ saver' = Free
  /\ loader' = Loaded
  /\ clone' = {}
  /\ registering' = [Registered EXCEPT !.pc = "update"]
  /\ unsaved' = FALSE
  /\ stale' = {p \in {"manager", "file"} : "file" \in stale}
  /\ UNCHANGED <<now, config, results, granted, windows>>

-----------------------------------------------------------------------------
SaveStep == persistCooldownStates \/ cooldownStateRecordsSnapshot \/ \E ok \in BOOLEAN : Save(ok)

Next ==
  \/ \E m \in Models : MarkSuccess(m)
  \/ \E m \in Models, f \in Failures : MarkFailure(m, f)
  \/ Tick
  \/ SaveStep
  \/ \E c \in [cooling : BOOLEAN, save : BOOLEAN] : ApplyConfigWithCooldownStateStore(c)
  \/ LoadRecords \/ RestoreCooldownStates
  \/ \E ok \in BOOLEAN : ResetQuota(ok)
  \/ prepareCoreAuth \/ UpdateAuth \/ ReconcileRegistryModelStates
  \/ BeginRefresh \/ RefreshUnauthorized
  \/ \E a \in clone : EndRefresh(a)
  \/ \E ok \in BOOLEAN : Restart(ok)

Spec == Init /\ [][Next]_vars

-----------------------------------------------------------------------------
(***************************************************************************)
(* Properties.                                                             *)
(***************************************************************************)
MaxLevel == Max({0} \union {n + 1 : n \in {l \in 0 .. MaxResults : climbs(l)}})

Quotas == [ex : BOOLEAN, cred : BOOLEAN, rec : Nat, lvl : 0 .. MaxLevel]
Errors == {"none", "other", "401"}

\* The types of the variables; a back-off level never leaves the ladder.
TypeOK ==
  /\ now \in 1 .. MaxTime
  /\ DOMAIN auth.ms \subseteq Models
  /\ auth.unavail \in BOOLEAN /\ auth.next \in Nat /\ auth.q \in Quotas
  /\ \A m \in DOMAIN auth.ms : auth.ms[m] \in [unavail : BOOLEAN, next : Nat, q : Quotas, err : Errors]
  /\ \A r \in disk : r \in [model : Places, next : Nat, q : Quotas, err : Errors]
  /\ store \in BOOLEAN /\ due \in Nat
  /\ saver.pc \in {"free", "held", "write"} /\ loader.pc \in {"idle", "load", "merge"}

\* A quota window the records do not show to its end: the pause is shorter, or
\* the unavailability was taken back.
Hidden(s) == s.q.ex /\ s.q.rec > now /\ ~(s.unavail /\ s.next >= s.q.rec)

\* What the file would bring back after a restart is what the manager blocks
\* now, whatever results and saves overlapped - unless something changed the
\* states without a save (a refresh, an update, a registration, a failed save),
\* a quota window is hidden (a shorter failure followed the 429, or a refresh
\* wrote back a window that had been reset), or a denied refresh holds back a
\* credential without model states: that has no end, and so no record.
RestartKeepsBlocks ==
  (store /\ config.cooling /\ due = 0 /\ saver = Free /\ loader = Loaded /\ ~unsaved) =>
    \A m \in Models :
      \/ credentialQuota(auth) /\ Hidden(auth)
      \/ m \in DOMAIN auth.ms /\ Hidden(auth.ms[m])
      \/ DOMAIN auth.ms = {} /\ auth.unavail /\ auth.next = 0
      \/ isAuthBlockedForModel(auth, m) <=> isAuthBlockedForModel(restored(FreshAuth, disk), m)

\* Failures that arrive together climb the back-off ladder once per window:
\* no level, in memory or on disk, is higher than the windows that opened.
LadderCountsWindows ==
  /\ auth.q.lvl <= windows
  /\ \A m \in DOMAIN auth.ms : auth.ms[m].q.lvl <= windows
  /\ \A r \in disk : r.q.lvl <= windows

\* Spreading a credential-wide quota, aggregating, merging clones and restoring
\* the file never prolong a pause or give it to another model: every deadline of
\* a model is exactly one that a failure of that model, or a credential-wide one,
\* called for, and every deadline of the credential one that some failure did.
DeadlinesWereGranted ==
  /\ {auth.next, auth.q.rec} \subseteq granted[Whole]
  /\ \A m \in DOMAIN auth.ms : {auth.ms[m].next, auth.ms[m].q.rec} \subseteq granted[m]

\* The credential is held back as a whole only while every model it has a
\* state for is, unless what it holds goes back - directly, or through the file
\* or the clone of a refresh - to a reload that merged records which results
\* had overtaken.
CredentialPauseIsTotal ==
  (auth.unavail /\ auth.next > now /\ "manager" \notin stale) =>
    \A m \in DOMAIN auth.ms : isAuthBlockedForModel(auth, m)
=============================================================================
