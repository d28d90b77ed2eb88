------------------------------ MODULE AuthWatcher ------------------------------
(***************************************************************************)
(* The watcher that turns files, configuration and runtime connections     *)
(* into credential updates: internal/watcher (events, clients,             *)
(* config_reload, dispatcher) and the consumer in service_auth.go.         *)
(*                                                                         *)
(* Four kinds of goroutines change the shadow snapshot currentAuths under  *)
(* clientsMutex and hand the updates they computed to the dispatcher after *)
(* they released it: the event loop, configuration reloads, runtime        *)
(* providers and logins.  The dispatcher coalesces per credential, a       *)
(* bounded channel follows, and the service coalesces once more.           *)
(*                                                                         *)
(* A credential file holds one credential whose id is the file; its value  *)
(* is the content and the excluded models the configuration adds to it.    *)
(* Files and keys belong to one provider, the channels to another.         *)
(***************************************************************************)
EXTENDS Naturals, Sequences, FiniteSets, SequencesExt

CONSTANTS Files,       \* credential files in the auth directory
          Keys,        \* API keys the configuration can list
          Channels,    \* runtime providers (websocket connections)
          FirstFiles,  \* the ones that are there when the service starts
          Versions,    \* contents of a credential file
          Configs,     \* contents of the configuration file, loads says if it can be loaded
          FirstConfig, \* the one the service starts with
          Reloaders,   \* goroutines that can be reloading the configuration
          Starter,     \* the one that runs Watcher.Start first
          QueueCap,    \* capacity of Service.authUpdates
          MaxChanges   \* bound on changes made from outside

ASSUME WatcherAssumption ==
  /\ FirstFiles \subseteq Files
  /\ IsFiniteSet(Files) /\ IsFiniteSet(Keys) /\ IsFiniteSet(Channels)
  /\ Starter \in Reloaders /\ FirstConfig \in Configs /\ FirstConfig.loads
  /\ QueueCap \in Nat \ {0} /\ MaxChanges \in Nat
  /\ \A c \in Configs : c.keys \subseteq Keys /\ c.excluded # "raw" /\ c.loads \in BOOLEAN
  /\ Files \cap Keys = {} /\ Files \cap Channels = {} /\ Keys \cap Channels = {}
  /\ Versions \cap {"absent", "empty", "broken", "foreign", "none", "gone", "key", "ws"} = {}

VARIABLES
  files,       \* the directory: content of each file, or "absent"
  configFile,  \* content of the configuration file
  events,      \* file system events not handled yet: files and "config"
  changes,     \* changes made so far
  config, configHash,      \* Watcher.config, lastConfigHash
  timer,       \* configReloadTimer is armed
  hashes,      \* lastAuthHashes, "none" where a file has no entry
  fileAuths,   \* files with an entry in fileAuthsByPath
  recent,      \* lastRemoveTimes: files a removal was handled of
  current,     \* currentAuths
  runtime,     \* runtimeAuths
  ev,          \* the event goroutine: [pc, file, data, cfg, known, ups]
  rl,          \* reloads: [pc, start, cfg, affected, force, scan, ups]
  calls,       \* runtime and login goroutines: [n, pc, id, val]
  pending,     \* pendingUpdates in the order of pendingOrder
  queue,       \* Service.authUpdates, and behind it the batch dispatchLoop sends
  applied,     \* the credentials of the manager
  odd          \* history: how credentials may have gone astray

diskVars == <<files, configFile, events, changes>>
configVars == <<config, configHash, timer>>
shadowVars == <<hashes, fileAuths, recent, current, runtime>>
actorVars == <<ev, rl, calls>>
queueVars == <<pending, queue, applied>>
vars == <<diskVars, configVars, shadowVars, actorVars, queueVars, odd>>

Ids == Files \union Keys \union Channels

\* A file may be absent or empty, no JSON, or JSON that no provider makes a
\* credential of.
Contents == Versions \union {"absent", "empty", "broken", "foreign"}
Parses(content) == content \in Versions \union {"foreign"}

\* A credential; x is the list of excluded models, "raw" if none was applied.
Gone == [v |-> "gone", x |-> "raw"]
Raw(v) == [v |-> v, x |-> "raw"]
SynthesizeAuthFile(c, content) ==
  IF content \in Versions THEN [v |-> content, x |-> c.excluded] ELSE Gone

\* Updates under way are sequences of [id, val].
Update(i, val) == [id |-> i, val |-> val]
Mentions(ups, i) == \E n \in DOMAIN ups : ups[n].id = i
Mentioned(ups) == {ups[n].id : n \in DOMAIN ups}

EvIdle == [pc |-> "idle", file |-> "none", data |-> "none", cfg |-> {}, known |-> FALSE, ups |-> <<>>]
RlIdle == [pc |-> "idle", start |-> FALSE, cfg |-> {}, affected |-> FALSE, force |-> FALSE,
           scan |-> <<>>, ups |-> <<>>]

\* The service has loaded files and keys; the watcher starts with no snapshot.
Init ==
  /\ files \in {d \in [Files -> Versions \union {"absent"}] :
                 \A f \in Files : f \in FirstFiles <=> d[f] # "absent"}
  /\ configFile = FirstConfig
  /\ events = <<>>
  /\ changes = 0
  /\ config = configFile
  /\ configHash = {}
  /\ timer = FALSE
  /\ hashes = [f \in Files |-> "none"]
  /\ fileAuths = {}
  /\ recent = {}
  /\ current = [i \in Ids |-> Gone]
  /\ runtime = {}
  /\ ev = EvIdle
  /\ rl = [r \in Reloaders |-> IF r = Starter THEN [RlIdle EXCEPT !.pc = "filter", !.start = TRUE]
                               ELSE RlIdle]
  /\ calls = {}
  /\ pending = <<>>
  /\ queue = <<>>
  /\ applied = [i \in Ids |-> CASE i \in Files /\ files[i] \in Versions -> Raw(files[i])
                                [] i \in configFile.keys -> Raw("key")
                                [] OTHER -> Gone]
  /\ odd = [untold |-> {i \in Ids : applied[i] # Gone}, crossed |-> {}, stale |-> {},
            missed |-> {}, lost |-> FALSE]

-----------------------------------------------------------------------------
(***************************************************************************)
(* The outside world.  Every change of a file is notified.                 *)
(***************************************************************************)
Change == changes < MaxChanges /\ changes' = changes + 1

WriteFile(f, content) ==
  /\ Change
  /\ files[f] # content
  /\ files' = [files EXCEPT ![f] = content]
  /\ events' = Append(events, [kind |-> IF content = "absent" THEN "remove" ELSE "write",
                               file |-> f])
  /\ UNCHANGED <<configFile, configVars, shadowVars, actorVars, queueVars, odd>>

\* The management API calls ReloadConfigIfChanged after it wrote the file.
WriteConfig(c, managed) ==
  /\ Change
  /\ configFile # c
  /\ configFile' = c
  /\ events' = Append(events, [kind |-> "config", file |-> "none"])
  /\ calls' = IF managed THEN calls \union {[n |-> changes, pc |-> "reload", id |-> "none", val |-> Gone]}
              ELSE calls
  /\ UNCHANGED <<files, configVars, shadowVars, ev, rl, queueVars, odd>>

-----------------------------------------------------------------------------
(***************************************************************************)
(* Updates between clientsMutex and dispatchMu.                            *)
(***************************************************************************)
InFlight(i) ==
  \/ Mentions(ev.ups, i)
  \/ \E r \in Reloaders : Mentions(rl[r].ups, i)
  \/ \E c \in calls : c.pc = "dispatch" /\ c.id = i

\* History of a step that changes the snapshot and produces ups: an update of
\* a credential that already has one in flight may be overtaken by it.
Produced(o, ups) ==
  LET ids == Mentioned(ups)
  IN  [o EXCEPT !.untold = @ \ ids, !.crossed = (@ \ ids) \union {i \in ids : InFlight(i)}]

\* What a file's credential was made from is not what the hash table says, so
\* the event of the newest content may be taken for a repetition.
Marked(o, astray, fits) == [o EXCEPT !.stale = (@ \ fits) \union astray]

HashOf(content) == IF content \in {"absent", "empty"} THEN "none" ELSE content

\* pendingUpdates and pendingOrder: an update takes the place of the one that
\* waits for the same credential.
enqueuePending(q, u) ==
  IF Mentions(q, u.id) THEN [n \in DOMAIN q |-> IF q[n].id = u.id THEN u ELSE q[n]]
  ELSE Append(q, u)

enqueueAll(q, ups) ==
  LET upTo[n \in 0 .. Len(ups)] == IF n = 0 THEN q ELSE enqueuePending(upTo[n - 1], ups[n])
  IN  upTo[Len(ups)]

dispatchAuthUpdates(ups) == pending' = enqueueAll(pending, ups)

-----------------------------------------------------------------------------
(***************************************************************************)
(* The event goroutine.  It holds authRescanMu from the event to the       *)
(* dispatch.                                                               *)
(***************************************************************************)
\* addOrUpdateClientLocked up to its first unlock; authFileUnchanged made the
\* same comparison just before.  A file that is empty or no JSON is ignored.
addOrUpdateClientLocked(f) ==
  /\ LET data == files[f]
     IN  IF Parses(data) /\ hashes[f] # data
         THEN /\ hashes' = [hashes EXCEPT ![f] = data]
              /\ ev' = [EvIdle EXCEPT !.pc = "commit", !.file = f, !.data = data, !.cfg = config,
                                      !.known = f \in fileAuths]
         ELSE ev' = EvIdle /\ UNCHANGED hashes
  /\ odd' = IF Parses(files[f]) THEN [odd EXCEPT !.missed = @ \ {f}] ELSE odd
  /\ UNCHANGED <<fileAuths, current>>

\* A configuration event arms the timer.
handleConfigEvent ==
  /\ ev.pc = "idle"
  /\ events # <<>> /\ Head(events).kind = "config"
  /\ events' = Tail(events)
  /\ timer' = TRUE
  /\ UNCHANGED <<files, configFile, changes, config, configHash, shadowVars, actorVars, queueVars,
                 odd>>

\* A removal less than authRemoveDebounceWindow after the last one is dropped;
\* whether it is that early is open.  Otherwise the goroutine sleeps.
handleRemoveEvent(early) ==
  /\ ev.pc = "idle"
  /\ events # <<>> /\ Head(events).kind = "remove"
  /\ events' = Tail(events)
  /\ LET f == Head(events).file
     IN  IF early
         THEN /\ f \in recent
              /\ odd' = [odd EXCEPT !.missed = @ \union {f}]
              /\ UNCHANGED <<recent, ev>>
         ELSE /\ recent' = recent \union {f}
              /\ ev' = [EvIdle EXCEPT !.pc = "sleep", !.file = f]
              /\ UNCHANGED odd
  /\ UNCHANGED <<files, configFile, changes, configVars, hashes, fileAuths, current, runtime, rl,
                 calls, queueVars>>

handleWriteEvent ==
  /\ ev.pc = "idle"
  /\ events # <<>> /\ Head(events).kind = "write"
  /\ events' = Tail(events)
  /\ addOrUpdateClientLocked(Head(events).file)
  /\ UNCHANGED <<files, configFile, changes, configVars, recent, runtime, rl, calls, queueVars>>

\* The rest of it: the file is synthesized with the configuration read before.
\* A credential it no longer holds is deleted if it was known before.
computePerPathUpdatesLocked ==
  /\ ev.pc = "commit"
  /\ LET f == ev.file
         new == SynthesizeAuthFile(ev.cfg, ev.data)
         same == IF new = Gone THEN ~ev.known ELSE current[f] = new
         ups == IF same THEN <<>> ELSE <<Update(f, new)>>
     IN  /\ fileAuths' = IF new = Gone THEN fileAuths \ {f} ELSE fileAuths \union {f}
         /\ current' = IF same THEN current ELSE [current EXCEPT ![f] = new]
         /\ ev' = [ev EXCEPT !.pc = "dispatch", !.ups = ups]
         /\ LET fits == current'[f] = SynthesizeAuthFile(config, ev.data)
            IN  odd' = Marked(Produced(odd, ups), IF fits THEN {} ELSE {f}, {f})
  /\ UNCHANGED <<diskVars, configVars, hashes, recent, runtime, rl, calls, queueVars>>

removeClientLocked(f) ==
  /\ hashes' = [hashes EXCEPT ![f] = "none"]
  /\ fileAuths' = fileAuths \ {f}
  /\ LET ups == IF f \in fileAuths THEN <<Update(f, Gone)>> ELSE <<>>
     IN  /\ current' = IF f \in fileAuths THEN [current EXCEPT ![f] = Gone] ELSE current
         /\ ev' = [EvIdle EXCEPT !.pc = "dispatch", !.ups = ups]
         /\ odd' = [Marked(Produced(odd, ups), {}, {f} \cap fileAuths) EXCEPT !.missed = @ \ {f}]

\* After the sleep: a file that is there again is an update, a removal needs a
\* known file.
handleReplace ==
  /\ ev.pc = "sleep"
  /\ LET f == ev.file
     IN  CASE files[f] # "absent" -> addOrUpdateClientLocked(f)
           [] files[f] = "absent" /\ hashes[f] # "none" -> removeClientLocked(f)
           [] OTHER -> ev' = EvIdle /\ UNCHANGED <<hashes, fileAuths, current, odd>>
  /\ UNCHANGED <<diskVars, configVars, recent, runtime, rl, calls, queueVars>>

dispatchEvent ==
  /\ ev.pc = "dispatch"
  /\ dispatchAuthUpdates(ev.ups)
  /\ ev' = EvIdle
  /\ UNCHANGED <<diskVars, configVars, shadowVars, rl, calls, queue, applied, odd>>

-----------------------------------------------------------------------------
(***************************************************************************)
(* Reloads: Start, the debounce timer and the management hook.             *)
(***************************************************************************)
reload(r, pc) == rl' = [rl EXCEPT ![r].pc = pc]

configUnchanged == configHash = {configFile}

\* The hash check reads the file ...
reloadConfigIfChanged(r) ==
  /\ rl[r].pc = "idle"
  /\ rl' = IF configUnchanged THEN rl ELSE [rl EXCEPT ![r].pc = "load"]

reloadTimer(r) ==
  /\ timer
  /\ timer' = FALSE
  /\ reloadConfigIfChanged(r)
  /\ UNCHANGED <<diskVars, config, configHash, shadowVars, ev, calls, queueVars, odd>>

ReloadConfigIfChanged(c, r) ==
  /\ c \in calls
  /\ c.pc = "reload"
  /\ calls' = calls \ {c}
  /\ reloadConfigIfChanged(r)
  /\ UNCHANGED <<diskVars, configVars, shadowVars, ev, queueVars, odd>>

\* ... and LoadConfig reads it again.  When that fails no hash is recorded.
loadConfig(r) ==
  /\ rl[r].pc = "load"
  /\ rl' = IF configFile.loads THEN [rl EXCEPT ![r].pc = "set", ![r].cfg = configFile]
           ELSE [rl EXCEPT ![r].pc = "idle"]
  /\ UNCHANGED <<diskVars, configVars, shadowVars, ev, calls, queueVars, odd>>

reloadConfig(r) ==
  /\ rl[r].pc = "set"
  /\ config' = rl[r].cfg
  /\ rl' = [rl EXCEPT ![r].pc = "filter",
                      ![r].affected = config.excluded # rl[r].cfg.excluded,
                      ![r].force = config.retry # rl[r].cfg.retry]
  /\ UNCHANGED <<diskVars, configHash, timer, shadowVars, ev, calls, queueVars, odd>>

\* reloadClients forgets the credentials of providers whose exclusions changed,
\* so that the refresh sends them again.
reloadClients(r) ==
  /\ rl[r].pc = "filter"
  /\ LET dropped == IF rl[r].affected
                    THEN {i \in Files \union Keys : current[i] # Gone} ELSE {}
     IN  /\ current' = [i \in Ids |-> IF i \in dropped THEN Gone ELSE current[i]]
         /\ odd' = [odd EXCEPT !.untold = @ \union dropped]
  /\ reload(r, IF rl[r].start THEN "rescan" ELSE "scan")
  /\ UNCHANGED <<diskVars, configVars, hashes, fileAuths, recent, runtime, ev, calls, queueVars>>

\* Only Start rescans; it waits for the event goroutine.
rescanAuth(r) ==
  /\ rl[r].pc = "rescan"
  /\ ev.pc = "idle"
  /\ hashes' = [f \in Files |-> HashOf(files[f])]
  /\ fileAuths' = {f \in Files : files[f] \in Versions}
  /\ reload(r, "scan")
  /\ UNCHANGED <<diskVars, configVars, recent, current, runtime, ev, calls, queueVars, odd>>

\* The server has taken the configuration; refreshAuthState reads the current
\* one and the files, with no lock held.
snapshotCoreAuths(r) ==
  /\ rl[r].pc = "scan"
  /\ rl' = [rl EXCEPT ![r].pc = "prepare", ![r].cfg = config, ![r].scan = files]
  /\ UNCHANGED <<diskVars, configVars, shadowVars, ev, calls, queueVars, odd>>

\* Faulty variant: runtime credentials are not added to the scan.
newStateScanned(r) ==
  [i \in Ids |-> CASE i \in Files -> SynthesizeAuthFile(rl[r].cfg, rl[r].scan[i])
                   [] i \in rl[r].cfg.keys -> Raw("key")
                   [] OTHER -> Gone]

newState(r) ==
  [i \in Ids |-> CASE i \in Files -> SynthesizeAuthFile(rl[r].cfg, rl[r].scan[i])
                   [] i \in rl[r].cfg.keys \/ i \in runtime -> Raw(IF i \in Keys THEN "key" ELSE "ws")
                   [] OTHER -> Gone]

prepareAuthUpdatesLocked(r) ==
  /\ rl[r].pc = "prepare"
  /\ LET new == newState(r)
         changed == {i \in Ids : new[i] # current[i] \/ (rl[r].force /\ new[i] # Gone)}
         ups == LET order == SetToSeq(changed)
                IN  [n \in DOMAIN order |-> Update(order[n], new[order[n]])]
         fits == {i \in Files \union Keys :
                    /\ rl[r].cfg = config
                    /\ i \in Files => hashes[i] = HashOf(rl[r].scan[i])}
     IN  /\ current' = new
         /\ rl' = [rl EXCEPT ![r].pc = "dispatch", ![r].ups = ups]
         /\ odd' = Marked(Produced(odd, ups), (Files \union Keys) \ fits, fits)
  /\ UNCHANGED <<diskVars, configVars, hashes, fileAuths, recent, runtime, ev, calls, queueVars>>

dispatchRefresh(r) ==
  /\ rl[r].pc = "dispatch"
  /\ dispatchAuthUpdates(rl[r].ups)
  /\ rl' = [rl EXCEPT ![r] = IF rl[r].start THEN RlIdle ELSE [RlIdle EXCEPT !.pc = "hash"]]
  /\ UNCHANGED <<diskVars, configVars, shadowVars, ev, calls, queue, applied, odd>>

\* The hash recorded is that of the file as it is after the reload.
recordConfigHash(r) ==
  /\ rl[r].pc = "hash"
  /\ configHash' = {configFile}
  /\ odd' = [odd EXCEPT !.lost = configFile # config]
  /\ rl' = [rl EXCEPT ![r] = RlIdle]
  /\ UNCHANGED <<diskVars, config, timer, shadowVars, ev, calls, queueVars>>

-----------------------------------------------------------------------------
(***************************************************************************)
(* Goroutines of runtime providers and of logins.                          *)
(***************************************************************************)
dispatchRuntimeAuthUpdate(c) ==
  /\ Change
  /\ LET val == IF c \in runtime THEN Gone ELSE Raw("ws")
     IN  /\ runtime' = IF c \in runtime THEN runtime \ {c} ELSE runtime \union {c}
         /\ current' = [current EXCEPT ![c] = val]
         /\ calls' = calls \union {[n |-> changes, pc |-> "dispatch", id |-> c, val |-> val]}
         /\ odd' = Produced(odd, <<Update(c, val)>>)
  /\ UNCHANGED <<files, configFile, events, configVars, hashes, fileAuths, recent, ev, rl,
                 queueVars>>

\* A login saves its file and then calls the hook.
saveTokenRecord(f, content) ==
  /\ Change
  /\ files[f] # content
  /\ files' = [files EXCEPT ![f] = content]
  /\ events' = Append(events, [kind |-> "write", file |-> f])
  /\ calls' = calls \union {[n |-> changes, pc |-> "hook", id |-> f, val |-> Raw(content)]}
  /\ UNCHANGED <<configFile, configVars, shadowVars, ev, rl, queueVars, odd>>

\* The hook stores the credential as it was saved, without a hash.
dispatchPersistedAuthUpdate(c) ==
  /\ c \in calls
  /\ c.pc = "hook"
  /\ fileAuths' = fileAuths \union {c.id}
  /\ current' = [current EXCEPT ![c.id] = c.val]
  /\ calls' = (calls \ {c}) \union {[c EXCEPT !.pc = "dispatch"]}
  /\ odd' = Marked(Produced(odd, <<Update(c.id, c.val)>>), {c.id}, {})
  /\ UNCHANGED <<diskVars, configVars, hashes, recent, runtime, ev, rl, queueVars>>

dispatchCall(c) ==
  /\ c \in calls
  /\ c.pc = "dispatch"
  /\ dispatchAuthUpdates(<<Update(c.id, c.val)>>)
  /\ calls' = calls \ {c}
  /\ UNCHANGED <<diskVars, configVars, shadowVars, ev, rl, queue, applied, odd>>

-----------------------------------------------------------------------------
(***************************************************************************)
(* The dispatcher and the consumer.                                        *)
(***************************************************************************)
\* dispatchLoop takes the next batch once the last one fits into the channel.
nextPendingBatch ==
  /\ pending # <<>>
  /\ Len(queue) <= QueueCap
  /\ queue' = queue \o pending
  /\ pending' = <<>>
  /\ UNCHANGED <<diskVars, configVars, shadowVars, actorVars, applied, odd>>

\* Faulty variant: of several updates of a credential the first one is kept.
coalesceFirst(ups, i) == ups[CHOOSE n \in DOMAIN ups : /\ ups[n].id = i
                                                       /\ \A m \in DOMAIN ups : ups[m].id = i => n <= m]

coalesceAuthUpdates(ups, i) == ups[CHOOSE n \in DOMAIN ups : /\ ups[n].id = i
                                                             /\ \A m \in DOMAIN ups : ups[m].id = i => m <= n]

\* consumeAuthUpdates drains what has reached the channel, n updates, and
\* applies the last one of each credential.  Only it changes the manager here,
\* so draining and applying are one step.
handleAuthUpdates(n) ==
  /\ n \in DOMAIN queue
  /\ LET ups == SubSeq(queue, 1, n)
     IN  applied' = [i \in Ids |-> IF Mentions(ups, i) THEN coalesceAuthUpdates(ups, i).val
                                   ELSE applied[i]]
  /\ queue' = SubSeq(queue, n + 1, Len(queue))
  /\ UNCHANGED <<diskVars, configVars, shadowVars, actorVars, pending, odd>>

-----------------------------------------------------------------------------
Environment ==
  \/ \E f \in Files, content \in Contents : WriteFile(f, content)
  \/ \E c \in Configs, managed \in BOOLEAN : WriteConfig(c, managed)
  \/ \E c \in Channels : dispatchRuntimeAuthUpdate(c)
  \/ \E f \in Files, content \in Versions : saveTokenRecord(f, content)

EventStep ==
  \/ handleConfigEvent \/ handleWriteEvent \/ \E early \in BOOLEAN : handleRemoveEvent(early)
  \/ handleReplace \/ computePerPathUpdatesLocked \/ dispatchEvent

ReloadStep(r) ==
  \/ loadConfig(r) \/ reloadConfig(r) \/ reloadClients(r) \/ rescanAuth(r)
  \/ snapshotCoreAuths(r) \/ prepareAuthUpdatesLocked(r) \/ dispatchRefresh(r)
  \/ recordConfigHash(r)

CallStep ==
  \E c \in calls : \/ dispatchPersistedAuthUpdate(c) \/ dispatchCall(c)
                   \/ \E r \in Reloaders : ReloadConfigIfChanged(c, r)

ConsumerStep == \E n \in DOMAIN queue : handleAuthUpdates(n)

TimerStep == \E r \in Reloaders : reloadTimer(r)

Next ==
  \/ Environment \/ EventStep \/ CallStep \/ nextPendingBatch \/ ConsumerStep \/ TimerStep
  \/ \E r \in Reloaders : ReloadStep(r)

Spec == Init /\ [][Next]_vars

-----------------------------------------------------------------------------
(***************************************************************************)
(* Properties.                                                             *)
(***************************************************************************)
Values == [v : Versions \union {"gone", "key", "ws"},
           x : {c.excluded : c \in Configs} \union {"raw"}]

Updates == [id : Ids, val : Values]

\* The types of the variables; a credential has at most one pending update.
TypeOK ==
  /\ files \in [Files -> Contents]
  /\ configFile \in Configs /\ config \in Configs /\ configHash \subseteq Configs
  /\ changes \in 0 .. MaxChanges
  /\ hashes \in [Files -> Versions \union {"none", "broken", "foreign"}]
  /\ fileAuths \subseteq Files /\ recent \subseteq Files /\ runtime \subseteq Channels
  /\ current \in [Ids -> Values] /\ applied \in [Ids -> Values]
  /\ ev.pc \in {"idle", "sleep", "commit", "dispatch"}
  /\ \A r \in Reloaders : rl[r].pc \in {"idle", "load", "set", "filter", "rescan", "scan", "prepare",
                                         "dispatch", "hash"}
  /\ pending \in Seq(Updates) /\ queue \in Seq(Updates)
  /\ \A m, n \in DOMAIN pending : pending[m].id = pending[n].id => m = n

Latest(i) ==
  LET s == queue \o pending
  IN  IF Mentions(s, i) THEN coalesceAuthUpdates(s, i).val ELSE applied[i]

\* Coalescing in pendingUpdates, the batch, the channel and the consumer never
\* lets an older update win: the newest of what is on its way, or the manager's
\* credential if nothing is, is what currentAuths says - unless two updates of
\* the credential were between clientsMutex and dispatchMu at once, or the
\* watcher dropped its entry without an update (reloadClients, Start).  The
\* variables keep their types, and a credential has one pending update at most.
LatestIsCurrent ==
  /\ TypeOK
  /\ \A i \in Ids \ (odd.crossed \union odd.untold) : ~InFlight(i) => Latest(i) = current[i]

Rest ==
  /\ events = <<>> /\ ev.pc = "idle" /\ ~timer /\ calls = {}
  /\ \A r \in Reloaders : rl[r].pc = "idle"
  /\ pending = <<>> /\ queue = <<>>

\* A configuration file that cannot be loaded leaves the one in force.
Wanted == IF configFile.loads THEN configFile ELSE config

Desired(i) ==
  CASE i \in Files -> SynthesizeAuthFile(Wanted, files[i])
    [] i \in Wanted.keys -> Raw("key")
    [] i \in runtime -> Raw("ws")
    [] OTHER -> Gone

Astray(i) ==
  \/ i \in odd.crossed \union odd.untold \union odd.stale \union odd.missed
  \/ odd.lost /\ i \notin Channels
  \/ i \in Files /\ files[i] \in {"empty", "broken"}

\* When everything has come to rest the manager has exactly the credentials
\* that files, configuration and connections call for.  The exceptions are the
\* only ways to diverge: updates that crossed, an entry dropped without an
\* update, a credential made from a content or configuration that is not the
\* one last recorded, a debounced removal, a configuration written while its
\* predecessor was being loaded, and a file that is empty or no JSON, which is
\* ignored until the directory is scanned again.
SettledIsDesired == Rest => \A i \in Ids : Astray(i) \/ applied[i] = Desired(i)
=============================================================================
