---------------------------- MODULE CredentialSync ----------------------------
(***************************************************************************)
(* How the credential manager keeps the scheduler in step:                 *)
(* sdk/cliproxy/auth/conductor_*.go, service_auth.go and service_models.go.*)
(*                                                                         *)
(* The manager changes a credential under its own lock, clones it, unlocks *)
(* and then hands the clone to the scheduler, which has another lock and   *)
(* reads the models of the credential from the global model registry at    *)
(* that moment.  Results of requests (MarkResult), deletions through the   *)
(* management API, the service's add, update and delete, and the resync of *)
(* a failing pick do this concurrently, so clones may arrive out of order  *)
(* and after the credential is gone.  What Register and Update hand over   *)
(* is no clone but the object the manager keeps: until a clone takes its   *)
(* place there, the scheduler sees what MarkResult does to it.  What a     *)
(* pick answers is ModelShard's matter; here last does not change.         *)
(***************************************************************************)
EXTENDS ModelShard

CONSTANTS MaxCalls,          \* bound on clones under way from request goroutines
          MaxUpdates,        \* bound on updates of the service
          Outcomes,          \* [block, wide]: the results of requests
          PickRequests       \* the requests that pick

ASSUME SyncBoundsAssumption ==
  /\ MaxCalls \in Nat /\ MaxUpdates \in Nat
  /\ PickRequests \subseteq Requests
  /\ \A o \in Outcomes : o.block \in {"none", "quota", "failed"} /\ (o.wide => o.block = "quota")

VARIABLES
  auths,       \* Manager.auths, a partial function on Ids
  registered,  \* clients with models in the global model registry
  calls,       \* upserts and removals under way: [op, id, auth]
  metas,       \* providerScheduler.auths: [auth, supports]
  built,       \* the model shard exists
  shared,      \* credentials whose object is both the manager's and the scheduler's
  svc,         \* the service goroutine: [pc, id, auth]
  updates,     \* updates of the service so far
  picker,      \* a request picking: [pc, req, auths]
  erased       \* history: credentials management deleted, not added since

managerVars == <<auths, registered, erased>>
schedulerVars == <<metas, built, shared, entries, index>>
actorVars == <<calls, svc, updates, picker>>
syncVars == <<now, last, managerVars, schedulerVars, actorVars>>

Disabled(a) == a.block = "disabled"
Fresh(p) == [prio |-> p, ws |-> FALSE, cred |-> 0, block |-> "none", until |-> 0]
Switched(a) == [a EXCEPT !.block = "disabled", !.until = 0, !.cred = 0]

\* A credential-wide quota that is over is forgotten with the next change.
OpenQuota(a) == IF a.cred > now THEN a.cred ELSE 0
Clean(a) == [a EXCEPT !.block = "none", !.until = 0, !.cred = OpenQuota(a)]

IdleService == [pc |-> "idle", id |-> 0, auth |-> {}]
IdlePicker == [pc |-> "idle", req |-> {}, auths |-> <<>>]

SyncInit ==
  /\ Init
  /\ auths = <<>>
  /\ registered = {}
  /\ erased = {}
  /\ calls = {}
  /\ metas = <<>>
  /\ built = FALSE
  /\ shared = {}
  /\ svc = IdleService
  /\ updates = 0
  /\ picker = IdlePicker

-----------------------------------------------------------------------------
(***************************************************************************)
(* The scheduler, one step each.                                           *)
(***************************************************************************)
removeAuthLocked(i) ==
  /\ metas' = without(metas, i)
  /\ LET s == removeEntryLocked(entries, index, i)
     IN  entries' = s.entries /\ index' = s.index
  /\ UNCHANGED built

\* The manager changes its object of a credential in place.
mutate(i, a) ==
  /\ auths' = with(auths, i, a)
  /\ metas' = [j \in DOMAIN metas |->
                 IF j = i /\ i \in shared THEN [metas[j] EXCEPT !.auth = a] ELSE metas[j]]
  /\ entries' = [j \in DOMAIN entries |->
                   IF j = i /\ i \in shared THEN [entries[j] EXCEPT !.auth = a] ELSE entries[j]]
  /\ UNCHANGED <<built, shared, index>>

\* Faulty variant: entries of models that are gone are kept.
upsertAuthKeepsUnsupported(i, a) ==
  IF Disabled(a)
  THEN removeAuthLocked(i)
  ELSE /\ metas' = with(metas, i, [auth |-> a, supports |-> i \in registered])
       /\ LET s == IF built /\ i \in registered
                   THEN upsertEntryLocked(entries, index, i, a, now)
                   ELSE [entries |-> entries, index |-> index]
          IN  entries' = s.entries /\ index' = s.index
       /\ UNCHANGED built

upsertAuthLocked(i, a) ==
  IF Disabled(a)
  THEN removeAuthLocked(i)
  ELSE /\ metas' = with(metas, i, [auth |-> a, supports |-> i \in registered])
       /\ LET s == CASE built /\ i \in registered ->
                          upsertEntryLocked(entries, index, i, a, now)
                     [] built /\ i \notin registered -> removeEntryLocked(entries, index, i)
                     [] OTHER -> [entries |-> entries, index |-> index]
          IN  entries' = s.entries /\ index' = s.index
       /\ UNCHANGED built

rebuild(snapshot) ==
  /\ metas' = [i \in {j \in DOMAIN snapshot : ~Disabled(snapshot[j])} |->
                 [auth |-> snapshot[i], supports |-> i \in registered]]
  /\ built' = FALSE
  /\ entries' = <<>>
  /\ index' = EmptyIndex

\* The shard a pick works on: built from the metas the first time.
ensureModelLocked ==
  LET E == [i \in {j \in DOMAIN metas : metas[j].supports} |-> scheduledAuth(metas[i].auth, now)]
  IN  IF built
      THEN [entries |-> entries, index |-> index]
      ELSE [entries |-> E, index |-> rebuildIndexesLocked(E, EmptyIndex)]

-----------------------------------------------------------------------------
(***************************************************************************)
(* Requests: results, and the picks with their resync.                     *)
(***************************************************************************)
\* Success clears the block, unless a quota holds for the whole credential; a
\* failure sets a block that ends later, for the whole credential if it is wide.
resulting(a, o) ==
  CASE o.block = "none" /\ a.cred > now -> a
    [] o.block = "none" /\ a.cred <= now -> Clean(a)
    [] OTHER -> [a EXCEPT !.block = o.block, !.until = now + 1,
                          !.cred = IF o.wide THEN now + 1 ELSE OpenQuota(a)]

MarkResult(i, o) ==
  /\ i \in DOMAIN auths
  /\ ~Disabled(auths[i])
  /\ Cardinality(calls) < MaxCalls
  /\ o.block = "none" \/ now < MaxTime
  /\ LET a == resulting(auths[i], o)
     IN  /\ mutate(i, a)
         /\ calls' = calls \union {[op |-> "upsert", id |-> i, auth |-> a]}
         /\ svc' = IF svc.pc = "upsert" /\ svc.id = i THEN [svc EXCEPT !.auth = a] ELSE svc
  /\ UNCHANGED <<now, last, registered, erased, updates, picker>>

\* The result of a request whose credential was disabled meanwhile.
MarkResultDisabled(i) ==
  /\ i \in DOMAIN auths
  /\ Disabled(auths[i])
  /\ Cardinality(calls) < MaxCalls
  /\ calls' = calls \union {[op |-> "upsert", id |-> i, auth |-> auths[i]]}
  /\ UNCHANGED <<now, last, managerVars, schedulerVars, svc, updates, picker>>

\* Manager.Remove on a management goroutine; the scheduler follows later.
ManagementRemove(i) ==
  /\ i \in DOMAIN auths
  /\ auths' = without(auths, i)
  /\ erased' = erased \union {i}
  /\ shared' = shared \ {i}
  /\ calls' = calls \union {[op |-> "remove", id |-> i, auth |-> auths[i]]}
  /\ UNCHANGED <<now, last, registered, metas, built, entries, index, svc, updates, picker>>

\* A goroutine reaches the scheduler.
Deliver(c) ==
  /\ c \in calls
  /\ calls' = calls \ {c}
  /\ IF c.op = "upsert" THEN upsertAuthLocked(c.id, c.auth) ELSE removeAuthLocked(c.id)
  /\ shared' = shared \ {c.id}
  /\ UNCHANGED <<now, last, managerVars, svc, updates, picker>>

\* pickNext: a first answer that is an error leads to syncScheduler.
PickFirst(r) ==
  /\ picker.pc = "idle"
  /\ LET shard == ensureModelLocked
         s == pickSingle(shard.entries, shard.index, now, r)
     IN  /\ entries' = s.entries
         /\ index' = s.index
         /\ picker' = IF s.kind = "auth" THEN picker
                      ELSE [pc |-> "snapshot", req |-> r, auths |-> <<>>]
  /\ built' = TRUE
  /\ UNCHANGED <<now, last, managerVars, metas, shared, calls, svc, updates>>

snapshotAuths ==
  /\ picker.pc = "snapshot"
  /\ picker' = [picker EXCEPT !.pc = "rebuild", !.auths = auths]
  /\ UNCHANGED <<now, last, managerVars, schedulerVars, calls, svc, updates>>

syncSchedulerFromSnapshot ==
  /\ picker.pc = "rebuild"
  /\ rebuild(picker.auths)
  /\ shared' = {}
  /\ picker' = [picker EXCEPT !.pc = "retry", !.auths = <<>>]
  /\ UNCHANGED <<now, last, managerVars, calls, svc, updates>>

PickRetry ==
  /\ picker.pc = "retry"
  /\ LET shard == ensureModelLocked
         s == pickSingle(shard.entries, shard.index, now, picker.req)
     IN  /\ entries' = s.entries
         /\ index' = s.index
  /\ built' = TRUE
  /\ picker' = IdlePicker
  /\ UNCHANGED <<now, last, managerVars, metas, shared, calls, svc, updates>>

-----------------------------------------------------------------------------
(***************************************************************************)
(* The service goroutine.  Add or update: the manager first, then its      *)
(* scheduler entry, then the models, then the model states, then the       *)
(* scheduler entry again.  Delete: the models, the manager, the scheduler. *)
(***************************************************************************)
service(pc, i, a) == svc' = [pc |-> pc, id |-> i, auth |-> a]

applyCoreAuthAddOrUpdate(i, a) ==
  /\ svc.pc = "idle"
  /\ updates < MaxUpdates
  /\ updates' = updates + 1
  /\ service(IF i \in DOMAIN auths THEN "update" ELSE "register", i, a)
  /\ UNCHANGED <<now, last, managerVars, schedulerVars, calls, picker>>

Register ==
  /\ svc.pc = "register"
  /\ auths' = with(auths, svc.id, svc.auth)
  /\ erased' = erased \ {svc.id}
  /\ service("upsert", svc.id, svc.auth)
  /\ UNCHANGED <<now, last, registered, schedulerVars, calls, updates, picker>>

\* Keeps the model states of an enabled credential; does nothing if the
\* credential was deleted meanwhile.
Update ==
  /\ svc.pc = "update"
  /\ IF svc.id \in DOMAIN auths
     THEN LET old == auths[svc.id]
              a == IF Disabled(old) \/ Disabled(svc.auth) THEN svc.auth
                   ELSE [svc.auth EXCEPT !.block = old.block, !.until = old.until,
                                         !.cred = OpenQuota(old)]
          IN  /\ auths' = with(auths, svc.id, a)
              /\ shared' = shared \ {svc.id}
              /\ service("upsert", svc.id, a)
     ELSE UNCHANGED <<auths, shared>> /\ service("models", svc.id, svc.auth)
  /\ UNCHANGED <<now, last, registered, erased, metas, built, entries, index, calls, updates, picker>>

\* The upsert at the end of Register, Update, Reconcile or Refresh.  The first
\* two hand over the manager's own object, if the manager still has it.
serviceUpsert ==
  /\ svc.pc \in {"upsert", "reupsert", "refreshUpsert"}
  /\ upsertAuthLocked(svc.id, svc.auth)
  /\ shared' = IF svc.pc = "upsert" /\ svc.id \in DOMAIN auths /\ ~Disabled(svc.auth)
               THEN shared \union {svc.id} ELSE shared \ {svc.id}
  /\ service(CASE svc.pc = "upsert" -> "models"
               [] svc.pc = "reupsert" -> "refresh"
               [] OTHER -> "idle",
             IF svc.pc = "refreshUpsert" THEN 0 ELSE svc.id,
             IF svc.pc = "refreshUpsert" THEN {} ELSE svc.auth)
  /\ UNCHANGED <<now, last, managerVars, calls, updates, picker>>

registerModelsForAuth ==
  /\ svc.pc = "models"
  /\ registered' = IF Disabled(svc.auth) THEN registered \ {svc.id}
                   ELSE registered \union {svc.id}
  /\ service("reconcile", svc.id, svc.auth)
  /\ UNCHANGED <<now, last, auths, erased, schedulerVars, calls, updates, picker>>

\* Resets the model states of a credential that has models.
ReconcileRegistryModelStates ==
  /\ svc.pc = "reconcile"
  /\ IF svc.id \in DOMAIN auths /\ auths[svc.id].until # 0
     THEN /\ mutate(svc.id, Clean(auths[svc.id]))
          /\ service("reupsert", svc.id, Clean(auths[svc.id]))
     ELSE /\ service("refresh", svc.id, svc.auth)
          /\ UNCHANGED <<auths, schedulerVars>>
  /\ UNCHANGED <<now, last, registered, erased, calls, updates, picker>>

\* Faulty variant: the entry is not refreshed.
RefreshNothing ==
  /\ svc.pc = "refresh"
  /\ svc' = IdleService
  /\ UNCHANGED <<now, last, managerVars, schedulerVars, calls, updates, picker>>

RefreshSchedulerEntry ==
  /\ svc.pc = "refresh"
  /\ IF svc.id \in DOMAIN auths
     THEN service("refreshUpsert", svc.id, auths[svc.id])
     ELSE svc' = IdleService
  /\ UNCHANGED <<now, last, managerVars, schedulerVars, calls, updates, picker>>

applyCoreAuthRemoval(i) ==
  /\ svc.pc = "idle"
  /\ updates < MaxUpdates
  /\ updates' = updates + 1
  /\ registered' = registered \ {i}
  /\ service("remove", i, {})
  /\ UNCHANGED <<now, last, auths, erased, schedulerVars, calls, picker>>

\* Manager.Remove returns early if the credential is not there.
RemoveAuth ==
  /\ svc.pc = "remove"
  /\ IF svc.id \in DOMAIN auths
     THEN /\ auths' = without(auths, svc.id)
          /\ shared' = shared \ {svc.id}
          /\ service("unschedule", svc.id, {})
     ELSE /\ svc' = IdleService
          /\ UNCHANGED <<auths, shared>>
  /\ UNCHANGED <<now, last, registered, erased, metas, built, entries, index, calls, updates, picker>>

serviceUnschedule ==
  /\ svc.pc = "unschedule"
  /\ removeAuthLocked(svc.id)
  /\ shared' = shared \ {svc.id}
  /\ svc' = IdleService
  /\ UNCHANGED <<now, last, managerVars, calls, updates, picker>>

-----------------------------------------------------------------------------
SyncTick == Tick /\ UNCHANGED <<managerVars, metas, built, shared, actorVars>>

ServiceStep ==
  \/ \E i \in Ids, p \in Priorities :
       \/ applyCoreAuthAddOrUpdate(i, Fresh(p))
       \/ applyCoreAuthAddOrUpdate(i, Switched(Fresh(p)))
  \/ Register \/ Update \/ serviceUpsert \/ registerModelsForAuth \/ ReconcileRegistryModelStates
  \/ RefreshSchedulerEntry
  \/ \E i \in Ids : applyCoreAuthRemoval(i)
  \/ RemoveAuth \/ serviceUnschedule

RequestStep ==
  \/ \E i \in Ids, o \in Outcomes : MarkResult(i, o)
  \/ \E i \in Ids : MarkResultDisabled(i) \/ ManagementRemove(i)
  \/ \E c \in calls : Deliver(c)
  \/ \E r \in PickRequests : PickFirst(r)
  \/ snapshotAuths \/ syncSchedulerFromSnapshot \/ PickRetry

SyncNext == ServiceStep \/ RequestStep \/ SyncTick

SyncSpec == SyncInit /\ [][SyncNext]_syncVars

-----------------------------------------------------------------------------
(***************************************************************************)
(* Properties.                                                             *)
(***************************************************************************)

\* The shard and the provider's metadata are two copies of what the scheduler
\* was told; upsertAuthLocked, removeAuthLocked and ensureModelLocked keep them
\* equal although models come and go between two upserts.
ShardMatchesMetas ==
  built => /\ DOMAIN entries = {i \in DOMAIN metas : metas[i].supports}
           /\ \A i \in DOMAIN entries : entries[i].auth = metas[i].auth

Gone(i) == i \notin DOMAIN auths \/ Disabled(auths[i])

RemovalUnderWay(i) == \E c \in calls : c.op = "remove" /\ c.id = i

\* Once the service has deleted or disabled a credential, no result clone, late
\* removal or resync that was under way leaves it in a shard: the scheduler asks
\* the model registry, which the service has cleared, whenever it is given a
\* clone.
RemovedIsNotOffered ==
  \A i \in Ids \ erased :
    (Gone(i) /\ i \notin registered /\ svc.pc = "idle") => i \notin DOMAIN entries

\* Once a credential is disabled or deleted, its models are unregistered and the
\* service has finished, it is gone from runtime state, as the comment of
\* Manager.Remove says: no shard offers it, even if the result of an old
\* request, or a resync that began before, hands the scheduler an old clone.
GoneIsNotOffered ==
  \A i \in Ids : (Gone(i) /\ i \notin registered /\ svc.pc = "idle" /\ ~RemovalUnderWay(i))
                  => i \notin DOMAIN entries
=============================================================================
