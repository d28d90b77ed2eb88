---------------------------- MODULE UsagePipeline ----------------------------
(***************************************************************************)
(* The way of a usage record: Manager.Publish puts it into the manager's   *)
(* queue, the dispatcher hands it to the queue plugin, and the plugin      *)
(* either broadcasts it to the subscribers of the Redis channel or stores  *)
(* it, from where management clients and the Home forwarders pop it.       *)
(*                                                                         *)
(* The dispatcher and the forwarders (one per Home lifetime, an old one    *)
(* may still be pushing when a new one starts) call Enqueue concurrently,  *)
(* and Enqueue takes the queue's lock twice.  The dispatcher's other       *)
(* plugins and the queue of error events, which stores nothing, are left   *)
(* out.  UsageStatisticsEnabled is taken to be on.                         *)
(***************************************************************************)
EXTENDS Naturals, Sequences, FiniteSets

CONSTANTS
    Records,        \* usage records
    Subscribers,    \* connections that subscribe, each once
    Forwarders,     \* Home lifetimes, each with its forwarder
    BufferCap,      \* usageSubscriberBuffer, 256 in the code
    BatchSize,      \* records a forwarder pops at a time, 64 in the code
    Retention,      \* retention window in ticks
    MaxTime,        \* bound: ticks of the clock
    MaxFailures,    \* bound: failed pushes
    MaxRefreshes    \* bound: NotifyUsageRefresh calls

ASSUME PipelineAssumption ==
    /\ BufferCap \in Nat \ {0} /\ BatchSize \in Nat \ {0}
    /\ Retention \in Nat /\ MaxTime \in Nat
    /\ MaxFailures \in Nat /\ MaxRefreshes \in Nat
    /\ "dispatcher" \notin Forwarders

\* The dispatcher is one of the goroutines that call Enqueue.
Dispatcher == "dispatcher"
Enqueuers == {Dispatcher} \cup Forwarders
Notices == {"supportRefresh", "refresh"}

VARIABLES
    queue,      \* the manager's queue
    stopped,    \* the manager is closed
    switch,     \* redisqueue.enabled, "clearing" while SetEnabled(false) runs
    items,      \* the stored records with their time of entry
    clock,
    table,      \* subscribers in the queue's map
    inbox,      \* history: everything sent on a subscriber's channel
    unread,     \* messages of it still in the channel
    reader,     \* the connection: "new", "reading", "leaving" after a failed write, "left"
    closing,    \* <<who, subscriber>>: removed from the map, close pending
    closes,     \* how often a channel was closed
    backlog,    \* records an enqueuer still has to pass to Enqueue
    step,       \* step of Enqueue
    forwarder,  \* "off", "idle", "pop", "push", "requeue", "exited"
    batch,      \* records a forwarder popped and has not pushed
    cancelled,  \* the lifetime's context is done
    refreshes,
    published,  \* history: records passed to Publish
    stream,     \* history: everything broadcast
    joined,     \* history: length of stream when a subscriber joined
    taken,      \* history: records whose write to a client was tried
    home,       \* history: how often Home received a record
    failures,   \* history: failed pushes of a record
    excused     \* history: records given up for a reason the code states

managerVars == <<queue, stopped, published>>
storeVars == <<items, clock, switch, taken>>
channelVars == <<table, inbox, unread, reader, closing, closes, stream, joined, refreshes>>
enqueueVars == <<backlog, step>>
forwarderVars == <<forwarder, batch, cancelled, home, failures>>
vars == <<managerVars, storeVars, channelVars, enqueueVars, forwarderVars, excused>>

Elements(s) == {s[i] : i \in DOMAIN s}
Stored == {items[i].record : i \in DOMAIN items}

TypeOK ==
    /\ queue \in Seq(Records)
    /\ stopped \in BOOLEAN
    /\ switch \in {"on", "clearing", "off"}
    /\ items \in Seq([record : Records, at : 0 .. MaxTime])
    /\ clock \in 0 .. MaxTime
    /\ table \subseteq Subscribers
    /\ inbox \in [Subscribers -> Seq(Records \cup Notices)]
    /\ unread \in [Subscribers -> 0 .. BufferCap]
    /\ reader \in [Subscribers -> {"new", "reading", "leaving", "left"}]
    /\ closing \subseteq ({"unsubscribe", "clear"} \X Subscribers)
    /\ closes \in [Subscribers -> Nat]
    /\ backlog \in [Enqueuers -> Seq(Records)]
    /\ step \in [Enqueuers -> {"idle", "publish", "append"}]
    /\ forwarder \in [Forwarders -> {"off", "idle", "pop", "push", "requeue", "exited"}]
    /\ batch \in [Forwarders -> Seq(Records)]
    /\ cancelled \in [Forwarders -> BOOLEAN]
    /\ refreshes \in 0 .. MaxRefreshes
    /\ published \subseteq Records
    /\ stream \in Seq(Records \cup Notices)
    /\ joined \in [Subscribers -> Nat]
    /\ taken \subseteq Records
    /\ home \in [Records -> Nat]
    /\ failures \in [Records -> Nat]
    /\ excused \subseteq Records

Init ==
    /\ queue = <<>> /\ stopped = FALSE /\ published = {}
    /\ switch = "on" /\ items = <<>> /\ clock = 0 /\ taken = {}
    /\ table = {} /\ closing = {} /\ refreshes = 0 /\ stream = <<>>
    /\ inbox = [s \in Subscribers |-> <<>>]
    /\ unread = [s \in Subscribers |-> 0]
    /\ reader = [s \in Subscribers |-> "new"]
    /\ closes = [s \in Subscribers |-> 0]
    /\ joined = [s \in Subscribers |-> 0]
    /\ backlog = [e \in Enqueuers |-> <<>>]
    /\ step = [e \in Enqueuers |-> "idle"]
    /\ forwarder = [f \in Forwarders |-> "off"]
    /\ batch = [f \in Forwarders |-> <<>>]
    /\ cancelled = [f \in Forwarders |-> FALSE]
    /\ home = [r \in Records |-> 0]
    /\ failures = [r \in Records |-> 0]
    /\ excused = {}

-----------------------------------------------------------------------------
(* The usage manager.                                                      *)

\* Publish appends the record unless the manager is closed.
Publish(r) ==
    /\ r \notin published
    /\ published' = published \cup {r}
    /\ IF stopped
       THEN excused' = excused \cup {r} /\ queue' = queue
       ELSE queue' = Append(queue, r) /\ excused' = excused
    /\ UNCHANGED <<stopped, storeVars, channelVars, enqueueVars, forwarderVars>>

StopManager ==
    /\ ~stopped
    /\ stopped' = TRUE
    /\ UNCHANGED <<queue, published, storeVars, channelVars, enqueueVars,
                   forwarderVars, excused>>

\* Faulty variant: run leaves as soon as the manager is closed.
DispatchUntilStopped ==
    /\ ~stopped
    /\ queue # <<>> /\ backlog[Dispatcher] = <<>>
    /\ queue' = Tail(queue)
    /\ backlog' = [backlog EXCEPT ![Dispatcher] = <<Head(queue)>>]
    /\ UNCHANGED <<stopped, published, storeVars, channelVars, step,
                   forwarderVars, excused>>

\* run takes the next record, closed or not, and dispatches it.
Dispatch ==
    /\ queue # <<>> /\ backlog[Dispatcher] = <<>>
    /\ queue' = Tail(queue)
    /\ backlog' = [backlog EXCEPT ![Dispatcher] = <<Head(queue)>>]
    /\ UNCHANGED <<stopped, published, storeVars, channelVars, step,
                   forwarderVars, excused>>

-----------------------------------------------------------------------------
(* Enqueue.                                                                *)

\* Enqueue returns: the enqueuer goes on with its next record.
Enqueued(e) ==
    /\ backlog' = [backlog EXCEPT ![e] = Tail(@)]
    /\ step' = [step EXCEPT ![e] = "idle"]

\* HandleUsage and Enqueue do nothing while the queue is disabled.
CheckEnabled(e) ==
    /\ backlog[e] # <<>> /\ step[e] = "idle"
    /\ IF switch = "on"
       THEN step' = [step EXCEPT ![e] = "publish"] /\ UNCHANGED <<backlog, excused>>
       ELSE Enqueued(e) /\ excused' = excused \cup {Head(backlog[e])}
    /\ UNCHANGED <<managerVars, storeVars, channelVars, forwarderVars>>

\* publishToSubscribers sends to every subscriber that has room, and removes
\* and closes the others, under the lock.
HasRoom(s) == unread[s] < BufferCap

\* Faulty variant: a full subscriber misses the message and stays.
BroadcastSkippingFull(m) ==
    LET served == {s \in table : HasRoom(s)}
    IN  /\ inbox' = [s \in Subscribers |->
                        IF s \in served THEN Append(inbox[s], m) ELSE inbox[s]]
        /\ unread' = [s \in Subscribers |->
                        IF s \in served THEN unread[s] + 1 ELSE unread[s]]
        /\ stream' = Append(stream, m)
        /\ UNCHANGED <<table, reader, closes, closing, joined>>

Broadcast(m) ==
    LET served == {s \in table : HasRoom(s)}
    IN  /\ table' = served
        /\ inbox' = [s \in Subscribers |->
                        IF s \in served THEN Append(inbox[s], m) ELSE inbox[s]]
        /\ unread' = [s \in Subscribers |->
                        IF s \in served THEN unread[s] + 1 ELSE unread[s]]
        /\ closes' = [s \in Subscribers |->
                        IF s \in table \ served THEN closes[s] + 1 ELSE closes[s]]
        /\ stream' = Append(stream, m)
        /\ UNCHANGED <<reader, closing, joined>>

PublishToSubscribers(e) ==
    /\ step[e] = "publish"
    /\ LET r == Head(backlog[e])
       IN  IF table = {}
           THEN /\ step' = [step EXCEPT ![e] = "append"]
                /\ UNCHANGED <<backlog, channelVars, excused>>
           ELSE /\ Broadcast(r)
                /\ Enqueued(e)
                /\ excused' = IF table' = {} THEN excused \cup {r} ELSE excused
                /\ UNCHANGED refreshes
    /\ UNCHANGED <<managerVars, storeVars, forwarderVars>>

\* pruneLocked drops the expired items at the head.
Expired(item) == item.at + Retention < clock
ExpiredPrefix == {i \in DOMAIN items : \A j \in 1 .. i : Expired(items[j])}
Fresh == SubSeq(items, Cardinality(ExpiredPrefix) + 1, Len(items))
PrunedRecords == {items[i].record : i \in ExpiredPrefix}

Store(e) ==
    /\ step[e] = "append"
    /\ items' = Append(Fresh, [record |-> Head(backlog[e]), at |-> clock])
    /\ excused' = excused \cup PrunedRecords
    /\ Enqueued(e)
    /\ UNCHANGED <<managerVars, clock, switch, taken, channelVars,
                   forwarderVars>>

\* Faulty variant: the oldest records are read and stay.
PeekOldest(count) ==
    /\ items' = Fresh
    /\ excused' = excused \cup PrunedRecords

\* popOldest(count), given to whoever asked.
PopOldest(count) ==
    /\ items' = SubSeq(Fresh, count + 1, Len(Fresh))
    /\ excused' = excused \cup PrunedRecords

Oldest(count) == {Fresh[i].record : i \in {j \in DOMAIN Fresh : j <= count}}

\* GetUsageQueue, and LPOP and RPOP of the Redis protocol.  Enabled is checked
\* before the lock is taken: a client that checked in time pops at any later
\* moment.  What it popped is not put back when the answer cannot be written.
ManagementPop(count) ==
    /\ PopOldest(count)
    /\ taken' = taken \cup Oldest(count)
    /\ UNCHANGED <<managerVars, clock, switch, channelVars, enqueueVars,
                   forwarderVars>>

-----------------------------------------------------------------------------
(* Subscribers and the switch.                                             *)

\* A subscriber's channel holds the first notice before it is in the map.
Subscribe(s) ==
    /\ reader[s] = "new"
    /\ reader' = [reader EXCEPT ![s] = "reading"]
    /\ table' = table \cup {s}
    /\ inbox' = [inbox EXCEPT ![s] = <<"supportRefresh">>]
    /\ unread' = [unread EXCEPT ![s] = 1]
    /\ joined' = [joined EXCEPT ![s] = Len(stream)]
    /\ UNCHANGED <<managerVars, storeVars, closing, closes, stream, refreshes,
                   enqueueVars, forwarderVars, excused>>

\* The oldest message of the channel, and the records in it.
Message(s) == inbox[s][Len(inbox[s]) - unread[s] + 1]
Unread(s) == {inbox[s][i] : i \in {j \in DOMAIN inbox[s] : j + unread[s] > Len(inbox[s])}} \cap Records

\* streamRedisSubscription writes a message to its client; it returns when that
\* fails.  A channel that was closed is read to its end.
Read(s, written) ==
    /\ reader[s] = "reading" /\ unread[s] > 0
    /\ unread' = [unread EXCEPT ![s] = @ - 1]
    /\ reader' = [reader EXCEPT ![s] = IF written THEN @ ELSE "leaving"]
    /\ taken' = taken \cup ({Message(s)} \cap Records)
    /\ UNCHANGED <<managerVars, items, clock, switch, table, inbox, closing,
                   closes, stream, joined, refreshes, enqueueVars, forwarderVars, excused>>

\* Faulty variant: the channel is closed whoever took it out of the map.
UnsubscribeAlwaysCloses(s) ==
    /\ reader[s] \in {"reading", "leaving"}
    /\ reader' = [reader EXCEPT ![s] = "left"]
    /\ table' = table \ {s}
    /\ closing' = closing \cup {<<"unsubscribe", s>>}
    /\ unread' = [unread EXCEPT ![s] = 0]
    /\ excused' = excused \cup Unread(s)
    /\ UNCHANGED <<managerVars, storeVars, inbox, closes, stream, joined,
                   refreshes, enqueueVars, forwarderVars>>

\* streamRedisSubscription returns, and what is unread is lost.  unsubscribe
\* takes the subscriber out of the map, and closes its channel after the unlock
\* if it was still there.
Unsubscribe(s) ==
    /\ reader[s] \in {"reading", "leaving"}
    /\ reader' = [reader EXCEPT ![s] = "left"]
    /\ table' = table \ {s}
    /\ closing' = closing \cup ({"unsubscribe"} \X (table \cap {s}))
    /\ unread' = [unread EXCEPT ![s] = 0]
    /\ excused' = excused \cup Unread(s)
    /\ UNCHANGED <<managerVars, storeVars, inbox, closes, stream, joined,
                   refreshes, enqueueVars, forwarderVars>>

\* SetEnabled(false) stores the flag ...
Disable ==
    /\ switch = "on"
    /\ switch' = "clearing"
    /\ UNCHANGED <<managerVars, items, clock, taken, channelVars, enqueueVars,
                   forwarderVars, excused>>

\* ... and clears the queue: items and map under the lock, channels after.
Clear ==
    /\ switch = "clearing"
    /\ switch' = "off"
    /\ items' = <<>>
    /\ excused' = excused \cup Stored
    /\ table' = {}
    /\ closing' = closing \cup ({"clear"} \X table)
    /\ UNCHANGED <<managerVars, clock, taken, inbox, unread, reader, closes,
                   stream, joined, refreshes, enqueueVars, forwarderVars>>

CloseChannel(who, s) ==
    /\ <<who, s>> \in closing
    /\ closing' = closing \ {<<who, s>>}
    /\ closes' = [closes EXCEPT ![s] = @ + 1]
    /\ UNCHANGED <<managerVars, storeVars, table, inbox, unread, reader, stream,
                   joined, refreshes, enqueueVars, forwarderVars, excused>>

Enable ==
    /\ switch = "off"
    /\ switch' = "on"
    /\ UNCHANGED <<managerVars, items, clock, taken, channelVars, enqueueVars,
                   forwarderVars, excused>>

\* The watcher saw a credential change; without subscribers nothing happens.
NotifyUsageRefresh ==
    /\ table # {}
    /\ refreshes < MaxRefreshes
    /\ refreshes' = refreshes + 1
    /\ Broadcast("refresh")
    /\ UNCHANGED <<managerVars, storeVars, enqueueVars, forwarderVars, excused>>

Tick ==
    /\ clock < MaxTime
    /\ clock' = clock + 1
    /\ UNCHANGED <<managerVars, items, switch, taken, channelVars,
                   enqueueVars, forwarderVars, excused>>

-----------------------------------------------------------------------------
(* A Home lifetime's forwarder.                                            *)

StartForwarder(f) ==
    /\ forwarder[f] = "off"
    /\ forwarder' = [forwarder EXCEPT ![f] = "idle"]
    /\ UNCHANGED <<managerVars, storeVars, channelVars, enqueueVars, batch,
                   cancelled, home, failures, excused>>

\* The heartbeat is up and the queue enabled: the forwarder will pop a batch ...
CheckQueue(f) ==
    /\ forwarder[f] = "idle" /\ ~cancelled[f]
    /\ switch = "on"
    /\ forwarder' = [forwarder EXCEPT ![f] = "pop"]
    /\ UNCHANGED <<managerVars, storeVars, channelVars, enqueueVars, batch,
                   cancelled, home, failures, excused>>

\* ... which it does even if the queue was disabled in the meantime.
PopBatch(f) ==
    /\ forwarder[f] = "pop"
    /\ PopOldest(BatchSize)
    /\ batch' = [batch EXCEPT ![f] =
           [i \in 1 .. IF Len(Fresh) < BatchSize THEN Len(Fresh) ELSE BatchSize |->
               Fresh[i].record]]
    /\ forwarder' = [forwarder EXCEPT ![f] = IF Fresh = <<>> THEN "idle" ELSE "push"]
    /\ UNCHANGED <<managerVars, clock, switch, taken, channelVars,
                   enqueueVars, cancelled, home, failures>>

Received(r) == home' = [home EXCEPT ![r] = @ + 1]

PushSucceeds(f) ==
    /\ forwarder[f] = "push"
    /\ Received(Head(batch[f]))
    /\ batch' = [batch EXCEPT ![f] = Tail(@)]
    /\ forwarder' = [forwarder EXCEPT ![f] = IF batch'[f] = <<>> THEN "idle" ELSE @]
    /\ UNCHANGED <<managerVars, storeVars, channelVars, enqueueVars, cancelled,
                   failures, excused>>

\* Faulty variant: only what follows the failed record is enqueued again.
PushFailsLosingHead(f, received) ==
    /\ forwarder[f] = "push"
    /\ failures[Head(batch[f])] < MaxFailures
    /\ failures' = [failures EXCEPT ![Head(batch[f])] = @ + 1]
    /\ IF received THEN Received(Head(batch[f])) ELSE home' = home
    /\ backlog' = [backlog EXCEPT ![f] = Tail(batch[f])]
    /\ batch' = [batch EXCEPT ![f] = <<>>]
    /\ forwarder' = [forwarder EXCEPT ![f] = "requeue"]
    /\ UNCHANGED <<managerVars, storeVars, channelVars, step, cancelled,
                   excused>>

\* LPushUsage fails, before or after Home has received the record; the rest
\* of the batch, this record included, goes through Enqueue again.
PushFails(f, received) ==
    /\ forwarder[f] = "push"
    /\ failures[Head(batch[f])] < MaxFailures
    /\ failures' = [failures EXCEPT ![Head(batch[f])] = @ + 1]
    /\ IF received THEN Received(Head(batch[f])) ELSE home' = home
    /\ backlog' = [backlog EXCEPT ![f] = batch[f]]
    /\ batch' = [batch EXCEPT ![f] = <<>>]
    /\ forwarder' = [forwarder EXCEPT ![f] = "requeue"]
    /\ UNCHANGED <<managerVars, storeVars, channelVars, step, cancelled,
                   excused>>

\* After the pause the loop starts again.
Requeued(f) ==
    /\ forwarder[f] = "requeue" /\ backlog[f] = <<>>
    /\ forwarder' = [forwarder EXCEPT ![f] = IF cancelled[f] THEN "exited" ELSE "idle"]
    /\ UNCHANGED <<managerVars, storeVars, channelVars, enqueueVars, batch,
                   cancelled, home, failures, excused>>

CancelLifetime(f) ==
    /\ forwarder[f] # "off" /\ ~cancelled[f]
    /\ cancelled' = [cancelled EXCEPT ![f] = TRUE]
    /\ UNCHANGED <<managerVars, storeVars, channelVars, enqueueVars, forwarder,
                   batch, home, failures, excused>>

Exit(f) ==
    /\ forwarder[f] = "idle" /\ cancelled[f]
    /\ forwarder' = [forwarder EXCEPT ![f] = "exited"]
    /\ UNCHANGED <<managerVars, storeVars, channelVars, enqueueVars, batch,
                   cancelled, home, failures, excused>>

-----------------------------------------------------------------------------
EnqueueStep(e) == CheckEnabled(e) \/ PublishToSubscribers(e) \/ Store(e)

Next ==
    \/ \E r \in Records : Publish(r)
    \/ StopManager \/ Dispatch
    \/ \E e \in Enqueuers : EnqueueStep(e)
    \/ \E count \in DOMAIN items : ManagementPop(count)
    \/ NotifyUsageRefresh \/ Tick
    \/ Disable \/ Clear \/ Enable
    \/ \E s \in Subscribers :
          \/ Subscribe(s) \/ Unsubscribe(s)
          \/ \E written \in BOOLEAN : Read(s, written)
          \/ \E who \in {"unsubscribe", "clear"} : CloseChannel(who, s)
    \/ \E f \in Forwarders :
          \/ StartForwarder(f) \/ CheckQueue(f) \/ PopBatch(f) \/ PushSucceeds(f)
          \/ \E received \in BOOLEAN : PushFails(f, received)
          \/ Requeued(f) \/ CancelLifetime(f) \/ Exit(f)

Spec == Init /\ [][Next]_vars

\* The dispatcher runs, whatever clients, Home and the configuration do.
FairSpec == Spec /\ WF_vars(Dispatch) /\ WF_vars(EnqueueStep(Dispatcher))

-----------------------------------------------------------------------------
(* Properties.                                                             *)

\* Where a record can be.
Waiting == Elements(queue) \cup UNION {Elements(backlog[e]) : e \in Enqueuers}
Forwarding == UNION {Elements(batch[f]) : f \in Forwarders}
Offered == UNION {Unread(s) : s \in Subscribers}
Delivered == taken \cup {r \in Records : home[r] > 0}

\* No record vanishes: it waits, is stored, is being forwarded, is in the
\* channel of a connected subscriber, was written to a client or reached Home,
\* unless it was given up because the manager was stopped, the queue disabled,
\* the retention over, every subscriber full, or the subscriber that had it
\* unread left.  A batch that fails in the middle goes back whole, and a
\* subscriber that was cut off still reads what its channel holds.  A client's
\* failed write is not retried and counts as a write.
NothingVanishes ==
    published \subseteq Waiting \cup Stored \cup Forwarding \cup Offered \cup Delivered \cup excused

\* Home receives a record again only after a push of it has failed, however
\* forwarders, management clients and requeues interleave.
DuplicateNeedsFailure ==
    \A r \in Records : home[r] <= 1 + failures[r]

\* A subscriber sees everything that was broadcast since it joined, without
\* a gap, for as long as it stays subscribed: one that falls behind loses
\* the subscription instead of a message.  The variables keep their types,
\* and no channel holds more than its capacity.
SubscriptionHasNoGap ==
    /\ TypeOK
    /\ \A s \in table :
          inbox[s] = <<"supportRefresh">> \o SubSeq(stream, joined[s] + 1, Len(stream))

\* publishToSubscribers, unsubscribe and clear each close channels, two of
\* them after the unlock: a channel is closed once, and never while
\* publishToSubscribers could still send on it.
ClosedOnce ==
    \A s \in Subscribers :
        /\ closes[s] + Cardinality({w \in {"unsubscribe", "clear"} : <<w, s>> \in closing}) <= 1
        /\ s \in table => closes[s] = 0 /\ \A w \in {"unsubscribe", "clear"} : <<w, s>> \notin closing

\* "Stop stops the dispatcher and drains the queue": stopped or not, the
\* dispatcher gets through everything that Publish accepted.
AcceptedIsDispatched == <>[](queue = <<>> /\ backlog[Dispatcher] = <<>>)
=============================================================================
