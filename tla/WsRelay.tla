------------------------------- MODULE WsRelay -------------------------------
(***************************************************************************)
(* One websocket session of the relay (internal/wsrelay) and the requests  *)
(* that go through it.  A connected browser is a provider of its own: the  *)
(* service sets no ProviderFactory, so every session has a random name and *)
(* no session replaces another.                                            *)
(*                                                                         *)
(* Five kinds of goroutine touch the session: the connection's handler,    *)
(* the reader that dispatches answers, the caller of a request, the        *)
(* goroutine that watches a request's context, and whoever runs cleanup    *)
(* (the reader, the heartbeat or Manager.Stop).  They share the map of     *)
(* pending requests, and each of them may close a request's channel.       *)
(*                                                                         *)
(* LoadAndDelete followed by close is one step: a goroutine that loaded    *)
(* the entry before acts as if it came before, one that did not misses it. *)
(* The write of an empty sync.Map over the old one is a step as well: a    *)
(* concurrent reader sees the old map or the new one.                      *)
(***************************************************************************)
EXTENDS Naturals, Sequences, FiniteSets

CONSTANTS
    Requests,       \* request ids (uuids, never reused)
    NoRequest,      \* no request
    BufferCap,      \* capacity of a request's channel, 8 in the code
    MaxAnswers      \* bound: messages the peer sends for one request

ASSUME RelayAssumption ==
    /\ NoRequest \notin Requests
    /\ BufferCap \in Nat \ {0}
    /\ MaxAnswers \in Nat

VARIABLES
    handler,    \* handleWebsocket: "upgraded", "registered", "running"
    registered, \* the manager's session table holds this session
    credential, \* the service holds the credential of this provider
    closed,     \* the channel s.closed is closed
    connOpen,   \* the websocket connection is open
    pending,    \* keys of s.pending
    cleanup,    \* step of the one cleanup that runs
    snapshot,   \* keys that were pending when cleanup began its Range
    seen,       \* keys Range has visited
    visiting,   \* key Range is at
    reader,     \* step of run and dispatch
    message,    \* answer being dispatched
    stop,       \* Manager.Stop: "idle", "closing", "done"
    pc,         \* step of each request's caller
    mode,       \* NonStream or Stream
    ctxDone,    \* the request's context is done
    watcher,    \* the goroutine request starts: "none", "waiting", "done"
    buffer,     \* messages in the request's channel
    closedBy,   \* "nobody" while the channel is open
    outcome,    \* what NonStream returned, or the last event of Stream
    panic,      \* a goroutine outside any HTTP handler panicked
    sent,       \* history: messages the peer sent for a request
    got,        \* history: messages the caller received
    dropped     \* history: requests one of whose messages found no room

sessionVars == <<handler, registered, credential, closed, connOpen>>
cleanupVars == <<cleanup, snapshot, seen, visiting>>
readerVars == <<reader, message, sent>>
callerVars == <<pc, mode, ctxDone, watcher, outcome, got>>
channelVars == <<buffer, closedBy, dropped>>
vars == <<sessionVars, cleanupVars, readerVars, callerVars, channelVars,
          pending, stop, panic>>

Types == {"start", "chunk", "end", "response", "error"}
Terminal == {"end", "response", "error"}
Messages == [id : Requests, type : Types]
NoMessage == [id |-> NoRequest, type |-> "none"]

TypeOK ==
    /\ handler \in {"upgraded", "registered", "running"}
    /\ {registered, credential, closed, connOpen} \subseteq BOOLEAN
    /\ pending \subseteq Requests
    /\ cleanup \in {"none", "closed", "range", "send", "close", "notify", "done"}
    /\ snapshot \subseteq Requests /\ seen \subseteq Requests
    /\ visiting \in Requests \cup {NoRequest}
    /\ reader \in {"off", "read", "deliver", "end", "stopped"}
    /\ message \in Messages \cup {NoMessage}
    /\ stop \in {"idle", "closing", "done"}
    /\ pc \in [Requests -> {"idle", "found", "stored", "loaded", "writing",
                            "failed", "sent", "receive", "done"}]
    /\ mode \in [Requests -> {"nonStream", "stream"}]
    /\ ctxDone \in [Requests -> BOOLEAN]
    /\ watcher \in [Requests -> {"none", "waiting", "done"}]
    /\ buffer \in [Requests -> Seq(Types)]
    /\ \A r \in Requests : Len(buffer[r]) <= BufferCap
    /\ closedBy \in [Requests -> {"nobody", "answer", "cancel", "cleanup", "failure"}]
    /\ outcome \in [Requests -> {"none", "ok", "error", "cancelled", "panic"}]
    /\ panic \in {"none", "answer", "cancel", "cleanup", "failure"}
    /\ sent \in [Requests -> Seq(Types)]
    /\ got \in [Requests -> Seq(Types)]
    /\ dropped \subseteq Requests

Init ==
    /\ handler = "upgraded" /\ registered = FALSE /\ credential = FALSE
    /\ closed = FALSE /\ connOpen = TRUE
    /\ pending = {}
    /\ cleanup = "none" /\ snapshot = {} /\ seen = {} /\ visiting = NoRequest
    /\ reader = "off" /\ message = NoMessage
    /\ stop = "idle"
    /\ pc = [r \in Requests |-> "idle"]
    /\ mode \in [Requests -> {"nonStream", "stream"}]
    /\ ctxDone = [r \in Requests |-> FALSE]
    /\ watcher = [r \in Requests |-> "none"]
    /\ buffer = [r \in Requests |-> <<>>]
    /\ closedBy = [r \in Requests |-> "nobody"]
    /\ outcome = [r \in Requests |-> "none"]
    /\ panic = "none"
    /\ sent = [r \in Requests |-> <<>>]
    /\ got = [r \in Requests |-> <<>>]
    /\ dropped = {}

-----------------------------------------------------------------------------
(* A request's channel.                                                    *)

IsOpen(r) == closedBy[r] = "nobody"

\* The select with a default case: a full channel drops the message, a
\* closed one panics.
TrySend(r, type) ==
    IF IsOpen(r)
    THEN /\ panic' = panic
         /\ IF Len(buffer[r]) < BufferCap
            THEN /\ buffer' = [buffer EXCEPT ![r] = Append(@, type)]
                 /\ dropped' = dropped
            ELSE /\ buffer' = buffer
                 /\ dropped' = dropped \cup {r}
    ELSE /\ panic' = closedBy[r]
         /\ UNCHANGED <<buffer, dropped>>

\* pendingRequest.close: only the first call closes the channel.
Close(r, who) ==
    closedBy' = [closedBy EXCEPT ![r] = IF IsOpen(r) THEN who ELSE @]

\* LoadAndDelete, and close of what was loaded.
EndRequest(r, who) ==
    /\ pending' = pending \ {r}
    /\ IF r \in pending THEN Close(r, who) ELSE closedBy' = closedBy

-----------------------------------------------------------------------------
(* The connection's handler and Manager.Stop.                              *)

\* handleWebsocket puts the session into the table ...
Register ==
    /\ handler = "upgraded"
    /\ handler' = "registered"
    /\ registered' = TRUE
    /\ UNCHANGED <<credential, closed, connOpen, cleanupVars, readerVars,
                   callerVars, channelVars, pending, stop, panic>>

\* ... calls onConnected, which adds the credential, and starts run.
Connected ==
    /\ handler = "registered"
    /\ handler' = "running"
    /\ credential' = TRUE
    /\ reader' = "read"
    /\ UNCHANGED <<registered, closed, connOpen, cleanupVars, message, sent,
                   callerVars, channelVars, pending, stop, panic>>

\* The first call of cleanup closes s.closed; further calls wait for it.
BeginCleanup ==
    IF closed
    THEN UNCHANGED <<closed, cleanup>>
    ELSE closed' = TRUE /\ cleanup' = "closed"

\* Stop empties the table ...
StopManager ==
    /\ stop = "idle"
    /\ registered' = FALSE
    /\ stop' = IF registered THEN "closing" ELSE "done"
    /\ UNCHANGED <<handler, credential, closed, connOpen, cleanupVars,
                   readerVars, callerVars, channelVars, pending, panic>>

\* ... and cleans up the sessions it found there.
StopSession ==
    /\ stop = "closing"
    /\ stop' = "done"
    /\ BeginCleanup
    /\ UNCHANGED <<handler, registered, credential, connOpen, snapshot, seen,
                   visiting, readerVars, callerVars, channelVars, pending,
                   panic>>

\* The heartbeat's ping fails.
HeartbeatFails ==
    /\ ~closed
    /\ BeginCleanup
    /\ UNCHANGED <<handler, registered, credential, connOpen, snapshot, seen,
                   visiting, readerVars, callerVars, channelVars, pending,
                   stop, panic>>

-----------------------------------------------------------------------------
(* cleanup, after it closed s.closed.                                      *)

\* Range visits every key that is there from its beginning to its end, and
\* may visit or miss a key that is stored meanwhile.
RangeBegin ==
    /\ cleanup = "closed"
    /\ cleanup' = "range"
    /\ snapshot' = pending
    /\ UNCHANGED <<sessionVars, seen, visiting, readerVars, callerVars,
                   channelVars, pending, stop, panic>>

RangeVisit(r) ==
    /\ cleanup = "range"
    /\ r \in pending \ seen
    /\ cleanup' = "send"
    /\ visiting' = r
    /\ seen' = seen \cup {r}
    /\ UNCHANGED <<sessionVars, snapshot, readerVars, callerVars, channelVars,
                   pending, stop, panic>>

\* Faulty variant: the pending request hears nothing of the end.
RangeSendNothing ==
    /\ cleanup = "send"
    /\ cleanup' = "close"
    /\ UNCHANGED <<sessionVars, snapshot, seen, visiting, readerVars,
                   callerVars, channelVars, pending, stop, panic>>

RangeSend ==
    /\ cleanup = "send"
    /\ cleanup' = "close"
    /\ TrySend(visiting, "error")
    /\ UNCHANGED <<sessionVars, snapshot, seen, visiting, readerVars,
                   callerVars, closedBy, pending, stop>>

\* Faulty variant: the channel stays open.
RangeCloseNothing ==
    /\ cleanup = "close"
    /\ cleanup' = "range"
    /\ visiting' = NoRequest
    /\ UNCHANGED <<sessionVars, snapshot, seen, readerVars, callerVars,
                   channelVars, pending, stop, panic>>

RangeClose ==
    /\ cleanup = "close"
    /\ cleanup' = "range"
    /\ Close(visiting, "cleanup")
    /\ visiting' = NoRequest
    /\ UNCHANGED <<sessionVars, snapshot, seen, readerVars, callerVars,
                   buffer, dropped, pending, stop, panic>>

\* Faulty variant: the map is replaced before every entry was visited.
ResetPendingEarly ==
    /\ cleanup = "range"
    /\ cleanup' = "notify"
    /\ pending' = {}
    /\ connOpen' = FALSE
    /\ UNCHANGED <<handler, registered, credential, closed, snapshot, seen,
                   visiting, readerVars, callerVars, channelVars, stop, panic>>

\* s.pending = sync.Map{}, and the connection is closed.
ResetPending ==
    /\ cleanup = "range"
    /\ snapshot \cap pending \subseteq seen
    /\ cleanup' = "notify"
    /\ pending' = {}
    /\ connOpen' = FALSE
    /\ UNCHANGED <<handler, registered, credential, closed, snapshot, seen,
                   visiting, readerVars, callerVars, channelVars, stop, panic>>

\* handleSessionClosed: the table forgets the session, and onDisconnected
\* deletes the credential.
SessionClosed ==
    /\ cleanup = "notify"
    /\ cleanup' = "done"
    /\ registered' = FALSE
    /\ credential' = FALSE
    /\ UNCHANGED <<handler, closed, connOpen, snapshot, seen, visiting,
                   readerVars, callerVars, channelVars, pending, stop, panic>>

-----------------------------------------------------------------------------
(* run and dispatch.                                                       *)

\* The request reached the peer.
Written(r) == pc[r] = "sent" \/ watcher[r] # "none"

\* The peer ends an answer once and sends nothing after that.
Answered(r) == \E i \in DOMAIN sent[r] : sent[r][i] \in Terminal

\* run reads an answer and dispatch loads its request.  A ping is answered
\* and changes nothing here.
ReadMessage(r, type) ==
    /\ reader = "read" /\ connOpen
    /\ Written(r) /\ ~Answered(r) /\ Len(sent[r]) < MaxAnswers
    /\ sent' = [sent EXCEPT ![r] = Append(@, type)]
    /\ IF r \in pending
       THEN reader' = "deliver" /\ message' = [id |-> r, type |-> type]
       ELSE UNCHANGED <<reader, message>>
    /\ UNCHANGED <<sessionVars, cleanupVars, callerVars, channelVars, pending,
                   stop, panic>>

Deliver ==
    /\ reader = "deliver"
    /\ TrySend(message.id, message.type)
    /\ IF message.type \in Terminal
       THEN reader' = "end" /\ message' = message
       ELSE reader' = "read" /\ message' = NoMessage
    /\ UNCHANGED <<sessionVars, cleanupVars, sent, callerVars, closedBy,
                   pending, stop>>

DeliverEnd ==
    /\ reader = "end"
    /\ reader' = "read" /\ message' = NoMessage
    /\ EndRequest(message.id, "answer")
    /\ UNCHANGED <<sessionVars, cleanupVars, sent, callerVars, buffer,
                   dropped, stop, panic>>

\* A read error, at the latest when cleanup has closed the connection.
ReadFails ==
    /\ reader = "read"
    /\ reader' = "stopped"
    /\ BeginCleanup
    /\ UNCHANGED <<handler, registered, credential, connOpen, snapshot, seen,
                   visiting, message, sent, callerVars, channelVars, pending,
                   stop, panic>>

-----------------------------------------------------------------------------
(* Manager.Send and session.request.                                       *)

Finish(r, result) ==
    /\ pc' = [pc EXCEPT ![r] = "done"]
    /\ outcome' = [outcome EXCEPT ![r] = result]

Goto(r, step) == pc' = [pc EXCEPT ![r] = step] /\ outcome' = outcome

\* Send looks the session up, and fails when the provider is not connected.
Send(r) ==
    /\ pc[r] = "idle"
    /\ IF registered THEN Goto(r, "found") ELSE Finish(r, "error")
    /\ UNCHANGED <<sessionVars, cleanupVars, readerVars, mode, ctxDone,
                   watcher, got, channelVars, pending, stop, panic>>

\* LoadOrStore of a new id.
Store(r) ==
    /\ pc[r] = "found"
    /\ Goto(r, "stored")
    /\ pending' = pending \cup {r}
    /\ UNCHANGED <<sessionVars, cleanupVars, readerVars, mode, ctxDone,
                   watcher, got, channelVars, stop, panic>>

\* The second Load and its unchecked type assertion; the panic of the
\* handler's goroutine is recovered by the server.
Reload(r) ==
    /\ pc[r] = "stored"
    /\ IF r \in pending THEN Goto(r, "loaded") ELSE Finish(r, "panic")
    /\ UNCHANGED <<sessionVars, cleanupVars, readerVars, mode, ctxDone,
                   watcher, got, channelVars, pending, stop, panic>>

CheckClosed(r) ==
    /\ pc[r] = "loaded"
    /\ Goto(r, IF closed THEN "failed" ELSE "writing")
    /\ UNCHANGED <<sessionVars, cleanupVars, readerVars, mode, ctxDone,
                   watcher, got, channelVars, pending, stop, panic>>

\* SetWriteDeadline and WriteJSON under the write mutex.
WriteSucceeds(r) ==
    /\ pc[r] = "writing" /\ connOpen
    /\ Goto(r, "sent")
    /\ UNCHANGED <<sessionVars, cleanupVars, readerVars, mode, ctxDone,
                   watcher, got, channelVars, pending, stop, panic>>

WriteFails(r) ==
    /\ pc[r] = "writing"
    /\ Goto(r, "failed")
    /\ UNCHANGED <<sessionVars, cleanupVars, readerVars, mode, ctxDone,
                   watcher, got, channelVars, pending, stop, panic>>

Fail(r) ==
    /\ pc[r] = "failed"
    /\ EndRequest(r, "failure")
    /\ Finish(r, "error")
    /\ UNCHANGED <<sessionVars, cleanupVars, readerVars, mode, ctxDone,
                   watcher, got, buffer, dropped, stop, panic>>

\* request starts the goroutine that watches the context and returns.
StartWatcher(r) ==
    /\ pc[r] = "sent"
    /\ Goto(r, "receive")
    /\ watcher' = [watcher EXCEPT ![r] = "waiting"]
    /\ UNCHANGED <<sessionVars, cleanupVars, readerVars, mode, ctxDone, got,
                   channelVars, pending, stop, panic>>

\* The client goes away, or the context is cancelled after the answer.
CancelContext(r) ==
    /\ pc[r] # "idle" /\ ~ctxDone[r]
    /\ ctxDone' = [ctxDone EXCEPT ![r] = TRUE]
    /\ UNCHANGED <<sessionVars, cleanupVars, readerVars, pc, mode, watcher,
                   outcome, got, channelVars, pending, stop, panic>>

\* The select of the watching goroutine, which may take either case.
WatchContext(r) ==
    /\ watcher[r] = "waiting" /\ ctxDone[r]
    /\ watcher' = [watcher EXCEPT ![r] = "done"]
    /\ EndRequest(r, "cancel")
    /\ UNCHANGED <<sessionVars, cleanupVars, readerVars, pc, mode, ctxDone,
                   outcome, got, buffer, dropped, stop, panic>>

WatchClosed(r) ==
    /\ watcher[r] = "waiting" /\ closed
    /\ watcher' = [watcher EXCEPT ![r] = "done"]
    /\ UNCHANGED <<sessionVars, cleanupVars, readerVars, pc, mode, ctxDone,
                   outcome, got, channelVars, pending, stop, panic>>

-----------------------------------------------------------------------------
(* The loops of NonStream and Stream over the request's channel.  Stream   *)
(* forwards each message to its own reader, NonStream collects them.       *)

\* NonStream saw a stream_start or a stream_chunk.
StreamMode(r) == \E i \in DOMAIN got[r] : got[r][i] \in {"start", "chunk"}

Receive(r) ==
    /\ pc[r] = "receive" /\ buffer[r] # <<>>
    /\ LET type == Head(buffer[r])
       IN  /\ buffer' = [buffer EXCEPT ![r] = Tail(@)]
           /\ got' = [got EXCEPT ![r] = Append(@, type)]
           /\ \/ type \in {"end", "response"} /\ Finish(r, "ok")
              \/ type = "error" /\ Finish(r, "error")
              \/ type \notin Terminal /\ UNCHANGED <<pc, outcome>>
    /\ UNCHANGED <<sessionVars, cleanupVars, readerVars, mode, ctxDone,
                   watcher, closedBy, dropped, pending, stop, panic>>

\* The channel is closed: NonStream returns what it has collected in stream
\* mode and an error otherwise, Stream sends an error event.
ReceiveClosed(r) ==
    /\ pc[r] = "receive" /\ buffer[r] = <<>> /\ ~IsOpen(r)
    /\ Finish(r, IF mode[r] = "nonStream" /\ StreamMode(r) THEN "ok" ELSE "error")
    /\ UNCHANGED <<sessionVars, cleanupVars, readerVars, mode, ctxDone,
                   watcher, got, channelVars, pending, stop, panic>>

ReceiveCancelled(r) ==
    /\ pc[r] = "receive" /\ ctxDone[r]
    /\ Finish(r, "cancelled")
    /\ UNCHANGED <<sessionVars, cleanupVars, readerVars, mode, ctxDone,
                   watcher, got, channelVars, pending, stop, panic>>

-----------------------------------------------------------------------------
CleanupStep ==
    \/ RangeBegin \/ RangeSend \/ RangeClose \/ ResetPending \/ SessionClosed
    \/ \E r \in Requests : RangeVisit(r)

CallerStep(r) ==
    \/ Store(r) \/ Reload(r) \/ CheckClosed(r)
    \/ WriteSucceeds(r) \/ WriteFails(r) \/ Fail(r) \/ StartWatcher(r)
    \/ Receive(r) \/ ReceiveClosed(r) \/ ReceiveCancelled(r)

ReaderStep == Deliver \/ DeliverEnd

\* A panic outside an HTTP handler ends the process.
Next ==
    /\ panic = "none"
    /\ \/ Register \/ Connected \/ StopManager \/ StopSession
       \/ HeartbeatFails \/ ReadFails
       \/ CleanupStep \/ ReaderStep
       \/ \E r \in Requests :
             \/ Send(r) \/ CallerStep(r)
             \/ CancelContext(r) \/ WatchContext(r) \/ WatchClosed(r)
             \/ \E type \in Types : ReadMessage(r, type)

Spec == Init /\ [][Next]_vars

\* The scheduler runs every goroutine that can run: callers, the one inside
\* cleanup, and the reader between two reads.  Nothing is assumed of the
\* peer, of contexts or of Stop.
FairSpec ==
    /\ Spec
    /\ WF_vars(panic = "none" /\ CleanupStep)
    /\ WF_vars(panic = "none" /\ ReaderStep)
    /\ \A r \in Requests : WF_vars(panic = "none" /\ CallerStep(r))

-----------------------------------------------------------------------------
(* Properties.                                                             *)

\* The variables keep their types, channels within their capacity.  A caller
\* that waits on an open channel is never forgotten: its entry is
\* pending, and once the session is closed cleanup still has to visit it.
\* request, dispatch, the context's goroutine and cleanup all delete
\* entries, and cleanup throws the whole map away.
WaitingIsTracked ==
    /\ TypeOK
    /\ \A r \in Requests :
          pc[r] \in {"writing", "sent", "receive"} /\ IsOpen(r) =>
             /\ r \in pending
             /\ closed => \/ cleanup = "closed"
                          \/ cleanup = "range" /\ r \in snapshot \ seen
                          \/ cleanup \in {"send", "close"}
                              /\ (r = visiting \/ r \in snapshot \ seen)

\* A success is the whole answer: every message the peer sent, in order, and
\* the one that ends it, also when the session dies in the middle.  The
\* exceptions are a full channel, which loses messages, and a context that
\* is done, whose caller no longer looks.
AnswerIsWhole ==
    \A r \in Requests :
        outcome[r] = "ok" /\ r \notin dropped /\ ~ctxDone[r] =>
            Answered(r) /\ got[r] = sent[r]

\* When a session is closed, by whomever, every request on it ends, unless
\* the process died.
RequestsEndWithSession ==
    \A r \in Requests :
        closed /\ pc[r] # "idle" ~> pc[r] = "done" \/ panic # "none"

\* "Stop gracefully closes all active websocket sessions": the cleanup that
\* Stop runs closes no channel under a goroutine that is about to send.
StopIsGraceful == stop # "idle" => panic # "cleanup"
=============================================================================
