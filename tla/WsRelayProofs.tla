---------------------------- MODULE WsRelayProofs ----------------------------
(***************************************************************************)
(* Theorems about WsRelay, for any number of requests, any capacity of     *)
(* their channels and any number of answers.                               *)
(***************************************************************************)
EXTENDS WsRelay, TLAPS, SequenceTheorems

-----------------------------------------------------------------------------
(***************************************************************************)
(* The inductive invariants.                                               *)
(***************************************************************************)

\* Whoever closes s.closed begins the cleanup, Range starts afresh and is at a key
\* while cleanup sends to it and closes it, dispatch has a message in hand while it
\* delivers, and run starts after onConnected.
Session ==
  /\ closed <=> cleanup # "none"
  /\ cleanup \in {"none", "closed"} => seen = {}
  /\ cleanup \in {"send", "close"} => visiting \in Requests
  /\ reader \in {"deliver", "end"} => message \in Messages
  /\ reader # "off" => handler = "running"

\* Before the session is closed, only the end of a request takes it out of the map.
StoredIsPending ==
  \A r \in Requests : pc[r] \in {"stored", "loaded"} /\ IsOpen(r) /\ ~closed => r \in pending

\* cleanup will still get to r.
ToVisit(r) ==
  \/ cleanup = "closed"
  \/ cleanup = "range" /\ r \in snapshot \ seen
  \/ cleanup \in {"send", "close"} /\ (r = visiting \/ r \in snapshot \ seen)

WaitingIsPending ==
  \A r \in Requests :
    pc[r] \in {"writing", "sent", "receive"} /\ IsOpen(r) => r \in pending /\ (closed => ToVisit(r))

RelayInv == TypeOK /\ Session /\ StoredIsPending /\ WaitingIsPending

\* The messages in the channel of r include one that ends the caller's loop.
Ended(r) == \E i \in 1 .. Len(buffer[r]) : buffer[r][i] \in Terminal

\* The caller has received a prefix of what the peer sent.
GotPrefix(r) ==
  /\ Len(got[r]) <= Len(sent[r])
  /\ \A i \in 1 .. Len(got[r]) : got[r][i] = sent[r][i]

\* Up to the message that ends the loop, the channel holds what comes next, or
\* the error of cleanup.
BufferFollows(r) ==
  \A i \in 1 .. Len(buffer[r]) :
    (\A j \in 1 .. i - 1 : buffer[r][j] \notin Terminal) =>
       \/ buffer[r][i] = "error"
       \/ /\ Len(got[r]) + i <= Len(sent[r])
          /\ buffer[r][i] = sent[r][Len(got[r]) + i]

\* While the channel is open and nothing in it ends the loop, all the peer sent is
\* received, in the channel or in the hands of dispatch.
NothingMissing(r) ==
  IF reader = "deliver" /\ message.id = r
  THEN /\ Len(sent[r]) = Len(got[r]) + Len(buffer[r]) + 1
       /\ sent[r][Len(sent[r])] = message.type
  ELSE Len(sent[r]) = Len(got[r]) + Len(buffer[r])

\* Who closes the channel has put an end into it before.
EndBeforeClose(r) ==
  /\ ~IsOpen(r) => Ended(r)
  /\ reader = "end" /\ message.id = r => Ended(r)
  /\ cleanup = "close" /\ visiting = r => Ended(r)

Channel(r) ==
  pc[r] # "done" /\ r \notin dropped =>
    /\ GotPrefix(r) /\ BufferFollows(r)
    /\ IsOpen(r) /\ ~Ended(r) => NothingMissing(r)
    /\ ~ctxDone[r] => EndBeforeClose(r)

\* The peer ends an answer once, request waits for no answer before it has started
\* the goroutine of the context, and a result is the last thing of a request.
Order ==
  \A r \in Requests :
    /\ \A i \in 1 .. Len(sent[r]) : sent[r][i] \in Terminal => i = Len(sent[r])
    /\ watcher[r] # "none" => pc[r] \in {"receive", "done"}
    /\ outcome[r] # "none" => pc[r] = "done"

AnswerInv == RelayInv /\ Order /\ AnswerIsWhole /\ \A r \in Requests : Channel(r)

-----------------------------------------------------------------------------
(***************************************************************************)
(* Types.                                                                  *)
(***************************************************************************)
\* The connection just upgraded.
LEMMA InitRelay == Init => RelayInv
<1> SUFFICES ASSUME Init PROVE RelayInv OBVIOUS
<1>1. <<>> \in Seq(Types) /\ Len(<<>>) = 0 /\ 0 <= BufferCap BY EmptySeq, RelayAssumption
<1>2. TypeOK BY <1>1 DEF Init, TypeOK
<1>3. Session BY DEF Init, Session
<1>4. StoredIsPending /\ WaitingIsPending BY DEF Init, StoredIsPending, WaitingIsPending
<1> QED BY <1>2, <1>3, <1>4 DEF RelayInv

\* The select with a default case fills the channel up to its capacity.
LEMMA TrySendTypes ==
  ASSUME TypeOK, NEW r \in Requests, NEW t \in Types, TrySend(r, t)
  PROVE  /\ buffer' \in [Requests -> Seq(Types)]
         /\ \A x \in Requests : Len(buffer'[x]) <= BufferCap
         /\ dropped' \subseteq Requests
         /\ panic' \in {"none", "answer", "cancel", "cleanup", "failure"}
<1>1. CASE IsOpen(r) /\ Len(buffer[r]) < BufferCap
  <2>1. buffer' = [buffer EXCEPT ![r] = Append(buffer[r], t)] /\ UNCHANGED <<dropped, panic>>
    BY <1>1 DEF TrySend
  <2>2. buffer[r] \in Seq(Types) BY DEF TypeOK
  <2>3. Append(buffer[r], t) \in Seq(Types) /\ Len(Append(buffer[r], t)) = Len(buffer[r]) + 1
    BY <2>2, AppendProperties
  <2>4. Len(buffer[r]) + 1 <= BufferCap
    <3>1. Len(buffer[r]) \in Nat BY <2>2, LenProperties
    <3> QED BY <1>1, <3>1, RelayAssumption
  <2>5. buffer' \in [Requests -> Seq(Types)] BY <2>1, <2>3 DEF TypeOK
  <2>6. \A x \in Requests : Len(buffer'[x]) <= BufferCap BY <2>1, <2>3, <2>4 DEF TypeOK
  <2> QED BY <2>1, <2>5, <2>6 DEF TypeOK
<1>2. CASE ~(IsOpen(r) /\ Len(buffer[r]) < BufferCap)
  <2>1. /\ buffer' = buffer /\ (dropped' = dropped \/ dropped' = dropped \cup {r})
        /\ (panic' = panic \/ (panic' = closedBy[r] /\ closedBy[r] # "nobody"))
    BY <1>2 DEF TrySend, IsOpen
  <2>2. buffer' \in [Requests -> Seq(Types)] /\ dropped' \subseteq Requests BY <2>1 DEF TypeOK
  <2>3. closedBy[r] \in {"nobody", "answer", "cancel", "cleanup", "failure"} BY DEF TypeOK
  <2>4. panic' \in {"none", "answer", "cancel", "cleanup", "failure"} BY <2>1, <2>3 DEF TypeOK
  <2> QED BY <2>1, <2>2, <2>4 DEF TypeOK
<1> QED BY <1>1, <1>2

\* Closing a channel once.
LEMMA CloseTypes ==
  ASSUME TypeOK, NEW r \in Requests, NEW who \in {"answer", "cancel", "cleanup", "failure"},
         Close(r, who)
  PROVE  /\ closedBy' \in [Requests -> {"nobody", "answer", "cancel", "cleanup", "failure"}]
         /\ closedBy'[r] # "nobody"
         /\ \A x \in Requests : x # r => closedBy'[x] = closedBy[x]
<1>1. closedBy' = [closedBy EXCEPT ![r] = IF IsOpen(r) THEN who ELSE closedBy[r]] BY DEF Close
<1>2. closedBy'[r] # "nobody" BY <1>1 DEF TypeOK, IsOpen
<1> QED BY <1>1, <1>2 DEF TypeOK, IsOpen

\* The end of a request takes it out of the map, and closes its channel if it was there.
LEMMA EndRequestTypes ==
  ASSUME TypeOK, NEW r \in Requests, NEW who \in {"answer", "cancel", "cleanup", "failure"},
         EndRequest(r, who)
  PROVE  /\ closedBy' \in [Requests -> {"nobody", "answer", "cancel", "cleanup", "failure"}]
         /\ pending' = pending \ {r}
         /\ r \in pending => closedBy'[r] # "nobody"
         /\ \A x \in Requests : IsOpen(x)' => IsOpen(x)
         /\ r \notin pending => closedBy' = closedBy
         /\ \A x \in Requests : x # r => closedBy'[x] = closedBy[x]
<1>1. CASE r \in pending
  <2>1. Close(r, who) /\ pending' = pending \ {r} BY <1>1 DEF EndRequest
  <2>2. /\ closedBy' \in [Requests -> {"nobody", "answer", "cancel", "cleanup", "failure"}]
        /\ closedBy'[r] # "nobody"
        /\ \A x \in Requests : x # r => closedBy'[x] = closedBy[x]
    BY <2>1, CloseTypes
  <2> QED BY <1>1, <2>1, <2>2 DEF IsOpen
<1>2. CASE r \notin pending
  <2>1. closedBy' = closedBy /\ pending' = pending \ {r} BY <1>2 DEF EndRequest
  <2> QED BY <1>2, <2>1 DEF TypeOK, IsOpen
<1> QED BY <1>1, <1>2

\* The handler, Stop and the heartbeat.
SessionStep == Register \/ Connected \/ StopManager \/ StopSession \/ HeartbeatFails \/ ReadFails

\* Connecting, reading, the heartbeat and the cleanup keep the types.
LEMMA SessionTypes ==
  ASSUME TypeOK, Session, SessionStep
  PROVE  TypeOK' /\ Session'
<1> USE DEF sessionVars, cleanupVars, readerVars, callerVars, channelVars
<1>1. CASE Register
  <2>1. TypeOK' BY <1>1 DEF TypeOK, Register
  <2>2. Session' BY <1>1 DEF Session, Register
  <2> QED BY <2>1, <2>2
<1>2. CASE Connected
  <2>1. TypeOK' BY <1>2 DEF TypeOK, Connected
  <2>2. Session' BY <1>2 DEF Session, Connected
  <2> QED BY <2>1, <2>2
<1>3. CASE StopManager
  <2>0. stop' \in {"idle", "closing", "done"} /\ registered' \in BOOLEAN BY <1>3 DEF StopManager
  <2>1. TypeOK' BY <1>3, <2>0 DEF TypeOK, StopManager
  <2>2. Session' BY <1>3 DEF Session, StopManager
  <2> QED BY <2>1, <2>2
<1>4. CASE StopSession \/ HeartbeatFails \/ ReadFails
  <2>1. /\ closed' \in BOOLEAN /\ cleanup' \in {"none", "closed", "range", "send", "close", "notify", "done"}
        /\ (closed' <=> cleanup' # "none")
        /\ cleanup' \in {"send", "close"} => cleanup \in {"send", "close"}
        /\ cleanup' \in {"none", "closed"} => cleanup \in {"none", "closed"}
    <3>1. BeginCleanup BY <1>4 DEF StopSession, HeartbeatFails, ReadFails
    <3>2. CASE closed BY <3>1, <3>2 DEF BeginCleanup, TypeOK, Session
    <3>3. CASE ~closed BY <3>1, <3>3 DEF BeginCleanup, TypeOK, Session
    <3> QED BY <3>2, <3>3
  <2>2. /\ UNCHANGED <<handler, registered, credential, connOpen, snapshot, seen, visiting, message,
                       sent, callerVars, channelVars, pending, panic>>
        /\ (stop' = stop \/ stop' = "done")
        /\ (reader' = reader \/ (reader = "read" /\ reader' = "stopped"))
    BY <1>4 DEF StopSession, HeartbeatFails, ReadFails
  <2>3. TypeOK' BY <2>1, <2>2 DEF TypeOK
  <2>4. Session' BY <2>1, <2>2 DEF Session
  <2> QED BY <2>3, <2>4
<1> QED BY <1>1, <1>2, <1>3, <1>4 DEF SessionStep

\* The steps of cleanup.
LEMMA CleanupTypes ==
  ASSUME TypeOK, Session, CleanupStep
  PROVE  TypeOK' /\ Session'
<1> USE DEF sessionVars, cleanupVars, readerVars, callerVars, channelVars
<1>1. CASE RangeBegin \/ ResetPending \/ SessionClosed
  <2>a. ASSUME RangeBegin PROVE TypeOK' BY <2>a DEF TypeOK, RangeBegin
  <2>b. ASSUME ResetPending PROVE TypeOK' BY <2>b DEF TypeOK, ResetPending
  <2>c. ASSUME SessionClosed PROVE TypeOK' BY <2>c DEF TypeOK, SessionClosed
  <2>1. TypeOK' BY <1>1, <2>a, <2>b, <2>c
  <2>2. Session' BY <1>1 DEF Session, RangeBegin, ResetPending, SessionClosed
  <2> QED BY <2>1, <2>2
<1>2. ASSUME NEW r \in Requests, RangeVisit(r) PROVE TypeOK' /\ Session'
  <2>1. TypeOK' BY <1>2 DEF TypeOK, RangeVisit
  <2>2. Session' BY <1>2 DEF Session, RangeVisit
  <2> QED BY <2>1, <2>2
<1>3. CASE RangeSend
  <2>1. visiting \in Requests /\ "error" \in Types /\ TrySend(visiting, "error")
    BY <1>3 DEF RangeSend, Session, Types
  <2>2. /\ buffer' \in [Requests -> Seq(Types)]
        /\ \A x \in Requests : Len(buffer'[x]) <= BufferCap
        /\ dropped' \subseteq Requests
        /\ panic' \in {"none", "answer", "cancel", "cleanup", "failure"}
    BY <2>1, TrySendTypes
  <2>3. TypeOK' BY <1>3, <2>2 DEF TypeOK, RangeSend
  <2>4. Session' BY <1>3 DEF Session, RangeSend
  <2> QED BY <2>3, <2>4
<1>4. CASE RangeClose
  <2>1. visiting \in Requests /\ Close(visiting, "cleanup") BY <1>4 DEF RangeClose, Session
  <2>2. closedBy' \in [Requests -> {"nobody", "answer", "cancel", "cleanup", "failure"}]
    BY <2>1, CloseTypes
  <2>3. TypeOK' BY <1>4, <2>2 DEF TypeOK, RangeClose
  <2>4. Session' BY <1>4 DEF Session, RangeClose
  <2> QED BY <2>3, <2>4
<1> QED BY <1>1, <1>2, <1>3, <1>4 DEF CleanupStep

\* run and dispatch.
LEMMA ReaderTypes ==
  ASSUME TypeOK, Session,
         ReaderStep \/ \E r \in Requests, type \in Types : ReadMessage(r, type)
  PROVE  TypeOK' /\ Session'
<1> USE DEF sessionVars, cleanupVars, readerVars, callerVars, channelVars
<1>1. ASSUME NEW r \in Requests, NEW type \in Types, ReadMessage(r, type) PROVE TypeOK' /\ Session'
  <2>1. Append(sent[r], type) \in Seq(Types)
    <3>1. sent[r] \in Seq(Types) BY DEF TypeOK
    <3> QED BY <3>1, AppendProperties
  <2>2. sent' \in [Requests -> Seq(Types)] BY <1>1, <2>1 DEF TypeOK, ReadMessage
  <2>3. [id |-> r, type |-> type] \in Messages BY DEF Messages
  <2>4. reader' \in {"off", "read", "deliver", "end", "stopped"} /\ message' \in Messages \cup {NoMessage}
    BY <1>1, <2>3 DEF TypeOK, ReadMessage
  <2>5. TypeOK' BY <1>1, <2>2, <2>4 DEF TypeOK, ReadMessage
  <2>6. Session' BY <1>1, <2>3 DEF Session, ReadMessage
  <2> QED BY <2>5, <2>6
<1>2. CASE Deliver
  <2>1. message \in Messages BY <1>2 DEF Deliver, Session
  <2>2. message.id \in Requests /\ message.type \in Types BY <2>1 DEF Messages
  <2>3. TrySend(message.id, message.type) BY <1>2 DEF Deliver
  <2>4. /\ buffer' \in [Requests -> Seq(Types)]
        /\ \A x \in Requests : Len(buffer'[x]) <= BufferCap
        /\ dropped' \subseteq Requests
        /\ panic' \in {"none", "answer", "cancel", "cleanup", "failure"}
    BY <2>2, <2>3, TrySendTypes
  <2>5. reader' \in {"read", "end"} /\ message' \in Messages \cup {NoMessage}
    BY <1>2, <2>1 DEF Deliver
  <2>6. TypeOK' BY <1>2, <2>4, <2>5 DEF TypeOK, Deliver
  <2>7. Session' BY <1>2, <2>1 DEF Session, Deliver
  <2> QED BY <2>6, <2>7
<1>3. CASE DeliverEnd
  <2>1. message.id \in Requests BY <1>3 DEF DeliverEnd, Session, Messages
  <2>2. EndRequest(message.id, "answer") BY <1>3 DEF DeliverEnd
  <2>3. /\ closedBy' \in [Requests -> {"nobody", "answer", "cancel", "cleanup", "failure"}]
        /\ pending' = pending \ {message.id}
    BY <2>1, <2>2, EndRequestTypes
  <2>4. TypeOK' BY <1>3, <2>3 DEF TypeOK, DeliverEnd
  <2>5. Session' BY <1>3 DEF Session, DeliverEnd
  <2> QED BY <2>4, <2>5
<1> QED BY <1>1, <1>2, <1>3 DEF ReaderStep

\* What the caller of a request does until it returns.
LEMMA FinishTypes ==
  ASSUME TypeOK, NEW r \in Requests, NEW result \in {"ok", "error", "cancelled", "panic"},
         Finish(r, result)
  PROVE  /\ pc' \in [Requests -> {"idle", "found", "stored", "loaded", "writing",
                                  "failed", "sent", "receive", "done"}]
         /\ outcome' \in [Requests -> {"none", "ok", "error", "cancelled", "panic"}]
         /\ pc'[r] = "done" /\ outcome'[r] = result
         /\ \A x \in Requests : x # r => pc'[x] = pc[x] /\ outcome'[x] = outcome[x]
BY DEF Finish, TypeOK

\* A request that moves on changes its own program counter only.
LEMMA GotoTypes ==
  ASSUME TypeOK, NEW r \in Requests,
         NEW step \in {"found", "stored", "loaded", "writing", "failed", "sent", "receive"},
         Goto(r, step)
  PROVE  /\ pc' \in [Requests -> {"idle", "found", "stored", "loaded", "writing",
                                  "failed", "sent", "receive", "done"}]
         /\ outcome' = outcome
         /\ pc'[r] = step /\ \A x \in Requests : x # r => pc'[x] = pc[x]
BY DEF Goto, TypeOK

\* Send, request and the goroutine of the context.
RequestStep(r) ==
  \/ Send(r) \/ Store(r) \/ Reload(r) \/ CheckClosed(r)
  \/ WriteSucceeds(r) \/ WriteFails(r) \/ Fail(r) \/ StartWatcher(r)
  \/ CancelContext(r) \/ WatchContext(r) \/ WatchClosed(r)

\* The caller's loop.
ReceiveStep(r) == Receive(r) \/ ReceiveClosed(r) \/ ReceiveCancelled(r)

\* A request's steps up to the write of its message keep the types.
LEMMA RequestTypes ==
  ASSUME TypeOK, Session, NEW r \in Requests, RequestStep(r)
  PROVE  TypeOK' /\ Session'
<1> USE DEF sessionVars, cleanupVars, readerVars, callerVars, channelVars
<1> DEFINE Steps == {"idle", "found", "stored", "loaded", "writing", "failed", "sent", "receive", "done"}
           Results == {"none", "ok", "error", "cancelled", "panic"}
<1>1. CASE Send(r) \/ Reload(r) \/ CheckClosed(r) \/ WriteSucceeds(r) \/ WriteFails(r)
  <2>1. pc' \in [Requests -> Steps] /\ outcome' \in [Requests -> Results]
    <3>1. CASE \E result \in {"ok", "error", "cancelled", "panic"} : Finish(r, result)
      BY <3>1, FinishTypes
    <3>2. CASE \E step \in {"found", "stored", "loaded", "writing", "failed", "sent", "receive"} :
                 Goto(r, step)
      BY <3>2, GotoTypes DEF TypeOK
    <3> QED BY <1>1, <3>1, <3>2 DEF Send, Reload, CheckClosed, WriteSucceeds, WriteFails
  <2>2. UNCHANGED <<sessionVars, cleanupVars, readerVars, mode, ctxDone, watcher, got, channelVars,
                    pending, stop, panic>>
    BY <1>1 DEF Send, Reload, CheckClosed, WriteSucceeds, WriteFails
  <2>3. TypeOK' BY <2>1, <2>2 DEF TypeOK
  <2>4. Session' BY <2>2 DEF Session
  <2> QED BY <2>3, <2>4
<1>2. CASE Store(r)
  <2>1. Goto(r, "stored") BY <1>2 DEF Store
  <2>2. pc' \in [Requests -> Steps] /\ outcome' = outcome BY <2>1, GotoTypes
  <2>3. TypeOK' BY <1>2, <2>2 DEF TypeOK, Store
  <2>4. Session' BY <1>2 DEF Session, Store
  <2> QED BY <2>3, <2>4
<1>3. CASE Fail(r)
  <2>1. Finish(r, "error") /\ EndRequest(r, "failure") BY <1>3 DEF Fail
  <2>2. pc' \in [Requests -> Steps] /\ outcome' \in [Requests -> Results] BY <2>1, FinishTypes
  <2>3. /\ closedBy' \in [Requests -> {"nobody", "answer", "cancel", "cleanup", "failure"}]
        /\ pending' = pending \ {r}
    BY <2>1, EndRequestTypes
  <2>4. TypeOK' BY <1>3, <2>2, <2>3 DEF TypeOK, Fail
  <2>5. Session' BY <1>3 DEF Session, Fail
  <2> QED BY <2>4, <2>5
<1>4. CASE StartWatcher(r)
  <2>1. Goto(r, "receive") BY <1>4 DEF StartWatcher
  <2>2. pc' \in [Requests -> Steps] /\ outcome' = outcome BY <2>1, GotoTypes
  <2>a. watcher' \in [Requests -> {"none", "waiting", "done"}] BY <1>4 DEF TypeOK, StartWatcher
  <2>3. TypeOK' BY <1>4, <2>2, <2>a DEF TypeOK, StartWatcher
  <2>4. Session' BY <1>4 DEF Session, StartWatcher
  <2> QED BY <2>3, <2>4
<1>5. CASE CancelContext(r) \/ WatchClosed(r)
  <2>1. ASSUME CancelContext(r) PROVE TypeOK' /\ Session' BY <2>1 DEF TypeOK, CancelContext, Session
  <2>2. ASSUME WatchClosed(r) PROVE TypeOK' /\ Session' BY <2>2 DEF TypeOK, WatchClosed, Session
  <2> QED BY <1>5, <2>1, <2>2
<1>6. CASE WatchContext(r)
  <2>1. EndRequest(r, "cancel") BY <1>6 DEF WatchContext
  <2>2. /\ closedBy' \in [Requests -> {"nobody", "answer", "cancel", "cleanup", "failure"}]
        /\ pending' = pending \ {r}
    BY <2>1, EndRequestTypes
  <2>a. watcher' \in [Requests -> {"none", "waiting", "done"}] BY <1>6 DEF TypeOK, WatchContext
  <2>3. TypeOK' BY <1>6, <2>2, <2>a DEF TypeOK, WatchContext
  <2>4. Session' BY <1>6 DEF Session, WatchContext
  <2> QED BY <2>3, <2>4
<1> QED BY <1>1, <1>2, <1>3, <1>4, <1>5, <1>6 DEF RequestStep

\* A caller's steps on its response channel keep the types.
LEMMA ReceiveTypes ==
  ASSUME TypeOK, Session, NEW r \in Requests, ReceiveStep(r)
  PROVE  TypeOK' /\ Session'
<1> USE DEF sessionVars, cleanupVars, readerVars, callerVars, channelVars
<1> DEFINE Steps == {"idle", "found", "stored", "loaded", "writing", "failed", "sent", "receive", "done"}
           Results == {"none", "ok", "error", "cancelled", "panic"}
<1>1. CASE Receive(r)
  <2>1. buffer[r] \in Seq(Types) /\ buffer[r] # <<>> /\ got[r] \in Seq(Types)
    BY <1>1 DEF TypeOK, Receive
  <2>2. /\ Head(buffer[r]) \in Types /\ Tail(buffer[r]) \in Seq(Types)
        /\ Len(Tail(buffer[r])) = Len(buffer[r]) - 1
    BY <2>1, HeadTailProperties
  <2>3. Append(got[r], Head(buffer[r])) \in Seq(Types) BY <2>1, <2>2, AppendProperties
  <2>4. /\ buffer' = [buffer EXCEPT ![r] = Tail(buffer[r])]
        /\ got' = [got EXCEPT ![r] = Append(got[r], Head(buffer[r]))]
        /\ UNCHANGED <<sessionVars, cleanupVars, readerVars, mode, ctxDone, watcher, closedBy,
                       dropped, pending, stop, panic>>
    BY <1>1 DEF Receive
  <2>5. buffer' \in [Requests -> Seq(Types)] /\ got' \in [Requests -> Seq(Types)]
    BY <2>2, <2>3, <2>4 DEF TypeOK
  <2>6. Len(buffer[r]) - 1 <= BufferCap
    <3>1. Len(buffer[r]) \in Nat /\ Len(buffer[r]) <= BufferCap BY <2>1, LenProperties DEF TypeOK
    <3> QED BY <3>1, RelayAssumption
  <2>7. \A x \in Requests : Len(buffer'[x]) <= BufferCap BY <2>2, <2>4, <2>6 DEF TypeOK
  <2>8. pc' \in [Requests -> Steps] /\ outcome' \in [Requests -> Results]
    <3>1. CASE \E result \in {"ok", "error", "cancelled", "panic"} : Finish(r, result)
      BY <3>1, FinishTypes
    <3>2. CASE UNCHANGED <<pc, outcome>> BY <3>2 DEF TypeOK
    <3> QED BY <1>1, <3>1, <3>2 DEF Receive
  <2>9. TypeOK' BY <2>4, <2>5, <2>7, <2>8 DEF TypeOK
  <2>10. Session' BY <2>4 DEF Session
  <2> QED BY <2>9, <2>10
<1>2. CASE ReceiveClosed(r) \/ ReceiveCancelled(r)
  <2>1. \E result \in {"ok", "error", "cancelled", "panic"} : Finish(r, result)
    BY <1>2 DEF ReceiveClosed, ReceiveCancelled
  <2>2. pc' \in [Requests -> Steps] /\ outcome' \in [Requests -> Results] BY <2>1, FinishTypes
  <2>3. UNCHANGED <<sessionVars, cleanupVars, readerVars, mode, ctxDone, watcher, got, channelVars,
                    pending, stop, panic>>
    BY <1>2 DEF ReceiveClosed, ReceiveCancelled
  <2>4. TypeOK' BY <2>2, <2>3 DEF TypeOK
  <2>5. Session' BY <2>3 DEF Session
  <2> QED BY <2>4, <2>5
<1> QED BY <1>1, <1>2 DEF ReceiveStep

-----------------------------------------------------------------------------
(***************************************************************************)
(* A waiting caller is not forgotten.                                      *)
(***************************************************************************)
Tracked == StoredIsPending /\ WaitingIsPending

\* What cleanup does, whoever begins it.
LEMMA CleanupTracks ==
  ASSUME RelayInv, CleanupStep \/ (BeginCleanup /\ UNCHANGED <<pc, closedBy, pending, snapshot, seen, visiting>>)
  PROVE  Tracked'
<1> USE DEF sessionVars, cleanupVars, readerVars, callerVars, channelVars
<1>1. CASE BeginCleanup /\ UNCHANGED <<pc, closedBy, pending, snapshot, seen, visiting>>
  <2>1. CASE closed
    BY <1>1, <2>1 DEF BeginCleanup, RelayInv, Tracked, StoredIsPending, WaitingIsPending, ToVisit, IsOpen
  <2>2. CASE ~closed
    BY <1>1, <2>2 DEF BeginCleanup, RelayInv, Tracked, StoredIsPending, WaitingIsPending, ToVisit, IsOpen
  <2> QED BY <2>1, <2>2
<1>2. CASE RangeBegin
  BY <1>2 DEF RangeBegin, RelayInv, Session, Tracked, StoredIsPending, WaitingIsPending, ToVisit, IsOpen,
              TypeOK
<1>3. ASSUME NEW r \in Requests, RangeVisit(r) PROVE Tracked'
  BY <1>3 DEF RangeVisit, RelayInv, Tracked, StoredIsPending, WaitingIsPending, ToVisit, IsOpen
<1>4. CASE RangeSend
  BY <1>4 DEF RangeSend, RelayInv, Tracked, StoredIsPending, WaitingIsPending, ToVisit, IsOpen
<1>5. CASE RangeClose
  <2>1. visiting \in Requests /\ Close(visiting, "cleanup") BY <1>5 DEF RangeClose, RelayInv, Session
  <2>2. closedBy'[visiting] # "nobody" /\ \A x \in Requests : x # visiting => closedBy'[x] = closedBy[x]
    BY <2>1, CloseTypes DEF RelayInv
  <2>3. \A x \in Requests : closedBy'[x] = "nobody" => closedBy[x] = "nobody" /\ x # visiting
    BY <2>2 DEF IsOpen
  <2> QED
    BY <1>5, <2>3 DEF RangeClose, RelayInv, Tracked, StoredIsPending, WaitingIsPending, ToVisit, IsOpen
<1>6. CASE ResetPending
  <2>1. /\ cleanup = "range" /\ closed /\ closed' = closed /\ snapshot \cap pending \subseteq seen
        /\ UNCHANGED <<pc, closedBy>>
    BY <1>6 DEF ResetPending, RelayInv, Session
  <2>2. \A r \in Requests : ~(pc[r] \in {"writing", "sent", "receive"} /\ IsOpen(r))
    BY <2>1 DEF RelayInv, WaitingIsPending, ToVisit
  <2> QED BY <2>1, <2>2 DEF Tracked, StoredIsPending, WaitingIsPending, IsOpen
<1>7. CASE SessionClosed
  <2>1. /\ cleanup = "notify" /\ closed /\ closed' = closed /\ UNCHANGED <<pc, closedBy>>
    BY <1>7 DEF SessionClosed, RelayInv, Session
  <2>2. \A r \in Requests : ~(pc[r] \in {"writing", "sent", "receive"} /\ IsOpen(r))
    BY <2>1 DEF RelayInv, WaitingIsPending, ToVisit
  <2> QED BY <2>1, <2>2 DEF Tracked, StoredIsPending, WaitingIsPending, IsOpen
<1> QED BY <1>1, <1>2, <1>3, <1>4, <1>5, <1>6, <1>7 DEF CleanupStep

\* The end of a request, by an answer or by its context.
LEMMA EndTracks ==
  ASSUME RelayInv, NEW r \in Requests, NEW who \in {"answer", "cancel", "cleanup", "failure"},
         EndRequest(r, who), UNCHANGED <<pc, closed, cleanup, snapshot, seen, visiting>>
  PROVE  Tracked'
<1>1. /\ pending' = pending \ {r}
      /\ r \in pending => closedBy'[r] # "nobody"
      /\ \A x \in Requests : IsOpen(x)' => IsOpen(x)
  BY EndRequestTypes DEF RelayInv
<1>2. \A x \in Requests : IsOpen(x)' /\ x \in pending => x \in pending' BY <1>1 DEF IsOpen
<1>3. \A x \in Requests : ToVisit(x)' <=> ToVisit(x) BY DEF ToVisit
<1>4. StoredIsPending' BY <1>1, <1>2 DEF RelayInv, StoredIsPending
<1>5. WaitingIsPending' BY <1>1, <1>2, <1>3 DEF RelayInv, WaitingIsPending
<1> QED BY <1>4, <1>5 DEF Tracked

\* A caller takes a step of its own.
LEMMA RequestTracks ==
  ASSUME RelayInv, NEW r \in Requests, RequestStep(r) \/ ReceiveStep(r)
  PROVE  Tracked'
<1> USE DEF sessionVars, cleanupVars, readerVars, callerVars, channelVars
<1>0. TypeOK BY DEF RelayInv
<1>1. CASE Store(r)
  <2>1. /\ pc'[r] = "stored" /\ \A x \in Requests : x # r => pc'[x] = pc[x]
    BY <1>0, <1>1, GotoTypes DEF Store
  <2>2. pending' = pending \cup {r} /\ UNCHANGED <<closedBy, closed, cleanup, snapshot, seen, visiting>>
    BY <1>1 DEF Store
  <2>3. \A x \in Requests : (ToVisit(x)' <=> ToVisit(x)) /\ (IsOpen(x)' <=> IsOpen(x))
    BY <2>2 DEF ToVisit, IsOpen
  <2>4. StoredIsPending' BY <2>1, <2>2, <2>3 DEF RelayInv, StoredIsPending
  <2>5. WaitingIsPending' BY <2>1, <2>2, <2>3 DEF RelayInv, WaitingIsPending
  <2> QED BY <2>4, <2>5 DEF Tracked
<1>2. CASE Fail(r)
  <2>1. EndRequest(r, "failure") /\ Finish(r, "error") BY <1>2 DEF Fail
  <2>2. /\ pending' = pending \ {r}
        /\ \A x \in Requests : IsOpen(x)' => IsOpen(x)
    BY <1>0, <2>1, EndRequestTypes
  <2>3. pc'[r] = "done" /\ \A x \in Requests : x # r => pc'[x] = pc[x]
    BY <1>0, <2>1, FinishTypes
  <2>4. UNCHANGED <<closed, cleanup, snapshot, seen, visiting>> BY <1>2 DEF Fail
  <2>5. \A x \in Requests : ToVisit(x)' <=> ToVisit(x) BY <2>4 DEF ToVisit
  <2>6. StoredIsPending' BY <2>2, <2>3, <2>4 DEF RelayInv, StoredIsPending
  <2>7. WaitingIsPending' BY <2>2, <2>3, <2>4, <2>5 DEF RelayInv, WaitingIsPending
  <2> QED BY <2>6, <2>7 DEF Tracked
<1>3. CASE WatchContext(r) BY <1>3, EndTracks DEF WatchContext
<1>4. CASE CancelContext(r) \/ WatchClosed(r)
  <2>1. UNCHANGED <<pc, closedBy, pending, closed, cleanup, snapshot, seen, visiting>>
    BY <1>4 DEF CancelContext, WatchClosed
  <2> QED BY <2>1 DEF RelayInv, Tracked, StoredIsPending, WaitingIsPending, ToVisit, IsOpen
<1>5. CASE \/ Send(r) \/ Reload(r) \/ CheckClosed(r) \/ WriteSucceeds(r) \/ WriteFails(r)
           \/ StartWatcher(r) \/ ReceiveStep(r)
  <2>1. UNCHANGED <<closedBy, pending, closed, cleanup, snapshot, seen, visiting>>
    BY <1>5 DEF Send, Reload, CheckClosed, WriteSucceeds, WriteFails, StartWatcher, ReceiveStep, Receive,
                ReceiveClosed, ReceiveCancelled
  <2>2. \A x \in Requests : (ToVisit(x)' <=> ToVisit(x)) /\ (IsOpen(x)' <=> IsOpen(x))
    BY <2>1 DEF ToVisit, IsOpen
  <2>3. /\ \A x \in Requests : x # r => pc'[x] = pc[x]
        /\ \/ pc'[r] \in {"done", "found", "failed", pc[r]}
           \/ pc[r] = "stored" /\ pc'[r] = "loaded"
           \/ pc[r] = "loaded" /\ pc'[r] = "writing" /\ ~closed
           \/ pc[r] = "writing" /\ pc'[r] = "sent"
           \/ pc[r] = "sent" /\ pc'[r] = "receive"
    <3>1. ASSUME NEW step \in {"found", "loaded", "writing", "failed", "sent", "receive"}, Goto(r, step)
          PROVE  pc'[r] = step /\ \A x \in Requests : x # r => pc'[x] = pc[x]
      BY <1>0, <3>1, GotoTypes
    <3>2. ASSUME NEW result \in {"ok", "error", "cancelled", "panic"}, Finish(r, result)
          PROVE  pc'[r] = "done" /\ \A x \in Requests : x # r => pc'[x] = pc[x]
      BY <1>0, <3>2, FinishTypes
    <3>3. CASE Send(r) \/ Reload(r) BY <3>1, <3>2, <3>3 DEF Send, Reload
    <3>4. CASE CheckClosed(r) BY <3>1, <3>4 DEF CheckClosed
    <3>5. CASE WriteSucceeds(r) \/ WriteFails(r) \/ StartWatcher(r)
      BY <3>1, <3>5 DEF WriteSucceeds, WriteFails, StartWatcher
    <3>6. CASE Receive(r) BY <3>2, <3>6 DEF Receive
    <3>7. CASE ReceiveClosed(r) \/ ReceiveCancelled(r)
      BY <3>2, <3>7 DEF ReceiveClosed, ReceiveCancelled
    <3> QED BY <1>5, <3>3, <3>4, <3>5, <3>6, <3>7 DEF ReceiveStep
  <2>4. StoredIsPending' BY <2>1, <2>2, <2>3 DEF RelayInv, StoredIsPending
  <2>5. WaitingIsPending' BY <2>1, <2>2, <2>3 DEF RelayInv, StoredIsPending, WaitingIsPending
  <2> QED BY <2>4, <2>5 DEF Tracked
<1> QED BY <1>1, <1>2, <1>3, <1>4, <1>5 DEF RequestStep

\* Every step keeps the types and the track of the callers.
LEMMA NextRelay == RelayInv /\ [Next]_vars => RelayInv'
<1> SUFFICES ASSUME RelayInv, [Next]_vars PROVE RelayInv' OBVIOUS
<1> USE DEF sessionVars, cleanupVars, readerVars, callerVars, channelVars
<1>0. TypeOK /\ Session BY DEF RelayInv
<1>q. ASSUME UNCHANGED <<pc, closedBy, pending, closed, cleanup, snapshot, seen, visiting>> PROVE Tracked'
  BY <1>q DEF RelayInv, Tracked, StoredIsPending, WaitingIsPending, ToVisit, IsOpen
<1>1. CASE SessionStep
  <2>1. Tracked'
    <3>1. CASE Register \/ Connected \/ StopManager BY <1>q, <3>1 DEF Register, Connected, StopManager
    <3>2. CASE StopSession \/ HeartbeatFails \/ ReadFails
      BY <3>2, CleanupTracks DEF StopSession, HeartbeatFails, ReadFails
    <3> QED BY <1>1, <3>1, <3>2 DEF SessionStep
  <2> QED BY <1>0, <1>1, <2>1, SessionTypes DEF RelayInv, Tracked
<1>2. CASE CleanupStep BY <1>0, <1>2, CleanupTypes, CleanupTracks DEF RelayInv, Tracked
<1>3. ASSUME NEW r \in Requests, NEW type \in Types, ReadMessage(r, type) PROVE RelayInv'
  <2>1. Tracked' BY <1>q, <1>3 DEF ReadMessage
  <2> QED BY <1>0, <1>3, <2>1, ReaderTypes DEF RelayInv, Tracked
<1>4. CASE ReaderStep
  <2>1. ASSUME Deliver PROVE Tracked' BY <1>q, <2>1 DEF Deliver
  <2>2. ASSUME DeliverEnd PROVE Tracked'
    <3>1. message.id \in Requests BY <2>2, <1>0 DEF DeliverEnd, Session, Messages
    <3> QED BY <2>2, <3>1, EndTracks DEF DeliverEnd
  <2>3. Tracked' BY <1>4, <2>1, <2>2 DEF ReaderStep
  <2> QED BY <1>0, <1>4, <2>3, ReaderTypes DEF RelayInv, Tracked
<1>5. ASSUME NEW r \in Requests, RequestStep(r) \/ ReceiveStep(r) PROVE RelayInv'
  BY <1>0, <1>5, RequestTypes, ReceiveTypes, RequestTracks DEF RelayInv, Tracked
<1>6. CASE UNCHANGED vars
  <2>1. Tracked' BY <1>6, <1>q DEF vars
  <2>2. TypeOK' BY <1>0, <1>6 DEF vars, TypeOK
  <2>3. Session' BY <1>0, <1>6 DEF vars, Session
  <2> QED BY <2>1, <2>2, <2>3 DEF RelayInv, Tracked
<1> QED BY <1>1, <1>2, <1>3, <1>4, <1>5, <1>6 DEF Next, SessionStep, CallerStep, RequestStep, ReceiveStep

\* A caller that waits on an open channel is pending, and once the session is
\* closed cleanup still has to visit it; the variables keep their types.
THEOREM WaitingIsTrackedHolds == Spec => []WaitingIsTracked
<1>1. RelayInv => WaitingIsTracked BY DEF RelayInv, WaitingIsPending, ToVisit, WaitingIsTracked
<1> QED BY <1>1, InitRelay, NextRelay, PTL DEF Spec

-----------------------------------------------------------------------------
(***************************************************************************)
(* A success is the whole answer.                                          *)
(***************************************************************************)

\* dispatch is about to put a message into the channel of r.
InHand(r) == reader = "deliver" /\ message.id = r

\* The caller still looks at its channel, which has lost nothing.
Live(r) == pc[r] # "done" /\ r \notin dropped

\* Arithmetic on those lengths.
LEMMA Arithmetic ==
  \A a, b \in Nat : /\ a + b + 1 = a + (b + 1) /\ a + (b + 1) <= a + b + 1
                     /\ (a + 1) + b = a + (b + 1) /\ (a + 1) + (b - 1) = a + b
OBVIOUS

\* The lengths of the three sequences.
LEMMA Lengths ==
  ASSUME TypeOK, NEW r \in Requests
  PROVE  \E g, n, m \in Nat :
           /\ g = Len(got[r]) /\ n = Len(buffer[r]) /\ m = Len(sent[r])
           /\ got[r] \in Seq(Types) /\ buffer[r] \in Seq(Types) /\ sent[r] \in Seq(Types)
           /\ DOMAIN got[r] = 1 .. g /\ DOMAIN buffer[r] = 1 .. n /\ DOMAIN sent[r] = 1 .. m
<1>1. got[r] \in Seq(Types) /\ buffer[r] \in Seq(Types) /\ sent[r] \in Seq(Types) BY DEF TypeOK
<1> QED BY <1>1, LenProperties

\* A step that touches none of the three.
LEMMA SteadyChannel ==
  ASSUME NEW r \in Requests, Channel(r), Live(r)' => Live(r),
         got'[r] = got[r], sent'[r] = sent[r], buffer'[r] = buffer[r],
         IsOpen(r)' => /\ IsOpen(r) /\ (InHand(r)' <=> InHand(r))
                       /\ InHand(r) => message'.type = message.type,
         Live(r)' /\ ~ctxDone'[r] => EndBeforeClose(r)'
  PROVE  Channel(r)'
<1> SUFFICES ASSUME Live(r)'
             PROVE  /\ GotPrefix(r)' /\ BufferFollows(r)'
                    /\ IsOpen(r)' /\ ~Ended(r)' => NothingMissing(r)'
                    /\ ~ctxDone'[r] => EndBeforeClose(r)'
  BY DEF Channel, Live
<1>1. GotPrefix(r) /\ BufferFollows(r) /\ (IsOpen(r) /\ ~Ended(r) => NothingMissing(r))
  BY DEF Channel, Live
<1>2. GotPrefix(r)' BY <1>1 DEF GotPrefix
<1>3. BufferFollows(r)' BY <1>1 DEF BufferFollows
<1>4. Ended(r)' <=> Ended(r) BY DEF Ended
<1>5. ASSUME IsOpen(r)', ~Ended(r)' PROVE NothingMissing(r)'
  BY <1>1, <1>4, <1>5 DEF NothingMissing, InHand
<1> QED BY <1>2, <1>3, <1>5

\* A message is appended to the channel.
LEMMA AppendChannel ==
  ASSUME TypeOK, NEW r \in Requests, NEW t \in Types, GotPrefix(r), BufferFollows(r),
         got'[r] = got[r], sent'[r] = sent[r], buffer'[r] = Append(buffer[r], t),
         ~Ended(r) => \/ t = "error"
                      \/ /\ Len(sent[r]) = Len(got[r]) + Len(buffer[r]) + 1
                         /\ sent[r][Len(sent[r])] = t
  PROVE  /\ GotPrefix(r)' /\ BufferFollows(r)' /\ Len(buffer'[r]) = Len(buffer[r]) + 1
         /\ Ended(r) => Ended(r)'
         /\ t \in Terminal => Ended(r)'
<1>1. PICK g, n, m \in Nat :
        /\ g = Len(got[r]) /\ n = Len(buffer[r]) /\ m = Len(sent[r])
        /\ buffer[r] \in Seq(Types)
  BY Lengths
<1>2. /\ Len(buffer'[r]) = n + 1 /\ buffer'[r][n + 1] = t
      /\ \A i \in 1 .. n : buffer'[r][i] = buffer[r][i]
  BY <1>1, AppendProperties
<1>3. GotPrefix(r)' BY DEF GotPrefix
<1>4. \A i \in 1 .. n + 1 : i \in 1 .. n \/ i = n + 1 BY <1>1
<1>5. \A i \in 1 .. n : i \in 1 .. n + 1 /\ \A j \in 1 .. i - 1 : j \in 1 .. n BY <1>1
<1>6. Ended(r) => Ended(r)' BY <1>1, <1>2, <1>5 DEF Ended
<1>7. n + 1 \in 1 .. n + 1 /\ \A j \in 1 .. (n + 1) - 1 : j \in 1 .. n BY <1>1
<1>8. t \in Terminal => Ended(r)' BY <1>1, <1>2, <1>7 DEF Ended
<1>9. ASSUME NEW i \in 1 .. n + 1, \A j \in 1 .. i - 1 : buffer'[r][j] \notin Terminal
      PROVE  \/ buffer'[r][i] = "error"
             \/ g + i <= m /\ buffer'[r][i] = sent[r][g + i]
  <2>1. CASE i \in 1 .. n
    <3>1. \A j \in 1 .. i - 1 : buffer[r][j] \notin Terminal BY <1>2, <1>5, <1>9, <2>1
    <3>2. buffer[r][i] = "error" \/ (g + i <= m /\ buffer[r][i] = sent[r][g + i])
      BY <1>1, <2>1, <3>1 DEF BufferFollows
    <3> QED BY <1>2, <2>1, <3>2
  <2>2. CASE i = n + 1
    <3>1. \A j \in 1 .. n : j \in 1 .. i - 1 BY <1>1, <2>2
    <3>2. \A j \in 1 .. n : buffer[r][j] \notin Terminal BY <1>2, <1>9, <3>1
    <3>3. ~Ended(r) BY <1>1, <3>2 DEF Ended
    <3>4. t = "error" \/ (m = g + n + 1 /\ sent[r][m] = t) BY <1>1, <3>3
    <3>5. g + n + 1 = g + (n + 1) /\ g + (n + 1) <= g + n + 1 BY Arithmetic, Zenon
    <3> QED BY <1>2, <2>2, <3>4, <3>5
  <2> QED BY <1>4, <2>1, <2>2
<1>10. BufferFollows(r)'
  <2>1. Len(got'[r]) = g /\ Len(sent'[r]) = m BY <1>1
  <2> QED BY <1>2, <1>9, <2>1 DEF BufferFollows
<1> QED BY <1>1, <1>2, <1>3, <1>6, <1>8, <1>10

\* dispatch delivers the message it has in hand.
LEMMA DeliverChannel ==
  ASSUME AnswerInv, Deliver, NEW x \in Requests
  PROVE  Channel(x)'
<1> USE DEF sessionVars, cleanupVars, readerVars, callerVars, channelVars
<1>0. TypeOK /\ Channel(x) BY DEF AnswerInv, RelayInv
<1>1. message \in Messages BY DEF Deliver, AnswerInv, RelayInv, Session
<1>2. PICK r \in Requests, t \in Types : r = message.id /\ t = message.type BY <1>1 DEF Messages
<1>3. /\ TrySend(r, t) /\ reader = "deliver"
      /\ UNCHANGED <<closedBy, got, sent, pc, ctxDone, cleanup, visiting>>
      /\ IF t \in Terminal THEN reader' = "end" /\ message' = message
                           ELSE reader' = "read" /\ message' = NoMessage
  BY <1>2 DEF Deliver
<1>4. /\ \A y \in Requests : y # r => buffer'[y] = buffer[y] /\ (y \in dropped' <=> y \in dropped)
      /\ \A y \in Requests : y \in dropped => y \in dropped'
  BY <1>0, <1>3 DEF TrySend, TypeOK
<1>5. ~InHand(x)' /\ (reader' = "end" /\ message'.id = x => x = r /\ t \in Terminal)
  BY <1>2, <1>3 DEF InHand
<1>6. (Live(x)' => Live(x)) /\ (IsOpen(x)' <=> IsOpen(x)) BY <1>3, <1>4 DEF Live, IsOpen
<1>7. CASE x # r
  <2>1. ~InHand(x) /\ buffer'[x] = buffer[x] BY <1>2, <1>4, <1>7 DEF InHand
  <2>2. ASSUME Live(x)', ~ctxDone'[x] PROVE EndBeforeClose(x)'
    <3>1. EndBeforeClose(x) BY <1>0, <1>3, <1>6, <2>2 DEF Channel, Live
    <3>2. Ended(x)' <=> Ended(x) BY <2>1 DEF Ended
    <3> QED BY <1>3, <1>5, <1>6, <1>7, <3>1, <3>2 DEF EndBeforeClose
  <2> QED BY <1>0, <1>3, <1>5, <1>6, <2>1, <2>2, SteadyChannel
<1>8. CASE x = r /\ ~IsOpen(r)
  <2>1. buffer' = buffer BY <1>3, <1>8 DEF TrySend
  <2>2. ASSUME Live(x)', ~ctxDone'[x] PROVE EndBeforeClose(x)'
    <3>1. EndBeforeClose(x) BY <1>0, <1>3, <1>6, <2>2 DEF Channel, Live
    <3>2. Ended(x) BY <1>8, <3>1 DEF EndBeforeClose
    <3>3. Ended(x)' BY <2>1, <3>2 DEF Ended
    <3> QED BY <3>3 DEF EndBeforeClose
  <2> QED BY <1>0, <1>3, <1>6, <1>8, <2>1, <2>2, SteadyChannel
<1>9. CASE x = r /\ IsOpen(r) /\ ~(Len(buffer[r]) < BufferCap)
  <2>1. x \in dropped' BY <1>3, <1>9 DEF TrySend
  <2> QED BY <2>1 DEF Channel
<1>10. CASE x = r /\ IsOpen(r) /\ Len(buffer[r]) < BufferCap
  <2> SUFFICES ASSUME Live(x)'
               PROVE  /\ GotPrefix(x)' /\ BufferFollows(x)'
                      /\ IsOpen(x)' /\ ~Ended(x)' => NothingMissing(x)'
                      /\ ~ctxDone'[x] => EndBeforeClose(x)'
    BY DEF Channel, Live
  <2>1. /\ GotPrefix(x) /\ BufferFollows(x) /\ (~Ended(x) => NothingMissing(x))
        /\ (~ctxDone[x] => EndBeforeClose(x))
    BY <1>0, <1>6, <1>10 DEF Channel, Live
  <2>2. buffer'[x] = Append(buffer[x], t) BY <1>0, <1>3, <1>10 DEF TrySend, TypeOK
  <2>3. ~Ended(x) => /\ Len(sent[x]) = Len(got[x]) + Len(buffer[x]) + 1
                     /\ sent[x][Len(sent[x])] = t
    BY <1>2, <1>3, <1>10, <2>1 DEF NothingMissing
  <2>4. /\ GotPrefix(x)' /\ BufferFollows(x)' /\ Len(buffer'[x]) = Len(buffer[x]) + 1
        /\ Ended(x) => Ended(x)'
        /\ t \in Terminal => Ended(x)'
    BY <1>0, <1>3, <2>1, <2>2, <2>3, AppendChannel
  <2>5. ASSUME ~Ended(x)' PROVE NothingMissing(x)'
    <3>1. PICK g, n, m \in Nat : g = Len(got[x]) /\ n = Len(buffer[x]) /\ m = Len(sent[x])
      BY <1>0, Lengths
    <3>2. m = g + n + 1 /\ Len(buffer'[x]) = n + 1 BY <2>3, <2>4, <2>5, <3>1
    <3>3. m = g + (n + 1) BY <3>2, Arithmetic, Zenon
    <3>4. Len(sent'[x]) = Len(got'[x]) + Len(buffer'[x]) BY <1>3, <3>1, <3>2, <3>3
    <3> QED BY <1>5, <3>4 DEF NothingMissing, InHand
  <2>6. ASSUME ~ctxDone'[x] PROVE EndBeforeClose(x)'
    BY <1>3, <1>5, <1>6, <1>10, <2>1, <2>4, <2>6 DEF EndBeforeClose
  <2> QED BY <2>4, <2>5, <2>6
<1> QED BY <1>7, <1>8, <1>9, <1>10

\* cleanup puts its error into the channel of the request it visits.
LEMMA RangeSendChannel ==
  ASSUME AnswerInv, RangeSend, NEW x \in Requests
  PROVE  Channel(x)'
<1> USE DEF sessionVars, cleanupVars, readerVars, callerVars, channelVars
<1>0. TypeOK /\ Channel(x) BY DEF AnswerInv, RelayInv
<1>2. PICK r \in Requests : r = visiting BY DEF RangeSend, AnswerInv, RelayInv, Session
<1>3. /\ TrySend(r, "error") /\ cleanup = "send" /\ cleanup' = "close"
      /\ UNCHANGED <<closedBy, got, sent, pc, ctxDone, visiting, reader, message>>
  BY <1>2 DEF RangeSend
<1>4. /\ \A y \in Requests : y # r => buffer'[y] = buffer[y] /\ (y \in dropped' <=> y \in dropped)
      /\ \A y \in Requests : y \in dropped => y \in dropped'
  BY <1>0, <1>3 DEF TrySend, TypeOK
<1>5. InHand(x)' <=> InHand(x) BY <1>3 DEF InHand
<1>6. (Live(x)' => Live(x)) /\ (IsOpen(x)' <=> IsOpen(x)) BY <1>3, <1>4 DEF Live, IsOpen
<1>7. CASE x # r
  <2>1. buffer'[x] = buffer[x] BY <1>4, <1>7
  <2>2. ASSUME Live(x)', ~ctxDone'[x] PROVE EndBeforeClose(x)'
    <3>1. EndBeforeClose(x) BY <1>0, <1>3, <1>6, <2>2 DEF Channel, Live
    <3>2. Ended(x)' <=> Ended(x) BY <2>1 DEF Ended
    <3> QED BY <1>2, <1>3, <1>6, <1>7, <3>1, <3>2 DEF EndBeforeClose
  <2> QED BY <1>0, <1>3, <1>5, <1>6, <2>1, <2>2, SteadyChannel
<1>8. CASE x = r /\ ~IsOpen(r)
  <2>1. buffer' = buffer BY <1>3, <1>8 DEF TrySend
  <2>2. ASSUME Live(x)', ~ctxDone'[x] PROVE EndBeforeClose(x)'
    <3>1. EndBeforeClose(x) BY <1>0, <1>3, <1>6, <2>2 DEF Channel, Live
    <3>2. Ended(x) BY <1>8, <3>1 DEF EndBeforeClose
    <3>3. Ended(x)' BY <2>1, <3>2 DEF Ended
    <3> QED BY <3>3 DEF EndBeforeClose
  <2> QED BY <1>0, <1>3, <1>6, <1>8, <2>1, <2>2, SteadyChannel
<1>9. CASE x = r /\ IsOpen(r) /\ ~(Len(buffer[r]) < BufferCap)
  <2>1. x \in dropped' BY <1>3, <1>9 DEF TrySend
  <2> QED BY <2>1 DEF Channel
<1>10. CASE x = r /\ IsOpen(r) /\ Len(buffer[r]) < BufferCap
  <2> SUFFICES ASSUME Live(x)'
               PROVE  /\ GotPrefix(x)' /\ BufferFollows(x)'
                      /\ IsOpen(x)' /\ ~Ended(x)' => NothingMissing(x)'
                      /\ ~ctxDone'[x] => EndBeforeClose(x)'
    BY DEF Channel, Live
  <2>1. GotPrefix(x) /\ BufferFollows(x) BY <1>0, <1>6, <1>10 DEF Channel, Live
  <2>2. buffer'[x] = Append(buffer[x], "error") BY <1>0, <1>3, <1>10 DEF TrySend, TypeOK
  <2>3. "error" \in Types /\ "error" \in Terminal BY DEF Types, Terminal
  <2>4. GotPrefix(x)' /\ BufferFollows(x)' /\ Ended(x)'
    BY <1>0, <1>3, <2>1, <2>2, <2>3, AppendChannel
  <2> QED BY <2>4 DEF EndBeforeClose
<1> QED BY <1>7, <1>8, <1>9, <1>10

\* The reader has read an answer, and has it in hand when its request is pending.
LEMMA ReadMessageChannel ==
  ASSUME AnswerInv, NEW r \in Requests, NEW t \in Types, ReadMessage(r, t), NEW x \in Requests
  PROVE  Channel(x)'
<1> USE DEF sessionVars, cleanupVars, readerVars, callerVars, channelVars
<1>0. TypeOK /\ Channel(x) BY DEF AnswerInv, RelayInv
<1>1. /\ reader = "read" /\ Written(r) /\ sent' = [sent EXCEPT ![r] = Append(sent[r], t)]
      /\ IF r \in pending THEN reader' = "deliver" /\ message' = [id |-> r, type |-> t]
                          ELSE UNCHANGED <<reader, message>>
      /\ UNCHANGED <<closedBy, got, pc, ctxDone, cleanup, visiting, buffer, dropped>>
  BY DEF ReadMessage
<1>2. ~InHand(x) /\ (InHand(x)' <=> x = r /\ r \in pending) /\ reader' # "end" BY <1>1 DEF InHand
<1>3. (Live(x)' <=> Live(x)) /\ (IsOpen(x)' <=> IsOpen(x)) /\ (Ended(x)' <=> Ended(x))
  BY <1>1 DEF Live, IsOpen, Ended
<1>4. ASSUME Live(x)', ~ctxDone'[x] PROVE EndBeforeClose(x)'
  <2>1. EndBeforeClose(x) BY <1>0, <1>1, <1>3, <1>4 DEF Channel, Live
  <2> QED BY <1>1, <1>2, <1>3, <2>1 DEF EndBeforeClose
<1>5. CASE x # r
  <2>1. sent'[x] = sent[x] BY <1>0, <1>1, <1>5 DEF TypeOK
  <2> QED BY <1>0, <1>1, <1>2, <1>3, <1>4, <1>5, <2>1, SteadyChannel
<1>6. CASE x = r
  <2> SUFFICES ASSUME Live(x)'
               PROVE  /\ GotPrefix(x)' /\ BufferFollows(x)'
                      /\ IsOpen(x)' /\ ~Ended(x)' => NothingMissing(x)'
    BY <1>4 DEF Channel, Live
  <2>1. GotPrefix(x) /\ BufferFollows(x) /\ (IsOpen(x) /\ ~Ended(x) => NothingMissing(x))
    BY <1>0, <1>3 DEF Channel, Live
  <2>2. PICK g, n, m \in Nat :
          /\ g = Len(got[x]) /\ n = Len(buffer[x]) /\ m = Len(sent[x]) /\ sent[x] \in Seq(Types)
    BY <1>0, Lengths
  <2>3. sent'[x] = Append(sent[x], t) BY <1>0, <1>1, <1>6 DEF TypeOK
  <2>4. /\ Len(sent'[x]) = m + 1 /\ sent'[x][m + 1] = t
        /\ \A i \in 1 .. m : sent'[x][i] = sent[x][i]
    BY <2>2, <2>3, AppendProperties
  <2>5. /\ g <= m /\ \A i \in 1 .. g : got[x][i] = sent[x][i]
        /\ \A i \in 1 .. n : (\A j \in 1 .. i - 1 : buffer[x][j] \notin Terminal) =>
              buffer[x][i] = "error" \/ (g + i <= m /\ buffer[x][i] = sent[x][g + i])
    BY <2>1, <2>2 DEF GotPrefix, BufferFollows
  <2>6. /\ g <= m + 1 /\ \A i \in 1 .. g : i \in 1 .. m
        /\ \A i \in 1 .. n : g + i <= m => g + i <= m + 1 /\ g + i \in 1 .. m
    BY <2>5
  <2>7. GotPrefix(x)' BY <1>1, <2>2, <2>4, <2>5, <2>6 DEF GotPrefix
  <2>8. BufferFollows(x)'
    <3>1. Len(got'[x]) = g /\ Len(buffer'[x]) = n /\ buffer'[x] = buffer[x] BY <1>1, <2>2
    <3>2. \A i \in 1 .. n : (\A j \in 1 .. i - 1 : buffer[x][j] \notin Terminal) =>
              buffer[x][i] = "error" \/ (g + i <= m + 1 /\ buffer[x][i] = sent'[x][g + i])
      BY <2>4, <2>5, <2>6
    <3> QED BY <2>4, <3>1, <3>2 DEF BufferFollows
  <2>9. ASSUME IsOpen(x)', ~Ended(x)' PROVE NothingMissing(x)'
    <3>1. NothingMissing(x) BY <1>3, <2>1, <2>9
    <3>2. m = g + n BY <1>2, <2>2, <3>1 DEF NothingMissing, InHand
    <3>3. pc[x] \in {"sent", "receive"}
      BY <1>1, <1>3, <1>6 DEF Written, AnswerInv, Order, Live
    <3>4. x \in pending BY <1>3, <2>9, <3>3 DEF AnswerInv, RelayInv, WaitingIsPending
    <3>5. reader' = "deliver" /\ message'.id = x /\ message'.type = t BY <1>1, <1>6, <3>4
    <3>6. Len(sent'[x]) = Len(got'[x]) + Len(buffer'[x]) + 1 BY <1>1, <2>2, <2>4, <3>2
    <3>7. sent'[x][Len(sent'[x])] = message'.type BY <2>4, <3>5
    <3> QED BY <3>5, <3>6, <3>7 DEF NothingMissing
  <2> QED BY <2>7, <2>8, <2>9
<1> QED BY <1>5, <1>6

\* The first message of the channel is what the peer sent next, or an error.
LEMMA HeadFollows ==
  ASSUME TypeOK, NEW r \in Requests, BufferFollows(r), buffer[r] # <<>>, Head(buffer[r]) # "error"
  PROVE  Len(got[r]) + 1 <= Len(sent[r]) /\ Head(buffer[r]) = sent[r][Len(got[r]) + 1]
<1>1. buffer[r] \in Seq(Types) BY DEF TypeOK
<1>2. Head(buffer[r]) = buffer[r][1] /\ Len(buffer[r]) \in Nat \ {0} BY <1>1, LenProperties, EmptySeq
<1>3. 1 \in 1 .. Len(buffer[r]) /\ \A j \in 1 .. 1 - 1 : buffer[r][j] \notin Terminal BY <1>2
<1> QED BY <1>2, <1>3 DEF BufferFollows

\* The caller takes the first message.
LEMMA ReceiveChannel ==
  ASSUME AnswerInv, NEW r \in Requests, Receive(r), NEW x \in Requests
  PROVE  Channel(x)'
<1> USE DEF sessionVars, cleanupVars, readerVars, callerVars, channelVars
<1>0. TypeOK /\ Channel(x) BY DEF AnswerInv, RelayInv
<1>1. /\ pc[r] = "receive" /\ buffer[r] # <<>>
      /\ buffer' = [buffer EXCEPT ![r] = Tail(buffer[r])]
      /\ got' = [got EXCEPT ![r] = Append(got[r], Head(buffer[r]))]
      /\ UNCHANGED <<closedBy, sent, ctxDone, cleanup, visiting, dropped, reader, message>>
  BY DEF Receive
<1>2. (InHand(x)' <=> InHand(x)) /\ (IsOpen(x)' <=> IsOpen(x)) BY <1>1 DEF InHand, IsOpen
<1>3. (Head(buffer[r]) \in Terminal => pc'[r] = "done") /\ \A y \in Requests : y # r => pc'[y] = pc[y]
  <2>1. ASSUME NEW result \in {"ok", "error"}, Finish(r, result)
        PROVE  pc'[r] = "done" /\ \A y \in Requests : y # r => pc'[y] = pc[y]
    BY <1>0, <2>1, FinishTypes
  <2> QED BY <2>1 DEF Receive, Terminal
<1>4. CASE x # r
  <2>1. got'[x] = got[x] /\ buffer'[x] = buffer[x] BY <1>0, <1>1, <1>4 DEF TypeOK
  <2>2. Live(x)' => Live(x) BY <1>1, <1>3, <1>4 DEF Live
  <2>3. ASSUME Live(x)', ~ctxDone'[x] PROVE EndBeforeClose(x)'
    <3>1. EndBeforeClose(x) BY <1>0, <1>1, <2>2, <2>3 DEF Channel, Live
    <3>2. Ended(x)' <=> Ended(x) BY <2>1 DEF Ended
    <3> QED BY <1>1, <1>2, <3>1, <3>2 DEF EndBeforeClose
  <2> QED BY <1>0, <1>1, <1>2, <2>1, <2>2, <2>3, SteadyChannel
<1>5. CASE x = r
  <2> SUFFICES ASSUME Live(x)'
               PROVE  /\ GotPrefix(x)' /\ BufferFollows(x)'
                      /\ IsOpen(x)' /\ ~Ended(x)' => NothingMissing(x)'
                      /\ ~ctxDone'[x] => EndBeforeClose(x)'
    BY DEF Channel, Live
  <2>1. /\ GotPrefix(x) /\ BufferFollows(x) /\ (IsOpen(x) /\ ~Ended(x) => NothingMissing(x))
        /\ (~ctxDone[x] => EndBeforeClose(x))
    BY <1>0, <1>1, <1>5 DEF Channel, Live
  <2>2. PICK g, n, m \in Nat :
          /\ g = Len(got[x]) /\ n = Len(buffer[x]) /\ m = Len(sent[x])
          /\ got[x] \in Seq(Types) /\ buffer[x] \in Seq(Types)
    BY <1>0, Lengths
  <2>3. PICK h : h = Head(buffer[x]) OBVIOUS
  <2>4. h \notin Terminal /\ h # "error" /\ buffer[x] # <<>> BY <1>1, <1>3, <1>5, <2>3 DEF Live, Terminal
  <2>5. g + 1 <= m /\ h = sent[x][g + 1] BY <1>0, <2>1, <2>2, <2>3, <2>4, HeadFollows
  <2>6. /\ n # 0 /\ h \in Types /\ h = buffer[x][1] /\ Tail(buffer[x]) \in Seq(Types)
        /\ Len(Tail(buffer[x])) = n - 1
        /\ \A i \in 1 .. n - 1 : Tail(buffer[x])[i] = buffer[x][i + 1]
    BY <2>2, <2>3, <2>4, HeadTailProperties, EmptySeq
  <2>7. got'[x] = Append(got[x], h) /\ buffer'[x] = Tail(buffer[x])
    BY <1>0, <1>1, <1>5, <2>3 DEF TypeOK
  <2>8. /\ Len(got'[x]) = g + 1 /\ got'[x][g + 1] = h
        /\ \A i \in 1 .. g : got'[x][i] = got[x][i]
    BY <2>2, <2>6, <2>7, AppendProperties
  <2>9. sent'[x] = sent[x] /\ Len(sent'[x]) = m BY <1>1, <2>2
  <2>10. \A i \in 1 .. g + 1 : i \in 1 .. g \/ i = g + 1 BY <2>2
  <2>11. g <= m /\ \A i \in 1 .. g : got[x][i] = sent[x][i] BY <2>1, <2>2 DEF GotPrefix
  <2>12. GotPrefix(x)' BY <2>5, <2>8, <2>9, <2>10, <2>11 DEF GotPrefix
  <2>13. Ended(x)' <=> Ended(x)
    <3>1. \A i \in 1 .. n - 1 : i + 1 \in 1 .. n BY <2>2
    <3>2. \A i \in 1 .. n : i = 1 \/ (i - 1 \in 1 .. n - 1 /\ (i - 1) + 1 = i) BY <2>2
    <3>3. ASSUME Ended(x)' PROVE Ended(x) BY <2>2, <2>6, <2>7, <3>1, <3>3 DEF Ended
    <3>4. ASSUME Ended(x) PROVE Ended(x)'
      <4>1. PICK i \in 1 .. n : buffer[x][i] \in Terminal BY <2>2, <3>4 DEF Ended
      <4>2. i # 1 BY <2>4, <2>6, <4>1
      <4>3. i - 1 \in 1 .. n - 1 /\ (i - 1) + 1 = i BY <3>2, <4>2
      <4>4. buffer'[x][i - 1] = buffer[x][i] BY <2>6, <2>7, <4>3
      <4> QED BY <2>6, <2>7, <4>1, <4>3, <4>4 DEF Ended
    <3> QED BY <3>3, <3>4
  <2>14. BufferFollows(x)'
    <3>1. ASSUME NEW i \in 1 .. n - 1, \A j \in 1 .. i - 1 : buffer'[x][j] \notin Terminal
          PROVE  \/ buffer'[x][i] = "error"
                 \/ (g + 1) + i <= m /\ buffer'[x][i] = sent[x][(g + 1) + i]
      <4>a. i + 1 \in 1 .. n /\ i \in Nat BY <2>2
      <4>b. (g + 1) + i = g + (i + 1) BY <4>a, Arithmetic, Zenon
      <4>1. i + 1 \in 1 .. n /\ (g + 1) + i = g + (i + 1) BY <4>a, <4>b
      <4>2. \A j \in 1 .. (i + 1) - 1 : j = 1 \/ (j - 1 \in 1 .. i - 1 /\ j - 1 \in 1 .. n - 1 /\ (j - 1) + 1 = j)
        BY <2>2
      <4>3. ASSUME NEW j \in 1 .. (i + 1) - 1 PROVE buffer[x][j] \notin Terminal
        <5>1. CASE j = 1 BY <2>4, <2>6, <5>1
        <5>2. CASE j - 1 \in 1 .. i - 1 /\ j - 1 \in 1 .. n - 1 /\ (j - 1) + 1 = j
          <6>1. buffer'[x][j - 1] = buffer[x][j] BY <2>6, <2>7, <5>2
          <6> QED BY <3>1, <5>2, <6>1
        <5> QED BY <4>2, <5>1, <5>2
      <4>4. buffer[x][i + 1] = "error" \/ (g + (i + 1) <= m /\ buffer[x][i + 1] = sent[x][g + (i + 1)])
        BY <2>1, <2>2, <4>1, <4>3 DEF BufferFollows
      <4>5. buffer'[x][i] = buffer[x][i + 1] BY <2>6, <2>7
      <4> QED BY <4>1, <4>4, <4>5
    <3>2. Len(buffer'[x]) = n - 1 BY <2>6, <2>7
    <3> QED BY <2>8, <2>9, <3>1, <3>2 DEF BufferFollows
  <2>15. ASSUME IsOpen(x)', ~Ended(x)' PROVE NothingMissing(x)'
    <3>1. NothingMissing(x) BY <1>2, <2>1, <2>13, <2>15
    <3>2. Len(got'[x]) = g + 1 /\ Len(buffer'[x]) = n - 1 BY <2>6, <2>7, <2>8
    <3>3. (g + 1) + (n - 1) = g + n BY Arithmetic, Zenon
    <3>4. IF InHand(x) THEN m = g + n + 1 /\ sent[x][m] = message.type ELSE m = g + n
      BY <2>2, <3>1 DEF NothingMissing, InHand
    <3>5. message' = message BY <1>1
    <3>6. CASE InHand(x)
      <4>1. Len(sent'[x]) = Len(got'[x]) + Len(buffer'[x]) + 1 BY <2>9, <3>2, <3>3, <3>4, <3>6
      <4>2. sent'[x][Len(sent'[x])] = message'.type BY <2>9, <3>4, <3>5, <3>6
      <4> QED BY <1>2, <3>6, <4>1, <4>2 DEF NothingMissing, InHand
    <3>7. CASE ~InHand(x)
      <4>1. Len(sent'[x]) = Len(got'[x]) + Len(buffer'[x]) BY <2>9, <3>2, <3>3, <3>4, <3>7
      <4> QED BY <1>2, <3>7, <4>1 DEF NothingMissing, InHand
    <3> QED BY <3>6, <3>7
  <2>16. ASSUME ~ctxDone'[x] PROVE EndBeforeClose(x)'
    BY <1>1, <1>2, <2>1, <2>13, <2>16 DEF EndBeforeClose
  <2> QED BY <2>12, <2>14, <2>15, <2>16
<1> QED BY <1>4, <1>5

\* Steps that leave the channels alone.
LEMMA CalmChannel ==
  ASSUME AnswerInv, NEW x \in Requests,
         UNCHANGED <<got, sent, buffer, dropped, closedBy, message>>,
         \/ reader' = reader
         \/ reader \notin {"deliver", "end"} /\ reader' \notin {"deliver", "end"},
         cleanup' = "close" => cleanup = "close" /\ visiting' = visiting,
         pc[x] = "done" => pc'[x] = "done", ctxDone[x] => ctxDone'[x]
  PROVE  Channel(x)'
<1>1. Channel(x) /\ (Live(x)' => Live(x)) BY DEF AnswerInv, Live
<1>2. (IsOpen(x)' <=> IsOpen(x)) /\ (InHand(x)' <=> InHand(x)) /\ (Ended(x)' <=> Ended(x))
  BY DEF IsOpen, InHand, Ended
<1>3. ASSUME Live(x)', ~ctxDone'[x] PROVE EndBeforeClose(x)'
  <2>1. EndBeforeClose(x) BY <1>1, <1>3 DEF Channel, Live
  <2> QED BY <1>2, <2>1 DEF EndBeforeClose
<1> QED BY <1>1, <1>2, <1>3, SteadyChannel

\* Steps that close a channel: the one of cleanup, of an answer, of a failed write
\* and of a context that is done.
LEMMA CloseChannel ==
  ASSUME AnswerInv, NEW x \in Requests, NEW r \in Requests,
         \/ RangeClose /\ r = visiting
         \/ DeliverEnd /\ r = message.id
         \/ Fail(r)
         \/ WatchContext(r)
  PROVE  Channel(x)'
<1> USE DEF sessionVars, cleanupVars, readerVars, callerVars, channelVars
<1>0. TypeOK /\ Channel(x) BY DEF AnswerInv, RelayInv
<1>1. \A y \in Requests : y # r => closedBy'[y] = closedBy[y]
  BY <1>0, CloseTypes, EndRequestTypes DEF RangeClose, DeliverEnd, Fail, WatchContext
<1>2. \A y \in Requests : IsOpen(y)' => IsOpen(y)
  <2>1. CASE RangeClose /\ r = visiting
    <3>1. closedBy'[r] # "nobody" BY <1>0, <2>1, CloseTypes DEF RangeClose
    <3> QED BY <1>1, <3>1 DEF IsOpen
  <2>2. CASE DeliverEnd /\ r = message.id BY <1>0, <2>2, EndRequestTypes DEF DeliverEnd
  <2>3. CASE Fail(r) BY <1>0, <2>3, EndRequestTypes DEF Fail
  <2>4. CASE WatchContext(r) BY <1>0, <2>4, EndRequestTypes DEF WatchContext
  <2> QED BY <2>1, <2>2, <2>3, <2>4
<1>3. UNCHANGED <<got, sent, buffer, dropped, ctxDone>> BY DEF RangeClose, DeliverEnd, Fail, WatchContext
<1>4. /\ InHand(x)' <=> InHand(x)
      /\ InHand(x) => message' = message
  BY DEF RangeClose, DeliverEnd, Fail, WatchContext, InHand
<1>5. /\ reader' = "end" /\ message'.id = x => reader = "end" /\ message.id = x
      /\ cleanup' = "close" /\ visiting' = x => cleanup = "close" /\ visiting = x
  BY DEF RangeClose, DeliverEnd, Fail, WatchContext
<1>6. \A y \in Requests : pc[y] = "done" => pc'[y] = "done"
  <2>1. ASSUME Fail(r) PROVE \A y \in Requests : pc[y] = "done" => pc'[y] = "done"
    BY <1>0, <2>1, FinishTypes DEF Fail
  <2> QED BY <2>1 DEF RangeClose, DeliverEnd, WatchContext
<1>7. Live(x)' => Live(x) BY <1>3, <1>6 DEF Live
<1>8. ASSUME Live(x)', ~ctxDone'[x] PROVE EndBeforeClose(x)'
  <2>1. EndBeforeClose(x) BY <1>0, <1>3, <1>7, <1>8 DEF Channel, Live
  <2>2. Ended(x)' <=> Ended(x) BY <1>3 DEF Ended
  <2>3. CASE x # r
    BY <1>1, <1>5, <2>1, <2>2, <2>3 DEF EndBeforeClose, IsOpen
  <2>4. CASE x = r /\ RangeClose /\ r = visiting BY <2>1, <2>2, <2>4 DEF EndBeforeClose, RangeClose
  <2>5. CASE x = r /\ DeliverEnd /\ r = message.id BY <2>1, <2>2, <2>5 DEF EndBeforeClose, DeliverEnd
  <2>6. CASE x = r /\ Fail(r)
    <3>1. pc'[r] = "done" BY <1>0, <2>6, FinishTypes DEF Fail
    <3> QED BY <1>8, <2>6, <3>1 DEF Live
  <2>7. CASE x = r /\ WatchContext(r) BY <1>3, <1>8, <2>7 DEF WatchContext
  <2> QED BY <2>3, <2>4, <2>5, <2>6, <2>7
<1> QED BY <1>0, <1>2, <1>3, <1>4, <1>7, <1>8, SteadyChannel

\* The steps of the session, of cleanup and of the reader, for the rest of the invariant.
LEMMA OtherAnswer ==
  ASSUME AnswerInv, UNCHANGED <<sent, watcher, pc, outcome, got, ctxDone>>,
         \A x \in dropped : x \in dropped'
  PROVE  Order' /\ AnswerIsWhole'
<1>1. Order' BY DEF AnswerInv, Order
<1>2. AnswerIsWhole' BY DEF AnswerInv, AnswerIsWhole, Answered
<1> QED BY <1>1, <1>2

\* A message that the reader takes is the next one of its answer.
LEMMA ReadMessageAnswer ==
  ASSUME AnswerInv, NEW r \in Requests, NEW t \in Types, ReadMessage(r, t)
  PROVE  Order' /\ AnswerIsWhole'
<1> USE DEF sessionVars, cleanupVars, readerVars, callerVars, channelVars
<1>0. TypeOK BY DEF AnswerInv, RelayInv
<1>1. /\ ~Answered(r) /\ sent' = [sent EXCEPT ![r] = Append(sent[r], t)]
      /\ UNCHANGED <<got, pc, ctxDone, dropped, watcher, outcome>>
  BY DEF ReadMessage
<1>2. PICK g, n, m \in Nat : m = Len(sent[r]) /\ sent[r] \in Seq(Types) /\ DOMAIN sent[r] = 1 .. m
  BY <1>0, Lengths
<1>3. sent'[r] = Append(sent[r], t) /\ \A x \in Requests : x # r => sent'[x] = sent[x]
  BY <1>0, <1>1 DEF TypeOK
<1>4. /\ Len(sent'[r]) = m + 1 /\ \A i \in 1 .. m : sent'[r][i] = sent[r][i]
  BY <1>2, <1>3, AppendProperties
<1>5. \A i \in 1 .. m + 1 : i \in 1 .. m \/ i = m + 1 BY <1>2
<1>6. \A i \in 1 .. m : sent'[r][i] \notin Terminal BY <1>1, <1>2, <1>4 DEF Answered
<1>7. \A i \in 1 .. Len(sent'[r]) : sent'[r][i] \in Terminal => i = Len(sent'[r]) BY <1>4, <1>5, <1>6
<1>8. Order' BY <1>1, <1>3, <1>7 DEF AnswerInv, Order
<1>9. ASSUME NEW x \in Requests, outcome'[x] = "ok", x \notin dropped', ~ctxDone'[x]
      PROVE  Answered(x)' /\ got'[x] = sent'[x]
  <2>1. Answered(x) /\ got[x] = sent[x] BY <1>1, <1>9 DEF AnswerInv, AnswerIsWhole
  <2>2. x # r BY <1>1, <2>1
  <2> QED BY <1>1, <1>3, <2>1, <2>2 DEF Answered
<1> QED BY <1>8, <1>9 DEF AnswerIsWhole

\* The steps of a request that yield no success.
LEMMA RequestAnswer ==
  ASSUME AnswerInv, NEW r \in Requests, RequestStep(r) \/ ReceiveCancelled(r)
  PROVE  /\ Order' /\ AnswerIsWhole'
         /\ \A x \in Requests : (pc[x] = "done" => pc'[x] = "done") /\ (ctxDone[x] => ctxDone'[x])
<1> USE DEF sessionVars, cleanupVars, readerVars, callerVars, channelVars
<1>0. TypeOK BY DEF AnswerInv, RelayInv
<1>1. UNCHANGED <<sent, got, dropped>>
  BY DEF RequestStep, Send, Store, Reload, CheckClosed, WriteSucceeds, WriteFails, Fail, StartWatcher,
         CancelContext, WatchContext, WatchClosed, ReceiveCancelled
<1>2. \A x \in Requests : ctxDone[x] => ctxDone'[x]
  <2>1. CASE CancelContext(r) BY <1>0, <2>1 DEF CancelContext, TypeOK
  <2>2. CASE ctxDone' = ctxDone BY <2>2
  <2> QED
    BY <2>1, <2>2 DEF RequestStep, Send, Store, Reload, CheckClosed, WriteSucceeds, WriteFails, Fail,
                      StartWatcher, WatchContext, WatchClosed, ReceiveCancelled
<1>3. /\ \A x \in Requests : x # r => pc'[x] = pc[x] /\ outcome'[x] = outcome[x] /\ watcher'[x] = watcher[x]
      /\ \/ pc'[r] = "done" /\ outcome'[r] # "ok" /\ pc[r] # "done" /\ watcher'[r] = watcher[r]
         \/ /\ pc[r] \notin {"receive", "done"} /\ pc'[r] # "done" /\ outcome' = outcome
            /\ watcher'[r] = watcher[r] \/ pc'[r] = "receive"
         \/ UNCHANGED <<pc, outcome>> /\ (watcher'[r] = watcher[r] \/ watcher[r] # "none")
  <2>1. ASSUME NEW step \in {"found", "stored", "loaded", "writing", "failed", "sent", "receive"},
               Goto(r, step)
        PROVE  pc'[r] = step /\ outcome' = outcome /\ \A x \in Requests : x # r => pc'[x] = pc[x]
    BY <1>0, <2>1, GotoTypes
  <2>2. ASSUME NEW result \in {"error", "cancelled", "panic"}, Finish(r, result)
        PROVE  /\ pc'[r] = "done" /\ outcome'[r] # "ok"
               /\ \A x \in Requests : x # r => pc'[x] = pc[x] /\ outcome'[x] = outcome[x]
    BY <1>0, <2>2, FinishTypes
  <2>3. CASE Send(r) \/ Reload(r) BY <2>1, <2>2, <2>3 DEF Send, Reload
  <2>4. CASE Store(r) \/ CheckClosed(r) \/ WriteSucceeds(r) \/ WriteFails(r)
    BY <2>1, <2>4 DEF Store, CheckClosed, WriteSucceeds, WriteFails
  <2>5. CASE Fail(r) \/ ReceiveCancelled(r) BY <2>2, <2>5 DEF Fail, ReceiveCancelled
  <2>6. CASE StartWatcher(r) BY <1>0, <2>1, <2>6 DEF StartWatcher, TypeOK
  <2>7. CASE CancelContext(r) \/ WatchContext(r) \/ WatchClosed(r)
    <3>1. UNCHANGED <<pc, outcome>> BY <2>7 DEF CancelContext, WatchContext, WatchClosed
    <3>2. \A x \in Requests : x # r => watcher'[x] = watcher[x]
      BY <1>0, <2>7 DEF CancelContext, WatchContext, WatchClosed, TypeOK
    <3>3. watcher'[r] = watcher[r] \/ watcher[r] # "none"
      BY <2>7 DEF CancelContext, WatchContext, WatchClosed
    <3> QED BY <3>1, <3>2, <3>3
  <2> QED BY <2>3, <2>4, <2>5, <2>6, <2>7 DEF RequestStep
<1>4. \A x \in Requests : pc[x] = "done" => pc'[x] = "done" BY <1>3
<1>5. \A x \in Requests : /\ watcher'[x] # "none" => pc'[x] \in {"receive", "done"}
                          /\ outcome'[x] # "none" => pc'[x] = "done"
  BY <1>3 DEF AnswerInv, Order
<1>6. Order' BY <1>1, <1>5 DEF AnswerInv, Order
<1>7. \A x \in Requests : outcome'[x] = "ok" => outcome[x] = "ok" BY <1>3
<1>8. \A x \in Requests : Answered(x)' <=> Answered(x) BY <1>1 DEF Answered
<1>9. AnswerIsWhole' BY <1>1, <1>2, <1>7, <1>8 DEF AnswerInv, AnswerIsWhole
<1> QED BY <1>2, <1>4, <1>6, <1>9

\* The message that ends the loop with a success is the last one the peer sent.
LEMMA ReceiveAnswer ==
  ASSUME AnswerInv, NEW r \in Requests, Receive(r)
  PROVE  Order' /\ AnswerIsWhole'
<1> USE DEF sessionVars, cleanupVars, readerVars, callerVars, channelVars
<1>0. TypeOK /\ Channel(r) BY DEF AnswerInv, RelayInv
<1>1. /\ pc[r] = "receive" /\ buffer[r] # <<>>
      /\ got' = [got EXCEPT ![r] = Append(got[r], Head(buffer[r]))]
      /\ UNCHANGED <<sent, ctxDone, dropped, watcher>>
  BY DEF Receive
<1>2. \/ Head(buffer[r]) \in {"end", "response"} /\ Finish(r, "ok")
      \/ Head(buffer[r]) = "error" /\ Finish(r, "error")
      \/ UNCHANGED <<pc, outcome>>
  BY DEF Receive
<1>3. /\ \A x \in Requests : x # r => pc'[x] = pc[x] /\ outcome'[x] = outcome[x]
      /\ \/ pc'[r] = "done" /\ outcome'[r] = "ok" /\ Head(buffer[r]) \in {"end", "response"}
         \/ pc'[r] = "done" /\ outcome'[r] = "error"
         \/ UNCHANGED <<pc, outcome>>
  BY <1>0, <1>2, FinishTypes
<1>4. Order' BY <1>1, <1>3 DEF AnswerInv, Order
<1>5. ASSUME Head(buffer[r]) \in {"end", "response"}, r \notin dropped
      PROVE  Answered(r)' /\ got'[r] = sent'[r]
  <2>1. GotPrefix(r) /\ BufferFollows(r) BY <1>0, <1>1, <1>5 DEF Channel
  <2>2. PICK g, n, m \in Nat :
          /\ g = Len(got[r]) /\ m = Len(sent[r]) /\ DOMAIN sent[r] = 1 .. m
          /\ got[r] \in Seq(Types) /\ sent[r] \in Seq(Types)
    BY <1>0, Lengths
  <2>3. PICK h \in Terminal : h = Head(buffer[r]) BY <1>5 DEF Terminal
  <2>4. g + 1 <= m /\ h = sent[r][g + 1]
    <3>1. h # "error" BY <1>5, <2>3
    <3> QED BY <1>0, <1>1, <2>1, <2>2, <2>3, <3>1, HeadFollows
  <2>5. g + 1 \in 1 .. m BY <2>2, <2>4
  <2>6. m = g + 1 BY <2>2, <2>4, <2>5 DEF AnswerInv, Order
  <2>7. got'[r] = Append(got[r], h) /\ sent'[r] = sent[r] BY <1>0, <1>1, <2>3 DEF TypeOK
  <2>8. h \in Types BY DEF Terminal, Types
  <2>9. /\ Append(got[r], h) \in Seq(Types) /\ Len(Append(got[r], h)) = g + 1
        /\ \A i \in 1 .. g : Append(got[r], h)[i] = got[r][i]
        /\ Append(got[r], h)[g + 1] = h
    BY <2>2, <2>8, AppendProperties
  <2>10. \A i \in 1 .. g : got[r][i] = sent[r][i] BY <2>1, <2>2 DEF GotPrefix
  <2>11. \A i \in 1 .. g + 1 : i \in 1 .. g \/ i = g + 1 BY <2>2
  <2>12. \A i \in 1 .. Len(sent[r]) : Append(got[r], h)[i] = sent[r][i]
    BY <2>2, <2>4, <2>6, <2>9, <2>10, <2>11
  <2>13. Len(Append(got[r], h)) = Len(sent[r]) BY <2>2, <2>6, <2>9
  <2>14. Append(got[r], h) = sent[r] BY <2>2, <2>9, <2>12, <2>13, SeqEqual
  <2>15. Answered(r) BY <2>2, <2>4, <2>5 DEF Answered
  <2> QED BY <2>7, <2>14, <2>15 DEF Answered
<1>6. ASSUME NEW x \in Requests, outcome'[x] = "ok", x \notin dropped', ~ctxDone'[x]
      PROVE  Answered(x)' /\ got'[x] = sent'[x]
  <2>1. CASE x = r
    <3>1. Head(buffer[r]) \in {"end", "response"}
      <4>1. outcome[r] = "none" BY <1>1 DEF AnswerInv, Order
      <4> QED BY <1>3, <1>6, <2>1, <4>1
    <3> QED BY <1>1, <1>5, <1>6, <2>1, <3>1
  <2>2. CASE x # r
    <3>1. outcome[x] = "ok" /\ got'[x] = got[x] BY <1>0, <1>1, <1>3, <1>6, <2>2 DEF TypeOK
    <3>2. Answered(x) /\ got[x] = sent[x] BY <1>1, <1>6, <3>1 DEF AnswerInv, AnswerIsWhole
    <3> QED BY <1>1, <3>1, <3>2 DEF Answered
  <2> QED BY <2>1, <2>2
<1> QED BY <1>4, <1>6 DEF AnswerIsWhole

\* A closed and empty channel has lost its end or its context is done.
LEMMA ReceiveClosedAnswer ==
  ASSUME AnswerInv, NEW r \in Requests, ReceiveClosed(r)
  PROVE  /\ Order' /\ AnswerIsWhole'
         /\ \A x \in Requests : pc[x] = "done" => pc'[x] = "done"
<1> USE DEF sessionVars, cleanupVars, readerVars, callerVars, channelVars
<1>0. TypeOK /\ Channel(r) BY DEF AnswerInv, RelayInv
<1>1. /\ pc[r] = "receive" /\ buffer[r] = <<>> /\ ~IsOpen(r)
      /\ UNCHANGED <<sent, got, ctxDone, dropped, watcher>>
      /\ \E result \in {"ok", "error"} : Finish(r, result)
  BY DEF ReceiveClosed
<1>2. /\ pc'[r] = "done"
      /\ \A x \in Requests : x # r => pc'[x] = pc[x] /\ outcome'[x] = outcome[x]
  BY <1>0, <1>1, FinishTypes
<1>3. Order' BY <1>1, <1>2 DEF AnswerInv, Order
<1>4. ~Ended(r)
  <2>1. Len(buffer[r]) = 0 BY <1>1
  <2> QED BY <2>1 DEF Ended
<1>5. r \in dropped \/ ctxDone[r] BY <1>0, <1>1, <1>4 DEF Channel, EndBeforeClose
<1>6. \A x \in Requests : Answered(x)' <=> Answered(x) BY <1>1 DEF Answered
<1>7. AnswerIsWhole' BY <1>1, <1>2, <1>5, <1>6 DEF AnswerInv, AnswerIsWhole
<1> QED BY <1>2, <1>3, <1>7

\* Before anything is sent.
LEMMA InitAnswer == Init => AnswerInv
<1> SUFFICES ASSUME Init PROVE AnswerInv OBVIOUS
<1>0. Len(<<>>) = 0 OBVIOUS
<1>1. \A r \in Requests : /\ Len(got[r]) = 0 /\ Len(sent[r]) = 0 /\ Len(buffer[r]) = 0
                          /\ IsOpen(r) /\ outcome[r] = "none" /\ watcher[r] = "none"
  BY <1>0 DEF Init, IsOpen
<1>2. reader = "off" /\ cleanup = "none" BY DEF Init
<1>3. \A r \in Requests : Channel(r)
  <2> TAKE r \in Requests
  <2>1. GotPrefix(r) /\ BufferFollows(r) BY <1>1 DEF GotPrefix, BufferFollows
  <2>2. NothingMissing(r)
    <3>0. 0 = 0 + 0 OBVIOUS
    <3>1. Len(sent[r]) = Len(got[r]) + Len(buffer[r]) BY <1>1, <3>0, Zenon
    <3> QED BY <1>2, <3>1 DEF NothingMissing
  <2>3. EndBeforeClose(r) BY <1>1, <1>2 DEF EndBeforeClose
  <2> QED BY <2>1, <2>2, <2>3 DEF Channel
<1>4. Order BY <1>1 DEF Order
<1>5. AnswerIsWhole BY <1>1 DEF AnswerIsWhole
<1> QED BY <1>3, <1>4, <1>5, InitRelay DEF AnswerInv

\* Every step keeps what is known of the messages.
LEMMA NextAnswer == AnswerInv /\ [Next]_vars => AnswerInv'
<1> SUFFICES ASSUME AnswerInv, [Next]_vars PROVE AnswerInv' OBVIOUS
<1> USE DEF sessionVars, cleanupVars, readerVars, callerVars, channelVars
<1>0. RelayInv' /\ TypeOK /\ Session BY NextRelay DEF AnswerInv, RelayInv
<1>1. CASE SessionStep
  <2>1. /\ UNCHANGED <<sent, watcher, pc, outcome, got, ctxDone, buffer, dropped, closedBy, message, visiting>>
        /\ \/ reader' = reader
           \/ reader \notin {"deliver", "end"} /\ reader' \notin {"deliver", "end"}
    <3>1. CASE Connected
      <4>1. reader = "off" BY <1>0, <3>1 DEF Connected, Session
      <4> QED BY <3>1, <4>1 DEF Connected
    <3>2. CASE ~Connected
      BY <1>1, <3>2 DEF SessionStep, Register, StopManager, StopSession, HeartbeatFails, ReadFails
    <3> QED BY <3>1, <3>2
  <2>2. cleanup' = "close" => cleanup = "close"
    BY <1>1 DEF SessionStep, Register, Connected, StopManager, StopSession, HeartbeatFails, ReadFails,
                BeginCleanup
  <2> QED BY <1>0, <2>1, <2>2, CalmChannel, OtherAnswer DEF AnswerInv
<1>2. CASE CleanupStep
  <2>1. ASSUME RangeBegin \/ ResetPending \/ SessionClosed \/ \E r \in Requests : RangeVisit(r)
        PROVE  AnswerInv'
    <3>1. /\ UNCHANGED <<sent, watcher, pc, outcome, got, ctxDone, buffer, dropped, closedBy, message,
                         reader>>
          /\ cleanup' # "close"
      BY <2>1 DEF RangeBegin, ResetPending, SessionClosed, RangeVisit
    <3> QED BY <1>0, <3>1, CalmChannel, OtherAnswer DEF AnswerInv
  <2>2. ASSUME RangeSend PROVE AnswerInv'
    <3>1. /\ UNCHANGED <<sent, watcher, pc, outcome, got, ctxDone>>
          /\ \A x \in dropped : x \in dropped'
      BY <2>2 DEF RangeSend, TrySend
    <3> QED BY <1>0, <2>2, <3>1, RangeSendChannel, OtherAnswer DEF AnswerInv
  <2>3. ASSUME RangeClose PROVE AnswerInv'
    <3>1. UNCHANGED <<sent, watcher, pc, outcome, got, ctxDone, dropped>> BY <2>3 DEF RangeClose
    <3>2. visiting \in Requests BY <1>0, <2>3 DEF RangeClose, Session
    <3>3. \A x \in Requests : Channel(x)' BY <2>3, <3>2, CloseChannel
    <3> QED BY <1>0, <3>1, <3>3, OtherAnswer DEF AnswerInv
  <2> QED BY <1>2, <2>1, <2>2, <2>3 DEF CleanupStep
<1>3. ASSUME NEW r \in Requests, NEW type \in Types, ReadMessage(r, type) PROVE AnswerInv'
  BY <1>0, <1>3, ReadMessageChannel, ReadMessageAnswer DEF AnswerInv
<1>4. CASE Deliver
  <2>1. /\ UNCHANGED <<sent, watcher, pc, outcome, got, ctxDone>>
        /\ \A x \in dropped : x \in dropped'
    BY <1>4 DEF Deliver, TrySend
  <2> QED BY <1>0, <1>4, <2>1, DeliverChannel, OtherAnswer DEF AnswerInv
<1>5. CASE DeliverEnd
  <2>1. UNCHANGED <<sent, watcher, pc, outcome, got, ctxDone, dropped>> BY <1>5 DEF DeliverEnd
  <2>2. message.id \in Requests BY <1>0, <1>5 DEF DeliverEnd, Session, Messages
  <2>3. \A x \in Requests : Channel(x)' BY <1>5, <2>2, CloseChannel
  <2> QED BY <1>0, <2>1, <2>3, OtherAnswer DEF AnswerInv
<1>6. ASSUME NEW r \in Requests, RequestStep(r) \/ ReceiveCancelled(r) PROVE AnswerInv'
  <2>1. /\ Order' /\ AnswerIsWhole'
        /\ \A x \in Requests : (pc[x] = "done" => pc'[x] = "done") /\ (ctxDone[x] => ctxDone'[x])
    BY <1>6, RequestAnswer
  <2>2. CASE Fail(r) \/ WatchContext(r)
    <3>1. \A x \in Requests : Channel(x)' BY <2>2, CloseChannel
    <3> QED BY <1>0, <2>1, <3>1 DEF AnswerInv
  <2>3. CASE ~(Fail(r) \/ WatchContext(r))
    <3>1. UNCHANGED <<got, sent, buffer, dropped, closedBy, message, reader, cleanup, visiting>>
      BY <1>6, <2>3 DEF RequestStep, Send, Store, Reload, CheckClosed, WriteSucceeds, WriteFails,
                        StartWatcher, CancelContext, WatchClosed, ReceiveCancelled
    <3>2. \A x \in Requests : Channel(x)' BY <2>1, <3>1, CalmChannel
    <3> QED BY <1>0, <2>1, <3>2 DEF AnswerInv
  <2> QED BY <2>2, <2>3
<1>7. ASSUME NEW r \in Requests, Receive(r) PROVE AnswerInv'
  BY <1>0, <1>7, ReceiveChannel, ReceiveAnswer DEF AnswerInv
<1>8. ASSUME NEW r \in Requests, ReceiveClosed(r) PROVE AnswerInv'
  <2>1. /\ Order' /\ AnswerIsWhole' /\ \A x \in Requests : pc[x] = "done" => pc'[x] = "done"
    BY <1>8, ReceiveClosedAnswer
  <2>2. UNCHANGED <<got, sent, buffer, dropped, closedBy, message, reader, cleanup, visiting, ctxDone>>
    BY <1>8 DEF ReceiveClosed
  <2>3. \A x \in Requests : Channel(x)' BY <2>1, <2>2, CalmChannel
  <2> QED BY <1>0, <2>1, <2>3 DEF AnswerInv
<1>9. CASE UNCHANGED vars
  <2>1. UNCHANGED <<sent, watcher, pc, outcome, got, ctxDone, buffer, dropped, closedBy, message, reader,
                    cleanup, visiting>>
    BY <1>9 DEF vars
  <2> QED BY <1>0, <2>1, CalmChannel, OtherAnswer DEF AnswerInv
<1> QED
  BY <1>1, <1>2, <1>3, <1>4, <1>5, <1>6, <1>7, <1>8, <1>9
  DEF Next, SessionStep, CallerStep, RequestStep, ReaderStep

\* A success is every message the peer sent, in order, and the one that ends the
\* answer, unless a full channel lost one or the context was done.
THEOREM AnswerIsWholeHolds == Spec => []AnswerIsWhole
<1>1. AnswerInv => AnswerIsWhole BY DEF AnswerInv
<1> QED BY <1>1, InitAnswer, NextAnswer, PTL DEF Spec
=============================================================================
