-------------------------- MODULE KafkaConnection --------------------------
(***************************************************************************)
(* One Kafka TCP connection end to end.                                    *)
(*                                                                         *)
(* Client side, send_messages (src/src/kafka/tcp.rs): callers queue        *)
(* <<header, request, oneshot sender>> on an unbounded channel; a write    *)
(* task sends each request on the socket and only then inserts the sender  *)
(* into the callback map cbs; a read task takes every response off the     *)
(* socket, removes the sender of its correlation id from cbs (expect) and  *)
(* sends the response into it (unwrap), holding the cbs Mutex meanwhile.   *)
(* send_messages returns when any of read, write or shutdown ends; the     *)
(* other JoinHandles are dropped, which detaches those tasks.              *)
(*                                                                         *)
(* Server side, receive_task (src/src/broker/tcp.rs) accepts the          *)
(* connection and spawns stream_messages for it, unless its shutdown wins  *)
(* the select! first.  stream_messages reads one request at a              *)
(* time, hands it to the broker with a oneshot, awaits it and writes its   *)
(* response back under the same correlation id.  The broker that          *)
(* answers is not among the sources: it answers, or (BrokerMayFail) drops  *)
(* the oneshot sender, and then `cb_rx.await?` ends the connection.        *)
(*                                                                         *)
(* A request is its correlation id; callers use distinct ids.              *)
(***************************************************************************)
EXTENDS Naturals, FiniteSets, Sequences, SequencesExt

CONSTANTS
    Reqs,           \* correlation ids, one request each
    None,           \* no request held
    BrokerMayFail,  \* the broker may drop the oneshot of a request
    Cancel,         \* a caller may drop its oneshot receiver
    ServerMayStop   \* the broker's shutdown may reach receive_task

VARIABLES
    rx,         \* requests queued on the caller -> write task channel
    submitted,  \* requests callers have queued
    wpc,        \* write task: "recv", "insert" (after send().await), "done"
    wcur,       \* the request the write task holds
    c2s,        \* request frames on the socket, client to server
    srv,        \* the server end: "accept" (not yet accepted), then
                \* stream_messages: "read", "await" (cb_rx.await), "done"
    scur,       \* the request the server awaits the broker for
    s2c,        \* response frames on the socket, server to client
    read,       \* read task: "run", "eof", or the panic that ended it:
                \* "unknown" (expect) or "closed" (cb.send(..).unwrap())
    cbs,        \* the callback map: ids whose sender it holds
    poisoned,   \* the cbs Mutex was poisoned by a panic holding it
    cancelled,  \* callers that dropped their receiver
    delivered,  \* callers that received their response
    dropped,    \* callers whose sender was dropped: they see RecvError
    shut        \* the shutdown task has ended

vars == <<rx, submitted, wpc, wcur, c2s, srv, scur, s2c, read, cbs,
          poisoned, cancelled, delivered, dropped, shut>>

TypeOK ==
    /\ rx \in Seq(Reqs) /\ submitted \subseteq Reqs
    /\ wpc \in {"recv", "insert", "done"} /\ wcur \in Reqs \cup {None}
    /\ c2s \in Seq(Reqs) /\ s2c \in Seq(Reqs)
    /\ srv \in {"accept", "read", "await", "done"} /\ scur \in Reqs \cup {None}
    /\ read \in {"run", "eof", "unknown", "closed"}
    /\ cbs \subseteq submitted /\ poisoned \in BOOLEAN
    /\ cancelled \cup delivered \cup dropped \subseteq submitted
    /\ shut \in BOOLEAN
    \* the write task holds a request exactly between send and insert
    /\ (wcur # None) = (wpc = "insert")

-----------------------------------------------------------------------------
(* Dropping senders.  A sender queued in rx, or held by the write task,   *)
(* goes when the write task ends; the senders in cbs go when the last Arc *)
(* of the map goes: the write task's, the read task's and send_messages'  *)
(* own, which it drops on returning, i.e. once read or write has ended.   *)

\* The senders that go with the write task.
WriteHeld == ToSet(rx) \cup (IF wpc = "insert" THEN {wcur} ELSE {})

\* The write task ends: everything it holds is dropped, and cbs too when the
\* read task has already ended.
EndWriteMutKeepCur ==
    /\ wpc' = "done"
    /\ UNCHANGED <<wcur>>
    /\ rx' = <<>>
    /\ dropped' = dropped \cup WriteHeld
                  \cup (IF read # "run" THEN cbs ELSE {})
EndWrite ==
    /\ wpc' = "done"
    /\ wcur' = None
    /\ rx' = <<>>
    /\ dropped' = dropped \cup WriteHeld
                  \cup (IF read # "run" THEN cbs ELSE {})

\* The read task ends with outcome r; cbs goes when the write task is done.
EndRead(r, map) ==
    /\ read' = r
    /\ dropped' = dropped \cup (IF wpc = "done" THEN map ELSE {})

-----------------------------------------------------------------------------
(* Callers                                                                 *)

\* A caller queues a request; once the write task (the receiver) is gone,
\* tx.send fails and hands the sender back, which drops it.
Submit(id) ==
    /\ id \notin submitted
    /\ submitted' = submitted \cup {id}
    /\ IF wpc = "done"
         THEN /\ dropped' = dropped \cup {id}
              /\ UNCHANGED rx
         ELSE /\ rx' = Append(rx, id)
              /\ UNCHANGED dropped
    /\ UNCHANGED <<wpc, wcur, c2s, srv, scur, s2c, read, cbs, poisoned,
                   cancelled, delivered, shut>>

\* A caller stops waiting and drops its receiver.
CallerCancel(id) ==
    /\ Cancel
    /\ id \in submitted \ (cancelled \cup delivered \cup dropped)
    /\ cancelled' = cancelled \cup {id}
    /\ UNCHANGED <<rx, submitted, wpc, wcur, c2s, srv, scur, s2c, read, cbs,
                   poisoned, delivered, dropped, shut>>

-----------------------------------------------------------------------------
(* The write task                                                          *)

\* rx.recv() then stream_out.send(..).await: the frame is on the socket.
\* Once the server has gone the write either fails, ending the task with
\* `?`, or lands in the socket buffer and is lost.
WriteSend ==
    /\ wpc = "recv" /\ rx # <<>>
    /\ \/ /\ srv # "done"
          /\ c2s' = Append(c2s, Head(rx))
          /\ wpc' = "insert" /\ wcur' = Head(rx) /\ rx' = Tail(rx)
          /\ UNCHANGED dropped
       \/ /\ srv = "done"
          /\ wpc' = "insert" /\ wcur' = Head(rx) /\ rx' = Tail(rx)
          /\ UNCHANGED <<c2s, dropped>>
       \/ /\ srv = "done"
          /\ EndWrite
          /\ UNCHANGED c2s
    /\ UNCHANGED <<submitted, srv, scur, s2c, read, cbs, poisoned,
                   cancelled, delivered, shut>>

\* cbs1.lock().unwrap() and cbs.insert(correlation_id, cb); on a poisoned
\* Mutex the unwrap panics and the task ends.
WriteInsert ==
    /\ wpc = "insert"
    /\ \/ /\ ~poisoned
          /\ cbs' = cbs \cup {wcur}
          /\ wpc' = "recv" /\ wcur' = None
          /\ UNCHANGED <<rx, dropped>>
       \/ /\ poisoned
          /\ EndWrite
          /\ UNCHANGED cbs
    /\ UNCHANGED <<submitted, c2s, srv, scur, s2c, read, poisoned,
                   cancelled, delivered, shut>>

-----------------------------------------------------------------------------
(* The read task                                                           *)

\* The read task meets a response whose id has no sender in cbs: expect
\* panics holding the guard, which poisons the Mutex.
ReadUnknownMutSkip(id) ==
    /\ s2c' = Tail(s2c)
    /\ UNCHANGED <<read, poisoned, dropped>>
ReadUnknown(id) ==
    /\ poisoned' = TRUE
    /\ EndRead("unknown", cbs)
    /\ UNCHANGED s2c

\* stream_in.try_next() yields a response; under the cbs lock: remove its
\* sender (expect) and send into it (unwrap panics, again holding the
\* guard, when the caller dropped its receiver).  A Mutex already poisoned
\* is never met here: only this task poisons it, and a panic ends it.
ReadResponse ==
    /\ read = "run" /\ s2c # <<>>
    /\ LET id == Head(s2c) IN
       \/ /\ id \notin cbs
          /\ ReadUnknown(id)
          /\ UNCHANGED <<cbs, delivered>>
       \/ /\ id \in cbs /\ id \notin cancelled
          /\ s2c' = Tail(s2c)
          /\ cbs' = cbs \ {id}
          /\ delivered' = delivered \cup {id}
          /\ UNCHANGED <<read, poisoned, dropped>>
       \/ /\ id \in cbs /\ id \in cancelled
          /\ s2c' = Tail(s2c)
          /\ cbs' = cbs \ {id}
          /\ poisoned' = TRUE
          /\ EndRead("closed", cbs \ {id})
          /\ UNCHANGED delivered
    /\ UNCHANGED <<rx, submitted, wpc, wcur, c2s, srv, scur, cancelled, shut>>

\* try_next() yields None once the server closed and its frames are read.
ReadEof ==
    /\ read = "run" /\ s2c = <<>> /\ srv = "done"
    /\ EndRead("eof", cbs)
    /\ UNCHANGED <<rx, submitted, wpc, wcur, c2s, srv, scur, s2c, cbs,
                   poisoned, cancelled, delivered, shut>>

\* The shutdown task ends.  select_all returns, dropping the JoinHandles of
\* read and write, which does not stop them.
Shutdown ==
    /\ ~shut
    /\ shut' = TRUE
    /\ UNCHANGED <<rx, submitted, wpc, wcur, c2s, srv, scur, s2c, read, cbs,
                   poisoned, cancelled, delivered, dropped>>

-----------------------------------------------------------------------------
(* The server connection: receive_task, then stream_messages              *)

\* listener.accept() yields the client's connection; stream_messages is
\* spawned for it with a clone of in_tx.
Accept ==
    /\ srv = "accept"
    /\ srv' = "read"
    /\ UNCHANGED <<rx, submitted, wpc, wcur, c2s, scur, s2c, read, cbs,
                   poisoned, cancelled, delivered, dropped, shut>>

\* shutdown.wait() wins the select! first: receive_task breaks and returns,
\* dropping the listener, and the connection still in its backlog is reset;
\* the client's reads end.  Once the connection is accepted the same break
\* changes nothing here: the spawned stream_messages is detached and serves
\* on.
ReceiveStop ==
    /\ ServerMayStop /\ srv = "accept"
    /\ srv' = "done"
    /\ UNCHANGED <<rx, submitted, wpc, wcur, c2s, scur, s2c, read, cbs,
                   poisoned, cancelled, delivered, dropped, shut>>

\* try_next() yields a request; in_tx.send hands it to the broker.
ServerRead ==
    /\ srv = "read" /\ c2s # <<>>
    /\ srv' = "await" /\ scur' = Head(c2s) /\ c2s' = Tail(c2s)
    /\ UNCHANGED <<rx, submitted, wpc, wcur, s2c, read, cbs, poisoned,
                   cancelled, delivered, dropped, shut>>

\* The broker answers; the response goes out under the request's id.
ServerRespond ==
    /\ srv = "await"
    /\ s2c' = Append(s2c, scur)
    /\ srv' = "read" /\ scur' = None
    /\ UNCHANGED <<rx, submitted, wpc, wcur, c2s, read, cbs, poisoned,
                   cancelled, delivered, dropped, shut>>

\* The broker drops the sender: cb_rx.await? returns Err and the connection
\* closes.
ServerFail ==
    /\ BrokerMayFail /\ srv = "await"
    /\ srv' = "done" /\ scur' = None
    /\ UNCHANGED <<rx, submitted, wpc, wcur, c2s, s2c, read, cbs, poisoned,
                   cancelled, delivered, dropped, shut>>

\* try_next() yields None: the client's write half is gone with the write
\* task and every request frame has been read.
ServerEof ==
    /\ srv = "read" /\ c2s = <<>> /\ wpc = "done"
    /\ srv' = "done"
    /\ UNCHANGED <<rx, submitted, wpc, wcur, c2s, scur, s2c, read, cbs,
                   poisoned, cancelled, delivered, dropped, shut>>

-----------------------------------------------------------------------------

Init ==
    /\ rx = <<>> /\ submitted = {}
    /\ wpc = "recv" /\ wcur = None
    /\ c2s = <<>> /\ srv = "accept" /\ scur = None /\ s2c = <<>>
    /\ read = "run" /\ cbs = {} /\ poisoned = FALSE
    /\ cancelled = {} /\ delivered = {} /\ dropped = {}
    /\ shut = FALSE

Next ==
    \/ \E id \in Reqs : Submit(id) \/ CallerCancel(id)
    \/ WriteSend \/ WriteInsert
    \/ ReadResponse \/ ReadEof \/ Shutdown
    \/ Accept \/ ReceiveStop
    \/ ServerRead \/ ServerRespond \/ ServerFail \/ ServerEof

\* The tokio runtime runs every ready task, and the socket delivers what is
\* written to it: weak fairness on the tasks' steps.  Callers, the broker's
\* failure and the shutdown signals get none.
Fairness ==
    /\ WF_vars(WriteSend) /\ WF_vars(WriteInsert)
    /\ WF_vars(ReadResponse) /\ WF_vars(ReadEof)
    /\ WF_vars(Accept) /\ WF_vars(ServerRead) /\ WF_vars(ServerRespond) /\ WF_vars(ServerEof)

Spec == Init /\ [][Next]_vars /\ Fairness

-----------------------------------------------------------------------------
(* Properties                                                              *)

\* The read task never meets a response whose correlation id is not in
\* cbs: the `expect("unknown correlation id")` of the read task holds.
NoUnknownCorrelation == read # "unknown"

\* Every caller that queued a request eventually has its response, or an
\* error because its sender was dropped, unless it stopped waiting itself:
\* no caller of send_messages hangs forever.
CallerAnswered ==
    \A id \in Reqs :
        id \in submitted ~> id \in delivered \cup dropped \cup cancelled

=============================================================================
