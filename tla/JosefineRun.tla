--------------------------- MODULE JosefineRun -----------------------------
(***************************************************************************)
(* The broker process's top-level `run` (src/src/lib.rs): it spawns the    *)
(* broker task, the Raft task and a shutdown notifier, each behind a       *)
(* RemoteHandle, and awaits the three with try_join!.                      *)
(*                                                                         *)
(* The broker and Raft tasks are handed a broadcast Receiver subscribed    *)
(* when run builds their futures; the notifier subscribes only when the    *)
(* runtime first polls it.  A broadcast message reaches the receivers      *)
(* that exist when it is sent.  JosefineBroker::run and JosefineRaft::run  *)
(* are not among the sources: they end Ok once their receiver yields the   *)
(* signal (spec.md 3: shutdown is externally signalled) or fail with Err   *)
(* at any time.                                                            *)
(***************************************************************************)
EXTENDS Naturals, FiniteSets

CONSTANT MayFail   \* the broker and Raft tasks may end with Err

Broker   == "broker"
Raft     == "raft"
Notifier == "notifier"
Tasks    == {Broker, Raft, Notifier}
Services == {Broker, Raft}

VARIABLES
    pc,        \* run: "broker", "raft", "notifier" (next spawn), "join",
               \* "ok", "err" (returned)
    task,      \* each task: "none", "spawned", "running", "ok", "err",
               \* "cancelled"
    rcv,       \* each task's Receiver: "none", "subscribed", "signalled"
    signalled  \* the shutdown Sender has sent ()

vars == <<pc, task, rcv, signalled>>

Live  == {"spawned", "running"}
Ended == {"ok", "err", "cancelled"}

TypeOK ==
    /\ pc \in {"broker", "raft", "notifier", "join", "ok", "err"}
    /\ task \in [Tasks -> Live \cup Ended \cup {"none"}]
    /\ rcv \in [Tasks -> {"none", "subscribed", "signalled"}]
    /\ signalled \in BOOLEAN
    \* a task that runs has its receiver
    /\ \A t \in Tasks : task[t] = "running" => rcv[t] # "none"

Returned == pc \in {"ok", "err"}

-----------------------------------------------------------------------------

\* `shutdown.0.subscribe()` as an argument of run(..): the receiver exists
\* before the task does; then remote_handle() and tokio::spawn.
SpawnServiceMutLazy(t) ==
    /\ UNCHANGED rcv
    /\ task' = [task EXCEPT ![t] = "spawned"]
SpawnService(t) ==
    /\ rcv' = [rcv EXCEPT ![t] = "subscribed"]
    /\ task' = [task EXCEPT ![t] = "spawned"]

SpawnBroker ==
    /\ pc = "broker"
    /\ SpawnService(Broker)
    /\ pc' = "raft"
    /\ UNCHANGED signalled

SpawnRaft ==
    /\ pc = "raft"
    /\ SpawnService(Raft)
    /\ pc' = "notifier"
    /\ UNCHANGED signalled

\* The notifier's async block is spawned before it has run a line.
SpawnNotifier ==
    /\ pc = "notifier"
    /\ task' = [task EXCEPT ![Notifier] = "spawned"]
    /\ pc' = "join"
    /\ UNCHANGED <<rcv, signalled>>

\* The runtime polls a spawned task for the first time: the notifier's
\* block runs `shutdown.0.subscribe()` now.
PollMutNoSubscribe(t) ==
    /\ task[t] = "spawned"
    /\ task' = [task EXCEPT ![t] = "running"]
    /\ UNCHANGED <<pc, rcv, signalled>>
Poll(t) ==
    /\ task[t] = "spawned"
    /\ task' = [task EXCEPT ![t] = "running"]
    /\ rcv' = [rcv EXCEPT ![t] = IF @ = "none" THEN "subscribed" ELSE @]
    /\ UNCHANGED <<pc, signalled>>

\* The process's shutdown Sender sends (): every receiver that exists gets
\* it; one made later never does.
Signal ==
    /\ ~signalled
    /\ signalled' = TRUE
    /\ rcv' = [t \in Tasks |-> IF rcv[t] = "subscribed" THEN "signalled"
                                                        ELSE rcv[t]]
    /\ UNCHANGED <<pc, task>>

\* rx.recv().await? yields and the notifier returns Ok(()).  The Sender
\* lives in the block itself, so recv never fails with Closed.
NotifierRecv ==
    /\ task[Notifier] = "running"
    /\ rcv[Notifier] = "signalled"
    /\ task' = [task EXCEPT ![Notifier] = "ok"]
    /\ UNCHANGED <<pc, rcv, signalled>>

\* JosefineBroker::run / JosefineRaft::run return Ok on the signal.
ServiceStop(t) ==
    /\ task[t] = "running"
    /\ rcv[t] = "signalled"
    /\ task' = [task EXCEPT ![t] = "ok"]
    /\ UNCHANGED <<pc, rcv, signalled>>

\* ... or fail with an error of their own.
ServiceFail(t) ==
    /\ MayFail
    /\ task[t] = "running"
    /\ task' = [task EXCEPT ![t] = "err"]
    /\ UNCHANGED <<pc, rcv, signalled>>

\* try_join!(b, raft, shutdown_notifier)?: Err as soon as one handle
\* yields Err, Ok once all three yield Ok.
Join ==
    /\ pc = "join"
    /\ \/ \E t \in Tasks : task[t] = "err" /\ pc' = "err"
       \/ \A t \in Tasks : task[t] = "ok" /\ pc' = "ok"
    /\ UNCHANGED <<task, rcv, signalled>>

\* run has returned and dropped its RemoteHandles: dropping one cancels
\* its task at the task's next poll.
HandleDroppedMutDetach == FALSE
HandleDropped == Returned

Cancel(t) ==
    /\ HandleDropped
    /\ task[t] \in Live
    /\ task' = [task EXCEPT ![t] = "cancelled"]
    /\ UNCHANGED <<pc, rcv, signalled>>

Init ==
    /\ pc = "broker"
    /\ task = [t \in Tasks |-> "none"]
    /\ rcv = [t \in Tasks |-> "none"]
    /\ signalled = FALSE

Next ==
    \/ SpawnBroker \/ SpawnRaft \/ SpawnNotifier \/ Signal
    \/ NotifierRecv \/ Join
    \/ \E t \in Tasks : Poll(t) \/ Cancel(t)
    \/ \E t \in Services : ServiceStop(t) \/ ServiceFail(t)

\* The tokio runtime polls every task that is spawned or woken (a send on
\* the broadcast channel and a dropped RemoteHandle both wake the task),
\* and run is itself such a task.  The signal and the failures get none.
Fairness ==
    /\ WF_vars(SpawnBroker) /\ WF_vars(SpawnRaft) /\ WF_vars(SpawnNotifier)
    /\ WF_vars(NotifierRecv) /\ WF_vars(Join)
    /\ \A t \in Tasks : WF_vars(Poll(t)) /\ WF_vars(Cancel(t))
    /\ \A t \in Services : WF_vars(ServiceStop(t))

Spec == Init /\ [][Next]_vars /\ Fairness

-----------------------------------------------------------------------------
(* Properties                                                              *)

\* Once run has returned, Ok or Err, none of its tasks runs on: try_join!
\* stops at the first Err, and dropping the RemoteHandles of the others
\* cancels them (a JoinHandle would leave them running).
NoOrphanTask ==
    Returned ~> \A t \in Tasks : task[t] \in Ended

\* A shutdown signal that reaches the notifier's receiver makes run
\* return: the broker's and Raft's receivers were subscribed before the
\* notifier was spawned, so they have the signal too.
ShutdownReturns ==
    rcv[Notifier] = "signalled" ~> Returned

=============================================================================
