---------------------------- MODULE CreateTopics ----------------------------
(***************************************************************************)
(* The CreateTopics handler of the broker                                  *)
(* (src/src/broker/broker/create_topics.rs), several requests handled      *)
(* concurrently against the Raft-replicated store.                         *)
(*                                                                         *)
(* For each topic of the request, in order, the handler checks             *)
(* topic_exists and ignores the answer, proposes EnsureTopic, builds the   *)
(* partitions in make_partitions and proposes one EnsurePartition per      *)
(* partition.  Every `?` returns the error and abandons the rest.          *)
(*                                                                         *)
(* The Raft client and the FSM that applies the transitions are not among  *)
(* the sources.  A proposal either commits and returns Ok, or returns Err  *)
(* with or without having committed (the caller may stop waiting while    *)
(* the entry still commits, spec.md 5).  The store keeps every committed   *)
(* topic as <<name, handler>> (Uuid::new_v4 is fresh per handler) and      *)
(* every committed partition as <<name, index>>.                           *)
(*                                                                         *)
(* The Controllers run the other handler of the broker,                    *)
(* CreateTopicsHandler::handle (src/src/broker/handler/create_topics.rs):  *)
(* it proposes EnsureTopic, deserializes the committed topic and goes on;  *)
(* its make_partitions is never called, so it proposes no partition.       *)
(***************************************************************************)
EXTENDS Naturals, FiniteSets, Sequences, SequencesExt, Functions

CONSTANTS
    Handlers,       \* concurrent handle() calls
    Names,          \* topic names
    NumPartitions,  \* CreatableTopic.num_partitions of every topic
    BrokerCounts,   \* sizes get_brokers() may return
    MayFail,        \* proposals and store reads may fail
    Controllers     \* the handlers that run CreateTopicsHandler::handle

VARIABLES
    req,         \* the request handled: its topic names in order
    pc,          \* handler: "idle", "topic", "part", "ok", "err", "panic"
    todo,        \* the topics of the request still to create, in order
    part,        \* the next partition index of the current topic
    topics,      \* committed EnsureTopic: <<name, handler>>
    partitions   \* committed EnsurePartition: <<name, index>>

vars == <<req, pc, todo, part, topics, partitions>>

\* req.topics: an ordered map from name to CreatableTopic.
Requests == {r \in BoundedSeq(Names, 2) : r # <<>> /\ IsInjective(r)}

\* What a propose(..).await? may come to.
Outcomes == IF MayFail THEN {"ok", "err", "errCommitted"} ELSE {"ok"}

Committed(o) == o # "err"

TypeOK ==
    /\ req \in [Handlers -> Requests \cup {<<>>}]
    /\ pc \in [Handlers -> {"idle", "topic", "part", "ok", "err", "panic"}]
    /\ todo \in [Handlers -> Seq(Names)]
    /\ part \in [Handlers -> 0..NumPartitions]
    /\ topics \subseteq Names \X Handlers
    /\ partitions \subseteq Names \X (0..NumPartitions - 1)
    \* a handler creating a topic has one at hand
    /\ \A h \in Handlers : pc[h] \in {"topic", "part"} => todo[h] # <<>>

-----------------------------------------------------------------------------

\* The topic at hand is created: insert it into the response and go on with
\* the next one, or return Ok(res).
FinishTopicMutNoReturn(h) ==
    /\ todo' = [todo EXCEPT ![h] = Tail(todo[h])]
    /\ pc' = [pc EXCEPT ![h] = "topic"]
    /\ part' = [part EXCEPT ![h] = 0]
FinishTopic(h) ==
    /\ todo' = [todo EXCEPT ![h] = Tail(todo[h])]
    /\ pc' = [pc EXCEPT ![h] = IF Tail(todo[h]) = <<>> THEN "ok" ELSE "topic"]
    /\ part' = [part EXCEPT ![h] = 0]

\* for i in 0..num_partitions: index i is the last one.
LastPartitionMutOffByOne(h) == part[h] + 2 = NumPartitions
LastPartition(h) == part[h] + 1 = NumPartitions

\* Broker::handle receives a request.
Start(h, r) ==
    /\ pc[h] = "idle"
    /\ req' = [req EXCEPT ![h] = r]
    /\ pc' = [pc EXCEPT ![h] = "topic"]
    /\ todo' = [todo EXCEPT ![h] = r]
    /\ UNCHANGED <<part, topics, partitions>>

\* topic_exists(&name)? (ignored), then create_topic up to make_partitions:
\* propose EnsureTopic and await it; then get_brokers(), whose first() is
\* unwrapped for every partition, so an empty broker list panics.
ProposeTopic(h) ==
    /\ pc[h] = "topic"
    /\ h \notin Controllers
    /\ \E o \in Outcomes, nb \in BrokerCounts :
       /\ topics' = IF Committed(o) THEN topics \cup {<<Head(todo[h]), h>>}
                                    ELSE topics
       /\ CASE o # "ok" ->
                 /\ pc' = [pc EXCEPT ![h] = "err"]
                 /\ UNCHANGED <<todo, part>>
            [] NumPartitions = 0 -> FinishTopic(h)
            [] nb = 0 ->
                 /\ pc' = [pc EXCEPT ![h] = "panic"]
                 /\ UNCHANGED <<todo, part>>
            [] OTHER ->
                 /\ pc' = [pc EXCEPT ![h] = "part"]
                 /\ UNCHANGED <<todo, part>>
    /\ UNCHANGED <<req, partitions>>

\* CreateTopicsHandler::handle, one topic: topic_exists(&name)? (ignored),
\* propose EnsureTopic and await it, then bincode::deserialize the answer
\* (an Err there comes after the commit); insert the result and go on.
ControllerProposeTopic(h) ==
    /\ pc[h] = "topic"
    /\ h \in Controllers
    /\ \E o \in Outcomes :
       /\ topics' = IF Committed(o) THEN topics \cup {<<Head(todo[h]), h>>}
                                    ELSE topics
       /\ \/ /\ o # "ok"
             /\ pc' = [pc EXCEPT ![h] = "err"]
             /\ UNCHANGED <<todo, part>>
          \/ o = "ok" /\ FinishTopic(h)
    /\ UNCHANGED <<req, partitions>>

\* One iteration of `for p in ps`: propose EnsurePartition and await it.
ProposePartition(h) ==
    /\ pc[h] = "part"
    /\ \E o \in Outcomes :
       /\ partitions' = IF Committed(o)
                          THEN partitions \cup {<<Head(todo[h]), part[h]>>}
                          ELSE partitions
       /\ CASE o # "ok" ->
                 /\ pc' = [pc EXCEPT ![h] = "err"]
                 /\ UNCHANGED <<todo, part>>
            [] LastPartition(h) -> FinishTopic(h)
            [] OTHER ->
                 /\ part' = [part EXCEPT ![h] = part[h] + 1]
                 /\ UNCHANGED <<pc, todo>>
    /\ UNCHANGED <<req, topics>>

Init ==
    /\ req = [h \in Handlers |-> <<>>]
    /\ pc = [h \in Handlers |-> "idle"]
    /\ todo = [h \in Handlers |-> <<>>]
    /\ part = [h \in Handlers |-> 0]
    /\ topics = {}
    /\ partitions = {}

Next ==
    \E h \in Handlers :
        \/ \E r \in Requests : Start(h, r)
        \/ ProposeTopic(h)
        \/ ControllerProposeTopic(h)
        \/ ProposePartition(h)

Spec == Init /\ [][Next]_vars

-----------------------------------------------------------------------------
(* Properties                                                              *)

\* The name has every partition in the store.
Complete(n) == \A i \in 0..NumPartitions - 1 : <<n, i>> \in partitions

\* A handler that returned Ok(res) has, for every topic of its request, its
\* EnsureTopic committed, and a Broker handler all of its partitions too:
\* each proposal is awaited before the response gets the topic, and the
\* partition loop misses no index.  (A Controller creates no partition.)
OkMeansCreated ==
    \A h \in Handlers :
        pc[h] = "ok" =>
            \A n \in ToSet(req[h]) :
                /\ <<n, h>> \in topics
                /\ h \notin Controllers => Complete(n)

=============================================================================
