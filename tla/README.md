# TLA+ models of josefine

josefine is an early Kafka-compatible broker whose control plane runs on a
Raft state machine (`src/josefine-raft`). This directory holds TLA+ models of
its concurrent and distributed parts, the TLC configurations that check them,
and `PROJECT.json`, which lists the components, runs, mutants, the mapping
from every modelled definition to source lines, the findings and the hazards.

## 1. Inventory

### Components

| Component | Source | State it keeps | Operations |
|---|---|---|---|
| Role container | `src/josefine-raft/src/raft.rs` | `State` (current_term, voted_for, commit_index, last_applied, timers); the role as the `RaftHandle` variant; `NodeMap` shared behind an `RwLock` | `RaftHandle::apply` dispatches a `Command` to the role; `Raft::term`; `add_node_to_cluster` |
| Follower | `src/josefine-raft/src/follower.rs` | `leader_id` | `Append` (io.append), `Heartbeat`, `VoteRequest` (always grants), `Timeout` (becomes Candidate), `Ping` |
| Candidate | `src/josefine-raft/src/candidate.rs` | `Election` (map voter -> granted) | `seek_election`, `VoteRequest` (denies), `VoteResponse` (tally), `AppendEntries`/`Heartbeat` of term >= own (step down), everything else ignored, including `Timeout` |
| Election | `election.rs`, **not in the sources** | votes map | `vote`, `election_status` (Elected/Voting/Defeated) |
| Leader, progress | `leader.rs`, `progress.rs`, **not in the sources** | progress per peer, heartbeat time | heartbeats, replication, commit (spec.md 4.4) |
| Peer transport | `src/josefine-raft/src/node.rs` (`NodeActor`) | one TCP line stream per peer; `writer` is `None` until connected | write a JSON line per RPC (dropped while `writer` is `None`), read lines and forward them to the Raft actor |
| Counting candidate | `src/src/raft/candidate.rs`, `raft.rs` (older module) | `votes` map | `Vote` tallied by `votes > majority(cluster.len())` |
| Kafka client connection | `src/src/kafka/tcp.rs` | `cbs`: correlation id -> oneshot sender, shared by two tasks under a Mutex | write task: send request then register callback; read task: remove callback and answer |
| Kafka server connection | `src/src/broker/tcp.rs` | per connection, one request in flight | read a request, send it with a oneshot to the broker, await, write the response |
| CreateTopics | `src/src/broker/broker/create_topics.rs`, `src/src/broker/handler/create_topics.rs` | topics and partitions in the Raft-replicated store | propose `EnsureTopic`, then one `EnsurePartition` per partition |
| Process run | `src/src/lib.rs` (`run`) | three spawned tasks behind RemoteHandles; a broadcast shutdown channel | spawn broker, Raft and a shutdown notifier; `try_join!` the three |
| Config, state types | `src/src/config.rs`, `state/topic.rs`, `replica.rs` | none of interest | configuration, data constructors |

### How they interact

Every Raft node is one actor: `RaftHandle::apply` handles one `Command` at a
time and returns the node in its new role, so within a node nothing
interleaves. Nodes talk through `NodeActor`s. Each holds one TCP stream per
peer, so lines on it arrive in order, but a line written while the actor is not
connected is lost. The concurrency is therefore between nodes: their
commands interleave, and lines are delayed, reordered across streams or lost.
The broker sends client proposals to Raft through `RaftClient` and awaits the
committed result. The Kafka connection code pairs requests and responses
across tasks by correlation id.

### What is hard

- Elections: the vote a Follower gives, what a Candidate counts, stale answers
  from earlier elections, split votes, lost lines (hazards in `PROJECT.json`).
- The Kafka client: a write task and a read task share the callback map, and
  the callback is registered only after the request is on the wire.
- CreateTopics: several proposals per request, with no transaction and no
  existence check; concurrent requests and failures part-way through.
- Process shutdown: three tasks subscribe to one broadcast signal at
  different moments, and one failing task must take the others down.

### What makes each component correct

- Raft roles: at most one leader per term; a vote counted only in the term it
  was given; a Leader's election won by a quorum; terms never decrease; every
  election eventually ends; role and term move only as the abstract
  `ElectionSpec` allows.
- Transport: whatever is lost, the properties above still hold.
- Counting candidate: a quorum of grants elects, and nothing less does.
- Kafka client: every response reaches the caller that sent the request, and
  the connection does not die on an ordinary interleaving.
- CreateTopics: a created topic has all of its partitions, and one name gives
  one topic.
- Process run: when it returns no task runs on, and a shutdown signal ends it.

## 2. Plan

Modules in order of importance (status in brackets):

1. `RaftElection` [done]: the role state machine of every node, elections
   and heartbeats, over per-pair FIFO streams that may lose lines.
   `MCRaftElection` instantiates it.
2. `RaftReplication` [not done]: the log. The side that sends entries
   (Propose, AppendEntries, progress and commit in `leader.rs`) is not among
   the sources. What is left to translate is the Follower's `Append` arm and
   the one-line `MemoryIo::append`, which appends blindly with no
   consistency check. A module for it would be the spec's leader against
   that one line.
3. `RaftElection` + Restart [not done]: a node restarting with
   `State::default` is the Init state of that node, and the double vote it
   would show already happens without a restart (raft_two_leaders). A
   `Restart` action that also empties the node's streams, tried in the
   three-node lossy run, went past 18 million distinct states without
   finishing.
4. `CountingElection` [done]: the `majority()` tally of `src/src/raft/candidate.rs`.
   The pure operator is checked against the quorum definition over cluster
   sizes 1..5, plus the Candidate state machine.
5. `KafkaConnection` [done]: one connection end to end, with the write,
   read and shutdown tasks of `send_messages`, the server's
   `stream_messages`, and callers and a broker that may give up.
6. `receive_task` [done, in `KafkaConnection`]: it accepts the
   connection, or its shutdown wins first. Several connections at once are
   not modelled: they share only the broker channel, and the broker behind
   it is not among the sources.
7. `CreateTopics` [done, both handlers]: concurrent handlers proposing through a
   Raft client that may fail. An Ok response implies a complete topic; the
   partial topics and the duplicate names the code admits in TODOs are
   reached and listed as hazards.
8. Abstract specification `ElectionSpec` [done]: what a node promises of
   its role and term. `RaftElection` refines it with `term <- currentTerm`.
9. `JosefineRun` [done]: `run` of `src/src/lib.rs`, the three tasks of the
   process and their shutdown.

## 3. Modules and runs

### RaftElection (`RaftElection.tla`, `MCRaftElection.tla`)

State: `currentTerm` and `votedFor` (State), `role` (the RaftHandle variant),
`leaderId` (Follower), `votes` (the Candidate's Election map; a Leader keeps
the one it won, a Follower has none), and `chan[<<s, r>>]`, the lines queued
on the stream from s to r. The history variable `elections` (every <<node, term>> that
became Leader) is only read by properties.

Actions, one per whole `apply`:
- `Timeout(n)`: `Follower::apply(Timeout)`, the From conversion and
  `seek_election`, which votes for self, increments the term and applies the
  self vote. In a one-node cluster this makes the node Leader at once. The
  VoteRequest broadcast comes from spec.md 4.3, because the Rpc layer is not
  in the sources.
- `Receive(s, n)`: the head line of the stream s->n, handled by n's role:
  `FollowerHandle`, `CandidateHandle`, `LeaderHandle`. The last one comes from
  spec.md 4.4: step down on a higher term, otherwise deny votes. `Raft::term`,
  which would set the term, has no caller in the sources.
- `SendHeartbeat(n, p)`: Leader heartbeat (spec.md 4.4).
- `Drop(s, n)`: `NodeActor` loses a line (only when `Lossy`).

`Tick`, `Noop`, `Ping` and a Candidate's `Timeout` change no modelled state.
They are stuttering steps.

Runs (all with three nodes as model values unless said otherwise):

| run | cfg | expect | shows |
|---|---|---|---|
| raft_election | MCRaftElection.cfg | pass | TypeOK with MaxTerm 2, any line may be lost (3.3M states, about 3 minutes). It is the run that fires `Drop` and the Defeated tally; what a lost line does to an election is raft_lost_election's question. |
| raft_election_live | MCRaftElection_live.cfg | pass | Two nodes, MaxTerm 4, reliable: every election ends (split votes included), and `ImplementsElectionSpec`. |
| raft_two_leaders | MCRaftElection_safety.cfg | violation | Two Leaders in term 1: the third node grants both Candidates (`follower.rs:46`). |
| raft_lost_election | MCRaftElection_lossy.cfg | violation | A lost VoteRequest leaves a Candidate waiting forever (`candidate.rs:80`). |

Refinement: `ElectionSpec.tla` is the abstract specification of one node's
role and term, from spec.md 3 and 4.2-4.4. A node starts an election at the
next term (`BeginElection`), wins it at that term (`Win`), gives it up for a
Follower at its term or a higher one (`Abandon`), or, as Leader or Follower,
meets a higher term (`AdoptTerm`); one node changes per step. `RaftElection`
instantiates it as `ES == INSTANCE ElectionSpec WITH term <- currentTerm`,
and `ImplementsElectionSpec == ES!Spec` is checked as a property. It holds
that terms never fall (a Leader steps down only for a higher term), that a Leader only ever comes from a Candidate winning at its own
term, and that a Leader leaves only for a higher term. The check runs in the
two-node liveness cfg: with three lossy nodes the refinement doubles a run
that already takes three minutes. The abstract Candidate may also time out
and stand again (spec.md 4.3), which this code never does.

Bounds: MaxTerm 2 lets a node hold two elections, so answers of a first
election can still be queued during the second, and a Leader can step down
on a higher term. It also lets a grant of the first election be counted
by the second (`candidate.rs:53`). That grant alone breaks
`ElectionSafety`: in a variant where Followers and Leaders record their vote
per term, TLC still finds two Leaders of term 2 from a grant given in term 1.
The variant passes once the tally also ignores answers of another term.
Neither fix is in the code, so no run checks the variant. Three nodes give
both a contested
quorum and a third party that can be asked twice. Once a heartbeat is queued
on a stream, the leader sends no second copy until it is consumed; a
Follower's handling of a Heartbeat is idempotent. The liveness runs use two
nodes without symmetry, where every election needs the peer's answer; the
passing one goes to four elections per node, the lossy one to two.
CHECK_DEADLOCK is off in these cfgs. The real system does not stop, because
the driver keeps sending Tick and Timeout. But once every node is at MaxTerm,
all that remains is stuttering steps.

Fairness: weak fairness on `Receive` for every stream (the driver feeds
every line it reads into `apply`; a connected TCP stream delivers) and on a
Follower's `Timeout` (the driver keeps ticking). There is no fairness on
`Drop` or `SendHeartbeat`.

### CountingElection (`CountingElection.tla`, `MCCountingElection.tla`)

One node of the older module `src/src/raft`. State: `cluster` (the
`Vec<Node>` that `add_node_to_cluster` pushes onto, duplicates included),
`role`, `votes` (the Candidate's `HashMap<u64, bool>`) and `asked`, the peers
that still owe this election an answer. Actions: `SeekElection` (a Follower
becomes Candidate and applies its own `Vote`), `Vote(from, voted)`
(`Candidate::apply(Vote)`: insert, fold into `<<votes, total>>`, promote when
`votes > majority(cluster.len())`), `CandidateStepDown` (`Append`/`Heartbeat`
turn the Candidate into a Follower), `AddNode(n)` and `LeaderStepDown`. The
last one and the Follower's timeout come from spec.md, because the Follower and
Leader of that module are not among the sources.

| run | cfg | expect | shows |
|---|---|---|---|
| counting_election | MCCountingElection.cfg | pass | TypeOK; a Candidate is never promoted without a quorum of the distinct nodes of its cluster (action property `LeaderHasQuorum`). |
| counting_majority | MCCountingElection_majority.cfg | violation | `majority()` disagrees with the strict-majority rule once the cluster has two nodes. |

Bounds: this node plus up to four joiners (`MaxClusterLen` 5), so cluster
lengths 1 to 5 occur, odd and even, with duplicates. Symmetry over the joiners is sound
because no definition names one of them.

### KafkaConnection (`KafkaConnection.tla`, `MCKafkaConnection.tla`)

One TCP connection between `send_messages` (`src/src/kafka/tcp.rs`) and
`stream_messages` (`src/src/broker/tcp.rs`), which `receive_task` spawns
once it accepts the connection (`Accept`). Its shutdown may win the
`select!` first (`ReceiveStop`, under `ServerMayStop`): the listener is
dropped and the connection in its backlog is reset. After the accept the
same break changes nothing the model holds, since the spawned task is
detached. A request is its correlation id.
State: `rx` (the caller -> write task channel); `wpc`/`wcur` (the write
task, which holds a request between `send().await` and the insert); `c2s` and
`s2c` (the two directions of the socket); `srv`/`scur` (not yet accepted,
then the server loop, awaiting the broker's oneshot); `read` (the read task: running, ended at end
of stream, or panicked at the `expect` or at the `unwrap`); `cbs` (the
callback map) and `poisoned` (its Mutex). The sets `delivered`, `dropped` and
`cancelled` record what each caller saw: its response, a `RecvError` because
its sender was dropped, or nothing because it stopped waiting.

The rules for dropping senders come from ownership. A queued or held sender
goes with the write task. The senders in `cbs` go when the last `Arc` of the
map is gone: the write task's, the read task's, and the one that
`send_messages` drops on return, once read or write has ended.

| run | cfg | expect | shows |
|---|---|---|---|
| kafka_connection | MCKafkaConnection.cfg | pass | TypeOK, with broker failures, cancelling callers and the listener's shutdown, four requests. It fires the fault actions; what they do to a caller is kafka_caller_hangs's question. |
| kafka_connection_live | MCKafkaConnection_live.cfg | pass | `CallerAnswered`: with a broker that answers, nobody hangs, early-response race included. |
| kafka_unknown_correlation | MCKafkaConnection_unknown.cfg | violation | The response beats the callback insert and the `expect` panics (`tcp.rs:41`). |
| kafka_caller_hangs | MCKafkaConnection_hang.cfg | violation | Once the read task ends, at end of stream after the server closes (`tcp.rs:39`) or by the panic at `cb.send(res).unwrap()` after another caller cancelled (`tcp.rs:42`), a registered caller waits forever. The server closes when the broker drops a oneshot or when `receive_task`'s shutdown wins before the accept (`ServerMayStop`). |

Bounds: four requests in the safety and liveness runs, which is enough for
one request in each of rx, the write task, cbs and the server at once. There
are two in the violation runs, where one request can be stranded while the other closes the
connection. Symmetry over requests is used only in the safety run.

One more defect is reached by the model but has no run of its own: on
shutdown `select_all` drops the JoinHandles of read and write, which detaches
those tasks rather than stopping them (`tcp.rs:53`). It is listed as a
hazard.

Fairness: weak fairness on every step of the write, read and server tasks.
The tokio runtime polls every ready task, and a socket delivers what was
written to it; a pending connection is accepted. Callers, the broker's
failure and the two shutdown signals get no fairness. CHECK_DEADLOCK is off: once callers stop submitting, every task
waits on input for good.

### CreateTopics (`CreateTopics.tla`, `MCCreateTopics.tla`)

`Broker::handle`, `create_topic` and `make_partitions` of
`src/src/broker/broker/create_topics.rs`, and `CreateTopicsHandler::handle`
of `src/src/broker/handler/create_topics.rs` for the handlers in
`Controllers` (`ControllerProposeTopic`: `topic_exists`, propose
`EnsureTopic`, deserialize the answer, no partitions). Each handler takes a request (one
or two topic names, in order). For each topic it proposes `EnsureTopic`
(`ProposeTopic`, which also covers the ignored `topic_exists` and the
`brokers.first().unwrap()` of `make_partitions`), then one `EnsurePartition`
per partition (`ProposePartition`). A proposal returns Ok, Err, or Err after
committing anyway: the Raft client is not among the sources, and spec.md 5
lets a caller stop waiting for an entry that still commits. The store is the
set of committed topics, as `<<name, handler>>` (a fresh Uuid per handler),
and the set of committed partitions, as `<<name, index>>`.

| run | cfg | expect | shows |
|---|---|---|---|
| create_topics | MCCreateTopics.cfg | pass | TypeOK and `OkMeansCreated`, with two concurrent Broker handlers and two CreateTopicsHandlers (213k states), two names, two partitions per topic, failing proposals and broker lists of size 0 or 1. |

The model also reaches three states the code's TODOs admit: a committed
topic without partitions, two handlers both returning Ok for one name, and
the panic on an empty broker list. They are hazards in `PROJECT.json` and not
separate runs. No fairness is assumed and deadlock checking is off: every
handler ends in Ok, Err or a panic. Symmetry is over the two Broker
handlers and the names. The CreateTopicsHandler returns Ok for a topic with
no partition at all: its `make_partitions` is never called. `OkMeansCreated`
asks partitions of the Broker handlers only.

### JosefineRun (`JosefineRun.tla`)

`run` of `src/src/lib.rs`. State: `pc` (run's place: the next spawn, the
`try_join!`, returned Ok or Err), `task` (each of the broker task, the Raft
task and the notifier: not spawned, spawned, running, Ok, Err, cancelled),
`rcv` (each task's broadcast Receiver: not made, subscribed, holding the
signal) and `signalled`. `SpawnBroker` and `SpawnRaft` make the receiver when
run builds the future (`shutdown.0.subscribe()` is an argument) and spawn it;
`SpawnNotifier` spawns a block that subscribes only when `Poll` runs it.
`Signal` is the caller's Sender: it reaches the receivers that exist.
`NotifierRecv`, `ServiceStop` and `ServiceFail` end tasks (the bodies of
`JosefineBroker::run` and `JosefineRaft::run` are not among the sources:
Ok on the signal, Err at any time). `Join` is `try_join!`, and `Cancel` is a
task whose RemoteHandle run dropped on return.

| run | cfg | expect | shows |
|---|---|---|---|
| josefine_run | MCJosefineRun.cfg | pass | TypeOK; `NoOrphanTask`: once run returns no task runs on; `ShutdownReturns`: a signal that reaches the notifier makes run return. |

Fairness: weak fairness on run's steps, on every poll, on the notifier's
receive, on the services stopping on the signal, and on cancellation: the
runtime polls spawned and woken tasks, and both a broadcast send and a
dropped RemoteHandle wake the task. The signal and the failures get none.
CHECK_DEADLOCK is off: the process stops once run has returned.

The model also reaches a race that has no run: a signal sent after the
broker and Raft receivers exist but before the notifier's first poll stops
broker and Raft, and the notifier never hears it, so `try_join!` waits for
ever (`lib.rs:72`). The notifier would hear it had it subscribed, like the
others, before being spawned. It is a hazard in `PROJECT.json`.

### Findings

See `PROJECT.json` "findings": two Leaders per term,
elections that never end after a lost line, the off-by-one in the
`majority()` tally of the older module (`src/src/raft/candidate.rs:32`), the
Kafka client's panic on an early response, and its callers left waiting once
its read task ends.

## 4. Not modelled

What the sources still hold beyond these modules is little: imports, log
drains (`PrintlnDrain`), configuration structs, tests, match arms on
commands that are never sent or not defined, and `unimplemented!()` bodies.
The modules translate every operation of the sources that changes state
and whose counterpart is among the sources. The rest depends on `leader.rs`,
`election.rs`, `rpc.rs`, the codec and the broker's FSM, which are not among
the sources. They are listed here:

- JSON encoding, logging, connection backoff timing.
- Wall-clock timers: a timeout may happen at any time.
- The log and replication: `MemoryIo::append` appends blindly, but the
  leader that sends entries (`leader.rs`) is not among the sources.
- `AddNode` in `RaftElection` (membership is fixed at bootstrap); it is
  modelled for the older module in `CountingElection`.
- Several connections at once in `receive_task`: `KafkaConnection` models
  one. The connections share only the broker channel, whose broker is not
  among the sources. A failed `accept` only disables that branch of the
  `select!` for one turn of the loop.
- A stale `Heartbeat` re-pointing a Follower's `leader_id`
  (`follower.rs:41`): the model reaches it, but it has no violation run of
  its own.
- The `make_partitions` of `src/src/broker/handler/create_topics.rs`: never
  called, `unimplemented!()` after a `% 0`.
- Restarts of a Raft node: `RaftHandle::new` after a crash is that node's
  Init state, and what a restarted node may do wrong (vote twice in a term)
  every Follower already does.
- Replica assignment in `make_partitions` (shuffle, replication factor),
  Kafka framing and the codecs (`codec.rs` is not among the sources).
- The Raft client and the FSM that applies `EnsureTopic`/`EnsurePartition`:
  not among the sources; a proposal is modelled by its outcomes.
- In `lib.rs`, `sled::open`, the client channel and tracing (I/O); in
  `config.rs`, reading the configuration (no state that changes).
