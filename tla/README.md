# Verification of roslibrust

TLA+ models of roslibrust's backends, model-checked with TLC on small
instances, with safety properties proved with TLAPS for instances of any size.
Every model is translated from the Rust source under `src/`; `PROJECT.json`
names, for each definition, the lines it stands for.

Contents: [the system](#1-the-system), [the modules](#2-the-modules),
[the runs](#3-the-runs), [fairness](#4-fairness), [the proofs](#5-the-proofs),
[where code and documents disagree](#6-where-code-and-documents-disagree),
[what is not modelled](#7-what-is-not-modelled), [the plan](#8-the-plan).

## 1. The system

roslibrust is a family of Rust crates that let an application publish,
subscribe, call services and serve them over several transports behind common
traits (`roslibrust_common`). Each backend is a set of tokio tasks around shared
maps. There is no distributed protocol to verify end to end; what is hard is
that the tasks of one process, a peer that may vanish, timers, and callbacks
that run on `Drop` all change the same maps and talk over the same connection.

### rosbridge client (`roslibrust_rosbridge`)

One `Client` behind a fair `tokio::sync::RwLock`, used by any number of tasks
through `ClientHandle`, and one task, `stubborn_spin`, that reads the websocket.

| part | state | operations | what makes it correct |
|---|---|---|---|
| service calls | `service_calls` (id to oneshot sender), `writer`, `is_disconnected` | `call_service`, `handle_response`, `reconnect`, the clear on loss | no caller waits for what cannot come; the map holds only calls in flight; a call is executed at most once, and "ok" means executed |
| records | `publishers`, `subscriptions` with their queues, `services` | `advertise`, `subscribe`, `advertise_service` and the tasks spawned by the drop of each handle, `reconnect` | the server knows what live handles need; a drop takes away only what is its own; nothing keeps the client from reconnecting |
| dispatch | the message being handled, guards of DashMaps | `spin_once` under a 10 ms timeout, `handle_service`, `handle_publish` | no publication is missed; requests are answered; the spin task comes back to its websocket |
| subscriber queue | a bounded queue per `Subscriber` | the push of the closure in `_subscribe`, `next`, `most_recent` | messages come in order; the newest is kept |

Interactions: `reconnect` holds the write half of the lock; every other
operation holds a read half, some of them two; the writer's lock nests inside;
guards of DashMaps block threads rather than tasks.
Hard: locks taken twice, flags read before an await and used after it, futures
dropped by timeouts at any await, `Drop` handlers that spawn the opposite of an
operation that another task is starting again.

### ROS 1 node (`roslibrust_ros1`)

One `Node` behind one `tokio::sync::Mutex`, which is held while the ROS master
is asked, and by `service_client` while the service is. Subscriptions have a
reader task for each publisher, publications an accept task and a writer task
for each subscriber, services a link task for each client; service clients an
actor that owns one connection.

| part | state | operations | what makes it correct |
|---|---|---|---|
| subscription | `subscriptions`, the map of readers, cancellation tokens | `register_subscriber`, `Subscriber::drop`, `publisherUpdate`, the readers and their exit | a live Subscriber has a Subscription; every listed publisher is read, once; the master forgets what was dropped |
| publication stream | the broadcast channel, the latched message, a receiver per connection | `publish`, `tcp_accept_task`, `publish_task` | order, no repetition, newest kept, last message arrives, every client is served |
| records of the node | `publishers`, `service_servers`, the shutdown channel of a publication, the mutex | `register_publisher`, `unregister_publisher`, `register_service_server`, `unregister_service_server`, the tasks spawned by drops | live handles keep their records, the master agrees, what is dropped goes |
| end of the node | `kill`, the cancellation of the node's tasks | `shutdown` of the slave API, the last `NodeHandle`, `Drop` | whoever waits for the node returns; nothing is served or registered by a node that is gone |
| service link | the actor's queue, one TCP stream, the server's task | `ServiceClient::call`, `handle_service_call`, `handle_tcp_connection` | the response read is the one to the request written; at most one execution; every caller returns |

Hard: a cleanup that runs after its object has been replaced; calls of the
master that fail after the master has done its part; clients that say nothing;
responses without an identifier; a node that ends while its operations wait.

### The other backends and libraries

| part | state | operations | what makes it correct |
|---|---|---|---|
| mock topics (`roslibrust_mock`) | a map from topics to broadcast channels, under a RwLock | `advertise`, `subscribe`, `publish`, `next` | whoever uses a topic shares one channel, or is refused; who uses it with another type never gets on it |
| mock services | a map from services to callbacks | `advertise_service`, `service_client`, `call` | the newest server serves; a call ends |
| transforms (`roslibrust_transforms`) | the registry, the channel that notifies waiters, a task | construction, `add_transform`, `wait_for_transform`, `Drop` | no transform is missed between the look and the wait; transforms reach every manager; the task ends |
| mcap (`roslibrust_mcap`) | tables of schemas and channels, handles that are numbers | `add_ros_channel`, `Channel::write`, `finish`, reading back | a message is read under the topic and type it was written with |
| zenoh discovery (`roslibrust_zenoh`) | the facts a monitor has heard, with their age | beacons, the monitor's interval, `list_topics` | what lives stays known, what is gone is forgotten |
| zenoh and ROS 2 services | a queue of queries and one task | `advertise_service`, `call`, the drop of the handle | the contract of a service call; a caller returns when the server goes |
| code generation (`roslibrust_codegen`) | the map of packages, the queue of unresolved files | `deduplicate_packages`, `resolve_dependency_graph` | the search order decides; exactly what can be resolved is, from the right definitions |

The rest keeps no state: `roslibrust_rosapi` (typed wrappers of service calls),
`roslibrust_genmsg` and the macros (text in, text out at build time), the
umbrella crate, tests, examples. Section 7 says what is left out and why.

## 2. The modules

| module | models | its state and actions, in the code |
|---|---|---|
| `ServiceCall` | what a service call promises, on any transport (abstract) | `status` is what a caller knows, `executed` what the service did |
| `RosbridgeCalls` | `call_service` across losses of the connection | `pc` is the await a call is suspended at, `rx` its oneshot, `spin` the place of `stubborn_spin`; `wire`, `served`, `replies` are the server |
| `RosbridgeRegistry` | the three maps of handles, and the server's view of them | `phase` is the life of a handle, `pc` the place of the operation on it, `guard` the DashMap entry `_subscribe` and `unsubscribe` hold, `srv...` what the server was told |
| `RosbridgeDispatch` | one incoming message at a time, on worker threads that a DashMap guard can block | `spin`/`cur` are the suspended `spin_once`; `Expire` is the 10 ms; `Blocked` are threads that wait for a guard |
| `SubscriberQueue` | the bounded queue of a rosbridge Subscriber | every operation of the queue is a step, the closure and `most_recent` are several |
| `Ros1Subscription` | one subscribed topic of a node, its readers and the master | `connections` is the map of readers, `cancelled` their tokens, `updates` the `publisherUpdate` calls on their way |
| `PublicationStream` | the messages of one publication | `pos` and `acceptPos` are the positions of the broadcast receivers, `last` the latched message, `got` what a subscriber was sent |
| `Ros1Publication` | the life of a publication in the node | `phase` of each Publisher, `accept` the accept task, `cleanup` the task it spawns to unregister |
| `Ros1ServiceServers` | the servers of one service name in the node | `server` is the progress of each advertise call and its handle, `link` the entry of the map, `registered` the URI the master has |
| `Ros1Node` | the last two and a subscription under the node's mutex, callers of `service_client`, and the end of the node | INSTANCEs `Topic`, `Sub`, `Service` that share `lock`; `kill`, `Leave`, `Shutdown`, `NodeDrops` |
| `Ros1ServiceLink` | calls over one connection of a service client | `step` is the actor's place, `requests`/`responses` the stream, `running`/`runs` the callbacks |
| `QueuedService` | a service of zenoh or ROS 2 | `queue` holds the queries, `running` the callback in the blocking pool; the drop drains the queue (zenoh) or cancels the task (ROS 2) |
| `MockServices` | one service name of `MockRos` | `store` is the callback in the map, `callback[c]` the one a call has looked up |
| `MockTopics` | one topic of `MockRos` | the look under the read lock and the insert under the write lock are two steps; a channel is its sequence of messages with receivers' positions |
| `TransformManager` | transform managers over `MockTopics` | the places of the manager's task, of `add_transform` and of `wait_for_transform`; `registry` is what a manager knows |
| `McapChannels` | writers, their handles, and the file read back | `schemas`, `channels` are the writer's maps, `records`, `file` what is in the file |
| `ZenohDiscovery` | declarations, beacons and the monitor | `known` is the monitor's map with the age of what it heard |
| `PackageSearch` | `deduplicate_packages` | one step per package found |
| `MessageResolution` | `resolve_dependency_graph` | one step per file taken from the queue; `graph` is the reference graph, chosen initially |
| `ServiceCalls`, `StreamsAndNames` | sums of machines that share no state | `part` is the machine that runs in a behaviour |
| `ServiceConstants`, `QueueConstants` | constants and assumptions several modules share | |

`MC...` modules give TLC its constants, `..._proofs` hold the theorems.
Definitions marked `Mutation:` are not part of any specification: each is the
definition that follows it with one plausible bug, and shows that a property of
a run can fail.

How they relate:

- `RosbridgeCalls`, `Ros1ServiceLink`, `MockServices` and `QueuedService`, each
  with its own refinement mapping, implement `ServiceCall` (`AllKeepContract`).
- `Ros1Node` composes `Ros1Publication`, `Ros1Subscription` and
  `Ros1ServiceServers` and is proved to implement each of them: its own steps
  (the end of the node, the callers) are stutters of the parts or steps the
  parts allow.
- `TransformManager` EXTENDS `MockTopics` and adds what the managers do with it.
- `PublicationStream` looks at the accept task from the side of the messages,
  `Ros1Publication` from the side of its life.

Abstractions made throughout: a message is a number or a model value; json,
TCPROS and XML-RPC are messages that arrive whole or not at all; an await is a
point where other tasks run, and code without an await in between is one
action; a future may be dropped at an await where the code does that
(`timeout`, `select!`, or the caller's own). One topic or service name is
modelled where names are independent of each other. History variables record
what happened and guard nothing; the comment at each says so.

## 3. The runs

Six runs pass and six show a violation. Sizes are distinct states.

| run | instance | what it shows |
|---|---|---|
| `service_calls` (83 565) | two calls over rosbridge, three over the others, one of which may be abandoned; three connections of rosbridge, three mock servers, timeouts on | `NobodyOrphaned`: over every transport, whoever waits while the connection or the server is there has its request on the way, at the server or its response coming; there is no wait that nobody will end. `NoAbandonedEntry`: no entry of a finished call. `NewestServes`: a mock call is served by no server that had been replaced before it. `AllKeepContract`: each transport implements `ServiceCall`. `AnyCallReturns` |
| `rosbridge_registry` (383 000) | any three of two publishers, two subscribers and two service handles; three connections, timeouts | `LiveSubscriberSubscribed`, `LivePublisherAdvertised`: what is alive is known to the server. `NoSubscriberUnsubscribed`: what is not, is not. `ServiceHandleOwnsEntry`: an old handle's drop never removes a new one's callback. `OnlySubscribeDeadlocks`: of four locks only the read half that `subscribe` takes twice can block everyone for good, and only without a timeout. `Reconnects` |
| `rosbridge_dispatch` (45 760) | a request whose callback publishes, a publication, two Subscribers of its topic that come and go, a service dropped, one advertised, or a second request in place of a Subscriber and the advertised service; callbacks take any time; four workers | `NoPublicationMissed`. `NoDeadlock`: where tasks wait for each other in a circle the 10 ms break it, and with more workers than the guards of maps can block one is free or becomes free. `RequestsSettle`: every request that is read comes to an end, its callback run and the spin task done with it, answered or not. `SpinComesBack` |
| `ros1_node` (115 312) | two Publishers and a client, two Subscribers and two publishers elsewhere, two service handles, a caller of `service_client`; a failing master, a node that is shut down and dropped | `LiveHandlesServed`: a live Publisher or Subscriber has its record, its registration and what serves it, and only a drop takes them away. `NothingLeftBehind`: a Publication, Subscription or link exists only for a handle that is alive or about to be cleaned up. `MasterMatches`, `ListedPublisherRead`, `ReadsAllPublishers` unless an update was overtaken, `EventuallyDropped`, `EventuallyUnadvertised`, `DroppedUnregistered` |
| `streams_and_names` (248 446) | publication stream: two subscribers, one of which may never send its header, capacity two, four messages, latched or not. Queue: three places, five messages, two consumers. mcap: two writers, two topics, three types of which two share a name. zenoh: two declarations, beacons up to two periods late. Packages: three. Messages: three files that refer to each other, to one that is missing and to two built-in definitions, with names of their own or the name of another or of a built-in one | `InOrderOnce`, `LastMessageArrives`, `ConnectionsServed`; `NewestKept`, `NeverBackInTime`, `MostRecentIsRecent`; `ReadAsWritten`; `LiveStaysKnown`, `KnownIsRecent`; `ResolvesRight`, `Terminates` |
| `mock_transforms` (61 000) | two managers, a channel of one message, two transforms of one or two types, one waiter; the second manager may be dropped | `WellConnected`, `NoLostWakeup`, `KnownIsPublished`, `WaiterServed`, `TransformsSpread`, `TaskEnds` |
| `rosbridge_registry_subscribe_deadlock` | no timeout, one subscriber | `Reconnects` fails, see section 6 |
| `rosbridge_registry_advertise_twice` | two publishers of a topic | `OnePublisherPerTopic` fails |
| `rosbridge_dispatch_slow_callback` | one request, a service that is dropped, two workers | `RequestsAnswered` fails |
| `ros1_subscription_duplicate` | four readers per publisher | `OneReaderPerPublisher` fails |
| `ros1_node_kept_alive` | as `ros1_node` | `KeptAlive` fails |
| `package_search_first` | three packages of two names | `FirstPathWins` fails |

**Sums.** Machines that share no state are checked side by side: `part` chooses
one initially, and the others stay at an initial state. The states of the sum
are those of its machines added, not multiplied. `MCStreamsAndNames` and
`MCServiceCalls` drop initial states that differ only in a machine that does not
run.

**Bounds.** `MaxConn`, `MaxOpened`, `MaxReaders`, `MaxUpdates`, `MaxMessage`,
`MaxSent`, `MaxWritten`, `MaxHandles`, `MaxDelay`, `MaxPackages` and the sizes of
the sets bound the instances. They are chosen so that
the interesting order of events fits: two losses (`MaxConn = 3`) let a call
survive one outage and be caught by the next; three handles let a drop race an
open while something else holds a lock; a queue of three and five messages let
the queue overflow while both consumers are inside `most_recent`; capacity two
and four messages let a receiver fall behind twice; two readers per publisher
let a publisher go and come back while the cancelled reader still runs; one
worker more than the tasks that can block one is the least for which the
dispatch makes progress; three types of which two share a name give two writers
channels that clash; a beacon two periods late is the latest for which a
declaration stays known (`MaxDelay < LOST_AFTER`, 3 s in the code); three files
make cycles, chains and pairs of equal names, with and without a built-in one.
`MCRosbridgeRegistry` opens handles of one kind in one order (`OpenedInOrder`),
which leaves out only renamings of behaviours. `MCRosbridgeDispatch` lets the second request come
only where the second Subscriber and the advertised service stay away (`Fewer`),
and `MCRos1Node` lets, in each behaviour, only the actors of one crew begin
anything: each crew is a handful of actors of the parts that disturb each other
through the mutex or the end of the node. The actors left out stay as they are
initially, which the specification allows, so that what is checked are
behaviours of it; what all of them do at once is the subject of
`Ros1Node_proofs`, where nothing is bounded.
For the safety properties that are proved the bounds do not matter; the liveness
properties are known for these instances only.

**Deadlock.** The runs set `CHECK_DEADLOCK FALSE`. The systems may stop: handles
are opened and dropped once and publishers publish only while somebody wants to,
so once a bound is used up and all is dropped nothing is left to do. That
nothing gets stuck *before* that is what the liveness properties say.

## 4. Fairness

Nothing is assumed of the user, the network or the server unless named here.

- `RosbridgeCalls`: WF of the steps of each call and of the spin task that are
  awaits which complete (the runtime polls ready tasks), WF of `Connect` (the
  server accepts connections again; `stubborn_connect` retries for ever). That
  timers fire (`TimersFire`) is a hypothesis of the liveness property, not part
  of the specification. Tokio's RwLock is fair; a call in the queue is granted
  with the release of the write half, which is an action of the holder.
- `RosbridgeRegistry`: the same per handle, and WF of the timeout of
  `subscribe` where one is configured.
- `RosbridgeDispatch`: SF of the spin task, of callbacks and of the tasks of the
  application: each is enabled only while a worker is free and the writer is,
  and both alternate; tokio's scheduler and its fair locks do not starve. WF of
  the 10 ms timer, which started when `spin_once` did and may be over at any of
  its waits (`Overdue`); what is ready when the timer is, is taken first.
- `PublicationStream`: WF of the accept task and the writers, SF of accepting (a
  branch of a `select!` in a loop, which picks among ready branches at random),
  WF of the handshake of clients in `Prompt` only: the code has no timeout. The
  other client of the run may be silent for ever.
- `Ros1Node`: WF of every step of an actor of the node. Strong fairness is not
  needed for the mutex: every actor takes it a bounded number of times, so the
  others are done with it eventually. The handshake of a client that stalls and
  the answer of a service that says nothing are not fair, and the liveness
  properties except what waits for them (`Hung`). `Ros1Subscription` has no
  fairness of its own.
- `Ros1ServiceLink`, `MockServices`, `QueuedService`: WF of the actor, of the
  server's task, of callbacks and of each call's steps.
- `TransformManager`: WF of the task, of `add_transform` and of
  `wait_for_transform`; SF of the branch of the task's `select!` that stops it,
  which competes with messages.
- `MessageResolution`: WF of its loop. `SubscriberQueue`, `McapChannels`,
  `ZenohDiscovery`, `PackageSearch`: only safety.

## 5. The proofs

Every theorem is checked by TLAPS to the last leaf, for any finite or infinite
sets of actors and any value of the other constants that the module's `ASSUME`
allows. The assumptions are only about constants: names of different things
differ, capacities are positive numbers, a beacon is delayed by less than the
time after which its fact is lost, the mark for "no type" is not a type, the built-in message definitions refer to
each other only. Message files are a finite set, and so are the tasks of `RosbridgeDispatch` that block a
thread while they wait, since both are counted. Modules that a sum INSTANCEs
state their assumptions as a definition, which the sum assumes by name.

All modules follow one pattern. `IInv` is the conjunction of `TypeOK`, the named
parts below and the properties; `Init => IInv`, a lemma per group of actions
shows that they keep it, and `Spec => []IInv` gives each property. TLC checked
each `IInv` first.

| module | proved | why the property is not inductive, and what is added |
|---|---|---|
| `ServiceCalls_proofs` | `NobodyOrphaned`, `NoAbandonedEntry`, `NewestServes`, `AllKeepContract` (refinement of `ServiceCall` by every transport), and for the link that a response is the one to the request written and that a call is executed at most once | That nobody waits for an old connection depends on both clears and on the lock between them: `LockInv` (reconnect runs without readers), `TableInv` (who can have an entry, and that there is none while the write half is held), `TrafficInv` (where a request can be). For the link, one request is between the actor and its response, in one place: `InFlight`, `LinkInv`; how far a call has come: `OnceInv`; that of a call that waits something is still to come: `WaitInv`. For the mock, the map holds the newest server's callback (`ServerInv`); for the queue, a query is in it at most once (`QueueInv`) and nobody waits for one that is not (`WaitInv`). |
| `TransformManager_proofs` | `WellConnected`, `NoLostWakeup`, `KnownIsPublished` | A handle's channel is its own or one of its type that was in the map: `ChannelInv`. A waiter that found something missing is notified of all that comes after it, or `add_transform` is about to: `WakeInv`. What is on its way to a registry was sent: `SentInv`. |
| `RosbridgeRegistry_proofs` | `LiveSubscriberSubscribed`, `ServiceHandleOwnsEntry`, `LivePublisherAdvertised`, `NoSubscriberUnsubscribed`, `OnlySubscribeDeadlocks` | The guard of the topic's entry is held over the message: `GuardInv`; a reconnect sends what has an entry: `EntryInv`; which publisher's record it is when two share a topic: `RecordInv`, `FirstInv`. For deadlocks, who holds each lock and who may wait for it: `LockInv`. It orders the locks: who waits for the sink or an entry waits for one that is writing, so a circle of waits leads through the client's lock, and there through a `subscribe` that has one read half and asks for another. |
| `RosbridgeDispatch_proofs` | `NoPublicationMissed`, `NoDeadlock`; that a request is answered by a callback that ran, and that a callback runs once | A subscriber whose message is out and whose handle is not in yet holds the guard the spin task must pass: `GuardInv`. The writer belongs to a task that is about to send or to the spin task (`WriterInv`), so a circle of waits leads through the spin task, which its 10 ms take out of it (`CirclesEnd`). A blocked thread is that of a task in `Old`, the one that advertises with the writer, or one of `Subs` that has not the guard (`ThreadToCome`): so many there are, if both sets are finite. |
| `SubscriberQueue_proofs` | the second push fits, order (an action property), used by the next | The queue increases, ends with the newest message and is newer than all handed out: `QueueInv`. |
| `StreamsAndNames_proofs` | `NewestKept`, `NeverBackInTime`, `MostRecentIsRecent`, `InOrderOnce`, `ReadAsWritten`, `LiveStaysKnown`, `KnownIsRecent`, `ResolvesRight`, that only latched messages are old, and that of equal packages the last one found is used | For `NewestKept`, `most_recent` discards only with a message behind, as long as it is alone: `SoleInv`. The position of each receiver of a publication against what it was sent: `ConnInv`. A handle has the record its number names: `ChannelInv`, `RecordInv`, `HandleInv`. For every live declaration a beacon is on its way before its fact is lost. For `ResolvesRight`, see below. |
| `Ros1Subscription_proofs` | type correctness, what the master knows, that a Subscription has a Subscriber or one whose drop is under way; lemmas for the node | The entry of the map of readers points to a reader that is alive and not cancelled, although cancelled ones remove entries: `ReaderInv`; who has the mutex and why: `LockInv`; the last update on its way is what the master has: `UpdateInv`. |
| `Ros1Node_proofs` | `LiveHandlesServed`, `NothingLeftBehind`, `ListedPublisherRead`, `ReadsAllPublishers`, `MasterMatches`, and that the node implements each of its three parts | First each part with the mutex as it sees it (`PubInv`, `LockInv`), then: every step of the node is a step of one part and a stutter of the others. The part that waits while another has the mutex sees it as free and itself as not taking it. |

`ResolvesRight` says of any files that success means that no reference is
missing and none leads back, and that failure means the opposite, or a chain
longer than the limit of rounds. Where files of one name refer to the same, it
also says that the recursion over the references ends, and that a file is
resolved from all it refers to, directly or not, and from nothing else: from one
file of each name. Which one, of a found file and the built-in definition it
replaces, is the order's choice. `MessageResolution` states this by least sets
and by ranks that fall along each reference, that is by quantifiers over the
subsets of the files and not by recursion, so that no induction over the graph
is needed. The map has one file, a finished one, of each name that is finished
(`ResolvedByName`); what is finished refers to what the map has
(`FinishedClosed`), and so is in every set that has the built-in definitions and
all they supply (`Supplied`); the map has no circle if names agree (`Grounded`):
a file that takes the place of another refers to the same, so that no circle is
closed. The rest is queued (`RestQueued`) in rounds (`InRounds`), and no file is
put back more often than any ranking of the graph allows (`WithinRank`), so that
where the limit is passed there is no ranking within it (`Ended`). What a file
was resolved from (`CoversAll`) follows with it, since what is below a file is
resolved before it. Of the built-in definitions the proof assumes what
`get_builtin_interfaces` has (`BuiltinsFit`): names of their own, and references
among themselves that do not go in a circle.

The sums and the node take the theorems of their parts by INSTANCE of the proof
module; a lemma named `...Same` says that the part's formula is the sum's.

Only model-checked: everything under fairness (`AnyCallReturns`, `Reconnects`,
`SpinComesBack`, `RequestsSettle`, `DroppedUnregistered`,
`LastMessageArrives`, `ConnectionsServed`, `EventuallyDropped`,
`EventuallyUnadvertised`, `WaiterServed`, `TransformsSpread`, `TaskEnds`,
`Terminates`), since the prover has no rule for `ENABLED`. Every invariant and
every action property of the runs that pass is a theorem.

## 6. Where code and documents disagree

Six disagreements have a run whose counterexample shows them:

- `rosbridge_registry_subscribe_deadlock`. `subscribe` reads `opts.timeout`
  through a guard that lives until `_subscribe` returns, and `_subscribe` asks
  for a second read guard. If the connection is lost in between, the spin task's
  write request sits between the two: neither proceeds, and without a timeout
  the client never reconnects.
- `rosbridge_dispatch_slow_callback`. A request whose callback is not done when
  the 10 ms of `spin_once` are over is executed and never answered, since
  `stubborn_spin` drops `spin_once`. The 10 ms include the wait for the request
  (client.rs:736, 828), so that any callback can be late.
- `ros1_subscription_duplicate`. A cancelled reader removes its successor's
  entry, and the next `publisherUpdate` starts a second reader.
- `ros1_node_kept_alive`. The drop of an old `ServiceServer` removes the link of
  a new one of the same name.
- `rosbridge_registry_advertise_twice`. `advertise` looks for the topic and
  inserts it in two accesses (client.rs:299); two calls that overlap both
  succeed, where advertising a topic that has a publisher "is not currently
  supported and will result in an error" (client.rs:271).
- `package_search_first`. `deduplicate_packages` logs that it proceeds with "the
  package found at the first path"; its map is asked for one kind of key and filled
  with another (utils.rs:236), so the last one found is used.

Others are behaviours of the same models, which the properties are stated to
leave out, each by a visible condition:

- rosbridge: a caller that drops the future of `call_service` (a `timeout` or
  `select!` of its own) leaves the entry in `service_calls` until the connection
  is lost or a response comes (client.rs:357-388; `NoAbandonedEntry` excepts the
  calls in `Cancellable`).
- rosbridge: a call waits for the client's read lock outside its timeout
  (client.rs:352), so as long as an outage; that is `LockClient` without a
  timeout. A call that failed with `SendTimesOut` may be executed, although the
  comment says that it "never made it onto the wire" (client.rs:367).
- rosbridge: after a reconnect services are unknown to the server
  (client.rs:790), topics without a subscriber are subscribed again
  (client.rs:804; `NoSubscriberUnsubscribed` speaks of the first connection),
  and the unadvertise of a dropped service can follow the advertise of its
  successor (client.rs:492). An
  `advertise` whose message fails leaves its record (client.rs:316), and
  `unadvertise` removes the record before it has the writer (client.rs:519), so
  that of two publishers of one topic the drop of one can hide the other
  (`LivePublisherAdvertised` excepts topics of which one was dropped).
- rosbridge: `advertise_service` waits for the DashMap with the writer, while
  `handle_service` waits for the writer with a guard of the map; the 10 ms
  resolve it, at the price of the request (`RequestsSettle` does not ask for an
  answer).
  With as few workers as tasks that can block one, nothing resolves it, since
  the timer needs a worker too.
- rosbridge: `most_recent` concurrent with another call can throw the newest
  message away (`NewestKept` speaks of calls that do not overlap).
- ROS 1: a `publisherUpdate` of an earlier registration can replace a newer list
  (`ReadsAllPublishers` excepts `overtaken`).
- ROS 1: the accept task keeps reading the header of one client without a
  timeout (publisher.rs:404), and panics if the client is gone when it should be
  answered (publisher.rs:408-411, 450-453); other clients, and the shutdown of
  the publication, wait for ever (`EventuallyDropped` excepts them, and
  `ConnectionsServed` says that nothing else keeps a client waiting:
  `HandshakeHangs`, `AcceptTaskDies`). It counts as
  a connected client (publisher.rs:55), and the message a new subscriber of a
  latched topic gets can be an old one (publisher.rs:458).
- ROS 1: a registration that fails leaves the link of its service behind
  (actor.rs:597; `MasterMatches` speaks of runs without a failed call).
- ROS 1: after `shutdown` the maps keep their entries and operations are still
  accepted; what is advertised then stays with the master until the node is
  dropped (`kill` in `Ros1Node`).
- zenoh answers the queries that are queued when a server is dropped, ROS 2
  cancels its task and drops them; the callers return either way.
- mock: of two first users of a topic that overlap, each finds no channel and
  inserts one (lib.rs:119-129, 162-172); the second replaces the first, whose
  handle is on a channel nobody else gets (`WellConnected` and
  `TransformsSpread` except topics that were `split`).
- mcap: a topic that is registered a second time with another type gets the
  channel of the first, with its schema (writer.rs:138), and what is written with
  the second handle is read as the first type (`Consistent`).
- mcap: a `Channel` is a number and a type, tied to no writer. Written to another
  writer it is refused or taken for that writer's channel of the same number;
  writer.rs:20-24 calls it type-safe (`ReadAsWritten` speaks of handles used with
  their own writer and types that do not share a name on it).
- code generation: the map of what is resolved starts with definitions of
  `builtin_interfaces` and `service_msgs` (lib.rs:750). A file that is found of
  such a name takes the place of the built-in one in its turn, so that whether
  another was calculated from the one or the other is up to the order of a
  HashMap; and so it is with two found files of one full name (of a ROS 1 and a
  ROS 2 package of one name). If such files refer to different ones, a reference
  can lead back by the replaced name, and the recursion that calculates a sum
  does not end (`ResolvesRight` excepts `~ NamesAgree`);
  `compute_full_definition` repeats a definition that is reached twice.

## 7. What is not modelled

Of the modelled parts: serialization and the text of messages; the connection
headers of TCPROS (one message); the topic types and md5 sums that make an
advertise or a handshake fail (a nondeterministic refusal where the code has
one); the `_any` variants, which run the same code with a type known later;
`publish` of rosbridge, except for the locks it takes; the pauses between
retries; the end of the process or of the runtime; the interpolation and expiry
of transforms; reading an MCAP file by time.

Not modelled at all, because there is no state to go wrong:

- `names.rs`, `topic_name.rs`, `tcpros.rs`, `md5sum.rs`, the parsers of message
  files, `ros2_hashing.rs` and the generation of Rust: functions from text or
  bytes to text or bytes. What a character or byte is matters to all of them,
  and a unit test reaches it.
- `requestTopic` and the other calls of the slave API in `xmlrpc.rs` that only
  read, the client of the master: one request and one answer.
- publishers, subscribers and the graph of ROS 2 and zenoh, except for services
  and discovery: wrappers of one call of a library.
- rosapi, genmsg, the macros, the umbrella crate, tests, benchmarks and examples.

About 45 000 of the 64 000 lines of the repository are generated messages
(`roslibrust_test/src/ros1.rs` and `ros2.rs`, `roslibrust_transforms/src/messages.rs`)
and several thousand are tests and examples, so the map names a small share of
the repository's lines; it names most lines of the asynchronous code of the
backends.

## 8. The plan

Done, in this order: calls, registry, dispatch and queue of rosbridge; then
subscription, publication and services of ROS 1; the node of the three, its end
and its callers; the mock and the transforms over it; mcap, zenoh and the queued
services; the two algorithms of code generation. The four transports that carry
service calls share one abstract specification.

What could follow, by how much depends on it:

1. The peer of rosbridge: two clients of one server, so that a service call of
   one is a dispatch of the other (`RosbridgeCalls` with `RosbridgeDispatch`).
2. The handshake of TCPROS as a protocol of two nodes, with the header fields
   that make either refuse.
3. A topic from end to end: `PublicationStream` in one node with
   `Ros1Subscription` in another, over the master.
4. Names: validation and resolution as operators over short names.

For the proofs, by how much they would add:

1. What part of a liveness property is safety: in `RosbridgeDispatch`, that a
   request leaves the spin task unanswered only when the 10 ms are over, over
   whole behaviours.
2. The publisher's and the subscriber's end of a topic as one abstract stream
   that `PublicationStream`, `SubscriberQueue` and `MockTopics` implement.
3. The number of workers `RosbridgeDispatch` needs, as a lower bound too: with
   one less there is a state in which all are blocked.
