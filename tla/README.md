# A TLA+ model of the mosquitto broker of this repository

The repository holds a fork of the MQTT broker mosquitto 1.4 (`src/src`), its
client library (`src/lib`), command line clients, and an addition for push
messages.  This directory holds models of both, TLC configurations that check
them on small instances, and proofs about them for all instances.  "The code"
below is always the C code; paths are from the repository's root.

## 1. The system

### Components, their state and their operations

| component | code | state | operations |
|---|---|---|---|
| message queues | `src/database.c` | per context: `inflight_msgs`, `queued_msgs`, `msg_count`, `msg_count12`, `msg_bytes`, `msg_bytes12`, `last_mid`; the message store with `ref_count` | insert, delete, release, update, write, dequeue, reset at reconnection, store, find, dereference |
| packet handlers | `src/handle_*.c`, `lib/handle_pub{ackcomp,rec,rel}.c` | none of their own | one handler for each packet of MQTT 3.1.1 |
| sessions | `src/context.c`, `src/handle_connect.c`, `src/loop.c` | `contexts_by_id`, `contexts_by_sock`, `ll_for_free`, will, clean flag | connect and take over, disconnect, lose the connection, expire, free |
| main loop | `src/loop.c` | the poll set, times | write all contexts, poll, read each socket once, expire, autosave, bridges |
| subscriptions | `src/subs.c` | a tree of topic levels, each with its subscribers and its retained message | add, remove, route, retain, queue retained messages, prune |
| topics | `lib/util_mosq.c` | none | validity and matching |
| persistence | `src/persist.c` | the database file | save all, restore all |
| bridges | `src/bridge.c`, `src/loop.c` | start type, backoff, topics | connect, subscribe, map topics |
| access control | `src/security*.c`, `src/plugin.c` | users, ACLs | check, reload |
| push addition | `src/database.c`, `src/handle_publish.c` | a flag in each message | offer the messages of a client that is away to the subscribers of `topic/push` |
| client library | `lib/*` | message lists, window, socket state, callbacks, locks | publish, subscribe, loop, reconnect, threads |
| packets | `lib/packet_mosq.c`, shared by both | `out_packet`, `current_out_packet`, `in_packet` | queue, write a part, read a part, clean up |
| keepalive | `lib/util_mosq.c`, `src/loop.c` | `ping_t`, `last_msg_in`, `next_msg_out` | ping, time out |

The broker is one thread.  An iteration of `mosquitto_main_loop` frees the
contexts on `ll_for_free`, calls `db__message_write` for every connected
context, polls, and lets every socket that is readable handle one packet.
Handlers call `database.c` directly; messages pass between clients through the
subscription tree (`sub__messages_queue`), which inserts a reference to the one
stored message into the queue of each subscriber.  Contexts share nothing but
this store, and the store's messages live as long as their `ref_count` says.
Clients see the broker only through packets, which are lost with a connection.

### What is hard

* One message is held by many lists, which change its reference count one by
  one; so is each pair of counters, which seven functions adjust on their own.
* Each function that frees room in the window moves queued messages into
  flight with a loop of its own, and each counts the window differently.
* A session outlives its connection.  Takeover moves the lists to a new
  context, resets the states of their messages and starts the queue again,
  in a loop that changes the list it walks.
* The four steps of QoS 2 may stop at any of them, and both ends repeat them.
* A send may fail in the middle of a walk over a list.
* Liveness: a queued message is only moved by an acknowledgement or by the
  next write, and a queued publication gets its PUBREC only then.
* The tree of subscriptions also holds the retained messages, is reached from
  the sessions through back references, and is pruned from below.
* The database file is written while handshakes are under way; a crash goes
  back to it, and the writes of it may fail.
* The library's lists are used by the application's threads, its callbacks and
  its own loop, which may be in the middle of a reconnection.
* A socket takes and gives any part of a packet.  Time runs on both sides of a
  connection that may have fallen silent.
* A bridge has three timers and two sockets, and its address moves in four
  places.

`PROJECT.json` lists each hazard at its line with the properties about it.

### What makes the components correct

* Queues: the counters are what the lists hold; the window and the queue keep
  their limits; a message is in the list its state says; order is kept.
* Store: a message is there exactly while something refers to it, and its
  count is the number of references.
* Handshakes: a QoS 2 publication is routed once and not lost when its
  publisher saw the end; a subscriber is given it once.
* Sessions: what a client has not acknowledged survives a takeover; what a
  clean session held is freed.
* Loop: whoever stays connected gets everything in the end.
* Subscriptions: a message reaches exactly the matching subscriptions; pruning
  keeps what is in use.
* Persistence: a restart brings back what was saved, with references that fit.
* Library: the window and the order hold, and what it announces was received.
* Packets: a connection is a first-in first-out channel of whole packets.
* Keepalive: nobody gives up a connection that works, and both give up one that
  does not.  Bridge: a bridge that can connect does.  Push: a message that waits
  for a client that is away is offered, and nobody gets it twice.

## 2. The modules

**`MsgQueue`** is `src/src/database.c` for one context.  A queue is a record of
the two lists, the four counters and the last identifier.  Each function of
the file is an operator from queues to queues: `Insert`, `Delete`, `Release`,
`Update`, `Write`, `Reset`, with the helpers the code has (`ReadyForFlight`,
`ReadyForQueue`, `Dequeue`, `Remove`, `StoreFind`).  The three loops that move
queued messages are `Moves` with the index each starts from.  `WriteFailsAt`
and `WriteFailsAtPubrec` are `db__message_write` when a send of its first or of
its second loop fails.  `Reset` is the walk of `db__message_reconnect_reset`
with its loop over `queued_msgs` as it is: `ResetVisit` counts and changes the
message it visits and moves the head.  Byte limits are kept, with the unsigned
subtraction in `ReadyForQueue`.  The operators named `X_...` beside an `X` are
mutations: each is `X` with a plausible mistake, and each is there because
some run below fails with it.

**`Broker`** composes queues into the broker.  Its variables are the queue,
connection, clean flag, subscription and will of each client, the store, the
retained message, the disused messages, the clients served in this iteration,
the packets on their way to each client, and the protocol state of the clients.
What a handler does to queues and store is computed as a record `World`, in
the order of the calls in the code (`StoreMsg`, `Route`, `SendWill`, `Discard`)
and then assigned with `Become`.

| action | code |
|---|---|
| `Loop` | `context__free_disused` and the writes of `mosquitto_main_loop` |
| `LoopFails` | a write that fails at any of its sends, or a keepalive that has run out: `do_disconnect` |
| `Connect` | `handle__connect` with the takeover of a context, its will, and the session present flag |
| `Disconnect`, `ConnectionLost` | `handle__disconnect`; `do_disconnect` after a failed read or a protocol error |
| `Subscribe`, `Unsubscribe` | `handle__subscribe` with `sub__retain_queue`, `handle__unsubscribe` |
| `Publish`, `PublishQoS2` | `handle__publish`: QoS 0 and 1; QoS 2 with duplicates, denial and a queue that is full |
| `Pubrel` in `ReadPubrec`, `ResendPubrel` | `handle__pubrel` with `db__message_release` |
| `Pubrec`, `Pubackcomp` in `Read...` | `handle__pubrec`; `handle__pubackcomp` with `db__message_delete` |
| `Expire` | the expiry of persistent clients |

The client is external: one that keeps MQTT 3.1.1.  It repeats what it has not
seen answered when it resumes a session, and answers what it reads.  What it
sends is handled in the step that sends it or lost with the connection; what
the broker sends waits in `wire` and is lost at the next CONNECT.

**`Topics`** is what subscriptions promise: a flat table of filters, a retained
message for each topic, and for each publication or subscription who is sent
what.  **`TopicMatch`** is `mosquitto_topic_matches_sub`, the checks of topics
and filters and the split into levels (`lib/util_mosq.c`, `src/subs.c`).
**`SubTree`** is `src/src/subs.c`: the nodes in the order of the tree, their
leaves and retained messages, the back references `context->subs`, and the two
counters.  `Subscribe`, `Unsubscribe`, `Publish` (with `sub__search`, the
destination list and `retain__process`), the search for retained messages,
`Connect` (which moves leaves to a new context or leaves the old one to be
freed), `Discard` and `Free` (`sub__clean_session`) prune as the code does.
`Pruned` says what the walks upward from a set of nodes leave: a node goes when it
is on the way to one of them and nothing below it has a leaf, a message or a
branch of its own.  `Only` keeps the elements of a list at some positions.

**`Restart`** extends `Broker` with the database file: `Save`
(`persist__backup`), with the cut file of a write that fails (cut between two
chunks), the shutdown of `mosquitto.c` with its wills, a crash, and
`persist__restore`, which rebuilds the store, the lists by the states of their
messages, the subscriptions and the retained message, and leaves the counters at
0.

**`Delivery`** is what the library promises of `mosquitto_publish`: each message
is received at least once or exactly once and is announced once, after that.
**`Client`** is the library with its loop thread: `PublishCheck` and
`PublishSend` are `mosquitto_publish` before and after it lets go of the list,
so that everything can happen between them; `DropPackets`, `ReconnectReset`,
`SocketConnect` and `SendConnect` of `mosquitto__reconnect` are steps of their own; the
`Handle...` actions are the handlers of PUBACK, PUBREC, PUBCOMP, PUBLISH, PUBREL
and CONNACK with `message__retry_check`.  The peer is external: a broker that
keeps MQTT and its session.  `own_thread` says whether the application publishes
from a thread of its own, at any time, or from callbacks only.

**`Channel`** is a first-in first-out list of packets, **`Packets`** is
`lib/packet_mosq.c`: a packet is a command, the bytes of its length in base
`Base` and a body; `Write(n)` and the three reads move any number of bytes the
socket has room for.  The count of length bytes is kept, since the reader's bound
is on it.

**`KeepAlive`** has the clocks of a client and of a broker in seconds.  `Tick`
lets a second pass when nobody has anything to do in this one: a loop looks at
the time at least as often as its `select` returns.  A packet needs `MaxDelay`
seconds at most, or nothing gets through any more (`Silence`).

**`Bridge`** is the part of `mosquitto_main_loop` and `bridge__connect` that
chooses when and where to connect: `restart_t`, `cur_address`, `lazy_reconnect`,
`primary_retry` and its socket, with the number of messages that wait, none of
which a clean session keeps at a new attempt (`Left`).  Times are 0, ahead, or over.

**`Push`** is `db__message_push` over the queues of `MsgQueue`: the walk over the
lists of a client that is away, message by message, which offers each to the
subscribers of `topic/push` through `db__message_insert` with its suppression of
duplicates, and may lengthen the list it is on.  The flag `push` of a new message
has any value, since nothing sets it after the `malloc`.

**`MC...`** are these modules with their constants given in the configurations.
**`BrokerProofs`** (in three parts: what the operators of `MsgQueue` return and do to
messages and counters; types, states, limits and identifiers; nothing lost, routed
once), **`MessageProofs`** (in three parts: what a publisher believes to be done;
reference counts; the restart), **`SubTreeProofs`** (the tree), **`ClientProofs`** (the
library), **`PacketsProofs`**, **`KeepAliveProofs`**, **`BridgeProofs`** and **`PushProofs`**
hold the theorems (section 4).

### What is abstracted

In `Broker`: payloads are their length; `body` is a ghost that names a
publication.  All wills of a run have one QoS, length and retain flag.  There is
one topic and one subscription per client, so the destination list against
duplicates (`dest_ids`) has nothing to do (it is in `SubTree` and `Push`), and
MQTT 3.1.1 is assumed, so a retained message is sent again at every SUBSCRIBE.
`connection_check_acl` finds every read allowed; a denied publication is the
environment's choice (`Denials`).  Contexts whose write fails come first in an
iteration: writes touch separate queues and only the wills they cause are
ordered by it.  A send that fails inside a handler is the failing write of the
next iteration at its first message.  A second CONNECT on a socket is a protocol
error.  Clients give QoS 1 publications identifiers that their unfinished QoS 2
ones do not use. `db__message_push` is in `Push` only.  In TLC an unsigned long
has 65536 values (`ULong`), far above every number of bytes in a run, so that a
negative difference is still larger than every limit.

In the others: `SubTree` has no mount points and QoS is not upgraded.  `Restart`
has no `$SYS` messages, whose tests in the two walks of the save differ, and no
file of another version; a file that a failed write cut in the middle of a chunk
is left out: `persist__restore` fails on it and the broker does not start.
`Client` has no QoS 0, DUP, SUBSCRIBE, `mosquitto_disconnect`, refused CONNACK
or change of the window, and the library's loop runs in a thread; `on_publish`
is called although a send inside `message__remove` may fail, which the packet
queue makes a loss of the connection.  `Packets` has bodies of model bytes.
`Bridge` is built without `WITH_ADNS`; topics are not mapped, and notifications
are left out; the idle time of a lazy bridge is left out because it never
passes: the bridge's own PINGREQs put `next_msg_out` off (`lib/util_mosq.c:66`).
`Push` has no retained messages and wills, and the order of `db__message_push`
and `db__message_write` in one iteration is any.

## 3. The runs

The first four check `MCBroker`, each other one the `MC` module of its name.
Bounds: `MaxPubs`, `MaxConnects` and `MaxSubs` publications, CONNECTs and
SUBSCRIBEs in all, `MaxLen` for payloads; the others are named in the modules.

| run | instance | shows |
|---|---|---|
| `flow` | a publisher of QoS 1 and 2, a durable subscriber; window 1, queue 2; 4 publications, 3 connections | `InflightWindow`, `QueueBounded`: the limits hold whichever loop moves messages. `InOrder`: with a window of one, identifiers never go back along what is on the wire, in flight and queued. `StatesMatch`: the lists keep apart. `DeliveredOnce`: one reconnection gives no QoS 2 message twice. `NothingLost`: a message leaves a session that goes on only when its client acknowledges it |
| `qos2_in` | a publisher with two identifiers and a window of 2, publications that are denied; 3 publications, 3 connections | `RoutedOnce`, `CompletedIsRouted`: exactly once from the publisher. `InMidsUnique`: no second message under an identifier. `NeverEchoed`: a message from a client is never sent back |
| `sessions` | clean and durable sessions, retained wills, expiry, retained messages of length 0 and 1, window 1, queue 1; 2 publications, 3 connections, 2 subscriptions | `RefsExact`, `NoLeak`: the store's counts are its references, and what nothing refers to is gone, through takeovers, wills, replaced retained messages and inserts that are dropped because the queue is full. `TypeOK` |
| `live` | one client, both directions at QoS 2, window 1; 2 publications, 2 connections; `FairSpec` | `AllAcknowledged`, `HandshakeEnds`: messages of both directions that share a window of one do not block each other. `CountersExact`: counters equal the lists |
| `topics` | two clients, three contexts, the filters `a/b`, `a/b/#`, `+/#` and `#`; 4 operations | `ImplementsTopics`: the tree sends each message, and to a new subscription each retained message it matches, to whom `Topics` says, once, through takeovers and contexts not yet freed. `BackReferences`: `context->subs` holds each node with a leaf of the context once and no other. `PrunesBranches`: no branch is left that nothing needs, but for the one a message that clears nothing makes. `CountsExact`: the two counters are what the tree holds. `MCSubTree` also assumes, and TLC evaluates, that the matcher of the library is the definition of `mqtt(7)` on every valid filter and topic of up to four characters |
| `restart` | a client that publishes at QoS 2 to its own subscription, with a will; a save, and a shutdown or crash | `RestoredIsSaved`: lists, order, subscriptions and identifiers come back as saved. `RefsExact`: over the restart too. `OnceOverShutdowns`: no QoS 2 message is routed or delivered twice over a shutdown |
| `client` | window 1, two publications and one message from the broker, two lost connections; with and without a thread of the application | `ImplementsDelivery`; `Window`: four functions keep one count; `InOrder`: messages arrive in the order of the calls; `Arrives`: what the broker has done with was passed on; `Announced`: each message of a callback is announced in the end |
| `packets` | base 2, four length bytes, packets with and without a body; a socket for 3 bytes; one reconnection | `ImplementsChannel`; `NeverFails`: the writer's bound on the length is within the reader's; `AllHandled`: each packet is handled unless its connection ends |
| `keepalive` | an interval of 5 and a delay of 2, so that twice the delay is just below the interval | `NoFalseTimeout`, `Detected` |
| `bridge` | three addresses, each start type, clean sessions or not, hosts that change twice | `NextTried`: the addresses are tried in turn; `Reconnects`: an automatic bridge connects again and again; `MainAgain`: it returns to the main host and stays; `LazyNeeded`: a lazy one is asked for only with messages |
| `push` | a publisher and a subscriber of both topics that come and go, queue of 2 | `SentOnce`: no copy twice when duplicates are off; `AllOffered`: every message that waits for a client that is away is looked at; `WalkEnds`: a walk ends though it appends to its list |

Four publications are one more than window and queue hold together, so that
messages are queued and dropped.  Three connections give each run a lost
connection or takeover of the client it is about, after messages in every
state.  Two identifiers let two handshakes overlap.  Four operations build and
grow and cut the tree along the branches that the four filters share; three
contexts are one alive, one taken over and one to be freed.  Two losses of the
library's connection are what a repeated PUBREL needs.  Three bytes are less than
the longest packet, so that packets are split, and more than the shortest, so
that they are joined.  Three addresses are the least where "the next" and "the
main one" differ in both directions.

**Fairness.** `Loop` is weakly fair: `mosquitto_main_loop` iterates as long as
the broker runs, and poll returns after 100 ms at the latest.  `Read` and
`Resend` of each client are weakly fair: a client that stays connected reads its
socket and repeats what MQTT tells it to.  Neither is assumed of publishing,
subscribing, connecting or failing.  The conclusion is always "or it is no
longer connected".

`client`: the loop thread, the application's thread in the middle of a call, and
the peer's reading are weakly fair; nobody has to publish, and connections are
lost a bounded number of times.  `packets`: writes and reads are weakly fair,
since both sides poll for them.  `bridge`: the loop, the passing of time and the
hosts that are up.  `push`: the loop.  In none is a loss, a change or a message
owed.

**Deadlock** is checked where the model does not run out of its bounds: in the
first four runs, `restart` and `keepalive`.

### Where the code differs from what it says

The run `echo` is in `PROJECT.json` as a finding: the reset at reconnection gives
queued messages *from* the client an outgoing state, and they are published to it
(`database.c:766`, against the comment at 688-689).  The other configurations in
this table are not among the runs; each ends with the violation of its one
property, and `PROJECT.json` names them at the hazards they are about.

| configuration | property | the code does |
|---|---|---|
| `stuck_queue` | `NotStuck` | with QoS 0 queued, the same loop makes one message ready and moves another, which stays in state queued in flight (`database.c:771`) |
| `twice_reset` | `DeliveredOnce` | a second reconnection before the PUBREL was written publishes a message again that was already received (`database.c:719`, against `mqtt.7.xml:124`) |
| `mid_reuse` | `CompletedIsKept` | a repeated QoS 2 PUBLISH that still waits in the queue is acknowledged to its end without being routed, and the next one under its identifier is lost (`handle_publish.c:182`, against `mqtt.7.xml:124`) |
| `denied_queued` | `PublishKeepsConnection` | a denied publication that does not go into flight disconnects its publisher (`handle_publish.c:236`) |
| `dropped_store` | `NoLeak` | a QoS 2 publication that no list takes stays in the store (`database.c:405`) |
| `queued_bytes` | `QueuedUntilLimit` | the unsigned difference wraps, and an empty queue takes nothing (`database.c:89`) |
| `inflight_bytes` | `InflightBytesWindow` | the loops that move queued messages do not look at the byte limit (`database.c:308`) |
| `retained_above` | `ImplementsTopics` | the retained message on the level above the `#` of a filter is sent when the search below that level found a child, or when the level is the last of its siblings: one on `a` is not sent to a new subscription to `+/#`, because the node of the `+` comes after it (`subs.c:701-702`, against `mqtt.7.xml:131-134`) |
| `restart_queue` | `QueueBounded` | the counters of a context are not restored with its lists, so its queue takes the limit once more (`persist.c:486`; `mosquitto.conf.5.xml:454-456`) |
| `failed_save` | `RestoredIsSaved` | results of the writes of clients and of the tree are dropped, and a file that is cut off replaces the whole one (`persist.c:434`, against the comment at 456-457) |
| `client_twice` | `ArrivesOnce` | a QoS 2 PUBLISH whose PUBREC was lost is added a second time and passed on twice (`lib/handle_publish.c:120`, against `lib/handle_pubrel.c:67-68`) |
| `client_forgets` | `Resent` | a message published between the reset of the lists and the new socket is in no state the retry sends, and waits for another loss of the connection (`lib/connect.c:169`, against `mosquitto.h:209-211`) |
| `client_thread` | `ReceivedOnce` | the packet of a publication that was under way during a reconnection is queued after the retry has sent the message, and the broker takes it twice (`lib/actions.c:90`, against `mqtt.7.xml:124`) |
| `bridge_third` | `AllReconnect` | a second socket that is still connecting is taken for a connection to the main host: while the first two addresses are silent the third is never tried (`loop.c:255`, against `mosquitto.conf.5.xml:1275-1276`) |
| `bridge_turn` | `NextTried` | an attempt that fails at once moves the address in two places, which skips one (`loop.c:458`, against `mosquitto.conf.5.xml:1281-1283`) |
| `bridge_main` | `MainAgain` | a check of the main host that connects at once sets the address to 0, and the next attempt goes to the address after it (`loop.c:250`, against `mosquitto.conf.5.xml:1276-1279`) |
| `bridge_lazy` | `LazyNeeded` | the attempt queues the retained messages after it took the request back, which sets it again (`bridge.c:286`, against `mosquitto.conf.5.xml:1302-1309`) |

The passing runs are chosen around these: one resumed session of a subscriber in
`flow`, a window in `qos2_in` that holds what the publisher has identifiers for,
a queue without limit in `restart`, publications of QoS 1 in `sessions`, whose queue
is small enough to drop some, QoS 0 not queued, no topic that ends at the level
above a `#` with a `+` before it in `topics`, writes of the file that succeed, no
retained message for the bridge and attempts whose outcome is not known at once.
`Delivery` asks exactly once only of an application that publishes from callbacks,
and `Announced` speaks of that one.

Two more consequences of the code that no comment speaks about: a save ends the
process when a QoS 2 publication that was denied waits in a list, because it has
no topic (`persist.c:82`; `Survives` in `Restart`), and stored messages of clean
clients come back from the file with a count of 0 and stay.  A client that
subscribes to a topic and to `topic/push` and has been offered a QoS 2 message
before its PUBREL is passed over when it is released, so it gets the QoS 0 copy
only.  With duplicates on, QoS 0 queued and no limit on queues, a walk of
`db__message_push` over the list of a client that subscribes to `topic/push`
need not end; `push` has a limit.

## 4. What is proved

### The broker

The proofs assume `LimitsAssumption` and `BrokerAssumption`: limits are naturals,
there are finitely many clients, and the sets that inputs come from are sets of
such inputs.

* `TypeCorrect`: `Spec => []TypeOK`.
* `IdentifiersUnique`: `Spec => []InMidsUnique`.
* `ReferencesCounted`: `Spec => []RefsExact`.
* `NothingLeaks`: with queues without limits, `Spec => []NoLeak`
  (`dropped_store.cfg` shows that the condition is needed).
* `NothingIsLost`: `Spec => NothingLost`, and `RoutedAtMostOnce`:
  `Spec => []RoutedOnce`.
* `CompletedRouted`: `Spec => []CompletedIsRouted`, and `NotEchoed`:
  `Spec => []NeverEchoed`, both where the window has room for what clients publish
  (`Roomy`).
* `StatesAlwaysMatch`, `CountersAlwaysExact`, `WindowAlwaysKept`,
  `QueueAlwaysBounded`: with `queue_qos0_messages` off, `Spec => []StatesMatch`,
  `[]CountersExact`, `[]InflightWindow` and `[]QueueBounded`.

The argument for single queues:

1. A set `R` of queues is `Closed` if it holds the empty queue and no function
   of `database.c` leads out of it.  This has three parts: `Stable` (new queues, and
   inserts for the client), `Fills` (the insert of a publication of QoS 2) and
   `Serves` (everything else).  `InitTyped` and `StepTyped` show for every closed
   `R` that `Typed(R)`, the types with the queues taken from `R`, is inductive: one
   lemma for each action of `Broker`.  A property of single queues now only needs a
   closed set, and no second look at the broker; one that depends on what a handler
   knows proves the step of this handler itself and takes the other parts.
2. `SoundClosed`: `SoundQueues` is closed.  It asks for more than the two
   theorems, because they are not inductive: that queued messages have QoS 1 or
   2 is what makes the reset move the message it made ready.  In its loop,
   once it is past the head, the window is full (`Resets`), since counters only
   grow in it (`ReadyShrinks`): then no later message of QoS 1 or 2 is ready.
   With QoS 0 in the queue this fails, which `stuck_queue.cfg` shows.
3. The counts of a queue are seen together, as a function from lists to numbers
   that is additive over concatenation and does not see the state of a message
   (`StateFree`): each counter, the number of messages with an identifier, the number of references.
   `Total` of such a function over both lists changes by what is inserted or
   removed and by nothing else (`Leaves`, `InsertTotal`, `ResetTotal`), which is
   shown once for all of them.
4. `ExactClosed`: the queues whose counters are their lists and whose window and
   load are within the limits are closed.  For the reset this holds because its
   loop ends with a full window or an empty queue (`ResetEnds`): each message is
   then counted once, in flight or on the way past the head.
5. `UniqueClosed`: the queues in which each identifier of a message from the
   client is there once, and is the one its store keeps, are closed: an insert is
   made only when `StoreFind` found none.
6. `Keep` and `Reset` are recursive functions.  The library's induction takes an
   operator, so `SetInduction` states induction for sets of naturals, and
   `IteratesExist` and `ResetIn` derive what a bounded recursion returns.

The argument for the store (`MessageProofs`): `Balanced(w, X)` says of a record of
the queues and the store that each count is what is owed, the entries of all
lists, of the disused contexts and of the retained message (`Owed`), and that only
messages in `X` have the count 0.  A handler is a chain of calls, each of which
turns one record into the next; `StoreMsg` leaves the new message in `X`, `Route`
takes it out again, `Deref`, `Discard`, `Release` and the writes keep the balance.
The references of all contexts are the size of a disjoint union (`Pile`), whose
cardinality changes by that of one part (`PileAdds`).  `StoreInv`, the types
and the balance of the record of the state, is inductive (`StepBalanced`).

The argument for publications (the third part of `BrokerProofs`): a `Kind` is a
set of messages that does not look at their states, so that what a context `Has` of
it is seen by its count, and every function of `database.c` is known by the counts of step 3.
Most steps are `Calm`: no kind of message from a client is new in any queue, and
no kind for a client is lost from a session that goes on.  The exceptions are the
handlers of PUBLISH with QoS 2 (one new message), PUBREL (one message less) and
PUBACK and PUBCOMP (what the client acknowledged is gone), which gives
`NothingLost`.  `RoutedOnce` is not inductive: that a publication was not routed
yet says nothing of who may still have it routed.  `OnceInv` adds who `Holds` it,
in a list of its client or in the state of the client that sends it: while it can
be routed, one client does, under one identifier; once it was routed, nobody does.
It needs `IdentifiersUnique`, or a PUBREL would leave a second copy behind.

The argument for `NotEchoed` and `CompletedRouted` (the first part of `MessageProofs`).
Both are false when a publication has to wait in the queue (`echo`,
`mid_reuse.cfg`): there the reset gives it the state of a message for its client, and
a repeated one is answered without being kept.  `Roomy` is what keeps it from
waiting: there is no byte limit, and either no window, or one that holds as many
messages as a publisher has identifiers, publishers do not subscribe, and QoS 0 is
not queued.  `qos2_in.cfg` meets it.

1. `RoomyInv`: no queue holds a message from its client, and each such message in
   flight waits for its PUBREL (`QuietQueues`).  For a window this needs that the
   lists hold nothing else that could fill it (`Tidy`: only identifiers that clients
   use, messages only for who subscribes), that identifiers are unique
   (`FewIdentifiers`), and that the counters are exact; then the insert finds room
   (`PublishReady`), which is the one step `QuietQueues` does not keep by itself.
2. `HandshakeAt` relates, for each client and identifier, the phase the client is in,
   the PUBRECs and PUBCOMPs it has still to read, whether the context holds the
   message, and whether it was routed.  One answer is under way at a time; a PUBREC
   means that the message is held, a PUBCOMP that it is routed and gone; a client
   that sends or waits for the end has it in one of these places.
3. When a clean session is taken over by one that is not, its client is told that the
   session goes on although its messages were discarded.  Nothing had to be routed
   then: in a clean session a PUBREL is answered in the step that sends it, or the
   session ends with the connection (`CleanOnline`), and `HandshakeAt` says so.

### The restart

With the file around the broker, for all values of the constants:

* `ReferencesRestored`: `RSpec => []RefsExact`.
* `SessionsRestored`: with QoS 0 not queued and writes that succeed,
  `RSpec => RestoredIsSaved`.

`RInv` is the invariant of the store and `FileFits`: what the lists and the retained
message of the file refer to is in its store, also when the file was cut off in the
middle.  The counts that `persist__restore` makes are then those of the lists it
makes (`RestoredRefs`), so the restored broker is in the invariant again and all steps
of `Broker` keep it (`StepBalanced`).  `SInv` adds that what `saved` remembers is what
the file spells (`SavedInFile`).  The file has one list for both lists of a context, and
the state of each message says in which one it belongs: with `SoundQueues`
(`StatesAlwaysMatch`) a split by the states gives both back, in order
(`ChunksRestored`).  `failed_save.cfg` shows that the condition on the writes is needed;
with QoS 0 queued, `stuck_queue.cfg` shows a message in flight in the state of a queued
one, which the restart would move.

### The tree

For any clients, contexts, topics, filters and number of operations
(`SubTreeAssumption`):

* `ReferencesMatch`: `Spec => []BackReferences`.
* `CountsAlwaysExact`: `Spec => []CountsExact`.
* `BranchesArePruned`: `Spec => PrunesBranches`.

`SubInv` has three parts.  `TreeInv`: the way to each node is in the tree.  `LinkInv`:
leaves and slots of `context->subs` match one to one, and a client has one live
context.  `CountInv`: the counters are the sizes of two sets of the tree, that of the
pairs of a node and a context with a leaf there (`Held`), which gains or loses what a
step links or unlinks, and that of the nodes with a message.  What pruning takes has
neither leaves nor messages, and what it leaves is closed upward, so all three parts
survive it; a node that it leaves is a root, holds something or leads to something, or
was not on the way to a node that lost a leaf.

### The client library

For every window, number of messages, lost connections, and with or without a
thread of the application, as long as no identifier is used twice (`NoWrap`):

* `WindowHolds`: `Spec => []Window`.
* `LibraryDelivers`: `Spec => ImplementsDelivery`, the refinement.
* `OrderIsKept`: `Spec => []InOrder`.
* `NothingMissed`: `Spec => []Arrives`.

`NoWrap` says that messages are fewer than identifiers on either side, 65535 in
the code.  `mosquitto__mid_generate` starts again after that without a look at the
lists, which is a hazard of its own (`lib/util_mosq.c:132`): with a message of that
identifier still in the list, an acknowledgement would remove the wrong one.

The invariant `ClientInv` has four parts.

1. `ListInv`: `out_messages` is in the order of the calls and the identifier of a
   message is its place in it; a message waits if and only if it is behind the
   window; what has left the list, the broker took (`Gone`); the broker only took
   what has left the state of waiting (`TookSent`).  The handlers are proved about
   the list alone first (`RemovedList` and its neighbours), and what they do to it is
   one of a few shapes, `Kin` for all that keep its messages.
2. `FlowInv`: what each packet says.  `UpFits` of one that goes out, queued, written
   or still in the hands of the application's thread, and `DownFits` of one that
   comes in: a PUBACK, PUBREC or PUBCOMP is only on its way for a message the broker
   took, a PUBREL only for a released one.  Nothing these say is ever undone
   (`Steady`), so packets of a connection that was lost do no harm.
3. `InInv`: the same for messages of the broker, with what is kept in
   `in_messages` until its PUBREL.
4. `ExactInv`, without a thread of the application: what the library sends is one
   sequence (`Pipe`, the packets written and those queued); a repeated PUBLISH of
   QoS 2 is never behind its PUBREL in it, and while the broker may forget the
   identifier only the PUBREL is sent.  This is what makes QoS 2 exactly once, and
   what the thread breaks (`client_thread.cfg`).

`Outcome` is then what a step does to `accepted`, `received` and `announced`:
nothing, or a step of `Delivery`.  `InOrder` follows from the list: with a window
of one every accepted message that is no longer listed was taken before.

### Packets

For every base of the length and every number of its bytes, all packets, and
whatever the socket takes and gives (`PacketsAssumption`):

* `PacketsArriveWhole`: `Spec => ImplementsChannel`, the refinement.
* `NeverRefuses`: `Spec => []NeverFails`.

`LengthBytesSpell` says what the loop of `packet__alloc` writes: as many bytes as
divisions by the base until nothing is left, each but the last with the top bit.
`Inv` then speaks of all bytes of the packets queued on the connection in a row
(`Framing`): the stream, the packet that is being written and those that wait are
these bytes from some place on (`Line`), and the reader stands at that place, with
the packets before it handled and part of one read (`Reader`).  While it reads the
length, what it has summed up and its multiplier times what is left of the
quotients is the length of the body (`InLength`, `OneMore`), and the count of bytes
is less than that of the packet, so it never passes its bound.

### Push

* `NeverTwice`: `Spec => []SentOnce`, for any clients, topics, limits and
  publications (`PushAssumption`).  `Remembered`: who was given a message is in its
  `dest_ids`, whichever of routing, release and push gave it.

### Keepalive

For every `keepalive` and every `MaxDelay` of less than half of it
(`KeepAliveAssumption`):

* `NeverFalse`: `Spec => []NoFalseTimeout`.
* `AlwaysDetected`: `Spec => []Detected`.

Neither is inductive.  `Inv` adds how the clocks and the packets on their way
fit: while packets get through (`Alive`), the broker has heard the client since
its last write or has a packet before it that was written within an interval of
the last it heard (`Heard`); a client that waits for CONNACK or PINGRESP has the
question or the answer on its way, and none of its clocks is further than the age
of the question, or of the answer and one delay (`Connecting`, `Pinging`).  Twice
the delay is less than the interval, so no clock runs out.  When nothing gets
through (`Dead`), it has been silent for as long as the clocks have run, but for
the one PINGREQ that sets `last_msg_in` back; and the sum of the client's two
clocks stays below two intervals whenever it sleeps (`Looks`), hence four.

### Bridge

For any number of addresses, any threshold and queue, and hosts that change in
any way:

* `InTurn`: if no attempt fails at once, `Spec => NextTried`.  `Turns` says
  where `cur_address` is in each state of the socket and of `restart_t`, on the
  way round and on the way back over the last address.
* `LazyOnlyWhenNeeded`: with nothing retained for the other side,
  `Spec => []LazyNeeded`, since nobody asks while there is a connection (`Asked`).

`bridge_turn.cfg` and `bridge_lazy.cfg` show that the conditions are needed.

### Only model-checked

* Of `Broker`: `InOrder` and `DeliveredOnce`.  The first compares identifiers, which
  wrap, so it is true only of as few messages as there are in the run; the second
  only up to one reconnection (`twice_reset.cfg`).
* Of `Restart`: `OnceOverShutdowns`, which contains the second.
* Of `SubTree`: the refinement of `Topics`.  Which nodes a topic or a filter reaches
  is a recursion over the levels of a topic (`Hits`, `RetainedHits`).
* The liveness properties: the prover treats neither fairness nor ENABLED.
* What a recursive definition computes for every input, beyond what follows by
  `SetInduction` of naturals: the matcher of `TopicMatch` against its definition.

## 5. Not modelled

* ACLs, passwords and their reload: a decision is the environment's choice
  (`Denials`).  That `connection_check_acl` unlinks messages without adjusting the
  counters needs an ACL that changes between connections.
* The library without a thread, its subscriptions and its change of the window.
* `$SYS`, `mosquitto_disconnect`, mount points, bridge topics and notifications.
* Network, TLS, SOCKS, websockets, configuration, logging, services, tools, the
  mobile and the C++ wrapper keep no protocol state.

Most lines of the repository are vendored: OpenSSL's headers twice, msgpack, the
generated pages.  The map covers the message handling of `src/src` and `src/lib`.
`PROJECT.json` lists each component.

## 6. The plan

| | modules | what | state |
|---|---|---|---|
| 1 | `MsgQueue`, `Broker` | queues, handlers, sessions | checked; all but order and delivery at one reconnection proved |
| 2 | `TopicMatch`, `Topics`, `SubTree` | the tree and the matcher | checked, with the refinement; references, counters and pruning proved |
| 3 | `Restart` | the database file around `Broker` | checked; references and restored sessions proved |
| 4 | `Client`, `Delivery` | the library, its thread, its promise | checked, with the refinement; safety and refinement proved |
| 5 | `Packets`, `Channel` | partial writes and reads | checked; refinement proved |
| 6 | `KeepAlive`, `Bridge` | timers | checked; safety proved |
| 7 | `Push` | the addition | checked; safety proved |
| 8 | | the library without a thread; ACL reload | left |

Theorems next: `DeliveredOnce` for a bound of one on the resumed sessions of a
subscriber, with the packets that may be repeated as part of the invariant; and what
`Hits` reaches, by induction over the levels.
