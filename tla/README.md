# Verse: a verification project

Verse is a client/server protocol for sharing 3D data in real time.  Clients
share *nodes* with *tag groups*, *tags*, *layers* and *links*; the server keeps
the data and tells the clients that subscribed to it about every change.  A
client connects over TCP (TLS or WebSocket), authenticates and negotiates, and
then mostly goes on over a datagram (UDP) connection with a resend mechanism of
its own.  This directory holds TLA+ modules translated from the C source under
`src/`, the TLC configurations that check them on small instances, and proofs,
checked by TLAPS, for instances of any size.  `PROJECT.json` maps every
definition to the lines it models.

## Inventory of the system

| part | state | operations | hard behaviour | modules |
|---|---|---|---|---|
| resend mechanism (`v_resend_mechanism.c`) | next payload id, last received id, ANK ID, `sent_size` | send a packet, handle a packet, handle ACK/NAK commands | loss, duplication, reordering, failing sends, keep alive timer | `AckNak`, `Resend` |
| histories (`v_history.c`) | sent packets with their commands; compressed vector of ACK/NAK commands | add a command or packet, remove acknowledged ones, cut at the ANK ID | the vector is cut and extended in any order; obsolete commands | `AckNak`, `Resend` |
| queues, lists, hash arrays (`v_out_queue.c`, `v_in_queue.c`, `v_list.c`) | lists per priority, buckets, counters, sums of real priorities | push, pop under a window | replacing and moving a command while it waits, counters over long sequences | `OutQueue`, `Stream` |
| open stream (`v_stream.c`) | message being packed, FPS | pack a message, handle a message | the queue changes while a message is packed; windows; the end of the session | `Stream` |
| datagram connection (`vc_udp_connect.c`, `vs_udp_connect.c`, `v_connection.c`) | host state, attempts per state, negotiated parameters | the loops and handlers of every state | lost and repeated packets of the handshake, timeouts, a terminate request from another thread | `UdpConnection`, `Resend` |
| sessions (`vc_tcp_connect.c`, `vs_tcp_connect.c`, `vs_handshake.c`, `vs_websocket.c`, `vs_main.c`) | slots, host state, tokens, ports, avatars, state of the server | the loops and handlers of every state, accept, stop | several threads per session, slots and ports used again, clients that crash or are slow | `Sessions` |
| nodes (`vs_node.c`, `vs_data.c`, `vs_sys_nodes.c`) | tree of nodes, subscribers, an entity state per client | create, destroy, subscribe, unsubscribe, and their acknowledgments | commands that cross each other; deletion before creation was acknowledged | `Nodes` |
| links, permissions, locks, owners (`vs_link.c`, `vs_node_access.c`) | parent, level, permissions, lock holder, owner, priority | one handler per command | cycles in the tree; locks of sessions that ended | `Nodes` |
| tag groups, tags (`vs_taggroup.c`, `vs_tag.c`) | as for nodes, with values | create, destroy, subscribe, set | as for nodes; ids are used again | `TagGroups` |
| layers (`vs_layer.c`) | as for nodes, with items and child layers | create, destroy, subscribe, set, unset | as for tags; the node is destroyed under them | `Layers` |
| storage (`mongodb/`, `vs_main.c`) | documents | save, load | crash and restart | `NodeStorage` |
| client API (`verse.c`, `vc_main.c`) | sessions of a process | send commands, dispatch callbacks | threads of application and connection | actions `ClientCommand`, `Deliver` and others of the modules above |
| others (byte layout, authentication back ends, configuration, Python binding) | - | - | input and output | - |

The parts interact as follows.  The application (or the server's data thread)
pushes commands to a session's *out queue*; the connection's thread pops them
into packets and remembers them in the *history of sent packets* until the
peer's ACK/NAK vector settles them.  The receiving thread puts commands into
the *in queue*, from which the data thread or the application takes them.  When
the history lets go of a create or destroy command, the server's connection
thread puts a *fake acknowledgment* into the in queue, so that the data thread
knows that the client knows (`v_cmd_fake_ack`, `vs_handle_*_ack`).  The server's
main thread and its signal handler change the state of connections directly.

What makes these parts correct: no command is lost, applied twice or overwritten
by an older one; acknowledgments, real and fake, are true; counters cover what
they count; a handshake ends with both peers open, agreeing on ids and
parameters, or not at all; a teardown ends; for the data model, the server and
its clients agree on which entities exist, and nothing is freed while a client
may still refer to it.

## How the modules fit together

`Replication` is an abstract specification: entities exist at the server before a
client learns of them, and are freed, and their ids used again, only when no
client knows them, whatever was stored when the server started.  `Nodes`, `TagGroups` and `Layers` implement it
(`ImplementsReplication`, an `INSTANCE ... WITH` a mapping of `exists` and
`known`).  They stand above the connection: the commands of the server to a
client are a set from which any may arrive next (datagrams, what `Resend`
promises) or a sequence (streams, what `Stream` promises), and acknowledgments
come after delivery or, for streams, with sending.  `NodeStorage` extends `Nodes`
with the database, restarts and crashes.  `Stream` extends `OutQueue`.
`Sessions` contains the life of threads of which `UdpConnection` and `Stream`
model the inside.

| module | extends | proofs | instance for TLC |
|---|---|---|---|
| `AckNak` | | `Resend_proofs` | with `Resend` |
| `Resend` | `AckNak` | `Resend_proofs` | `MCResend` |
| `UdpConnection` | | `UdpConnection_proofs` | `MCUdpConnection` |
| `OutQueue`, `Stream` | `Stream` extends `OutQueue` | `Stream_proofs` | `MCStream` |
| `Replication` | | `TagGroups_proofs`, `Layers_proofs`, `Nodes_proofs` (refinements) | instantiated by the next three |
| `TagGroups` | | `TagGroups_proofs` | `MCTagGroups` |
| `Layers` | | `Layers_proofs` | `MCLayers` |
| `Nodes`, `NodeStorage` | `NodeStorage` extends `Nodes` | `Nodes_proofs` | `MCNodes` |
| `Sessions` | | `Sessions_proofs` | `MCSessions` |

`SequenceLemmas` holds the lemmas about sequences and sums that the proofs about
`TagGroups`, `Layers`, `Nodes`, `Sessions` and `Stream` share.

## Plan

The model covers the parts above; what remains is proof.  No module uses a
RECURSIVE operator.  Next is what `ClientsAgree` of `Layers` says about items over
streams.

## Modules

### AckNak

`v_ack_nak_history_add_cmd`, `v_ack_nak_history_remove_cmds`, and how
`handle_ack_nak_commands` reads a vector, as operators on sequences.  A vector
such as `ACK 3, NAK 5, ACK 7` says: 3 and 4 were received, 5 and 6 are lost, 7
was received.  `Truthful` states what a vector may say.

### Resend

One direction of the data flow of an open connection; the other direction runs
the same code on its own variables.  A command is a key (opcode and address) and
a version; `ReplaceKeys` are those with the flag `REM_DUP` of `cmd_struct`,
`AckKeys` the create and destroy commands.

| variables | code |
|---|---|
| `out_queue`, `packet_history`, `count_s_pay`, `ank_id`, `sent_size` | fields of `VSession` and `VDgramConn` of the sender |
| `fake_acks` | what `v_cmd_fake_ack` told the server |
| `last_r_pay`, `ack_nak` | fields of the receiver's `VDgramConn` |
| `got`, `value`, `received` | what `handle_node_commands` put into the in queue |
| `wire`, `gone`, `ank_wire`, `ack_wire`, `losses` | the network (external) |

Actions: `PushCmd` (application), `SendPacket`, `SendPacketError` and `SendAnk`
(`send_packet_in_OPEN_CLOSEREQ_state`), `ReceiveAck`
(`handle_ack_nak_commands`), `ReceivePacket`, `ReceiveUnordered`, `ReceiveAnk`
(`handle_packet_in_OPEN_state` as called at a client and at the server),
`SendAck`, and losses.  `ReceiverIsServer` chooses which peer receives, because
the server's caller of `handle_packet_in_OPEN_state` ignores its result.  Which
commands a packet takes is a free choice: priorities and windows only restrict
it.  Payload ids are counted from the sender's random `host_id`.

### UdpConnection

Client and server thread of one datagram connection from the first packet to the
end of both.  A client step is one half of a loop (send, or `select` and handle);
a server step is one packet, one tick of the main loop, or the end of the
thread.  A handler that ends in `vs_RESPOND_init` or `vs_OPEN_init` takes two
steps, because `vs_request_terminate` writes the state without a lock in
between.  Packets are flags, payload id, ANK ID, the id of the first ACK command
and the negotiate commands.  In the OPEN state only what handshake and teardown
see of a packet is kept.

`Patient` restricts timers: packets arrive before any timer expires, and the
client does not send payload while packets are under way.  It is used where a
property would otherwise only say that timeouts were too short.

### OutQueue and Stream

`OutQueue` is the queue of outgoing commands as a record of its lists, counts,
buckets, counters, bounds and sums, with one operator per function of
`v_out_queue.c`; `v_hash_array_remove_item` removes the first bucket with an
equal key, as the code does.  `Stream` has the connection threads of client and
server in the state STREAM_OPEN.  Packing a message is not one step: the code
takes the mutex of the queue for every access, so reading the bounds, the count
of a priority and every pop are steps of their own, and the application pushes
in between.

`QueueBooks` says what the books of the queue describe, and names the programs of
pushes for which the code keeps a book: the counter of a run of commands when no
command of the run is moved to another priority (`MovesAlone`), the summaries of
real priorities when commands are moved within the upper or the lower half
(`MovesInHalf`), and the buckets of a key whose commands replace each other or all
have one priority (`OneList`).  Counts, sizes and bounds hold without a condition.

| variables | code |
|---|---|
| `out_queue`, `in_queue`, `fps`, `state` | fields of `VSession` and `VStreamConn` of each peer |
| `pack` | local variables of `v_STREAM_pack_message` |
| `applied`, `pushed`, `accepted` | what the applications did |
| `wire` | messages on the stream (external) |

### TagGroups, Layers and Nodes

One action per handler of `vs_data.c` (`HandleTagCreate` is
`vs_handle_tag_create`, and so on), one for each acknowledgment
(`HandleTagCreateAck`), and what the end of a session does
(`vs_free_avatar_reference`).  A handler is one step: only the data thread runs
handlers, and the end of a session holds `data.mutex`.  `folls` holds for each
entity the state (CREATING, CREATED, DELETING) of every client that was told of
it, `subs` the subscribers, `view` what a client has learned, `acks` the fake
commands that wait for the data thread.  Handlers that return early without a
change are disabled.  `Leavers` are the clients that unsubscribe and disconnect;
the properties about agreement are stated for the others, because the code does
not keep its promise to a client that subscribes again.

In `Nodes` a follower is a record with the node subscriber its pointer leads to,
or `FREED`, and a client may have several entries, as in the code.
`vs_link_update_child` visits the children of its first argument, as the code
does, so levels may be wrong.

### NodeStorage

`db` holds the documents of every node id in the order in which they were
inserted; queries and updates find the first one, which is the order in which
MongoDB returns documents that did not move.  A node that was loaded
(`saved_version` is not -1) is updated, any other one is inserted, and documents are
never removed.  The code skips the update of a loaded node when its version has not
changed; every change of links, permissions or owner changes the version, so the
update makes no difference then.  `Shutdown` saves and starts again, `Crash` starts
again from what was saved before.  A start with documents that name a node twice,
which old documents can do, is left out (`NamedOnce`; the bounds of the runs do not
reach one).  The scene in the database at first belongs to the workload.

`SceneSurvives` excepts one case, in which the code does not save "all data"
(README.md of the server): a stored node is moved out of the scene, the server
restarts and gives its id to a new node of the scene, which is inserted behind the
old document; the next start loads the old one.

`again` is a history variable: the clients and nodes for which a node was announced
once more while `node_destroy` was not confirmed.  `ClientsAgree` leaves them out,
for datagrams only: `vs_handle_node_create_ack` may set a node back to CREATED for
which `node_destroy` was just sent; the node is linked to the scene, where the client
subscribes; the second `node_create` overtakes `node_destroy`, and the client forgets
a node that the server has told it of.

### Sessions

Client threads, the slots of the server with their stream and datagram threads,
and the listening thread.  A handler is one step, except where it waits for
another thread or touches what threads share without a lock.  The search for a
port and its count are such a place: `vs_test_port` and `vs_compare_port` read
the count of one port each, `vs_load_count` and `vs_store_count` are the read and
the write of `aggregation++` (vs_handshake.c:485-497), and the end of a datagram
thread reads the count (`Freeing`) and writes it (`vs_clear_vconn`,
vs_udp_connect.c:1670-1682).  The tests in a loop read a count twice, as a build
without optimisation does.  `raced` is a history variable: the ports that a session
found while another one had found but not counted them, or got without counting.
`PortsCounted` speaks of the other ports.  At a port that raced two handshakes both
find the count 0, both write 1, and two datagram threads use the port.

The end of a session is `vs_stream_ends`, `vs_join_udp_thread`, `vs_session_ends`
(the avatar), `vs_slot_listens` and `vs_slot_cleared`; `late` holds threads that
have set their slot to LISTEN but not yet cleared it.  A web session goes on in the
state CLOSING until the close frame of the client or the end of the socket.  The
socket of a datagram thread may fail to open at any port.  Two things are taken
to be harmless that are not defined: `pthread_join` of a `udp_thread` that an
earlier session of the slot has joined (vs_tcp_connect.c:215), and `pthread_cancel`
where no datagram thread was created (vs_handshake.c:1038).

Tokens and avatar ids are fresh numbers, ports are numbers, so that cutting one
to 8 bits is what the code does.  The datagram handshake is two steps
(`vs_LISTEN_handle_packet`, `vc_PARTOPEN_loop`); `UdpConnection` has the rest.

## Runs

| run | expects | shows |
|---|---|---|
| `safety` | pass | `HistoryTruthful`, `AtMostOnce`, `NoStaleOverwrite`, `SentSizeCovers`, server to client, with failing sends |
| `live` | pass | `NothingLost`, `FakeAckTruthful` without failing sends; `EventuallySettled`, `HistoryDrains` under fairness |
| `network` | pass | `OpenTogether`, `LastIsSent`, `NegotiatedAgree`, `TeardownComplete` for all configurations, with a network that repeats everything for ever |
| `teardown` | pass | `BothEnd` under fairness |
| `tags` | pass | `PointersAlive`, `ClientsAgree`, `ImplementsReplication`, `DestroyReaches` |
| `layers` | pass | `PointersAlive`, `ClientsAgree`, `ImplementsReplication`, `DestroyConfirmed` |
| `nodes` | pass | `StateSound`, `ClientsAgree`, `TreeKept`, `SceneSurvives`, `ImplementsReplication`, `AvatarGoes`, also in trees with the cycle of run `cycle` and over two restarts |
| `handshake` | pass | `PortsCounted`, `SessionsSound`, `StopClean`, `SlotFreed`, `ClientTold` |
| `queue` | pass | `QueueBooks`, `OrderKept`, `Delivered`, `FpsKnown`, `AllSent`, `BothClose` |
| `server` | violation | a late packet makes the server take commands twice |
| `cycle` | violation | a node becomes a descendant of its own child (`TreeIntact`) |
| `ports` | violation | a session gets a port that is not in the list (`PortFromList`) |

The violations are disagreements between the code and what a comment of the
repository says; `PROJECT.json` quotes the comments under "findings".  Every
property of a passing run has a mutant: an operator named `X_Something`, placed
before definition `X`, that changes it as a plausible bug would, and under which
TLC finds the property violated.

**Bounds.**  *Resend*: two keys with two versions are enough for a command to be
replaced while another is under way, four payload ids for a packet to be lost,
resent and overtaken, and for a vector of several runs that is cut in the middle
of one.  With `Duplication`, a packet that was sent may arrive any number of
times and in any order, which includes loss in every run about safety (a packet
need never arrive); runs about liveness count losses instead.  *UdpConnection*:
two or three attempts stand for the ten of the code; the limit is reached in
every direction.  *TagGroups*: one tag group and one tag, so that ids are used
again, two clients that both write, eight commands (creating, subscribing,
setting, destroying and creating again takes six).  *Layers*: two ids, so that a
layer may have a child layer or an id may be used again, and five commands.
*Nodes*, *Sessions* and *Stream* choose one of several workloads at the start: a
workload says what each client may do, and with which bounds.  For `Nodes` these
are building a tree, watching another client over datagrams or a stream,
subscribing to a node again while it is destroyed, sharing a node, coming and
going, moving the nodes of a stored scene, and restarting twice with an empty and
a stored scene, so that a loaded scene is changed, saved and loaded again; for
`Sessions` pairs of transports on one slot, sessions that look for one or two
ports at the same time, and stopping; for `Stream` values that are
replaced and moved, a queue at its limit, changes of the FPS, and the end of a
session.  Deadlock is not checked, because all runs end when their bounds are
used up or the connection has ended.

**Fairness.**  Both threads of a datagram connection run their loops
(`vc_OPEN_loop`, `vs_main_dgram_loop`), which send, wait with `select` for a
bounded time and receive; so sending, receiving and timeouts are weakly fair.
Strong fairness is assumed where a loop goes on turning: `select` returns a
packet that has arrived (`ClientReceive`), and a keep alive packet is sent when
`RESEND_TIMEOUT` has passed, however often there was nothing to send before
(`SendPayload`).  In `Stream` the loops of both peers are weakly fair; a message
is packed again and again with a window that takes every command
(`LargeWindow`, strong), which is what a socket whose peer reads provides.  In
`TagGroups`, `Layers` and `Nodes` the data thread handles what has arrived
(`vs_data_loop` waits on a semaphore that every new command posts) and
connections deliver.  In `Sessions` threads run, waits end after `VRS_TIMEOUT`,
and applications answer requests for a password.  Loss, duplication, failing
sends, crashes and the requests of applications are not fair.

**What the passing properties leave out.**  The code has deviations that a
property without exceptions would meet; each is named where the property is
stated.

* Tag groups, layers, nodes: a late acknowledgment of a create command switches
  an entity that is being destroyed back to CREATED; tags are freed with their
  tag group without waiting for followers; a client that unsubscribes from a node
  leaves followers that point to a freed subscriber; items of child layers are
  unset without a command; `vs_handle_layer_create` returns with a mutex locked;
  a destroyed parent that is confirmed before its child is never freed.
* Nodes: levels that `vs_link_update_child` leaves wrong let a cycle pass
  (`TreeKept` is about trees whose levels rise, and `StateSound` about one tree); a
  node that goes back to CREATED is announced again while `node_destroy` is under
  way, and datagrams may turn the two round (`ClientsAgree` leaves it out).
* Storage: old documents hide new nodes with their ids (`SceneSurvives` leaves
  such a node out).
* Sessions: a stream thread waits for ever when the datagram thread cannot bind
  its port or was closed first (`Stuck`); a client waits for ever when its
  datagram thread fails (`Hung`); the server goes on after `VRS_TIMEOUT` although
  threads run; commands left in the queues of a slot run for the next client; ports
  at which searches overlapped are not counted right.
* Queue: moving a command between the two halves of the priorities updates the
  wrong sum, moving a command of a run to an empty list keeps its counter:
  `QueueBooks` says nothing of these two books where commands are moved so.  A
  change of the FPS is sent only with another command.  `v_cmd_count` subtracts
  without a test (v_commands.c:2195): that its unsigned result wraps when the window
  is smaller than the head of a command is not in `CanPop`.  Count, bounds and sums of the queue are read
  under one mutex each (v_stream.c:144, 182-186) and are one step in `PackStart`:
  a push in between changes only which priorities and windows this message has.
* Resend: a failing send is reported as an acknowledgment; values of layers have
  no REM_DUP flag and may arrive in the wrong order.  UdpConnection: a data packet
  received in PARTOPEN spoils the repetitions of the client's packet; a request to
  terminate is overwritten by a handler that is about to switch the state.

## Proofs

The theorems hold for every value of the constants that satisfies the assumption
of the module, which TLC evaluates in every run.  `ResendAssumption` and
`UdpAssumption` give constants their types (at least one attempt; `ReplaceKeys`
and `AckKeys` are keys).  So does `NodesAssumption` (IDs up to `MaxNode`, with room
for the nodes the server itself makes; any workload whose nodes have such IDs).
`TagGroupsAssumption` says moreover that "not set" and
"not known" are no values of tags, and `SessionsAssumption` that there are finitely
many clients and slots, that `NoClient` is no client, and that ports are at least
49152, because `vs_read_config_file` refuses lower ones: the port that is cut to 8
bits is then never a port of the list.  Each proof follows the same scheme: an
invariant that implies the property and is inductive, one lemma per action, and
lemmas for what actions have in common.

* `Resend_proofs`: `AddReceivedTruthful` and `RemoveCmdsTruthful`, that
  recording a packet and cutting at any ANK ID keep a vector truthful.  The
  argument follows the place where the vector is cut or extended and shows what
  the changed command speaks for.
* `Resend_proofs` also holds `TypeCorrect` (with the finiteness of queue and history, which
  `sent_size` needs), `VectorsAreTruthful` and `SentSizeCoversHistory`.
  `HistoryTruthful` is not inductive: a vector in flight could be made false by a
  packet received later.  `VectorInv` adds that nothing beyond `last_r_pay` was
  received and that the vector ends with the ACK of `last_r_pay`.
* `Resend_proofs`, delivery: `DeliveredAtMostOnce`.  `DeliveryInv` says where copies of
  a command may be: in the queue (then every packet that carries it is dead), in
  the history (then only its own packet may still be received), and that of all
  packets that carry it only the last may be received.  A NAK moves a command
  back to the queue, and because vectors are truthful its packet is dead then.
  `FakeAcksAreTruthful`, `NoCommandIsLost` (both when sending does not fail) and
  `ValuesNeverGoBack` rest on it: `KeyOrder` says that queue and history hold one
  command each of a key with `REM_DUP`, the queue the newer one; `NewestLast` that
  versions of such a key do not decrease from what the receiver has, over the
  packets by their ids and the history, to the queue.
* `UdpConnection_proofs`: `ConnectionTypes`, `HandshakeTogether`,
  `CountersInStep`, `NegotiationAgrees` and `RegularEndIsClosed`, for any number of
  attempts and a network that repeats what it likes.  A peer acts on packets that
  were sent long ago, so the invariant describes them: `NetworkInv` says what each
  packet on its way can be (ids below the counter of its sender, negotiate commands
  as configured) and how far the server is once it exists; `ClientInv` and
  `ServerInv` give counters and parameters state by state, also while a handler is
  about to switch the state, and `PeersInv` relates the two peers.
* `TagGroups_proofs`: `NodeSubsAlive` from `ServerInv` (the subscribers of a tag
  group are those of the node, its followers too, and the followers of its tags
  are its subscribers), and `TagGroupsReplicate`, that every step is a step of
  `Replication` or changes nothing that it sees.  For that, `ReplicaInv` follows
  the create and the destroy command of a tag group: `Tracked` in `SequenceLemmas`
  ties the state of a follower to the one place where a command or its
  acknowledgment is (queued, under way, or with the data thread), and to what the
  client knows when all has arrived.  A set of datagrams and a stream are both
  instances of it.
* `TagGroups_proofs`, agreement: `TagsAgree`.  `AgreeInv` adds the same for tags while
  their tag group is known, that nothing about tags reaches a client that has not
  subscribed, and that the last command about a value carries the value of the
  server (`ValueSound`; `Settles` for streams).  It speaks of the first tag group
  with an id, as the property does.
* `Layers_proofs`: `LayerPointersAlive`, `LayerOrder`, `LayersAgree` and
  `LayersReplicate`.  A layer is destroyed with the layers
  below it and its followers go one by one, so `DataInv` says for every layer, also
  one that waits for acknowledgments, that its followers and subscribers are
  subscribers of the node, that a layer with followers exists, and that its parent
  does; `NetInv` gives commands and acknowledgments their types.  The search for a
  free id is a recursive function: `IteratesExist` of `SequenceLemmas` gives it
  its values.  The other three rest on `ReplicaInv`, which adds `Tracked` for every
  layer and every client that stays (`LayerPhase`).  The create command of a layer
  names its parent, which changes when the parent is freed, so commands are
  compared by kind and layer (`Key`), and `Distinct` says that the network never
  holds two create or two destroy commands of a layer.  `LayersAgree` is what
  `ClientsAgree` says about layers; items are left to TLC.
* `Nodes_proofs`: `NodesTyped` and `NodesReplicate`, for any clients, commands of
  theirs, permissions and number of nodes, links that form a cycle included.  A
  client may have several followers of a node, all but the last of which wait for a
  destroy command to be acknowledged; `Told` says what this list tells of one node
  and one client that stays and uses datagrams: where its create command, its
  destroy command and the acknowledgments may be, and that a client that knows the
  node has a follower.  `Moves` is what a handler may do to the list, together with
  the commands that it sends, and `ServerStep` says that a step of the data thread
  does this and nothing else, for all nodes at once; it is shown for the operators
  of the module (`vs_node_send_create`, `vs_node_send_data`, `vs_node_destroy_branch`
  and so on) and then for every handler.  `Ready` adds that an id that is not in use
  has no followers, so a node that is freed is known to nobody, and `Unused` that
  ids not given out yet are not in use.  The walks over the tree are recursive
  functions; `StepsExist` and `LeastSet` give them values also where the tree has a
  cycle.
* `Sessions_proofs`: `PortsAreCounted`, `SessionsStaySound` and `OrderlyStop`.
  Slots are used again with what an earlier session left in them, so the invariant
  says when the left-overs are dead: the avatar of a slot exists exactly while the
  user of its session is authenticated (`SlotInv`), its client is the only one that
  was told of it, by a message under way or read (`Told`, `Link`), and two slots
  share neither client nor avatar (`Apart`).  A client that has not given a
  password was told nothing, and one that waits to be accepted belongs to no slot.
  For ports, `PortsInv` says of every port that has not raced that at most one slot
  uses it, from the step that finds it unused to the step that writes its freed
  count, that its count is 0 before the user has counted it and 1 afterwards, and
  that a count which was read and not yet written back is still that; `PortsTyped`
  gives counts and searches their ranges.  A second slot can come to use a port only
  by finding it before the first has counted it, which is what `raced` records.
* `Stream_proofs`: `QueueBooksHold`, `FpsKnownHolds`, `OrderIsKept` and
  `StreamDelivers`, for all commands, priorities, limits, windows and programs of
  pushes that satisfy `StreamAssumption` (`CREATE` and `TERMINATE` do not replace
  waiting commands, fake commands take no room in a message, and a server does not
  push a change of the FPS, as in the code).
  `Base` holds the types and, for each queue, `QueueSound`: lists are sorted by the
  id with which an entry came, hold accepted versions of the program at the
  priority they were pushed with, and every count, sum, counter and bucket is the
  one that the lists give.  It is shown for every operator of `OutQueue` on its own,
  from which a push (`Pushes`) and a pop (`Pops`) are known as what they do to the
  set of waiting commands.  Buckets are removed by key and not by identity, so
  `TableSound` follows which of several equal keys goes first.
  `FpsInv` says that only the server confirms and only the client changes, and that
  the last word under way to the client (`Told`) is the FPS of the server.
  `LineInv` lays what a peer has applied, its queue, the messages under way and the
  message that is being packed in one line (`Line`), in which no command is followed
  by an older one of its key; all that has left a queue is older than what waits in
  it (`Left`).  A queue of incoming commands replaces values in place, so the line
  says moreover that such a key occurs there once.  `OpenInv` adds that every
  accepted command has an heir that waits or is in the line (`Safe`), and that what
  was acknowledged is in the line (`Truthful`); both need that values taken out of
  the line have a newer one behind them (`Survives`).

`VectorsAreTruthful`, `DeliveredAtMostOnce`, `FakeAcksAreTruthful`,
`NoCommandIsLost` and `ValuesNeverGoBack` assume that a client receives: at the
server `AtMostOnce` is false (run `server`).

Only model-checked are the liveness properties (`EventuallySettled`,
`HistoryDrains`, `BothEnd`, `DestroyReaches`, `DestroyConfirmed`, `AvatarGoes`,
`SlotFreed`, `ClientTold`, `AllSent`, `BothClose`: fairness is out of reach of the
prover), the items of layers in `ClientsAgree` of `Layers`, `NodeStorage` with
`ClientsAgree` of nodes, and of `Nodes` the properties `StateSound` (but for its
`TypeOK`) and `TreeKept`, which walk the tree.

## Not modelled

Byte layout of packets and commands, TLS and DTLS, the HTTP upgrade and the frames
of WebSocket (a frame is a message), authentication back ends, configuration, the
Python binding and the examples: input and output without interleaving of their
own.  Data types, vectors and strings of tags and layers are values.  The nodes of
users, and `node_perm` commands to clients.  Windows of the datagram connection
(`set_host_rwin`, `set_host_cwin`): which commands a packet takes is a free choice.
The width of payload ids (2^32 packets) and the limit of 64 system commands in a
packet are beyond the bounds.  In `UdpConnection` sending does not fail, and a
packet that the other side of this repository never sends (a wrong token, an
unsupported method) does not occur.  In `NodeStorage` writing to the database does
not fail, and tag groups and layers in documents are left out.  In `Sessions`
`accept` and the creation of threads do not fail, and a plain TCP stream delivers
one message per read.
