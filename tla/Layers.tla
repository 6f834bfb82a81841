------------------------------- MODULE Layers -------------------------------
(***************************************************************************)
(* Layers of one node of the Verse server (vs_layer.c, and what vs_node.c  *)
(* and vs_sys_nodes.c do to them when a client subscribes, unsubscribes or *)
(* disconnects).  Layers form trees: a layer is destroyed with its child   *)
(* layers, and an item that is unset in a layer is unset in them as well.  *)
(*                                                                         *)
(* As in module TagGroups, commands of clients are handled as they arrive, *)
(* a datagram session delivers the commands of the server in any order, a  *)
(* stream in order, and create and destroy commands are acknowledged.  The *)
(* node itself may be destroyed (its owner sends node_destroy); handlers   *)
(* lock its mutex.                                                         *)
(***************************************************************************)
EXTENDS Integers, FiniteSets, Sequences, SequencesExt

CONSTANTS
  Clients,      \* sessions
  Leavers,      \* those that may unsubscribe and disconnect
  MayStream,    \* those that may use TCP or WebSocket instead of UDP
  Readers,      \* the clients that may read the node
  Writers,      \* the clients that may write it
  LAST_LAYER_ID, \* ids are 0 .. LAST_LAYER_ID
  Types,        \* custom types of layers
  Items,        \* ids of items
  Values,       \* values of items
  MaxOps        \* bound: commands of clients

ASSUME LayersAssumption ==
  /\ Leavers \subseteq Clients /\ MayStream \subseteq Clients
  /\ Readers \subseteq Clients /\ Writers \subseteq Clients
  /\ LAST_LAYER_ID \in Nat /\ MaxOps \in Nat
  /\ IsFiniteSet(Items)   \* ids of items are uint32

NONE     == "NONE"
CREATING == "CREATING"
CREATED  == "CREATED"
DELETING == "DELETING"
UNSET    == "UNSET"       \* the layer has no such item

RESERVED_LAYER_ID == LAST_LAYER_ID + 1      \* the largest uint16
Ids == 0 .. RESERVED_LAYER_ID               \* all values of an uint16

VARIABLES
  layers,     \* the layers of the node, by id
  first_free, \* first_free_layer_id of the node
  node_alive, \* is the node created (and not being destroyed)?
  locked,     \* is the node's mutex locked by a handler that has returned?
  node_subs, streams, net, out_queue, wire, acks, view, online, ops

serverVars == <<layers, first_free, node_alive, locked, node_subs>>
vars == <<serverVars, streams, net, out_queue, wire, acks, view, online, ops>>

NoItems   == [x \in Items |-> UNSET]
FreeLayer == [state |-> NONE, type |-> NONE, parent |-> RESERVED_LAYER_ID,
              folls |-> [c \in Clients |-> NONE], subs |-> {}, values |-> NoItems]

(* What a client knows: layers, their parents, and their items.            *)
EmptyView == [known |-> {}, parent |-> [l \in Ids |-> RESERVED_LAYER_ID],
              values |-> [l \in Ids |-> NoItems]]

Init ==
  /\ layers = [l \in Ids |-> FreeLayer] /\ first_free = 0
  /\ node_alive = TRUE /\ locked = FALSE
  /\ node_subs = {}
  /\ streams \in SUBSET MayStream
  /\ net = [c \in Clients |-> {}]
  /\ out_queue = [c \in Clients |-> <<>>] /\ wire = [c \in Clients |-> <<>>]
  /\ acks = [c \in Clients |-> {}]
  /\ view = [c \in Clients |-> EmptyView]
  /\ online = Clients
  /\ ops = 0

-----------------------------------------------------------------------------
(* Commands of the server, and how they are queued for the clients.        *)

Cmd(op, l, p, x, v) == [op |-> op, layer |-> l, parent |-> p, item |-> x, value |-> v]

NoItem == "NOITEM"

LayerCreate(l, p)        == Cmd("LAYER_CREATE", l, p, NoItem, UNSET)
LayerDestroy(l)          == Cmd("LAYER_DESTROY", l, RESERVED_LAYER_ID, NoItem, UNSET)
LayerSetValue(l, x, v)   == Cmd("LAYER_SET", l, RESERVED_LAYER_ID, x, v)
LayerUnsetValue(l, x)    == Cmd("LAYER_UNSET", l, RESERVED_LAYER_ID, x, UNSET)
LayerCreateAck(l)        == Cmd("LAYER_CREATE_ACK", l, RESERVED_LAYER_ID, NoItem, UNSET)
LayerDestroyAck(l)       == Cmd("LAYER_DESTROY_ACK", l, RESERVED_LAYER_ID, NoItem, UNSET)

(* v_out_queue_push_tail of the sequence out[c] for every client c.        *)
Push(out) ==
  /\ net' = [c \in Clients |-> IF c \in streams THEN net[c] ELSE net[c] \union ToSet(out[c])]
  /\ out_queue' = [c \in Clients |->
       IF c \in streams THEN out_queue[c] \o out[c] ELSE out_queue[c]]

PushTo(C, m) == Push([c \in Clients |-> IF c \in C THEN <<m>> ELSE <<>>])

(* A command of client c is handled: nobody holds the mutex of the node.   *)
Command(c) ==
  /\ c \in online /\ ~locked
  /\ ops < MaxOps /\ ops' = ops + 1
  /\ UNCHANGED <<streams, wire, acks, online>>

Exists(l)    == layers[l].state # NONE
Followers(e) == {c \in Clients : e.folls[c] # NONE}

(* Layer l is layer a, or a descendant of it.  RESERVED_LAYER_ID stands    *)
(* for no parent, also when there is a layer with that id.                 *)
Below(l, a) ==
  LET Up[n \in 0 .. RESERVED_LAYER_ID] == IF n = 0 THEN l ELSE layers[Up[n - 1]].parent
  IN \E n \in 0 .. RESERVED_LAYER_ID :
       Up[n] = a /\ \A i \in 1 .. n : Up[i] # RESERVED_LAYER_ID

-----------------------------------------------------------------------------
(* Subscribing to the node, unsubscribing from it, disconnecting, and the  *)
(* end of the node.                                                        *)

(* Those of the clients C that are to be told of layer e now.              *)
Untold(e, C) == {c \in C : e.state \in {CREATING, CREATED} /\ e.folls[c] = NONE}

(* vs_layer_send_create.                                                   *)
vs_layer_send_create(e, C) ==
  [e EXCEPT !.folls = [c \in Clients |-> IF c \in Untold(e, C) THEN CREATING ELSE @[c]]]

(* vs_handle_node_subscribe, vs_node_subscribe and vs_node_send_data.      *)
NodeSubscribe(c) ==
  LET C == {c} \intersect Readers
      told == {l \in Ids : Untold(layers[l], C) # {}}
  IN /\ Command(c)
     /\ node_alive /\ c \notin node_subs
     /\ node_subs' = node_subs \union {c}
     /\ layers' = [l \in Ids |-> vs_layer_send_create(layers[l], C)]
     /\ Push([d \in Clients |-> IF d # c THEN <<>>
                ELSE SetToSeq({LayerCreate(l, layers[l].parent) : l \in told})])
     /\ UNCHANGED <<first_free, node_alive, locked, view>>

(* Mutant: vs_layer_unsubscribe is not called.                             *)
Forgotten_Sub(e, c) == [e EXCEPT !.folls[c] = NONE]

(* A layer without client c as a follower and subscriber: the parts of     *)
(* vs_node_unsubscribe and vs_layer_free_avatar_reference about one layer. *)
Forgotten(e, c) == [e EXCEPT !.folls[c] = NONE, !.subs = @ \ {c}]

(* vs_handle_node_unsubscribe; the client forgets the content of the node. *)
NodeUnsubscribe(c) ==
  /\ Command(c)
  /\ c \in Leavers \intersect node_subs /\ node_alive
  /\ node_subs' = node_subs \ {c}
  /\ layers' = [l \in Ids |-> Forgotten(layers[l], c)]
  /\ view' = [view EXCEPT ![c] = EmptyView]
  /\ UNCHANGED <<first_free, node_alive, locked, net, out_queue>>

(* The session of client c ends (vs_layer_free_avatar_reference).          *)
Disconnect(c) ==
  /\ c \in Leavers \intersect online
  /\ online' = online \ {c}
  /\ node_subs' = node_subs \ {c}
  /\ layers' = [l \in Ids |-> Forgotten(layers[l], c)]
  /\ net' = [net EXCEPT ![c] = {}]
  /\ out_queue' = [out_queue EXCEPT ![c] = <<>>]
  /\ wire' = [wire EXCEPT ![c] = <<>>]
  /\ acks' = [acks EXCEPT ![c] = {}]
  /\ view' = [view EXCEPT ![c] = EmptyView]
  /\ UNCHANGED <<first_free, node_alive, locked, streams, ops>>

(* vs_handle_node_destroy by the owner: the node waits in DELETING for the *)
(* acknowledgements of its followers.                                      *)
NodeDestroy(c) ==
  /\ Command(c)
  /\ node_alive /\ node_alive' = FALSE
  /\ UNCHANGED <<layers, first_free, locked, node_subs, net, out_queue, view>>

-----------------------------------------------------------------------------
(* Commands about layers.                                                  *)

(* The search of vs_layer_create for a free id: it starts at               *)
(* first_free_layer_id, which may be the reserved one.                     *)
NextId(i) == IF i + 1 > LAST_LAYER_ID THEN 0 ELSE i + 1

Tried[n \in Ids] ==
  IF n = 0 THEN first_free
  ELSE IF Exists(Tried[n - 1]) THEN NextId(Tried[n - 1]) ELSE Tried[n - 1]

FreeId == Tried[RESERVED_LAYER_ID]

(* first_free_layer_id after layer id was created.                         *)
NextFree(id) == (id + 1) % (RESERVED_LAYER_ID + 1)

(* vs_layer_create: a layer of a type under layer p, or under none.        *)
vs_layer_create(type, p) == [FreeLayer EXCEPT !.state = CREATING, !.type = type, !.parent = p]

(* vs_handle_layer_create: the parent may be in any state, and all         *)
(* subscribers of the node are told.                                       *)
HandleLayerCreate(c, p, type) ==
  LET id == FreeId
  IN /\ Command(c)
     /\ node_alive
     /\ p # RESERVED_LAYER_ID => Exists(p)
     /\ c \in Writers
     /\ \A l \in Ids : Exists(l) => layers[l].type # type
     /\ ~Exists(id)
     /\ layers' = [layers EXCEPT ![id] = vs_layer_send_create(vs_layer_create(type, p), node_subs)]
     /\ first_free' = NextFree(id)
     /\ PushTo(node_subs, LayerCreate(id, p))
     /\ UNCHANGED <<node_alive, locked, node_subs, view>>

(* vs_handle_layer_create when the node is being destroyed: the handler    *)
(* returns with the mutex of the node locked.                              *)
HandleLayerCreateLate(c) ==
  /\ Command(c)
  /\ ~node_alive
  /\ locked' = TRUE
  /\ UNCHANGED <<layers, first_free, node_alive, node_subs, net, out_queue, view>>

(* The layers that are destroyed with layer l.                             *)
DestroyedWith(l) == {k \in Ids : Exists(k) /\ Below(k, l)}

(* Followers that have acknowledged: they are sent the destroy command.    *)
Destroyable(e) == {c \in Clients : e.folls[c] = CREATED}

(* vs_layer_send_destroy, for one layer.                                   *)
vs_layer_send_destroy(e) ==
  [e EXCEPT !.state = DELETING,
            !.folls = [c \in Clients |-> IF c \in Destroyable(e) THEN DELETING ELSE @[c]]]

(* vs_handle_layer_destroy.                                                *)
HandleLayerDestroy(c, l) ==
  LET all == DestroyedWith(l)
  IN /\ Command(c)
     /\ node_alive /\ c \in Writers
     /\ layers[l].state \in {CREATING, CREATED}
     /\ layers' = [k \in Ids |-> IF k \in all THEN vs_layer_send_destroy(layers[k]) ELSE layers[k]]
     /\ Push([d \in Clients |->
          SetToSeq({LayerDestroy(k) : k \in {k \in all \ {l} : d \in Destroyable(layers[k])}})
            \o (IF d \in Destroyable(layers[l]) THEN <<LayerDestroy(l)>> ELSE <<>>)])
     /\ UNCHANGED <<first_free, node_alive, locked, node_subs, view>>

(* vs_handle_layer_subscribe: the items are sent.  A client asks for       *)
(* layers it knows.                                                        *)
HandleLayerSubscribe(c, l) ==
  LET set == {x \in Items : layers[l].values[x] # UNSET}
  IN /\ Command(c)
     /\ l \in view[c].known
     /\ node_alive /\ c \in Readers \intersect node_subs
     /\ layers[l].state \in {CREATING, CREATED}
     /\ c \notin layers[l].subs
     /\ layers' = [layers EXCEPT ![l].subs = @ \union {c}]
     /\ Push([d \in Clients |-> IF d # c THEN <<>>
                ELSE SetToSeq({LayerSetValue(l, x, layers[l].values[x]) : x \in set})])
     /\ UNCHANGED <<first_free, node_alive, locked, node_subs, view>>

(* vs_handle_layer_unsubscribe and vs_layer_unsubscribe; the client        *)
(* forgets the items.                                                      *)
HandleLayerUnsubscribe(c, l) ==
  /\ Command(c)
  /\ c \in Leavers \intersect layers[l].subs
  /\ layers' = [layers EXCEPT ![l].subs = @ \ {c}]
  /\ view' = [view EXCEPT ![c].values[l] = NoItems]
  /\ UNCHANGED <<first_free, node_alive, locked, node_subs, net, out_queue>>

(* vs_handle_layer_set_value: the state of the node does not matter.       *)
HandleLayerSetValue(c, l, x, v) ==
  /\ Command(c)
  /\ c \in Writers /\ Exists(l)
  /\ layers' = [layers EXCEPT ![l].values[x] = v]
  /\ PushTo(layers[l].subs, LayerSetValue(l, x, v))
  /\ UNCHANGED <<first_free, node_alive, locked, node_subs, view>>

(* Where an item is unset with layer l: from l down, as long as layers     *)
(* have it.                                                                *)
UnsetIn(l, x) ==
  {k \in Ids : Exists(k) /\ Below(k, l) /\
     \A m \in Ids : (Exists(m) /\ Below(k, m) /\ Below(m, l)) => layers[m].values[x] # UNSET}

(* Mutant: nobody is told.                                                 *)
TellUnset_None(l) == {}

(* Only subscribers of the layer the command names are told.               *)
TellUnset(l) == layers[l].subs

(* vs_handle_layer_unset_value and vs_layer_unset_value.                   *)
HandleLayerUnsetValue(c, l, x) ==
  LET all == UnsetIn(l, x)
  IN /\ Command(c)
     /\ c \in Writers /\ Exists(l)
     /\ layers[l].values[x] # UNSET
     /\ layers' = [k \in Ids |-> IF k \in all THEN [layers[k] EXCEPT !.values[x] = UNSET]
                                              ELSE layers[k]]
     /\ PushTo(TellUnset(l), LayerUnsetValue(l, x))
     /\ UNCHANGED <<first_free, node_alive, locked, node_subs, view>>

-----------------------------------------------------------------------------
(* Fake commands: acknowledgements of create and destroy commands.         *)

Acked(c, m) ==
  /\ m \in acks[c] /\ ~locked
  /\ acks' = [acks EXCEPT ![c] = @ \ {m}]
  /\ UNCHANGED <<first_free, node_alive, locked, node_subs, streams, wire, view, online, ops>>

(* e was destroyed before its follower c acknowledges the create command.  *)
DestroyNow(e, c) == e.state = DELETING /\ e.folls[c] # NONE

(* vs_handle_layer_create_ack: the state of other followers is not looked  *)
(* at, so any acknowledgement makes the layer CREATED.                     *)
HandleLayerCreateAck(c, m) ==
  LET e == layers[m.layer]
      own == IF DestroyNow(e, c) THEN DELETING
             ELSE IF e.folls[c] = CREATING THEN CREATED ELSE e.folls[c]
      all_created == DestroyNow(e, c) \/ own \in {NONE, CREATED}
  IN /\ m.op = "LAYER_CREATE_ACK"
     /\ Acked(c, m)
     /\ layers' = IF e.state = NONE THEN layers
                  ELSE [layers EXCEPT ![m.layer].folls[c] = own,
                                      ![m.layer].state = IF all_created THEN CREATED ELSE @]
     /\ PushTo(IF DestroyNow(e, c) THEN {c} ELSE {}, LayerDestroy(m.layer))

(* Mutant: the layer is freed with the first confirmation.                 *)
LastFollower_Any(e, c) == TRUE

(* No follower is left without client c.                                   *)
LastFollower(e, c) == Followers(e) \subseteq {c}

(* vs_handle_layer_destroy_ack; vs_layer_destroy frees the layer, and its  *)
(* child layers have no parent then.                                       *)
HandleLayerDestroyAck(c, m) ==
  LET l == m.layer
      Orphan(e) == IF e.parent = l THEN [e EXCEPT !.parent = RESERVED_LAYER_ID] ELSE e
  IN /\ m.op = "LAYER_DESTROY_ACK"
     /\ Acked(c, m)
     /\ layers' = IF ~Exists(l) THEN layers
                  ELSE IF LastFollower(layers[l], c)
                    THEN [k \in Ids |-> IF k = l THEN FreeLayer ELSE Orphan(layers[k])]
                    ELSE [layers EXCEPT ![l].folls[c] = NONE]
     /\ UNCHANGED <<net, out_queue>>

-----------------------------------------------------------------------------
(* The network and the clients.                                            *)

(* Mutant: destroy commands are not acknowledged.                          *)
v_cmd_fake_ack_Create(m) == IF m.op = "LAYER_CREATE" THEN {LayerCreateAck(m.layer)} ELSE {}

(* v_cmd_fake_ack.                                                         *)
v_cmd_fake_ack(m) ==
  CASE m.op = "LAYER_CREATE"  -> {LayerCreateAck(m.layer)}
    [] m.op = "LAYER_DESTROY" -> {LayerDestroyAck(m.layer)}
    [] m.op \in {"LAYER_SET", "LAYER_UNSET"} -> {}

(* What a client makes of a command: it unsets an item in the child layers *)
(* it knows the way the server does.                                       *)
Learned(w, m) ==
  LET l == m.layer x == m.item
      Child(k) == k # l /\ k \in w.known /\ w.parent[k] = l /\ l # RESERVED_LAYER_ID
  IN
  CASE m.op = "LAYER_CREATE"  -> [w EXCEPT !.known = @ \union {l}, !.parent[l] = m.parent]
    [] m.op = "LAYER_DESTROY" -> [w EXCEPT !.known = @ \ {l}, !.values[l] = NoItems,
                                           !.parent[l] = RESERVED_LAYER_ID]
    [] m.op = "LAYER_SET"   -> IF l \in w.known THEN [w EXCEPT !.values[l][x] = m.value] ELSE w
    [] m.op = "LAYER_UNSET" ->
         [w EXCEPT !.values = [k \in Ids |->
            IF k = l \/ Child(k) THEN [@[k] EXCEPT ![x] = UNSET] ELSE @[k]]]

(* A datagram with command m arrives, and its acknowledgement later.       *)
DeliverDatagram(c, m) ==
  /\ m \in net[c]
  /\ net' = [net EXCEPT ![c] = @ \ {m}]
  /\ acks' = [acks EXCEPT ![c] = @ \union v_cmd_fake_ack(m)]
  /\ view' = [view EXCEPT ![c] = Learned(@, m)]
  /\ UNCHANGED <<serverVars, streams, out_queue, wire, online, ops>>

(* v_STREAM_pack_message: a command is sent and acknowledged at once.      *)
SendStream(c) ==
  /\ out_queue[c] # <<>>
  /\ LET m == Head(out_queue[c])
     IN /\ wire' = [wire EXCEPT ![c] = Append(@, m)]
        /\ acks' = [acks EXCEPT ![c] = @ \union v_cmd_fake_ack(m)]
  /\ out_queue' = [out_queue EXCEPT ![c] = Tail(@)]
  /\ UNCHANGED <<serverVars, streams, net, view, online, ops>>

(* The next command of a stream arrives.                                   *)
DeliverStream(c) ==
  /\ wire[c] # <<>>
  /\ wire' = [wire EXCEPT ![c] = Tail(@)]
  /\ view' = [view EXCEPT ![c] = Learned(@, Head(wire[c]))]
  /\ UNCHANGED <<serverVars, streams, net, out_queue, acks, online, ops>>

-----------------------------------------------------------------------------
ClientCommand(c) ==
  \/ NodeSubscribe(c)
  \/ NodeUnsubscribe(c)
  \/ NodeDestroy(c)
  \/ HandleLayerCreateLate(c)
  \/ \E p \in Ids, type \in Types : HandleLayerCreate(c, p, type)
  \/ \E l \in Ids :
       \/ HandleLayerDestroy(c, l)
       \/ HandleLayerSubscribe(c, l)
       \/ HandleLayerUnsubscribe(c, l)
       \/ \E x \in Items :
            \/ HandleLayerUnsetValue(c, l, x)
            \/ \E v \in Values : HandleLayerSetValue(c, l, x, v)

FakeCommand(c) ==
  \E m \in acks[c] : HandleLayerCreateAck(c, m) \/ HandleLayerDestroyAck(c, m)

Deliver(c) ==
  \/ \E m \in net[c] : DeliverDatagram(c, m)
  \/ SendStream(c)
  \/ DeliverStream(c)

Next == \E c \in Clients : ClientCommand(c) \/ Disconnect(c) \/ FakeCommand(c) \/ Deliver(c)

(* The data thread handles every command it receives, and the connection   *)
(* of a client that stays delivers.                                        *)
Fairness == \A c \in Clients : WF_vars(FakeCommand(c)) /\ WF_vars(Deliver(c))

Spec == Init /\ [][Next]_vars /\ Fairness

-----------------------------------------------------------------------------
(* Properties.                                                             *)

Stayers == Clients \ Leavers

States    == {NONE, CREATING, CREATED, DELETING}
ItemType  == [Items -> Values \union {UNSET}]
LayerType == [state : States, type : Types \union {NONE}, parent : Ids,
              folls : [Clients -> States], subs : SUBSET Clients, values : ItemType]
ViewType  == [known : SUBSET Ids, parent : [Ids -> Ids], values : [Ids -> ItemType]]

Cmds == [op : {"LAYER_CREATE", "LAYER_DESTROY", "LAYER_SET", "LAYER_UNSET"}, layer : Ids,
         parent : Ids, item : Items \union {NoItem}, value : Values \union {UNSET}]
FakeCmds == {LayerCreateAck(l) : l \in Ids} \union {LayerDestroyAck(l) : l \in Ids}

(* Types of the variables.                                                 *)
TypeOK ==
  /\ layers \in [Ids -> LayerType]
  /\ first_free \in Ids /\ node_alive \in BOOLEAN /\ locked \in BOOLEAN
  /\ node_subs \in SUBSET Clients /\ streams \in SUBSET Clients
  /\ net \in [Clients -> SUBSET Cmds] /\ acks \in [Clients -> SUBSET FakeCmds]
  /\ out_queue \in [Clients -> Seq(Cmds)] /\ wire \in [Clients -> Seq(Cmds)]
  /\ view \in [Clients -> ViewType]
  /\ online \in SUBSET Clients /\ ops \in 0 .. MaxOps

(* Followers and subscribers of layers hold a pointer to the subscriber of *)
(* the node, which vs_node_unsubscribe and vs_free_avatar_reference free:  *)
(* no such pointer is left over.  And the parent of a layer exists:        *)
(* vs_layer_destroy leaves no pointer to the layer it frees.               *)
NodeSubAlive ==
  \A l \in Ids :
    /\ layers[l].subs \union Followers(layers[l]) \subseteq node_subs
    /\ layers[l].parent # RESERVED_LAYER_ID => Exists(layers[l].parent)

(* The state of the data thread is sound: types, and no pointer of layers  *)
(* leads to a subscriber of the node or to a layer that was freed.         *)
PointersAlive == TypeOK /\ NodeSubAlive

(* Whatever order datagrams arrive in, a client that stays is sent the     *)
(* destroy command of a layer only when it has received the create command *)
(* (vs_layer_send_destroy looks at the state of the follower).             *)
DestroyAfterCreate ==
  \A c \in Stayers : \A m \in net[c] : m.op = "LAYER_DESTROY" => m.layer \in view[c].known

Quiet(c) == net[c] = {} /\ acks[c] = {} /\ out_queue[c] = <<>> /\ wire[c] = <<>>

(* When nothing is on its way to or from a client that stays, it knows the *)
(* layers the server takes for known, and over a stream it has the items   *)
(* of every layer without parent that it subscribed to.  (Over datagrams   *)
(* an old value may arrive after a new one, because cmd_struct does not    *)
(* mark values of layers as REM_DUP; and nobody tells a client about items *)
(* of child layers that go with those of a parent it did not subscribe to.)*)
AgreeWhenQuiet ==
  \A c \in Stayers, l \in Ids : Quiet(c) =>
    /\ l \in view[c].known <=> layers[l].folls[c] = CREATED
    /\ (/\ c \in streams \intersect layers[l].subs
        /\ l \in view[c].known
        /\ view[c].parent[l] = RESERVED_LAYER_ID) =>
         view[c].values[l] = layers[l].values

(* Clients and server agree: commands come in an order that the client     *)
(* understands, and lead to the same layers on both sides.                 *)
ClientsAgree == DestroyAfterCreate /\ AgreeWhenQuiet

(* A client that stays and was sent the destroy command of a layer         *)
(* eventually no longer follows it, unless the data thread is stuck.       *)
DestroyConfirmed ==
  \A c \in Stayers, l \in Ids :
    (layers[l].folls[c] = DELETING) ~> (layers[l].folls[c] = NONE \/ locked)

(* The server implements the promise of module Replication for the clients *)
(* that use datagrams and stay: a layer is freed, and its id used again,   *)
(* only when no such client knows it.                                      *)
R == INSTANCE Replication WITH
       Entities <- Ids,
       Viewers <- Stayers,
       exists <- {l \in Ids : Exists(l)},
       known <- [c \in Stayers |-> IF c \in streams THEN {} ELSE view[c].known]

ImplementsReplication == R!Spec
=============================================================================
