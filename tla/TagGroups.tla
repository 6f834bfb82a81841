----------------------------- MODULE TagGroups -----------------------------
(***************************************************************************)
(* Tag groups and tags of one node of the Verse server (vs_taggroup.c,     *)
(* vs_tag.c, and what vs_node.c and vs_sys_nodes.c do to them when a       *)
(* client subscribes, unsubscribes or disconnects).                        *)
(*                                                                         *)
(* The server keeps, for every entity, the clients it has told of it (the  *)
(* followers) and whether they have acknowledged.  A client that has been  *)
(* told is sent the destroy command only after its acknowledgement, and    *)
(* the entity is freed when no follower is left.                           *)
(*                                                                         *)
(* The commands of clients are handled here as they arrive, with any       *)
(* argument.  The commands of the server travel over what module Resend    *)
(* promises: a datagram session delivers them in any order, the latest     *)
(* value of a tag replaces an older one, and a command is acknowledged     *)
(* after it was delivered; a stream (TCP, WebSocket) delivers in order, and *)
(* the server makes up the acknowledgement when it sends (v_stream.c).     *)
(* The node is created and its permissions do not change.                  *)
(***************************************************************************)
EXTENDS Integers, FiniteSets, Sequences, SequencesExt

CONSTANTS
  Clients,     \* sessions
  Leavers,     \* those that may unsubscribe and disconnect
  MayStream,   \* those that may use TCP or WebSocket instead of UDP
  Readers,     \* the clients that may read the node
  Writers,     \* the clients that may write it
  LastTgId,    \* ids of tag groups are 0 .. LastTgId
  LastTagId,   \* ids of tags are 0 .. LastTagId
  Types,       \* custom types of tag groups and tags
  Values,      \* values of tags
  MaxOps       \* bound: commands of clients

NONE     == "NONE"        \* no such entity, or not a follower
CREATING == "CREATING"
CREATED  == "CREATED"
DELETING == "DELETING"

UNSET    == "UNSET"       \* TAG_UNINITIALIZED
UNKNOWN  == "UNKNOWN"     \* the client does not know the tag

ASSUME TagGroupsAssumption ==
  /\ Leavers \subseteq Clients /\ MayStream \subseteq Clients
  /\ Readers \subseteq Clients /\ Writers \subseteq Clients
  /\ LastTgId \in Nat /\ LastTagId \in Nat /\ MaxOps \in Nat
  /\ UNSET \notin Values /\ UNKNOWN \notin Values   \* no value of a tag

TgIds  == 0 .. LastTgId
TagIds == 0 .. LastTagId
NoTag  == -1

VARIABLES
  tgs,        \* the tag groups of the node, by id
  last_tg_id, \* where the search for a free id starts
  node_subs,  \* subscribers of the node
  streams,    \* the clients that use a stream
  net,        \* commands on their way to clients over datagrams
  out_queue,  \* commands for clients over streams, not sent yet
  wire,       \* commands for clients over streams, sent
  acks,       \* acknowledged commands: fake commands not handled yet
  view,       \* what a client knows: tag groups and values of tags
  online,     \* connected clients
  uses,       \* history variable: tag groups that had the id, counted up to 2
  ops         \* commands handled, up to MaxOps

vars == <<tgs, last_tg_id, node_subs, streams, net, out_queue, wire, acks,
          view, online, uses, ops>>

NoFolls    == [c \in Clients |-> NONE]
FreeTag    == [state |-> NONE, type |-> NONE, folls |-> NoFolls, value |-> UNSET]
FreeTg     == [state |-> NONE, type |-> NONE, folls |-> NoFolls, subs |-> {},
               last_tag_id |-> 0, tags |-> [t \in TagIds |-> FreeTag]]
EmptyView  == [tgs |-> {}, tags |-> [i \in TgIds |-> [t \in TagIds |-> UNKNOWN]]]

Init ==
  /\ tgs = [i \in TgIds |-> FreeTg] /\ last_tg_id = 0
  /\ node_subs = {}
  /\ streams \in SUBSET MayStream
  /\ net = [c \in Clients |-> {}]
  /\ out_queue = [c \in Clients |-> <<>>] /\ wire = [c \in Clients |-> <<>>]
  /\ acks = [c \in Clients |-> {}]
  /\ view = [c \in Clients |-> EmptyView]
  /\ online = Clients /\ uses = [i \in TgIds |-> 0]
  /\ ops = 0

-----------------------------------------------------------------------------
(* Commands of the server, and how they are queued for the clients.        *)

Cmd(op, i, t, v) == [op |-> op, tg |-> i, tag |-> t, value |-> v]

TgCreate(i)       == Cmd("TAGGROUP_CREATE", i, NoTag, UNSET)
TgDestroy(i)      == Cmd("TAGGROUP_DESTROY", i, NoTag, UNSET)
TagCreate(i, t)   == Cmd("TAG_CREATE", i, t, UNSET)
TagDestroy(i, t)  == Cmd("TAG_DESTROY", i, t, UNSET)
TagSet(i, t, v)   == Cmd("TAG_SET", i, t, v)

SameTag(m, n) == m.op = "TAG_SET" /\ n.op = "TAG_SET" /\ m.tg = n.tg /\ m.tag = n.tag

(* v_out_queue_push_tail of the sequence out[c] for every client c.        *)
Push(out) ==
  /\ net' = [c \in Clients |->
       IF c \in streams THEN net[c]
       ELSE {m \in net[c] : \A k \in DOMAIN out[c] : ~SameTag(m, out[c][k])}
              \union ToSet(out[c])]
  /\ out_queue' = [c \in Clients |->
       IF c \in streams THEN out_queue[c] \o out[c] ELSE out_queue[c]]

PushTo(C, m) == Push([c \in Clients |-> IF c \in C THEN <<m>> ELSE <<>>])
PushNothing  == UNCHANGED <<net, out_queue>>

(* A command of client c arrives; rest is what handling it leaves alone.   *)
Command(c) ==
  /\ c \in online
  /\ ops < MaxOps /\ ops' = ops + 1
  /\ UNCHANGED <<streams, wire, acks, online>>

Followers(e) == {c \in Clients : e.folls[c] # NONE}

-----------------------------------------------------------------------------
(* What tag groups and tags share: being told of an entity, of its end,    *)
(* and the acknowledgements.                                               *)

(* Those of the clients C that are to be told of entity e now.             *)
Untold(e, C) == {c \in C : e.state \in {CREATING, CREATED} /\ e.folls[c] = NONE}

(* vs_taggroup_send_create, for the subscribers C of the node.             *)
vs_taggroup_send_create(tg, C) ==
  [tg EXCEPT !.folls = [c \in Clients |-> IF c \in Untold(tg, C) THEN CREATING ELSE @[c]]]

(* vs_tag_send_create, for the subscribers C of the tag group.             *)
vs_tag_send_create(tag, C) ==
  [tag EXCEPT !.folls = [c \in Clients |-> IF c \in Untold(tag, C) THEN CREATING ELSE @[c]]]

(* Mutant: followers that have not acknowledged are sent destroy as well.  *)
Destroyable_Hasty(e) == {c \in Clients : e.folls[c] \in {CREATING, CREATED}}

(* Followers that have acknowledged: they are sent the destroy command.    *)
Destroyable(e) == {c \in Clients : e.folls[c] = CREATED}

(* vs_taggroup_send_destroy.                                               *)
vs_taggroup_send_destroy(tg) ==
  [tg EXCEPT !.folls = [c \in Clients |-> IF c \in Destroyable(tg) THEN DELETING ELSE @[c]],
             !.state = DELETING]

(* vs_tag_send_destroy.                                                    *)
vs_tag_send_destroy(tag) ==
  [tag EXCEPT !.folls = [c \in Clients |-> IF c \in Destroyable(tag) THEN DELETING ELSE @[c]],
              !.state = DELETING]

(* Mutant: nothing is sent with the acknowledgement.                       *)
DestroyNow_Never(e, c) == FALSE

(* e was destroyed before its follower c has acknowledged the create       *)
(* command: c is sent the destroy command when it does.                    *)
DestroyNow(e, c) == e.state = DELETING /\ e.folls[c] # NONE

(* The create command of e was acknowledged by c: the follower, and the    *)
(* state of the entity when all other followers have acknowledged too.     *)
(* own is the state of a follower that acknowledges (the handlers differ). *)
Acknowledged(e, c, own) ==
  [e EXCEPT
     !.folls[c] = IF @ = NONE THEN NONE ELSE IF DestroyNow(e, c) THEN DELETING ELSE own,
     !.state = IF \A d \in Followers(e) \ {c} : e.folls[d] = CREATED THEN CREATED ELSE @]

-----------------------------------------------------------------------------
(* Subscribing to the node, unsubscribing from it, disconnecting.          *)

(* vs_handle_node_subscribe, vs_node_subscribe and vs_node_send_data.      *)
NodeSubscribe(c) ==
  /\ Command(c)
  /\ c \notin node_subs
  /\ node_subs' = node_subs \union {c}
  /\ LET C == {c} \intersect Readers
         told == {i \in TgIds : Untold(tgs[i], C) # {}}
     IN /\ tgs' = [i \in TgIds |-> vs_taggroup_send_create(tgs[i], C)]
        /\ Push([d \in Clients |->
             IF d = c THEN SetToSeq({TgCreate(i) : i \in told}) ELSE <<>>])
  /\ UNCHANGED <<last_tg_id, uses, view>>

(* vs_taggroup_unsubscribe: a subscriber no longer follows the tags.       *)
vs_taggroup_unsubscribe(tg, c) ==
  IF c \in tg.subs
    THEN [tg EXCEPT !.subs = @ \ {c},
                    !.tags = [t \in TagIds |-> [@[t] EXCEPT !.folls[c] = NONE]]]
    ELSE tg

(* Mutant: the followers of tag groups are not removed.                    *)
Unsubscribed_Keep(tg, c) == vs_taggroup_unsubscribe(tg, c)

(* The part of vs_node_unsubscribe that is about one tag group.            *)
Unsubscribed(tg, c) == [vs_taggroup_unsubscribe(tg, c) EXCEPT !.folls[c] = NONE]

(* vs_handle_node_unsubscribe.  The client forgets the content of the node *)
(* when it unsubscribes.                                                   *)
NodeUnsubscribe(c) ==
  /\ Command(c)
  /\ c \in Leavers \intersect node_subs
  /\ node_subs' = node_subs \ {c}
  /\ tgs' = [i \in TgIds |-> Unsubscribed(tgs[i], c)]
  /\ view' = [view EXCEPT ![c] = EmptyView]
  /\ UNCHANGED <<last_tg_id, uses, net, out_queue>>

(* vs_tg_free_avatar_reference and vs_tag_free_avatar_reference.           *)
vs_tg_free_avatar_reference(tg, c) ==
  [tg EXCEPT
     !.folls[c] = NONE,
     !.subs = @ \ {c},
     !.tags = IF c \in tg.subs THEN [t \in TagIds |-> [@[t] EXCEPT !.folls[c] = NONE]]
                               ELSE @]

(* The session of client c ends (vs_node_free_avatar_reference).           *)
Disconnect(c) ==
  /\ c \in Leavers \intersect online
  /\ online' = online \ {c}
  /\ node_subs' = node_subs \ {c}
  /\ tgs' = [i \in TgIds |-> vs_tg_free_avatar_reference(tgs[i], c)]
  /\ net' = [net EXCEPT ![c] = {}]
  /\ out_queue' = [out_queue EXCEPT ![c] = <<>>]
  /\ wire' = [wire EXCEPT ![c] = <<>>]
  /\ acks' = [acks EXCEPT ![c] = {}]
  /\ view' = [view EXCEPT ![c] = EmptyView]
  /\ UNCHANGED <<last_tg_id, uses, streams, ops>>

-----------------------------------------------------------------------------
(* Commands about tag groups.                                              *)

(* The first free id from last on, in the circle 0 .. max.                 *)
FirstFree(last, used, max) ==
  LET Distance(i) == (i - last) % (max + 1)
  IN CHOOSE i \in (0 .. max) \ used :
       \A j \in (0 .. max) \ used : Distance(i) <= Distance(j)

(* vs_taggroup_create: a new tag group of a type in the slot of its id.    *)
vs_taggroup_create(type) == [FreeTg EXCEPT !.state = CREATING, !.type = type]

(* vs_handle_taggroup_create: the type is unused in the node, even by tag  *)
(* groups that are being destroyed.                                        *)
HandleTaggroupCreate(c, type) ==
  LET used == {i \in TgIds : tgs[i].state # NONE}
      id   == FirstFree(last_tg_id, used, LastTgId)
      C    == node_subs \intersect Readers
  IN /\ Command(c)
     /\ \A i \in used : tgs[i].type # type
     /\ c \in Writers
     /\ used # TgIds                        \* MAX_TAGGROUPS_COUNT
     /\ tgs' = [tgs EXCEPT ![id] = vs_taggroup_send_create(vs_taggroup_create(type), C)]
     /\ last_tg_id' = id
     /\ uses' = [uses EXCEPT ![id] = IF @ < 2 THEN @ + 1 ELSE @]
     /\ PushTo(C, TgCreate(id))
     /\ UNCHANGED <<node_subs, view>>

(* vs_handle_taggroup_destroy.                                             *)
HandleTaggroupDestroy(c, i) ==
  /\ Command(c)
  /\ c \in Writers
  /\ tgs[i].state # NONE
  /\ tgs' = [tgs EXCEPT ![i] = vs_taggroup_send_destroy(@)]
  /\ PushTo(Destroyable(tgs[i]), TgDestroy(i))
  /\ UNCHANGED <<last_tg_id, uses, node_subs, view>>

(* vs_handle_taggroup_subscribe: the tags are sent, and over a stream      *)
(* their values as well.  A client asks for tag groups it knows.           *)
HandleTaggroupSubscribe(c, i) ==
  LET tg   == tgs[i]
      new  == {t \in TagIds : Untold(tg.tags[t], {c}) # {}}
      set  == {t \in TagIds : tg.tags[t].value # UNSET}
      Sent(t) == (IF t \in new THEN <<TagCreate(i, t)>> ELSE <<>>) \o
                 (IF t \in set /\ c \in streams THEN <<TagSet(i, t, tg.tags[t].value)>>
                                                ELSE <<>>)
  IN /\ Command(c)
     /\ i \in view[c].tgs
     /\ c \in Readers \intersect node_subs
     /\ tg.state # NONE
     /\ c \notin tg.subs
     /\ tgs' = [tgs EXCEPT ![i].subs = @ \union {c},
                           ![i].tags = [t \in TagIds |-> vs_tag_send_create(@[t], {c})]]
     /\ Push([d \in Clients |->
          IF d = c THEN FlattenSeq([k \in 1 .. LastTagId + 1 |-> Sent(k - 1)]) ELSE <<>>])
     /\ UNCHANGED <<last_tg_id, uses, node_subs, view>>

(* vs_handle_taggroup_unsubscribe; the client forgets the tags.            *)
HandleTaggroupUnsubscribe(c, i) ==
  /\ Command(c)
  /\ c \in Leavers \intersect tgs[i].subs
  /\ tgs' = [tgs EXCEPT ![i] = vs_taggroup_unsubscribe(@, c)]
  /\ view' = [view EXCEPT ![c].tags[i] = [t \in TagIds |-> UNKNOWN]]
  /\ UNCHANGED <<last_tg_id, uses, node_subs, net, out_queue>>

-----------------------------------------------------------------------------
(* Commands about tags.                                                    *)

(* vs_tag_create.                                                          *)
vs_tag_create(type) == [FreeTag EXCEPT !.state = CREATING, !.type = type]

(* vs_handle_tag_create.                                                   *)
HandleTagCreate(c, i, type) ==
  LET tg   == tgs[i]
      used == {t \in TagIds : tg.tags[t].state # NONE}
      id   == FirstFree(tg.last_tag_id, used, LastTagId)
  IN /\ Command(c)
     /\ c \in Writers
     /\ tg.state \in {CREATING, CREATED}
     /\ \A t \in used : tg.tags[t].type # type
     /\ used # TagIds                       \* bound: MAX_TAGS_COUNT is larger
     /\ tgs' = [tgs EXCEPT
          ![i].tags[id] = vs_tag_send_create(vs_tag_create(type), tg.subs),
          ![i].last_tag_id = id]
     /\ PushTo(tg.subs, TagCreate(i, id))
     /\ UNCHANGED <<last_tg_id, uses, node_subs, view>>

(* vs_handle_tag_destroy.                                                  *)
HandleTagDestroy(c, i, t) ==
  /\ Command(c)
  /\ c \in Writers
  /\ tgs[i].tags[t].state # NONE
  /\ tgs' = [tgs EXCEPT ![i].tags[t] = vs_tag_send_destroy(@)]
  /\ PushTo(Destroyable(tgs[i].tags[t]), TagDestroy(i, t))
  /\ UNCHANGED <<last_tg_id, uses, node_subs, view>>

(* vs_handle_tag_set: all subscribers of the tag group get the value.      *)
HandleTagSet(c, i, t, v) ==
  /\ Command(c)
  /\ c \in Writers
  /\ tgs[i].tags[t].state # NONE
  /\ tgs' = [tgs EXCEPT ![i].tags[t].value = v]
  /\ PushTo(tgs[i].subs, TagSet(i, t, v))
  /\ UNCHANGED <<last_tg_id, uses, node_subs, view>>

-----------------------------------------------------------------------------
(* Fake commands: acknowledgements of create and destroy commands.         *)

Acked(c, m) ==
  /\ m \in acks[c]
  /\ acks' = [acks EXCEPT ![c] = @ \ {m}]
  /\ UNCHANGED <<last_tg_id, uses, node_subs, streams, wire, view, online, ops>>

(* vs_handle_taggroup_create_ack.                                          *)
HandleTaggroupCreateAck(c, m) ==
  LET tg == tgs[m.tg]
      own == IF tg.folls[c] = CREATING THEN CREATED ELSE tg.folls[c]
  IN /\ m.op = "TAGGROUP_CREATE_ACK"
     /\ Acked(c, m)
     /\ \/ /\ tg.state # NONE
           /\ tgs' = [tgs EXCEPT ![m.tg] = Acknowledged(tg, c, own)]
           /\ PushTo(IF DestroyNow(tg, c) THEN {c} ELSE {}, TgDestroy(m.tg))
        \/ tg.state = NONE /\ UNCHANGED tgs /\ PushNothing

(* Mutant: the first acknowledgement frees the tag group.                  *)
vs_taggroup_destroyed_Early(tg, c) == FreeTg

(* A follower has confirmed the end of the tag group; the last one frees   *)
(* it with its tags (vs_taggroup_destroy).                                 *)
vs_taggroup_destroyed(tg, c) ==
  IF Followers(tg) \subseteq {c} THEN FreeTg ELSE [tg EXCEPT !.folls[c] = NONE]

(* vs_handle_taggroup_destroy_ack.                                         *)
HandleTaggroupDestroyAck(c, m) ==
  /\ m.op = "TAGGROUP_DESTROY_ACK"
  /\ Acked(c, m)
  /\ tgs' = [tgs EXCEPT ![m.tg] =
       IF @.state = NONE THEN @ ELSE vs_taggroup_destroyed(@, c)]
  /\ PushNothing

(* Has client c to be sent the value of a tag, now that it knows the tag?  *)
ValueFor(tag, c) == tag.value # UNSET /\ tag.folls[c] \notin {NONE, CREATED}

(* vs_handle_tag_create_ack.                                               *)
HandleTagCreateAck(c, m) ==
  LET tag == tgs[m.tg].tags[m.tag]
      value == IF ValueFor(tag, c) THEN <<TagSet(m.tg, m.tag, tag.value)>> ELSE <<>>
      end   == IF DestroyNow(tag, c) THEN <<TagDestroy(m.tg, m.tag)>> ELSE <<>>
  IN /\ m.op = "TAG_CREATE_ACK"
     /\ Acked(c, m)
     /\ \/ /\ tag.state # NONE
           /\ tgs' = [tgs EXCEPT ![m.tg].tags[m.tag] = Acknowledged(tag, c, CREATED)]
           /\ Push([d \in Clients |-> IF d = c THEN value \o end ELSE <<>>])
        \/ tag.state = NONE /\ UNCHANGED tgs /\ PushNothing

(* vs_handle_tag_destroy_ack and vs_tag_destroy.                           *)
HandleTagDestroyAck(c, m) ==
  /\ m.op = "TAG_DESTROY_ACK"
  /\ Acked(c, m)
  /\ tgs' = [tgs EXCEPT ![m.tg].tags[m.tag] =
       IF @.state = NONE \/ Followers(@) \subseteq {c} THEN FreeTag
       ELSE [@ EXCEPT !.folls[c] = NONE]]
  /\ PushNothing

-----------------------------------------------------------------------------
(* The network and the clients.                                            *)

(* Fake commands (fake_cmds), and v_cmd_fake_ack: the fake commands, none  *)
(* or one, that the acknowledgement of a command makes up.                 *)
TgCreateAck(i)      == Cmd("TAGGROUP_CREATE_ACK", i, NoTag, UNSET)
TgDestroyAck(i)     == Cmd("TAGGROUP_DESTROY_ACK", i, NoTag, UNSET)
TagCreateAck(i, t)  == Cmd("TAG_CREATE_ACK", i, t, UNSET)
TagDestroyAck(i, t) == Cmd("TAG_DESTROY_ACK", i, t, UNSET)

v_cmd_fake_ack(m) ==
  CASE m.op = "TAGGROUP_CREATE"  -> {TgCreateAck(m.tg)}
    [] m.op = "TAGGROUP_DESTROY" -> {TgDestroyAck(m.tg)}
    [] m.op = "TAG_CREATE"       -> {TagCreateAck(m.tg, m.tag)}
    [] m.op = "TAG_DESTROY"      -> {TagDestroyAck(m.tg, m.tag)}
    [] m.op = "TAG_SET"          -> {}

(* What a client makes of a command it receives.                           *)
Learned(w, m) ==
  LET i == m.tg t == m.tag IN
  CASE m.op = "TAGGROUP_CREATE"  -> [w EXCEPT !.tgs = @ \union {i}]
    [] m.op = "TAGGROUP_DESTROY" -> [w EXCEPT !.tgs = @ \ {i}, !.tags[i] = EmptyView.tags[i]]
    [] m.op = "TAG_CREATE" -> IF i \in w.tgs /\ w.tags[i][t] = UNKNOWN
                                THEN [w EXCEPT !.tags[i][t] = UNSET] ELSE w
    [] m.op = "TAG_DESTROY" -> [w EXCEPT !.tags[i][t] = UNKNOWN]
    [] m.op = "TAG_SET" -> IF w.tags[i][t] # UNKNOWN
                             THEN [w EXCEPT !.tags[i][t] = m.value] ELSE w

(* A datagram with command m arrives, and its acknowledgement later.       *)
DeliverDatagram(c, m) ==
  /\ m \in net[c]
  /\ net' = [net EXCEPT ![c] = @ \ {m}]
  /\ acks' = [acks EXCEPT ![c] = @ \union v_cmd_fake_ack(m)]
  /\ view' = [view EXCEPT ![c] = Learned(@, m)]
  /\ UNCHANGED <<tgs, last_tg_id, uses, node_subs, streams, out_queue, wire, online, ops>>

(* v_STREAM_pack_message: a command is sent and acknowledged at once.      *)
SendStream(c) ==
  /\ out_queue[c] # <<>>
  /\ LET m == Head(out_queue[c])
     IN /\ wire' = [wire EXCEPT ![c] = Append(@, m)]
        /\ acks' = [acks EXCEPT ![c] = @ \union v_cmd_fake_ack(m)]
  /\ out_queue' = [out_queue EXCEPT ![c] = Tail(@)]
  /\ UNCHANGED <<tgs, last_tg_id, uses, node_subs, streams, net, view, online, ops>>

(* The next command of a stream arrives.                                   *)
DeliverStream(c) ==
  /\ wire[c] # <<>>
  /\ wire' = [wire EXCEPT ![c] = Tail(@)]
  /\ view' = [view EXCEPT ![c] = Learned(@, Head(wire[c]))]
  /\ UNCHANGED <<tgs, last_tg_id, uses, node_subs, streams, net, out_queue, acks, online, ops>>

-----------------------------------------------------------------------------
ClientCommand(c) ==
  \/ NodeSubscribe(c)
  \/ NodeUnsubscribe(c)
  \/ \E type \in Types : HandleTaggroupCreate(c, type)
  \/ \E i \in TgIds :
       \/ HandleTaggroupDestroy(c, i)
       \/ HandleTaggroupSubscribe(c, i)
       \/ HandleTaggroupUnsubscribe(c, i)
       \/ \E type \in Types : HandleTagCreate(c, i, type)
       \/ \E t \in TagIds :
            \/ HandleTagDestroy(c, i, t)
            \/ \E v \in Values : HandleTagSet(c, i, t, v)

FakeCommand(c) ==
  \E m \in acks[c] :
    \/ HandleTaggroupCreateAck(c, m)
    \/ HandleTaggroupDestroyAck(c, m)
    \/ HandleTagCreateAck(c, m)
    \/ HandleTagDestroyAck(c, m)

Deliver(c) ==
  \/ \E m \in net[c] : DeliverDatagram(c, m)
  \/ SendStream(c)
  \/ DeliverStream(c)

Next == \E c \in Clients : ClientCommand(c) \/ Disconnect(c) \/ FakeCommand(c) \/ Deliver(c)

(* The data thread handles every command it receives, and the connection   *)
(* of a client that stays delivers.                                        *)
Fairness == \A c \in Clients : WF_vars(FakeCommand(c)) /\ WF_vars(Deliver(c))

Spec == Init /\ [][Next]_vars /\ Fairness

-----------------------------------------------------------------------------
(* Properties.                                                             *)

Stayers == Clients \ Leavers

States  == {NONE, CREATING, CREATED, DELETING}
TagType == [state : States, type : Types \union {NONE},
            folls : [Clients -> States], value : Values \union {UNSET}]
TgType  == [state : States, type : Types \union {NONE}, folls : [Clients -> States],
            subs : SUBSET Clients, last_tag_id : TagIds, tags : [TagIds -> TagType]]

(* The commands of the server, and the fake commands.                      *)
Cmds == {TgCreate(i) : i \in TgIds} \union {TgDestroy(i) : i \in TgIds}
          \union {TagCreate(i, t) : i \in TgIds, t \in TagIds}
          \union {TagDestroy(i, t) : i \in TgIds, t \in TagIds}
          \union {TagSet(i, t, v) : i \in TgIds, t \in TagIds, v \in Values}
FakeCmds == {TgCreateAck(i) : i \in TgIds} \union {TgDestroyAck(i) : i \in TgIds}
              \union {TagCreateAck(i, t) : i \in TgIds, t \in TagIds}
              \union {TagDestroyAck(i, t) : i \in TgIds, t \in TagIds}

(* Types of the variables.                                                 *)
TypeOK ==
  /\ tgs \in [TgIds -> TgType] /\ last_tg_id \in TgIds
  /\ node_subs \in SUBSET Clients /\ streams \in SUBSET Clients
  /\ net \in [Clients -> SUBSET Cmds] /\ acks \in [Clients -> SUBSET FakeCmds]
  /\ out_queue \in [Clients -> Seq(Cmds)] /\ wire \in [Clients -> Seq(Cmds)]
  /\ view \in [Clients -> [tgs : SUBSET TgIds,
                            tags : [TgIds -> [TagIds -> Values \union {UNSET, UNKNOWN}]]]]
  /\ online \in SUBSET Clients /\ uses \in [TgIds -> 0 .. 2] /\ ops \in 0 .. MaxOps

(* Followers and subscribers of tag groups and tags hold a pointer to the  *)
(* subscriber of the node (node_sub), which vs_node_unsubscribe and        *)
(* vs_free_avatar_reference free: after any sequence of subscribing,       *)
(* unsubscribing and disconnecting, no such pointer is left over, and only *)
(* subscribers of a tag group follow its tags.                             *)
NodeSubAlive ==
  \A i \in TgIds :
    /\ tgs[i].subs \subseteq node_subs
    /\ Followers(tgs[i]) \subseteq node_subs
    /\ \A t \in TagIds : Followers(tgs[i].tags[t]) \subseteq tgs[i].subs

(* The state of the data thread is sound: types, and no pointer of tag     *)
(* groups and tags leads to a subscriber of the node that was freed.       *)
PointersAlive == TypeOK /\ NodeSubAlive

(* Does client c know what command m is about?  A tag counts only while    *)
(* its tag group is known, and is the first one with the id.               *)
Knows(c, m) ==
  IF m.tag = NoTag THEN m.tg \in view[c].tgs
  ELSE \/ view[c].tags[m.tg][m.tag] # UNKNOWN
       \/ m.tg \notin view[c].tgs
       \/ uses[m.tg] > 1

(* "Client can receive tag_destroy command only in situation, when this    *)
(* client already received tag_create command" (vs_tag.c): whatever order  *)
(* datagrams arrive in, a client that stays is sent the destroy command of *)
(* a tag group or a tag only when it has received the create command.      *)
DestroyAfterCreate ==
  \A c \in Stayers : \A m \in net[c] :
    m.op \in {"TAGGROUP_DESTROY", "TAG_DESTROY"} => Knows(c, m)

Quiet(c) == net[c] = {} /\ acks[c] = {} /\ out_queue[c] = <<>> /\ wire[c] = <<>>

(* When nothing is on its way to or from a client that stays, the server   *)
(* and the client agree: the client knows the tag groups and tags the      *)
(* server takes for known, and the value the server has of every tag of a  *)
(* tag group it subscribed to.  Tags are left out when the id of their     *)
(* tag group was used before: vs_taggroup_destroy frees tags without       *)
(* waiting for their followers, so commands about the old tags may still   *)
(* be on their way.  So may the value of an older tag with the same id,    *)
(* which a client keeps until the new tag is set.                          *)
AgreeWhenQuiet ==
  \A c \in Stayers : Quiet(c) =>
    \A i \in TgIds :
      /\ i \in view[c].tgs <=> tgs[i].folls[c] = CREATED
      /\ i \in view[c].tgs /\ uses[i] = 1 =>
           \A t \in TagIds :
             /\ view[c].tags[i][t] # UNKNOWN <=> tgs[i].tags[t].folls[c] = CREATED
             /\ view[c].tags[i][t] # UNKNOWN /\ tgs[i].tags[t].value # UNSET =>
                  view[c].tags[i][t] = tgs[i].tags[t].value

(* Clients and server agree: commands come in an order that the client     *)
(* understands, and lead to the same tag groups and tags on both sides.    *)
ClientsAgree == DestroyAfterCreate /\ AgreeWhenQuiet

(* A client that stays and has been told of an entity that is destroyed is *)
(* eventually told of its end and confirms it (vs_taggroup_send_destroy or *)
(* the handler of the acknowledgement it waits for).                       *)
DestroyReaches ==
  \A c \in Stayers, i \in TgIds :
    (tgs[i].state = DELETING /\ tgs[i].folls[c] # NONE) ~> (tgs[i].folls[c] = NONE)

(* The server implements the promise of module Replication for the clients *)
(* that use datagrams and stay: a tag group is freed, and its id used      *)
(* again, only when no such client knows it.                               *)
R == INSTANCE Replication WITH
       Entities <- TgIds,
       Viewers <- Stayers,
       exists <- {i \in TgIds : tgs[i].state # NONE},
       known <- [c \in Stayers |-> IF c \in streams THEN {} ELSE view[c].tgs]

ImplementsReplication == R!Spec
=============================================================================
