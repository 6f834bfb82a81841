---------------------------- MODULE Layers_proofs ----------------------------
(***************************************************************************)
(* Proofs about module Layers: layers hold no pointer to a subscriber of   *)
(* the node that was freed, and none to a parent layer that was freed;     *)
(* clients that stay agree with the server on the layers there are; and    *)
(* the server implements module Replication.                               *)
(***************************************************************************)
EXTENDS Layers, SequenceLemmas

-----------------------------------------------------------------------------
(* The state of the data thread, with the subscribers N of the node.       *)

LayerSound(e, N) ==
  /\ e \in LayerType
  /\ e.subs \subseteq N
  /\ \A c \in Clients : e.folls[c] # NONE => c \in N /\ e.state # NONE

Sound(L, N) ==
  /\ L \in [Ids -> LayerType]
  /\ \A l \in Ids : /\ LayerSound(L[l], N)
                    /\ L[l].parent # RESERVED_LAYER_ID => L[L[l].parent].state # NONE

DataInv ==
  /\ Sound(layers, node_subs) /\ node_subs \in SUBSET Clients
  /\ first_free \in Ids /\ node_alive \in BOOLEAN /\ locked \in BOOLEAN

(* What is on its way between the server and the clients.                  *)
NetInv ==
  /\ streams \in SUBSET Clients
  /\ net \in [Clients -> SUBSET Cmds] /\ acks \in [Clients -> SUBSET FakeCmds]
  /\ out_queue \in [Clients -> Seq(Cmds)] /\ wire \in [Clients -> Seq(Cmds)]
  /\ view \in [Clients -> ViewType]
  /\ online \in SUBSET Clients /\ ops \in 0 .. MaxOps

LEMMA InvPointers == DataInv /\ NetInv => PointersAlive
BY DEF DataInv, NetInv, Sound, LayerSound, PointersAlive, TypeOK, NodeSubAlive, Followers, Exists

-----------------------------------------------------------------------------
(* What the handlers tell a client about a layer.  The create command of a *)
(* layer also names its parent, which does not matter for what is known,   *)
(* so that commands are told apart by kind and layer.                      *)

Key(m)        == <<m.op, m.layer>>
CreateKey(l)  == <<"LAYER_CREATE", l>>
DestroyKey(l) == <<"LAYER_DESTROY", l>>
KeysOf(S)     == {Key(m) : m \in S}

(* The set S has one create and one destroy command of a layer at most.    *)
Distinct(S) ==
  \A m, n \in S : Key(m) = Key(n) /\ m.op \in {"LAYER_CREATE", "LAYER_DESTROY"} => m = n

(* Commands with the keys K[d] are queued for every client d.              *)
Sent(K) ==
  \E out \in [Clients -> Seq(Cmds)] :
    /\ Push(out)
    /\ \A d \in Clients : /\ KeysOf(ToSet(out[d])) = K[d] /\ Distinct(ToSet(out[d]))
                          /\ \A m : Once(out[d], m)

(* A handler may note in a follower what it tells the client.              *)
LayerStep(d, l, o) ==
  Transition(layers[l].folls[d], layers'[l].folls[d], o, acks[d], acks'[d],
             CreateKey(l), DestroyKey(l), LayerCreateAck(l), LayerDestroyAck(l))

Told ==
  \E K : /\ Sent(K) /\ UNCHANGED <<streams, wire>>
         /\ \A d \in Stayers : /\ view'[d] = view[d]
                               /\ \A l \in Ids : LayerStep(d, l, K[d])

(* A step that concerns no client that stays.                              *)
Unaffected ==
  /\ streams' = streams
  /\ \A d \in Stayers :
       /\ net'[d] = net[d] /\ out_queue'[d] = out_queue[d] /\ wire'[d] = wire[d]
       /\ acks'[d] = acks[d] /\ view'[d] = view[d]
       /\ \A l \in Ids : layers'[l].folls[d] = layers[l].folls[d]

(* No layer is created or freed.                                           *)
SameLayers == \A l \in Ids : layers'[l].state = NONE <=> layers[l].state = NONE

(* One layer is created, or freed.                                         *)
Born(l) ==
  /\ layers[l].state = NONE /\ layers'[l].state # NONE
  /\ \A k \in Ids \ {l} : layers'[k].state = NONE <=> layers[k].state = NONE

Freed(l) ==
  /\ layers[l].state # NONE /\ layers'[l].state = NONE
  /\ \A k \in Ids \ {l} : layers'[k].state = NONE <=> layers[k].state = NONE

LEMMA StayersAre == \A d \in Stayers : d \in Clients /\ d \notin Leavers
BY DEF Stayers

(* A handler that does not concern client d and layer l.                   *)
LEMMA FrameStep ==
  ASSUME NEW d, NEW l, NEW o, layers'[l].folls[d] = layers[l].folls[d],
         CreateKey(l) \notin o, DestroyKey(l) \notin o,
         LayerCreateAck(l) \in acks'[d] <=> LayerCreateAck(l) \in acks[d],
         LayerDestroyAck(l) \in acks'[d] <=> LayerDestroyAck(l) \in acks[d]
  PROVE  LayerStep(d, l, o)
BY DEF LayerStep, Transition

-----------------------------------------------------------------------------
(* Initially.                                                              *)

LEMMA IdsType ==
  /\ Ids \subseteq Nat /\ IsFiniteSet(Ids) /\ RESERVED_LAYER_ID \in Ids /\ 0 \in Ids
  /\ RESERVED_LAYER_ID \in Nat
<1>1. RESERVED_LAYER_ID \in Nat
  BY LayersAssumption DEF RESERVED_LAYER_ID
<1> QED BY <1>1, FS_Interval DEF Ids

LEMMA FreeLayerSound ==
  /\ NoItems \in ItemType /\ FreeLayer \in LayerType
  /\ FreeLayer.parent = RESERVED_LAYER_ID
  /\ \A N : LayerSound(FreeLayer, N)
<1>1. NoItems \in ItemType
  BY DEF NoItems, ItemType
<1>2. FreeLayer \in LayerType
  BY <1>1, IdsType DEF FreeLayer, LayerType, States
<1> QED BY <1>1, <1>2 DEF LayerSound, FreeLayer

LEMMA EmptyViewType == EmptyView \in ViewType
BY FreeLayerSound, IdsType DEF EmptyView, ViewType

LEMMA Initially == Init => DataInv /\ NetInv
<1> SUFFICES ASSUME Init PROVE DataInv /\ NetInv
  OBVIOUS
<1>1. layers \in [Ids -> LayerType] /\ \A l \in Ids : layers[l] = FreeLayer
  BY FreeLayerSound DEF Init
<1>2. Sound(layers, node_subs)
  BY <1>1, FreeLayerSound DEF Sound
<1>3. DataInv
  BY <1>2, IdsType DEF Init, DataInv
<1>4. NetInv
  <2>1. <<>> \in Seq(Cmds)
    OBVIOUS
  <2> QED BY <2>1, LayersAssumption, EmptyViewType DEF Init, NetInv
<1> QED BY <1>3, <1>4

-----------------------------------------------------------------------------
(* Steps that keep the layers and their parents.                           *)

Kept(L, M, O) ==
  /\ M \in [Ids -> LayerType]
  /\ \A l \in Ids : /\ LayerSound(M[l], O)
                    /\ M[l].parent = L[l].parent
                    /\ L[l].state # NONE => M[l].state # NONE

LEMMA SoundKept == ASSUME NEW L, NEW M, NEW N, NEW O, Sound(L, N), Kept(L, M, O) PROVE Sound(M, O)
<1>1. \A l \in Ids : L[l].parent \in Ids
  BY DEF Sound, LayerType
<1> QED BY <1>1 DEF Sound, Kept

WithFollowers(e, r, C) ==
  /\ r.parent = e.parent /\ r.state = e.state
  /\ \A c \in Clients : r.folls[c] = IF c \in Untold(e, C) THEN CREATING ELSE e.folls[c]

LEMMA SendCreateSound ==
  ASSUME NEW N, NEW C, C \subseteq N, NEW e, LayerSound(e, N), NEW r, r = vs_layer_send_create(e, C)
  PROVE  LayerSound(r, N) /\ WithFollowers(e, r, C)
<1>1. e \in LayerType /\ e.subs \subseteq N /\ \A c \in Clients : e.folls[c] # NONE => c \in N /\ e.state # NONE
  BY DEF LayerSound
<1>2. /\ r.state = e.state /\ r.type = e.type /\ r.parent = e.parent /\ r.subs = e.subs
      /\ r.values = e.values
      /\ r.folls = [c \in Clients |-> IF c \in Untold(e, C) THEN CREATING ELSE e.folls[c]]
      /\ r = [state |-> r.state, type |-> r.type, parent |-> r.parent, folls |-> r.folls,
              subs |-> r.subs, values |-> r.values]
  BY <1>1 DEF vs_layer_send_create, LayerType
<1>3. r.folls \in [Clients -> States]
  BY <1>1, <1>2 DEF LayerType, States
<1>4. r \in LayerType
  BY <1>1, <1>2, <1>3 DEF LayerType
<1> QED BY <1>1, <1>2, <1>4 DEF LayerSound, WithFollowers, Untold, NONE, CREATING, CREATED

WithoutFollower(e, r, c) ==
  /\ r.parent = e.parent /\ r.state = e.state
  /\ \A d \in Clients : r.folls[d] = IF d = c THEN NONE ELSE e.folls[d]

LEMMA ForgottenSound ==
  ASSUME NEW N, NEW O, NEW c \in Clients, O = N \ {c}, NEW e, LayerSound(e, N),
         NEW r, r = Forgotten(e, c)
  PROVE  LayerSound(r, O) /\ WithoutFollower(e, r, c)
<1>1. e \in LayerType /\ e.subs \subseteq N /\ \A d \in Clients : e.folls[d] # NONE => d \in N /\ e.state # NONE
  BY DEF LayerSound
<1>2. /\ r.state = e.state /\ r.type = e.type /\ r.parent = e.parent /\ r.subs = e.subs \ {c}
      /\ r.values = e.values
      /\ r.folls = [e.folls EXCEPT ![c] = NONE]
      /\ r = [state |-> r.state, type |-> r.type, parent |-> r.parent, folls |-> r.folls,
              subs |-> r.subs, values |-> r.values]
  BY <1>1 DEF Forgotten, LayerType
<1>3. r.folls \in [Clients -> States] /\ \A d \in Clients : r.folls[d] = IF d = c THEN NONE ELSE e.folls[d]
  BY <1>1, <1>2 DEF LayerType, States
<1>4. r \in LayerType
  BY <1>1, <1>2, <1>3 DEF LayerType
<1> QED BY <1>1, <1>2, <1>3, <1>4 DEF LayerSound, WithoutFollower

LEMMA SendDestroySound ==
  ASSUME NEW N, NEW e, LayerSound(e, N), NEW r, r = vs_layer_send_destroy(e)
  PROVE  /\ LayerSound(r, N) /\ r.parent = e.parent /\ r.state # NONE
         /\ \A c \in Clients : r.folls[c] = IF e.folls[c] = CREATED THEN DELETING ELSE e.folls[c]
<1>1. e \in LayerType /\ e.subs \subseteq N /\ \A c \in Clients : e.folls[c] # NONE => c \in N /\ e.state # NONE
  BY DEF LayerSound
<1>2. /\ r.state = DELETING /\ r.type = e.type /\ r.parent = e.parent /\ r.subs = e.subs
      /\ r.values = e.values
      /\ r.folls = [c \in Clients |-> IF c \in Destroyable(e) THEN DELETING ELSE e.folls[c]]
      /\ r = [state |-> r.state, type |-> r.type, parent |-> r.parent, folls |-> r.folls,
              subs |-> r.subs, values |-> r.values]
  BY <1>1 DEF vs_layer_send_destroy, LayerType
<1>3. r.folls \in [Clients -> States]
  BY <1>1, <1>2 DEF LayerType, States
<1>4. r \in LayerType
  BY <1>1, <1>2, <1>3 DEF LayerType, States
<1> QED BY <1>1, <1>2, <1>4 DEF LayerSound, Destroyable, NONE, CREATED, DELETING

(* One layer changes in its followers, subscribers, items and state.       *)
OneLayer(L, M, l, e) == M = [L EXCEPT ![l] = e]

LEMMA OneLayerSound ==
  ASSUME NEW L, NEW N, Sound(L, N), NEW l \in Ids, NEW e, LayerSound(e, N),
         e.parent = L[l].parent, L[l].state # NONE => e.state # NONE, NEW M, OneLayer(L, M, l, e)
  PROVE  Sound(M, N) /\ \A k \in Ids : M[k] = IF k = l THEN e ELSE L[k]
<1>1. L \in [Ids -> LayerType] /\ \A k \in Ids : LayerSound(L[k], N)
  BY DEF Sound
<1>2. M \in [Ids -> LayerType] /\ \A k \in Ids : M[k] = IF k = l THEN e ELSE L[k]
  BY <1>1 DEF LayerSound, OneLayer
<1>3. Kept(L, M, N)
  BY <1>1, <1>2 DEF Kept
<1> QED BY <1>2, <1>3, SoundKept

LEMMA OneLayerStep ==
  ASSUME DataInv, NEW l \in Ids, NEW e, e = layers[l], NEW r, LayerSound(r, node_subs),
         r.parent = e.parent, e.state # NONE => r.state # NONE, OneLayer(layers, layers', l, r)
  PROVE  Sound(layers', node_subs) /\ \A k \in Ids : layers'[k] = IF k = l THEN r ELSE layers[k]
<1>1. PICK L, M, N : L = layers /\ M = layers' /\ N = node_subs
  OBVIOUS
<1>2. Sound(L, N) /\ OneLayer(L, M, l, r) /\ LayerSound(r, N)
  BY <1>1 DEF DataInv
<1>3. r.parent = L[l].parent /\ (L[l].state # NONE => r.state # NONE)
  BY <1>1
<1>4. Sound(M, N) /\ \A k \in Ids : M[k] = IF k = l THEN r ELSE L[k]
  BY <1>2, <1>3, OneLayerSound
<1> QED BY <1>1, <1>4

-----------------------------------------------------------------------------
(* Commands that are queued and sent.                                      *)

LEMMA CmdTypes ==
  ASSUME NEW l \in Ids
  PROVE  /\ \A p \in Ids : LayerCreate(l, p) \in Cmds
         /\ LayerDestroy(l) \in Cmds
         /\ \A x \in Items : /\ LayerUnsetValue(l, x) \in Cmds
                             /\ \A v \in Values \union {UNSET} : LayerSetValue(l, x, v) \in Cmds
BY IdsType DEF LayerCreate, LayerDestroy, LayerUnsetValue, LayerSetValue, Cmd, Cmds

LEMMA PushTypes ==
  ASSUME NetInv, NEW out, Push(out), \A c \in Clients : out[c] \in Seq(Cmds)
  PROVE  net' \in [Clients -> SUBSET Cmds] /\ out_queue' \in [Clients -> Seq(Cmds)]
<1>1. ASSUME NEW c \in Clients PROVE ToSet(out[c]) \subseteq Cmds /\ out_queue[c] \o out[c] \in Seq(Cmds)
  <2>1. out[c] \in Seq(Cmds) /\ out_queue[c] \in Seq(Cmds)
    BY DEF NetInv
  <2>2. ToSet(out[c]) \subseteq Cmds
    BY <2>1 DEF ToSet
  <2> QED BY <2>1, <2>2, ConcatElements
<1>2. ASSUME NEW c \in Clients
      PROVE  (IF c \in streams THEN net[c] ELSE net[c] \union ToSet(out[c])) \in SUBSET Cmds
  BY <1>1 DEF NetInv
<1>3. ASSUME NEW c \in Clients
      PROVE  (IF c \in streams THEN out_queue[c] \o out[c] ELSE out_queue[c]) \in Seq(Cmds)
  BY <1>1 DEF NetInv
<1> QED BY <1>2, <1>3 DEF Push

LEMMA PushToTypes ==
  ASSUME NetInv, NEW C, NEW m \in Cmds, PushTo(C, m)
  PROVE  net' \in [Clients -> SUBSET Cmds] /\ out_queue' \in [Clients -> Seq(Cmds)]
<1>1. PICK out : out = [c \in Clients |-> IF c \in C THEN <<m>> ELSE <<>>]
  OBVIOUS
<1>2. Push(out)
  BY <1>1 DEF PushTo
<1>3. <<m>> \in Seq(Cmds) /\ <<>> \in Seq(Cmds)
  OBVIOUS
<1>4. \A c \in Clients : out[c] \in Seq(Cmds)
  BY <1>1, <1>3
<1> QED BY <1>2, <1>4, PushTypes

(* The commands about a finite set are queued in some order.               *)
LEMMA ImageFinite ==
  ASSUME NEW S, IsFiniteSet(S), NEW f
  PROVE  IsFiniteSet({f[x] : x \in S})
<1> DEFINE T == {f[x] : x \in S}
           g == [x \in S |-> f[x]]
<1>1. g \in Surjection(S, T)
  BY DEF Surjection
<1> QED BY <1>1, FS_Surjection

LEMMA SetToSeqType ==
  ASSUME NEW S, IsFiniteSet(S), S \subseteq Cmds
  PROVE  SetToSeq(S) \in Seq(Cmds)
<1>1. SetToSeq(S) \in Seq(S)
  BY SetToSeqElements
<1> QED BY <1>1

LEMMA SentTypes ==
  ASSUME NetInv, NEW K, Sent(K)
  PROVE  net' \in [Clients -> SUBSET Cmds] /\ out_queue' \in [Clients -> Seq(Cmds)]
<1>1. PICK out \in [Clients -> Seq(Cmds)] : Push(out)
  BY DEF Sent
<1> QED BY <1>1, PushTypes

LEMMA EmptyKeys ==
  /\ KeysOf(ToSet(<<>>)) = {} /\ Distinct(ToSet(<<>>)) /\ <<>> \in Seq(Cmds)
  /\ \A m : Once(<<>>, m)
<1>1. ToSet(<<>>) = {}
  BY DEF ToSet
<1> QED BY <1>1 DEF KeysOf, Distinct, Once

LEMMA SentTo ==
  ASSUME NEW C, NEW m \in Cmds, PushTo(C, m), NEW K,
         K = [d \in Clients |-> IF d \in C THEN {Key(m)} ELSE {}]
  PROVE  Sent(K)
<1>1. PICK out : out = [c \in Clients |-> IF c \in C THEN <<m>> ELSE <<>>]
  OBVIOUS
<1>2. Push(out)
  BY <1>1 DEF PushTo
<1>3. /\ <<m>> \in Seq(Cmds) /\ ToSet(<<m>>) = {m} /\ \A n : Once(<<m>>, n)
  BY DEF ToSet, Once
<1>4. KeysOf(ToSet(<<m>>)) = {Key(m)} /\ Distinct(ToSet(<<m>>))
  BY <1>3 DEF KeysOf, Distinct
<1>5. ASSUME NEW d \in Clients
      PROVE  /\ out[d] \in Seq(Cmds) /\ KeysOf(ToSet(out[d])) = K[d] /\ Distinct(ToSet(out[d]))
             /\ \A n : Once(out[d], n)
  BY <1>1, <1>3, <1>4, EmptyKeys
<1>6. out \in [Clients -> Seq(Cmds)]
  BY <1>1, <1>5
<1> QED BY <1>2, <1>5, <1>6 DEF Sent

LEMMA SentNone ==
  ASSUME NetInv, UNCHANGED <<net, out_queue>>, NEW K, K = [d \in Clients |-> {}]
  PROVE  Sent(K)
<1>1. PICK out : out = [c \in Clients |-> <<>>]
  OBVIOUS
<1>2. out \in [Clients -> Seq(Cmds)]
  BY <1>1, EmptyKeys
<1>3. ASSUME NEW c \in Clients
      PROVE  out_queue[c] \o out[c] = out_queue[c] /\ net[c] \union ToSet(out[c]) = net[c]
  <2>1. out_queue[c] \in Seq(Cmds)
    BY DEF NetInv
  <2>2. out_queue[c] \o <<>> = out_queue[c]
    BY <2>1
  <2> QED BY <1>1, <2>2 DEF ToSet
<1>4. net = [c \in Clients |-> net[c]] /\ out_queue = [c \in Clients |-> out_queue[c]]
  BY DEF NetInv
<1>5. Push(out)
  BY <1>3, <1>4 DEF Push
<1>6. \A d \in Clients : out[d] = <<>>
  BY <1>1
<1> QED BY <1>2, <1>5, <1>6, EmptyKeys DEF Sent

(* The commands S are queued for client c.                                 *)
LEMMA SentSet ==
  ASSUME NEW S, IsFiniteSet(S), S \subseteq Cmds, Distinct(S), NEW c \in Clients,
         Push([d \in Clients |-> IF d # c THEN <<>> ELSE SetToSeq(S)]), NEW K,
         K = [d \in Clients |-> IF d = c THEN KeysOf(S) ELSE {}]
  PROVE  Sent(K)
<1>1. PICK out, q : q = SetToSeq(S) /\ out = [d \in Clients |-> IF d # c THEN <<>> ELSE q]
  OBVIOUS
<1>2. Push(out)
  BY <1>1
<1>3. q \in Seq(Cmds) /\ ToSet(q) = S /\ \A m : Once(q, m)
  BY <1>1, SetToSeqElements, SetToSeqType
<1>4. ASSUME NEW d \in Clients
      PROVE  /\ out[d] \in Seq(Cmds) /\ KeysOf(ToSet(out[d])) = K[d] /\ Distinct(ToSet(out[d]))
             /\ \A n : Once(out[d], n)
  BY <1>1, <1>3, EmptyKeys
<1>5. out \in [Clients -> Seq(Cmds)]
  BY <1>1, <1>4
<1> QED BY <1>2, <1>4, <1>5 DEF Sent

(* A command of a client is handled.                                       *)
LEMMA CommandNet ==
  ASSUME NetInv, NEW c \in Clients, Command(c), view' \in [Clients -> ViewType],
         net' \in [Clients -> SUBSET Cmds] /\ out_queue' \in [Clients -> Seq(Cmds)]
  PROVE  NetInv'
<1>1. ops' \in 0 .. MaxOps
  BY LayersAssumption DEF NetInv, Command
<1> QED BY <1>1 DEF NetInv, Command

(* A fake command is handled.                                              *)
LEMMA AckedNet ==
  ASSUME NetInv, NEW c \in Clients, NEW m, Acked(c, m),
         net' \in [Clients -> SUBSET Cmds] /\ out_queue' \in [Clients -> Seq(Cmds)]
  PROVE  NetInv'
<1>1. acks' \in [Clients -> SUBSET FakeCmds]
  BY DEF NetInv, Acked
<1> QED BY <1>1 DEF NetInv, Acked

(* Acknowledgements, and what a client makes of commands.                  *)
LEMMA FakeAckType == ASSUME NEW m \in Cmds PROVE v_cmd_fake_ack(m) \subseteq FakeCmds
<1>1. m.layer \in Ids /\ m.op \in {"LAYER_CREATE", "LAYER_DESTROY", "LAYER_SET", "LAYER_UNSET"}
  BY DEF Cmds
<1>2. LayerCreateAck(m.layer) \in FakeCmds /\ LayerDestroyAck(m.layer) \in FakeCmds
  BY <1>1 DEF FakeCmds
<1> QED BY <1>1, <1>2 DEF v_cmd_fake_ack

LEMMA LearnedType == ASSUME NEW w \in ViewType, NEW m \in Cmds PROVE Learned(w, m) \in ViewType
<1>1. PICK l, x, r : l = m.layer /\ x = m.item /\ r = Learned(w, m)
  OBVIOUS
<1>2. /\ l \in Ids /\ m.parent \in Ids /\ m.value \in Values \union {UNSET}
      /\ m.op \in {"LAYER_CREATE", "LAYER_DESTROY", "LAYER_SET", "LAYER_UNSET"}
  BY <1>1 DEF Cmds
<1>3. w.known \in SUBSET Ids /\ w.parent \in [Ids -> Ids] /\ w.values \in [Ids -> ItemType]
  BY DEF ViewType
<1>4. ASSUME NEW f \in ItemType, NEW v \in Values \union {UNSET} PROVE [f EXCEPT ![x] = v] \in ItemType
  BY DEF ItemType
<1>5. CASE m.op = "LAYER_CREATE"
  <2>1. r = [w EXCEPT !.known = @ \union {l}, !.parent[l] = m.parent]
    BY <1>1, <1>5 DEF Learned
  <2>2. w.known \union {l} \in SUBSET Ids /\ [w.parent EXCEPT ![l] = m.parent] \in [Ids -> Ids]
    BY <1>2, <1>3
  <2>3. r = [known |-> w.known \union {l}, parent |-> [w.parent EXCEPT ![l] = m.parent], values |-> w.values]
    BY <2>1 DEF ViewType
  <2> QED BY <1>1, <1>3, <2>2, <2>3 DEF ViewType
<1>6. CASE m.op = "LAYER_DESTROY"
  <2>1. r = [w EXCEPT !.known = @ \ {l}, !.values[l] = NoItems, !.parent[l] = RESERVED_LAYER_ID]
    BY <1>1, <1>6 DEF Learned
  <2>2. /\ w.known \ {l} \in SUBSET Ids /\ [w.parent EXCEPT ![l] = RESERVED_LAYER_ID] \in [Ids -> Ids]
        /\ [w.values EXCEPT ![l] = NoItems] \in [Ids -> ItemType]
    BY <1>2, <1>3, IdsType, FreeLayerSound
  <2>3. r = [known |-> w.known \ {l}, parent |-> [w.parent EXCEPT ![l] = RESERVED_LAYER_ID],
             values |-> [w.values EXCEPT ![l] = NoItems]]
    BY <2>1 DEF ViewType
  <2> QED BY <1>1, <2>2, <2>3 DEF ViewType
<1>7. CASE m.op = "LAYER_SET"
  <2>1. r = IF l \in w.known THEN [w EXCEPT !.values[l][x] = m.value] ELSE w
    BY <1>1, <1>7 DEF Learned
  <2>2. [w.values[l] EXCEPT ![x] = m.value] \in ItemType
    BY <1>2, <1>3, <1>4
  <2>3. [w.values EXCEPT ![l] = [w.values[l] EXCEPT ![x] = m.value]] \in [Ids -> ItemType]
    BY <1>2, <1>3, <2>2
  <2>4. [w EXCEPT !.values[l][x] = m.value]
          = [known |-> w.known, parent |-> w.parent,
             values |-> [w.values EXCEPT ![l] = [w.values[l] EXCEPT ![x] = m.value]]]
    BY <1>2, <1>3 DEF ViewType
  <2> QED BY <1>1, <1>3, <2>1, <2>3, <2>4 DEF ViewType
<1>8. CASE m.op = "LAYER_UNSET"
  <2> DEFINE Hit(k) == k = l \/ (k # l /\ k \in w.known /\ w.parent[k] = l /\ l # RESERVED_LAYER_ID)
             f == [k \in Ids |-> IF Hit(k) THEN [w.values[k] EXCEPT ![x] = UNSET] ELSE w.values[k]]
  <2>1. r = [w EXCEPT !.values = f]
    BY <1>1, <1>8 DEF Learned
  <2>2. ASSUME NEW k \in Ids PROVE [w.values[k] EXCEPT ![x] = UNSET] \in ItemType /\ w.values[k] \in ItemType
    BY <1>3, <1>4
  <2>3. f \in [Ids -> ItemType]
    BY <2>2
  <2> HIDE DEF f
  <2>4. r = [known |-> w.known, parent |-> w.parent, values |-> f]
    BY <2>1 DEF ViewType
  <2> QED BY <1>1, <1>3, <2>3, <2>4 DEF ViewType
<1> QED BY <1>2, <1>5, <1>6, <1>7, <1>8

-----------------------------------------------------------------------------
(* The search for a free id ends at an id: the recursive function of the   *)
(* search exists, and tries ids only.                                      *)

Step(i) == IF Exists(i) THEN NextId(i) ELSE i

LEMMA StepType == ASSUME NEW i \in Ids PROVE Step(i) \in Ids /\ NextFree(i) \in Ids
<1>1. i \in Nat /\ i <= RESERVED_LAYER_ID /\ LAST_LAYER_ID \in Nat
      /\ RESERVED_LAYER_ID = LAST_LAYER_ID + 1
  BY LayersAssumption DEF Ids, RESERVED_LAYER_ID
<1>2. NextId(i) \in Ids
  BY <1>1 DEF NextId, Ids
<1>3. NextFree(i) \in Ids
  <2>1. PICK n \in Nat : n = RESERVED_LAYER_ID + 1 /\ n > 0
    BY <1>1
  <2>2. (i + 1) % n \in 0 .. n - 1
    BY <1>1, <2>1
  <2> QED BY <1>1, <2>1, <2>2 DEF NextFree, Ids
<1> QED BY <1>2, <1>3 DEF Step

LEMMA FreeIdType == ASSUME first_free \in Ids PROVE FreeId \in Ids
<1>1. RESERVED_LAYER_ID \in Nat /\ Ids = 0 .. RESERVED_LAYER_ID /\ RESERVED_LAYER_ID \in Ids
  BY IdsType DEF Ids
<1> DEFINE Is(f) == f = [n \in Ids |->
              IF n = 0 THEN first_free
              ELSE IF Exists(f[n - 1]) THEN NextId(f[n - 1]) ELSE f[n - 1]]
<1>2. \E f : Is(f)
  <2>1. PICK g : g = [i \in Ids |-> Step(i)]
    OBVIOUS
  <2>2. g \in [Ids -> Ids]
    BY <2>1, StepType
  <2>3. PICK f : f \in Iterates(Ids, first_free, g, RESERVED_LAYER_ID)
    <3>1. RESERVED_LAYER_ID \in Nat
      BY <1>1
    <3> QED BY <2>2, <3>1, IteratesExist
  <2>4. /\ f \in [Ids -> Ids] /\ f = [i \in Ids |-> f[i]]
        /\ \A i \in Ids : f[i] = IF i = 0 THEN first_free ELSE g[f[i-1]]
    BY <1>1, <2>3 DEF Iterates
  <2>5. \A i \in Ids : i # 0 => f[i-1] \in Ids
    BY <1>1, <2>4
  <2>6. \A i \in Ids : f[i] = IF i = 0 THEN first_free ELSE Step(f[i-1])
    BY <2>1, <2>4, <2>5
  <2>7. Is(f)
    BY <2>4, <2>6 DEF Step
  <2> QED BY <2>7
<1>3. Is(Tried)
  <2>1. Tried = CHOOSE g : Is(g)
    BY DEF Tried
  <2> HIDE DEF Is
  <2> QED BY <1>2, <2>1
<1> DEFINE K == {k \in Nat : k \in Ids => Tried[k] \in Ids}
<1>4. 0 \in K
  <2>1. 0 \in Ids
    BY IdsType
  <2>2. Tried[0] = first_free
    BY <1>3, <2>1
  <2> QED BY <2>2
<1>5. ASSUME NEW k \in Nat, k \in K PROVE k + 1 \in K
  <2> SUFFICES ASSUME k + 1 \in Ids PROVE Tried[k + 1] \in Ids
    OBVIOUS
  <2>1. k \in Ids /\ k + 1 # 0 /\ (k + 1) - 1 = k
    BY <1>1
  <2>2. Tried[k] \in Ids
    BY <1>5, <2>1
  <2>3. \A n \in Ids : n # 0 => Tried[n] = Step(Tried[n - 1])
    BY <1>3 DEF Step
  <2>4. Tried[k + 1] = Step(Tried[k])
    BY <2>1, <2>3
  <2> QED BY <2>2, <2>4, StepType
<1>6. Nat \subseteq K
  <2> HIDE DEF K
  <2> QED BY <1>4, <1>5, SetInduction
<1>7. RESERVED_LAYER_ID \in K
  <2> HIDE DEF K
  <2> QED BY <1>1, <1>6
<1> QED BY <1>1, <1>7 DEF FreeId

-----------------------------------------------------------------------------
(* Subscribing to the node, leaving it, and its end.                       *)

LEMMA KeptLayers ==
  ASSUME DataInv
  PROVE  layers \in [Ids -> LayerType] /\ \A l \in Ids : LayerSound(layers[l], node_subs)
BY DEF DataInv, Sound

LEMMA SubscribeInductive ==
  ASSUME DataInv, NetInv, NEW c \in Clients, NodeSubscribe(c)
  PROVE  DataInv' /\ NetInv' /\ Told /\ SameLayers
<1>1. PICK C, told : /\ C = {c} \intersect Readers
                     /\ told = {l \in Ids : Untold(layers[l], C) # {}}
  OBVIOUS
<1>2. /\ Command(c) /\ node_subs' = node_subs \union {c}
      /\ layers' = [l \in Ids |-> vs_layer_send_create(layers[l], C)]
      /\ Push([d \in Clients |-> IF d # c THEN <<>>
                 ELSE SetToSeq({LayerCreate(l, layers[l].parent) : l \in told})])
      /\ UNCHANGED <<first_free, node_alive, locked, view>>
  BY <1>1 DEF NodeSubscribe
<1>3. ASSUME NEW l \in Ids
      PROVE  /\ LayerSound(layers'[l], node_subs') /\ layers'[l].parent = layers[l].parent
             /\ layers'[l].state = layers[l].state
             /\ \A d \in Clients :
                  layers'[l].folls[d] = IF d \in Untold(layers[l], C) THEN CREATING ELSE layers[l].folls[d]
  <2>1. PICK e, r, N : e = layers[l] /\ r = vs_layer_send_create(e, C) /\ N = node_subs'
    OBVIOUS
  <2>2. LayerSound(e, N) /\ C \subseteq N
    BY <1>1, <1>2, <2>1, KeptLayers DEF LayerSound
  <2>3. layers'[l] = r
    BY <1>2, <2>1
  <2>4. LayerSound(r, N) /\ WithFollowers(e, r, C)
    BY <2>1, <2>2, SendCreateSound
  <2> QED BY <2>1, <2>3, <2>4 DEF WithFollowers
<1>4. Kept(layers, layers', node_subs')
  BY <1>2, <1>3 DEF Kept, LayerSound
<1>5. DataInv'
  BY <1>2, <1>4, SoundKept DEF DataInv
<1>6. PICK f, S, K : /\ f = [l \in told |-> LayerCreate(l, layers[l].parent)]
                     /\ S = {f[l] : l \in told}
                     /\ K = [d \in Clients |-> IF d = c THEN KeysOf(S) ELSE {}]
  OBVIOUS
<1>7. IsFiniteSet(S)
  <2>1. IsFiniteSet(told)
    BY <1>1, IdsType, FS_Subset
  <2> QED BY <1>6, <2>1, ImageFinite
<1>8. /\ \A l \in told : f[l] \in Cmds /\ Key(f[l]) = CreateKey(l)
      /\ told \subseteq Ids
  <2>1. \A l \in told : l \in Ids /\ layers[l].parent \in Ids
    BY <1>1, KeptLayers DEF LayerType
  <2> QED BY <1>6, <2>1, CmdTypes DEF Key, CreateKey, LayerCreate, Cmd
<1>9. S \subseteq Cmds /\ Distinct(S) /\ KeysOf(S) = {CreateKey(l) : l \in told}
  BY <1>6, <1>8 DEF Distinct, KeysOf, CreateKey
<1>10. Sent(K)
  <2>1. S = {LayerCreate(l, layers[l].parent) : l \in told}
    BY <1>6
  <2>2. Push([d \in Clients |-> IF d # c THEN <<>> ELSE SetToSeq(S)])
    BY <1>2, <2>1
  <2> QED BY <1>6, <1>7, <1>9, <2>2, SentSet
<1>11. NetInv'
  BY <1>2, <1>10, SentTypes, CommandNet DEF NetInv
<1>12. UNCHANGED <<streams, wire, acks>>
  BY <1>2 DEF Command
<1>13. ASSUME NEW d \in Stayers, NEW l \in Ids PROVE LayerStep(d, l, K[d])
  <2>1. d \in Clients
    BY StayersAre
  <2>2. DestroyKey(l) \notin K[d] /\ (CreateKey(l) \in K[d] <=> d = c /\ l \in told)
    BY <1>6, <1>9, <2>1 DEF CreateKey, DestroyKey
  <2>3. d \in Untold(layers[l], C) <=> d = c /\ l \in told
    BY <1>1 DEF Untold
  <2>4. CASE d \in Untold(layers[l], C)
    <3>1. layers[l].folls[d] = "NONE" /\ layers'[l].folls[d] = "CREATING"
      BY <1>3, <2>1, <2>4 DEF Untold, NONE, CREATING
    <3> QED BY <1>12, <2>2, <2>3, <2>4, <3>1 DEF LayerStep, Transition
  <2>5. CASE d \notin Untold(layers[l], C)
    BY <1>3, <1>12, <2>1, <2>2, <2>3, <2>5, FrameStep
  <2> QED BY <2>4, <2>5
<1>14. Told
  BY <1>2, <1>10, <1>12, <1>13 DEF Told
<1> QED BY <1>3, <1>5, <1>11, <1>14 DEF SameLayers

LEMMA ForgottenData ==
  ASSUME DataInv, NEW c \in Clients, node_subs' = node_subs \ {c},
         layers' = [l \in Ids |-> Forgotten(layers[l], c)],
         UNCHANGED <<first_free, node_alive, locked>>
  PROVE  /\ DataInv' /\ SameLayers
         /\ \A d \in Clients \ {c}, l \in Ids : layers'[l].folls[d] = layers[l].folls[d]
<1>1. ASSUME NEW l \in Ids
      PROVE  /\ LayerSound(layers'[l], node_subs') /\ layers'[l].parent = layers[l].parent
             /\ layers'[l].state = layers[l].state
             /\ \A d \in Clients : layers'[l].folls[d] = IF d = c THEN NONE ELSE layers[l].folls[d]
  <2>1. PICK e, r, N, O : e = layers[l] /\ r = Forgotten(e, c) /\ N = node_subs /\ O = node_subs'
    OBVIOUS
  <2>2. layers'[l] = r /\ LayerSound(e, N)
    BY <2>1, KeptLayers
  <2>3. LayerSound(r, O) /\ WithoutFollower(e, r, c)
    <3>1. r = Forgotten(e, c) /\ O = N \ {c}
      BY <2>1
    <3> QED BY <2>2, <3>1, ForgottenSound
  <2> QED BY <2>1, <2>2, <2>3 DEF WithoutFollower
<1>2. Kept(layers, layers', node_subs')
  BY <1>1 DEF Kept, LayerSound
<1> QED BY <1>1, <1>2, SoundKept DEF DataInv, SameLayers

LEMMA UnsubscribeInductive ==
  ASSUME DataInv, NetInv, NEW c \in Clients, NodeUnsubscribe(c)
  PROVE  DataInv' /\ NetInv' /\ Unaffected /\ SameLayers
<1>1. /\ DataInv' /\ SameLayers
      /\ \A d \in Clients \ {c}, l \in Ids : layers'[l].folls[d] = layers[l].folls[d]
  BY ForgottenData DEF NodeUnsubscribe
<1>2. view' \in [Clients -> ViewType] /\ \A d \in Clients \ {c} : view'[d] = view[d]
  BY EmptyViewType DEF NodeUnsubscribe, NetInv
<1>3. Unaffected
  BY <1>1, <1>2, StayersAre DEF Unaffected, NodeUnsubscribe, Command
<1> QED BY <1>1, <1>2, <1>3, CommandNet DEF NodeUnsubscribe, NetInv

LEMMA DisconnectInductive ==
  ASSUME DataInv, NetInv, NEW c \in Clients, Disconnect(c)
  PROVE  DataInv' /\ NetInv' /\ Unaffected /\ SameLayers
<1>1. /\ DataInv' /\ SameLayers
      /\ \A d \in Clients \ {c}, l \in Ids : layers'[l].folls[d] = layers[l].folls[d]
  BY ForgottenData DEF Disconnect
<1>2. <<>> \in Seq(Cmds)
  OBVIOUS
<1>3. NetInv'
  BY <1>2, EmptyViewType DEF Disconnect, NetInv
<1>4. \A d \in Clients \ {c} :
        /\ net'[d] = net[d] /\ out_queue'[d] = out_queue[d] /\ wire'[d] = wire[d]
        /\ acks'[d] = acks[d] /\ view'[d] = view[d]
  BY DEF Disconnect, NetInv
<1>5. Unaffected
  BY <1>1, <1>4, StayersAre DEF Unaffected, Disconnect
<1> QED BY <1>1, <1>3, <1>5

LEMMA NodeDestroyInductive ==
  ASSUME DataInv, NetInv, NEW c \in Clients, NodeDestroy(c) \/ HandleLayerCreateLate(c)
  PROVE  DataInv' /\ NetInv' /\ Unaffected /\ SameLayers
<1>1. /\ Command(c) /\ UNCHANGED <<layers, first_free, node_subs, net, out_queue, view>>
      /\ node_alive' \in BOOLEAN /\ locked' \in BOOLEAN
  BY DEF NodeDestroy, HandleLayerCreateLate, DataInv
<1>2. DataInv'
  BY <1>1 DEF DataInv
<1>3. Unaffected /\ SameLayers
  BY <1>1 DEF Unaffected, SameLayers, Command
<1> QED BY <1>1, <1>2, <1>3, CommandNet DEF NetInv

-----------------------------------------------------------------------------
(* Commands about layers.                                                  *)

LEMMA LayerCreateInductive ==
  ASSUME DataInv, NetInv, NEW c \in Clients, NEW p \in Ids, NEW type \in Types,
         HandleLayerCreate(c, p, type)
  PROVE  DataInv' /\ NetInv' /\ Told /\ \E l \in Ids : Born(l)
<1>1. PICK id, f, e : /\ id = FreeId /\ f = vs_layer_create(type, p)
                      /\ e = vs_layer_send_create(f, node_subs)
  OBVIOUS
<1>2. /\ Command(c) /\ (p # RESERVED_LAYER_ID => Exists(p))
      /\ ~Exists(id)
      /\ layers' = [layers EXCEPT ![id] = e]
      /\ first_free' = NextFree(id)
      /\ PushTo(node_subs, LayerCreate(id, p))
      /\ UNCHANGED <<node_alive, locked, node_subs, view>>
  BY <1>1 DEF HandleLayerCreate
<1>3. id \in Ids
  BY <1>1, FreeIdType DEF DataInv
<1>4. LayerSound(f, node_subs) /\ f.parent = p /\ f.state = CREATING
  <2>1. f = [state |-> CREATING, type |-> type, parent |-> p, folls |-> [d \in Clients |-> NONE],
             subs |-> {}, values |-> NoItems]
    BY <1>1 DEF vs_layer_create, FreeLayer
  <2>2. f \in LayerType
    BY <2>1, FreeLayerSound DEF LayerType, States
  <2> QED BY <2>1, <2>2 DEF LayerSound
<1>5. /\ LayerSound(e, node_subs) /\ e.parent = p /\ e.state = CREATING
      /\ \A d \in Clients : e.folls[d] = IF d \in Untold(f, node_subs) THEN CREATING ELSE f.folls[d]
  <2>1. PICK N, C : N = node_subs /\ C = node_subs
    OBVIOUS
  <2>2. C \subseteq N /\ LayerSound(f, N) /\ e = vs_layer_send_create(f, C)
    BY <1>1, <1>4, <2>1
  <2>3. LayerSound(e, N) /\ WithFollowers(f, e, C)
    BY <2>2, SendCreateSound
  <2> QED BY <1>4, <2>1, <2>3 DEF WithFollowers
<1>6. /\ layers' \in [Ids -> LayerType] /\ \A l \in Ids : layers'[l] = IF l = id THEN e ELSE layers[l]
  BY <1>2, <1>3, <1>5, KeptLayers DEF LayerSound
<1>7. \A l \in Ids : LayerSound(layers'[l], node_subs)
  BY <1>5, <1>6, KeptLayers
<1>8. \A l \in Ids : layers[l].state # NONE => layers'[l].state # NONE
  BY <1>5, <1>6 DEF NONE, CREATING
<1>9. ASSUME NEW l \in Ids, layers'[l].parent # RESERVED_LAYER_ID
      PROVE  layers'[layers'[l].parent].state # NONE
  <2>1. layers'[l].parent \in Ids
    BY <1>6 DEF LayerType
  <2>2. layers[layers'[l].parent].state # NONE
    <3>1. CASE l = id
      BY <1>2, <1>5, <1>6, <1>9, <3>1 DEF Exists
    <3>2. CASE l # id
      BY <1>6, <1>9, <3>2 DEF DataInv, Sound
    <3> QED BY <3>1, <3>2
  <2> QED BY <1>8, <2>1, <2>2
<1>10. Sound(layers', node_subs)
  BY <1>6, <1>7, <1>9 DEF Sound
<1>11. DataInv'
  BY <1>2, <1>3, <1>10, StepType DEF DataInv
<1>12. LayerCreate(id, p) \in Cmds
  BY <1>3, CmdTypes
<1>13. NetInv'
  BY <1>2, <1>12, PushToTypes, CommandNet DEF NetInv
<1>14. PICK m, K : /\ m = LayerCreate(id, p)
                   /\ K = [d \in Clients |-> IF d \in node_subs THEN {Key(m)} ELSE {}]
  OBVIOUS
<1>15. Sent(K) /\ Key(m) = CreateKey(id)
  <2>1. m \in Cmds /\ PushTo(node_subs, m)
    BY <1>2, <1>12, <1>14
  <2>2. Key(m) = CreateKey(id)
    BY <1>14 DEF LayerCreate, Cmd, Key, CreateKey
  <2> QED BY <1>14, <2>1, <2>2, SentTo
<1>16. UNCHANGED <<streams, wire, acks>>
  BY <1>2 DEF Command
<1>17. ASSUME NEW d \in Stayers, NEW l \in Ids PROVE LayerStep(d, l, K[d])
  <2>1. d \in Clients
    BY StayersAre
  <2>2. DestroyKey(l) \notin K[d] /\ (CreateKey(l) \in K[d] <=> d \in node_subs /\ l = id)
    BY <1>14, <1>15, <2>1 DEF CreateKey, DestroyKey
  <2>3. d \in Untold(f, node_subs) <=> d \in node_subs
    <3>1. f.folls[d] = NONE
      BY <1>1, <2>1 DEF vs_layer_create, FreeLayer
    <3> QED BY <1>4, <3>1 DEF Untold
  <2>4. layers[id].folls[d] = NONE /\ f.folls[d] = NONE
    <3>1. layers[id].state = NONE /\ LayerSound(layers[id], node_subs)
      BY <1>2, <1>3, KeptLayers DEF Exists
    <3> QED BY <1>1, <2>1, <3>1 DEF LayerSound, vs_layer_create, FreeLayer
  <2>5. CASE d \in node_subs /\ l = id
    <3>1. layers[l].folls[d] = "NONE" /\ layers'[l].folls[d] = "CREATING"
      BY <1>5, <1>6, <2>1, <2>3, <2>4, <2>5 DEF NONE, CREATING
    <3> QED BY <1>16, <2>2, <2>5, <3>1 DEF LayerStep, Transition
  <2>6. CASE ~(d \in node_subs /\ l = id)
    <3>1. layers'[l].folls[d] = layers[l].folls[d]
      BY <1>5, <1>6, <2>1, <2>3, <2>4, <2>6
    <3> QED BY <1>16, <2>2, <2>6, <3>1, FrameStep
  <2> QED BY <2>5, <2>6
<1>18. Told
  BY <1>2, <1>15, <1>16, <1>17 DEF Told
<1>19. Born(id)
  BY <1>2, <1>3, <1>5, <1>6 DEF Born, Exists, NONE, CREATING
<1> QED BY <1>3, <1>11, <1>13, <1>18, <1>19

(* A layer is destroyed itself: the search starts with it.                 *)
LEMMA BelowItself == ASSUME DataInv, NEW l \in Ids PROVE Below(l, l)
<1>1. RESERVED_LAYER_ID \in Nat /\ Ids = 0 .. RESERVED_LAYER_ID /\ RESERVED_LAYER_ID \in Ids /\ 0 \in Ids
  BY IdsType DEF Ids
<1> DEFINE Is(f) == f = [n \in 0 .. RESERVED_LAYER_ID |->
              IF n = 0 THEN l ELSE layers[f[n - 1]].parent]
<1>2. \E f : Is(f)
  <2>1. PICK g : g = [i \in Ids |-> layers[i].parent]
    OBVIOUS
  <2>2. g \in [Ids -> Ids]
    BY <1>1, <2>1, KeptLayers DEF LayerType
  <2>3. PICK f : f \in Iterates(Ids, l, g, RESERVED_LAYER_ID)
    <3>1. RESERVED_LAYER_ID \in Nat
      BY <1>1
    <3> QED BY <2>2, <3>1, IteratesExist
  <2>4. /\ f \in [Ids -> Ids] /\ f = [i \in Ids |-> f[i]]
        /\ \A i \in Ids : f[i] = IF i = 0 THEN l ELSE g[f[i-1]]
    BY <1>1, <2>3 DEF Iterates
  <2>5. \A i \in Ids : i # 0 => f[i-1] \in Ids
    BY <1>1, <2>4
  <2>6. \A i \in Ids : f[i] = IF i = 0 THEN l ELSE layers[f[i-1]].parent
    BY <2>1, <2>4, <2>5
  <2>7. Is(f)
    BY <1>1, <2>4, <2>6
  <2> QED BY <2>7
<1>3. PICK U : U = CHOOSE g : Is(g)
  OBVIOUS
<1>4. Below(l, l) <=> \E n \in 0 .. RESERVED_LAYER_ID :
                        U[n] = l /\ \A i \in 1 .. n : U[i] # RESERVED_LAYER_ID
  BY <1>3 DEF Below
<1>5. Is(U)
  <2> HIDE DEF Is
  <2> QED BY <1>2, <1>3
<1>6. U[0] = l
  BY <1>1, <1>5
<1>7. 0 \in 0 .. RESERVED_LAYER_ID /\ \A i \in 1 .. 0 : U[i] # RESERVED_LAYER_ID
  BY <1>1
<1> QED BY <1>4, <1>6, <1>7

LEMMA LayerDestroyInductive ==
  ASSUME DataInv, NetInv, NEW c \in Clients, NEW l \in Ids, HandleLayerDestroy(c, l)
  PROVE  DataInv' /\ NetInv' /\ Told /\ SameLayers
<1>1. PICK all : all = DestroyedWith(l)
  OBVIOUS
<1>2. /\ Command(c) /\ layers[l].state \in {CREATING, CREATED}
      /\ layers' = [k \in Ids |-> IF k \in all THEN vs_layer_send_destroy(layers[k]) ELSE layers[k]]
      /\ Push([d \in Clients |->
           SetToSeq({LayerDestroy(k) : k \in {k \in all \ {l} : d \in Destroyable(layers[k])}})
             \o (IF d \in Destroyable(layers[l]) THEN <<LayerDestroy(l)>> ELSE <<>>)])
      /\ UNCHANGED <<first_free, node_alive, locked, node_subs, view>>
  BY <1>1 DEF HandleLayerDestroy
<1>3. ASSUME NEW k \in Ids
      PROVE  /\ LayerSound(layers'[k], node_subs) /\ layers'[k].parent = layers[k].parent
             /\ layers'[k].state = NONE <=> layers[k].state = NONE
             /\ \A d \in Clients : layers'[k].folls[d] =
                  IF k \in all /\ layers[k].folls[d] = CREATED THEN DELETING ELSE layers[k].folls[d]
  <2>1. layers'[k] = IF k \in all THEN vs_layer_send_destroy(layers[k]) ELSE layers[k]
    BY <1>2
  <2>2. LayerSound(layers[k], node_subs) /\ (k \in all => layers[k].state # NONE)
    BY <1>1, KeptLayers DEF DestroyedWith, Exists
  <2>3. CASE k \in all
    <3>1. PICK e, r, N : e = layers[k] /\ r = vs_layer_send_destroy(e) /\ N = node_subs
      OBVIOUS
    <3>2. /\ LayerSound(r, N) /\ r.parent = e.parent /\ r.state # NONE
          /\ \A d \in Clients : r.folls[d] = IF e.folls[d] = CREATED THEN DELETING ELSE e.folls[d]
      BY <2>2, <3>1, SendDestroySound
    <3> QED BY <2>1, <2>2, <2>3, <3>1, <3>2
  <2>4. CASE k \notin all
    BY <2>1, <2>2, <2>4
  <2> QED BY <2>3, <2>4
<1>4. Kept(layers, layers', node_subs)
  BY <1>2, <1>3 DEF Kept, LayerSound
<1>5. DataInv'
  BY <1>2, <1>4, SoundKept DEF DataInv
<1>6. all \subseteq Ids /\ IsFiniteSet(all) /\ l \in all
  <2>1. Exists(l)
    BY <1>2 DEF Exists, NONE, CREATING, CREATED
  <2> QED BY <1>1, <2>1, BelowItself, IdsType, FS_Subset DEF DestroyedWith
<1> DEFINE Lost(d) == {k \in all \ {l} : d \in Destroyable(layers[k])}
           First(d) == {LayerDestroy(k) : k \in Lost(d)}
           Rest(d) == IF d \in Destroyable(layers[l]) THEN <<LayerDestroy(l)>> ELSE <<>>
           Gone(d) == {k \in all : layers[k].folls[d] = CREATED}
<1>7. PICK out, K : /\ out = [d \in Clients |-> SetToSeq(First(d)) \o Rest(d)]
                    /\ K = [d \in Clients |-> {DestroyKey(k) : k \in Gone(d)}]
  OBVIOUS
<1>8. Push(out)
  BY <1>2, <1>7
<1>9. ASSUME NEW d \in Clients
      PROVE  /\ out[d] \in Seq(Cmds) /\ KeysOf(ToSet(out[d])) = K[d] /\ Distinct(ToSet(out[d]))
             /\ \A m : Once(out[d], m)
  <2>1. IsFiniteSet(Lost(d)) /\ Lost(d) \subseteq Ids
    BY <1>6, FS_Subset
  <2>2. \A k : k \in Gone(d) <=> k \in Lost(d) \/ (k = l /\ d \in Destroyable(layers[l]))
    BY <1>6 DEF Destroyable
  <2>3. l \notin Lost(d)
    OBVIOUS
  <2> HIDE DEF Lost, Gone
  <2>4. IsFiniteSet(First(d))
    <3>1. PICK f : f = [k \in Lost(d) |-> LayerDestroy(k)]
      OBVIOUS
    <3>2. First(d) = {f[k] : k \in Lost(d)}
      BY <3>1
    <3> QED BY <2>1, <3>2, ImageFinite
  <2>5. First(d) \subseteq Cmds
    BY <2>1, CmdTypes
  <2>6. \A j, k : LayerDestroy(j) = LayerDestroy(k) => j = k
    BY DEF LayerDestroy, Cmd
  <2>7. LayerDestroy(l) \in Cmds /\ LayerDestroy(l) \notin First(d)
    BY <2>3, <2>6, CmdTypes
  <2>8. PICK S, T : S = First(d) /\ T = {LayerDestroy(k) : k \in Gone(d)}
    OBVIOUS
  <2>9. PICK p : p = SetToSeq(S)
    OBVIOUS
  <2>10. p \in Seq(Cmds) /\ ToSet(p) = S /\ \A m : Once(p, m)
    BY <2>4, <2>5, <2>8, <2>9, SetToSeqElements, SetToSeqType
  <2>11. PICK q : q = Rest(d)
    OBVIOUS
  <2>12. /\ q \in Seq(Cmds) /\ \A m : Once(q, m)
         /\ ToSet(q) = IF d \in Destroyable(layers[l]) THEN {LayerDestroy(l)} ELSE {}
    BY <2>7, <2>11 DEF Once, ToSet
  <2>13. out[d] = p \o q
    BY <1>7, <2>8, <2>9, <2>11
  <2>14. p \o q \in Seq(Cmds) /\ ToSet(p \o q) = S \union ToSet(q)
    BY <2>10, <2>12, ConcatElements
  <2>15. ASSUME NEW m PROVE Once(p \o q, m)
    <3>1. ~(m \in ToSet(p) /\ m \in ToSet(q))
      BY <2>7, <2>8, <2>10, <2>12
    <3> QED BY <2>10, <2>12, <3>1, ConcatOnce
  <2>16. S \union ToSet(q) = T
    BY <2>2, <2>8, <2>12
  <2>17. \A k : Key(LayerDestroy(k)) = DestroyKey(k)
    BY DEF Key, LayerDestroy, Cmd, DestroyKey
  <2>18. KeysOf(T) = K[d]
    BY <1>7, <2>8, <2>17 DEF KeysOf
  <2>19. Distinct(T)
    BY <2>8, <2>17 DEF Distinct, DestroyKey
  <2> QED BY <2>13, <2>14, <2>15, <2>16, <2>18, <2>19
<1>10. Sent(K)
  <2> HIDE DEF First, Rest, Gone
  <2>1. out \in [Clients -> Seq(Cmds)]
    BY <1>7, <1>9
  <2> QED BY <1>8, <1>9, <2>1 DEF Sent
<1>11. NetInv'
  BY <1>2, <1>10, SentTypes, CommandNet DEF NetInv
<1>12. UNCHANGED <<streams, wire, acks>>
  BY <1>2 DEF Command
<1>13. ASSUME NEW d \in Stayers, NEW k \in Ids PROVE LayerStep(d, k, K[d])
  <2>1. d \in Clients
    BY StayersAre
  <2>2. /\ CreateKey(k) \notin K[d]
        /\ DestroyKey(k) \in K[d] <=> k \in all /\ layers[k].folls[d] = CREATED
    BY <1>7, <2>1 DEF CreateKey, DestroyKey
  <2>3. CASE k \in all /\ layers[k].folls[d] = CREATED
    <3>1. layers[k].folls[d] = "CREATED" /\ layers'[k].folls[d] = "DELETING"
      BY <1>3, <2>1, <2>3 DEF CREATED, DELETING
    <3> QED BY <1>12, <2>2, <2>3, <3>1 DEF LayerStep, Transition
  <2>4. CASE ~(k \in all /\ layers[k].folls[d] = CREATED)
    <3>1. layers'[k].folls[d] = layers[k].folls[d]
      BY <1>3, <2>1, <2>4
    <3> QED BY <1>12, <2>2, <2>4, <3>1, FrameStep
  <2> QED BY <2>3, <2>4
<1>14. Told
  BY <1>2, <1>10, <1>12, <1>13 DEF Told
<1> QED BY <1>3, <1>5, <1>11, <1>14 DEF SameLayers

(* Layer e with other subscribers, and with another value of an item.      *)
WithSubs(e, S) == [e EXCEPT !.subs = S]

Alike(e, r) == r.parent = e.parent /\ r.state = e.state /\ r.folls = e.folls

LEMMA SubsSound ==
  ASSUME NEW N, N \subseteq Clients, NEW e, LayerSound(e, N), NEW S, S \subseteq N,
         NEW r, r = WithSubs(e, S)
  PROVE  LayerSound(r, N) /\ Alike(e, r)
<1>1. e \in LayerType /\ \A c \in Clients : e.folls[c] # NONE => c \in N /\ e.state # NONE
  BY DEF LayerSound
<1>2. /\ r.state = e.state /\ r.type = e.type /\ r.parent = e.parent /\ r.subs = S
      /\ r.values = e.values /\ r.folls = e.folls
      /\ r = [state |-> r.state, type |-> r.type, parent |-> r.parent, folls |-> r.folls,
              subs |-> r.subs, values |-> r.values]
  BY <1>1 DEF WithSubs, LayerType
<1>3. r \in LayerType
  BY <1>1, <1>2 DEF LayerType
<1> QED BY <1>1, <1>2, <1>3 DEF LayerSound, Alike

(* A handler that changes one layer and none of its followers.             *)
LayersAlike == SameLayers /\ \A d \in Clients, k \in Ids : layers'[k].folls[d] = layers[k].folls[d]

LEMMA OneAlike ==
  ASSUME DataInv, NEW l \in Ids, NEW e, e = layers[l], NEW r, LayerSound(r, node_subs), Alike(e, r),
         OneLayer(layers, layers', l, r)
  PROVE  Sound(layers', node_subs) /\ LayersAlike
<1>1. r.parent = e.parent /\ (e.state # NONE => r.state # NONE)
  BY DEF Alike
<1>2. Sound(layers', node_subs) /\ \A k \in Ids : layers'[k] = IF k = l THEN r ELSE layers[k]
  BY <1>1, OneLayerStep
<1> QED BY <1>2 DEF LayersAlike, SameLayers, Alike

WithValue(e, x, v) == [e EXCEPT !.values[x] = v]

LEMMA ValueSound ==
  ASSUME NEW N, NEW e, LayerSound(e, N), NEW x, NEW v \in Values \union {UNSET},
         NEW r, r = WithValue(e, x, v)
  PROVE  LayerSound(r, N) /\ Alike(e, r)
<1>1. e \in LayerType /\ e.subs \subseteq N /\ \A c \in Clients : e.folls[c] # NONE => c \in N /\ e.state # NONE
  BY DEF LayerSound
<1>2. /\ r.state = e.state /\ r.type = e.type /\ r.parent = e.parent /\ r.subs = e.subs
      /\ r.values = [e.values EXCEPT ![x] = v] /\ r.folls = e.folls
      /\ r = [state |-> r.state, type |-> r.type, parent |-> r.parent, folls |-> r.folls,
              subs |-> r.subs, values |-> r.values]
  BY <1>1 DEF WithValue, LayerType
<1>3. r.values \in ItemType
  BY <1>1, <1>2 DEF LayerType, ItemType
<1>4. r \in LayerType
  BY <1>1, <1>2, <1>3 DEF LayerType
<1> QED BY <1>1, <1>2, <1>4 DEF LayerSound, Alike

(* A handler that sends commands about items only.                         *)
LEMMA ToldItems ==
  ASSUME NEW K, Sent(K), UNCHANGED <<streams, wire, acks, view>>,
         \A d \in Clients : \A k \in K[d] : k[1] \in {"LAYER_SET", "LAYER_UNSET"},
         \A d \in Clients, l \in Ids : layers'[l].folls[d] = layers[l].folls[d]
  PROVE  Told
<1>1. ASSUME NEW d \in Stayers, NEW l \in Ids PROVE LayerStep(d, l, K[d])
  <2>1. d \in Clients
    BY StayersAre
  <2>2. CreateKey(l) \notin K[d] /\ DestroyKey(l) \notin K[d]
    BY <2>1 DEF CreateKey, DestroyKey
  <2> QED BY <2>1, <2>2, FrameStep
<1> QED BY <1>1 DEF Told

LEMMA LayerSubscribeInductive ==
  ASSUME DataInv, NetInv, NEW c \in Clients, NEW l \in Ids, HandleLayerSubscribe(c, l)
  PROVE  DataInv' /\ NetInv' /\ Told /\ SameLayers
<1>1. PICK set, e : set = {x \in Items : layers[l].values[x] # UNSET} /\ e = layers[l]
  OBVIOUS
<1>2. /\ Command(c) /\ c \in node_subs
      /\ layers' = [layers EXCEPT ![l].subs = @ \union {c}]
      /\ Push([d \in Clients |-> IF d # c THEN <<>>
                 ELSE SetToSeq({LayerSetValue(l, x, layers[l].values[x]) : x \in set})])
      /\ UNCHANGED <<first_free, node_alive, locked, node_subs, view>>
  BY <1>1 DEF HandleLayerSubscribe
<1>3. LayerSound(e, node_subs) /\ node_subs \subseteq Clients /\ e \in LayerType
  BY <1>1, KeptLayers DEF DataInv, LayerSound
<1>4. PICK r, T : T = e.subs \union {c} /\ r = WithSubs(e, T)
  OBVIOUS
<1>5. T \subseteq node_subs
  BY <1>2, <1>3, <1>4 DEF LayerSound
<1>6. LayerSound(r, node_subs) /\ Alike(e, r)
  BY <1>3, <1>4, <1>5, SubsSound
<1>7. layers' = [layers EXCEPT ![l] = r]
  BY <1>1, <1>2, <1>4 DEF WithSubs
<1>8. Sound(layers', node_subs) /\ LayersAlike
  <2>1. OneLayer(layers, layers', l, r)
    BY <1>7 DEF OneLayer
  <2> QED BY <1>1, <1>6, <2>1, OneAlike
<1>9. DataInv'
  BY <1>2, <1>8 DEF DataInv
<1>10. PICK f : f = [x \in set |-> LayerSetValue(l, x, layers[l].values[x])]
  OBVIOUS
<1>11. PICK S : S = {f[x] : x \in set}
  OBVIOUS
<1>12. IsFiniteSet(S)
  <2>1. IsFiniteSet(set)
    BY <1>1, LayersAssumption, FS_Subset
  <2> QED BY <1>11, <2>1, ImageFinite
<1>13. S \subseteq Cmds
  <2>1. \A x \in set : x \in Items /\ layers[l].values[x] \in Values \union {UNSET}
    BY <1>1, <1>3 DEF LayerType, ItemType
  <2> QED BY <1>10, <1>11, <2>1, CmdTypes
<1>14. \A m \in S : m.op = "LAYER_SET"
  BY <1>10, <1>11 DEF LayerSetValue, Cmd
<1>15. Distinct(S) /\ \A k \in KeysOf(S) : k[1] = "LAYER_SET"
  BY <1>14 DEF Distinct, KeysOf, Key
<1>16. PICK K : K = [d \in Clients |-> IF d = c THEN KeysOf(S) ELSE {}]
  OBVIOUS
<1>17. Sent(K)
  <2>1. S = {LayerSetValue(l, x, layers[l].values[x]) : x \in set}
    BY <1>10, <1>11
  <2>2. Push([d \in Clients |-> IF d # c THEN <<>> ELSE SetToSeq(S)])
    BY <1>2, <2>1
  <2> QED BY <1>12, <1>13, <1>15, <1>16, <2>2, SentSet
<1>18. NetInv'
  BY <1>2, <1>17, SentTypes, CommandNet DEF NetInv
<1>19. \A d \in Clients : \A k \in K[d] : k[1] \in {"LAYER_SET", "LAYER_UNSET"}
  BY <1>15, <1>16
<1>20. Told
  BY <1>2, <1>8, <1>17, <1>19, ToldItems DEF Command, LayersAlike
<1> QED BY <1>8, <1>9, <1>18, <1>20 DEF LayersAlike

LEMMA LayerUnsubscribeInductive ==
  ASSUME DataInv, NetInv, NEW c \in Clients, NEW l \in Ids, HandleLayerUnsubscribe(c, l)
  PROVE  DataInv' /\ NetInv' /\ Unaffected /\ SameLayers
<1>1. /\ Command(c) /\ c \in Leavers
      /\ layers' = [layers EXCEPT ![l].subs = @ \ {c}]
      /\ view' = [view EXCEPT ![c].values[l] = NoItems]
      /\ UNCHANGED <<first_free, node_alive, locked, node_subs, net, out_queue>>
  BY DEF HandleLayerUnsubscribe
<1>2. PICK e, T, r : e = layers[l] /\ T = e.subs \ {c} /\ r = WithSubs(e, T)
  OBVIOUS
<1>3. LayerSound(e, node_subs) /\ node_subs \subseteq Clients /\ e \in LayerType
  BY <1>2, KeptLayers DEF DataInv, LayerSound
<1>4. T \subseteq node_subs
  BY <1>2, <1>3 DEF LayerSound
<1>5. LayerSound(r, node_subs) /\ Alike(e, r)
  BY <1>2, <1>3, <1>4, SubsSound
<1>6. layers' = [layers EXCEPT ![l] = r]
  BY <1>1, <1>2 DEF WithSubs
<1>7. Sound(layers', node_subs) /\ LayersAlike
  <2>1. OneLayer(layers, layers', l, r)
    BY <1>6 DEF OneLayer
  <2> QED BY <1>2, <1>5, <2>1, OneAlike
<1>8. DataInv'
  BY <1>1, <1>7 DEF DataInv
<1>9. PICK w, u : w = view[c] /\ u = [w EXCEPT !.values[l] = NoItems]
  OBVIOUS
<1>10. u \in ViewType
  <2>1. w \in ViewType /\ [w.values EXCEPT ![l] = NoItems] \in [Ids -> ItemType]
    BY <1>9, FreeLayerSound DEF NetInv, ViewType
  <2>2. u = [known |-> w.known, parent |-> w.parent, values |-> [w.values EXCEPT ![l] = NoItems]]
    BY <1>9, <2>1 DEF ViewType
  <2> QED BY <2>1, <2>2 DEF ViewType
<1>11. view' = [view EXCEPT ![c] = u]
  BY <1>1, <1>9
<1>12. view' \in [Clients -> ViewType] /\ \A d \in Clients \ {c} : view'[d] = view[d]
  BY <1>10, <1>11 DEF NetInv
<1>13. Unaffected
  BY <1>1, <1>7, <1>12, StayersAre DEF Unaffected, Command, LayersAlike
<1> QED BY <1>1, <1>7, <1>8, <1>12, <1>13, CommandNet DEF NetInv, LayersAlike

LEMMA SetValueInductive ==
  ASSUME DataInv, NetInv, NEW c \in Clients, NEW l \in Ids, NEW x \in Items, NEW v \in Values,
         HandleLayerSetValue(c, l, x, v)
  PROVE  DataInv' /\ NetInv' /\ Told /\ SameLayers
<1>1. /\ Command(c)
      /\ layers' = [layers EXCEPT ![l].values[x] = v]
      /\ PushTo(layers[l].subs, LayerSetValue(l, x, v))
      /\ UNCHANGED <<first_free, node_alive, locked, node_subs, view>>
  BY DEF HandleLayerSetValue
<1>2. PICK e, r : e = layers[l] /\ r = WithValue(e, x, v)
  OBVIOUS
<1>3. LayerSound(r, node_subs) /\ Alike(e, r)
  <2>1. LayerSound(e, node_subs) /\ node_subs \subseteq Clients
    BY <1>2, KeptLayers DEF DataInv
  <2> QED BY <1>2, <2>1, ValueSound
<1>4. layers' = [layers EXCEPT ![l] = r]
  BY <1>1, <1>2 DEF WithValue
<1>5. Sound(layers', node_subs) /\ LayersAlike
  <2>1. OneLayer(layers, layers', l, r)
    BY <1>4 DEF OneLayer
  <2> QED BY <1>2, <1>3, <2>1, OneAlike
<1>6. DataInv'
  BY <1>1, <1>5 DEF DataInv
<1>7. PICK m, C, K : /\ m = LayerSetValue(l, x, v) /\ C = layers[l].subs
                     /\ K = [d \in Clients |-> IF d \in C THEN {Key(m)} ELSE {}]
  OBVIOUS
<1>8. m \in Cmds /\ Key(m)[1] = "LAYER_SET" /\ PushTo(C, m)
  BY <1>1, <1>7, CmdTypes DEF Key, LayerSetValue, Cmd
<1>9. Sent(K)
  BY <1>7, <1>8, SentTo
<1>10. NetInv'
  BY <1>1, <1>9, SentTypes, CommandNet DEF NetInv
<1>11. \A d \in Clients : \A k \in K[d] : k[1] \in {"LAYER_SET", "LAYER_UNSET"}
  BY <1>7, <1>8
<1>12. Told
  BY <1>1, <1>5, <1>9, <1>11, ToldItems DEF Command, LayersAlike
<1> QED BY <1>5, <1>6, <1>10, <1>12 DEF LayersAlike

LEMMA UnsetValueInductive ==
  ASSUME DataInv, NetInv, NEW c \in Clients, NEW l \in Ids, NEW x \in Items,
         HandleLayerUnsetValue(c, l, x)
  PROVE  DataInv' /\ NetInv' /\ Told /\ SameLayers
<1>1. PICK all : all = UnsetIn(l, x)
  OBVIOUS
<1>2. /\ Command(c)
      /\ layers' = [k \in Ids |-> IF k \in all THEN [layers[k] EXCEPT !.values[x] = UNSET]
                                               ELSE layers[k]]
      /\ PushTo(TellUnset(l), LayerUnsetValue(l, x))
      /\ UNCHANGED <<first_free, node_alive, locked, node_subs, view>>
  BY <1>1 DEF HandleLayerUnsetValue
<1>3. ASSUME NEW k \in Ids
      PROVE  /\ LayerSound(layers'[k], node_subs) /\ layers'[k].parent = layers[k].parent
             /\ layers'[k].state = layers[k].state /\ layers'[k].folls = layers[k].folls
  <2>1. PICK e, r : e = layers[k] /\ r = WithValue(e, x, UNSET)
    OBVIOUS
  <2>2. layers'[k] = IF k \in all THEN r ELSE e
    BY <1>2, <2>1 DEF WithValue
  <2>3. LayerSound(e, node_subs) /\ node_subs \subseteq Clients
    BY <2>1, KeptLayers DEF DataInv
  <2>4. LayerSound(r, node_subs) /\ Alike(e, r)
    BY <2>1, <2>3, ValueSound
  <2> QED BY <2>1, <2>2, <2>3, <2>4 DEF Alike
<1>4. Kept(layers, layers', node_subs)
  BY <1>2, <1>3 DEF Kept, LayerSound
<1>5. DataInv'
  BY <1>2, <1>4, SoundKept DEF DataInv
<1>6. PICK m, C, K : /\ m = LayerUnsetValue(l, x) /\ C = TellUnset(l)
                     /\ K = [d \in Clients |-> IF d \in C THEN {Key(m)} ELSE {}]
  OBVIOUS
<1>7. m \in Cmds /\ Key(m)[1] = "LAYER_UNSET" /\ PushTo(C, m)
  BY <1>2, <1>6, CmdTypes DEF Key, LayerUnsetValue, Cmd
<1>8. Sent(K)
  BY <1>6, <1>7, SentTo
<1>9. NetInv'
  BY <1>2, <1>8, SentTypes, CommandNet DEF NetInv
<1>10. \A d \in Clients : \A k \in K[d] : k[1] \in {"LAYER_SET", "LAYER_UNSET"}
  BY <1>6, <1>7
<1>11. \A d \in Clients, k \in Ids : layers'[k].folls[d] = layers[k].folls[d]
  BY <1>3
<1>12. Told
  BY <1>2, <1>8, <1>10, <1>11, ToldItems DEF Command
<1> QED BY <1>3, <1>5, <1>9, <1>12 DEF SameLayers

-----------------------------------------------------------------------------
(* Acknowledgements.                                                       *)

(* Layer e in a state, with client c as a follower in another.             *)
Answered(e, c, f, s) == [e EXCEPT !.folls[c] = f, !.state = s]

LEMMA AnsweredSound ==
  ASSUME NEW N, NEW e, LayerSound(e, N), NEW c \in Clients, NEW f \in States, NEW s \in States,
         f # NONE => c \in N, s # NONE, NEW r, r = Answered(e, c, f, s)
  PROVE  /\ LayerSound(r, N) /\ r.parent = e.parent /\ r.state = s
         /\ \A d \in Clients : r.folls[d] = IF d = c THEN f ELSE e.folls[d]
<1>1. e \in LayerType /\ e.subs \subseteq N /\ \A d \in Clients : e.folls[d] # NONE => d \in N /\ e.state # NONE
  BY DEF LayerSound
<1>2. /\ r.state = s /\ r.type = e.type /\ r.parent = e.parent /\ r.subs = e.subs
      /\ r.values = e.values /\ r.folls = [e.folls EXCEPT ![c] = f]
      /\ r = [state |-> r.state, type |-> r.type, parent |-> r.parent, folls |-> r.folls,
              subs |-> r.subs, values |-> r.values]
  BY <1>1 DEF Answered, LayerType
<1>3. /\ r.folls \in [Clients -> States]
      /\ \A d \in Clients : r.folls[d] = IF d = c THEN f ELSE e.folls[d]
  BY <1>1, <1>2 DEF LayerType
<1>4. r \in LayerType
  BY <1>1, <1>2, <1>3 DEF LayerType
<1> QED BY <1>1, <1>2, <1>3, <1>4 DEF LayerSound

LEMMA FakeCmdLayer ==
  ASSUME NetInv, NEW c \in Clients, NEW m \in acks[c]
  PROVE  /\ m.layer \in Ids
         /\ m.op = "LAYER_CREATE_ACK" => m = LayerCreateAck(m.layer)
         /\ m.op = "LAYER_DESTROY_ACK" => m = LayerDestroyAck(m.layer)
<1>1. m \in FakeCmds
  BY DEF NetInv
<1> QED BY <1>1 DEF FakeCmds, LayerCreateAck, LayerDestroyAck, Cmd

LEMMA FakeCmdsDiffer ==
  \A k, l : /\ LayerCreateAck(k) # LayerDestroyAck(l)
            /\ LayerCreateAck(k) = LayerCreateAck(l) => k = l
            /\ LayerDestroyAck(k) = LayerDestroyAck(l) => k = l
BY DEF LayerCreateAck, LayerDestroyAck, Cmd

LEMMA AckedLeaves ==
  ASSUME NetInv, NEW c \in Clients, NEW m, Acked(c, m)
  PROVE  \A d \in Clients : \A x : x \in acks'[d] <=> x \in acks[d] /\ ~(d = c /\ x = m)
BY DEF NetInv, Acked

LEMMA CreateAckInductive ==
  ASSUME DataInv, NetInv, NEW c \in Clients, NEW m \in acks[c], HandleLayerCreateAck(c, m)
  PROVE  /\ DataInv' /\ NetInv' /\ SameLayers
         /\ (c \in Stayers => layers[m.layer].folls[c] = CREATING) => Told
<1>1. PICK l, e, own : /\ l = m.layer /\ e = layers[l]
                       /\ own = IF DestroyNow(e, c) THEN DELETING
                                ELSE IF e.folls[c] = CREATING THEN CREATED ELSE e.folls[c]
  OBVIOUS
<1>2. PICK all_created \in BOOLEAN : all_created <=> (DestroyNow(e, c) \/ own \in {NONE, CREATED})
  OBVIOUS
<1>3. /\ Acked(c, m)
      /\ layers' = IF e.state = NONE THEN layers
                   ELSE [layers EXCEPT ![l].folls[c] = own,
                                       ![l].state = IF all_created THEN CREATED ELSE @]
      /\ PushTo(IF DestroyNow(e, c) THEN {c} ELSE {}, LayerDestroy(l))
  BY <1>1, <1>2 DEF HandleLayerCreateAck
<1>4. l \in Ids /\ LayerSound(e, node_subs) /\ e \in LayerType
  BY <1>1, FakeCmdLayer, KeptLayers DEF LayerSound
<1>5. PICK s, r : s = (IF all_created THEN CREATED ELSE e.state) /\ r = Answered(e, c, own, s)
  OBVIOUS
<1>6. own \in States /\ s \in States /\ (own # NONE => c \in node_subs)
  <2>1. e.folls[c] \in States /\ e.state \in States /\ (e.folls[c] # NONE => c \in node_subs)
    BY <1>4 DEF LayerSound, LayerType
  <2> QED BY <1>1, <1>5, <2>1 DEF DestroyNow, States, NONE, CREATING, CREATED, DELETING
<1>7. LayerDestroy(l) \in Cmds
  BY <1>4, CmdTypes
<1>8. NetInv'
  BY <1>3, <1>7, PushToTypes, AckedNet
<1>9. /\ DataInv' /\ SameLayers
      /\ \A k \in Ids, d \in Clients :
           layers'[k].folls[d] = IF k = l /\ d = c /\ e.state # NONE THEN own ELSE layers[k].folls[d]
  <2>1. CASE e.state = NONE
    <3>1. layers' = layers
      BY <1>3, <2>1
    <3> QED BY <1>3, <2>1, <3>1 DEF DataInv, Acked, SameLayers
  <2>2. CASE e.state # NONE
    <3>1. s # NONE
      BY <1>5, <2>2 DEF NONE, CREATED
    <3>2. /\ LayerSound(r, node_subs) /\ r.parent = e.parent /\ r.state = s
          /\ \A d \in Clients : r.folls[d] = IF d = c THEN own ELSE e.folls[d]
      BY <1>4, <1>5, <1>6, <3>1, AnsweredSound
    <3>3. OneLayer(layers, layers', l, r)
      <4>1. layers' = [layers EXCEPT ![l].folls[c] = own, ![l].state = IF all_created THEN CREATED ELSE @]
        BY <1>3, <2>2
      <4>2. layers \in [Ids -> LayerType] /\ layers[l] = e
        BY <1>1, KeptLayers
      <4> QED BY <1>4, <1>5, <4>1, <4>2 DEF Answered, LayerType, OneLayer
    <3>4. Sound(layers', node_subs) /\ \A k \in Ids : layers'[k] = IF k = l THEN r ELSE layers[k]
      BY <1>1, <1>4, <3>1, <3>2, <3>3, OneLayerStep
    <3>5. DataInv'
      BY <1>3, <3>4 DEF DataInv, Acked
    <3>6. SameLayers
      BY <1>1, <2>2, <3>1, <3>2, <3>4 DEF SameLayers
    <3> QED BY <1>1, <2>2, <3>2, <3>4, <3>5, <3>6
  <2> QED BY <2>1, <2>2
<1>10. PICK x, C, K : /\ x = LayerDestroy(l) /\ C = (IF DestroyNow(e, c) THEN {c} ELSE {})
                      /\ K = [d \in Clients |-> IF d \in C THEN {Key(x)} ELSE {}]
  OBVIOUS
<1>11. Sent(K) /\ Key(x) = DestroyKey(l)
  <2>1. PushTo(C, x) /\ x \in Cmds
    BY <1>3, <1>7, <1>10
  <2>2. Key(x) = DestroyKey(l)
    BY <1>10 DEF Key, LayerDestroy, Cmd, DestroyKey
  <2> QED BY <1>10, <2>1, <2>2, SentTo
<1>12. ASSUME c \in Stayers => e.folls[c] = CREATING, NEW d \in Stayers, NEW k \in Ids
       PROVE  LayerStep(d, k, K[d])
  <2>1. d \in Clients
    BY StayersAre
  <2>2. /\ CreateKey(k) \notin K[d]
        /\ DestroyKey(k) \in K[d] <=> d = c /\ k = l /\ DestroyNow(e, c)
    BY <1>10, <1>11, <2>1 DEF CreateKey, DestroyKey
  <2>3. /\ LayerCreateAck(k) \in acks'[d] <=> LayerCreateAck(k) \in acks[d] /\ ~(d = c /\ k = l)
        /\ LayerDestroyAck(k) \in acks'[d] <=> LayerDestroyAck(k) \in acks[d]
    <3>1. m = LayerCreateAck(l)
      BY <1>1, FakeCmdLayer DEF HandleLayerCreateAck
    <3> QED BY <1>3, <2>1, <3>1, AckedLeaves, FakeCmdsDiffer
  <2>4. CASE d = c /\ k = l
    <3>1. e.folls[c] = CREATING /\ e.state # NONE
      BY <1>4, <1>12, <2>4 DEF LayerSound, NONE, CREATING
    <3>2. LayerCreateAck(l) \in acks[c]
      BY <1>1, FakeCmdLayer DEF HandleLayerCreateAck
    <3>3. layers'[k].folls[d] = IF DestroyNow(e, c) THEN "DELETING" ELSE "CREATED"
      BY <1>1, <1>9, <2>4, <3>1 DEF CREATED, DELETING
    <3> QED BY <2>2, <2>3, <2>4, <3>2, <3>3 DEF LayerStep, Transition
  <2>5. CASE ~(d = c /\ k = l)
    BY <1>9, <2>1, <2>2, <2>3, <2>5, FrameStep
  <2> QED BY <2>4, <2>5
<1>13. ASSUME c \in Stayers => e.folls[c] = CREATING PROVE Told
  BY <1>3, <1>11, <1>12, <1>13 DEF Told, Acked
<1> QED BY <1>1, <1>8, <1>9, <1>13

LEMMA DestroyAckInductive ==
  ASSUME DataInv, NetInv, NEW c \in Clients, NEW m \in acks[c], HandleLayerDestroyAck(c, m)
  PROVE  /\ DataInv' /\ NetInv' /\ Told
         /\ SameLayers \/ (LastFollower(layers[m.layer], c) /\ Freed(m.layer))
<1>1. PICK l, e : l = m.layer /\ e = layers[l]
  OBVIOUS
<1> DEFINE Orphan(k) == IF k.parent = l THEN [k EXCEPT !.parent = RESERVED_LAYER_ID] ELSE k
<1>2. /\ Acked(c, m)
      /\ layers' = IF ~Exists(l) THEN layers
                   ELSE IF LastFollower(e, c)
                     THEN [k \in Ids |-> IF k = l THEN FreeLayer ELSE Orphan(layers[k])]
                     ELSE [layers EXCEPT ![l].folls[c] = NONE]
      /\ UNCHANGED <<net, out_queue>>
  BY <1>1 DEF HandleLayerDestroyAck
<1>3. l \in Ids /\ LayerSound(e, node_subs) /\ e \in LayerType
  BY <1>1, FakeCmdLayer, KeptLayers DEF LayerSound
<1>4. NetInv'
  BY <1>2, AckedNet DEF NetInv
<1> DEFINE Cleared == \A k \in Ids, d \in Clients :
                        layers'[k].folls[d] = IF k = l /\ d = c THEN NONE ELSE layers[k].folls[d]
           Result == DataInv' /\ Cleared /\ (SameLayers \/ (LastFollower(e, c) /\ Freed(l)))
<1>8. ASSUME ~Exists(l) PROVE Result
  <2>1. layers' = layers
    BY <1>2, <1>8
  <2>2. \A d \in Clients : e.folls[d] = NONE
    BY <1>1, <1>3, <1>8 DEF LayerSound, Exists
  <2>3. Cleared
    BY <1>1, <2>1, <2>2
  <2>4. DataInv' /\ SameLayers
    BY <1>2, <2>1 DEF DataInv, Acked, SameLayers
  <2> QED BY <2>3, <2>4
<1>5. ASSUME NEW k \in Ids
      PROVE  /\ LayerSound(Orphan(layers[k]), node_subs)
             /\ Orphan(layers[k]).parent = IF layers[k].parent = l THEN RESERVED_LAYER_ID
                                           ELSE layers[k].parent
             /\ Orphan(layers[k]).state = layers[k].state
             /\ Orphan(layers[k]).folls = layers[k].folls
  <2>1. PICK f, r : f = layers[k] /\ r = Orphan(f)
    OBVIOUS
  <2>2. /\ f \in LayerType /\ f.subs \subseteq node_subs
        /\ \A d \in Clients : f.folls[d] # NONE => d \in node_subs /\ f.state # NONE
    BY <2>1, KeptLayers DEF LayerSound
  <2>3. /\ r.state = f.state /\ r.type = f.type /\ r.subs = f.subs
        /\ r.parent = IF f.parent = l THEN RESERVED_LAYER_ID ELSE f.parent
        /\ r.values = f.values /\ r.folls = f.folls
        /\ r = [state |-> r.state, type |-> r.type, parent |-> r.parent, folls |-> r.folls,
                subs |-> r.subs, values |-> r.values]
    BY <2>1, <2>2 DEF LayerType
  <2>4. r \in LayerType
    BY <2>2, <2>3, IdsType DEF LayerType
  <2> QED BY <2>1, <2>2, <2>3, <2>4 DEF LayerSound
<1>6. ASSUME Exists(l) /\ LastFollower(e, c) PROVE Result
  <2> HIDE DEF Orphan
  <2>1. layers' = [k \in Ids |-> IF k = l THEN FreeLayer ELSE Orphan(layers[k])]
    BY <1>2, <1>6
  <2>2. layers' \in [Ids -> LayerType] /\ \A k \in Ids : LayerSound(layers'[k], node_subs)
    BY <1>5, <2>1, FreeLayerSound DEF LayerSound
  <2>3. ASSUME NEW k \in Ids, layers'[k].parent # RESERVED_LAYER_ID
        PROVE  layers'[layers'[k].parent].state # NONE
    <3>1. k # l /\ layers'[k] = Orphan(layers[k])
      BY <2>1, <2>3, FreeLayerSound
    <3>2. PICK p : p = layers[k].parent
      OBVIOUS
    <3>3. layers'[k].parent = p /\ p # l /\ p # RESERVED_LAYER_ID
      BY <1>5, <2>3, <3>1, <3>2
    <3>4. p \in Ids /\ layers[p].state # NONE
      BY <3>2, <3>3 DEF DataInv, Sound, LayerType
    <3>5. layers'[p] = Orphan(layers[p])
      BY <2>1, <3>3, <3>4
    <3>6. layers'[p].state # NONE
      BY <1>5, <3>4, <3>5
    <3> QED BY <3>3, <3>6
  <2>4. Sound(layers', node_subs)
    BY <2>2, <2>3 DEF Sound
  <2>5. DataInv'
    BY <1>2, <2>4 DEF DataInv, Acked
  <2>6. Cleared
    <3>1. \A d \in Clients : FreeLayer.folls[d] = NONE
      BY DEF FreeLayer
    <3>2. \A d \in Clients : d # c => e.folls[d] = NONE
      BY <1>6 DEF LastFollower, Followers
    <3> QED BY <1>1, <1>5, <2>1, <3>1, <3>2
  <2>7. Freed(l)
    <3>1. FreeLayer.state = NONE
      BY DEF FreeLayer
    <3> QED BY <1>3, <1>5, <1>6, <2>1, <3>1 DEF Freed, Exists
  <2> QED BY <1>6, <2>5, <2>6, <2>7
<1>7. ASSUME Exists(l) /\ ~LastFollower(e, c) PROVE Result
  <2>1. PICK s, r : s = e.state /\ r = Answered(e, c, NONE, s)
    OBVIOUS
  <2>2. layers' = [layers EXCEPT ![l].folls[c] = NONE]
    BY <1>2, <1>7
  <2>3. OneLayer(layers, layers', l, r)
    BY <1>1, <1>3, <2>1, <2>2 DEF Answered, LayerType, OneLayer
  <2>4. s \in States /\ NONE \in States /\ s # NONE
    BY <1>1, <1>3, <1>7, <2>1 DEF LayerType, States, Exists
  <2>5. /\ LayerSound(r, node_subs) /\ r.parent = e.parent /\ r.state = s
        /\ \A d \in Clients : r.folls[d] = IF d = c THEN NONE ELSE e.folls[d]
    BY <1>3, <2>1, <2>4, AnsweredSound
  <2>6. Sound(layers', node_subs) /\ \A k \in Ids : layers'[k] = IF k = l THEN r ELSE layers[k]
    BY <1>1, <1>3, <2>4, <2>5, <2>3, OneLayerStep
  <2>7. DataInv'
    BY <1>2, <2>6 DEF DataInv, Acked
  <2>8. Cleared
    BY <1>1, <2>5, <2>6
  <2>9. SameLayers
    BY <1>1, <2>1, <2>5, <2>6 DEF SameLayers
  <2> QED BY <2>7, <2>8, <2>9
<1>9. DataInv' /\ (SameLayers \/ (LastFollower(e, c) /\ Freed(l)))
  <2> HIDE DEF Cleared
  <2> QED BY <1>6, <1>7, <1>8
<1>10. Cleared
  <2> HIDE DEF Cleared
  <2> QED BY <1>6, <1>7, <1>8
<1>11. PICK K : K = [d \in Clients |-> {}]
  OBVIOUS
<1>12. Sent(K)
  BY <1>2, <1>11, SentNone
<1>13. ASSUME NEW d \in Stayers, NEW k \in Ids PROVE LayerStep(d, k, K[d])
  <2>1. d \in Clients
    BY StayersAre
  <2>2. CreateKey(k) \notin K[d] /\ DestroyKey(k) \notin K[d]
    BY <1>11, <2>1
  <2>3. /\ LayerDestroyAck(k) \in acks'[d] <=> LayerDestroyAck(k) \in acks[d] /\ ~(d = c /\ k = l)
        /\ LayerCreateAck(k) \in acks'[d] <=> LayerCreateAck(k) \in acks[d]
    <3>1. m = LayerDestroyAck(l)
      BY <1>1, FakeCmdLayer DEF HandleLayerDestroyAck
    <3> QED BY <1>2, <2>1, <3>1, AckedLeaves, FakeCmdsDiffer
  <2>4. CASE d = c /\ k = l
    <3>1. LayerDestroyAck(l) \in acks[c] /\ layers'[k].folls[d] = "NONE"
      BY <1>1, <1>10, <2>1, <2>4, FakeCmdLayer DEF HandleLayerDestroyAck, NONE
    <3> QED BY <2>2, <2>3, <2>4, <3>1 DEF LayerStep, Transition
  <2>5. CASE ~(d = c /\ k = l)
    BY <1>10, <2>1, <2>2, <2>3, <2>5, FrameStep
  <2> QED BY <2>4, <2>5
<1>14. Told
  BY <1>2, <1>12, <1>13 DEF Told, Acked
<1> QED BY <1>1, <1>4, <1>9, <1>14

-----------------------------------------------------------------------------
(* Commands that are sent and arrive.                                      *)

LEMMA DeliverInductive ==
  ASSUME DataInv, NetInv, NEW c \in Clients, Deliver(c)
  PROVE  DataInv' /\ NetInv'
<1>1. /\ view \in [Clients -> ViewType] /\ acks \in [Clients -> SUBSET FakeCmds]
      /\ view[c] \in ViewType /\ acks[c] \subseteq FakeCmds
      /\ wire \in [Clients -> Seq(Cmds)] /\ out_queue \in [Clients -> Seq(Cmds)]
      /\ wire[c] \in Seq(Cmds) /\ out_queue[c] \in Seq(Cmds)
      /\ net \in [Clients -> SUBSET Cmds] /\ net[c] \subseteq Cmds
  BY DEF NetInv
<1>2. UNCHANGED serverVars
  BY DEF Deliver, DeliverDatagram, SendStream, DeliverStream
<1>3. DataInv'
  BY <1>2 DEF DataInv, serverVars
<1>4. ASSUME NEW m \in net[c], DeliverDatagram(c, m) PROVE NetInv'
  <2>1. m \in Cmds
    BY <1>1
  <2>2. v_cmd_fake_ack(m) \subseteq FakeCmds /\ Learned(view[c], m) \in ViewType
    BY <1>1, <2>1, FakeAckType, LearnedType
  <2>3. acks' \in [Clients -> SUBSET FakeCmds] /\ view' \in [Clients -> ViewType]
    BY <1>1, <1>4, <2>2 DEF DeliverDatagram
  <2>4. net' \in [Clients -> SUBSET Cmds]
    BY <1>1, <1>4 DEF DeliverDatagram
  <2> QED BY <1>4, <2>3, <2>4 DEF NetInv, DeliverDatagram
<1>5. ASSUME SendStream(c) PROVE NetInv'
  <2>1. PICK m, q, w : m = Head(out_queue[c]) /\ q = Tail(out_queue[c]) /\ w = Append(wire[c], m)
    OBVIOUS
  <2>2. m \in Cmds /\ q \in Seq(Cmds)
    BY <1>1, <1>5, <2>1, TailElements DEF SendStream
  <2>3. w \in Seq(Cmds) /\ v_cmd_fake_ack(m) \subseteq FakeCmds
    BY <1>1, <2>1, <2>2, FakeAckType
  <2>4. wire' \in [Clients -> Seq(Cmds)] /\ out_queue' \in [Clients -> Seq(Cmds)]
    BY <1>1, <1>5, <2>1, <2>2, <2>3 DEF SendStream
  <2>5. acks' \in [Clients -> SUBSET FakeCmds]
    BY <1>1, <1>5, <2>1, <2>3 DEF SendStream
  <2> QED BY <1>5, <2>4, <2>5 DEF NetInv, SendStream
<1>6. ASSUME DeliverStream(c) PROVE NetInv'
  <2>1. PICK m, q : m = Head(wire[c]) /\ q = Tail(wire[c])
    OBVIOUS
  <2>2. m \in Cmds /\ q \in Seq(Cmds)
    BY <1>1, <1>6, <2>1, TailElements DEF DeliverStream
  <2>3. Learned(view[c], m) \in ViewType
    BY <1>1, <2>2, LearnedType
  <2>4. wire' \in [Clients -> Seq(Cmds)] /\ view' \in [Clients -> ViewType]
    BY <1>1, <1>6, <2>1, <2>2, <2>3 DEF DeliverStream
  <2> QED BY <1>6, <2>4 DEF NetInv, DeliverStream
<1> QED BY <1>3, <1>4, <1>5, <1>6 DEF Deliver

-----------------------------------------------------------------------------
(* The keys of a sequence of commands.                                     *)

Keys(s) == [k \in DOMAIN s |-> Key(s[k])]
AllKeys == {Key(m) : m \in Cmds}

LEMMA KeysType ==
  ASSUME NEW s \in Seq(Cmds)
  PROVE  /\ Keys(s) \in Seq(AllKeys) /\ Len(Keys(s)) = Len(s)
         /\ DOMAIN s = 1..Len(s) /\ \A k \in 1..Len(s) : Keys(s)[k] = Key(s[k])
         /\ ToSet(Keys(s)) = KeysOf(ToSet(s))
<1>1. DOMAIN s = 1..Len(s) /\ Len(s) \in Nat /\ \A k \in 1..Len(s) : s[k] \in Cmds
  BY LenProperties, ElementOfSeq
<1>2. Keys(s) = [k \in 1..Len(s) |-> Key(s[k])]
  BY <1>1 DEF Keys
<1>3. \A k \in 1..Len(s) : Key(s[k]) \in AllKeys
  BY <1>1 DEF AllKeys
<1>4. Keys(s) \in Seq(AllKeys) /\ Len(Keys(s)) = Len(s) /\ DOMAIN Keys(s) = 1..Len(s)
  BY <1>1, <1>2, <1>3
<1>5. ToSet(Keys(s)) = KeysOf(ToSet(s))
  BY <1>1, <1>2, <1>4 DEF ToSet, KeysOf
<1> QED BY <1>1, <1>2, <1>4, <1>5

LEMMA KeysConcat ==
  ASSUME NEW p \in Seq(Cmds), NEW q \in Seq(Cmds)
  PROVE  Keys(p \o q) = Keys(p) \o Keys(q)
<1>1. PICK s, t : s = p \o q /\ t = Keys(p) \o Keys(q)
  OBVIOUS
<1>2. /\ s \in Seq(Cmds) /\ Len(s) = Len(p) + Len(q)
      /\ \A i \in 1..Len(s) : s[i] = IF i <= Len(p) THEN p[i] ELSE q[i - Len(p)]
  BY <1>1, ConcatProperties
<1>3. /\ t \in Seq(AllKeys) /\ Len(t) = Len(p) + Len(q)
      /\ \A i \in 1..Len(t) : t[i] = IF i <= Len(p) THEN Keys(p)[i] ELSE Keys(q)[i - Len(p)]
  <2>1. PICK u, v : u = Keys(p) /\ v = Keys(q)
    OBVIOUS
  <2>2. u \in Seq(AllKeys) /\ v \in Seq(AllKeys) /\ Len(u) = Len(p) /\ Len(v) = Len(q)
    BY <2>1, KeysType
  <2>3. /\ u \o v \in Seq(AllKeys) /\ Len(u \o v) = Len(u) + Len(v)
        /\ \A i \in 1..Len(u) + Len(v) : (u \o v)[i] = IF i <= Len(u) THEN u[i] ELSE v[i - Len(u)]
    BY <2>2, ConcatProperties
  <2>4. t = u \o v
    BY <1>1, <2>1
  <2> QED BY <2>1, <2>2, <2>3, <2>4
<1>4. Len(p) \in Nat /\ Len(q) \in Nat
  BY LenProperties
<1>5. Keys(s) \in Seq(AllKeys) /\ Len(Keys(s)) = Len(t)
  BY <1>2, <1>3, KeysType
<1>6. ASSUME NEW i \in 1..Len(t) PROVE Keys(s)[i] = t[i]
  <2>1. Keys(s)[i] = Key(s[i])
    BY <1>2, <1>3, KeysType
  <2>2. CASE i <= Len(p)
    <3>1. i \in 1..Len(p)
      BY <1>3, <1>4, <2>2
    <3>2. Keys(p)[i] = Key(p[i])
      BY <3>1, KeysType
    <3> QED BY <1>2, <1>3, <2>1, <2>2, <3>2
  <2>3. CASE ~(i <= Len(p))
    <3>1. i - Len(p) \in 1..Len(q)
      BY <1>3, <1>4, <2>3
    <3>2. Keys(q)[i - Len(p)] = Key(q[i - Len(p)])
      BY <3>1, KeysType
    <3> QED BY <1>2, <1>3, <2>1, <2>3, <3>2
  <2> QED BY <2>2, <2>3
<1>7. Keys(s) = t
  BY <1>3, <1>5, <1>6, SeqEqual
<1> QED BY <1>1, <1>7

LEMMA KeysTail ==
  ASSUME NEW q \in Seq(Cmds), q # <<>>
  PROVE  /\ Keys(q) # <<>> /\ Head(Keys(q)) = Key(Head(q)) /\ Tail(Keys(q)) = Keys(Tail(q))
<1>1. PICK t, u : t = Tail(q) /\ u = Keys(q)
  OBVIOUS
<1>2. /\ Len(q) \in Nat /\ Len(q) # 0 /\ t \in Seq(Cmds) /\ Len(t) = Len(q) - 1 /\ Head(q) = q[1]
      /\ \A i \in 1..Len(t) : t[i] = q[i + 1]
  BY <1>1, HeadTailProperties, LenProperties, EmptySeq
<1>3. u \in Seq(AllKeys) /\ Len(u) = Len(q) /\ \A k \in 1..Len(q) : u[k] = Key(q[k])
  BY <1>1, KeysType
<1>4. u # <<>>
  BY <1>2, <1>3
<1>5. /\ Tail(u) \in Seq(AllKeys) /\ Len(Tail(u)) = Len(u) - 1 /\ Head(u) = u[1]
      /\ \A i \in 1..Len(Tail(u)) : Tail(u)[i] = u[i + 1]
  BY <1>3, <1>4, HeadTailProperties
<1>6. Head(u) = Key(Head(q))
  BY <1>2, <1>3, <1>5
<1>7. Keys(t) \in Seq(AllKeys) /\ Len(Keys(t)) = Len(t) /\ \A k \in 1..Len(t) : Keys(t)[k] = Key(t[k])
  BY <1>2, KeysType
<1>8. ASSUME NEW i \in 1..Len(t) PROVE Tail(u)[i] = Keys(t)[i]
  <2>1. i + 1 \in 1..Len(q)
    BY <1>2
  <2> QED BY <1>2, <1>3, <1>5, <1>7, <2>1
<1>9. Tail(u) = Keys(t)
  BY <1>2, <1>3, <1>5, <1>7, <1>8, SeqEqual
<1> QED BY <1>1, <1>4, <1>6, <1>9

LEMMA KeysAppend ==
  ASSUME NEW w \in Seq(Cmds), NEW m \in Cmds
  PROVE  Keys(Append(w, m)) = Append(Keys(w), Key(m))
<1>1. PICK q : q = <<m>>
  OBVIOUS
<1>2. q \in Seq(Cmds) /\ Len(q) = 1 /\ q[1] = m /\ Append(w, m) = w \o q
  BY <1>1
<1>3. Keys(q) = <<Key(m)>>
  BY <1>2, KeysType DEF Keys
<1>4. Keys(w) \in Seq(AllKeys) /\ Key(m) \in AllKeys
  BY KeysType DEF AllKeys
<1>5. Append(Keys(w), Key(m)) = Keys(w) \o <<Key(m)>>
  BY <1>4
<1> QED BY <1>2, <1>3, <1>5, KeysConcat

LEMMA KeysOnce ==
  ASSUME NEW q \in Seq(Cmds), Distinct(ToSet(q)), \A m : Once(q, m), NEW l,
         NEW x \in {CreateKey(l), DestroyKey(l)}
  PROVE  Once(Keys(q), x)
<1> SUFFICES ASSUME NEW j \in DOMAIN Keys(q), NEW k \in DOMAIN Keys(q), Keys(q)[j] = x, Keys(q)[k] = x
             PROVE  j = k
  BY DEF Once
<1>1. j \in DOMAIN q /\ k \in DOMAIN q /\ Key(q[j]) = x /\ Key(q[k]) = x
  BY DEF Keys
<1>2. q[j] \in ToSet(q) /\ q[k] \in ToSet(q)
  BY <1>1 DEF ToSet
<1>3. q[j].op \in {"LAYER_CREATE", "LAYER_DESTROY"}
  BY <1>1 DEF Key, CreateKey, DestroyKey
<1>4. q[j] = q[k]
  BY <1>1, <1>2, <1>3 DEF Distinct
<1> QED BY <1>1, <1>4 DEF Once

-----------------------------------------------------------------------------
(* What a client that stays and the server know of the layers.             *)

Waiting(c) == KeysOf(net[c]) \union ToSet(Keys(out_queue[c]))

LayerPhase(c, l) ==
  Tracked(Waiting(c), Keys(out_queue[c]), Keys(wire[c]), acks[c], layers[l].folls[c],
          CreateKey(l), DestroyKey(l), LayerCreateAck(l), LayerDestroyAck(l), l, view[c].known)

(* A session uses datagrams or a stream.                                   *)
Channel(c) == IF c \in streams THEN net[c] = {} ELSE out_queue[c] = <<>> /\ wire[c] = <<>>

Followed(c) == Channel(c) /\ Distinct(net[c]) /\ \A l \in Ids : LayerPhase(c, l)

ReplicaInv == DataInv /\ NetInv /\ \A c \in Stayers : Followed(c)

LEMMA KeysDiffer ==
  \A k, l : /\ CreateKey(k) # DestroyKey(l)
            /\ CreateKey(k) = CreateKey(l) => k = l
            /\ DestroyKey(k) = DestroyKey(l) => k = l
BY DEF CreateKey, DestroyKey

LEMMA KeysOfUnion == \A S, T : KeysOf(S \union T) = KeysOf(S) \union KeysOf(T)
BY DEF KeysOf

LEMMA FollowedSame ==
  ASSUME NEW c \in Stayers, Followed(c), streams' = streams, net'[c] = net[c],
         out_queue'[c] = out_queue[c], wire'[c] = wire[c], acks'[c] = acks[c], view'[c] = view[c],
         \A l \in Ids : layers'[l].folls[c] = layers[l].folls[c]
  PROVE  Followed(c)'
<1>1. Channel(c)' /\ Distinct(net[c])'
  BY DEF Followed, Channel
<1>2. ASSUME NEW l \in Ids PROVE LayerPhase(c, l)'
  BY DEF Followed, LayerPhase, Waiting
<1> QED BY <1>1, <1>2 DEF Followed

(* Of a create or destroy command one copy is under way at a time.         *)
LEMMA OneAtATime ==
  ASSUME NEW H, NEW q, NEW w, NEW A, NEW B, NEW f, NEW g, NEW o,
         NEW create, NEW destroy, NEW created, NEW destroyed, NEW e, NEW V,
         Tracked(H, q, w, A, f, create, destroy, created, destroyed, e, V),
         Transition(f, g, o, A, B, create, destroy, created, destroyed)
  PROVE  ~(create \in H /\ create \in o) /\ ~(destroy \in H /\ destroy \in o)
<1>1. PICK K \in BOOLEAN : K <=> Outcome(w, create, destroy, e, V)
  OBVIOUS
<1> QED BY <1>1 DEF Tracked, Transition

(* A handler queues the commands with the keys K[c] for client c.          *)
LEMMA SentQueued ==
  ASSUME NetInv, NEW K, NEW out \in [Clients -> Seq(Cmds)], Push(out), NEW c \in Clients, Channel(c),
         KeysOf(ToSet(out[c])) = K[c], Distinct(ToSet(out[c])), \A m : Once(out[c], m)
  PROVE  \A l : \A x \in {CreateKey(l), DestroyKey(l)} :
           Queued(Waiting(c), Waiting(c)', Keys(out_queue[c]), Keys(out_queue'[c]), K[c], x)
<1>1. PICK q, o : q = out_queue[c] /\ o = out[c]
  OBVIOUS
<1>2. q \in Seq(Cmds) /\ o \in Seq(Cmds) /\ KeysOf(ToSet(o)) = K[c]
  BY <1>1 DEF NetInv
<1>3. /\ Keys(q) \in Seq(AllKeys) /\ Keys(o) \in Seq(AllKeys)
      /\ ToSet(Keys(o)) = K[c]
  BY <1>2, KeysType
<1>4. CASE c \in streams
  <2>1. net'[c] = net[c] /\ out_queue'[c] = q \o o
    BY <1>1, <1>4 DEF Push
  <2>2. PICK u, v : u = Keys(q) /\ v = Keys(o)
    OBVIOUS
  <2>3. Keys(out_queue'[c]) = u \o v
    BY <1>2, <2>1, <2>2, KeysConcat
  <2>4. ToSet(u \o v) = ToSet(u) \union ToSet(v)
    BY <1>3, <2>2, ConcatElements
  <2>5. Waiting(c) = KeysOf(net[c]) \union ToSet(u)
    BY <1>1, <2>2 DEF Waiting
  <2>6. Waiting(c)' = KeysOf(net[c]) \union ToSet(u) \union ToSet(v)
    BY <2>1, <2>3, <2>4 DEF Waiting
  <2>7. ASSUME NEW l, NEW x \in {CreateKey(l), DestroyKey(l)},
               Once(u, x), ~(x \in Waiting(c) /\ x \in K[c])
        PROVE  Once(u \o v, x)
    <3>1. Once(v, x)
      BY <1>1, <1>2, <2>2, KeysOnce
    <3>2. ~(x \in ToSet(u) /\ x \in ToSet(v))
      BY <1>3, <2>2, <2>5, <2>7
    <3> QED BY <1>3, <2>2, <2>7, <3>1, <3>2, ConcatOnce
  <2> QED BY <1>1, <1>3, <2>2, <2>3, <2>5, <2>6, <2>7 DEF Queued
<1>5. CASE c \notin streams
  <2>1. net'[c] = net[c] \union ToSet(o) /\ out_queue'[c] = q
    BY <1>1, <1>5 DEF Push
  <2>2. Waiting(c) = KeysOf(net[c]) \union ToSet(Keys(q))
    BY <1>1 DEF Waiting
  <2>3. Waiting(c)' = KeysOf(net[c]) \union K[c] \union ToSet(Keys(q))
    <3>1. PICK S, T : S = net[c] /\ T = ToSet(o)
      OBVIOUS
    <3>2. KeysOf(S \union T) = KeysOf(S) \union KeysOf(T)
      BY KeysOfUnion
    <3>3. KeysOf(net'[c]) = KeysOf(net[c]) \union K[c]
      BY <1>2, <2>1, <3>1, <3>2
    <3> QED BY <2>1, <3>3 DEF Waiting
  <2> QED BY <1>1, <2>1, <2>2, <2>3 DEF Queued
<1> QED BY <1>4, <1>5

LEMMA FollowedTold ==
  ASSUME NetInv, Told, NEW c \in Stayers, Followed(c)
  PROVE  Followed(c)'
<1>1. PICK K : /\ Sent(K) /\ UNCHANGED <<streams, wire>> /\ view'[c] = view[c]
               /\ \A l \in Ids : LayerStep(c, l, K[c])
  BY DEF Told
<1>2. c \in Clients /\ Channel(c) /\ Distinct(net[c]) /\ \A l \in Ids : LayerPhase(c, l)
  BY StayersAre DEF Followed
<1>3. PICK out \in [Clients -> Seq(Cmds)] :
        /\ Push(out) /\ KeysOf(ToSet(out[c])) = K[c] /\ Distinct(ToSet(out[c])) /\ \A m : Once(out[c], m)
  BY <1>1, <1>2 DEF Sent
<1>4. PICK H, I, q, r, w, A, B, o, V :
        /\ H = Waiting(c) /\ I = Waiting(c)' /\ q = Keys(out_queue[c]) /\ r = Keys(out_queue'[c])
        /\ w = Keys(wire[c]) /\ A = acks[c] /\ B = acks'[c] /\ o = K[c] /\ V = view[c].known
  OBVIOUS
<1>5. ASSUME NEW l \in Ids
      PROVE  /\ LayerPhase(c, l)'
             /\ ~(CreateKey(l) \in H /\ CreateKey(l) \in o) /\ ~(DestroyKey(l) \in H /\ DestroyKey(l) \in o)
  <2>1. PICK create, destroy, created, destroyed, f, g :
          /\ create = CreateKey(l) /\ destroy = DestroyKey(l)
          /\ created = LayerCreateAck(l) /\ destroyed = LayerDestroyAck(l)
          /\ f = layers[l].folls[c] /\ g = layers'[l].folls[c]
    OBVIOUS
  <2>2. Tracked(H, q, w, A, f, create, destroy, created, destroyed, l, V)
    BY <1>2, <1>4, <2>1 DEF LayerPhase
  <2>3. Transition(f, g, o, A, B, create, destroy, created, destroyed)
    BY <1>1, <1>4, <2>1 DEF LayerStep
  <2>4. Queued(H, I, q, r, o, create) /\ Queued(H, I, q, r, o, destroy)
    BY <1>2, <1>3, <1>4, <2>1, SentQueued
  <2>5. Tracked(I, r, w, B, g, create, destroy, created, destroyed, l, V)
    BY <2>2, <2>3, <2>4, TrackedQueued
  <2>6. ~(create \in H /\ create \in o) /\ ~(destroy \in H /\ destroy \in o)
    BY <2>2, <2>3, OneAtATime
  <2>7. w = Keys(wire'[c]) /\ V = view'[c].known
    BY <1>1, <1>4
  <2>8. LayerPhase(c, l)'
    BY <1>4, <2>1, <2>5, <2>7 DEF LayerPhase
  <2> QED BY <2>1, <2>6, <2>8
<1>6. Channel(c)'
  BY <1>1, <1>2, <1>3 DEF Channel, Push
<1>7. Distinct(net'[c])
  <2>1. CASE c \in streams
    BY <1>2, <1>3, <2>1 DEF Push
  <2>2. CASE c \notin streams
    <3>1. net'[c] = net[c] \union ToSet(out[c])
      BY <1>2, <1>3, <2>2 DEF Push
    <3>2. net[c] \subseteq Cmds
      BY <1>2 DEF NetInv
    <3>3. ASSUME NEW m \in net[c], NEW n \in ToSet(out[c]), Key(m) = Key(n),
                 m.op \in {"LAYER_CREATE", "LAYER_DESTROY"}
          PROVE  FALSE
      <4>1. m.layer \in Ids /\ Key(m) \in {CreateKey(m.layer), DestroyKey(m.layer)}
        BY <3>2, <3>3 DEF Cmds, Key, CreateKey, DestroyKey
      <4>2. Key(m) \in H /\ Key(m) \in o
        BY <1>3, <1>4, <3>3 DEF Waiting, KeysOf
      <4> QED BY <1>5, <4>1, <4>2
    <3>4. ASSUME NEW m \in net'[c], NEW n \in net'[c], Key(m) = Key(n),
                 m.op \in {"LAYER_CREATE", "LAYER_DESTROY"}
          PROVE  m = n
      <4>1. n.op = m.op
        BY <3>4 DEF Key
      <4> QED BY <1>2, <1>3, <3>1, <3>3, <3>4, <4>1 DEF Distinct
    <3> QED BY <3>4 DEF Distinct
  <2> QED BY <2>1, <2>2
<1> QED BY <1>5, <1>6, <1>7 DEF Followed

-----------------------------------------------------------------------------
(* The network, and what is known of the layers.                           *)

LEMMA FakeAckKeys ==
  ASSUME NEW m \in Cmds, NEW l
  PROVE  /\ LayerCreateAck(l) \in v_cmd_fake_ack(m) <=> Key(m) = CreateKey(l)
         /\ LayerDestroyAck(l) \in v_cmd_fake_ack(m) <=> Key(m) = DestroyKey(l)
<1>1. m.op \in {"LAYER_CREATE", "LAYER_DESTROY", "LAYER_SET", "LAYER_UNSET"}
  BY DEF Cmds
<1>2. /\ m.op = "LAYER_CREATE" => v_cmd_fake_ack(m) = {LayerCreateAck(m.layer)}
      /\ m.op = "LAYER_DESTROY" => v_cmd_fake_ack(m) = {LayerDestroyAck(m.layer)}
      /\ m.op \in {"LAYER_SET", "LAYER_UNSET"} => v_cmd_fake_ack(m) = {}
  BY DEF v_cmd_fake_ack
<1>3. /\ Key(m) = CreateKey(l) <=> m.op = "LAYER_CREATE" /\ m.layer = l
      /\ Key(m) = DestroyKey(l) <=> m.op = "LAYER_DESTROY" /\ m.layer = l
  BY DEF Key, CreateKey, DestroyKey
<1> QED BY <1>1, <1>2, <1>3, FakeCmdsDiffer

LEMMA LearnedKnown ==
  ASSUME NEW w \in ViewType, NEW m \in Cmds
  PROVE  /\ m.op = "LAYER_CREATE" => Learned(w, m).known = w.known \union {m.layer}
         /\ m.op = "LAYER_DESTROY" => Learned(w, m).known = w.known \ {m.layer}
         /\ m.op \in {"LAYER_SET", "LAYER_UNSET"} => Learned(w, m).known = w.known
BY DEF Learned, ViewType

LEMMA LayerTells ==
  ASSUME NEW w \in ViewType, NEW m \in Cmds, NEW V, V = w.known, NEW W, W = Learned(w, m).known, NEW l
  PROVE  Tells(Key(m), CreateKey(l), DestroyKey(l), l, V, W)
<1>1. m.op \in {"LAYER_CREATE", "LAYER_DESTROY", "LAYER_SET", "LAYER_UNSET"}
  BY DEF Cmds
<1>2. /\ Key(m) = CreateKey(l) <=> m.op = "LAYER_CREATE" /\ m.layer = l
      /\ Key(m) = DestroyKey(l) <=> m.op = "LAYER_DESTROY" /\ m.layer = l
  BY DEF Key, CreateKey, DestroyKey
<1>3. /\ m.op = "LAYER_CREATE" => W = V \union {m.layer}
      /\ m.op = "LAYER_DESTROY" => W = V \ {m.layer}
      /\ m.op \in {"LAYER_SET", "LAYER_UNSET"} => W = V
  BY LearnedKnown
<1> QED BY <1>1, <1>2, <1>3 DEF Tells

(* The fields of a client's channel when a datagram arrives.               *)
LEMMA FollowedDatagram ==
  ASSUME NetInv, NEW c \in Stayers, Followed(c), NEW m \in net[c], DeliverDatagram(c, m)
  PROVE  Followed(c)'
<1>1. /\ c \in Clients /\ Channel(c) /\ Distinct(net[c]) /\ \A l \in Ids : LayerPhase(c, l)
      /\ m \in Cmds /\ view[c] \in ViewType
  BY StayersAre DEF Followed, NetInv
<1>2. /\ c \notin streams /\ out_queue[c] = <<>> /\ wire[c] = <<>>
  BY <1>1 DEF Channel
<1>3. /\ net'[c] = net[c] \ {m} /\ acks'[c] = acks[c] \union v_cmd_fake_ack(m)
      /\ view'[c] = Learned(view[c], m) /\ UNCHANGED <<layers, streams, out_queue, wire>>
  BY <1>1 DEF DeliverDatagram, NetInv, serverVars
<1>4. Keys(<<>>) = <<>> /\ ToSet(<<>>) = {}
  BY DEF Keys, ToSet
<1>5. Channel(c)' /\ Distinct(net'[c])
  BY <1>1, <1>2, <1>3 DEF Channel, Distinct
<1>6. ASSUME NEW l \in Ids PROVE LayerPhase(c, l)'
  <2>1. PICK H, I, A, B, V, W, f, k :
          /\ H = Waiting(c) /\ I = Waiting(c)' /\ A = acks[c] /\ B = acks'[c]
          /\ V = view[c].known /\ W = view'[c].known /\ f = layers[l].folls[c] /\ k = Key(m)
    OBVIOUS
  <2>2. PICK create, destroy, created, destroyed :
          /\ create = CreateKey(l) /\ destroy = DestroyKey(l)
          /\ created = LayerCreateAck(l) /\ destroyed = LayerDestroyAck(l)
    OBVIOUS
  <2>3. Tracked(H, <<>>, <<>>, A, f, create, destroy, created, destroyed, l, V)
    BY <1>1, <1>2, <1>4, <2>1, <2>2 DEF LayerPhase
  <2>4. H = KeysOf(net[c]) /\ I = KeysOf(net[c] \ {m})
    BY <1>2, <1>3, <1>4, <2>1 DEF Waiting
  <2>5. ASSUME NEW x \in {create, destroy}
        PROVE  /\ k = x => x \in H /\ x \notin I
               /\ k # x => (x \in I <=> x \in H)
               /\ Once(<<>>, x)
    <3>1. k \in H
      BY <2>1, <2>4 DEF KeysOf
    <3>2. ASSUME k = x, NEW n \in net[c], Key(n) = x PROVE n = m
      <4>1. m.op \in {"LAYER_CREATE", "LAYER_DESTROY"}
        BY <2>1, <2>2, <2>5, <3>2 DEF Key, CreateKey, DestroyKey
      <4> QED BY <1>1, <2>1, <3>2, <4>1 DEF Distinct
    <3>3. k = x => x \notin I
      BY <2>4, <3>2 DEF KeysOf
    <3>4. k # x => (x \in I <=> x \in H)
      BY <2>1, <2>4 DEF KeysOf
    <3> QED BY <3>1, <3>3, <3>4 DEF Once
  <2>6. /\ created \in B <=> created \in A \/ k = create
        /\ destroyed \in B <=> destroyed \in A \/ k = destroy
    BY <1>1, <1>3, <2>1, <2>2, FakeAckKeys
  <2>7. Departed(H, I, <<>>, A, B, k, create, created) /\ Departed(H, I, <<>>, A, B, k, destroy, destroyed)
    BY <2>5, <2>6 DEF Departed
  <2>8. Tells(k, create, destroy, l, V, W)
    BY <1>1, <1>3, <2>1, <2>2, LayerTells
  <2>9. /\ Outcome(<<>>, create, destroy, l, V) <=> l \in V
        /\ Outcome(<<>>, create, destroy, l, W) <=> l \in W
    BY OutcomeEmpty
  <2>10. create # destroy
    BY <2>2, KeysDiffer
  <2>11. /\ k = create => Outcome(<<>>, create, destroy, l, W)
         /\ k = destroy => ~Outcome(<<>>, create, destroy, l, W)
         /\ k # create /\ k # destroy =>
              (Outcome(<<>>, create, destroy, l, W) <=> Outcome(<<>>, create, destroy, l, V))
    BY <2>8, <2>9 DEF Tells
  <2>12. Tracked(I, <<>>, <<>>, B, f, create, destroy, created, destroyed, l, W)
    BY <2>3, <2>7, <2>10, <2>11, TrackedSent
  <2> QED BY <1>2, <1>3, <1>4, <2>1, <2>2, <2>12 DEF LayerPhase
<1> QED BY <1>5, <1>6 DEF Followed

LEMMA FollowedSent ==
  ASSUME NetInv, NEW c \in Stayers, Followed(c), SendStream(c)
  PROVE  Followed(c)'
<1>1. /\ c \in Clients /\ Channel(c) /\ Distinct(net[c]) /\ \A l \in Ids : LayerPhase(c, l)
      /\ out_queue[c] \in Seq(Cmds) /\ wire[c] \in Seq(Cmds) /\ out_queue[c] # <<>>
  BY StayersAre DEF Followed, NetInv, SendStream
<1>2. c \in streams /\ net[c] = {}
  BY <1>1 DEF Channel
<1>3. PICK m, qq, ww : m = Head(out_queue[c]) /\ qq = out_queue[c] /\ ww = wire[c]
  OBVIOUS
<1>4. /\ m \in Cmds /\ qq \in Seq(Cmds) /\ qq # <<>> /\ ww \in Seq(Cmds) /\ m = Head(qq)
  BY <1>1, <1>3, TailElements
<1>5. /\ net'[c] = {} /\ acks'[c] = acks[c] \union v_cmd_fake_ack(m)
      /\ out_queue'[c] = Tail(qq) /\ wire'[c] = Append(ww, m)
      /\ UNCHANGED <<layers, streams, view>>
  BY <1>1, <1>2, <1>3 DEF SendStream, NetInv, serverVars
<1>6. Channel(c)' /\ Distinct(net'[c])
  BY <1>2, <1>5 DEF Channel, Distinct
<1>7. PICK q, r, w, u, k : /\ q = Keys(qq) /\ r = Keys(Tail(qq)) /\ w = Keys(ww)
                           /\ u = Keys(Append(ww, m)) /\ k = Key(m)
  OBVIOUS
<1>8. /\ q \in Seq(AllKeys) /\ q # <<>> /\ Head(q) = k /\ Tail(q) = r
      /\ w \in Seq(AllKeys) /\ u = Append(w, k) /\ k \in AllKeys
  <2>1. q # <<>> /\ Head(q) = k /\ Tail(q) = r
    BY <1>4, <1>7, KeysTail
  <2>2. u = Append(w, k)
    BY <1>4, <1>7, KeysAppend
  <2> QED BY <1>4, <1>7, <2>1, <2>2, KeysType DEF AllKeys
<1>9. /\ k \in ToSet(q) /\ ToSet(q) = {k} \union ToSet(r)
      /\ \A x : Once(q, x) => Once(r, x) /\ (x = k => x \notin ToSet(r))
  BY <1>8, TailElements
<1>10. Waiting(c) = ToSet(q) /\ Waiting(c)' = ToSet(r)
  BY <1>2, <1>3, <1>5, <1>7 DEF Waiting, KeysOf
<1>11. ASSUME NEW l \in Ids PROVE LayerPhase(c, l)'
  <2>1. PICK H, I, A, B, V, f :
          /\ H = ToSet(q) /\ I = ToSet(r) /\ A = acks[c] /\ B = acks'[c]
          /\ V = view[c].known /\ f = layers[l].folls[c]
    OBVIOUS
  <2>2. PICK create, destroy, created, destroyed :
          /\ create = CreateKey(l) /\ destroy = DestroyKey(l)
          /\ created = LayerCreateAck(l) /\ destroyed = LayerDestroyAck(l)
    OBVIOUS
  <2>3. Tracked(H, q, w, A, f, create, destroy, created, destroyed, l, V)
    BY <1>1, <1>3, <1>7, <1>10, <2>1, <2>2 DEF LayerPhase
  <2>4. Once(q, create) /\ Once(q, destroy)
    BY <2>3 DEF Tracked
  <2>5. /\ created \in B <=> created \in A \/ k = create
        /\ destroyed \in B <=> destroyed \in A \/ k = destroy
    BY <1>4, <1>5, <1>7, <2>1, <2>2, FakeAckKeys
  <2>6. Departed(H, I, r, A, B, k, create, created) /\ Departed(H, I, r, A, B, k, destroy, destroyed)
    BY <1>9, <2>1, <2>4, <2>5 DEF Departed
  <2>7. create # destroy
    BY <2>2, KeysDiffer
  <2>8. /\ k = create => Outcome(u, create, destroy, l, V)
        /\ k = destroy => ~Outcome(u, create, destroy, l, V)
        /\ k # create /\ k # destroy =>
             (Outcome(u, create, destroy, l, V) <=> Outcome(w, create, destroy, l, V))
    BY <1>8, <2>7, OutcomeAppend
  <2>9. Tracked(I, r, u, B, f, create, destroy, created, destroyed, l, V)
    BY <2>3, <2>6, <2>7, <2>8, TrackedSent
  <2> QED BY <1>5, <1>7, <1>10, <2>1, <2>2, <2>9 DEF LayerPhase
<1> QED BY <1>6, <1>11 DEF Followed

LEMMA FollowedArrived ==
  ASSUME NetInv, NEW c \in Stayers, Followed(c), DeliverStream(c)
  PROVE  Followed(c)'
<1>1. /\ c \in Clients /\ Channel(c) /\ Distinct(net[c]) /\ \A l \in Ids : LayerPhase(c, l)
      /\ wire[c] \in Seq(Cmds) /\ wire[c] # <<>> /\ view[c] \in ViewType
  BY StayersAre DEF Followed, NetInv, DeliverStream
<1>2. c \in streams /\ net[c] = {}
  BY <1>1 DEF Channel
<1>3. PICK m, ww : m = Head(wire[c]) /\ ww = wire[c]
  OBVIOUS
<1>4. m \in Cmds /\ ww \in Seq(Cmds) /\ ww # <<>> /\ m = Head(ww)
  BY <1>1, <1>3, TailElements
<1>5. /\ wire'[c] = Tail(ww) /\ view'[c] = Learned(view[c], m)
      /\ UNCHANGED <<layers, streams, net, out_queue, acks>>
  BY <1>1, <1>3 DEF DeliverStream, NetInv, serverVars
<1>6. Channel(c)' /\ Distinct(net'[c]) /\ Waiting(c)' = Waiting(c)
  BY <1>1, <1>2, <1>5 DEF Channel, Waiting
<1>7. PICK w, u, k : w = Keys(ww) /\ u = Keys(Tail(ww)) /\ k = Key(m)
  OBVIOUS
<1>8. w \in Seq(AllKeys) /\ w # <<>> /\ Head(w) = k /\ Tail(w) = u
  BY <1>4, <1>7, KeysTail, KeysType
<1>9. ASSUME NEW l \in Ids PROVE LayerPhase(c, l)'
  <2>1. PICK V, W, create, destroy : /\ V = view[c].known /\ W = view'[c].known
                                     /\ create = CreateKey(l) /\ destroy = DestroyKey(l)
    OBVIOUS
  <2>2. Tells(k, create, destroy, l, V, W) /\ create # destroy
    BY <1>1, <1>4, <1>5, <1>7, <2>1, LayerTells, KeysDiffer
  <2>3. Outcome(w, create, destroy, l, V) <=> Outcome(u, create, destroy, l, W)
    <3>1. k = Head(w)
      BY <1>8
    <3>2. (k = create => l \in W) /\ (k = destroy => l \notin W)
          /\ (k # create /\ k # destroy => (l \in W <=> l \in V))
      BY <2>2 DEF Tells
    <3>3. Outcome(w, create, destroy, l, V) <=> Outcome(Tail(w), create, destroy, l, W)
      BY <1>8, <2>2, <3>1, <3>2, OutcomeTail
    <3> QED BY <1>8, <3>3
  <2>4. /\ w = Keys(wire[c]) /\ u = Keys(wire'[c])
    BY <1>3, <1>5, <1>7
  <2> QED BY <1>1, <1>5, <1>6, <2>1, <2>3, <2>4 DEF LayerPhase, Tracked
<1> QED BY <1>6, <1>9 DEF Followed

LEMMA FollowedNetwork ==
  ASSUME NetInv, NEW c \in Stayers, Followed(c), NEW d \in Clients, Deliver(d)
  PROVE  Followed(c)'
<1>1. CASE d = c
  BY <1>1, FollowedDatagram, FollowedSent, FollowedArrived DEF Deliver
<1>2. CASE d # c
  <2>1. /\ UNCHANGED <<layers, streams>> /\ net'[c] = net[c] /\ out_queue'[c] = out_queue[c]
        /\ wire'[c] = wire[c] /\ acks'[c] = acks[c] /\ view'[c] = view[c]
    BY <1>2, StayersAre DEF Deliver, DeliverDatagram, SendStream, DeliverStream, serverVars, NetInv
  <2> QED BY <2>1, FollowedSame
<1> QED BY <1>1, <1>2

-----------------------------------------------------------------------------
(* Every step keeps the invariants.                                        *)

LEMMA Inductive == DataInv /\ NetInv /\ [Next]_vars => DataInv' /\ NetInv'
<1> SUFFICES ASSUME DataInv, NetInv, [Next]_vars PROVE DataInv' /\ NetInv'
  OBVIOUS
<1>1. CASE UNCHANGED vars
  BY <1>1 DEF vars, serverVars, DataInv, NetInv
<1>2. ASSUME NEW c \in Clients, ClientCommand(c) PROVE DataInv' /\ NetInv'
  BY <1>2, SubscribeInductive, UnsubscribeInductive, NodeDestroyInductive, LayerCreateInductive,
     LayerDestroyInductive, LayerSubscribeInductive, LayerUnsubscribeInductive,
     SetValueInductive, UnsetValueInductive DEF ClientCommand
<1>3. ASSUME NEW c \in Clients, FakeCommand(c) PROVE DataInv' /\ NetInv'
  BY <1>3, CreateAckInductive, DestroyAckInductive DEF FakeCommand
<1> QED BY <1>1, <1>2, <1>3, DisconnectInductive, DeliverInductive DEF Next

(* What a step does to the layers, and to what the clients know of them.   *)
StepCases ==
  \/ Unaffected /\ SameLayers
  \/ Told /\ SameLayers
  \/ Told /\ \E l \in Ids : Born(l)
  \/ Told /\ \E l \in Ids, c \in Clients :
       LayerDestroyAck(l) \in acks[c] /\ LastFollower(layers[l], c) /\ Freed(l)
  \/ \E c \in Clients : Deliver(c)

(* A client acknowledges the create command of a layer it is to be told.   *)
LEMMA AckOfCreating ==
  ASSUME ReplicaInv, NEW c \in Stayers, NEW m \in acks[c], m.op = "LAYER_CREATE_ACK"
  PROVE  layers[m.layer].folls[c] = CREATING
<1>1. c \in Clients /\ NetInv /\ Followed(c)
  BY StayersAre DEF ReplicaInv
<1>2. PICK l : l = m.layer
  OBVIOUS
<1>3. l \in Ids /\ m = LayerCreateAck(l)
  BY <1>1, <1>2, FakeCmdLayer
<1>4. LayerPhase(c, l)
  BY <1>1, <1>3 DEF Followed
<1>5. layers[l].folls[c] = "CREATING"
  <2>1. PICK K \in BOOLEAN : K <=> Outcome(Keys(wire[c]), CreateKey(l), DestroyKey(l), l, view[c].known)
    OBVIOUS
  <2>2. LayerCreateAck(l) \in acks[c]
    BY <1>3
  <2> QED BY <1>4, <2>1, <2>2 DEF LayerPhase, Tracked
<1> QED BY <1>2, <1>5 DEF CREATING

LEMMA EveryStep ==
  ASSUME ReplicaInv, [Next]_vars
  PROVE  DataInv' /\ NetInv' /\ StepCases
<1>1. DataInv /\ NetInv
  BY DEF ReplicaInv
<1>2. DataInv' /\ NetInv'
  BY <1>1, Inductive
<1>3. CASE UNCHANGED vars
  <2>1. UNCHANGED <<layers, streams, net, out_queue, wire, acks, view>>
    BY <1>3 DEF vars, serverVars
  <2>2. Unaffected /\ SameLayers
    BY <2>1 DEF Unaffected, SameLayers
  <2> QED BY <1>2, <2>2 DEF StepCases
<1>4. ASSUME NEW c \in Clients, ClientCommand(c) PROVE StepCases
  <2>1. CASE NodeSubscribe(c)
    BY <1>1, <2>1, SubscribeInductive DEF StepCases
  <2>2. CASE NodeUnsubscribe(c)
    BY <1>1, <2>2, UnsubscribeInductive DEF StepCases
  <2>3. CASE NodeDestroy(c) \/ HandleLayerCreateLate(c)
    BY <1>1, <2>3, NodeDestroyInductive DEF StepCases
  <2>4. ASSUME NEW p \in Ids, NEW type \in Types, HandleLayerCreate(c, p, type) PROVE StepCases
    BY <1>1, <2>4, LayerCreateInductive DEF StepCases
  <2>5. ASSUME NEW l \in Ids, HandleLayerDestroy(c, l) PROVE StepCases
    BY <1>1, <2>5, LayerDestroyInductive DEF StepCases
  <2>6. ASSUME NEW l \in Ids, HandleLayerSubscribe(c, l) PROVE StepCases
    BY <1>1, <2>6, LayerSubscribeInductive DEF StepCases
  <2>7. ASSUME NEW l \in Ids, HandleLayerUnsubscribe(c, l) PROVE StepCases
    BY <1>1, <2>7, LayerUnsubscribeInductive DEF StepCases
  <2>8. ASSUME NEW l \in Ids, NEW x \in Items, HandleLayerUnsetValue(c, l, x) PROVE StepCases
    BY <1>1, <2>8, UnsetValueInductive DEF StepCases
  <2>9. ASSUME NEW l \in Ids, NEW x \in Items, NEW v \in Values, HandleLayerSetValue(c, l, x, v)
        PROVE  StepCases
    BY <1>1, <2>9, SetValueInductive DEF StepCases
  <2> QED BY <1>4, <2>1, <2>2, <2>3, <2>4, <2>5, <2>6, <2>7, <2>8, <2>9 DEF ClientCommand
<1>5. ASSUME NEW c \in Clients, NEW m \in acks[c], HandleLayerCreateAck(c, m) PROVE StepCases
  <2>1. m.op = "LAYER_CREATE_ACK"
    BY <1>5 DEF HandleLayerCreateAck
  <2>2. c \in Stayers => layers[m.layer].folls[c] = CREATING
    BY <2>1, AckOfCreating
  <2>3. Told /\ SameLayers
    BY <1>1, <1>5, <2>2, CreateAckInductive
  <2> QED BY <2>3 DEF StepCases
<1>6. ASSUME NEW c \in Clients, NEW m \in acks[c], HandleLayerDestroyAck(c, m) PROVE StepCases
  <2>1. m.op = "LAYER_DESTROY_ACK"
    BY <1>6 DEF HandleLayerDestroyAck
  <2>2. m.layer \in Ids /\ LayerDestroyAck(m.layer) \in acks[c]
    BY <1>1, <2>1, FakeCmdLayer
  <2>3. Told /\ (SameLayers \/ (LastFollower(layers[m.layer], c) /\ Freed(m.layer)))
    BY <1>1, <1>6, DestroyAckInductive
  <2> QED BY <2>2, <2>3 DEF StepCases
<1>7. ASSUME NEW c \in Clients, Disconnect(c) PROVE StepCases
  BY <1>1, <1>7, DisconnectInductive DEF StepCases
<1>8. ASSUME NEW c \in Clients, Deliver(c) PROVE StepCases
  BY <1>8 DEF StepCases
<1> QED BY <1>2, <1>3, <1>4, <1>5, <1>6, <1>7, <1>8 DEF Next, FakeCommand

LEMMA ReplicaStep == ReplicaInv /\ [Next]_vars => ReplicaInv'
<1> SUFFICES ASSUME ReplicaInv, [Next]_vars PROVE ReplicaInv'
  OBVIOUS
<1>1. DataInv' /\ NetInv' /\ StepCases
  BY EveryStep
<1>2. ASSUME NEW c \in Stayers PROVE Followed(c)'
  <2>1. NetInv /\ Followed(c)
    BY DEF ReplicaInv
  <2>2. CASE Unaffected
    BY <2>1, <2>2, FollowedSame DEF Unaffected
  <2>3. CASE Told
    BY <2>1, <2>3, FollowedTold
  <2>4. ASSUME NEW d \in Clients, Deliver(d) PROVE Followed(c)'
    BY <2>1, <2>4, FollowedNetwork
  <2> QED BY <1>1, <2>2, <2>3, <2>4 DEF StepCases
<1>3. Stayers' = Stayers
  BY DEF Stayers
<1> QED BY <1>1, <1>2, <1>3 DEF ReplicaInv

LEMMA InitReplica == Init => ReplicaInv
<1> SUFFICES ASSUME Init PROVE ReplicaInv
  OBVIOUS
<1>1. DataInv /\ NetInv
  BY Initially
<1>2. ASSUME NEW c \in Stayers PROVE Followed(c)
  <2>1. c \in Clients
    BY StayersAre
  <2>2. /\ net[c] = {} /\ out_queue[c] = <<>> /\ wire[c] = <<>> /\ acks[c] = {}
        /\ view[c].known = {}
    BY <2>1 DEF Init, EmptyView
  <2>3. Channel(c) /\ Distinct(net[c])
    BY <2>2 DEF Channel, Distinct
  <2>4. Keys(<<>>) = <<>> /\ Waiting(c) = {}
    <3>1. Keys(<<>>) = <<>> /\ ToSet(<<>>) = {}
      BY DEF Keys, ToSet
    <3> QED BY <2>2, <3>1 DEF Waiting, KeysOf
  <2>5. ASSUME NEW l \in Ids PROVE LayerPhase(c, l)
    <3>1. layers[l].folls[c] = "NONE"
      BY <2>1 DEF Init, FreeLayer, NONE
    <3>2. \A x : Once(<<>>, x)
      BY DEF Once
    <3>3. ~Outcome(<<>>, CreateKey(l), DestroyKey(l), l, {})
      BY OutcomeEmpty
    <3> QED BY <2>2, <2>4, <3>1, <3>2, <3>3 DEF LayerPhase, Tracked
  <2> QED BY <2>3, <2>5 DEF Followed
<1> QED BY <1>1, <1>2 DEF ReplicaInv

LEMMA ReplicaAlways == Spec => []ReplicaInv
BY InitReplica, ReplicaStep, PTL DEF Spec

(* Whatever clients do and in whatever order the network delivers, no      *)
(* layer holds a pointer to a subscriber of the node that                  *)
(* vs_node_unsubscribe or vs_free_avatar_reference freed, and none to a    *)
(* parent that vs_layer_destroy freed.                                     *)
THEOREM LayerPointersAlive == Spec => []PointersAlive
<1>1. Init => DataInv /\ NetInv
  BY Initially
<1>2. DataInv /\ NetInv /\ [Next]_vars => (DataInv /\ NetInv)'
  BY Inductive
<1>3. DataInv /\ NetInv => PointersAlive
  BY InvPointers
<1> QED BY <1>1, <1>2, <1>3, PTL DEF Spec

-----------------------------------------------------------------------------
(* The order of commands, and what they lead to.                           *)

(* LayerPhase when no command is on its way in a stream.                   *)
LEMMA PhaseNow ==
  ASSUME NEW c, NEW l, LayerPhase(c, l), wire[c] = <<>>,
         NEW f, f = layers[l].folls[c], NEW H, H = Waiting(c), NEW V, V = view[c].known
  PROVE  /\ Tracked(H, Keys(out_queue[c]), <<>>, acks[c], f, CreateKey(l), DestroyKey(l),
                    LayerCreateAck(l), LayerDestroyAck(l), l, V)
         /\ Outcome(<<>>, CreateKey(l), DestroyKey(l), l, V) <=> l \in V
<1>1. Keys(wire[c]) = <<>>
  BY DEF Keys
<1> QED BY <1>1, OutcomeEmpty DEF LayerPhase

(* A client that stays is sent the destroy command of a layer only when it *)
(* has received the create command: vs_layer_send_destroy passes over      *)
(* followers that have not acknowledged, and vs_handle_layer_create_ack    *)
(* sends them the command later.                                           *)
THEOREM LayerOrder == Spec => []DestroyAfterCreate
<1>1. ReplicaInv => DestroyAfterCreate
  <2> SUFFICES ASSUME ReplicaInv, NEW c \in Stayers, NEW m \in net[c], m.op = "LAYER_DESTROY"
               PROVE  m.layer \in view[c].known
    BY DEF DestroyAfterCreate
  <2>1. c \in Clients /\ NetInv /\ Followed(c)
    BY StayersAre DEF ReplicaInv
  <2>2. PICK l, V : l = m.layer /\ V = view[c].known
    OBVIOUS
  <2>3. l \in Ids /\ LayerPhase(c, l) /\ c \notin streams /\ wire[c] = <<>>
    BY <2>1, <2>2 DEF NetInv, Cmds, Followed, Channel
  <2>4. DestroyKey(l) \in Waiting(c)
    BY <2>2 DEF Waiting, KeysOf, Key, DestroyKey
  <2>5. PICK f, H : f = layers[l].folls[c] /\ H = Waiting(c)
    OBVIOUS
  <2>6. /\ Tracked(H, Keys(out_queue[c]), <<>>, acks[c], f, CreateKey(l), DestroyKey(l),
                   LayerCreateAck(l), LayerDestroyAck(l), l, V)
        /\ Outcome(<<>>, CreateKey(l), DestroyKey(l), l, V) <=> l \in V
    BY <2>2, <2>3, <2>5, PhaseNow
  <2> QED BY <2>2, <2>4, <2>5, <2>6 DEF Tracked
<1> QED BY <1>1, ReplicaAlways, PTL

(* The layers a client that stays knows are those the server takes for     *)
(* known to it.                                                            *)
KnownAgree ==
  \A c \in Stayers, l \in Ids : Quiet(c) => (l \in view[c].known <=> layers[l].folls[c] = CREATED)

(* When nothing is on its way to or from a client that stays, it knows     *)
(* those layers whose create command vs_handle_layer_create_ack has seen   *)
(* acknowledged and that are not being destroyed, over datagrams and over  *)
(* streams.                                                                *)
THEOREM LayersAgree == Spec => []KnownAgree
<1>1. ReplicaInv => KnownAgree
  <2> SUFFICES ASSUME ReplicaInv, NEW c \in Stayers, NEW l \in Ids, Quiet(c)
               PROVE  l \in view[c].known <=> layers[l].folls[c] = CREATED
    BY DEF KnownAgree
  <2>1. /\ LayerPhase(c, l) /\ net[c] = {} /\ acks[c] = {} /\ out_queue[c] = <<>> /\ wire[c] = <<>>
    BY DEF ReplicaInv, Followed, Quiet
  <2>2. PICK f, H, V : f = layers[l].folls[c] /\ H = Waiting(c) /\ V = view[c].known
    OBVIOUS
  <2>3. /\ Tracked(H, Keys(out_queue[c]), <<>>, acks[c], f, CreateKey(l), DestroyKey(l),
                   LayerCreateAck(l), LayerDestroyAck(l), l, V)
        /\ Outcome(<<>>, CreateKey(l), DestroyKey(l), l, V) <=> l \in V
    BY <2>1, <2>2, PhaseNow
  <2>4. H = {}
    <3>1. KeysOf({}) = {} /\ ToSet(Keys(<<>>)) = {}
      BY DEF KeysOf, Keys, ToSet
    <3> QED BY <2>1, <2>2, <3>1 DEF Waiting
  <2>5. l \in V <=> f = "CREATED"
    BY <2>1, <2>3, <2>4 DEF Tracked
  <2> QED BY <2>2, <2>5 DEF CREATED
<1> QED BY <1>1, ReplicaAlways, PTL

-----------------------------------------------------------------------------
(* The server implements module Replication.                               *)

(* The refinement mapping: the layers the server holds, and those the      *)
(* clients that use datagrams know.                                        *)
HeldLayers  == {l \in Ids : Exists(l)}
KnownLayers == [c \in Stayers |-> IF c \in streams THEN {} ELSE view[c].known]

LEMMA PhaseOfDatagrams ==
  ASSUME ReplicaInv, NEW c \in Stayers, NEW l \in Ids, c \notin streams
  PROVE  /\ CreateKey(l) \in KeysOf(net[c]) => layers[l].state # NONE
         /\ layers[l].folls[c] = NONE \/ LayerDestroyAck(l) \in acks[c] => l \notin view[c].known
<1>1. /\ c \in Clients /\ LayerPhase(c, l) /\ LayerSound(layers[l], node_subs)
      /\ wire[c] = <<>> /\ KeysOf(net[c]) \subseteq Waiting(c)
  BY StayersAre DEF ReplicaInv, DataInv, Sound, Followed, Channel, Waiting
<1>2. PICK f, H, V : f = layers[l].folls[c] /\ H = Waiting(c) /\ V = view[c].known
  OBVIOUS
<1>3. /\ Tracked(H, Keys(out_queue[c]), <<>>, acks[c], f, CreateKey(l), DestroyKey(l),
                 LayerCreateAck(l), LayerDestroyAck(l), l, V)
      /\ Outcome(<<>>, CreateKey(l), DestroyKey(l), l, V) <=> l \in V
  BY <1>1, <1>2, PhaseNow
<1>4. CreateKey(l) \in H => f # "NONE"
  BY <1>3 DEF Tracked
<1>5. f = "NONE" \/ LayerDestroyAck(l) \in acks[c] => l \notin V
  BY <1>3 DEF Tracked
<1>6. f # NONE => layers[l].state # NONE
  BY <1>1, <1>2 DEF LayerSound
<1> QED BY <1>1, <1>2, <1>4, <1>5, <1>6 DEF NONE

(* Steps that change neither the layers nor what is known of them.         *)
LEMMA SameReplicas ==
  ASSUME SameLayers, streams' = streams, \A c \in Stayers \ streams : view'[c].known = view[c].known
  PROVE  HeldLayers' = HeldLayers /\ KnownLayers' = KnownLayers
<1>1. KnownLayers' = [c \in Stayers |-> IF c \in streams THEN {} ELSE view'[c].known]
  BY DEF KnownLayers, Stayers
<1>2. HeldLayers' = HeldLayers
  BY DEF SameLayers, HeldLayers, Exists
<1> QED BY <1>1, <1>2 DEF KnownLayers

(* The steps of Replication.                                               *)
ReplicaNext ==
  \/ HeldLayers' = HeldLayers /\ KnownLayers' = KnownLayers
  \/ \E l \in Ids :
       /\ KnownLayers' = KnownLayers
       /\ \A c \in Stayers : l \notin KnownLayers[c]
       /\ \/ l \notin HeldLayers /\ HeldLayers' = HeldLayers \union {l}
          \/ l \in HeldLayers /\ HeldLayers' = HeldLayers \ {l}
  \/ \E c \in Stayers, l \in Ids :
       /\ HeldLayers' = HeldLayers
       /\ \/ l \in HeldLayers /\ KnownLayers' = [KnownLayers EXCEPT ![c] = KnownLayers[c] \union {l}]
          \/ KnownLayers' = [KnownLayers EXCEPT ![c] = KnownLayers[c] \ {l}]

(* A datagram tells client c of a layer, or that it is gone.               *)
LEMMA DatagramNext ==
  ASSUME ReplicaInv, NEW c \in Clients, NEW m \in net[c], DeliverDatagram(c, m)
  PROVE  ReplicaNext
<1>1. \A d \in Stayers : d \in Clients /\ d \notin Leavers
  BY StayersAre
<1>2. /\ NetInv /\ m \in Cmds /\ m.layer \in Ids /\ view[c] \in ViewType
      /\ m.op \in {"LAYER_CREATE", "LAYER_DESTROY", "LAYER_SET", "LAYER_UNSET"}
  <2>1. NetInv /\ m \in Cmds /\ view[c] \in ViewType
    BY DEF ReplicaInv, NetInv
  <2> QED BY <2>1 DEF Cmds
<1>3. /\ UNCHANGED <<layers, streams>> /\ view'[c] = Learned(view[c], m)
      /\ \A d \in Clients \ {c} : view'[d] = view[d]
  BY <1>2 DEF DeliverDatagram, NetInv, serverVars
<1>4. SameLayers /\ HeldLayers' = HeldLayers
  BY <1>3 DEF SameLayers, HeldLayers, Exists
<1>5. CASE c \notin Stayers
  BY <1>1, <1>3, <1>4, <1>5, SameReplicas DEF ReplicaNext
<1>6. CASE c \in Stayers
  <2>1. c \notin streams
    BY <1>6 DEF ReplicaInv, Followed, Channel
  <2>2. KnownLayers' = [KnownLayers EXCEPT ![c] = view'[c].known] /\ KnownLayers[c] = view[c].known
    <3>1. KnownLayers' = [d \in Stayers |-> IF d \in streams THEN {} ELSE view'[d].known]
      BY <1>3 DEF KnownLayers, Stayers
    <3>2. ASSUME NEW d \in Stayers
          PROVE  (IF d \in streams THEN {} ELSE view'[d].known) =
                   [KnownLayers EXCEPT ![c] = view'[c].known][d]
      BY <1>1, <1>3, <1>6, <2>1 DEF KnownLayers
    <3>3. [KnownLayers EXCEPT ![c] = view'[c].known] =
            [d \in Stayers |-> [KnownLayers EXCEPT ![c] = view'[c].known][d]]
      BY DEF KnownLayers
    <3> QED BY <1>6, <2>1, <3>1, <3>2, <3>3 DEF KnownLayers
  <2>3. PICK l, V, W : l = m.layer /\ V = view[c].known /\ W = view'[c].known
    OBVIOUS
  <2>4. /\ m.op = "LAYER_CREATE" => W = V \union {l}
        /\ m.op = "LAYER_DESTROY" => W = V \ {l}
        /\ m.op \in {"LAYER_SET", "LAYER_UNSET"} => W = V
    BY <1>2, <1>3, <2>3, LearnedKnown
  <2>5. KnownLayers' = [KnownLayers EXCEPT ![c] = W] /\ KnownLayers[c] = V
    BY <2>2, <2>3
  <2>6. CASE m.op = "LAYER_CREATE"
    <3>1. CreateKey(l) \in KeysOf(net[c])
      BY <2>3, <2>6 DEF CreateKey, KeysOf, Key
    <3>2. l \in HeldLayers
      BY <1>2, <1>6, <2>1, <2>3, <3>1, PhaseOfDatagrams DEF HeldLayers, Exists
    <3> QED BY <1>2, <1>4, <1>6, <2>3, <2>4, <2>5, <2>6, <3>2 DEF ReplicaNext
  <2>7. CASE m.op = "LAYER_DESTROY"
    BY <1>2, <1>4, <1>6, <2>3, <2>4, <2>5, <2>7 DEF ReplicaNext
  <2>8. CASE m.op \in {"LAYER_SET", "LAYER_UNSET"}
    <3>1. \A d \in Stayers \ streams : view'[d].known = view[d].known
      BY <1>1, <1>3, <2>3, <2>4, <2>8
    <3> QED BY <1>3, <1>4, <3>1, SameReplicas DEF ReplicaNext
  <2> QED BY <1>2, <2>6, <2>7, <2>8
<1> QED BY <1>5, <1>6

LEMMA ReplicaNextStep ==
  ASSUME ReplicaInv, [Next]_vars
  PROVE  ReplicaNext
<1>1. StepCases /\ NetInv /\ \A l \in Ids : LayerSound(layers[l], node_subs)
  BY EveryStep DEF ReplicaInv, DataInv, Sound
<1>2. \A d \in Stayers : d \in Clients /\ d \notin Leavers
  BY StayersAre
<1>3. CASE Unaffected /\ SameLayers
  BY <1>3, SameReplicas DEF Unaffected, ReplicaNext
<1>4. CASE Told /\ SameLayers
  BY <1>4, SameReplicas DEF Told, ReplicaNext
<1>5. ASSUME Told PROVE KnownLayers' = KnownLayers
  <2>1. streams' = streams /\ \A d \in Stayers : view'[d] = view[d]
    BY <1>5 DEF Told
  <2>2. KnownLayers' = [c \in Stayers |-> IF c \in streams THEN {} ELSE view'[c].known]
    BY <2>1 DEF KnownLayers, Stayers
  <2> QED BY <2>1, <2>2 DEF KnownLayers
<1>6. ASSUME NEW l \in Ids, NEW d \in Stayers,
             layers[l].folls[d] = NONE \/ LayerDestroyAck(l) \in acks[d]
      PROVE  l \notin KnownLayers[d]
  <2>1. CASE d \in streams
    BY <2>1 DEF KnownLayers
  <2>2. CASE d \notin streams
    <3>1. l \notin view[d].known
      BY <1>6, <2>2, PhaseOfDatagrams
    <3> QED BY <2>2, <3>1 DEF KnownLayers
  <2> QED BY <2>1, <2>2
<1>7. ASSUME NEW l \in Ids, Told, Born(l) PROVE ReplicaNext
  <2>1. l \notin HeldLayers /\ HeldLayers' = HeldLayers \union {l}
    BY <1>7 DEF Born, HeldLayers, Exists
  <2>2. \A d \in Stayers : l \notin KnownLayers[d]
    BY <1>1, <1>2, <1>6, <1>7 DEF Born, LayerSound
  <2> QED BY <1>5, <1>7, <2>1, <2>2 DEF ReplicaNext
<1>8. ASSUME NEW l \in Ids, NEW c \in Clients, Told,
             LayerDestroyAck(l) \in acks[c], LastFollower(layers[l], c), Freed(l)
      PROVE  ReplicaNext
  <2>1. l \in HeldLayers /\ HeldLayers' = HeldLayers \ {l}
    BY <1>8 DEF Freed, HeldLayers, Exists
  <2>2. \A d \in Stayers : l \notin KnownLayers[d]
    BY <1>2, <1>6, <1>8 DEF LastFollower, Followers
  <2> QED BY <1>5, <1>8, <2>1, <2>2 DEF ReplicaNext
<1>9. ASSUME NEW c \in Clients, SendStream(c) PROVE ReplicaNext
  BY <1>9, SameReplicas DEF SendStream, serverVars, SameLayers, ReplicaNext
<1>10. ASSUME NEW c \in Clients, DeliverStream(c) PROVE ReplicaNext
  <2>1. UNCHANGED <<layers, streams>> /\ \A d \in Clients \ {c} : view'[d] = view[d]
    BY <1>1, <1>10 DEF DeliverStream, serverVars, NetInv
  <2>2. c \in Stayers => c \in streams
    BY <1>10 DEF ReplicaInv, Followed, Channel, DeliverStream
  <2>3. SameLayers /\ \A d \in Stayers \ streams : view'[d].known = view[d].known
    BY <1>2, <2>1, <2>2 DEF SameLayers
  <2> QED BY <2>1, <2>3, SameReplicas DEF ReplicaNext
<1>11. ASSUME NEW c \in Clients, Deliver(c) PROVE ReplicaNext
  BY <1>9, <1>10, <1>11, DatagramNext DEF Deliver
<1> QED BY <1>1, <1>3, <1>4, <1>7, <1>8, <1>11 DEF StepCases

(* The handlers of layers implement the promise of module Replication:     *)
(* vs_handle_layer_create takes an id that no client that stays and uses   *)
(* datagrams takes for an older layer, and vs_handle_layer_destroy_ack     *)
(* frees a layer only when none of them knows it, in whatever order        *)
(* datagrams and acknowledgements arrive.                                  *)
THEOREM LayersReplicate == Spec => ImplementsReplication
<1>1. Init => R!Init
  <2> SUFFICES ASSUME Init PROVE HeldLayers = {} /\ KnownLayers = [c \in Stayers |-> {}]
    BY DEF R!Init, HeldLayers, KnownLayers
  <2>1. HeldLayers = {}
    BY DEF Init, HeldLayers, Exists, FreeLayer
  <2>2. \A c \in Stayers : view[c].known = {}
    BY StayersAre DEF Init, EmptyView
  <2> QED BY <2>1, <2>2 DEF KnownLayers
<1>2. ReplicaInv /\ [Next]_vars => [R!Next]_<<HeldLayers, KnownLayers>>
  <2> SUFFICES ASSUME ReplicaNext PROVE [R!Next]_<<HeldLayers, KnownLayers>>
    BY ReplicaNextStep
  <2>0. KnownLayers = [c \in Stayers |-> KnownLayers[c]]
    BY DEF KnownLayers
  <2>1. CASE HeldLayers' = HeldLayers /\ KnownLayers' = KnownLayers
    BY <2>1
  <2>2. ASSUME NEW l \in Ids, KnownLayers' = KnownLayers, \A c \in Stayers : l \notin KnownLayers[c],
               l \notin HeldLayers, HeldLayers' = HeldLayers \union {l}
        PROVE  R!Next
    <3>1. HeldLayers' \ HeldLayers = {l}
      BY <2>2
    <3>2. R!Create(HeldLayers' \ HeldLayers)
      BY <2>2, <3>1 DEF R!Create, HeldLayers, KnownLayers
    <3> QED BY <3>2 DEF R!Next, HeldLayers
  <2>3. ASSUME NEW l \in Ids, KnownLayers' = KnownLayers, \A c \in Stayers : l \notin KnownLayers[c],
               l \in HeldLayers, HeldLayers' = HeldLayers \ {l}
        PROVE  R!Next
    <3>1. HeldLayers \ HeldLayers' = {l}
      BY <2>3
    <3>2. R!Free(HeldLayers \ HeldLayers')
      BY <2>3, <3>1 DEF R!Free, HeldLayers, KnownLayers
    <3> QED BY <3>2 DEF R!Next, HeldLayers
  <2>4. ASSUME NEW c \in Stayers, NEW l \in Ids, HeldLayers' = HeldLayers, l \in HeldLayers,
               KnownLayers' = [KnownLayers EXCEPT ![c] = KnownLayers[c] \union {l}]
        PROVE  R!Next
    <3>1. R!Learn(c, l)
      BY <2>4 DEF R!Learn, HeldLayers, KnownLayers
    <3> QED BY <3>1 DEF R!Next
  <2>5. ASSUME NEW c \in Stayers, NEW l \in Ids, HeldLayers' = HeldLayers,
               KnownLayers' = [KnownLayers EXCEPT ![c] = KnownLayers[c] \ {l}]
        PROVE  R!Next
    <3>1. KnownLayers'[c] = KnownLayers[c] \ {l}
      BY <2>0, <2>5
    <3>2. KnownLayers[c] \ (KnownLayers[c] \ KnownLayers'[c]) = KnownLayers[c] \ {l}
      BY <3>1
    <3>3. KnownLayers' = [KnownLayers EXCEPT ![c] = KnownLayers[c] \ (KnownLayers[c] \ KnownLayers'[c])]
      BY <2>5, <3>2
    <3>4. R!Forget(c, KnownLayers[c] \ KnownLayers'[c])
      BY <2>5, <3>3 DEF R!Forget, HeldLayers, KnownLayers
    <3> QED BY <3>4 DEF R!Next, KnownLayers
  <2> QED BY <2>1, <2>2, <2>3, <2>4, <2>5 DEF ReplicaNext
<1> QED BY <1>1, <1>2, ReplicaAlways, PTL DEF Spec, ImplementsReplication, R!Spec, HeldLayers, KnownLayers
=============================================================================
