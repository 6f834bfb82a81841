------------------------------- MODULE Nodes --------------------------------
(***************************************************************************)
(* The tree of nodes of the Verse server: vs_node.c (creating, destroying, *)
(* subscribing), vs_link.c (moving a node to another parent),              *)
(* vs_node_access.c (permissions, owners, locks), vs_sys_nodes.c (the      *)
(* nodes of the server and of connected clients), as vs_data.c runs them   *)
(* for commands of clients.  What nodes contain is in TagGroups and        *)
(* Layers, and how the scene is stored in NodeStorage.                     *)
(*                                                                         *)
(* As in those modules a datagram session delivers the commands of the     *)
(* server in any order, a stream in order, and node_create and             *)
(* node_destroy are acknowledged.  The nodes of users are left out (no     *)
(* client can change them), and so are node_perm commands of the server:   *)
(* nothing depends on what a client believes of permissions.               *)
(***************************************************************************)
EXTENDS Integers, FiniteSets, Sequences, SequencesExt

CONSTANTS
  Clients,      \* sessions; each is of a user of its own
  Leavers,      \* those that may unsubscribe and disconnect
  Workloads,    \* what clients do in a behaviour is bounded by one of these records: the
                \* commands (pairs of a client and a command), the nodes clients subscribe
                \* to without being told of them, the number of commands, the largest id,
                \* the clients that use streams, and for module NodeStorage the restarts of the
                \* server and the scene stored at first
  DefaultPerm,  \* permission of other users for a new node
  Perms,        \* permissions that owners grant
  MaxNode       \* bound: the largest node id

ASSUME NodesAssumption ==
  /\ Leavers \subseteq Clients
  /\ DefaultPerm \subseteq {"READ", "WRITE"}
  /\ Perms \subseteq SUBSET {"READ", "WRITE"}
  /\ MaxNode \in Nat /\ MaxNode > 4
  /\ \A w \in Workloads : /\ w.ops \in Nat /\ w.restarts \in Nat /\ w.nodes \in 0 .. MaxNode
                          /\ w.start \subseteq 0 .. MaxNode /\ w.streams \subseteq Clients

NONE     == "NONE"
CREATING == "CREATING"
CREATED  == "CREATED"
DELETING == "DELETING"
DELETED  == "DELETED"

ROOT    == 0
AVATARS == 1    \* parent of avatar nodes
USERS   == 2    \* parent of user nodes
SCENE   == 3    \* parent of scene nodes
FIRST_COMMON_ID == 4

Ids    == 0 .. MaxNode
NoNode == -1
FREED  == -2    \* a pointer to a node subscriber that was freed

SUPER_USER  == "SUPER_USER"
OTHER_USERS == "OTHER_USERS"
Users == Clients \union {SUPER_USER, OTHER_USERS}

VARIABLES
  nodes,      \* the nodes, by id
  last_id,    \* last_common_node_id
  avatar_id,  \* the avatar node of every session
  workload,   \* one of Workloads
  online, net, out_queue, wire, acks, view, ops

clientVars == <<workload, net, out_queue, wire, acks, view>>
vars == <<nodes, last_id, avatar_id, online, clientVars, ops>>

(* vs_node_init.                                                           *)
FreeNode ==
  [state |-> NONE, parent |-> NoNode, children |-> <<>>, level |-> 0, saveable |-> FALSE,
   owner |-> SUPER_USER, permissions |-> <<>>, lock |-> NONE,
   subs |-> [c \in Clients |-> NONE], folls |-> [c \in Clients |-> <<>>]]

(* What a client knows of the nodes.                                       *)
EmptyView ==
  [known |-> {}, parent |-> [n \in Ids |-> NoNode], owner |-> [n \in Ids |-> NONE],
   lock |-> [n \in Ids |-> NONE]]

-----------------------------------------------------------------------------
(* Nodes.  The operators take the nodes N as a parameter where a handler   *)
(* changes them in several steps.                                          *)

streams        == workload.streams
Exists(n)      == nodes[n].state # NONE
IsCreated(e)   == e.state \in {CREATING, CREATED}
Subs(e)        == {c \in Clients : e.subs[c] # NONE}
Followers(e)   == {c \in Clients : e.folls[c] # <<>>}

(* The items of the list s that are in the set S: v_list_rem_item for the  *)
(* others.                                                                 *)
Only(s, S) ==
  LET Kept[i \in 0 .. Len(s)] ==
        IF i = 0 THEN <<>>
        ELSE IF s[i] \in S THEN Append(Kept[i - 1], s[i]) ELSE Kept[i - 1]
  IN Kept[Len(s)]

(* vs_node_set_perm.                                                       *)
vs_node_set_perm(e, u, p) ==
  LET at == {i \in DOMAIN e.permissions : e.permissions[i][1] = u}
  IN IF at = {} THEN [e EXCEPT !.permissions = Append(@, <<u, p>>)]
     ELSE LET i == CHOOSE i \in at : TRUE
          IN [e EXCEPT !.permissions = IF p = {} THEN RemoveAt(@, i)
                                       ELSE [@ EXCEPT ![i] = <<u, p>>]]

(* vs_node_get_perm: the first entry for the user or for other users.      *)
vs_node_get_perm(e, u) ==
  LET at == SelectSeq(e.permissions, LAMBDA x : x[1] \in {u, OTHER_USERS})
  IN IF at = <<>> THEN {} ELSE at[1][2]

Granted(e, u, p) ==
  \/ e.owner = u
  \/ \E i \in DOMAIN e.permissions :
       e.permissions[i][1] \in {u, OTHER_USERS} /\ p \in e.permissions[i][2]

vs_node_can_read(c, e)  == Granted(e, c, "READ")

vs_node_can_write(c, e) == e.lock \in {NONE, c} /\ Granted(e, c, "WRITE")

(* vs_link_create, for a new child node n of node p.                       *)
vs_link_create(N, p, n) ==
  [N EXCEPT ![p].children = Append(@, n),
            ![n].parent = p, ![n].level = N[p].level + 1]

(* vs_node_create_linked: node n of an owner under node p.                 *)
vs_node_create_linked(N, p, n, owner, state) ==
  vs_link_create([N EXCEPT ![n] = [FreeNode EXCEPT !.owner = owner, !.state = state]], p, n)

(* vs_nodes_init and the functions that create the system nodes.           *)
vs_nodes_init ==
  LET N0 == [n \in Ids |-> FreeNode]
      N1 == [N0 EXCEPT ![ROOT].state = CREATED]
      N2 == vs_node_create_linked(N1, ROOT, AVATARS, SUPER_USER, CREATED)
      N3 == vs_node_create_linked(N2, ROOT, USERS, SUPER_USER, CREATED)
      N4 == vs_node_create_linked(N3, ROOT, SCENE, SUPER_USER, CREATED)
      R  == {"READ"}
  IN [N4 EXCEPT
       ![ROOT] = vs_node_set_perm(@, OTHER_USERS, R),
       ![AVATARS] = vs_node_set_perm(@, OTHER_USERS, R),
       ![USERS] = vs_node_set_perm(@, OTHER_USERS, R),
       ![SCENE] = [vs_node_set_perm(@, OTHER_USERS, {"READ", "WRITE"}) EXCEPT !.saveable = TRUE]]

(* Node n is node a, or a descendant of it.  (The bound ends the walk if   *)
(* links form a cycle.)                                                    *)
Below(N, n, a) ==
  LET Walk[k \in Ids, x \in Ids \union {NoNode}] ==
        x = a \/ (k > 0 /\ x # NoNode /\ Walk[k - 1, N[x].parent])
  IN Walk[MaxNode, n]

-----------------------------------------------------------------------------
(* Commands of the server, and how they are queued for the clients.        *)

Cmd(op, n, x, u) == [op |-> op, node |-> n, other |-> x, user |-> u]

NodeCreate(n, p, u) == Cmd("NODE_CREATE", n, p, u)
NodeDestroy(n)      == Cmd("NODE_DESTROY", n, NoNode, NONE)
NodeLink(p, n)      == Cmd("NODE_LINK", n, p, NONE)
NodeLock(n, c)      == Cmd("NODE_LOCK", n, NoNode, c)
NodeUnlock(n, c)    == Cmd("NODE_UNLOCK", n, NoNode, c)
NodeOwner(n, u)     == Cmd("NODE_OWNER", n, NoNode, u)
NodeCreateAck(n)    == Cmd("NODE_CREATE_ACK", n, NoNode, NONE)
NodeDestroyAck(n)   == Cmd("NODE_DESTROY_ACK", n, NoNode, NONE)

(* v_out_queue_push_tail of the sequence out[c] for every client c, except *)
(* for the queues of the clients C, which are cleared.                     *)
PushClear(out, C) ==
  /\ net' = [c \in Clients |-> IF c \in C THEN {}
       ELSE IF c \in streams THEN net[c] ELSE net[c] \union ToSet(out[c])]
  /\ out_queue' = [c \in Clients |-> IF c \in C THEN <<>>
       ELSE IF c \in streams THEN out_queue[c] \o out[c] ELSE out_queue[c]]

Push(out) == PushClear(out, {})

(* The sequence s, to be sent to the clients C only.                       *)
To(C, c, s) == IF c \in C THEN s ELSE <<>>

(* A command op of client c is handled.                                    *)
Command(c, op) ==
  /\ c \in online /\ <<c, op>> \in workload.commands
  /\ ops < workload.ops /\ ops' = ops + 1
  /\ UNCHANGED <<workload, wire, acks, online, avatar_id>>

(* Those of the clients C that are to be told of node e now.               *)
Untold(e, C) ==
  {c \in C : IsCreated(e) /\ \A i \in DOMAIN e.folls[c] : e.folls[c][i].state = DELETING}

(* vs_node_send_create: followers point to the subscriber of node p.       *)
vs_node_send_create(e, p, C) ==
  [e EXCEPT !.folls = [c \in Clients |->
     IF c \in Untold(e, C) THEN Append(@[c], [state |-> CREATING, sub |-> p]) ELSE @[c]]]

(* vs_node_send_data: the subscribers C of node p are told of its child    *)
(* nodes ...                                                               *)
vs_node_send_data(N, p, C) ==
  [n \in Ids |-> IF n \in ToSet(N[p].children) THEN vs_node_send_create(N[n], p, C) ELSE N[n]]

(* ... by these commands.                                                  *)
DataCmds(N, p, c) ==
  LET new == Only(N[p].children, {n \in Ids : Untold(N[n], {c}) # {}})
  IN [i \in DOMAIN new |-> NodeCreate(new[i], p, N[new[i]].owner)]

-----------------------------------------------------------------------------
(* Sessions: vs_create_avatar_node when a client has authenticated, and    *)
(* what is left of it when the session ends.                               *)

(* vs_create_avatar_node and vs_create_client_info_node.                   *)
Connect(c) ==
  LET a == last_id + 1
      C == Subs(nodes[AVATARS])
      N1 == vs_node_create_linked(nodes, AVATARS, a, SUPER_USER,
                                  IF C = {} THEN CREATED ELSE CREATING)
      N2 == [N1 EXCEPT ![a] = vs_node_set_perm(vs_node_set_perm(@, c, {"READ", "WRITE"}),
                                               OTHER_USERS, {"READ"})]
      N3 == vs_node_create_linked(N2, a, a + 1, SUPER_USER, CREATED)
  IN /\ c \notin online /\ avatar_id[c] = NoNode
     /\ <<c, "CONNECT">> \in workload.commands
     /\ last_id + 2 <= workload.nodes
     /\ last_id' = a + 1
     /\ online' = online \union {c}
     /\ avatar_id' = [avatar_id EXCEPT ![c] = a]
     /\ nodes' = [N3 EXCEPT ![a + 1] = vs_node_set_perm(@, OTHER_USERS, {"READ"}),
                            ![a] = vs_node_send_create(@, AVATARS, C)]
     /\ Push([d \in Clients |-> To(C, d, <<NodeCreate(a, AVATARS, SUPER_USER)>>)])
     /\ UNCHANGED <<workload, wire, acks, view, ops>>

(* The subscribers of client c of the nodes S are freed; followers of      *)
(* other nodes may still point to them.                                    *)
FreeSub(N, S, c) ==
  [n \in Ids |-> [N[n] EXCEPT !.folls[c] = [i \in DOMAIN @ |->
     IF @[i].sub \in S THEN [@[i] EXCEPT !.sub = FREED] ELSE @[i]]]]

(* Mutant: locks are kept.                                                 *)
vs_free_avatar_reference_Lock(e, c) ==
  [e EXCEPT !.subs[c] = NONE, !.folls[c] = IF @ = <<>> THEN @ ELSE Tail(@)]

(* vs_free_avatar_reference for one node.                                  *)
vs_free_avatar_reference(e, c) ==
  [e EXCEPT !.subs[c] = NONE,
            !.folls[c] = IF @ = <<>> THEN @ ELSE Tail(@),
            !.lock = IF @ = c THEN NONE ELSE @]

(* What vs_node_destroy_branch makes of a node of a branch, child nodes    *)
(* first: it is freed, waits for its followers, or stays as it is (because *)
(* of a child node that stays).                                            *)
Fates(N) ==
  LET Fate[n \in Ids] ==
        LET kids == ToSet(N[n].children)
            Stays(k) == Fate[k] = "stays" /\ IsCreated(N[k])
        IN IF Followers(N[n]) # {}
             THEN IF \E k \in kids : Stays(k) THEN "stays" ELSE "waits"
           ELSE IF \A k \in kids : Fate[k] = "freed" THEN "freed" ELSE "stays"
  IN Fate

(* Followers that have acknowledged: they are sent the destroy command.    *)
Destroyable(e) ==
  {c \in Clients : \E i \in DOMAIN e.folls[c] : e.folls[c][i].state = CREATED}

(* vs_node_send_destroy.                                                   *)
vs_node_send_destroy(e) ==
  [e EXCEPT !.state = DELETING,
            !.folls = [c \in Clients |->
               IF c \notin Destroyable(e) THEN @[c]
               ELSE [i \in DOMAIN @[c] |-> [@[c][i] EXCEPT !.state = DELETING]]]]

(* vs_node_destroy removes node n from its parent and frees it.            *)
vs_node_destroy(N, n) ==
  LET p == N[n].parent
      N1 == [N EXCEPT ![p].children = Only(@, Ids \ {n})]
  IN [N1 EXCEPT ![n] = FreeNode]

(* Mutant: nodes with followers are freed without waiting for them.        *)
vs_node_destroy_branch_NoWait(N, a) ==
  [n \in Ids |->
     IF N[n].state # NONE /\ Below(N, n, a) THEN FreeNode
     ELSE [N[n] EXCEPT !.children = Only(@, Ids \ {a})]]

(* vs_node_destroy_branch(a, send = 1).                                    *)
vs_node_destroy_branch(N, a) ==
  LET fate == Fates(N)
      branch == {n \in Ids : N[n].state # NONE /\ Below(N, n, a)}
      freed == {n \in branch : fate[n] = "freed"}
  IN [n \in Ids |->
        IF n \in freed THEN FreeNode
        ELSE LET e == [N[n] EXCEPT !.children = Only(@, Ids \ freed)]
             IN IF n \in branch /\ fate[n] = "waits" THEN vs_node_send_destroy(e) ELSE e]

(* The end of a session: vs_node_free_avatar_reference, which walks the    *)
(* tree from the root, and then vs_node_destroy_avatar_node.               *)
Disconnect(c) ==
  LET a == avatar_id[c]
      N1 == FreeSub([n \in Ids |-> IF Exists(n) /\ Below(nodes, n, ROOT)
                        THEN vs_free_avatar_reference(nodes[n], c) ELSE nodes[n]], Ids, c)
      fate == Fates(N1)
      Told(n, d) == Below(N1, n, a) /\ N1[n].state # NONE /\ fate[n] = "waits"
                      /\ d \in Destroyable(N1[n])
      Unlocked(n, d) == nodes[n].lock = c /\ N1[n].lock = NONE /\ d \in Subs(N1[n])
  IN /\ c \in Leavers \intersect online
     /\ online' = online \ {c}
     /\ nodes' = vs_node_destroy_branch(N1, a)
     /\ PushClear([d \in Clients |->
             SetToSeq({NodeUnlock(n, c) : n \in {n \in Ids : Unlocked(n, d)}})
               \o SetToSeq({NodeDestroy(n) : n \in {n \in Ids : Told(n, d)}})], {c})
     /\ wire' = [wire EXCEPT ![c] = <<>>]
     /\ acks' = [acks EXCEPT ![c] = {}]
     /\ view' = [view EXCEPT ![c] = EmptyView]
     /\ UNCHANGED <<last_id, avatar_id, workload, ops>>

-----------------------------------------------------------------------------
(* Commands about nodes.                                                   *)

(* Nodes that a client subscribes to: those it was told of, and a start.   *)
Named(c) == view[c].known \union workload.start

(* vs_handle_node_create and vs_node_new: the node is created under the    *)
(* avatar of the client.  The search for an id compares the wrong memory,  *)
(* so it is always the one after the last id.                              *)
HandleNodeCreate(c) ==
  LET n == last_id + 1
      a == avatar_id[c]
      C == Subs(nodes[a])
      N == vs_node_create_linked(nodes, a, n, c, CREATING)
  IN /\ Command(c, "NODE_CREATE")
     /\ Exists(a)
     /\ n <= workload.nodes
     /\ last_id' = n
     /\ nodes' = [N EXCEPT ![n] =
          vs_node_send_create(vs_node_set_perm(@, OTHER_USERS, DefaultPerm), a, C)]
     /\ Push([d \in Clients |-> To(C, d, <<NodeCreate(n, a, c)>>)])
     /\ UNCHANGED view

(* vs_handle_node_destroy: only the owner, and not while a child node is   *)
(* created; nobody cares for locks.                                        *)
HandleNodeDestroy(c, n) ==
  LET e == nodes[n]
  IN /\ Command(c, "NODE_DESTROY")
     /\ IsCreated(e) /\ e.owner = c
     /\ \A i \in DOMAIN e.children : ~IsCreated(nodes[e.children[i]])
     /\ nodes' = [nodes EXCEPT ![n] = vs_node_send_destroy(e)]
     /\ Push([d \in Clients |-> To(Destroyable(e), d, <<NodeDestroy(n)>>)])
     /\ UNCHANGED <<last_id, view>>

(* vs_handle_node_subscribe and vs_node_subscribe: also a client that may  *)
(* not read the node becomes a subscriber.                                 *)
HandleNodeSubscribe(c, n) ==
  LET e == nodes[n]
      N == [nodes EXCEPT ![n].subs[c] = "DEFAULT_PRIORITY"]
      R == {c} \intersect {d \in Clients : vs_node_can_read(d, e)}
  IN /\ Command(c, "NODE_SUBSCRIBE")
     /\ n \in Named(c)
     /\ IsCreated(e) /\ e.subs[c] = NONE
     /\ nodes' = vs_node_send_data(N, n, R)
     /\ Push([d \in Clients |-> To({c}, d,
          (IF e.lock = NONE THEN <<>> ELSE <<NodeLock(n, e.lock)>>)
            \o To(R, c, DataCmds(N, n, c)))])
     /\ UNCHANGED <<last_id, view>>

(* The nodes that vs_node_unsubscribe visits: from n down as long as the   *)
(* client is subscribed.                                                   *)
Unsubscribed(n, c) ==
  {k \in Ids : Exists(k) /\ Below(nodes, k, n) /\
     \A m \in Ids : (Exists(m) /\ Below(nodes, k, m) /\ Below(nodes, m, n))
                       => nodes[m].subs[c] # NONE}

(* vs_handle_node_unsubscribe and vs_node_unsubscribe: the client is no    *)
(* longer a follower of the nodes below, but of n it is.  The client       *)
(* forgets what is below.                                                  *)
HandleNodeUnsubscribe(c, n) ==
  LET S == Unsubscribed(n, c)
  IN /\ Command(c, "NODE_UNSUBSCRIBE")
     /\ c \in Leavers
     /\ IsCreated(nodes[n]) /\ nodes[n].subs[c] # NONE
     /\ nodes' = FreeSub([k \in Ids |->
          IF k \notin S THEN nodes[k]
          ELSE [nodes[k] EXCEPT !.subs[c] = NONE,
                                !.folls[c] = IF k = n \/ @ = <<>> THEN @ ELSE Tail(@)]], S, c)
     /\ view' = [view EXCEPT ![c].known = {k \in @ : k = n \/ ~Below(nodes, k, n)}]
     /\ UNCHANGED <<last_id, net, out_queue>>

(* vs_handle_node_prio and vs_node_prio.                                   *)
HandleNodePrio(c, n) ==
  /\ Command(c, "NODE_PRIO")
  /\ IsCreated(nodes[n]) /\ nodes[n].subs[c] # NONE
  /\ nodes' = [k \in Ids |->
       IF k \in Unsubscribed(n, c) THEN [nodes[k] EXCEPT !.subs[c] = "OTHER_PRIORITY"]
                                   ELSE nodes[k]]
  /\ UNCHANGED <<last_id, net, out_queue, view>>

-----------------------------------------------------------------------------
(* Links: vs_link.c.                                                       *)

(* Mutant: only the level of the nodes is compared, the wrong way round.   *)
vs_link_test_nodes_Level(p, n) == nodes[p].level >= nodes[n].level

(* vs_link_test_nodes: may node p become the parent of node n?             *)
vs_link_test_nodes(p, n) == nodes[p].level < nodes[n].level \/ ~Below(nodes, p, n)

(* The pairs of nodes that vs_link_update_child visits, in order.  It goes *)
(* on with the child nodes of its first argument.  (The bound is for links *)
(* that form a cycle, where the recursion of the code does not end.)       *)
Visits(N, p, n) ==
  LET Kids(k, x) == IF k = 0 THEN <<>> ELSE N[x[1]].children
      V[k \in Ids] ==
        [x \in Ids \X Ids |->
           <<x>> \o FlattenSeq([i \in DOMAIN Kids(k, x) |-> V[k - 1][<<x[2], Kids(k, x)[i]>>]])]
  IN V[MaxNode][<<p, n>>]

(* vs_link_update_child.                                                   *)
vs_link_update_child(N, p, n) ==
  LET v == Visits(N, p, n)
      Updated[i \in 0 .. Len(v)] ==
        IF i = 0 THEN N
        ELSE LET M == Updated[i - 1]
             IN [M EXCEPT ![v[i][2]].level = M[v[i][1]].level + 1,
                          ![v[i][2]].saveable = M[v[i][1]].saveable]
  IN Updated[Len(v)]

(* vs_handle_link_change: node n becomes a child of node p.  Subscribers   *)
(* of the old parent and followers of n are sent the link, and the other   *)
(* subscribers of the new parent the node.                                 *)
HandleLinkChange(c, p, n) ==
  LET e == nodes[n]
      old == e.parent
      C1 == {d \in Subs(nodes[old]) : vs_node_can_read(d, nodes[old])} \union Followers(e)
      C2 == {d \in Subs(nodes[p]) \ C1 : vs_node_can_read(d, nodes[p])}
      N1 == [nodes EXCEPT ![old].children = Only(@, Ids \ {n}),
                          ![p].children = Append(@, n), ![n].parent = p]
      N2 == vs_link_update_child(N1, p, n)
  IN /\ Command(c, "NODE_LINK")
     /\ IsCreated(e) /\ old # NoNode /\ IsCreated(nodes[p]) /\ p # old
     /\ \A k \in {n, old, p} : vs_node_can_write(c, nodes[k])
     /\ vs_link_test_nodes(p, n)
     /\ nodes' = [N2 EXCEPT ![n] = vs_node_send_create(@, p, C2)]
     /\ Push([d \in Clients |-> To(C1, d, <<NodeLink(p, n)>>)
                \o To(Untold(e, C2), d, <<NodeCreate(n, p, e.owner)>>)])
     /\ UNCHANGED <<last_id, view>>

-----------------------------------------------------------------------------
(* Permissions, owners and locks: vs_node_access.c.                        *)

(* vs_handle_node_perm: a client that may no longer write loses its lock,  *)
(* and subscribers that may read now are sent the child nodes.             *)
HandleNodePerm(c, n, u, p) ==
  LET e == nodes[n]
      e1 == vs_node_set_perm(e, u, p)
      lost == e.lock # NONE /\ ~vs_node_can_write(e.lock, e1)
      N == [nodes EXCEPT ![n] = [e1 EXCEPT !.lock = IF lost THEN NONE ELSE @]]
      R == IF "READ" \in p \ vs_node_get_perm(e, u)
             THEN {d \in Subs(e) : u \in {d, OTHER_USERS}} ELSE {}
  IN /\ Command(c, "NODE_PERM")
     /\ IsCreated(e) /\ e.owner = c
     /\ nodes' = vs_node_send_data(N, n, R)
     /\ Push([d \in Clients |-> To(Subs(e), d,
          (IF lost THEN <<NodeUnlock(n, e.lock)>> ELSE <<>>)
            \o To(R, d, DataCmds(N, n, d)))])
     /\ UNCHANGED <<last_id, view>>

(* vs_handle_node_owner: in any state of the node, and the lock stays.     *)
HandleNodeOwner(c, n, u) ==
  /\ Command(c, "NODE_OWNER")
  /\ Exists(n) /\ nodes[n].owner = c
  /\ nodes' = [nodes EXCEPT ![n].owner = u]
  /\ Push([d \in Clients |-> To(Followers(nodes[n]), d, <<NodeOwner(n, u)>>)])
  /\ UNCHANGED <<last_id, view>>

(* vs_handle_node_lock.                                                    *)
HandleNodeLock(c, n) ==
  /\ Command(c, "NODE_LOCK")
  /\ Exists(n) /\ nodes[n].lock = NONE /\ vs_node_can_write(c, nodes[n])
  /\ nodes' = [nodes EXCEPT ![n].lock = c]
  /\ Push([d \in Clients |-> To(Subs(nodes[n]), d, <<NodeLock(n, c)>>)])
  /\ UNCHANGED <<last_id, view>>

(* vs_handle_node_unlock.                                                  *)
HandleNodeUnlock(c, n) ==
  /\ Command(c, "NODE_UNLOCK")
  /\ Exists(n) /\ nodes[n].lock = c /\ vs_node_can_write(c, nodes[n])
  /\ nodes' = [nodes EXCEPT ![n].lock = NONE]
  /\ Push([d \in Clients |-> To(Subs(nodes[n]), d, <<NodeUnlock(n, c)>>)])
  /\ UNCHANGED <<last_id, view>>

-----------------------------------------------------------------------------
(* Fake commands: acknowledgements of node_create and node_destroy.        *)

Acked(c, m) ==
  /\ m \in acks[c]
  /\ acks' = [acks EXCEPT ![c] = @ \ {m}]
  /\ UNCHANGED <<last_id, avatar_id, online, workload, wire, view, ops>>

(* Mutant: nodes that were destroyed meanwhile are not noticed.            *)
Late_Never(e, c) == FALSE

(* The node was destroyed before client c confirmed that it knows it.      *)
Late(e, c) == e.state = DELETING /\ \E i \in DOMAIN e.folls[c] : e.folls[c][i].state = CREATING

(* vs_handle_node_create_ack: a node that was destroyed meanwhile is       *)
(* destroyed for this follower now.  When all other followers know the     *)
(* node it is created, also if it was being destroyed.                     *)
HandleNodeCreateAck(c, m) ==
  LET n == m.node
      e == nodes[n]
      late == Late(e, c)
      own == [i \in DOMAIN e.folls[c] |->
                IF e.folls[c][i].state = CREATING
                  THEN [e.folls[c][i] EXCEPT !.state = IF late THEN DELETING ELSE CREATED]
                  ELSE e.folls[c][i]]
      all_created == \A d \in Clients \ {c} :
                       \A i \in DOMAIN e.folls[d] : e.folls[d][i].state = CREATED
  IN /\ m.op = "NODE_CREATE_ACK"
     /\ Acked(c, m)
     /\ nodes' = IF e.state = NONE THEN nodes
                 ELSE [nodes EXCEPT ![n].folls[c] = own,
                                    ![n].state = IF all_created THEN CREATED ELSE @]
     /\ Push([d \in Clients |-> To(IF late THEN {c} ELSE {}, d, <<NodeDestroy(n)>>)])

(* Mutant: the node is freed with the first confirmation.                  *)
LastFollower_Any(e, c) == TRUE

(* No follower is left without the first entry of client c.                *)
LastFollower(e, c) == Followers(e) \subseteq {c} /\ Len(e.folls[c]) <= 1

(* vs_handle_node_destroy_ack: with the last follower the node is freed,   *)
(* unless it has child nodes.                                              *)
HandleNodeDestroyAck(c, m) ==
  LET n == m.node
      e == nodes[n]
      N == [nodes EXCEPT ![n].folls[c] = IF @ = <<>> THEN @ ELSE Tail(@)]
  IN /\ m.op = "NODE_DESTROY_ACK"
     /\ Acked(c, m)
     /\ nodes' = IF e.state = NONE THEN nodes
                 ELSE IF ~LastFollower(e, c) THEN N
                 ELSE IF e.children = <<>> THEN vs_node_destroy(nodes, n)
                 ELSE [N EXCEPT ![n].state = DELETED]
     /\ UNCHANGED <<net, out_queue>>

-----------------------------------------------------------------------------
(* The network and the clients.                                            *)

(* v_cmd_fake_ack.                                                         *)
v_cmd_fake_ack(m) ==
  CASE m.op = "NODE_CREATE"  -> {NodeCreateAck(m.node)}
    [] m.op = "NODE_DESTROY" -> {NodeDestroyAck(m.node)}
    [] OTHER -> {}

(* What a client makes of a command.                                       *)
Learned(w, m) ==
  LET n == m.node IN
  CASE m.op = "NODE_CREATE"  -> [w EXCEPT !.known = @ \union {n}, !.parent[n] = m.other,
                                          !.owner[n] = m.user]
    [] m.op = "NODE_DESTROY" -> [w EXCEPT !.known = @ \ {n}, !.parent[n] = NoNode,
                                          !.owner[n] = NONE, !.lock[n] = NONE]
    [] m.op = "NODE_LINK"    -> [w EXCEPT !.parent[n] = m.other]
    [] m.op = "NODE_OWNER"   -> [w EXCEPT !.owner[n] = m.user]
    [] m.op = "NODE_LOCK"    -> [w EXCEPT !.lock[n] = m.user]
    [] m.op = "NODE_UNLOCK"  -> [w EXCEPT !.lock[n] = NONE]

(* A datagram with command m arrives, and its acknowledgement later.       *)
DeliverDatagram(c, m) ==
  /\ m \in net[c]
  /\ net' = [net EXCEPT ![c] = @ \ {m}]
  /\ acks' = [acks EXCEPT ![c] = @ \union v_cmd_fake_ack(m)]
  /\ view' = [view EXCEPT ![c] = Learned(@, m)]
  /\ UNCHANGED <<nodes, last_id, avatar_id, online, workload, out_queue, wire, ops>>

(* v_STREAM_pack_message: a command is sent and acknowledged at once.      *)
SendStream(c) ==
  /\ out_queue[c] # <<>>
  /\ LET m == Head(out_queue[c])
     IN /\ wire' = [wire EXCEPT ![c] = Append(@, m)]
        /\ acks' = [acks EXCEPT ![c] = @ \union v_cmd_fake_ack(m)]
  /\ out_queue' = [out_queue EXCEPT ![c] = Tail(@)]
  /\ UNCHANGED <<nodes, last_id, avatar_id, online, workload, net, view, ops>>

(* The next command of a stream arrives.                                   *)
DeliverStream(c) ==
  /\ wire[c] # <<>>
  /\ wire' = [wire EXCEPT ![c] = Tail(@)]
  /\ view' = [view EXCEPT ![c] = Learned(@, Head(wire[c]))]
  /\ UNCHANGED <<nodes, last_id, avatar_id, online, workload, net, out_queue, acks, ops>>

-----------------------------------------------------------------------------
(* The server starts with nodes N; nobody is connected.                    *)
Started(N, last) ==
  /\ nodes = N /\ last_id = last
  /\ avatar_id = [c \in Clients |-> NoNode] /\ online = {}
  /\ net = [c \in Clients |-> {}]
  /\ out_queue = [c \in Clients |-> <<>>] /\ wire = [c \in Clients |-> <<>>]
  /\ acks = [c \in Clients |-> {}]
  /\ view = [c \in Clients |-> EmptyView]
  /\ workload \in Workloads
  /\ ops = 0

Init == Started(vs_nodes_init, FIRST_COMMON_ID)

ClientCommand(c) ==
  \/ HandleNodeCreate(c)
  \/ \E n \in Ids :
       \/ HandleNodeDestroy(c, n)
       \/ HandleNodeSubscribe(c, n)
       \/ HandleNodeUnsubscribe(c, n)
       \/ HandleNodePrio(c, n)
       \/ HandleNodeLock(c, n)
       \/ HandleNodeUnlock(c, n)
       \/ \E p \in Ids : HandleLinkChange(c, p, n)
       \/ \E u \in Clients : HandleNodeOwner(c, n, u)
       \/ \E u \in Clients \union {OTHER_USERS}, p \in Perms : HandleNodePerm(c, n, u, p)

FakeCommand(c) ==
  \E m \in acks[c] : HandleNodeCreateAck(c, m) \/ HandleNodeDestroyAck(c, m)

Deliver(c) ==
  \/ \E m \in net[c] : DeliverDatagram(c, m)
  \/ SendStream(c)
  \/ DeliverStream(c)

Next ==
  \E c \in Clients :
    Connect(c) \/ Disconnect(c) \/ ClientCommand(c) \/ FakeCommand(c) \/ Deliver(c)

(* The data thread handles every command it receives, and the connection   *)
(* of a client that stays delivers.                                        *)
Fairness == \A c \in Clients : WF_vars(FakeCommand(c)) /\ WF_vars(Deliver(c))

Spec == Init /\ [][Next]_vars /\ Fairness

-----------------------------------------------------------------------------
(* Properties.                                                             *)

Stayers == Clients \ Leavers

(* Types of the variables; no node has an id that is given out later.      *)
TypeOK ==
  LET States == {NONE, CREATING, CREATED, DELETING, DELETED}
      Foll == [state : {CREATING, CREATED, DELETING}, sub : Ids \union {FREED}]
      Prios == {NONE, "DEFAULT_PRIORITY", "OTHER_PRIORITY"}
  IN /\ \A n \in Ids :
          /\ nodes[n].state \in States /\ nodes[n].parent \in Ids \union {NoNode}
          /\ nodes[n].children \in Seq(Ids) /\ nodes[n].level \in Nat
          /\ nodes[n].saveable \in BOOLEAN /\ nodes[n].owner \in Users
          /\ nodes[n].permissions \in Seq(Users \X SUBSET {"READ", "WRITE"})
          /\ nodes[n].lock \in Clients \union {NONE}
          /\ nodes[n].subs \in [Clients -> Prios]
          /\ nodes[n].folls \in [Clients -> Seq(Foll)]
          /\ Exists(n) => n <= last_id
     /\ last_id \in Ids /\ avatar_id \in [Clients -> Ids \union {NoNode}]
     /\ online \in SUBSET Clients
     /\ \A c \in Clients : view[c].known \in SUBSET Ids
     /\ workload \in Workloads /\ ops \in 0 .. workload.ops

(* The nodes are one tree: links agree with each other, and every node is  *)
(* below the root.  vs_link_test_nodes: "The parent node could not be any  *)
(* child of the child node.  If the condition was not satisfied, then node *)
(* tree would be split into the two separated parts."                      *)
TreeIntact ==
  \A n \in Ids : Exists(n) =>
    /\ Below(nodes, n, ROOT)
    /\ \A k \in Ids : (Exists(k) /\ nodes[k].parent = n) <=> k \in ToSet(nodes[n].children)

(* No node has a lower level than a node above it: what vs_link_test_nodes *)
(* trusts, and vs_link_update_child does not keep.                         *)
LevelsRise ==
  \A n, k \in Ids : (Exists(n) /\ Exists(k) /\ Below(nodes, k, n)) =>
                       nodes[n].level <= nodes[k].level

(* No command, no end of a session and no confirmation cuts nodes off from *)
(* the tree or leaves a link to a node that is freed, if levels rise in    *)
(* the tree: then vs_link_test_nodes finds every cycle.                    *)
TreeKept == [][(TreeIntact /\ ~TreeIntact') => ~LevelsRise]_vars

(* The nodes that are saved are those below the parent of scene nodes,     *)
(* however nodes are moved.                                                *)
SceneSaveable ==
  \A n \in Ids : Exists(n) => (nodes[n].saveable <=> Below(nodes, n, SCENE))

(* The server keeps nothing of a session that has ended: no lock that      *)
(* nobody could release and no subscriber that refers to the session, and  *)
(* no follower if the client never unsubscribed.  A client that never      *)
(* unsubscribes has no follower that points to a freed subscriber.         *)
SessionForgotten ==
  \A n \in Ids, c \in Clients :
    /\ c \notin online => nodes[n].lock # c /\ nodes[n].subs[c] = NONE
    /\ <<c, "NODE_UNSUBSCRIBE">> \notin workload.commands =>
         /\ c \notin online => nodes[n].folls[c] = <<>>
         /\ \A i \in DOMAIN nodes[n].folls[c] : nodes[n].folls[c][i].sub # FREED

(* The state of the data thread is sound: types, and while the nodes are  *)
(* one tree, the flags that saving goes by (vs_link_update_child) and      *)
(* nothing of sessions that ended.                                         *)
StateSound == TypeOK /\ (TreeIntact => SceneSaveable /\ SessionForgotten)

(* Client c is sent the destroy command of node n only when it has         *)
(* received the create command.                                            *)
DestroyAfterCreate(c, n) == NodeDestroy(n) \in net[c] => n \in view[c].known

Quiet(c) == net[c] = {} /\ acks[c] = {} /\ out_queue[c] = <<>> /\ wire[c] = <<>>

(* When nothing is on its way to or from client c, it knows node n if the  *)
(* server takes it for known; over a stream it has its parent and owner    *)
(* right, and its lock if it subscribed to it.                             *)
AgreeWhenQuiet(c, n) == Quiet(c) =>
  /\ n \in view[c].known <=>
       \E i \in DOMAIN nodes[n].folls[c] : nodes[n].folls[c][i].state = CREATED
  /\ (c \in streams /\ n \in view[c].known) =>
       view[c].parent[n] = nodes[n].parent /\ view[c].owner[n] = nodes[n].owner
  /\ (c \in streams /\ Exists(n) /\ nodes[n].subs[c] # NONE) =>
       view[c].lock[n] = nodes[n].lock

(* A client that stays and knows the avatar of a client that has left      *)
(* eventually forgets it.                                                  *)
AvatarGoes ==
  \A c \in Leavers, d \in Stayers :
    (c \notin online /\ avatar_id[c] \in view[d].known) ~> (avatar_id[c] \notin view[d].known)

(* The server implements the promise of module Replication for the clients *)
(* that use datagrams and stay.                                            *)
R == INSTANCE Replication WITH
       Entities <- Ids,
       Viewers <- Stayers,
       exists <- {n \in Ids : n > FIRST_COMMON_ID /\ nodes[n].state # NONE},
       known <- [c \in Stayers |-> IF c \in streams THEN {} ELSE view[c].known \ 0 .. 3]

ImplementsReplication == R!Spec
=============================================================================
