---------------------------- MODULE Nodes_proofs ----------------------------
(***************************************************************************)
(* Proofs about module Nodes, for any clients, commands of theirs and      *)
(* number of nodes: the types, and that the handlers of nodes implement    *)
(* module Replication.                                                     *)
(*                                                                         *)
(* The inductive invariant (NodesInv) says for every client that stays and *)
(* uses datagrams, and for every node, what the followers of the node that *)
(* the server keeps for the client say of the commands on their way to it, *)
(* of its acknowledgements and of what it knows (Told).  Every change of   *)
(* the followers goes with the command that is sent (Moves, ServerStep),   *)
(* and a node that is not in use has no followers (Ready), so nobody knows *)
(* a node that is freed.                                                   *)
(***************************************************************************)
EXTENDS Nodes, SequenceLemmas

-----------------------------------------------------------------------------
(* Recursive definitions: the functions that they choose exist.            *)

(* The steps of a computation from a on: step i of g takes T to T.         *)
Steps(T, a, n, g, f) ==
  f \in [0..n -> T] /\ \A i \in 0..n : f[i] = IF i = 0 THEN a ELSE g[<<i, f[i - 1]>>]

LEMMA StepsExist ==
  ASSUME NEW T, NEW a \in T, NEW n \in Nat, NEW g \in [(1..n) \X T -> T]
  PROVE  \E f : Steps(T, a, n, g, f)
<1> DEFINE Partly(k, f) == /\ f \in [0..n -> T] /\ f[0] = a
                           /\ \A i \in 1..n : i <= k => f[i] = g[<<i, f[i - 1]>>]
           K == {k \in Nat : k <= n => \E f : Partly(k, f)}
<1>1. 0 \in K
  <2>1. PICK f : f = [i \in 0..n |-> a]
    OBVIOUS
  <2>2. f \in [0..n -> T] /\ f[0] = a /\ \A i \in 1..n : ~(i <= 0)
    BY <2>1
  <2>3. Partly(0, f)
    BY <2>2
  <2> QED BY <2>3
<1>2. ASSUME NEW k \in Nat, k \in K PROVE k + 1 \in K
  <2> SUFFICES ASSUME k + 1 <= n PROVE \E f : Partly(k + 1, f)
    OBVIOUS
  <2>1. PICK f : Partly(k, f)
    BY <1>2
  <2>2. PICK v : v = g[<<k + 1, f[k]>>]
    OBVIOUS
  <2>3. k \in 0..n /\ k + 1 \in 0..n /\ k + 1 \in 1..n /\ (k + 1) - 1 = k
    OBVIOUS
  <2>4. f[k] \in T
    BY <2>1, <2>3
  <2>5. v \in T
    BY <2>2, <2>3, <2>4
  <2>6. PICK h : h = [f EXCEPT ![k + 1] = v]
    OBVIOUS
  <2>7. h \in [0..n -> T] /\ h[k + 1] = v /\ \A i \in 0..n : i # k + 1 => h[i] = f[i]
    BY <2>1, <2>3, <2>5, <2>6
  <2>8. h[0] = a
    BY <2>1, <2>7
  <2>9. ASSUME NEW i \in 1..n, i <= k + 1 PROVE h[i] = g[<<i, h[i - 1]>>]
    <3>1. CASE i = k + 1
      <4>1. h[i] = v /\ h[i - 1] = f[k]
        BY <2>3, <2>7, <3>1
      <4> QED BY <2>2, <3>1, <4>1
    <3>2. CASE i # k + 1
      <4>1. i <= k /\ i - 1 \in 0..n /\ i - 1 # k + 1 /\ i \in 0..n
        BY <2>9, <3>2
      <4>2. h[i] = f[i] /\ h[i - 1] = f[i - 1]
        BY <2>7, <3>2, <4>1
      <4> QED BY <2>1, <4>1, <4>2
    <3> QED BY <3>1, <3>2
  <2>10. Partly(k + 1, h)
    BY <2>7, <2>8, <2>9
  <2> QED BY <2>10
<1>3. Nat \subseteq K
  <2> HIDE DEF K
  <2> QED BY <1>1, <1>2, SetInduction
<1>4. PICK f : Partly(n, f)
  <2>1. n \in K
    <3> HIDE DEF K
    <3> QED BY <1>3
  <2> QED BY <2>1
<1>5. \A i \in 0..n : i = 0 \/ (i \in 1..n /\ i <= n)
  OBVIOUS
<1>6. Steps(T, a, n, g, f)
  BY <1>4, <1>5 DEF Steps
<1> QED BY <1>6

(* What Only returns.                                                      *)
LEMMA OnlyElements ==
  ASSUME NEW T, NEW s \in Seq(T), NEW S
  PROVE  Only(s, S) \in Seq(T) /\ ToSet(Only(s, S)) = ToSet(s) \intersect S
<1>1. PICK n \in Nat : n = Len(s) /\ DOMAIN s = 1..n /\ \A i \in 1..n : s[i] \in T
  BY LenProperties
<1> DEFINE U == Seq(T)
           g == [x \in (1..n) \X U |-> IF s[x[1]] \in S THEN Append(x[2], s[x[1]]) ELSE x[2]]
           Round(f) == [i \in 0..n |-> IF i = 0 THEN <<>>
                          ELSE IF s[i] \in S THEN Append(f[i - 1], s[i]) ELSE f[i - 1]]
<1>2. <<>> \in U /\ g \in [(1..n) \X U -> U]
  <2>1. \A u \in Seq(T), x \in T : Append(u, x) \in Seq(T)
    BY AppendProperties
  <2>2. ASSUME NEW i \in 1..n, NEW u \in U
        PROVE  (IF s[i] \in S THEN Append(u, s[i]) ELSE u) \in U
    BY <1>1, <2>1
  <2>3. ASSUME NEW x \in (1..n) \X U
        PROVE  (IF s[x[1]] \in S THEN Append(x[2], s[x[1]]) ELSE x[2]) \in U
    <3>1. x[1] \in 1..n /\ x[2] \in U
      OBVIOUS
    <3> HIDE DEF U
    <3> QED BY <2>2, <3>1
  <2>4. <<>> \in U
    OBVIOUS
  <2> HIDE DEF U
  <2> QED BY <2>3, <2>4
<1>3. PICK f \in [0..n -> U] : \A i \in 0..n : f[i] = IF i = 0 THEN <<>> ELSE g[<<i, f[i - 1]>>]
  <2>1. PICK a \in U : a = <<>>
    BY <1>2
  <2> HIDE DEF g, U
  <2>2. PICK f : Steps(U, a, n, g, f)
    BY <1>2, StepsExist
  <2> QED BY <2>1, <2>2 DEF Steps
<1>4. ASSUME NEW i \in 1..n
      PROVE  f[i] = IF s[i] \in S THEN Append(f[i - 1], s[i]) ELSE f[i - 1]
  <2>1. i \in 0..n /\ i # 0 /\ i - 1 \in 0..n /\ f[i - 1] \in U
    BY <1>3
  <2>2. f[i] = g[<<i, f[i - 1]>>]
    BY <1>3, <2>1
  <2>3. PICK u \in U : u = f[i - 1]
    BY <2>1
  <2>4. PICK x : x = <<i, u>>
    OBVIOUS
  <2>5. x \in (1..n) \X U /\ x[1] = i /\ x[2] = u
    BY <2>3, <2>4
  <2>6. g[x] = IF s[x[1]] \in S THEN Append(x[2], s[x[1]]) ELSE x[2]
    <3> HIDE DEF U
    <3> QED BY <2>5
  <2> HIDE DEF g
  <2> QED BY <2>2, <2>3, <2>4, <2>5, <2>6
<1>5. f = Round(f)
  <2>1. \A i \in 0..n : f[i] = Round(f)[i]
    <3>1. \A i \in 0..n : i = 0 \/ i \in 1..n
      OBVIOUS
    <3>2. f[0] = <<>>
      <4>1. 0 \in 0..n
        OBVIOUS
      <4> HIDE DEF g
      <4> QED BY <1>3, <4>1
    <3> QED BY <1>4, <3>1, <3>2
  <2> QED BY <1>3, <2>1
<1> DEFINE h == CHOOSE k : k = Round(k)
<1>6. h = Round(h)
  BY <1>5
<1>7. Only(s, S) = h[n]
  BY <1>1 DEF Only
<1> HIDE DEF h
<1>8. h[0] = <<>> /\ \A i \in 1..n : h[i] = IF s[i] \in S THEN Append(h[i - 1], s[i]) ELSE h[i - 1]
  <2>1. 0 \in 0..n /\ \A i \in 1..n : i \in 0..n /\ i # 0
    OBVIOUS
  <2> QED BY <1>6, <2>1
<1> HIDE DEF Round
<1> DEFINE K == {k \in Nat : k <= n => h[k] \in U /\ ToSet(h[k]) = {s[j] : j \in 1..k} \intersect S}
<1>9. 0 \in K
  <2>1. 1..0 = {} /\ ToSet(<<>>) = {}
    BY DEF ToSet
  <2> QED BY <1>2, <1>8, <2>1
<1>10. ASSUME NEW k \in Nat, k \in K PROVE k + 1 \in K
  <2> SUFFICES ASSUME k + 1 <= n
               PROVE  h[k + 1] \in U /\ ToSet(h[k + 1]) = {s[j] : j \in 1..(k + 1)} \intersect S
    OBVIOUS
  <2>1. k <= n /\ k + 1 \in 1..n /\ (k + 1) - 1 = k /\ 1..(k + 1) = 1..k \union {k + 1}
    OBVIOUS
  <2>2. h[k] \in U /\ ToSet(h[k]) = {s[j] : j \in 1..k} \intersect S
    BY <1>10, <2>1
  <2>3. h[k + 1] = IF s[k + 1] \in S THEN Append(h[k], s[k + 1]) ELSE h[k]
    BY <1>8, <2>1
  <2>4. {s[j] : j \in 1..(k + 1)} = {s[j] : j \in 1..k} \union {s[k + 1]}
    BY <2>1
  <2>5. PICK v, x : v = h[k] /\ x = s[k + 1]
    OBVIOUS
  <2>6. v \in Seq(T) /\ x \in T
    BY <1>1, <2>1, <2>2, <2>5
  <2>7. Append(v, x) \in Seq(T) /\ ToSet(Append(v, x)) = ToSet(v) \union {x}
    BY <2>6, OrderedAppend
  <2>8. h[k + 1] = IF x \in S THEN Append(v, x) ELSE v
    BY <2>3, <2>5
  <2>9. ToSet(v) = {s[j] : j \in 1..k} \intersect S
    BY <2>2, <2>5
  <2> QED BY <2>4, <2>5, <2>6, <2>7, <2>8, <2>9
<1>11. Nat \subseteq K
  <2> HIDE DEF K
  <2> QED BY <1>9, <1>10, SetInduction
<1>12. h[n] \in U /\ ToSet(h[n]) = {s[j] : j \in 1..n} \intersect S
  <2>1. n \in K
    <3> HIDE DEF K
    <3> QED BY <1>11
  <2> QED BY <2>1
<1>13. ToSet(s) = {s[j] : j \in 1..n}
  BY <1>1 DEF ToSet
<1> QED BY <1>7, <1>12, <1>13

(* The least set that contains B and every n from which Q leads to it.     *)
Leads(D, B, Q, X) == X \in SUBSET D /\ \A n \in D : n \in X <=> n \in B \/ \E k \in Q[n] : k \in X

LEMMA LeastSet ==
  ASSUME NEW D, NEW B \in SUBSET D, NEW Q \in [D -> SUBSET D]
  PROVE  \E X : Leads(D, B, Q, X)
<1> DEFINE Closed(Z) == \A n \in D : n \in B \/ (\E k \in Q[n] : k \in Z) => n \in Z
           X == {n \in D : \A Z \in SUBSET D : Closed(Z) => n \in Z}
<1>1. Closed(X)
  OBVIOUS
<1>2. ASSUME NEW n \in D, n \in X PROVE n \in B \/ \E k \in Q[n] : k \in X
  <2> DEFINE Y == {m \in D : m \in B \/ \E k \in Q[m] : k \in X}
  <2>1. Y \subseteq X
    BY <1>1
  <2>2. Closed(Y)
    <3> SUFFICES ASSUME NEW m \in D, m \in B \/ \E k \in Q[m] : k \in Y PROVE m \in Y
      OBVIOUS
    <3> QED BY <2>1
  <2>3. n \in Y
    <3>1. Y \in SUBSET D
      OBVIOUS
    <3> HIDE DEF Y
    <3> QED BY <1>2, <2>2, <3>1
  <2> QED BY <2>3
<1>3. X \in SUBSET D
  OBVIOUS
<1>4. Leads(D, B, Q, X)
  <2> HIDE DEF X
  <2> QED BY <1>1, <1>2, <1>3 DEF Leads
<1> QED BY <1>4

-----------------------------------------------------------------------------
(* Types of nodes, commands and views.                                     *)

NodeStates == {NONE, CREATING, CREATED, DELETING, DELETED}
FollType   == [state : {CREATING, CREATED, DELETING}, sub : Ids \union {FREED}]
FollLists  == [Clients -> Seq(FollType)]
SubTypes   == [Clients -> {NONE, "DEFAULT_PRIORITY", "OTHER_PRIORITY"}]
Rights     == SUBSET {"READ", "WRITE"}
PermLists  == Seq(Users \X Rights)

NodeType ==
  [state : NodeStates, parent : Ids \union {NoNode}, children : Seq(Ids), level : Nat,
   saveable : BOOLEAN, owner : Users, permissions : PermLists, lock : Clients \union {NONE},
   subs : SubTypes, folls : FollLists]

Trees == [Ids -> NodeType]

ServerOps == {"NODE_CREATE", "NODE_DESTROY", "NODE_LINK", "NODE_LOCK", "NODE_UNLOCK", "NODE_OWNER"}
FakeOps   == {"NODE_CREATE_ACK", "NODE_DESTROY_ACK"}

Msgs     == {m \in [op : ServerOps, node : Ids, other : Ids \union {NoNode}, user : Users \union {NONE}] :
               m.op = "NODE_DESTROY" => m = NodeDestroy(m.node)}
FakeMsgs == [op : FakeOps, node : Ids, other : {NoNode}, user : {NONE}]

ViewType ==
  [known : SUBSET Ids, parent : [Ids -> Ids \union {NoNode}],
   owner : [Ids -> Users \union {NONE}], lock : [Ids -> Users \union {NONE}]]

(* A node with the state and the followers of another.                     *)
Same(e, r) == r \in NodeType /\ r.state = e.state /\ r.folls = e.folls

LEMMA IdFacts ==
  /\ MaxNode \in Nat /\ MaxNode > 4 /\ NoNode \notin Ids /\ FREED \notin Ids
  /\ ROOT \in Ids /\ AVATARS \in Ids /\ USERS \in Ids /\ SCENE \in Ids /\ FIRST_COMMON_ID \in Ids
  /\ \A n \in Ids : n \in Nat /\ n <= MaxNode
BY NodesAssumption DEF Ids, NoNode, FREED, ROOT, AVATARS, USERS, SCENE, FIRST_COMMON_ID

LEMMA FreeNodeType == FreeNode \in NodeType /\ FreeNode.state = NONE /\ \A c \in Clients : FreeNode.folls[c] = <<>>
<1>1. [c \in Clients |-> NONE] \in SubTypes
  BY DEF SubTypes
<1>2. [c \in Clients |-> <<>>] \in FollLists
  BY DEF FollLists
<1>3. <<>> \in Seq(Ids) /\ <<>> \in PermLists /\ SUPER_USER \in Users /\ NONE \in NodeStates
  BY DEF PermLists, Users, NodeStates
<1> QED BY <1>1, <1>2, <1>3 DEF FreeNode, NodeType

-----------------------------------------------------------------------------
(* One field of a node is changed.                                         *)

LEMMA NodeFields ==
  ASSUME NEW e \in NodeType
  PROVE  /\ e.state \in NodeStates /\ e.parent \in Ids \union {NoNode} /\ e.children \in Seq(Ids)
         /\ e.level \in Nat /\ e.saveable \in BOOLEAN /\ e.owner \in Users /\ e.permissions \in PermLists
         /\ e.lock \in Clients \union {NONE} /\ e.subs \in SubTypes /\ e.folls \in FollLists
BY DEF NodeType

LEMMA WithChildren ==
  ASSUME NEW e \in NodeType, NEW v \in Seq(Ids)
  PROVE  Same(e, [e EXCEPT !.children = v])
BY DEF NodeType, Same

LEMMA WithParent ==
  ASSUME NEW e \in NodeType, NEW v \in Ids \union {NoNode}
  PROVE  Same(e, [e EXCEPT !.parent = v])
BY DEF NodeType, Same

LEMMA WithLevel ==
  ASSUME NEW e \in NodeType, NEW v \in Nat
  PROVE  Same(e, [e EXCEPT !.level = v])
BY DEF NodeType, Same

LEMMA WithSaveable ==
  ASSUME NEW e \in NodeType, NEW v \in BOOLEAN
  PROVE  Same(e, [e EXCEPT !.saveable = v])
BY DEF NodeType, Same

LEMMA WithOwner ==
  ASSUME NEW e \in NodeType, NEW v \in Users
  PROVE  Same(e, [e EXCEPT !.owner = v])
BY DEF NodeType, Same

LEMMA WithPermissions ==
  ASSUME NEW e \in NodeType, NEW v \in PermLists
  PROVE  Same(e, [e EXCEPT !.permissions = v])
BY DEF NodeType, Same

LEMMA WithLock ==
  ASSUME NEW e \in NodeType, NEW v \in Clients \union {NONE}
  PROVE  Same(e, [e EXCEPT !.lock = v])
BY DEF NodeType, Same

LEMMA WithSubs ==
  ASSUME NEW e \in NodeType, NEW v \in SubTypes
  PROVE  Same(e, [e EXCEPT !.subs = v])
BY DEF NodeType, Same

LEMMA WithState ==
  ASSUME NEW e \in NodeType, NEW v \in NodeStates, NEW r, r = [e EXCEPT !.state = v]
  PROVE  r \in NodeType /\ r.state = v /\ r.folls = e.folls
BY DEF NodeType

LEMMA WithFolls ==
  ASSUME NEW e \in NodeType, NEW v \in FollLists, NEW r, r = [e EXCEPT !.folls = v]
  PROVE  r \in NodeType /\ r.state = e.state /\ r.folls = v
BY DEF NodeType

LEMMA SameTrans ==
  ASSUME NEW e, NEW r, NEW s, Same(e, r), Same(r, s)
  PROVE  Same(e, s)
BY DEF Same

-----------------------------------------------------------------------------
(* The operators on one node.                                              *)

LEMMA RemoveAtType ==
  ASSUME NEW T, NEW s \in Seq(T), NEW i \in 1..Len(s)
  PROVE  RemoveAt(s, i) \in Seq(T)
<1>1. PICK n \in Nat : n = Len(s) /\ DOMAIN s = 1..n /\ \A k \in 1..n : s[k] \in T
  BY LenProperties
<1>2. SubSeq(s, 1, i - 1) \in Seq(T)
  <2>1. \A k \in 1..(i - 1) : s[k] \in T
    BY <1>1
  <2> QED BY <2>1, SubSeqProperties
<1>3. SubSeq(s, i + 1, n) \in Seq(T)
  <2>1. \A k \in (i + 1)..n : s[k] \in T
    BY <1>1
  <2>2. i + 1 \in Int /\ n \in Int
    OBVIOUS
  <2> QED BY <2>1, <2>2, SubSeqProperties
<1> QED BY <1>1, <1>2, <1>3, ConcatProperties DEF RemoveAt

LEMMA SetPermType ==
  ASSUME NEW e \in NodeType, NEW u \in Users, NEW p \in Rights
  PROVE  Same(e, vs_node_set_perm(e, u, p))
<1> DEFINE s == e.permissions
           at == {i \in DOMAIN s : s[i][1] = u}
           i == CHOOSE i \in at : TRUE
           x == <<u, p>>
<1>1. s \in PermLists /\ s \in Seq(Users \X Rights) /\ DOMAIN s = 1..Len(s) /\ x \in Users \X Rights
  BY NodeFields, LenProperties DEF PermLists
<1>2. CASE at = {}
  <2>1. vs_node_set_perm(e, u, p) = [e EXCEPT !.permissions = Append(s, x)]
    BY <1>2 DEF vs_node_set_perm
  <2>2. Append(s, x) \in PermLists
    <3> HIDE DEF s, x
    <3> QED BY <1>1, AppendProperties DEF PermLists
  <2> QED BY <2>1, <2>2, WithPermissions
<1>3. CASE at # {}
  <2>1. i \in 1..Len(s)
    BY <1>1, <1>3
  <2> DEFINE v == IF p = {} THEN RemoveAt(s, i) ELSE [s EXCEPT ![i] = x]
  <2>3. vs_node_set_perm(e, u, p) = [e EXCEPT !.permissions = v]
    BY <1>3 DEF vs_node_set_perm
  <2>4. v \in PermLists
    <3> HIDE DEF s, x, i
    <3>1. RemoveAt(s, i) \in Seq(Users \X Rights) /\ [s EXCEPT ![i] = x] \in Seq(Users \X Rights)
      BY <1>1, <2>1, RemoveAtType, ExceptSeq
    <3> QED BY <3>1 DEF PermLists
  <2> HIDE DEF v
  <2> QED BY <2>3, <2>4, WithPermissions
<1> QED BY <1>2, <1>3

(* What may happen to the list of a client's followers of a node.          *)
AllDeleting(F) == \A i \in DOMAIN F : F[i].state = DELETING
Joins(F, G)    == AllDeleting(F) /\ \E x \in Ids : G = Append(F, [state |-> CREATING, sub |-> x])
Leaves(F, G)   == /\ \E i \in DOMAIN F : F[i].state = CREATED
                  /\ DOMAIN G = DOMAIN F /\ AllDeleting(G)

LEMMA CreatedHasState ==
  ASSUME NEW e, IsCreated(e)
  PROVE  e.state # NONE /\ e.state # DELETING
BY DEF IsCreated, NONE, CREATING, CREATED, DELETING

LEMMA SendCreateType ==
  ASSUME NEW e \in NodeType, NEW p \in Ids, NEW C \in SUBSET Clients, NEW r, r = vs_node_send_create(e, p, C)
  PROVE  /\ r \in NodeType /\ r.state = e.state
         /\ \A c \in Clients : IF c \in C /\ IsCreated(e) /\ AllDeleting(e.folls[c])
                               THEN Joins(e.folls[c], r.folls[c]) ELSE r.folls[c] = e.folls[c]
<1>1. e.folls \in [Clients -> Seq(FollType)]
  BY NodeFields DEF FollLists
<1>2. PICK y : y = [state |-> CREATING, sub |-> p]
  OBVIOUS
<1>3. y \in FollType
  BY <1>2 DEF FollType
<1>4. PICK v : v = [c \in Clients |-> IF c \in Untold(e, C) THEN Append(e.folls[c], y) ELSE e.folls[c]]
  OBVIOUS
<1>5. v \in FollLists
  <2>1. \A c \in Clients : Append(e.folls[c], y) \in Seq(FollType)
    BY <1>1, <1>3, AppendProperties
  <2> QED BY <1>1, <1>4, <2>1 DEF FollLists
<1>6. r = [e EXCEPT !.folls = v]
  BY <1>2, <1>4 DEF vs_node_send_create
<1>7. r \in NodeType /\ r.state = e.state /\ r.folls = v
  BY <1>5, <1>6, WithFolls
<1>8. \A c \in Clients : c \in Untold(e, C) <=> c \in C /\ IsCreated(e) /\ AllDeleting(e.folls[c])
  BY DEF Untold, AllDeleting
<1> QED BY <1>2, <1>4, <1>7, <1>8 DEF Joins

LEMMA SendDestroyType ==
  ASSUME NEW e \in NodeType, NEW r, r = vs_node_send_destroy(e)
  PROVE  /\ r \in NodeType /\ r.state = DELETING
         /\ \A c \in Clients : IF c \in Destroyable(e) THEN Leaves(e.folls[c], r.folls[c])
                               ELSE r.folls[c] = e.folls[c]
<1>1. e.folls \in [Clients -> Seq(FollType)]
  BY NodeFields DEF FollLists
<1> DEFINE Gone(F) == [i \in DOMAIN F |-> [F[i] EXCEPT !.state = DELETING]]
<1>2. PICK v : v = [c \in Clients |-> IF c \notin Destroyable(e) THEN e.folls[c] ELSE Gone(e.folls[c])]
  OBVIOUS
<1>3. ASSUME NEW F \in Seq(FollType) PROVE Gone(F) \in Seq(FollType) /\ DOMAIN Gone(F) = DOMAIN F /\ AllDeleting(Gone(F))
  <2>1. PICK n \in Nat : DOMAIN F = 1..n /\ \A i \in 1..n : F[i] \in FollType
    BY LenProperties
  <2>2. \A i \in 1..n : [F[i] EXCEPT !.state = DELETING] \in FollType /\ [F[i] EXCEPT !.state = DELETING].state = DELETING
    BY <2>1 DEF FollType
  <2>3. Gone(F) \in [1..n -> FollType]
    BY <2>1, <2>2
  <2>4. \A i \in 1..n : Gone(F)[i].state = DELETING
    BY <2>1, <2>2
  <2>5. DOMAIN Gone(F) = 1..n
    BY <2>1
  <2> HIDE DEF Gone
  <2>6. Gone(F) \in Seq(FollType)
    BY <2>3, SeqDef
  <2> QED BY <2>1, <2>4, <2>5, <2>6 DEF AllDeleting
<1> HIDE DEF Gone
<1>4. v \in FollLists
  <2>1. \A c \in Clients : Gone(e.folls[c]) \in Seq(FollType)
    BY <1>1, <1>3
  <2> QED BY <1>1, <1>2, <2>1 DEF FollLists
<1>5. r = [[e EXCEPT !.state = DELETING] EXCEPT !.folls = v]
  BY <1>2 DEF vs_node_send_destroy, Gone
<1>6. PICK s : s = [e EXCEPT !.state = DELETING]
  OBVIOUS
<1>7. s \in NodeType /\ s.state = DELETING
  BY <1>6, WithState DEF NodeStates
<1>8. r \in NodeType /\ r.state = DELETING /\ r.folls = v
  <2>1. r = [s EXCEPT !.folls = v]
    BY <1>5, <1>6
  <2> QED BY <1>4, <1>7, <2>1, WithFolls
<1>9. \A c \in Clients : c \in Destroyable(e) <=> \E i \in DOMAIN e.folls[c] : e.folls[c][i].state = CREATED
  BY DEF Destroyable
<1>10. ASSUME NEW c \in Clients, c \in Destroyable(e) PROVE Leaves(e.folls[c], r.folls[c])
  <2>1. r.folls[c] = Gone(e.folls[c])
    BY <1>2, <1>8, <1>10
  <2> QED BY <1>1, <1>3, <1>9, <1>10, <2>1 DEF Leaves
<1> QED BY <1>2, <1>8, <1>10

-----------------------------------------------------------------------------
(* What the server believes of a client d that uses datagrams and stays,   *)
(* for one node n: F are the followers of d, H the commands on their way   *)
(* to it, A the acknowledgements that were not handled yet, V the nodes    *)
(* that it knows.                                                          *)

Creates(H, n) == \E m \in H : m.op = "NODE_CREATE" /\ m.node = n

OneCreate(H, n) ==
  \A m, k \in H : m.op = "NODE_CREATE" /\ k.op = "NODE_CREATE" /\ m.node = n /\ k.node = n => m = k

(* The state of the last follower, and of the first ones.                  *)
LastIs(F, S)  == F # <<>> /\ F[Len(F)].state \in S
FirstGoes(F)  == F # <<>> /\ F[1].state = DELETING
SecondGoes(F) == Len(F) > 1 /\ F[2].state = DELETING

Told(F, H, A, V, n) ==
  /\ \A i \in DOMAIN F : i < Len(F) => F[i].state = DELETING
  /\ OneCreate(H, n)
  /\ Creates(H, n) => NodeCreateAck(n) \notin A
  /\ Creates(H, n) \/ NodeCreateAck(n) \in A => LastIs(F, {CREATING})
  /\ NodeDestroy(n) \in H \/ NodeDestroyAck(n) \in A => FirstGoes(F)
  /\ NodeDestroy(n) \in H /\ NodeDestroyAck(n) \in A => SecondGoes(F)
  /\ n \in V => LastIs(F, {CREATING, CREATED}) \/ NodeDestroy(n) \in H

LEMMA FakeMsgFields ==
  ASSUME NEW n
  PROVE  /\ NodeDestroy(n).op = "NODE_DESTROY" /\ NodeDestroy(n).node = n
         /\ NodeCreateAck(n).op = "NODE_CREATE_ACK" /\ NodeCreateAck(n).node = n
         /\ NodeDestroyAck(n).op = "NODE_DESTROY_ACK" /\ NodeDestroyAck(n).node = n
BY DEF NodeDestroy, NodeCreateAck, NodeDestroyAck, Cmd

(* The same commands, acknowledgements and knowledge of node n.            *)
Alike(H, I, A, B, V, W, n) ==
  /\ \A m : m.op = "NODE_CREATE" /\ m.node = n => (m \in H <=> m \in I)
  /\ NodeDestroy(n) \in H <=> NodeDestroy(n) \in I
  /\ NodeCreateAck(n) \in A <=> NodeCreateAck(n) \in B
  /\ NodeDestroyAck(n) \in A <=> NodeDestroyAck(n) \in B
  /\ n \in V <=> n \in W

LEMMA ToldAlike ==
  ASSUME NEW F, NEW H, NEW I, NEW A, NEW B, NEW V, NEW W, NEW n,
         Told(F, H, A, V, n), Alike(H, I, A, B, V, W, n)
  PROVE  Told(F, I, B, W, n)
<1>1. (Creates(H, n) <=> Creates(I, n)) /\ (OneCreate(H, n) <=> OneCreate(I, n))
  BY DEF Creates, OneCreate, Alike
<1> QED BY <1>1 DEF Told, Alike

(* How the followers of a client change, and the commands o that it is     *)
(* sent.                                                                   *)
Moves(F, G, o, n) ==
  \/ G = F /\ ~Creates(o, n) /\ NodeDestroy(n) \notin o
  \/ Joins(F, G) /\ Creates(o, n) /\ OneCreate(o, n) /\ NodeDestroy(n) \notin o
  \/ Leaves(F, G) /\ ~Creates(o, n) /\ NodeDestroy(n) \in o

LEMMA StatesDiffer == CREATING # CREATED /\ CREATING # DELETING /\ CREATED # DELETING /\ NONE # CREATING
                      /\ NONE # CREATED /\ NONE # DELETING /\ NONE # DELETED
BY DEF NONE, CREATING, CREATED, DELETING, DELETED

LEMMA IntervalEnd ==
  ASSUME NEW k \in Nat, NEW l \in Nat, 1..k = 1..l
  PROVE  k = l
<1>1. \A i : i \in 1..k <=> i \in 1..l
  OBVIOUS
<1>2. ~(k < l)
  <2>1. k < l => k + 1 \in 1..l /\ k + 1 \notin 1..k
    OBVIOUS
  <2> QED BY <1>1, <2>1
<1>3. ~(l < k)
  <2>1. l < k => l + 1 \in 1..k /\ l + 1 \notin 1..l
    OBVIOUS
  <2> QED BY <1>1, <2>1
<1> QED BY <1>2, <1>3

LEMMA FollFacts ==
  ASSUME NEW F \in Seq(FollType)
  PROVE  /\ Len(F) \in Nat /\ DOMAIN F = 1..Len(F) /\ (F = <<>> <=> Len(F) = 0)
         /\ \A i \in 1..Len(F) : F[i] \in FollType /\ F[i].state \in {CREATING, CREATED, DELETING}
<1>1. Len(F) \in Nat /\ DOMAIN F = 1..Len(F) /\ \A i \in 1..Len(F) : F[i] \in FollType
  BY LenProperties
<1>2. F = <<>> <=> Len(F) = 0
  BY EmptySeq
<1> QED BY <1>1, <1>2 DEF FollType

LEMMA ToldJoins ==
  ASSUME NEW F \in Seq(FollType), NEW G, NEW H, NEW A, NEW V, NEW n, Told(F, H, A, V, n), NEW o,
         Joins(F, G), OneCreate(o, n), NodeDestroy(n) \notin o
  PROVE  Told(G, H \union o, A, V, n) /\ G \in Seq(FollType)
<1>1. PICK x \in Ids : G = Append(F, [state |-> CREATING, sub |-> x])
  BY DEF Joins
<1>2. PICK y : y = [state |-> CREATING, sub |-> x]
  OBVIOUS
<1>3. y \in FollType /\ y.state = CREATING
  BY <1>2 DEF FollType
<1>4. PICK l : l = Len(F)
  OBVIOUS
<1>5. /\ l \in Nat /\ DOMAIN F = 1..l /\ (F = <<>> <=> l = 0)
      /\ \A i \in 1..l : F[i].state = DELETING
  BY <1>4, FollFacts DEF Joins, AllDeleting
<1>6. /\ G \in Seq(FollType) /\ Len(G) = l + 1 /\ DOMAIN G = 1..(l + 1)
      /\ \A i \in 1..l : G[i] = F[i] /\ G[l + 1] = y
  <2>1. G = Append(F, y)
    BY <1>1, <1>2
  <2>2. G \in Seq(FollType) /\ Len(G) = l + 1 /\ (\A i \in 1..l : G[i] = F[i]) /\ G[l + 1] = y
    BY <1>3, <1>4, <2>1, AppendProperties
  <2> QED BY <2>2, LenProperties
<1>7. G[l + 1] = y /\ G # <<>> /\ LastIs(G, {CREATING}) /\ LastIs(G, {CREATING, CREATED})
  <2>1. G[l + 1] = y
    <3>1. G = Append(F, y)
      BY <1>1, <1>2
    <3> QED BY <1>3, <1>4, <3>1, AppendProperties
  <2>2. G # <<>>
    BY <1>5, <1>6, EmptySeq
  <2> QED BY <1>3, <1>6, <2>1, <2>2 DEF LastIs
<1>8. ~LastIs(F, {CREATING}) /\ ~LastIs(F, {CREATING, CREATED})
  <2>1. F # <<>> => l \in 1..l
    BY <1>5
  <2> QED BY <1>4, <1>5, <2>1, StatesDiffer DEF LastIs
<1>9. ~Creates(H, n) /\ NodeCreateAck(n) \notin A /\ (n \in V => NodeDestroy(n) \in H)
  BY <1>8 DEF Told
<1>10. OneCreate(H \union o, n)
  BY <1>9 DEF OneCreate, Creates
<1>11. FirstGoes(F) => FirstGoes(G)
  <2>1. F # <<>> => 1 \in 1..l
    BY <1>5
  <2> QED BY <1>6, <1>7, <2>1 DEF FirstGoes
<1>12. SecondGoes(F) => SecondGoes(G)
  <2>1. Len(F) > 1 => 2 \in 1..l
    BY <1>4, <1>5
  <2>2. Len(F) > 1 => Len(G) > 1
    BY <1>4, <1>5, <1>6
  <2> QED BY <1>6, <2>1, <2>2 DEF SecondGoes
<1>13. \A i \in DOMAIN G : i < Len(G) => G[i].state = DELETING
  <2>1. \A i \in 1..(l + 1) : i < l + 1 => i \in 1..l
    BY <1>5
  <2> QED BY <1>5, <1>6, <2>1
<1> QED BY <1>6, <1>7, <1>9, <1>10, <1>11, <1>12, <1>13 DEF Told

LEMMA ToldLeaves ==
  ASSUME NEW F \in Seq(FollType), NEW G \in Seq(FollType), NEW H, NEW A, NEW V, NEW n, Told(F, H, A, V, n), NEW o,
         Leaves(F, G), ~Creates(o, n), NodeDestroy(n) \in o
  PROVE  Told(G, H \union o, A, V, n)
<1>1. PICK l : l = Len(F)
  OBVIOUS
<1>2. l \in Nat /\ DOMAIN F = 1..l /\ (F = <<>> <=> l = 0)
  BY <1>1, FollFacts
<1>3. DOMAIN G = 1..l /\ \A i \in 1..l : G[i].state = DELETING
  BY <1>2 DEF Leaves, AllDeleting
<1>4. PICK i \in 1..l : F[i].state = CREATED
  BY <1>2 DEF Leaves
<1>5. i = l
  <2>1. i < l => F[i].state = DELETING
    BY <1>1, <1>2 DEF Told
  <2> QED BY <1>2, <1>4, <2>1, StatesDiffer
<1>6. l # 0 /\ 1 \in 1..l /\ F # <<>>
  BY <1>2, <1>4
<1>7. Len(G) = l /\ G # <<>>
  <2>1. Len(G) \in Nat /\ DOMAIN G = 1..Len(G) /\ (G = <<>> <=> Len(G) = 0)
    BY FollFacts
  <2>2. 1..Len(G) = 1..l
    BY <1>3, <2>1
  <2>3. Len(G) = l
    BY <1>2, <2>1, <2>2, IntervalEnd
  <2> QED BY <1>6, <2>1, <2>3
<1>8. ~LastIs(F, {CREATING})
  BY <1>1, <1>4, <1>5, StatesDiffer DEF LastIs
<1>9. ~Creates(H, n) /\ NodeCreateAck(n) \notin A
  BY <1>8 DEF Told
<1>10. OneCreate(H \union o, n) /\ ~Creates(H \union o, n)
  BY <1>9 DEF OneCreate, Creates
<1>11. FirstGoes(G)
  BY <1>3, <1>6, <1>7 DEF FirstGoes
<1>12. FirstGoes(F) => SecondGoes(G)
  <2> SUFFICES ASSUME F[1].state = DELETING PROVE SecondGoes(G)
    BY DEF FirstGoes
  <2>1. l # 1
    BY <1>4, <1>5, StatesDiffer
  <2>2. l > 1 /\ 2 \in 1..l
    BY <1>2, <1>6, <2>1
  <2> QED BY <1>3, <1>7, <2>2 DEF SecondGoes
<1> QED BY <1>3, <1>9, <1>10, <1>11, <1>12 DEF Told

LEMMA ToldMoves ==
  ASSUME NEW F \in Seq(FollType), NEW G \in Seq(FollType), NEW H, NEW A, NEW V, NEW n, Told(F, H, A, V, n), NEW o,
         Moves(F, G, o, n)
  PROVE  Told(G, H \union o, A, V, n)
<1>1. CASE G = F /\ ~Creates(o, n) /\ NodeDestroy(n) \notin o
  <2>1. Alike(H, H \union o, A, A, V, V, n)
    BY <1>1 DEF Alike, Creates
  <2> QED BY <1>1, <2>1, ToldAlike
<1>2. CASE Joins(F, G) /\ Creates(o, n) /\ OneCreate(o, n) /\ NodeDestroy(n) \notin o
  BY <1>2, ToldJoins
<1>3. CASE Leaves(F, G) /\ ~Creates(o, n) /\ NodeDestroy(n) \in o
  BY <1>3, ToldLeaves
<1> QED BY <1>1, <1>2, <1>3 DEF Moves

(* vs_handle_node_create_ack: the followers that wait for it get state v,  *)
(* and the client is sent the commands o.                                  *)
Confirmed(F, v) ==
  [i \in DOMAIN F |-> IF F[i].state = CREATING THEN [F[i] EXCEPT !.state = v] ELSE F[i]]

LEMMA ConfirmedType ==
  ASSUME NEW F \in Seq(FollType), NEW v \in {CREATED, DELETING}, NEW G, G = Confirmed(F, v)
  PROVE  /\ G \in Seq(FollType) /\ Len(G) = Len(F) /\ DOMAIN G = DOMAIN F
         /\ \A i \in 1..Len(F) : G[i].state = IF F[i].state = CREATING THEN v ELSE F[i].state
<1>1. PICK l : l = Len(F)
  OBVIOUS
<1>2. l \in Nat /\ DOMAIN F = 1..l /\ \A i \in 1..l : F[i] \in FollType
  BY <1>1, FollFacts
<1>3. \A i \in 1..l : [F[i] EXCEPT !.state = v] \in FollType /\ [F[i] EXCEPT !.state = v].state = v
  BY <1>2 DEF FollType
<1>4. G \in [1..l -> FollType]
  BY <1>2, <1>3 DEF Confirmed
<1>5. \A i \in 1..l : G[i].state = IF F[i].state = CREATING THEN v ELSE F[i].state
  BY <1>2, <1>3 DEF Confirmed
<1>6. G \in Seq(FollType) /\ Len(G) = l
  <2>1. G \in Seq(FollType)
    BY <1>2, <1>4, SeqDef
  <2>2. Len(G) \in Nat /\ 1..Len(G) = 1..l
    BY <1>4, <2>1, LenProperties
  <2> QED BY <1>2, <2>1, <2>2, IntervalEnd
<1> QED BY <1>1, <1>2, <1>4, <1>5, <1>6

LEMMA ToldCreateAck ==
  ASSUME NEW F \in Seq(FollType), NEW H, NEW A, NEW V, NEW n, Told(F, H, A, V, n),
         NodeCreateAck(n) \in A, NEW v \in {CREATED, DELETING}, NEW G, G = Confirmed(F, v),
         NEW I, I = H \union (IF v = DELETING THEN {NodeDestroy(n)} ELSE {}),
         NEW B, B = A \ {NodeCreateAck(n)}
  PROVE  Told(G, I, B, V, n)
<1>1. PICK l : l = Len(F)
  OBVIOUS
<1>2. /\ l \in Nat /\ DOMAIN F = 1..l /\ (F = <<>> <=> l = 0)
      /\ G \in Seq(FollType) /\ Len(G) = l /\ DOMAIN G = 1..l /\ (G = <<>> <=> l = 0)
  BY <1>1, FollFacts, ConfirmedType, EmptySeq
<1>3. \A i \in 1..l : G[i].state = IF F[i].state = CREATING THEN v ELSE F[i].state
  BY <1>1, ConfirmedType
<1>4. F # <<>> /\ F[l].state = CREATING /\ ~Creates(H, n)
  BY <1>1 DEF Told, LastIs
<1>5. l \in 1..l /\ 1 \in 1..l /\ G # <<>> /\ G[l].state = v
  BY <1>2, <1>3, <1>4
<1>6. \A i \in 1..l : i < l => G[i].state = DELETING
  <2>1. \A i \in 1..l : i < l => F[i].state = DELETING
    BY <1>1, <1>2 DEF Told
  <2> QED BY <1>3, <2>1, StatesDiffer
<1>7. ~Creates(I, n) /\ OneCreate(I, n)
  <2>1. NodeDestroy(n).op = "NODE_DESTROY"
    BY FakeMsgFields
  <2> QED BY <1>4, <2>1 DEF Creates, OneCreate
<1>8. FirstGoes(F) => l > 1 /\ FirstGoes(G)
  <2> SUFFICES ASSUME F[1].state = DELETING PROVE l > 1 /\ FirstGoes(G)
    BY DEF FirstGoes
  <2>1. l # 1
    BY <1>4, StatesDiffer
  <2>2. l > 1
    BY <1>2, <1>5, <2>1
  <2>3. G[1].state = DELETING
    BY <1>5, <1>6, <2>2
  <2> QED BY <1>5, <2>2, <2>3 DEF FirstGoes
<1>9. SecondGoes(F) => SecondGoes(G)
  <2> SUFFICES ASSUME l > 1, F[2].state = DELETING PROVE SecondGoes(G)
    BY <1>1 DEF SecondGoes
  <2>1. 2 \in 1..l
    BY <1>2
  <2>2. G[2].state = DELETING
    BY <1>3, <2>1, StatesDiffer
  <2> QED BY <1>2, <2>2 DEF SecondGoes
<1>10. v = DELETING => FirstGoes(G) /\ (l > 1 => SecondGoes(G))
  <2> SUFFICES ASSUME v = DELETING PROVE FirstGoes(G) /\ (l > 1 => SecondGoes(G))
    OBVIOUS
  <2>1. \A i \in 1..l : G[i].state = DELETING
    <3>1. \A i \in 1..l : i < l \/ i = l
      BY <1>2
    <3> QED BY <1>5, <1>6, <3>1
  <2>2. l > 1 => 2 \in 1..l
    BY <1>2
  <2> QED BY <1>2, <1>5, <2>1, <2>2 DEF FirstGoes, SecondGoes
<1>11. LastIs(G, {CREATING, CREATED}) \/ v = DELETING
  BY <1>2, <1>5 DEF LastIs
<1>12. NodeCreateAck(n) \notin B /\ (NodeDestroyAck(n) \in B <=> NodeDestroyAck(n) \in A)
  <2>1. NodeDestroyAck(n) # NodeCreateAck(n)
    BY FakeMsgFields
  <2> QED BY <2>1
<1>13. NodeDestroy(n) \in I <=> NodeDestroy(n) \in H \/ v = DELETING
  OBVIOUS
<1>14. NodeDestroy(n) \in H \/ NodeDestroyAck(n) \in A => FirstGoes(F)
  BY DEF Told
<1>15. NodeDestroy(n) \in H /\ NodeDestroyAck(n) \in A => SecondGoes(F)
  BY DEF Told
<1>16. NodeDestroy(n) \in I \/ NodeDestroyAck(n) \in B => FirstGoes(G)
  BY <1>8, <1>10, <1>12, <1>13, <1>14
<1>17. NodeDestroy(n) \in I /\ NodeDestroyAck(n) \in B => SecondGoes(G)
  BY <1>8, <1>9, <1>10, <1>12, <1>13, <1>14, <1>15
<1>18. n \in V => LastIs(G, {CREATING, CREATED}) \/ NodeDestroy(n) \in I
  BY <1>11, <1>13
<1> QED BY <1>2, <1>6, <1>7, <1>12, <1>16, <1>17, <1>18 DEF Told

(* vs_handle_node_destroy_ack: the first follower goes.                    *)
LEMMA ToldDestroyAck ==
  ASSUME NEW F \in Seq(FollType), NEW H, NEW A, NEW V, NEW n, Told(F, H, A, V, n),
         NodeDestroyAck(n) \in A, NEW B, B = A \ {NodeDestroyAck(n)}, NEW G, G = Tail(F)
  PROVE  F # <<>> /\ G \in Seq(FollType) /\ Told(G, H, B, V, n)
<1>1. PICK l : l = Len(F)
  OBVIOUS
<1>2. F # <<>> /\ F[1].state = DELETING
  BY DEF Told, FirstGoes
<1>3. /\ l \in Nat /\ l # 0 /\ DOMAIN F = 1..l
      /\ G \in Seq(FollType) /\ Len(G) = l - 1 /\ DOMAIN G = 1..(l - 1)
      /\ \A i \in 1..(l - 1) : G[i] = F[i + 1]
  <2>1. l \in Nat /\ l # 0 /\ DOMAIN F = 1..l
    BY <1>1, <1>2, FollFacts
  <2>2. G \in Seq(FollType) /\ Len(G) = l - 1 /\ \A i \in 1..Len(G) : G[i] = F[i + 1]
    BY <1>1, <1>2, HeadTailProperties
  <2> QED BY <2>1, <2>2, LenProperties
<1>4. G = <<>> <=> l = 1
  <2>1. G = <<>> <=> Len(G) = 0
    BY <1>3, FollFacts
  <2> QED BY <1>3, <2>1
<1>5. \A S : DELETING \notin S /\ LastIs(F, S) => LastIs(G, S)
  <2> SUFFICES ASSUME NEW S, DELETING \notin S, F[l].state \in S PROVE LastIs(G, S)
    BY <1>1 DEF LastIs
  <2>1. l # 1
    BY <1>2
  <2>2. l - 1 \in 1..(l - 1) /\ (l - 1) + 1 = l
    BY <1>3, <2>1
  <2>3. G[l - 1] = F[l]
    BY <1>3, <2>2
  <2> QED BY <1>3, <1>4, <2>1, <2>3 DEF LastIs
<1>6. SecondGoes(F) => FirstGoes(G)
  <2> SUFFICES ASSUME l > 1, F[2].state = DELETING PROVE FirstGoes(G)
    BY <1>1 DEF SecondGoes
  <2>1. 1 \in 1..(l - 1) /\ 1 + 1 = 2
    BY <1>3
  <2>2. G[1] = F[2]
    BY <1>3, <2>1
  <2> QED BY <1>4, <2>2 DEF FirstGoes
<1>7. \A i \in DOMAIN G : i < Len(G) => G[i].state = DELETING
  <2>1. \A i \in 1..(l - 1) : i < l - 1 => i + 1 \in 1..l /\ i + 1 < l
    BY <1>3
  <2>2. \A i \in 1..l : i < l => F[i].state = DELETING
    BY <1>1, <1>3 DEF Told
  <2> QED BY <1>3, <2>1, <2>2
<1>8. NodeDestroyAck(n) \notin B /\ (NodeCreateAck(n) \in B <=> NodeCreateAck(n) \in A)
  <2>1. NodeDestroyAck(n) # NodeCreateAck(n)
    BY FakeMsgFields
  <2> QED BY <2>1
<1>9. (LastIs(F, {CREATING}) => LastIs(G, {CREATING})) /\ (LastIs(F, {CREATING, CREATED}) => LastIs(G, {CREATING, CREATED}))
  <2>1. DELETING \notin {CREATING} /\ DELETING \notin {CREATING, CREATED}
    BY StatesDiffer
  <2> QED BY <1>5, <2>1
<1>10. NodeDestroy(n) \in H => FirstGoes(G)
  BY <1>6 DEF Told
<1> QED BY <1>2, <1>3, <1>7, <1>8, <1>9, <1>10 DEF Told

(* A datagram arrives.                                                     *)
LEMMA FakeAckOf ==
  ASSUME NEW m \in Msgs
  PROVE  /\ m.op = "NODE_CREATE" => v_cmd_fake_ack(m) = {NodeCreateAck(m.node)}
         /\ m.op = "NODE_DESTROY" => v_cmd_fake_ack(m) = {NodeDestroyAck(m.node)}
         /\ m.op \notin {"NODE_CREATE", "NODE_DESTROY"} => v_cmd_fake_ack(m) = {}
         /\ v_cmd_fake_ack(m) \subseteq FakeMsgs
<1>1. m.node \in Ids
  BY DEF Msgs
<1>2. NodeCreateAck(m.node) \in FakeMsgs /\ NodeDestroyAck(m.node) \in FakeMsgs
  BY <1>1 DEF FakeMsgs, FakeOps, NodeCreateAck, NodeDestroyAck, Cmd
<1>3. /\ m.op = "NODE_CREATE" => v_cmd_fake_ack(m) = {NodeCreateAck(m.node)}
      /\ m.op = "NODE_DESTROY" => v_cmd_fake_ack(m) = {NodeDestroyAck(m.node)}
      /\ m.op \notin {"NODE_CREATE", "NODE_DESTROY"} => v_cmd_fake_ack(m) = {}
  BY DEF v_cmd_fake_ack
<1> QED BY <1>2, <1>3

(* What a client knows after command m.                                    *)
KnownAfter(V, m) ==
  IF m.op = "NODE_CREATE" THEN V \union {m.node} ELSE IF m.op = "NODE_DESTROY" THEN V \ {m.node} ELSE V

LEMMA LearnedType ==
  ASSUME NEW w \in ViewType, NEW m \in Msgs
  PROVE  Learned(w, m) \in ViewType /\ Learned(w, m).known = KnownAfter(w.known, m)
<1>1. PICK n : n = m.node
  OBVIOUS
<1>2. n \in Ids /\ m.other \in Ids \union {NoNode} /\ m.user \in Users \union {NONE} /\ m.op \in ServerOps
  BY <1>1 DEF Msgs
<1>3. /\ w.known \in SUBSET Ids /\ w.parent \in [Ids -> Ids \union {NoNode}]
      /\ w.owner \in [Ids -> Users \union {NONE}] /\ w.lock \in [Ids -> Users \union {NONE}]
  BY DEF ViewType
<1>4. CASE m.op = "NODE_CREATE"
  <2>1. Learned(w, m) = [w EXCEPT !.known = @ \union {n}, !.parent[n] = m.other, !.owner[n] = m.user]
    BY <1>1, <1>4 DEF Learned
  <2>2. PICK P, O : P = [w.parent EXCEPT ![n] = m.other] /\ O = [w.owner EXCEPT ![n] = m.user]
    OBVIOUS
  <2>3. P \in [Ids -> Ids \union {NoNode}] /\ O \in [Ids -> Users \union {NONE}]
    BY <1>2, <1>3, <2>2
  <2>4. Learned(w, m) = [w EXCEPT !.known = w.known \union {n}, !.parent = P, !.owner = O]
    BY <2>1, <2>2
  <2>5. w.known \union {n} \in SUBSET Ids
    BY <1>2, <1>3
  <2> QED BY <1>1, <1>4, <2>3, <2>4, <2>5 DEF ViewType, KnownAfter
<1>5. CASE m.op = "NODE_DESTROY"
  <2>1. Learned(w, m) = [w EXCEPT !.known = @ \ {n}, !.parent[n] = NoNode, !.owner[n] = NONE, !.lock[n] = NONE]
    BY <1>1, <1>5 DEF Learned
  <2>2. PICK P, O, L : P = [w.parent EXCEPT ![n] = NoNode] /\ O = [w.owner EXCEPT ![n] = NONE]
                       /\ L = [w.lock EXCEPT ![n] = NONE]
    OBVIOUS
  <2>3. P \in [Ids -> Ids \union {NoNode}] /\ O \in [Ids -> Users \union {NONE}] /\ L \in [Ids -> Users \union {NONE}]
    BY <1>2, <1>3, <2>2
  <2>4. Learned(w, m) = [w EXCEPT !.known = w.known \ {n}, !.parent = P, !.owner = O, !.lock = L]
    BY <2>1, <2>2
  <2>5. w.known \ {n} \in SUBSET Ids
    BY <1>3
  <2> QED BY <1>1, <1>5, <2>3, <2>4, <2>5 DEF ViewType, KnownAfter
<1>6. CASE m.op = "NODE_LINK"
  <2>1. PICK P : P = [w.parent EXCEPT ![n] = m.other]
    OBVIOUS
  <2>2. Learned(w, m) = [w EXCEPT !.parent = P]
    BY <1>1, <1>6, <2>1 DEF Learned
  <2>3. P \in [Ids -> Ids \union {NoNode}]
    BY <1>2, <1>3, <2>1
  <2> QED BY <1>6, <2>2, <2>3 DEF ViewType, KnownAfter
<1>7. CASE m.op = "NODE_OWNER"
  <2>1. PICK O : O = [w.owner EXCEPT ![n] = m.user]
    OBVIOUS
  <2>2. Learned(w, m) = [w EXCEPT !.owner = O]
    BY <1>1, <1>7, <2>1 DEF Learned
  <2>3. O \in [Ids -> Users \union {NONE}]
    BY <1>2, <1>3, <2>1
  <2> QED BY <1>7, <2>2, <2>3 DEF ViewType, KnownAfter
<1>8. CASE m.op \in {"NODE_LOCK", "NODE_UNLOCK"}
  <2>1. PICK x : x = IF m.op = "NODE_LOCK" THEN m.user ELSE NONE
    OBVIOUS
  <2>2. PICK L : L = [w.lock EXCEPT ![n] = x]
    OBVIOUS
  <2>3. Learned(w, m) = [w EXCEPT !.lock = L]
    BY <1>1, <1>8, <2>1, <2>2 DEF Learned
  <2>4. L \in [Ids -> Users \union {NONE}]
    BY <1>2, <1>3, <2>1, <2>2
  <2> QED BY <1>8, <2>3, <2>4 DEF ViewType, KnownAfter
<1> QED BY <1>2, <1>4, <1>5, <1>6, <1>7, <1>8 DEF ServerOps

LEMMA ToldDelivered ==
  ASSUME NEW F, NEW H \in SUBSET Msgs, NEW A, NEW V, NEW n, Told(F, H, A, V, n), NEW m \in H,
         NEW I, I = H \ {m}, NEW B, B = A \union v_cmd_fake_ack(m), NEW W, W = KnownAfter(V, m)
  PROVE  Told(F, I, B, W, n)
<1>0. m \in Msgs
  OBVIOUS
<1>1. CASE m.node # n \/ m.op \notin {"NODE_CREATE", "NODE_DESTROY"}
  <2>1. \A x \in v_cmd_fake_ack(m) : x # NodeCreateAck(n) /\ x # NodeDestroyAck(n)
    BY <1>0, <1>1, FakeAckOf, FakeMsgFields
  <2>2. m # NodeDestroy(n)
    BY <1>1, FakeMsgFields
  <2>3. \A x : x.op = "NODE_CREATE" /\ x.node = n => x # m
    BY <1>1
  <2>4. n \in V <=> n \in W
    BY <1>1 DEF KnownAfter
  <2>5. Alike(H, I, A, B, V, W, n)
    BY <2>1, <2>2, <2>3, <2>4 DEF Alike
  <2> QED BY <2>5, ToldAlike
<1>2. CASE m.node = n /\ m.op = "NODE_CREATE"
  <2>1. B = A \union {NodeCreateAck(n)} /\ W = V \union {n}
    BY <1>0, <1>2, FakeAckOf DEF KnownAfter
  <2>2. ~Creates(I, n) /\ OneCreate(I, n) /\ Creates(H, n)
    BY <1>2 DEF Told, Creates, OneCreate
  <2>3. NodeDestroy(n) \in I <=> NodeDestroy(n) \in H
    BY <1>2, FakeMsgFields
  <2>4. NodeDestroyAck(n) \in B <=> NodeDestroyAck(n) \in A
    BY <2>1, FakeMsgFields
  <2>5. LastIs(F, {CREATING}) /\ LastIs(F, {CREATING, CREATED})
    BY <2>2 DEF Told, LastIs
  <2> QED BY <2>2, <2>3, <2>4, <2>5 DEF Told
<1>3. CASE m.node = n /\ m.op = "NODE_DESTROY"
  <2>1. m = NodeDestroy(n)
    BY <1>0, <1>3 DEF Msgs
  <2>2. B = A \union {NodeDestroyAck(n)} /\ W = V \ {n}
    BY <1>0, <1>3, FakeAckOf DEF KnownAfter
  <2>3. NodeDestroy(n) \notin I /\ NodeDestroy(n) \in H
    BY <2>1
  <2>4. (Creates(I, n) <=> Creates(H, n)) /\ (OneCreate(I, n) <=> OneCreate(H, n))
    BY <1>3 DEF Creates, OneCreate
  <2>5. NodeCreateAck(n) \in B <=> NodeCreateAck(n) \in A
    BY <2>2, FakeMsgFields
  <2> QED BY <2>2, <2>3, <2>4, <2>5 DEF Told
<1> QED BY <1>1, <1>2, <1>3

-----------------------------------------------------------------------------
(* The operators on the tree of nodes.                                     *)

(* The tree M has the states and the followers of the tree N.              *)
SameTree(N, M) == M \in Trees /\ \A n \in Ids : Same(N[n], M[n])

LEMMA TreeNode ==
  ASSUME NEW N \in Trees, NEW n \in Ids
  PROVE  N[n] \in NodeType
BY DEF Trees

(* Node n of the tree N is replaced by r.                                  *)
Put(N, M, n, r) == M \in Trees /\ M[n] = r /\ \A k \in Ids : k # n => M[k] = N[k]

LEMMA TreeExcept ==
  ASSUME NEW N \in Trees, NEW n \in Ids, NEW r \in NodeType, NEW M, M = [N EXCEPT ![n] = r]
  PROVE  Put(N, M, n, r)
BY DEF Trees, Put

LEMMA SameSelf ==
  ASSUME NEW N \in Trees
  PROVE  SameTree(N, N)
BY DEF SameTree, Same, Trees

LEMMA SameExcept ==
  ASSUME NEW N \in Trees, NEW n \in Ids, NEW r, Same(N[n], r), NEW M, M = [N EXCEPT ![n] = r]
  PROVE  SameTree(N, M)
<1>1. r \in NodeType
  BY DEF Same
<1>2. Put(N, M, n, r)
  BY <1>1, TreeExcept
<1>3. \A k \in Ids : N[k] \in NodeType
  BY TreeNode
<1> QED BY <1>2, <1>3 DEF SameTree, Same, Put

LEMMA SameTreeTrans ==
  ASSUME NEW N, NEW M, NEW O, SameTree(N, M), SameTree(M, O)
  PROVE  SameTree(N, O)
BY SameTrans DEF SameTree

(* v_list_rem_item for a child node.                                       *)
LEMMA SameOnly ==
  ASSUME NEW e \in NodeType, NEW S
  PROVE  Same(e, [e EXCEPT !.children = Only(@, S)])
<1>1. Only(e.children, S) \in Seq(Ids)
  BY NodeFields, OnlyElements
<1>2. PICK v : v = Only(e.children, S)
  OBVIOUS
<1> QED BY <1>1, <1>2, WithChildren

LEMMA SameAppend ==
  ASSUME NEW e \in NodeType, NEW n \in Ids
  PROVE  Same(e, [e EXCEPT !.children = Append(@, n)])
<1>1. Append(e.children, n) \in Seq(Ids)
  BY NodeFields, AppendProperties
<1>2. PICK v : v = Append(e.children, n)
  OBVIOUS
<1> QED BY <1>1, <1>2, WithChildren

(* vs_link_create.                                                         *)
LEMMA LinkCreateType ==
  ASSUME NEW N \in Trees, NEW p \in Ids, NEW n \in Ids
  PROVE  SameTree(N, vs_link_create(N, p, n))
<1>1. PICK N1 : N1 = [N EXCEPT ![p] = [N[p] EXCEPT !.children = Append(@, n)]]
  OBVIOUS
<1>2. SameTree(N, N1)
  BY <1>1, TreeNode, SameAppend, SameExcept
<1>3. N1 \in Trees
  BY <1>2 DEF SameTree
<1>4. PICK N2 : N2 = [N1 EXCEPT ![n] = [N1[n] EXCEPT !.parent = p]]
  OBVIOUS
<1>5. SameTree(N1, N2)
  BY <1>3, <1>4, TreeNode, WithParent, SameExcept
<1>6. N2 \in Trees
  BY <1>5 DEF SameTree
<1>7. PICK l : l = N[p].level + 1
  OBVIOUS
<1>8. l \in Nat
  BY <1>7, TreeNode, NodeFields
<1>9. PICK N3 : N3 = [N2 EXCEPT ![n] = [N2[n] EXCEPT !.level = l]]
  OBVIOUS
<1>10. SameTree(N2, N3)
  BY <1>6, <1>8, <1>9, TreeNode, WithLevel, SameExcept
<1>11. vs_link_create(N, p, n) = N3
  BY <1>1, <1>4, <1>7, <1>9 DEF vs_link_create
<1> QED BY <1>2, <1>5, <1>10, <1>11, SameTreeTrans

(* A new node n, in the given state and without followers.                 *)
NewNode(N, M, n, state) ==
  /\ M \in Trees /\ M[n].state = state /\ \A c \in Clients : M[n].folls[c] = <<>>
  /\ \A k \in Ids : k # n => Same(N[k], M[k])

LEMMA CreateLinkedType ==
  ASSUME NEW N \in Trees, NEW p \in Ids, NEW n \in Ids, NEW u \in Users, NEW s \in NodeStates,
         NEW M, M = vs_node_create_linked(N, p, n, u, s)
  PROVE  NewNode(N, M, n, s)
<1>1. PICK e1 : e1 = [FreeNode EXCEPT !.owner = u]
  OBVIOUS
<1>2. Same(FreeNode, e1)
  BY <1>1, FreeNodeType, WithOwner
<1>3. PICK e2 : e2 = [e1 EXCEPT !.state = s]
  OBVIOUS
<1>4. e2 \in NodeType /\ e2.state = s /\ e2.folls = FreeNode.folls
  BY <1>2, <1>3, WithState DEF Same
<1>5. PICK N1 : N1 = [N EXCEPT ![n] = e2]
  OBVIOUS
<1>6. Put(N, N1, n, e2)
  BY <1>4, <1>5, TreeExcept
<1>7. M = vs_link_create(N1, p, n)
  BY <1>1, <1>3, <1>5 DEF vs_node_create_linked
<1>8. SameTree(N1, M)
  BY <1>6, <1>7, LinkCreateType DEF Put
<1> QED BY <1>4, <1>6, <1>8, FreeNodeType DEF NewNode, SameTree, Same, Put

LEMMA NewNodeThen ==
  ASSUME NEW N, NEW M, NEW n \in Ids, NEW s, NewNode(N, M, n, s), NEW O, SameTree(M, O)
  PROVE  NewNode(N, O, n, s)
<1>1. \A k \in Ids : Same(M[k], O[k])
  BY DEF SameTree
<1>2. \A k \in Ids : k # n => Same(N[k], M[k])
  BY DEF NewNode
<1>3. \A k \in Ids : k # n => Same(N[k], O[k])
  BY <1>1, <1>2, SameTrans
<1> QED BY <1>1, <1>3 DEF NewNode, SameTree, Same

-----------------------------------------------------------------------------
(* Commands that do not create or destroy a node.                          *)
Plain(z) == \A m \in z : m.op # "NODE_CREATE" /\ m.op # "NODE_DESTROY"

LEMMA MovesMore ==
  ASSUME NEW F, NEW G, NEW o, NEW n, Moves(F, G, o, n), NEW z, Plain(z), NEW y, y = z \union o
  PROVE  Moves(F, G, y, n)
<1>1. Creates(o, n) <=> Creates(y, n)
  BY DEF Plain, Creates
<1>2. OneCreate(o, n) <=> OneCreate(y, n)
  BY DEF Plain, OneCreate
<1>3. NodeDestroy(n) \in o <=> NodeDestroy(n) \in y
  BY FakeMsgFields DEF Plain
<1> QED BY <1>1, <1>2, <1>3 DEF Moves

LEMMA MovesPlain ==
  ASSUME NEW F, NEW z, NEW n, Plain(z)
  PROVE  Moves(F, F, z, n)
<1>1. ~Creates(z, n) /\ NodeDestroy(n) \notin z
  BY FakeMsgFields DEF Plain, Creates
<1> QED BY <1>1 DEF Moves

LEMMA CmdTypes ==
  ASSUME NEW n \in Ids
  PROVE  /\ \A p \in Ids, u \in Users : NodeCreate(n, p, u) \in Msgs /\ NodeCreate(n, p, u).op = "NODE_CREATE"
                                        /\ NodeCreate(n, p, u).node = n
         /\ NodeDestroy(n) \in Msgs
         /\ \A p \in Ids : NodeLink(p, n) \in Msgs /\ NodeLink(p, n).op = "NODE_LINK"
         /\ \A u \in Users : /\ NodeLock(n, u) \in Msgs /\ NodeLock(n, u).op = "NODE_LOCK"
                             /\ NodeUnlock(n, u) \in Msgs /\ NodeUnlock(n, u).op = "NODE_UNLOCK"
                             /\ NodeOwner(n, u) \in Msgs /\ NodeOwner(n, u).op = "NODE_OWNER"
BY DEF Msgs, ServerOps, NodeCreate, NodeDestroy, NodeLink, NodeLock, NodeUnlock, NodeOwner, Cmd

(* One command in a sequence.                                              *)
LEMMA SingleSet ==
  ASSUME NEW m
  PROVE  ToSet(<<m>>) = {m} /\ ToSet(<<>>) = {}
BY DEF ToSet

LEMMA OneMessage ==
  ASSUME NEW m \in Msgs, NEW S, NEW d, NEW q, q = To(S, d, <<m>>)
  PROVE  q \in Seq(Msgs) /\ ToSet(q) = IF d \in S THEN {m} ELSE {}
<1>1. <<m>> \in Seq(Msgs) /\ <<>> \in Seq(Msgs)
  OBVIOUS
<1> QED BY <1>1, SingleSet DEF To

(* Node n is to be sent to client c as a child node of node p.             *)
Fresh(N, p, c, n) == n \in ToSet(N[p].children) /\ IsCreated(N[n]) /\ AllDeleting(N[n].folls[c])

LEMMA SendDataType ==
  ASSUME NEW N \in Trees, NEW p \in Ids, NEW C \in SUBSET Clients, NEW M, M = vs_node_send_data(N, p, C)
  PROVE  /\ M \in Trees
         /\ \A n \in Ids : /\ M[n].state = N[n].state
                           /\ \A c \in Clients : IF c \in C /\ Fresh(N, p, c, n)
                                THEN Joins(N[n].folls[c], M[n].folls[c]) ELSE M[n].folls[c] = N[n].folls[c]
<1>1. ASSUME NEW n \in Ids
      PROVE  /\ M[n] \in NodeType /\ M[n].state = N[n].state
             /\ \A c \in Clients : IF c \in C /\ Fresh(N, p, c, n)
                  THEN Joins(N[n].folls[c], M[n].folls[c]) ELSE M[n].folls[c] = N[n].folls[c]
  <2>1. N[n] \in NodeType
    BY TreeNode
  <2>2. CASE n \in ToSet(N[p].children)
    <3>1. PICK e, r : e = N[n] /\ r = M[n]
      OBVIOUS
    <3>2. e \in NodeType /\ r = vs_node_send_create(e, p, C)
      BY <2>1, <2>2, <3>1 DEF vs_node_send_data
    <3>3. /\ r \in NodeType /\ r.state = e.state
          /\ \A c \in Clients : IF c \in C /\ IsCreated(e) /\ AllDeleting(e.folls[c])
                                THEN Joins(e.folls[c], r.folls[c]) ELSE r.folls[c] = e.folls[c]
      BY <3>2, SendCreateType
    <3> QED BY <2>2, <3>1, <3>3 DEF Fresh
  <2>3. CASE n \notin ToSet(N[p].children)
    <3>1. M[n] = N[n]
      BY <2>3 DEF vs_node_send_data
    <3> QED BY <2>1, <2>3, <3>1 DEF Fresh
  <2> QED BY <2>2, <2>3
<1>2. M = [n \in Ids |-> M[n]]
  BY DEF vs_node_send_data
<1> QED BY <1>1, <1>2 DEF Trees

LEMMA DataCmdsType ==
  ASSUME NEW N \in Trees, NEW p \in Ids, NEW c \in Clients, NEW q, q = DataCmds(N, p, c)
  PROVE  /\ q \in Seq(Msgs)
         /\ ToSet(q) = {NodeCreate(n, p, N[n].owner) : n \in {k \in Ids : Fresh(N, p, c, k)}}
<1> DEFINE S == {n \in Ids : Untold(N[n], {c}) # {}}
<1>1. \A n \in Ids : n \in S <=> IsCreated(N[n]) /\ AllDeleting(N[n].folls[c])
  BY DEF Untold, AllDeleting
<1>2. PICK s, v : s = N[p].children /\ v = Only(s, S)
  OBVIOUS
<1>3. s \in Seq(Ids)
  BY <1>2, TreeNode, NodeFields
<1>4. v \in Seq(Ids) /\ ToSet(v) = ToSet(s) \intersect S
  <2> HIDE DEF S
  <2> QED BY <1>2, <1>3, OnlyElements
<1>5. \A k \in Ids : k \in ToSet(v) <=> Fresh(N, p, c, k)
  BY <1>1, <1>2, <1>4 DEF Fresh
<1>6. PICK l \in Nat : DOMAIN v = 1..l /\ \A i \in 1..l : v[i] \in Ids
  BY <1>4, LenProperties
<1>7. q = [i \in 1..l |-> NodeCreate(v[i], p, N[v[i]].owner)]
  BY <1>2, <1>6 DEF DataCmds
<1>8. \A i \in 1..l : NodeCreate(v[i], p, N[v[i]].owner) \in Msgs
  <2>1. \A n \in Ids : N[n].owner \in Users
    BY TreeNode, NodeFields
  <2> QED BY <1>6, <2>1, CmdTypes
<1>9. q \in Seq(Msgs)
  <2>1. q \in [1..l -> Msgs]
    BY <1>7, <1>8
  <2> QED BY <2>1, SeqDef
<1>10. ToSet(v) = {v[i] : i \in 1..l} /\ ToSet(v) \subseteq Ids
  BY <1>6 DEF ToSet
<1>11. ToSet(q) = {NodeCreate(v[i], p, N[v[i]].owner) : i \in 1..l}
  BY <1>7 DEF ToSet
<1>12. ToSet(q) = {NodeCreate(n, p, N[n].owner) : n \in ToSet(v)}
  BY <1>10, <1>11
<1>13. ToSet(v) = {k \in Ids : Fresh(N, p, c, k)}
  BY <1>5, <1>10
<1> QED BY <1>9, <1>12, <1>13

LEMMA DataMoves ==
  ASSUME NEW N \in Trees, NEW p \in Ids, NEW C \in SUBSET Clients, NEW M, M = vs_node_send_data(N, p, C),
         NEW c \in C, NEW n \in Ids, NEW o, o = ToSet(DataCmds(N, p, c))
  PROVE  Moves(N[n].folls[c], M[n].folls[c], o, n)
<1>1. o = {NodeCreate(k, p, N[k].owner) : k \in {j \in Ids : Fresh(N, p, c, j)}}
  BY DataCmdsType
<1>2. \A k \in Ids : N[k].owner \in Users
  BY TreeNode, NodeFields
<1>3. \A m \in o : m.op = "NODE_CREATE" /\ \E k \in Ids : Fresh(N, p, c, k) /\ m = NodeCreate(k, p, N[k].owner) /\ m.node = k
  BY <1>1, <1>2, CmdTypes
<1>4. NodeDestroy(n) \notin o
  BY <1>3, FakeMsgFields
<1>5. OneCreate(o, n)
  BY <1>3 DEF OneCreate
<1>6. Creates(o, n) <=> Fresh(N, p, c, n)
  <2>1. Fresh(N, p, c, n) => NodeCreate(n, p, N[n].owner) \in o
    BY <1>1
  <2>2. NodeCreate(n, p, N[n].owner).node = n
    BY <1>2, CmdTypes
  <2> QED BY <1>3, <2>1, <2>2 DEF Creates
<1>7. IF Fresh(N, p, c, n) THEN Joins(N[n].folls[c], M[n].folls[c]) ELSE M[n].folls[c] = N[n].folls[c]
  BY SendDataType
<1> QED BY <1>4, <1>5, <1>6, <1>7 DEF Moves

-----------------------------------------------------------------------------
(* Branches that are destroyed.                                            *)

(* The recursive definition of Fates has a solution, and what is freed has *)
(* no followers.                                                           *)
LEMMA FatesFreed ==
  ASSUME NEW N \in Trees, NEW n \in Ids, Fates(N)[n] = "freed"
  PROVE  \A c \in Clients : N[n].folls[c] = <<>>
<1> DEFINE kids(k) == ToSet(N[k].children)
           W == {k \in Ids : Followers(N[k]) # {}}
           Q == [k \in Ids |-> kids(k)]
           Round(f) == [k \in Ids |->
             IF Followers(N[k]) # {}
               THEN IF \E j \in kids(k) : f[j] = "stays" /\ IsCreated(N[j]) THEN "stays" ELSE "waits"
             ELSE IF \A j \in kids(k) : f[j] = "freed" THEN "freed" ELSE "stays"]
<1>1. \A k \in Ids : kids(k) \subseteq Ids
  <2>1. ASSUME NEW k \in Ids PROVE kids(k) \subseteq Ids
    <3>1. PICK s : s = N[k].children
      OBVIOUS
    <3>2. s \in Seq(Ids)
      BY <3>1, TreeNode, NodeFields
    <3>3. PICK l \in Nat : DOMAIN s = 1..l /\ \A i \in 1..l : s[i] \in Ids
      BY <3>2, LenProperties
    <3> QED BY <3>1, <3>3 DEF ToSet
  <2> QED BY <2>1
<1> HIDE DEF kids
<1>2. PICK X : Leads(Ids, W, Q, X)
  <2>1. W \in SUBSET Ids /\ Q \in [Ids -> SUBSET Ids]
    BY <1>1
  <2> HIDE DEF W, Q
  <2> QED BY <2>1, LeastSet
<1>3. X \subseteq Ids /\ \A k \in Ids : k \in X <=> Followers(N[k]) # {} \/ \E j \in kids(k) : j \in X
  BY <1>2 DEF Leads
<1> DEFINE B == X \ W
           P == [k \in Ids |-> IF k \in W THEN {j \in kids(k) : IsCreated(N[j])} ELSE {}]
<1>4. PICK Y : Leads(Ids, B, P, Y)
  <2>1. B \in SUBSET Ids /\ P \in [Ids -> SUBSET Ids]
    BY <1>1, <1>3
  <2> HIDE DEF B, P
  <2> QED BY <2>1, LeastSet
<1>5. /\ Y \subseteq Ids
      /\ \A k \in Ids : k \in Y <=> \/ k \in X /\ Followers(N[k]) = {}
                                    \/ Followers(N[k]) # {} /\ \E j \in kids(k) : IsCreated(N[j]) /\ j \in Y
  BY <1>4 DEF Leads
<1>6. Y \subseteq X
  BY <1>3, <1>5
<1>7. PICK f : f = [k \in Ids |-> IF k \notin X THEN "freed" ELSE IF k \in Y THEN "stays" ELSE "waits"]
  OBVIOUS
<1>8. \A k \in Ids : (f[k] = "freed" <=> k \notin X) /\ (f[k] = "stays" <=> k \in Y) /\ (f[k] = "waits" <=> k \in X \ Y)
  BY <1>6, <1>7
<1>9. ASSUME NEW k \in Ids PROVE f[k] = Round(f)[k]
  <2>1. CASE Followers(N[k]) # {}
    <3>1. k \in X /\ (k \in Y <=> \E j \in kids(k) : IsCreated(N[j]) /\ j \in Y)
      BY <1>3, <1>5, <2>1
    <3>2. k \in Y <=> \E j \in kids(k) : f[j] = "stays" /\ IsCreated(N[j])
      BY <1>1, <1>8, <3>1
    <3> QED BY <1>8, <2>1, <3>1, <3>2
  <2>2. CASE Followers(N[k]) = {}
    <3>1. k \in X <=> \E j \in kids(k) : f[j] # "freed"
      BY <1>1, <1>3, <1>8, <2>2
    <3>2. k \in X => k \in Y
      BY <1>5, <2>2
    <3> QED BY <1>8, <2>2, <3>1, <3>2
  <2> QED BY <2>1, <2>2
<1>10. f = Round(f)
  BY <1>7, <1>9
<1> DEFINE h == CHOOSE g : g = Round(g)
<1>11. h = Round(h)
  BY <1>10
<1>12. Fates(N) = h
  BY DEF Fates, kids
<1> HIDE DEF h
<1>13. h[n] = "freed" => Followers(N[n]) = {}
  BY <1>11
<1> QED BY <1>12, <1>13 DEF Followers

(* vs_node_destroy_branch: nodes without followers are freed, others wait. *)
LEMMA BranchType ==
  ASSUME NEW N \in Trees, NEW a, NEW n \in Ids, NEW e, e = N[n],
         NEW r, r = vs_node_destroy_branch(N, a)[n],
         NEW w, w = (N[n].state # NONE /\ Below(N, n, a) /\ Fates(N)[n] = "waits")
  PROVE  /\ r \in NodeType /\ (r.state # NONE => e.state # NONE)
         /\ r.state = NONE /\ e.state # NONE => \A c \in Clients : r.folls[c] = <<>>
         /\ \A c \in Clients : IF w /\ c \in Destroyable(e) THEN Leaves(e.folls[c], r.folls[c])
                               ELSE r.folls[c] = e.folls[c]
<1> DEFINE branch == {k \in Ids : N[k].state # NONE /\ Below(N, k, a)}
           freed == {k \in branch : Fates(N)[k] = "freed"}
<1>0. e \in NodeType
  BY TreeNode
<1>1. CASE n \in freed
  <2>1. r = FreeNode
    BY <1>1 DEF vs_node_destroy_branch
  <2>2. \A c \in Clients : e.folls[c] = <<>>
    BY <1>1, FatesFreed
  <2>3. ~w
    BY <1>1
  <2> QED BY <2>1, <2>2, <2>3, FreeNodeType
<1>2. CASE n \notin freed
  <2>1. PICK x : x = [e EXCEPT !.children = Only(@, Ids \ freed)]
    OBVIOUS
  <2>2. Same(e, x)
    <3> HIDE DEF freed
    <3> QED BY <1>0, <2>1, SameOnly
  <2>3. Destroyable(x) = Destroyable(e)
    BY <2>2 DEF Same, Destroyable
  <2>4. w <=> n \in branch /\ Fates(N)[n] = "waits"
    OBVIOUS
  <2>5. r = IF w THEN vs_node_send_destroy(x) ELSE x
    BY <1>2, <2>1, <2>4 DEF vs_node_destroy_branch
  <2>6. CASE ~w
    BY <2>2, <2>5, <2>6 DEF Same
  <2>7. CASE w
    <3>1. x \in NodeType /\ r = vs_node_send_destroy(x) /\ x.folls = e.folls
      BY <2>2, <2>5, <2>7 DEF Same
    <3>2. /\ r \in NodeType /\ r.state = DELETING
          /\ \A c \in Clients : IF c \in Destroyable(x) THEN Leaves(x.folls[c], r.folls[c])
                                ELSE r.folls[c] = x.folls[c]
      BY <3>1, SendDestroyType
    <3> QED BY <2>3, <2>7, <3>1, <3>2, StatesDiffer
  <2> QED BY <2>6, <2>7
<1> QED BY <1>1, <1>2

LEMMA BranchTree ==
  ASSUME NEW N \in Trees, NEW a, NEW M, M = vs_node_destroy_branch(N, a)
  PROVE  M \in Trees
<1>1. \A n \in Ids : M[n] \in NodeType
  <2>1. ASSUME NEW n \in Ids PROVE M[n] \in NodeType
    <3>1. PICK e, r, w : e = N[n] /\ r = vs_node_destroy_branch(N, a)[n]
            /\ w = (N[n].state # NONE /\ Below(N, n, a) /\ Fates(N)[n] = "waits")
      OBVIOUS
    <3> QED BY <3>1, BranchType
  <2> QED BY <2>1
<1>2. M = [n \in Ids |-> M[n]]
  BY DEF vs_node_destroy_branch
<1> QED BY <1>1, <1>2 DEF Trees

-----------------------------------------------------------------------------
(* A session ends, or a client unsubscribes: only its own followers go.    *)

SameBut(c, e, r) ==
  /\ r \in NodeType /\ r.state = e.state
  /\ \A d \in Clients : d # c => r.folls[d] = e.folls[d]
  /\ e.folls[c] = <<>> => r.folls[c] = <<>>

LEMMA SameButSame ==
  ASSUME NEW c, NEW e, NEW r, Same(e, r)
  PROVE  SameBut(c, e, r)
BY DEF Same, SameBut

LEMMA SameButTrans ==
  ASSUME NEW c, NEW e, NEW r, NEW s, SameBut(c, e, r), SameBut(c, r, s)
  PROVE  SameBut(c, e, s)
BY DEF SameBut

LEMMA WithFollsOf ==
  ASSUME NEW e \in NodeType, NEW c \in Clients, NEW G \in Seq(FollType), e.folls[c] = <<>> => G = <<>>,
         NEW r, r = [e EXCEPT !.folls[c] = G]
  PROVE  SameBut(c, e, r)
<1>1. e.folls \in [Clients -> Seq(FollType)]
  BY NodeFields DEF FollLists
<1>2. PICK v : v = [e.folls EXCEPT ![c] = G]
  OBVIOUS
<1>3. v \in FollLists /\ v[c] = G /\ \A d \in Clients : d # c => v[d] = e.folls[d]
  BY <1>1, <1>2 DEF FollLists
<1>4. r = [e EXCEPT !.folls = v]
  BY <1>2
<1>5. r \in NodeType /\ r.state = e.state /\ r.folls = v
  <2>1. v \in FollLists
    BY <1>3
  <2>2. PICK x : x = [e EXCEPT !.folls = v]
    OBVIOUS
  <2>3. x \in NodeType /\ x.state = e.state /\ x.folls = v
    BY <2>1, <2>2, WithFolls
  <2> QED BY <1>4, <2>2, <2>3
<1> QED BY <1>3, <1>5 DEF SameBut

LEMMA WithSubsOf ==
  ASSUME NEW e \in NodeType, NEW c \in Clients, NEW v \in {NONE, "DEFAULT_PRIORITY", "OTHER_PRIORITY"},
         NEW r, r = [e EXCEPT !.subs[c] = v]
  PROVE  Same(e, r)
<1>1. PICK s : s = [e.subs EXCEPT ![c] = v]
  OBVIOUS
<1>2. s \in SubTypes
  BY <1>1, NodeFields DEF SubTypes
<1>3. r = [e EXCEPT !.subs = s]
  BY <1>1
<1> QED BY <1>2, <1>3, WithSubs

(* The first follower goes, if there is one.                               *)
LEMMA TailFolls ==
  ASSUME NEW F \in Seq(FollType), NEW G, G = (IF F = <<>> THEN F ELSE Tail(F))
  PROVE  G \in Seq(FollType) /\ (F = <<>> => G = <<>>)
<1>1. F # <<>> => Tail(F) \in Seq(FollType)
  BY TailElements
<1> QED BY <1>1

LEMMA FollsOf ==
  ASSUME NEW e \in NodeType, NEW c \in Clients
  PROVE  e.folls[c] \in Seq(FollType)
<1>1. e.folls \in [Clients -> Seq(FollType)]
  BY NodeFields DEF FollLists
<1> QED BY <1>1

LEMMA AvatarReferenceType ==
  ASSUME NEW e \in NodeType, NEW c \in Clients
  PROVE  SameBut(c, e, vs_free_avatar_reference(e, c))
<1>1. PICK x : x = [e EXCEPT !.subs[c] = NONE]
  OBVIOUS
<1>2. Same(e, x)
  BY <1>1, WithSubsOf
<1>3. PICK F : F = x.folls[c]
  OBVIOUS
<1>4. PICK G : G = (IF F = <<>> THEN F ELSE Tail(F))
  OBVIOUS
<1>5. x \in NodeType /\ F \in Seq(FollType)
  BY <1>2, <1>3, FollsOf DEF Same
<1>6. G \in Seq(FollType) /\ (F = <<>> => G = <<>>)
  BY <1>4, <1>5, TailFolls
<1>7. PICK y : y = [x EXCEPT !.folls[c] = G]
  OBVIOUS
<1>8. SameBut(c, x, y)
  BY <1>3, <1>5, <1>6, <1>7, WithFollsOf
<1>9. PICK l : l = (IF y.lock = c THEN NONE ELSE y.lock)
  OBVIOUS
<1>10. y \in NodeType
  BY <1>8 DEF SameBut
<1>11. l \in Clients \union {NONE}
  BY <1>9, <1>10, NodeFields
<1>12. PICK z : z = [y EXCEPT !.lock = l]
  OBVIOUS
<1>13. Same(y, z)
  BY <1>10, <1>11, <1>12, WithLock
<1>14. vs_free_avatar_reference(e, c) = z
  BY <1>1, <1>3, <1>4, <1>7, <1>9, <1>12 DEF vs_free_avatar_reference
<1> QED BY <1>2, <1>8, <1>13, <1>14, SameButSame, SameButTrans

LEMMA UnsubscribedType ==
  ASSUME NEW e \in NodeType, NEW c \in Clients, NEW b \in BOOLEAN,
         NEW r, r = [e EXCEPT !.subs[c] = NONE, !.folls[c] = IF b \/ @ = <<>> THEN @ ELSE Tail(@)]
  PROVE  SameBut(c, e, r)
<1>1. PICK x : x = [e EXCEPT !.subs[c] = NONE]
  OBVIOUS
<1>2. Same(e, x)
  BY <1>1, WithSubsOf
<1>3. PICK F : F = x.folls[c]
  OBVIOUS
<1>4. PICK G : G = (IF b \/ F = <<>> THEN F ELSE Tail(F))
  OBVIOUS
<1>5. x \in NodeType /\ F \in Seq(FollType)
  BY <1>2, <1>3, FollsOf DEF Same
<1>6. G \in Seq(FollType) /\ (F = <<>> => G = <<>>)
  BY <1>4, <1>5, TailFolls
<1>7. r = [x EXCEPT !.folls[c] = G]
  BY <1>1, <1>3, <1>4
<1>8. SameBut(c, x, r)
  BY <1>3, <1>5, <1>6, <1>7, WithFollsOf
<1> QED BY <1>2, <1>8, SameButSame, SameButTrans

(* Nodes of N become like those of M, for all clients but c.               *)
OnlyOf(c, N, M) == M \in Trees /\ \A n \in Ids : SameBut(c, N[n], M[n])

LEMMA OnlyOfTrans ==
  ASSUME NEW c, NEW N, NEW M, NEW O, OnlyOf(c, N, M), OnlyOf(c, M, O)
  PROVE  OnlyOf(c, N, O)
BY SameButTrans DEF OnlyOf

LEMMA FreeSubType ==
  ASSUME NEW N \in Trees, NEW S, NEW c \in Clients, NEW M, M = FreeSub(N, S, c)
  PROVE  OnlyOf(c, N, M)
<1>1. ASSUME NEW n \in Ids PROVE SameBut(c, N[n], M[n])
  <2>1. PICK e, r : e = N[n] /\ r = M[n]
    OBVIOUS
  <2>2. PICK F : F = e.folls[c]
    OBVIOUS
  <2>3. PICK G : G = [i \in DOMAIN F |-> IF F[i].sub \in S THEN [F[i] EXCEPT !.sub = FREED] ELSE F[i]]
    OBVIOUS
  <2>4. e \in NodeType /\ F \in Seq(FollType)
    BY <2>1, <2>2, TreeNode, FollsOf
  <2>5. PICK l : l = Len(F)
    OBVIOUS
  <2>6. l \in Nat /\ DOMAIN F = 1..l /\ (F = <<>> <=> l = 0) /\ \A i \in 1..l : F[i] \in FollType
    BY <2>4, <2>5, FollFacts
  <2>7. \A i \in 1..l : [F[i] EXCEPT !.sub = FREED] \in FollType
    BY <2>6 DEF FollType
  <2>8. G \in [1..l -> FollType]
    BY <2>3, <2>6, <2>7
  <2>9. G \in Seq(FollType)
    BY <2>6, <2>8, SeqDef
  <2>10. F = <<>> => G = <<>>
    <3>1. F = <<>> => l = 0 /\ 1..l = {}
      BY <2>6
    <3> QED BY <2>3, <2>6, <3>1
  <2>11. r = [e EXCEPT !.folls[c] = G]
    BY <2>1, <2>2, <2>3 DEF FreeSub
  <2>12. e.folls[c] = <<>> => G = <<>>
    BY <2>2, <2>10
  <2> QED BY <2>1, <2>4, <2>9, <2>11, <2>12, WithFollsOf
<1>2. M = [n \in Ids |-> M[n]]
  BY DEF FreeSub
<1> QED BY <1>1, <1>2 DEF OnlyOf, Trees, SameBut

-----------------------------------------------------------------------------
(* vs_node_destroy.                                                        *)
LEMMA DestroyType ==
  ASSUME NEW N \in Trees, NEW n \in Ids, NEW M, M = vs_node_destroy(N, n)
  PROVE  NewNode(N, M, n, NONE)
<1>1. PICK p : p = N[n].parent
  OBVIOUS
<1>2. PICK S : S = Ids \ {n}
  OBVIOUS
<1>3. PICK r : r = [N[p] EXCEPT !.children = Only(@, S)]
  OBVIOUS
<1>4. PICK O : O = [N EXCEPT ![p] = r]
  OBVIOUS
<1>5. SameTree(N, O)
  <2>1. CASE p \in Ids
    <3>1. N[p] \in NodeType
      BY <2>1, TreeNode
    <3>2. Same(N[p], r)
      BY <1>3, <3>1, SameOnly
    <3> QED BY <1>4, <2>1, <3>2, SameExcept
  <2>2. CASE p \notin Ids
    <3>1. O = N
      BY <1>4, <2>2 DEF Trees
    <3> QED BY <3>1, SameSelf
  <2> QED BY <2>1, <2>2
<1>6. M = [O EXCEPT ![n] = FreeNode]
  BY <1>1, <1>2, <1>3, <1>4 DEF vs_node_destroy
<1>7. Put(O, M, n, FreeNode)
  <2>1. O \in Trees
    BY <1>5 DEF SameTree
  <2> QED BY <1>6, <2>1, FreeNodeType, TreeExcept
<1> QED BY <1>5, <1>7, FreeNodeType DEF SameTree, Put, NewNode

-----------------------------------------------------------------------------
(* vs_link_update_child: the pairs of nodes that it visits are pairs of    *)
(* nodes.                                                                  *)

(* What is visited from x on, with the child nodes K of x[1] and the row w *)
(* of what is visited from pairs of nodes one level below.                 *)
Visited(K, w, x) == <<x>> \o FlattenSeq([i \in DOMAIN K |-> w[<<x[2], K[i]>>]])

LEMMA VisitedType ==
  ASSUME NEW K \in Seq(Ids), NEW w \in [Ids \X Ids -> Seq(Ids \X Ids)], NEW x \in Ids \X Ids
  PROVE  Visited(K, w, x) \in Seq(Ids \X Ids)
<1>1. PICK T : T = Ids \X Ids
  OBVIOUS
<1>2. PICK l \in Nat : DOMAIN K = 1..l /\ \A i \in 1..l : K[i] \in Ids
  BY LenProperties
<1>3. PICK s : s = [i \in 1..l |-> w[<<x[2], K[i]>>]]
  OBVIOUS
<1>4. s \in [1..l -> Seq(T)]
  <2>1. x[2] \in Ids
    OBVIOUS
  <2>2. \A i \in 1..l : <<x[2], K[i]>> \in Ids \X Ids
    BY <1>2, <2>1
  <2> QED BY <1>1, <1>3, <2>2
<1>5. FlattenSeq(s) \in Seq(T)
  <2>1. CASE l = 0
    <3>1. s = <<>>
      BY <1>3, <2>1
    <3>2. FlattenSeq(s) = <<>>
      BY <3>1 DEF FlattenSeq
    <3> QED BY <3>2
  <2>2. CASE l # 0
    BY <1>4, <2>2, FlattenElements, ZenonT(60)
  <2> QED BY <2>1, <2>2
<1>6. Visited(K, w, x) = <<x>> \o FlattenSeq(s)
  BY <1>2, <1>3 DEF Visited
<1>7. PICK a, b : a = <<x>> /\ b = FlattenSeq(s)
  OBVIOUS
<1>8. a \in Seq(T) /\ b \in Seq(T)
  BY <1>1, <1>5, <1>7
<1>9. a \o b \in Seq(T)
  BY <1>8, ConcatProperties
<1> QED BY <1>1, <1>6, <1>7, <1>9

LEMMA VisitsType ==
  ASSUME NEW N \in Trees, NEW p \in Ids, NEW n \in Ids
  PROVE  Visits(N, p, n) \in Seq(Ids \X Ids)
<1> DEFINE P == Ids \X Ids
           T == [P -> Seq(P)]
           Kids(k, x) == IF k = 0 THEN <<>> ELSE N[x[1]].children
           g == [w \in T |-> [x \in P |-> Visited(N[x[1]].children, w, x)]]
           a == [x \in P |-> Visited(<<>>, [y \in P |-> <<>>], x)]
           Row(f, k) == [x \in P |-> Visited(Kids(k, x), f[k - 1], x)]
           Round(f) == [k \in Ids |-> Row(f, k)]
<1>1. \A k \in Ids : N[k].children \in Seq(Ids)
  BY TreeNode, NodeFields
<1>2. g \in [T -> T]
  <2>1. ASSUME NEW w \in T, NEW x \in P PROVE Visited(N[x[1]].children, w, x) \in Seq(P)
    <3>1. PICK K : K = N[x[1]].children
      OBVIOUS
    <3>2. x[1] \in Ids
      OBVIOUS
    <3>3. K \in Seq(Ids)
      BY <1>1, <3>1, <3>2
    <3> QED BY <3>1, <3>3, VisitedType
  <2>2. \A w \in T : [x \in P |-> Visited(N[x[1]].children, w, x)] \in T
    <3> HIDE DEF P
    <3> QED BY <2>1
  <2> HIDE DEF T
  <2> QED BY <2>2
<1>3. a \in T
  <2>1. PICK K, w : K = <<>> /\ w = [y \in P |-> <<>>]
    OBVIOUS
  <2>2. K \in Seq(Ids) /\ w \in [Ids \X Ids -> Seq(Ids \X Ids)]
    BY <2>1
  <2>3. \A x \in P : Visited(K, w, x) \in Seq(P)
    BY <2>2, VisitedType
  <2>4. a = [x \in P |-> Visited(K, w, x)]
    BY <2>1
  <2> HIDE DEF P, a
  <2> QED BY <2>3, <2>4
<1>4. PICK f \in [0..MaxNode -> T] : \A i \in 0..MaxNode : f[i] = IF i = 0 THEN a ELSE g[f[i-1]]
  <2>1. Iterates(T, a, g, MaxNode) # {}
    <3> HIDE DEF T, a, g
    <3> QED BY <1>2, <1>3, IdFacts, IteratesExist
  <2> HIDE DEF T, a, g
  <2> QED BY <2>1 DEF Iterates
<1>5. ASSUME NEW k \in Ids PROVE f[k] = Row(f, k)
  <2>1. CASE k = 0
    <3>1. ASSUME NEW x \in P, NEW v, NEW w PROVE Visited(<<>>, v, x) = Visited(<<>>, w, x)
      <4>1. DOMAIN <<>> = {}
        OBVIOUS
      <4>2. [i \in DOMAIN <<>> |-> v[<<x[2], <<>>[i]>>]] = [i \in DOMAIN <<>> |-> w[<<x[2], <<>>[i]>>]]
        BY <4>1
      <4> QED BY <4>2 DEF Visited
    <3>2. f[0] = a
      <4> HIDE DEF a, g, T
      <4> QED BY <1>4, IdFacts
    <3>3. PICK v, w : v = f[0 - 1] /\ w = [y \in P |-> <<>>]
      OBVIOUS
    <3>4. Row(f, 0) = [x \in P |-> Visited(<<>>, v, x)]
      BY <3>3
    <3>5. a = [x \in P |-> Visited(<<>>, w, x)]
      BY <3>3
    <3> HIDE DEF P, a, Row
    <3> QED BY <2>1, <3>1, <3>2, <3>4, <3>5
  <2>2. CASE k # 0
    <3>1. k \in 0..MaxNode /\ k - 1 \in 0..MaxNode
      BY <2>2, IdFacts DEF Ids
    <3>2. f[k] = g[f[k - 1]] /\ f[k - 1] \in T
      <4> HIDE DEF a, g, T
      <4> QED BY <1>4, <2>2, <3>1
    <3>3. PICK w \in T : w = f[k - 1]
      BY <3>2
    <3>4. g[w] = [x \in P |-> Visited(N[x[1]].children, w, x)]
      <4> HIDE DEF T, P
      <4> QED BY <3>3
    <3>5. Row(f, k) = [x \in P |-> Visited(N[x[1]].children, w, x)]
      BY <2>2, <3>3
    <3> HIDE DEF g, Row, T, P
    <3> QED BY <3>2, <3>3, <3>4, <3>5
  <2> QED BY <2>1, <2>2
<1>6. f = Round(f)
  <2>1. f = [k \in Ids |-> f[k]]
    BY <1>4 DEF Ids
  <2> HIDE DEF Row
  <2> QED BY <1>5, <2>1
<1> DEFINE h == CHOOSE v : v = Round(v)
<1>7. h = Round(h)
  BY <1>6
<1>8. Visits(N, p, n) = h[MaxNode][<<p, n>>]
  BY DEF Visits, Visited
<1> HIDE DEF h
<1>9. \A k \in Ids : h[k] = Row(h, k)
  <2> HIDE DEF Row
  <2> QED BY <1>7
<1> DEFINE Z == {k \in Nat : k <= MaxNode => h[k] \in T}
<1>10. ASSUME NEW k \in Nat, k <= MaxNode, NEW w, w = h[k - 1], k # 0 => w \in T
       PROVE  h[k] \in T
  <2>1. k \in Ids
    BY <1>10, IdFacts DEF Ids
  <2>2. ASSUME NEW x \in P PROVE Visited(Kids(k, x), w, x) \in Seq(P)
    <3>1. CASE k = 0
      <4>1. Visited(<<>>, w, x) = Visited(<<>>, [y \in P |-> <<>>], x)
        <5>1. DOMAIN <<>> = {}
          OBVIOUS
        <5>2. PICK v : v = [y \in P |-> <<>>]
          OBVIOUS
        <5>3. [i \in DOMAIN <<>> |-> v[<<x[2], <<>>[i]>>]] = [i \in DOMAIN <<>> |-> w[<<x[2], <<>>[i]>>]]
          BY <5>1
        <5>4. Visited(<<>>, w, x) = Visited(<<>>, v, x)
          BY <5>3 DEF Visited
        <5> QED BY <5>2, <5>4
      <4>2. PICK K, v : K = <<>> /\ v = [y \in P |-> <<>>]
        OBVIOUS
      <4>3. K \in Seq(Ids) /\ v \in [Ids \X Ids -> Seq(Ids \X Ids)]
        BY <4>2
      <4>4. Visited(K, v, x) \in Seq(P)
        BY <4>3, VisitedType
      <4> QED BY <3>1, <4>1, <4>2, <4>4
    <3>2. CASE k # 0
      <4>1. PICK K : K = N[x[1]].children
        OBVIOUS
      <4>2. x[1] \in Ids
        OBVIOUS
      <4>3. K \in Seq(Ids) /\ w \in [Ids \X Ids -> Seq(Ids \X Ids)]
        BY <1>1, <1>10, <3>2, <4>1, <4>2
      <4>4. Visited(K, w, x) \in Seq(P)
        BY <4>3, VisitedType
      <4> QED BY <3>2, <4>1, <4>4
    <3> QED BY <3>1, <3>2
  <2>3. h[k] = [x \in P |-> Visited(Kids(k, x), w, x)]
    BY <1>9, <1>10, <2>1
  <2> HIDE DEF Kids, P
  <2> QED BY <2>2, <2>3
<1>11. 0 \in Z
  <2>1. PICK w : w = h[0 - 1]
    OBVIOUS
  <2> HIDE DEF T
  <2> QED BY <1>10, <2>1
<1>12. ASSUME NEW k \in Nat, k \in Z PROVE k + 1 \in Z
  <2>1. CASE k + 1 <= MaxNode
    <3>1. PICK j : j = k + 1
      OBVIOUS
    <3>2. PICK w : w = h[j - 1]
      OBVIOUS
    <3>3. w = h[k] /\ j \in Nat /\ j <= MaxNode /\ j # 0 /\ k <= MaxNode
      BY <2>1, <3>1, <3>2, IdFacts
    <3>4. w \in T
      <4> HIDE DEF T
      <4> QED BY <1>12, <3>3
    <3>5. h[j] \in T
      <4> HIDE DEF T
      <4> QED BY <1>10, <3>2, <3>3, <3>4
    <3> HIDE DEF T
    <3> QED BY <3>1, <3>5
  <2>2. CASE ~(k + 1 <= MaxNode)
    <3> HIDE DEF T
    <3> QED BY <2>2
  <2> QED BY <2>1, <2>2
<1>13. Nat \subseteq Z
  <2> HIDE DEF Z
  <2> QED BY <1>11, <1>12, SetInduction
<1>14. h[MaxNode] \in T
  <2>1. MaxNode \in Z
    <3> HIDE DEF Z
    <3> QED BY <1>13, IdFacts
  <2> HIDE DEF T
  <2> QED BY <2>1, IdFacts
<1>15. <<p, n>> \in P
  OBVIOUS
<1> QED BY <1>8, <1>14, <1>15

-----------------------------------------------------------------------------
(* vs_link_update_child changes levels and what is saved.                  *)

Relevelled(M, x) ==
  [M EXCEPT ![x[2]].level = M[x[1]].level + 1, ![x[2]].saveable = M[x[1]].saveable]

LEMMA RelevelledType ==
  ASSUME NEW M \in Trees, NEW x \in Ids \X Ids
  PROVE  SameTree(M, Relevelled(M, x))
<1>1. PICK a, b : a = x[1] /\ b = x[2]
  OBVIOUS
<1>2. a \in Ids /\ b \in Ids
  BY <1>1
<1>3. PICK l, s : l = M[a].level + 1 /\ s = M[a].saveable
  OBVIOUS
<1>4. M[a].level \in Nat /\ M[a].saveable \in BOOLEAN
  BY <1>2, TreeNode, NodeFields
<1>5. l \in Nat /\ s \in BOOLEAN
  BY <1>3, <1>4
<1>6. PICK N1 : N1 = [M EXCEPT ![b] = [M[b] EXCEPT !.level = l]]
  OBVIOUS
<1>7. SameTree(M, N1)
  BY <1>2, <1>5, <1>6, TreeNode, WithLevel, SameExcept
<1>8. N1 \in Trees
  BY <1>7 DEF SameTree
<1>9. PICK N2 : N2 = [N1 EXCEPT ![b] = [N1[b] EXCEPT !.saveable = s]]
  OBVIOUS
<1>10. SameTree(N1, N2)
  BY <1>2, <1>5, <1>8, <1>9, TreeNode, WithSaveable, SameExcept
<1>11. Relevelled(M, x) = N2
  BY <1>1, <1>3, <1>6, <1>9 DEF Relevelled
<1> QED BY <1>7, <1>10, <1>11, SameTreeTrans

LEMMA UpdateChildType ==
  ASSUME NEW N \in Trees, NEW p \in Ids, NEW n \in Ids
  PROVE  SameTree(N, vs_link_update_child(N, p, n))
<1>1. PICK v : v = Visits(N, p, n)
  OBVIOUS
<1>2. v \in Seq(Ids \X Ids)
  BY <1>1, VisitsType
<1>3. PICK l : l = Len(v)
  OBVIOUS
<1>4. l \in Nat /\ \A i \in 1..l : v[i] \in Ids \X Ids
  BY <1>2, <1>3, LenProperties
<1> DEFINE T == {M \in Trees : SameTree(N, M)}
           g == [z \in (1..l) \X T |-> Relevelled(z[2], v[z[1]])]
           Round(f) == [i \in 0..l |-> IF i = 0 THEN N ELSE Relevelled(f[i - 1], v[i])]
<1>5. N \in T
  BY SameSelf
<1>6. ASSUME NEW i \in 1..l, NEW M \in T PROVE Relevelled(M, v[i]) \in T
  <2>1. PICK x : x = v[i]
    OBVIOUS
  <2>2. x \in Ids \X Ids /\ M \in Trees /\ SameTree(N, M)
    BY <1>4, <1>6, <2>1
  <2>3. SameTree(M, Relevelled(M, x))
    BY <2>2, RelevelledType
  <2>4. PICK O : O = Relevelled(M, x)
    OBVIOUS
  <2>5. SameTree(N, O)
    BY <2>2, <2>3, <2>4, SameTreeTrans
  <2>6. O \in Trees
    BY <2>5 DEF SameTree
  <2> QED BY <2>1, <2>4, <2>5, <2>6
<1> HIDE DEF T
<1>7. g \in [(1..l) \X T -> T]
  <2>1. \A z \in (1..l) \X T : z[1] \in 1..l /\ z[2] \in T
    OBVIOUS
  <2> QED BY <1>6, <2>1
<1>8. PICK f : Steps(T, N, l, g, f)
  <2> HIDE DEF g
  <2> QED BY <1>4, <1>5, <1>7, StepsExist
<1>9. f \in [0..l -> T] /\ \A i \in 0..l : f[i] = IF i = 0 THEN N ELSE g[<<i, f[i - 1]>>]
  <2> HIDE DEF g
  <2> QED BY <1>8 DEF Steps
<1>10. ASSUME NEW i \in 0..l PROVE f[i] = Round(f)[i]
  <2>1. CASE i = 0
    <3> HIDE DEF g
    <3> QED BY <1>9, <2>1
  <2>2. CASE i # 0
    <3>1. i \in 1..l /\ i - 1 \in 0..l
      BY <1>4, <2>2
    <3>2. f[i] = g[<<i, f[i - 1]>>] /\ f[i - 1] \in T
      <4> HIDE DEF g
      <4> QED BY <1>9, <2>2, <3>1
    <3>3. PICK M \in T : M = f[i - 1]
      BY <3>2
    <3>4. g[<<i, M>>] = Relevelled(M, v[i])
      BY <3>1, <3>3
    <3> HIDE DEF g
    <3> QED BY <2>2, <3>2, <3>3, <3>4
  <2> QED BY <2>1, <2>2
<1>11. f = Round(f)
  <2>1. f = [i \in 0..l |-> f[i]]
    BY <1>9
  <2> QED BY <1>10, <2>1
<1> DEFINE h == CHOOSE k : k = Round(k)
<1>12. h = Round(h)
  BY <1>11
<1>13. vs_link_update_child(N, p, n) = h[l]
  BY <1>1, <1>3 DEF vs_link_update_child, Relevelled
<1> HIDE DEF h
<1>14. h[0] = N /\ \A i \in 1..l : h[i] = Relevelled(h[i - 1], v[i])
  <2>1. 0 \in 0..l /\ \A i \in 1..l : i \in 0..l /\ i # 0
    BY <1>4
  <2> QED BY <1>12, <2>1
<1> HIDE DEF Round
<1> DEFINE K == {k \in Nat : k <= l => h[k] \in T}
<1>15. 0 \in K
  BY <1>5, <1>14
<1>16. ASSUME NEW k \in Nat, k \in K PROVE k + 1 \in K
  <2>1. CASE k + 1 <= l
    <3>1. k + 1 \in 1..l /\ (k + 1) - 1 = k /\ k <= l
      BY <1>4, <2>1
    <3>2. h[k] \in T
      BY <1>16, <3>1
    <3>3. h[k + 1] = Relevelled(h[k], v[k + 1])
      BY <1>14, <3>1
    <3> QED BY <1>6, <3>1, <3>2, <3>3
  <2>2. CASE ~(k + 1 <= l)
    BY <2>2
  <2> QED BY <2>1, <2>2
<1>17. Nat \subseteq K
  <2> HIDE DEF K
  <2> QED BY <1>15, <1>16, SetInduction
<1>18. h[l] \in T
  BY <1>4, <1>17
<1> QED BY <1>13, <1>18 DEF T

(* vs_handle_link_change: the tree after moving node n from old to p.      *)
LEMMA MovedType ==
  ASSUME NEW N \in Trees, NEW old \in Ids, NEW p \in Ids, NEW n \in Ids, p # old,
         NEW M, M = [N EXCEPT ![old].children = Only(@, Ids \ {n}), ![p].children = Append(@, n), ![n].parent = p]
  PROVE  SameTree(N, M)
<1>0. PICK S : S = Ids \ {n}
  OBVIOUS
<1>1. PICK N1 : N1 = [N EXCEPT ![old] = [N[old] EXCEPT !.children = Only(@, S)]]
  OBVIOUS
<1>2. SameTree(N, N1)
  BY <1>1, TreeNode, SameOnly, SameExcept
<1>3. N1 \in Trees
  BY <1>2 DEF SameTree
<1>4. PICK N2 : N2 = [N1 EXCEPT ![p] = [N1[p] EXCEPT !.children = Append(@, n)]]
  OBVIOUS
<1>5. SameTree(N1, N2)
  BY <1>3, <1>4, TreeNode, SameAppend, SameExcept
<1>6. N2 \in Trees
  BY <1>5 DEF SameTree
<1>7. PICK N3 : N3 = [N2 EXCEPT ![n] = [N2[n] EXCEPT !.parent = p]]
  OBVIOUS
<1>8. SameTree(N2, N3)
  BY <1>6, <1>7, TreeNode, WithParent, SameExcept
<1>9. N1[p] = N[p]
  BY <1>1 DEF Trees
<1>10. M = N3
  BY <1>0, <1>1, <1>4, <1>7, <1>9
<1> QED BY <1>2, <1>5, <1>8, <1>10, SameTreeTrans

-----------------------------------------------------------------------------
(* Steps of the server.  Ids that are not in use have no followers.        *)

Ready(N) ==
  N \in Trees /\ \A n \in Ids : N[n].state = NONE => \A c \in Clients : N[n].folls[c] = <<>>

(* The clients that stay are sent the commands X.                          *)
ServerStep(N, M, X) ==
  Ready(M) /\ \A n \in Ids, d \in Stayers : Moves(N[n].folls[d], M[n].folls[d], X[d], n)

(* No node is created or freed; nodes are only freed.                      *)
SameHeld(N, M) == \A n \in Ids : M[n].state = NONE <=> N[n].state = NONE
Shrinks(N, M)  == \A n \in Ids : N[n].state = NONE => M[n].state = NONE

(* What the clients that stay are sent besides commands Z without create   *)
(* and destroy commands.                                                   *)
AllPlain(Z) == \A d \in Stayers : Plain(Z[d])

DataSent(X, Z, K, p, C) ==
  \A d \in Stayers : X[d] = Z[d] \union (IF d \in C THEN ToSet(DataCmds(K, p, d)) ELSE {})

CreateSent(X, Z, C, e, m) ==
  \A d \in Stayers : X[d] = Z[d] \union (IF d \in C /\ IsCreated(e) /\ AllDeleting(e.folls[d])
                                         THEN {m} ELSE {})

SentTo(X, C, m) == \A d \in Stayers : X[d] = IF d \in C THEN {m} ELSE {}

BranchSent(X, Z, N, a) ==
  \A d \in Stayers : X[d] = Z[d] \union
    {NodeDestroy(n) : n \in {n \in Ids : Below(N, n, a) /\ N[n].state # NONE /\ Fates(N)[n] = "waits"
                                           /\ d \in Destroyable(N[n])}}

LEMMA StayersAre == Stayers \subseteq Clients
BY DEF Stayers

LEMMA StepSame ==
  ASSUME NEW N, Ready(N), NEW M, SameTree(N, M), NEW X, AllPlain(X)
  PROVE  ServerStep(N, M, X) /\ SameHeld(N, M)
<1>1. \A n \in Ids : M[n].state = N[n].state /\ M[n].folls = N[n].folls
  BY DEF SameTree, Same
<1>2. M \in Trees
  BY DEF SameTree
<1>3. Ready(M)
  BY <1>1, <1>2 DEF Ready
<1>4. ASSUME NEW n \in Ids, NEW d \in Stayers PROVE Moves(N[n].folls[d], M[n].folls[d], X[d], n)
  <2>1. PICK F, o : F = N[n].folls[d] /\ o = X[d]
    OBVIOUS
  <2>2. Moves(F, F, o, n)
    BY <2>1, MovesPlain DEF AllPlain
  <2> QED BY <1>1, <2>1, <2>2
<1> QED BY <1>1, <1>3, <1>4 DEF ServerStep, SameHeld

(* vs_node_send_data after other changes of the tree: the clients of C are *)
(* sent commands Z and the child nodes of p.                               *)
LEMMA StepData ==
  ASSUME NEW N, Ready(N), NEW K, SameTree(N, K), NEW p \in Ids, NEW C \in SUBSET Clients,
         NEW M, M = vs_node_send_data(K, p, C),
         NEW X, NEW Z, AllPlain(Z), DataSent(X, Z, K, p, C)
  PROVE  ServerStep(N, M, X) /\ SameHeld(N, M)
<1>1. K \in Trees /\ \A n \in Ids : K[n].state = N[n].state /\ K[n].folls = N[n].folls
  BY DEF SameTree, Same
<1>2. /\ M \in Trees
      /\ \A n \in Ids : /\ M[n].state = K[n].state
                        /\ \A c \in Clients : IF c \in C /\ Fresh(K, p, c, n)
                             THEN Joins(K[n].folls[c], M[n].folls[c]) ELSE M[n].folls[c] = K[n].folls[c]
  BY <1>1, SendDataType
<1>3. SameHeld(N, M)
  BY <1>1, <1>2 DEF SameHeld
<1>4. Ready(M)
  <2>1. ASSUME NEW n \in Ids, M[n].state = NONE, NEW c \in Clients PROVE M[n].folls[c] = <<>>
    <3>1. K[n].state = NONE /\ K[n].folls[c] = <<>>
      BY <1>1, <1>2, <2>1 DEF Ready
    <3>2. ~Fresh(K, p, c, n)
      BY <3>1, CreatedHasState DEF Fresh
    <3> QED BY <1>2, <3>1, <3>2
  <2> QED BY <1>2, <2>1 DEF Ready
<1>5. ASSUME NEW n \in Ids, NEW d \in Stayers PROVE Moves(N[n].folls[d], M[n].folls[d], X[d], n)
  <2>0. d \in Clients
    BY StayersAre
  <2>1. PICK F, G, z, x : F = K[n].folls[d] /\ G = M[n].folls[d] /\ z = Z[d] /\ x = X[d]
    OBVIOUS
  <2>2. F = N[n].folls[d] /\ Plain(z)
    BY <1>1, <2>1 DEF AllPlain
  <2>3. CASE d \in C
    <3>1. PICK o : o = ToSet(DataCmds(K, p, d))
      OBVIOUS
    <3>2. Moves(K[n].folls[d], M[n].folls[d], o, n)
      BY <1>1, <2>3, <3>1, DataMoves
    <3>3. x = z \union o
      BY <2>1, <2>3, <3>1 DEF DataSent
    <3>4. Moves(F, G, o, n)
      BY <2>1, <3>2
    <3>5. Moves(F, G, x, n)
      BY <2>2, <3>3, <3>4, MovesMore
    <3> QED BY <2>1, <2>2, <3>5
  <2>4. CASE d \notin C
    <3>1. x = z
      BY <2>1, <2>4 DEF DataSent
    <3>2. G = F
      BY <1>2, <2>0, <2>1, <2>4
    <3>3. Moves(F, F, x, n)
      BY <2>2, <3>1, MovesPlain
    <3> QED BY <2>1, <2>2, <3>2, <3>3
  <2> QED BY <2>3, <2>4
<1> QED BY <1>3, <1>4, <1>5 DEF ServerStep

(* vs_node_send_create of node n after other changes of the tree.          *)
LEMMA StepCreate ==
  ASSUME NEW N, Ready(N), NEW K, SameTree(N, K), NEW n \in Ids, NEW p \in Ids, NEW C \in SUBSET Clients,
         NEW r, r = vs_node_send_create(K[n], p, C), NEW M, M = [K EXCEPT ![n] = r],
         NEW u \in Users, NEW X, NEW Z, AllPlain(Z), CreateSent(X, Z, C, K[n], NodeCreate(n, p, u))
  PROVE  ServerStep(N, M, X) /\ SameHeld(N, M)
<1>1. K \in Trees /\ \A k \in Ids : K[k].state = N[k].state /\ K[k].folls = N[k].folls
  BY DEF SameTree, Same
<1>2. PICK e : e = K[n]
  OBVIOUS
<1>3. e \in NodeType /\ r = vs_node_send_create(e, p, C)
  BY <1>1, <1>2, TreeNode
<1>4. /\ r \in NodeType /\ r.state = e.state
      /\ \A c \in Clients : IF c \in C /\ IsCreated(e) /\ AllDeleting(e.folls[c])
                            THEN Joins(e.folls[c], r.folls[c]) ELSE r.folls[c] = e.folls[c]
  BY <1>3, SendCreateType
<1>5. Put(K, M, n, r)
  BY <1>1, <1>4, TreeExcept
<1>6. M \in Trees /\ M[n] = r /\ \A k \in Ids : k # n => M[k] = K[k]
  BY <1>5 DEF Put
<1>7. SameHeld(N, M)
  BY <1>1, <1>2, <1>4, <1>6 DEF SameHeld
<1>8. Ready(M)
  <2>1. ASSUME NEW k \in Ids, M[k].state = NONE, NEW c \in Clients PROVE M[k].folls[c] = <<>>
    <3>1. K[k].folls[c] = <<>> /\ K[k].state = NONE
      BY <1>1, <1>2, <1>4, <1>6, <2>1 DEF Ready
    <3>2. k = n => ~IsCreated(e)
      BY <1>2, <3>1, CreatedHasState
    <3> QED BY <1>2, <1>4, <1>6, <3>1, <3>2
  <2> QED BY <1>6, <2>1 DEF Ready
<1>9. ASSUME NEW k \in Ids, NEW d \in Stayers PROVE Moves(N[k].folls[d], M[k].folls[d], X[d], k)
  <2>0. d \in Clients
    BY StayersAre
  <2>1. PICK F, G, z, x, m : F = K[k].folls[d] /\ G = M[k].folls[d] /\ z = Z[d] /\ x = X[d] /\ m = NodeCreate(n, p, u)
    OBVIOUS
  <2>2. F = N[k].folls[d] /\ Plain(z)
    BY <1>1, <2>1 DEF AllPlain
  <2>3. m.op = "NODE_CREATE" /\ m.node = n
    BY <2>1, CmdTypes
  <2> DEFINE b == d \in C /\ IsCreated(e) /\ AllDeleting(e.folls[d])
  <2>4. CASE ~b
    <3>1. x = z
      BY <1>2, <2>1, <2>4 DEF CreateSent
    <3>2. G = F
      BY <1>2, <1>4, <1>6, <2>0, <2>1, <2>4
    <3>3. Moves(F, F, x, k)
      BY <2>2, <3>1, MovesPlain
    <3> QED BY <2>1, <2>2, <3>2, <3>3
  <2>5. CASE b
    <3>1. PICK o : o = {m}
      OBVIOUS
    <3>2. x = z \union o
      BY <1>2, <2>1, <2>5, <3>1 DEF CreateSent
    <3>3. NodeDestroy(k) \notin o /\ OneCreate(o, k) /\ (Creates(o, k) <=> k = n)
      BY <2>3, <3>1, FakeMsgFields DEF OneCreate, Creates
    <3>4. IF k = n THEN Joins(F, G) ELSE G = F
      BY <1>2, <1>4, <1>6, <2>0, <2>1, <2>5
    <3>5. Moves(F, G, o, k)
      BY <3>3, <3>4 DEF Moves
    <3>6. Moves(F, G, x, k)
      BY <2>2, <3>2, <3>5, MovesMore
    <3> QED BY <2>1, <2>2, <3>6
  <2> QED BY <2>4, <2>5
<1> QED BY <1>7, <1>8, <1>9 DEF ServerStep

(* vs_node_send_destroy of node n.                                         *)
LEMMA StepDestroy ==
  ASSUME NEW N, Ready(N), NEW n \in Ids, NEW r, r = vs_node_send_destroy(N[n]), N[n].state # NONE,
         NEW M, M = [N EXCEPT ![n] = r], NEW X, SentTo(X, Destroyable(N[n]), NodeDestroy(n))
  PROVE  ServerStep(N, M, X) /\ SameHeld(N, M)
<1>1. N \in Trees
  BY DEF Ready
<1>2. PICK e : e = N[n]
  OBVIOUS
<1>3. e \in NodeType /\ r = vs_node_send_destroy(e)
  BY <1>1, <1>2, TreeNode
<1>4. /\ r \in NodeType /\ r.state = DELETING
      /\ \A c \in Clients : IF c \in Destroyable(e) THEN Leaves(e.folls[c], r.folls[c])
                            ELSE r.folls[c] = e.folls[c]
  BY <1>3, SendDestroyType
<1>5. Put(N, M, n, r)
  BY <1>1, <1>4, TreeExcept
<1>6. M \in Trees /\ M[n] = r /\ \A k \in Ids : k # n => M[k] = N[k]
  BY <1>5 DEF Put
<1>7. SameHeld(N, M) /\ Ready(M)
  BY <1>4, <1>6, StatesDiffer DEF SameHeld, Ready
<1>8. ASSUME NEW k \in Ids, NEW d \in Stayers PROVE Moves(N[k].folls[d], M[k].folls[d], X[d], k)
  <2>0. d \in Clients
    BY StayersAre
  <2>1. PICK F, G, x, m : F = N[k].folls[d] /\ G = M[k].folls[d] /\ x = X[d] /\ m = NodeDestroy(n)
    OBVIOUS
  <2>2. m.op = "NODE_DESTROY" /\ m.node = n /\ NodeDestroy(k).node = k
    BY <2>1, FakeMsgFields
  <2>3. CASE d \notin Destroyable(e)
    <3>1. x = {} /\ G = F
      BY <1>2, <1>4, <1>6, <2>0, <2>1, <2>3 DEF SentTo
    <3> QED BY <2>1, <3>1 DEF Moves, Creates
  <2>4. CASE d \in Destroyable(e)
    <3>1. x = {m}
      BY <1>2, <2>1, <2>4 DEF SentTo
    <3>2. ~Creates(x, k) /\ (NodeDestroy(k) \in x <=> k = n)
      BY <2>1, <2>2, <3>1 DEF Creates
    <3>3. IF k = n THEN Leaves(F, G) ELSE G = F
      BY <1>2, <1>4, <1>6, <2>0, <2>1, <2>4
    <3> QED BY <2>1, <3>2, <3>3 DEF Moves
  <2> QED BY <2>3, <2>4
<1> QED BY <1>7, <1>8 DEF ServerStep

-----------------------------------------------------------------------------
(* New nodes.                                                              *)

(* The nodes E are created.                                                *)
NewHeld(N, M, E) == \A k \in Ids : M[k].state = NONE <=> N[k].state = NONE /\ k \notin E

(* The tree K has the followers of N.                                      *)
SameFolls(N, K) == \A k \in Ids, d \in Clients : K[k].folls[d] = N[k].folls[d]

LEMMA NewNodeReady ==
  ASSUME NEW N, Ready(N), NEW K, NEW n \in Ids, NEW s, s # NONE, NewNode(N, K, n, s), N[n].state = NONE
  PROVE  Ready(K) /\ SameFolls(N, K) /\ NewHeld(N, K, {n})
<1>1. /\ K \in Trees /\ K[n].state = s /\ \A c \in Clients : K[n].folls[c] = <<>>
      /\ \A k \in Ids : k # n => K[k].state = N[k].state /\ K[k].folls = N[k].folls
  BY DEF NewNode, Same
<1>2. \A c \in Clients : N[n].folls[c] = <<>>
  BY DEF Ready
<1>3. Ready(K)
  BY <1>1 DEF Ready
<1> QED BY <1>1, <1>2, <1>3 DEF SameFolls, NewHeld

LEMMA StepAfter ==
  ASSUME NEW N, NEW K, NEW M, NEW X, SameFolls(N, K), ServerStep(K, M, X)
  PROVE  ServerStep(N, M, X)
BY StayersAre DEF SameFolls, ServerStep

LEMMA SameFollsTrans ==
  ASSUME NEW N, NEW K, NEW M, SameFolls(N, K), SameFolls(K, M)
  PROVE  SameFolls(N, M)
BY DEF SameFolls

LEMMA SameTreeFolls ==
  ASSUME NEW N, NEW M, SameTree(N, M), Ready(N)
  PROVE  SameFolls(N, M) /\ SameHeld(N, M) /\ Ready(M)
BY DEF SameTree, Same, SameFolls, SameHeld, Ready

(* vs_handle_node_create.                                                  *)
LEMMA StepNodeCreate ==
  ASSUME NEW N, Ready(N), NEW n \in Ids, N[n].state = NONE, NEW a \in Ids, NEW u \in Users,
         NEW C \in SUBSET Clients, NEW K, K = vs_node_create_linked(N, a, n, u, CREATING),
         NEW M, M = [K EXCEPT ![n] = vs_node_send_create(vs_node_set_perm(@, OTHER_USERS, DefaultPerm), a, C)],
         NEW X, SentTo(X, C, NodeCreate(n, a, u))
  PROVE  ServerStep(N, M, X) /\ NewHeld(N, M, {n})
<1>1. N \in Trees /\ CREATING \in NodeStates /\ CREATING # NONE
  BY StatesDiffer DEF Ready, NodeStates
<1>2. NewNode(N, K, n, CREATING)
  BY <1>1, CreateLinkedType
<1>3. K \in Trees
  BY <1>2 DEF NewNode
<1>4. PICK e : e = vs_node_set_perm(K[n], OTHER_USERS, DefaultPerm)
  OBVIOUS
<1>5. OTHER_USERS \in Users /\ DefaultPerm \in Rights
  BY NodesAssumption DEF Users, Rights
<1>6. Same(K[n], e)
  BY <1>3, <1>4, <1>5, TreeNode, SetPermType
<1>7. PICK K1 : K1 = [K EXCEPT ![n] = e]
  OBVIOUS
<1>8. SameTree(K, K1)
  BY <1>3, <1>6, <1>7, SameExcept
<1>9. NewNode(N, K1, n, CREATING)
  BY <1>2, <1>8, NewNodeThen
<1>10. Ready(K1) /\ SameFolls(N, K1) /\ NewHeld(N, K1, {n})
  BY <1>1, <1>9, NewNodeReady
<1>11. PICK r : r = vs_node_send_create(K1[n], a, C)
  OBVIOUS
<1>12. K1[n] = e /\ M = [K1 EXCEPT ![n] = r]
  <2>1. K1[n] = e
    BY <1>3, <1>7 DEF Trees
  <2>2. M = [K EXCEPT ![n] = r]
    BY <1>4, <1>11, <2>1
  <2> QED BY <1>7, <2>1, <2>2
<1>13. K1 \in Trees
  BY <1>10 DEF Ready
<1>14. SameTree(K1, K1)
  BY <1>13, SameSelf
<1>15. IsCreated(K1[n]) /\ \A d \in Clients : AllDeleting(K1[n].folls[d])
  <2>1. K1[n].state = CREATING /\ \A d \in Clients : K1[n].folls[d] = <<>>
    BY <1>9 DEF NewNode
  <2> QED BY <2>1 DEF IsCreated, AllDeleting
<1>16. PICK Z : Z = [d \in Stayers |-> {}]
  OBVIOUS
<1>17. AllPlain(Z)
  BY <1>16 DEF Plain, AllPlain
<1>18. CreateSent(X, Z, C, K1[n], NodeCreate(n, a, u))
  BY <1>15, <1>16, StayersAre DEF SentTo, CreateSent
<1>19. ServerStep(K1, M, X) /\ SameHeld(K1, M)
  BY <1>10, <1>11, <1>12, <1>14, <1>17, <1>18, StepCreate
<1>20. ServerStep(N, M, X)
  BY <1>10, <1>19, StepAfter
<1> QED BY <1>10, <1>19, <1>20 DEF NewHeld, SameHeld

(* vs_create_avatar_node.                                                  *)
AvatarPerm(e, c) == vs_node_set_perm(vs_node_set_perm(e, c, {"READ", "WRITE"}), OTHER_USERS, {"READ"})

AvatarSent(N, a, b, C) ==
  [N EXCEPT ![b] = vs_node_set_perm(@, OTHER_USERS, {"READ"}), ![a] = vs_node_send_create(@, AVATARS, C)]

LEMMA StepConnect ==
  ASSUME NEW N, Ready(N), NEW a \in Ids, NEW b \in Ids, a # b, N[a].state = NONE, N[b].state = NONE,
         NEW c \in Clients, NEW C \in SUBSET Clients, NEW s \in {CREATING, CREATED},
         NEW N1, N1 = vs_node_create_linked(N, AVATARS, a, SUPER_USER, s),
         NEW e, e = AvatarPerm(N1[a], c),
         NEW N2, N2 = [N1 EXCEPT ![a] = e],
         NEW N3, N3 = vs_node_create_linked(N2, a, b, SUPER_USER, CREATED),
         NEW M, M = AvatarSent(N3, a, b, C),
         NEW X, SentTo(X, C, NodeCreate(a, AVATARS, SUPER_USER))
  PROVE  ServerStep(N, M, X) /\ NewHeld(N, M, {a, b})
<1>1. /\ N \in Trees /\ CREATED \in NodeStates /\ s \in NodeStates /\ CREATED # NONE /\ s # NONE
      /\ SUPER_USER \in Users /\ OTHER_USERS \in Users /\ c \in Users
      /\ {"READ"} \in Rights /\ {"READ", "WRITE"} \in Rights /\ AVATARS \in Ids
  BY StatesDiffer, IdFacts DEF Ready, NodeStates, Users, Rights
<1>2. NewNode(N, N1, a, s)
  BY <1>1, CreateLinkedType
<1>3. N1 \in Trees
  BY <1>2 DEF NewNode
<1>4. Same(N1[a], e)
  <2>1. PICK x, p : x = vs_node_set_perm(N1[a], c, p) /\ p = {"READ", "WRITE"}
    OBVIOUS
  <2>2. Same(N1[a], x)
    BY <1>1, <1>3, <2>1, TreeNode, SetPermType
  <2>3. x \in NodeType
    BY <2>2 DEF Same
  <2>4. PICK q : q = {"READ"}
    OBVIOUS
  <2>5. e = vs_node_set_perm(x, OTHER_USERS, q)
    BY <2>1, <2>4 DEF AvatarPerm
  <2>6. Same(x, e)
    BY <1>1, <2>3, <2>4, <2>5, SetPermType
  <2> QED BY <2>2, <2>6, SameTrans
<1>5. SameTree(N1, N2)
  BY <1>3, <1>4, SameExcept
<1>6. NewNode(N, N2, a, s)
  BY <1>2, <1>5, NewNodeThen
<1>7. Ready(N2) /\ SameFolls(N, N2) /\ NewHeld(N, N2, {a})
  BY <1>1, <1>6, NewNodeReady
<1>8. N2 \in Trees /\ N2[b].state = NONE
  BY <1>7 DEF Ready, NewHeld
<1>9. NewNode(N2, N3, b, CREATED)
  BY <1>1, <1>8, CreateLinkedType
<1>10. N3 \in Trees
  BY <1>9 DEF NewNode
<1>11. PICK f : f = vs_node_set_perm(N3[b], OTHER_USERS, {"READ"})
  OBVIOUS
<1>12. Same(N3[b], f)
  <2>1. PICK q : q = {"READ"}
    OBVIOUS
  <2>2. f = vs_node_set_perm(N3[b], OTHER_USERS, q) /\ q \in Rights
    BY <1>1, <1>11, <2>1
  <2> QED BY <1>1, <1>10, <2>2, TreeNode, SetPermType
<1>13. PICK K : K = [N3 EXCEPT ![b] = f]
  OBVIOUS
<1>14. SameTree(N3, K)
  BY <1>10, <1>12, <1>13, SameExcept
<1>15. NewNode(N2, K, b, CREATED)
  BY <1>9, <1>14, NewNodeThen
<1>16. Ready(K) /\ SameFolls(N2, K) /\ NewHeld(N2, K, {b})
  BY <1>1, <1>7, <1>8, <1>15, NewNodeReady
<1>17. PICK r : r = vs_node_send_create(K[a], AVATARS, C)
  OBVIOUS
<1>18. M = [K EXCEPT ![a] = r]
  <2>1. K[a] = N3[a]
    BY <1>10, <1>13 DEF Trees
  <2>2. M = [[N3 EXCEPT ![b] = f] EXCEPT ![a] = vs_node_send_create(N3[a], AVATARS, C)]
    BY <1>10, <1>11 DEF Trees, AvatarSent
  <2> QED BY <1>13, <1>17, <2>1, <2>2
<1>19. K \in Trees
  BY <1>16 DEF Ready
<1>20. SameTree(K, K)
  BY <1>19, SameSelf
<1>21. IsCreated(K[a]) /\ \A d \in Clients : AllDeleting(K[a].folls[d])
  <2>1. N2[a].state = s /\ \A d \in Clients : N2[a].folls[d] = <<>>
    BY <1>6 DEF NewNode
  <2>2. K[a].state = s /\ \A d \in Clients : K[a].folls[d] = <<>>
    BY <1>15, <2>1 DEF NewNode, Same
  <2> QED BY <2>2 DEF IsCreated, AllDeleting
<1>22. PICK Z : Z = [d \in Stayers |-> {}]
  OBVIOUS
<1>23. AllPlain(Z)
  BY <1>22 DEF Plain, AllPlain
<1>24. CreateSent(X, Z, C, K[a], NodeCreate(a, AVATARS, SUPER_USER))
  BY <1>21, <1>22, StayersAre DEF SentTo, CreateSent
<1>25. ServerStep(K, M, X) /\ SameHeld(K, M)
  BY <1>1, <1>16, <1>17, <1>18, <1>20, <1>23, <1>24, StepCreate
<1>26. SameFolls(N, K)
  BY <1>7, <1>16, SameFollsTrans
<1>27. ServerStep(N, M, X)
  BY <1>25, <1>26, StepAfter
<1> QED BY <1>7, <1>16, <1>25, <1>27 DEF NewHeld, SameHeld

-----------------------------------------------------------------------------
(* Steps of clients that leave.                                            *)

LEMMA OnlyOfReady ==
  ASSUME NEW N, Ready(N), NEW c \in Clients, NEW K, OnlyOf(c, N, K)
  PROVE  Ready(K) /\ SameHeld(N, K) /\ \A k \in Ids, d \in Clients : d # c => K[k].folls[d] = N[k].folls[d]
<1>1. /\ K \in Trees
      /\ \A k \in Ids : /\ K[k].state = N[k].state /\ (N[k].folls[c] = <<>> => K[k].folls[c] = <<>>)
                        /\ \A d \in Clients : d # c => K[k].folls[d] = N[k].folls[d]
  BY DEF OnlyOf, SameBut
<1>2. Ready(K)
  BY <1>1 DEF Ready
<1> QED BY <1>1, <1>2 DEF SameHeld

(* vs_handle_node_unsubscribe.                                             *)
LEMMA StepOnlyOf ==
  ASSUME NEW N, Ready(N), NEW c \in Clients, c \notin Stayers, NEW K, OnlyOf(c, N, K),
         NEW X, AllPlain(X)
  PROVE  ServerStep(N, K, X) /\ SameHeld(N, K)
<1>1. Ready(K) /\ SameHeld(N, K) /\ \A k \in Ids, d \in Clients : d # c => K[k].folls[d] = N[k].folls[d]
  BY OnlyOfReady
<1>2. ASSUME NEW n \in Ids, NEW d \in Stayers PROVE Moves(N[n].folls[d], K[n].folls[d], X[d], n)
  <2>1. PICK F, o : F = N[n].folls[d] /\ o = X[d]
    OBVIOUS
  <2>2. K[n].folls[d] = F
    BY <1>1, <2>1, StayersAre
  <2>3. Moves(F, F, o, n)
    BY <2>1, MovesPlain DEF AllPlain
  <2> QED BY <2>1, <2>2, <2>3
<1> QED BY <1>1, <1>2 DEF ServerStep

(* vs_node_destroy_branch.                                                 *)
LEMMA StepBranch ==
  ASSUME NEW N, Ready(N), NEW a, NEW M, M = vs_node_destroy_branch(N, a),
         NEW X, NEW Z, AllPlain(Z), BranchSent(X, Z, N, a)
  PROVE  ServerStep(N, M, X) /\ Shrinks(N, M)
<1>1. N \in Trees
  BY DEF Ready
<1>2. M \in Trees
  BY <1>1, BranchTree
<1> DEFINE waits(n) == N[n].state # NONE /\ Below(N, n, a) /\ Fates(N)[n] = "waits"
<1>3. ASSUME NEW n \in Ids
      PROVE  /\ M[n].state # NONE => N[n].state # NONE
             /\ M[n].state = NONE /\ N[n].state # NONE => \A c \in Clients : M[n].folls[c] = <<>>
             /\ \A c \in Clients : IF waits(n) /\ c \in Destroyable(N[n])
                                   THEN Leaves(N[n].folls[c], M[n].folls[c])
                                   ELSE M[n].folls[c] = N[n].folls[c]
  <2>1. PICK e, r, w : e = N[n] /\ r = vs_node_destroy_branch(N, a)[n]
          /\ w = (N[n].state # NONE /\ Below(N, n, a) /\ Fates(N)[n] = "waits")
    OBVIOUS
  <2>2. /\ r.state # NONE => e.state # NONE
        /\ r.state = NONE /\ e.state # NONE => \A c \in Clients : r.folls[c] = <<>>
        /\ \A c \in Clients : IF w /\ c \in Destroyable(e) THEN Leaves(e.folls[c], r.folls[c])
                              ELSE r.folls[c] = e.folls[c]
    BY <1>1, <2>1, BranchType
  <2> QED BY <2>1, <2>2
<1>4. Ready(M)
  <2>1. ASSUME NEW n \in Ids, M[n].state = NONE, N[n].state = NONE, NEW c \in Clients PROVE M[n].folls[c] = <<>>
    <3>1. ~waits(n) /\ N[n].folls[c] = <<>>
      BY <2>1 DEF Ready
    <3> QED BY <1>3, <3>1
  <2> QED BY <1>2, <1>3, <2>1 DEF Ready
<1>5. ASSUME NEW n \in Ids, NEW d \in Stayers PROVE Moves(N[n].folls[d], M[n].folls[d], X[d], n)
  <2>0. d \in Clients
    BY StayersAre
  <2>1. PICK F, G, z, x, o : F = N[n].folls[d] /\ G = M[n].folls[d] /\ z = Z[d] /\ x = X[d]
          /\ o = {NodeDestroy(k) : k \in {j \in Ids : waits(j) /\ d \in Destroyable(N[j])}}
    OBVIOUS
  <2>2. x = z \union o /\ Plain(z)
    <3>1. Plain(z)
      BY <2>1 DEF AllPlain
    <3>2. x = z \union o
      BY <2>1 DEF BranchSent
    <3> QED BY <3>1, <3>2
  <2>3. NodeDestroy(n) \in o <=> waits(n) /\ d \in Destroyable(N[n])
    <3>1. \A k \in Ids : NodeDestroy(k).node = k
      BY FakeMsgFields
    <3>2. \A k \in Ids : NodeDestroy(k) = NodeDestroy(n) => k = n
      BY <3>1
    <3> HIDE DEF waits
    <3> QED BY <2>1, <3>2
  <2>4. ~Creates(o, n)
    <3>1. \A k \in Ids : NodeDestroy(k).op = "NODE_DESTROY"
      BY FakeMsgFields
    <3> HIDE DEF waits
    <3> QED BY <2>1, <3>1 DEF Creates
  <2>5. IF waits(n) /\ d \in Destroyable(N[n]) THEN Leaves(F, G) ELSE G = F
    <3> HIDE DEF waits
    <3> QED BY <1>3, <2>0, <2>1
  <2>6. Moves(F, G, o, n)
    <3> HIDE DEF waits
    <3> QED BY <2>3, <2>4, <2>5 DEF Moves
  <2>7. Moves(F, G, x, n)
    BY <2>2, <2>6, MovesMore
  <2> QED BY <2>1, <2>7
<1>6. Shrinks(N, M)
  BY <1>3 DEF Shrinks
<1> QED BY <1>4, <1>5, <1>6 DEF ServerStep

-----------------------------------------------------------------------------
(* Acknowledgements change the followers of one client for one node.       *)
AckStep(N, M, c, n, G) ==
  /\ Ready(M) /\ M[n].folls[c] = G
  /\ \A k \in Ids, d \in Clients : k # n \/ d # c => M[k].folls[d] = N[k].folls[d]

(* The followers of client c for node n become G, and its state s.         *)
FollsSet(N, c, n, G)     == [N EXCEPT ![n].folls[c] = G]
StateSet(N, c, n, G, s)  == [FollsSet(N, c, n, G) EXCEPT ![n].state = s]

LEMMA FollsReplaced ==
  ASSUME NEW N, Ready(N), NEW c \in Clients, NEW n \in Ids, N[n].state # NONE, NEW G \in Seq(FollType),
         NEW s \in NodeStates, s # NONE, NEW M, M = StateSet(N, c, n, G, s)
  PROVE  AckStep(N, M, c, n, G) /\ SameHeld(N, M)
<1>1. N \in Trees
  BY DEF Ready
<1>2. PICK e : e = N[n]
  OBVIOUS
<1>3. e \in NodeType
  BY <1>1, <1>2, TreeNode
<1>4. e.folls \in [Clients -> Seq(FollType)]
  BY <1>3, NodeFields DEF FollLists
<1>5. PICK v : v = [e.folls EXCEPT ![c] = G]
  OBVIOUS
<1>6. v[c] = G /\ \A d \in Clients : d # c => v[d] = e.folls[d]
  BY <1>4, <1>5
<1>7. v \in FollLists
  BY <1>4, <1>5 DEF FollLists
<1>8. PICK x : x = [e EXCEPT !.folls = v]
  OBVIOUS
<1>9. x \in NodeType /\ x.state = e.state /\ x.folls = v
  BY <1>3, <1>7, <1>8, WithFolls
<1>10. PICK r : r = [x EXCEPT !.state = s]
  OBVIOUS
<1>11. r \in NodeType /\ r.state = s /\ r.folls = x.folls
  BY <1>9, <1>10, WithState
<1>12. M = [N EXCEPT ![n] = r]
  <2>1. PICK K : K = FollsSet(N, c, n, G)
    OBVIOUS
  <2>2. K = [N EXCEPT ![n] = x]
    BY <1>2, <1>5, <1>8, <2>1 DEF FollsSet
  <2>3. K[n] = x
    BY <1>1, <2>2 DEF Trees
  <2>4. M = [K EXCEPT ![n] = r]
    BY <1>10, <2>1, <2>3 DEF StateSet
  <2> QED BY <1>1, <2>2, <2>4 DEF Trees
<1>13. Put(N, M, n, r)
  BY <1>1, <1>11, <1>12, TreeExcept
<1>14. M \in Trees /\ M[n] = r /\ \A k \in Ids : k # n => M[k] = N[k]
  BY <1>13 DEF Put
<1>15. Ready(M)
  BY <1>11, <1>14 DEF Ready
<1>16. SameHeld(N, M)
  BY <1>11, <1>14 DEF SameHeld
<1>17. \A k \in Ids, d \in Clients : k # n \/ d # c => M[k].folls[d] = N[k].folls[d]
  BY <1>2, <1>6, <1>9, <1>11, <1>14
<1> QED BY <1>6, <1>9, <1>11, <1>14, <1>15, <1>16, <1>17 DEF AckStep

LEMMA FollsReplacedOnly ==
  ASSUME NEW N, Ready(N), NEW c \in Clients, NEW n \in Ids, N[n].state # NONE, NEW G \in Seq(FollType),
         NEW M, M = FollsSet(N, c, n, G)
  PROVE  AckStep(N, M, c, n, G) /\ SameHeld(N, M)
<1>1. N \in Trees
  BY DEF Ready
<1>2. PICK e, s : e = N[n] /\ s = N[n].state
  OBVIOUS
<1>3. e \in NodeType /\ s \in NodeStates /\ s # NONE
  BY <1>1, <1>2, TreeNode, NodeFields
<1>4. PICK v : v = [e.folls EXCEPT ![c] = G]
  OBVIOUS
<1>5. PICK x : x = [e EXCEPT !.folls = v]
  OBVIOUS
<1>6. x.state = s
  BY <1>2, <1>3, <1>5 DEF NodeType
<1>7. M = [N EXCEPT ![n] = x]
  BY <1>2, <1>4, <1>5 DEF FollsSet
<1>8. M = [M EXCEPT ![n].state = s]
  <2>1. M[n] = x
    BY <1>1, <1>7 DEF Trees
  <2>2. x = [x EXCEPT !.state = s]
    BY <1>3, <1>5, <1>6 DEF NodeType
  <2> QED BY <1>1, <1>7, <2>1, <2>2 DEF Trees
<1>9. M = StateSet(N, c, n, G, s)
  BY <1>8 DEF StateSet
<1> QED BY <1>3, <1>9, FollsReplaced

(* vs_handle_node_destroy_ack.                                             *)
Dropped(F) == IF F = <<>> THEN F ELSE Tail(F)

DestroyAcked(N, c, n, G) ==
  IF ~LastFollower(N[n], c) THEN FollsSet(N, c, n, G)
  ELSE IF N[n].children = <<>> THEN vs_node_destroy(N, n)
  ELSE StateSet(N, c, n, G, DELETED)

LEMMA DestroyAckStep ==
  ASSUME NEW N, Ready(N), NEW c \in Clients, NEW n \in Ids, N[n].state # NONE,
         NEW F, F = N[n].folls[c], NEW G, G = Dropped(F), NEW M, M = DestroyAcked(N, c, n, G)
  PROVE  AckStep(N, M, c, n, G) /\ Shrinks(N, M)
<1>1. N \in Trees
  BY DEF Ready
<1>2. N[n] \in NodeType
  BY <1>1, TreeNode
<1>3. F \in Seq(FollType)
  BY <1>2, FollsOf
<1>4. G \in Seq(FollType)
  BY <1>3, TailFolls DEF Dropped
<1>5. DELETED \in NodeStates /\ DELETED # NONE
  BY StatesDiffer DEF NodeStates
<1>6. CASE ~LastFollower(N[n], c)
  <2>1. M = FollsSet(N, c, n, G)
    BY <1>6 DEF DestroyAcked
  <2>2. AckStep(N, M, c, n, G) /\ SameHeld(N, M)
    BY <1>4, <2>1, FollsReplacedOnly
  <2> QED BY <2>2 DEF SameHeld, Shrinks
<1>7. CASE LastFollower(N[n], c) /\ N[n].children # <<>>
  <2>1. M = StateSet(N, c, n, G, DELETED)
    BY <1>7 DEF DestroyAcked
  <2>2. AckStep(N, M, c, n, G) /\ SameHeld(N, M)
    BY <1>4, <1>5, <2>1, FollsReplaced
  <2> QED BY <2>2 DEF SameHeld, Shrinks
<1>8. CASE LastFollower(N[n], c) /\ N[n].children = <<>>
  <2>1. M = vs_node_destroy(N, n)
    BY <1>8 DEF DestroyAcked
  <2>2. NewNode(N, M, n, NONE)
    BY <1>1, <2>1, DestroyType
  <2>3. /\ M \in Trees /\ M[n].state = NONE /\ \A d \in Clients : M[n].folls[d] = <<>>
        /\ \A k \in Ids : k # n => M[k].state = N[k].state /\ M[k].folls = N[k].folls
    BY <2>2 DEF NewNode, Same
  <2>4. Ready(M) /\ Shrinks(N, M)
    BY <2>3 DEF Ready, Shrinks
  <2>5. \A d \in Clients : d # c => N[n].folls[d] = <<>>
    BY <1>8 DEF LastFollower, Followers
  <2>6. G = <<>>
    <3>1. CASE F = <<>>
      BY <3>1 DEF Dropped
    <3>2. CASE F # <<>>
      <4>1. PICK l, t : l = Len(F) /\ t = Tail(F)
        OBVIOUS
      <4>2. l \in Nat /\ l # 0
        BY <1>3, <3>2, <4>1, FollFacts
      <4>3. l <= 1
        BY <1>8, <4>1 DEF LastFollower
      <4>4. Len(t) = l - 1 /\ t \in Seq(FollType)
        BY <1>3, <3>2, <4>1, HeadTailProperties
      <4>5. Len(t) = 0
        <5>1. l = 1
          <6> HIDE <4>1
          <6> QED BY <4>2, <4>3
        <5> QED BY <4>4, <5>1
      <4>6. t = <<>>
        BY <4>4, <4>5, EmptySeq
      <4> QED BY <3>2, <4>1, <4>6 DEF Dropped
    <3> QED BY <3>1, <3>2
  <2> QED BY <2>3, <2>4, <2>5, <2>6 DEF AckStep
<1> QED BY <1>6, <1>7, <1>8

-----------------------------------------------------------------------------
(* The inductive invariant.                                                *)

Typed ==
  /\ last_id \in Ids /\ last_id >= FIRST_COMMON_ID
  /\ avatar_id \in [Clients -> Ids \union {NoNode}] /\ online \in SUBSET Clients
  /\ workload \in Workloads /\ ops \in 0 .. workload.ops
  /\ view \in [Clients -> ViewType]

InFlight ==
  /\ net \in [Clients -> SUBSET Msgs] /\ acks \in [Clients -> SUBSET FakeMsgs]
  /\ out_queue \in [Clients -> Seq(Msgs)] /\ wire \in [Clients -> Seq(Msgs)]

(* Ids that were not given out yet, and FIRST_COMMON_ID, are not in use;   *)
(* clients that are connected have an avatar.                              *)
Unused == \A n \in Ids : n > last_id \/ n = FIRST_COMMON_ID => nodes[n].state = NONE
Homes  == \A c \in online : avatar_id[c] \in Ids

Informed ==
  \A d \in Stayers \ streams, n \in Ids : Told(nodes[n].folls[d], net[d], acks[d], view[d].known, n)

NodesInv == Ready(nodes) /\ Typed /\ InFlight /\ Unused /\ Homes /\ Informed

(* A client that stays knows only nodes that the server holds.             *)
LEMMA ToldHeld ==
  ASSUME NEW F, NEW H, NEW A, NEW V, NEW n, Told(F, H, A, V, n)
  PROVE  /\ n \in V => F # <<>>
         /\ NodeCreateAck(n) \in A => F # <<>>
BY DEF Told, LastIs, FirstGoes

LEMMA KnownHeld ==
  ASSUME NodesInv, NEW d \in Stayers \ streams, NEW n \in Ids, n \in view[d].known
  PROVE  nodes[n].state # NONE
<1>1. Told(nodes[n].folls[d], net[d], acks[d], view[d].known, n)
  BY DEF NodesInv, Informed
<1>2. nodes[n].folls[d] # <<>>
  BY <1>1, ToldHeld
<1> QED BY <1>2, StayersAre DEF NodesInv, Ready

-----------------------------------------------------------------------------
(* Steps of the server preserve the invariant.                             *)

(* The commands X are queued.                                              *)
Sends(X) ==
  /\ net' \in [Clients -> SUBSET Msgs] /\ out_queue' \in [Clients -> Seq(Msgs)]
  /\ \A d \in Stayers \ streams : net'[d] = net[d] \union X[d]

LEMMA PushSends ==
  ASSUME InFlight, NEW out \in [Clients -> Seq(Msgs)], NEW C, C \intersect Stayers = {},
         PushClear(out, C), NEW X, X = [d \in Clients |-> ToSet(out[d])]
  PROVE  Sends(X)
<1>1. ASSUME NEW d \in Clients
      PROVE  /\ out[d] \in Seq(Msgs) /\ ToSet(out[d]) \subseteq Msgs /\ net[d] \subseteq Msgs
             /\ out_queue[d] \in Seq(Msgs) /\ out_queue[d] \o out[d] \in Seq(Msgs)
  <2>1. PICK q, o : q = out_queue[d] /\ o = out[d]
    OBVIOUS
  <2>2. q \in Seq(Msgs) /\ o \in Seq(Msgs) /\ net[d] \subseteq Msgs
    BY <2>1 DEF InFlight
  <2>3. q \o o \in Seq(Msgs)
    BY <2>2, ConcatProperties
  <2>4. ToSet(o) \subseteq Msgs
    <3>1. PICK l \in Nat : DOMAIN o = 1..l /\ \A i \in 1..l : o[i] \in Msgs
      BY <2>2, LenProperties
    <3> QED BY <3>1 DEF ToSet
  <2> QED BY <2>1, <2>2, <2>3, <2>4
<1>2. net' = [c \in Clients |-> IF c \in C THEN {}
                ELSE IF c \in streams THEN net[c] ELSE net[c] \union ToSet(out[c])]
  BY DEF PushClear
<1>3. out_queue' = [c \in Clients |-> IF c \in C THEN <<>>
                      ELSE IF c \in streams THEN out_queue[c] \o out[c] ELSE out_queue[c]]
  BY DEF PushClear
<1>4. net' \in [Clients -> SUBSET Msgs]
  BY <1>1, <1>2
<1>5. out_queue' \in [Clients -> Seq(Msgs)]
  BY <1>1, <1>3
<1>6. \A d \in Stayers \ streams : net'[d] = net[d] \union X[d]
  BY <1>2, StayersAre
<1> QED BY <1>4, <1>5, <1>6 DEF Sends

LEMMA NothingSent ==
  ASSUME InFlight, UNCHANGED <<net, out_queue>>, NEW X, X = [d \in Clients |-> {}]
  PROVE  Sends(X)
BY StayersAre DEF Sends, InFlight

Effect(X) ==
  /\ ServerStep(nodes, nodes', X) /\ Sends(X) /\ UNCHANGED workload
  /\ acks' \in [Clients -> SUBSET FakeMsgs] /\ wire' \in [Clients -> Seq(Msgs)]
  /\ view' \in [Clients -> ViewType]
  /\ \A d \in Stayers \ streams : acks'[d] = acks[d] /\ view'[d].known = view[d].known
  /\ last_id' \in Ids /\ last_id' >= FIRST_COMMON_ID /\ ops' \in 0 .. workload.ops
  /\ avatar_id' \in [Clients -> Ids \union {NoNode}] /\ online' \in SUBSET Clients
  /\ Unused' /\ Homes'

LEMMA EffectInv ==
  ASSUME NodesInv, NEW X, Effect(X)
  PROVE  NodesInv'
<1>1. PICK M : M = nodes'
  OBVIOUS
<1>2. ServerStep(nodes, M, X) /\ Ready(M)
  BY <1>1 DEF Effect, ServerStep
<1>3. streams' = streams /\ Stayers' = Stayers
  BY DEF Effect, streams, Stayers
<1>4. ASSUME NEW d \in Stayers \ streams, NEW n \in Ids
      PROVE  Told(nodes'[n].folls[d], net'[d], acks'[d], view'[d].known, n)
  <2>1. PICK F, G, H, A, V, o : F = nodes[n].folls[d] /\ G = M[n].folls[d] /\ H = net[d] /\ A = acks[d]
                                /\ V = view[d].known /\ o = X[d]
    OBVIOUS
  <2>2. d \in Clients /\ nodes \in Trees /\ M \in Trees
    BY <1>2, StayersAre DEF NodesInv, Ready
  <2>3. F \in Seq(FollType) /\ G \in Seq(FollType)
    BY <2>1, <2>2, TreeNode, FollsOf
  <2>4. Told(F, H, A, V, n)
    BY <2>1 DEF NodesInv, Informed
  <2>5. Moves(F, G, o, n)
    BY <1>2, <2>1 DEF ServerStep
  <2>6. Told(G, H \union o, A, V, n)
    BY <2>3, <2>4, <2>5, ToldMoves
  <2>7. net'[d] = H \union o /\ acks'[d] = A /\ view'[d].known = V
    BY <2>1 DEF Effect, Sends
  <2> QED BY <1>1, <2>1, <2>6, <2>7
<1>5. Informed'
  BY <1>3, <1>4 DEF Informed
<1>6. Ready(nodes)'
  BY <1>1, <1>2
<1>7. Typed' /\ InFlight'
  BY DEF Effect, Sends, NodesInv, Typed, InFlight
<1> QED BY <1>5, <1>6, <1>7 DEF NodesInv, Effect

(* The nodes that the server holds and those that the clients know, as     *)
(* module Replication sees them, and how they change.                      *)
Held    == {n \in Ids : n > FIRST_COMMON_ID /\ nodes[n].state # NONE}
KnownOf == [c \in Stayers |-> IF c \in streams THEN {} ELSE view[c].known \ 0 .. 3]

Shape ==
  \/ KnownOf' = KnownOf /\ (Held \subseteq Held' \/ Held' \subseteq Held)
  \/ Held' = Held /\ \E c \in Stayers, n \in Ids :
       \/ n \notin 0 .. 3 /\ c \notin streams /\ n \in view'[c].known
          /\ KnownOf' = [KnownOf EXCEPT ![c] = KnownOf[c] \union {n}]
       \/ KnownOf' = [KnownOf EXCEPT ![c] = KnownOf[c] \ {n}]

LEMMA SameKnown ==
  ASSUME UNCHANGED workload, \A d \in Stayers \ streams : view'[d].known = view[d].known
  PROVE  KnownOf' = KnownOf
<1>1. streams' = streams /\ Stayers' = Stayers
  BY DEF streams, Stayers
<1>2. KnownOf' = [c \in Stayers |-> IF c \in streams THEN {} ELSE view'[c].known \ 0 .. 3]
  BY <1>1 DEF KnownOf
<1> QED BY <1>2 DEF KnownOf

LEMMA EffectShape ==
  ASSUME NEW X, Effect(X), NEW M, M = nodes',
         Shrinks(nodes, M) \/ SameHeld(nodes, M) \/ \E E : NewHeld(nodes, M, E)
  PROVE  Shape
<1>1. KnownOf' = KnownOf
  BY SameKnown DEF Effect
<1>2. Held' = {n \in Ids : n > FIRST_COMMON_ID /\ M[n].state # NONE}
  BY DEF Held
<1>3. Held \subseteq Held' \/ Held' \subseteq Held
  BY <1>2 DEF Held, Shrinks, SameHeld, NewHeld
<1> QED BY <1>1, <1>3 DEF Shape

LEMMA CommandOps ==
  ASSUME NodesInv, NEW c, NEW op, Command(c, op)
  PROVE  ops' \in 0 .. workload.ops
<1>1. workload.ops \in Nat
  BY NodesAssumption DEF NodesInv, Typed
<1>2. ops < workload.ops /\ ops' = ops + 1 /\ ops \in 0 .. workload.ops
  BY DEF Command, NodesInv, Typed
<1> QED BY <1>1, <1>2

(* A command of a client that creates no node.                             *)
LEMMA CommandEffect ==
  ASSUME NodesInv, NEW c, NEW op, Command(c, op), UNCHANGED last_id,
         view' \in [Clients -> ViewType], \A d \in Stayers : view'[d].known = view[d].known,
         NEW M, M = nodes', NEW X, ServerStep(nodes, M, X), SameHeld(nodes, M), Sends(X)
  PROVE  NodesInv' /\ Shape
<1>1. ops' \in 0 .. workload.ops
  BY CommandOps
<1>2. UNCHANGED <<workload, wire, acks, online, avatar_id, last_id>>
  BY DEF Command
<1>3. Unused' /\ Homes'
  <2>1. Unused'
    BY <1>2 DEF NodesInv, Unused, SameHeld
  <2>2. Homes'
    BY <1>2 DEF NodesInv, Homes
  <2> QED BY <2>1, <2>2
<1>4. Effect(X)
  BY <1>1, <1>2, <1>3 DEF Effect, NodesInv, Typed, InFlight
<1> QED BY <1>4, EffectInv, EffectShape

LEMMA QuietCommand ==
  ASSUME NodesInv, NEW c, NEW op, Command(c, op), UNCHANGED <<last_id, view>>,
         NEW M, M = nodes', NEW X, ServerStep(nodes, M, X), SameHeld(nodes, M), Sends(X)
  PROVE  NodesInv' /\ Shape
<1>1. view' \in [Clients -> ViewType] /\ \A d \in Stayers : view'[d].known = view[d].known
  BY DEF NodesInv, Typed
<1> QED BY <1>1, CommandEffect

-----------------------------------------------------------------------------
(* The actions, one by one.                                                *)

(* One command for the clients of a set.                                   *)
LEMMA SinglePush ==
  ASSUME NodesInv, NEW m \in Msgs, NEW S, Push([d \in Clients |-> To(S, d, <<m>>)]),
         NEW X, X = [d \in Clients |-> IF d \in S THEN {m} ELSE {}]
  PROVE  Sends(X) /\ SentTo(X, S, m)
<1>1. PICK out : out = [d \in Clients |-> To(S, d, <<m>>)]
  OBVIOUS
<1>2. ASSUME NEW d \in Clients PROVE out[d] \in Seq(Msgs) /\ ToSet(out[d]) = X[d]
  <2>1. PICK q : q = To(S, d, <<m>>)
    OBVIOUS
  <2>2. q \in Seq(Msgs) /\ ToSet(q) = IF d \in S THEN {m} ELSE {}
    BY <2>1, OneMessage
  <2> QED BY <1>1, <2>1, <2>2
<1>3. out \in [Clients -> Seq(Msgs)] /\ X = [d \in Clients |-> ToSet(out[d])]
  BY <1>1, <1>2
<1>4. PushClear(out, {}) /\ {} \intersect Stayers = {} /\ InFlight
  BY <1>1 DEF Push, NodesInv
<1>5. Sends(X)
  BY <1>3, <1>4, PushSends
<1> QED BY <1>5, StayersAre DEF SentTo

LEMMA PlainOne ==
  ASSUME NEW m, m.op # "NODE_CREATE", m.op # "NODE_DESTROY", NEW S, NEW X, SentTo(X, S, m)
  PROVE  AllPlain(X)
BY DEF SentTo, AllPlain, Plain

(* A change of the tree without create and destroy commands.               *)
LEMMA PlainCommand ==
  ASSUME NodesInv, NEW c, NEW op, Command(c, op), UNCHANGED <<last_id, view>>,
         NEW M, M = nodes', SameTree(nodes, M), NEW X, AllPlain(X), Sends(X)
  PROVE  NodesInv' /\ Shape
<1>1. Ready(nodes)
  BY DEF NodesInv
<1>2. ServerStep(nodes, M, X) /\ SameHeld(nodes, M)
  BY <1>1, StepSame
<1> QED BY <1>2, QuietCommand

LEMMA LockInv ==
  ASSUME NodesInv, NEW c \in Clients, NEW n \in Ids, HandleNodeLock(c, n)
  PROVE  NodesInv' /\ Shape
<1>1. nodes \in Trees
  BY DEF NodesInv, Ready
<1>2. PICK m, S : m = NodeLock(n, c) /\ S = Subs(nodes[n])
  OBVIOUS
<1>3. m \in Msgs /\ m.op = "NODE_LOCK"
  BY <1>2, CmdTypes DEF Users
<1>4. PICK X : X = [d \in Clients |-> IF d \in S THEN {m} ELSE {}]
  OBVIOUS
<1>5. Push([d \in Clients |-> To(S, d, <<m>>)])
  BY <1>2 DEF HandleNodeLock
<1>6. Sends(X) /\ SentTo(X, S, m)
  BY <1>3, <1>4, <1>5, SinglePush
<1>7. AllPlain(X)
  BY <1>3, <1>6, PlainOne
<1>8. PICK r, M : r = [nodes[n] EXCEPT !.lock = c] /\ M = nodes'
  OBVIOUS
<1>9. M = [nodes EXCEPT ![n] = r]
  BY <1>8 DEF HandleNodeLock
<1>10. Same(nodes[n], r)
  BY <1>1, <1>8, TreeNode, WithLock
<1>11. SameTree(nodes, M)
  BY <1>1, <1>9, <1>10, SameExcept
<1>12. Command(c, "NODE_LOCK") /\ UNCHANGED <<last_id, view>>
  BY DEF HandleNodeLock
<1> QED BY <1>6, <1>7, <1>8, <1>11, <1>12, PlainCommand

LEMMA UnlockInv ==
  ASSUME NodesInv, NEW c \in Clients, NEW n \in Ids, HandleNodeUnlock(c, n)
  PROVE  NodesInv' /\ Shape
<1>1. nodes \in Trees
  BY DEF NodesInv, Ready
<1>2. PICK m, S : m = NodeUnlock(n, c) /\ S = Subs(nodes[n])
  OBVIOUS
<1>3. m \in Msgs /\ m.op = "NODE_UNLOCK"
  BY <1>2, CmdTypes DEF Users
<1>4. PICK X : X = [d \in Clients |-> IF d \in S THEN {m} ELSE {}]
  OBVIOUS
<1>5. Push([d \in Clients |-> To(S, d, <<m>>)])
  BY <1>2 DEF HandleNodeUnlock
<1>6. Sends(X) /\ SentTo(X, S, m)
  BY <1>3, <1>4, <1>5, SinglePush
<1>7. AllPlain(X)
  BY <1>3, <1>6, PlainOne
<1>8. PICK r, M : r = [nodes[n] EXCEPT !.lock = NONE] /\ M = nodes'
  OBVIOUS
<1>9. M = [nodes EXCEPT ![n] = r]
  BY <1>8 DEF HandleNodeUnlock
<1>10. Same(nodes[n], r)
  BY <1>1, <1>8, TreeNode, WithLock
<1>11. SameTree(nodes, M)
  BY <1>1, <1>9, <1>10, SameExcept
<1>12. Command(c, "NODE_UNLOCK") /\ UNCHANGED <<last_id, view>>
  BY DEF HandleNodeUnlock
<1> QED BY <1>6, <1>7, <1>8, <1>11, <1>12, PlainCommand

LEMMA OwnerInv ==
  ASSUME NodesInv, NEW c \in Clients, NEW n \in Ids, NEW u \in Clients, HandleNodeOwner(c, n, u)
  PROVE  NodesInv' /\ Shape
<1>1. nodes \in Trees /\ u \in Users
  BY DEF NodesInv, Ready, Users
<1>2. PICK m, S : m = NodeOwner(n, u) /\ S = Followers(nodes[n])
  OBVIOUS
<1>3. m \in Msgs /\ m.op = "NODE_OWNER"
  BY <1>1, <1>2, CmdTypes
<1>4. PICK X : X = [d \in Clients |-> IF d \in S THEN {m} ELSE {}]
  OBVIOUS
<1>5. Push([d \in Clients |-> To(S, d, <<m>>)])
  BY <1>2 DEF HandleNodeOwner
<1>6. Sends(X) /\ SentTo(X, S, m)
  BY <1>3, <1>4, <1>5, SinglePush
<1>7. AllPlain(X)
  BY <1>3, <1>6, PlainOne
<1>8. PICK r, M : r = [nodes[n] EXCEPT !.owner = u] /\ M = nodes'
  OBVIOUS
<1>9. M = [nodes EXCEPT ![n] = r]
  BY <1>8 DEF HandleNodeOwner
<1>10. Same(nodes[n], r)
  BY <1>1, <1>8, TreeNode, WithOwner
<1>11. SameTree(nodes, M)
  BY <1>1, <1>9, <1>10, SameExcept
<1>12. Command(c, "NODE_OWNER") /\ UNCHANGED <<last_id, view>>
  BY DEF HandleNodeOwner
<1> QED BY <1>6, <1>7, <1>8, <1>11, <1>12, PlainCommand

LEMMA PrioInv ==
  ASSUME NodesInv, NEW c \in Clients, NEW n \in Ids, HandleNodePrio(c, n)
  PROVE  NodesInv' /\ Shape
<1>1. nodes \in Trees /\ InFlight
  BY DEF NodesInv, Ready
<1>2. PICK X : X = [d \in Clients |-> {}]
  OBVIOUS
<1>3. Sends(X)
  BY <1>1, <1>2, NothingSent DEF HandleNodePrio
<1>4. AllPlain(X)
  BY <1>2, StayersAre DEF AllPlain, Plain
<1>5. PICK M : M = nodes'
  OBVIOUS
<1>6. SameTree(nodes, M)
  <2>1. M = [k \in Ids |-> IF k \in Unsubscribed(n, c) THEN [nodes[k] EXCEPT !.subs[c] = "OTHER_PRIORITY"]
                           ELSE nodes[k]]
    BY <1>5 DEF HandleNodePrio
  <2>2. ASSUME NEW k \in Ids PROVE Same(nodes[k], M[k])
    <3>1. PICK e, v : e = nodes[k] /\ v = "OTHER_PRIORITY"
      OBVIOUS
    <3>2. e \in NodeType
      BY <1>1, <3>1, TreeNode
    <3>3. PICK r : r = [e EXCEPT !.subs[c] = v]
      OBVIOUS
    <3>4. v \in {NONE, "DEFAULT_PRIORITY", "OTHER_PRIORITY"}
      BY <3>1
    <3>5. Same(e, r)
      BY <3>2, <3>3, <3>4, WithSubsOf
    <3>6. Same(e, e)
      BY <3>2 DEF Same
    <3> QED BY <2>1, <3>1, <3>3, <3>5, <3>6
  <2>3. M \in Trees
    BY <2>1, <2>2 DEF Same, Trees
  <2> QED BY <2>2, <2>3 DEF SameTree
<1>7. Command(c, "NODE_PRIO") /\ UNCHANGED <<last_id, view>>
  BY DEF HandleNodePrio
<1> QED BY <1>3, <1>4, <1>5, <1>6, <1>7, PlainCommand

LEMMA DestroyInv ==
  ASSUME NodesInv, NEW c \in Clients, NEW n \in Ids, HandleNodeDestroy(c, n)
  PROVE  NodesInv' /\ Shape
<1>1. Ready(nodes)
  BY DEF NodesInv
<1>2. PICK m, S, e : m = NodeDestroy(n) /\ S = Destroyable(nodes[n]) /\ e = nodes[n]
  OBVIOUS
<1>3. m \in Msgs
  BY <1>2, CmdTypes
<1>4. PICK X : X = [d \in Clients |-> IF d \in S THEN {m} ELSE {}]
  OBVIOUS
<1>5. Push([d \in Clients |-> To(S, d, <<m>>)])
  BY <1>2 DEF HandleNodeDestroy
<1>6. Sends(X) /\ SentTo(X, S, m)
  BY <1>3, <1>4, <1>5, SinglePush
<1>7. SentTo(X, Destroyable(nodes[n]), NodeDestroy(n))
  BY <1>2, <1>6
<1>8. PICK r, M : r = vs_node_send_destroy(nodes[n]) /\ M = nodes'
  OBVIOUS
<1>9. M = [nodes EXCEPT ![n] = r]
  BY <1>8 DEF HandleNodeDestroy
<1>10. nodes[n].state # NONE
  <2>1. IsCreated(e)
    BY <1>2 DEF HandleNodeDestroy
  <2> QED BY <1>2, <2>1, CreatedHasState
<1>11. ServerStep(nodes, M, X) /\ SameHeld(nodes, M)
  BY <1>1, <1>7, <1>8, <1>9, <1>10, StepDestroy
<1>12. Command(c, "NODE_DESTROY") /\ UNCHANGED <<last_id, view>>
  BY DEF HandleNodeDestroy
<1> QED BY <1>6, <1>8, <1>11, <1>12, QuietCommand

LEMMA EmptyMsgs == <<>> \in Seq(Msgs) /\ ToSet(<<>>) = {}
<1>1. PICK m : m = 0
  OBVIOUS
<1>2. ToSet(<<m>>) = {m} /\ ToSet(<<>>) = {}
  BY SingleSet
<1> QED BY <1>2

(* The clients S are sent the commands q, and those of C the child nodes   *)
(* of node n.                                                              *)
DataOut(S, q, C, K, n) == [d \in Clients |-> To(S, d, q \o To(C, d, DataCmds(K, n, d)))]
SetsOf(out)            == [d \in Clients |-> ToSet(out[d])]
SetFor(S, q)           == [d \in Clients |-> IF d \in S THEN ToSet(q) ELSE {}]

LEMMA DataPush ==
  ASSUME NodesInv, NEW K \in Trees, NEW n \in Ids, NEW S, NEW C \in SUBSET Clients, C \subseteq S,
         NEW q \in Seq(Msgs), Plain(ToSet(q)),
         NEW out, out = DataOut(S, q, C, K, n), Push(out),
         NEW X, X = SetsOf(out), NEW Z, Z = SetFor(S, q)
  PROVE  Sends(X) /\ AllPlain(Z) /\ DataSent(X, Z, K, n, C)
<1>1. ASSUME NEW d \in Clients
      PROVE  /\ out[d] \in Seq(Msgs)
             /\ ToSet(out[d]) = Z[d] \union (IF d \in C THEN ToSet(DataCmds(K, n, d)) ELSE {})
  <2>1. PICK p : p = DataCmds(K, n, d)
    OBVIOUS
  <2>2. p \in Seq(Msgs)
    BY <2>1, DataCmdsType
  <2>3. PICK t : t = To(C, d, p)
    OBVIOUS
  <2>4. t \in Seq(Msgs) /\ ToSet(t) = IF d \in C THEN ToSet(p) ELSE {}
    <3>1. <<>> \in Seq(Msgs) /\ ToSet(<<>>) = {}
      BY EmptyMsgs
    <3> QED BY <2>2, <2>3, <3>1 DEF To
  <2>5. PICK w : w = q \o t
    OBVIOUS
  <2>6. w \in Seq(Msgs) /\ ToSet(w) = ToSet(q) \union ToSet(t)
    BY <2>4, <2>5, ConcatElements
  <2>7. out[d] = IF d \in S THEN w ELSE <<>>
    BY <2>1, <2>3, <2>5 DEF To, DataOut
  <2>8. Z[d] = IF d \in S THEN ToSet(q) ELSE {}
    BY DEF SetFor
  <2>9. CASE d \in S
    <3>1. out[d] = w /\ Z[d] = ToSet(q)
      BY <2>7, <2>8, <2>9
    <3> QED BY <2>1, <2>4, <2>6, <3>1
  <2>10. CASE d \notin S
    <3>1. out[d] = <<>> /\ Z[d] = {} /\ d \notin C
      BY <2>7, <2>8, <2>10
    <3>2. <<>> \in Seq(Msgs) /\ ToSet(<<>>) = {}
      BY EmptyMsgs
    <3> QED BY <3>1, <3>2
  <2> QED BY <2>9, <2>10
<1>2. out \in [Clients -> Seq(Msgs)]
  BY <1>1 DEF DataOut
<1>3. PushClear(out, {}) /\ {} \intersect Stayers = {} /\ InFlight
  BY DEF Push, NodesInv
<1>4. Sends(X)
  BY <1>2, <1>3, PushSends DEF SetsOf
<1>5. AllPlain(Z)
  BY StayersAre DEF AllPlain, Plain, SetFor
<1>6. DataSent(X, Z, K, n, C)
  BY <1>1, StayersAre DEF DataSent, SetsOf
<1> QED BY <1>4, <1>5, <1>6

LEMMA SubscribeInv ==
  ASSUME NodesInv, NEW c \in Clients, NEW n \in Ids, HandleNodeSubscribe(c, n)
  PROVE  NodesInv' /\ Shape
<1>1. nodes \in Trees /\ Ready(nodes)
  BY DEF NodesInv, Ready
<1>2. PICK e, v : e = nodes[n] /\ v = "DEFAULT_PRIORITY"
  OBVIOUS
<1>3. e \in NodeType
  BY <1>1, <1>2, TreeNode
<1>4. PICK r : r = [e EXCEPT !.subs[c] = v]
  OBVIOUS
<1>5. v \in {NONE, "DEFAULT_PRIORITY", "OTHER_PRIORITY"}
  BY <1>2
<1>6. Same(e, r)
  BY <1>3, <1>4, <1>5, WithSubsOf
<1>7. PICK K : K = [nodes EXCEPT ![n] = r]
  OBVIOUS
<1>8. SameTree(nodes, K)
  BY <1>1, <1>2, <1>6, <1>7, SameExcept
<1>9. K \in Trees
  BY <1>8 DEF SameTree
<1>10. K = [nodes EXCEPT ![n].subs[c] = "DEFAULT_PRIORITY"]
  BY <1>2, <1>4, <1>7
<1>11. PICK C, S : C = {c} \intersect {d \in Clients : vs_node_can_read(d, e)} /\ S = {c}
  OBVIOUS
<1>12. C \in SUBSET Clients /\ C \subseteq S
  BY <1>11
<1>13. PICK q : q = IF e.lock = NONE THEN <<>> ELSE <<NodeLock(n, e.lock)>>
  OBVIOUS
<1>14. q \in Seq(Msgs) /\ Plain(ToSet(q))
  <2>1. CASE e.lock = NONE
    <3>1. q = <<>> /\ ToSet(<<>>) = {} /\ <<>> \in Seq(Msgs)
      BY <1>13, <2>1, EmptyMsgs
    <3> QED BY <3>1 DEF Plain
  <2>2. CASE e.lock # NONE
    <3>1. PICK m : m = NodeLock(n, e.lock)
      OBVIOUS
    <3>2. e.lock \in Users
      BY <1>3, <2>2, NodeFields DEF Users
    <3>3. m \in Msgs /\ m.op = "NODE_LOCK"
      BY <3>1, <3>2, CmdTypes
    <3>4. q = <<m>> /\ ToSet(<<m>>) = {m} /\ <<m>> \in Seq(Msgs)
      BY <1>13, <2>2, <3>1, <3>3, SingleSet
    <3> QED BY <3>3, <3>4 DEF Plain
  <2> QED BY <2>1, <2>2
<1>15. PICK out : out = DataOut(S, q, C, K, n)
  OBVIOUS
<1>16. Push(out)
  <2>1. Push([d \in Clients |-> To(S, d, q \o To(C, c, DataCmds(K, n, c)))])
    BY <1>2, <1>10, <1>11, <1>13 DEF HandleNodeSubscribe
  <2>2. \A d \in Clients : To(S, d, q \o To(C, c, DataCmds(K, n, c))) = To(S, d, q \o To(C, d, DataCmds(K, n, d)))
    <3>1. \A d \in Clients : d \in S <=> d = c
      BY <1>11
    <3> QED BY <3>1 DEF To
  <2>3. out = [d \in Clients |-> To(S, d, q \o To(C, c, DataCmds(K, n, c)))]
    BY <1>15, <2>2 DEF DataOut
  <2> QED BY <2>1, <2>3
<1>17. PICK X, Z : X = SetsOf(out) /\ Z = SetFor(S, q)
  OBVIOUS
<1>18. Sends(X) /\ AllPlain(Z) /\ DataSent(X, Z, K, n, C)
  BY <1>9, <1>12, <1>14, <1>15, <1>16, <1>17, DataPush
<1>19. PICK M : M = nodes'
  OBVIOUS
<1>20. M = vs_node_send_data(K, n, C)
  BY <1>2, <1>10, <1>11, <1>19 DEF HandleNodeSubscribe
<1>21. ServerStep(nodes, M, X) /\ SameHeld(nodes, M)
  BY <1>1, <1>8, <1>12, <1>18, <1>20, StepData
<1>22. Command(c, "NODE_SUBSCRIBE") /\ UNCHANGED <<last_id, view>>
  BY DEF HandleNodeSubscribe
<1> QED BY <1>18, <1>19, <1>21, <1>22, QuietCommand

LEMMA PermInv ==
  ASSUME NodesInv, NEW c \in Clients, NEW n \in Ids, NEW u \in Clients \union {OTHER_USERS}, NEW p \in Perms,
         HandleNodePerm(c, n, u, p)
  PROVE  NodesInv' /\ Shape
<1>1. nodes \in Trees /\ Ready(nodes) /\ u \in Users /\ p \in Rights
  BY NodesAssumption DEF NodesInv, Ready, Users, Rights
<1>2. PICK e : e = nodes[n]
  OBVIOUS
<1>3. e \in NodeType
  BY <1>1, <1>2, TreeNode
<1>4. PICK e1 : e1 = vs_node_set_perm(e, u, p)
  OBVIOUS
<1>5. Same(e, e1)
  BY <1>1, <1>3, <1>4, SetPermType
<1>6. e1 \in NodeType
  BY <1>5 DEF Same
<1> DEFINE lost == e.lock # NONE /\ ~vs_node_can_write(e.lock, e1)
<1>7. PICK v : v = IF lost THEN NONE ELSE e1.lock
  OBVIOUS
<1>8. v \in Clients \union {NONE}
  BY <1>6, <1>7, NodeFields
<1>9. PICK r : r = [e1 EXCEPT !.lock = v]
  OBVIOUS
<1>10. Same(e1, r)
  BY <1>6, <1>8, <1>9, WithLock
<1>11. Same(e, r)
  BY <1>5, <1>10, SameTrans
<1>12. PICK K : K = [nodes EXCEPT ![n] = r]
  OBVIOUS
<1>13. SameTree(nodes, K)
  BY <1>1, <1>2, <1>11, <1>12, SameExcept
<1>14. K \in Trees
  BY <1>13 DEF SameTree
<1>15. PICK C, S : /\ C = IF "READ" \in p \ vs_node_get_perm(e, u)
                          THEN {d \in Subs(e) : u \in {d, OTHER_USERS}} ELSE {}
                   /\ S = Subs(e)
  OBVIOUS
<1>16. C \in SUBSET Clients /\ C \subseteq S
  BY <1>15 DEF Subs
<1>17. PICK q : q = IF lost THEN <<NodeUnlock(n, e.lock)>> ELSE <<>>
  OBVIOUS
<1>18. q \in Seq(Msgs) /\ Plain(ToSet(q))
  <2>1. CASE ~lost
    <3>1. q = <<>> /\ ToSet(<<>>) = {} /\ <<>> \in Seq(Msgs)
      BY <1>17, <2>1, EmptyMsgs
    <3> QED BY <3>1 DEF Plain
  <2>2. CASE lost
    <3>1. PICK m : m = NodeUnlock(n, e.lock)
      OBVIOUS
    <3>2. e.lock \in Users
      BY <1>3, <2>2, NodeFields DEF Users
    <3>3. m \in Msgs /\ m.op = "NODE_UNLOCK"
      BY <3>1, <3>2, CmdTypes
    <3>4. q = <<m>> /\ ToSet(<<m>>) = {m} /\ <<m>> \in Seq(Msgs)
      BY <1>17, <2>2, <3>1, <3>3, SingleSet
    <3> QED BY <3>3, <3>4 DEF Plain
  <2> QED BY <2>1, <2>2
<1>19. PICK out : out = DataOut(S, q, C, K, n)
  OBVIOUS
<1>20. nodes' = vs_node_send_data(K, n, C) /\ Push(out)
  BY <1>2, <1>4, <1>7, <1>9, <1>12, <1>15, <1>17, <1>19 DEF HandleNodePerm, DataOut
<1>21. PICK X, Z : X = SetsOf(out) /\ Z = SetFor(S, q)
  OBVIOUS
<1>22. Sends(X) /\ AllPlain(Z) /\ DataSent(X, Z, K, n, C)
  BY <1>14, <1>16, <1>18, <1>19, <1>20, <1>21, DataPush
<1>23. PICK M : M = nodes'
  OBVIOUS
<1>24. M = vs_node_send_data(K, n, C)
  BY <1>20, <1>23
<1>25. ServerStep(nodes, M, X) /\ SameHeld(nodes, M)
  BY <1>1, <1>13, <1>16, <1>22, <1>24, StepData
<1>26. Command(c, "NODE_PERM") /\ UNCHANGED <<last_id, view>>
  BY DEF HandleNodePerm
<1> QED BY <1>22, <1>23, <1>25, <1>26, QuietCommand

LEMMA LinkInv ==
  ASSUME NodesInv, NEW c \in Clients, NEW p \in Ids, NEW n \in Ids, HandleLinkChange(c, p, n)
  PROVE  NodesInv' /\ Shape
<1>1. nodes \in Trees /\ Ready(nodes)
  BY DEF NodesInv, Ready
<1>2. PICK e, old, u : e = nodes[n] /\ old = nodes[n].parent /\ u = nodes[n].owner
  OBVIOUS
<1>3. e \in NodeType /\ u \in Users /\ old \in Ids /\ p # old
  <2>1. e \in NodeType /\ u \in Users /\ old \in Ids \union {NoNode}
    BY <1>1, <1>2, TreeNode, NodeFields
  <2>2. old # NoNode /\ p # old
    BY <1>2 DEF HandleLinkChange
  <2> QED BY <2>1, <2>2
<1>4. PICK C1 : C1 = {d \in Subs(nodes[old]) : vs_node_can_read(d, nodes[old])} \union Followers(e)
  OBVIOUS
<1>5. PICK C2 : C2 = {d \in Subs(nodes[p]) \ C1 : vs_node_can_read(d, nodes[p])}
  OBVIOUS
<1>6. C2 \in SUBSET Clients
  BY <1>5 DEF Subs
<1>7. PICK N1 : N1 = [nodes EXCEPT ![old].children = Only(@, Ids \ {n}), ![p].children = Append(@, n), ![n].parent = p]
  OBVIOUS
<1>8. SameTree(nodes, N1)
  BY <1>1, <1>3, <1>7, MovedType
<1>9. N1 \in Trees
  BY <1>8 DEF SameTree
<1>10. PICK K : K = vs_link_update_child(N1, p, n)
  OBVIOUS
<1>11. SameTree(N1, K)
  BY <1>9, <1>10, UpdateChildType
<1>12. SameTree(nodes, K)
  BY <1>8, <1>11, SameTreeTrans
<1>13. PICK r, M : r = vs_node_send_create(K[n], p, C2) /\ M = nodes'
  OBVIOUS
<1>14. PICK m, k : m = NodeLink(p, n) /\ k = NodeCreate(n, p, u)
  OBVIOUS
<1>15. m \in Msgs /\ m.op = "NODE_LINK" /\ k \in Msgs
  BY <1>3, <1>14, CmdTypes
<1>16. PICK out : out = [d \in Clients |-> To(C1, d, <<m>>) \o To(Untold(e, C2), d, <<k>>)]
  OBVIOUS
<1>17. M = [K EXCEPT ![n] = r] /\ Push(out)
  <2>1. nodes' = [K EXCEPT ![n] = vs_node_send_create(@, p, C2)] /\ Push(out)
    BY <1>2, <1>4, <1>5, <1>7, <1>10, <1>14, <1>16 DEF HandleLinkChange
  <2> QED BY <1>13, <2>1
<1>18. PICK X, Z : X = [d \in Clients |-> ToSet(out[d])] /\ Z = [d \in Clients |-> IF d \in C1 THEN {m} ELSE {}]
  OBVIOUS
<1>19. ASSUME NEW d \in Clients
       PROVE  out[d] \in Seq(Msgs) /\ ToSet(out[d]) = Z[d] \union (IF d \in Untold(e, C2) THEN {k} ELSE {})
  <2>1. PICK a, b, S : a = To(C1, d, <<m>>) /\ b = To(S, d, <<k>>) /\ S = Untold(e, C2)
    OBVIOUS
  <2>2. a \in Seq(Msgs) /\ ToSet(a) = IF d \in C1 THEN {m} ELSE {}
    BY <1>15, <2>1, OneMessage
  <2>3. b \in Seq(Msgs) /\ ToSet(b) = IF d \in S THEN {k} ELSE {}
    BY <1>15, <2>1, OneMessage
  <2>4. a \o b \in Seq(Msgs) /\ ToSet(a \o b) = ToSet(a) \union ToSet(b)
    BY <2>2, <2>3, ConcatElements
  <2>5. out[d] = a \o b
    BY <1>16, <2>1
  <2>6. Z[d] = ToSet(a)
    BY <1>18, <2>2
  <2> QED BY <2>1, <2>3, <2>4, <2>5, <2>6
<1>20. Sends(X)
  <2>1. out \in [Clients -> Seq(Msgs)]
    BY <1>16, <1>19
  <2>2. PushClear(out, {}) /\ {} \intersect Stayers = {} /\ InFlight
    BY <1>17 DEF Push, NodesInv
  <2> QED BY <1>18, <2>1, <2>2, PushSends
<1>21. AllPlain(Z)
  BY <1>15, <1>18, StayersAre DEF AllPlain, Plain
<1>22. CreateSent(X, Z, C2, K[n], NodeCreate(n, p, u))
  <2>1. K[n].state = e.state /\ K[n].folls = e.folls
    BY <1>2, <1>12 DEF SameTree, Same
  <2>2. \A d \in Clients : d \in Untold(e, C2) <=> d \in C2 /\ IsCreated(K[n]) /\ AllDeleting(K[n].folls[d])
    BY <2>1 DEF Untold, IsCreated, AllDeleting
  <2>3. \A d \in Stayers : X[d] = Z[d] \union (IF d \in Untold(e, C2) THEN {k} ELSE {})
    BY <1>18, <1>19, StayersAre
  <2> QED BY <1>14, <2>2, <2>3, StayersAre DEF CreateSent
<1>23. ServerStep(nodes, M, X) /\ SameHeld(nodes, M)
  BY <1>1, <1>3, <1>6, <1>12, <1>13, <1>17, <1>21, <1>22, StepCreate
<1>24. Command(c, "NODE_LINK") /\ UNCHANGED <<last_id, view>>
  BY DEF HandleLinkChange
<1> QED BY <1>13, <1>20, <1>23, <1>24, QuietCommand

(* Ids that are given out.                                                 *)
LEMMA NextId ==
  ASSUME NodesInv, NEW n, n = last_id + 1 \/ n = last_id + 2, n <= workload.nodes
  PROVE  n \in Ids /\ n > last_id /\ n > FIRST_COMMON_ID /\ nodes[n].state = NONE
<1>1. last_id \in Ids /\ last_id >= FIRST_COMMON_ID /\ workload \in Workloads
  BY DEF NodesInv, Typed
<1>2. workload.nodes \in 0 .. MaxNode /\ MaxNode \in Nat
  BY <1>1, NodesAssumption
<1>3. last_id \in Nat /\ FIRST_COMMON_ID = 4
  BY <1>1, IdFacts DEF FIRST_COMMON_ID
<1>4. n \in Nat /\ n <= MaxNode /\ n > last_id /\ n > FIRST_COMMON_ID
  <2>1. PICK w \in Nat : w = workload.nodes /\ w <= MaxNode
    BY <1>2
  <2>2. n <= w
    BY <2>1
  <2> QED BY <1>1, <1>2, <1>3, <2>1, <2>2
<1>5. n \in Ids
  BY <1>2, <1>4 DEF Ids
<1> QED BY <1>4, <1>5 DEF NodesInv, Unused

LEMMA CreateInv ==
  ASSUME NodesInv, NEW c \in Clients, HandleNodeCreate(c)
  PROVE  NodesInv' /\ Shape
<1>1. PICK n, a, C : n = last_id + 1 /\ a = avatar_id[c] /\ C = Subs(nodes[a])
  OBVIOUS
<1>2. Command(c, "NODE_CREATE") /\ n <= workload.nodes /\ last_id' = n /\ UNCHANGED view
  BY <1>1 DEF HandleNodeCreate
<1>3. n \in Ids /\ n > last_id /\ n > FIRST_COMMON_ID /\ nodes[n].state = NONE
  BY <1>1, <1>2, NextId
<1>4. a \in Ids
  BY <1>1, <1>2 DEF Command, NodesInv, Homes
<1>5. Ready(nodes) /\ c \in Users /\ C \in SUBSET Clients
  BY <1>1 DEF NodesInv, Users, Subs
<1>6. PICK K, M : K = vs_node_create_linked(nodes, a, n, c, CREATING) /\ M = nodes'
  OBVIOUS
<1>7. M = [K EXCEPT ![n] = vs_node_send_create(vs_node_set_perm(@, OTHER_USERS, DefaultPerm), a, C)]
  BY <1>1, <1>6 DEF HandleNodeCreate
<1>8. PICK m : m = NodeCreate(n, a, c)
  OBVIOUS
<1>9. m \in Msgs
  BY <1>3, <1>4, <1>5, <1>8, CmdTypes
<1>10. PICK X : X = [d \in Clients |-> IF d \in C THEN {m} ELSE {}]
  OBVIOUS
<1>11. Push([d \in Clients |-> To(C, d, <<m>>)])
  BY <1>1, <1>8 DEF HandleNodeCreate
<1>12. Sends(X) /\ SentTo(X, C, m)
  BY <1>9, <1>10, <1>11, SinglePush
<1>13. SentTo(X, C, NodeCreate(n, a, c))
  BY <1>8, <1>12
<1>14. ServerStep(nodes, M, X) /\ NewHeld(nodes, M, {n})
  BY <1>3, <1>4, <1>5, <1>6, <1>7, <1>13, StepNodeCreate
<1>15. UNCHANGED <<workload, wire, acks, online, avatar_id>>
  BY <1>2 DEF Command
<1>16. ops' \in 0 .. workload.ops
  BY <1>2, CommandOps
<1>17. Unused' /\ Homes'
  <2>1. ASSUME NEW k \in Ids, k > n \/ k = FIRST_COMMON_ID PROVE M[k].state = NONE
    <3>1. k # n /\ (k > last_id \/ k = FIRST_COMMON_ID)
      <4>1. k \in Nat /\ n \in Nat /\ last_id \in Nat /\ FIRST_COMMON_ID \in Nat
        BY <1>3, <2>1, IdFacts DEF NodesInv, Typed, FIRST_COMMON_ID
      <4> QED BY <1>3, <2>1, <4>1
    <3>2. nodes[k].state = NONE
      BY <3>1 DEF NodesInv, Unused
    <3> QED BY <1>14, <3>1, <3>2 DEF NewHeld
  <2>2. Unused'
    BY <1>2, <1>6, <2>1 DEF Unused
  <2>3. Homes'
    BY <1>15 DEF NodesInv, Homes
  <2> QED BY <2>2, <2>3
<1>18. last_id' \in Ids /\ last_id' >= FIRST_COMMON_ID
  BY <1>2, <1>3, IdFacts DEF FIRST_COMMON_ID
<1>19. Effect(X)
  BY <1>2, <1>6, <1>12, <1>14, <1>15, <1>16, <1>17, <1>18 DEF Effect, NodesInv, Typed, InFlight
<1> QED BY <1>6, <1>14, <1>19, EffectInv, EffectShape

LEMMA ConnectInv ==
  ASSUME NodesInv, NEW c \in Clients, Connect(c)
  PROVE  NodesInv' /\ Shape
<1>1. PICK a, b, C, s : /\ a = last_id + 1 /\ b = a + 1 /\ C = Subs(nodes[AVATARS])
                        /\ s = IF C = {} THEN CREATED ELSE CREATING
  OBVIOUS
<1>2. last_id' = b /\ UNCHANGED <<workload, wire, acks, view, ops>> /\ last_id + 2 <= workload.nodes
  BY <1>1 DEF Connect
<1>3. last_id \in Nat /\ b = last_id + 2 /\ b <= workload.nodes
  <2>1. last_id \in Nat
    BY IdFacts DEF NodesInv, Typed
  <2>2. b = last_id + 2
    BY <1>1, <2>1
  <2> QED BY <1>2, <2>1, <2>2
<1>4. b \in Ids /\ b > last_id /\ b > FIRST_COMMON_ID /\ nodes[b].state = NONE
  BY <1>2, <1>3, NextId
<1>5. a <= workload.nodes
  <2>1. PICK w : w = workload.nodes
    OBVIOUS
  <2>2. w \in 0 .. MaxNode
    BY <2>1, NodesAssumption DEF NodesInv, Typed
  <2> QED BY <1>1, <1>2, <1>3, <2>1, <2>2
<1>6. a \in Ids /\ a > last_id /\ a > FIRST_COMMON_ID /\ nodes[a].state = NONE
  BY <1>1, <1>5, NextId
<1>7. a # b
  BY <1>1, <1>3
<1>8. Ready(nodes) /\ C \in SUBSET Clients /\ s \in {CREATING, CREATED} /\ AVATARS \in Ids /\ SUPER_USER \in Users
  BY <1>1, IdFacts DEF NodesInv, Subs, Users
<1>9. PICK N1 : N1 = vs_node_create_linked(nodes, AVATARS, a, SUPER_USER, s)
  OBVIOUS
<1>10. PICK e : e = AvatarPerm(N1[a], c)
  OBVIOUS
<1>11. PICK N2 : N2 = [N1 EXCEPT ![a] = e]
  OBVIOUS
<1>12. PICK N3, M : N3 = vs_node_create_linked(N2, a, b, SUPER_USER, CREATED) /\ M = nodes'
  OBVIOUS
<1>13. M = AvatarSent(N3, a, b, C)
  BY <1>1, <1>9, <1>10, <1>11, <1>12 DEF Connect, AvatarPerm, AvatarSent
<1>14. PICK m : m = NodeCreate(a, AVATARS, SUPER_USER)
  OBVIOUS
<1>15. m \in Msgs
  BY <1>6, <1>8, <1>14, CmdTypes
<1>16. PICK X : X = [d \in Clients |-> IF d \in C THEN {m} ELSE {}]
  OBVIOUS
<1>17. Push([d \in Clients |-> To(C, d, <<m>>)])
  BY <1>1, <1>14 DEF Connect
<1>18. Sends(X) /\ SentTo(X, C, m)
  BY <1>15, <1>16, <1>17, SinglePush
<1>19. SentTo(X, C, NodeCreate(a, AVATARS, SUPER_USER))
  BY <1>14, <1>18
<1>20. ServerStep(nodes, M, X) /\ NewHeld(nodes, M, {a, b})
  <2> HIDE <1>1
  <2> QED BY <1>4, <1>6, <1>7, <1>8, <1>9, <1>10, <1>11, <1>12, <1>13, <1>19, StepConnect
<1>21. Unused'
  <2>1. ASSUME NEW k \in Ids, k > b \/ k = FIRST_COMMON_ID PROVE M[k].state = NONE
    <3>1. k \notin {a, b} /\ (k > last_id \/ k = FIRST_COMMON_ID)
      <4>1. k \in Nat /\ FIRST_COMMON_ID = 4
        BY <2>1, IdFacts DEF FIRST_COMMON_ID
      <4> QED BY <1>1, <1>3, <1>4, <1>6, <2>1, <4>1
    <3>2. nodes[k].state = NONE
      BY <3>1 DEF NodesInv, Unused
    <3> QED BY <1>20, <3>1, <3>2 DEF NewHeld
  <2> QED BY <1>2, <1>12, <2>1 DEF Unused
<1>22. avatar_id' = [avatar_id EXCEPT ![c] = a] /\ online' = online \union {c}
  BY <1>1 DEF Connect
<1>23. avatar_id' \in [Clients -> Ids \union {NoNode}] /\ online' \in SUBSET Clients /\ Homes'
  <2>1. avatar_id \in [Clients -> Ids \union {NoNode}] /\ online \in SUBSET Clients
    BY DEF NodesInv, Typed
  <2>2. \A d \in online' : avatar_id'[d] \in Ids
    BY <1>6, <1>22, <2>1 DEF NodesInv, Homes
  <2>3. Homes'
    BY <2>2 DEF Homes
  <2> QED BY <1>6, <1>22, <2>1, <2>3
<1>24. last_id' \in Ids /\ last_id' >= FIRST_COMMON_ID
  BY <1>2, <1>4, IdFacts DEF FIRST_COMMON_ID
<1>25. Effect(X)
  BY <1>2, <1>12, <1>18, <1>20, <1>21, <1>23, <1>24 DEF Effect, NodesInv, Typed, InFlight
<1> QED BY <1>12, <1>20, <1>25, EffectInv, EffectShape

LEMMA UnsubscribeInv ==
  ASSUME NodesInv, NEW c \in Clients, NEW n \in Ids, HandleNodeUnsubscribe(c, n)
  PROVE  NodesInv' /\ Shape
<1>1. nodes \in Trees /\ Ready(nodes) /\ InFlight
  BY DEF NodesInv, Ready
<1>2. PICK X, S, M : X = [d \in Clients |-> {}] /\ S = Unsubscribed(n, c) /\ M = nodes'
  OBVIOUS
<1>3. Sends(X)
  BY <1>1, <1>2, NothingSent DEF HandleNodeUnsubscribe
<1>4. AllPlain(X)
  BY <1>2, StayersAre DEF AllPlain, Plain
<1>5. c \notin Stayers
  BY DEF HandleNodeUnsubscribe, Stayers
<1>6. PICK K : K = [k \in Ids |->
          IF k \notin S THEN nodes[k]
          ELSE [nodes[k] EXCEPT !.subs[c] = NONE,
                                !.folls[c] = IF k = n \/ @ = <<>> THEN @ ELSE Tail(@)]]
  OBVIOUS
<1>7. M = FreeSub(K, S, c)
  BY <1>2, <1>6 DEF HandleNodeUnsubscribe
<1>8. ASSUME NEW k \in Ids PROVE SameBut(c, nodes[k], K[k])
  <2>1. PICK e, b : e = nodes[k] /\ b = (k = n)
    OBVIOUS
  <2>2. e \in NodeType /\ b \in BOOLEAN
    BY <1>1, <2>1, TreeNode
  <2>3. PICK r : r = [e EXCEPT !.subs[c] = NONE, !.folls[c] = IF b \/ @ = <<>> THEN @ ELSE Tail(@)]
    OBVIOUS
  <2>4. SameBut(c, e, r)
    BY <2>2, <2>3, UnsubscribedType
  <2>5. SameBut(c, e, e)
    <3>1. Same(e, e)
      BY <2>2 DEF Same
    <3> QED BY <3>1, SameButSame
  <2>6. K[k] = IF k \notin S THEN e ELSE r
    BY <1>6, <2>1, <2>3
  <2> QED BY <2>1, <2>4, <2>5, <2>6
<1>9. K \in Trees
  BY <1>6, <1>8 DEF SameBut, Trees
<1>10. OnlyOf(c, nodes, K)
  BY <1>8, <1>9 DEF OnlyOf
<1>11. OnlyOf(c, K, M)
  BY <1>7, <1>9, FreeSubType
<1>12. OnlyOf(c, nodes, M)
  BY <1>10, <1>11, OnlyOfTrans
<1>13. ServerStep(nodes, M, X) /\ SameHeld(nodes, M)
  BY <1>1, <1>4, <1>5, <1>12, StepOnlyOf
<1>14. view' \in [Clients -> ViewType] /\ \A d \in Stayers : view'[d].known = view[d].known
  <2>1. PICK w, v : w = view[c] /\ v = {k \in w.known : k = n \/ ~Below(nodes, k, n)}
    OBVIOUS
  <2>2. w \in ViewType /\ view \in [Clients -> ViewType]
    BY <2>1 DEF NodesInv, Typed
  <2>3. v \in SUBSET Ids
    BY <2>1, <2>2 DEF ViewType
  <2>4. PICK u : u = [w EXCEPT !.known = v]
    OBVIOUS
  <2>5. u \in ViewType
    BY <2>2, <2>3, <2>4 DEF ViewType
  <2>6. view' = [view EXCEPT ![c] = u]
    BY <2>1, <2>4 DEF HandleNodeUnsubscribe
  <2> QED BY <1>5, <2>2, <2>5, <2>6
<1>15. Command(c, "NODE_UNSUBSCRIBE") /\ UNCHANGED last_id
  BY DEF HandleNodeUnsubscribe
<1> QED BY <1>2, <1>3, <1>13, <1>14, <1>15, CommandEffect
-----------------------------------------------------------------------------
(* The end of a session: the commands that the other clients are sent.     *)
UnlockSet(D, c) == {NodeUnlock(n, c) : n \in D}
DestroySet(D)   == {NodeDestroy(n) : n \in D}

LEMMA IdsFinite == IsFiniteSet(Ids)
<1>1. 0 \in Int /\ MaxNode \in Int
  BY IdFacts
<1>2. IsFiniteSet(0 .. MaxNode)
  BY <1>1, FS_Interval
<1> QED BY <1>2 DEF Ids

LEMMA UnlocksType ==
  ASSUME NEW D \in SUBSET Ids, NEW c \in Clients, NEW q, q = SetToSeq(UnlockSet(D, c))
  PROVE  q \in Seq(Msgs) /\ ToSet(q) = UnlockSet(D, c) /\ Plain(UnlockSet(D, c))
<1> DEFINE f == [n \in D |-> NodeUnlock(n, c)]
<1>1. PICK T : T = UnlockSet(D, c)
  OBVIOUS
<1>2. T \subseteq Msgs /\ Plain(T)
  <2>1. \A n \in D : NodeUnlock(n, c) \in Msgs /\ NodeUnlock(n, c).op = "NODE_UNLOCK"
    BY CmdTypes DEF Users
  <2> QED BY <1>1, <2>1 DEF UnlockSet, Plain
<1>3. IsFiniteSet(T)
  <2>1. IsFiniteSet(D)
    BY IdsFinite, FS_Subset
  <2>2. f \in Surjection(D, T)
    BY <1>1 DEF UnlockSet, Surjection
  <2> HIDE DEF f
  <2> QED BY <2>1, <2>2, FS_Surjection
<1>4. SetToSeq(T) \in Seq(T) /\ ToSet(SetToSeq(T)) = T
  BY <1>3, SetToSeqElements
<1>5. q \in Seq(Msgs)
  BY <1>1, <1>2, <1>4
<1> QED BY <1>1, <1>2, <1>4, <1>5

LEMMA DestroysType ==
  ASSUME NEW D \in SUBSET Ids, NEW q, q = SetToSeq(DestroySet(D))
  PROVE  q \in Seq(Msgs) /\ ToSet(q) = DestroySet(D)
<1> DEFINE f == [n \in D |-> NodeDestroy(n)]
<1>1. PICK T : T = DestroySet(D)
  OBVIOUS
<1>2. T \subseteq Msgs
  <2>1. \A n \in D : NodeDestroy(n) \in Msgs
    BY CmdTypes
  <2> QED BY <1>1, <2>1 DEF DestroySet
<1>3. IsFiniteSet(T)
  <2>1. IsFiniteSet(D)
    BY IdsFinite, FS_Subset
  <2>2. f \in Surjection(D, T)
    BY <1>1 DEF DestroySet, Surjection
  <2> HIDE DEF f
  <2> QED BY <2>1, <2>2, FS_Surjection
<1>4. SetToSeq(T) \in Seq(T) /\ ToSet(SetToSeq(T)) = T
  BY <1>3, SetToSeqElements
<1>5. q \in Seq(Msgs)
  BY <1>1, <1>2, <1>4
<1> QED BY <1>1, <1>4, <1>5

(* Nothing of client c is left.                                            *)
Released(N, c) ==
  FreeSub([n \in Ids |-> IF N[n].state # NONE /\ Below(N, n, ROOT)
             THEN vs_free_avatar_reference(N[n], c) ELSE N[n]], Ids, c)

LEMMA ReleasedType ==
  ASSUME NEW N \in Trees, NEW c \in Clients, NEW K, K = Released(N, c)
  PROVE  OnlyOf(c, N, K)
<1>1. PICK L : L = [n \in Ids |-> IF N[n].state # NONE /\ Below(N, n, ROOT)
                                  THEN vs_free_avatar_reference(N[n], c) ELSE N[n]]
  OBVIOUS
<1>2. ASSUME NEW n \in Ids PROVE SameBut(c, N[n], L[n])
  <2>1. PICK e : e = N[n]
    OBVIOUS
  <2>2. e \in NodeType
    BY <2>1, TreeNode
  <2>3. SameBut(c, e, vs_free_avatar_reference(e, c))
    BY <2>2, AvatarReferenceType
  <2>4. SameBut(c, e, e)
    <3>1. Same(e, e)
      BY <2>2 DEF Same
    <3> QED BY <3>1, SameButSame
  <2>5. L[n] = e \/ L[n] = vs_free_avatar_reference(e, c)
    BY <1>1, <2>1
  <2> QED BY <2>1, <2>3, <2>4, <2>5
<1>3. L \in Trees
  BY <1>1, <1>2 DEF SameBut, Trees
<1>4. OnlyOf(c, N, L)
  BY <1>2, <1>3 DEF OnlyOf
<1>5. K = FreeSub(L, Ids, c)
  BY <1>1 DEF Released
<1>6. OnlyOf(c, L, K)
  BY <1>3, <1>5, FreeSubType
<1> QED BY <1>4, <1>6, OnlyOfTrans

LEMMA DisconnectInv ==
  ASSUME NodesInv, NEW c \in Clients, Disconnect(c)
  PROVE  NodesInv' /\ Shape
<1>1. nodes \in Trees /\ Ready(nodes) /\ InFlight
  BY DEF NodesInv, Ready
<1>2. PICK K, a, M : K = Released(nodes, c) /\ a = avatar_id[c] /\ M = nodes'
  OBVIOUS
<1>3. OnlyOf(c, nodes, K)
  BY <1>1, <1>2, ReleasedType
<1>4. Ready(K) /\ SameHeld(nodes, K) /\ \A k \in Ids, d \in Clients : d # c => K[k].folls[d] = nodes[k].folls[d]
  BY <1>1, <1>3, OnlyOfReady
<1>5. M = vs_node_destroy_branch(K, a)
  BY <1>2 DEF Disconnect, Released, Exists
<1>6. PICK U : U = [d \in Clients |-> {n \in Ids : nodes[n].lock = c /\ K[n].lock = NONE /\ d \in Subs(K[n])}]
  OBVIOUS
<1>7. PICK T : T = [d \in Clients |-> {n \in Ids : Below(K, n, a) /\ K[n].state # NONE /\ Fates(K)[n] = "waits"
                                                    /\ d \in Destroyable(K[n])}]
  OBVIOUS
<1>8. PICK out : out = [d \in Clients |-> SetToSeq(UnlockSet(U[d], c)) \o SetToSeq(DestroySet(T[d]))]
  OBVIOUS
<1>9. PushClear(out, {c})
  <2>1. \A d \in Clients : /\ U[d] = {n \in Ids : nodes[n].lock = c /\ K[n].lock = NONE /\ d \in Subs(K[n])}
                           /\ T[d] = {n \in Ids : Below(K, n, a) /\ K[n].state # NONE /\ Fates(K)[n] = "waits"
                                                    /\ d \in Destroyable(K[n])}
    BY <1>6, <1>7
  <2>2. PushClear([d \in Clients |-> SetToSeq(UnlockSet(U[d], c)) \o SetToSeq(DestroySet(T[d]))], {c})
    BY <1>2, <2>1 DEF Disconnect, Released, Exists, UnlockSet, DestroySet
  <2> QED BY <1>8, <2>2
<1>10. PICK Z, X : Z = [d \in Clients |-> UnlockSet(U[d], c)] /\ X = [d \in Clients |-> ToSet(out[d])]
  OBVIOUS
<1>11. ASSUME NEW d \in Clients
       PROVE  out[d] \in Seq(Msgs) /\ X[d] = Z[d] \union DestroySet(T[d]) /\ Plain(Z[d])
  <2>1. PICK A, B : A = U[d] /\ B = T[d]
    OBVIOUS
  <2>2. A \in SUBSET Ids /\ B \in SUBSET Ids
    BY <1>6, <1>7, <2>1
  <2>3. PICK p, q : p = SetToSeq(UnlockSet(A, c)) /\ q = SetToSeq(DestroySet(B))
    OBVIOUS
  <2>4. p \in Seq(Msgs) /\ ToSet(p) = UnlockSet(A, c) /\ Plain(UnlockSet(A, c))
    BY <2>2, <2>3, UnlocksType
  <2>5. q \in Seq(Msgs) /\ ToSet(q) = DestroySet(B)
    BY <2>2, <2>3, DestroysType
  <2>6. p \o q \in Seq(Msgs) /\ ToSet(p \o q) = ToSet(p) \union ToSet(q)
    BY <2>4, <2>5, ConcatElements
  <2>7. out[d] = p \o q /\ Z[d] = UnlockSet(A, c) /\ X[d] = ToSet(out[d])
    BY <1>8, <1>10, <2>1, <2>3
  <2> QED BY <2>1, <2>4, <2>5, <2>6, <2>7
<1>12. c \notin Stayers /\ {c} \intersect Stayers = {}
  BY DEF Disconnect, Stayers
<1>13. Sends(X)
  <2>1. out \in [Clients -> Seq(Msgs)]
    BY <1>8, <1>11
  <2> QED BY <1>1, <1>9, <1>10, <1>12, <2>1, PushSends
<1>14. AllPlain(Z)
  BY <1>11, StayersAre DEF AllPlain
<1>15. BranchSent(X, Z, K, a)
  <2>1. ASSUME NEW d \in Stayers
        PROVE  X[d] = Z[d] \union
          {NodeDestroy(n) : n \in {n \in Ids : Below(K, n, a) /\ K[n].state # NONE /\ Fates(K)[n] = "waits"
                                                /\ d \in Destroyable(K[n])}}
    <3>1. d \in Clients
      BY StayersAre
    <3>2. X[d] = Z[d] \union DestroySet(T[d])
      BY <1>11, <3>1
    <3>3. T[d] = {n \in Ids : Below(K, n, a) /\ K[n].state # NONE /\ Fates(K)[n] = "waits"
                                                    /\ d \in Destroyable(K[n])}
      BY <1>7, <3>1
    <3> QED BY <3>2, <3>3 DEF DestroySet
  <2> QED BY <2>1 DEF BranchSent
<1>16. ServerStep(K, M, X) /\ Shrinks(K, M)
  BY <1>4, <1>5, <1>14, <1>15, StepBranch
<1>17. ServerStep(nodes, M, X) /\ Shrinks(nodes, M)
  <2>1. \A k \in Ids, d \in Stayers : K[k].folls[d] = nodes[k].folls[d]
    BY <1>4, <1>12, StayersAre
  <2>2. ServerStep(nodes, M, X)
    BY <1>16, <2>1 DEF ServerStep
  <2> QED BY <1>4, <1>16, <2>2 DEF Shrinks, SameHeld
<1>18. UNCHANGED <<last_id, avatar_id, workload, ops>> /\ online' = online \ {c}
       /\ wire' = [wire EXCEPT ![c] = <<>>] /\ acks' = [acks EXCEPT ![c] = {}] /\ view' = [view EXCEPT ![c] = EmptyView]
  BY DEF Disconnect
<1>19. wire' \in [Clients -> Seq(Msgs)] /\ acks' \in [Clients -> SUBSET FakeMsgs]
       /\ \A d \in Stayers : acks'[d] = acks[d]
  BY <1>1, <1>12, <1>18, StayersAre, EmptyMsgs DEF InFlight
<1>20. view' \in [Clients -> ViewType] /\ \A d \in Stayers : view'[d].known = view[d].known
  <2>1. EmptyView \in ViewType
    BY DEF EmptyView, ViewType
  <2>2. view \in [Clients -> ViewType]
    BY DEF NodesInv, Typed
  <2> QED BY <1>12, <1>18, <2>1, <2>2, StayersAre
<1>21. Unused' /\ Homes'
  <2>1. Unused'
    BY <1>2, <1>17, <1>18 DEF NodesInv, Unused, Shrinks
  <2>2. Homes'
    BY <1>18 DEF NodesInv, Homes
  <2> QED BY <2>1, <2>2
<1>22. Effect(X)
  BY <1>2, <1>13, <1>17, <1>18, <1>19, <1>20, <1>21 DEF Effect, NodesInv, Typed
<1> QED BY <1>2, <1>17, <1>22, EffectInv, EffectShape

-----------------------------------------------------------------------------
(* Acknowledgements.                                                       *)

(* Client c is sent the commands o, and nobody else.                       *)
SentOnly(X, c, o) == \A d \in Stayers : X[d] = IF d = c THEN o ELSE {}

(* After the acknowledgement m of node n.                                  *)
ToldAfter(c, m, n, G, o) ==
  c \in Stayers \ streams => Told(G, net[c] \union o, acks[c] \ {m}, view[c].known, n)

LEMMA AckInv ==
  ASSUME NodesInv, NEW c \in Clients, NEW n \in Ids, NEW m, m.node = n, Acked(c, m),
         NEW M, M = nodes', NEW G, AckStep(nodes, M, c, n, G), Shrinks(nodes, M),
         NEW o, o \subseteq {NodeDestroy(n)}, NEW X, SentOnly(X, c, o), Sends(X), ToldAfter(c, m, n, G, o)
  PROVE  NodesInv' /\ Shape
<1>1. /\ UNCHANGED <<last_id, avatar_id, online, workload, wire, view, ops>>
      /\ acks' = [acks EXCEPT ![c] = acks[c] \ {m}]
  BY DEF Acked
<1>2. acks \in [Clients -> SUBSET FakeMsgs]
  BY DEF NodesInv, InFlight
<1>3. streams' = streams /\ Stayers' = Stayers
  BY <1>1 DEF streams, Stayers
<1>4. ASSUME NEW d \in Stayers \ streams, NEW k \in Ids
      PROVE  Told(nodes'[k].folls[d], net'[d], acks'[d], view'[d].known, k)
  <2>1. PICK F, H, I, A, B, V : /\ F = nodes[k].folls[d] /\ H = net[d] /\ I = net'[d]
                                /\ A = acks[d] /\ B = acks'[d] /\ V = view[d].known
    OBVIOUS
  <2>2. d \in Clients /\ view'[d].known = V
    BY <1>1, <2>1, StayersAre
  <2>3. Told(F, H, A, V, k)
    BY <2>1 DEF NodesInv, Informed
  <2>4. I = H \union (IF d = c THEN o ELSE {})
    BY <2>1 DEF Sends, SentOnly
  <2>5. B = IF d = c THEN A \ {m} ELSE A
    BY <1>1, <1>2, <2>1, <2>2
  <2>6. CASE k = n /\ d = c
    <3>1. nodes'[k].folls[d] = G
      BY <2>6 DEF AckStep
    <3>2. Told(G, H \union o, A \ {m}, V, k)
      BY <2>1, <2>6 DEF ToldAfter
    <3>3. I = H \union o /\ B = A \ {m}
      BY <2>4, <2>5, <2>6
    <3> QED BY <2>1, <2>2, <3>1, <3>2, <3>3
  <2>7. CASE k # n \/ d # c
    <3>1. nodes'[k].folls[d] = F
      BY <2>1, <2>2, <2>7 DEF AckStep
    <3>2. CASE d # c
      <4>1. I = H /\ B = A
        BY <2>4, <2>5, <3>2
      <4> QED BY <2>1, <2>2, <2>3, <3>1, <4>1
    <3>3. CASE k # n /\ d = c
      <4>1. \A j \in Ids : NodeDestroy(j).op = "NODE_DESTROY" /\ NodeDestroy(j).node = j
                           /\ NodeCreateAck(j).node = j /\ NodeDestroyAck(j).node = j
        BY FakeMsgFields
      <4>2. NodeDestroy(k) \notin o /\ \A x \in o : x.op = "NODE_DESTROY"
        BY <3>3, <4>1
      <4>3. m # NodeCreateAck(k) /\ m # NodeDestroyAck(k)
        BY <3>3, <4>1
      <4>4. I = H \union o /\ B = A \ {m}
        BY <2>4, <2>5, <3>3
      <4>5. Alike(H, I, A, B, V, V, k)
        BY <4>2, <4>3, <4>4 DEF Alike
      <4>6. Told(F, I, B, V, k)
        BY <2>3, <4>5, ToldAlike
      <4> QED BY <2>1, <2>2, <3>1, <4>6
    <3> QED BY <2>7, <3>2, <3>3
  <2> QED BY <2>6, <2>7
<1>5. Informed'
  BY <1>3, <1>4 DEF Informed
<1>6. Ready(nodes)'
  BY DEF AckStep
<1>7. Unused' /\ Homes'
  BY <1>1 DEF NodesInv, Unused, Homes, Shrinks
<1>8. acks' \in [Clients -> SUBSET FakeMsgs]
  BY <1>1, <1>2
<1>9. Typed' /\ InFlight'
  BY <1>1, <1>8 DEF Sends, NodesInv, Typed, InFlight
<1>10. Shape
  <2>1. KnownOf' = KnownOf
    BY <1>1, SameKnown
  <2>2. Held' \subseteq Held
    BY DEF Held, Shrinks
  <2> QED BY <2>1, <2>2 DEF Shape
<1> QED BY <1>5, <1>6, <1>7, <1>9, <1>10 DEF NodesInv

(* The fields of an acknowledgement.                                       *)
LEMMA AckFields ==
  ASSUME NodesInv, NEW c \in Clients, NEW m, Acked(c, m)
  PROVE  /\ m.node \in Ids /\ m.op \in FakeOps /\ m \in acks[c]
         /\ m.op = "NODE_CREATE_ACK" => m = NodeCreateAck(m.node)
         /\ m.op = "NODE_DESTROY_ACK" => m = NodeDestroyAck(m.node)
<1>1. m \in FakeMsgs /\ m \in acks[c]
  BY DEF Acked, NodesInv, InFlight
<1> QED BY <1>1 DEF FakeMsgs, NodeCreateAck, NodeDestroyAck, Cmd

(* What the server believes of a client that stays.                        *)
LEMMA ToldOf ==
  ASSUME NodesInv, NEW c \in Stayers \ streams, NEW n \in Ids, NEW F, F = nodes[n].folls[c]
  PROVE  Told(F, net[c], acks[c], view[c].known, n)
BY DEF NodesInv, Informed

LEMMA DestroyAckInv ==
  ASSUME NodesInv, NEW c \in Clients, NEW m, HandleNodeDestroyAck(c, m)
  PROVE  NodesInv' /\ Shape
<1>1. Acked(c, m) /\ m.op = "NODE_DESTROY_ACK" /\ UNCHANGED <<net, out_queue>>
  BY DEF HandleNodeDestroyAck
<1>2. PICK n : n = m.node
  OBVIOUS
<1>3. n \in Ids /\ m = NodeDestroyAck(n) /\ m \in acks[c]
  BY <1>1, <1>2, AckFields
<1>4. Ready(nodes) /\ nodes \in Trees /\ InFlight
  BY DEF NodesInv, Ready
<1>5. PICK X, o : X = [d \in Clients |-> {}] /\ o = {}
  OBVIOUS
<1>6. Sends(X)
  BY <1>1, <1>4, <1>5, NothingSent
<1>7. SentOnly(X, c, o) /\ o \subseteq {NodeDestroy(n)}
  BY <1>5, StayersAre DEF SentOnly
<1>8. PICK F, M : F = nodes[n].folls[c] /\ M = nodes'
  OBVIOUS
<1>9. F \in Seq(FollType)
  BY <1>3, <1>4, <1>8, TreeNode, FollsOf
<1>10. PICK G : G = Dropped(F)
  OBVIOUS
<1>11. ASSUME c \in Stayers \ streams PROVE F # <<>> /\ Told(G, net[c], acks[c] \ {m}, view[c].known, n)
  <2>1. PICK H, A, B, V, t : H = net[c] /\ A = acks[c] /\ B = A \ {m} /\ V = view[c].known /\ t = Tail(F)
    OBVIOUS
  <2>2. Told(F, H, A, V, n)
    BY <1>3, <1>8, <1>11, <2>1, ToldOf
  <2>3. B = A \ {NodeDestroyAck(n)} /\ NodeDestroyAck(n) \in A
    BY <1>3, <2>1
  <2>4. F # <<>> /\ Told(t, H, B, V, n)
    BY <1>9, <2>1, <2>2, <2>3, ToldDestroyAck
  <2>5. G = t
    BY <1>10, <2>1, <2>4 DEF Dropped
  <2> QED BY <2>1, <2>4, <2>5
<1>12. CASE nodes[n].state = NONE
  <2>1. M = nodes
    BY <1>2, <1>8, <1>12 DEF HandleNodeDestroyAck
  <2>2. F = <<>>
    BY <1>3, <1>4, <1>8, <1>12 DEF Ready
  <2>3. AckStep(nodes, M, c, n, F) /\ Shrinks(nodes, M)
    BY <1>4, <1>8, <2>1 DEF AckStep, Shrinks
  <2>4. ToldAfter(c, m, n, F, o)
    BY <1>11, <2>2 DEF ToldAfter
  <2> QED BY <1>1, <1>2, <1>3, <1>6, <1>7, <1>8, <2>3, <2>4, AckInv
<1>13. CASE nodes[n].state # NONE
  <2>1. M = DestroyAcked(nodes, c, n, G)
    BY <1>2, <1>8, <1>10, <1>13 DEF HandleNodeDestroyAck, DestroyAcked, FollsSet, StateSet, Dropped
  <2>2. AckStep(nodes, M, c, n, G) /\ Shrinks(nodes, M)
    BY <1>3, <1>4, <1>8, <1>10, <1>13, <2>1, DestroyAckStep
  <2>3. ToldAfter(c, m, n, G, o)
    <3>1. net[c] \union o = net[c]
      BY <1>5
    <3> QED BY <1>11, <3>1 DEF ToldAfter
  <2> QED BY <1>1, <1>2, <1>3, <1>6, <1>7, <1>8, <2>2, <2>3, AckInv
<1> QED BY <1>12, <1>13

LEMMA CreateAckInv ==
  ASSUME NodesInv, NEW c \in Clients, NEW m, HandleNodeCreateAck(c, m)
  PROVE  NodesInv' /\ Shape
<1>1. Acked(c, m) /\ m.op = "NODE_CREATE_ACK"
  BY DEF HandleNodeCreateAck
<1>2. PICK n, e : n = m.node /\ e = nodes[m.node]
  OBVIOUS
<1>3. n \in Ids /\ m = NodeCreateAck(n) /\ m \in acks[c] /\ e = nodes[n]
  BY <1>1, <1>2, AckFields
<1>4. Ready(nodes) /\ nodes \in Trees /\ InFlight
  BY DEF NodesInv, Ready
<1>5. PICK k, S : k = NodeDestroy(n) /\ S = IF Late(e, c) THEN {c} ELSE {}
  OBVIOUS
<1>6. k \in Msgs
  BY <1>3, <1>5, CmdTypes
<1>7. PICK X, o : X = [d \in Clients |-> IF d \in S THEN {k} ELSE {}] /\ o = IF Late(e, c) THEN {k} ELSE {}
  OBVIOUS
<1>8. Push([d \in Clients |-> To(S, d, <<k>>)])
  BY <1>2, <1>5 DEF HandleNodeCreateAck
<1>9. Sends(X) /\ SentTo(X, S, k)
  BY <1>6, <1>7, <1>8, SinglePush
<1>10. SentOnly(X, c, o) /\ o \subseteq {NodeDestroy(n)}
  BY <1>5, <1>7, <1>9 DEF SentOnly, SentTo
<1>11. PICK F, M : F = nodes[n].folls[c] /\ M = nodes'
  OBVIOUS
<1>12. F \in Seq(FollType)
  BY <1>3, <1>4, <1>11, TreeNode, FollsOf
<1>13. PICK v : v = IF Late(e, c) THEN DELETING ELSE CREATED
  OBVIOUS
<1>14. v \in {CREATED, DELETING} /\ (v = DELETING <=> Late(e, c))
  BY <1>13, StatesDiffer
<1>15. PICK G : G = Confirmed(F, v)
  OBVIOUS
<1>16. ASSUME c \in Stayers \ streams
       PROVE  F # <<>> /\ Told(G, net[c] \union o, acks[c] \ {m}, view[c].known, n)
  <2>1. PICK H, I, A, B, V : H = net[c] /\ I = H \union o /\ A = acks[c] /\ B = A \ {m} /\ V = view[c].known
    OBVIOUS
  <2>2. Told(F, H, A, V, n)
    BY <1>3, <1>11, <1>16, <2>1, ToldOf
  <2>3. B = A \ {NodeCreateAck(n)} /\ NodeCreateAck(n) \in A
    BY <1>3, <2>1
  <2>4. I = H \union (IF v = DELETING THEN {NodeDestroy(n)} ELSE {})
    BY <1>5, <1>7, <1>14, <2>1
  <2>5. Told(G, I, B, V, n)
    BY <1>12, <1>14, <1>15, <2>2, <2>3, <2>4, ToldCreateAck
  <2>6. F # <<>>
    BY <2>2, <2>3, ToldHeld
  <2> QED BY <2>1, <2>5, <2>6
<1>17. CASE nodes[n].state = NONE
  <2>1. M = nodes
    BY <1>2, <1>3, <1>11, <1>17 DEF HandleNodeCreateAck
  <2>2. F = <<>>
    BY <1>3, <1>4, <1>11, <1>17 DEF Ready
  <2>3. AckStep(nodes, M, c, n, F) /\ Shrinks(nodes, M)
    BY <1>4, <1>11, <2>1 DEF AckStep, Shrinks
  <2>4. ToldAfter(c, m, n, F, o)
    BY <1>16, <2>2 DEF ToldAfter
  <2> QED BY <1>1, <1>2, <1>3, <1>9, <1>10, <1>11, <2>3, <2>4, AckInv
<1>18. CASE nodes[n].state # NONE
  <2>1. PICK s : s = IF \A d \in Clients \ {c} : \A i \in DOMAIN e.folls[d] : e.folls[d][i].state = CREATED
                     THEN CREATED ELSE e.state
    OBVIOUS
  <2>2. s \in NodeStates /\ s # NONE
    <3>1. e.state \in NodeStates /\ e.state # NONE
      BY <1>3, <1>4, <1>18, TreeNode, NodeFields
    <3>2. CREATED \in NodeStates /\ CREATED # NONE
      BY StatesDiffer DEF NodeStates
    <3> QED BY <2>1, <3>1, <3>2
  <2>3. M = StateSet(nodes, c, n, G, s)
    <3> DEFINE own == [i \in DOMAIN nodes[m.node].folls[c] |->
                 IF nodes[m.node].folls[c][i].state = CREATING
                   THEN [nodes[m.node].folls[c][i] EXCEPT !.state = IF Late(nodes[m.node], c) THEN DELETING ELSE CREATED]
                   ELSE nodes[m.node].folls[c][i]]
               all == \A d \in Clients \ {c} : \A i \in DOMAIN nodes[m.node].folls[d] :
                        nodes[m.node].folls[d][i].state = CREATED
    <3>1. nodes' = IF nodes[m.node].state = NONE THEN nodes
                   ELSE [nodes EXCEPT ![m.node].folls[c] = own,
                                      ![m.node].state = IF all THEN CREATED ELSE nodes[m.node].state]
      BY DEF HandleNodeCreateAck
    <3>2. G = own
      BY <1>2, <1>3, <1>11, <1>13, <1>15 DEF Confirmed
    <3>3. s = IF all THEN CREATED ELSE nodes[m.node].state
      BY <1>2, <2>1
    <3> HIDE DEF own, all
    <3>4. M = [nodes EXCEPT ![n].folls[c] = G, ![n].state = s]
      BY <1>2, <1>11, <1>18, <3>1, <3>2, <3>3
    <3> QED BY <3>4 DEF StateSet, FollsSet
  <2>4. G \in Seq(FollType)
    BY <1>12, <1>14, <1>15, ConfirmedType
  <2>5. AckStep(nodes, M, c, n, G) /\ SameHeld(nodes, M)
    BY <1>3, <1>4, <1>18, <2>2, <2>3, <2>4, FollsReplaced
  <2>6. Shrinks(nodes, M)
    BY <2>5 DEF Shrinks, SameHeld
  <2>7. ToldAfter(c, m, n, G, o)
    BY <1>16 DEF ToldAfter
  <2> QED BY <1>1, <1>2, <1>3, <1>9, <1>10, <1>11, <2>5, <2>6, <2>7, AckInv
<1> QED BY <1>17, <1>18

-----------------------------------------------------------------------------
(* Delivery.                                                               *)

(* Only streams have a queue and a wire.                                   *)
StreamsOnly == \A c \in Clients \ streams : out_queue[c] = <<>> /\ wire[c] = <<>>

LEMMA DatagramInv ==
  ASSUME NodesInv, NEW c \in Clients, NEW m, DeliverDatagram(c, m)
  PROVE  NodesInv' /\ Shape
<1>1. /\ m \in net[c] /\ UNCHANGED <<nodes, last_id, avatar_id, online, workload, out_queue, wire, ops>>
      /\ net' = [net EXCEPT ![c] = net[c] \ {m}]
      /\ acks' = [acks EXCEPT ![c] = acks[c] \union v_cmd_fake_ack(m)]
      /\ view' = [view EXCEPT ![c] = Learned(view[c], m)]
  BY DEF DeliverDatagram
<1>2. /\ net \in [Clients -> SUBSET Msgs] /\ acks \in [Clients -> SUBSET FakeMsgs]
      /\ view \in [Clients -> ViewType]
  BY DEF NodesInv, InFlight, Typed
<1>3. m \in Msgs
  BY <1>1, <1>2
<1>4. v_cmd_fake_ack(m) \subseteq FakeMsgs
  BY <1>3, FakeAckOf
<1>5. PICK w, V : w = Learned(view[c], m) /\ V = view[c].known
  OBVIOUS
<1>6. w \in ViewType /\ w.known = KnownAfter(V, m)
  BY <1>2, <1>3, <1>5, LearnedType
<1>7. net' \in [Clients -> SUBSET Msgs] /\ acks' \in [Clients -> SUBSET FakeMsgs] /\ view' \in [Clients -> ViewType]
  BY <1>1, <1>2, <1>4, <1>5, <1>6
<1>8. streams' = streams /\ Stayers' = Stayers
  BY <1>1 DEF streams, Stayers
<1>9. ASSUME NEW d \in Stayers \ streams, NEW k \in Ids
      PROVE  Told(nodes'[k].folls[d], net'[d], acks'[d], view'[d].known, k)
  <2>1. PICK F, H, A, U : F = nodes[k].folls[d] /\ H = net[d] /\ A = acks[d] /\ U = view[d].known
    OBVIOUS
  <2>2. Told(F, H, A, U, k) /\ nodes'[k].folls[d] = F /\ d \in Clients
    BY <1>1, <2>1, StayersAre DEF NodesInv, Informed
  <2>3. CASE d # c
    <3>1. net'[d] = H /\ acks'[d] = A /\ view'[d].known = U
      BY <1>1, <1>2, <2>1, <2>2, <2>3
    <3> QED BY <2>2, <3>1
  <2>4. CASE d = c
    <3>1. PICK I, B, W : I = H \ {m} /\ B = A \union v_cmd_fake_ack(m) /\ W = KnownAfter(U, m)
      OBVIOUS
    <3>2. H \in SUBSET Msgs /\ m \in H
      BY <1>1, <1>2, <2>1, <2>4
    <3>3. Told(F, I, B, W, k)
      BY <2>2, <3>1, <3>2, ToldDelivered
    <3>4. net'[d] = I /\ acks'[d] = B
      BY <1>1, <1>2, <2>1, <2>4, <3>1
    <3>5. view'[d].known = W
      BY <1>1, <1>2, <1>5, <1>6, <2>1, <2>4, <3>1
    <3> QED BY <2>2, <3>3, <3>4, <3>5
  <2> QED BY <2>3, <2>4
<1>10. NodesInv'
  <2>1. Informed'
    BY <1>8, <1>9 DEF Informed
  <2>2. Typed' /\ InFlight' /\ Unused' /\ Homes'
    BY <1>1, <1>7 DEF NodesInv, Typed, InFlight, Unused, Homes
  <2>3. Ready(nodes)'
    BY <1>1 DEF NodesInv
  <2> QED BY <2>1, <2>2, <2>3 DEF NodesInv
<1>11. Shape
  <2>1. Held' = Held
    BY <1>1 DEF Held
  <2>2. CASE c \notin Stayers \ streams \/ w.known = V
    <3>1. \A d \in Stayers \ streams : view'[d].known = view[d].known
      <4>1. TAKE d \in Stayers \ streams
      <4>2. d \in Clients
        BY StayersAre
      <4> QED BY <1>1, <1>2, <1>5, <2>2, <4>2
    <3>2. KnownOf' = KnownOf
      BY <1>1, <3>1, SameKnown
    <3> QED BY <2>1, <3>2 DEF Shape
  <2>3. CASE c \in Stayers \ streams /\ w.known # V
    <3>1. PICK n : n = m.node
      OBVIOUS
    <3>2. n \in Ids
      BY <1>3, <3>1 DEF Msgs
    <3>3. KnownOf' = [d \in Stayers |-> IF d \in streams THEN {} ELSE view'[d].known \ 0 .. 3]
      BY <1>8 DEF KnownOf
    <3>4. \A d \in Stayers : view'[d].known = IF d = c THEN w.known ELSE view[d].known
      BY <1>1, <1>2, <1>5, StayersAre
    <3>5. KnownOf' = [KnownOf EXCEPT ![c] = w.known \ 0 .. 3]
      BY <2>3, <3>3, <3>4 DEF KnownOf
    <3>6. KnownOf[c] = V \ 0 .. 3
      BY <1>5, <2>3 DEF KnownOf
    <3>7. \/ w.known = V \union {n}
          \/ w.known = V \ {n}
      BY <1>6, <2>3, <3>1 DEF KnownAfter
    <3>8. CASE w.known = V \ {n}
      <4>1. w.known \ 0 .. 3 = KnownOf[c] \ {n}
        BY <3>6, <3>8
      <4>2. KnownOf' = [KnownOf EXCEPT ![c] = KnownOf[c] \ {n}]
        BY <3>5, <4>1
      <4> QED BY <2>1, <2>3, <3>2, <4>2 DEF Shape
    <3>9. CASE w.known = V \union {n} /\ n \in 0 .. 3
      <4>1. w.known \ 0 .. 3 = KnownOf[c]
        BY <3>6, <3>9
      <4>2. KnownOf' = KnownOf
        BY <3>5, <4>1 DEF KnownOf
      <4> QED BY <2>1, <4>2 DEF Shape
    <3>10. CASE w.known = V \union {n} /\ n \notin 0 .. 3
      <4>1. w.known \ 0 .. 3 = KnownOf[c] \union {n}
        BY <3>6, <3>10
      <4>2. KnownOf' = [KnownOf EXCEPT ![c] = KnownOf[c] \union {n}]
        BY <3>5, <4>1
      <4>3. n \in view'[c].known
        BY <2>3, <3>4, <3>10
      <4> QED BY <2>1, <2>3, <3>2, <3>10, <4>2, <4>3 DEF Shape
    <3> QED BY <3>7, <3>8, <3>9, <3>10
  <2> QED BY <2>2, <2>3
<1> QED BY <1>10, <1>11

(* Steps of a stream, of which the invariant says nothing but the types.   *)
LEMMA StreamStep ==
  ASSUME NodesInv, UNCHANGED <<nodes, last_id, avatar_id, online, workload, net, ops>>,
         out_queue' \in [Clients -> Seq(Msgs)], wire' \in [Clients -> Seq(Msgs)],
         acks' \in [Clients -> SUBSET FakeMsgs], view' \in [Clients -> ViewType],
         \A d \in Stayers \ streams : acks'[d] = acks[d] /\ view'[d].known = view[d].known
  PROVE  NodesInv' /\ Shape
<1>1. PICK X, M : X = [d \in Clients |-> {}] /\ M = nodes'
  OBVIOUS
<1>2. Ready(nodes) /\ SameTree(nodes, M)
  <2>1. Ready(nodes) /\ nodes \in Trees /\ M = nodes
    BY <1>1 DEF NodesInv, Ready
  <2> QED BY <2>1, SameSelf
<1>3. AllPlain(X)
  BY <1>1, StayersAre DEF AllPlain, Plain
<1>4. ServerStep(nodes, M, X) /\ SameHeld(nodes, M)
  BY <1>2, <1>3, StepSame
<1>5. Sends(X)
  BY <1>1, StayersAre DEF Sends, NodesInv, InFlight
<1>6. Unused' /\ Homes'
  BY DEF NodesInv, Unused, Homes
<1>7. Effect(X)
  BY <1>1, <1>4, <1>5, <1>6 DEF Effect, NodesInv, Typed
<1> QED BY <1>1, <1>4, <1>7, EffectInv, EffectShape

LEMMA SendStreamInv ==
  ASSUME NodesInv, StreamsOnly, NEW c \in Clients, SendStream(c)
  PROVE  NodesInv' /\ Shape
<1>1. PICK q, m, t : q = out_queue[c] /\ m = Head(q) /\ t = Tail(q)
  OBVIOUS
<1>2. /\ q # <<>> /\ UNCHANGED <<nodes, last_id, avatar_id, online, workload, net, view, ops>>
      /\ wire' = [wire EXCEPT ![c] = Append(wire[c], m)]
      /\ acks' = [acks EXCEPT ![c] = acks[c] \union v_cmd_fake_ack(m)]
      /\ out_queue' = [out_queue EXCEPT ![c] = t]
  BY <1>1 DEF SendStream
<1>3. /\ out_queue \in [Clients -> Seq(Msgs)] /\ wire \in [Clients -> Seq(Msgs)]
      /\ acks \in [Clients -> SUBSET FakeMsgs] /\ view \in [Clients -> ViewType]
  BY DEF NodesInv, InFlight, Typed
<1>4. m \in Msgs /\ t \in Seq(Msgs)
  <2>1. q \in Seq(Msgs)
    BY <1>1, <1>3
  <2> QED BY <1>1, <1>2, <2>1, TailElements
<1>5. v_cmd_fake_ack(m) \subseteq FakeMsgs
  BY <1>4, FakeAckOf
<1>6. Append(wire[c], m) \in Seq(Msgs)
  BY <1>3, <1>4, AppendProperties
<1>7. /\ out_queue' \in [Clients -> Seq(Msgs)] /\ wire' \in [Clients -> Seq(Msgs)]
      /\ acks' \in [Clients -> SUBSET FakeMsgs]
  BY <1>2, <1>3, <1>4, <1>5, <1>6
<1>8. c \in streams
  BY <1>1, <1>2 DEF StreamsOnly
<1>9. \A d \in Stayers \ streams : acks'[d] = acks[d] /\ view'[d].known = view[d].known
  BY <1>2, <1>3, <1>8, StayersAre
<1>10. view' \in [Clients -> ViewType]
  BY <1>2, <1>3
<1> QED BY <1>2, <1>7, <1>9, <1>10, StreamStep

LEMMA DeliverStreamInv ==
  ASSUME NodesInv, StreamsOnly, NEW c \in Clients, DeliverStream(c)
  PROVE  NodesInv' /\ Shape
<1>1. PICK q, m, t : q = wire[c] /\ m = Head(q) /\ t = Tail(q)
  OBVIOUS
<1>2. /\ q # <<>> /\ UNCHANGED <<nodes, last_id, avatar_id, online, workload, net, out_queue, acks, ops>>
      /\ wire' = [wire EXCEPT ![c] = t]
      /\ view' = [view EXCEPT ![c] = Learned(view[c], m)]
  BY <1>1 DEF DeliverStream
<1>3. /\ out_queue \in [Clients -> Seq(Msgs)] /\ wire \in [Clients -> Seq(Msgs)]
      /\ acks \in [Clients -> SUBSET FakeMsgs] /\ view \in [Clients -> ViewType]
  BY DEF NodesInv, InFlight, Typed
<1>4. m \in Msgs /\ t \in Seq(Msgs)
  <2>1. q \in Seq(Msgs)
    BY <1>1, <1>3
  <2> QED BY <1>1, <1>2, <2>1, TailElements
<1>5. PICK w, u : w = view[c] /\ u = Learned(w, m)
  OBVIOUS
<1>6. u \in ViewType
  BY <1>3, <1>4, <1>5, LearnedType
<1>7. view' \in [Clients -> ViewType] /\ wire' \in [Clients -> Seq(Msgs)]
  BY <1>2, <1>3, <1>4, <1>5, <1>6
<1>8. c \in streams
  BY <1>1, <1>2 DEF StreamsOnly
<1>9. \A d \in Stayers \ streams : acks'[d] = acks[d] /\ view'[d].known = view[d].known
  BY <1>2, <1>3, <1>8, StayersAre
<1>10. out_queue' \in [Clients -> Seq(Msgs)] /\ acks' \in [Clients -> SUBSET FakeMsgs]
  BY <1>2, <1>3
<1> QED BY <1>2, <1>7, <1>9, <1>10, StreamStep

-----------------------------------------------------------------------------
(* Only streams are queued for and have a wire.                            *)

LEMMA QueuedOnly ==
  ASSUME StreamsOnly, UNCHANGED <<workload, wire>>, NEW out, Push(out)
  PROVE  StreamsOnly'
<1>1. streams' = streams
  BY DEF streams
<1>2. \A c \in Clients \ streams : out_queue'[c] = out_queue[c]
  BY DEF Push, PushClear
<1> QED BY <1>1, <1>2 DEF StreamsOnly

LEMMA NoneQueued ==
  ASSUME StreamsOnly, UNCHANGED <<workload, wire, out_queue>>
  PROVE  StreamsOnly'
BY DEF StreamsOnly, streams

LEMMA CommandStreams ==
  ASSUME StreamsOnly, NEW c \in Clients, ClientCommand(c)
  PROVE  StreamsOnly'
<1>1. \A op : Command(c, op) => UNCHANGED <<workload, wire>>
  BY DEF Command
<1>2. CASE HandleNodeCreate(c)
  BY <1>1, <1>2, QueuedOnly DEF HandleNodeCreate
<1>3. ASSUME NEW n \in Ids,
             \/ HandleNodeDestroy(c, n)
             \/ HandleNodeSubscribe(c, n)
             \/ HandleNodeUnsubscribe(c, n)
             \/ HandleNodePrio(c, n)
             \/ HandleNodeLock(c, n)
             \/ HandleNodeUnlock(c, n)
             \/ \E p \in Ids : HandleLinkChange(c, p, n)
             \/ \E u \in Clients : HandleNodeOwner(c, n, u)
             \/ \E u \in Clients \union {OTHER_USERS}, p \in Perms : HandleNodePerm(c, n, u, p)
      PROVE  StreamsOnly'
  <2>1. CASE HandleNodeDestroy(c, n)
    BY <1>1, <2>1, QueuedOnly DEF HandleNodeDestroy
  <2>2. CASE HandleNodeSubscribe(c, n)
    BY <1>1, <2>2, QueuedOnly DEF HandleNodeSubscribe
  <2>3. CASE HandleNodeUnsubscribe(c, n)
    BY <1>1, <2>3, NoneQueued DEF HandleNodeUnsubscribe
  <2>4. CASE HandleNodePrio(c, n)
    BY <1>1, <2>4, NoneQueued DEF HandleNodePrio
  <2>5. CASE HandleNodeLock(c, n)
    BY <1>1, <2>5, QueuedOnly DEF HandleNodeLock
  <2>6. CASE HandleNodeUnlock(c, n)
    BY <1>1, <2>6, QueuedOnly DEF HandleNodeUnlock
  <2>7. ASSUME NEW p \in Ids, HandleLinkChange(c, p, n) PROVE StreamsOnly'
    BY <1>1, <2>7, QueuedOnly DEF HandleLinkChange
  <2>8. ASSUME NEW u \in Clients, HandleNodeOwner(c, n, u) PROVE StreamsOnly'
    BY <1>1, <2>8, QueuedOnly DEF HandleNodeOwner
  <2>9. ASSUME NEW u \in Clients \union {OTHER_USERS}, NEW p \in Perms, HandleNodePerm(c, n, u, p) PROVE StreamsOnly'
    BY <1>1, <2>9, QueuedOnly DEF HandleNodePerm
  <2> QED BY <1>3, <2>1, <2>2, <2>3, <2>4, <2>5, <2>6, <2>7, <2>8, <2>9
<1> QED BY <1>2, <1>3 DEF ClientCommand

LEMMA StreamsNext ==
  ASSUME NodesInv, StreamsOnly, Next
  PROVE  StreamsOnly'
<1>1. /\ out_queue \in [Clients -> Seq(Msgs)] /\ wire \in [Clients -> Seq(Msgs)]
  BY DEF NodesInv, InFlight
<1>2. PICK c \in Clients : Connect(c) \/ Disconnect(c) \/ ClientCommand(c) \/ FakeCommand(c) \/ Deliver(c)
  BY DEF Next
<1>3. CASE Connect(c)
  BY <1>3, QueuedOnly DEF Connect
<1>4. CASE Disconnect(c)
  <2>1. PICK out : PushClear(out, {c})
    BY <1>4 DEF Disconnect
  <2>2. \A d \in Clients \ streams : out_queue'[d] \in {<<>>, out_queue[d]}
    BY <2>1 DEF PushClear
  <2>3. wire' = [wire EXCEPT ![c] = <<>>] /\ UNCHANGED workload
    BY <1>4 DEF Disconnect
  <2>4. streams' = streams
    BY <2>3 DEF streams
  <2> QED BY <1>1, <2>2, <2>3, <2>4 DEF StreamsOnly
<1>5. CASE ClientCommand(c)
  BY <1>5, CommandStreams
<1>6. ASSUME NEW m, HandleNodeCreateAck(c, m) PROVE StreamsOnly'
  BY <1>6, QueuedOnly DEF HandleNodeCreateAck, Acked
<1>7. ASSUME NEW m, HandleNodeDestroyAck(c, m) PROVE StreamsOnly'
  BY <1>7, NoneQueued DEF HandleNodeDestroyAck, Acked
<1>8. ASSUME NEW m, DeliverDatagram(c, m) PROVE StreamsOnly'
  BY <1>8, NoneQueued DEF DeliverDatagram
<1>9. CASE SendStream(c) \/ DeliverStream(c)
  <2>1. c \in streams /\ UNCHANGED workload
    BY <1>9 DEF SendStream, DeliverStream, StreamsOnly
  <2>2. \A d \in Clients : d # c => out_queue'[d] = out_queue[d] /\ wire'[d] = wire[d]
    BY <1>1, <1>9 DEF SendStream, DeliverStream
  <2>3. streams' = streams
    BY <2>1 DEF streams
  <2> QED BY <2>1, <2>2, <2>3 DEF StreamsOnly
<1> QED BY <1>2, <1>3, <1>4, <1>5, <1>6, <1>7, <1>8, <1>9 DEF FakeCommand, Deliver

-----------------------------------------------------------------------------
(* The initial state.                                                      *)

(* Only the nodes E are in use.                                            *)
Uses(N, E) == Ready(N) /\ \A n \in Ids : /\ N[n].state # NONE <=> n \in E
                                         /\ \A c \in Clients : N[n].folls[c] = <<>>

LEMMA UsesNew ==
  ASSUME NEW N, NEW E, Uses(N, E), NEW p \in Ids, NEW n \in Ids, n \notin E,
         NEW M, M = vs_node_create_linked(N, p, n, SUPER_USER, CREATED), NEW D, D = E \union {n}
  PROVE  Uses(M, D)
<1>1. N \in Trees /\ SUPER_USER \in Users /\ CREATED \in NodeStates /\ CREATED # NONE /\ Ready(N)
  BY StatesDiffer DEF Uses, Ready, Users, NodeStates
<1>2. NewNode(N, M, n, CREATED)
  BY <1>1, CreateLinkedType
<1>3. N[n].state = NONE
  BY DEF Uses
<1>4. Ready(M) /\ SameFolls(N, M) /\ NewHeld(N, M, {n})
  BY <1>1, <1>2, <1>3, NewNodeReady
<1> QED BY <1>4 DEF Uses, SameFolls, NewHeld

LEMMA UsesSame ==
  ASSUME NEW N, NEW E, Uses(N, E), NEW n \in Ids, NEW r, Same(N[n], r), NEW M, M = [N EXCEPT ![n] = r]
  PROVE  Uses(M, E)
<1>1. N \in Trees /\ Ready(N)
  BY DEF Uses, Ready
<1>2. SameTree(N, M)
  BY <1>1, SameExcept
<1>3. SameFolls(N, M) /\ SameHeld(N, M) /\ Ready(M)
  BY <1>1, <1>2, SameTreeFolls
<1> QED BY <1>3 DEF Uses, SameFolls, SameHeld

LEMMA NodesInit == Uses(vs_nodes_init, 0 .. 3)
<1>1. PICK N0 : N0 = [n \in Ids |-> FreeNode]
  OBVIOUS
<1>2. N0 \in Trees /\ \A n \in Ids : N0[n] = FreeNode
  BY <1>1, FreeNodeType DEF Trees
<1>3. PICK r : r = [FreeNode EXCEPT !.state = CREATED]
  OBVIOUS
<1>4. r \in NodeType /\ r.state = CREATED /\ r.folls = FreeNode.folls
  <2>1. CREATED \in NodeStates
    BY DEF NodeStates
  <2> QED BY <1>3, <2>1, FreeNodeType, WithState
<1>5. PICK N1 : N1 = [N0 EXCEPT ![ROOT] = r]
  OBVIOUS
<1>6. ROOT \in Ids /\ AVATARS \in Ids /\ USERS \in Ids /\ SCENE \in Ids
  BY IdFacts
<1>7. Put(N0, N1, ROOT, r)
  BY <1>2, <1>4, <1>5, <1>6, TreeExcept
<1>8. PICK E1 : E1 = {ROOT}
  OBVIOUS
<1>9. Uses(N1, E1)
  <2>1. N1 \in Trees /\ N1[ROOT] = r /\ \A k \in Ids : k # ROOT => N1[k] = FreeNode
    BY <1>2, <1>7 DEF Put
  <2>2. \A n \in Ids : /\ N1[n].state # NONE <=> n \in E1
                       /\ \A c \in Clients : N1[n].folls[c] = <<>>
    BY <1>4, <1>8, <2>1, FreeNodeType, StatesDiffer
  <2> QED BY <2>1, <2>2 DEF Uses, Ready
<1>10. PICK N2, E2 : N2 = vs_node_create_linked(N1, ROOT, AVATARS, SUPER_USER, CREATED) /\ E2 = E1 \union {AVATARS}
  OBVIOUS
<1>11. Uses(N2, E2)
  <2>1. AVATARS \notin E1
    BY <1>8 DEF ROOT, AVATARS
  <2> QED BY <1>6, <1>9, <1>10, <2>1, UsesNew
<1>12. PICK N3, E3 : N3 = vs_node_create_linked(N2, ROOT, USERS, SUPER_USER, CREATED) /\ E3 = E2 \union {USERS}
  OBVIOUS
<1>13. Uses(N3, E3)
  <2>1. USERS \notin E2
    BY <1>8, <1>10 DEF ROOT, AVATARS, USERS
  <2> QED BY <1>6, <1>11, <1>12, <2>1, UsesNew
<1>14. PICK N4, E : N4 = vs_node_create_linked(N3, ROOT, SCENE, SUPER_USER, CREATED) /\ E = E3 \union {SCENE}
  OBVIOUS
<1>15. Uses(N4, E)
  <2>1. SCENE \notin E3
    BY <1>8, <1>10, <1>12 DEF ROOT, AVATARS, USERS, SCENE
  <2> QED BY <1>6, <1>13, <1>14, <2>1, UsesNew
<1>16. E = 0 .. 3
  BY <1>8, <1>10, <1>12, <1>14 DEF ROOT, AVATARS, USERS, SCENE
<1>17. N4 \in Trees
  BY <1>15 DEF Uses, Ready
<1>18. PICK a, b, d, s, e : /\ a = vs_node_set_perm(N4[ROOT], OTHER_USERS, {"READ"})
                            /\ b = vs_node_set_perm(N4[AVATARS], OTHER_USERS, {"READ"})
                            /\ d = vs_node_set_perm(N4[USERS], OTHER_USERS, {"READ"})
                            /\ s = vs_node_set_perm(N4[SCENE], OTHER_USERS, {"READ", "WRITE"})
                            /\ e = [s EXCEPT !.saveable = TRUE]
  OBVIOUS
<1>19. Same(N4[ROOT], a) /\ Same(N4[AVATARS], b) /\ Same(N4[USERS], d) /\ Same(N4[SCENE], e)
  <2>1. PICK p, q : p = {"READ"} /\ q = {"READ", "WRITE"}
    OBVIOUS
  <2>2. p \in Rights /\ q \in Rights /\ OTHER_USERS \in Users
    BY <2>1 DEF Rights, Users
  <2>3. \A n \in Ids : Same(N4[n], vs_node_set_perm(N4[n], OTHER_USERS, p))
    BY <1>17, <2>2, TreeNode, SetPermType
  <2>4. \A n \in Ids : Same(N4[n], vs_node_set_perm(N4[n], OTHER_USERS, q))
    BY <1>17, <2>2, TreeNode, SetPermType
  <2>5. Same(N4[SCENE], s)
    BY <1>6, <1>18, <2>1, <2>4
  <2>6. s \in NodeType
    BY <2>5 DEF Same
  <2>7. Same(s, e)
    <3>1. PICK v : v = TRUE
      OBVIOUS
    <3>2. v \in BOOLEAN /\ e = [s EXCEPT !.saveable = v]
      BY <1>18, <3>1
    <3> QED BY <2>6, <3>2, WithSaveable
  <2>8. Same(N4[SCENE], e)
    BY <2>5, <2>7, SameTrans
  <2> QED BY <1>6, <1>18, <2>1, <2>3, <2>8
<1>20. PICK M1, M2, M3, M4 : /\ M1 = [N4 EXCEPT ![ROOT] = a] /\ M2 = [M1 EXCEPT ![AVATARS] = b]
                             /\ M3 = [M2 EXCEPT ![USERS] = d] /\ M4 = [M3 EXCEPT ![SCENE] = e]
  OBVIOUS
<1>21. Uses(M1, E) /\ Same(M1[AVATARS], b) /\ Same(M1[USERS], d) /\ Same(M1[SCENE], e)
  <2>1. Uses(M1, E)
    BY <1>6, <1>15, <1>19, <1>20, UsesSame
  <2>2. M1[AVATARS] = N4[AVATARS] /\ M1[USERS] = N4[USERS] /\ M1[SCENE] = N4[SCENE]
    BY <1>6, <1>17, <1>20 DEF Trees, ROOT, AVATARS, USERS, SCENE
  <2> QED BY <1>19, <2>1, <2>2
<1>22. Uses(M2, E) /\ Same(M2[USERS], d) /\ Same(M2[SCENE], e)
  <2>1. Uses(M2, E)
    BY <1>6, <1>20, <1>21, UsesSame
  <2>2. M1 \in Trees
    BY <1>21 DEF Uses, Ready
  <2>3. M2[USERS] = M1[USERS] /\ M2[SCENE] = M1[SCENE]
    BY <1>6, <1>20, <2>2 DEF Trees, ROOT, AVATARS, USERS, SCENE
  <2> QED BY <1>21, <2>1, <2>3
<1>23. Uses(M3, E) /\ Same(M3[SCENE], e)
  <2>1. Uses(M3, E)
    BY <1>6, <1>20, <1>22, UsesSame
  <2>2. M2 \in Trees
    BY <1>22 DEF Uses, Ready
  <2>3. M3[SCENE] = M2[SCENE]
    BY <1>6, <1>20, <2>2 DEF Trees, ROOT, AVATARS, USERS, SCENE
  <2> QED BY <1>22, <2>1, <2>3
<1>24. Uses(M4, E)
  BY <1>6, <1>20, <1>23, UsesSame
<1>25. vs_nodes_init = M4
  <2>1. N1 = [[n \in Ids |-> FreeNode] EXCEPT ![ROOT].state = CREATED]
    BY <1>1, <1>2, <1>3, <1>5, <1>6
  <2>2. vs_nodes_init =
          [N4 EXCEPT ![ROOT] = a, ![AVATARS] = b, ![USERS] = d, ![SCENE] = e]
    BY <1>10, <1>12, <1>14, <1>18, <2>1 DEF vs_nodes_init
  <2> QED BY <1>20, <2>2
<1> QED BY <1>16, <1>24, <1>25

LEMMA InitInv == Init => NodesInv /\ StreamsOnly
<1> SUFFICES ASSUME Init PROVE NodesInv /\ StreamsOnly
  OBVIOUS
<1>1. Uses(nodes, 0 .. 3)
  BY NodesInit DEF Init, Started
<1>2. /\ last_id = FIRST_COMMON_ID /\ avatar_id = [c \in Clients |-> NoNode] /\ online = {}
      /\ net = [c \in Clients |-> {}] /\ out_queue = [c \in Clients |-> <<>>] /\ wire = [c \in Clients |-> <<>>]
      /\ acks = [c \in Clients |-> {}] /\ view = [c \in Clients |-> EmptyView]
      /\ workload \in Workloads /\ ops = 0
  BY DEF Init, Started
<1>3. Typed
  <2>1. FIRST_COMMON_ID \in Ids /\ FIRST_COMMON_ID >= FIRST_COMMON_ID
    BY IdFacts DEF FIRST_COMMON_ID
  <2>2. EmptyView \in ViewType
    BY DEF EmptyView, ViewType
  <2>3. 0 \in 0 .. workload.ops
    BY <1>2, NodesAssumption
  <2> QED BY <1>2, <2>1, <2>2, <2>3 DEF Typed
<1>4. InFlight /\ StreamsOnly
  BY <1>2, EmptyMsgs DEF InFlight, StreamsOnly
<1>5. Unused
  <2>1. \A n \in Ids : n > last_id \/ n = FIRST_COMMON_ID => n \notin 0 .. 3
    BY <1>2, IdFacts DEF FIRST_COMMON_ID
  <2> QED BY <1>1, <2>1 DEF Unused, Uses
<1>6. Homes
  BY <1>2 DEF Homes
<1>7. Informed
  <2>1. \A n \in Ids, d \in Stayers : nodes[n].folls[d] = <<>> /\ net[d] = {} /\ acks[d] = {} /\ view[d].known = {}
    BY <1>1, <1>2, StayersAre DEF Uses, EmptyView
  <2>2. \A n : Told(<<>>, {}, {}, {}, n)
    BY DEF Told, OneCreate, Creates
  <2> QED BY <2>1, <2>2 DEF Informed
<1> QED BY <1>1, <1>3, <1>4, <1>5, <1>6, <1>7 DEF NodesInv, Uses

-----------------------------------------------------------------------------
(* All actions.                                                            *)

LEMMA NodesNext ==
  ASSUME NodesInv, StreamsOnly, Next
  PROVE  NodesInv' /\ Shape
<1>1. PICK c \in Clients : Connect(c) \/ Disconnect(c) \/ ClientCommand(c) \/ FakeCommand(c) \/ Deliver(c)
  BY DEF Next
<1>2. CASE Connect(c)
  BY <1>2, ConnectInv
<1>3. CASE Disconnect(c)
  BY <1>3, DisconnectInv
<1>4. CASE ClientCommand(c)
  <2>1. CASE HandleNodeCreate(c)
    BY <2>1, CreateInv
  <2>2. ASSUME NEW n \in Ids,
               \/ HandleNodeDestroy(c, n)
               \/ HandleNodeSubscribe(c, n)
               \/ HandleNodeUnsubscribe(c, n)
               \/ HandleNodePrio(c, n)
               \/ HandleNodeLock(c, n)
               \/ HandleNodeUnlock(c, n)
               \/ \E p \in Ids : HandleLinkChange(c, p, n)
               \/ \E u \in Clients : HandleNodeOwner(c, n, u)
               \/ \E u \in Clients \union {OTHER_USERS}, p \in Perms : HandleNodePerm(c, n, u, p)
        PROVE  NodesInv' /\ Shape
    BY <2>2, DestroyInv, SubscribeInv, UnsubscribeInv, PrioInv, LockInv, UnlockInv, LinkInv, OwnerInv, PermInv
  <2> QED BY <1>4, <2>1, <2>2 DEF ClientCommand
<1>5. CASE FakeCommand(c)
  BY <1>5, CreateAckInv, DestroyAckInv DEF FakeCommand
<1>6. CASE Deliver(c)
  BY <1>6, DatagramInv, SendStreamInv, DeliverStreamInv DEF Deliver
<1> QED BY <1>1, <1>2, <1>3, <1>4, <1>5, <1>6

LEMMA NodesStutter ==
  ASSUME NodesInv, StreamsOnly, UNCHANGED vars
  PROVE  NodesInv' /\ StreamsOnly' /\ Held' = Held /\ KnownOf' = KnownOf
<1>1. UNCHANGED <<nodes, last_id, avatar_id, online, workload, net, out_queue, wire, acks, view, ops>>
  BY DEF vars, clientVars
<1>2. streams' = streams /\ Stayers' = Stayers
  BY <1>1 DEF streams, Stayers
<1>3. StreamsOnly' /\ Held' = Held
  BY <1>1, NoneQueued DEF Held
<1>4. KnownOf' = KnownOf
  BY <1>1, SameKnown
<1>5. Informed'
  BY <1>1, <1>2 DEF NodesInv, Informed
<1>6. Typed' /\ InFlight' /\ Unused' /\ Homes' /\ Ready(nodes)'
  BY <1>1 DEF NodesInv, Typed, InFlight, Unused, Homes
<1> QED BY <1>3, <1>4, <1>5, <1>6 DEF NodesInv

NodesSafe == NodesInv /\ StreamsOnly

LEMMA NodesStep == NodesSafe /\ [Next]_vars => NodesSafe'
<1> SUFFICES ASSUME NodesSafe, [Next]_vars PROVE NodesSafe'
  OBVIOUS
<1>1. CASE Next
  BY <1>1, NodesNext, StreamsNext DEF NodesSafe
<1>2. CASE UNCHANGED vars
  BY <1>2, NodesStutter DEF NodesSafe
<1> QED BY <1>1, <1>2

LEMMA NodesAlways == Spec => []NodesSafe
<1>1. Init => NodesSafe
  BY InitInv DEF NodesSafe
<1> QED BY <1>1, NodesStep, PTL DEF Spec

(* Whatever clients do, the data thread keeps nodes, followers,            *)
(* permissions and views of clients of their types, and no node has an id  *)
(* that vs_node_new gives out later.                                       *)
THEOREM NodesTyped == Spec => []TypeOK
<1>1. NodesSafe => TypeOK
  <2> SUFFICES ASSUME NodesSafe PROVE TypeOK
    OBVIOUS
  <2>1. nodes \in Trees /\ Typed /\ Unused
    BY DEF NodesSafe, NodesInv, Ready
  <2>2. \A n \in Ids : nodes[n] \in NodeType
    BY <2>1, TreeNode
  <2>3. \A n \in Ids : Exists(n) => n <= last_id
    <3>1. TAKE n \in Ids
    <3>2. HAVE Exists(n)
    <3>3. ~(n > last_id)
      BY <2>1, <3>2 DEF Unused, Exists
    <3>4. n \in Nat /\ last_id \in Nat
      BY <2>1, IdFacts DEF Typed
    <3> QED BY <3>3, <3>4
  <2>4. \A c \in Clients : view[c].known \in SUBSET Ids
    BY <2>1 DEF Typed, ViewType
  <2>5. ASSUME NEW n \in Ids
        PROVE  /\ nodes[n].state \in {NONE, CREATING, CREATED, DELETING, DELETED}
               /\ nodes[n].parent \in Ids \union {NoNode}
               /\ nodes[n].children \in Seq(Ids) /\ nodes[n].level \in Nat
               /\ nodes[n].saveable \in BOOLEAN /\ nodes[n].owner \in Users
               /\ nodes[n].permissions \in Seq(Users \X SUBSET {"READ", "WRITE"})
               /\ nodes[n].lock \in Clients \union {NONE}
               /\ nodes[n].subs \in [Clients -> {NONE, "DEFAULT_PRIORITY", "OTHER_PRIORITY"}]
               /\ nodes[n].folls \in [Clients ->
                    Seq([state : {CREATING, CREATED, DELETING}, sub : Ids \union {FREED}])]
    <3>1. PICK e : e = nodes[n]
      OBVIOUS
    <3>2. e \in NodeType
      BY <2>2, <3>1
    <3>3. /\ e.state \in NodeStates /\ e.parent \in Ids \union {NoNode} /\ e.children \in Seq(Ids)
          /\ e.level \in Nat /\ e.saveable \in BOOLEAN /\ e.owner \in Users /\ e.permissions \in PermLists
          /\ e.lock \in Clients \union {NONE} /\ e.subs \in SubTypes /\ e.folls \in FollLists
      BY <3>2, NodeFields
    <3> QED BY <3>1, <3>3 DEF NodeStates, PermLists, Rights, SubTypes, FollLists, FollType
  <2> QED BY <2>1, <2>3, <2>4, <2>5 DEF TypeOK, Typed
<1> QED BY <1>1, NodesAlways, PTL

-----------------------------------------------------------------------------
(* The refinement.  Clients that stay know only nodes that the server      *)
(* holds.                                                                  *)
KnownSafe == \A d \in Stayers : KnownOf[d] \subseteq Held

LEMMA KnownIsHeld == NodesSafe => KnownSafe
<1> SUFFICES ASSUME NodesSafe, NEW d \in Stayers, d \notin streams, NEW n \in view[d].known, n \notin 0 .. 3
             PROVE  n \in Held
  BY DEF KnownSafe, KnownOf
<1>1. NodesInv /\ d \in Clients
  BY StayersAre DEF NodesSafe
<1>2. n \in Ids
  BY <1>1 DEF NodesInv, Typed, ViewType
<1>3. nodes[n].state # NONE
  BY <1>1, <1>2, KnownHeld
<1>4. n # FIRST_COMMON_ID
  BY <1>1, <1>2, <1>3 DEF NodesInv, Unused
<1>5. n > FIRST_COMMON_ID
  <2>1. n \in Nat
    BY <1>2, IdFacts
  <2> QED BY <1>4, <2>1 DEF FIRST_COMMON_ID
<1> QED BY <1>2, <1>3, <1>5 DEF Held

LEMMA ShapeNext ==
  ASSUME Shape, KnownSafe, KnownSafe'
  PROVE  [R!Next]_<<Held, KnownOf>>
<1>1. KnownOf = [c \in Stayers |-> KnownOf[c]]
  BY DEF KnownOf
<1>2. Stayers' = Stayers
  BY DEF Stayers
<1>3. \A c \in Stayers : KnownOf'[c] \subseteq Held'
  BY <1>2 DEF KnownSafe
<1>4. ASSUME KnownOf' = KnownOf, Held \subseteq Held' PROVE R!Next
  <2>1. \A c \in Stayers : (Held' \ Held) \intersect KnownOf[c] = {}
    BY DEF KnownSafe
  <2>2. Held' = Held \union (Held' \ Held) /\ (Held' \ Held) \intersect Held = {}
    BY <1>4
  <2>3. R!Create(Held' \ Held)
    BY <1>4, <2>1, <2>2 DEF R!Create, Held, KnownOf
  <2> QED BY <2>3 DEF R!Next, Held
<1>5. ASSUME KnownOf' = KnownOf, Held' \subseteq Held PROVE R!Next
  <2>1. \A c \in Stayers : KnownOf[c] \intersect (Held \ Held') = {}
    BY <1>3, <1>5
  <2>2. Held' = Held \ (Held \ Held')
    BY <1>5
  <2>3. R!Free(Held \ Held')
    BY <1>5, <2>1, <2>2 DEF R!Free, Held, KnownOf
  <2> QED BY <2>3 DEF R!Next, Held
<1>6. ASSUME NEW c \in Stayers, NEW n \in Ids, Held' = Held,
             KnownOf' = [KnownOf EXCEPT ![c] = KnownOf[c] \union {n}]
      PROVE  R!Next
  <2>1. n \in Held
    <3>1. KnownOf'[c] = KnownOf[c] \union {n}
      BY <1>1, <1>6
    <3> QED BY <1>3, <1>6, <3>1
  <2>2. R!Learn(c, n)
    BY <1>6, <2>1 DEF R!Learn, Held, KnownOf
  <2> QED BY <2>2 DEF R!Next
<1>7. ASSUME NEW c \in Stayers, NEW n \in Ids, Held' = Held,
             KnownOf' = [KnownOf EXCEPT ![c] = KnownOf[c] \ {n}]
      PROVE  R!Next
  <2>1. KnownOf'[c] = KnownOf[c] \ {n}
    BY <1>1, <1>7
  <2>2. KnownOf[c] \ (KnownOf[c] \ KnownOf'[c]) = KnownOf[c] \ {n}
    BY <2>1
  <2>3. KnownOf' = [KnownOf EXCEPT ![c] = KnownOf[c] \ (KnownOf[c] \ KnownOf'[c])]
    BY <1>7, <2>2
  <2>4. R!Forget(c, KnownOf[c] \ KnownOf'[c])
    BY <1>7, <2>3 DEF R!Forget, Held, KnownOf
  <2> QED BY <2>4 DEF R!Next, KnownOf
<1> QED BY <1>4, <1>5, <1>6, <1>7 DEF Shape

(* The handlers of nodes implement the promise of module Replication:      *)
(* vs_node_new takes ids that no client that stays and uses datagrams      *)
(* takes for an older node, and vs_handle_node_destroy_ack and the end of  *)
(* a session (vs_node_destroy_branch) free nodes only when none of these   *)
(* clients knows them, in whatever order datagrams and acknowledgements    *)
(* arrive.                                                                 *)
THEOREM NodesReplicate == Spec => ImplementsReplication
<1>1. Init => R!Init
  <2> SUFFICES ASSUME Init PROVE Held = {} /\ KnownOf = [c \in Stayers |-> {}]
    BY DEF R!Init, Held, KnownOf
  <2>1. NodesInv /\ last_id = FIRST_COMMON_ID
    BY InitInv DEF Init, Started
  <2>2. Held = {}
    BY <2>1 DEF Held, NodesInv, Unused
  <2>3. \A c \in Stayers : view[c].known = {}
    BY StayersAre DEF Init, Started, EmptyView
  <2> QED BY <2>2, <2>3 DEF KnownOf
<1>2. KnownSafe /\ KnownSafe' /\ NodesSafe /\ [Next]_vars => [R!Next]_<<Held, KnownOf>>
  <2> SUFFICES ASSUME KnownSafe, KnownSafe', NodesSafe, [Next]_vars PROVE [R!Next]_<<Held, KnownOf>>
    OBVIOUS
  <2>1. CASE UNCHANGED vars
    BY <2>1, NodesStutter DEF NodesSafe
  <2>2. CASE Next
    BY <2>2, NodesNext, ShapeNext DEF NodesSafe
  <2> QED BY <2>1, <2>2
<1> QED BY <1>1, <1>2, KnownIsHeld, NodesAlways, PTL DEF Spec, ImplementsReplication, R!Spec, Held, KnownOf
=============================================================================
