-------------------------- MODULE Sessions_proofs --------------------------
(***************************************************************************)
(* Proofs about module Sessions: ports of datagram threads are counted,    *)
(* sessions, users, avatars and clients belong together, and a server that *)
(* stops in an orderly way has ended all sessions.                         *)
(***************************************************************************)
EXTENDS Sessions, SequenceLemmas

-----------------------------------------------------------------------------
(* The inductive invariant.  Its parts speak of a client record k, the     *)
(* stream n of the client, a session slot e, and the avatars V.            *)

MsgTypes ==
  {"USER_AUTH_REQUEST_NONE", "USER_AUTH_REQUEST_PASSWORD", "USER_AUTH_FAILURE_METHODS",
   "USER_AUTH_FAILURE", "USER_AUTH_SUCCESS", "CONFIRM_R_TOKEN", "CHANGE_L_HOST_URL",
   "CONFIRM_L_HOST_URL", "CONNECTION_CLOSE"}

Msgs == [type : MsgTypes, arg : Int \union BOOLEAN]

StreamType ==
  [to_server : Seq(Msgs), to_client : Seq(Msgs), client_end : BOOLEAN, server_end : BOOLEAN]

Types ==
  /\ TypeOK
  /\ net \in [Clients -> StreamType]
  /\ backlog \in Seq(Clients) /\ \A c \in Clients : Once(backlog, c)
  /\ avatar_count \in Nat /\ avatars \subseteq 1..avatar_count

(* Messages that wait at the server, and at the client.                    *)
Up(n)   == ToSet(n.to_server)
Down(n) == ToSet(n.to_client)
Waiting == ToSet(backlog)

(* The datagram thread of a slot is needed.                                *)
Busy(e) == e.udp \in {"START", "RUN", "FREE"}

(* The stream thread of a slot has found an unused port, or looks for one. *)
Finds(e)    == e.thread \in {"COUNT", "STORE"}
Searches(e) == e.thread \in {"SEARCH", "COMPARE"} \/ Finds(e)

Uses(e, p) == (Busy(e) \/ Finds(e)) /\ e.port = p

(* A client that has not sent a password yet.                              *)
Unknown(k) ==
  \/ k.state \in {"IDLE", "CONNECTING", "USRAUTH_NONE"}
  \/ k.state = "USRAUTH_DATA" /\ ~k.sent

(* The avatars that a client was told, or will be.                         *)
Told(k, n) ==
  ({k.avatar} \ {NoAvatar})
    \union {m.arg : m \in {x \in Down(n) : x.type = "USER_AUTH_SUCCESS"}}

(* A client by itself: what it was told, and what it says to the server.   *)
ClientInv(k, n, waits) ==
  /\ k.token = k.avatar
  /\ k.state \in {"IDLE", "CONNECTING", "USRAUTH_NONE", "USRAUTH_DATA"} => k.avatar = NoAvatar
  /\ k.state = "NEGOTIATE_TOKEN_DED" \/ k.udp = "REQUEST" => k.avatar # NoAvatar
  /\ k.state = "CLOSED" => ~n.client_end /\ k.udp # "REQUEST"
  /\ waits => k.state \in {"CONNECTING", "CLOSED"}
  /\ Unknown(k) \/ waits => Told(k, n) = {}
  /\ \A m \in Up(n) :
       /\ m.type = "USER_AUTH_REQUEST_PASSWORD" => ~Unknown(k) /\ m.arg = k.right
       /\ m.type = "CONFIRM_R_TOKEN" => m.arg = k.avatar /\ m.arg # NoAvatar
  /\ \A m \in Down(n) : m.type = "CHANGE_L_HOST_URL" => m.arg \in Int

(* A slot by itself.  Its avatar exists exactly while the user of its      *)
(* session is authenticated: what earlier sessions left is dead.           *)
SlotInv(e, V) ==
  /\ e.state = "LISTEN" <=> e.thread = NONE
  /\ Busy(e) => /\ ~e.web /\ e.thread \in {"RUN", "WAIT", "JOIN"}
                /\ e.thread = "RUN" => e.state # "NEGOTIATE_TOKEN_DED"
  /\ e.thread = "WAIT" => ~e.web
  /\ e.thread \in {"JOIN", "FREE", "LISTEN"} => e.state \in {"CLOSING", "CLOSED"}
  /\ e.state \in {"RESPOND_METHODS", "RESPOND_USRAUTH"} \/ e.thread \in {NONE, "TLS", "LISTEN"}
       => e.avatar \notin V
  /\ e.state \in {"NEGOTIATE_NEWHOST", "STREAM_OPEN"} \/ e.thread = "WAIT" \/ Searches(e) \/ Busy(e)
       => e.avatar \in V
  /\ e.udp = "RUN" /\ e.dgram = "OPEN" => e.peer = e.client
  /\ e.avatar \in V => e.user = e.client /\ e.token \in {NoToken, e.avatar}

(* The client of a slot: it is the one that was told the avatar, which     *)
(* lives until the thread is about to leave the slot.                      *)
Owned(e, k, n, waits, V) ==
  /\ k.state # "IDLE" /\ ~waits
  /\ e.thread = "TLS" => k.state \in {"CONNECTING", "CLOSED"}
  /\ e.avatar \in V => k.right /\ ~Unknown(k)
  /\ e.thread # "LISTEN" => \A a \in Told(k, n) : e.avatar = a /\ a \in V

Link(e, c, k, n, waits, V) ==
  /\ e.client = c => Owned(e, k, n, waits, V)
  /\ e.avatar \in Told(k, n) /\ e.avatar \in V => e.client = c

(* Two slots have different clients and different avatars.                 *)
Apart(e, f, V) ==
  /\ e.client = f.client => e.client = NoClient
  /\ e.avatar = f.avatar => e.avatar \notin V

SlotsInv ==
  /\ \A s \in Slots : SlotInv(slot[s], avatars) /\ slot[s].avatar <= avatar_count
  /\ \A s, t \in Slots : s # t => Apart(slot[s], slot[t], avatars)
  /\ \A a \in avatars : \E s \in Slots : slot[s].avatar = a

ClientsInv ==
  /\ \A c \in Clients : /\ ClientInv(client[c], net[c], c \in Waiting)
                        /\ Told(client[c], net[c]) \subseteq 1..avatar_count
                        /\ client[c].state # "IDLE" => Transport(c) # NONE
  /\ \A s \in Slots, c \in Clients :
       Link(slot[s], c, client[c], net[c], c \in Waiting, avatars)

StopInv == server = "CLOSED" => \A s \in Slots : slot[s].state = "LISTEN"

(* A slot with a port of which n uses are counted, unless searches for a   *)
(* port overlapped at it: it is counted once while a datagram thread uses  *)
(* it, and not at all while a stream thread has found it.                  *)
Fits(e, n) ==
  /\ Busy(e)  => n = 1 /\ (e.udp = "FREE" => e.count = 1)
  /\ Finds(e) => n = 0 /\ (e.thread = "STORE" => e.count = 0)

PortsTyped ==
  aggregation \in [PortList -> 0..UINT_MAX] /\ raced \subseteq Int

(* A search looks at listed ports, and no port has two users.              *)
Listed(e, P) ==
  /\ e.thread = "COMPARE" => e.search.probe \in P
  /\ Finds(e) => e.port \in P

PortsInv ==
  /\ \A s \in Slots : Listed(slot[s], PortList)
  /\ \A p \in PortList \ raced :
       /\ \A s \in Slots : slot[s].port = p => Fits(slot[s], aggregation[p])
       /\ \A s, t \in Slots : s # t /\ Uses(slot[s], p) => ~Uses(slot[t], p)

IInv == Types /\ PortsInv /\ SlotsInv /\ ClientsInv /\ StopInv

-----------------------------------------------------------------------------
(* The invariant implies the properties.                                   *)

LEMMA NoClientApart == \A c \in Clients : c # NoClient
BY SessionsAssumption

LEMMA IInvAgree == IInv => SessionsAgree
<1> SUFFICES ASSUME IInv, NEW s \in Slots, NEW c \in Clients, Serves(s, c)
             PROVE  /\ client[c].right
                    /\ slot[s].client = c /\ slot[s].user = c
                    /\ client[c].avatar \in {NoAvatar, slot[s].avatar}
                    /\ slot[s].avatar \in avatars
                    /\ \A t \in Slots \ {s} : ~Serves(t, c)
  BY DEF SessionsAgree
<1>1. ASSUME NEW t \in Slots, Serves(t, c) PROVE slot[t].client = c /\ slot[t].avatar \in avatars
  BY <1>1 DEF IInv, SlotsInv, SlotInv, Serves, Busy
<1>2. slot[s].client = c /\ slot[s].avatar \in avatars
  BY <1>1
<1>3. Link(slot[s], c, client[c], net[c], c \in Waiting, avatars) /\ SlotInv(slot[s], avatars)
  BY DEF IInv, SlotsInv, ClientsInv
<1>4. slot[s].user = c /\ client[c].right
  BY <1>2, <1>3 DEF SlotInv, Link, Owned
<1>5. client[c].avatar # NoAvatar => client[c].avatar = slot[s].avatar
  <2>1. slot[s].thread # "LISTEN"
    BY <1>2, <1>3 DEF SlotInv
  <2> QED BY <1>2, <1>3, <2>1 DEF Link, Owned, Told
<1>6. ASSUME NEW t \in Slots \ {s}, Serves(t, c) PROVE FALSE
  <2>1. Apart(slot[s], slot[t], avatars) /\ slot[t].client = c
    BY <1>1, <1>6 DEF IInv, SlotsInv
  <2> QED BY <1>2, <2>1, NoClientApart DEF Apart
<1> QED BY <1>2, <1>4, <1>5, <1>6

LEMMA IInvOwned == IInv => AvatarsOwned
<1> SUFFICES ASSUME IInv PROVE AvatarsOwned
  OBVIOUS
<1>1. \A s \in Slots : SlotInv(slot[s], avatars)
  BY DEF IInv, SlotsInv
<1>2. \A a \in avatars : \E s \in Slots : slot[s].avatar = a /\ slot[s].thread # NONE
  BY <1>1 DEF IInv, SlotsInv, SlotInv
<1>3. \A s \in Slots : slot[s].udp \in {"START", "RUN", "FREE"} => slot[s].avatar \in avatars
  BY <1>1 DEF SlotInv, Busy
<1>4. ASSUME NEW s \in Slots, NEW t \in Slots, s # t, slot[s].avatar = slot[t].avatar
      PROVE  slot[s].avatar \notin avatars
  <2>1. Apart(slot[s], slot[t], avatars)
    BY <1>4 DEF IInv, SlotsInv
  <2> QED BY <1>4, <2>1 DEF Apart
<1> QED BY <1>2, <1>3, <1>4 DEF AvatarsOwned

LEMMA IInvStop == IInv => StopClean
<1> SUFFICES ASSUME IInv, server = "CLOSED"
             PROVE  /\ avatars = {}
                    /\ \A s \in Slots : slot[s].thread = NONE /\ slot[s].udp \in {NONE, "ENDED"}
  BY DEF StopClean
<1>1. \A s \in Slots : SlotInv(slot[s], avatars) /\ slot[s].state = "LISTEN"
  BY DEF IInv, SlotsInv, StopInv
<1>2. \A s \in Slots : slot[s].thread = NONE /\ slot[s].avatar \notin avatars
  BY <1>1 DEF SlotInv
<1>3. avatars = {}
  BY <1>2 DEF IInv, SlotsInv
<1>4. slot \in [Slots -> SlotType]
  BY DEF IInv, Types, TypeOK
<1>5. \A s \in Slots : slot[s].udp \in {NONE, "START", "RUN", "FREE", "ENDED"} /\ ~Busy(slot[s])
  BY <1>1, <1>2, <1>4 DEF SlotType, SlotInv, NONE
<1> QED BY <1>2, <1>3, <1>5 DEF Busy, NONE

LEMMA IInvCounted == IInv => PortsCounted
<1> SUFFICES ASSUME IInv, NEW p \in PortList \ raced
             PROVE  /\ aggregation[p] >= Cardinality(PortUsers(p))
                    /\ Cardinality(PortUsers(p)) <= 1
  BY DEF PortsCounted, IInv, Types
<1>1. /\ \A s \in Slots : slot[s].port = p => Fits(slot[s], aggregation[p])
      /\ \A s, t \in Slots : s # t /\ Uses(slot[s], p) => ~Uses(slot[t], p)
  BY DEF IInv, PortsInv
<1>2. aggregation[p] \in Nat
  BY DEF IInv, Types, TypeOK
<1>3. \A s \in PortUsers(p) : s \in Slots /\ Uses(slot[s], p) /\ aggregation[p] = 1
  BY <1>1 DEF PortUsers, Uses, Busy, Fits
<1>4. CASE PortUsers(p) = {}
  BY <1>2, <1>4, FS_EmptySet
<1>5. CASE PortUsers(p) # {}
  <2>1. PICK s \in PortUsers(p) : TRUE
    BY <1>5
  <2>2. PortUsers(p) = {s}
    BY <1>1, <1>3, <2>1
  <2>3. Cardinality(PortUsers(p)) = 1
    BY <2>2, FS_Singleton
  <2> QED BY <1>3, <2>1, <2>3
<1> QED BY <1>4, <1>5

-----------------------------------------------------------------------------
(* The initial state.                                                      *)

LEMMA InitIInv == Init => IInv
<1> SUFFICES ASSUME Init PROVE IInv
  OBVIOUS
<1>1. \A c \in Clients : /\ client[c] = NewClient /\ net[c].to_server = <<>> /\ net[c].to_client = <<>>
                         /\ ~net[c].client_end
  BY DEF Init
<1>2. \A s \in Slots : /\ slot[s] = NewSlot
                       /\ slot[s].state = "LISTEN" /\ slot[s].thread = NONE /\ slot[s].client = NoClient
                       /\ slot[s].udp = NONE /\ slot[s].dgram = "CLOSED" /\ slot[s].avatar = NoAvatar
  BY DEF Init, NewSlot
<1>3. ToSet(<<>>) = {} /\ Waiting = {}
  BY DEF ToSet, Waiting, Init
<1>4. \A c \in Clients : Up(net[c]) = {} /\ Down(net[c]) = {}
  BY <1>1, <1>3 DEF Up, Down
<1>5. \A c \in Clients : Told(client[c], net[c]) = {}
  BY <1>1, <1>4 DEF Told, NewClient, NoAvatar
<1>6. Types
  <2>1. NewClient \in ClientType /\ NewSlot \in SlotType
    <3>1. 0 \in 0..UINT_MAX /\ NoSearch \in SearchType
      BY SessionsAssumption DEF NoSearch, SearchType
    <3> QED BY <3>1 DEF NewClient, ClientType, NewSlot, SlotType, NONE, NoAvatar, NoToken, NoUrl
  <2>2. net \in [Clients -> StreamType]
    BY DEF Init, StreamType
  <2>3. PortsTyped
    BY SessionsAssumption DEF Init, PortsTyped
  <2>4. client \in [Clients -> ClientType] /\ slot \in [Slots -> SlotType]
    BY <2>1 DEF Init
  <2>5. TypeOK
    BY <1>2, <2>3, <2>4 DEF Init, TypeOK, PortsTyped
  <2>6. backlog \in Seq(Clients) /\ \A c \in Clients : Once(backlog, c)
    BY DEF Init, Once
  <2>7. avatar_count \in Nat /\ avatars \subseteq 1..avatar_count
    BY DEF Init
  <2> QED BY <2>2, <2>5, <2>6, <2>7 DEF Types
<1>7. PortsInv
  BY <1>2 DEF PortsInv, Listed, Fits, Uses, Finds, Busy, NONE
<1>8. SlotsInv
  <2>1. avatars = {} /\ avatar_count = 0 /\ NoAvatar <= 0
    BY DEF Init, NoAvatar
  <2>2. \A s \in Slots : SlotInv(slot[s], avatars)
    BY <1>2, <2>1 DEF SlotInv, Searches, Finds, Busy, NONE
  <2>3. \A s, t \in Slots : Apart(slot[s], slot[t], avatars)
    BY <1>2, <2>1 DEF Apart
  <2> QED BY <1>2, <2>1, <2>2, <2>3 DEF SlotsInv
<1>9. ClientsInv
  <2>1. ASSUME NEW c \in Clients PROVE ClientInv(client[c], net[c], c \in Waiting)
    BY <1>1, <1>3, <1>4, <1>5 DEF ClientInv, NewClient, NoAvatar, NoToken, NONE
  <2>2. ASSUME NEW s \in Slots, NEW c \in Clients
        PROVE  Link(slot[s], c, client[c], net[c], c \in Waiting, avatars)
    BY <1>2, <1>5, NoClientApart DEF Link, NewSlot
  <2>3. \A c \in Clients : client[c].state = "IDLE"
    BY <1>1 DEF NewClient
  <2> QED BY <1>5, <2>1, <2>2, <2>3 DEF ClientsInv
<1>10. StopInv
  BY DEF Init, StopInv
<1> QED BY <1>6, <1>7, <1>8, <1>9, <1>10 DEF IInv

-----------------------------------------------------------------------------
(* Steps that keep clients and slots together.                             *)

(* How the record of a client changes.                                     *)
Moves(k, j) ==
  /\ k.state = "IDLE" <=> j.state = "IDLE"
  /\ k.state \in {"CONNECTING", "CLOSED"} => j.state \in {"CONNECTING", "CLOSED"}
  /\ ~Unknown(k) => ~Unknown(j) /\ j.right = k.right

(* The server reads messages of a stream, and sends some that name no      *)
(* avatar.                                                                 *)
Answered(n, m) ==
  /\ Up(m) \subseteq Up(n) /\ m.client_end = n.client_end
  /\ \A x \in Down(m) : \/ x \in Down(n)
                        \/ /\ x.type # "USER_AUTH_SUCCESS"
                           /\ x.type = "CHANGE_L_HOST_URL" => x.arg \in Int

LEMMA AnsweredTold ==
  ASSUME NEW k, NEW n, NEW m, Answered(n, m)
  PROVE  Told(k, m) \subseteq Told(k, n)
BY DEF Answered, Told

LEMMA AnsweredClient ==
  ASSUME NEW k, NEW n, NEW m, NEW waits, ClientInv(k, n, waits), Answered(n, m)
  PROVE  ClientInv(k, m, waits)
<1>1. Told(k, m) \subseteq Told(k, n)
  BY AnsweredTold
<1>2. Unknown(k) \/ waits => Told(k, m) = {}
  BY <1>1 DEF ClientInv
<1>3. \A x \in Up(m) :
        /\ x.type = "USER_AUTH_REQUEST_PASSWORD" => ~Unknown(k) /\ x.arg = k.right
        /\ x.type = "CONFIRM_R_TOKEN" => x.arg = k.avatar /\ x.arg # NoAvatar
  BY DEF ClientInv, Answered
<1>4. \A x \in Down(m) : x.type = "CHANGE_L_HOST_URL" => x.arg \in Int
  BY DEF ClientInv, Answered
<1> QED BY <1>2, <1>3, <1>4 DEF ClientInv, Answered

LEMMA LinkKept ==
  ASSUME NEW e, NEW f, NEW c, NEW k, NEW j, NEW n, NEW m, NEW waits, NEW V,
         Link(e, c, k, n, waits, V),
         f.client = e.client, f.avatar = e.avatar, f.thread = "TLS" => e.thread = "TLS",
         e.thread = "LISTEN" => f.thread = "LISTEN",
         Moves(k, j), Told(j, m) \subseteq Told(k, n)
  PROVE  Link(f, c, j, m, waits, V)
<1>1. ASSUME f.client = c PROVE Owned(f, j, m, waits, V)
  <2>1. Owned(e, k, n, waits, V)
    BY <1>1 DEF Link
  <2> QED BY <2>1 DEF Owned, Moves
<1> QED BY <1>1 DEF Link

LEMMA ClientKept ==
  ASSUME IInv, NEW c \in Clients, NEW k \in ClientType, NEW n \in StreamType,
         client' = [client EXCEPT ![c] = k], net' = [net EXCEPT ![c] = n], UNCHANGED clientVars,
         ClientInv(k, n, c \in Waiting),
         Moves(client[c], k), Told(k, n) \subseteq Told(client[c], net[c])
  PROVE  IInv'
<1>1. UNCHANGED <<workload, backlog, slot, late, aggregation, raced, avatars, avatar_count, server>>
  BY DEF clientVars
<1>2. /\ client \in [Clients -> ClientType] /\ net \in [Clients -> StreamType]
  BY DEF IInv, Types, TypeOK
<1>3. /\ client'[c] = k /\ net'[c] = n
      /\ \A d \in Clients \ {c} : client'[d] = client[d] /\ net'[d] = net[d]
  BY <1>2
<1>4. client' \in [Clients -> ClientType] /\ net' \in [Clients -> StreamType]
  BY <1>2
<1>5. Types'
  BY <1>1, <1>4 DEF IInv, Types, TypeOK, PortList
<1>6. PortsInv'
  BY <1>1 DEF IInv, PortsInv, PortList
<1>7. SlotsInv' /\ StopInv'
  BY <1>1 DEF IInv, SlotsInv, StopInv
<1>8. Waiting' = Waiting
  BY <1>1 DEF Waiting
<1>9. ASSUME NEW d \in Clients
      PROVE  /\ ClientInv(client'[d], net'[d], d \in Waiting)
             /\ Told(client'[d], net'[d]) \subseteq 1..avatar_count
             /\ client'[d].state # "IDLE" => Transport(d) # NONE
  BY <1>3 DEF IInv, ClientsInv, Moves
<1>10. ASSUME NEW s \in Slots, NEW d \in Clients
       PROVE  Link(slot[s], d, client'[d], net'[d], d \in Waiting, avatars)
  <2>1. Link(slot[s], d, client[d], net[d], d \in Waiting, avatars)
    BY DEF IInv, ClientsInv
  <2>2. CASE d = c
    BY <1>3, <2>1, <2>2, LinkKept
  <2> QED BY <1>3, <2>1, <2>2
<1>11. ClientsInv'
  BY <1>1, <1>8, <1>9, <1>10 DEF ClientsInv, Transport
<1> QED BY <1>5, <1>6, <1>7, <1>11 DEF IInv

(* Fewer clients wait.                                                     *)
LEMMA FewerWait ==
  ASSUME NEW k, NEW n, NEW v, NEW w, v => w
  PROVE  /\ ClientInv(k, n, w) => ClientInv(k, n, v)
         /\ \A e, c, V : Link(e, c, k, n, w, V) => Link(e, c, k, n, v, V)
<1>1. ClientInv(k, n, w) => ClientInv(k, n, v)
  BY DEF ClientInv
<1>2. ASSUME NEW e, NEW c, NEW V, Link(e, c, k, n, w, V) PROVE Link(e, c, k, n, v, V)
  BY <1>2 DEF Link, Owned
<1> QED BY <1>1, <1>2

(* A step of the server that leaves clients and avatars of the slots       *)
(* alone.                                                                  *)
LEMMA ServerKept ==
  ASSUME IInv, slot' \in [Slots -> SlotType],
         \A t \in Slots : /\ slot'[t].client = slot[t].client /\ slot'[t].avatar = slot[t].avatar
                          /\ slot'[t].client = NoClient <=> slot'[t].thread = NONE
                          /\ slot'[t].thread = "TLS" => slot[t].thread = "TLS"
                          /\ slot[t].thread = "LISTEN" => slot'[t].thread = "LISTEN"
                          /\ SlotInv(slot'[t], avatars),
         net' \in [Clients -> StreamType], \A c \in Clients : Answered(net[c], net'[c]),
         PortsTyped', PortsInv',
         backlog' \in Seq(Clients), \A c \in Clients : Once(backlog', c), Waiting' \subseteq Waiting,
         server' \in {"READY", "CLOSING", "CLOSED", "GAVE_UP"}, StopInv',
         UNCHANGED <<workload, client, avatars, avatar_count>>
  PROVE  IInv'
<1>1. TypeOK'
  BY DEF IInv, Types, TypeOK, PortsTyped
<1>2. Types'
  BY <1>1 DEF IInv, Types
<1>3. SlotsInv'
  BY DEF IInv, SlotsInv, Apart
<1>4. ASSUME NEW c \in Clients
      PROVE  /\ ClientInv(client[c], net'[c], c \in Waiting')
             /\ Told(client[c], net'[c]) \subseteq 1..avatar_count
             /\ client[c].state # "IDLE" => Transport(c) # NONE
  <2>1. /\ ClientInv(client[c], net[c], c \in Waiting) /\ Told(client[c], net[c]) \subseteq 1..avatar_count
        /\ client[c].state # "IDLE" => Transport(c) # NONE
    BY DEF IInv, ClientsInv
  <2>2. ClientInv(client[c], net'[c], c \in Waiting) /\ Told(client[c], net'[c]) \subseteq 1..avatar_count
    BY <2>1, AnsweredClient, AnsweredTold
  <2>3. c \in Waiting' => c \in Waiting
    OBVIOUS
  <2> QED BY <2>1, <2>2, <2>3, FewerWait
<1>5. ASSUME NEW t \in Slots, NEW c \in Clients
      PROVE  Link(slot'[t], c, client[c], net'[c], c \in Waiting', avatars)
  <2>1. Link(slot[t], c, client[c], net[c], c \in Waiting, avatars)
    BY DEF IInv, ClientsInv
  <2>2. Told(client[c], net'[c]) \subseteq Told(client[c], net[c])
    BY AnsweredTold
  <2>3. Moves(client[c], client[c])
    BY DEF Moves
  <2>4. Link(slot'[t], c, client[c], net'[c], c \in Waiting, avatars)
    BY <2>1, <2>2, <2>3, LinkKept
  <2>5. c \in Waiting' => c \in Waiting
    OBVIOUS
  <2> QED BY <2>4, <2>5, FewerWait
<1>6. ClientsInv'
  BY <1>4, <1>5 DEF ClientsInv, Transport
<1> QED BY <1>2, <1>3, <1>6 DEF IInv

(* A step on slot s that leaves its client and avatar alone.               *)
LEMMA SlotKept ==
  ASSUME IInv, Running, NEW s \in Slots, NEW e \in SlotType, slot' = [slot EXCEPT ![s] = e],
         e.client = slot[s].client, e.avatar = slot[s].avatar,
         e.client = NoClient <=> e.thread = NONE, e.thread = "TLS" => slot[s].thread = "TLS",
         slot[s].thread = "LISTEN" => e.thread = "LISTEN", SlotInv(e, avatars),
         net' \in [Clients -> StreamType], \A c \in Clients : Answered(net[c], net'[c]),
         PortsTyped', PortsInv',
         UNCHANGED <<workload, client, backlog, avatars, avatar_count, server>>
  PROVE  IInv'
<1>1. slot \in [Slots -> SlotType]
  BY DEF IInv, Types, TypeOK
<1>2. slot'[s] = e /\ \A t \in Slots \ {s} : slot'[t] = slot[t]
  BY <1>1
<1>3. slot' \in [Slots -> SlotType]
  BY <1>1
<1>4. \A t \in Slots : (slot'[t].client = NoClient) <=> (slot'[t].thread = NONE)
  BY <1>2 DEF IInv, Types, TypeOK
<1>5. \A t \in Slots : /\ slot'[t].client = slot[t].client /\ slot'[t].avatar = slot[t].avatar
                       /\ slot'[t].thread = "TLS" => slot[t].thread = "TLS"
                       /\ slot[t].thread = "LISTEN" => slot'[t].thread = "LISTEN"
                       /\ SlotInv(slot'[t], avatars)
  BY <1>2 DEF IInv, SlotsInv
<1>6. Waiting' = Waiting /\ StopInv' /\ server' \in {"READY", "CLOSING", "CLOSED", "GAVE_UP"}
  BY DEF Waiting, StopInv, Running
<1>7. backlog' \in Seq(Clients) /\ \A c \in Clients : Once(backlog', c)
  BY DEF IInv, Types
<1> QED BY <1>3, <1>4, <1>5, <1>6, <1>7, ServerKept

-----------------------------------------------------------------------------
(* Streams and ports in the steps of the server.                           *)

LEMMA StreamsSame ==
  ASSUME net \in [Clients -> StreamType], net' = net
  PROVE  net' \in [Clients -> StreamType] /\ \A d \in Clients : Answered(net[d], net'[d])
BY DEF Answered

(* A message is read, or all are dropped, and an answer may be sent.       *)
LEMMA StreamAnswered ==
  ASSUME net \in [Clients -> StreamType], NEW c \in Clients, NEW n,
         net' = [net EXCEPT ![c] = n],
         n.to_server \in Seq(Msgs), n.to_client \in Seq(Msgs), n.server_end \in BOOLEAN,
         n = [to_server |-> n.to_server, to_client |-> n.to_client,
              client_end |-> n.client_end, server_end |-> n.server_end],
         Answered(net[c], n)
  PROVE  net' \in [Clients -> StreamType] /\ \A d \in Clients : Answered(net[d], net'[d])
<1>1. n.client_end \in BOOLEAN
  BY DEF Answered, StreamType
<1>2. n \in StreamType
  BY <1>1 DEF StreamType
<1>3. net'[c] = n /\ \A d \in Clients \ {c} : net'[d] = net[d]
  OBVIOUS
<1>4. \A d \in Clients : Answered(net[d], net[d])
  BY DEF Answered
<1> QED BY <1>2, <1>3, <1>4

LEMMA EmptyStream == <<>> \in Seq(Msgs) /\ ToSet(<<>>) = {}
BY DEF ToSet

LEMMA TailMsgs ==
  ASSUME NEW q \in Seq(Msgs), q # <<>>
  PROVE  /\ Tail(q) \in Seq(Msgs) /\ ToSet(Tail(q)) \subseteq ToSet(q)
         /\ Head(q) \in Msgs /\ Head(q) \in ToSet(q)
<1>1. PICK T : T = Msgs
  OBVIOUS
<1> QED BY <1>1, TailElements

LEMMA StreamHungUp ==
  ASSUME net \in [Clients -> StreamType], NEW c \in Clients, net' = Hangup(c)
  PROVE  net' \in [Clients -> StreamType] /\ \A d \in Clients : Answered(net[d], net'[d])
<1>1. PICK n : n = [net[c] EXCEPT !.server_end = FALSE, !.to_server = <<>>]
  OBVIOUS
<1>2. net' = [net EXCEPT ![c] = n]
  BY <1>1 DEF Hangup
<1>3. /\ n.to_server = <<>> /\ n.to_client = net[c].to_client /\ n.client_end = net[c].client_end
      /\ n.server_end = FALSE
      /\ n = [to_server |-> n.to_server, to_client |-> n.to_client,
              client_end |-> n.client_end, server_end |-> n.server_end]
  BY <1>1 DEF StreamType
<1>4. net[c].to_client \in Seq(Msgs)
  BY DEF StreamType
<1>5. Answered(net[c], n)
  BY <1>3, EmptyStream DEF Answered, Up, Down
<1> QED BY <1>2, <1>3, <1>4, <1>5, StreamAnswered, EmptyStream

LEMMA StreamRead ==
  ASSUME net \in [Clients -> StreamType], NEW c \in Clients, net[c].to_server # <<>>,
         net' = [net EXCEPT ![c].to_server = Tail(@)]
  PROVE  net' \in [Clients -> StreamType] /\ \A d \in Clients : Answered(net[d], net'[d])
<1>1. PICK n : n = [net[c] EXCEPT !.to_server = Tail(@)]
  OBVIOUS
<1>2. net' = [net EXCEPT ![c] = n]
  BY <1>1
<1>3. /\ n.to_server = Tail(net[c].to_server) /\ n.to_client = net[c].to_client
      /\ n.client_end = net[c].client_end /\ n.server_end = net[c].server_end
      /\ n = [to_server |-> n.to_server, to_client |-> n.to_client,
              client_end |-> n.client_end, server_end |-> n.server_end]
  BY <1>1 DEF StreamType
<1>4. net[c].to_client \in Seq(Msgs) /\ net[c].to_server \in Seq(Msgs) /\ net[c].server_end \in BOOLEAN
  BY DEF StreamType
<1>5. n.to_server \in Seq(Msgs) /\ Up(n) \subseteq Up(net[c])
  BY <1>3, <1>4, TailMsgs DEF Up
<1>6. Answered(net[c], n)
  BY <1>3, <1>5 DEF Answered, Down
<1> QED BY <1>2, <1>3, <1>4, <1>5, <1>6, StreamAnswered

(* A message that tells no avatar.                                         *)
Plain(m) ==
  /\ m \in Msgs /\ m.type # "USER_AUTH_SUCCESS"
  /\ m.type = "CHANGE_L_HOST_URL" => m.arg \in Int

LEMMA PlainMsg ==
  ASSUME NEW type \in MsgTypes, NEW arg \in Int, type # "USER_AUTH_SUCCESS", NEW m, m = Msg(type, arg)
  PROVE  Plain(m)
<1>1. m.type = type /\ m.arg = arg /\ m = [type |-> type, arg |-> arg]
  BY DEF Msg
<1>2. m \in Msgs
  BY <1>1 DEF Msgs
<1> QED BY <1>1, <1>2 DEF Plain

LEMMA PlainMsgs ==
  /\ Plain(Methods) /\ Plain(AuthFailure) /\ Plain(CloseFrame)
  /\ \A url \in Int : Plain(HostUrl(url))
<1>1. PICK t, m : t = "USER_AUTH_FAILURE_METHODS" /\ m = Msg(t, 0)
  OBVIOUS
<1>2. t \in MsgTypes /\ t # "USER_AUTH_SUCCESS" /\ m = Methods
  BY <1>1 DEF Methods, MsgTypes
<1>6. Plain(m)
  BY <1>1, <1>2, PlainMsg
<1>3. PICK u, n : u = "USER_AUTH_FAILURE" /\ n = Msg(u, 0)
  OBVIOUS
<1>4. u \in MsgTypes /\ u # "USER_AUTH_SUCCESS" /\ n = AuthFailure
  BY <1>3 DEF AuthFailure, MsgTypes
<1>7. Plain(n)
  BY <1>3, <1>4, PlainMsg
<1>5. ASSUME NEW url \in Int PROVE Plain(HostUrl(url))
  <2>1. PICK v, o : v = "CHANGE_L_HOST_URL" /\ o = Msg(v, url)
    OBVIOUS
  <2>2. v \in MsgTypes /\ v # "USER_AUTH_SUCCESS" /\ o = HostUrl(url)
    BY <2>1 DEF HostUrl, MsgTypes
  <2> QED BY <2>1, <2>2, PlainMsg
<1>8. PICK w, x : w = "CONNECTION_CLOSE" /\ x = Msg(w, 0)
  OBVIOUS
<1>9. w \in MsgTypes /\ w # "USER_AUTH_SUCCESS" /\ x = CloseFrame
  BY <1>8 DEF CloseFrame, MsgTypes
<1>10. Plain(x)
  BY <1>8, <1>9, PlainMsg
<1> QED BY <1>2, <1>4, <1>5, <1>6, <1>7, <1>9, <1>10

LEMMA AppendElements ==
  ASSUME NEW T, NEW q \in Seq(T), NEW m \in T
  PROVE  Append(q, m) \in Seq(T) /\ ToSet(Append(q, m)) = ToSet(q) \union {m}
<1>1. PICK r : r = <<m>>
  OBVIOUS
<1>2. r \in Seq(T) /\ ToSet(r) = {m}
  BY <1>1 DEF ToSet
<1>3. Append(q, m) = q \o r
  BY <1>1, AppendIsConcat
<1> QED BY <1>2, <1>3, ConcatElements

LEMMA StreamReplied ==
  ASSUME net \in [Clients -> StreamType], NEW c \in Clients, net[c].to_server # <<>>,
         NEW m, Plain(m), net' = Answer(c, m)
  PROVE  net' \in [Clients -> StreamType] /\ \A d \in Clients : Answered(net[d], net'[d])
<1>1. PICK n : n = [net[c] EXCEPT !.to_server = Tail(@), !.to_client = Append(@, m)]
  OBVIOUS
<1>2. net' = [net EXCEPT ![c] = n]
  BY <1>1 DEF Answer
<1>3. /\ n.to_server = Tail(net[c].to_server) /\ n.to_client = Append(net[c].to_client, m)
      /\ n.client_end = net[c].client_end /\ n.server_end = net[c].server_end
      /\ n = [to_server |-> n.to_server, to_client |-> n.to_client,
              client_end |-> n.client_end, server_end |-> n.server_end]
  BY <1>1 DEF StreamType
<1>4. net[c].to_client \in Seq(Msgs) /\ net[c].to_server \in Seq(Msgs) /\ net[c].server_end \in BOOLEAN
  BY DEF StreamType
<1>5. n.to_server \in Seq(Msgs) /\ Up(n) \subseteq Up(net[c])
  BY <1>3, <1>4, TailMsgs DEF Up
<1>6. n.to_client \in Seq(Msgs) /\ Down(n) = Down(net[c]) \union {m}
  BY <1>3, <1>4, AppendElements DEF Down, Plain
<1>7. Answered(net[c], n)
  BY <1>3, <1>5, <1>6 DEF Answered, Plain
<1> QED BY <1>2, <1>3, <1>4, <1>5, <1>6, <1>7, StreamAnswered

LEMMA StreamTold ==
  ASSUME net \in [Clients -> StreamType], NEW c \in Clients,
         NEW m, Plain(m), net' = ToClient(c, m)
  PROVE  net' \in [Clients -> StreamType] /\ \A d \in Clients : Answered(net[d], net'[d])
<1>1. PICK n : n = [net[c] EXCEPT !.to_client = Append(@, m)]
  OBVIOUS
<1>2. net' = [net EXCEPT ![c] = n]
  BY <1>1 DEF ToClient
<1>3. /\ n.to_server = net[c].to_server /\ n.to_client = Append(net[c].to_client, m)
      /\ n.client_end = net[c].client_end /\ n.server_end = net[c].server_end
      /\ n = [to_server |-> n.to_server, to_client |-> n.to_client,
              client_end |-> n.client_end, server_end |-> n.server_end]
  BY <1>1 DEF StreamType
<1>4. net[c].to_client \in Seq(Msgs) /\ net[c].to_server \in Seq(Msgs) /\ net[c].server_end \in BOOLEAN
  BY DEF StreamType
<1>6. n.to_client \in Seq(Msgs) /\ Down(n) = Down(net[c]) \union {m}
  BY <1>3, <1>4, AppendElements DEF Down, Plain
<1>7. Answered(net[c], n)
  BY <1>3, <1>6 DEF Answered, Plain, Up
<1> QED BY <1>2, <1>3, <1>4, <1>6, <1>7, StreamAnswered

(* The server hangs up, and may have sent a last message.                  *)
LEMMA StreamLeft ==
  ASSUME net \in [Clients -> StreamType], NEW c \in Clients, NEW m, Plain(m), NEW q,
         q \in {net[c].to_client, Append(net[c].to_client, m)},
         net' = [net EXCEPT ![c] = [net[c] EXCEPT !.server_end = FALSE, !.to_server = <<>>,
                                                  !.to_client = q]]
  PROVE  net' \in [Clients -> StreamType] /\ \A d \in Clients : Answered(net[d], net'[d])
<1>1. PICK n : n = [net[c] EXCEPT !.server_end = FALSE, !.to_server = <<>>, !.to_client = q]
  OBVIOUS
<1>2. /\ n.to_server = <<>> /\ n.to_client = q /\ n.client_end = net[c].client_end
      /\ n.server_end = FALSE
      /\ n = [to_server |-> n.to_server, to_client |-> n.to_client,
              client_end |-> n.client_end, server_end |-> n.server_end]
  BY <1>1 DEF StreamType
<1>3. net[c].to_client \in Seq(Msgs)
  BY DEF StreamType
<1>4. q \in Seq(Msgs) /\ ToSet(q) \subseteq Down(net[c]) \union {m}
  <2>1. PICK r : r = net[c].to_client
    OBVIOUS
  <2>2. m \in Msgs /\ r \in Seq(Msgs) /\ q \in {r, Append(r, m)} /\ Down(net[c]) = ToSet(r)
    BY <1>3, <2>1 DEF Down, Plain
  <2>3. Append(r, m) \in Seq(Msgs) /\ ToSet(Append(r, m)) = ToSet(r) \union {m}
    BY <2>2, AppendElements
  <2>4. CASE q = r
    BY <2>2, <2>4
  <2>5. CASE q = Append(r, m)
    BY <2>2, <2>3, <2>5
  <2> QED BY <2>2, <2>4, <2>5
<1>5. Answered(net[c], n)
  BY <1>2, <1>4, EmptyStream DEF Answered, Up, Down, Plain
<1> QED BY <1>1, <1>2, <1>4, <1>5, StreamAnswered, EmptyStream

(* Slot s changes to e, and with it perhaps the count of its port.         *)
LEMMA PortsStep ==
  ASSUME IInv, NEW s \in Slots, NEW e \in SlotType, slot' = [slot EXCEPT ![s] = e],
         workload' = workload, PortsTyped', raced \subseteq raced', Listed(e, PortList),
         \A p \in PortList \ raced' :
           /\ e.port = p => Fits(e, aggregation'[p])
           /\ Uses(e, p) \/ aggregation'[p] # aggregation[p]
                => \A t \in Slots : t # s => ~Uses(slot[t], p)
  PROVE  PortsInv'
<1>1. slot \in [Slots -> SlotType]
  BY DEF IInv, Types, TypeOK
<1>2. slot'[s] = e /\ \A t \in Slots : t # s => slot'[t] = slot[t]
  BY <1>1
<1>3. PortList' = PortList
  BY DEF PortList
<1>4. \A t \in Slots : Listed(slot'[t], PortList)
  BY <1>2 DEF IInv, PortsInv
<1>5. ASSUME NEW p \in PortList \ raced'
      PROVE  /\ \A t \in Slots : slot'[t].port = p => Fits(slot'[t], aggregation'[p])
             /\ \A t, u \in Slots : t # u /\ Uses(slot'[t], p) => ~Uses(slot'[u], p)
  <2>1. /\ \A t \in Slots : slot[t].port = p => Fits(slot[t], aggregation[p])
        /\ \A t, u \in Slots : t # u /\ Uses(slot[t], p) => ~Uses(slot[u], p)
    BY DEF IInv, PortsInv
  <2>2. ASSUME NEW t \in Slots, slot'[t].port = p PROVE Fits(slot'[t], aggregation'[p])
    <3>1. CASE t = s
      BY <1>2, <1>5, <2>2, <3>1
    <3>2. CASE t # s /\ aggregation'[p] = aggregation[p]
      BY <1>2, <2>1, <2>2, <3>2
    <3>3. CASE t # s /\ aggregation'[p] # aggregation[p]
      BY <1>2, <1>5, <2>2, <3>3 DEF Uses, Fits
    <3> QED BY <3>1, <3>2, <3>3
  <2>3. ASSUME NEW t \in Slots, NEW u \in Slots, t # u, Uses(slot'[t], p) PROVE ~Uses(slot'[u], p)
    BY <1>2, <1>5, <2>1, <2>3
  <2> QED BY <2>2, <2>3
<1> QED BY <1>3, <1>4, <1>5 DEF PortsInv

(* A slot that leaves the ports alone: no search finds one, and datagram   *)
(* threads at most end.                                                    *)
Calm(f, e) ==
  /\ Busy(e) => /\ Busy(f) /\ e.port = f.port
                /\ e.udp = "FREE" => f.udp = "FREE" /\ e.count = f.count
  /\ Finds(e) => e.thread = f.thread /\ e.port = f.port /\ e.count = f.count
  /\ e.thread = "COMPARE" => f.thread = "COMPARE" /\ e.search = f.search

LEMMA PortsKept ==
  ASSUME IInv, UNCHANGED <<workload, aggregation, raced>>,
         \A s \in Slots : Calm(slot[s], slot'[s])
  PROVE  PortsInv' /\ PortsTyped'
<1>1. PortList' = PortList /\ PortsTyped
  BY DEF PortList, PortsTyped, IInv, Types, TypeOK
<1>2. PortsTyped'
  BY <1>1 DEF PortsTyped
<1>3. \A s \in Slots : Listed(slot'[s], PortList)
  BY DEF IInv, PortsInv, Listed, Calm, Finds
<1>4. ASSUME NEW p \in PortList \ raced
      PROVE  /\ \A s \in Slots : slot'[s].port = p => Fits(slot'[s], aggregation[p])
             /\ \A s, t \in Slots : s # t /\ Uses(slot'[s], p) => ~Uses(slot'[t], p)
  <2>1. /\ \A s \in Slots : slot[s].port = p => Fits(slot[s], aggregation[p])
        /\ \A s, t \in Slots : s # t /\ Uses(slot[s], p) => ~Uses(slot[t], p)
    BY DEF IInv, PortsInv
  <2>2. ASSUME NEW s \in Slots PROVE Uses(slot'[s], p) => Uses(slot[s], p)
    BY DEF Calm, Uses, Finds
  <2>3. ASSUME NEW s \in Slots, slot'[s].port = p PROVE Fits(slot'[s], aggregation[p])
    BY <2>1, <2>3 DEF Calm, Fits, Finds
  <2> QED BY <2>1, <2>2, <2>3
<1> QED BY <1>1, <1>2, <1>3, <1>4 DEF PortsInv

LEMMA SlotQuiet ==
  ASSUME IInv, Running, NEW s \in Slots, NEW e \in SlotType, slot' = [slot EXCEPT ![s] = e],
         e.client = slot[s].client, e.avatar = slot[s].avatar,
         e.client = NoClient <=> e.thread = NONE, e.thread = "TLS" => slot[s].thread = "TLS",
         slot[s].thread = "LISTEN" => e.thread = "LISTEN", SlotInv(e, avatars),
         Calm(slot[s], e),
         net' \in [Clients -> StreamType], \A c \in Clients : Answered(net[c], net'[c]),
         UNCHANGED <<workload, client, backlog, aggregation, raced, avatars, avatar_count, server>>
  PROVE  IInv'
<1>1. slot \in [Slots -> SlotType]
  BY DEF IInv, Types, TypeOK
<1>2. \A f : Calm(f, f)
  BY DEF Calm
<1>3. \A t \in Slots : Calm(slot[t], slot'[t])
  BY <1>1, <1>2
<1>4. PortsInv' /\ PortsTyped'
  BY <1>3, PortsKept
<1> QED BY <1>4, SlotKept

-----------------------------------------------------------------------------
(* The handlers of the stream threads of the server.                       *)

LEMMA SlotFacts ==
  ASSUME IInv, NEW s \in Slots
  PROVE  /\ slot \in [Slots -> SlotType] /\ slot[s] \in SlotType /\ SlotInv(slot[s], avatars)
         /\ slot[s].client = NoClient <=> slot[s].thread = NONE
         /\ slot[s].thread # NONE => slot[s].client \in Clients
         /\ net \in [Clients -> StreamType] /\ client \in [Clients -> ClientType]
<1>1. /\ slot \in [Slots -> SlotType] /\ net \in [Clients -> StreamType]
      /\ client \in [Clients -> ClientType]
      /\ \A t \in Slots : (slot[t].client = NoClient) <=> (slot[t].thread = NONE)
  BY DEF IInv, Types, TypeOK
<1>2. slot[s].client \in Clients \union {NoClient}
  BY <1>1 DEF SlotType
<1> QED BY <1>1, <1>2 DEF IInv, SlotsInv

LEMMA ReceivedFacts ==
  ASSUME IInv, NEW s \in Slots, NEW type, Received(s, type)
  PROVE  /\ Running /\ slot[s].thread = "RUN" /\ slot[s].client \in Clients
         /\ net[slot[s].client].to_server # <<>>
         /\ Head(net[slot[s].client].to_server) \in Up(net[slot[s].client])
         /\ Head(net[slot[s].client].to_server).type = type
<1>1. Running /\ slot[s].thread = "RUN" /\ slot[s].client \in Clients
  BY SlotFacts DEF Received, NONE
<1>2. PICK q : q = net[slot[s].client].to_server
  OBVIOUS
<1>3. q \in Seq(Msgs) /\ q # <<>> /\ Head(q).type = type
  BY <1>1, <1>2, SlotFacts DEF StreamType, Received
<1> QED BY <1>1, <1>2, <1>3, TailMsgs DEF Up

LEMMA RespondMethods ==
  ASSUME IInv, NEW s \in Slots, vs_RESPOND_methods_loop(s)
  PROVE  IInv'
<1>1. PICK e : e = [slot[s] EXCEPT !.state = "RESPOND_USRAUTH"]
  OBVIOUS
<1>2. slot' = [slot EXCEPT ![s] = e]
  BY <1>1 DEF vs_RESPOND_methods_loop
<1>3. PICK f : f = slot[s] /\ f \in SlotType /\ SlotInv(f, avatars) /\ f.state = "RESPOND_METHODS"
               /\ (f.client = NoClient <=> f.thread = NONE) /\ f.thread = "RUN"
  BY SlotFacts, ReceivedFacts DEF vs_RESPOND_methods_loop
<1>4. /\ e.state = "RESPOND_USRAUTH" /\ e.thread = f.thread /\ e.client = f.client /\ e.web = f.web
      /\ e.user = f.user /\ e.avatar = f.avatar /\ e.token = f.token /\ e.flags = f.flags
      /\ e.udp = f.udp /\ e.dgram = f.dgram /\ e.port = f.port /\ e.peer = f.peer
      /\ e.count = f.count /\ e.search = f.search /\ e \in SlotType
  BY <1>1, <1>3 DEF SlotType
<1>5. SlotInv(e, avatars) /\ Calm(f, e)
  BY <1>3, <1>4 DEF SlotInv, Searches, Finds, Busy, Calm
<1>6. Plain(Methods)
  BY PlainMsgs
<1>7. net' \in [Clients -> StreamType] /\ \A c \in Clients : Answered(net[c], net'[c])
  BY <1>6, StreamReplied, ReceivedFacts, SlotFacts DEF vs_RESPOND_methods_loop
<1>8. Running /\ UNCHANGED <<workload, client, backlog, aggregation, raced, avatars, avatar_count, server>>
  BY ReceivedFacts DEF vs_RESPOND_methods_loop, serverVars
<1> QED BY <1>2, <1>3, <1>4, <1>5, <1>7, <1>8, SlotQuiet

(* A stream thread leaves its loop.                                        *)
LEMMA EndedSlot ==
  ASSUME NEW f \in SlotType, NEW V, SlotInv(f, V), f.thread \in {"TLS", "RUN", "BYE"}, NEW e, e = Ended(f)
  PROVE  /\ e \in SlotType /\ SlotInv(e, V)
         /\ e.thread \in {"JOIN", "FREE"} /\ e.state = "CLOSED"
         /\ e.client = f.client /\ e.web = f.web /\ e.user = f.user /\ e.avatar = f.avatar
         /\ e.token = f.token /\ e.udp = f.udp /\ e.dgram = f.dgram /\ e.port = f.port
         /\ e.peer = f.peer /\ e.count = f.count
<1>1. /\ e.thread = IF f.web THEN "FREE" ELSE "JOIN"
      /\ e.client = f.client /\ e.web = f.web /\ e.user = f.user /\ e.avatar = f.avatar
      /\ e.token = f.token /\ e.udp = f.udp /\ e.dgram = f.dgram /\ e.port = f.port
      /\ e.peer = f.peer /\ e.count = f.count /\ e.state = "CLOSED"
  BY DEF Ended, SlotType
<1>2. e \in SlotType
  BY ZenonT(60) DEF Ended, SlotType
<1>3. SlotInv(e, V)
  BY <1>1 DEF SlotInv, Searches, Finds, Busy, Calm, NONE
<1> QED BY <1>1, <1>2, <1>3

LEMMA EndedKept ==
  ASSUME IInv, Running, NEW s \in Slots, slot[s].thread \in {"TLS", "RUN", "BYE"},
         slot' = [slot EXCEPT ![s] = Ended(@)],
         net' \in [Clients -> StreamType], \A c \in Clients : Answered(net[c], net'[c]),
         UNCHANGED <<workload, client, backlog, aggregation, raced, avatars, avatar_count, server>>
  PROVE  IInv'
<1>1. PICK e, f : e = Ended(f) /\ f = slot[s]
  OBVIOUS
<1>2. slot' = [slot EXCEPT ![s] = e]
  BY <1>1
<1>3. /\ f \in SlotType /\ SlotInv(f, avatars) /\ (f.client = NoClient <=> f.thread = NONE)
      /\ f.thread \in {"TLS", "RUN", "BYE"}
  BY <1>1, SlotFacts DEF NONE
<1>4. /\ e \in SlotType /\ SlotInv(e, avatars) /\ e.thread \in {"JOIN", "FREE"}
      /\ e.client = f.client /\ e.avatar = f.avatar /\ e.udp = f.udp /\ e.port = f.port
      /\ e.count = f.count
  BY <1>1, <1>3, EndedSlot
<1>5. /\ e.client = NoClient <=> e.thread = NONE
      /\ e.thread # "TLS" /\ f.thread # "LISTEN" /\ Calm(f, e)
  BY <1>3, <1>4 DEF Busy, Finds, Calm, NONE
<1> QED BY <1>1, <1>2, <1>3, <1>4, <1>5, SlotQuiet

LEMMA HungUp ==
  ASSUME IInv, Running, NEW s \in Slots, slot[s].thread \in {"TLS", "RUN", "BYE"},
         slot' = [slot EXCEPT ![s] = Ended(@)], net' = Hangup(slot[s].client),
         UNCHANGED <<workload, client, backlog, aggregation, raced, avatars, avatar_count, server>>
  PROVE  IInv'
<1>1. net \in [Clients -> StreamType] /\ slot[s].client \in Clients
  BY SlotFacts DEF NONE
<1>2. net' \in [Clients -> StreamType] /\ \A c \in Clients : Answered(net[c], net'[c])
  BY <1>1, StreamHungUp
<1> QED BY <1>2, EndedKept

LEMMA StreamEnds ==
  ASSUME IInv, NEW s \in Slots, vs_stream_ends(s)
  PROVE  IInv'
BY HungUp DEF vs_stream_ends, serverVars

LEMMA UserRefused ==
  ASSUME IInv, NEW s \in Slots,
         slot[s].state = "RESPOND_USRAUTH", Received(s, "USER_AUTH_REQUEST_PASSWORD"),
         slot' = [slot EXCEPT ![s].state = "NEGOTIATE_TOKEN_DED"],
         net' = Answer(slot[s].client, AuthFailure),
         UNCHANGED <<workload, client, backlog, aggregation, raced, avatars, avatar_count, server>>
  PROVE  IInv'
<1>1. PICK e : e = [slot[s] EXCEPT !.state = "NEGOTIATE_TOKEN_DED"]
  OBVIOUS
<1>2. slot' = [slot EXCEPT ![s] = e]
  BY <1>1
<1>3. PICK f : f = slot[s] /\ f \in SlotType /\ SlotInv(f, avatars)
               /\ (f.client = NoClient <=> f.thread = NONE) /\ f.thread = "RUN"
  BY SlotFacts, ReceivedFacts
<1>4. /\ e.state = "NEGOTIATE_TOKEN_DED" /\ e.thread = f.thread /\ e.client = f.client /\ e.web = f.web
      /\ e.user = f.user /\ e.avatar = f.avatar /\ e.token = f.token /\ e.flags = f.flags
      /\ e.udp = f.udp /\ e.dgram = f.dgram /\ e.port = f.port /\ e.peer = f.peer
      /\ e.count = f.count /\ e.search = f.search /\ e \in SlotType
  BY <1>1, <1>3 DEF SlotType
<1>5. SlotInv(e, avatars) /\ Calm(f, e)
  BY <1>3, <1>4 DEF SlotInv, Searches, Finds, Busy, Calm, NONE
<1>6. Plain(AuthFailure)
  BY PlainMsgs
<1>7. net' \in [Clients -> StreamType] /\ \A c \in Clients : Answered(net[c], net'[c])
  BY <1>6, StreamReplied, ReceivedFacts, SlotFacts
<1>8. Running
  BY ReceivedFacts
<1> QED BY ZenonT(60), <1>2, <1>3, <1>4, <1>5, <1>7, <1>8, SlotQuiet

LEMMA WaitListen ==
  ASSUME IInv, NEW s \in Slots, vs_wait_for_LISTEN(s)
  PROVE  IInv'
<1>1. PICK f : f = slot[s] /\ f \in SlotType /\ SlotInv(f, avatars)
               /\ (f.client = NoClient <=> f.thread = NONE) /\ f.thread = "WAIT"
               /\ f.client \in Clients /\ f.port \in Int
  BY SlotFacts DEF vs_wait_for_LISTEN, NONE, SlotType
<1>2. PICK e : e = [f EXCEPT !.thread = "RUN", !.state = "NEGOTIATE_NEWHOST", !.url = f.port]
  OBVIOUS
<1>3. slot' = [slot EXCEPT ![s] = e]
  BY <1>1, <1>2 DEF vs_wait_for_LISTEN
<1>4. /\ e.state = "NEGOTIATE_NEWHOST" /\ e.thread = "RUN" /\ e.client = f.client /\ e.web = f.web
      /\ e.user = f.user /\ e.avatar = f.avatar /\ e.token = f.token /\ e.flags = f.flags
      /\ e.udp = f.udp /\ e.dgram = f.dgram /\ e.port = f.port /\ e.peer = f.peer
      /\ e.count = f.count /\ e.search = f.search /\ e \in SlotType
  BY ZenonT(60), <1>1, <1>2 DEF SlotType
<1>5. SlotInv(e, avatars) /\ Calm(f, e) /\ (e.client = NoClient <=> e.thread = NONE)
  BY <1>1, <1>4 DEF SlotInv, Searches, Finds, Busy, Calm, NONE
<1>6. Plain(HostUrl(f.port))
  BY <1>1, PlainMsgs
<1>7. net' \in [Clients -> StreamType] /\ \A c \in Clients : Answered(net[c], net'[c])
  BY <1>1, <1>6, StreamTold, SlotFacts DEF vs_wait_for_LISTEN
<1>8. Running /\ UNCHANGED <<workload, client, backlog, aggregation, raced, avatars, avatar_count, server>>
  BY DEF vs_wait_for_LISTEN, serverVars
<1> QED BY <1>1, <1>3, <1>4, <1>5, <1>7, <1>8, SlotQuiet

LEMMA NewHost ==
  ASSUME IInv, NEW s \in Slots, vs_NEGOTIATE_newhost_loop(s)
  PROVE  IInv'
<1>1. /\ slot[s].state = "NEGOTIATE_NEWHOST" /\ Received(s, "CONFIRM_L_HOST_URL")
      /\ UNCHANGED <<workload, client, backlog, aggregation, raced, avatars, avatar_count, server>>
  BY DEF vs_NEGOTIATE_newhost_loop, serverVars
<1>2. PICK f : f = slot[s] /\ f \in SlotType /\ SlotInv(f, avatars)
               /\ (f.client = NoClient <=> f.thread = NONE) /\ f.thread = "RUN"
               /\ f.client \in Clients /\ net[f.client].to_server # <<>> /\ Running
  BY <1>1, SlotFacts, ReceivedFacts
<1>3. CASE slot' = [slot EXCEPT ![s] = Ended(@)] /\ net' = Hangup(f.client)
  BY <1>1, <1>2, <1>3, HungUp
<1>4. CASE /\ slot' = [slot EXCEPT ![s].state = "STREAM_OPEN"]
           /\ net' = [net EXCEPT ![f.client].to_server = Tail(@)]
  <2>1. PICK e : e = [f EXCEPT !.state = "STREAM_OPEN"]
    OBVIOUS
  <2>2. slot' = [slot EXCEPT ![s] = e]
    BY <1>2, <1>4, <2>1
  <2>3. /\ e.state = "STREAM_OPEN" /\ e.thread = f.thread /\ e.client = f.client /\ e.web = f.web
        /\ e.user = f.user /\ e.avatar = f.avatar /\ e.token = f.token /\ e.flags = f.flags
        /\ e.udp = f.udp /\ e.dgram = f.dgram /\ e.port = f.port /\ e.peer = f.peer
        /\ e.count = f.count /\ e.search = f.search /\ e \in SlotType
    BY <1>2, <2>1 DEF SlotType
  <2>4. SlotInv(e, avatars) /\ Calm(f, e)
    BY <1>1, <1>2, <2>3 DEF SlotInv, Searches, Finds, Busy, Calm, NONE
  <2>5. net' \in [Clients -> StreamType] /\ \A c \in Clients : Answered(net[c], net'[c])
    BY <1>2, <1>4, SlotFacts, StreamRead
  <2> QED BY <1>1, <1>2, <2>2, <2>3, <2>4, <2>5, SlotQuiet
<1>5. CASE slot' = slot /\ net' = [net EXCEPT ![f.client].to_server = Tail(@)]
  <2>1. slot' = [slot EXCEPT ![s] = f] /\ f.thread # "TLS" /\ Calm(f, f)
    BY <1>2, <1>5, SlotFacts DEF Calm
  <2>2. net' \in [Clients -> StreamType] /\ \A c \in Clients : Answered(net[c], net'[c])
    BY <1>2, <1>5, SlotFacts, StreamRead
  <2> QED BY <1>1, <1>2, <2>1, <2>2, SlotQuiet
<1>6. CASE slot' = [slot EXCEPT ![s] = Cancelled(Ended(@))] /\ net' = Hangup(f.client)
  <2>1. PICK g : g = Ended(f)
    OBVIOUS
  <2>2. PICK e : e = Cancelled(g)
    OBVIOUS
  <2>3. slot' = [slot EXCEPT ![s] = e]
    BY <1>2, <1>6, <2>1, <2>2
  <2>4. g \in SlotType /\ SlotInv(g, avatars) /\ g.thread \in {"JOIN", "FREE"} /\ g.state = "CLOSED"
        /\ g.client = f.client /\ g.avatar = f.avatar /\ g.udp = f.udp /\ g.port = f.port
        /\ g.count = f.count /\ g.dgram = f.dgram
    BY <1>2, <2>1, EndedSlot
  <2>5. /\ e.state = "CLOSED" /\ e.thread = g.thread /\ e.client = g.client /\ e.web = g.web
        /\ e.user = g.user /\ e.avatar = g.avatar /\ e.token = g.token
        /\ e.udp = IF g.udp \in {"START", "RUN"} THEN "ENDED" ELSE g.udp
        /\ e.port = g.port /\ e.count = g.count /\ e.dgram = g.dgram /\ e.peer = g.peer
        /\ e \in SlotType
    BY ZenonT(60), <2>2, <2>4 DEF SlotType, Cancelled
  <2>6. Calm(f, e) /\ e.thread # NONE /\ e.thread # "TLS"
    BY <2>4, <2>5 DEF Busy, Finds, Calm, NONE
  <2>7. SlotInv(e, avatars)
    BY <2>4, <2>5 DEF SlotInv, Searches, Finds, Busy, NONE
  <2>8. net' \in [Clients -> StreamType] /\ \A c \in Clients : Answered(net[c], net'[c])
    BY <1>2, <1>6, SlotFacts, StreamHungUp
  <2>9. f.client # NoClient
    BY <1>2, NoClientApart
  <2> QED BY <1>1, <1>2, <2>3, <2>4, <2>5, <2>6, <2>7, <2>8, <2>9, SlotQuiet
<1> QED BY <1>2, <1>3, <1>4, <1>5, <1>6 DEF vs_NEGOTIATE_newhost_loop

(* A web client is sent a close frame.                                     *)
LEMMA ByeKept ==
  ASSUME IInv, Running, NEW s \in Slots, slot[s].thread = "RUN",
         slot[s].web,
         slot' = [slot EXCEPT ![s].state = "CLOSING", ![s].thread = "BYE"],
         net' \in [Clients -> StreamType], \A c \in Clients : Answered(net[c], net'[c]),
         UNCHANGED <<workload, client, backlog, aggregation, raced, avatars, avatar_count, server>>
  PROVE  IInv'
<1>1. PICK f : f = slot[s] /\ f \in SlotType /\ SlotInv(f, avatars)
               /\ (f.client = NoClient <=> f.thread = NONE) /\ f.thread = "RUN" /\ f.web
  BY SlotFacts
<1>2. PICK e : e = [f EXCEPT !.state = "CLOSING", !.thread = "BYE"]
  OBVIOUS
<1>3. slot' = [slot EXCEPT ![s] = e]
  BY <1>1, <1>2
<1>4. /\ e.state = "CLOSING" /\ e.thread = "BYE" /\ e.client = f.client /\ e.web = f.web
      /\ e.user = f.user /\ e.avatar = f.avatar /\ e.token = f.token /\ e.flags = f.flags
      /\ e.udp = f.udp /\ e.dgram = f.dgram /\ e.port = f.port /\ e.peer = f.peer
      /\ e.count = f.count /\ e.search = f.search /\ e \in SlotType
  BY ZenonT(60), <1>1, <1>2 DEF SlotType
<1>5. ~Busy(f)
  BY <1>1 DEF SlotInv
<1>6. SlotInv(e, avatars) /\ Calm(f, e) /\ (e.client = NoClient <=> e.thread = NONE)
  BY <1>1, <1>4, <1>5 DEF SlotInv, Searches, Finds, Busy, Calm, NONE
<1> QED BY <1>1, <1>3, <1>4, <1>6, SlotQuiet

LEMMA WsCloses ==
  ASSUME IInv, NEW s \in Slots, vs_ws_close(s)
  PROVE  IInv'
<1>1. slot[s].client \in Clients /\ net \in [Clients -> StreamType]
  BY SlotFacts DEF vs_ws_close, NONE
<1>2. net' = ToClient(slot[s].client, CloseFrame) /\ Plain(CloseFrame)
  BY PlainMsgs DEF vs_ws_close
<1>3. net' \in [Clients -> StreamType] /\ \A c \in Clients : Answered(net[c], net'[c])
  BY <1>1, <1>2, StreamTold
<1> QED BY <1>3, ByeKept DEF vs_ws_close, serverVars

LEMMA WsRecvMsg ==
  ASSUME IInv, NEW s \in Slots, vs_ws_recv_msg_callback(s)
  PROVE  IInv'
<1>1. PICK c : c = slot[s].client
  OBVIOUS
<1>2. /\ c \in Clients /\ net \in [Clients -> StreamType] /\ Running /\ net[c].to_server # <<>>
      /\ slot[s].thread \in {"RUN", "BYE"}
      /\ UNCHANGED <<workload, client, backlog, aggregation, raced, avatars, avatar_count, server>>
  BY <1>1, SlotFacts DEF vs_ws_recv_msg_callback, serverVars, NONE
<1>3. CASE /\ slot' = [slot EXCEPT ![s] = Ended(@)]
           /\ \E r : /\ r = IF slot[s].thread = "RUN" THEN <<CloseFrame>> ELSE <<>>
                     /\ net' = [Hangup(c) EXCEPT ![c].to_client = @ \o r]
  <2>1. PICK r, h, n : /\ r = IF slot[s].thread = "RUN" THEN <<CloseFrame>> ELSE <<>>
                       /\ h = Hangup(c) /\ net' = [h EXCEPT ![c].to_client = @ \o r]
                       /\ n = [net[c] EXCEPT !.server_end = FALSE, !.to_server = <<>>]
    BY <1>3
  <2>2. net[c] \in StreamType /\ net[c].to_client \in Seq(Msgs)
    BY <1>2 DEF StreamType
  <2>3. n.to_client = net[c].to_client
    BY <2>1, <2>2 DEF StreamType
  <2>4. h = [net EXCEPT ![c] = n] /\ h[c] = n
    BY <1>2, <2>1 DEF Hangup
  <2>5. PICK q : q = net[c].to_client \o r
    OBVIOUS
  <2>6. q \in {net[c].to_client, Append(net[c].to_client, CloseFrame)}
    <3>1. CASE r = <<>>
      BY <2>2, <2>5, <3>1
    <3>2. CASE r = <<CloseFrame>>
      BY <2>2, <2>5, <3>2, AppendIsConcat
    <3> QED BY <2>1, <3>1, <3>2
  <2>7. net' = [h EXCEPT ![c] = [n EXCEPT !.to_client = q]]
    BY <2>1, <2>3, <2>4, <2>5
  <2>8. net' = [net EXCEPT ![c] = [n EXCEPT !.to_client = q]]
    BY <1>2, <2>4, <2>7
  <2>9. [n EXCEPT !.to_client = q]
          = [net[c] EXCEPT !.server_end = FALSE, !.to_server = <<>>, !.to_client = q]
    BY <2>1
  <2>10. net' = [net EXCEPT ![c] = [net[c] EXCEPT !.server_end = FALSE, !.to_server = <<>>,
                                                  !.to_client = q]]
    BY <2>8, <2>9
  <2>11. net' \in [Clients -> StreamType] /\ \A d \in Clients : Answered(net[d], net'[d])
    BY <1>2, <2>6, <2>10, StreamLeft, PlainMsgs
  <2> QED BY <1>2, <1>3, <2>11, EndedKept
<1>4. CASE slot' = slot /\ net' = [net EXCEPT ![c].to_server = Tail(@)]
  <2>1. PICK f : f = slot[s] /\ f \in SlotType /\ SlotInv(f, avatars)
                 /\ (f.client = NoClient <=> f.thread = NONE) /\ f.thread \in {"RUN", "BYE"}
    BY <1>2, SlotFacts
  <2>2. slot' = [slot EXCEPT ![s] = f] /\ f.thread # "TLS" /\ Calm(f, f)
    BY <1>4, <2>1, SlotFacts DEF Calm
  <2>3. net' \in [Clients -> StreamType] /\ \A d \in Clients : Answered(net[d], net'[d])
    BY <1>2, <1>4, StreamRead
  <2> QED BY <1>2, <2>1, <2>2, <2>3, SlotQuiet
<1> QED BY <1>1, <1>3, <1>4 DEF vs_ws_recv_msg_callback

LEMMA JoinUdp ==
  ASSUME IInv, NEW s \in Slots, vs_join_udp_thread(s)
  PROVE  IInv'
<1>1. PICK f : f = slot[s] /\ f \in SlotType /\ SlotInv(f, avatars)
               /\ (f.client = NoClient <=> f.thread = NONE) /\ f.thread = "JOIN" /\ ~Busy(f)
  BY SlotFacts DEF vs_join_udp_thread, Joined, Busy, NONE
<1>2. PICK e : e = [f EXCEPT !.thread = "FREE"]
  OBVIOUS
<1>3. slot' = [slot EXCEPT ![s] = e]
  BY <1>1, <1>2 DEF vs_join_udp_thread
<1>4. /\ e.state = f.state /\ e.thread = "FREE" /\ e.client = f.client /\ e.web = f.web
      /\ e.user = f.user /\ e.avatar = f.avatar /\ e.token = f.token /\ e.flags = f.flags
      /\ e.udp = f.udp /\ e.dgram = f.dgram /\ e.port = f.port /\ e.peer = f.peer
      /\ e.count = f.count /\ e.search = f.search /\ e \in SlotType
  BY <1>1, <1>2 DEF SlotType
<1>5. SlotInv(e, avatars) /\ Calm(f, e) /\ (e.client = NoClient <=> e.thread = NONE)
  BY <1>1, <1>4 DEF SlotInv, Searches, Finds, Busy, Calm, NONE
<1>6. net' \in [Clients -> StreamType] /\ \A c \in Clients : Answered(net[c], net'[c])
  BY SlotFacts, StreamsSame DEF vs_join_udp_thread
<1>7. Running /\ UNCHANGED <<workload, client, backlog, aggregation, raced, avatars, avatar_count, server>>
  BY DEF vs_join_udp_thread, serverVars
<1> QED BY <1>1, <1>3, <1>4, <1>5, <1>6, <1>7, SlotQuiet

LEMMA SlotCleared ==
  ASSUME IInv, NEW s \in Slots, vs_slot_cleared(s)
  PROVE  IInv'
<1>1. PICK f : f = slot[s] /\ f \in SlotType /\ SlotInv(f, avatars)
               /\ (f.client = NoClient <=> f.thread = NONE)
  BY SlotFacts
<1>2. PICK token \in {f.token, NoToken} :
        slot' = [slot EXCEPT ![s] = [f EXCEPT !.flags = {}, !.token = token]]
  <2>1. CASE slot' = [slot EXCEPT ![s].flags = {}, ![s].token = NoToken]
    BY <1>1, <2>1
  <2>2. CASE slot' = [slot EXCEPT ![s].flags = {}]
    <3>1. [f EXCEPT !.flags = {}] = [f EXCEPT !.flags = {}, !.token = f.token]
      BY <1>1 DEF SlotType
    <3> QED BY <1>1, <2>2, <3>1
  <2> QED BY <2>1, <2>2 DEF vs_slot_cleared
<1>3. PICK e : e = [f EXCEPT !.flags = {}, !.token = token]
  OBVIOUS
<1>4. token \in Int
  BY <1>1, <1>2 DEF SlotType, NoToken
<1>5. /\ e.state = f.state /\ e.thread = f.thread /\ e.client = f.client /\ e.web = f.web
      /\ e.user = f.user /\ e.avatar = f.avatar /\ e.token = token
      /\ e.udp = f.udp /\ e.dgram = f.dgram /\ e.port = f.port /\ e.peer = f.peer
      /\ e.count = f.count /\ e.search = f.search /\ e \in SlotType
  BY <1>1, <1>3, <1>4 DEF SlotType
<1>6. SlotInv(e, avatars) /\ Calm(f, e)
  BY <1>1, <1>2, <1>5 DEF SlotInv, Searches, Finds, Busy, Calm
<1>7. net' \in [Clients -> StreamType] /\ \A c \in Clients : Answered(net[c], net'[c])
  BY SlotFacts, StreamsSame DEF vs_slot_cleared
<1>8. Running /\ UNCHANGED <<workload, client, backlog, aggregation, raced, avatars, avatar_count, server>>
  BY DEF vs_slot_cleared, serverVars
<1> QED BY ZenonT(60), <1>1, <1>2, <1>3, <1>5, <1>6, <1>7, <1>8, SlotQuiet

(* A request with the token of the session comes from its client.          *)
LEMMA ListenPacket ==
  ASSUME IInv, NEW s \in Slots, vs_LISTEN_handle_packet(s)
  PROVE  IInv'
<1>1. PICK f : f = slot[s] /\ f \in SlotType /\ SlotInv(f, avatars)
               /\ (f.client = NoClient <=> f.thread = NONE)
  BY SlotFacts
<1>2. PICK c \in Clients : Connects(c, s) /\ slot' = [slot EXCEPT ![s] = [f EXCEPT !.dgram = "OPEN", !.peer = c]]
  BY <1>1 DEF vs_LISTEN_handle_packet
<1>3. f.udp = "RUN" /\ client[c].udp = "REQUEST" /\ client[c].token = f.token
  BY <1>1, <1>2 DEF Connects
<1>4. f.avatar \in avatars /\ f.token \in {NoToken, f.avatar}
  BY <1>1, <1>3 DEF SlotInv, Searches, Finds, Busy, Calm
<1>5. client[c].avatar = f.avatar /\ client[c].avatar # NoAvatar
  BY <1>3, <1>4 DEF IInv, ClientsInv, ClientInv, NoToken, NoAvatar
<1>6. f.client = c
  BY <1>1, <1>4, <1>5 DEF IInv, ClientsInv, Link, Told
<1>7. PICK e : e = [f EXCEPT !.dgram = "OPEN", !.peer = c]
  OBVIOUS
<1>8. /\ e.state = f.state /\ e.thread = f.thread /\ e.client = f.client /\ e.web = f.web
      /\ e.user = f.user /\ e.avatar = f.avatar /\ e.token = f.token
      /\ e.udp = f.udp /\ e.dgram = "OPEN" /\ e.port = f.port /\ e.peer = c
      /\ e.count = f.count /\ e.search = f.search /\ e \in SlotType
  BY <1>1, <1>7 DEF SlotType
<1>9. SlotInv(e, avatars) /\ Calm(f, e)
  BY <1>1, <1>6, <1>8 DEF SlotInv, Searches, Finds, Busy, Calm
<1>10. net' \in [Clients -> StreamType] /\ \A d \in Clients : Answered(net[d], net'[d])
  BY SlotFacts, StreamsSame DEF vs_LISTEN_handle_packet
<1>11. Running /\ UNCHANGED <<workload, client, backlog, aggregation, raced, avatars, avatar_count, server>>
  BY DEF vs_LISTEN_handle_packet, serverVars
<1> QED BY ZenonT(60), <1>1, <1>2, <1>7, <1>8, <1>9, <1>10, <1>11, SlotQuiet

-----------------------------------------------------------------------------
(* Ports are taken and freed.                                              *)

LEMMA LeastNat ==
  ASSUME NEW U, U \subseteq Nat, U # {}
  PROVE  \E i \in U : \A j \in U : i <= j
<1>1. PICK i \in U : \A j \in U : ~(<<j, i>> \in OpToRel(<, Nat))
  BY NatLessThanWellFounded, WFMin
<1>2. \A j \in U : ~(j < i)
  BY <1>1 DEF OpToRel
<1> QED BY <1>2

LEMMA PortFacts ==
  ASSUME IInv
  PROVE  /\ PortsTyped /\ workload.port_low \in Nat
         /\ PortList \subseteq Nat /\ \A p \in PortList : p >= 49152
         /\ workload' = workload => PortList' = PortList
<1>1. workload.port_low \in Nat /\ workload.ports \in Nat /\ workload.port_low >= 49152
  BY SessionsAssumption DEF IInv, Types, TypeOK
<1> QED BY <1>1 DEF IInv, Types, TypeOK, PortsTyped, PortList

LEMMA SlotPorts ==
  ASSUME IInv, NEW s \in Slots
  PROVE  /\ Listed(slot[s], PortList)
         /\ \A p \in PortList \ raced :
              /\ slot[s].port = p => Fits(slot[s], aggregation[p])
              /\ Uses(slot[s], p) => \A t \in Slots : t # s => ~Uses(slot[t], p)
BY DEF IInv, PortsInv

(* The datagram thread of a slot reads the count of its port.              *)
LEMMA FreeingKept ==
  ASSUME IInv, Running, NEW s \in Slots, slot[s].udp \in {"START", "RUN"}, slot' = Freeing(s),
         UNCHANGED <<workload, client, net, backlog, aggregation, raced, avatars, avatar_count, server>>
  PROVE  IInv'
<1>1. PICK f : f = slot[s] /\ f \in SlotType /\ SlotInv(f, avatars)
               /\ (f.client = NoClient <=> f.thread = NONE) /\ Busy(f)
  BY SlotFacts DEF Busy
<1>2. PICK n : n = IF f.port \in PortList THEN aggregation[f.port] ELSE 0
  OBVIOUS
<1>3. n \in 0..UINT_MAX
  BY <1>2, PortFacts, SessionsAssumption DEF PortsTyped
<1>4. PICK e : e = [f EXCEPT !.udp = "FREE", !.count = n]
  OBVIOUS
<1>5. slot' = [slot EXCEPT ![s] = e]
  BY <1>1, <1>2, <1>4 DEF Freeing
<1>6. /\ e.state = f.state /\ e.thread = f.thread /\ e.client = f.client /\ e.web = f.web
      /\ e.user = f.user /\ e.avatar = f.avatar /\ e.token = f.token
      /\ e.udp = "FREE" /\ e.dgram = f.dgram /\ e.port = f.port /\ e.peer = f.peer
      /\ e.count = n /\ e.search = f.search /\ e \in SlotType
  BY ZenonT(60), <1>1, <1>3, <1>4 DEF SlotType
<1>7. SlotInv(e, avatars) /\ ~Finds(e) /\ e.thread # "COMPARE"
  BY <1>1, <1>6 DEF SlotInv, Searches, Finds, Busy
<1>8. PortsTyped'
  BY PortFacts DEF PortsTyped
<1>9. ASSUME NEW p \in PortList \ raced
      PROVE  /\ e.port = p => Fits(e, aggregation[p])
             /\ Uses(e, p) => \A t \in Slots : t # s => ~Uses(slot[t], p)
  <2>1. /\ f.port = p => Fits(f, aggregation[p])
        /\ Uses(f, p) => \A t \in Slots : t # s => ~Uses(slot[t], p)
    BY <1>1, SlotPorts
  <2>2. Uses(e, p) => Uses(f, p)
    BY <1>1, <1>6, <1>7 DEF Uses
  <2>3. ASSUME e.port = p PROVE Fits(e, aggregation[p])
    BY <1>1, <1>2, <1>6, <1>7, <2>1, <2>3 DEF Fits
  <2> QED BY <2>1, <2>2, <2>3
<1>10. Listed(e, PortList)
  BY <1>7 DEF Listed
<1>11. PortsInv'
  BY <1>5, <1>6, <1>8, <1>9, <1>10, PortsStep
<1>12. net' \in [Clients -> StreamType] /\ \A c \in Clients : Answered(net[c], net'[c])
  BY SlotFacts, StreamsSame
<1> QED BY <1>1, <1>5, <1>6, <1>7, <1>8, <1>11, <1>12, SlotKept

LEMMA InitDgram ==
  ASSUME IInv, NEW s \in Slots, vs_init_dgram_ctx(s)
  PROVE  IInv'
<1>1. /\ Running /\ slot[s].udp = "START"
      /\ UNCHANGED <<workload, client, net, backlog, aggregation, raced, avatars, avatar_count, server>>
  BY DEF vs_init_dgram_ctx, serverVars
<1>2. CASE slot' = Freeing(s)
  BY <1>1, <1>2, FreeingKept
<1>3. CASE slot' = [slot EXCEPT ![s].udp = "RUN", ![s].dgram = "LISTEN"]
  <2>1. PICK f : f = slot[s] /\ f \in SlotType /\ SlotInv(f, avatars)
                 /\ (f.client = NoClient <=> f.thread = NONE) /\ Busy(f)
    BY <1>1, SlotFacts DEF Busy
  <2>2. PICK e : e = [f EXCEPT !.udp = "RUN", !.dgram = "LISTEN"]
    OBVIOUS
  <2>3. slot' = [slot EXCEPT ![s] = e]
    BY <1>3, <2>1, <2>2
  <2>4. /\ e.state = f.state /\ e.thread = f.thread /\ e.client = f.client /\ e.web = f.web
        /\ e.user = f.user /\ e.avatar = f.avatar /\ e.token = f.token
        /\ e.udp = "RUN" /\ e.dgram = "LISTEN" /\ e.port = f.port /\ e.peer = f.peer
        /\ e.count = f.count /\ e.search = f.search /\ e \in SlotType
    BY ZenonT(60), <2>1, <2>2 DEF SlotType
  <2>5. SlotInv(e, avatars) /\ Calm(f, e)
    BY <2>1, <2>4 DEF SlotInv, Searches, Finds, Busy, Calm
  <2>6. net' \in [Clients -> StreamType] /\ \A c \in Clients : Answered(net[c], net'[c])
    BY <1>1, SlotFacts, StreamsSame
  <2> QED BY <1>1, <2>1, <2>3, <2>4, <2>5, <2>6, SlotQuiet
<1> QED BY <1>2, <1>3 DEF vs_init_dgram_ctx

LEMMA DgramEnds ==
  ASSUME IInv, NEW s \in Slots, vs_dgram_ends(s)
  PROVE  IInv'
BY FreeingKept DEF vs_dgram_ends, serverVars

(* ... and writes it: no other slot uses the port.                         *)
LEMMA ClearVconn ==
  ASSUME IInv, NEW s \in Slots, vs_clear_vconn(s)
  PROVE  IInv'
<1>1. /\ Running /\ UNCHANGED <<workload, client, net, backlog, raced, avatars, avatar_count, server>>
      /\ aggregation' = FreedPort(s)
  BY DEF vs_clear_vconn, serverVars
<1>2. PICK f : f = slot[s] /\ f \in SlotType /\ SlotInv(f, avatars)
               /\ (f.client = NoClient <=> f.thread = NONE) /\ Busy(f)
  BY SlotFacts DEF vs_clear_vconn, Busy
<1>3. PICK e : e = [f EXCEPT !.udp = "ENDED", !.dgram = "CLOSED", !.peer = NoClient, !.count = 0]
  OBVIOUS
<1>4. slot' = [slot EXCEPT ![s] = e]
  BY <1>2, <1>3 DEF vs_clear_vconn
<1>5. /\ e.state = f.state /\ e.thread = f.thread /\ e.client = f.client /\ e.web = f.web
      /\ e.user = f.user /\ e.avatar = f.avatar /\ e.token = f.token
      /\ e.udp = "ENDED" /\ e.dgram = "CLOSED" /\ e.port = f.port /\ e \in SlotType
  <2>1. 0 \in 0..UINT_MAX
    BY SessionsAssumption
  <2> QED BY ZenonT(60), <1>2, <1>3, <2>1 DEF SlotType
<1>6. SlotInv(e, avatars) /\ ~Busy(e) /\ ~Finds(e) /\ e.thread # "COMPARE"
  BY <1>2, <1>5 DEF SlotInv, Searches, Finds, Busy
<1>7. PICK n : /\ n = IF f.count = 0 THEN UINT_MAX ELSE f.count - 1
               /\ n \in 0..UINT_MAX
  <2>1. f.count \in 0..UINT_MAX
    BY <1>2 DEF SlotType
  <2> QED BY <2>1, SessionsAssumption
<1>8. aggregation' = IF f.port \in PortList THEN [aggregation EXCEPT ![f.port] = n] ELSE aggregation
  BY <1>1, <1>2, <1>7 DEF FreedPort
<1>9. aggregation \in [PortList -> 0..UINT_MAX] /\ raced \subseteq Int /\ PortList' = PortList
  BY <1>1, PortFacts DEF PortsTyped
<1>10. /\ aggregation' \in [PortList -> 0..UINT_MAX]
       /\ \A p \in PortList : p # f.port => aggregation'[p] = aggregation[p]
  BY <1>7, <1>8, <1>9
<1>11. PortsTyped'
  BY <1>1, <1>9, <1>10 DEF PortsTyped
<1>12. ASSUME NEW p \in PortList \ raced
       PROVE  /\ Fits(e, aggregation'[p]) /\ ~Uses(e, p)
              /\ aggregation'[p] # aggregation[p] => \A t \in Slots : t # s => ~Uses(slot[t], p)
  <2>1. Uses(f, p) => \A t \in Slots : t # s => ~Uses(slot[t], p)
    BY <1>2, SlotPorts
  <2>2. p = f.port => Uses(f, p)
    BY <1>2 DEF Uses
  <2> QED BY <1>6, <1>10, <2>1, <2>2 DEF Fits, Uses
<1>13. Listed(e, PortList)
  BY <1>6 DEF Listed
<1>14. PortsInv'
  BY <1>1, <1>4, <1>5, <1>11, <1>12, <1>13, PortsStep
<1>15. net' \in [Clients -> StreamType] /\ \A c \in Clients : Answered(net[c], net'[c])
  BY <1>1, SlotFacts, StreamsSame
<1> QED BY <1>1, <1>2, <1>4, <1>5, <1>6, <1>11, <1>14, <1>15, SlotKept

(* A client that confirms a token was told the avatar of its session.      *)
LEMMA TokenTold ==
  ASSUME IInv, NEW s \in Slots, Received(s, "CONFIRM_R_TOKEN")
  PROVE  slot[s].avatar \in avatars
<1>1. PICK c, m : c = slot[s].client /\ m = Head(net[c].to_server)
  OBVIOUS
<1>2. c \in Clients /\ m \in Up(net[c]) /\ m.type = "CONFIRM_R_TOKEN"
  BY <1>1, ReceivedFacts
<1>3. m.arg = client[c].avatar /\ m.arg # NoAvatar
  BY <1>2 DEF IInv, ClientsInv, ClientInv
<1>4. client[c].avatar \in Told(client[c], net[c])
  BY <1>3 DEF Told
<1>5. Owned(slot[s], client[c], net[c], c \in Waiting, avatars)
  BY <1>1, <1>2 DEF IInv, ClientsInv, Link
<1>6. slot[s].thread # "LISTEN"
  BY ReceivedFacts
<1> QED BY <1>4, <1>5, <1>6 DEF Owned

LEMMA RefusedKept ==
  ASSUME IInv, NEW s \in Slots, Received(s, "CONFIRM_R_TOKEN"), Refused(s),
         UNCHANGED <<workload, client, backlog, aggregation, raced, avatars, avatar_count, server>>
  PROVE  IInv'
<1>1. /\ Running /\ slot[s].thread = "RUN" /\ slot[s].client \in Clients
      /\ net[slot[s].client].to_server # <<>> /\ net \in [Clients -> StreamType]
  BY ReceivedFacts, SlotFacts
<1>2. CASE slot' = [slot EXCEPT ![s] = Ended(@)] /\ net' = Hangup(slot[s].client)
  BY <1>1, <1>2, HungUp
<1>3. CASE /\ slot[s].web
           /\ slot' = [slot EXCEPT ![s].state = "CLOSING", ![s].thread = "BYE"]
           /\ net' = Answer(slot[s].client, CloseFrame)
  <2>1. net' \in [Clients -> StreamType] /\ \A c \in Clients : Answered(net[c], net'[c])
    BY <1>1, <1>3, StreamReplied, PlainMsgs
  <2> QED BY <1>1, <1>3, <2>1, ByeKept
<1> QED BY <1>2, <1>3 DEF Refused

LEMMA TokenDedLoop ==
  ASSUME IInv, NEW s \in Slots, vs_NEGOTIATE_token_ded_loop(s)
  PROVE  IInv'
<1>1. /\ slot[s].state = "NEGOTIATE_TOKEN_DED" /\ Received(s, "CONFIRM_R_TOKEN")
      /\ UNCHANGED <<workload, client, backlog, aggregation, raced, avatars, avatar_count, server>>
  BY DEF vs_NEGOTIATE_token_ded_loop, serverVars
<1>2. PICK f : f = slot[s] /\ f \in SlotType /\ SlotInv(f, avatars)
               /\ (f.client = NoClient <=> f.thread = NONE) /\ f.thread = "RUN"
               /\ f.client \in Clients /\ net[f.client].to_server # <<>> /\ Running
  BY <1>1, SlotFacts, ReceivedFacts
<1>3. CASE Refused(s)
  BY <1>1, <1>3, RefusedKept
<1>4. CASE /\ slot' = [slot EXCEPT ![s].thread = "SEARCH",
                                   ![s].search = [probe |-> workload.port_low,
                                                  min_aggregation |-> UINT_MAX, la_port |-> 0]]
           /\ net' = [net EXCEPT ![f.client].to_server = Tail(@)]
  <2>1. PICK g : /\ g = [probe |-> workload.port_low, min_aggregation |-> UINT_MAX, la_port |-> 0]
                 /\ g \in SearchType
    <3>1. workload.port_low \in Nat /\ UINT_MAX \in 0..UINT_MAX /\ 0 \in 0..255
      BY PortFacts, SessionsAssumption
    <3>2. PICK g : g = [probe |-> workload.port_low, min_aggregation |-> UINT_MAX, la_port |-> 0]
      OBVIOUS
    <3>3. g \in SearchType
      BY <3>1, <3>2 DEF SearchType
    <3> QED BY <3>2, <3>3
  <2>2. PICK e : e = [f EXCEPT !.thread = "SEARCH", !.search = g]
    OBVIOUS
  <2>3. slot' = [slot EXCEPT ![s] = e]
    BY <1>2, <1>4, <2>1, <2>2
  <2>4. /\ e.state = f.state /\ e.thread = "SEARCH" /\ e.client = f.client /\ e.web = f.web
        /\ e.user = f.user /\ e.avatar = f.avatar /\ e.token = f.token
        /\ e.udp = f.udp /\ e.dgram = f.dgram /\ e.port = f.port /\ e.peer = f.peer
        /\ e \in SlotType
    BY ZenonT(60), <1>2, <2>1, <2>2 DEF SlotType
  <2>5. f.avatar \in avatars /\ ~Busy(f)
    BY <1>1, <1>2, TokenTold DEF SlotInv
  <2>6. SlotInv(e, avatars) /\ Calm(f, e) /\ (e.client = NoClient <=> e.thread = NONE)
    BY <1>1, <1>2, <2>4, <2>5 DEF SlotInv, Searches, Finds, Busy, Calm, NONE
  <2>7. net' \in [Clients -> StreamType] /\ \A c \in Clients : Answered(net[c], net'[c])
    BY <1>2, <1>4, StreamRead, SlotFacts
  <2> QED BY <1>1, <1>2, <2>3, <2>4, <2>6, <2>7, SlotQuiet
<1> QED BY <1>2, <1>3, <1>4 DEF vs_NEGOTIATE_token_ded_loop

(* A step of a search: the thread goes on, and keeps the ports apart.      *)
LEMMA SearchGoesOn ==
  ASSUME IInv, Running, NEW s \in Slots, Searches(slot[s]), NEW e \in SlotType,
         slot' = [slot EXCEPT ![s] = e], Searches(e),
         e.state = slot[s].state, e.client = slot[s].client, e.web = slot[s].web,
         e.user = slot[s].user, e.avatar = slot[s].avatar, e.token = slot[s].token,
         e.udp = slot[s].udp, e.dgram = slot[s].dgram, e.peer = slot[s].peer,
         PortsTyped', PortsInv',
         UNCHANGED <<workload, client, net, backlog, avatars, avatar_count, server>>
  PROVE  IInv'
<1>1. PICK f : f = slot[s] /\ f \in SlotType /\ SlotInv(f, avatars) /\ Searches(f)
               /\ (f.client = NoClient <=> f.thread = NONE)
  BY SlotFacts
<1>2. ~Busy(f) /\ ~Busy(e) /\ f.thread # NONE /\ e.thread # NONE
  BY <1>1 DEF SlotInv, Searches, Finds, Busy, NONE
<1>3. SlotInv(e, avatars) /\ (e.client = NoClient <=> e.thread = NONE) /\ e.thread # "TLS"
      /\ f.thread # "LISTEN"
  BY <1>1, <1>2 DEF SlotInv, Searches, Finds, Busy, NONE
<1>4. net' \in [Clients -> StreamType] /\ \A c \in Clients : Answered(net[c], net'[c])
  BY SlotFacts, StreamsSame
<1> QED BY <1>1, <1>3, <1>4, SlotKept

LEMMA TestPort ==
  ASSUME IInv, NEW s \in Slots, vs_test_port(s)
  PROVE  IInv'
<1>1. PICK f, p : f = slot[s] /\ f \in SlotType /\ SlotInv(f, avatars) /\ f.thread = "SEARCH"
                  /\ p = f.search.probe /\ p \in PortList /\ Running /\ ~Busy(f)
  BY SlotFacts DEF vs_test_port, SlotInv
<1>2. UNCHANGED <<workload, client, net, backlog, aggregation, avatars, avatar_count, server>>
  BY DEF vs_test_port, serverVars
<1>3. p \in Int /\ PortsTyped /\ PortList' = PortList
  BY <1>1, <1>2, PortFacts
<1>4. CASE /\ aggregation[p] = 0
           /\ slot' = [slot EXCEPT ![s].thread = "COUNT", ![s].port = p]
           /\ raced' = IF FoundByOther(s, p) THEN raced \union {p} ELSE raced
  <2>1. PICK e : e = [f EXCEPT !.thread = "COUNT", !.port = p]
    OBVIOUS
  <2>2. slot' = [slot EXCEPT ![s] = e]
    BY <1>1, <1>4, <2>1
  <2>3. /\ e.state = f.state /\ e.thread = "COUNT" /\ e.client = f.client /\ e.web = f.web
        /\ e.user = f.user /\ e.avatar = f.avatar /\ e.token = f.token
        /\ e.udp = f.udp /\ e.dgram = f.dgram /\ e.port = p /\ e.peer = f.peer
        /\ e \in SlotType
    BY ZenonT(60), <1>1, <1>3, <2>1 DEF SlotType
  <2>4. ~Busy(e) /\ Searches(f) /\ Searches(e)
    BY <1>1, <2>3 DEF Busy, Searches, Finds
  <2>5. PortsTyped' /\ raced \subseteq raced'
    BY <1>2, <1>3, <1>4 DEF PortsTyped
  <2>6. Listed(e, PortList)
    BY <1>1, <2>3 DEF Listed
  <2>7. ASSUME NEW q \in PortList \ raced', e.port = q
        PROVE  Fits(e, aggregation[q]) /\ \A t \in Slots : t # s => ~Uses(slot[t], q)
    <3>1. q = p /\ ~FoundByOther(s, p) /\ aggregation[q] = 0 /\ q \notin raced
      BY <1>4, <2>3, <2>7
    <3>2. Fits(e, aggregation[q])
      BY <2>3, <2>4, <3>1 DEF Fits
    <3>3. ASSUME NEW t \in Slots, t # s, Uses(slot[t], q) PROVE FALSE
      <4>1. ~Finds(slot[t])
        BY <3>1, <3>3 DEF FoundByOther, Finds, Uses
      <4>2. Fits(slot[t], 0)
        BY <3>1, <3>3, SlotPorts DEF Uses
      <4> QED BY <3>3, <4>1, <4>2 DEF Uses, Fits
    <3> QED BY <3>2, <3>3
  <2>8. \A q : Uses(e, q) => e.port = q
    BY DEF Uses
  <2>9. PortsInv'
    BY <1>2, <2>2, <2>3, <2>5, <2>6, <2>7, <2>8, PortsStep
  <2> QED BY <1>1, <1>2, <2>2, <2>3, <2>4, <2>5, <2>9, SearchGoesOn
<1>5. CASE slot' = [slot EXCEPT ![s].thread = "COMPARE"] /\ raced' = raced
  <2>1. PICK e : e = [f EXCEPT !.thread = "COMPARE"]
    OBVIOUS
  <2>2. slot' = [slot EXCEPT ![s] = e]
    BY <1>1, <1>5, <2>1
  <2>3. /\ e.state = f.state /\ e.thread = "COMPARE" /\ e.client = f.client /\ e.web = f.web
        /\ e.user = f.user /\ e.avatar = f.avatar /\ e.token = f.token
        /\ e.udp = f.udp /\ e.dgram = f.dgram /\ e.search = f.search /\ e.peer = f.peer
        /\ e \in SlotType
    BY ZenonT(60), <1>1, <2>1 DEF SlotType
  <2>4. ~Busy(e) /\ ~Finds(e) /\ Searches(f) /\ Searches(e)
    BY <1>1, <2>3 DEF Busy, Searches, Finds
  <2>5. PortsTyped' /\ Listed(e, PortList)
    BY <1>1, <1>2, <1>3, <1>5, <2>3, <2>4 DEF PortsTyped, Listed
  <2>6. \A q, n : ~Uses(e, q) /\ Fits(e, n)
    BY <2>4 DEF Uses, Fits
  <2>7. PortsInv'
    BY <1>2, <1>5, <2>2, <2>3, <2>5, <2>6, PortsStep
  <2> QED BY <1>1, <1>2, <2>2, <2>3, <2>4, <2>5, <2>7, SearchGoesOn
<1> QED BY <1>1, <1>4, <1>5 DEF vs_test_port

LEMMA ComparePort ==
  ASSUME IInv, NEW s \in Slots, vs_compare_port(s)
  PROVE  IInv'
<1>1. PICK f : f = slot[s] /\ f \in SlotType /\ SlotInv(f, avatars) /\ f.thread = "COMPARE"
               /\ Running /\ ~Busy(f)
  BY SlotFacts DEF vs_compare_port, SlotInv
<1>2. UNCHANGED <<workload, client, net, backlog, aggregation, raced, avatars, avatar_count, server>>
  BY DEF vs_compare_port, serverVars
<1>3. /\ f.search.probe \in PortList /\ f.search.probe \in Nat /\ PortsTyped /\ PortList' = PortList
      /\ f.search \in SearchType
  BY <1>1, <1>2, PortFacts, SlotPorts DEF Listed, SlotType
<1>4. PICK g \in SearchType : slot' = [slot EXCEPT ![s].thread = "SEARCH", ![s].search = g]
  <2>1. PICK h, n, less : h = f.search /\ n = aggregation[h.probe] /\ less = (n < h.min_aggregation)
    OBVIOUS
  <2>2. n \in 0..UINT_MAX /\ h.probe \in Nat /\ h.min_aggregation \in 0..UINT_MAX /\ h.la_port \in 0..255
    BY <1>3, <2>1 DEF PortsTyped, SearchType
  <2>3. h.probe + 1 \in Nat /\ h.probe % 256 \in 0..255
    BY <2>2
  <2>4. PICK g : g = [probe |-> h.probe + 1,
                      min_aggregation |-> IF less THEN n ELSE h.min_aggregation,
                      la_port |-> IF less THEN h.probe % 256 ELSE h.la_port]
    OBVIOUS
  <2>5. g \in SearchType
    BY <2>2, <2>3, <2>4 DEF SearchType
  <2>6. slot' = [slot EXCEPT ![s].thread = "SEARCH", ![s].search = g]
    BY <1>1, <2>1, <2>4 DEF vs_compare_port
  <2> QED BY <2>5, <2>6
<1>5. PICK e : e = [f EXCEPT !.thread = "SEARCH", !.search = g]
  OBVIOUS
<1>6. slot' = [slot EXCEPT ![s] = e]
  BY <1>1, <1>4, <1>5
<1>7. /\ e.state = f.state /\ e.thread = "SEARCH" /\ e.client = f.client /\ e.web = f.web
      /\ e.user = f.user /\ e.avatar = f.avatar /\ e.token = f.token
      /\ e.udp = f.udp /\ e.dgram = f.dgram /\ e.peer = f.peer
      /\ e \in SlotType
  BY ZenonT(60), <1>1, <1>4, <1>5 DEF SlotType
<1>8. ~Busy(e) /\ ~Finds(e) /\ Searches(f) /\ Searches(e)
  BY <1>1, <1>7 DEF Busy, Searches, Finds
<1>9. PortsTyped' /\ Listed(e, PortList)
  BY <1>2, <1>3, <1>7, <1>8 DEF PortsTyped, Listed
<1>10. \A q, n : ~Uses(e, q) /\ Fits(e, n)
  BY <1>8 DEF Uses, Fits
<1>11. PortsInv'
  BY <1>2, <1>6, <1>7, <1>9, <1>10, PortsStep
<1> QED BY <1>1, <1>2, <1>6, <1>7, <1>8, <1>9, <1>11, SearchGoesOn

LEMMA LoadCount ==
  ASSUME IInv, NEW s \in Slots, vs_load_count(s)
  PROVE  IInv'
<1>1. PICK f : f = slot[s] /\ f \in SlotType /\ SlotInv(f, avatars) /\ f.thread = "COUNT"
               /\ Running /\ ~Busy(f) /\ Finds(f)
  BY SlotFacts DEF vs_load_count, SlotInv, Finds
<1>2. UNCHANGED <<workload, client, net, backlog, aggregation, raced, avatars, avatar_count, server>>
  BY DEF vs_load_count, serverVars
<1>3. f.port \in PortList /\ PortsTyped /\ PortList' = PortList
  BY <1>1, <1>2, PortFacts, SlotPorts DEF Listed
<1>4. PICK n : n = aggregation[f.port] /\ n \in 0..UINT_MAX
  BY <1>3 DEF PortsTyped
<1>5. PICK e : e = [f EXCEPT !.thread = "STORE", !.count = n]
  OBVIOUS
<1>6. slot' = [slot EXCEPT ![s] = e]
  BY <1>1, <1>4, <1>5 DEF vs_load_count
<1>7. /\ e.state = f.state /\ e.thread = "STORE" /\ e.client = f.client /\ e.web = f.web
      /\ e.user = f.user /\ e.avatar = f.avatar /\ e.token = f.token /\ e.count = n
      /\ e.udp = f.udp /\ e.dgram = f.dgram /\ e.peer = f.peer /\ e.port = f.port
      /\ e \in SlotType
  BY ZenonT(60), <1>1, <1>4, <1>5 DEF SlotType
<1>8. ~Busy(e) /\ Finds(e) /\ Searches(f) /\ Searches(e)
  BY <1>1, <1>7 DEF Busy, Searches, Finds
<1>9. PortsTyped' /\ Listed(e, PortList)
  BY <1>2, <1>3, <1>7 DEF PortsTyped, Listed
<1>10. ASSUME NEW p \in PortList \ raced, e.port = p
       PROVE  Fits(e, aggregation[p]) /\ \A t \in Slots : t # s => ~Uses(slot[t], p)
  <2>1. Fits(f, aggregation[p]) /\ Uses(f, p)
    BY <1>1, <1>7, <1>10, SlotPorts DEF Uses
  <2>2. Fits(e, aggregation[p])
    BY <1>1, <1>4, <1>7, <1>8, <1>10, <2>1 DEF Fits
  <2>3. \A t \in Slots : t # s => ~Uses(slot[t], p)
    BY <1>1, <2>1, SlotPorts
  <2> QED BY <2>2, <2>3
<1>11. \A q : Uses(e, q) => e.port = q
  BY DEF Uses
<1>12. PortsInv'
  BY <1>2, <1>6, <1>7, <1>9, <1>10, <1>11, PortsStep
<1> QED BY <1>1, <1>2, <1>6, <1>7, <1>8, <1>9, <1>12, SearchGoesOn

(* The session gets its port.                                              *)
LEMMA NegotiatedKept ==
  ASSUME IInv, Running, NEW s \in Slots, Searches(slot[s]), NEW port \in Int, Negotiated(s, port),
         PortsTyped', raced \subseteq raced',
         \A p \in PortList \ raced' :
           /\ port = p => aggregation'[p] = 1 /\ \A t \in Slots : t # s => ~Uses(slot[t], p)
           /\ port # p => aggregation'[p] = aggregation[p],
         UNCHANGED <<workload, client, backlog, avatars, avatar_count, server>>
  PROVE  IInv'
<1>1. PICK f, c : f = slot[s] /\ f \in SlotType /\ SlotInv(f, avatars) /\ Searches(f)
                  /\ (f.client = NoClient <=> f.thread = NONE) /\ c = f.client
  BY SlotFacts
<1>2. ~Busy(f) /\ f.thread # NONE /\ f.avatar \in avatars /\ c \in Clients /\ f.thread # "LISTEN"
  BY <1>1, SlotFacts DEF SlotInv, Searches, Finds, NONE
<1>3. PICK flags : flags = f.flags \union {Transport(c)}
  OBVIOUS
<1>4. flags \subseteq {UDP, TCP, WEBSOCKET}
  <2>1. workload.transport \in [Clients -> {UDP, TCP, WEBSOCKET, NONE}]
    BY SessionsAssumption DEF IInv, Types, TypeOK
  <2>2. client[c].state # "IDLE"
    BY <1>1, <1>2 DEF IInv, ClientsInv, Link, Owned
  <2>3. Transport(c) # NONE
    BY <1>2, <2>2 DEF IInv, ClientsInv
  <2> QED BY <1>1, <1>2, <1>3, <2>1, <2>3 DEF SlotType, Transport
<1>5. PICK g : g = [f EXCEPT !.port = port, !.search = NoSearch, !.count = 0]
  OBVIOUS
<1>6. NoSearch \in SearchType /\ 0 \in 0..UINT_MAX
  BY SessionsAssumption DEF NoSearch, SearchType
<1>7. /\ g.state = f.state /\ g.thread = f.thread /\ g.client = f.client /\ g.web = f.web
      /\ g.user = f.user /\ g.avatar = f.avatar /\ g.token = f.token
      /\ g.udp = f.udp /\ g.dgram = f.dgram /\ g.peer = f.peer /\ g.port = port
      /\ g \in SlotType
  BY ZenonT(60), <1>1, <1>5, <1>6 DEF SlotType
<1>8. ASSUME NEW e \in SlotType, slot' = [slot EXCEPT ![s] = e],
             e.client = f.client, e.avatar = f.avatar, e.web = f.web, e.user = f.user, e.token = f.token,
             e.dgram = f.dgram, e.peer = f.peer, e.port = port, e.thread \in {"RUN", "WAIT"},
             \/ e.udp = f.udp /\ e.thread = "RUN" /\ e.state \in {"STREAM_OPEN", "NEGOTIATE_NEWHOST"}
             \/ e.udp = "START" /\ e.thread = "WAIT" /\ ~f.web /\ e.state = f.state,
             net' \in [Clients -> StreamType], \A d \in Clients : Answered(net[d], net'[d])
      PROVE  IInv'
  <2>1. /\ ~Finds(e) /\ e.thread \notin {"TLS", "COMPARE", NONE}
        /\ Busy(e) => e.udp = "START"
    BY <1>2, <1>8 DEF Finds, Busy, NONE
  <2>2. SlotInv(e, avatars) /\ (e.client = NoClient <=> e.thread = NONE)
    BY <1>1, <1>2, <1>8, <2>1 DEF SlotInv, Searches, Finds, Busy, NONE
  <2>3. Listed(e, PortList)
    BY <2>1 DEF Listed
  <2>4. \A p : e.port = p /\ aggregation'[p] = 1 => Fits(e, aggregation'[p])
    BY <2>1 DEF Fits
  <2>5. \A p : Uses(e, p) => port = p
    BY <1>8 DEF Uses
  <2>6. PortsInv'
    BY <1>8, <2>3, <2>4, <2>5, PortsStep
  <2> QED BY <1>1, <1>2, <1>8, <2>1, <2>2, <2>6, SlotKept
<1>9. net \in [Clients -> StreamType]
  BY SlotFacts
<1>10. CASE /\ slot' = [slot EXCEPT ![s] = [g EXCEPT !.thread = "RUN", !.state = "STREAM_OPEN"]]
            /\ net' = ToClient(c, HostUrl(NoUrl))
  <2>1. PICK e : e = [g EXCEPT !.thread = "RUN", !.state = "STREAM_OPEN"]
    OBVIOUS
  <2>2. /\ e.state = "STREAM_OPEN" /\ e.thread = "RUN" /\ e.client = f.client /\ e.web = f.web
        /\ e.user = f.user /\ e.avatar = f.avatar /\ e.token = f.token
        /\ e.udp = f.udp /\ e.dgram = f.dgram /\ e.port = port /\ e.peer = f.peer
        /\ e \in SlotType
    BY ZenonT(60), <1>7, <2>1 DEF SlotType
  <2>3. slot' = [slot EXCEPT ![s] = e]
    BY <1>10, <2>1
  <2>4. Plain(HostUrl(NoUrl))
    BY PlainMsgs DEF NoUrl
  <2>5. net' \in [Clients -> StreamType] /\ \A d \in Clients : Answered(net[d], net'[d])
    BY <1>2, <1>9, <1>10, <2>4, StreamTold
  <2> QED BY <1>8, <2>2, <2>3, <2>5
<1>11. CASE /\ ~f.web
            /\ slot' = [slot EXCEPT ![s] = [g EXCEPT !.thread = "WAIT", !.flags = flags, !.udp = "START"]]
            /\ net' = net
  <2>1. PICK e : e = [g EXCEPT !.thread = "WAIT", !.flags = flags, !.udp = "START"]
    OBVIOUS
  <2>2. /\ e.state = f.state /\ e.thread = "WAIT" /\ e.client = f.client /\ e.web = f.web
        /\ e.user = f.user /\ e.avatar = f.avatar /\ e.token = f.token
        /\ e.udp = "START" /\ e.dgram = f.dgram /\ e.port = port /\ e.peer = f.peer
        /\ e \in SlotType
    BY ZenonT(60), <1>4, <1>7, <2>1 DEF SlotType
  <2>3. slot' = [slot EXCEPT ![s] = e]
    BY <1>11, <2>1
  <2>4. net' \in [Clients -> StreamType] /\ \A d \in Clients : Answered(net[d], net'[d])
    BY <1>9, <1>11, StreamsSame
  <2> QED BY <1>8, <1>11, <2>2, <2>3, <2>4
<1>12. CASE /\ slot' = [slot EXCEPT ![s] = [g EXCEPT !.thread = "RUN", !.flags = flags, !.url = port,
                                                     !.state = "NEGOTIATE_NEWHOST"]]
            /\ net' = ToClient(c, HostUrl(port))
  <2>1. PICK e : e = [g EXCEPT !.thread = "RUN", !.flags = flags, !.url = port, !.state = "NEGOTIATE_NEWHOST"]
    OBVIOUS
  <2>2. /\ e.state = "NEGOTIATE_NEWHOST" /\ e.thread = "RUN" /\ e.client = f.client /\ e.web = f.web
        /\ e.user = f.user /\ e.avatar = f.avatar /\ e.token = f.token
        /\ e.udp = f.udp /\ e.dgram = f.dgram /\ e.port = port /\ e.peer = f.peer
        /\ e \in SlotType
    BY ZenonT(60), <1>4, <1>7, <2>1 DEF SlotType
  <2>3. slot' = [slot EXCEPT ![s] = e]
    BY <1>12, <2>1
  <2>4. net' \in [Clients -> StreamType] /\ \A d \in Clients : Answered(net[d], net'[d])
    BY <1>2, <1>9, <1>12, PlainMsgs, StreamTold
  <2> QED BY <1>8, <2>2, <2>3, <2>4
<1> QED BY <1>1, <1>3, <1>5, <1>10, <1>11, <1>12 DEF Negotiated

LEMMA StoreCount ==
  ASSUME IInv, NEW s \in Slots, vs_store_count(s)
  PROVE  IInv'
<1>1. PICK f : f = slot[s] /\ f \in SlotType /\ f.thread = "STORE" /\ Running /\ Finds(f) /\ Searches(f)
  BY SlotFacts DEF vs_store_count, Finds, Searches
<1>2. /\ UNCHANGED <<workload, client, backlog, raced, avatars, avatar_count, server>>
      /\ Negotiated(s, f.port) /\ aggregation' = CountedPort(s)
  BY <1>1 DEF vs_store_count, serverVars
<1>3. /\ f.port \in PortList /\ f.port \in Int /\ raced \subseteq Int /\ PortList' = PortList
      /\ aggregation \in [PortList -> 0..UINT_MAX]
  BY <1>1, <1>2, PortFacts, SlotPorts DEF Listed, PortsTyped
<1>4. PICK n : /\ n = IF f.count = UINT_MAX THEN 0 ELSE f.count + 1
               /\ n \in 0..UINT_MAX /\ (f.count = 0 => n = 1)
  <2>1. f.count \in 0..UINT_MAX
    BY <1>1 DEF SlotType
  <2> QED BY <2>1, SessionsAssumption
<1>5. aggregation' = [aggregation EXCEPT ![f.port] = n]
  BY <1>1, <1>2, <1>4 DEF CountedPort
<1>6. /\ aggregation' \in [PortList -> 0..UINT_MAX] /\ aggregation'[f.port] = n
      /\ \A p \in PortList : p # f.port => aggregation'[p] = aggregation[p]
  BY <1>3, <1>4, <1>5
<1>7. PortsTyped'
  BY <1>2, <1>3, <1>6 DEF PortsTyped
<1>8. ASSUME NEW p \in PortList \ raced
      PROVE  /\ f.port = p => aggregation'[p] = 1 /\ \A t \in Slots : t # s => ~Uses(slot[t], p)
             /\ f.port # p => aggregation'[p] = aggregation[p]
  <2>1. ASSUME f.port = p PROVE aggregation'[p] = 1 /\ \A t \in Slots : t # s => ~Uses(slot[t], p)
    <3>1. Fits(f, aggregation[p]) /\ Uses(f, p)
      BY <1>1, <2>1, SlotPorts DEF Uses
    <3>2. f.count = 0
      BY <1>1, <3>1 DEF Fits
    <3>3. \A t \in Slots : t # s => ~Uses(slot[t], p)
      BY <1>1, <3>1, SlotPorts
    <3> QED BY <1>4, <1>6, <2>1, <3>2, <3>3
  <2> QED BY <1>6, <2>1
<1> QED BY <1>1, <1>2, <1>3, <1>7, <1>8, NegotiatedKept

LEMMA LowestPort ==
  ASSUME IInv, NEW s \in Slots, vs_lowest_port(s)
  PROVE  IInv'
<1>1. PICK f : f = slot[s] /\ f \in SlotType /\ f.thread = "SEARCH" /\ Running /\ Searches(f)
  BY SlotFacts DEF vs_lowest_port, Searches
<1>2. /\ UNCHANGED <<workload, client, backlog, aggregation, avatars, avatar_count, server>>
  BY DEF vs_lowest_port, serverVars
<1>3. /\ f.port \in Int /\ f.search.la_port \in 0..255 /\ PortsTyped /\ PortList' = PortList
      /\ \A p \in PortList : p \in Nat /\ p >= 49152
  BY <1>1, <1>2, PortFacts DEF SlotType, SearchType
<1>4. CASE Negotiated(s, f.search.la_port) /\ raced' = raced
  <2>1. PortsTyped'
    BY <1>2, <1>3, <1>4 DEF PortsTyped
  <2>2. f.search.la_port \in Int /\ \A p \in PortList : p # f.search.la_port
    BY <1>3
  <2> QED BY <1>1, <1>2, <1>4, <2>1, <2>2, NegotiatedKept
<1>5. CASE Negotiated(s, f.port) /\ raced' = raced \union {f.port}
  <2>1. PortsTyped'
    <3>1. raced \subseteq Int /\ raced' = raced \union {f.port} /\ f.port \in Int
      BY <1>3, <1>5 DEF PortsTyped
    <3>2. raced' \subseteq Int
      BY Zenon, <3>1
    <3> QED BY <1>2, <1>3, <3>2 DEF PortsTyped
  <2> QED BY <1>1, <1>2, <1>3, <1>5, <2>1, NegotiatedKept
<1> QED BY <1>1, <1>4, <1>5 DEF vs_lowest_port

-----------------------------------------------------------------------------
(* Steps that give a slot a client or an avatar, or take them.             *)

(* The streams and slots outside of c and s.                               *)
LEMMA SlotAt ==
  ASSUME IInv, NEW s \in Slots, NEW e \in SlotType, slot' = [slot EXCEPT ![s] = e],
         e.client = NoClient <=> e.thread = NONE
  PROVE  /\ slot' \in [Slots -> SlotType] /\ slot'[s] = e
         /\ \A t \in Slots : t # s => slot'[t] = slot[t]
         /\ \A t \in Slots : (slot'[t].client = NoClient) <=> (slot'[t].thread = NONE)
<1>1. slot \in [Slots -> SlotType] /\ \A t \in Slots : (slot[t].client = NoClient) <=> (slot[t].thread = NONE)
  BY DEF IInv, Types, TypeOK
<1>2. slot'[s] = e /\ \A t \in Slots : t # s => slot'[t] = slot[t]
  BY <1>1
<1> QED BY <1>1, <1>2

(* The ports when slot s leaves them alone.                                *)
LEMMA PortsAt ==
  ASSUME IInv, NEW s \in Slots, NEW e \in SlotType, slot' = [slot EXCEPT ![s] = e],
         Calm(slot[s], e), UNCHANGED <<workload, aggregation, raced>>
  PROVE  PortsInv' /\ PortsTyped'
<1>1. slot \in [Slots -> SlotType]
  BY DEF IInv, Types, TypeOK
<1>2. \A f : Calm(f, f)
  BY DEF Calm
<1>3. \A t \in Slots : Calm(slot[t], slot'[t])
  BY <1>1, <1>2
<1> QED BY <1>3, PortsKept

LEMMA Handshake ==
  ASSUME IInv, NEW s \in Slots, vs_TLS_handshake(s)
  PROVE  IInv'
<1>1. /\ Running /\ slot[s].thread = "TLS"
      /\ UNCHANGED <<workload, backlog, late, aggregation, raced, avatars, avatar_count, server>>
  BY DEF vs_TLS_handshake
<1>2. PICK f, c : f = slot[s] /\ f \in SlotType /\ SlotInv(f, avatars)
               /\ (f.client = NoClient <=> f.thread = NONE) /\ f.thread = "TLS"
               /\ c = f.client /\ c \in Clients
  BY <1>1, SlotFacts DEF NONE
<1>3. CASE slot' = [slot EXCEPT ![s] = Ended(@)] /\ net' = Hangup(c) /\ client' = client
  BY <1>1, <1>2, <1>3, HungUp
<1>4. CASE /\ net[c].client_end
           /\ slot' = [slot EXCEPT ![s].state = "RESPOND_METHODS", ![s].thread = "RUN",
                                   ![s].flags = IF slot[s].web THEN @ \union {WEBSOCKET} ELSE @]
           /\ client' = [client EXCEPT ![c].state = "USRAUTH_NONE"]
           /\ net' = net
  <2>1. PICK flags : flags = IF f.web THEN f.flags \union {WEBSOCKET} ELSE f.flags
    OBVIOUS
  <2>2. PICK e : e = [f EXCEPT !.state = "RESPOND_METHODS", !.thread = "RUN", !.flags = flags]
    OBVIOUS
  <2>3. slot' = [slot EXCEPT ![s] = e]
    BY <1>2, <1>4, <2>1, <2>2
  <2>4. flags \subseteq {UDP, TCP, WEBSOCKET}
    BY <1>2, <2>1 DEF SlotType
  <2>5. /\ e.state = "RESPOND_METHODS" /\ e.thread = "RUN" /\ e.client = f.client /\ e.web = f.web
        /\ e.user = f.user /\ e.avatar = f.avatar /\ e.token = f.token
        /\ e.udp = f.udp /\ e.dgram = f.dgram /\ e.port = f.port /\ e.peer = f.peer
        /\ e.count = f.count /\ e.search = f.search /\ e \in SlotType
    BY ZenonT(60), <1>2, <2>2, <2>4 DEF SlotType
  <2>6. f.avatar \notin avatars /\ ~Busy(f)
    BY <1>2 DEF SlotInv
  <2>7. SlotInv(e, avatars) /\ Calm(f, e) /\ (e.client = NoClient <=> e.thread = NONE)
    BY <1>2, <2>5, <2>6 DEF SlotInv, Searches, Finds, Busy, Calm, NONE
  <2>8. /\ slot' \in [Slots -> SlotType] /\ slot'[s] = e
        /\ \A t \in Slots : t # s => slot'[t] = slot[t]
        /\ \A t \in Slots : (slot'[t].client = NoClient) <=> (slot'[t].thread = NONE)
    BY <2>3, <2>5, <2>7, SlotAt
  <2>9. PortsInv' /\ PortsTyped'
    BY <1>1, <1>2, <2>3, <2>5, <2>7, PortsAt
  <2>10. PICK k, j : k = client[c] /\ j = [k EXCEPT !.state = "USRAUTH_NONE"]
    OBVIOUS
  <2>11. client' = [client EXCEPT ![c] = j]
    BY <1>4, <2>10
  <2>12. client \in [Clients -> ClientType] /\ k \in ClientType
    BY <1>2, <2>10, SlotFacts
  <2>13. /\ j.state = "USRAUTH_NONE" /\ j.avatar = k.avatar /\ j.token = k.token /\ j.udp = k.udp
         /\ j.right = k.right /\ j \in ClientType
    BY <2>10, <2>12 DEF ClientType
  <2>14. client' \in [Clients -> ClientType] /\ client'[c] = j
         /\ \A d \in Clients : d # c => client'[d] = client[d]
    BY <1>2, <2>11, <2>12, <2>13
  <2>15. Types'
    BY <1>1, <1>4, <2>8, <2>9, <2>14 DEF IInv, Types, TypeOK, PortsTyped
  <2>16. SlotsInv'
    <3>1. \A t \in Slots : SlotInv(slot'[t], avatars) /\ slot'[t].avatar = slot[t].avatar
                           /\ slot'[t].client = slot[t].client
      BY <1>2, <2>5, <2>7, <2>8 DEF IInv, SlotsInv
    <3> QED BY <1>1, <3>1 DEF IInv, SlotsInv, Apart
  <2>17. Owned(f, k, net[c], c \in Waiting, avatars) /\ ClientInv(k, net[c], c \in Waiting)
    BY <1>2, <2>10 DEF IInv, ClientsInv, Link
  <2>18. k.state = "CONNECTING" /\ c \notin Waiting
    BY <1>2, <1>4, <2>17 DEF Owned, ClientInv
  <2>19. Unknown(k) /\ Unknown(j) /\ Told(j, net[c]) = {} /\ Told(k, net[c]) = {}
    BY <2>13, <2>17, <2>18 DEF Unknown, ClientInv, Told
  <2>20. ClientInv(j, net[c], c \in Waiting)
    BY <2>13, <2>17, <2>18, <2>19 DEF ClientInv
  <2>21. Transport(c) # NONE
    BY <1>2, <2>10, <2>18 DEF IInv, ClientsInv
  <2>22. ASSUME NEW d \in Clients
         PROVE  /\ ClientInv(client'[d], net[d], d \in Waiting)
                /\ Told(client'[d], net[d]) \subseteq 1..avatar_count
                /\ client'[d].state # "IDLE" => Transport(d) # NONE
    BY <2>14, <2>19, <2>20, <2>21 DEF IInv, ClientsInv
  <2>23. ASSUME NEW t \in Slots, NEW d \in Clients
         PROVE  Link(slot'[t], d, client'[d], net[d], d \in Waiting, avatars)
    <3>1. Link(slot[t], d, client[d], net[d], d \in Waiting, avatars)
      BY DEF IInv, ClientsInv
    <3>2. CASE t = s /\ d = c
      BY <2>5, <2>6, <2>8, <2>13, <2>14, <2>18, <2>19, <3>2 DEF Link, Owned
    <3>3. CASE t = s /\ d # c
      BY <1>2, <2>5, <2>6, <2>8, <3>3 DEF Link
    <3>4. CASE t # s /\ d = c
      <4>1. Apart(slot[s], slot[t], avatars)
        BY <3>4 DEF IInv, SlotsInv
      <4>2. slot[t].client # c
        BY <1>2, <4>1, NoClientApart DEF Apart
      <4> QED BY <2>8, <2>14, <2>19, <3>4, <4>2 DEF Link
    <3>5. CASE t # s /\ d # c
      BY <2>8, <2>14, <3>1, <3>5
    <3> QED BY <3>2, <3>3, <3>4, <3>5
  <2>24. Waiting' = Waiting
    BY <1>1 DEF Waiting
  <2>25. ClientsInv'
    BY <1>1, <1>4, <2>22, <2>23, <2>24 DEF ClientsInv, Transport
  <2>26. StopInv'
    BY <1>1 DEF StopInv, Running
  <2> QED BY <2>9, <2>15, <2>16, <2>25, <2>26 DEF IInv
<1> QED BY <1>2, <1>3, <1>4 DEF vs_TLS_handshake

LEMMA UserAccepted ==
  ASSUME IInv, NEW s \in Slots, NEW c, c = slot[s].client, NEW a, a = avatar_count + 1,
         slot[s].state = "RESPOND_USRAUTH", Received(s, "USER_AUTH_REQUEST_PASSWORD"), Argument(s),
         avatar_count' = a, avatars' = avatars \union {a},
         slot' = [slot EXCEPT ![s].state = "NEGOTIATE_TOKEN_DED", ![s].user = c,
                              ![s].avatar = a, ![s].token = a],
         net' = Answer(c, AuthSuccess(a)),
         UNCHANGED <<workload, client, backlog, aggregation, raced, server>>
  PROVE  IInv'
<1>1. /\ avatar_count \in Nat /\ a \in Nat /\ a > avatar_count /\ avatars \subseteq 1..avatar_count
      /\ a \in 1..a /\ 1..avatar_count \subseteq 1..a
  BY DEF IInv, Types
<1>2. PICK f : f = slot[s] /\ f \in SlotType /\ SlotInv(f, avatars)
               /\ (f.client = NoClient <=> f.thread = NONE) /\ f.thread = "RUN"
               /\ c = f.client /\ c \in Clients /\ net[c].to_server # <<>> /\ Running
  BY SlotFacts, ReceivedFacts
<1>3. PICK e : e = [f EXCEPT !.state = "NEGOTIATE_TOKEN_DED", !.user = c, !.avatar = a, !.token = a]
  OBVIOUS
<1>4. slot' = [slot EXCEPT ![s] = e]
  BY <1>2, <1>3
<1>5. /\ e.state = "NEGOTIATE_TOKEN_DED" /\ e.thread = f.thread /\ e.client = f.client /\ e.web = f.web
      /\ e.user = c /\ e.avatar = a /\ e.token = a
      /\ e.udp = f.udp /\ e.dgram = f.dgram /\ e.port = f.port /\ e.peer = f.peer
      /\ e.count = f.count /\ e.search = f.search /\ e \in SlotType
  <2>1. a \in Int /\ c \in Clients \union {NoClient}
    BY <1>1, <1>2
  <2>2. /\ e.state = "NEGOTIATE_TOKEN_DED" /\ e.thread = f.thread /\ e.client = f.client
        /\ e.web = f.web /\ e.user = c /\ e.avatar = a /\ e.token = a
        /\ e.udp = f.udp /\ e.dgram = f.dgram /\ e.port = f.port /\ e.peer = f.peer
        /\ e.count = f.count /\ e.search = f.search
    BY <1>2, <1>3 DEF SlotType
  <2>3. e \in SlotType
    BY <1>2, <1>3, <2>1 DEF SlotType
  <2> QED BY <2>2, <2>3
<1>6. f.avatar \notin avatars /\ ~Busy(f)
  BY <1>2 DEF SlotInv
<1>7. SlotInv(e, avatars') /\ Calm(f, e) /\ (e.client = NoClient <=> e.thread = NONE)
  BY <1>2, <1>5, <1>6 DEF SlotInv, Searches, Finds, Busy, Calm, NONE
<1>8. /\ slot' \in [Slots -> SlotType] /\ slot'[s] = e
      /\ \A t \in Slots : t # s => slot'[t] = slot[t]
      /\ \A t \in Slots : (slot'[t].client = NoClient) <=> (slot'[t].thread = NONE)
  BY <1>4, <1>5, <1>7, SlotAt
<1>9. PortsInv' /\ PortsTyped'
  BY <1>2, <1>4, <1>5, <1>7, PortsAt
<1>10. PICK m : m = Head(net[c].to_server) /\ m \in Up(net[c]) /\ m.type = "USER_AUTH_REQUEST_PASSWORD"
                /\ m.arg
  BY ReceivedFacts DEF Argument
<1>11. PICK k : k = client[c] /\ ClientInv(k, net[c], c \in Waiting)
                /\ Owned(f, k, net[c], c \in Waiting, avatars)
  BY <1>2 DEF IInv, ClientsInv, Link
<1>12. k.right /\ ~Unknown(k) /\ c \notin Waiting /\ k.state # "IDLE" /\ Told(k, net[c]) = {}
  BY <1>2, <1>6, <1>10, <1>11 DEF ClientInv, Owned
<1>13. PICK o, n : /\ o = AuthSuccess(a)
                   /\ n = [net[c] EXCEPT !.to_server = Tail(@), !.to_client = Append(@, o)]
  OBVIOUS
<1>14. net \in [Clients -> StreamType] /\ net' = [net EXCEPT ![c] = n]
  BY <1>13, SlotFacts DEF Answer
<1>15. o \in Msgs /\ o.type = "USER_AUTH_SUCCESS" /\ o.arg = a
  <2>1. o = [type |-> "USER_AUTH_SUCCESS", arg |-> a]
    BY <1>13 DEF AuthSuccess, Msg
  <2> QED BY <1>1, <2>1 DEF Msgs, MsgTypes
<1>16. /\ n.to_server = Tail(net[c].to_server) /\ n.to_client = Append(net[c].to_client, o)
       /\ n.client_end = net[c].client_end /\ n.server_end = net[c].server_end
       /\ n = [to_server |-> n.to_server, to_client |-> n.to_client,
               client_end |-> n.client_end, server_end |-> n.server_end]
  <2>1. net[c] \in StreamType
    BY <1>2, <1>14
  <2> QED BY <1>13, <2>1 DEF StreamType
<1>17. /\ net[c].to_client \in Seq(Msgs) /\ net[c].to_server \in Seq(Msgs)
       /\ net[c].server_end \in BOOLEAN /\ net[c].client_end \in BOOLEAN
  BY <1>2, <1>14 DEF StreamType
<1>18. n.to_server \in Seq(Msgs) /\ Up(n) \subseteq Up(net[c])
  BY <1>2, <1>16, <1>17, TailMsgs DEF Up
<1>19. n.to_client \in Seq(Msgs) /\ Down(n) = Down(net[c]) \union {o}
  <2>1. PICK q : q = net[c].to_client
    OBVIOUS
  <2>2. Append(q, o) \in Seq(Msgs) /\ ToSet(Append(q, o)) = ToSet(q) \union {o}
    BY <1>15, <1>17, <2>1, AppendElements
  <2> QED BY <1>16, <2>1, <2>2 DEF Down
<1>20. n \in StreamType
  BY <1>16, <1>17, <1>18, <1>19 DEF StreamType
<1>21. net' \in [Clients -> StreamType] /\ net'[c] = n /\ \A d \in Clients : d # c => net'[d] = net[d]
  BY <1>2, <1>14, <1>20
<1>22. Types'
  <2>1. TypeOK'
    BY <1>8, <1>9 DEF IInv, Types, TypeOK, PortsTyped
  <2> QED BY <1>1, <1>21, <2>1 DEF IInv, Types
<1>23. \A t \in Slots : t # s => /\ slot[t].avatar <= avatar_count /\ slot[t].avatar # a
                                 /\ slot[t].avatar \in Int
  <2>1. \A t \in Slots : slot[t].avatar <= avatar_count /\ slot[t].avatar \in Int
    BY SlotFacts DEF IInv, SlotsInv, SlotType
  <2> QED BY <1>1, <2>1
<1>24. SlotsInv'
  <2>1. ASSUME NEW t \in Slots PROVE SlotInv(slot'[t], avatars') /\ slot'[t].avatar <= a
    <3>1. CASE t = s
      BY <1>1, <1>5, <1>7, <1>8, <3>1
    <3>2. CASE t # s
      <4>1. SlotInv(slot[t], avatars) /\ slot[t].avatar <= avatar_count /\ slot[t].avatar # a
            /\ slot[t].avatar \in Int
        BY <1>23, <3>2 DEF IInv, SlotsInv
      <4>2. SlotInv(slot[t], avatars')
        BY <4>1 DEF SlotInv
      <4> QED BY <1>1, <1>8, <3>2, <4>1, <4>2
    <3> QED BY <3>1, <3>2
  <2>2. ASSUME NEW t \in Slots, NEW u \in Slots, t # u PROVE Apart(slot'[t], slot'[u], avatars')
    <3>1. Apart(slot[t], slot[u], avatars)
      BY <2>2 DEF IInv, SlotsInv
    <3>2. slot'[t].client = slot[t].client /\ slot'[u].client = slot[u].client
      BY <1>2, <1>5, <1>8
    <3>3. slot'[t].avatar = slot'[u].avatar => slot'[t].avatar \notin avatars'
      BY <1>5, <1>8, <1>23, <2>2, <3>1 DEF Apart
    <3> QED BY <3>1, <3>2, <3>3 DEF Apart
  <2>3. ASSUME NEW b \in avatars' PROVE \E t \in Slots : slot'[t].avatar = b
    <3>1. CASE b = a
      BY <1>5, <1>8, <3>1
    <3>2. CASE b # a
      <4>1. PICK t \in Slots : slot[t].avatar = b /\ b \in avatars
        BY <2>3, <3>2 DEF IInv, SlotsInv
      <4>2. t # s
        BY <1>2, <1>6, <4>1
      <4> QED BY <1>8, <4>1, <4>2
    <3> QED BY <3>1, <3>2
  <2> QED BY <2>1, <2>2, <2>3 DEF SlotsInv
<1>25. Told(k, n) = {a}
  BY ZenonT(60), <1>12, <1>15, <1>19 DEF Told
<1>26. ClientInv(k, n, c \in Waiting)
  BY <1>11, <1>12, <1>15, <1>16, <1>18, <1>19 DEF ClientInv
<1>27. ASSUME NEW d \in Clients
       PROVE  /\ ClientInv(client[d], net'[d], d \in Waiting)
              /\ Told(client[d], net'[d]) \subseteq 1..a
              /\ client[d].state # "IDLE" => Transport(d) # NONE
  <2>1. /\ ClientInv(client[d], net[d], d \in Waiting) /\ Told(client[d], net[d]) \subseteq 1..avatar_count
        /\ client[d].state # "IDLE" => Transport(d) # NONE
    BY DEF IInv, ClientsInv
  <2> QED BY <1>1, <1>11, <1>21, <1>25, <1>26, <2>1
<1>28. ASSUME NEW t \in Slots, NEW d \in Clients
       PROVE  Link(slot'[t], d, client[d], net'[d], d \in Waiting, avatars')
  <2>1. Link(slot[t], d, client[d], net[d], d \in Waiting, avatars)
    BY DEF IInv, ClientsInv
  <2>2. CASE t = s /\ d = c
    BY <1>2, <1>5, <1>8, <1>11, <1>12, <1>21, <1>25, <2>2 DEF Link, Owned, NONE
  <2>3. CASE t = s /\ d # c
    <3>1. a \notin Told(client[d], net[d])
      BY <1>1 DEF IInv, ClientsInv
    <3> QED BY <1>2, <1>5, <1>8, <1>21, <2>3, <3>1 DEF Link
  <2>4. CASE t # s /\ d = c
    <3>1. Apart(slot[s], slot[t], avatars)
      BY <2>4 DEF IInv, SlotsInv
    <3>2. slot[t].client # c
      BY <1>2, <3>1, NoClientApart DEF Apart
    <3> QED BY <1>8, <1>11, <1>21, <1>23, <1>25, <2>4, <3>2 DEF Link
  <2>5. CASE t # s /\ d # c
    <3>1. slot'[t] = slot[t] /\ net'[d] = net[d] /\ slot[t].avatar # a
      BY <1>8, <1>21, <1>23, <2>5
    <3>2. slot[t].avatar \in avatars' <=> slot[t].avatar \in avatars
      BY <3>1
    <3>3. Owned(slot[t], client[d], net[d], d \in Waiting, avatars)
            => Owned(slot[t], client[d], net[d], d \in Waiting, avatars')
      BY <3>2 DEF Owned
    <3> QED BY <2>1, <3>1, <3>2, <3>3 DEF Link
  <2> QED BY <2>2, <2>3, <2>4, <2>5
<1>29. Waiting' = Waiting /\ StopInv'
  BY <1>2 DEF Waiting, StopInv, Running
<1>30. ClientsInv'
  BY <1>27, <1>28, <1>29 DEF ClientsInv, Transport
<1> QED BY <1>9, <1>22, <1>24, <1>29, <1>30 DEF IInv

LEMMA UserAuth ==
  ASSUME IInv, NEW s \in Slots, vs_RESPOND_userauth_loop(s)
  PROVE  IInv'
<1>1. PICK c, a : c = slot[s].client /\ a = avatar_count + 1
  OBVIOUS
<1>2. CASE /\ Argument(s) /\ avatar_count' = a /\ avatars' = avatars \union {a}
           /\ slot' = [slot EXCEPT ![s].state = "NEGOTIATE_TOKEN_DED", ![s].user = c,
                                   ![s].avatar = a, ![s].token = a]
           /\ net' = Answer(c, AuthSuccess(a))
  BY <1>1, <1>2, UserAccepted DEF vs_RESPOND_userauth_loop, serverVars
<1>3. CASE /\ slot' = [slot EXCEPT ![s].state = "NEGOTIATE_TOKEN_DED"]
           /\ net' = Answer(c, AuthFailure) /\ UNCHANGED <<avatars, avatar_count>>
  BY <1>1, <1>3, UserRefused DEF vs_RESPOND_userauth_loop, serverVars
<1> QED BY <1>1, <1>2, <1>3 DEF vs_RESPOND_userauth_loop

(* A stream thread is about to leave slot s, or leaves it.                 *)
LEMMA SlotLeft ==
  ASSUME IInv, Running, NEW s \in Slots, NEW e \in SlotType, slot' = [slot EXCEPT ![s] = e],
         avatars' = avatars \ {slot[s].avatar}, e.avatar \notin avatars', e.avatar <= avatar_count,
         SlotInv(e, avatars'), Calm(slot[s], e),
         e.client \in {NoClient, slot[s].client}, e.thread \in {NONE, "LISTEN"},
         e.client = NoClient <=> e.thread = NONE,
         UNCHANGED <<workload, client, net, backlog, aggregation, raced, avatar_count, server>>
  PROVE  IInv'
<1>1. /\ slot' \in [Slots -> SlotType] /\ slot'[s] = e
      /\ \A t \in Slots : t # s => slot'[t] = slot[t]
      /\ \A t \in Slots : (slot'[t].client = NoClient) <=> (slot'[t].thread = NONE)
  BY SlotAt
<1>2. PortsInv' /\ PortsTyped'
  BY PortsAt
<1>3. Types'
  <2>1. TypeOK'
    BY <1>1, <1>2 DEF IInv, Types, TypeOK, PortsTyped
  <2> QED BY <2>1 DEF IInv, Types
<1>4. ASSUME NEW t \in Slots, t # s
      PROVE  slot'[t] = slot[t] /\ (slot[t].avatar \in avatars' <=> slot[t].avatar \in avatars)
  <2>1. Apart(slot[s], slot[t], avatars)
    BY <1>4 DEF IInv, SlotsInv
  <2> QED BY <1>1, <1>4, <2>1 DEF Apart
<1>5. SlotsInv'
  <2>1. ASSUME NEW t \in Slots PROVE SlotInv(slot'[t], avatars') /\ slot'[t].avatar <= avatar_count
    <3>1. CASE t = s
      BY <1>1, <3>1
    <3>2. CASE t # s
      <4>1. SlotInv(slot[t], avatars) /\ slot[t].avatar <= avatar_count
        BY DEF IInv, SlotsInv
      <4>2. SlotInv(slot[t], avatars')
        BY <1>4, <3>2, <4>1 DEF SlotInv
      <4> QED BY <1>4, <3>2, <4>1, <4>2
    <3> QED BY <3>1, <3>2
  <2>2. ASSUME NEW t \in Slots, NEW u \in Slots, t # u PROVE Apart(slot'[t], slot'[u], avatars')
    <3>1. Apart(slot[t], slot[u], avatars)
      BY <2>2 DEF IInv, SlotsInv
    <3>2. slot'[t].client = slot'[u].client => slot'[t].client = NoClient
      BY <1>1, <2>2, <3>1 DEF Apart
    <3>3. CASE t = s
      BY <1>1, <3>2, <3>3 DEF Apart
    <3>4. CASE u = s
      BY <1>1, <3>2, <3>4 DEF Apart
    <3>5. CASE t # s /\ u # s
      BY <1>4, <3>1, <3>5 DEF Apart
    <3> QED BY <3>3, <3>4, <3>5
  <2>3. ASSUME NEW b \in avatars' PROVE \E t \in Slots : slot'[t].avatar = b
    <3>1. PICK t \in Slots : slot[t].avatar = b
      BY <2>3 DEF IInv, SlotsInv
    <3>2. t # s
      BY <2>3, <3>1
    <3> QED BY <1>1, <3>1, <3>2
  <2> QED BY <2>1, <2>2, <2>3 DEF SlotsInv
<1>6. ASSUME NEW t \in Slots, NEW d \in Clients
      PROVE  Link(slot'[t], d, client[d], net[d], d \in Waiting, avatars')
  <2>1. Link(slot[t], d, client[d], net[d], d \in Waiting, avatars)
    BY DEF IInv, ClientsInv
  <2>2. CASE t = s
    <3>1. e.client = d => slot[s].client = d /\ e.thread = "LISTEN"
      BY NoClientApart
    <3>2. e.client = d => Owned(e, client[d], net[d], d \in Waiting, avatars')
      BY <2>1, <2>2, <3>1 DEF Link, Owned
    <3> QED BY <1>1, <2>2, <3>2 DEF Link
  <2>3. CASE t # s
    <3>1. slot'[t] = slot[t] /\ (slot[t].avatar \in avatars' <=> slot[t].avatar \in avatars)
      BY <1>4, <2>3
    <3>2. Owned(slot[t], client[d], net[d], d \in Waiting, avatars)
            => Owned(slot[t], client[d], net[d], d \in Waiting, avatars')
      BY <3>1 DEF Owned
    <3> QED BY <2>1, <3>1, <3>2 DEF Link
  <2> QED BY <2>2, <2>3
<1>7. Waiting' = Waiting /\ StopInv'
  BY DEF Waiting, StopInv, Running
<1>8. ClientsInv'
  BY <1>6, <1>7 DEF IInv, ClientsInv, Transport
<1> QED BY <1>2, <1>3, <1>5, <1>7, <1>8 DEF IInv

LEMMA SessionEnds ==
  ASSUME IInv, NEW s \in Slots, vs_session_ends(s)
  PROVE  IInv'
<1>1. /\ Running /\ avatars' = avatars \ {slot[s].avatar}
      /\ UNCHANGED <<workload, client, net, backlog, aggregation, raced, avatar_count, server>>
  BY DEF vs_session_ends, serverVars
<1>2. PICK f : f = slot[s] /\ f \in SlotType /\ SlotInv(f, avatars) /\ f.thread = "FREE"
               /\ (f.client = NoClient <=> f.thread = NONE)
  BY SlotFacts DEF vs_session_ends
<1>3. PICK a : a = IF f.avatar \in avatars THEN f.avatar ELSE NoAvatar
  OBVIOUS
<1>4. PICK e : e = [f EXCEPT !.thread = "LISTEN", !.avatar = a]
  OBVIOUS
<1>5. slot' = [slot EXCEPT ![s] = e]
  BY <1>2, <1>3, <1>4 DEF vs_session_ends
<1>6. /\ avatar_count \in Nat /\ avatars \subseteq 1..avatar_count /\ f.avatar \in Int
      /\ f.avatar <= avatar_count /\ NoAvatar \notin avatars
  BY <1>2 DEF IInv, Types, SlotsInv, SlotType, NoAvatar
<1>7. a \in Int /\ a <= avatar_count /\ a \notin avatars'
  BY <1>1, <1>2, <1>3, <1>6 DEF NoAvatar
<1>8. /\ e.state = f.state /\ e.thread = "LISTEN" /\ e.client = f.client /\ e.avatar = a
      /\ e.udp = f.udp /\ e.web = f.web /\ e \in SlotType
  BY ZenonT(60), <1>2, <1>4, <1>7 DEF SlotType, NONE
<1>9. ~Busy(f) /\ ~Busy(e) /\ Calm(f, e)
  BY <1>2, <1>8 DEF SlotInv, Finds, Busy, Calm
<1>11. SlotInv(e, avatars')
  BY <1>2, <1>7, <1>8, <1>9 DEF SlotInv, Searches, Finds, Busy, NONE
<1>12. e.client = NoClient <=> e.thread = NONE
  BY <1>2, <1>8 DEF NONE
<1> QED BY <1>1, <1>2, <1>5, <1>7, <1>8, <1>9, <1>11, <1>12, SlotLeft

LEMMA SlotListens ==
  ASSUME IInv, NEW s \in Slots, vs_slot_listens(s)
  PROVE  IInv'
<1>1. /\ Running
      /\ UNCHANGED <<workload, client, net, backlog, aggregation, raced, avatars, avatar_count, server>>
  BY DEF vs_slot_listens, serverVars
<1>2. PICK f : f = slot[s] /\ f \in SlotType /\ SlotInv(f, avatars) /\ f.thread = "LISTEN"
               /\ f.avatar <= avatar_count
  BY SlotFacts DEF vs_slot_listens, IInv, SlotsInv
<1>3. PICK e : e = [f EXCEPT !.thread = NONE, !.state = "LISTEN", !.client = NoClient]
  OBVIOUS
<1>4. slot' = [slot EXCEPT ![s] = e]
  BY <1>2, <1>3 DEF vs_slot_listens
<1>5. /\ e.state = "LISTEN" /\ e.thread = NONE /\ e.client = NoClient /\ e.avatar = f.avatar
      /\ e.udp = f.udp /\ e \in SlotType
  BY ZenonT(60), <1>2, <1>3 DEF SlotType, NONE
<1>6. f.avatar \notin avatars /\ avatars' = avatars \ {f.avatar} /\ ~Busy(f) /\ ~Busy(e)
  BY <1>1, <1>2, <1>5 DEF SlotInv, Busy
<1>7. SlotInv(e, avatars') /\ Calm(f, e)
  BY <1>1, <1>5, <1>6 DEF SlotInv, Searches, Finds, Busy, Calm, NONE
<1> QED BY <1>1, <1>2, <1>4, <1>5, <1>6, <1>7, SlotLeft

(* The first connection leaves the backlog.                                *)
LEMMA BacklogTail ==
  ASSUME IInv, backlog # <<>>, backlog' = Tail(backlog)
  PROVE  /\ Head(backlog) \in Clients /\ Head(backlog) \in Waiting
         /\ backlog' \in Seq(Clients) /\ \A c \in Clients : Once(backlog', c)
         /\ Waiting' \subseteq Waiting /\ Head(backlog) \notin Waiting'
<1>1. backlog \in Seq(Clients) /\ \A c \in Clients : Once(backlog, c)
  BY DEF IInv, Types
<1>2. /\ Head(backlog) \in Clients /\ Head(backlog) \in Waiting /\ backlog' \in Seq(Clients)
      /\ Waiting' \subseteq Waiting
  BY <1>1, TailElements DEF Waiting
<1>3. /\ DOMAIN backlog = 1..Len(backlog) /\ DOMAIN backlog' = 1..(Len(backlog) - 1) /\ Len(backlog) \in Nat
      /\ \A i \in DOMAIN backlog' : i + 1 \in DOMAIN backlog /\ backlog'[i] = backlog[i + 1]
      /\ 1 \in DOMAIN backlog /\ Head(backlog) = backlog[1]
  BY <1>1
<1>4. ASSUME NEW c \in Clients PROVE Once(backlog', c)
  BY <1>1, <1>3 DEF Once
<1>5. Head(backlog) \notin Waiting'
  <2> SUFFICES ASSUME Head(backlog) \in Waiting' PROVE FALSE
    OBVIOUS
  <2>1. PICK i \in DOMAIN backlog' : backlog'[i] = Head(backlog)
    BY DEF Waiting, ToSet
  <2>2. i + 1 \in DOMAIN backlog /\ backlog[i + 1] = Head(backlog) /\ i \in Nat /\ i > 0
    BY <1>3, <2>1
  <2>3. i + 1 = 1
    BY <1>1, <1>2, <1>3, <2>2 DEF Once
  <2> QED BY <2>2, <2>3
<1> QED BY <1>2, <1>4, <1>5

LEMMA NewStreamConn ==
  ASSUME IInv, vs_new_stream_conn
  PROVE  IInv'
<1>1. /\ server = "READY" /\ backlog # <<>> /\ backlog' = Tail(backlog)
      /\ UNCHANGED <<workload, client, aggregation, raced, avatars, avatar_count, server>>
  BY DEF vs_new_stream_conn, serverVars
<1>2. PICK c, free : c = Head(backlog) /\ free = {s \in workload.slots : SlotFree(s)}
  OBVIOUS
<1>3. /\ c \in Clients /\ c \in Waiting
      /\ backlog' \in Seq(Clients) /\ \A d \in Clients : Once(backlog', d)
      /\ Waiting' \subseteq Waiting /\ c \notin Waiting'
  BY <1>1, <1>2, BacklogTail
<1>4. StopInv' /\ server' \in {"READY", "CLOSING", "CLOSED", "GAVE_UP"}
  BY <1>1 DEF StopInv
<1>5. /\ net \in [Clients -> StreamType] /\ slot \in [Slots -> SlotType]
      /\ \A t \in Slots : (slot[t].client = NoClient) <=> (slot[t].thread = NONE)
      /\ \A t \in Slots : SlotInv(slot[t], avatars)
  BY DEF IInv, Types, TypeOK, SlotsInv
<1>6. CASE slot' = slot /\ net' = Hangup(c)
  <2>1. net' \in [Clients -> StreamType] /\ \A d \in Clients : Answered(net[d], net'[d])
    BY <1>3, <1>5, <1>6, StreamHungUp
  <2>2. PortsInv' /\ PortsTyped'
    <3>1. \A f : Calm(f, f)
      BY DEF Calm
    <3>2. \A t \in Slots : Calm(slot[t], slot'[t])
      BY <1>6, <3>1
    <3> QED BY <1>1, <3>2, PortsKept
  <2> QED BY <1>1, <1>3, <1>4, <1>5, <1>6, <2>1, <2>2, ServerKept
<1>7. CASE /\ free # {}
           /\ \E s : /\ s = CHOOSE x \in free : \A t \in free : x <= t
                     /\ slot' = [slot EXCEPT ![s].state = "RESPOND_METHODS", ![s].client = c,
                                             ![s].thread = "TLS", ![s].web = Transport(c) = WEBSOCKET]
           /\ net' = net
  <2>1. free \subseteq Slots /\ free \subseteq Nat
    <3>1. workload.slots \subseteq Slots /\ Slots \subseteq Nat
      BY SessionsAssumption DEF IInv, Types, TypeOK
    <3>2. free \subseteq workload.slots
      BY <1>2
    <3> QED BY <3>1, <3>2
  <2>2. \E s \in free : \A t \in free : s <= t
    BY <1>7, <2>1, LeastNat
  <2>3. PICK s \in free :
          slot' = [slot EXCEPT ![s].state = "RESPOND_METHODS", ![s].client = c,
                               ![s].thread = "TLS", ![s].web = Transport(c) = WEBSOCKET]
    BY <1>7, <2>2
  <2>4. s \in Slots /\ slot[s].state = "LISTEN"
    BY <1>2, <2>1, <2>3 DEF SlotFree
  <2>5. PICK f, web : f = slot[s] /\ f \in SlotType /\ SlotInv(f, avatars) /\ web = (Transport(c) = WEBSOCKET)
    BY <1>5, <2>4
  <2>6. PICK e : e = [f EXCEPT !.state = "RESPOND_METHODS", !.client = c, !.thread = "TLS", !.web = web]
    OBVIOUS
  <2>7. slot' = [slot EXCEPT ![s] = e]
    BY <2>3, <2>5, <2>6
  <2>8. /\ e.state = "RESPOND_METHODS" /\ e.thread = "TLS" /\ e.client = c /\ e.avatar = f.avatar
        /\ e.user = f.user /\ e.token = f.token /\ e.web = web
        /\ e.udp = f.udp /\ e.dgram = f.dgram /\ e.port = f.port /\ e.peer = f.peer
        /\ e.count = f.count /\ e.search = f.search /\ e \in SlotType
    <3>1. web \in BOOLEAN /\ c \in Clients \union {NoClient}
      BY <1>3, <2>5
    <3> QED BY ZenonT(60), <2>5, <2>6, <3>1 DEF SlotType
  <2>9. f.thread = NONE /\ f.avatar \notin avatars /\ ~Busy(f) /\ ~Busy(e) /\ Calm(f, e)
    BY <2>4, <2>5, <2>8 DEF SlotInv, Searches, Finds, Busy, Calm, NONE
  <2>10. SlotInv(e, avatars) /\ (e.client = NoClient <=> e.thread = NONE)
    BY <1>3, <2>8, <2>9, NoClientApart DEF SlotInv, Searches, Finds, Busy, Calm, NONE
  <2>11. /\ slot' \in [Slots -> SlotType] /\ slot'[s] = e
         /\ \A t \in Slots : t # s => slot'[t] = slot[t]
         /\ \A t \in Slots : (slot'[t].client = NoClient) <=> (slot'[t].thread = NONE)
    BY <2>4, <2>7, <2>8, <2>10, SlotAt
  <2>12. PortsInv' /\ PortsTyped'
    BY <1>1, <2>4, <2>5, <2>7, <2>8, <2>9, PortsAt
  <2>13. Types'
    <3>1. TypeOK'
      BY <1>1, <2>11, <2>12 DEF IInv, Types, TypeOK, PortsTyped
    <3> QED BY <1>1, <1>3, <1>7, <3>1 DEF IInv, Types
  <2>14. ASSUME NEW t \in Slots PROVE slot[t].client # c
    BY <1>3 DEF IInv, ClientsInv, Link, Owned
  <2>15. SlotsInv'
    <3>1. ASSUME NEW t \in Slots
          PROVE  /\ SlotInv(slot'[t], avatars) /\ slot'[t].avatar = slot[t].avatar
                 /\ t # s => slot'[t].client = slot[t].client
      BY <1>5, <2>5, <2>8, <2>10, <2>11
    <3>2. ASSUME NEW t \in Slots, NEW u \in Slots, t # u PROVE Apart(slot'[t], slot'[u], avatars)
      <4>1. Apart(slot[t], slot[u], avatars)
        BY <3>2 DEF IInv, SlotsInv
      <4>2. slot'[t].client = slot'[u].client => slot'[t].client = NoClient
        BY <2>8, <2>11, <2>14, <3>2, <4>1 DEF Apart
      <4> QED BY <3>1, <4>1, <4>2 DEF Apart
    <3>3. \A t \in Slots : slot[t].avatar <= avatar_count
      BY DEF IInv, SlotsInv
    <3>4. \A a \in avatars : \E t \in Slots : slot'[t].avatar = a
      BY <3>1 DEF IInv, SlotsInv
    <3> QED BY <1>1, <3>1, <3>2, <3>3, <3>4 DEF SlotsInv
  <2>16. ASSUME NEW d \in Clients
         PROVE  /\ ClientInv(client[d], net[d], d \in Waiting')
                /\ Told(client[d], net[d]) \subseteq 1..avatar_count
                /\ client[d].state # "IDLE" => Transport(d) # NONE
    <3>1. /\ ClientInv(client[d], net[d], d \in Waiting) /\ Told(client[d], net[d]) \subseteq 1..avatar_count
          /\ client[d].state # "IDLE" => Transport(d) # NONE
      BY DEF IInv, ClientsInv
    <3>2. d \in Waiting' => d \in Waiting
      BY <1>3
    <3> QED BY <3>1, <3>2, FewerWait
  <2>17. ASSUME NEW t \in Slots, NEW d \in Clients
         PROVE  Link(slot'[t], d, client[d], net[d], d \in Waiting', avatars)
    <3>1. CASE t = s /\ d = c
      <4>1. ClientInv(client[c], net[c], c \in Waiting)
        BY <1>3 DEF IInv, ClientsInv
      <4>2. Told(client[c], net[c]) = {} /\ client[c].state \in {"CONNECTING", "CLOSED"}
        BY <1>3, <4>1 DEF ClientInv
      <4> QED BY <1>3, <2>5, <2>8, <2>9, <2>11, <3>1, <4>2 DEF Link, Owned
    <3>2. CASE t = s /\ d # c
      BY <2>8, <2>9, <2>11, <3>2 DEF Link
    <3>3. CASE t # s
      <4>1. Link(slot[t], d, client[d], net[d], d \in Waiting, avatars)
        BY DEF IInv, ClientsInv
      <4>2. d \in Waiting' => d \in Waiting
        BY <1>3
      <4>3. Link(slot[t], d, client[d], net[d], d \in Waiting', avatars)
        BY <4>1, <4>2, FewerWait
      <4> QED BY <2>11, <3>3, <4>3
    <3> QED BY <3>1, <3>2, <3>3
  <2>18. ClientsInv'
    BY <1>1, <1>7, <2>16, <2>17 DEF ClientsInv, Transport
  <2> QED BY <1>4, <2>12, <2>13, <2>15, <2>18 DEF IInv
<1> QED BY <1>2, <1>6, <1>7 DEF vs_new_stream_conn

-----------------------------------------------------------------------------
(* The server stops.                                                       *)

LEMMA RequestTerminate ==
  ASSUME IInv, vs_request_terminate
  PROVE  IInv'
<1>1. /\ server' = "CLOSING"
      /\ UNCHANGED <<workload, client, net, backlog, aggregation, raced, avatars, avatar_count>>
      /\ slot' = [s \in Slots |->
           IF slot[s].state = "LISTEN" THEN slot[s]
           ELSE IF slot[s].dgram # "CLOSED" THEN [slot[s] EXCEPT !.dgram = "CLOSEREQ"]
           ELSE [slot[s] EXCEPT !.state = "CLOSING"]]
  BY DEF vs_request_terminate, serverVars
<1>2. ASSUME NEW s \in Slots
      PROVE  /\ slot'[s] \in SlotType
             /\ slot'[s].client = slot[s].client /\ slot'[s].avatar = slot[s].avatar
             /\ slot'[s].client = NoClient <=> slot'[s].thread = NONE
             /\ slot'[s].thread = slot[s].thread /\ SlotInv(slot'[s], avatars)
             /\ Calm(slot[s], slot'[s])
  <2>1. PICK f, e : /\ f = slot[s] /\ e = slot'[s] /\ f \in SlotType /\ SlotInv(f, avatars)
                    /\ f.client = NoClient <=> f.thread = NONE
    BY SlotFacts
  <2>2. CASE e = f
    BY <2>1, <2>2 DEF Calm
  <2>3. CASE e = [f EXCEPT !.dgram = "CLOSEREQ"]
    <3>1. /\ e.state = f.state /\ e.thread = f.thread /\ e.client = f.client /\ e.web = f.web
          /\ e.user = f.user /\ e.avatar = f.avatar /\ e.token = f.token
          /\ e.udp = f.udp /\ e.dgram = "CLOSEREQ" /\ e.port = f.port /\ e.peer = f.peer
          /\ e.count = f.count /\ e.search = f.search /\ e \in SlotType
      BY <2>1, <2>3 DEF SlotType
    <3>2. SlotInv(e, avatars) /\ Calm(f, e)
      BY <2>1, <3>1 DEF SlotInv, Searches, Finds, Busy, Calm
    <3> QED BY <2>1, <3>1, <3>2
  <2>4. CASE f.state # "LISTEN" /\ e = [f EXCEPT !.state = "CLOSING"]
    <3>1. /\ e.state = "CLOSING" /\ e.thread = f.thread /\ e.client = f.client /\ e.web = f.web
          /\ e.user = f.user /\ e.avatar = f.avatar /\ e.token = f.token
          /\ e.udp = f.udp /\ e.dgram = f.dgram /\ e.port = f.port /\ e.peer = f.peer
          /\ e.count = f.count /\ e.search = f.search /\ e \in SlotType
      BY <2>1, <2>4 DEF SlotType
    <3>2. SlotInv(e, avatars) /\ Calm(f, e)
      BY <2>1, <2>4, <3>1 DEF SlotInv, Searches, Finds, Busy, Calm, NONE
    <3> QED BY <2>1, <3>1, <3>2
  <2> QED BY <1>1, <2>1, <2>2, <2>3, <2>4
<1>3. slot' \in [Slots -> SlotType]
  <2>1. slot' = [s \in Slots |-> slot'[s]]
    BY <1>1
  <2> QED BY <1>2, <2>1
<1>4. PortsInv' /\ PortsTyped'
  BY <1>1, <1>2, PortsKept
<1>5. net' \in [Clients -> StreamType] /\ \A c \in Clients : Answered(net[c], net'[c])
  BY <1>1, StreamsSame DEF IInv, Types
<1>6. /\ Waiting' = Waiting /\ StopInv' /\ server' \in {"READY", "CLOSING", "CLOSED", "GAVE_UP"}
      /\ backlog' \in Seq(Clients) /\ \A c \in Clients : Once(backlog', c)
  BY <1>1 DEF Waiting, StopInv, IInv, Types
<1> QED BY <1>1, <1>2, <1>3, <1>4, <1>5, <1>6, ServerKept

LEMMA ListenLoopEnds ==
  ASSUME IInv, vs_main_listen_loop_ends
  PROVE  IInv'
<1>1. /\ server' = IF NoPending THEN "CLOSED" ELSE "GAVE_UP"
      /\ net' = [c \in Clients |-> [net[c] EXCEPT !.server_end = FALSE, !.to_server = <<>>]]
      /\ backlog' = <<>>
      /\ UNCHANGED <<workload, client, slot, aggregation, raced, avatars, avatar_count>>
  BY DEF vs_main_listen_loop_ends, serverVars
<1>2. /\ net \in [Clients -> StreamType] /\ slot \in [Slots -> SlotType]
      /\ \A t \in Slots : (slot[t].client = NoClient) <=> (slot[t].thread = NONE)
      /\ \A t \in Slots : SlotInv(slot[t], avatars)
  BY DEF IInv, Types, TypeOK, SlotsInv
<1>3. ASSUME NEW c \in Clients PROVE net'[c] \in StreamType /\ Answered(net[c], net'[c])
  <2>1. PICK n, m : /\ n = net[c] /\ m = net'[c] /\ n \in StreamType
                    /\ m = [n EXCEPT !.server_end = FALSE, !.to_server = <<>>]
    BY <1>1, <1>2
  <2>2. /\ m.to_server = <<>> /\ m.to_client = n.to_client /\ m.client_end = n.client_end
        /\ m \in StreamType
    BY <2>1, EmptyStream DEF StreamType
  <2>3. Answered(n, m)
    BY <2>2, EmptyStream DEF Answered, Up, Down
  <2> QED BY <2>1, <2>2, <2>3
<1>4. net' \in [Clients -> StreamType]
  <2>1. net' = [c \in Clients |-> net'[c]]
    BY <1>1
  <2> QED BY <1>3, <2>1
<1>5. PortsInv' /\ PortsTyped'
  <2>1. \A f : Calm(f, f)
    BY DEF Calm
  <2>2. \A t \in Slots : Calm(slot[t], slot'[t])
    BY <1>1, <2>1
  <2> QED BY <1>1, <2>2, PortsKept
<1>6. StopInv' /\ server' \in {"READY", "CLOSING", "CLOSED", "GAVE_UP"}
  BY <1>1 DEF StopInv, NoPending
<1>7. Waiting' \subseteq Waiting /\ backlog' \in Seq(Clients) /\ \A c \in Clients : Once(backlog', c)
  <2>1. Waiting' = {}
    BY <1>1, EmptyStream DEF Waiting
  <2>2. <<>> \in Seq(Clients) /\ \A c \in Clients : Once(<<>>, c)
    BY DEF Once
  <2> QED BY <1>1, <2>1, <2>2
<1> QED BY <1>1, <1>2, <1>3, <1>4, <1>5, <1>6, <1>7, ServerKept

-----------------------------------------------------------------------------
(* The clients.                                                            *)

LEMMA ClientFacts ==
  ASSUME IInv, NEW c \in Clients
  PROVE  /\ client \in [Clients -> ClientType] /\ client[c] \in ClientType
         /\ net \in [Clients -> StreamType] /\ net[c] \in StreamType
         /\ ClientInv(client[c], net[c], c \in Waiting)
         /\ Told(client[c], net[c]) \subseteq 1..avatar_count /\ avatar_count \in Nat
BY DEF IInv, Types, TypeOK, ClientsInv

(* A client sends a message.                                               *)
LEMMA ClientSays ==
  ASSUME NEW n \in StreamType, NEW m \in Msgs, NEW o, o = [n EXCEPT !.to_server = Append(@, m)]
  PROVE  /\ o \in StreamType /\ Up(o) = Up(n) \union {m} /\ Down(o) = Down(n)
         /\ o.client_end = n.client_end
<1>1. n.to_server \in Seq(Msgs)
  BY DEF StreamType
<1>2. /\ Append(n.to_server, m) \in Seq(Msgs)
      /\ ToSet(Append(n.to_server, m)) = ToSet(n.to_server) \union {m}
  BY <1>1, AppendElements
<1>3. /\ o.to_server = Append(n.to_server, m) /\ o.to_client = n.to_client
      /\ o.client_end = n.client_end /\ o \in StreamType
  BY <1>2 DEF StreamType
<1> QED BY <1>2, <1>3 DEF Up, Down

(* A client reads a message.                                               *)
LEMMA ClientReads ==
  ASSUME NEW n \in StreamType, n.to_client # <<>>, NEW o, o = [n EXCEPT !.to_client = Tail(@)]
  PROVE  /\ o \in StreamType /\ Up(o) = Up(n) /\ Down(o) \subseteq Down(n)
         /\ o.client_end = n.client_end
         /\ Head(n.to_client) \in Down(n) /\ Head(n.to_client) \in Msgs
<1>1. n.to_client \in Seq(Msgs)
  BY DEF StreamType
<1>2. /\ Tail(n.to_client) \in Seq(Msgs) /\ ToSet(Tail(n.to_client)) \subseteq ToSet(n.to_client)
      /\ Head(n.to_client) \in Msgs /\ Head(n.to_client) \in ToSet(n.to_client)
  BY <1>1, TailMsgs
<1>3. /\ o.to_client = Tail(n.to_client) /\ o.to_server = n.to_server
      /\ o.client_end = n.client_end /\ o \in StreamType
  BY <1>2 DEF StreamType
<1> QED BY <1>2, <1>3 DEF Up, Down

(* A client closes its end of the stream.                                  *)
LEMMA ClientHangsUp ==
  ASSUME NEW n \in StreamType, NEW o,
         \/ o = [n EXCEPT !.client_end = FALSE]
         \/ o = [n EXCEPT !.client_end = FALSE, !.to_client = <<>>]
  PROVE  /\ o \in StreamType /\ Up(o) = Up(n) /\ Down(o) \subseteq Down(n) /\ ~o.client_end
<1>1. CASE o = [n EXCEPT !.client_end = FALSE]
  BY <1>1 DEF StreamType, Up, Down
<1>2. CASE o = [n EXCEPT !.client_end = FALSE, !.to_client = <<>>]
  BY <1>2, EmptyStream DEF StreamType, Up, Down
<1> QED BY <1>1, <1>2

LEMMA LessTold ==
  ASSUME NEW k, NEW j, NEW n, NEW o, Down(o) \subseteq Down(n), j.avatar = k.avatar
  PROVE  Told(j, o) \subseteq Told(k, n)
BY DEF Told

(* The messages that clients send.                                         *)
LEMMA ClientMsgs ==
  /\ AuthNone \in Msgs /\ AuthNone.type = "USER_AUTH_REQUEST_NONE"
  /\ CloseFrame \in Msgs /\ CloseFrame.type = "CONNECTION_CLOSE"
  /\ \A ok \in BOOLEAN : /\ AuthPassword(ok) \in Msgs /\ AuthPassword(ok).arg = ok
                         /\ AuthPassword(ok).type = "USER_AUTH_REQUEST_PASSWORD"
  /\ \A a \in Int : /\ TokenDed(a) \in Msgs /\ TokenDed(a).arg = a
                    /\ TokenDed(a).type = "CONFIRM_R_TOKEN"
  /\ \A url \in Int : ConfirmUrl(url) \in Msgs /\ ConfirmUrl(url).type = "CONFIRM_L_HOST_URL"
<1>1. ASSUME NEW t \in MsgTypes, NEW a \in Int \union BOOLEAN
      PROVE  Msg(t, a) \in Msgs /\ Msg(t, a).type = t /\ Msg(t, a).arg = a
  BY DEF Msg, Msgs
<1>2. /\ "USER_AUTH_REQUEST_NONE" \in MsgTypes /\ "CONNECTION_CLOSE" \in MsgTypes
      /\ "USER_AUTH_REQUEST_PASSWORD" \in MsgTypes /\ "CONFIRM_R_TOKEN" \in MsgTypes
      /\ "CONFIRM_L_HOST_URL" \in MsgTypes
  BY DEF MsgTypes
<1>3. 0 \in Int \union BOOLEAN
  OBVIOUS
<1>4. AuthNone \in Msgs /\ AuthNone.type = "USER_AUTH_REQUEST_NONE"
  BY <1>1, <1>2, <1>3 DEF AuthNone
<1>5. CloseFrame \in Msgs /\ CloseFrame.type = "CONNECTION_CLOSE"
  BY <1>1, <1>2, <1>3 DEF CloseFrame
<1>6. ASSUME NEW ok \in BOOLEAN
      PROVE  /\ AuthPassword(ok) \in Msgs /\ AuthPassword(ok).arg = ok
             /\ AuthPassword(ok).type = "USER_AUTH_REQUEST_PASSWORD"
  BY <1>1, <1>2 DEF AuthPassword
<1>7. ASSUME NEW a \in Int
      PROVE  TokenDed(a) \in Msgs /\ TokenDed(a).arg = a /\ TokenDed(a).type = "CONFIRM_R_TOKEN"
  BY <1>1, <1>2 DEF TokenDed
<1>8. ASSUME NEW url \in Int PROVE ConfirmUrl(url) \in Msgs /\ ConfirmUrl(url).type = "CONFIRM_L_HOST_URL"
  BY <1>1, <1>2 DEF ConfirmUrl
<1> QED BY <1>4, <1>5, <1>6, <1>7, <1>8

(* A client that has not closed yet changes its state, and nothing that    *)
(* the server relies on; at most it sends a message that tells nothing.    *)
Harmless(m) == m.type \notin {"USER_AUTH_REQUEST_PASSWORD", "CONFIRM_R_TOKEN"}

LEMMA ClientGoesOn ==
  ASSUME IInv, NEW c \in Clients, NEW k \in ClientType, NEW n \in StreamType,
         client' = [client EXCEPT ![c] = k], net' = [net EXCEPT ![c] = n], UNCHANGED clientVars,
         Moves(client[c], k), k.avatar = client[c].avatar, k.token = client[c].token,
         k.state \in {"IDLE", "CONNECTING", "USRAUTH_NONE", "USRAUTH_DATA"} => k.avatar = NoAvatar,
         k.state = "NEGOTIATE_TOKEN_DED" \/ k.udp = "REQUEST" => k.avatar # NoAvatar,
         k.state = "CLOSED" => ~n.client_end /\ k.udp # "REQUEST",
         Down(n) \subseteq Down(net[c]), \A m \in Up(n) : m \in Up(net[c]) \/ Harmless(m)
  PROVE  IInv'
<1>1. ClientInv(client[c], net[c], c \in Waiting)
  BY ClientFacts
<1>2. Told(k, n) \subseteq Told(client[c], net[c])
  BY LessTold
<1>3. c \in Waiting => k.state \in {"CONNECTING", "CLOSED"}
  BY <1>1 DEF ClientInv, Moves
<1>4. Unknown(k) \/ c \in Waiting => Told(k, n) = {}
  BY <1>1, <1>2 DEF ClientInv, Moves
<1>5. \A m \in Up(n) :
        /\ m.type = "USER_AUTH_REQUEST_PASSWORD" => ~Unknown(k) /\ m.arg = k.right
        /\ m.type = "CONFIRM_R_TOKEN" => m.arg = k.avatar /\ m.arg # NoAvatar
  BY <1>1 DEF ClientInv, Harmless, Moves
<1>6. \A m \in Down(n) : m.type = "CHANGE_L_HOST_URL" => m.arg \in Int
  BY <1>1 DEF ClientInv
<1>7. ClientInv(k, n, c \in Waiting)
  BY <1>1, <1>3, <1>4, <1>5, <1>6 DEF ClientInv
<1> QED BY <1>2, <1>7, ClientKept

LEMMA ConnectFailed ==
  ASSUME IInv, NEW c \in Clients, vc_connect_failed(c)
  PROVE  IInv'
<1>1. PICK f, n : f = client[c] /\ n = net[c] /\ f \in ClientType /\ n \in StreamType
  BY ClientFacts
<1>2. PICK k, o : /\ k = [f EXCEPT !.state = "CLOSED", !.told = TRUE]
                  /\ o = [n EXCEPT !.client_end = FALSE]
  OBVIOUS
<1>3. /\ client' = [client EXCEPT ![c] = k] /\ net' = [net EXCEPT ![c] = o]
      /\ UNCHANGED clientVars /\ f.state = "CONNECTING"
  BY <1>1, <1>2 DEF vc_connect_failed
<1>4. /\ k \in ClientType /\ k.state = "CLOSED" /\ k.avatar = f.avatar /\ k.token = f.token
      /\ k.udp = f.udp /\ k.right = f.right
  BY <1>1, <1>2 DEF ClientType
<1>5. o \in StreamType /\ Up(o) = Up(n) /\ Down(o) \subseteq Down(n) /\ ~o.client_end
  BY <1>1, <1>2, ClientHangsUp
<1>6. f.avatar = NoAvatar /\ f.udp # "REQUEST"
  BY <1>1, <1>3, ClientFacts DEF ClientInv
<1>7. Moves(f, k)
  BY <1>3, <1>4 DEF Moves, Unknown
<1> QED BY <1>1, <1>3, <1>4, <1>5, <1>6, <1>7, ClientGoesOn

LEMMA NoneLoop ==
  ASSUME IInv, NEW c \in Clients, vc_USRAUTH_none_loop(c)
  PROVE  IInv'
<1>1. PICK f, n : f = client[c] /\ n = net[c] /\ f \in ClientType /\ n \in StreamType
  BY ClientFacts
<1>2. PICK k, o, m : /\ k = [f EXCEPT !.sent = TRUE] /\ m = AuthNone
                     /\ o = [n EXCEPT !.to_server = Append(@, m)]
  OBVIOUS
<1>3. /\ client' = [client EXCEPT ![c] = k] /\ net' = [net EXCEPT ![c] = o]
      /\ UNCHANGED clientVars /\ f.state = "USRAUTH_NONE"
  BY <1>1, <1>2 DEF vc_USRAUTH_none_loop, ToServer
<1>4. /\ k \in ClientType /\ k.state = f.state /\ k.avatar = f.avatar /\ k.token = f.token
      /\ k.udp = f.udp /\ k.right = f.right
  BY <1>1, <1>2 DEF ClientType
<1>5. m \in Msgs /\ Harmless(m)
  BY <1>2, ClientMsgs DEF Harmless
<1>6. o \in StreamType /\ Up(o) = Up(n) \union {m} /\ Down(o) = Down(n)
  BY <1>1, <1>2, <1>5, ClientSays
<1>7. f.avatar = NoAvatar /\ f.udp # "REQUEST"
  BY <1>1, <1>3, ClientFacts DEF ClientInv
<1>8. Moves(f, k)
  BY <1>3, <1>4 DEF Moves, Unknown
<1> QED BY <1>1, <1>3, <1>4, <1>5, <1>6, <1>7, <1>8, ClientGoesOn

LEMMA MethodsReceived ==
  ASSUME IInv, NEW c \in Clients, vc_methods_received(c)
  PROVE  IInv'
<1>1. PICK f, n : f = client[c] /\ n = net[c] /\ f \in ClientType /\ n \in StreamType
  BY ClientFacts
<1>2. PICK k, o : /\ k = [f EXCEPT !.state = "USRAUTH_DATA", !.sent = FALSE]
                  /\ o = [n EXCEPT !.to_client = Tail(@)]
  OBVIOUS
<1>3. /\ client' = [client EXCEPT ![c] = k] /\ net' = [net EXCEPT ![c] = o]
      /\ UNCHANGED clientVars /\ f.state = "USRAUTH_NONE" /\ n.to_client # <<>>
  BY <1>1, <1>2 DEF vc_methods_received, HasMsg
<1>4. /\ k \in ClientType /\ k.state = "USRAUTH_DATA" /\ k.avatar = f.avatar /\ k.token = f.token
      /\ k.udp = f.udp /\ k.right = f.right /\ ~k.sent
  BY <1>1, <1>2 DEF ClientType
<1>5. o \in StreamType /\ Up(o) = Up(n) /\ Down(o) \subseteq Down(n)
  BY <1>1, <1>2, <1>3, ClientReads
<1>6. f.avatar = NoAvatar /\ f.udp # "REQUEST"
  BY <1>1, <1>3, ClientFacts DEF ClientInv
<1>7. Moves(f, k)
  BY <1>3, <1>4 DEF Moves, Unknown
<1> QED BY <1>1, <1>3, <1>4, <1>5, <1>6, <1>7, ClientGoesOn

(* The password is the one message that the server takes on trust: a       *)
(* client gives one, and only then it is known.                            *)
LEMMA DataLoop ==
  ASSUME IInv, NEW c \in Clients, vc_USRAUTH_data_loop(c)
  PROVE  IInv'
<1>1. PICK f, n : f = client[c] /\ n = net[c] /\ f \in ClientType /\ n \in StreamType
  BY ClientFacts
<1>2. PICK ok \in BOOLEAN : /\ client' = [client EXCEPT ![c].sent = TRUE, ![c].right = ok]
                            /\ net' = ToServer(c, AuthPassword(ok))
  BY DEF vc_USRAUTH_data_loop
<1>3. PICK k, o, m : /\ k = [f EXCEPT !.sent = TRUE, !.right = ok] /\ m = AuthPassword(ok)
                     /\ o = [n EXCEPT !.to_server = Append(@, m)]
  OBVIOUS
<1>4. /\ client' = [client EXCEPT ![c] = k] /\ net' = [net EXCEPT ![c] = o]
      /\ UNCHANGED clientVars /\ f.state = "USRAUTH_DATA" /\ ~f.sent
  BY <1>1, <1>2, <1>3 DEF vc_USRAUTH_data_loop, ToServer
<1>5. /\ k \in ClientType /\ k.state = f.state /\ k.avatar = f.avatar /\ k.token = f.token
      /\ k.udp = f.udp /\ k.right = ok /\ k.sent
  BY <1>1, <1>3 DEF ClientType
<1>6. m \in Msgs /\ m.type = "USER_AUTH_REQUEST_PASSWORD" /\ m.arg = ok
  BY <1>3, ClientMsgs
<1>7. o \in StreamType /\ Up(o) = Up(n) \union {m} /\ Down(o) = Down(n)
  BY <1>1, <1>3, <1>6, ClientSays
<1>8. Unknown(f) /\ ~Unknown(k)
  BY <1>4, <1>5 DEF Unknown
<1>9. ClientInv(f, n, c \in Waiting)
  BY <1>1, ClientFacts
<1>10. f.avatar = NoAvatar /\ f.udp # "REQUEST" /\ ~(c \in Waiting)
  BY <1>4, <1>9 DEF ClientInv
<1>11. \A x \in Up(n) : x.type # "USER_AUTH_REQUEST_PASSWORD" /\ x.type # "CONFIRM_R_TOKEN"
  BY <1>8, <1>9, <1>10 DEF ClientInv
<1>12. Told(k, o) \subseteq Told(f, n)
  BY <1>5, <1>7, LessTold
<1>13. ClientInv(k, o, c \in Waiting)
  BY <1>4, <1>5, <1>6, <1>7, <1>8, <1>9, <1>10, <1>11 DEF ClientInv
<1>14. Moves(f, k)
  BY <1>4, <1>5, <1>8 DEF Moves
<1> QED BY <1>1, <1>4, <1>5, <1>7, <1>12, <1>13, <1>14, ClientKept

(* The avatar that the client is told now was on its way.                  *)
LEMMA AuthReceived ==
  ASSUME IInv, NEW c \in Clients, vc_auth_received(c)
  PROVE  IInv'
<1>1. PICK f, n : f = client[c] /\ n = net[c] /\ f \in ClientType /\ n \in StreamType
  BY ClientFacts
<1>2. /\ UNCHANGED clientVars /\ f.state = "USRAUTH_DATA" /\ f.sent /\ n.to_client # <<>>
  BY <1>1 DEF vc_auth_received, HasMsg
<1>3. PICK r : r = [n EXCEPT !.to_client = Tail(@)]
  OBVIOUS
<1>4. /\ r \in StreamType /\ Up(r) = Up(n) /\ Down(r) \subseteq Down(n)
      /\ Head(n.to_client) \in Down(n) /\ r.client_end = n.client_end
  BY <1>1, <1>2, <1>3, ClientReads
<1>5. /\ ClientInv(f, n, c \in Waiting) /\ Told(f, n) \subseteq 1..avatar_count /\ avatar_count \in Nat
      /\ f.avatar = NoAvatar /\ f.token = NoAvatar /\ f.udp # "REQUEST" /\ ~(c \in Waiting)
      /\ ~Unknown(f)
  BY <1>1, <1>2, ClientFacts DEF ClientInv, Unknown
<1>6. CASE /\ HasMsg(c, "USER_AUTH_SUCCESS")
           /\ \E a : /\ a = Head(n.to_client).arg
                     /\ client' = [client EXCEPT ![c].state = "NEGOTIATE_TOKEN_DED",
                                                 ![c].avatar = a, ![c].token = a]
                     /\ net' = [net EXCEPT ![c].to_client = Tail(@),
                                           ![c].to_server = Append(@, TokenDed(a))]
  <2>1. PICK a : /\ a = Head(n.to_client).arg
                 /\ client' = [client EXCEPT ![c].state = "NEGOTIATE_TOKEN_DED",
                                             ![c].avatar = a, ![c].token = a]
                 /\ net' = [net EXCEPT ![c].to_client = Tail(@),
                                       ![c].to_server = Append(@, TokenDed(a))]
    BY <1>6
  <2>2. a \in Told(f, n)
    BY <1>1, <1>4, <1>6, <2>1 DEF Told, HasMsg
  <2>3. a \in Int /\ a # NoAvatar
    BY <1>5, <2>2 DEF NoAvatar
  <2>4. PICK k, o, m : /\ k = [f EXCEPT !.state = "NEGOTIATE_TOKEN_DED", !.avatar = a, !.token = a]
                       /\ m = TokenDed(a) /\ o = [r EXCEPT !.to_server = Append(@, m)]
    OBVIOUS
  <2>5. client' = [client EXCEPT ![c] = k] /\ net' = [net EXCEPT ![c] = o]
    BY <1>1, <1>3, <2>1, <2>4
  <2>6. /\ k \in ClientType /\ k.state = "NEGOTIATE_TOKEN_DED" /\ k.avatar = a /\ k.token = a
        /\ k.udp = f.udp /\ k.right = f.right
    BY <1>1, <2>3, <2>4 DEF ClientType
  <2>7. m \in Msgs /\ m.type = "CONFIRM_R_TOKEN" /\ m.arg = a
    BY <2>3, <2>4, ClientMsgs
  <2>8. o \in StreamType /\ Up(o) = Up(n) \union {m} /\ Down(o) \subseteq Down(n)
    BY <1>4, <2>4, <2>7, ClientSays
  <2>9. Told(k, o) \subseteq Told(f, n)
    BY <2>2, <2>6, <2>8 DEF Told
  <2>10. ~Unknown(k)
    BY <2>6 DEF Unknown
  <2>11. ClientInv(k, o, c \in Waiting)
    BY <1>5, <2>3, <2>6, <2>7, <2>8, <2>10 DEF ClientInv
  <2>12. Moves(f, k)
    BY <1>2, <2>6, <2>10 DEF Moves
  <2> QED BY <1>1, <1>2, <2>5, <2>6, <2>8, <2>9, <2>11, <2>12, ClientKept
<1>7. CASE /\ client' = [client EXCEPT ![c].state = "CLOSING"]
           /\ net' = [net EXCEPT ![c].to_client = Tail(@)]
  <2>1. PICK k : k = [f EXCEPT !.state = "CLOSING"]
    OBVIOUS
  <2>2. client' = [client EXCEPT ![c] = k] /\ net' = [net EXCEPT ![c] = r]
    BY <1>1, <1>3, <1>7, <2>1
  <2>3. /\ k \in ClientType /\ k.state = "CLOSING" /\ k.avatar = f.avatar /\ k.token = f.token
        /\ k.udp = f.udp /\ k.right = f.right
    BY <1>1, <2>1 DEF ClientType
  <2>4. Moves(f, k)
    BY <1>2, <2>3 DEF Moves, Unknown
  <2> QED BY <1>1, <1>2, <1>4, <1>5, <2>2, <2>3, <2>4, ClientGoesOn
<1> QED BY <1>1, <1>6, <1>7 DEF vc_auth_received

LEMMA TokenDtdLoop ==
  ASSUME IInv, NEW c \in Clients, vc_NEGOTIATE_token_dtd_loop(c)
  PROVE  IInv'
<1>1. PICK f, n, r : /\ f = client[c] /\ n = net[c] /\ f \in ClientType /\ n \in StreamType
                     /\ r = [n EXCEPT !.to_client = Tail(@)]
  BY ClientFacts
<1>2. /\ UNCHANGED clientVars /\ f.state = "NEGOTIATE_TOKEN_DED" /\ n.to_client # <<>>
      /\ Head(n.to_client).type = "CHANGE_L_HOST_URL"
  BY <1>1 DEF vc_NEGOTIATE_token_dtd_loop, HasMsg
<1>3. /\ r \in StreamType /\ Up(r) = Up(n) /\ Down(r) \subseteq Down(n)
      /\ Head(n.to_client) \in Down(n)
  BY <1>1, <1>2, ClientReads
<1>4. PICK url : url = Head(n.to_client).arg
  OBVIOUS
<1>5. f.avatar # NoAvatar /\ url \in Int
  BY <1>1, <1>2, <1>3, <1>4, ClientFacts DEF ClientInv
<1>6. ASSUME NEW k, client' = [client EXCEPT ![c] = k],
             k.state \in {"NEGOTIATE_NEWHOST", "STREAM_OPEN"}, k \in ClientType,
             k.avatar = f.avatar, k.token = f.token, k.right = f.right,
             NEW o \in StreamType, net' = [net EXCEPT ![c] = o],
             Down(o) \subseteq Down(n), \A m \in Up(o) : m \in Up(n) \/ Harmless(m)
      PROVE  IInv'
  <2>1. Moves(f, k)
    BY <1>2, <1>6 DEF Moves, Unknown
  <2> QED BY <1>1, <1>2, <1>5, <1>6, <2>1, ClientGoesOn
<1>7. CASE /\ client' = [client EXCEPT ![c].state = "NEGOTIATE_NEWHOST",
                                       ![c].url = url, ![c].udp = "REQUEST"]
           /\ net' = [net EXCEPT ![c].to_client = Tail(@)]
  <2>1. PICK k : k = [f EXCEPT !.state = "NEGOTIATE_NEWHOST", !.url = url, !.udp = "REQUEST"]
    OBVIOUS
  <2>2. client' = [client EXCEPT ![c] = k] /\ net' = [net EXCEPT ![c] = r]
    BY <1>1, <1>7, <2>1
  <2>3. /\ k \in ClientType /\ k.state = "NEGOTIATE_NEWHOST"
        /\ k.avatar = f.avatar /\ k.token = f.token /\ k.right = f.right
    BY <1>1, <1>5, <2>1 DEF ClientType
  <2> QED BY <1>3, <1>6, <2>2, <2>3
<1>8. CASE /\ client' = [client EXCEPT ![c].state = "STREAM_OPEN", ![c].url = url,
                                       ![c].accepted = TRUE]
           /\ net' = [[net EXCEPT ![c].to_client = Tail(@)]
                        EXCEPT ![c].to_server = Append(@, ConfirmUrl(url))]
  <2>1. PICK k, m, o : /\ k = [f EXCEPT !.state = "STREAM_OPEN", !.url = url, !.accepted = TRUE]
                       /\ m = ConfirmUrl(url) /\ o = [r EXCEPT !.to_server = Append(@, m)]
    OBVIOUS
  <2>2. client' = [client EXCEPT ![c] = k]
    BY <1>1, <1>8, <2>1
  <2>3. PICK u : u = [net EXCEPT ![c].to_client = Tail(@)]
    OBVIOUS
  <2>4. u = [net EXCEPT ![c] = r] /\ u[c] = r
    BY <1>1, <2>3, ClientFacts
  <2>5. net' = [u EXCEPT ![c].to_server = Append(@, m)]
    BY <1>8, <2>1, <2>3
  <2>6. net' = [u EXCEPT ![c] = o]
    BY <2>1, <2>4, <2>5
  <2>7. net' = [net EXCEPT ![c] = o]
    BY <2>4, <2>6, ClientFacts
  <2>8. /\ k \in ClientType /\ k.state = "STREAM_OPEN"
        /\ k.avatar = f.avatar /\ k.token = f.token /\ k.right = f.right
    BY <1>1, <1>5, <2>1 DEF ClientType
  <2>9. m \in Msgs /\ Harmless(m)
    BY <1>5, <2>1, ClientMsgs DEF Harmless
  <2>10. o \in StreamType /\ Up(o) = Up(n) \union {m} /\ Down(o) \subseteq Down(n)
    BY <1>3, <2>1, <2>9, ClientSays
  <2> QED BY <1>6, <2>2, <2>7, <2>8, <2>9, <2>10
<1>9. CASE /\ client' = [client EXCEPT ![c].state = "STREAM_OPEN", ![c].accepted = TRUE]
           /\ net' = [net EXCEPT ![c].to_client = Tail(@)]
  <2>1. PICK k : k = [f EXCEPT !.state = "STREAM_OPEN", !.accepted = TRUE]
    OBVIOUS
  <2>2. client' = [client EXCEPT ![c] = k] /\ net' = [net EXCEPT ![c] = r]
    BY <1>1, <1>9, <2>1
  <2>3. /\ k \in ClientType /\ k.state = "STREAM_OPEN"
        /\ k.avatar = f.avatar /\ k.token = f.token /\ k.right = f.right
    BY <1>1, <2>1 DEF ClientType
  <2> QED BY <1>3, <1>6, <2>2, <2>3
<1> QED BY <1>1, <1>4, <1>7, <1>8, <1>9 DEF vc_NEGOTIATE_token_dtd_loop

(* A step of a client that is past the handshake's first answer and before *)
(* its end: only its state and its datagram thread change.                 *)
LEMMA ClientTurns ==
  ASSUME IInv, NEW c \in Clients, NEW state, NEW udp, NEW accepted \in BOOLEAN, NEW k,
         k = [client[c] EXCEPT !.state = state, !.udp = udp, !.accepted = accepted],
         client[c].state \notin {"IDLE", "CONNECTING", "CLOSED"},
         state \in {client[c].state, "CLOSING"},
         udp \in {client[c].udp, "OPEN", "ENDED"},
         client' = [client EXCEPT ![c] = k], UNCHANGED clientVars,
         NEW o \in StreamType, net' = [net EXCEPT ![c] = o],
         Down(o) \subseteq Down(net[c]), \A m \in Up(o) : m \in Up(net[c]) \/ Harmless(m)
  PROVE  IInv'
<1>1. PICK f : f = client[c] /\ f \in ClientType
  BY ClientFacts
<1>2. /\ k \in ClientType /\ k.state = state /\ k.udp = udp /\ k.avatar = f.avatar
      /\ k.token = f.token /\ k.right = f.right /\ k.sent = f.sent
  BY <1>1 DEF ClientType
<1>3. Moves(f, k)
  BY <1>1, <1>2 DEF Moves, Unknown
<1>4. ClientInv(f, net[c], c \in Waiting)
  BY <1>1, ClientFacts
<1>5. /\ k.state \in {"IDLE", "CONNECTING", "USRAUTH_NONE", "USRAUTH_DATA"} => k.avatar = NoAvatar
      /\ k.state = "NEGOTIATE_TOKEN_DED" \/ k.udp = "REQUEST" => k.avatar # NoAvatar
      /\ k.state # "CLOSED"
  BY <1>1, <1>2, <1>4 DEF ClientInv
<1> QED BY <1>1, <1>2, <1>3, <1>5, ClientGoesOn

(* A client with a datagram thread that runs is in the session.            *)
LEMMA RequestInSession ==
  ASSUME IInv, NEW c \in Clients, client[c].udp = "REQUEST"
  PROVE  client[c].state \notin {"IDLE", "CONNECTING", "CLOSED"}
BY ClientFacts DEF ClientInv

LEMMA PartopenLoop ==
  ASSUME IInv, NEW c \in Clients, vc_PARTOPEN_loop(c)
  PROVE  IInv'
<1>1. PICK f, n : f = client[c] /\ n = net[c] /\ f \in ClientType /\ n \in StreamType
  BY ClientFacts
<1>2. f.udp = "REQUEST" /\ f.url \in Int
  BY <1>1 DEF vc_PARTOPEN_loop, Connects, ClientType
<1>3. PICK k, m, o : /\ k = [f EXCEPT !.state = "CLOSING", !.udp = "OPEN", !.accepted = TRUE]
                     /\ m = ConfirmUrl(f.url) /\ o = [n EXCEPT !.to_server = Append(@, m)]
  OBVIOUS
<1>4. /\ client' = [client EXCEPT ![c] = k] /\ net' = [net EXCEPT ![c] = o] /\ UNCHANGED clientVars
  BY <1>1, <1>3 DEF vc_PARTOPEN_loop, ToServer
<1>5. m \in Msgs /\ Harmless(m)
  BY <1>2, <1>3, ClientMsgs DEF Harmless
<1>6. o \in StreamType /\ Up(o) = Up(n) \union {m} /\ Down(o) = Down(n)
  BY <1>1, <1>3, <1>5, ClientSays
<1>7. f.state \notin {"IDLE", "CONNECTING", "CLOSED"}
  BY <1>1, <1>2, RequestInSession
<1> QED BY <1>1, <1>3, <1>4, <1>5, <1>6, <1>7, ClientTurns

LEMMA RequestFailed ==
  ASSUME IInv, NEW c \in Clients, vc_REQUEST_failed(c)
  PROVE  IInv'
<1>1. PICK f, n : f = client[c] /\ n = net[c] /\ f \in ClientType /\ n \in StreamType
  BY ClientFacts
<1>2. f.udp = "REQUEST" /\ f.state \notin {"IDLE", "CONNECTING", "CLOSED"} /\ f.accepted \in BOOLEAN
  BY <1>1, RequestInSession DEF vc_REQUEST_failed, ClientType
<1>3. PICK k, m, o : /\ k = [f EXCEPT !.state = f.state, !.udp = "ENDED", !.accepted = f.accepted]
                     /\ m = ConfirmUrl(NoUrl) /\ o = [n EXCEPT !.to_server = Append(@, m)]
  OBVIOUS
<1>4. k = [f EXCEPT !.udp = "ENDED"]
  BY <1>1, <1>3 DEF ClientType
<1>5. /\ client' = [client EXCEPT ![c] = k] /\ net' = [net EXCEPT ![c] = o] /\ UNCHANGED clientVars
  BY <1>1, <1>3, <1>4 DEF vc_REQUEST_failed, ToServer
<1>6. m \in Msgs /\ Harmless(m)
  BY <1>3, ClientMsgs DEF Harmless, NoUrl
<1>7. o \in StreamType /\ Up(o) = Up(n) \union {m} /\ Down(o) = Down(n)
  BY <1>1, <1>3, <1>6, ClientSays
<1> QED BY <1>1, <1>2, <1>3, <1>5, <1>6, <1>7, ClientTurns

(* A client leaves its loop.                                               *)
LEMMA ClientCloses ==
  ASSUME IInv, NEW c \in Clients, client[c].state \notin {"IDLE", "CONNECTING", "CLOSED"},
         client' = [client EXCEPT ![c].state = "CLOSING"], UNCHANGED clientVars,
         \/ net' = net
         \/ net' = ToServer(c, CloseFrame)
  PROVE  IInv'
<1>1. PICK f, n : f = client[c] /\ n = net[c] /\ f \in ClientType /\ n \in StreamType
  BY ClientFacts
<1>2. PICK k : k = [client[c] EXCEPT !.state = "CLOSING", !.udp = f.udp, !.accepted = f.accepted]
  OBVIOUS
<1>3. f.accepted \in BOOLEAN
  BY <1>1 DEF ClientType
<1>4. client' = [client EXCEPT ![c] = k]
  <2>1. k = [f EXCEPT !.state = "CLOSING"]
    BY <1>1, <1>2 DEF ClientType
  <2> QED BY <1>1, <2>1
<1>5. CASE net' = net
  <2>1. net' = [net EXCEPT ![c] = n]
    BY <1>1, <1>5, ClientFacts
  <2> QED BY <1>1, <1>2, <1>3, <1>4, <2>1, ClientTurns
<1>6. CASE net' = ToServer(c, CloseFrame)
  <2>1. PICK m, o : m = CloseFrame /\ o = [n EXCEPT !.to_server = Append(@, m)]
    OBVIOUS
  <2>2. net' = [net EXCEPT ![c] = o]
    BY <1>1, <1>6, <2>1 DEF ToServer
  <2>3. m \in Msgs /\ Harmless(m)
    BY <2>1, ClientMsgs DEF Harmless
  <2>4. o \in StreamType /\ Up(o) = Up(n) \union {m} /\ Down(o) = Down(n)
    BY <1>1, <2>1, <2>3, ClientSays
  <2> QED BY ZenonT(60), <1>1, <1>2, <1>3, <1>4, <2>2, <2>3, <2>4, ClientTurns
<1> QED BY <1>5, <1>6

LEMMA NoAnswer ==
  ASSUME IInv, NEW c \in Clients, vc_no_answer(c)
  PROVE  IInv'
<1>1. /\ client[c].state \notin {"IDLE", "CONNECTING", "CLOSED"}
      /\ client' = [client EXCEPT ![c].state = "CLOSING"] /\ net' = net /\ UNCHANGED clientVars
  BY DEF vc_no_answer, Waits, clientVars
<1> QED BY <1>1, ClientCloses

LEMMA CloseFrameAnswered ==
  ASSUME IInv, NEW c \in Clients, vc_close_frame(c)
  PROVE  IInv'
<1>1. PICK f, n : f = client[c] /\ n = net[c] /\ f \in ClientType /\ n \in StreamType
  BY ClientFacts
<1>2. f.state \notin {"IDLE", "CONNECTING", "CLOSED"} /\ n.to_client # <<>> /\ f.accepted \in BOOLEAN
  BY <1>1 DEF vc_close_frame, HasMsg, ClientType
<1>3. PICK k, m, r, o : /\ k = [f EXCEPT !.state = "CLOSING", !.udp = f.udp, !.accepted = f.accepted]
                        /\ m = CloseFrame /\ r = [n EXCEPT !.to_client = Tail(@)]
                        /\ o = [r EXCEPT !.to_server = Append(@, m)]
  OBVIOUS
<1>4. k = [f EXCEPT !.state = "CLOSING"]
  BY <1>1, <1>3 DEF ClientType
<1>5. o = [n EXCEPT !.to_client = Tail(@), !.to_server = Append(@, m)]
  BY <1>1, <1>3 DEF StreamType
<1>6. /\ client' = [client EXCEPT ![c] = k] /\ net' = [net EXCEPT ![c] = o] /\ UNCHANGED clientVars
  <2>1. client' = [client EXCEPT ![c].state = "CLOSING"] /\ UNCHANGED clientVars
    BY DEF vc_close_frame
  <2>2. net' = [net EXCEPT ![c].to_client = Tail(@), ![c].to_server = Append(@, m)]
    BY <1>3 DEF vc_close_frame
  <2>3. client' = [client EXCEPT ![c] = k]
    BY <1>1, <1>4, <2>1
  <2>4. net' = [net EXCEPT ![c] = o]
    BY <1>1, <1>5, <2>2
  <2> QED BY <2>1, <2>3, <2>4
<1>7. m \in Msgs /\ Harmless(m)
  BY <1>3, ClientMsgs DEF Harmless
<1>8. r \in StreamType /\ Up(r) = Up(n) /\ Down(r) \subseteq Down(n)
  BY <1>1, <1>2, <1>3, ClientReads
<1>9. o \in StreamType /\ Up(o) = Up(r) \union {m} /\ Down(o) = Down(r)
  BY <1>3, <1>7, <1>8, ClientSays
<1>10. Down(o) \subseteq Down(n) /\ \A x \in Up(o) : x \in Up(n) \/ Harmless(x)
  BY <1>7, <1>8, <1>9
<1>11. PICK accepted, udp : accepted = f.accepted /\ udp = f.udp
  OBVIOUS
<1>12. k = [f EXCEPT !.state = "CLOSING", !.udp = udp, !.accepted = accepted]
  BY <1>3, <1>11
<1> QED BY <1>1, <1>2, <1>6, <1>9, <1>10, <1>11, <1>12, ClientTurns

LEMMA DatagramsEnd ==
  ASSUME IInv, NEW c \in Clients, client[c].udp = "OPEN",
         client' = [client EXCEPT ![c].udp = "ENDED"], net' = net, UNCHANGED clientVars
  PROVE  IInv'
<1>1. PICK f, n : f = client[c] /\ n = net[c] /\ f \in ClientType /\ n \in StreamType
  BY ClientFacts
<1>2. PICK k : k = [f EXCEPT !.udp = "ENDED"]
  OBVIOUS
<1>3. client' = [client EXCEPT ![c] = k] /\ net' = [net EXCEPT ![c] = n]
  BY <1>1, <1>2, ClientFacts
<1>4. /\ k \in ClientType /\ k.state = f.state /\ k.udp = "ENDED" /\ k.avatar = f.avatar
      /\ k.token = f.token /\ k.right = f.right /\ k.sent = f.sent
  BY <1>1, <1>2 DEF ClientType
<1>5. Moves(f, k)
  BY <1>4 DEF Moves, Unknown
<1>6. /\ k.state \in {"IDLE", "CONNECTING", "USRAUTH_NONE", "USRAUTH_DATA"} => k.avatar = NoAvatar
      /\ k.state = "NEGOTIATE_TOKEN_DED" => k.avatar # NoAvatar
      /\ k.state = "CLOSED" => ~n.client_end
  BY <1>1, <1>4, ClientFacts DEF ClientInv
<1> QED BY <1>1, <1>3, <1>4, <1>5, <1>6, ClientGoesOn

LEMMA ConnectTerminate ==
  ASSUME IInv, NEW c \in Clients, vrs_send_connect_terminate(c)
  PROVE  IInv'
<1>1. UNCHANGED clientVars
  BY DEF vrs_send_connect_terminate
<1>2. CASE client[c].udp = "OPEN" /\ client' = [client EXCEPT ![c].udp = "ENDED"] /\ net' = net
  BY <1>1, <1>2, DatagramsEnd
<1>3. CASE /\ client[c].state \in {"USRAUTH_NONE", "USRAUTH_DATA", "STREAM_OPEN"}
           /\ client' = [client EXCEPT ![c].state = "CLOSING"]
           /\ net' = net \/ net' = ToServer(c, CloseFrame)
  BY <1>1, <1>3, ClientCloses
<1> QED BY <1>2, <1>3 DEF vrs_send_connect_terminate

LEMMA OpenLoopEnds ==
  ASSUME IInv, NEW c \in Clients, vc_OPEN_loop_ends(c)
  PROVE  IInv'
<1>1. /\ client[c].udp = "OPEN" /\ client' = [client EXCEPT ![c].udp = "ENDED"] /\ net' = net
      /\ UNCHANGED clientVars
  BY DEF vc_OPEN_loop_ends, clientVars
<1> QED BY <1>1, DatagramsEnd

(* A client is closed, and its datagram thread does not run.               *)
LEMMA ClientClosed ==
  ASSUME IInv, NEW c \in Clients, client[c].state # "IDLE",
         NEW k \in ClientType, client' = [client EXCEPT ![c] = k],
         k.state = "CLOSED", k.avatar = client[c].avatar, k.token = client[c].token,
         k.right = client[c].right, k.udp # "REQUEST",
         NEW o \in StreamType, net' = [net EXCEPT ![c] = o], UNCHANGED clientVars,
         ~o.client_end, Down(o) \subseteq Down(net[c]), Up(o) = Up(net[c])
  PROVE  IInv'
<1>1. Moves(client[c], k)
  BY DEF Moves, Unknown
<1> QED BY <1>1, ClientGoesOn

LEMMA Closing ==
  ASSUME IInv, NEW c \in Clients, vc_CLOSING(c)
  PROVE  IInv'
<1>1. PICK f, n : f = client[c] /\ n = net[c] /\ f \in ClientType /\ n \in StreamType
  BY ClientFacts
<1>2. UNCHANGED clientVars /\ f.state = "CLOSING"
  BY <1>1 DEF vc_CLOSING
<1>3. CASE /\ net' = [net EXCEPT ![c].client_end = FALSE, ![c].to_client = <<>>]
           /\ client' = client
  <2>1. PICK o : o = [n EXCEPT !.client_end = FALSE, !.to_client = <<>>]
    OBVIOUS
  <2>2. net' = [net EXCEPT ![c] = o] /\ client' = [client EXCEPT ![c] = f]
    BY <1>1, <1>3, <2>1, ClientFacts
  <2>3. o \in StreamType /\ Up(o) = Up(n) /\ Down(o) \subseteq Down(n) /\ ~o.client_end
    BY <1>1, <2>1, ClientHangsUp
  <2>4. Moves(f, f)
    BY DEF Moves
  <2>5. f.udp = "REQUEST" => f.avatar # NoAvatar
    BY <1>1, ClientFacts DEF ClientInv
  <2> QED BY <1>1, <1>2, <2>2, <2>3, <2>4, <2>5, ClientGoesOn
<1>4. CASE /\ ~n.client_end /\ f.udp \in {NONE, "ENDED"}
           /\ client' = [client EXCEPT ![c].state = "CLOSED", ![c].told = TRUE]
           /\ net' = net
  <2>1. PICK k : k = [f EXCEPT !.state = "CLOSED", !.told = TRUE]
    OBVIOUS
  <2>2. client' = [client EXCEPT ![c] = k] /\ net' = [net EXCEPT ![c] = n]
    BY <1>1, <1>4, <2>1, ClientFacts
  <2>3. /\ k \in ClientType /\ k.state = "CLOSED" /\ k.udp # "REQUEST" /\ k.avatar = f.avatar
        /\ k.token = f.token /\ k.right = f.right
    BY <1>1, <1>4, <2>1 DEF ClientType, NONE
  <2> QED BY <1>1, <1>2, <1>4, <2>2, <2>3, ClientClosed
<1> QED BY <1>1, <1>3, <1>4 DEF vc_CLOSING

LEMMA Crashes ==
  ASSUME IInv, NEW c \in Clients, Crash(c)
  PROVE  IInv'
<1>1. PICK f, n : f = client[c] /\ n = net[c] /\ f \in ClientType /\ n \in StreamType
  BY ClientFacts
<1>2. PICK k, o, u : /\ u = IF f.udp = NONE THEN NONE ELSE "ENDED"
                     /\ k = [f EXCEPT !.state = "CLOSED", !.udp = u]
                     /\ o = [n EXCEPT !.client_end = FALSE, !.to_client = <<>>]
  OBVIOUS
<1>3. /\ client' = [client EXCEPT ![c] = k] /\ net' = [net EXCEPT ![c] = o]
      /\ UNCHANGED clientVars /\ f.state # "IDLE"
  BY <1>1, <1>2 DEF Crash
<1>4. /\ k \in ClientType /\ k.state = "CLOSED" /\ k.udp # "REQUEST" /\ k.avatar = f.avatar
      /\ k.token = f.token /\ k.right = f.right
  BY ZenonT(60), <1>1, <1>2 DEF ClientType, NONE
<1>5. o \in StreamType /\ Up(o) = Up(n) /\ Down(o) \subseteq Down(n) /\ ~o.client_end
  BY <1>1, <1>2, ClientHangsUp
<1> QED BY <1>1, <1>3, <1>4, <1>5, ClientClosed

(* A new client waits to be accepted: no slot knows of it.                 *)
LEMMA ConnectRequest ==
  ASSUME IInv, NEW c \in Clients, vrs_send_connect_request(c)
  PROVE  IInv'
<1>1. PICK f, n : f = client[c] /\ n = net[c] /\ f \in ClientType /\ n \in StreamType
  BY ClientFacts
<1>2. PICK k, o : /\ k = [f EXCEPT !.state = "CONNECTING"]
                  /\ o = [n EXCEPT !.client_end = TRUE, !.server_end = TRUE]
  OBVIOUS
<1>3. /\ Transport(c) # NONE /\ f.state = "IDLE"
      /\ client' = [client EXCEPT ![c] = k] /\ net' = [net EXCEPT ![c] = o]
      /\ backlog' = Append(backlog, c)
      /\ UNCHANGED <<workload, slot, aggregation, raced, avatars, avatar_count, server>>
  BY <1>1, <1>2 DEF vrs_send_connect_request, Started
<1>4. /\ k \in ClientType /\ k.state = "CONNECTING" /\ k.avatar = f.avatar /\ k.token = f.token
      /\ k.udp = f.udp /\ k.right = f.right
  BY <1>1, <1>2 DEF ClientType
<1>5. /\ o \in StreamType /\ o.to_server = n.to_server /\ o.to_client = n.to_client
  BY <1>1, <1>2 DEF StreamType
<1>6. Up(o) = Up(n) /\ Down(o) = Down(n) /\ Told(k, o) = Told(f, n)
  BY <1>4, <1>5 DEF Up, Down, Told
<1>7. ClientInv(f, n, c \in Waiting)
  BY <1>1, ClientFacts
<1>8. c \notin Waiting /\ Unknown(f) /\ Unknown(k) /\ f.avatar = NoAvatar /\ Told(f, n) = {}
  BY <1>3, <1>4, <1>7 DEF ClientInv, Unknown
<1>9. /\ client \in [Clients -> ClientType] /\ net \in [Clients -> StreamType]
      /\ client' \in [Clients -> ClientType] /\ net' \in [Clients -> StreamType]
      /\ client'[c] = k /\ net'[c] = o
      /\ \A d \in Clients \ {c} : client'[d] = client[d] /\ net'[d] = net[d]
  BY <1>3, <1>4, <1>5, ClientFacts
<1>10. /\ backlog' \in Seq(Clients) /\ \A d \in Clients : Once(backlog', d)
       /\ Waiting' = Waiting \union {c}
  <2>1. PICK q, r : q = backlog /\ r = <<c>>
    OBVIOUS
  <2>2. q \in Seq(Clients) /\ (\A d \in Clients : Once(q, d)) /\ ToSet(q) = Waiting
    BY <2>1 DEF IInv, Types, Waiting
  <2>3. r \in Seq(Clients) /\ ToSet(r) = {c} /\ \A d \in Clients : Once(r, d)
    BY <2>1 DEF ToSet, Once
  <2>4. Append(q, c) = q \o r
    BY <2>1, <2>2, AppendIsConcat
  <2>5. ASSUME NEW d \in Clients PROVE Once(q \o r, d)
    BY <1>8, <2>2, <2>3, ConcatOnce
  <2>6. Append(q, c) \in Seq(Clients) /\ ToSet(Append(q, c)) = ToSet(q) \union {c}
    BY <2>2, AppendElements
  <2> QED BY <1>3, <2>1, <2>2, <2>4, <2>5, <2>6 DEF Waiting
<1>11. Types'
  BY <1>3, <1>9, <1>10 DEF IInv, Types, TypeOK, PortList
<1>12. PortsInv' /\ SlotsInv' /\ StopInv'
  BY <1>3 DEF IInv, PortsInv, PortList, SlotsInv, StopInv
<1>13. ClientInv(k, o, TRUE)
  BY <1>4, <1>6, <1>7, <1>8 DEF ClientInv
<1>14. ASSUME NEW d \in Clients
       PROVE  /\ ClientInv(client'[d], net'[d], d \in Waiting')
              /\ Told(client'[d], net'[d]) \subseteq 1..avatar_count
              /\ client'[d].state # "IDLE" => Transport(d) # NONE
  <2>1. CASE d = c
    <3>1. (d \in Waiting') = TRUE
      BY <1>10, <2>1
    <3> QED BY <1>3, <1>6, <1>8, <1>9, <1>13, <2>1, <3>1
  <2>2. CASE d # c
    <3>1. (d \in Waiting') = (d \in Waiting)
      BY <1>10, <2>2
    <3> QED BY <1>9, <2>2, <3>1 DEF IInv, ClientsInv
  <2> QED BY <2>1, <2>2
<1>15. ASSUME NEW s \in Slots, NEW d \in Clients
       PROVE  Link(slot[s], d, client'[d], net'[d], d \in Waiting', avatars)
  <2>1. Link(slot[s], d, client[d], net[d], d \in Waiting, avatars)
    BY DEF IInv, ClientsInv
  <2>2. CASE d = c
    <3>1. slot[s].client # c
      BY <1>1, <1>3, <2>1, <2>2 DEF Link, Owned
    <3> QED BY <1>6, <1>8, <1>9, <2>2, <3>1 DEF Link
  <2>3. CASE d # c
    <3>1. (d \in Waiting') = (d \in Waiting)
      BY <1>10, <2>3
    <3> QED BY <1>9, <2>1, <2>3, <3>1
  <2> QED BY <2>2, <2>3
<1>16. ClientsInv'
  BY <1>3, <1>14, <1>15 DEF ClientsInv, Transport
<1> QED BY <1>11, <1>12, <1>16 DEF IInv

-----------------------------------------------------------------------------
(* Every step keeps the invariant.                                         *)

LEMMA ClientStepIInv ==
  ASSUME IInv, NEW c \in Clients, ClientStep(c)
  PROVE  IInv'
BY ConnectFailed, NoneLoop, MethodsReceived, DataLoop, AuthReceived, TokenDtdLoop, NoAnswer,
   CloseFrameAnswered, Closing, PartopenLoop, RequestFailed DEF ClientStep

LEMMA SlotStepIInv ==
  ASSUME IInv, NEW s \in Slots, SlotStep(s)
  PROVE  IInv'
BY Handshake, RespondMethods, UserAuth, TokenDedLoop, TestPort, ComparePort, LoadCount, StoreCount,
   LowestPort, WaitListen, NewHost, WsCloses, WsRecvMsg, StreamEnds, JoinUdp, SessionEnds,
   SlotListens DEF SlotStep

LEMMA StutterIInv == IInv /\ UNCHANGED vars => IInv'
<1> SUFFICES ASSUME IInv, UNCHANGED vars PROVE IInv'
  OBVIOUS
<1>1. UNCHANGED <<workload, client, net, backlog, slot, aggregation, raced, avatars, avatar_count, server>>
  BY DEF vars
<1>2. Types' /\ PortsInv' /\ SlotsInv' /\ StopInv'
  BY <1>1 DEF IInv, Types, TypeOK, PortsInv, PortList, SlotsInv, StopInv
<1>3. Waiting' = Waiting
  BY <1>1 DEF Waiting
<1>4. ClientsInv'
  BY <1>1, <1>3 DEF IInv, ClientsInv, Transport
<1> QED BY <1>2, <1>4 DEF IInv

LEMMA NextIInv == IInv /\ [Next]_vars => IInv'
<1> SUFFICES ASSUME IInv, [Next]_vars PROVE IInv'
  OBVIOUS
<1>1. CASE \E c \in Clients : ClientStep(c)
  BY <1>1, ClientStepIInv
<1>2. CASE \E c \in Clients : vrs_send_connect_request(c)
  BY <1>2, ConnectRequest
<1>3. CASE \E c \in Clients : vrs_send_connect_terminate(c)
  BY <1>3, ConnectTerminate
<1>4. CASE \E c \in Clients : vc_OPEN_loop_ends(c)
  BY <1>4, OpenLoopEnds
<1>5. CASE \E c \in Clients : Crash(c)
  BY <1>5, Crashes
<1>6. CASE \E s \in Slots : SlotStep(s)
  BY <1>6, SlotStepIInv
<1>7. CASE \E s \in Slots : vs_slot_cleared(s)
  BY <1>7, SlotCleared
<1>8. CASE \E s \in Slots : vs_init_dgram_ctx(s)
  BY <1>8, InitDgram
<1>9. CASE \E s \in Slots : vs_LISTEN_handle_packet(s)
  BY <1>9, ListenPacket
<1>10. CASE \E s \in Slots : vs_dgram_ends(s)
  BY <1>10, DgramEnds
<1>11. CASE vs_new_stream_conn
  BY <1>11, NewStreamConn
<1>12. CASE vs_request_terminate
  BY <1>12, RequestTerminate
<1>13. CASE vs_main_listen_loop_ends
  BY <1>13, ListenLoopEnds
<1>14. CASE \E s \in Slots : vs_clear_vconn(s)
  BY <1>14, ClearVconn
<1>15. CASE UNCHANGED vars
  BY <1>15, StutterIInv
<1> QED
  BY <1>1, <1>2, <1>3, <1>4, <1>5, <1>6, <1>7, <1>8, <1>9, <1>10, <1>11, <1>12, <1>13, <1>14, <1>15
  DEF Next

(* The invariant holds in every reachable state of the sessions.           *)
LEMMA Inductive == Spec => []IInv
<1>1. Init => IInv
  BY InitIInv
<1>2. IInv /\ [Next]_vars => IInv'
  BY NextIInv
<1> QED BY <1>1, <1>2, PTL DEF Spec

-----------------------------------------------------------------------------
(* The theorems.                                                           *)

(* For every port list and any number of clients and session slots, the    *)
(* aggregation of a port covers its datagram threads, and there is at most *)
(* one of them, although vs_NEGOTIATE_token_ded_loop and the ends of the   *)
(* datagram threads (vs_main_dgram_loop) read and write it without a lock, *)
(* unless two stream threads found the port unused before either counted   *)
(* it, or one took it uncounted (raced).  In particular, decrements by     *)
(* themselves never disturb the count.                                     *)
THEOREM PortsAreCounted == Spec => []PortsCounted
<1>1. IInv => PortsCounted
  BY IInvCounted
<1> QED BY <1>1, Inductive, PTL

(* A session that serves a client is that of the user whose password the   *)
(* client gave and has the avatar that the client was told, no other slot  *)
(* serves it, and avatars live exactly as long as their sessions, although *)
(* slots are used again with what earlier sessions left in them, and       *)
(* threads of those still clear them (vs_new_stream_conn, vs_CLOSING).     *)
THEOREM SessionsStaySound == Spec => []SessionsSound
<1>1. IInv => SessionsSound
  BY IInvAgree, IInvOwned DEF SessionsSound
<1> QED BY <1>1, Inductive, PTL

(* A server that stops without giving up (vs_main_listen_loop) has ended   *)
(* every stream thread and datagram thread and destroyed every avatar.     *)
THEOREM OrderlyStop == Spec => []StopClean
<1>1. IInv => StopClean
  BY IInvStop
<1> QED BY <1>1, Inductive, PTL
=============================================================================
