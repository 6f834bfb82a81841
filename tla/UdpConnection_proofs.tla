------------------------ MODULE UdpConnection_proofs ------------------------
(***************************************************************************)
(* Proofs about the handshake and the teardown of a datagram connection,   *)
(* for any number of attempts and packets, any configuration of the peers, *)
(* and a network that loses, repeats, delays and reorders packets.         *)
(***************************************************************************)
EXTENDS UdpConnection, TLAPS

USE UdpAssumption

(* What the client knows after REQUEST, and the server in RESPOND and      *)
(* after it.                                                               *)
ClientParams   == [fc |-> conf.fc, host_scale |-> 0, peer_scale |-> conf.scale,
                   host_cmpr |-> conf.cmpr, peer_cmpr |-> conf.cmpr]
ProposedParams == [fc |-> RESERVED, host_scale |-> 0, peer_scale |-> 0,
                   host_cmpr |-> conf.cmpr, peer_cmpr |-> conf.cmpr]
AgreedParams   == [fc |-> conf.fc, host_scale |-> conf.scale, peer_scale |-> 0,
                   host_cmpr |-> conf.cmpr, peer_cmpr |-> conf.cmpr]

(* The server is past RESPOND, and no handler takes it back there.         *)
Beyond ==
  \/ s_next = "OPEN"
  \/ s_next = "none" /\ s_state \in {"OPEN", "CLOSEREQ", "CLOSED"}

Id == Nat \union {NoId}

(* A packet the client may have sent: what its ids and its negotiate       *)
(* commands are, given its flags.                                          *)
FromClient(p) ==
  /\ p.pay \in Id /\ p.ack \in Id
  /\ "PAY" \in p.flags => p.pay \in Nat
  /\ "PAY" \in p.flags /\ "FIN" \notin p.flags => p.pay < c_count
  /\ p.flags = {"PAY", "SYN"} => p.neg = [scale |-> 0, cmpr |-> conf.cmpr]
  /\ FromPartopen(p) => /\ p.neg = [fc |-> conf.fc, scale |-> conf.scale]
                        /\ s_run => s_count >= 1

(* A packet the server may have sent, and where the server is then.        *)
FromServer(p) ==
  /\ p.pay \in Id /\ p.ack \in Id
  /\ "PAY" \in p.flags => p.pay \in Nat
  /\ "PAY" \in p.flags /\ "FIN" \notin p.flags /\ s_run => p.pay < s_count
  /\ p.flags = {"PAY", "ACK", "SYN"} =>
       p.neg = [fc |-> conf.fc, scale |-> conf.scale,
                cmpr_l |-> conf.cmpr, cmpr_r |-> conf.cmpr]
  /\ AcceptsReply(p) => Beyond
  /\ p.flags = {"PAY", "ACK", "FIN"} => s_state = "CLOSED"

NetworkInv ==
  /\ \A p \in to_server : FromClient(p)
  /\ \A p \in to_client : FromServer(p)

(* The counter and the parameters of the client, loop by loop.             *)
ClientInv ==
  /\ c_loop # "DONE" => c_att < MaxAttempts
  /\ c_loop = "REQUEST" => c_count \in {0, 1} /\ c_par = NoParams
  /\ c_loop = "PARTOPEN" => c_count \in {0, 1, 2} /\ c_last \in Nat
  /\ c_loop \in {"PARTOPEN", "OPEN"} => c_par = ClientParams

(* The same for the server.  A request to terminate changes s_state, but   *)
(* not where a handler is about to go.                                     *)
ServerInv ==
  /\ s_state = "CLOSED" => s_next = "none"
  /\ ~s_run => s_state = "CLOSED"
  /\ s_state = "LISTEN" /\ s_next = "none" => s_count = 0 /\ s_par = NoParams
  /\ s_next = "RESPOND" \/ (s_state = "RESPOND" /\ s_next = "none") =>
       s_count \in {1, 2} /\ s_par = ProposedParams
  /\ s_next = "OPEN" \/ s_state = "OPEN" => s_count >= 2 /\ s_par = AgreedParams
  /\ s_state = "OPEN" => s_next = "none"
  /\ s_state = "LISTEN" => s_next \in {"none", "RESPOND"}
  /\ s_state = "RESPOND" => s_next \in {"none", "OPEN"}

(* How far one peer is, given how far the other one is.                    *)
PeersInv ==
  /\ c_loop \in {"OPEN", "CLOSING"} => Beyond
  /\ c_loop \in {"PARTOPEN", "OPEN"} /\ s_run => c_last < s_count
  /\ s_state # "CLOSED" => s_last < c_count
  /\ c_exit = "ok" => s_state = "CLOSED"

IInv == TypeOK /\ NetworkInv /\ ClientInv /\ ServerInv /\ PeersInv

-----------------------------------------------------------------------------
(* The constructors of packets.                                            *)

LEMMA PktFields ==
  ASSUME NEW flags, NEW pay, NEW ank, NEW ack, NEW neg
  PROVE  /\ Pkt(flags, pay, ank, ack, neg).flags = flags
         /\ Pkt(flags, pay, ank, ack, neg).pay = pay
         /\ Pkt(flags, pay, ank, ack, neg).ank = ank
         /\ Pkt(flags, pay, ank, ack, neg).ack = ack
         /\ Pkt(flags, pay, ank, ack, neg).neg = neg
  BY DEF Pkt

(* A packet of the OPEN state: its flags tell it from the packets of the   *)
(* handshake and of the teardown.                                          *)
LEMMA DataPacketFields ==
  ASSUME NEW pay \in Id, NEW ack \in Id, NEW fin \in BOOLEAN
  PROVE  LET p == DataPacket(pay, ack, fin)
         IN  /\ p.pay = pay /\ p.ank = 0 /\ p.ack = ack
             /\ "PAY" \in p.flags <=> pay # NoId
             /\ "FIN" \in p.flags <=> fin
             /\ "ANK" \in p.flags /\ "SYN" \notin p.flags
<1> DEFINE flags == (IF pay # NoId THEN {"PAY"} ELSE {})
                      \union (IF ack # NoId THEN {"ACK"} ELSE {})
                      \union {"ANK"} \union (IF fin THEN {"FIN"} ELSE {})
<1>1. DataPacket(pay, ack, fin) = Pkt(flags, pay, 0, ack, NoNeg)
  BY DEF DataPacket
<1>2. /\ "PAY" \in flags <=> pay # NoId
      /\ "FIN" \in flags <=> fin
      /\ "ANK" \in flags /\ "SYN" \notin flags
  OBVIOUS
<1> HIDE DEF flags
<1> QED BY <1>1, <1>2, PktFields

-----------------------------------------------------------------------------
(* What a step of a peer may do to the state that packets speak about.     *)

ClientGoesOn ==
  /\ UNCHANGED <<conf, serverVars>>
  /\ c_count' >= c_count

ServerGoesOn ==
  /\ UNCHANGED <<conf, clientVars>>
  /\ s_run' => s_run /\ s_count' >= s_count
  /\ Beyond => Beyond'
  /\ s_state = "CLOSED" => s_state' = "CLOSED"

(* Packets on their way stay what they are.                                *)
LEMMA NetworkKept ==
  ASSUME TypeOK, TypeOK', NetworkInv, ClientGoesOn \/ ServerGoesOn
  PROVE  /\ \A p \in to_server : FromClient(p)'
         /\ \A p \in to_client : FromServer(p)'
<1>0. /\ c_count \in Nat /\ c_count' \in Nat /\ s_count \in Nat /\ s_count' \in Nat
      /\ s_run \in BOOLEAN /\ s_run' \in BOOLEAN
  BY DEF TypeOK
<1>1. conf' = conf /\ c_count' >= c_count
  BY <1>0 DEF ClientGoesOn, ServerGoesOn, clientVars
<1>2. /\ s_run' => s_run /\ s_count' >= s_count
      /\ Beyond => Beyond'
      /\ s_state = "CLOSED" => s_state' = "CLOSED"
  BY <1>0 DEF ClientGoesOn, ServerGoesOn, serverVars, Beyond
<1>3. ASSUME NEW p \in to_server PROVE FromClient(p)'
  <2>1. FromClient(p)
    BY DEF NetworkInv
  <2> QED BY <1>0, <1>1, <1>2, <2>1 DEF FromClient, FromPartopen, Id, NoId
<1>4. ASSUME NEW p \in to_client PROVE FromServer(p)'
  <2>1. FromServer(p)
    BY DEF NetworkInv
  <2>2. "PAY" \in p.flags /\ "FIN" \notin p.flags /\ s_run' => p.pay < s_count'
    BY <1>0, <1>2, <2>1 DEF FromServer
  <2> QED BY <1>1, <1>2, <2>1, <2>2 DEF FromServer, AcceptsReply
<1> QED BY <1>3, <1>4

(* A step of the client keeps the invariant when its new packets are sound *)
(* and it moves on only with the server.                                   *)
LEMMA ClientFrame ==
  ASSUME IInv, TypeOK', ClientGoesOn, ClientInv',
         to_client' \subseteq to_client,
         \A p \in to_server' \ to_server : FromClient(p)',
         c_loop' \in {"OPEN", "CLOSING"} => Beyond,
         c_loop' \in {"PARTOPEN", "OPEN"} /\ s_run => c_last' < s_count,
         c_exit' = "ok" => s_state = "CLOSED"
  PROVE  IInv'
<1>1. NetworkInv'
  <2>1. /\ \A p \in to_server : FromClient(p)'
        /\ \A p \in to_client : FromServer(p)'
    BY NetworkKept DEF IInv
  <2> QED BY <2>1 DEF NetworkInv
<1>2. ServerInv'
  BY DEF IInv, ServerInv, ClientGoesOn, serverVars, ProposedParams, AgreedParams
<1>3. PeersInv'
  <2>1. c_count \in Nat /\ c_count' \in Nat /\ s_last \in Nat \union {-1} /\ c_count' >= c_count
    BY DEF IInv, TypeOK, ClientGoesOn, NoId
  <2>2. /\ s_state' = s_state /\ s_last' = s_last /\ s_run' = s_run /\ s_count' = s_count
        /\ s_next' = s_next
    BY DEF ClientGoesOn, serverVars
  <2>3. s_state' # "CLOSED" => s_last' < c_count'
    BY <2>1, <2>2 DEF IInv, PeersInv
  <2> QED BY <2>2, <2>3 DEF PeersInv, Beyond
<1> QED BY <1>1, <1>2, <1>3 DEF IInv

(* The same for a step of the server's thread.                             *)
LEMMA ServerFrame ==
  ASSUME IInv, TypeOK', ServerGoesOn, ServerInv',
         to_server' \subseteq to_server,
         \A p \in to_client' \ to_client : FromServer(p)',
         s_state' # "CLOSED" => s_last' < c_count
  PROVE  IInv'
<1>0. /\ c_loop' = c_loop /\ c_att' = c_att /\ c_count' = c_count /\ c_last' = c_last
      /\ c_par' = c_par /\ c_exit' = c_exit /\ conf' = conf
  BY DEF ServerGoesOn, clientVars
<1>1. NetworkInv'
  <2>1. /\ \A p \in to_server : FromClient(p)'
        /\ \A p \in to_client : FromServer(p)'
    BY NetworkKept DEF IInv
  <2> QED BY <2>1 DEF NetworkInv
<1>2. ClientInv'
  BY <1>0 DEF IInv, ClientInv, ClientParams
<1>3. PeersInv'
  <2>1. s_count \in Nat /\ s_count' \in Nat /\ c_last \in Nat \union {-1}
    BY DEF IInv, TypeOK, NoId
  <2>2. c_loop' \in {"PARTOPEN", "OPEN"} /\ s_run' => c_last' < s_count'
    BY <1>0, <2>1 DEF ServerGoesOn, IInv, PeersInv
  <2>3. /\ c_loop' \in {"OPEN", "CLOSING"} => Beyond'
        /\ c_exit' = "ok" => s_state' = "CLOSED"
    BY <1>0 DEF ServerGoesOn, IInv, PeersInv
  <2> QED BY <1>0, <2>2, <2>3 DEF PeersInv
<1> QED BY <1>1, <1>2, <1>3 DEF IInv

-----------------------------------------------------------------------------
(* The initial state.                                                      *)
LEMMA InitIInv == Init => IInv
<1> SUFFICES ASSUME Init PROVE IInv
  OBVIOUS
<1>1. TypeOK
  <2>1. NoParams \in Params
    BY DEF Params, NoParams
  <2>2. s_att \in [{"LISTEN", "RESPOND", "CLOSED"} -> 0..MaxAttempts]
    BY DEF Init
  <2>3. 0 \in 0..MaxAttempts /\ 0 \in 0..MaxLoss /\ 0 \in Nat
    OBVIOUS
  <2> QED BY <2>1, <2>2, <2>3, Zenon DEF Init, TypeOK
<1>2. ServerInv
  BY DEF Init, ServerInv
<1> QED BY <1>1, <1>2 DEF Init, IInv, NetworkInv, ClientInv, PeersInv, NoId

-----------------------------------------------------------------------------
(* The client sends.                                                       *)

LEMMA SendRequestInv ==
  ASSUME IInv, SendRequest
  PROVE  IInv'
<1> USE DEF SendRequest, ClientSends
<1>1. TypeOK'
  BY DEF IInv, TypeOK, serverVars
<1>2. c_count \in {0, 1} /\ c_count' = 1 /\ c_loop' = "REQUEST"
  BY DEF IInv, ClientInv
<1>3. ClientGoesOn
  BY <1>2 DEF ClientGoesOn
<1>4. ASSUME NEW p \in to_server' \ to_server PROVE FromClient(p)'
  <2>1. p = Pkt({"PAY", "SYN"}, 0, 0, NoId, [scale |-> 0, cmpr |-> conf.cmpr])
    BY DEF RequestPacket
  <2>2. /\ p.flags = {"PAY", "SYN"} /\ p.pay = 0 /\ p.ack = NoId
        /\ p.neg = [scale |-> 0, cmpr |-> conf.cmpr]
    BY <2>1, PktFields
  <2> QED BY <1>2, <2>2 DEF FromClient, FromPartopen, Id, NoId
<1>5. ClientInv'
  BY <1>2 DEF IInv, ClientInv
<1> QED BY <1>1, <1>2, <1>3, <1>4, <1>5, ClientFrame DEF IInv, PeersInv

LEMMA SendPartopenInv ==
  ASSUME IInv, SendPartopen
  PROVE  IInv'
<1> USE DEF SendPartopen, ClientSends
<1>1. TypeOK'
  BY DEF IInv, TypeOK, serverVars
<1>2. /\ c_count \in {0, 1, 2} /\ c_count' = 2 /\ c_loop' = "PARTOPEN" /\ c_loop = "PARTOPEN"
      /\ c_par = ClientParams /\ c_last \in Nat /\ s_count \in Nat
      /\ s_run => c_last < s_count
  BY DEF IInv, ClientInv, PeersInv, TypeOK
<1>3. ClientGoesOn
  BY <1>2 DEF ClientGoesOn
<1>4. ASSUME NEW p \in to_server' \ to_server PROVE FromClient(p)'
  <2>1. p = PartopenPacket
    OBVIOUS
  <2>2. /\ p.flags = {"PAY", "ACK"} \union (IF c_rack # NoId THEN {"ANK"} ELSE {})
        /\ p.pay = 1 /\ p.ack = 0
        /\ p.neg = [fc |-> c_par.fc, scale |-> c_par.peer_scale]
    BY <2>1, PktFields DEF PartopenPacket
  <2>3. p.neg = [fc |-> conf.fc, scale |-> conf.scale]
    BY <1>2, <2>2 DEF ClientParams
  <2>4. s_run => s_count >= 1
    BY <1>2
  <2>5. conf' = conf /\ s_run' = s_run /\ s_count' = s_count
    BY DEF serverVars
  <2>6. p.flags # {"PAY", "SYN"} /\ "PAY" \in p.flags
    BY <2>2
  <2> HIDE DEF SendPartopen, ClientSends
  <2> QED BY <1>2, <2>2, <2>3, <2>4, <2>5, <2>6 DEF FromClient, Id, NoId
<1>5. ClientInv'
  BY <1>2 DEF IInv, ClientInv, ClientParams
<1> QED BY <1>1, <1>2, <1>3, <1>4, <1>5, ClientFrame DEF IInv, PeersInv

LEMMA SendPayloadInv ==
  ASSUME IInv, SendPayload
  PROVE  IInv'
<1> USE DEF SendPayload
<1>1. PICK pc \in {"wait", "send"} :
        ClientSends(DataPacket(c_count, 1, c_state = "CLOSING"), pc)
  OBVIOUS
<1>2. /\ c_loop = "OPEN" /\ c_loop' = "OPEN" /\ c_count' = c_count + 1 /\ c_count \in Nat
      /\ UNCHANGED <<conf, c_att, c_last, c_rack, c_par, c_exit, serverVars, to_client, losses>>
      /\ c_pc' \in {"wait", "send"} /\ c_state' \in {c_state, "CLOSING"}
      /\ to_server' = to_server \union {DataPacket(c_count, 1, c_state = "CLOSING")}
  BY <1>1 DEF ClientSends, IInv, TypeOK
<1> HIDE DEF SendPayload
<1>3. TypeOK'
  BY <1>2 DEF IInv, TypeOK, serverVars
<1>4. ClientGoesOn
  BY <1>2 DEF ClientGoesOn
<1>5. ASSUME NEW p \in to_server' \ to_server PROVE FromClient(p)'
  <2> DEFINE fin == c_state = "CLOSING"
  <2>1. p = DataPacket(c_count, 1, fin) /\ c_count \in Id /\ 1 \in Id /\ fin \in BOOLEAN
    BY <1>2 DEF Id
  <2> HIDE DEF fin
  <2>2. /\ p.pay = c_count /\ p.ack = 1
        /\ "ANK" \in p.flags /\ "SYN" \notin p.flags
    BY <2>1, DataPacketFields
  <2>3. p.flags # {"PAY", "SYN"} /\ ~FromPartopen(p)
    BY <2>2 DEF FromPartopen
  <2> QED BY <1>2, <2>2, <2>3 DEF FromClient, FromPartopen, Id
<1>6. ClientInv'
  BY <1>2 DEF IInv, ClientInv, ClientParams
<1> QED BY <1>2, <1>3, <1>4, <1>5, <1>6, ClientFrame DEF IInv, PeersInv

LEMMA SendAckOnlyInv ==
  ASSUME IInv, SendAckOnly
  PROVE  IInv'
<1> USE DEF SendAckOnly, ClientSends
<1>1. /\ c_loop = "OPEN" /\ c_loop' = "OPEN" /\ c_count \in Nat
      /\ UNCHANGED <<conf, c_att, c_count, c_last, c_rack, c_par, c_exit, c_state, serverVars,
                     to_client, losses>>
      /\ c_pc' = "wait"
      /\ to_server' = to_server \union {DataPacket(NoId, 1, FALSE)}
  BY DEF IInv, TypeOK
<1> HIDE DEF SendAckOnly, ClientSends
<1>2. TypeOK'
  BY <1>1 DEF IInv, TypeOK, serverVars
<1>3. ClientGoesOn
  BY <1>1 DEF ClientGoesOn
<1>4. ASSUME NEW p \in to_server' \ to_server PROVE FromClient(p)'
  <2>1. p = DataPacket(NoId, 1, FALSE) /\ NoId \in Id /\ 1 \in Id
    BY <1>1 DEF Id
  <2>2. /\ p.pay = NoId /\ p.ack = 1
        /\ "ANK" \in p.flags /\ "PAY" \notin p.flags
    BY ZenonT(60), <2>1, DataPacketFields
  <2>3. p.flags # {"PAY", "SYN"} /\ ~FromPartopen(p)
    BY <2>2 DEF FromPartopen
  <2> QED BY <2>1, <2>2, <2>3 DEF FromClient, FromPartopen
<1>5. ClientInv'
  BY <1>1 DEF IInv, ClientInv, ClientParams
<1> QED BY <1>1, <1>2, <1>3, <1>4, <1>5, ClientFrame DEF IInv, PeersInv

LEMMA SendFinInv ==
  ASSUME IInv, SendFin
  PROVE  IInv'
<1> USE DEF SendFin, ClientSends
<1>1. /\ c_loop = "CLOSING" /\ c_loop' = "CLOSING" /\ c_count \in Nat
      /\ UNCHANGED <<conf, c_att, c_count, c_last, c_rack, c_par, c_exit, c_state, serverVars,
                     to_client, losses>>
      /\ c_pc' = "wait"
      /\ to_server' = to_server \union {FinPacket(c_count)}
  BY DEF IInv, TypeOK
<1> HIDE DEF SendFin, ClientSends
<1>2. TypeOK'
  BY <1>1 DEF IInv, TypeOK, serverVars
<1>3. ClientGoesOn
  BY <1>1 DEF ClientGoesOn
<1>4. ASSUME NEW p \in to_server' \ to_server PROVE FromClient(p)'
  <2>1. p.flags = {"PAY", "FIN"} /\ p.pay = c_count /\ p.ack = NoId
    BY <1>1, PktFields DEF FinPacket
  <2>2. p.flags # {"PAY", "SYN"} /\ ~FromPartopen(p)
    BY <2>1 DEF FromPartopen
  <2> QED BY <1>1, <2>1, <2>2 DEF FromClient, FromPartopen, Id
<1>5. ClientInv'
  BY <1>1 DEF IInv, ClientInv
<1> QED BY <1>1, <1>2, <1>3, <1>4, <1>5, ClientFrame DEF IInv, PeersInv

-----------------------------------------------------------------------------
(* The client receives or waits.                                           *)

(* Steps that send nothing and do not change the counter.                  *)
LEMMA QuietStep ==
  ASSUME IInv, TypeOK', ClientInv', UNCHANGED <<conf, serverVars, c_count, to_server>>,
         to_client' \subseteq to_client,
         c_loop' \in {"OPEN", "CLOSING"} => Beyond,
         c_loop' \in {"PARTOPEN", "OPEN"} /\ s_run => c_last' < s_count,
         c_exit' = "ok" => s_state = "CLOSED"
  PROVE  IInv'
<1>1. ClientGoesOn
  BY DEF ClientGoesOn, IInv, TypeOK
<1> QED BY <1>1, ClientFrame

(* One more attempt in a loop, or its end.                                 *)
LEMMA NextAttemptInv ==
  ASSUME IInv, NextAttempt, c_loop \in {"REQUEST", "PARTOPEN", "CLOSING"},
         UNCHANGED <<conf, serverVars, c_count, c_state, c_last, c_par, to_server>>,
         to_client' \subseteq to_client, c_rack' \in Id, losses' = losses
  PROVE  IInv'
<1>1. c_att \in 0..MaxAttempts /\ c_att < MaxAttempts
  BY DEF IInv, TypeOK, ClientInv
<1>2. /\ c_att' = c_att + 1
      /\ \/ c_att + 1 < MaxAttempts /\ c_pc' = "send" /\ c_loop' = c_loop /\ c_exit' = c_exit
         \/ c_loop' = "DONE" /\ c_exit' = c_loop /\ c_pc' = c_pc
  BY DEF NextAttempt
<1>3. c_att' \in 0..MaxAttempts /\ (c_loop' # "DONE" => c_att' < MaxAttempts)
  BY <1>1, <1>2
<1>4. TypeOK'
  BY <1>2, <1>3 DEF IInv, TypeOK, serverVars, Id
<1>5. ClientInv'
  BY <1>2, <1>3 DEF IInv, ClientInv, ClientParams
<1> QED BY <1>2, <1>4, <1>5, QuietStep DEF IInv, PeersInv

LEMMA SendNothingInv ==
  ASSUME IInv, SendNothing
  PROVE  IInv'
<1> USE DEF SendNothing
<1>1. TypeOK'
  BY DEF IInv, TypeOK, serverVars, networkVars
<1>2. ClientInv'
  BY DEF IInv, ClientInv, ClientParams
<1> QED BY <1>1, <1>2, QuietStep DEF IInv, PeersInv, networkVars

(* What the client takes from the network is a packet of the server.       *)
LEMMA TakesFromServer ==
  ASSUME IInv, NEW p, ClientTakes(p)
  PROVE  /\ FromServer(p) /\ c_rack' \in Id /\ to_client' \subseteq to_client
         /\ UNCHANGED <<conf, c_count, serverVars, to_server, losses>>
  BY DEF IInv, NetworkInv, ClientTakes, Taken, FromServer

LEMMA ReceiveInRequestInv ==
  ASSUME IInv, NEW p, ReceiveInRequest(p)
  PROVE  IInv'
<1>1. /\ FromServer(p) /\ c_rack' \in Id /\ to_client' \subseteq to_client
      /\ UNCHANGED <<conf, c_count, serverVars, to_server, losses>>
  BY TakesFromServer DEF ReceiveInRequest
<1>2. c_loop = "REQUEST"
  BY DEF ReceiveInRequest
<1>3. CASE p.flags = {"PAY", "ACK", "SYN"} /\ p.ack = 0
  <2>1. /\ c_loop' = "PARTOPEN" /\ c_state' = "PARTOPEN" /\ c_att' = 0 /\ c_pc' = "send"
        /\ c_exit' = c_exit /\ c_last' = p.pay
        /\ c_par' = ClientNegotiated(c_par, p.neg)
    BY <1>3 DEF ReceiveInRequest, EnterLoop
  <2>2. /\ p.neg = [fc |-> conf.fc, scale |-> conf.scale,
                    cmpr_l |-> conf.cmpr, cmpr_r |-> conf.cmpr]
        /\ p.pay \in Nat /\ (s_run => p.pay < s_count)
    BY <1>1, <1>3 DEF FromServer
  <2>3. c_par = NoParams /\ c_count \in {0, 1}
    BY <1>2 DEF IInv, ClientInv
  <2>4. c_par' = ClientParams
    <3>1. /\ p.neg.fc = conf.fc /\ p.neg.scale = conf.scale
          /\ p.neg.cmpr_l = conf.cmpr /\ p.neg.cmpr_r = conf.cmpr
      BY <2>2
    <3>2. c_par' = [NoParams EXCEPT !.fc = conf.fc, !.peer_scale = conf.scale,
                                    !.host_cmpr = conf.cmpr, !.peer_cmpr = conf.cmpr]
      BY <2>1, <2>3, <3>1 DEF ClientNegotiated
    <3> QED BY <3>2 DEF NoParams, ClientParams
  <2>5. ClientParams \in Params
    BY DEF IInv, TypeOK, ClientParams, Params
  <2>6. TypeOK'
    BY <1>1, <2>1, <2>2, <2>4, <2>5 DEF IInv, TypeOK, serverVars, Id
  <2>7. ClientInv'
    BY <1>1, <2>1, <2>2, <2>3, <2>4 DEF ClientInv, ClientParams
  <2> QED BY <1>1, <2>1, <2>2, <2>6, <2>7, QuietStep DEF IInv, PeersInv, serverVars
<1>4. CASE ~(p.flags = {"PAY", "ACK", "SYN"} /\ p.ack = 0)
  BY <1>1, <1>2, <1>4, NextAttemptInv DEF ReceiveInRequest
<1> QED BY <1>3, <1>4

LEMMA ReceiveInPartopenInv ==
  ASSUME IInv, NEW p, ReceiveInPartopen(p)
  PROVE  IInv'
<1>1. /\ FromServer(p) /\ c_rack' \in Id /\ to_client' \subseteq to_client
      /\ UNCHANGED <<conf, c_count, serverVars, to_server, losses>>
  BY TakesFromServer DEF ReceiveInPartopen
<1>2. c_loop = "PARTOPEN" /\ c_par' = c_par
  BY DEF ReceiveInPartopen
<1>3. CASE AcceptsReply(p)
  <2>1. /\ c_loop' = "OPEN" /\ c_state' = "OPEN" /\ c_att' = 0 /\ c_pc' = "ack"
        /\ c_exit' = c_exit /\ c_last' = p.pay
    BY <1>3 DEF ReceiveInPartopen, EnterLoop
  <2>2. /\ Beyond
        /\ p.pay \in Nat /\ (s_run => p.pay < s_count)
    BY <1>1, <1>3 DEF FromServer, AcceptsReply
  <2>3. TypeOK'
    BY <1>1, <1>2, <2>1, <2>2 DEF IInv, TypeOK, serverVars, Id
  <2>4. ClientInv'
    BY <1>1, <1>2, <2>1, <2>2 DEF IInv, ClientInv, ClientParams
  <2> QED BY <1>1, <2>1, <2>2, <2>3, <2>4, QuietStep DEF IInv, PeersInv
<1>4. CASE ~AcceptsReply(p)
  BY <1>1, <1>2, <1>4, NextAttemptInv DEF ReceiveInPartopen
<1> QED BY <1>3, <1>4

(* A round of vc_OPEN_loop, or its end.                                    *)
LEMMA NextOpenRoundInv ==
  ASSUME IInv, c_loop = "OPEN", NEW state \in {"OPEN", "CLOSING"} \union {c_state},
         NEW pc \in {"send", "ack"}, NextOpenRound(state, pc),
         UNCHANGED <<conf, serverVars, c_count, c_par, to_server>>,
         to_client' \subseteq to_client, c_rack' \in Id, losses' = losses,
         c_last' \in Id, state = "OPEN" /\ s_run => c_last' < s_count
  PROVE  IInv'
<1>1. \/ c_pc' = pc /\ c_state' = "OPEN" /\ state = "OPEN" /\ UNCHANGED <<c_loop, c_att, c_exit>>
      \/ /\ c_loop' = "CLOSING" /\ c_state' = "CLOSING" /\ c_att' = 0 /\ c_pc' = "send"
         /\ c_exit' = c_exit
  BY DEF NextOpenRound, EnterLoop
<1>2. TypeOK'
  BY <1>1 DEF IInv, TypeOK, serverVars, Id
<1>3. ClientInv'
  BY <1>1 DEF IInv, ClientInv, ClientParams
<1> QED BY <1>1, <1>2, <1>3, QuietStep DEF IInv, PeersInv

LEMMA ReceiveInOpenInv ==
  ASSUME IInv, NEW p, ReceiveInOpen(p)
  PROVE  IInv'
<1> DEFINE late  == "PAY" \in p.flags /\ p.pay <= c_last
           new   == "PAY" \in p.flags /\ ~late
           state == IF "FIN" \in p.flags /\ ~late THEN "CLOSING" ELSE c_state
           pc    == IF new THEN "ack" ELSE "send"
<1>1. /\ FromServer(p) /\ c_rack' \in Id /\ to_client' \subseteq to_client
      /\ UNCHANGED <<conf, c_count, serverVars, to_server, losses>>
  BY TakesFromServer DEF ReceiveInOpen
<1>2. /\ c_loop = "OPEN" /\ c_par' = c_par
      /\ c_last' = IF new THEN p.pay ELSE c_last
      /\ NextOpenRound(state, pc)
  BY DEF ReceiveInOpen
<1>3. c_last' \in Id /\ c_last \in Id
  BY <1>1, <1>2 DEF FromServer, IInv, TypeOK, Id
<1>4. state = "OPEN" /\ s_run => c_last' < s_count
  <2>1. s_run => c_last < s_count
    BY <1>2 DEF IInv, PeersInv
  <2>2. new /\ "FIN" \notin p.flags /\ s_run => p.pay < s_count
    BY <1>1 DEF FromServer
  <2>3. new /\ state = "OPEN" => "FIN" \notin p.flags
    OBVIOUS
  <2> QED BY <1>2, <2>1, <2>2, <2>3
<1>5. state \in {"OPEN", "CLOSING"} \union {c_state} /\ pc \in {"send", "ack"}
  OBVIOUS
<1> HIDE DEF state, pc, new, late
<1> QED BY <1>1, <1>2, <1>3, <1>4, <1>5, NextOpenRoundInv

LEMMA ReceiveInClosingInv ==
  ASSUME IInv, NEW p, ReceiveInClosing(p)
  PROVE  IInv'
<1>1. /\ FromServer(p) /\ c_rack' \in Id /\ to_client' \subseteq to_client
      /\ UNCHANGED <<conf, c_count, serverVars, to_server, losses>>
  BY TakesFromServer DEF ReceiveInClosing
<1>2. c_loop = "CLOSING" /\ c_par' = c_par
  BY DEF ReceiveInClosing
<1>3. CASE AcceptsFin(p)
  <2>1. /\ c_loop' = "DONE" /\ c_state' = "CLOSED" /\ c_exit' = "ok" /\ c_last' = p.pay
        /\ UNCHANGED <<c_att, c_pc>>
    BY <1>3 DEF ReceiveInClosing
  <2>2. s_state = "CLOSED" /\ p.pay \in Nat
    BY <1>1, <1>3 DEF FromServer, AcceptsFin
  <2>3. TypeOK'
    BY <1>1, <1>2, <2>1, <2>2 DEF IInv, TypeOK, serverVars, Id
  <2>4. ClientInv'
    BY <2>1 DEF ClientInv
  <2> QED BY <1>1, <2>1, <2>2, <2>3, <2>4, QuietStep
<1>4. CASE ~AcceptsFin(p)
  BY <1>1, <1>2, <1>4, NextAttemptInv DEF ReceiveInClosing
<1> QED BY <1>3, <1>4

(* Timeouts, and a socket that is closed.                                  *)
LEMMA ClientWaitsInv ==
  ASSUME IInv, AttemptTimeout \/ OpenTimeout \/ OpenDead \/ ClientRefused
  PROVE  IInv'
<1>0. c_rack \in Id /\ c_last \in Id
  BY DEF IInv, TypeOK, Id
<1>1. CASE AttemptTimeout
  BY <1>0, <1>1, NextAttemptInv DEF AttemptTimeout, networkVars
<1>2. CASE OpenTimeout
  <2>1. c_loop = "OPEN" /\ NextOpenRound(c_state, "send")
    BY <1>2 DEF OpenTimeout
  <2>2. s_run => c_last < s_count
    BY <2>1 DEF IInv, PeersInv
  <2> QED BY <1>0, <1>2, <2>1, <2>2, NextOpenRoundInv DEF OpenTimeout, networkVars
<1>3. CASE OpenDead \/ ClientRefused
  <2>1. /\ c_loop' = "DONE" /\ c_exit' = c_loop /\ c_loop # "DONE"
        /\ UNCHANGED <<conf, c_state, c_pc, c_att, c_count, c_last, c_rack, c_par,
                       serverVars, networkVars>>
    BY <1>3 DEF OpenDead, ClientRefused
  <2>2. TypeOK'
    BY <2>1 DEF IInv, TypeOK, serverVars, networkVars
  <2>3. ClientInv'
    BY <2>1 DEF ClientInv
  <2>4. c_exit' # "ok"
    BY <2>1 DEF IInv, TypeOK
  <2> QED BY <2>1, <2>2, <2>3, <2>4, QuietStep DEF networkVars
<1> QED BY <1>1, <1>2, <1>3

-----------------------------------------------------------------------------
(* The server handles a packet.                                            *)

(* What it takes from the network is a packet of the client.               *)
LEMMA TakesFromClient ==
  ASSUME IInv, NEW p, NEW last, ServerTakes(p, last)
  PROVE  /\ FromClient(p) /\ s_run /\ s_next = "none" /\ to_server' \subseteq to_server
         /\ s_last' = last /\ s_run' = s_run
         /\ UNCHANGED <<conf, clientVars, s_close, losses>>
  BY DEF IInv, NetworkInv, ServerTakes, Taken

(* The answer to a packet of a client in REQUEST.                          *)
LEMMA ResponseSound ==
  ASSUME UNCHANGED conf, s_count' \in Nat, s_count' >= 1,
         s_par'.peer_cmpr = conf.cmpr, s_par'.host_cmpr = conf.cmpr,
         NEW q, q = ResponsePacket(s_par')
  PROVE  FromServer(q)'
<1>1. /\ q.flags = {"PAY", "SYN", "ACK"} /\ q.pay = 0 /\ q.ack = 0
      /\ q.neg = [fc |-> conf.fc, scale |-> conf.scale,
                  cmpr_l |-> s_par'.peer_cmpr, cmpr_r |-> s_par'.host_cmpr]
  BY PktFields DEF ResponsePacket
<1>2. q.neg = [fc |-> conf'.fc, scale |-> conf'.scale,
               cmpr_l |-> conf'.cmpr, cmpr_r |-> conf'.cmpr]
  BY <1>1
<1>3. /\ q.flags # {"PAY", "ACK", "FIN"} /\ q.flags # {"PAY", "ACK", "ANK"}
      /\ "PAY" \in q.flags
  BY <1>1
<1> QED BY <1>1, <1>2, <1>3 DEF FromServer, AcceptsReply, Id

LEMMA ServerInListenInv ==
  ASSUME IInv, NEW p, ServerInListen(p)
  PROVE  IInv'
<1>1. /\ FromClient(p) /\ s_run /\ s_next = "none" /\ to_server' \subseteq to_server
      /\ s_last' = p.pay /\ s_run' = s_run
      /\ UNCHANGED <<conf, clientVars, s_close, losses>>
  BY TakesFromClient DEF ServerInListen
<1>2. /\ s_state = "LISTEN" /\ s_state' = "LISTEN" /\ s_next' = "RESPOND"
      /\ p.flags = {"PAY", "SYN"} /\ s_count' = 1
      /\ s_att' = [s_att EXCEPT !["LISTEN"] = 1]
      /\ s_par' = ServerProposed(s_par, p.neg)
      /\ to_client' = to_client \union {ResponsePacket(s_par')}
  BY DEF ServerInListen, ServerSends
<1>3. /\ p.neg = [scale |-> 0, cmpr |-> conf.cmpr] /\ p.pay \in Nat /\ p.pay < c_count
      /\ s_count = 0 /\ s_par = NoParams
  BY <1>1, <1>2 DEF FromClient, IInv, ServerInv
<1>4. s_par' = ProposedParams
  <2>1. s_par' = [NoParams EXCEPT !.peer_scale = 0, !.peer_cmpr = conf.cmpr,
                                  !.host_cmpr = conf.cmpr]
    BY <1>2, <1>3 DEF ServerProposed
  <2> QED BY <2>1 DEF NoParams, ProposedParams
<1>5. ProposedParams \in Params
  BY DEF IInv, TypeOK, ProposedParams, Params
<1>6. s_att' \in [{"LISTEN", "RESPOND", "CLOSED"} -> 0..MaxAttempts]
  BY <1>2 DEF IInv, TypeOK
<1>7. TypeOK'
  BY <1>1, <1>2, <1>3, <1>4, <1>5, <1>6 DEF IInv, TypeOK, clientVars
<1>8. ServerGoesOn
  BY <1>1, <1>2, <1>3 DEF ServerGoesOn, Beyond
<1>9. ServerInv'
  BY <1>1, <1>2, <1>4 DEF ServerInv, ProposedParams
<1>10. ASSUME NEW q \in to_client' \ to_client PROVE FromServer(q)'
  <2>1. q = ResponsePacket(s_par')
    BY <1>2, <1>10
  <2>2. s_par'.peer_cmpr = conf.cmpr /\ s_par'.host_cmpr = conf.cmpr
    BY <1>4 DEF ProposedParams
  <2> QED BY <1>1, <1>2, <2>1, <2>2, ResponseSound
<1> QED BY <1>1, <1>3, <1>7, <1>8, <1>9, <1>10, ServerFrame

LEMMA ServerRepeatsResponseInv ==
  ASSUME IInv, NEW p, ServerRepeatsResponse(p)
  PROVE  IInv'
<1>1. /\ FromClient(p) /\ s_run /\ s_next = "none" /\ to_server' \subseteq to_server
      /\ s_last' = p.pay /\ s_run' = s_run
      /\ UNCHANGED <<conf, clientVars, s_close, losses>>
  BY TakesFromClient DEF ServerRepeatsResponse
<1>2. /\ s_state = "RESPOND" /\ s_state' = "RESPOND" /\ s_next' = "none"
      /\ p.flags = {"PAY", "SYN"} /\ s_count' = 2
      /\ s_att["LISTEN"] < MaxAttempts
      /\ s_att' = [s_att EXCEPT !["LISTEN"] = @ + 1]
      /\ s_par' = ServerProposed(s_par, p.neg)
      /\ to_client' = to_client \union {ResponsePacket(s_par')}
  BY <1>1 DEF ServerRepeatsResponse, ServerSends
<1>3. /\ p.neg = [scale |-> 0, cmpr |-> conf.cmpr] /\ p.pay \in Nat /\ p.pay < c_count
      /\ s_count \in {1, 2} /\ s_par = ProposedParams
  BY <1>1, <1>2 DEF FromClient, IInv, ServerInv
<1>4. s_par' = ProposedParams
  <2>1. s_par' = [ProposedParams EXCEPT !.peer_scale = 0, !.peer_cmpr = conf.cmpr,
                                        !.host_cmpr = conf.cmpr]
    BY <1>2, <1>3 DEF ServerProposed
  <2> QED BY <2>1 DEF ProposedParams
<1>5. ProposedParams \in Params
  BY DEF IInv, TypeOK, ProposedParams, Params
<1>6. s_att' \in [{"LISTEN", "RESPOND", "CLOSED"} -> 0..MaxAttempts]
  BY <1>2 DEF IInv, TypeOK
<1>7. TypeOK'
  BY <1>1, <1>2, <1>3, <1>4, <1>5, <1>6 DEF IInv, TypeOK, clientVars
<1>8. ServerGoesOn
  BY <1>1, <1>2, <1>3 DEF ServerGoesOn, Beyond
<1>9. ServerInv'
  BY <1>1, <1>2, <1>4 DEF ServerInv, ProposedParams
<1>10. ASSUME NEW q \in to_client' \ to_client PROVE FromServer(q)'
  <2>1. q = ResponsePacket(s_par')
    BY <1>2, <1>10
  <2>2. s_par'.peer_cmpr = conf.cmpr /\ s_par'.host_cmpr = conf.cmpr
    BY <1>4 DEF ProposedParams
  <2> QED BY <1>1, <1>2, <2>1, <2>2, ResponseSound
<1> QED BY <1>1, <1>3, <1>7, <1>8, <1>9, <1>10, ServerFrame

(* The answer to a packet of a client in PARTOPEN.                         *)
LEMMA ReplySound ==
  ASSUME s_count' \in Nat, s_count' >= 2, Beyond'
  PROVE  FromServer(ReplyPacket)'
<1>1. ReplyPacket.flags = {"PAY", "ACK", "ANK"} /\ ReplyPacket.pay = 1 /\ ReplyPacket.ack = 1
  BY PktFields DEF ReplyPacket
<1>2. /\ ReplyPacket.flags # {"PAY", "ACK", "FIN"} /\ ReplyPacket.flags # {"PAY", "ACK", "SYN"}
  BY <1>1
<1>3. ReplyPacket' = ReplyPacket
  BY DEF ReplyPacket, Pkt, NoNeg
<1> QED BY <1>1, <1>2, <1>3 DEF FromServer, Id

(* What the client confirms is what the server has proposed.               *)
LEMMA ConfirmedParams ==
  ASSUME IInv, NEW p, FromClient(p), FromPartopen(p),
         s_par' = ServerConfirmed(s_par, p.neg)
  PROVE  /\ s_par' \in Params
         /\ s_par \in {ProposedParams, AgreedParams} => s_par' = AgreedParams
<1>1. p.neg = [fc |-> conf.fc, scale |-> conf.scale]
  BY DEF FromClient
<1>2. p.neg.fc = conf.fc /\ p.neg.scale = conf.scale
  BY <1>1
<1>3. s_par' = [s_par EXCEPT !.fc = conf.fc,
                             !.host_scale = IF conf.scale # 0 THEN conf.scale ELSE @]
  BY <1>2 DEF ServerConfirmed
<1>4. conf.fc \in FcMethods /\ conf.scale \in Nat /\ s_par \in Params
  BY DEF IInv, TypeOK
<1>5. s_par' \in Params
  BY <1>3, <1>4 DEF Params
<1>6. ASSUME s_par \in {ProposedParams, AgreedParams} PROVE s_par' = AgreedParams
  <2> DEFINE h == IF conf.scale # 0 THEN conf.scale ELSE s_par.host_scale
  <2>1. s_par.host_scale \in {0, conf.scale}
    BY <1>6 DEF ProposedParams, AgreedParams
  <2>2. h = conf.scale
    BY <2>1
  <2>3. s_par' = [s_par EXCEPT !.fc = conf.fc, !.host_scale = h]
    BY <1>3
  <2> HIDE DEF h
  <2>4. s_par' = [s_par EXCEPT !.fc = conf.fc, !.host_scale = conf.scale]
    BY <2>2, <2>3
  <2>5. CASE s_par = ProposedParams
    BY <2>4, <2>5 DEF ProposedParams, AgreedParams
  <2>6. CASE s_par = AgreedParams
    BY <2>4, <2>6 DEF AgreedParams
  <2> QED BY <1>6, <2>5, <2>6
<1> QED BY <1>5, <1>6

LEMMA ServerInRespondInv ==
  ASSUME IInv, NEW p, ServerInRespond(p)
  PROVE  IInv'
<1>1. /\ FromClient(p) /\ s_run /\ s_next = "none" /\ to_server' \subseteq to_server
      /\ s_last' = p.pay /\ s_run' = s_run
      /\ UNCHANGED <<conf, clientVars, s_close, losses>>
  BY TakesFromClient DEF ServerInRespond
<1>2. /\ s_state = "RESPOND" /\ s_state' = "RESPOND" /\ s_next' = "OPEN"
      /\ FromPartopen(p) /\ s_count' = 2
      /\ s_att' = [s_att EXCEPT !["RESPOND"] = 1]
      /\ s_par' = ServerConfirmed(s_par, p.neg)
      /\ to_client' = to_client \union {ReplyPacket}
  BY DEF ServerInRespond, ServerSends
<1>3. p.pay \in Nat /\ p.pay < c_count /\ s_count \in {1, 2} /\ s_par = ProposedParams
  BY <1>1, <1>2 DEF FromClient, FromPartopen, IInv, ServerInv
<1>4. s_par' \in Params /\ s_par' = AgreedParams
  BY <1>1, <1>2, <1>3, ConfirmedParams
<1>5. s_att' \in [{"LISTEN", "RESPOND", "CLOSED"} -> 0..MaxAttempts]
  BY <1>2 DEF IInv, TypeOK
<1>6. TypeOK'
  BY <1>1, <1>2, <1>3, <1>4, <1>5 DEF IInv, TypeOK, clientVars
<1>7. ServerGoesOn
  BY <1>1, <1>2, <1>3 DEF ServerGoesOn, Beyond
<1>8. ServerInv'
  BY <1>1, <1>2, <1>4 DEF ServerInv, AgreedParams
<1>9. FromServer(ReplyPacket)'
  BY <1>2, ReplySound DEF Beyond
<1>10. ReplyPacket' = ReplyPacket
  BY DEF ReplyPacket, Pkt, NoNeg
<1>11. ASSUME NEW q \in to_client' \ to_client PROVE FromServer(q)'
  BY <1>2, <1>9, <1>10, <1>11 DEF FromServer
<1> QED BY <1>1, <1>3, <1>6, <1>7, <1>8, <1>11, ServerFrame

LEMMA ServerRepeatsReplyInv ==
  ASSUME IInv, NEW p, ServerRepeatsReply(p)
  PROVE  IInv'
<1>1. /\ FromClient(p) /\ s_run /\ s_next = "none" /\ to_server' \subseteq to_server
      /\ s_last' = p.pay /\ s_run' = s_run
      /\ UNCHANGED <<conf, clientVars, s_close, losses>>
  BY TakesFromClient DEF ServerRepeatsReply
<1>2. /\ s_state \in {"OPEN", "CLOSEREQ"} /\ s_state' = s_state /\ s_next' = "none"
      /\ FromPartopen(p) /\ s_count' = s_count + 1
      /\ s_att["RESPOND"] < MaxAttempts
      /\ s_att' = [s_att EXCEPT !["RESPOND"] = @ + 1]
      /\ s_par' = ServerConfirmed(s_par, p.neg)
      /\ to_client' = to_client \union {ReplyPacket}
  BY <1>1 DEF ServerRepeatsReply, ServerSends
<1>3. p.pay \in Nat /\ p.pay < c_count /\ s_count \in Nat /\ s_count >= 1
  BY <1>1, <1>2 DEF FromClient, FromPartopen, IInv, TypeOK
<1>4. s_par' \in Params /\ (s_state = "OPEN" => s_par' = AgreedParams /\ s_count >= 2)
  BY <1>1, <1>2, <1>3, ConfirmedParams DEF IInv, ServerInv
<1>5. s_att' \in [{"LISTEN", "RESPOND", "CLOSED"} -> 0..MaxAttempts]
  BY <1>2 DEF IInv, TypeOK
<1>6. TypeOK'
  BY <1>1, <1>2, <1>3, <1>4, <1>5 DEF IInv, TypeOK, clientVars
<1>7. ServerGoesOn
  BY <1>1, <1>2, <1>3 DEF ServerGoesOn, Beyond
<1>8. ServerInv'
  BY <1>1, <1>2, <1>3, <1>4 DEF ServerInv, AgreedParams
<1>9. FromServer(ReplyPacket)'
  BY <1>2, <1>3, ReplySound DEF Beyond
<1>10. ReplyPacket' = ReplyPacket
  BY DEF ReplyPacket, Pkt, NoNeg
<1>11. ASSUME NEW q \in to_client' \ to_client PROVE FromServer(q)'
  BY <1>2, <1>9, <1>10, <1>11 DEF FromServer
<1> QED BY <1>1, <1>3, <1>6, <1>7, <1>8, <1>11, ServerFrame

(* The answer to a FIN packet.                                             *)
LEMMA FinAckSound ==
  ASSUME s_state' = "CLOSED", NEW pay \in Nat, NEW ack \in Id, NEW q, q = FinAckPacket(pay, ack)
  PROVE  FromServer(q)'
<1>1. q.flags = {"PAY", "FIN", "ACK"} /\ q.pay = pay /\ q.ack = ack
  BY PktFields DEF FinAckPacket
<1>2. /\ q.flags # {"PAY", "ACK", "SYN"} /\ q.flags # {"PAY", "ACK", "ANK"}
      /\ "FIN" \in q.flags
  BY <1>1
<1> QED BY <1>1, <1>2 DEF FromServer, AcceptsReply, Id

LEMMA ServerClosedByFinInv ==
  ASSUME IInv, NEW p, ServerClosedByFin(p)
  PROVE  IInv'
<1>1. /\ FromClient(p) /\ s_run /\ s_next = "none" /\ to_server' \subseteq to_server
      /\ s_last' = p.pay /\ s_run' = s_run
      /\ UNCHANGED <<conf, clientVars, s_close, losses>>
  BY TakesFromClient DEF ServerClosedByFin
<1>2. /\ s_state' = "CLOSED" /\ s_next' = "none" /\ UNCHANGED <<s_count, s_par>>
      /\ {"PAY", "FIN"} \subseteq p.flags
      /\ s_att' = [s_att EXCEPT !["CLOSED"] = 1]
      /\ to_client' = to_client \union {FinAckPacket(s_count, p.pay)}
  BY <1>1 DEF ServerClosedByFin, ServerSends
<1>3. p.pay \in Nat /\ s_count \in Nat
  BY <1>1, <1>2 DEF FromClient, IInv, TypeOK
<1>4. s_att' \in [{"LISTEN", "RESPOND", "CLOSED"} -> 0..MaxAttempts]
  BY <1>2 DEF IInv, TypeOK
<1>5. TypeOK'
  BY <1>1, <1>2, <1>3, <1>4 DEF IInv, TypeOK, clientVars
<1>6. ServerGoesOn
  BY <1>1, <1>2, <1>3 DEF ServerGoesOn, Beyond
<1>7. ServerInv'
  BY <1>1, <1>2 DEF ServerInv
<1>8. ASSUME NEW q \in to_client' \ to_client PROVE FromServer(q)'
  BY <1>2, <1>3, <1>8, FinAckSound DEF Id
<1> QED BY <1>1, <1>2, <1>5, <1>6, <1>7, <1>8, ServerFrame

LEMMA ServerInClosedInv ==
  ASSUME IInv, NEW p, ServerInClosed(p)
  PROVE  IInv'
<1>1. /\ FromClient(p) /\ s_run /\ s_next = "none" /\ to_server' \subseteq to_server
      /\ s_last' = s_last /\ s_run' = s_run
      /\ UNCHANGED <<conf, clientVars, s_close, losses>>
  BY TakesFromClient DEF ServerInClosed
<1>2. /\ s_state = "CLOSED" /\ s_state' = "CLOSED" /\ s_next' = "none"
      /\ UNCHANGED <<s_count, s_par>>
      /\ s_att["CLOSED"] < MaxAttempts
      /\ s_att' = [s_att EXCEPT !["CLOSED"] = @ + 1]
      /\ to_client' = to_client \union {FinAckPacket(s_count, p.pay)}
  BY <1>1 DEF ServerInClosed, ServerSends
<1>3. p.pay \in Id /\ s_count \in Nat
  BY <1>1 DEF FromClient, IInv, TypeOK
<1>4. s_att' \in [{"LISTEN", "RESPOND", "CLOSED"} -> 0..MaxAttempts]
  BY <1>2 DEF IInv, TypeOK
<1>5. TypeOK'
  BY <1>1, <1>2, <1>3, <1>4 DEF IInv, TypeOK, clientVars
<1>6. ServerGoesOn
  BY <1>1, <1>2, <1>3 DEF ServerGoesOn, Beyond
<1>7. ServerInv'
  BY <1>1, <1>2 DEF ServerInv
<1>8. ASSUME NEW q \in to_client' \ to_client PROVE FromServer(q)'
  BY <1>2, <1>3, <1>8, FinAckSound
<1> QED BY <1>1, <1>2, <1>5, <1>6, <1>7, <1>8, ServerFrame

(* A packet the server sends in OPEN or CLOSEREQ.                          *)
LEMMA DataSound ==
  ASSUME IInv, NEW pay \in {s_count, NoId}, NEW ack \in {1, NoId}, NEW fin \in BOOLEAN,
         pay # NoId => s_count' = s_count + 1, Beyond', NEW q, q = DataPacket(pay, ack, fin)
  PROVE  FromServer(q)'
<1>0. s_count \in Nat
  BY DEF IInv, TypeOK
<1>1. pay \in Id /\ ack \in Id /\ (pay # NoId => pay \in Nat /\ pay < s_count')
  BY <1>0 DEF Id, NoId
<1>2. /\ q.pay = pay /\ q.ack = ack
      /\ "PAY" \in q.flags <=> pay # NoId
      /\ "ANK" \in q.flags
  BY <1>1, DataPacketFields
<1>3. q.flags # {"PAY", "ACK", "SYN"} /\ q.flags # {"PAY", "ACK", "FIN"}
  BY <1>2
<1> QED BY <1>1, <1>2, <1>3 DEF FromServer

LEMMA ServerInOpenInv ==
  ASSUME IInv, NEW p, ServerInOpen(p)
  PROVE  IInv'
<1> DEFINE last == IF "PAY" \in p.flags THEN p.pay ELSE s_last
           fin  == s_state = "CLOSEREQ"
<1>1. /\ FromClient(p) /\ s_run /\ s_next = "none" /\ to_server' \subseteq to_server
      /\ s_last' = last /\ s_run' = s_run
      /\ UNCHANGED <<conf, clientVars, s_close, losses>>
  <2>1. ServerTakes(p, last)
    BY DEF ServerInOpen
  <2> HIDE DEF last
  <2> QED BY <2>1, TakesFromClient
<1>2. /\ s_state \in {"OPEN", "CLOSEREQ"} /\ ~({"PAY", "FIN"} \subseteq p.flags)
      /\ UNCHANGED <<s_state, s_next, s_att, s_par>>
  BY DEF ServerInOpen
<1>3. /\ s_count' \in {s_count, s_count + 1}
      /\ \/ to_client' = to_client
         \/ \E pay \in {s_count, NoId}, ack \in {1, NoId} :
              /\ to_client' = to_client \union {DataPacket(pay, ack, fin)}
              /\ pay # NoId => s_count' = s_count + 1
  <2> HIDE DEF last
  <2> DEFINE Pay(ack) == to_client' = to_client \union {DataPacket(s_count, ack, fin)}
  <2>1. \/ (\E ack \in {1, NoId} : Pay(ack)) /\ s_count' = s_count + 1
        \/ to_client' = to_client \union {DataPacket(NoId, 1, fin)} /\ s_count' = s_count
        \/ to_client' = to_client /\ s_count' = s_count
    BY DEF ServerInOpen, ServerSends
  <2> QED BY <2>1, Zenon
<1> fin \in BOOLEAN
  OBVIOUS
<1> HIDE DEF fin
<1>4. last < c_count /\ last \in Nat \union {NoId}
  BY <1>1, <1>2 DEF FromClient, IInv, PeersInv, TypeOK
<1> HIDE DEF last
<1>5. TypeOK'
  BY <1>1, <1>2, <1>3, <1>4 DEF IInv, TypeOK, clientVars
<1>6. ServerGoesOn /\ Beyond'
  BY <1>1, <1>2, <1>3 DEF ServerGoesOn, Beyond, IInv, TypeOK
<1>7. ServerInv'
  BY <1>1, <1>2, <1>3 DEF IInv, TypeOK, ServerInv, AgreedParams
<1>8. ASSUME NEW q \in to_client' \ to_client PROVE FromServer(q)'
  BY <1>3, <1>6, <1>8, DataSound
<1> QED BY <1>1, <1>4, <1>5, <1>6, <1>7, <1>8, ServerFrame

LEMMA ServerTickInv ==
  ASSUME IInv, ServerTick
  PROVE  IInv'
<1>1. /\ s_run /\ s_next = "none" /\ s_state = "OPEN" /\ s_count' = s_count + 1
      /\ UNCHANGED <<conf, clientVars, s_run, s_state, s_next, s_att, s_last, s_par, s_close,
                     to_server, losses>>
  BY DEF ServerTick
<1>2. \E ack \in {1, NoId} : to_client' = to_client \union {DataPacket(s_count, ack, FALSE)}
  BY DEF ServerTick, ServerSends
<1>3. TypeOK'
  BY <1>1 DEF IInv, TypeOK, clientVars
<1>4. ServerGoesOn /\ Beyond'
  BY <1>1 DEF ServerGoesOn, Beyond, IInv, TypeOK
<1>5. ServerInv'
  BY <1>1 DEF IInv, TypeOK, ServerInv, AgreedParams
<1>6. ASSUME NEW q \in to_client' \ to_client PROVE FromServer(q)'
  BY <1>1, <1>2, <1>4, <1>6, DataSound
<1> QED BY <1>1, <1>3, <1>4, <1>5, <1>6, ServerFrame DEF IInv, PeersInv

LEMMA ServerDropsInv ==
  ASSUME IInv, NEW p, ServerDrops(p)
  PROVE  IInv'
<1>1. /\ to_server' \subseteq to_server
      /\ s_last' = s_last /\ s_run' = s_run
      /\ UNCHANGED <<conf, clientVars, s_close, losses>>
      /\ UNCHANGED <<s_state, s_next, s_att, s_count, s_par, to_client>>
  BY TakesFromClient DEF ServerDrops
<1>2. TypeOK'
  BY <1>1 DEF IInv, TypeOK, clientVars
<1>3. ServerGoesOn
  BY <1>1 DEF ServerGoesOn, Beyond, IInv, TypeOK
<1>4. ServerInv'
  BY <1>1 DEF IInv, ServerInv, AgreedParams, ProposedParams
<1> QED BY <1>1, <1>2, <1>3, <1>4, ServerFrame DEF IInv, PeersInv

(* The server switches its state, is told to terminate, or ends.           *)
LEMMA ServerSwitchInv ==
  ASSUME IInv, ServerSwitch
  PROVE  IInv'
<1> USE DEF ServerSwitch, networkVars
<1>1. TypeOK'
  BY DEF IInv, TypeOK, clientVars
<1>2. ServerGoesOn
  BY DEF ServerGoesOn, Beyond, IInv, TypeOK, ServerInv
<1>3. ServerInv'
  BY DEF IInv, TypeOK, ServerInv, AgreedParams, ProposedParams
<1>4. s_state # "CLOSED"
  BY DEF IInv, ServerInv
<1> QED BY <1>1, <1>2, <1>3, <1>4, ServerFrame DEF IInv, PeersInv

LEMMA RequestTerminateInv ==
  ASSUME IInv, RequestTerminate
  PROVE  IInv'
<1> USE DEF RequestTerminate, networkVars
<1>1. TypeOK'
  BY DEF IInv, TypeOK, clientVars
<1>2. ServerGoesOn
  BY DEF ServerGoesOn, Beyond, IInv, TypeOK
<1>3. ServerInv'
  BY DEF IInv, TypeOK, ServerInv, AgreedParams, ProposedParams
<1> QED BY <1>1, <1>2, <1>3, ServerFrame DEF IInv, PeersInv

LEMMA ServerEndsInv ==
  ASSUME IInv, ServerEnds
  PROVE  IInv'
<1>1. /\ UNCHANGED <<conf, clientVars, s_next, s_close, to_client, to_server, losses>>
      /\ ~s_run' /\ s_run' \in BOOLEAN /\ s_state' = "CLOSED" /\ s_next = "none"
      /\ s_count' = 0 /\ s_last' = NoId /\ s_par' = NoParams
      /\ s_att' = [s \in DOMAIN s_att |-> 0]
  BY DEF ServerEnds, networkVars
<1>2. TypeOK'
  <2>1. NoParams \in Params
    BY DEF Params, NoParams
  <2>2. s_att' \in [{"LISTEN", "RESPOND", "CLOSED"} -> 0..MaxAttempts]
    BY <1>1 DEF IInv, TypeOK
  <2>3. s_par' \in Params
    BY <1>1, <2>1
  <2> QED BY <1>1, <2>2, <2>3 DEF IInv, TypeOK, clientVars
<1>3. ServerGoesOn
  BY <1>1 DEF ServerGoesOn, Beyond
<1>4. ServerInv'
  BY <1>1 DEF ServerInv
<1> QED BY <1>1, <1>2, <1>3, <1>4, ServerFrame

(* The network loses a packet.                                             *)
LEMMA LoseInv ==
  ASSUME IInv, Lose
  PROVE  IInv'
<1>1. /\ losses < MaxLoss /\ losses' = losses + 1
      /\ to_client' \subseteq to_client /\ to_server' \subseteq to_server
      /\ UNCHANGED <<conf, clientVars, serverVars>>
  BY DEF Lose
<1>2. TypeOK'
  BY <1>1 DEF IInv, TypeOK, clientVars, serverVars
<1>3. ServerGoesOn
  BY <1>1 DEF ServerGoesOn, Beyond, serverVars, IInv, TypeOK
<1>4. ServerInv'
  BY <1>1 DEF IInv, ServerInv, AgreedParams, ProposedParams, serverVars
<1> QED BY <1>1, <1>2, <1>3, <1>4, ServerFrame DEF IInv, PeersInv, serverVars

-----------------------------------------------------------------------------
LEMMA NextIInv == IInv /\ [Next]_vars => IInv'
<1> SUFFICES ASSUME IInv, [Next]_vars PROVE IInv'
  OBVIOUS
<1>1. CASE ClientSend
  BY <1>1, SendRequestInv, SendPartopenInv, SendAckOnlyInv, SendNothingInv, SendFinInv
     DEF ClientSend
<1>2. CASE SendPayload
  BY <1>2, SendPayloadInv
<1>3. CASE ClientReceive
  BY <1>3, ReceiveInRequestInv, ReceiveInPartopenInv, ReceiveInOpenInv, ReceiveInClosingInv
     DEF ClientReceive
<1>4. CASE AttemptTimeout \/ OpenTimeout \/ OpenDead \/ ClientRefused
  BY <1>4, ClientWaitsInv
<1>5. CASE ServerReceive
  BY <1>5, ServerInListenInv, ServerRepeatsResponseInv, ServerInRespondInv,
     ServerRepeatsReplyInv, ServerClosedByFinInv, ServerInOpenInv, ServerInClosedInv,
     ServerDropsInv DEF ServerReceive
<1>6. CASE ServerSwitch \/ ServerTick \/ RequestTerminate \/ ServerEnds
  BY <1>6, ServerSwitchInv, ServerTickInv, RequestTerminateInv, ServerEndsInv
<1>7. CASE Lose
  BY <1>7, LoseInv
<1>8. CASE UNCHANGED vars
  <2>1. TypeOK'
    BY <1>8 DEF IInv, TypeOK, vars, clientVars, serverVars, networkVars
  <2>2. ServerInv'
    BY <1>8 DEF IInv, ServerInv, vars, serverVars, AgreedParams, ProposedParams
  <2>3. ServerGoesOn
    BY <1>8 DEF ServerGoesOn, Beyond, vars, serverVars, IInv, TypeOK
  <2> QED BY <1>8, <2>1, <2>2, <2>3, ServerFrame
          DEF vars, serverVars, networkVars, IInv, PeersInv
<1> QED BY <1>1, <1>2, <1>3, <1>4, <1>5, <1>6, <1>7, <1>8 DEF Next

LEMMA Inductive == Spec => []IInv
  BY InitIInv, NextIInv, PTL DEF Spec

-----------------------------------------------------------------------------
(* Counters, attempts and parameters of both peers keep their types: no    *)
(* loop and no handler counts an attempt beyond max_connection_attempts,   *)
(* and no callback stores a parameter that nobody proposed.                *)
THEOREM ConnectionTypes == Spec => []TypeOK
<1>1. IInv => TypeOK
  BY DEF IInv
<1> QED BY <1>1, Inductive, PTL

(* The three way handshake: a client that vc_PARTOPEN_loop has let into    *)
(* OPEN has a server that went through RESPOND, for any packets lost,      *)
(* repeated, delayed or left over, and any request to terminate that       *)
(* overtakes a handler.                                                    *)
THEOREM HandshakeTogether == Spec => []OpenTogether
<1>1. IInv => OpenTogether
  BY DEF IInv, PeersInv, Beyond, OpenTogether
<1> QED BY <1>1, Inductive, PTL

(* The payload ids of the handshake stay in step: vc_send_packet and       *)
(* vs_send_packet never restart a counter below an id the peer has already *)
(* received, so that new payload is never dropped as late in OPEN.         *)
THEOREM CountersInStep == Spec => []LastIsSent
<1>1. IInv => LastIsSent
  BY DEF IInv, PeersInv, LastIsSent
<1> QED BY <1>1, Inductive, PTL

(* The negotiation: when both peers are OPEN, the callbacks of LISTEN,     *)
(* REQUEST and RESPOND have left the same parameters on both sides.        *)
THEOREM NegotiationAgrees == Spec => []NegotiatedAgree
<1>1. IInv => NegotiatedAgree
  BY DEF IInv, ClientInv, ServerInv, NegotiatedAgree, ClientParams, AgreedParams
<1> QED BY <1>1, Inductive, PTL

(* The teardown: when vc_CLOSING_loop ends without error, the server is    *)
(* CLOSED.  An answer to a FIN packet is only sent from there.             *)
THEOREM RegularEndIsClosed == Spec => []TeardownComplete
<1>1. IInv => TeardownComplete
  BY DEF IInv, PeersInv, TeardownComplete
<1> QED BY <1>1, Inductive, PTL
=============================================================================
