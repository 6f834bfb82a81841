--------------------------- MODULE UdpConnection ---------------------------
(***************************************************************************)
(* The handshake and the teardown of a Verse datagram (UDP) connection:    *)
(* the loops REQUEST, PARTOPEN, OPEN and CLOSING of the client             *)
(* (vc_udp_connect.c) and the states LISTEN, RESPOND, OPEN, CLOSEREQ and   *)
(* CLOSED of the server's thread for the connection (vs_udp_connect.c).    *)
(*                                                                         *)
(*   client                         server                                 *)
(*   REQUEST   PAY SYN         ->   LISTEN                                 *)
(*             <-     PAY SYN ACK   RESPOND                                *)
(*   PARTOPEN  PAY ACK ANK     ->   RESPOND                                *)
(*   OPEN      <-     PAY ACK ANK   OPEN                                   *)
(*   ...                                                                   *)
(*   CLOSING   PAY FIN         ->   OPEN or CLOSEREQ                       *)
(*             <-     PAY FIN ACK   CLOSED                                 *)
(*                                                                         *)
(* Payload ids count from the random host_id of the peer that sends them.  *)
(* In OPEN a packet is only what the handshake and the teardown see of it; *)
(* module Resend is about the rest.  The peers agree on the token and the  *)
(* one method of congestion control, so these are left out, and so are     *)
(* DTLS and the windows.                                                   *)
(***************************************************************************)
EXTENDS Integers, FiniteSets

CONSTANTS
  MaxAttempts,     \* max_connection_attempts of client and server
  MaxPkt,          \* bound: payload packets of a peer
  MaxLoss,         \* bound: packets lost
  Duplication,     \* may the network deliver packets more than once, and late?
  Patient,         \* do packets arrive before any timer expires?
  CloseRequests,   \* may the server be told to terminate (vs_request_terminate)?
  Scales,          \* the scales of the flow control window the server may have
  FcMethods,       \* the methods of flow control the server may have
  Compressions     \* the compressions of commands a client may ask for

ASSUME UdpAssumption ==
  /\ MaxAttempts \in Nat \ {0} /\ MaxPkt \in Nat /\ MaxLoss \in Nat
  /\ {Duplication, Patient, CloseRequests} \subseteq BOOLEAN
  /\ Scales \subseteq Nat

NoId     == -1
RESERVED == "RESERVED"

VARIABLES
  conf,      \* configuration: scale and fc of the server, cmpr of the client
  \* the client
  c_loop,    \* the loop function that runs, DONE after the last
  c_state,   \* host_state
  c_pc,      \* what the loop does next: send, ack (send, and acknowledge the
             \* payload packet in r_packet, whose field acked is 0) or wait
  c_att,     \* attempts in the state
  c_count,   \* count_s_pay
  c_last,    \* last_r_pay
  c_rack,    \* what the first command of r_packet acknowledges
  c_par,     \* negotiated parameters
  c_exit,    \* how it ended: ok, or the loop that returned STATE_EXIT_ERROR
  \* the server's thread
  s_run,     \* does it run?
  s_state,   \* host_state
  s_next,    \* the state the running handler is about to switch to
  s_att,     \* attempts per state
  s_count,   \* count_s_pay
  s_last,    \* last_r_pay
  s_par,     \* negotiated parameters
  s_close,   \* history variable: was termination requested?
  \* the network
  to_client, to_server, losses

clientVars  == <<c_loop, c_state, c_pc, c_att, c_count, c_last, c_rack, c_par, c_exit>>
serverVars  == <<s_run, s_state, s_next, s_att, s_count, s_last, s_par, s_close>>
networkVars == <<to_client, to_server, losses>>
vars == <<conf, clientVars, serverVars, networkVars>>

NoParams == [fc |-> RESERVED, host_scale |-> 0, peer_scale |-> 0,
             host_cmpr |-> RESERVED, peer_cmpr |-> RESERVED]

Init ==
  /\ conf \in [scale : Scales, fc : FcMethods, cmpr : Compressions]
  /\ c_loop = "REQUEST" /\ c_state = "REQUEST" /\ c_pc = "send" /\ c_att = 0
  /\ c_count = 0 /\ c_last = NoId /\ c_rack = NoId
  /\ c_par = NoParams /\ c_exit = "none"
  /\ s_run = TRUE /\ s_state = "LISTEN" /\ s_next = "none"
  /\ s_att = [s \in {"LISTEN", "RESPOND", "CLOSED"} |-> 0]
  /\ s_count = 0 /\ s_last = NoId /\ s_par = NoParams /\ s_close = FALSE
  /\ to_client = {} /\ to_server = {} /\ losses = 0

-----------------------------------------------------------------------------
(* Packets: header flags, payload id, ANK ID, the id acknowledged by the   *)
(* first system command, and the negotiate commands.                       *)

Pkt(flags, pay, ank, ack, neg) ==
  [flags |-> flags, pay |-> pay, ank |-> ank, ack |-> ack, neg |-> neg]

NoNeg == <<>>

(* vc_REQUEST_init_send_packet: the client's scale is 0 (vc_init_ctx).     *)
RequestPacket == Pkt({"PAY", "SYN"}, 0, 0, NoId, [scale |-> 0, cmpr |-> conf.cmpr])

(* vs_LISTEN_init_send_packet with the parameters par of the server.       *)
ResponsePacket(par) ==
  Pkt({"PAY", "SYN", "ACK"}, 0, 0, 0,
      [fc |-> conf.fc, scale |-> conf.scale,
       cmpr_l |-> par.peer_cmpr, cmpr_r |-> par.host_cmpr])

(* vc_PARTOPEN_init_send_packet: the ANK ID comes from whatever packet was *)
(* received last.                                                          *)
PartopenPacket ==
  Pkt({"PAY", "ACK"} \union (IF c_rack # NoId THEN {"ANK"} ELSE {}),
      1, IF c_rack # NoId THEN c_rack ELSE 0, 0,
      [fc |-> c_par.fc, scale |-> c_par.peer_scale])

(* vs_RESPOND_init_send_packet, for a packet of a client in PARTOPEN.      *)
ReplyPacket == Pkt({"PAY", "ACK", "ANK"}, 1, 0, 1, NoNeg)

(* Mutant: the FIN flag is not set in the CLOSEREQ state.                  *)
DataPacket_NoFin(pay, ack, fin) ==
  Pkt((IF pay # NoId THEN {"PAY"} ELSE {}) \union (IF ack # NoId THEN {"ACK"} ELSE {})
        \union {"ANK"},
      pay, 0, ack, NoNeg)

(***************************************************************************)
(* send_packet_in_OPEN_CLOSEREQ_state: payload (with the id count) or only *)
(* an acknowledgment.  As long as the client is in PARTOPEN, the first ACK *)
(* command of the server's vector is the one vs_OPEN_init put there and    *)
(* the ANK ID is the one of ReplyPacket; later nobody looks at them.       *)
(***************************************************************************)
DataPacket(pay, ack, fin) ==
  Pkt((IF pay # NoId THEN {"PAY"} ELSE {}) \union (IF ack # NoId THEN {"ACK"} ELSE {})
        \union {"ANK"} \union (IF fin THEN {"FIN"} ELSE {}),
      pay, 0, ack, NoNeg)

(* vc_CLOSING_init_send_packet and vs_CLOSED_init_send_packet.             *)
FinPacket(pay)         == Pkt({"PAY", "FIN"}, pay, 0, NoId, NoNeg)
FinAckPacket(pay, ack) == Pkt({"PAY", "FIN", "ACK"}, pay, 0, ack, NoNeg)

(* vs_LISTEN_CHANGE_L_cb and vs_LISTEN_CHANGE_R_cb.                        *)
ServerProposed(par, neg) ==
  [par EXCEPT !.peer_scale = neg.scale, !.peer_cmpr = neg.cmpr, !.host_cmpr = neg.cmpr]

(* vs_RESPOND_CONFIRM_L_cb and vs_RESPOND_CONFIRM_R_cb.                    *)
ServerConfirmed(par, neg) ==
  [par EXCEPT !.fc = neg.fc, !.host_scale = IF neg.scale # 0 THEN conf.scale ELSE @]

(* Mutant: the proposed scale is taken for the client's own.               *)
ClientNegotiated_OwnScale(par, neg) ==
  [par EXCEPT !.fc = neg.fc, !.host_scale = neg.scale,
              !.host_cmpr = neg.cmpr_l, !.peer_cmpr = neg.cmpr_r]

(* The callbacks vc_REQUEST_*_cb.                                          *)
ClientNegotiated(par, neg) ==
  [par EXCEPT !.fc = neg.fc, !.peer_scale = neg.scale,
              !.host_cmpr = neg.cmpr_l, !.peer_cmpr = neg.cmpr_r]

-----------------------------------------------------------------------------
(* The network (not part of the repository).                               *)

Taken(net, p) == IF Duplication THEN net ELSE net \ {p}

Lose ==
  /\ losses < MaxLoss
  /\ \/ \E p \in to_client : to_client' = to_client \ {p} /\ UNCHANGED to_server
     \/ \E p \in to_server : to_server' = to_server \ {p} /\ UNCHANGED to_client
  /\ losses' = losses + 1
  /\ UNCHANGED <<conf, clientVars, serverVars>>

Quiet == to_client = {} /\ to_server = {}

-----------------------------------------------------------------------------
(* The client.                                                             *)

ClientSends(p, pc) ==
  /\ to_server' = to_server \union {p}
  /\ c_pc' = pc
  /\ UNCHANGED <<conf, c_loop, c_att, c_last, c_rack, c_par, c_exit, serverVars,
                 to_client, losses>>

(* vc_send_packet sets the counter according to the state.                 *)
SendRequest ==
  /\ c_loop = "REQUEST" /\ c_pc = "send"
  /\ ClientSends(RequestPacket, "wait")
  /\ c_count' = 1
  /\ UNCHANGED c_state

SendPartopen ==
  /\ c_loop = "PARTOPEN" /\ c_pc = "send"
  /\ ClientSends(PartopenPacket, "wait")
  /\ c_count' = 2
  /\ UNCHANGED c_state

(***************************************************************************)
(* vc_OPEN_send_packet: payload packets, a keep alive packet, only an      *)
(* acknowledgment of the packet received last, or nothing.  The command to *)
(* terminate, when it is taken from the queue, changes the state; the      *)
(* packet is sent all the same.  If it was full, another one follows, now  *)
(* with the FIN flag, because CLOSING is the number that CLOSEREQ is at    *)
(* the server.                                                             *)
(***************************************************************************)
SendPayload ==
  /\ c_loop = "OPEN" /\ c_pc \in {"send", "ack"}
  /\ c_count < MaxPkt
  /\ Patient => Quiet
  /\ \E pc \in {"wait", "send"} :
       ClientSends(DataPacket(c_count, 1, c_state = "CLOSING"), pc)
  /\ c_count' = c_count + 1
  /\ c_state' \in {c_state, "CLOSING"}

SendAckOnly ==
  /\ c_loop = "OPEN" /\ c_pc = "ack"
  /\ ClientSends(DataPacket(NoId, 1, FALSE), "wait")
  /\ UNCHANGED <<c_state, c_count>>

SendNothing ==
  /\ c_loop = "OPEN" /\ c_pc = "send"
  /\ c_pc' = "wait"
  /\ UNCHANGED <<conf, c_loop, c_state, c_att, c_count, c_last, c_rack, c_par, c_exit,
                 serverVars, networkVars>>

SendFin ==
  /\ c_loop = "CLOSING" /\ c_pc = "send"
  /\ ClientSends(FinPacket(c_count), "wait")
  /\ UNCHANGED <<c_state, c_count>>

(* The next round of a loop that counts its attempts, or its failure.      *)
NextAttempt ==
  /\ c_att' = c_att + 1
  /\ IF c_att + 1 < MaxAttempts
     THEN c_pc' = "send" /\ UNCHANGED <<c_loop, c_exit>>
     ELSE c_loop' = "DONE" /\ c_exit' = c_loop /\ UNCHANGED c_pc

EnterLoop(loop) ==
  /\ c_loop' = loop /\ c_state' = loop
  /\ c_att' = 0 /\ c_pc' = IF loop = "OPEN" THEN "ack" ELSE "send"
  /\ UNCHANGED c_exit

(* vc_receive_and_handle_packet puts every packet into r_packet.           *)
ClientTakes(p) ==
  /\ c_pc = "wait"
  /\ p \in to_client
  /\ to_client' = Taken(to_client, p)
  /\ c_rack' = p.ack
  /\ UNCHANGED <<conf, c_count, serverVars, to_server, losses>>

(* vc_REQUEST_handle_packet and vc_REQUEST_loop.                           *)
ReceiveInRequest(p) ==
  /\ c_loop = "REQUEST"
  /\ ClientTakes(p)
  /\ IF p.flags = {"PAY", "ACK", "SYN"} /\ p.ack = 0
     THEN /\ EnterLoop("PARTOPEN")
          /\ c_par' = ClientNegotiated(c_par, p.neg)
          /\ c_last' = p.pay
     ELSE NextAttempt /\ UNCHANGED <<c_state, c_par, c_last>>

(* Mutant: the flags of the packet are not checked.                        *)
AcceptsReply_AnyFlags(p) == p.pay \in 0..1 /\ p.ank = 0

(* The condition of vc_PARTOPEN_handle_packet.                             *)
AcceptsReply(p) ==
  /\ p.flags = {"PAY", "ACK", "ANK"}
  /\ p.pay = 1 /\ p.ank = 0 /\ p.ack = 1

(* vc_PARTOPEN_handle_packet and vc_PARTOPEN_loop.                         *)
ReceiveInPartopen(p) ==
  /\ c_loop = "PARTOPEN"
  /\ ClientTakes(p)
  /\ IF AcceptsReply(p)
     THEN EnterLoop("OPEN") /\ c_last' = p.pay
     ELSE NextAttempt /\ UNCHANGED <<c_state, c_last>>
  /\ UNCHANGED c_par

(* The loop ends when the state is not OPEN any more.                      *)
NextOpenRound(state, pc) ==
  IF state = "OPEN"
  THEN c_pc' = pc /\ c_state' = state /\ UNCHANGED <<c_loop, c_att, c_exit>>
  ELSE EnterLoop("CLOSING")

(* vc_OPEN_handle_packet and vc_OPEN_loop: late packets are dropped.       *)
ReceiveInOpen(p) ==
  /\ c_loop = "OPEN"
  /\ ClientTakes(p)
  /\ LET late == "PAY" \in p.flags /\ p.pay <= c_last
         new  == "PAY" \in p.flags /\ ~late
     IN  /\ c_last' = IF new THEN p.pay ELSE c_last
         /\ NextOpenRound(IF "FIN" \in p.flags /\ ~late THEN "CLOSING" ELSE c_state,
                          IF new THEN "ack" ELSE "send")
  /\ UNCHANGED c_par

(* Mutant: any packet with the FIN flag ends the teardown.                 *)
AcceptsFin_Any(p) == "FIN" \in p.flags

(* The condition of vc_CLOSING_handle_packet.                              *)
AcceptsFin(p) == p.flags = {"PAY", "ACK", "FIN"} /\ p.ack = c_count

(* vc_CLOSING_handle_packet and vc_CLOSING_loop.                           *)
ReceiveInClosing(p) ==
  /\ c_loop = "CLOSING"
  /\ ClientTakes(p)
  /\ IF AcceptsFin(p)
     THEN /\ c_state' = "CLOSED" /\ c_loop' = "DONE" /\ c_exit' = "ok"
          /\ c_last' = p.pay
          /\ UNCHANGED <<c_pc, c_att>>
     ELSE NextAttempt /\ UNCHANGED <<c_state, c_last>>
  /\ UNCHANGED c_par

(* select() times out in vc_receive_and_handle_packet.                     *)
AttemptTimeout ==
  /\ c_loop \in {"REQUEST", "PARTOPEN", "CLOSING"} /\ c_pc = "wait"
  /\ Patient => Quiet
  /\ NextAttempt
  /\ UNCHANGED <<conf, c_state, c_count, c_last, c_rack, c_par, serverVars, networkVars>>

(* The same in vc_OPEN_loop: a wait of 10 ms ...                           *)
OpenTimeout ==
  /\ c_loop = "OPEN" /\ c_pc = "wait"
  /\ NextOpenRound(c_state, "send")
  /\ UNCHANGED <<conf, c_count, c_last, c_rack, c_par, serverVars, networkVars>>

(* ... or VRS_TIMEOUT since the last payload packet.                       *)
OpenDead ==
  /\ c_loop = "OPEN" /\ c_pc = "wait"
  /\ Patient => to_client = {} /\ ~s_run
  /\ c_loop' = "DONE" /\ c_exit' = "OPEN"
  /\ UNCHANGED <<conf, c_state, c_pc, c_att, c_count, c_last, c_rack, c_par,
                 serverVars, networkVars>>

(* The socket of the server is closed: ECONNREFUSED ends every loop.       *)
ClientRefused ==
  /\ c_loop # "DONE" /\ c_pc = "wait" /\ ~s_run
  /\ c_loop' = "DONE" /\ c_exit' = c_loop
  /\ UNCHANGED <<conf, c_state, c_pc, c_att, c_count, c_last, c_rack, c_par,
                 serverVars, networkVars>>

-----------------------------------------------------------------------------
(* The server.  A handler that ends with a change of the state takes two   *)
(* steps, because vs_request_terminate runs in another thread or in a      *)
(* signal handler and changes the state without any lock.                  *)

(* vs_handle_packet: last_r_pay is the id of any packet that was handled.  *)
ServerTakes(p, last) ==
  /\ s_run /\ s_next = "none"
  /\ p \in to_server
  /\ to_server' = Taken(to_server, p)
  /\ s_last' = last
  /\ UNCHANGED <<conf, clientVars, s_run, s_close, losses>>

ServerSends(pkts) == to_client' = to_client \union pkts

(* vs_LISTEN_handle_packet, up to vs_RESPOND_init.                         *)
ServerInListen(p) ==
  /\ s_state = "LISTEN"
  /\ p.flags = {"PAY", "SYN"}
  /\ ServerTakes(p, p.pay)
  /\ s_att' = [s_att EXCEPT !["LISTEN"] = 1]
  /\ s_par' = ServerProposed(s_par, p.neg)
  /\ ServerSends({ResponsePacket(s_par')})
  /\ s_count' = 1
  /\ s_next' = "RESPOND"
  /\ UNCHANGED s_state

(* Mutant: one attempt more than the limit.                                *)
ServerRepeatsResponse_OneMore(p) ==
  /\ s_state = "RESPOND"
  /\ p.flags = {"PAY", "SYN"} /\ p.pay = 0
  /\ s_att["LISTEN"] <= MaxAttempts
  /\ ServerTakes(p, p.pay)
  /\ s_att' = [s_att EXCEPT !["LISTEN"] = @ + 1]
  /\ s_par' = ServerProposed(s_par, p.neg)
  /\ ServerSends({ResponsePacket(s_par')})
  /\ s_count' = 2
  /\ UNCHANGED <<s_state, s_next>>

(* vs_RESPOND_handle_packet for a repeated packet of a client in REQUEST.  *)
ServerRepeatsResponse(p) ==
  /\ s_state = "RESPOND"
  /\ p.flags = {"PAY", "SYN"} /\ p.pay = 0
  /\ s_att["LISTEN"] < MaxAttempts
  /\ ServerTakes(p, p.pay)
  /\ s_att' = [s_att EXCEPT !["LISTEN"] = @ + 1]
  /\ s_par' = ServerProposed(s_par, p.neg)
  /\ ServerSends({ResponsePacket(s_par')})
  /\ s_count' = 2
  /\ UNCHANGED <<s_state, s_next>>

FromPartopen(p) ==
  p.flags = {"PAY", "ACK", "ANK"} /\ p.pay = 1 /\ p.ank = 0 /\ p.ack = 0

(* vs_RESPOND_handle_packet for a client in PARTOPEN, up to vs_OPEN_init.  *)
ServerInRespond(p) ==
  /\ s_state = "RESPOND"
  /\ FromPartopen(p)
  /\ ServerTakes(p, p.pay)
  /\ s_att' = [s_att EXCEPT !["RESPOND"] = 1]
  /\ s_par' = ServerConfirmed(s_par, p.neg)
  /\ ServerSends({ReplyPacket})
  /\ s_count' = 2
  /\ s_next' = "OPEN"
  /\ UNCHANGED s_state

(* vs_RESPOND_init and vs_OPEN_init set the state.                         *)
ServerSwitch ==
  /\ s_next # "none"
  /\ s_state' = s_next
  /\ s_next' = "none"
  /\ UNCHANGED <<conf, clientVars, s_run, s_att, s_count, s_last, s_par, s_close, networkVars>>

(* Mutant: the counter starts again, as in the RESPOND state.              *)
ServerRepeatsReply_Restart(p) ==
  /\ s_state \in {"OPEN", "CLOSEREQ"}
  /\ FromPartopen(p)
  /\ s_att["RESPOND"] < MaxAttempts
  /\ ServerTakes(p, p.pay)
  /\ s_att' = [s_att EXCEPT !["RESPOND"] = @ + 1]
  /\ s_par' = ServerConfirmed(s_par, p.neg)
  /\ ServerSends({ReplyPacket})
  /\ s_count' = 2
  /\ UNCHANGED <<s_state, s_next>>

(* vs_OPEN_CLOSEREQ_handle_packet for a client that is still in PARTOPEN.  *)
ServerRepeatsReply(p) ==
  /\ s_state \in {"OPEN", "CLOSEREQ"}
  /\ FromPartopen(p)
  /\ s_att["RESPOND"] < MaxAttempts
  /\ ServerTakes(p, p.pay)
  /\ s_att' = [s_att EXCEPT !["RESPOND"] = @ + 1]
  /\ s_par' = ServerConfirmed(s_par, p.neg)
  /\ ServerSends({ReplyPacket})
  /\ s_count' = s_count + 1
  /\ UNCHANGED <<s_state, s_next>>

(* The same for a client in CLOSING: vs_CLOSED_init.                       *)
ServerClosedByFin(p) ==
  /\ s_state \in {"OPEN", "CLOSEREQ"}
  /\ {"PAY", "FIN"} \subseteq p.flags
  /\ ServerTakes(p, p.pay)
  /\ s_state' = "CLOSED"
  /\ s_att' = [s_att EXCEPT !["CLOSED"] = 1]
  /\ ServerSends({FinAckPacket(s_count, p.pay)})
  /\ UNCHANGED <<s_next, s_count, s_par>>

(***************************************************************************)
(* The rest of vs_OPEN_CLOSEREQ_handle_packet: a packet of the OPEN state, *)
(* or one that comes too late.  The server answers with payload, if it has *)
(* any, and at least acknowledges a payload packet.  In CLOSEREQ the FIN   *)
(* flag is set.                                                            *)
(***************************************************************************)
ServerInOpen(p) ==
  /\ s_state \in {"OPEN", "CLOSEREQ"}
  /\ ~FromPartopen(p) /\ ~({"PAY", "FIN"} \subseteq p.flags)
  /\ ServerTakes(p, IF "PAY" \in p.flags THEN p.pay ELSE s_last)
  /\ LET fin == s_state = "CLOSEREQ"
     IN  \/ /\ s_count < MaxPkt
            /\ \E ack \in {1, NoId} : ServerSends({DataPacket(s_count, ack, fin)})
            /\ s_count' = s_count + 1
         \/ /\ "PAY" \in p.flags
            /\ ServerSends({DataPacket(NoId, 1, fin)})
            /\ UNCHANGED s_count
         \/ /\ "PAY" \notin p.flags \/ p.pay <= s_last
            /\ UNCHANGED <<to_client, s_count>>
  /\ UNCHANGED <<s_state, s_next, s_att, s_par>>

(* vs_main_dgram_loop sends payload or keep alive packets, in OPEN only.   *)
ServerTick ==
  /\ s_run /\ s_next = "none" /\ s_state = "OPEN"
  /\ s_count < MaxPkt
  /\ \E ack \in {1, NoId} : ServerSends({DataPacket(s_count, ack, FALSE)})
  /\ s_count' = s_count + 1
  /\ UNCHANGED <<conf, clientVars, s_run, s_state, s_next, s_att, s_last, s_par, s_close,
                 to_server, losses>>

(* vs_CLOSED_handle_packet: any payload packet is answered.                *)
ServerInClosed(p) ==
  /\ s_state = "CLOSED"
  /\ p.flags \intersect {"PAY", "FIN"} # {}
  /\ s_att["CLOSED"] < MaxAttempts
  /\ ServerTakes(p, s_last)
  /\ s_att' = [s_att EXCEPT !["CLOSED"] = @ + 1]
  /\ ServerSends({FinAckPacket(s_count, p.pay)})
  /\ UNCHANGED <<s_state, s_next, s_count, s_par>>

(***************************************************************************)
(* Does the handler of the state accept the packet?  One attempt too many  *)
(* takes the server back to its loop (to the label hello), like a packet   *)
(* it does not expect.                                                     *)
(***************************************************************************)
Handled(p) ==
  LET attemptsLeft(s) == s_att[s] < MaxAttempts
  IN  \/ s_state = "LISTEN" /\ p.flags = {"PAY", "SYN"}
      \/ /\ s_state = "RESPOND"
         /\ FromPartopen(p) \/ (p.flags = {"PAY", "SYN"} /\ attemptsLeft("LISTEN"))
      \/ /\ s_state \in {"OPEN", "CLOSEREQ"}
         /\ FromPartopen(p) => attemptsLeft("RESPOND")
      \/ /\ s_state = "CLOSED"
         /\ p.flags \intersect {"PAY", "FIN"} # {} /\ attemptsLeft("CLOSED")

ServerDrops(p) ==
  /\ ~Handled(p)
  /\ ServerTakes(p, s_last)
  /\ UNCHANGED <<s_state, s_next, s_att, s_count, s_par, to_client>>

(* vs_request_terminate and vs_close_dgram_conn, at any moment.  (The      *)
(* bound on c_count leaves a patient client the packets it needs.)         *)
RequestTerminate ==
  /\ CloseRequests /\ ~s_close
  /\ Patient => c_count + MaxLoss + 1 <= MaxPkt
  /\ s_run /\ s_state # "CLOSED"
  /\ s_state' = "CLOSEREQ"
  /\ s_close' = TRUE
  /\ UNCHANGED <<conf, clientVars, s_run, s_next, s_att, s_count, s_last, s_par, networkVars>>

(* The thread ends after VRS_TIMEOUT, or because the client's port is      *)
(* closed (ECONNREFUSED), and vs_clear_vconn resets the connection.        *)
ServerEnds ==
  /\ s_run /\ s_next = "none"
  /\ Patient => c_loop = "DONE" /\ to_server = {}
  /\ s_run' = FALSE /\ s_state' = "CLOSED"
  /\ s_count' = 0 /\ s_last' = NoId /\ s_par' = NoParams
  /\ s_att' = [s \in DOMAIN s_att |-> 0]
  /\ UNCHANGED <<conf, clientVars, s_next, s_close, networkVars>>

-----------------------------------------------------------------------------
ClientSend == SendRequest \/ SendPartopen \/ SendAckOnly \/ SendNothing \/ SendFin

ClientReceive ==
  \E p \in to_client :
    ReceiveInRequest(p) \/ ReceiveInPartopen(p) \/ ReceiveInOpen(p) \/ ReceiveInClosing(p)

ServerReceive ==
  \E p \in to_server :
    \/ ServerInListen(p) \/ ServerRepeatsResponse(p) \/ ServerInRespond(p)
    \/ ServerRepeatsReply(p) \/ ServerClosedByFin(p) \/ ServerInOpen(p)
    \/ ServerInClosed(p) \/ ServerDrops(p)

Next ==
  \/ ClientSend \/ SendPayload \/ ClientReceive
  \/ AttemptTimeout \/ OpenTimeout \/ OpenDead \/ ClientRefused
  \/ ServerReceive \/ ServerSwitch \/ ServerTick \/ RequestTerminate \/ ServerEnds
  \/ Lose

Spec == Init /\ [][Next]_vars

(***************************************************************************)
(* Both threads run their loops, select() returns a packet that is there,  *)
(* timeouts expire.  The client sends a keep alive packet when             *)
(* RESEND_TIMEOUT is over, however often it had nothing to send before.    *)
(***************************************************************************)
Fairness ==
  /\ WF_vars(ClientSend) /\ SF_vars(SendPayload) /\ SF_vars(ClientReceive)
  /\ WF_vars(AttemptTimeout) /\ WF_vars(OpenTimeout) /\ WF_vars(OpenDead) /\ WF_vars(ClientRefused)
  /\ WF_vars(ServerReceive) /\ WF_vars(ServerSwitch) /\ WF_vars(ServerEnds)

FairSpec == Spec /\ Fairness

-----------------------------------------------------------------------------
Params == [fc : FcMethods \union {RESERVED}, host_scale : Nat, peer_scale : Nat,
           host_cmpr : Compressions \union {RESERVED},
           peer_cmpr : Compressions \union {RESERVED}]

(* The types of the variables: counters of packets, attempts and losses    *)
(* stay within their bounds, parameters are ones that somebody proposed.   *)
TypeOK ==
  /\ conf \in [scale : Scales, fc : FcMethods, cmpr : Compressions]
  /\ c_loop \in {"REQUEST", "PARTOPEN", "OPEN", "CLOSING", "DONE"}
  /\ c_state \in {"REQUEST", "PARTOPEN", "OPEN", "CLOSING", "CLOSED"}
  /\ c_pc \in {"send", "ack", "wait"}
  /\ c_att \in 0..MaxAttempts
  /\ c_count \in Nat /\ c_last \in Nat \union {NoId} /\ c_rack \in Nat \union {NoId}
  /\ c_par \in Params
  /\ c_exit \in {"none", "ok", "REQUEST", "PARTOPEN", "OPEN", "CLOSING"}
  /\ s_run \in BOOLEAN /\ s_close \in BOOLEAN
  /\ s_state \in {"LISTEN", "RESPOND", "OPEN", "CLOSEREQ", "CLOSED"}
  /\ s_next \in {"none", "RESPOND", "OPEN"}
  /\ s_att \in [{"LISTEN", "RESPOND", "CLOSED"} -> 0..MaxAttempts]
  /\ s_count \in Nat /\ s_last \in Nat \union {NoId}
  /\ s_par \in Params
  /\ losses \in 0..MaxLoss

(***************************************************************************)
(* The three way handshake: a client is in its OPEN or CLOSING loop only   *)
(* when the server has gone through RESPOND as well (vc_PARTOPEN_loop,     *)
(* vs_RESPOND_handle_packet), whatever was lost, repeated or late.         *)
(***************************************************************************)
OpenTogether ==
  c_loop \in {"OPEN", "CLOSING"} /\ s_run =>
    s_state \in {"OPEN", "CLOSEREQ", "CLOSED"} \/ s_next = "OPEN"

(***************************************************************************)
(* A peer that is OPEN expects payload ids its peer did not use yet or     *)
(* has just used: last_r_pay is below count_s_pay of the other side, also  *)
(* when packets of the handshake were repeated (vc_send_packet,            *)
(* vs_send_packet, which restart and increment the counter per state).     *)
(* Otherwise all new payload would be dropped as late.                     *)
(***************************************************************************)
LastIsSent ==
  /\ c_loop = "OPEN" /\ s_run => c_last < s_count
  /\ s_state = "OPEN" => s_last < c_count

(***************************************************************************)
(* When both peers are OPEN they have the same method of flow control, and *)
(* each knows the scale of the window and the compression of the other     *)
(* one: the callbacks of LISTEN, REQUEST and RESPOND agree.                *)
(***************************************************************************)
NegotiatedAgree ==
  c_loop = "OPEN" /\ s_state = "OPEN" =>
    /\ c_par.fc = s_par.fc
    /\ c_par.peer_scale = s_par.host_scale /\ c_par.host_scale = s_par.peer_scale
    /\ c_par.peer_cmpr = s_par.host_cmpr /\ c_par.host_cmpr = s_par.peer_cmpr

(***************************************************************************)
(* A client that reports a regular end (vc_CLOSING_loop without error) has *)
(* the answer to its own FIN packet: the server is CLOSED.                 *)
(***************************************************************************)
TeardownComplete == c_exit = "ok" => s_state = "CLOSED"

(***************************************************************************)
(* A teardown that was begun by either side ends: the client leaves its    *)
(* last loop, and the server's thread then ends by a refused packet or     *)
(* after VRS_TIMEOUT in the state CLOSED, although packets are lost.  (A   *)
(* handler that is about to switch the state undoes the request.)          *)
(***************************************************************************)
BothEnd ==
  (c_state = "CLOSING" \/ (s_state = "CLOSEREQ" /\ s_next = "none"))
    ~> (c_loop = "DONE" /\ ~s_run)
=============================================================================
