------------------------------- MODULE Resend -------------------------------
(***************************************************************************)
(* The resend mechanism of an open Verse datagram (UDP) connection:        *)
(* v_resend_mechanism.c with the history of sent packets and the history   *)
(* of ACK and NAK commands of v_history.c.                                 *)
(*                                                                         *)
(* One direction of the data flow is modelled: a sender with its queue of  *)
(* outgoing commands and its history of sent packets, and a receiver with  *)
(* its vector of ACK and NAK commands.  The other direction runs the same  *)
(* code on its own variables.  Both directions share packets, but a packet *)
(* that is too late for the one is as good as lost for the other.          *)
(*                                                                         *)
(* A command is a key (its opcode and what it addresses) and a version     *)
(* that tells apart successive commands of one key.  The flag REM_DUP of   *)
(* cmd_struct marks the commands of ReplaceKeys: a newer one makes an      *)
(* older one obsolete.  Tag values have it, layer values, locks, links and *)
(* permissions do not.  AckKeys are the create and destroy commands        *)
(* (v_cmd_fake_ack); there is one command for each of them, because the id *)
(* it creates or destroys is part of the key here.  The queue and the      *)
(* history are taken as sets.  Payload ids are counted from the host_id of *)
(* the sender: the handshake used up ids 0 and 1.                          *)
(***************************************************************************)
EXTENDS AckNak, FiniteSets

CONSTANTS
  Keys,             \* opcode and address of the commands
  ReplaceKeys,      \* the keys of commands with the REM_DUP flag
  AckKeys,          \* the keys of create and destroy commands
  MaxVer,           \* bound: how many commands are issued for another key
  MaxPkt,           \* bound: the largest payload id that is used
  ReceiverIsServer, \* which peer receives (TRUE: client to server data flow)
  SendErrors,       \* may v_send_packet fail?
  Duplication,      \* may the network deliver a packet more than once?
  MaxAcks,          \* bound: packets without payload in flight, of either kind
  MaxLoss,          \* bound: packets lost by a network that duplicates none
  PatientTimer      \* is RESEND_TIMEOUT longer than packets stay in flight?

ASSUME ResendAssumption ==
  /\ ReplaceKeys \subseteq Keys /\ AckKeys \subseteq Keys
  /\ MaxVer \in Nat \ {0}
  /\ MaxPkt \in Nat \ {0}
  /\ MaxAcks \in Nat
  /\ MaxLoss \in Nat
  /\ {ReceiverIsServer, SendErrors, Duplication, PatientTimer} \subseteq BOOLEAN

Command == [key : Keys, ver : 1..MaxVer]

VARIABLES
  \* the sending peer
  pushed,         \* number of commands issued per key
  out_queue,      \* commands waiting to be sent
  packet_history, \* the sent commands that are neither acknowledged nor obsolete
  count_s_pay,    \* the next payload id
  ank_id,         \* the last acknowledged payload id
  sent_size,      \* size of data sent and not acknowledged (one unit per command)
  fake_acks,      \* commands reported to the server as received by the client
  \* the receiving peer
  last_r_pay,     \* id of the last received payload packet
  ack_nak,        \* its vector of ACK and NAK commands
  received,       \* history variable: ids of the packets whose commands were taken
  got,            \* how often a command was put to the queue of incoming commands
  value,          \* the version of a key the receiver saw last
  \* the network
  wire,           \* all payload packets that were ever sent
  gone,           \* ids of packets that will not arrive (again)
  ank_wire,       \* ANK IDs in flight in packets without payload
  ack_wire,       \* vectors of ACK and NAK commands in flight
  losses          \* number of packets lost so far

senderVars   == <<pushed, out_queue, packet_history, count_s_pay, ank_id,
                  sent_size, fake_acks>>
receiverVars == <<last_r_pay, ack_nak, received, got, value>>
networkVars  == <<wire, gone, ank_wire, ack_wire, losses>>
vars == <<senderVars, receiverVars, networkVars>>

Packet == [id : 0..MaxPkt, cmds : SUBSET Command, ank : Nat]
SentCommand == [pkt : 0..MaxPkt, cmd : Command]

(***************************************************************************)
(* Both peers enter the OPEN state: payload ids 0 and 1 were used by the   *)
(* handshake, the receiver put an ACK of the second one into its vector    *)
(* (vs_OPEN_init, vc_OPEN_loop), and the sender had an ACK of the first.   *)
(***************************************************************************)
Init ==
  /\ pushed = [k \in Keys |-> 0]
  /\ out_queue = {}
  /\ packet_history = {}
  /\ count_s_pay = 2
  /\ ank_id = 0
  /\ sent_size = 0
  /\ fake_acks = {}
  /\ last_r_pay = 1
  /\ ack_nak = <<Cmd(ACK, 1)>>
  /\ received = {0, 1}
  /\ got = [c \in Command |-> 0]
  /\ value = [k \in Keys |-> 0]
  /\ wire = {}
  /\ gone = {}
  /\ ank_wire = {}
  /\ ack_wire = {}
  /\ losses = 0

-----------------------------------------------------------------------------
(* The sending peer.                                                       *)

(* Does a command of this set make command c obsolete?                     *)
Obsolete(c, newer) ==
  c.key \in ReplaceKeys /\ \E d \in newer : d.key = c.key

(***************************************************************************)
(* v_out_queue_push_tail: the application issues a command.  An older      *)
(* command with the same key that still waits in the queue is replaced,    *)
(* when the key is one of ReplaceKeys.                                     *)
(***************************************************************************)
PushCmd(k) ==
  /\ pushed[k] < IF k \in AckKeys THEN 1 ELSE MaxVer
  /\ LET cmd == [key |-> k, ver |-> pushed[k] + 1]
     IN  out_queue' = {c \in out_queue : ~Obsolete(c, {cmd})} \union {cmd}
  /\ pushed' = [pushed EXCEPT ![k] = @ + 1]
  /\ UNCHANGED <<packet_history, count_s_pay, ank_id, sent_size, fake_acks,
                 receiverVars, networkVars>>

(* Mutant: a newer command leaves the older one in the history.            *)
AddToHistory_KeepObsolete(id, cmds) ==
  packet_history \union {[pkt |-> id, cmd |-> c] : c \in cmds}

(***************************************************************************)
(* v_packet_history_add_cmd for the commands of a packet: what they make   *)
(* obsolete leaves the history, so that it is never sent again.            *)
(***************************************************************************)
AddToHistory(id, cmds) ==
  {s \in packet_history : ~Obsolete(s.cmd, cmds)}
    \union {[pkt |-> id, cmd |-> c] : c \in cmds}

InFlight == {p \in wire : p.id \notin gone}

(* Mutant: no keep alive packets.                                          *)
TimerExpires_Never == FALSE

(***************************************************************************)
(* check_pay_flag and pack_prio_queue: with commands to send any selection *)
(* of them leaves the queue (priorities, the windows and the MTU decide    *)
(* which); without, an empty keep alive packet is sent when RESEND_TIMEOUT *)
(* expires.  A patient timer expires only when the network is idle and     *)
(* the last packets of the history did not arrive.  The commands of a key  *)
(* have one priority, so a command that was not sent before waits behind   *)
(* the older ones of its key.                                              *)
(***************************************************************************)
TimerExpires ==
  PatientTimer =>
    /\ InFlight = {}
    /\ \E s \in packet_history : s.pkt > last_r_pay

MaySend(cmds) ==
  /\ count_s_pay <= MaxPkt
  /\ cmds \subseteq out_queue
  /\ \A c \in cmds, d \in out_queue \ cmds :
       d.key = c.key /\ d.ver < c.ver => \E p \in wire : c \in p.cmds
  /\ IF out_queue = {} THEN TimerExpires ELSE PatientTimer => cmds # {}

(* Mutant: the counter of payload packets is incremented for both flags.   *)
SendPacket_CountTwice(cmds) ==
  /\ MaySend(cmds)
  /\ out_queue' = out_queue \ cmds
  /\ packet_history' = AddToHistory(count_s_pay, cmds)
  /\ sent_size' = sent_size + Cardinality(cmds)
  /\ wire' = wire \union {[id |-> count_s_pay, cmds |-> cmds, ank |-> ank_id]}
  /\ count_s_pay' = count_s_pay + 2
  /\ UNCHANGED <<pushed, ank_id, fake_acks, receiverVars, gone, ank_wire,
                 ack_wire, losses>>

(* Mutant: sent_size is not updated.                                       *)
SendPacket_NoSize(cmds) ==
  /\ MaySend(cmds)
  /\ out_queue' = out_queue \ cmds
  /\ packet_history' = AddToHistory(count_s_pay, cmds)
  /\ wire' = wire \union {[id |-> count_s_pay, cmds |-> cmds, ank |-> ank_id]}
  /\ count_s_pay' = count_s_pay + 1
  /\ UNCHANGED <<pushed, ank_id, sent_size, fake_acks, receiverVars, gone,
                 ank_wire, ack_wire, losses>>

(* send_packet_in_OPEN_CLOSEREQ_state, when v_send_packet succeeds.        *)
SendPacket(cmds) ==
  /\ MaySend(cmds)
  /\ out_queue' = out_queue \ cmds
  /\ packet_history' = AddToHistory(count_s_pay, cmds)
  /\ sent_size' = sent_size + Cardinality(cmds)
  /\ wire' = wire \union {[id |-> count_s_pay, cmds |-> cmds, ank |-> ank_id]}
  /\ count_s_pay' = count_s_pay + 1
  /\ UNCHANGED <<pushed, ank_id, fake_acks, receiverVars, gone, ank_wire,
                 ack_wire, losses>>

(* v_cmd_fake_ack: the server learns about its create and destroy commands *)
FakeAcks(cmds) ==
  IF ReceiverIsServer THEN {} ELSE {c \in cmds : c.key \in AckKeys}

(***************************************************************************)
(* send_packet_in_OPEN_CLOSEREQ_state, when v_send_packet fails: the       *)
(* commands went from the queue to the history, and                        *)
(* v_packet_history_rem_packet takes the packet out of it like an          *)
(* acknowledged one.  The payload id is used again.                        *)
(***************************************************************************)
SendPacketError(cmds) ==
  /\ SendErrors
  /\ MaySend(cmds)
  /\ out_queue' = out_queue \ cmds
  /\ packet_history' = {s \in packet_history : ~Obsolete(s.cmd, cmds)}
  /\ fake_acks' = fake_acks \union FakeAcks(cmds)
  /\ UNCHANGED <<pushed, count_s_pay, ank_id, sent_size, receiverVars, networkVars>>

(* Mutant: a NAK removes the packet without queueing its commands.         *)
HandleAckNak_Drop(h) ==
  LET removed == {s \in packet_history : s.pkt \in AckedIds(h) \union NakkedIds(h)}
  IN  /\ packet_history' = packet_history \ removed
      /\ sent_size' = sent_size - Cardinality(removed)
      /\ fake_acks' = fake_acks
           \union FakeAcks({s.cmd : s \in {t \in removed : t.pkt \in AckedIds(h)}})
      /\ ank_id' = LastAcked(h)
      /\ UNCHANGED out_queue

(* Mutant: a NAKed packet is removed before its commands are queued.       *)
HandleAckNak_RemoveFirst(h) ==
  LET removed == {s \in packet_history : s.pkt \in AckedIds(h) \union NakkedIds(h)}
      nakked  == {s \in removed : s.pkt \in NakkedIds(h)}
  IN  /\ out_queue' = out_queue
           \union {s.cmd : s \in {t \in nakked : ~Obsolete(t.cmd, out_queue)}}
      /\ packet_history' = packet_history \ removed
      /\ sent_size' = sent_size - Cardinality(removed)
      /\ fake_acks' = fake_acks \union FakeAcks({s.cmd : s \in removed})
      /\ ank_id' = LastAcked(h)

(***************************************************************************)
(* handle_ack_nak_commands: acknowledged packets leave the history         *)
(* (v_packet_history_rem_packet).  The commands of lost packets go back to *)
(* the queue, unless a newer command of the key waits there already        *)
(* (v_out_queue_push_head), and then their packets leave the history too.  *)
(* sent_size is only reduced for what v_packet_history_rem_packet finds.   *)
(***************************************************************************)
HandleAckNak(h) ==
  LET acked   == {s \in packet_history : s.pkt \in AckedIds(h)}
      nakked  == {s \in packet_history : s.pkt \in NakkedIds(h)}
      resent  == {s \in nakked : ~Obsolete(s.cmd, out_queue)}
      removed == acked \union (nakked \ resent)
  IN  /\ out_queue' = out_queue \union {s.cmd : s \in resent}
      /\ packet_history' = packet_history \ (acked \union nakked)
      /\ sent_size' = sent_size - Cardinality(removed)
      /\ fake_acks' = fake_acks \union FakeAcks({s.cmd : s \in removed})
      /\ ank_id' = LastAcked(h)

ReceiveAck(h) ==
  /\ h \in ack_wire
  /\ HandleAckNak(h)
  /\ ack_wire' = IF Duplication THEN ack_wire ELSE ack_wire \ {h}
  /\ UNCHANGED <<pushed, count_s_pay, receiverVars, wire, gone, ank_wire,
                 losses>>

(***************************************************************************)
(* send_packet_in_OPEN_CLOSEREQ_state at the sender, when it has nothing   *)
(* but an acknowledgment to send for the opposite data flow: such a packet *)
(* carries the ANK ID too.                                                 *)
(***************************************************************************)
SendAnk ==
  /\ Cardinality(ank_wire) < MaxAcks
  /\ ank_wire' = ank_wire \union {ank_id}
  /\ UNCHANGED <<senderVars, receiverVars, wire, gone, ack_wire, losses>>

-----------------------------------------------------------------------------
(* The receiving peer.                                                     *)

Arrived(p) == gone' = IF Duplication THEN gone ELSE gone \union {p.id}

(***************************************************************************)
(* The commands of a packet are taken in the order they were packed.       *)
(* Two commands of a key are only in one packet when REM_DUP is not set;   *)
(* resending may have put the older one behind the newer one.              *)
(***************************************************************************)
Apply(cmds) ==
  /\ value' \in [Keys -> 0..MaxVer]
  /\ \A k \in Keys :
       LET vers == {c.ver : c \in {d \in cmds : d.key = k}}
       IN  value'[k] \in IF vers = {} THEN {value[k]} ELSE vers

(* Mutant: the last received packet does not count as late.                *)
ReceivePacket_NotLate(p) ==
  /\ p \in InFlight
  /\ p.id >= last_r_pay
  /\ ack_nak' = RemoveCmds(AddReceived(ack_nak, last_r_pay, p.id), p.ank)
  /\ last_r_pay' = p.id
  /\ received' = received \union {p.id}
  /\ got' = [c \in Command |-> IF c \in p.cmds THEN got[c] + 1 ELSE got[c]]
  /\ Apply(p.cmds)
  /\ Arrived(p)
  /\ UNCHANGED <<senderVars, wire, ank_wire, ack_wire, losses>>

(***************************************************************************)
(* handle_packet_in_OPEN_state for a payload packet that is not late: note *)
(* the gap before it and the packet itself, take its commands, forget the  *)
(* ACK and NAK commands the sender has seen, and let the caller            *)
(* (vc_receive_and_handle_packet, vs_handle_packet) remember its id.       *)
(***************************************************************************)
ReceivePacket(p) ==
  /\ p \in InFlight
  /\ p.id > last_r_pay
  /\ ack_nak' = RemoveCmds(AddReceived(ack_nak, last_r_pay, p.id), p.ank)
  /\ last_r_pay' = p.id
  /\ received' = received \union {p.id}
  /\ got' = [c \in Command |-> IF c \in p.cmds THEN got[c] + 1 ELSE got[c]]
  /\ Apply(p.cmds)
  /\ Arrived(p)
  /\ UNCHANGED <<senderVars, wire, ank_wire, ack_wire, losses>>

(***************************************************************************)
(* The same for a payload packet that comes late: handle_node_commands     *)
(* drops it.  The client's loop leaves last_r_pay alone.  The server's     *)
(* handler vs_OPEN_CLOSEREQ_handle_packet does not look at the result and  *)
(* reports success, so vs_handle_packet takes over the id.                 *)
(***************************************************************************)
ReceiveUnordered(p) ==
  /\ p \in InFlight
  /\ p.id <= last_r_pay
  /\ last_r_pay' = IF ReceiverIsServer THEN p.id ELSE last_r_pay
  /\ Arrived(p)
  /\ UNCHANGED <<senderVars, ack_nak, received, got, value, wire, ank_wire,
                 ack_wire, losses>>

(***************************************************************************)
(* handle_packet_in_OPEN_state for a packet without payload: only its      *)
(* ANK ID matters here.                                                    *)
(***************************************************************************)
ReceiveAnk(ank) ==
  /\ ank \in ank_wire
  /\ ack_nak' = RemoveCmds(ack_nak, ank)
  /\ ank_wire' = IF Duplication THEN ank_wire ELSE ank_wire \ {ank}
  /\ UNCHANGED <<senderVars, last_r_pay, received, got, value, wire, gone,
                 ack_wire, losses>>

(***************************************************************************)
(* send_packet_in_OPEN_CLOSEREQ_state at the receiver: the vector goes out *)
(* with an acknowledgment packet after a received payload packet, or with  *)
(* a payload or keep alive packet of its own at any time                   *)
(* (check_ack_nak_flag).                                                   *)
(***************************************************************************)
SendAck ==
  /\ Cardinality(ack_wire) < MaxAcks
  /\ ack_nak # <<>>
  /\ ack_wire' = ack_wire \union {ack_nak}
  /\ UNCHANGED <<senderVars, receiverVars, wire, gone, ank_wire,
                 losses>>

-----------------------------------------------------------------------------
(* The network (not part of the repository).  One that duplicates keeps    *)
(* all payload packets, which covers their loss, and any packet without    *)
(* payload for as long as it likes.                                        *)

LosePacket(p) ==
  /\ ~Duplication /\ losses < MaxLoss
  /\ p \in InFlight
  /\ gone' = gone \union {p.id}
  /\ losses' = losses + 1
  /\ UNCHANGED <<senderVars, receiverVars, wire, ank_wire, ack_wire>>

LoseAck(h) ==
  /\ h \in ack_wire
  /\ Duplication \/ losses < MaxLoss
  /\ ack_wire' = ack_wire \ {h}
  /\ losses' = IF Duplication THEN losses ELSE losses + 1
  /\ UNCHANGED <<senderVars, receiverVars, wire, gone, ank_wire>>

LoseAnk(ank) ==
  /\ ank \in ank_wire
  /\ Duplication \/ losses < MaxLoss
  /\ ank_wire' = ank_wire \ {ank}
  /\ losses' = IF Duplication THEN losses ELSE losses + 1
  /\ UNCHANGED <<senderVars, receiverVars, wire, gone, ack_wire>>

-----------------------------------------------------------------------------
SendSome    == \E cmds \in SUBSET out_queue : SendPacket(cmds)
ReceiveSome == \E p \in wire : ReceivePacket(p) \/ ReceiveUnordered(p)
ReceiveAcks == \E h \in ack_wire : ReceiveAck(h)

Next ==
  \/ \E k \in Keys : PushCmd(k)
  \/ SendSome
  \/ \E cmds \in SUBSET out_queue : SendPacketError(cmds)
  \/ ReceiveAcks
  \/ SendAnk
  \/ ReceiveSome
  \/ \E ank \in ank_wire : ReceiveAnk(ank)
  \/ SendAck
  \/ \E p \in wire : LosePacket(p)
  \/ \E h \in ack_wire : LoseAck(h)
  \/ \E ank \in ank_wire : LoseAnk(ank)

Spec == Init /\ [][Next]_vars

(***************************************************************************)
(* Both peers run their send and receive functions in a loop, and a packet *)
(* that is not lost arrives.  Nothing makes the application issue commands *)
(* or the network lose packets.                                            *)
(***************************************************************************)
Fairness ==
  /\ WF_vars(SendSome)
  /\ WF_vars(ReceiveSome)
  /\ WF_vars(ReceiveAcks)
  /\ WF_vars(SendAck)

FairSpec == Spec /\ Fairness

-----------------------------------------------------------------------------
(* The types of the variables; ids, versions and losses stay within their  *)
(* bounds, and only vectors that are not empty are sent.                   *)
TypeOK ==
  /\ pushed \in [Keys -> 0..MaxVer]
  /\ out_queue \subseteq Command
  /\ packet_history \subseteq SentCommand
  /\ count_s_pay \in 2..(MaxPkt + 1)
  /\ ank_id \in Nat
  /\ sent_size \in Int
  /\ fake_acks \subseteq Command
  /\ last_r_pay \in Nat
  /\ ack_nak \in Seq(AckNakCmd)
  /\ received \subseteq Nat
  /\ got \in [Command -> Nat]
  /\ value \in [Keys -> 0..MaxVer]
  /\ wire \subseteq Packet
  /\ gone \subseteq Nat
  /\ ank_wire \subseteq Nat
  /\ ack_wire \subseteq Seq(AckNakCmd) \ {<<>>}
  /\ losses \in 0..MaxLoss

(***************************************************************************)
(* Whatever compression and cutting v_ack_nak_history_add_cmd and          *)
(* v_ack_nak_history_remove_cmds did, and however late, often or out of    *)
(* order it arrives, a vector tells handle_ack_nak_commands the truth:     *)
(* what it acknowledges was received, what it rejects never will be.       *)
(***************************************************************************)
HistoryTruthful ==
  \A h \in ack_wire \union {ack_nak} : Truthful(h, received, last_r_pay)

(***************************************************************************)
(* Resending (handle_ack_nak_commands), duplication and reordering never   *)
(* make the receiver's handle_node_commands take a command twice.          *)
(***************************************************************************)
AtMostOnce == \A c \in Command : got[c] <= 1

(***************************************************************************)
(* A resent command never overwrites the effect of a newer command of the  *)
(* same key: v_packet_history_add_cmd and v_out_queue_push_head keep the   *)
(* older one from being sent again.                                        *)
(***************************************************************************)
NoStaleOverwrite ==
  [][\A k \in ReplaceKeys : value'[k] >= value[k]]_vars

(* Command c was taken by the receiver, or a newer one took its place.     *)
Settled(c) ==
  \/ got[c] > 0
  \/ c.key \in ReplaceKeys /\ pushed[c.key] > c.ver

(***************************************************************************)
(* The sender forgets no command: one that is neither in the queue nor in  *)
(* the history of sent packets was received or replaced by a newer one.    *)
(***************************************************************************)
NothingLost ==
  \A k \in Keys, v \in 1..MaxVer :
    LET c == [key |-> k, ver |-> v]
    IN  v <= pushed[k] =>
          \/ c \in out_queue
          \/ \E s \in packet_history : s.cmd = c
          \/ Settled(c)

(***************************************************************************)
(* v_packet_history_rem_packet tells the server that the client knows of a *)
(* created or destroyed entity only when the client really does.           *)
(***************************************************************************)
FakeAckTruthful == \A c \in fake_acks : got[c] > 0

(***************************************************************************)
(* What is not acknowledged is always accounted for in sent_size, so the   *)
(* unsigned counter never underflows when a packet is removed.             *)
(***************************************************************************)
SentSizeCovers == sent_size >= Cardinality(packet_history)

(***************************************************************************)
(* Every issued command is received in the end, or replaced by a newer one *)
(* that is: lost packets are noticed by NAKs, or by the keep alive packet  *)
(* that follows the last one.                                              *)
(***************************************************************************)
EventuallySettled ==
  \A k \in Keys, v \in 1..MaxVer :
    (pushed[k] >= v) ~> Settled([key |-> k, ver |-> v])

(* The history of sent packets is emptied: nothing is kept for ever.       *)
HistoryDrains == []<>(packet_history = {})
=============================================================================
