------------------------------- MODULE AckNak -------------------------------
(***************************************************************************)
(* The compressed vector of ACK and NAK commands a datagram peer keeps     *)
(* about the payload packets it received (struct AckNakHistory and         *)
(* v_ack_nak_history_* in v_history.c), and the meaning the other peer     *)
(* gives to such a vector (handle_ack_nak_commands in                      *)
(* v_resend_mechanism.c).                                                  *)
(*                                                                         *)
(*      | ACK 107 | NAK 115 | ACK 146 | ACK 183 |                          *)
(*                                                                         *)
(* says that 107..114 were received, 115..145 were lost and 146..183 were  *)
(* received: a command speaks for the payload ids up to the next command.  *)
(***************************************************************************)
EXTENDS Integers, Sequences

ACK == "CMD_ACK_ID"
NAK == "CMD_NAK_ID"

AckNakCmd == [id : {ACK, NAK}, pay_id : Nat]

Cmd(id, pay_id) == [id |-> id, pay_id |-> pay_id]

-----------------------------------------------------------------------------
(* The receiving peer's side: building the vector.                         *)

(***************************************************************************)
(* v_ack_nak_history_add_cmd.  An ACK closes an open NAK or opens a run of *)
(* ACKs; inside a run only the last ACK is kept up to date.  A NAK takes   *)
(* the place of the last ACK of a run of two.  The growth of the array is  *)
(* left out.                                                               *)
(***************************************************************************)
AddCmd(h, cmd) ==
  LET n == Len(h)
      endsWithTwoAcks == n > 1 /\ h[n].id = ACK /\ h[n-1].id = ACK
  IN  IF n = 0 THEN <<cmd>>
      ELSE IF cmd.id = NAK /\ h[n].id = NAK THEN h
      ELSE IF endsWithTwoAcks THEN [h EXCEPT ![n] = cmd]
      ELSE Append(h, cmd)

(***************************************************************************)
(* The part of handle_node_commands that records payload packet id when    *)
(* last was the last one received: the gap, if there is one, and the       *)
(* packet itself.                                                          *)
(***************************************************************************)
AddReceived(h, last, id) ==
  LET gapped == IF id > last + 1 THEN AddCmd(h, Cmd(NAK, last + 1)) ELSE h
  IN  AddCmd(gapped, Cmd(ACK, id))

(* The first command of h that is not below ank_id.                        *)
CutIndex(h, ank_id) ==
  CHOOSE i \in 1..Len(h) :
    /\ h[i].pay_id >= ank_id
    /\ \A j \in 1..(i-1) : h[j].pay_id < ank_id

(* Mutant: the shortened run gets the kind of the command after it.        *)
RemoveCmds_WrongRun(h, ank_id) ==
  LET n == Len(h)
      i == CutIndex(h, ank_id)
  IN  IF n = 0 \/ (n > 0 /\ ank_id > h[n].pay_id) THEN h
      ELSE IF h[i].pay_id = ank_id
           THEN IF i = n THEN <<>>
                ELSE IF h[i+1].pay_id = ank_id + 1 THEN SubSeq(h, i + 1, n)
                ELSE <<Cmd(h[i].id, ank_id + 1)>> \o SubSeq(h, i + 1, n)
           ELSE IF i > 1 THEN <<Cmd(h[i].id, ank_id)>> \o SubSeq(h, i, n)
           ELSE h

(***************************************************************************)
(* v_ack_nak_history_remove_cmds: forget what the peer knows about the     *)
(* packets up to ank_id.                                                   *)
(***************************************************************************)
RemoveCmds(h, ank_id) ==
  LET n == Len(h)
      i == CutIndex(h, ank_id)
      StartingWith(id, pay_id, from) == <<Cmd(id, pay_id)>> \o SubSeq(h, from, n)
  IN  IF n = 0 \/ (n > 0 /\ ank_id > h[n].pay_id) THEN h
      ELSE IF h[i].pay_id = ank_id
           THEN IF i = n THEN <<>>
                ELSE IF h[i+1].pay_id = ank_id + 1 THEN SubSeq(h, i + 1, n)
                ELSE StartingWith(h[i].id, ank_id + 1, i + 1)
           ELSE IF i > 1 THEN StartingWith(h[i-1].id, ank_id, i)
           ELSE h

-----------------------------------------------------------------------------
(* The sending peer's side: reading a received vector.                     *)

(* Mutant: the last ACK of a vector is only used for the ANK ID.           *)
Scope_WithoutLast(h, i) ==
  IF i < Len(h) THEN h[i].pay_id .. (h[i+1].pay_id - 1) ELSE {}

(***************************************************************************)
(* The payload ids command i of a vector speaks for.  The last ACK stands  *)
(* for itself.  handle_node_commands follows every NAK with an ACK, so a   *)
(* vector never ends with a NAK.                                           *)
(***************************************************************************)
Scope(h, i) ==
  IF i < Len(h) THEN h[i].pay_id .. (h[i+1].pay_id - 1)
                ELSE {h[i].pay_id}

(***************************************************************************)
(* handle_ack_nak_commands goes through the vector in order and takes the  *)
(* packets it meets out of the history of sent packets, so the first       *)
(* command that speaks for a packet decides what happens to it.            *)
(***************************************************************************)
IdsFirstSeenAs(h, kind) ==
  UNION { { x \in Scope(h, i) :
              \A j \in 1..(i-1) : h[j].id # kind => x \notin Scope(h, j) } :
          i \in { k \in 1..Len(h) : h[k].id = kind } }

AckedIds(h)  == IdsFirstSeenAs(h, ACK)
NakkedIds(h) == IdsFirstSeenAs(h, NAK)

(* ANK ID after the vector: the last ACK of it.                            *)
LastAcked(h) == h[Len(h)].pay_id

-----------------------------------------------------------------------------
(***************************************************************************)
(* What a vector may say when the packets in rcv were received and no      *)
(* packet up to last can be received any more: it acknowledges only        *)
(* received packets, it reports as lost only packets that never will be    *)
(* received, and it does not end with a NAK.                               *)
(***************************************************************************)
Truthful(h, rcv, last) ==
  \A i \in 1..Len(h) :
    IF h[i].id = ACK
    THEN Scope(h, i) \subseteq rcv
    ELSE /\ i < Len(h)
         /\ \A x \in Scope(h, i) : x \notin rcv /\ x <= last
=============================================================================
