------------------------------- MODULE Stream -------------------------------
(***************************************************************************)
(* A session over a stream (v_stream.c) in the state STREAM_OPEN: the      *)
(* connection threads of client and server turn between reading a message  *)
(* and packing one from the queue of outgoing commands, while the          *)
(* application and the data thread push commands and take what has         *)
(* arrived.  TLS and WebSocket deliver messages one at a time, in order.   *)
(*                                                                         *)
(* Every access to a queue is a step of its own, as it holds the mutex of  *)
(* the queue only for itself: packing a message reads the bounds and the   *)
(* summaries of priorities first, then the count of each priority, and     *)
(* pops one command after another.                                         *)
(***************************************************************************)
EXTENDS OutQueue, SequencesExt

CONSTANTS
  Workloads,   \* a behaviour runs one of these records: what each application pushes, the limit
               \* of the queues, the free space that the stream may have, and whether writing
               \* to it may fail
  MaxWire      \* messages under way in a direction

CLIENT == "CLIENT"
SERVER == "SERVER"
Peers  == {CLIENT, SERVER}

Peer(p) == IF p = CLIENT THEN SERVER ELSE CLIENT

(* Fake commands that the connection thread handles itself, and the keys   *)
(* of create commands, whose fake acknowledgments go to the data thread.   *)
FPS        == "FPS"
TERMINATE  == "TERMINATE"
CREATE     == "CREATE"
ACK        == "ACK"
MIN_CMD_ID == 32

(* Of the fake commands only two are ever pushed to a queue of outgoing    *)
(* commands, and only an application changes the FPS (vrs_send_fps).       *)
(* Neither a request to terminate nor a create command replaces another    *)
(* one that waits.                                                         *)
ASSUME StreamAssumption ==
  /\ {FPS, TERMINATE, CREATE} \subseteq Keys /\ ACK \notin Keys /\ MaxWire \in Nat \ {0}
  /\ \A key \in Keys : Cmd[key].opcode < MIN_CMD_ID <=> key \in {FPS, TERMINATE}
  /\ Cmd[FPS].size = 0 /\ Cmd[TERMINATE].size = 0
  /\ ~Cmd[TERMINATE].dups /\ ~Cmd[CREATE].dups
  /\ \A w \in Workloads :
       /\ w.program \in [Peers -> Seq([key : Keys, prio : Prios])]
       /\ \A p \in Peers : DOMAIN w.program[p] \subseteq Ids
       /\ \A n \in DOMAIN w.program[SERVER] : w.program[SERVER][n].key # FPS
       /\ w.max_size \in Nat /\ w.windows \subseteq Nat /\ w.fail \in BOOLEAN

VARIABLES
  workload,
  pushed,     \* number of commands that the application of a peer has pushed
  accepted,   \* those that v_out_queue_push_tail took
  out_queue,
  in_queue,
  applied,    \* what the callbacks of the client, or the data thread, have taken
  fps,        \* fps_host, fps_peer and the flag SYS_CMD_NEGOTIATE_FPS
  pack,       \* how far v_STREAM_pack_message has got
  wire,       \* messages under way to a peer
  state       \* host_state of the stream connection

vars == <<workload, pushed, accepted, out_queue, in_queue, applied, fps, pack, wire, state>>

OPEN    == "OPEN"
CLOSING == "CLOSING"
FAILED  == "FAILED"    \* CLOSING, after writing a message failed

(* Phases of a turn of the connection thread.                              *)
WAIT  == "WAIT"     \* in select
TURN  == "TURN"     \* has handled a message
PRIO  == "PRIO"     \* reads the count of a priority
POP   == "POP"      \* pops commands with this priority

NoSys == [cmd |-> "NONE", value |-> 0]

Turned(phase) == [phase |-> phase, sys |-> NoSys, cmds |-> <<>>, prio |-> 0, min |-> 0,
                  high |-> 0, low |-> 0, swin |-> 0, pos |-> 0, win |-> 0, sent |-> 0, left |-> 0]

DEFAULT_FPS == 0

Init ==
  /\ workload  \in Workloads
  /\ pushed    = [p \in Peers |-> 0]
  /\ accepted  = [p \in Peers |-> {}]
  /\ out_queue = [p \in Peers |-> v_out_queue_init(workload.max_size)]
  /\ in_queue  = [p \in Peers |-> <<>>]
  /\ applied   = [p \in Peers |-> <<>>]
  /\ fps       = [p \in Peers |-> [host |-> DEFAULT_FPS, peer |-> DEFAULT_FPS, negotiate |-> FALSE]]
  /\ pack      = [p \in Peers |-> Turned(WAIT)]
  /\ wire      = [p \in Peers |-> <<>>]
  /\ state     = [p \in Peers |-> OPEN]

-----------------------------------------------------------------------------
(* Queue of incoming commands: a newer value takes the place of a waiting  *)
(* one; acknowledgments of creation are never replaced here, as their keys *)
(* do not come twice.                                                      *)
v_in_queue_push(queue, cmd) ==
  LET same == {n \in DOMAIN queue : queue[n].key = cmd.key}
  IN  IF cmd.key # ACK /\ Cmd[cmd.key].dups /\ same # {}
      THEN [queue EXCEPT ![CHOOSE n \in same : TRUE] = cmd]
      ELSE Append(queue, cmd)

(* Mutant: commands of a message are pushed from the last to the first.    *)
v_cmd_unpack_Reverse(queue, cmds) == FoldRight(LAMBDA cmd, q : v_in_queue_push(q, cmd), cmds, queue)

v_cmd_unpack(queue, cmds) ==
  LET unpacked[n \in 0 .. Len(cmds)] ==
        IF n = 0 THEN queue ELSE v_in_queue_push(unpacked[n - 1], cmds[n])
  IN  unpacked[Len(cmds)]

(* The application, or the data thread at the server, pushes its next      *)
(* command.  Only the client keeps to the limit of the queue.              *)
PushCmd(p) ==
  LET n      == pushed[p] + 1
      item   == workload.program[p][n]
      result == v_out_queue_push_tail(out_queue[p], p = CLIENT, item.prio,
                  [id |-> n, key |-> item.key, ver |-> n, counter |-> NoCounter])
  IN  /\ pushed[p] < Len(workload.program[p]) /\ state[p] = OPEN
      /\ pushed'    = [pushed EXCEPT ![p] = n]
      /\ out_queue' = [out_queue EXCEPT ![p] = result.queue]
      /\ accepted'  = [accepted EXCEPT ![p] = IF result.ret THEN @ \union {n} ELSE @]
      /\ UNCHANGED <<workload, in_queue, applied, fps, pack, wire, state>>

(* vrs_callback_update and vs_data_loop take commands from the in queue.   *)
TakeCmd(p) ==
  /\ in_queue[p] # <<>>
  /\ applied'  = [applied EXCEPT ![p] = Append(@, Head(in_queue[p]))]
  /\ in_queue' = [in_queue EXCEPT ![p] = Tail(@)]
  /\ UNCHANGED <<workload, pushed, accepted, out_queue, fps, pack, wire, state>>

-----------------------------------------------------------------------------
(* Packing.  The negotiate command is packed before commands are popped.   *)
HEADER_SIZE    == 4
NEGOTIATE_SIZE == 6

SomethingToSend(p) == out_queue[p].count > 0 \/ fps[p].negotiate

NegotiateFps(f) ==
  IF f.host # f.peer THEN [cmd |-> "CHANGE_L", value |-> f.host]
  ELSE IF f.negotiate THEN [cmd |-> "CONFIRM_L", value |-> f.peer] ELSE NoSys

PackStart(p, swin) ==
  LET q   == out_queue[p]
      sys == NegotiateFps(fps[p])
  IN  /\ state[p] = OPEN /\ pack[p].phase \in {WAIT, TURN}
      /\ SomethingToSend(p) /\ (Len(wire[Peer(p)]) < MaxWire \/ state[Peer(p)] # OPEN)
      /\ pack' = [pack EXCEPT ![p] = [Turned(PRIO) EXCEPT
                    !.sys = sys, !.prio = q.max_prio, !.min = q.min_prio, !.high = q.sum_high,
                    !.low = q.sum_low, !.swin = swin,
                    !.pos = HEADER_SIZE + (IF sys = NoSys THEN 0 ELSE NEGOTIATE_SIZE)]]
      /\ fps' = [fps EXCEPT ![p].negotiate = @ /\ sys.cmd # "CONFIRM_L"]
      /\ UNCHANGED <<workload, pushed, accepted, out_queue, in_queue, applied, wire, state>>

PackNothing(p) ==
  /\ state[p] = OPEN /\ pack[p].phase = TURN /\ ~SomethingToSend(p)
  /\ pack' = [pack EXCEPT ![p] = Turned(WAIT)]
  /\ UNCHANGED <<workload, pushed, accepted, out_queue, in_queue, applied, fps, wire, state>>

MaxWin == 65535

(* Mutant: the summary of high priorities is used for all.                 *)
PrioWin_High(k) ==
  IF k.high > 0 /\ k.swin >= k.pos /\ (k.swin - k.pos) * RPrio[k.prio] <= MaxWin * k.high
  THEN {((k.swin - k.pos) * RPrio[k.prio]) \div k.high} ELSE {0}

(* The share of the window for a priority is converted from a real number  *)
(* to 16 bits.  Negative numbers and numbers too large for it are          *)
(* undefined: builds wrap them around or saturate.                         *)
PrioWin(k) ==
  LET sum == IF k.prio >= VRS_DEFAULT_PRIORITY THEN k.high ELSE k.low
  IN  IF sum > 0 /\ k.swin >= k.pos /\ (k.swin - k.pos) * RPrio[k.prio] <= MaxWin * sum
      THEN {((k.swin - k.pos) * RPrio[k.prio]) \div sum}
      ELSE {0, MaxWin}

Below(prio) ==
  LET below == {x \in Prios : x < prio}
  IN  IF below = {} THEN -1 ELSE CHOOSE x \in below : \A y \in below : y <= x

(* The loop over priorities.                                               *)
PackPrio(p) ==
  LET k     == pack[p]
      count == out_queue[p].counts[k.prio]
  IN  /\ k.phase = PRIO /\ k.prio >= k.min
      /\ \/ /\ count = 0
            /\ pack' = [pack EXCEPT ![p].prio = Below(@)]
         \/ /\ count > 0
            /\ \E win \in PrioWin(k) :
                 pack' = [pack EXCEPT ![p] = [k EXCEPT !.phase = POP, !.win = win, !.sent = 0, !.left = count]]
      /\ UNCHANGED <<workload, pushed, accepted, out_queue, in_queue, applied, fps, wire, state>>

Room(k) == (k.win - k.sent) % (MaxWin + 1)

Popped(p) == Head(out_queue[p].queues[pack[p].prio])

CanPack(p) == pack[p].left > 0 /\ CanPop(out_queue[p], pack[p].prio, Room(pack[p]))

(* The inner loop: one command is popped and packed, or handled if it is a *)
(* fake one; a create command is acknowledged to the data thread.          *)
Acks(p, e) ==
  IF e.key = CREATE
  THEN [in_queue EXCEPT ![p] = v_in_queue_push(@, [key |-> ACK, ver |-> e.ver])]
  ELSE in_queue

(* Mutant: the first command of nodes is taken for a fake one.             *)
IsFake_Le(e) == Cmd[e.key].opcode <= MIN_CMD_ID

IsFake(e) == Cmd[e.key].opcode < MIN_CMD_ID

PackPop(p) ==
  LET k == pack[p]
      e == Popped(p)
      q == out_queue[p]
  IN  /\ k.phase = POP /\ CanPack(p)
      /\ out_queue' = [out_queue EXCEPT ![p] = v_out_queue_pop(q, k.prio)]
      /\ state' = [state EXCEPT ![p] = IF e.key = TERMINATE THEN CLOSING ELSE @]
      /\ fps'   = [fps EXCEPT ![p].host = IF e.key = FPS THEN e.ver ELSE @]
      /\ in_queue' = Acks(p, e)
      /\ pack'  = [pack EXCEPT ![p] = IF IsFake(e) THEN [k EXCEPT !.left = @ - 1]
                     ELSE [k EXCEPT !.left = @ - 1, !.cmds = Append(@, [key |-> e.key, ver |-> e.ver]),
                                    !.sent = @ + Cmd[e.key].size, !.pos = @ + Cmd[e.key].size]]
      /\ UNCHANGED <<workload, pushed, accepted, applied, wire>>

PackBreak(p) ==
  /\ pack[p].phase = POP /\ ~CanPack(p)
  /\ pack' = [pack EXCEPT ![p].phase = PRIO, ![p].prio = Below(@)]
  /\ UNCHANGED <<workload, pushed, accepted, out_queue, in_queue, applied, fps, wire, state>>

Packed(p) == pack[p].phase = PRIO /\ pack[p].prio < pack[p].min

(* Writing to a stream that the peer has closed may still succeed.         *)
WriteMessage(p) ==
  /\ Packed(p)
  /\ wire' = [wire EXCEPT ![Peer(p)] =
               IF state[Peer(p)] = OPEN THEN Append(@, [sys |-> pack[p].sys, cmds |-> pack[p].cmds]) ELSE @]
  /\ pack' = [pack EXCEPT ![p] = Turned(WAIT)]
  /\ UNCHANGED <<workload, pushed, accepted, out_queue, in_queue, applied, fps, state>>

WriteFails(p) ==
  /\ Packed(p) /\ (workload.fail \/ state[Peer(p)] # OPEN)
  /\ state' = [state EXCEPT ![p] = FAILED]
  /\ pack'  = [pack EXCEPT ![p] = Turned(WAIT)]
  /\ UNCHANGED <<workload, pushed, accepted, out_queue, in_queue, applied, fps, wire>>

-----------------------------------------------------------------------------
(* Reading a message.                                                      *)

(* Mutant: a change of FPS is taken over and not confirmed.                *)
HandledFps_NoFlag(f, sys) ==
  CASE sys.cmd = "CHANGE_L"  -> [f EXCEPT !.host = sys.value, !.peer = sys.value]
    [] sys.cmd = "CONFIRM_L" -> [f EXCEPT !.peer = sys.value]
    [] OTHER                 -> f

HandledFps(f, sys) ==
  CASE sys.cmd = "CHANGE_L"  -> [host |-> sys.value, peer |-> sys.value, negotiate |-> TRUE]
    [] sys.cmd = "CONFIRM_L" -> [f EXCEPT !.peer = sys.value]
    [] OTHER                 -> f

v_STREAM_handle_messages(p) ==
  /\ state[p] = OPEN /\ pack[p].phase = WAIT /\ wire[p] # <<>>
  /\ fps'      = [fps EXCEPT ![p] = HandledFps(@, Head(wire[p]).sys)]
  /\ in_queue' = [in_queue EXCEPT ![p] = v_cmd_unpack(@, Head(wire[p]).cmds)]
  /\ wire'     = [wire EXCEPT ![p] = Tail(@)]
  /\ pack'     = [pack EXCEPT ![p] = Turned(TURN)]
  /\ UNCHANGED <<workload, pushed, accepted, out_queue, applied, state>>

(* Mutant: the end of the stream is not noticed.                           *)
ReadEnd_Ignored(p) == FALSE

(* The other end has closed the stream.                                    *)
ReadEnd(p) ==
  /\ state[p] = OPEN /\ pack[p].phase = WAIT /\ wire[p] = <<>>
  /\ state[Peer(p)] # OPEN /\ pack[Peer(p)].phase = WAIT
  /\ state' = [state EXCEPT ![p] = CLOSING]
  /\ UNCHANGED <<workload, pushed, accepted, out_queue, in_queue, applied, fps, pack, wire>>

-----------------------------------------------------------------------------
v_STREAM_pack_message(p) ==
  \/ \E swin \in workload.windows : PackStart(p, swin)
  \/ PackNothing(p)
  \/ PackPrio(p)
  \/ PackPop(p)
  \/ PackBreak(p)
  \/ WriteMessage(p)
  \/ WriteFails(p)

Next ==
  \E p \in Peers :
    \/ PushCmd(p)
    \/ TakeCmd(p)
    \/ v_STREAM_pack_message(p)
    \/ v_STREAM_handle_messages(p)
    \/ ReadEnd(p)

Spec == Init /\ [][Next]_vars

(* The connection threads never stop turning (select has a timeout), the   *)
(* data thread and the application take what arrives, and the peer reads,  *)
(* so the free space of the stream is large again and again.               *)
LargeWindow(p) ==
  \E swin \in workload.windows : (\A w \in workload.windows : w <= swin) /\ PackStart(p, swin)

Fairness ==
  \A p \in Peers :
    /\ WF_vars(v_STREAM_pack_message(p)) /\ SF_vars(LargeWindow(p))
    /\ WF_vars(v_STREAM_handle_messages(p)) /\ WF_vars(ReadEnd(p)) /\ WF_vars(TakeCmd(p))

FairSpec == Spec /\ Fairness

-----------------------------------------------------------------------------
(* Type invariant of the state of both peers.                              *)
TypeOK ==
  /\ workload \in Workloads
  /\ \A p \in Peers :
       /\ pushed[p] \in Nat /\ accepted[p] \subseteq 1 .. pushed[p]
       /\ \A prio \in Prios : out_queue[p].queues[prio] \in Seq(Entries) /\ out_queue[p].counts[prio] \in Nat
       /\ out_queue[p].counters \in [Ids -> Int]
       /\ out_queue[p].count \in Nat /\ out_queue[p].size \in Nat
       /\ out_queue[p].max_prio \in Prios /\ out_queue[p].min_prio \in Prios
       /\ pack[p].phase \in {WAIT, TURN, PRIO, POP} /\ pack[p].prio \in Prios \union {-1, 0}
       /\ state[p] \in {OPEN, CLOSING, FAILED}

QueuedCmds(p) == UNION {Range(out_queue[p].queues[prio]) : prio \in Prios}

Waits(p, n) == \E e \in QueuedCmds(p) : e.ver = n

KeyOf(p, n) == workload.program[p][n].key

PrioOf(p, n) == workload.program[p][n].prio

(* The commands that p pushes and that v_out_queue_push_tail may move from *)
(* one priority to another.                                                *)
Moves(p, m, n) ==
  /\ KeyOf(p, m) = KeyOf(p, n) /\ Cmd[KeyOf(p, n)].dups
  /\ PrioOf(p, m) # PrioOf(p, n)

(* A command that is moved next to no other one with its opcode.           *)
MovesAlone(p) ==
  \A m, n, k \in DOMAIN workload.program[p] :
    Moves(p, m, n) /\ Cmd[KeyOf(p, k)].opcode = Cmd[KeyOf(p, n)].opcode => KeyOf(p, k) = KeyOf(p, n)

(* Commands are only moved between priorities of the same half.            *)
MovesInHalf(p) ==
  \A m, n \in DOMAIN workload.program[p] :
    Moves(p, m, n) => (PrioOf(p, m) >= VRS_DEFAULT_PRIORITY <=> PrioOf(p, n) >= VRS_DEFAULT_PRIORITY)

(* All commands with the key wait in one list.                             *)
OneList(p, key) ==
  \/ Cmd[key].dups
  \/ \A m, n \in DOMAIN workload.program[p] :
       KeyOf(p, m) = key /\ KeyOf(p, n) = key => PrioOf(p, m) = PrioOf(p, n)

(* The counters that v_STREAM_pack_message and v_out_queue_push_tail go by *)
(* (count, size, count of each priority) say what is in the queue,         *)
(* whatever was replaced, moved to another priority or refused on the way. *)
(* So does the counter that a run of commands shares, unless a command     *)
(* that shares it is moved.                                                *)
CountsTrue ==
  \A p \in Peers :
    LET q == out_queue[p]
    IN  /\ q.count = Cardinality(QueuedCmds(p))
        /\ q.size = SumFunctionOnSet([e \in Entries |-> Cmd[e.key].item_size], QueuedCmds(p))
        /\ \A prio \in Prios : q.counts[prio] = Len(q.queues[prio])
        /\ MovesAlone(p) => \A c \in Ids : q.counters[c] = Cardinality({e \in QueuedCmds(p) : e.counter = c})

(* A queued command still has its own bucket in the table, although a      *)
(* bucket is removed by its key (v_hash_array_remove_item).                *)
BucketsIntact ==
  \A p \in Peers : \A key \in Keys : OneList(p, key) =>
    {e.id : e \in {x \in QueuedCmds(p) : x.key = key}}
      = {b.id : b \in {x \in Range(out_queue[p].buckets) : x.key = key}}

(* Every priority with commands lies between min_prio and max_prio, so     *)
(* that the loop of v_STREAM_pack_message comes across it.                 *)
PriosInBounds ==
  \A p \in Peers : \A prio \in Prios :
    out_queue[p].queues[prio] # <<>> => out_queue[p].min_prio <= prio /\ prio <= out_queue[p].max_prio

(* The summaries that shares of a message are computed with are those of   *)
(* the priorities that have commands, as long as commands are only moved   *)
(* between priorities of the same half.                                    *)
SumsTrue ==
  \A p \in Peers : MovesInHalf(p) =>
    LET q    == out_queue[p]
        used == {prio \in Prios : q.queues[prio] # <<>>}
    IN  /\ q.sum_high = SumFunctionOnSet(RPrio, {prio \in used : prio >= VRS_DEFAULT_PRIORITY})
        /\ q.sum_low  = SumFunctionOnSet(RPrio, {prio \in used : prio < VRS_DEFAULT_PRIORITY})

(* All the books of the queue of outgoing commands are right, whatever was *)
(* pushed, replaced, moved, refused and popped (v_out_queue.c).            *)
QueueBooks == TypeOK /\ CountsTrue /\ BucketsIntact /\ PriosInBounds /\ SumsTrue

(* What a peer has been sent, in the order in which it comes to it.        *)
Arriving(p) ==
  applied[p] \o in_queue[p] \o FlattenSeq([n \in DOMAIN wire[p] |-> wire[p][n].cmds]) \o pack[Peer(p)].cmds

(* Two commands that arrive at p were pushed with the same priority.       *)
SamePrio(p, c, d) ==
  LET sender == IF c.key = ACK THEN p ELSE Peer(p)
  IN  PrioOf(sender, c.ver) = PrioOf(sender, d.ver)

(* The values of an address arrive in the order in which they were pushed: *)
(* none comes twice, and no older value after a newer one, although values *)
(* are replaced in both queues and change their priority.  Where a value   *)
(* does not replace the waiting one, this is so for equal priorities.      *)
ValuesInOrder ==
  \A p \in Peers :
    LET a == Arriving(p)
    IN  \A m, n \in DOMAIN a :
          /\ m < n /\ a[m].key = a[n].key
          /\ SamePrio(p, a[m], a[n]) \/ (a[m].key # ACK /\ Cmd[a[m].key].dups)
          => a[m].ver < a[n].ver

(* When a session ends because the client asked for it, the commands that  *)
(* were pushed earlier with the same priority have gone out before.        *)
TerminateLast ==
  \A n \in accepted[CLIENT] :
    KeyOf(CLIENT, n) = TERMINATE /\ ~Waits(CLIENT, n) =>
      \A m \in accepted[CLIENT] :
        m < n /\ PrioOf(CLIENT, m) = PrioOf(CLIENT, n) => ~Waits(CLIENT, m)

(* Both queues keep the order of commands that matters.                    *)
OrderKept == ValuesInOrder /\ TerminateLast

(* What v_out_queue_push_tail has taken is not lost while the stream is    *)
(* open: it waits in the queue, or has been packed, or a newer value of    *)
(* its address has taken its place.                                        *)
NothingLost ==
  \A p \in Peers : state[p] = OPEN /\ state[Peer(p)] = OPEN =>
    \A n \in accepted[p] : KeyOf(p, n) \notin {FPS, TERMINATE} =>
      \E m \in n .. pushed[p] :
        /\ m = n \/ (Cmd[KeyOf(p, n)].dups /\ KeyOf(p, m) = KeyOf(p, n) /\ m \in accepted[p])
        /\ \/ Waits(p, m)
           \/ \E c \in Range(Arriving(Peer(p))) : c.key = KeyOf(p, m) /\ c.ver = m

(* The data thread gets an acknowledgment of a create command as soon as   *)
(* v_STREAM_pack_message has popped it: while the stream is open, the      *)
(* command is then on its way to the client or there.                      *)
AckTruthful ==
  \A p \in Peers : state[p] = OPEN /\ state[Peer(p)] = OPEN =>
    \A c \in Range(applied[p] \o in_queue[p]) : c.key = ACK =>
      \E d \in Range(Arriving(Peer(p))) : d.key = CREATE /\ d.ver = c.ver

(* An open stream delivers what it took, and acknowledges nothing else.    *)
Delivered == NothingLost /\ AckTruthful

(* When no message is under way and none is owed, the client knows with    *)
(* which FPS the server runs, however often it was changed meanwhile: it   *)
(* does not take its change for confirmed when the server has another one. *)
FpsKnown ==
  (\A p \in Peers : wire[p] = <<>> /\ pack[p].phase = WAIT /\ ~fps[p].negotiate /\ state[p] = OPEN)
    => fps[CLIENT].peer = fps[SERVER].host

(* Every command that was taken is sent sooner or later, with whatever     *)
(* priority, or the session ends.                                          *)
AllSent ==
  \A p \in Peers : (out_queue[p].count > 0) ~> (out_queue[p].count = 0 \/ state[p] # OPEN)

(* A request to terminate ends the session at both peers.                  *)
BothClose ==
  (state[CLIENT] # OPEN) ~> (state[SERVER] # OPEN)
=============================================================================
