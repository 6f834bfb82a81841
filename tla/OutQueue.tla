------------------------------ MODULE OutQueue ------------------------------
(***************************************************************************)
(* The queue of outgoing commands (v_out_queue.c): a list of commands for  *)
(* every priority, one table of buckets for all of them, and the books     *)
(* that the connection threads read to share a message between priorities. *)
(*                                                                         *)
(* A queued command is an entry: `id' names the VOutQueueCommand, `key' is *)
(* opcode and address, `ver' tells the values of a key apart, and          *)
(* `counter' names the counter that commands of one opcode share while     *)
(* they stand next to each other.  Counters are named by the entry they    *)
(* were allocated for; a counter of 0 is freed.  Real priorities are       *)
(* integers.                                                               *)
(***************************************************************************)
EXTENDS Integers, Sequences, FiniteSets

CONSTANTS
  Keys,     \* opcodes with their addresses
  Cmd,      \* what the tables of commands say of a key: its opcode, the size of its structure
            \* and of its packed form, and its flags REMOVE_HASH_DUPS and NOT_SHARE_ADDR
  Prios,    \* the priorities in use
  RPrio,    \* their real priorities
  Ids       \* numbers of pushed commands

VRS_DEFAULT_PRIORITY == 128
NoCounter            == 0

ASSUME OutQueueAssumption ==
  /\ IsFiniteSet(Keys) /\ IsFiniteSet(Prios) /\ IsFiniteSet(Ids)
  /\ Ids \subseteq Nat \ {NoCounter}
  /\ Prios \subseteq 0 .. 255 /\ VRS_DEFAULT_PRIORITY \in Prios
  /\ RPrio \in [Prios -> Nat \ {0}]
  /\ Cmd \in [Keys -> [opcode : Nat, item_size : Nat \ {0}, size : Nat, dups : BOOLEAN, share : BOOLEAN]]

Entries  == [id : Ids, key : Keys, ver : Ids, counter : Ids \union {NoCounter}]

v_out_queue_init(max_size) ==
  [queues  |-> [prio \in Prios |-> <<>>], counts |-> [prio \in Prios |-> 0],
   buckets |-> <<>>, counters |-> [n \in Ids |-> 0],
   count   |-> 0, size |-> 0, max_size |-> max_size,
   max_prio |-> VRS_DEFAULT_PRIORITY, min_prio |-> VRS_DEFAULT_PRIORITY,
   sum_high |-> 0, sum_low |-> 0]

(* The summary of real priorities that belongs to a priority.              *)
AddToSum(q, prio, r) ==
  IF prio >= VRS_DEFAULT_PRIORITY THEN [q EXCEPT !.sum_high = @ + r] ELSE [q EXCEPT !.sum_low = @ + r]

-----------------------------------------------------------------------------
(* The table of buckets, in the order in which they were added.            *)
v_hash_array_find_item(q, key) == {n \in DOMAIN q.buckets : q.buckets[n].key = key}

v_hash_array_add_item(q, e) == [q EXCEPT !.buckets = Append(@, [key |-> e.key, id |-> e.id])]

(* The first bucket with the key goes, whichever command it belongs to.    *)
v_hash_array_remove_item(q, key) ==
  LET found == v_hash_array_find_item(q, key)
      first == CHOOSE n \in found : \A m \in found : n <= m
  IN  IF found = {} THEN q
      ELSE [q EXCEPT !.buckets = SubSeq(@, 1, first - 1) \o SubSeq(@, first + 1, Len(@))]

-----------------------------------------------------------------------------
(* An entry goes to the tail of a list.  Next to a command with the same   *)
(* opcode it shares the counter of that command; in an empty list it keeps *)
(* what it had.                                                            *)
_v_out_queue_command_add(q, prio, e) ==
  LET queue  == q.queues[prio]
      border == queue[Len(queue)]
      joins  == Cmd[e.key].share /\ Cmd[border.key].opcode = Cmd[e.key].opcode
      cell   == IF border.counter = NoCounter THEN border.id ELSE border.counter
  IN  IF queue = <<>> THEN [q EXCEPT !.queues[prio] = <<e>>]
      ELSE IF ~joins  THEN [q EXCEPT !.queues[prio] = Append(@, [e EXCEPT !.counter = NoCounter])]
      ELSE [q EXCEPT !.queues[prio]   = Append([@ EXCEPT ![Len(@)].counter = cell], [e EXCEPT !.counter = cell]),
                     !.counters[cell] = (IF border.counter = NoCounter THEN 1 ELSE @) + 1]

(* Counters of an entry that leaves its list.                              *)
Uncounted(q, e) ==
  IF e.counter = NoCounter THEN q ELSE [q EXCEPT !.counters[e.counter] = @ - 1]

(* Both kinds of push count the entry in its new list.                     *)
Counted(q, prio, e) ==
  LET summed == IF q.counts[prio] = 0 THEN AddToSum(q, prio, RPrio[prio]) ELSE q
  IN  [v_hash_array_add_item(summed, e) EXCEPT !.counts[prio] = @ + 1]

(* Maximal and minimal priority are only ever widened here.                *)
Widened(q, prio) ==
  IF prio > q.max_prio THEN [q EXCEPT !.max_prio = prio]
  ELSE IF prio < q.min_prio THEN [q EXCEPT !.min_prio = prio]
  ELSE q

HasRoom(q, limits, key) == limits => q.max_size >= q.size + Cmd[key].item_size

_v_out_queue_command_create(q, prio, e) ==
  Widened([Counted(_v_out_queue_command_add(q, prio, e), prio, e)
             EXCEPT !.count = @ + 1, !.size = @ + Cmd[e.key].item_size], prio)

(* A newer value takes the place of a waiting one.                         *)
Replaced(q, prio, n, e) == [q EXCEPT !.queues[prio][n].ver = e.ver]

(* An entry leaves its list.                                               *)
Unlisted(q, prio, n) ==
  LET entry   == q.queues[prio][n]
      removed == [v_hash_array_remove_item(q, entry.key)
                    EXCEPT !.queues[prio] = SubSeq(@, 1, n - 1) \o SubSeq(@, n + 1, Len(@)),
                           !.counts[prio] = @ - 1]
  IN  Uncounted(removed, entry)

(* A newer value with another priority leaves the list of the waiting one. *)
(* The summary that is reduced is that of the new priority.                *)
Moved(q, old, n, prio, e) ==
  LET entry   == q.queues[old][n]
      left    == Unlisted(q, old, n)
      kept    == IF entry.counter # NoCounter /\ left.counters[entry.counter] = 0
                 THEN NoCounter ELSE entry.counter
      summed  == IF left.counts[old] = 0 THEN AddToSum(left, prio, -RPrio[old]) ELSE left
      entered == [e EXCEPT !.counter = kept]
  IN  Widened(Counted(_v_out_queue_command_add(summed, prio, entered), prio, entered), prio)

(* Where a command with the same address waits: none, or its priority and  *)
(* place.                                                                  *)
Waiting(q, key) ==
  {w \in UNION {{<<prio, n>> : n \in DOMAIN q.queues[prio]} : prio \in Prios} :
      q.queues[w[1]][w[2]].key = key}

(* v_out_queue_push_tail: the queue afterwards, and whether the command    *)
(* was taken.                                                              *)
v_out_queue_push_tail(q, limits, prio, e) ==
  LET waiting == IF Cmd[e.key].dups THEN Waiting(q, e.key) ELSE {}
      w       == CHOOSE x \in waiting : TRUE
  IN  IF waiting # {}
      THEN [queue |-> IF w[1] = prio THEN Replaced(q, prio, w[2], e) ELSE Moved(q, w[1], w[2], prio, e),
            ret   |-> TRUE]
      ELSE IF HasRoom(q, limits, e.key)
      THEN [queue |-> _v_out_queue_command_create(q, prio, e), ret |-> TRUE]
      ELSE [queue |-> q, ret |-> FALSE]

-----------------------------------------------------------------------------
(* A command is popped if it fits into what is left of the window; a run   *)
(* of commands with one opcode takes 0 for a window without a limit.       *)
CanPop(q, prio, len) ==
  LET e == Head(q.queues[prio])
  IN  /\ q.queues[prio] # <<>>
      /\ Cmd[e.key].size <= len \/ (e.counter # NoCounter /\ len = 0)

(* The bounds of the priorities in use shrink when a list gets empty.      *)
Shrunk(q, prio) ==
  LET below == {x \in Prios : q.counts[x] # 0 /\ q.min_prio <= x /\ x <= prio}
      above == {x \in Prios : q.counts[x] # 0 /\ prio <= x /\ x <= q.max_prio}
  IN  IF q.max_prio = prio /\ q.min_prio # prio
      THEN [q EXCEPT !.max_prio = IF below = {} THEN @ ELSE CHOOSE x \in below : \A y \in below : y <= x]
      ELSE IF q.min_prio = prio /\ q.max_prio # prio
      THEN [q EXCEPT !.min_prio = IF above = {} THEN @ ELSE CHOOSE x \in above : \A y \in above : x <= y]
      ELSE IF q.min_prio = prio
      THEN [q EXCEPT !.min_prio = VRS_DEFAULT_PRIORITY, !.max_prio = VRS_DEFAULT_PRIORITY]
      ELSE q

(* Mutant: an emptied list keeps its share of the summary.                 *)
Emptied_NoSum(q, prio) == IF q.counts[prio] # 0 THEN q ELSE Shrunk(q, prio)

(* A list that gets empty gives back its real priority.                    *)
Emptied(q, prio) ==
  IF q.counts[prio] # 0 THEN q ELSE Shrunk(AddToSum(q, prio, -RPrio[prio]), prio)

v_out_queue_pop(q, prio) ==
  LET e       == Head(q.queues[prio])
      removed == [v_hash_array_remove_item(q, e.key)
                    EXCEPT !.queues[prio] = Tail(@), !.counts[prio] = @ - 1,
                           !.count = @ - 1, !.size = @ - Cmd[e.key].item_size]
  IN  Emptied(Uncounted(removed, e), prio)
=============================================================================
