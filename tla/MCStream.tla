------------------------------ MODULE MCStream ------------------------------
(***************************************************************************)
(* Instances of Stream for TLC.                                            *)
(***************************************************************************)
EXTENDS Stream

TAG   == "TAG"      \* Tag_Set_UInt32_Scalar
LAYER == "LAYER"    \* Layer_Set_Value_Real64

FewKeys  == {TAG, LAYER, CREATE, FPS, TERMINATE}
FewPrios == {100, 128, 200}
FewIds   == 1 .. 5

Real == [prio \in FewPrios |-> CASE prio = 100 -> 1 [] prio = 128 -> 2 [] prio = 200 -> 6]

Info(opcode, item_size, size, dups) ==
  [opcode |-> opcode, item_size |-> item_size, size |-> size, dups |-> dups, share |-> TRUE]

Table ==
  [key \in FewKeys |->
     CASE key = TAG       -> Info(78, 13, 15, TRUE)
       [] key = LAYER     -> Info(157, 19, 21, FALSE)
       [] key = CREATE    -> Info(32, 13, 15, FALSE)
       [] key = FPS       -> Info(3, 8, 0, FALSE)
       [] key = TERMINATE -> Info(1, 3, 0, FALSE)]

C(key, prio) == [key |-> key, prio |-> prio]

Work(client, server, max_size, windows, fail) ==
  [program  |-> [p \in Peers |-> IF p = CLIENT THEN client ELSE server],
   max_size |-> max_size, windows |-> windows, fail |-> fail]

Large == 4 + 6 + 4 * 21

(* Values are replaced and moved between priorities while others are       *)
(* packed, with a window for one command or for all of them.               *)
Values == Work(<<C(LAYER, 100), C(TAG, 128), C(LAYER, 100), C(TAG, 200), C(TAG, 128)>>, <<>>,
               100, {0, 4 + 21, Large}, FALSE)

(* The queue is at its limit.                                              *)
Limits == Work(<<C(LAYER, 128), C(TAG, 200), C(LAYER, 128), C(TAG, 128)>>, <<>>, 40, {Large}, FALSE)

(* The FPS changes while commands go both ways.                            *)
Rates == Work(<<C(FPS, 128), C(LAYER, 100), C(FPS, 128), C(TAG, 128)>>, <<C(CREATE, 128)>>,
              100, {Large}, FALSE)

(* The session ends while commands are queued, or writing fails.           *)
Ends == Work(<<C(LAYER, 128), C(TAG, 100), C(TERMINATE, 128)>>, <<C(CREATE, 128)>>,
             100, {4, Large}, TRUE)

AllWork == {Values, Limits, Rates, Ends}
=============================================================================
