----------------------------- MODULE MCSessions -----------------------------
(***************************************************************************)
(* Instances of Sessions for TLC.                                          *)
(***************************************************************************)
EXTENDS Sessions

CONSTANTS c1, c2

TwoClients == {c1, c2}
TwoSlots   == {1, 2}

Work(a, b, slots, ports, unlucky, stop) ==
  [transport |-> [c \in Clients |-> IF c = c1 THEN a ELSE b],
   slots |-> slots, port_low |-> 50000, ports |-> ports, unlucky |-> unlucky, stop |-> stop]

(* Sessions share one slot, at the same time or one after another.         *)
Reuse == {Work(UDP, UDP, {1}, 2, {c1}, FALSE),
          Work(UDP, TCP, {1}, 2, {c1}, FALSE),
          Work(WEBSOCKET, TCP, {1}, 2, {c1}, FALSE),
          Work(TCP, WEBSOCKET, {1}, 2, {c1}, FALSE)}

(* Sessions at the same time, and fewer ports than they want.              *)
Share == {Work(UDP, UDP, {1, 2}, 1, {}, FALSE),
          Work(UDP, UDP, {1, 2}, 2, {}, FALSE),
          Work(UDP, TCP, {1, 2}, 1, {}, FALSE)}

(* Sessions at the same time that do not compete for ports.                *)
Aside == {Work(TCP, TCP, {1, 2}, 2, {}, FALSE)}

(* The server is stopped.                                                  *)
Stop  == {Work(UDP, NONE, {1}, 1, {c1}, TRUE),
          Work(UDP, TCP, {1}, 2, {}, TRUE),
          Work(TCP, WEBSOCKET, {1}, 2, {}, TRUE)}

AllWork == Reuse \union Share \union Aside \union Stop
=============================================================================
