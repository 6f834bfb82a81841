------------------------------ MODULE MCNodes -------------------------------
(***************************************************************************)
(* Instances of NodeStorage for TLC.                                       *)
(***************************************************************************)
EXTENDS NodeStorage

CONSTANTS c1, c2

TwoClients == {c1, c2}
Second     == {c2}
NoPerm     == {}
SomePerms  == {{}, {"READ", "WRITE"}}

Doc(owner, children) ==
  [stored |-> TRUE, owner |-> owner, children |-> children,
   permissions |-> <<<<OTHER_USERS, {"READ", "WRITE"}>>>>]

(* Scenes in the database: none, one node, and a tree in which 5 has the   *)
(* child nodes 6 and 8, and 6 has 7.                                       *)
NoScene  == [n \in {} |-> NoDoc]
OneNode  == [n \in {3, 7} |-> IF n = 3 THEN Doc(SUPER_USER, <<7>>) ELSE Doc(c2, <<>>)]
OldScene == [n \in {3, 5, 6, 7, 8} |->
               CASE n = 3 -> Doc(SUPER_USER, <<5>>)
                 [] n = 5 -> Doc(c2, <<6, 8>>)
                 [] n = 6 -> Doc(c2, <<7>>)
                 [] n \in {7, 8} -> Doc(c2, <<>>)]

(* Client c2 alone builds a tree.                                          *)
Build  == [commands |-> {c2} \X {"CONNECT", "NODE_CREATE", "NODE_LINK"}, start |-> {},
           ops |-> 7, nodes |-> 10, restarts |-> 0, streams |-> {}, stored |-> NoScene]

(* It moves the nodes of a stored scene of its own.                        *)
Move   == [Build EXCEPT !.commands = {c2} \X {"CONNECT", "NODE_LINK"}, !.ops = 3,
                        !.stored = OldScene]

(* It works on a scene that is stored and loaded again.                    *)
Store  == [Build EXCEPT !.commands = {c2} \X {"CONNECT", "NODE_CREATE", "NODE_LINK",
                                              "NODE_PERM", "NODE_DESTROY"},
                        !.ops = 4, !.restarts = 2]
StoreOne == [Store EXCEPT !.stored = OneNode]

(* Client c1 looks on while c2 creates, moves and destroys a node.         *)
Watch  == [Build EXCEPT
             !.commands = ({c1} \X {"CONNECT", "NODE_SUBSCRIBE"}) \union
               ({c2} \X {"CONNECT", "NODE_CREATE", "NODE_LINK", "NODE_DESTROY"}),
             !.start = {1, 3}, !.ops = 4, !.nodes = 9]

(* Client c1 subscribes to the avatar of c2 and to the scene.              *)
Rejoin == [Watch EXCEPT !.start = {3, 5}, !.ops = 5]

WatchStream == [Watch EXCEPT !.streams = {c1}, !.start = {3, 7}, !.ops = 5]

(* Clients share a node that c2 owns.                                      *)
Access == [Build EXCEPT
             !.commands = ({c1} \X {"CONNECT", "NODE_SUBSCRIBE", "NODE_LOCK", "NODE_UNLOCK"}) \union
               ({c2} \X {"CONNECT", "NODE_CREATE", "NODE_LINK", "NODE_PERM", "NODE_OWNER",
                         "NODE_LOCK", "NODE_UNLOCK"}),
             !.start = {9}, !.ops = 5, !.streams = {c1}]

(* Client c2 comes and goes in the tree of c1.                             *)
Visit  == [Build EXCEPT
             !.commands = ({c1} \X {"CONNECT", "NODE_CREATE", "NODE_LINK", "NODE_DESTROY"}) \union
               ({c2} \X {"CONNECT", "NODE_SUBSCRIBE", "NODE_UNSUBSCRIBE", "NODE_PRIO"}),
             !.start = {3}, !.ops = 6]

OnlyMove == {Move}
AllWork  == {Build, Move, Store, StoreOne, Watch, Rejoin, WatchStream, Access, Visit}
=============================================================================
