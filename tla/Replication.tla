---------------------------- MODULE Replication ----------------------------
(***************************************************************************)
(* What the server promises about the entities it shares (nodes, tag       *)
(* groups, tags, layers): an entity exists at the server before a client   *)
(* learns of it, it is freed only when no client knows it, and so an id is *)
(* given to another entity only when nobody takes it for the old one.      *)
(* The modules Nodes, TagGroups and Layers implement this specification.   *)
(***************************************************************************)
CONSTANTS Entities,  \* the ids entities may have
          Viewers    \* the clients that do not leave

VARIABLES exists,    \* the entities the server holds
          known      \* the entities every client has been told of

(* A server starts with the entities that were stored.                     *)
Init == exists \subseteq Entities /\ known = [c \in Viewers |-> {}]

(* The server allocates ids that no client knows (an avatar node comes     *)
(* with a child node).                                                     *)
Create(E) ==
  /\ UNCHANGED known
  /\ exists' = exists \union E
  /\ E \intersect exists = {}
  /\ \A c \in Viewers : E \intersect known[c] = {}

(* A client learns of an entity while the server holds it.                 *)
Learn(c, e) ==
  /\ e \in exists
  /\ known' = [known EXCEPT ![c] = @ \union {e}]
  /\ UNCHANGED exists

(* A client is told to forget entities: those it forgets at once are an    *)
(* entity and what the entity contains.                                    *)
Forget(c, E) ==
  /\ E \subseteq known[c]
  /\ known' = [known EXCEPT ![c] = @ \ E]
  /\ UNCHANGED exists

(* The server frees entities that no client knows.                         *)
Free(E) ==
  /\ UNCHANGED known
  /\ exists' = exists \ E
  /\ E \subseteq exists
  /\ \A c \in Viewers : known[c] \intersect E = {}

(* The server is started again when no client knows an entity.             *)
Restart ==
  /\ exists' \subseteq Entities
  /\ \A c \in Viewers : known[c] = {}
  /\ UNCHANGED known

Next ==
  \/ Create(exists' \ exists)
  \/ Free(exists \ exists')
  \/ Restart
  \/ \E c \in Viewers :
       \/ Forget(c, known[c] \ known'[c])
       \/ \E e \in Entities : Learn(c, e)

Spec == Init /\ [][Next]_<<exists, known>>
=============================================================================
