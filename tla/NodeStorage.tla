---------------------------- MODULE NodeStorage -----------------------------
(***************************************************************************)
(* The nodes of the server with the storage of the scene in MongoDB        *)
(* (vs_mongo_main.c, vs_mongo_node.c): the scene is loaded when the server *)
(* starts, and saved only when it stops in an orderly way.  A crash loses  *)
(* what changed since the start.  What nodes contain is left out, and      *)
(* writing to the database does not fail.                                  *)
(***************************************************************************)
EXTENDS Nodes

(* The scene that a workload finds in the database at first: documents of  *)
(* nodes.                                                                  *)
ASSUME StoredAssumption ==
  \A w \in Workloads : \A n \in DOMAIN w.stored :
    /\ n \in SCENE .. MaxNode /\ w.stored[n].stored
    /\ w.stored[n].owner \in Users /\ w.stored[n].children \in Seq(SCENE .. MaxNode)

VARIABLES
  db,        \* the documents of every node id, as they were inserted
  restarts,  \* starts of the server after the first
  again      \* history: the clients and nodes for which the node was announced again
             \* while a destroy command was not confirmed yet

storageVars == <<vars, db, restarts, again>>

NoDoc == [stored |-> FALSE, owner |-> SUPER_USER, permissions |-> <<>>, children |-> <<>>]

(* The document that a query or an update for a node id finds: the one     *)
(* that was inserted first, or none.                                       *)
Found(B) == [n \in Ids |-> IF B[n] = <<>> THEN NoDoc ELSE B[n][1]]

(* vs_mongo_node_save_version: what is stored of a node, whatever its      *)
(* state is.                                                               *)
Document(e) ==
  [stored |-> TRUE, owner |-> e.owner, permissions |-> e.permissions, children |-> e.children]

(* vs_mongo_node_load_linked: the ids reached from the parent of scene     *)
(* nodes through the documents D ...                                       *)
Reached(D) ==
  LET Within[k \in Ids] ==
        IF k = 0 THEN {SCENE}
        ELSE LET S == Within[k - 1]
             IN S \union UNION {ToSet(D[n].children) : n \in {m \in S : D[m].stored}}
  IN Within[MaxNode]

(* ... which are loaded when they have a document.                         *)
Loaded(D) == {n \in Reached(D) : D[n].stored}

(* vs_mongo_node_save: nodes below the parent of scene nodes are saved.    *)
Saved(n) == Exists(n) /\ nodes[n].saveable

(* Mutant: a node that was loaded is inserted again.                       *)
vs_mongo_node_save_Insert(n, loaded) == Append(db[n], Document(nodes[n]))

(* vs_mongo_node_save: an update of the document that is found, for a node *)
(* that was loaded (saved_version is not -1), and a new document for any   *)
(* other one, whether the database has documents with its id or not.  (An  *)
(* update is left out if the version is still the same, and so is what is  *)
(* stored.)                                                                *)
vs_mongo_node_save(n, loaded) ==
  IF loaded THEN [db[n] EXCEPT ![1] = Document(nodes[n])]
            ELSE Append(db[n], Document(nodes[n]))

(* The nodes that were loaded when the server started.  (Their ids are not *)
(* given out again by this server.)                                        *)
WereLoaded == Loaded(Found(db))

(* vs_mongo_context_save.  Documents are never removed.                    *)
vs_mongo_context_save ==
  LET L == WereLoaded
  IN [n \in Ids |-> IF Saved(n) THEN vs_mongo_node_save(n, n \in L) ELSE db[n]]

(* Every node that is loaded is named once in the documents D.  Old        *)
(* documents may name a node a second time; what the server makes of them  *)
(* is left out.                                                            *)
NamedOnce(D) ==
  LET L == Loaded(D)
  IN \A p, q \in L : \A i \in DOMAIN D[p].children, j \in DOMAIN D[q].children :
       D[p].children[i] = D[q].children[j] => p = q /\ i = j

(* The nodes after vs_nodes_init and vs_mongo_context_load.  Links are     *)
(* created from the top, so that levels count from the root.               *)
vs_mongo_context_load(D) ==
  LET L == Loaded(D)
      Parent(n) == IF n = SCENE THEN ROOT
                   ELSE CHOOSE p \in L : n \in ToSet(D[p].children)
      Level[n \in Ids] == IF n = SCENE THEN 1 ELSE Level[Parent(n)] + 1
      Node(n) == [FreeNode EXCEPT
        !.state = CREATED, !.parent = Parent(n), !.level = Level[n], !.saveable = TRUE,
        !.owner = D[n].owner, !.permissions = D[n].permissions,
        !.children = SelectSeq(D[n].children, LAMBDA k : D[k].stored)]
  IN IF ~D[SCENE].stored THEN vs_nodes_init
     ELSE [n \in Ids |-> IF n \in L THEN Node(n) ELSE vs_nodes_init[n]]

(* last_common_node_id after loading: documents that are not reached do    *)
(* not count.                                                              *)
LastId(D) ==
  LET common == Reached(D) \ 0 .. FIRST_COMMON_ID
  IN IF common = {} THEN FIRST_COMMON_ID
     ELSE CHOOSE n \in common : \A m \in common : m <= n

StorageInit ==
  /\ workload \in Workloads
  /\ db = [n \in Ids |-> IF n \in DOMAIN workload.stored THEN <<workload.stored[n]>> ELSE <<>>]
  /\ Started(vs_mongo_context_load(Found(db)), LastId(Found(db)))
  /\ restarts = 0 /\ again = {}

(* The server starts with the database B; sessions do not survive.         *)
Restart(B) ==
  LET D == Found(B)
  IN /\ restarts' = restarts + 1
     /\ restarts < workload.restarts
     /\ NamedOnce(D)
     /\ nodes' = vs_mongo_context_load(D) /\ last_id' = LastId(D)
     /\ avatar_id' = [c \in Clients |-> NoNode] /\ online' = {}
     /\ net' = [c \in Clients |-> {}] /\ acks' = [c \in Clients |-> {}]
     /\ out_queue' = [c \in Clients |-> <<>>] /\ wire' = [c \in Clients |-> <<>>]
     /\ view' = [c \in Clients |-> EmptyView]
     /\ UNCHANGED <<workload, ops>>
     /\ db' = B /\ again' = {}

(* The end of main: vs_mongo_context_save, and the next start.             *)
Shutdown == Restart(vs_mongo_context_save)

(* The server is killed: nothing is saved.                                 *)
Crash == Restart(db)

StorageNext ==
  \/ /\ Next
     /\ again' = again \union {x \in Clients \X Ids : Len(nodes'[x[2]].folls[x[1]]) > 1}
     /\ UNCHANGED <<db, restarts>>
  \/ Shutdown
  \/ Crash

StorageSpec == StorageInit /\ [][StorageNext]_storageVars /\ Fairness

-----------------------------------------------------------------------------
(* Properties.                                                             *)

(* A client that stays and the server agree on a node: its commands come   *)
(* in an order that the client understands, and lead to the same nodes on  *)
(* both sides, in whatever order datagrams arrive.  A node that was        *)
(* announced by datagrams again before it was destroyed is excepted:       *)
(* vs_handle_node_create_ack may take a node for created that is being     *)
(* destroyed, which is then sent to subscribers once more.                 *)
ClientsAgree ==
  \A c \in Stayers, n \in Ids :
    (<<c, n>> \in again => c \in streams) => DestroyAfterCreate(c, n) /\ AgreeWhenQuiet(c, n)

(* The scene: its nodes, with what is stored of them.                      *)
Scene == [n \in {n \in Ids : Exists(n) /\ Below(nodes, n, SCENE)} |-> Document(nodes[n])]

(* A new node of the scene has the id of a document in the database.       *)
OldDocument == \E n \in Ids \ WereLoaded : Saved(n) /\ db[n] # <<>>

(* A server that was stopped in an orderly way has the same scene when it  *)
(* is started again, also if the scene was loaded, changed and saved       *)
(* before, unless a new node has the id of an old document (nodes that     *)
(* waited for clients to confirm that they are destroyed come back).       *)
(* After a start there are no other nodes: avatars and what was not moved  *)
(* to the scene are gone.                                                  *)
SceneSurvives ==
  [][/\ (Shutdown /\ ~OldDocument) => Scene' = Scene
     /\ restarts' # restarts => {n \in Ids : Exists(n)}' = 0 .. 3 \union DOMAIN Scene']_storageVars
=============================================================================
