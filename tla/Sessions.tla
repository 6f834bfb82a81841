------------------------------ MODULE Sessions ------------------------------
(***************************************************************************)
(* Sessions of clients at the Verse server, from connecting to the reuse   *)
(* of the session slot: the stream threads of the server (vs_tcp_connect.c,*)
(* vs_handshake.c, vs_websocket.c), of the client (vc_tcp_connect.c), the  *)
(* life of the datagram threads they create, the negotiation of their      *)
(* ports, and how the server stops (vs_main.c, vs_main_listen_loop).       *)
(*                                                                         *)
(* A handler runs as one step: it reads one message, changes the session   *)
(* and sends the reply, except where it waits for another thread or uses   *)
(* the counts of ports, which the threads share without a lock: there, a   *)
(* step is one read or one write.  TLS delivers the messages of a stream   *)
(* in order and one at a time.  What datagrams and streams carry           *)
(* afterwards is in UdpConnection, Resend and Stream, and what the data    *)
(* thread does with it in Nodes, TagGroups and Layers.  Web clients are    *)
(* not part of the repository: they are taken to follow the protocol of    *)
(* the server.                                                             *)
(***************************************************************************)
EXTENDS Integers, FiniteSets, Sequences

CONSTANTS
  Clients,     \* sessions that clients ask for, one after another or at the same time
  Slots,       \* vsessions of the server
  UINT_MAX,    \* the largest unsigned int
  Workloads    \* a behaviour runs one of these records: the transport that each client
               \* prefers (NONE if it does not connect), the slots and the port list of the
               \* server (port_low and on), the clients that may crash, give a wrong password,
               \* or be too slow, and whether the server may be stopped

NONE == "NONE"

(* Transports.                                                             *)
UDP       == "UDP"
TCP       == "TCP"
WEBSOCKET == "WEBSOCKET"

NoClient == "NoClient"
NoAvatar == -1
NoToken  == -1
NoUrl    == -1

ASSUME SessionsAssumption ==
  /\ IsFiniteSet(Clients) /\ IsFiniteSet(Slots) /\ Slots \subseteq Nat
  /\ UINT_MAX \in Nat \ {0}
  /\ NoClient \notin Clients
  /\ \A w \in Workloads :
       /\ w.transport \in [Clients -> {UDP, TCP, WEBSOCKET, NONE}]
       /\ w.slots \subseteq Slots /\ w.port_low \in Nat /\ w.ports \in Nat
       /\ w.port_low >= 49152   \* vs_read_config_file refuses lower ports
       /\ w.unlucky \subseteq Clients /\ w.stop \in BOOLEAN

VARIABLES
  workload,
  client,       \* the client side of every session
  net,          \* its stream: messages in both directions, and which end is closed
  backlog,      \* connections that the server has not accepted yet
  slot,         \* the server side
  late,         \* threads of earlier sessions that have not cleared their slot yet
  aggregation,  \* of the ports in the port list
  raced,        \* history: the ports that a session got although another one had found
                \* them, or without counting them
  avatars,      \* avatar nodes
  avatar_count, \* the last avatar id
  server        \* state of the server

vars == <<workload, client, net, backlog, slot, late, aggregation, raced, avatars, avatar_count,
          server>>

clientVars == <<workload, backlog, slot, late, aggregation, raced, avatars, avatar_count, server>>
serverVars == <<workload, client>>

Transport(c) == workload.transport[c]
PortList     == workload.port_low .. (workload.port_low + workload.ports - 1)
Started      == {c \in Clients : Transport(c) # NONE}

-----------------------------------------------------------------------------
(* Messages of the handshake.  A token and an avatar id are fresh numbers; *)
(* an URL is the number of its port.                                       *)

Msg(type, arg) == [type |-> type, arg |-> arg]

AuthNone          == Msg("USER_AUTH_REQUEST_NONE", 0)
AuthPassword(ok)  == Msg("USER_AUTH_REQUEST_PASSWORD", ok)
Methods           == Msg("USER_AUTH_FAILURE_METHODS", 0)
AuthFailure       == Msg("USER_AUTH_FAILURE", 0)
AuthSuccess(a)    == Msg("USER_AUTH_SUCCESS", a)
TokenDed(token)   == Msg("CONFIRM_R_TOKEN", token)
HostUrl(url)      == Msg("CHANGE_L_HOST_URL", url)
ConfirmUrl(url)   == Msg("CONFIRM_L_HOST_URL", url)
CloseFrame        == Msg("CONNECTION_CLOSE", 0)

(* What a stream thread of either end finds at its socket.                 *)
ToClient(c, m)  == [net EXCEPT ![c].to_client = Append(@, m)]
ToServer(c, m)  == [net EXCEPT ![c].to_server = Append(@, m)]
HasMsg(c, type) == net[c].to_client # <<>> /\ Head(net[c].to_client).type = type
Answer(c, m)    == [net EXCEPT ![c].to_server = Tail(@), ![c].to_client = Append(@, m)]
Quiet(c)        == net[c].to_client = <<>>

-----------------------------------------------------------------------------
(* Initial states.                                                         *)

(* v_init_session, and vrs_send_connect_request before it is called.       *)
NewClient ==
  [state |-> "IDLE", sent |-> FALSE, right |-> FALSE, avatar |-> NoAvatar, token |-> NoToken,
   url |-> NoUrl, udp |-> NONE, accepted |-> FALSE, told |-> FALSE]

(* What a search for a port keeps, before it is used.                      *)
NoSearch == [probe |-> 0, min_aggregation |-> 0, la_port |-> 0]

(* vs_init_sessions.                                                       *)
NewSlot ==
  [state |-> "LISTEN", thread |-> NONE, client |-> NoClient, web |-> FALSE, user |-> NoClient,
   avatar |-> NoAvatar, token |-> NoToken, flags |-> {}, url |-> NoUrl,
   udp |-> NONE, dgram |-> "CLOSED", port |-> 0, peer |-> NoClient,
   search |-> NoSearch, count |-> 0]

Init ==
  /\ workload \in Workloads
  /\ client = [c \in Clients |-> NewClient]
  /\ net = [c \in Clients |-> [to_server |-> <<>>, to_client |-> <<>>,
                               client_end |-> FALSE, server_end |-> FALSE]]
  /\ backlog = <<>>
  /\ slot = [s \in Slots |-> NewSlot]
  /\ late = [s \in Slots |-> [tcp |-> 0, web |-> 0]]
  /\ aggregation = [p \in PortList |-> 0]
  /\ raced = {}
  /\ avatars = {}
  /\ avatar_count = 0
  /\ server = "READY"

-----------------------------------------------------------------------------
(* The client: vc_main_stream_loop.                                        *)

(* vrs_send_connect_request: a session and its thread are created, and the *)
(* thread connects to the server.                                          *)
vrs_send_connect_request(c) ==
  /\ c \in Started /\ client[c].state = "IDLE" /\ server = "READY"
  /\ client' = [client EXCEPT ![c].state = "CONNECTING"]
  /\ net' = [net EXCEPT ![c].client_end = TRUE, ![c].server_end = TRUE]
  /\ backlog' = Append(backlog, c)
  /\ UNCHANGED <<workload, slot, late, aggregation, raced, avatars, avatar_count, server>>

(* vc_create_client_stream_conn: the server closed the connection instead  *)
(* of a TLS handshake; the application is told.                            *)
vc_connect_failed(c) ==
  /\ client[c].state = "CONNECTING" /\ ~net[c].server_end
  /\ client' = [client EXCEPT ![c].state = "CLOSED", ![c].told = TRUE]
  /\ net' = [net EXCEPT ![c].client_end = FALSE]
  /\ UNCHANGED clientVars

(* vc_USRAUTH_none_loop: the application gives a user name.                *)
vc_USRAUTH_none_loop(c) ==
  /\ client[c].state = "USRAUTH_NONE" /\ ~client[c].sent
  /\ client' = [client EXCEPT ![c].sent = TRUE]
  /\ net' = ToServer(c, AuthNone)
  /\ UNCHANGED clientVars

(* ... and the list of methods arrives.                                    *)
vc_methods_received(c) ==
  /\ client[c].state = "USRAUTH_NONE" /\ client[c].sent /\ HasMsg(c, "USER_AUTH_FAILURE_METHODS")
  /\ client' = [client EXCEPT ![c].state = "USRAUTH_DATA", ![c].sent = FALSE]
  /\ net' = [net EXCEPT ![c].to_client = Tail(@)]
  /\ UNCHANGED clientVars

(* vc_USRAUTH_data_loop: the application gives a password.                 *)
vc_USRAUTH_data_loop(c) ==
  /\ client[c].state = "USRAUTH_DATA" /\ ~client[c].sent
  /\ \E ok \in IF c \in workload.unlucky THEN BOOLEAN ELSE {TRUE} :
       /\ client' = [client EXCEPT ![c].sent = TRUE, ![c].right = ok]
       /\ net' = ToServer(c, AuthPassword(ok))
  /\ UNCHANGED clientVars

(* ... and the user is authenticated: vc_NEGOTIATE_token_dtd_loop confirms *)
(* the token and proposes the transport; a refused client closes.          *)
vc_auth_received(c) ==
  /\ client[c].state = "USRAUTH_DATA" /\ client[c].sent
  /\ \/ /\ HasMsg(c, "USER_AUTH_SUCCESS")
        /\ LET a == Head(net[c].to_client).arg
           IN /\ client' = [client EXCEPT ![c].state = "NEGOTIATE_TOKEN_DED",
                                          ![c].avatar = a, ![c].token = a]
              /\ net' = [net EXCEPT ![c].to_client = Tail(@),
                                    ![c].to_server = Append(@, TokenDed(a))]
     \/ /\ HasMsg(c, "USER_AUTH_FAILURE")
        /\ client' = [client EXCEPT ![c].state = "CLOSING"]
        /\ net' = [net EXCEPT ![c].to_client = Tail(@)]
  /\ UNCHANGED clientVars

(* ... and the server proposes an URL: a thread for datagrams is created,  *)
(* or the stream is used on (for a web client, with its own URL).          *)
vc_NEGOTIATE_token_dtd_loop(c) ==
  /\ client[c].state = "NEGOTIATE_TOKEN_DED" /\ HasMsg(c, "CHANGE_L_HOST_URL")
  /\ LET url == Head(net[c].to_client).arg
         read == [net EXCEPT ![c].to_client = Tail(@)]
     IN \/ /\ Transport(c) = UDP
           /\ client' = [client EXCEPT ![c].state = "NEGOTIATE_NEWHOST",
                                       ![c].url = url, ![c].udp = "REQUEST"]
           /\ net' = read
        \/ /\ Transport(c) = TCP
           /\ client' = [client EXCEPT ![c].state = "STREAM_OPEN", ![c].url = url,
                                       ![c].accepted = TRUE]
           /\ net' = [read EXCEPT ![c].to_server = Append(@, ConfirmUrl(url))]
        \/ /\ Transport(c) = WEBSOCKET
           /\ client' = [client EXCEPT ![c].state = "STREAM_OPEN", ![c].accepted = TRUE]
           /\ net' = read
  /\ UNCHANGED clientVars

(* The datagram thread that a handler waits for could not bind its port:   *)
(* the handler waits for ever.                                             *)
Stuck(s) == slot[s].thread = "WAIT" /\ slot[s].udp = "ENDED"

(* Mutant: the client waits without limit for the tokens.                 *)
Waits_NoToken(c) ==
  client[c].state \in {"USRAUTH_NONE", "USRAUTH_DATA"} /\ client[c].sent

(* The states in which the client waits for an answer.                     *)
Waits(c) ==
  \/ client[c].state \in {"USRAUTH_NONE", "USRAUTH_DATA"} /\ client[c].sent
  \/ client[c].state = "NEGOTIATE_TOKEN_DED"

(* No answer of the server within VRS_TIMEOUT, or the server closed the    *)
(* stream.                                                                 *)
vc_no_answer(c) ==
  /\ Quiet(c)
  /\ Waits(c) \/ client[c].state = "STREAM_OPEN"
  /\ \/ ~net[c].server_end
     \/ Waits(c) /\ (c \in workload.unlucky \/ \E s \in Slots : slot[s].client = c /\ Stuck(s))
  /\ client' = [client EXCEPT ![c].state = "CLOSING"]
  /\ UNCHANGED <<net, clientVars>>

(* A web client answers a close frame of the server.                       *)
vc_close_frame(c) ==
  /\ client[c].state \notin {"IDLE", "CONNECTING", "CLOSING", "CLOSED"}
  /\ HasMsg(c, "CONNECTION_CLOSE")
  /\ client' = [client EXCEPT ![c].state = "CLOSING"]
  /\ net' = [net EXCEPT ![c].to_client = Tail(@), ![c].to_server = Append(@, CloseFrame)]
  /\ UNCHANGED clientVars

(* vrs_send_connect_terminate: the application asks for the end of the     *)
(* session.  It is seen where commands of the application are read.        *)
vrs_send_connect_terminate(c) ==
  /\ \/ /\ client[c].state \in {"USRAUTH_NONE", "USRAUTH_DATA"} /\ ~client[c].sent
        /\ client' = [client EXCEPT ![c].state = "CLOSING"] /\ net' = net
     \/ /\ client[c].state = "STREAM_OPEN"
        /\ client' = [client EXCEPT ![c].state = "CLOSING"]
        /\ net' = IF Transport(c) = WEBSOCKET THEN ToServer(c, CloseFrame) ELSE net
     \/ /\ client[c].udp = "OPEN"
        /\ client' = [client EXCEPT ![c].udp = "ENDED"] /\ net' = net
  /\ UNCHANGED clientVars

(* The end of the datagram thread of the client: the connection was torn   *)
(* down, or nothing was heard from the server for too long.                *)
vc_OPEN_loop_ends(c) ==
  /\ client[c].udp = "OPEN"
  /\ client' = [client EXCEPT ![c].udp = "ENDED"]
  /\ UNCHANGED <<net, clientVars>>

(* The stream is closed (vc_destroy_stream_conn), and once the datagram    *)
(* thread is joined the application is told.                               *)
vc_CLOSING(c) ==
  /\ client[c].state = "CLOSING"
  /\ \/ /\ net[c].client_end
        /\ net' = [net EXCEPT ![c].client_end = FALSE, ![c].to_client = <<>>]
        /\ client' = client
     \/ /\ ~net[c].client_end /\ client[c].udp \in {NONE, "ENDED"}
        /\ client' = [client EXCEPT ![c].state = "CLOSED", ![c].told = TRUE]
        /\ net' = net
  /\ UNCHANGED clientVars

(* The process of a client dies.                                           *)
Crash(c) ==
  /\ c \in workload.unlucky /\ client[c].state \notin {"IDLE", "CLOSED"}
  /\ client' = [client EXCEPT ![c].state = "CLOSED",
                              ![c].udp = IF @ = NONE THEN NONE ELSE "ENDED"]
  /\ net' = [net EXCEPT ![c].client_end = FALSE, ![c].to_client = <<>>]
  /\ UNCHANGED clientVars

-----------------------------------------------------------------------------
(* The server: vs_main_listen_loop and the stream threads.                 *)

Running   == server \in {"READY", "CLOSING"}
Received(s, type) ==
  /\ Running /\ slot[s].thread = "RUN"
  /\ LET q == net[slot[s].client].to_server IN q # <<>> /\ Head(q).type = type
Argument(s) == Head(net[slot[s].client].to_server).arg

(* The stream thread leaves its loop: vs_CLOSING.                          *)
Ended(e)   == [e EXCEPT !.state = "CLOSED", !.thread = IF e.web THEN "FREE" ELSE "JOIN"]
Hangup(c)  == [net EXCEPT ![c].server_end = FALSE, ![c].to_server = <<>>]

(* Mutant: a session that is being freed is taken too.                    *)
SlotFree_Closed(s) ==
  slot[s].state \in {"LISTEN", "CLOSED"}

(* The test of vs_new_stream_conn for a session slot that is free.         *)
SlotFree(s) ==
  slot[s].state = "LISTEN"

(* vs_new_stream_conn: the first free slot is taken, with all that an      *)
(* earlier session left in it; without one the connection is closed.       *)
vs_new_stream_conn ==
  /\ server = "READY" /\ backlog # <<>>
  /\ LET c == Head(backlog)
         free == {s \in workload.slots : SlotFree(s)}
     IN IF free = {} THEN slot' = slot /\ net' = Hangup(c)
        ELSE LET s == CHOOSE s \in free : \A t \in free : s <= t
             IN /\ slot' = [slot EXCEPT ![s].state = "RESPOND_METHODS", ![s].client = c,
                                        ![s].thread = "TLS", ![s].web = Transport(c) = WEBSOCKET]
                /\ net' = net
  /\ backlog' = Tail(backlog)
  /\ UNCHANGED <<serverVars, late, aggregation, raced, avatars, avatar_count, server>>

(* vs_TLS_handshake, or http_handshake for a web client, which may fail.   *)
vs_TLS_handshake(s) ==
  /\ Running /\ slot[s].thread = "TLS"
  /\ LET c == slot[s].client
     IN \/ /\ net[c].client_end
           /\ slot' = [slot EXCEPT ![s].state = "RESPOND_METHODS", ![s].thread = "RUN",
                                   ![s].flags = IF slot[s].web THEN @ \union {WEBSOCKET} ELSE @]
           /\ client' = [client EXCEPT ![c].state = "USRAUTH_NONE"]
           /\ net' = net
        \/ /\ ~net[c].client_end \/ c \in workload.unlucky
           /\ slot' = [slot EXCEPT ![s] = Ended(@)]
           /\ net' = Hangup(c)
           /\ client' = client
  /\ UNCHANGED <<workload, backlog, late, aggregation, raced, avatars, avatar_count, server>>

(* vs_RESPOND_methods_loop.                                                *)
vs_RESPOND_methods_loop(s) ==
  /\ slot[s].state = "RESPOND_METHODS" /\ Received(s, "USER_AUTH_REQUEST_NONE")
  /\ slot' = [slot EXCEPT ![s].state = "RESPOND_USRAUTH"]
  /\ net' = Answer(slot[s].client, Methods)
  /\ UNCHANGED <<serverVars, backlog, late, aggregation, raced, avatars, avatar_count, server>>

(* vs_RESPOND_userauth_loop: the next state is the same for a right and    *)
(* for a wrong password.                                                   *)
vs_RESPOND_userauth_loop(s) ==
  /\ slot[s].state = "RESPOND_USRAUTH" /\ Received(s, "USER_AUTH_REQUEST_PASSWORD")
  /\ LET c == slot[s].client
         a == avatar_count + 1
     IN \/ /\ Argument(s)
           /\ avatar_count' = a
           /\ avatars' = avatars \union {a}
           /\ slot' = [slot EXCEPT ![s].state = "NEGOTIATE_TOKEN_DED", ![s].user = c,
                                   ![s].avatar = a, ![s].token = a]
           /\ net' = Answer(c, AuthSuccess(a))
        \/ /\ ~Argument(s)
           /\ slot' = [slot EXCEPT ![s].state = "NEGOTIATE_TOKEN_DED"]
           /\ net' = Answer(c, AuthFailure)
           /\ UNCHANGED <<avatars, avatar_count>>
  /\ UNCHANGED <<serverVars, backlog, late, aggregation, raced, server>>

(* vs_handle_handshake failed: the stream thread of a client ends; a web   *)
(* client is sent a close frame.                                           *)
Refused(s) ==
  \/ /\ ~slot[s].web
     /\ slot' = [slot EXCEPT ![s] = Ended(@)]
     /\ net' = Hangup(slot[s].client)
  \/ /\ slot[s].web
     /\ slot' = [slot EXCEPT ![s].state = "CLOSING", ![s].thread = "BYE"]
     /\ net' = Answer(slot[s].client, CloseFrame)

(* vs_NEGOTIATE_token_ded_loop: the client confirms the token of the       *)
(* session, and the search for a port begins.                              *)
vs_NEGOTIATE_token_ded_loop(s) ==
  /\ slot[s].state = "NEGOTIATE_TOKEN_DED" /\ Received(s, "CONFIRM_R_TOKEN")
  /\ \/ Argument(s) # slot[s].token /\ Refused(s)
     \/ /\ Argument(s) = slot[s].token
        /\ slot' = [slot EXCEPT ![s].thread = "SEARCH",
                                ![s].search = [probe |-> workload.port_low,
                                               min_aggregation |-> UINT_MAX, la_port |-> 0]]
        /\ net' = [net EXCEPT ![slot[s].client].to_server = Tail(@)]
  /\ UNCHANGED <<serverVars, backlog, late, aggregation, raced, avatars, avatar_count, server>>

(* Another stream thread found port p unused and has not counted it yet.   *)
FoundByOther(s, p) ==
  \E t \in Slots \ {s} : slot[t].thread \in {"COUNT", "STORE"} /\ slot[t].port = p

(* The search for a port looks at the next one: is it unused?              *)
vs_test_port(s) ==
  /\ Running /\ slot[s].thread = "SEARCH"
  /\ LET p == slot[s].search.probe
     IN /\ p \in PortList
        /\ IF aggregation[p] = 0
           THEN /\ slot' = [slot EXCEPT ![s].thread = "COUNT", ![s].port = p]
                /\ raced' = IF FoundByOther(s, p) THEN raced \union {p} ELSE raced
           ELSE slot' = [slot EXCEPT ![s].thread = "COMPARE"] /\ raced' = raced
  /\ UNCHANGED <<serverVars, net, backlog, late, aggregation, avatars, avatar_count, server>>

(* ... or is it used less than those before it?  Its count is read again,  *)
(* and its number kept in an unsigned char.                                *)
vs_compare_port(s) ==
  /\ Running /\ slot[s].thread = "COMPARE"
  /\ LET f == slot[s].search
         n == aggregation[f.probe]
         less == n < f.min_aggregation
     IN slot' = [slot EXCEPT ![s].thread = "SEARCH",
                             ![s].search = [probe |-> f.probe + 1,
                                            min_aggregation |-> IF less THEN n ELSE f.min_aggregation,
                                            la_port |-> IF less THEN f.probe % 256 ELSE f.la_port]]
  /\ UNCHANGED <<serverVars, net, backlog, late, aggregation, raced, avatars, avatar_count, server>>

(* The count of the port that was found is incremented: it is read ...     *)
vs_load_count(s) ==
  /\ Running /\ slot[s].thread = "COUNT"
  /\ slot' = [slot EXCEPT ![s].thread = "STORE", ![s].count = aggregation[slot[s].port]]
  /\ UNCHANGED <<serverVars, net, backlog, late, aggregation, raced, avatars, avatar_count, server>>

(* The rest of vs_NEGOTIATE_token_ded_loop, once the session has a port.   *)
(* A web client goes on with its stream; a thread for datagrams is created *)
(* and the handler waits for it; or the stream is proposed.                *)
Negotiated(s, port) ==
  LET c     == slot[s].client
      flags == slot[s].flags \union {Transport(c)}
      e     == [slot[s] EXCEPT !.port = port, !.search = NoSearch, !.count = 0]
  IN \/ /\ slot[s].web
        /\ slot' = [slot EXCEPT ![s] = [e EXCEPT !.thread = "RUN", !.state = "STREAM_OPEN"]]
        /\ net' = ToClient(c, HostUrl(NoUrl))
     \/ /\ ~slot[s].web /\ UDP \in flags
        /\ slot' = [slot EXCEPT ![s] = [e EXCEPT !.thread = "WAIT", !.flags = flags, !.udp = "START"]]
        /\ net' = net
     \/ /\ ~slot[s].web /\ UDP \notin flags
        /\ slot' = [slot EXCEPT ![s] = [e EXCEPT !.thread = "RUN", !.flags = flags, !.url = port,
                                                 !.state = "NEGOTIATE_NEWHOST"]]
        /\ net' = ToClient(c, HostUrl(port))

(* Mutant: the port is used without being counted.                        *)
CountedPort_Not(s) ==
  aggregation

(* ... and written.  The port is counted for every transport.              *)
CountedPort(s) ==
  [aggregation EXCEPT ![slot[s].port] = IF slot[s].count = UINT_MAX THEN 0 ELSE slot[s].count + 1]

vs_store_count(s) ==
  /\ Running /\ slot[s].thread = "STORE"
  /\ aggregation' = CountedPort(s)
  /\ Negotiated(s, slot[s].port)
  /\ UNCHANGED <<serverVars, backlog, late, raced, avatars, avatar_count, server>>

(* No port was unused: the one with the lowest count is used, and not      *)
(* counted.  If that count was 0 by then, the port is the one that an      *)
(* earlier session left in the slot.                                       *)
vs_lowest_port(s) ==
  /\ Running /\ slot[s].thread = "SEARCH" /\ slot[s].search.probe \notin PortList
  /\ \/ /\ slot[s].search.min_aggregation # 0
        /\ Negotiated(s, slot[s].search.la_port) /\ raced' = raced
     \/ /\ slot[s].search.min_aggregation = 0
        /\ Negotiated(s, slot[s].port) /\ raced' = raced \union {slot[s].port}
  /\ UNCHANGED <<serverVars, backlog, late, aggregation, avatars, avatar_count, server>>

(* ... until the datagram connection of the slot is in the state LISTEN.   *)
vs_wait_for_LISTEN(s) ==
  /\ Running /\ slot[s].thread = "WAIT" /\ slot[s].dgram = "LISTEN"
  /\ slot' = [slot EXCEPT ![s].thread = "RUN", ![s].state = "NEGOTIATE_NEWHOST",
                          ![s].url = slot[s].port]
  /\ net' = ToClient(slot[s].client, HostUrl(slot[s].port))
  /\ UNCHANGED <<serverVars, backlog, late, aggregation, raced, avatars, avatar_count, server>>

(* pthread_cancel of the datagram thread, which acts where the thread      *)
(* waits or prints, and not while it frees its port.                       *)
Cancelled(e) == [e EXCEPT !.udp = IF @ \in {"START", "RUN"} THEN "ENDED" ELSE @]

(* vs_NEGOTIATE_newhost_loop: with a confirmed URL the stream is closed    *)
(* for datagrams or stays open; otherwise the datagram thread is           *)
(* cancelled.                                                              *)
vs_NEGOTIATE_newhost_loop(s) ==
  /\ slot[s].state = "NEGOTIATE_NEWHOST" /\ Received(s, "CONFIRM_L_HOST_URL")
  /\ LET c == slot[s].client
         ok == Argument(s) = slot[s].url
         read == [net EXCEPT ![c].to_server = Tail(@)]
     IN \/ /\ ok /\ UDP \in slot[s].flags
           /\ slot' = [slot EXCEPT ![s] = Ended(@)] /\ net' = Hangup(c)
        \/ /\ ok /\ UDP \notin slot[s].flags /\ TCP \in slot[s].flags
           /\ slot' = [slot EXCEPT ![s].state = "STREAM_OPEN"] /\ net' = read
        \/ /\ ok /\ slot[s].flags = {}
           /\ slot' = slot /\ net' = read
        \/ /\ ~ok
           /\ slot' = [slot EXCEPT ![s] = Cancelled(Ended(@))]
           /\ net' = Hangup(c)
  /\ UNCHANGED <<serverVars, backlog, late, aggregation, raced, avatars, avatar_count, server>>

(* vs_websocket_loop: the server closes the connection of a web client,    *)
(* because it stops or because the client did not answer for VRS_TIMEOUT   *)
(* in the handshake.  The loop goes on.                                    *)
vs_ws_close(s) ==
  /\ Running /\ slot[s].thread = "RUN" /\ slot[s].web
  /\ LET c == slot[s].client
     IN /\ \/ server = "CLOSING"
           \/ c \in workload.unlucky /\ net[c].to_server = <<>> /\ slot[s].state # "STREAM_OPEN"
        /\ net' = ToClient(c, CloseFrame)
  /\ slot' = [slot EXCEPT ![s].state = "CLOSING", ![s].thread = "BYE"]
  /\ UNCHANGED <<serverVars, backlog, late, aggregation, raced, avatars, avatar_count, server>>

(* vs_ws_recv_msg_callback: the close frame of a web client is answered,   *)
(* unless it is an answer, and the loop ends; in the state CLOSING other   *)
(* messages are dropped.                                                   *)
vs_ws_recv_msg_callback(s) ==
  /\ Running /\ slot[s].web /\ slot[s].thread \in {"RUN", "BYE"}
  /\ LET c == slot[s].client
         q == net[c].to_server
         reply == IF slot[s].thread = "RUN" THEN <<CloseFrame>> ELSE <<>>
     IN /\ q # <<>>
        /\ \/ /\ Head(q).type = "CONNECTION_CLOSE"
              /\ slot' = [slot EXCEPT ![s] = Ended(@)]
              /\ net' = [Hangup(c) EXCEPT ![c].to_client = @ \o reply]
           \/ /\ Head(q).type # "CONNECTION_CLOSE" /\ slot[s].state = "CLOSING"
              /\ slot' = slot
              /\ net' = [net EXCEPT ![c].to_server = Tail(@)]
  /\ UNCHANGED <<serverVars, backlog, late, aggregation, raced, avatars, avatar_count, server>>

(* Mutant: the end of the stream is noticed by the timeout only.          *)
StreamLost_Timeout(s) ==
  LET c == slot[s].client
  IN /\ net[c].to_server = <<>>
     /\ c \in workload.unlucky /\ ~slot[s].web /\ slot[s].state # "STREAM_OPEN"

(* The client closed the stream, or did not answer for VRS_TIMEOUT in the  *)
(* handshake.                                                              *)
StreamLost(s) ==
  LET c == slot[s].client
  IN /\ net[c].to_server = <<>>
     /\ \/ ~net[c].client_end
        \/ c \in workload.unlucky /\ ~slot[s].web /\ slot[s].state # "STREAM_OPEN"

(* The loops of the stream threads end, that of a client also when the     *)
(* session is closed.                                                      *)
vs_stream_ends(s) ==
  /\ Running /\ slot[s].thread \in {"RUN", "BYE"}
  /\ StreamLost(s) \/ (~slot[s].web /\ slot[s].state = "CLOSING")
  /\ net' = Hangup(slot[s].client)
  /\ slot' = [slot EXCEPT ![s] = Ended(@)]
  /\ UNCHANGED <<serverVars, backlog, late, aggregation, raced, avatars, avatar_count, server>>

(* The stream thread waits for the datagram thread of the session.         *)
Joined(s) ==
  slot[s].udp \in {NONE, "ENDED"}

vs_join_udp_thread(s) ==
  /\ Running /\ slot[s].thread = "JOIN" /\ Joined(s)
  /\ slot' = [slot EXCEPT ![s].thread = "FREE"]
  /\ UNCHANGED <<serverVars, net, backlog, late, aggregation, raced, avatars, avatar_count, server>>

(* The avatar of the session is destroyed (vs_node_destroy_avatar_node).   *)
vs_session_ends(s) ==
  /\ Running /\ slot[s].thread = "FREE"
  /\ avatars' = avatars \ {slot[s].avatar}
  /\ slot' = [slot EXCEPT ![s].thread = "LISTEN",
                          ![s].avatar = IF @ \in avatars THEN @ ELSE NoAvatar]
  /\ UNCHANGED <<serverVars, net, backlog, late, aggregation, raced, avatar_count, server>>

(* The slot may be used again.  Its thread is not at its end: it is one of *)
(* those that are late.                                                    *)
vs_slot_listens(s) ==
  /\ Running /\ slot[s].thread = "LISTEN"
  /\ slot' = [slot EXCEPT ![s].thread = NONE, ![s].state = "LISTEN", ![s].client = NoClient]
  /\ late' = IF slot[s].web THEN [late EXCEPT ![s].web = @ + 1] ELSE [late EXCEPT ![s].tcp = @ + 1]
  /\ UNCHANGED <<serverVars, net, backlog, aggregation, raced, avatars, avatar_count, server>>

(* Only then its thread clears flags and token; vs_websocket_loop leaves   *)
(* the token.                                                              *)
vs_slot_cleared(s) ==
  /\ Running
  /\ \/ /\ late[s].tcp > 0
        /\ late' = [late EXCEPT ![s].tcp = @ - 1]
        /\ slot' = [slot EXCEPT ![s].flags = {}, ![s].token = NoToken]
     \/ /\ late[s].web > 0
        /\ late' = [late EXCEPT ![s].web = @ - 1]
        /\ slot' = [slot EXCEPT ![s].flags = {}]
  /\ UNCHANGED <<serverVars, net, backlog, aggregation, raced, avatars, avatar_count, server>>

-----------------------------------------------------------------------------
(* Datagram threads.  Their handshake is in module UdpConnection; here it  *)
(* is a step of the server and a step of the client.                       *)

(* The end of a datagram thread frees its port.  The count is read ...     *)
Freeing(s) ==
  [slot EXCEPT ![s].udp = "FREE",
               ![s].count = IF slot[s].port \in PortList THEN aggregation[slot[s].port] ELSE 0]

(* vs_main_dgram_loop opens a socket at the port of the session, which     *)
(* other threads may have bound, too.  It may fail.                        *)
vs_init_dgram_ctx(s) ==
  /\ Running /\ slot[s].udp = "START"
  /\ \/ slot' = [slot EXCEPT ![s].udp = "RUN", ![s].dgram = "LISTEN"]
     \/ slot' = Freeing(s)
  /\ UNCHANGED <<serverVars, net, backlog, late, aggregation, raced, avatars, avatar_count, server>>

Connects(c, s) ==
  /\ client[c].udp = "REQUEST" /\ client[c].url = slot[s].port
  /\ slot[s].udp = "RUN" /\ client[c].token = slot[s].token

(* The server answers a request with the token of the session.             *)
vs_LISTEN_handle_packet(s) ==
  /\ Running /\ slot[s].dgram = "LISTEN"
  /\ \E c \in Clients : /\ Connects(c, s)
                        /\ slot' = [slot EXCEPT ![s].dgram = "OPEN", ![s].peer = c]
  /\ UNCHANGED <<serverVars, net, backlog, late, aggregation, raced, avatars, avatar_count, server>>

(* vc_main_dgram_loop: the client is connected, confirms the URL, and lets *)
(* the stream thread close the stream.                                     *)
vc_PARTOPEN_loop(c) ==
  /\ \E s \in Slots : Connects(c, s) /\ slot[s].dgram = "OPEN" /\ slot[s].peer = c
  /\ client' = [client EXCEPT ![c].udp = "OPEN", ![c].accepted = TRUE, ![c].state = "CLOSING"]
  /\ net' = ToServer(c, ConfirmUrl(client[c].url))
  /\ UNCHANGED clientVars

(* ... or it gives up, and tells only the server.                          *)
vc_REQUEST_failed(c) ==
  /\ client[c].udp = "REQUEST"
  /\ client' = [client EXCEPT ![c].udp = "ENDED"]
  /\ net' = ToServer(c, ConfirmUrl(NoUrl))
  /\ UNCHANGED clientVars

(* The loop of the datagram thread ends: the token timed out, the          *)
(* connection was torn down, or nothing was heard from the client for too  *)
(* long (not while the stream thread, which looks every millisecond, finds *)
(* it in LISTEN).                                                          *)
vs_dgram_ends(s) ==
  /\ Running /\ slot[s].udp = "RUN" /\ ~(slot[s].thread = "WAIT" /\ slot[s].dgram = "LISTEN")
  /\ slot' = Freeing(s)
  /\ UNCHANGED <<serverVars, net, backlog, late, aggregation, raced, avatars, avatar_count, server>>

(* ... and written.                                                        *)
FreedPort(s) ==
  IF slot[s].port \notin PortList THEN aggregation
  ELSE [aggregation EXCEPT ![slot[s].port] = IF slot[s].count = 0 THEN UINT_MAX ELSE slot[s].count - 1]

(* The end of the datagram thread, with vs_clear_vconn.                    *)
vs_clear_vconn(s) ==
  /\ Running /\ slot[s].udp = "FREE"
  /\ aggregation' = FreedPort(s)
  /\ slot' = [slot EXCEPT ![s].udp = "ENDED", ![s].dgram = "CLOSED", ![s].peer = NoClient,
                          ![s].count = 0]
  /\ UNCHANGED <<serverVars, net, backlog, late, raced, avatars, avatar_count, server>>

-----------------------------------------------------------------------------
(* The server stops.                                                       *)

(* vs_request_terminate: datagram connections are closed in a friendly     *)
(* way, other sessions by the state of their stream.                       *)
vs_request_terminate ==
  /\ workload.stop /\ server = "READY"
  /\ server' = "CLOSING"
  /\ slot' = [s \in Slots |->
       IF slot[s].state = "LISTEN" THEN slot[s]
       ELSE IF slot[s].dgram # "CLOSED" THEN [slot[s] EXCEPT !.dgram = "CLOSEREQ"]
       ELSE [slot[s] EXCEPT !.state = "CLOSING"]]
  /\ UNCHANGED <<serverVars, net, backlog, late, aggregation, raced, avatars, avatar_count>>

(* Mutant: only open sessions are waited for.                             *)
NoPending_Open ==
  \A s \in Slots : slot[s].state \notin {"STREAM_OPEN", "CLOSING"}

(* No connection is pending.                                               *)
NoPending ==
  \A s \in Slots : slot[s].state = "LISTEN"

(* vs_main_listen_loop waits for the sessions for at most VRS_TIMEOUT      *)
(* seconds; then the scene is saved and the process ends.                  *)
vs_main_listen_loop_ends ==
  /\ server = "CLOSING"
  /\ server' = IF NoPending THEN "CLOSED" ELSE "GAVE_UP"
  /\ net' = [c \in Clients |-> [net[c] EXCEPT !.server_end = FALSE, !.to_server = <<>>]]
  /\ backlog' = <<>>
  /\ UNCHANGED <<serverVars, slot, late, aggregation, raced, avatars, avatar_count>>

-----------------------------------------------------------------------------
ClientStep(c) ==
  \/ vc_connect_failed(c)
  \/ vc_USRAUTH_none_loop(c)
  \/ vc_methods_received(c)
  \/ vc_USRAUTH_data_loop(c)
  \/ vc_auth_received(c)
  \/ vc_NEGOTIATE_token_dtd_loop(c)
  \/ vc_close_frame(c)
  \/ vc_no_answer(c)
  \/ vc_CLOSING(c)
  \/ vc_PARTOPEN_loop(c)
  \/ vc_REQUEST_failed(c)

SlotStep(s) ==
  \/ vs_TLS_handshake(s)
  \/ vs_RESPOND_methods_loop(s)
  \/ vs_RESPOND_userauth_loop(s)
  \/ vs_NEGOTIATE_token_ded_loop(s)
  \/ vs_test_port(s)
  \/ vs_compare_port(s)
  \/ vs_load_count(s)
  \/ vs_store_count(s)
  \/ vs_lowest_port(s)
  \/ vs_wait_for_LISTEN(s)
  \/ vs_NEGOTIATE_newhost_loop(s)
  \/ vs_ws_close(s)
  \/ vs_ws_recv_msg_callback(s)
  \/ vs_stream_ends(s)
  \/ vs_join_udp_thread(s)
  \/ vs_session_ends(s)
  \/ vs_slot_listens(s)

Next ==
  \/ \E c \in Clients : \/ ClientStep(c)
                        \/ vrs_send_connect_request(c)
                        \/ vrs_send_connect_terminate(c)
                        \/ vc_OPEN_loop_ends(c)
                        \/ Crash(c)
  \/ \E s \in Slots : \/ SlotStep(s)
                      \/ vs_slot_cleared(s)
                      \/ vs_init_dgram_ctx(s)
                      \/ vs_LISTEN_handle_packet(s)
                      \/ vs_dgram_ends(s)
                      \/ vs_clear_vconn(s)
  \/ vs_new_stream_conn
  \/ vs_request_terminate
  \/ vs_main_listen_loop_ends

(* A datagram thread whose client is gone ends: nothing is heard from it,  *)
(* or its token times out.                                                 *)
Abandoned(s) ==
  \A c \in Clients : ~(client[c].udp \in {"REQUEST", "OPEN"} /\ client[c].token = slot[s].token)

(* Threads run, applications answer the requests for a user name and a     *)
(* password, and what waits longer than VRS_TIMEOUT gives up.              *)
Fairness ==
  /\ \A c \in Clients : WF_vars(ClientStep(c))
  /\ \A s \in Slots : /\ WF_vars(SlotStep(s))
                      /\ WF_vars(\/ vs_init_dgram_ctx(s)
                                 \/ Abandoned(s) /\ vs_dgram_ends(s)
                                 \/ vs_clear_vconn(s))
  /\ WF_vars(vs_new_stream_conn \/ vs_main_listen_loop_ends)

Spec == Init /\ [][Next]_vars /\ Fairness

-----------------------------------------------------------------------------
(* Properties.                                                             *)

ClientType ==
  [state : {"IDLE", "CONNECTING", "USRAUTH_NONE", "USRAUTH_DATA", "NEGOTIATE_TOKEN_DED",
            "NEGOTIATE_NEWHOST", "STREAM_OPEN", "CLOSING", "CLOSED"},
   sent : BOOLEAN, right : BOOLEAN, avatar : Int, token : Int, url : Int,
   udp : {NONE, "REQUEST", "OPEN", "ENDED"}, accepted : BOOLEAN, told : BOOLEAN]

SearchType == [probe : Nat, min_aggregation : 0..UINT_MAX, la_port : 0..255]

SlotType ==
  [state : {"LISTEN", "RESPOND_METHODS", "RESPOND_USRAUTH", "NEGOTIATE_TOKEN_DED",
            "NEGOTIATE_NEWHOST", "STREAM_OPEN", "CLOSING", "CLOSED"},
   thread : {NONE, "TLS", "RUN", "SEARCH", "COMPARE", "COUNT", "STORE", "WAIT", "BYE",
             "JOIN", "FREE", "LISTEN"},
   client : Clients \union {NoClient}, web : BOOLEAN, user : Clients \union {NoClient},
   avatar : Int, token : Int, flags : SUBSET {UDP, TCP, WEBSOCKET}, url : Int,
   udp : {NONE, "START", "RUN", "FREE", "ENDED"}, dgram : {"CLOSED", "LISTEN", "OPEN", "CLOSEREQ"},
   port : Int, peer : Clients \union {NoClient},
   search : SearchType, count : 0..UINT_MAX]

(* Type correctness: a stream thread has a client exactly while it runs.   *)
TypeOK ==
  /\ workload \in Workloads
  /\ client \in [Clients -> ClientType]
  /\ slot \in [Slots -> SlotType]
  /\ \A s \in Slots : (slot[s].client = NoClient) <=> (slot[s].thread = NONE)
  /\ aggregation \in [PortList -> 0..UINT_MAX] /\ raced \subseteq Int
  /\ server \in {"READY", "CLOSING", "CLOSED", "GAVE_UP"}

(* A session serves its client.                                            *)
Serves(s, c) ==
  \/ slot[s].state = "STREAM_OPEN" /\ slot[s].client = c
  \/ slot[s].udp = "RUN" /\ slot[s].dgram = "OPEN" /\ slot[s].peer = c

(* Client and server agree on a session: a session that exchanges data     *)
(* with a client is that of the user whose password the client gave, with  *)
(* the avatar that the client was told, and no other slot serves it.       *)
SessionsAgree ==
  \A s \in Slots, c \in Clients :
    Serves(s, c) => /\ client[c].right
                    /\ slot[s].client = c /\ slot[s].user = c
                    /\ client[c].avatar \in {NoAvatar, slot[s].avatar}
                    /\ slot[s].avatar \in avatars
                    /\ \A t \in Slots \ {s} : ~Serves(t, c)

(* Avatars are destroyed with their sessions, and not before: every avatar *)
(* belongs to one session that has not ended, and a session that serves a  *)
(* client or waits for its datagram thread keeps its avatar.               *)
AvatarsOwned ==
  /\ \A a \in avatars : \E s \in Slots : slot[s].avatar = a /\ slot[s].thread # NONE
  /\ \A s \in Slots : slot[s].udp \in {"START", "RUN", "FREE"} => slot[s].avatar \in avatars
  /\ \A s, t \in Slots : s # t /\ slot[s].avatar = slot[t].avatar => slot[s].avatar \notin avatars

(* Clients, users, sessions and avatars belong together, whichever thread  *)
(* of the server or client is slow and however slots are used again.       *)
SessionsSound == SessionsAgree /\ AvatarsOwned

(* The datagram threads that use port p.                                   *)
PortUsers(p) ==
  {s \in Slots : slot[s].udp \in {"START", "RUN", "FREE"} /\ slot[s].port = p}

(* The count of a port covers its datagram threads, and no port has two of *)
(* them, unless searches for a port overlapped at it: steps of the threads *)
(* that vs_handshake.c and vs_udp_connect.c do not order.                  *)
PortsCounted ==
  /\ TypeOK
  /\ \A p \in PortList \ raced : /\ aggregation[p] >= Cardinality(PortUsers(p))
                                /\ Cardinality(PortUsers(p)) <= 1

(* vs_handshake.c says of the search for a port: "When all ports are used, *)
(* then use port with lowest aggregation".  Every datagram thread has a    *)
(* port of the list.                                                       *)
PortFromList ==
  \A s \in Slots : slot[s].udp = "RUN" => slot[s].port \in PortList

(* A server that stops in an orderly way has ended all sessions before the *)
(* scene is saved: no datagram thread runs, no stream thread serves a      *)
(* client (it may still clear its slot), and no avatar is left.            *)
StopClean ==
  server = "CLOSED" => /\ avatars = {}
                       /\ \A s \in Slots : slot[s].thread = NONE /\ slot[s].udp \in {NONE, "ENDED"}

(* The slot of a client that is gone becomes free again, unless it is      *)
(* stuck or the server stops: time and again there is no other slot.       *)
SlotFreed ==
  []<>(\A s \in Slots :
         (slot[s].client # NoClient /\ client[slot[s].client].state = "CLOSED")
           => (slot[s].state = "LISTEN" \/ Stuck(s) \/ server # "READY"))

(* The datagram thread of the client failed before it was connected; the   *)
(* stream thread waits for it for ever.                                    *)
Hung(c) == client[c].state = "NEGOTIATE_NEWHOST" /\ client[c].udp = "ENDED"

(* An application that asks for a connection is told that it is accepted   *)
(* or terminated, unless the datagram thread of the client fails: time and *)
(* again all that asked are told.                                          *)
ClientTold ==
  []<>(\A c \in Clients :
         client[c].state \in {"IDLE", "CLOSED"} \/ client[c].accepted \/ Hung(c))

=============================================================================
