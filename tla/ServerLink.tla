----------------------------- MODULE ServerLink -----------------------------
(* How a server gets and keeps the connection to its primary router:         *)
(* connecting, key exchange, connection authentication, registration and the *)
(* retries after each of them fails (server.c, server_util.c), with the      *)
(* connection authentication protocol of both ends (silcconnauth.c).         *)
(*                                                                           *)
(* One normal server dials one router.  The router accepts, authenticates    *)
(* and registers it.  Each attempt is a stream with an end at each of them   *)
(* and a queue in each direction; the key exchange, the subject of module    *)
(* KeyExchange, is reduced to its outcome.  Connections are retried for ever *)
(* (reconnect_keep_trying, the default), there is no backup router, and no   *)
(* allocation fails.                                                         *)
(*                                                                           *)
(* A SilcServerConnection is freed with any stream whose entry points to it, *)
(* also when a task or a younger stream still has it.  Whatever uses a freed *)
(* object sets `stale` and goes on with its old contents, one outcome of the *)
(* undefined behaviour; a crash is a behaviour that stops at that step.      *)
EXTENDS Naturals, Sequences, FiniteSets, SequencesExt

CONSTANTS
    Streams,      \* stream slots, used again once both ends are closed
    Conns,        \* SilcServerConnection slots, used again once unreferenced
    MaxFaults,    \* bound on refusals, timeouts, cuts and operator commands
    None

ASSUME LinkAssumption ==
    /\ MaxFaults \in Nat
    /\ None \notin Streams \cup Conns /\ IsFiniteSet(Streams)

VARIABLES
    standalone,    \* server->standalone
    router,        \* server->router: the stream of that entry
    router_conn,   \* server->router_conn
    connect_task,  \* silc_server_connect_to_router is scheduled
    sconn,         \* [Conns -> connection object]
    client,        \* [Streams -> the dialing end]
    entry,         \* [Streams -> sconn of the entry at the dialing end]
    accepted,      \* [Streams -> the router's end]
    toServer,      \* [Streams -> packets under way to the server]
    toRouter,      \* [Streams -> packets under way to the router]
    stat,          \* conn_num and my_routers of the server
    rstat,         \* my_servers of the router
    configured,    \* the router is in the server's configuration
    stale,         \* history: a freed SilcServerConnection was used
    faults         \* faults so far

serverVars == <<standalone, router, router_conn, connect_task, sconn, entry, stat, configured, stale>>
vars == <<serverVars, client, accepted, toServer, toRouter, rstat, faults>>

ClientStates == {"ske", "auth", "failed", "dead", "registered", "closed"}
AcceptStates == {"syn", "ske", "auth", "dead", "accepted", "registered", "closed"}
Packets == {"KE_OK", "KE_FAIL", "AUTH", "BAD_AUTH", "SUCCESS", "FAILURE",
            "NEW_SERVER", "DISCONNECT", "EOS"}

(* "failed": the protocol failed, a retry is scheduled and the stream is     *)
(* left as it is; "dead": the authentication timed out.                      *)
Open(i) == client[i] \in {"ske", "auth", "failed", "dead", "registered"}
ROpen(i) == accepted[i] \in {"syn", "ske", "auth", "dead", "accepted", "registered"}

NoConn == [live |-> FALSE, sock |-> None, task |-> "none", op |-> FALSE, listed |-> FALSE]

Referenced(c) ==
    \/ sconn[c].task # "none" \/ sconn[c].op \/ sconn[c].listed \/ router_conn = c
    \/ \E i \in Streams : Open(i) /\ entry[i] = c

(* What nobody holds is freed, or leaked when its tasks were cancelled.      *)
FreeConns == {c \in Conns : ~Referenced(c)}
FreeStreams == {i \in Streams : ~Open(i) /\ ~ROpen(i)}

(* The slot a new object or stream takes.  The slots are interchangeable.    *)
NewConn == IF FreeConns = {} THEN {} ELSE {CHOOSE c \in FreeConns : TRUE}
NewStream == IF FreeStreams = {} THEN {} ELSE {CHOOSE i \in FreeStreams : TRUE}

(* The objects of a set are used, and may have been freed.                   *)
UsesAll(C) == stale' = (stale \/ \E c \in C : ~sconn[c].live)
Uses(c) == UsesAll({c})

(* The connection object after its TCP connect was aborted and               *)
(* silc_server_connection_free, which cancels no task it is the context of.  *)
Freed(conn) == [conn EXCEPT !.live = FALSE, !.listed = FALSE, !.op = FALSE]

(* silc_server_create_connections cancels the retries, not the connects.     *)
NoRetries(conns) ==
    [c \in Conns |-> IF conns[c].task = "retry" THEN [conns[c] EXCEPT !.task = "none"] ELSE conns[c]]

(* silc_server_connect_router called for a new object: the TCP connection is *)
(* begun and the object goes on server->conns.                               *)
Connecting == [live |-> TRUE, sock |-> None, task |-> "none", op |-> TRUE, listed |-> TRUE]

Fault == faults < MaxFaults /\ faults' = faults + 1
NoFault == UNCHANGED faults

(* Packets to an end that is closed are dropped.                             *)
ToServer(i, s) == toServer' = [toServer EXCEPT ![i] = IF Open(i) THEN @ \o s ELSE <<>>]
ToRouter(i, s) == toRouter' = [toRouter EXCEPT ![i] = IF ROpen(i) THEN @ \o s ELSE <<>>]

-----------------------------------------------------------------------------
(* The server.                                                               *)

(* server->router once stream i is freed.                                    *)
RouterWithout(i) == IF router = i THEN None ELSE router

(* Freeing a router's entry, or the connection that router_conn points to,   *)
(* schedules silc_server_connect_to_router.                                  *)
ReconnectsKnown(i) == client[i] = "registered"
ReconnectsAfter(i) == client[i] = "registered" \/ router_conn = entry[i]

(* The server's end of a stream is closed and its entry, of unknown type or  *)
(* the router's, is freed.                                                   *)
CloseEnd(i) ==
    /\ client' = [client EXCEPT ![i] = "closed"]
    /\ entry' = [entry EXCEPT ![i] = None]
    /\ toServer' = [toServer EXCEPT ![i] = <<>>]
    /\ stat' = [conn_num |-> stat.conn_num - 1,
                my_routers |-> IF client[i] = "registered" THEN stat.my_routers - 1 ELSE stat.my_routers]

(* silc_server_free_sock_user_data and silc_server_close_connection.         *)
CloseStream(i) ==
    LET c == entry[i]
    IN  /\ CloseEnd(i)
        /\ sconn' = [(IF ReconnectsAfter(i) THEN NoRetries(sconn) ELSE sconn) EXCEPT ![c] = Freed(@)]
        /\ connect_task' = (connect_task \/ ReconnectsAfter(i))
        /\ router_conn' = IF client[i] # "registered" /\ router_conn = c THEN None ELSE router_conn
        /\ router' = RouterWithout(i)
        /\ standalone' = (standalone \/ router = i)

FreeAndClose(i) == CloseStream(i) /\ Uses(entry[i])

(* silc_server_num_sockets_by_remote: the streams of objects on server->conns *)
(* whose entry is a router's.                                                *)
ConnectedStreams ==
    {i \in Streams : client[i] = "registered" /\ \E c \in Conns : sconn[c].listed /\ sconn[c].sock = i}

(* The task silc_server_connect_to_router.  Without a configured router it   *)
(* only sets standalone.  Else it cancels all pending connect and retry      *)
(* tasks and, unless it is connected, makes an object and connects.  A       *)
(* connection that is not the primary router of a server without one is      *)
(* closed first, which schedules this task again.                            *)
ConnectToRouter ==
    /\ connect_task
    /\ LET quiet == [c \in Conns |-> [sconn[c] EXCEPT !.task = "none"]]
           desync == standalone /\ router = None
           keep == UNCHANGED <<client, entry, toServer, toRouter, stat, stale>>
       IN  \/ /\ ~configured
              /\ standalone' = TRUE /\ connect_task' = FALSE
              /\ keep /\ UNCHANGED <<router, router_conn, sconn>>
           \/ /\ configured /\ ConnectedStreams # {} /\ ~desync
              /\ sconn' = quiet /\ connect_task' = FALSE
              /\ keep /\ UNCHANGED <<standalone, router, router_conn>>
           \/ /\ configured /\ ConnectedStreams = {}
              /\ \E c \in NewConn :
                    /\ sconn' = [quiet EXCEPT ![c] = Connecting]
                    /\ router_conn' = IF router_conn = None THEN c ELSE router_conn
              /\ connect_task' = FALSE
              /\ keep /\ UNCHANGED <<standalone, router>>
           \/ /\ configured /\ desync
              /\ \E i \in ConnectedStreams, c \in NewConn :
                    /\ CloseEnd(i)
                    /\ sconn' = [quiet EXCEPT ![entry[i]] = Freed(@), ![c] = Connecting]
                    /\ router_conn' = IF router_conn = None THEN c ELSE router_conn
                    /\ ToRouter(i, <<"DISCONNECT", "EOS">>)
                    /\ Uses(entry[i])
              /\ UNCHANGED <<standalone, router, connect_task>>
    /\ UNCHANGED <<accepted, rstat, configured, faults>>

(* The TCP connection is made: silc_server_connection_established and        *)
(* silc_server_start_key_exchange.                                           *)
Established(c) ==
    /\ sconn[c].op
    /\ \E i \in NewStream :
          /\ sconn' = [sconn EXCEPT ![c].op = FALSE, ![c].task = "none", ![c].sock = i]
          /\ client' = [client EXCEPT ![i] = "ske"]
          /\ entry' = [entry EXCEPT ![i] = c]
          /\ accepted' = [accepted EXCEPT ![i] = "syn"]
          /\ toServer' = [toServer EXCEPT ![i] = <<>>]
          /\ toRouter' = [toRouter EXCEPT ![i] = <<>>]
    /\ stat' = [stat EXCEPT !.conn_num = @ + 1]
    /\ Uses(c)
    /\ UNCHANGED <<standalone, router, router_conn, connect_task, rstat, configured, faults>>

(* An object whose attempt failed: off server->conns, retry in a second.     *)
RetryingUnlisted(conn) == [conn EXCEPT !.listed = FALSE]
Retrying(conn) == [conn EXCEPT !.task = "retry", !.listed = FALSE]

(* What the tasks of the connection objects leave alone.                     *)
objectsOnly == <<standalone, router, router_conn, connect_task, client, entry, accepted,
                 toServer, toRouter, stat, rstat, configured>>

NotEstablished(c) ==
    /\ sconn[c].op
    /\ Fault
    /\ sconn' = [sconn EXCEPT ![c] = Retrying([@ EXCEPT !.op = FALSE])]
    /\ Uses(c)
    /\ UNCHANGED objectsOnly

(* silc_server_connect_to_router_retry: sets the timer that connects.        *)
Retry(c) ==
    /\ sconn[c].task = "retry"
    /\ sconn' = [sconn EXCEPT ![c].task = "connect"]
    /\ Uses(c)
    /\ NoFault /\ UNCHANGED objectsOnly

(* silc_server_connect_router from its timer, ten seconds or more later.  A  *)
(* rehash may have removed the router: the object is freed and router_conn   *)
(* left.                                                                     *)
ConnectRouter(c) ==
    /\ sconn[c].task = "connect"
    /\ \/ configured /\ sconn' = [sconn EXCEPT ![c].task = "none", ![c].op = TRUE, ![c].listed = TRUE]
       \/ ~configured /\ sconn' = [sconn EXCEPT ![c] = Freed([@ EXCEPT !.task = "none"])]
    /\ Uses(c)
    /\ NoFault /\ UNCHANGED objectsOnly

(* The failure branch of silc_server_ke_completed and of                     *)
(* silc_server_ke_auth_compl: the stream is left open for the peer to close. *)
Fails(i) ==
    /\ client' = [client EXCEPT ![i] = "failed"]
    /\ sconn' = [sconn EXCEPT ![entry[i]] = Retrying(@)]
    /\ Uses(entry[i])

(* silc_server_ke_auth_compl with success: the router is registered and is   *)
(* the primary router if there is none; NEW_SERVER is sent.                  *)
Registered(i) ==
    /\ client' = [client EXCEPT ![i] = "registered"]
    /\ router' = IF standalone THEN i ELSE router
    /\ standalone' = FALSE
    /\ router_conn' = IF router_conn = entry[i] THEN None ELSE router_conn
    /\ stat' = [stat EXCEPT !.my_routers = @ + 1]
    /\ ToRouter(i, <<"NEW_SERVER">>)
    /\ Uses(entry[i])

(* A packet arrives at the server, or the end of the stream.  At the end     *)
(* silc_server_packet_eos looks into router_conn, too.                       *)
ServerReceive(i) ==
    /\ Open(i) /\ toServer[i] # <<>>
    /\ LET p == Head(toServer[i])
           rest == toServer' = [toServer EXCEPT ![i] = Tail(@)]
           same == UNCHANGED <<standalone, router, router_conn, connect_task, entry, stat>>
       IN  \/ /\ p = "KE_OK" /\ client[i] = "ske"    \* silc_server_ke_completed
              /\ client' = [client EXCEPT ![i] = "auth"]
              /\ \/ ToRouter(i, <<"AUTH">>) /\ NoFault
                 \/ ToRouter(i, <<"BAD_AUTH">>) /\ Fault
              /\ Uses(entry[i])
              /\ rest /\ same /\ UNCHANGED sconn
           \/ /\ \/ p = "KE_FAIL" /\ client[i] = "ske"
                 \/ p = "FAILURE" /\ client[i] = "auth"
              /\ Fails(i)
              /\ rest /\ same /\ NoFault /\ UNCHANGED toRouter
           \/ /\ p = "SUCCESS" /\ client[i] = "auth"
              /\ Registered(i)
              /\ rest /\ NoFault /\ UNCHANGED <<connect_task, entry, sconn>>
           \/ /\ p \in {"DISCONNECT", "EOS"}
              /\ CloseStream(i)
              /\ UsesAll({entry[i]} \cup (IF p = "EOS" THEN {router_conn} \ {None} ELSE {}))
              /\ ToRouter(i, <<"EOS">>) /\ NoFault
           \/ /\ \/ p \in {"KE_OK", "KE_FAIL"} /\ client[i] # "ske"
                 \/ p \in {"SUCCESS", "FAILURE"} /\ client[i] # "auth"
              /\ rest /\ same /\ NoFault /\ UNCHANGED <<client, sconn, toRouter, stale>>
    /\ UNCHANGED <<accepted, rstat, configured>>

(* The key exchange fails at the server: an error is told to the peer        *)
(* (silc_ske_st_initiator_error), the timeout is not.                        *)
ServerKeyExchangeFails(i) ==
    /\ client[i] = "ske"
    /\ Fault
    /\ Fails(i)
    /\ \/ ToRouter(i, <<"KE_FAIL">>)
       \/ UNCHANGED toRouter
    /\ UNCHANGED <<standalone, router, router_conn, connect_task, entry, stat, accepted, toServer, rstat,
                   configured>>

(* silc_connauth_timeout of the initiator, before an answer came or when     *)
(* none will: the protocol ends without calling its completion callback.     *)
ServerAuthTimeout(i) ==
    /\ client[i] = "auth"
    /\ \/ Fault
       \/ /\ accepted[i] = "dead" /\ toRouter[i] = <<>> /\ toServer[i] = <<>>
          /\ NoFault
    /\ client' = [client EXCEPT ![i] = "dead"]
    /\ UNCHANGED <<serverVars, accepted, toServer, toRouter, rstat>>

(* The operator's CLOSE of a router: a primary router is forgotten before    *)
(* the stream is closed and its data freed.                                  *)
CloseCommand(i) ==
    /\ client[i] = "registered"
    /\ Fault
    /\ FreeAndClose(i)
    /\ ToRouter(i, <<"DISCONNECT", "EOS">>)
    /\ UNCHANGED <<accepted, rstat, configured>>

(* Rehashing the configuration makes connections again.  When the router is  *)
(* no longer configured the connection to it is closed, by a task that runs  *)
(* at once.                                                                  *)
Rehash ==
    /\ Fault
    /\ configured' \in BOOLEAN
    /\ \/ /\ configured => configured' \/ ConnectedStreams = {}
          /\ connect_task' = TRUE
          /\ sconn' = NoRetries(sconn)
          /\ UNCHANGED <<standalone, router, router_conn, client, entry, toServer, toRouter, stat, stale>>
       \/ /\ configured /\ ~configured'
          /\ \E i \in ConnectedStreams : FreeAndClose(i) /\ ToRouter(i, <<"DISCONNECT", "EOS">>)
    /\ UNCHANGED <<accepted, rstat>>

-----------------------------------------------------------------------------
(* The router.                                                               *)

(* The router's count of servers without stream i.                           *)
ServersWithout(i) == IF accepted[i] \in {"accepted", "registered"} THEN rstat - 1 ELSE rstat

DropSilent(i, packets) ==
    /\ accepted' = [accepted EXCEPT ![i] = "closed"]
    /\ rstat' = ServersWithout(i)
    /\ toRouter' = [toRouter EXCEPT ![i] = <<>>]
    /\ ToServer(i, <<>>)

(* silc_server_disconnect_remote and silc_server_free_sock_user_data.        *)
Drop(i, packets) ==
    /\ accepted' = [accepted EXCEPT ![i] = "closed"]
    /\ rstat' = ServersWithout(i)
    /\ toRouter' = [toRouter EXCEPT ![i] = <<>>]
    /\ ToServer(i, packets \o <<"EOS">>)

(* silc_server_accept_new_connection: denied or not configured, or the key   *)
(* exchange begins.                                                          *)
Accept(i) ==
    /\ accepted[i] = "syn"
    /\ \/ /\ accepted' = [accepted EXCEPT ![i] = "ske"]
          /\ NoFault /\ UNCHANGED <<toServer, toRouter, rstat>>
       \/ Fault /\ Drop(i, <<"DISCONNECT">>)
    /\ UNCHANGED <<serverVars, client>>

(* silc_server_accept_completed: success, an error, which is told to the     *)
(* peer, or the timeout, which is not and comes when the peer has given up.  *)
RouterKeyExchange(i) ==
    /\ accepted[i] = "ske"
    /\ \/ /\ accepted' = [accepted EXCEPT ![i] = "auth"]
          /\ ToServer(i, <<"KE_OK">>)
          /\ NoFault /\ UNCHANGED <<toRouter, rstat>>
       \/ Fault /\ Drop(i, <<"KE_FAIL", "DISCONNECT">>)
       \/ Drop(i, <<"DISCONNECT">>) /\ (Fault \/ (client[i] # "ske" /\ NoFault))
    /\ UNCHANGED <<serverVars, client>>

(* silc_connauth_timeout of the responder: before the peer's packet came, or *)
(* when none will.  The protocol ends without its completion callback.       *)
RouterAuthTimeout(i) ==
    /\ accepted[i] = "auth"
    /\ Fault \/ (client[i] = "failed" /\ toRouter[i] = <<>> /\ NoFault)
    /\ accepted' = [accepted EXCEPT ![i] = "dead"]
    /\ UNCHANGED <<serverVars, client, toServer, toRouter, rstat>>

(* NEW_SERVER: silc_server_new_server refuses an ID that a connected server  *)
(* has already.                                                              *)
TooManyRegistrations(i) == \E j \in Streams \ {i} : accepted[j] = "registered"

(* A packet arrives at the router, or the end of the stream.                 *)
RouterReceive(i) ==
    /\ ROpen(i) /\ accepted[i] # "syn" /\ toRouter[i] # <<>>
    /\ LET p == Head(toRouter[i])
           rest == toRouter' = [toRouter EXCEPT ![i] = Tail(@)]
       IN  \/ /\ p = "AUTH" /\ accepted[i] = "auth"       \* silc_server_accept_auth_compl
              /\ \/ /\ accepted' = [accepted EXCEPT ![i] = "accepted"]
                    /\ rstat' = rstat + 1
                    /\ ToServer(i, <<"SUCCESS">>)
                    /\ rest /\ NoFault
                 \/ /\ Fault                               \* silc_server_connection_allowed
                    /\ Drop(i, <<"SUCCESS", "DISCONNECT">>)
           \/ /\ p = "BAD_AUTH" /\ accepted[i] = "auth"
              /\ Drop(i, <<"FAILURE", "DISCONNECT">>) /\ NoFault
           \/ /\ p = "KE_FAIL" /\ accepted[i] \in {"ske", "auth"}
              /\ Drop(i, <<"DISCONNECT">>) /\ NoFault
           \/ /\ p = "NEW_SERVER" /\ accepted[i] = "accepted"
              /\ \/ /\ TooManyRegistrations(i)
                    /\ Drop(i, <<"DISCONNECT">>)
                 \/ /\ ~TooManyRegistrations(i)
                    /\ accepted' = [accepted EXCEPT ![i] = "registered"]
                    /\ rest /\ UNCHANGED <<toServer, rstat>>
              /\ NoFault
           \/ /\ p \in {"DISCONNECT", "EOS"}
              /\ Drop(i, <<>>) /\ NoFault
           \/ /\ \/ p \in {"AUTH", "BAD_AUTH"} /\ accepted[i] # "auth"
                 \/ p = "KE_FAIL" /\ accepted[i] \notin {"ske", "auth"}
              /\ rest /\ NoFault /\ UNCHANGED <<accepted, toServer, rstat>>
    /\ UNCHANGED <<serverVars, client>>

(* The network cuts a stream: what is under way is lost, and each end learns *)
(* of it in its own time.                                                    *)
Cut(i) ==
    /\ Open(i) /\ ROpen(i)
    /\ Fault
    /\ toServer' = [toServer EXCEPT ![i] = <<"EOS">>]
    /\ toRouter' = [toRouter EXCEPT ![i] = <<"EOS">>]
    /\ UNCHANGED <<serverVars, client, accepted, rstat>>

-----------------------------------------------------------------------------
Init ==
    /\ standalone = TRUE /\ router = None /\ router_conn = None
    /\ connect_task = TRUE                      \* silc_server_init
    /\ sconn = [c \in Conns |-> NoConn]
    /\ client = [i \in Streams |-> "closed"]
    /\ entry = [i \in Streams |-> None]
    /\ accepted = [i \in Streams |-> "closed"]
    /\ toServer = [i \in Streams |-> <<>>]
    /\ toRouter = [i \in Streams |-> <<>>]
    /\ stat = [conn_num |-> 0, my_routers |-> 0]
    /\ rstat = 0
    /\ configured = TRUE
    /\ stale = FALSE
    /\ faults = 0

Tasks == ConnectToRouter \/ \E c \in Conns : Established(c) \/ NotEstablished(c) \/ Retry(c) \/ ConnectRouter(c)
ServerStream(i) == ServerReceive(i) \/ ServerKeyExchangeFails(i) \/ ServerAuthTimeout(i)
RouterStream(i) == Accept(i) \/ RouterKeyExchange(i) \/ RouterAuthTimeout(i) \/ RouterReceive(i)

Next ==
    \/ Tasks
    \/ Rehash
    \/ \E i \in Streams : ServerStream(i) \/ CloseCommand(i) \/ RouterStream(i) \/ Cut(i)

(* The schedulers of both ends run what is due, and packets arrive.          *)
Fairness ==
    /\ WF_vars(ConnectToRouter)
    /\ \A c \in Conns : WF_vars(Established(c) \/ NotEstablished(c) \/ Retry(c) \/ ConnectRouter(c))
    /\ \A i \in Streams : WF_vars(ServerReceive(i) \/ ServerAuthTimeout(i)) /\ WF_vars(Accept(i) \/ RouterKeyExchange(i) \/ RouterReceive(i))

Spec == Init /\ [][Next]_vars /\ Fairness

-----------------------------------------------------------------------------
(* Every variable has its type; counters do not fall below zero.             *)
TypeOK ==
    /\ standalone \in BOOLEAN /\ connect_task \in BOOLEAN
    /\ configured \in BOOLEAN /\ stale \in BOOLEAN
    /\ router \in Streams \cup {None} /\ router_conn \in Conns \cup {None}
    /\ sconn \in [Conns -> [live : BOOLEAN, sock : Streams \cup {None},
                            task : {"none", "connect", "retry"}, op : BOOLEAN, listed : BOOLEAN]]
    /\ client \in [Streams -> ClientStates]
    /\ entry \in [Streams -> Conns \cup {None}]
    /\ accepted \in [Streams -> AcceptStates]
    /\ toServer \in [Streams -> Seq(Packets)] /\ toRouter \in [Streams -> Seq(Packets)]
    /\ stat \in [conn_num : Nat, my_routers : Nat]
    /\ rstat \in Nat /\ faults \in 0 .. MaxFaults

(* A scheduled retry or connect task of a connection has its object:         *)
(* silc_server_connection_free does not cancel the tasks.                    *)
RetryLive ==
    \A c \in Conns : sconn[c].task = "retry" \/ (sconn[c].task = "connect" /\ ~connect_task) => sconn[c].live

(* The server is standalone unless it has a primary router, the primary      *)
(* router's stream is registered, and when nothing is under way on a stream  *)
(* the server uses, the router has the server registered on it: neither end  *)
(* takes a connection the other has given up for a good one.                 *)
EndsAgree ==
    /\ ~standalone => router # None
    /\ router # None => client[router] = "registered"
    /\ \A i \in Streams :
          client[i] = "registered" /\ toServer[i] = <<>> /\ toRouter[i] = <<>> => accepted[i] = "registered"

(* An attempt to connect with object c is scheduled or under way.            *)
Attempting(c) ==
    \/ sconn[c].op \/ sconn[c].task # "none"
    \/ \E i \in Streams : entry[i] = c /\ client[i] \in {"ske", "auth"}

(* router_conn points to a connection object that nothing is done with, while *)
(* another one is about to be connected.                                     *)
Superseded ==
    /\ router_conn # None /\ ~Attempting(router_conn)
    /\ connect_task \/ \E c \in Conns : Attempting(c)

(* A server with neither primary router nor router_conn, which is "non-NULL  *)
(* when connecting to the primary router, and NULL otherwise", is about to   *)
(* connect: every way of losing the one or the other has scheduled           *)
(* silc_server_connect_to_router.                                            *)
NotLeftAlone == configured /\ router = None /\ router_conn = None => connect_task

(* A server without primary router is about to connect, tries to, or lost an *)
(* attempt with its authentication: reconnect_keep_trying is "whether to     *)
(* keep trying even after reconnect_count is reached".                       *)
KeepsTrying ==
    router = None /\ configured =>
        connect_task \/ (\E c \in Conns : Attempting(c)) \/ \E i \in Streams : client[i] = "dead"

(* Whatever fails, the server has a primary router again in the end, unless  *)
(* the router is not configured, a freed connection object was used, the     *)
(* attempt of router_conn was cancelled for another one, or an               *)
(* authentication timed out.                                                 *)
Reconnects ==
    router = None ~> router # None \/ ~configured \/ stale \/ Superseded \/ \E i \in Streams : client[i] = "dead"

(* standalone is "Set if server is standalone, and does not have connection  *)
(* to network".                                                              *)
StandaloneMeansAlone == standalone => router = None

(* An authentication that has begun ends by its completion callback, which   *)
(* registers the router or schedules a retry, or with its stream.            *)
AuthCompletes ==
    \A i \in Streams : client[i] = "auth" ~> client[i] \in {"registered", "failed", "closed"}
=============================================================================
