---------------------------- MODULE BackupResume ----------------------------
(***************************************************************************)
(* One cell of a SILC network: its primary router P, the backup router B   *)
(* that replaces P when P goes away, and the normal servers.  The module   *)
(* follows server_backup.c: the tables of replaced routers, the START_USE  *)
(* check, and the backup resuming protocol, by which B gives the cell back *)
(* to P; and, from server.c, what a server does when it loses its primary. *)
(*                                                                         *)
(* A protocol context is an element of ctx[n], the contexts node n ever    *)
(* allocated; proto[n][m] is the backup_proto of m's entry at n (0 when    *)
(* the entry's `backup' flag is off).  A context that is freed keeps its   *)
(* place, so that a pointer to it that is still used can be told: the      *)
(* model follows the cell up to the first use of a freed or NULL context   *)
(* (`down').  The connections between B and the servers do not fail.       *)
(*                                                                         *)
(* The protocol is entered from callbacks of silc_server_create_connection *)
(* (silc_server_backup_connected, silc_server_backup_connect_primary).     *)
(* CallbackKept tells whether a connection that is made calls them, as the *)
(* comments on them say.  In the code it is FALSE: ke_auth_compl clears    *)
(* sconn->callback just before it would call it.  The protocol is studied  *)
(* for TRUE, and what the code makes of it for FALSE.                      *)
(***************************************************************************)
EXTENDS Naturals, Sequences, FiniteSets, SequencesExt

CONSTANTS
    P, B,            \* the primary router and its backup
    Servers,         \* the normal servers of the cell
    NoSock,          \* a connection that is gone
    MaxFaults,       \* bound: crashes of P and cut connections
    MaxRounds,       \* bound: contexts a node allocates
    RestartLimit,    \* initiator_restart above which B gives up (10)
    Checks,          \* repeated START_USE checks after an error (3)
    CallbackKept     \* a connection that is made calls its callback

ASSUME BackupAssumption ==
    /\ P # B /\ P \notin Servers /\ B \notin Servers
    /\ NoSock \notin Servers \cup {P, B}
    /\ {MaxFaults, MaxRounds, RestartLimit, Checks} \subseteq Nat
    /\ CallbackKept \in BOOLEAN

VARIABLES
    up,          \* P is running
    link,        \* link[n]: the connection of n with P
    faults,      \* faults so far
    btype,       \* server_type of B
    standalone,  \* B has no primary router
    router,      \* router[s]: the router server s uses
    replaced,    \* replaced[n]: P is in n's table of replaced routers
    dis,         \* dis[n][m]: m's entry at n is DISABLED
    proto,       \* proto[n][m]: backup_proto of m's entry at n
    ctx,         \* ctx[n]: the protocol contexts of n
    connecting,  \* nodes with a create_connection to P under way
    checks,      \* checks[s]: check_status tasks of s
    pings,       \* pings[s]: the PING of B to P that START_USE of s waits for
    backupClosed,\* backup_closed of P
    resumed,     \* P has resumed since its last start (what B must wait for)
    gaveUp,      \* B gave the resuming up
    net,         \* net[<<n, m>>]: packets under way from n to m
    down         \* a freed or NULL context was used

vars == <<up, link, faults, btype, standalone, router, replaced, dis, proto,
          ctx, connecting, checks, pings, backupClosed, resumed, gaveUp,
          net, down>>

cell == <<btype, standalone, router, replaced, resumed, gaveUp>>
env == <<up, link, faults>>

-----------------------------------------------------------------------------

Peers == Servers \cup {P}
Nodes == Servers \cup {P, B}
Dialers == Servers \cup {B}     \* the nodes that connect to P
Hops == {e \in Nodes \X Nodes : e[1] # e[2]}
Links == {"none", "up", "cut", "far", "near"}
Types == {"START", "CONNECTED", "ENDING", "RESUMED"}
Packets == Types \cup {"START_USE"}
Freed == 0
States == {Freed, 1, 2, 250}

(* The link of n with P: "up", or "cut" before either end has noticed;     *)
(* "near" when only n still holds it, "far" when only P does.              *)
Holds(n, m) ==
    CASE n = P -> m # P /\ link[m] \in {"up", "cut", "far"}
      [] n # P /\ m = P -> link[n] \in {"up", "cut", "near"}
      [] OTHER -> n # m /\ (n = B \/ m = B)
Passes(n, m) ==
    CASE n = P -> link[m] = "up"
      [] n # P /\ m = P -> link[n] = "up"
      [] OTHER -> TRUE

(* silc_server_packet_send: nothing is sent to a disabled entry.           *)
Sent(n, m, p, d) ==
    IF Holds(n, m) /\ ~d[n][m] /\ Passes(n, m)
    THEN [net EXCEPT ![<<n, m>>] = Append(@, p)] ELSE net

\* The same packet from n to every member of M.
SentAll(n, M, p, d) ==
    [e \in DOMAIN net |->
        IF /\ e[1] = n /\ e[2] \in M
           /\ Holds(n, e[2]) /\ ~d[n][e[2]] /\ Passes(n, e[2])
        THEN Append(net[e], p) ELSE net[e]]

LastCtx(n) == Len(ctx[n])

\* The contexts, with c in the place of context i of n.
Updated(n, i, c) == [ctx EXCEPT ![n][i] = c]

\* The runs of B whose timeout has been registered.
Began == {0} \cup {i \in DOMAIN ctx[B] : ctx[B][i].started}

(* A new context.  Its protocol timeout is registered and the protocol is  *)
(* scheduled (silc_server_backup_responder_start, silc_server_backup_      *)
(* connected_later) at once, except when B restarts the protocol.          *)
NewContext(sock, responder, restart) ==
    [sock |-> sock, responder |-> responder, state |-> 1, type |-> "START",
     session |-> NoSock, sessions |-> {}, connected |-> {}, answered |-> {},
     started |-> restart = 0, tasks |-> IF restart = 0 THEN 1 ELSE 0,
     ending |-> 0, fin |-> FALSE, error |-> FALSE, restart |-> restart,
     origin |-> Max(Began)]

\* What remains of a context that is freed.
FreedContext(c) ==
    [NewContext(NoSock, c.responder, 1) EXCEPT !.state = Freed, !.origin = 0,
                                               !.answered = c.answered]

\* The contexts C of a node whose connection with m is freed.
Orphaned(C, m) ==
    [i \in DOMAIN C |-> [C[i] EXCEPT !.sock = IF @ = m THEN NoSock ELSE @]]

(* The long delays (1 second for ENDING, 5 before a restart or a check, 15 *)
(* for a PING, 30 for the protocol) do not end while a task that is due    *)
(* at once (its delay is at most a microsecond) has not run.               *)
Due(n) ==
    \E i \in DOMAIN ctx[n] :
        LET c == ctx[n][i] IN
        /\ c.state # Freed
        /\ c.tasks > 0 \/ c.fin
Quiet == \A n \in Nodes : ~Due(n)

(* B restarts the protocol 5 seconds after a run that failed.  No packet   *)
(* takes that long: what the routers sent in that run has arrived, and so  *)
(* the timeouts of the others, which started with START, have passed.      *)
Settled ==
    /\ Quiet
    /\ \A n \in {P, B} : \A m \in Nodes \ {n} : net[<<n, m>>] = <<>>
    /\ \A n \in Peers : \A i \in DOMAIN ctx[n] : ctx[n][i].state = Freed

Init ==
    /\ up = TRUE
    /\ link = [n \in Dialers |-> "up"]
    /\ faults = 0
    /\ btype = "backup"
    /\ standalone = FALSE
    /\ router = [s \in Servers |-> P]
    /\ replaced = [n \in Dialers |-> FALSE]
    /\ dis = [n \in Nodes |-> [m \in Nodes |-> n = B /\ m \in Servers]]
    /\ proto = [n \in Nodes |-> [m \in Nodes |-> 0]]
    /\ ctx = [n \in Nodes |-> <<>>]
    /\ connecting = {}
    /\ checks = [s \in Servers |-> 0]
    /\ pings = [s \in Servers |-> "no"]
    /\ backupClosed = FALSE
    /\ resumed = TRUE
    /\ gaveUp = FALSE
    /\ net = [e \in Hops |-> <<>>]
    /\ down = FALSE

-----------------------------------------------------------------------------
(* Failures of the connections with P and of P itself (the environment).   *)

\* P stops: its contexts, tables and unsent packets are gone with it.
Crash ==
    /\ up /\ faults < MaxFaults
    /\ up' = FALSE
    /\ faults' = faults + 1
    /\ link' = [n \in Dialers |->
                   CASE link[n] \in {"up", "cut"} -> "near"
                     [] link[n] = "far" -> "none"
                     [] OTHER -> link[n]]
    /\ ctx' = [ctx EXCEPT ![P] = <<>>]
    /\ proto' = [proto EXCEPT ![P] = [m \in Nodes |-> 0]]
    /\ dis' = [dis EXCEPT ![P] = [m \in Nodes |-> FALSE]]
    /\ net' = [e \in DOMAIN net |-> IF P \in {e[1], e[2]} THEN <<>> ELSE net[e]]
    /\ backupClosed' = FALSE
    /\ resumed' = FALSE
    /\ UNCHANGED <<btype, standalone, router, replaced, gaveUp, connecting,
                   checks, pings, down>>

Restart ==
    /\ ~up
    /\ up' = TRUE
    /\ UNCHANGED <<link, faults, dis, proto, ctx, connecting, checks, pings,
                   backupClosed, net, down, cell>>

\* The connection of n with P is cut; packets under way on it are lost.
Cut(n) ==
    /\ link[n] = "up" /\ faults < MaxFaults
    /\ faults' = faults + 1
    /\ link' = [link EXCEPT ![n] = "cut"]
    /\ net' = [net EXCEPT ![<<n, P>>] = <<>>, ![<<P, n>>] = <<>>]
    /\ UNCHANGED <<up, dis, proto, ctx, connecting, checks, pings,
                   backupClosed, down, cell>>

(* P notices that n's connection ended (silc_server_packet_eos).           *)
EosAtPrimary(n) ==
    /\ link[n] \in {"cut", "far"}
    /\ link' = [link EXCEPT ![n] = IF @ = "cut" THEN "near" ELSE "none"]
    /\ backupClosed' = (backupClosed \/ n = B)
    /\ proto' = [proto EXCEPT ![P][n] = 0]
    /\ dis' = [dis EXCEPT ![P][n] = FALSE]
    /\ ctx' = [ctx EXCEPT ![P] = Orphaned(@, n)]
    /\ UNCHANGED <<up, faults, connecting, checks, pings, net, down,
                   cell>>

\* The local servers stay disabled.
ToggledNot(n, enabled) == dis[n]

(* silc_server_local_servers_toggle_enabled                                *)
Toggled(n, enabled) ==
    [m \in Nodes |-> ~enabled /\ m # n /\ Holds(n, m)]

\* n's end of the connection is closed.
Closed(n) ==
    /\ link' = [link EXCEPT ![n] =
                    IF @ = "near" THEN "none" ELSE "far"]
    /\ proto' = [proto EXCEPT ![n][P] = 0]
    /\ ctx' = [ctx EXCEPT ![n] = Orphaned(@, P)]
    /\ replaced' = [replaced EXCEPT ![n] = TRUE]
    /\ dis' = [dis EXCEPT ![n] = Toggled(n, TRUE)]

(* B frees the entry of P: it becomes the router of the cell and keeps     *)
(* trying to connect to P.                                                 *)
BackupTakesOver ==
    /\ Closed(B)
    /\ btype' = "router"
    /\ standalone' = TRUE
    /\ connecting' = connecting \cup {B}
    /\ gaveUp' = FALSE

\* The PINGs that were sent on the connection B has freed.
Lost(pp) == [s \in Servers |-> IF pp[s] = "sent" THEN "lost" ELSE pp[s]]

(* A server frees the entry of P.  If P was its router it switches to B    *)
(* and tells B with START_USE.                                             *)
ServerSwitches(s) ==
    /\ Closed(s)
    /\ router' = [router EXCEPT ![s] = B]
    /\ net' = IF router[s] = P
              THEN [net EXCEPT ![<<s, B>>] = Append(@, "START_USE"),
                               ![<<P, s>>] = <<>>]
              ELSE [net EXCEPT ![<<P, s>>] = <<>>]

EosAtBackup ==
    /\ link[B] \in {"cut", "near"}
    /\ BackupTakesOver
    /\ net' = [net EXCEPT ![<<P, B>>] = <<>>]
    /\ pings' = Lost(pings)
    /\ UNCHANGED <<up, faults, router, checks, backupClosed, resumed, down>>

EosAtServer(s) ==
    /\ link[s] \in {"cut", "near"}
    /\ ServerSwitches(s)
    /\ UNCHANGED <<up, faults, btype, standalone, connecting, checks, pings,
                   backupClosed, resumed, gaveUp, down>>

-----------------------------------------------------------------------------
(* START_USE: may this server use B as its router?                         *)

\* B answers, when it is the router of the cell, with a START_USE that the
\* server ignores (it has switched already); otherwise B sends a PING to P.
StartUse(s) ==
    /\ net[<<s, B>>] # <<>> /\ Head(net[<<s, B>>]) = "START_USE"
    /\ net' = [net EXCEPT ![<<s, B>>] = Tail(@)]
    /\ pings' = IF btype = "router" \/ standalone THEN pings
                ELSE [pings EXCEPT ![s] = "sent"]
    /\ UNCHANGED <<dis, proto, ctx, connecting, checks, backupClosed, down,
                   cell, env>>

(* silc_server_backup_ping_reply.  An answer of P makes B refuse the       *)
(* server; the FAILURE it sends is not processed by anyone.                *)
PingAnswered(s) ==
    /\ pings[s] = "sent" /\ link[B] = "up"
    /\ pings' = [pings EXCEPT ![s] = "no"]
    /\ UNCHANGED <<dis, proto, ctx, connecting, checks, backupClosed, net,
                   down, cell, env>>

\* No answer in 15 seconds: the connection B now has with P is closed, even
\* if it is a new one (this counts as a fault).
PingTimeout(s) ==
    /\ Quiet
    /\ \/ pings[s] = "lost" /\ (link[B] = "up" => faults < MaxFaults)
       \/ pings[s] = "sent" /\ link[B] # "up"
    /\ IF ~standalone
       THEN /\ BackupTakesOver
            /\ pings' = Lost([pings EXCEPT ![s] = "no"])
            /\ net' = [net EXCEPT ![<<P, B>>] = <<>>]
       ELSE /\ pings' = [pings EXCEPT ![s] = "no"]
            /\ UNCHANGED <<link, proto, ctx, replaced, dis, btype,
                           standalone, connecting, gaveUp, net>>
    /\ faults' = IF link[B] = "up" THEN faults + 1 ELSE faults
    /\ UNCHANGED <<up, router, checks, backupClosed, resumed, down>>

\* silc_server_backup_check_status
CheckStatus(s) ==
    /\ checks[s] > 0 /\ Quiet
    /\ checks' = [checks EXCEPT ![s] = @ - 1]
    /\ net' = IF router[s] = B THEN Sent(s, B, "START_USE", dis) ELSE net
    /\ UNCHANGED <<dis, proto, ctx, connecting, pings, backupClosed, down,
                   cell, env>>

-----------------------------------------------------------------------------
(* The protocol contexts and their tasks.                                  *)

(* B is connected to P and has a primary router again.  The callback of    *)
(* the connection (silc_server_backup_connected), if it is called, starts  *)
(* the protocol with B as its initiator.                                   *)
BackupConnected ==
    /\ B \in connecting /\ up /\ link[B] = "none"
    /\ CallbackKept => LastCtx(B) < MaxRounds
    /\ link' = [link EXCEPT ![B] = "up"]
    /\ connecting' = connecting \ {B}
    /\ standalone' = FALSE
    /\ ctx' = IF CallbackKept
              THEN [ctx EXCEPT ![B] = Append(@, NewContext(P, FALSE, 0))]
              ELSE ctx
    /\ UNCHANGED <<up, faults, btype, router, replaced, dis, proto, checks,
                   pings, backupClosed, resumed, gaveUp, net, down>>

(* START arrives at P or at a server.  P refuses it, once, when it was B   *)
(* that closed the connection.                                             *)
RefusesStart(n) == n = P /\ backupClosed

Start(n) ==
    /\ n \in Peers
    /\ net[<<B, n>>] # <<>> /\ Head(net[<<B, n>>]) = "START"
    /\ net' = [net EXCEPT ![<<B, n>>] = Tail(@)]
    /\ IF RefusesStart(n)
       THEN backupClosed' = FALSE /\ UNCHANGED <<ctx, proto>>
       ELSE /\ LastCtx(n) < MaxRounds
            /\ ctx' = [ctx EXCEPT ![n] =
                          Append(@, [NewContext(B, TRUE, 0)
                                     EXCEPT !.session = n])]
            /\ proto' = [proto EXCEPT ![n][B] = Len(ctx'[n])]
            /\ UNCHANGED backupClosed
    /\ UNCHANGED <<dis, connecting, checks, pings, down, cell, env>>

(* silc_server_backup_connected_later, 5 seconds after the run that failed *)
Begin(i) ==
    /\ ~ctx[B][i].started /\ ctx[B][i].state # Freed /\ Settled
    /\ ctx' = Updated(B, i, [ctx[B][i] EXCEPT !.started = TRUE, !.tasks = 1])
    /\ UNCHANGED <<dis, proto, connecting, checks, pings, backupClosed, net,
                   down, cell, env>>

(* A packet of the protocol arrives at n from m.  Its type and session go  *)
(* into the context the connection shares, and the protocol is scheduled.  *)
\* RESUMED on a disabled connection outside the protocol takes B's context.
Activates(n, m, p) ==
    /\ p = "RESUMED" /\ n # P /\ m = P
    /\ proto[n][m] = 0 /\ dis[n][m] /\ replaced[n]

Dispatched(c, p, m) ==
    IF p = "RESUMED" \/ m \in c.sessions \/ (c.responder /\ c.sessions # {})
    THEN [c EXCEPT !.type = p, !.tasks = @ + 1,
                   !.session = IF ~c.responder THEN m ELSE @,
                   !.answered = IF p = "CONNECTED" THEN @ \cup {m} ELSE @]
    ELSE [c EXCEPT !.type = p]

Receive(n, m) ==
    /\ net[<<m, n>>] # <<>>
    /\ Head(net[<<m, n>>]) \in {"CONNECTED", "ENDING", "RESUMED"}
    /\ net' = [net EXCEPT ![<<m, n>>] = Tail(@)]
    /\ LET p == Head(net[<<m, n>>])
           act == Activates(n, m, p)
           i == IF act THEN proto[n][B] ELSE proto[n][m]
       IN  \/ /\ i = 0
              /\ down' = (down \/ act)
              /\ UNCHANGED <<ctx, proto>>
           \/ /\ i # 0 /\ ctx[n][i].state = Freed
              /\ down' = TRUE
              /\ UNCHANGED <<ctx, proto>>
           \/ /\ i # 0 /\ ctx[n][i].state # Freed
              /\ LET c == IF act THEN [ctx[n][i] EXCEPT !.sock = P]
                                 ELSE ctx[n][i]
                 IN ctx' = Updated(n, i, Dispatched(c, p, m))
              /\ proto' = [proto EXCEPT ![n][m] = i]
              /\ UNCHANGED down
    /\ UNCHANGED <<dis, connecting, checks, pings, backupClosed, cell, env>>

(* A server is connected to P after START.  The callback of the connection *)
(* (silc_server_backup_connect_primary), if it is called, answers          *)
(* CONNECTED, disables P until RESUMED, and moves the context to P's entry.*)
ServerConnected(s) ==
    /\ s \in connecting /\ up /\ link[s] = "none"
    /\ link' = [link EXCEPT ![s] = "up"]
    /\ connecting' = connecting \ {s}
    /\ LET i == proto[s][B] IN
       \/ /\ i = 0 \/ ~CallbackKept
          /\ UNCHANGED <<dis, proto, ctx, net, down>>
       \/ /\ CallbackKept /\ i # 0 /\ ctx[s][i].state = Freed
          /\ down' = TRUE
          /\ UNCHANGED <<dis, proto, ctx, net>>
       \/ /\ CallbackKept /\ i # 0 /\ ctx[s][i].state # Freed
          /\ net' = Sent(s, B, "CONNECTED", dis)
          /\ dis' = [dis EXCEPT ![s][P] = TRUE]
          /\ ctx' = Updated(s, i, [ctx[s][i] EXCEPT !.sock = P])
          /\ proto' = [proto EXCEPT ![s][P] = i, ![s][B] = 0]
          /\ UNCHANGED down
    /\ UNCHANGED <<up, faults, checks, pings, backupClosed, cell>>

-----------------------------------------------------------------------------
(* silc_server_protocol_backup: one run of the protocol task of context i. *)

\* The task is taken from the scheduler; it does nothing else.
Taken(c) == [c EXCEPT !.tasks = @ - 1]

\* Any type, once the run is only waiting for its end.
AwaitedAny(c) ==
    CASE c.state = 1 -> "START"
      [] c.state = 250 -> c.type
      [] c.state = 2 /\ c.responder -> "ENDING"
      [] c.state = 2 /\ ~c.responder -> "CONNECTED"

\* The type of packet a context waits for.
Awaited(c) ==
    CASE c.state = 1 -> "START"
      [] c.state = 250 -> "RESUMED"
      [] c.state = 2 /\ c.responder -> "ENDING"
      [] c.state = 2 /\ ~c.responder -> "CONNECTED"

InitiatorStart(n, i) ==
    /\ ctx[n][i].state = 1 /\ ~ctx[n][i].responder
    /\ LET M == {m \in Peers : Holds(n, m) /\ ~dis[n][m]} IN
       /\ net' = SentAll(n, M, "START", dis)
       /\ proto' = [proto EXCEPT ![n] =
                       [m \in Nodes |-> IF m \in M THEN i ELSE @[m]]]
       /\ ctx' = Updated(n, i, [Taken(ctx[n][i]) EXCEPT !.state = 2,
                                                        !.sessions = M])
    /\ UNCHANGED <<dis, connecting, checks, backupClosed, cell, down>>

(* A server that uses B and has no connection with P connects to P first;  *)
(* everyone else answers CONNECTED at once.  While a connection is being   *)
(* made, whether its socket is already counted is not known.               *)
Reconnects(n) == n \in Servers /\ router[n] = B /\ ~Holds(n, P)

ResponderStart(n, i) ==
    /\ ctx[n][i].state = 1 /\ ctx[n][i].responder
    /\ ctx[n][i].type = Awaited(ctx[n][i])
    /\ \/ /\ Reconnects(n)
          /\ connecting' = connecting \cup {n}
          /\ UNCHANGED net
       \/ /\ ~Reconnects(n) \/ n \in connecting
          /\ net' = IF ctx[n][i].sock = B
                    THEN Sent(n, B, "CONNECTED", dis) ELSE net
          /\ UNCHANGED connecting
    /\ ctx' = Updated(n, i, [Taken(ctx[n][i]) EXCEPT
                                 !.sessions = {n},
                                 !.state = IF n = P THEN 2 ELSE 250])
    /\ UNCHANGED <<dis, proto, checks, backupClosed, cell, down>>

\* One answer is taken for all.
AllConnectedSome(c) == c.connected # {}

\* B marks the session of the last CONNECTED; after the last one, ENDING.
AllConnected(c) == c.connected = c.sessions

InitiatorConnected(n, i) ==
    /\ ctx[n][i].state = 2 /\ ~ctx[n][i].responder
    /\ ctx[n][i].type = Awaited(ctx[n][i])
    /\ LET o == ctx[n][i]
           c == [Taken(o) EXCEPT !.connected =
                                     @ \cup (o.sessions \cap {o.session})]
       IN ctx' = Updated(n, i, [c EXCEPT !.ending =
                                   IF AllConnected(c) THEN @ + 1 ELSE @])
    /\ UNCHANGED <<dis, proto, net, connecting, checks, backupClosed, cell,
                   down>>

\* P resumes: RESUMED goes to every connection, the one to B last.
PrimaryResumes(n, i) ==
    /\ ctx[n][i].state = 2 /\ ctx[n][i].responder
    /\ ctx[n][i].type = Awaited(ctx[n][i])
    /\ LET M == {m \in Dialers : Holds(n, m)} IN
       IF ctx[n][i].sock = NoSock
       THEN down' = TRUE /\ UNCHANGED <<dis, net, proto, ctx, resumed>>
       ELSE /\ dis' = [dis EXCEPT ![n] = Toggled(n, TRUE)]
            /\ net' = SentAll(n, M, "RESUMED", dis')
            /\ proto' = [proto EXCEPT ![n] =
                            [m \in Nodes |-> IF m \in M THEN i ELSE @[m]]]
            /\ ctx' = Updated(n, i, [Taken(ctx[n][i]) EXCEPT !.fin = TRUE])
            /\ resumed' = TRUE
            /\ UNCHANGED down
    /\ UNCHANGED <<connecting, checks, backupClosed, btype, standalone,
                   router, replaced, gaveUp>>

(* RESUMED received: B is a backup router again, a server uses P again.    *)
Resumes(n, i) ==
    /\ ctx[n][i].state = 250 /\ ctx[n][i].type = Awaited(ctx[n][i])
    /\ IF ctx[n][i].sock # P
       THEN down' = TRUE /\ UNCHANGED <<ctx, dis, cell>>
       ELSE /\ btype' = IF n = B THEN "backup" ELSE btype
            /\ IF replaced[n]
               THEN /\ router' = IF n = B THEN router
                                 ELSE [router EXCEPT ![n] = P]
                    /\ replaced' = [replaced EXCEPT ![n] = FALSE]
                    /\ dis' = [dis EXCEPT ![n] =
                                  [Toggled(n, FALSE) EXCEPT ![P] = FALSE]]
               ELSE UNCHANGED <<router, replaced, dis>>
            /\ ctx' = Updated(n, i, [Taken(ctx[n][i]) EXCEPT !.fin = TRUE])
            /\ UNCHANGED <<standalone, resumed, gaveUp, down>>
    /\ UNCHANGED <<proto, net, connecting, checks, backupClosed>>

\* A packet of another type than the state waits for is ignored.
BadType(n, i) ==
    LET c == ctx[n][i] IN
    /\ c.type # Awaited(c)
    /\ c.state = 1 => c.responder
    /\ ctx' = Updated(n, i, Taken(c))
    /\ UNCHANGED <<dis, proto, net, connecting, checks, backupClosed, cell,
                   down>>

ProtocolBackup(n, i) ==
    /\ ctx[n][i].tasks > 0 /\ ctx[n][i].state # Freed
    /\ \/ InitiatorStart(n, i)     \/ ResponderStart(n, i)
       \/ InitiatorConnected(n, i) \/ PrimaryResumes(n, i)
       \/ Resumes(n, i)            \/ BadType(n, i)
    /\ UNCHANGED <<pings, env>>

\* silc_server_backup_send_resumed: ENDING goes to P.
SendEnding(i) ==
    /\ ctx[B][i].ending > 0 /\ Quiet
    /\ ctx' = Updated(B, i, [ctx[B][i] EXCEPT !.ending = @ - 1, !.state = 250])
    /\ net' = IF ctx[B][i].sock = P THEN Sent(B, P, "ENDING", dis) ELSE net
    /\ UNCHANGED <<dis, proto, connecting, checks, pings, backupClosed, down,
                   cell, env>>

\* The timeout does not end the protocol.
TimeoutNoDone(n, i) ==
    /\ ctx[n][i].started /\ ctx[n][i].state # Freed
    /\ ~ctx[n][i].error /\ Quiet
    /\ ctx' = Updated(n, i, [ctx[n][i] EXCEPT !.error = TRUE])
    /\ UNCHANGED <<dis, proto, net, connecting, checks, pings, backupClosed,
                   down, cell, env>>

(* silc_server_backup_timeout: 30 seconds after the protocol started.  B   *)
(* starts before the servers and P, and so its timeout comes first.        *)
Timeout(n, i) ==
    /\ ctx[n][i].started /\ ctx[n][i].state # Freed
    /\ ~ctx[n][i].error /\ Quiet
    /\ \A j \in 1..ctx[n][i].origin : ctx[B][j].state = Freed
    /\ ctx' = Updated(n, i, [ctx[n][i] EXCEPT !.error = TRUE, !.fin = TRUE])
    /\ UNCHANGED <<dis, proto, net, connecting, checks, pings, backupClosed,
                   down, cell, env>>

-----------------------------------------------------------------------------
(* silc_server_protocol_backup_done                                        *)

Members(n, i) == {m \in Nodes : Holds(n, m) /\ proto[n][m] = i}

\* B is the initiator and the connection it has with P is of this protocol.
AtPrimaryRoute(n, i) == n = B /\ ~standalone /\ P \in Members(n, i)

GivesUp(c) == c.restart > RestartLimit

(* The entries that are disabled afterwards.  A server keeps P disabled    *)
(* after an error; B, when it gives up, disables the servers, and enables  *)
(* again those of its protocol that it meets after P (`after').            *)
DisabledAfter(n, i, after) ==
    LET c == ctx[n][i]
        gives == c.error /\ AtPrimaryRoute(n, i) /\ GivesUp(c)
        keeps == c.error /\ (n \in Servers \/ AtPrimaryRoute(n, i))
    IN  [m \in Nodes |->
            IF gives
            THEN m \in Servers /\ (m \notin Members(n, i) \/ m \notin after)
            ELSE dis[n][m] /\ ((keeps /\ m = P) \/ m \notin Members(n, i))]

\* Where the ended context is removed: only from the connection it ends on.
Removed(n, i) ==
    LET c == ctx[n][i]
        kept == c.error /\ AtPrimaryRoute(n, i) /\ c.sock = P IN
    [m \in Nodes |-> IF m = c.sock /\ Holds(n, m) /\ ~kept
                     THEN 0 ELSE proto[n][m]]

Done(n, i) ==
    LET c == ctx[n][i]
        restarts == c.error /\ AtPrimaryRoute(n, i) /\ ~GivesUp(c)
        gives == c.error /\ AtPrimaryRoute(n, i) /\ GivesUp(c)
        asks == c.error /\ n \in Servers /\ router[n] = B
        freed == FreedContext(c)
    IN
    /\ c.fin
    /\ restarts => LastCtx(n) < MaxRounds
    /\ ctx' = [ctx EXCEPT ![n] =
                  IF restarts
                  THEN Append([@ EXCEPT ![i] = freed],
                              NewContext(P, FALSE, c.restart + 1))
                  ELSE [@ EXCEPT ![i] = freed]]
    /\ \E after \in SUBSET Servers :
          /\ ~gives => after = {}
          /\ dis' = [dis EXCEPT ![n] = DisabledAfter(n, i, after)]
    /\ proto' = [proto EXCEPT ![n] = Removed(n, i)]
    /\ btype' = IF gives THEN "backup" ELSE btype
    /\ gaveUp' = (gaveUp \/ gives)
    /\ net' = IF asks THEN Sent(n, B, "START_USE", dis') ELSE net
    /\ checks' = IF asks THEN [checks EXCEPT ![n] = Checks] ELSE checks
    /\ UNCHANGED <<connecting, pings, backupClosed, standalone, router,
                   replaced, resumed, down, env>>

-----------------------------------------------------------------------------

Environment == Crash \/ Restart \/ \E n \in Dialers : Cut(n)

Notices ==
    \/ EosAtBackup
    \/ \E s \in Servers : EosAtServer(s)
    \/ \E n \in Dialers : EosAtPrimary(n)

UseChecks ==
    \E s \in Servers : \/ StartUse(s) \/ PingAnswered(s) \/ PingTimeout(s)
                       \/ CheckStatus(s)

Connects == BackupConnected \/ \E s \in Servers : ServerConnected(s)

Delivers ==
    \/ \E n \in Peers : Start(n)
    \/ \E n, m \in Nodes : n # m /\ Receive(n, m)

ContextStep(n, i) ==
    \/ ProtocolBackup(n, i) \/ Done(n, i)
    \/ n = B /\ (Begin(i) \/ SendEnding(i))

Tasks == \E n \in Nodes : \E i \in DOMAIN ctx[n] : ContextStep(n, i)

Timeouts == \E n \in Nodes : \E i \in DOMAIN ctx[n] : Timeout(n, i)

Next ==
    /\ ~down
    /\ Environment \/ Notices \/ UseChecks \/ Connects \/ Delivers \/ Tasks
       \/ Timeouts

(* Fairness: a connection that ended is noticed, P is started again, a     *)
(* packet that arrived is processed, a task runs and a timeout expires.    *)
Fairness ==
    /\ WF_vars(~down /\ Restart)
    /\ WF_vars(~down /\ EosAtBackup)
    /\ \A s \in Servers : WF_vars(~down /\ EosAtServer(s))
    /\ \A n \in Dialers : WF_vars(~down /\ EosAtPrimary(n))
    /\ WF_vars(~down /\ BackupConnected)
    /\ \A s \in Servers : WF_vars(~down /\ ServerConnected(s))
    /\ \A n \in Peers : WF_vars(~down /\ Start(n))
    /\ \A n, m \in Nodes : n # m => WF_vars(~down /\ Receive(n, m))
    /\ \A s \in Servers : /\ WF_vars(~down /\ StartUse(s))
                          /\ WF_vars(~down /\ PingAnswered(s))
                          /\ WF_vars(~down /\ PingTimeout(s))
                          /\ WF_vars(~down /\ CheckStatus(s))
    /\ \A n \in Nodes : \A i \in 1..MaxRounds :
          /\ WF_vars(~down /\ i \in DOMAIN ctx[n] /\ ContextStep(n, i))
          /\ WF_vars(~down /\ i \in DOMAIN ctx[n] /\ Timeout(n, i))

Spec == Init /\ [][Next]_vars
FairSpec == Spec /\ Fairness

-----------------------------------------------------------------------------
(* Properties.                                                             *)

Contexts ==
    [sock : Nodes \cup {NoSock}, responder : BOOLEAN, state : States,
     type : Types, session : Peers \cup {NoSock}, sessions : SUBSET Peers,
     connected : SUBSET Peers, answered : SUBSET Nodes, started : BOOLEAN,
     tasks : Nat, ending : Nat, fin : BOOLEAN, error : BOOLEAN,
     restart : 0..(RestartLimit + 1), origin : 0..MaxRounds]

\* The types of the variables; a used context belongs to its node, and the
\* counter of restarts never passes the limit by more than one.
TypeOK ==
    /\ up \in BOOLEAN /\ link \in [Dialers -> Links] /\ faults \in 0..MaxFaults
    /\ btype \in {"backup", "router"} /\ standalone \in BOOLEAN
    /\ router \in [Servers -> {P, B}] /\ replaced \in [Dialers -> BOOLEAN]
    /\ dis \in [Nodes -> [Nodes -> BOOLEAN]]
    /\ proto \in [Nodes -> [Nodes -> 0..MaxRounds]]
    /\ ctx \in [Nodes -> Seq(Contexts)]
    /\ \A n \in Nodes : /\ LastCtx(n) <= MaxRounds
                        /\ \A m \in Nodes : proto[n][m] <= LastCtx(n)
    /\ net \in [Hops -> Seq(Packets)]
    /\ connecting \subseteq Dialers /\ checks \in [Servers -> 0..Checks]
    /\ pings \in [Servers -> {"no", "sent", "lost"}]
    /\ {backupClosed, resumed, gaveUp, down} \subseteq BOOLEAN

\* B resigns only after P has resumed (or after giving up): while B is a
\* backup router that is connected to P, P is the router of the cell.
ResignAfterResume ==
    btype = "backup" /\ ~gaveUp /\ link[B] = "up" => resumed

\* P is told to resume (ENDING) in a run of the protocol only after every
\* server that was sent START has answered CONNECTED in that run, no answer
\* being taken for another server's; and while B is the router of the cell,
\* that is every server of the cell.
ResumeReachesAll ==
    \A i \in DOMAIN ctx[B] : LET c == ctx[B][i] IN
        c.ending > 0 \/ c.state = 250 =>
            /\ c.sessions \cap Servers \subseteq c.answered
            /\ btype = "router" /\ c.sock = P => Servers \subseteq c.answered

\* The router a server uses is not disabled at the server, and while B is the
\* router of the cell it does not ignore a server that uses it.
RouterUsable ==
    \A s \in Servers :
        /\ ~dis[s][router[s]]
        /\ router[s] = B /\ btype = "router" => ~dis[B][s]

\* A resuming that B has begun ends: B is a backup router again, by success
\* or by giving up after its restarts, or it has lost P once more.
ResumeEnds ==
    btype = "router" /\ link[B] = "up"
        ~> btype = "backup" \/ link[B] # "up" \/ down

\* When B has become connected to the primary router it replaces, it starts
\* the resuming protocol (or loses P again).
ResumeStarts ==
    btype = "router" /\ link[B] = "up" ~> LastCtx(B) > 0 \/ link[B] # "up" \/ down

=============================================================================
