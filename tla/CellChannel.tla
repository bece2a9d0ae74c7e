---------------------------- MODULE CellChannel ----------------------------
(***************************************************************************)
(* One channel in one cell: a router R and the normal servers connected to *)
(* it, each with clients of its own (apps/silcd/command.c, command_reply.c, *)
(* packet_receive.c, packet_send.c, server.c and server_util.c).  Every    *)
(* node keeps its own entry of the channel.  A server carries out the      *)
(* commands of its clients on its own entry and notifies the router; the   *)
(* router applies the notify to its entry and passes it on to the servers  *)
(* with members on the channel.  Only a JOIN of a channel the server does  *)
(* not have waits for the router's answer.  Nothing orders the commands of *)
(* two servers, so entries may part; the properties say when they may not. *)
(*                                                                         *)
(* The connections between servers and router are FIFO queues.  A client   *)
(* sends JOIN again only after it got the answer to the JOIN before.       *)
(* Channel modes, and with them permanent channels and founder             *)
(* authentication, are left to module Channel; a router may refuse any     *)
(* JOIN of an existing channel.                                            *)
(***************************************************************************)
EXTENDS Naturals, Sequences, Functions, TLC

CONSTANTS Servers,      \* normal servers of the cell
          R,            \* the router
          Clients,
          Home,         \* the node a client is connected to
          Keys,         \* channel keys, used again once nobody holds them
          InitUsers,    \* the user lists the cell may start from
          MaxCommands,  \* bound: commands given by clients
          MaxCrashes    \* bound: servers that crash

VARIABLES chan,        \* SilcChannelEntry of each node
          up, down,    \* packets from a server to the router, and back
          pending,     \* clients whose JOIN waits for the router's reply
          here,        \* clients connected and registered
          alive,       \* servers running
          commands,    \* commands given so far
          crashes,     \* servers crashed so far
          crossed,     \* history: two nodes acted on one member at once
          overlapped,  \* history: a key made while packets were under way
          leaked       \* history: keys in use that a former member knows

vars == <<chan, up, down, pending, here, alive, commands, crashes, crossed,
          overlapped, leaked>>
cell == <<pending, here, alive, crashes>>

Nodes == Servers \cup {R}
Founder == {"op", "fo"}
UserLists == UNION {[C -> SUBSET Founder] : C \in SUBSET Clients}
FoundersOf(users) == {c \in DOMAIN users : "fo" \in users[c]}

ASSUME CellAssumption == /\ R \notin Servers \cup Clients
                         /\ Home \in [Clients -> Nodes]
                         /\ MaxCommands \in Nat /\ MaxCrashes \in Nat
\* The cell starts from user lists with at most one founder.
ASSUME UsersAssumption ==
    /\ InitUsers \subseteq UserLists
    /\ \A users \in InitUsers : \A c, d \in FoundersOf(users) : c = d

NoUsers == [c \in {} |-> {}]
NoChannel == [id |-> 0, users |-> NoUsers, global |-> FALSE, key |-> 0]

ClientsOf(n) == {c \in Clients : Home[c] = n}
Members(n) == DOMAIN chan[n].users
Opened(n) == Members(n) # {}
IsLocal(n, c) == Home[c] = n /\ c \in here
Rights(users, c) == c \in DOMAIN users /\ users[c] # {}
Kickable(users, c) == c \in DOMAIN users /\ "fo" \notin users[c]

Packets == UNION {{up[s][i] : i \in DOMAIN up[s]} : s \in Servers}
           \cup UNION {{down[s][i] : i \in DOMAIN down[s]} : s \in Servers}
Quiet == \A s \in Servers : up[s] = <<>> /\ down[s] = <<>>

InUse == {chan[n].key : n \in Nodes} \cup {m.key : m \in Packets}
NewKey == CHOOSE k \in Keys : k \notin InUse
NewId == (CHOOSE i \in 1 .. 2 * (MaxCommands + 1) :
             /\ \A n \in Nodes : chan[n].id # i
             /\ \A m \in Packets : m.id # i)

-----------------------------------------------------------------------------
(* Packets. Every packet names the channel entry it is about; the two that *)
(* sign clients off are not about a channel.                               *)

Packet(type, id, c, by, mode, key) ==
    [type |-> type, id |-> id, c |-> c, by |-> by, mode |-> mode, key |-> key,
     users |-> NoUsers, created |-> FALSE, gone |-> {}]
About(type, id, c) == Packet(type, id, c, c, {}, 0)
KeyPacket(ch) == Packet("key", ch.id, R, R, {}, ch.key)

\* silc_server_packet_send_to_channel on the router: every server with users
\* on the channel but the one the packet came from.
ToCell(q, users, sender, m) ==
    [s \in Servers |->
        IF s \in alive /\ s # sender /\ \E c \in DOMAIN users : Home[c] = s
        THEN Append(q[s], m) ELSE q[s]]

\* A packet to one server.
ToServer(q, s, m) == IF s \in alive THEN [q EXCEPT ![s] = Append(@, m)] ELSE q

\* silc_server_send_channel_key with `route' on a normal server.
KeyUp(ch) == IF ch.global THEN <<KeyPacket(ch)>> ELSE <<>>

\* Mutant: every client that joins a local channel is its founder.
JoinModeLocal(ch) == IF ~ch.global THEN Founder ELSE {}

\* The mode of a client that joins: founder of a channel without users.
JoinMode(ch) == IF ~ch.global /\ DOMAIN ch.users = {} THEN Founder ELSE {}
WithUser(users, c, mode) ==
    [x \in DOMAIN users \cup {c} |-> IF x = c THEN mode ELSE users[x]]
Joined(ch, c, mode) == [ch EXCEPT !.users = WithUser(@, c, mode)]

\* Mutant: a server keeps its entry for users of other servers.
WithoutAnybody(n, ch, gone) ==
    LET users == Restrict(ch.users, DOMAIN ch.users \ gone)
    IN  IF DOMAIN users = {} THEN NoChannel ELSE [ch EXCEPT !.users = users]

\* silc_server_remove_from_one_channel and _from_channels: the entry goes
\* with the last user of a router, with the last local user of a server.
Without(n, ch, gone) ==
    LET users == Restrict(ch.users, DOMAIN ch.users \ gone)
        kept == {c \in DOMAIN users : n = R \/ IsLocal(n, c)}
        remote == {c \in DOMAIN users : ~IsLocal(n, c)}
    IN  IF kept = {} THEN NoChannel
        ELSE [ch EXCEPT !.users = users,
                        !.global = @ /\ ((\A c \in gone : IsLocal(n, c))
                                         \/ remote # {})]

\* The clients a packet is about. A JOIN concerns all clients of its server:
\* the router may be about to delete the channel they are on.
Concerns(m) ==
    CASE m.type \in {"join", "joincmd"} -> ClientsOf(Home[m.c])
      [] m.type = "reply" -> ClientsOf(Home[m.c]) \cup DOMAIN m.users
      [] m.type \in {"leave", "signoff", "kicked", "cumode"} -> {m.c, m.by}
      [] OTHER -> {}

\* A packet about one of the clients that node n has not seen, or a JOIN of
\* its own that the router has not seen.
Unseen(n, concerned) ==
    \/ \E s \in Servers \ {n} : \E i \in DOMAIN up[s] :
          Concerns(up[s][i]) \cap concerned # {}
    \/ n # R /\ \E i \in DOMAIN down[n] :
          Concerns(down[n][i]) \cap concerned # {}
    \/ n # R /\ \E i \in DOMAIN up[n] : up[n][i].type = "joincmd"

\* What every command of a client does to the counters.
Command(n, concerned, rekeys) ==
    /\ n \in alive \cup {R}
    /\ commands < MaxCommands
    /\ commands' = commands + 1
    /\ crossed' = (crossed \/ Unseen(n, concerned))
    /\ overlapped' = (overlapped \/ (rekeys /\ ~Quiet))

-----------------------------------------------------------------------------
(* Commands of the clients of a normal server.                             *)

\* A new key for the users of an entry, sent up when there are users elsewhere.
Rekeyed(ch) == IF ch = NoChannel THEN ch ELSE [ch EXCEPT !.key = NewKey]

\* Node n has the entry ch from now on; the local users who are no longer on
\* it know the key it had.
Becomes(n, ch) ==
    /\ chan' = [chan EXCEPT ![n] = ch]
    /\ leaked' = (leaked \cap InUse) \cup
          {k \in {chan[n].key} :
              ~(Members(n) \cap ClientsOf(n) \subseteq DOMAIN ch.users)}

ServerUp(s, ch, packets) ==
    /\ Becomes(s, ch)
    /\ up' = [up EXCEPT ![s] = @ \o packets]
    /\ UNCHANGED down

\* silc_server_command_join when the server has the channel.
JoinKnown(c) ==
    LET s == Home[c]
        ch == Rekeyed(chan[s])
    IN  /\ s # R /\ c \in here \ pending /\ Opened(s) /\ c \notin Members(s)
        /\ Command(s, ClientsOf(s), TRUE)
        /\ ServerUp(s, Joined(ch, c, JoinMode(ch)),
                    KeyUp(ch) \o <<About("join", ch.id, c)>>)
        /\ UNCHANGED cell

\* silc_server_command_join when it has not: the router joins the client.
JoinForwarded(c) ==
    LET s == Home[c]
    IN  /\ s # R /\ c \in here \ pending /\ ~Opened(s)
        /\ Command(s, ClientsOf(s), TRUE)
        /\ ServerUp(s, chan[s], <<About("joincmd", 0, c)>>)
        /\ pending' = pending \cup {c}
        /\ UNCHANGED <<here, alive, crashes>>

\* What a server sends when c leaves with type: the notify, and the new key.
Departed(s, c, type) ==
    LET ch == Rekeyed(Without(s, chan[s], {c}))
    IN  ServerUp(s, ch, <<About(type, chan[s].id, c)>> \o KeyUp(ch))

\* silc_server_command_leave.
Leave(c) ==
    LET s == Home[c]
    IN  /\ s # R /\ c \in here /\ c \in Members(s)
        /\ Command(s, {c}, TRUE)
        /\ Departed(s, c, "leave")
        /\ UNCHANGED cell

\* silc_server_free_client_data when the connection of a client ends.
SignOff(c) ==
    LET s == Home[c]
    IN  /\ s # R /\ c \in here
        /\ Command(s, {c}, TRUE)
        /\ here' = here \ {c}
        /\ IF c \in Members(s) THEN Departed(s, c, "signoff")
           ELSE ServerUp(s, chan[s], <<About("signoff", 0, c)>>)
        /\ UNCHANGED <<pending, alive, crashes>>

\* silc_server_command_kick.
Kick(a, t) ==
    LET s == Home[a]
        ch == Rekeyed(Without(s, chan[s], {t}))
    IN  /\ s # R /\ a \in here
        /\ Rights(chan[s].users, a) /\ Kickable(chan[s].users, t)
        /\ Command(s, {a, t}, TRUE)
        /\ ServerUp(s, ch, <<Packet("kicked", chan[s].id, t, a, {}, 0)>>
                            \o KeyUp(ch))
        /\ UNCHANGED cell

\* The checks of silc_server_command_cumode, without founder authentication.
MayChange(users, a, t, mode) ==
    /\ {a, t} \subseteq DOMAIN users
    /\ mode # users[t]
    /\ IF a = t
       THEN /\ "fo" \in mode => "fo" \in users[a]
            /\ "op" \in mode \ users[a] => users[a] # {}
       ELSE Rights(users, a) /\ Kickable(users, t) /\ "fo" \notin mode

\* silc_server_command_cumode.
ChangeMode(a, t, mode) ==
    LET s == Home[a]
    IN  /\ s # R /\ a \in here /\ MayChange(chan[s].users, a, t, mode)
        /\ Command(s, {a, t}, FALSE)
        /\ ServerUp(s, [chan[s] EXCEPT !.users[t] = mode],
                    <<Packet("cumode", chan[s].id, t, a, mode, 0)>>)
        /\ UNCHANGED cell

-----------------------------------------------------------------------------
(* The router: its own clients' commands.                                  *)

RouterDown(ch, q) == Becomes(R, ch) /\ down' = q

\* silc_server_command_join_channel on the router: the key goes out before
\* the client is added, the reply to the asking server and the JOIN after.
RouterJoin(c, asking) ==
    LET created == ~Opened(R)
        old == [chan[R] EXCEPT !.id = IF created THEN NewId ELSE chan[R].id,
                               !.key = NewKey]
        ch == Joined(old, c, JoinMode(old))
        keyed == ToCell(down, old.users, R, KeyPacket(old))
        reply == [About("reply", ch.id, c) EXCEPT
                     !.key = ch.key, !.users = ch.users, !.created = created]
        told == ToServer(keyed, asking, reply)
    IN  RouterDown(ch, ToCell(told, ch.users, R, About("join", ch.id, c)))

OwnJoin(c) ==
    /\ Home[c] = R /\ c \in here /\ c \notin Members(R)
    /\ Command(R, {c}, TRUE)
    /\ RouterJoin(c, R)
    /\ UNCHANGED <<up, cell>>

\* Removal of users with a notify and a new key for those who stay.
RouterRemoves(gone, notify) ==
    LET ch == Rekeyed(Without(R, chan[R], gone))
        told == ToCell(down, ch.users, R, notify)
    IN  RouterDown(ch, ToCell(told, ch.users, R, KeyPacket(ch)))

OwnDeparts(c, type) ==
    /\ Home[c] = R /\ c \in here /\ c \in Members(R)
    /\ Command(R, {c}, TRUE)
    /\ here' = IF type = "signoff" THEN here \ {c} ELSE here
    /\ RouterRemoves({c}, About(type, chan[R].id, c))
    /\ UNCHANGED <<up, pending, alive, crashes>>

\* KICK tells the servers before it removes the user.
OwnKick(a, t) ==
    LET ch == Rekeyed(Without(R, chan[R], {t}))
        told == ToCell(down, chan[R].users, R,
                       Packet("kicked", chan[R].id, t, a, {}, 0))
    IN  /\ Home[a] = R /\ a \in here
        /\ Rights(chan[R].users, a) /\ Kickable(chan[R].users, t)
        /\ Command(R, {a, t}, TRUE)
        /\ RouterDown(ch, ToCell(told, ch.users, R, KeyPacket(ch)))
        /\ UNCHANGED <<up, cell>>

OwnChangeMode(a, t, mode) ==
    /\ Home[a] = R /\ a \in here /\ MayChange(chan[R].users, a, t, mode)
    /\ Command(R, {a, t}, FALSE)
    /\ RouterDown([chan[R] EXCEPT !.users[t] = mode],
                  ToCell(down, chan[R].users, R,
                         Packet("cumode", chan[R].id, t, a, mode, 0)))
    /\ UNCHANGED <<up, cell>>

\* Mutant: the new key stays with the router.
RekeyTimeoutSilent ==
    /\ Opened(R) /\ Quiet
    /\ RouterDown(Rekeyed(chan[R]), down)
    /\ overlapped' = FALSE
    /\ UNCHANGED <<up, cell, commands, crossed>>

\* silc_server_channel_key_rekey: the timeout is an hour by default, so the
\* packets of earlier commands have arrived.
RekeyTimeout ==
    LET ch == Rekeyed(chan[R])
    IN  /\ Opened(R) /\ Quiet
        /\ RouterDown(ch, ToCell(down, ch.users, R, KeyPacket(ch)))
        /\ overlapped' = FALSE
        /\ UNCHANGED <<up, cell, commands, crossed>>

-----------------------------------------------------------------------------
(* The router: what a server sent.                                         *)

Take(s, type) ==
    /\ up[s] # <<>> /\ Head(up[s]).type = type
    /\ up' = [up EXCEPT ![s] = Tail(@)]
    /\ UNCHANGED <<cell, commands, crossed>>
SameChannel(n, m) == Opened(n) /\ m.id = chan[n].id
Ignored == UNCHANGED <<chan, down, leaked>>

\* silc_server_command_join for a server's client; refused when one of the
\* checks on an existing channel fails or the client is on it already.
RouterJoinCommand(s) ==
    LET c == Head(up[s]).c
    IN  /\ Take(s, "joincmd")
        /\ \/ c \notin Members(R) /\ RouterJoin(c, s)
           \/ /\ Opened(R)
              /\ down' = ToServer(down, s, About("reply", 0, c))
              /\ UNCHANGED <<chan, leaked>>
        /\ UNCHANGED overlapped

\* silc_server_notify_process, JOIN: the servers are told, the client added.
RouterJoinNotify(s) ==
    LET m == Head(up[s])
    IN  /\ Take(s, "join")
        /\ IF SameChannel(R, m) /\ m.c \notin Members(R)
           THEN RouterDown(Joined(chan[R], m.c, {}),
                           ToCell(down, chan[R].users, s, m))
           ELSE Ignored
        /\ UNCHANGED overlapped

\* LEAVE and KICKED: the servers are told before the user is removed. The
\* router checks the rights of the kicker in its own entry.
RouterRemoveNotify(s, type) ==
    LET m == Head(up[s])
        users == chan[R].users
    IN  /\ Take(s, type)
        /\ IF /\ SameChannel(R, m) /\ m.c \in Members(R)
              /\ type = "kicked" => Kickable(users, m.c) /\ Rights(users, m.by)
           THEN RouterDown(Without(R, chan[R], {m.c}),
                           ToCell(down, users, s, m))
           ELSE Ignored
        /\ UNCHANGED overlapped

\* SIGNOFF: the user is removed from every channel without a new key, the
\* servers are told afterwards.
RouterSignOffNotify(s) ==
    LET m == Head(up[s])
        ch == Without(R, chan[R], {m.c})
    IN  /\ Take(s, "signoff")
        /\ IF m.c \in Members(R)
           THEN RouterDown(ch, ToCell(down, ch.users, R, m))
           ELSE Ignored
        /\ UNCHANGED overlapped

\* silc_server_force_cumode_change: the server that sent the notify and the
\* others are told the mode the router has set.
ForceMode(s, m, mode) ==
    LET forced == Packet("cumode", m.id, m.c, R, mode, 0)
    IN  RouterDown([chan[R] EXCEPT !.users[m.c] = mode],
                   ToCell(ToServer(down, s, forced), chan[R].users, s, forced))

\* CUMODE_CHANGE: the router checks the rights in its own entry. Without
\* founder authentication nobody becomes founder by CUMODE: the mode is set
\* without that right, and the server made to follow.
RouterModeNotify(s) ==
    LET m == Head(up[s])
        users == chan[R].users
    IN  /\ Take(s, "cumode")
        /\ IF /\ SameChannel(R, m) /\ {m.c, m.by} \subseteq Members(R)
              /\ m.c # m.by => Rights(users, m.by) /\ Kickable(users, m.c)
              /\ m.mode # users[m.c]
           THEN IF "fo" \in m.mode \ users[m.c]
                THEN ForceMode(s, m, m.mode \ {"fo"})
                ELSE RouterDown([chan[R] EXCEPT !.users[m.c] = m.mode],
                                ToCell(down, users, s, m))
           ELSE Ignored
        /\ UNCHANGED overlapped

\* Mutant: the key is saved and not passed on.
RouterKeySaved(s) ==
    LET m == Head(up[s])
    IN  /\ Take(s, "key")
        /\ IF SameChannel(R, m)
           THEN RouterDown([chan[R] EXCEPT !.key = m.key], down)
           ELSE Ignored
        /\ UNCHANGED overlapped

\* silc_server_channel_key.
RouterKey(s) ==
    LET m == Head(up[s])
    IN  /\ Take(s, "key")
        /\ IF SameChannel(R, m)
           THEN RouterDown([chan[R] EXCEPT !.key = m.key],
                           ToCell(down, chan[R].users, s, m))
           ELSE Ignored
        /\ UNCHANGED overlapped

\* silc_server_remove_clients_by_server when the connection of s has ended:
\* SERVER_SIGNOFF with the list of its clients, and a new key.
RouterServerGone(s) ==
    LET gone == ClientsOf(s)
    IN  /\ Take(s, "eos")
        /\ IF gone \cap Members(R) # {}
           THEN RouterRemoves(gone, [About("gone", 0, R) EXCEPT !.gone = gone])
           ELSE Ignored
        /\ overlapped' = (overlapped \/ ~Quiet')

-----------------------------------------------------------------------------
(* A normal server: what the router sent.                                  *)

Receive(s, types) ==
    /\ down[s] # <<>> /\ Head(down[s]).type \in types
    /\ UNCHANGED <<commands, crossed, overlapped>>
Received(s, ch) ==
    /\ Becomes(s, ch)
    /\ down' = [down EXCEPT ![s] = Tail(@)]
    /\ UNCHANGED <<up, here, alive, crashes>>

\* A server process ends; what it sent before still arrives.
Ended(s) ==
    /\ Becomes(s, NoChannel)
    /\ down' = [down EXCEPT ![s] = <<>>]
    /\ up' = [up EXCEPT ![s] = Append(@, About("eos", 0, R))]
    /\ here' = here \ ClientsOf(s)
    /\ alive' = alive \ {s}
    /\ pending' = pending \ ClientsOf(s)

\* silc_server_save_users_on_channel: users are added and their modes set,
\* nobody is removed, and the client that joins is left out.
SavedUsers(users, m) == Restrict(m.users, DOMAIN m.users \ {m.c}) @@ users

\* The entry silc_server_command_reply_join makes or updates.
ReplyEntry(old, m) ==
    [id |-> m.id, key |-> m.key, global |-> ~m.created,
     users |-> SavedUsers(old.users, m)]

\* silc_server_command_reply_join and the JOIN it runs again. A client that
\* has gone leaves a connection without context, which the JOIN dereferences.
ServerReply(s) ==
    LET m == Head(down[s])
        ch == ReplyEntry(chan[s], m)
    IN  /\ Receive(s, {"reply"})
        /\ IF m.id # 0 /\ m.c \notin here
           THEN Ended(s) /\ UNCHANGED crashes
           ELSE /\ pending' = pending \ {m.c}
                /\ Received(s, IF m.id = 0 THEN chan[s]
                               ELSE IF m.c \in DOMAIN ch.users THEN ch
                               ELSE Joined(ch, m.c, JoinMode(ch)))

\* JOIN: the channel has users elsewhere now.
ServerJoinNotify(s) ==
    LET m == Head(down[s])
        ch == [chan[s] EXCEPT !.global = TRUE]
    IN  /\ Receive(s, {"join"})
        /\ Received(s, IF SameChannel(s, m) /\ m.c \notin Members(s)
                       THEN Joined(ch, m.c, {}) ELSE chan[s])
        /\ UNCHANGED pending

\* LEAVE, KICKED, SIGNOFF and SERVER_SIGNOFF.
ServerRemoveNotify(s) ==
    LET m == Head(down[s])
        users == chan[s].users
        gone == (IF m.type = "gone" THEN m.gone ELSE {m.c}) \cap Members(s)
        applies == CASE m.type = "leave" -> SameChannel(s, m)
                     [] m.type = "kicked" ->
                            /\ SameChannel(s, m)
                            /\ Kickable(users, m.c) /\ Rights(users, m.by)
                     [] OTHER -> TRUE
    IN  /\ Receive(s, {"leave", "kicked", "signoff", "gone"})
        /\ Received(s, IF applies /\ gone # {} THEN Without(s, chan[s], gone)
                       ELSE chan[s])
        /\ UNCHANGED pending

\* CUMODE_CHANGE: a server trusts the router.
ServerModeNotify(s) ==
    LET m == Head(down[s])
    IN  /\ Receive(s, {"cumode"})
        /\ Received(s, IF /\ SameChannel(s, m)
                          /\ m.c \in Members(s)
                          /\ m.by \in Members(s) \cup {R}
                       THEN [chan[s] EXCEPT !.users[m.c] = m.mode]
                       ELSE chan[s])
        /\ UNCHANGED pending

\* silc_server_channel_key.
ServerKey(s) ==
    LET m == Head(down[s])
    IN  /\ Receive(s, {"key"})
        /\ Received(s, IF SameChannel(s, m)
                       THEN [chan[s] EXCEPT !.key = m.key] ELSE chan[s])
        /\ UNCHANGED pending

Crash(s) ==
    /\ s \in alive /\ crashes < MaxCrashes
    /\ crashes' = crashes + 1
    /\ Ended(s)
    /\ UNCHANGED <<commands, crossed, overlapped>>

-----------------------------------------------------------------------------

\* A user list all nodes with users on the channel have.
Established(users) ==
    [n \in Nodes |->
        IF DOMAIN users = {} \/ (n # R /\ DOMAIN users \cap ClientsOf(n) = {})
        THEN NoChannel
        ELSE [id |-> 1, users |-> users, key |-> CHOOSE k \in Keys : TRUE,
              global |-> n # R /\ ~(DOMAIN users \subseteq ClientsOf(n))]]

Init ==
    /\ \E users \in InitUsers : chan = Established(users)
    /\ up = [s \in Servers |-> <<>>] /\ down = [s \in Servers |-> <<>>]
    /\ pending = {} /\ here = Clients /\ alive = Servers
    /\ commands = 0 /\ crashes = 0
    /\ crossed = FALSE /\ overlapped = FALSE /\ leaked = {}

ClientCommand ==
    \/ \E c \in Clients : JoinKnown(c) \/ JoinForwarded(c) \/ OwnJoin(c)
    \/ \E c \in Clients : Leave(c) \/ SignOff(c)
    \/ \E c \in Clients, type \in {"leave", "signoff"} : OwnDeparts(c, type)
    \/ \E a, t \in Clients : Kick(a, t) \/ OwnKick(a, t)
    \/ \E a, t \in Clients, mode \in SUBSET Founder :
          ChangeMode(a, t, mode) \/ OwnChangeMode(a, t, mode)

RouterReceives(s) ==
    \/ RouterJoinCommand(s) \/ RouterJoinNotify(s) \/ RouterSignOffNotify(s)
    \/ RouterRemoveNotify(s, "leave") \/ RouterRemoveNotify(s, "kicked")
    \/ RouterModeNotify(s) \/ RouterKey(s) \/ RouterServerGone(s)

ServerReceives(s) ==
    \/ ServerReply(s) \/ ServerJoinNotify(s) \/ ServerRemoveNotify(s)
    \/ ServerModeNotify(s) \/ ServerKey(s)

Next ==
    \/ ClientCommand
    \/ RekeyTimeout
    \/ \E s \in Servers : RouterReceives(s) \/ ServerReceives(s) \/ Crash(s)

Spec == Init /\ [][Next]_vars

\* Connections deliver what was sent, and the re-key timeout comes.
Fairness == /\ \A s \in Servers : /\ WF_vars(RouterReceives(s))
                                  /\ WF_vars(ServerReceives(s))
            /\ WF_vars(RekeyTimeout)
FairSpec == Spec /\ Fairness

-----------------------------------------------------------------------------

\* What the variables hold.
PacketTypes == {"joincmd", "reply", "join", "leave", "kicked", "signoff",
                "cumode", "key", "eos", "gone"}
TypeOK ==
    /\ \A n \in Nodes : /\ chan[n].users \in UserLists
                       /\ chan[n].global \in BOOLEAN
                       /\ chan[n].key \in Keys \cup {0}
    /\ \A m \in Packets : /\ m.type \in PacketTypes
                         /\ m.users \in UserLists
                         /\ m.key \in Keys \cup {0}
    /\ pending \subseteq Clients /\ here \subseteq Clients
    /\ alive \subseteq Servers /\ leaked \subseteq Keys

\* Unless two nodes acted on one member at once, the cell agrees when all
\* packets have arrived: a server with users on the channel has the router's
\* user list and modes and knows (global_users) whether there are users
\* elsewhere, another one has no entry, and nobody listed has signed off.
MembersAgree ==
    Quiet /\ ~crossed =>
        /\ Members(R) \subseteq here
        /\ \A s \in alive :
              IF Members(R) \cap ClientsOf(s) = {} THEN ~Opened(s)
              ELSE /\ chan[s].users = chan[R].users
                   /\ Members(R) \subseteq ClientsOf(s) \/ chan[s].global

WithLocal == {n \in alive \cup {R} : Members(n) \cap ClientsOf(n) # {}}
OneKey == \A m, n \in WithLocal : chan[m].key = chan[n].key

\* Commands given one after the other leave every node whose clients are on
\* the channel with the same key.
KeysAgree == Quiet /\ ~crossed /\ ~overlapped => OneKey

\* The keys of commands given at once may cross and leave the cell with two
\* keys; the router's re-key timeout ends that, and takes the key from those
\* who have left.
KeysConverge ==
    []<>(crossed \/ (Quiet /\ OneKey /\ \A n \in WithLocal :
                                           chan[n].key \notin leaked))

\* The router never has two founders on the channel, in whatever order JOINs,
\* sign-offs, mode changes and replies cross. (A server may: a JOIN reply adds
\* the founder of a channel created anew to users that had gone meanwhile.)
OneFounder == \A c, d \in FoundersOf(chan[R].users) : c = d

\* "channel key is regenerated each time someone joins or leaves the channel"
\* (doc/silcd.conf.5): when all is quiet nobody who has left knows a key in
\* use.
LeaverLosesKey == Quiet => \A n \in WithLocal : chan[n].key \notin leaked

=============================================================================
