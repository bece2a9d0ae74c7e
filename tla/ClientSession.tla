---------------------------- MODULE ClientSession ----------------------------
(***************************************************************************)
(* The life of a client session on one server: connection, registration,   *)
(* QUIT, DETACH, RESUME of a detached session on another connection (with  *)
(* the WHOIS and GETKEY commands it may wait for), detach timeout, KILL,   *)
(* and what the network reports about clients of other servers.            *)
(*                                                                         *)
(* Everything runs in one thread; the interleavings are those of packets,  *)
(* scheduled tasks, and replies.  A client entry is named after the        *)
(* connection it was created for (or is one of Remotes, a client of        *)
(* another server), and is never reused.                                   *)
(***************************************************************************)
EXTENDS Naturals, FiniteSets

CONSTANTS
  Socks,         \* connections, numbered in the order in which they are made
  Users,         \* users, each with one key pair
  UsersOf,       \* the users that may make each of the connections
  Remotes,       \* clients registered on other servers
  RemoteOwner,   \* the user behind each of Remotes
  Kinds,         \* which of "standalone", "server", "router" to consider
  DetachTimeouts,  \* whether detach_timeout is set, by default it is not
  Nil            \* the null pointer

ASSUME SocksAssumption == Socks \subseteq Nat /\ Nil \notin Nat
ASSUME RemotesAssumption ==
  /\ Remotes \cap Socks = {} /\ Nil \notin Remotes \cup Users
  /\ RemoteOwner \in [Remotes -> Users]
ASSUME UsersAssumption == UsersOf \in [Socks -> SUBSET Users]
ASSUME KindsAssumption == Kinds \subseteq {"standalone", "server", "router"}
ASSUME TimeoutsAssumption == DetachTimeouts \subseteq BOOLEAN

VARIABLES
  kind,      \* server->server_type and server->standalone
  entry,     \* the client entries
  sock,      \* packet streams: open, the key that authenticated it, context
  tasks,     \* scheduled tasks and pending command callbacks
  raced,   \* entries overtaken by a race the code does not handle (history)
  down       \* a null context was dereferenced: the process is gone

vars == <<kind, entry, sock, tasks, raced, down>>

Entries == Socks \cup Remotes

\* A Client ID names the entry and whether it was made from our server ID; a
\* session that moves to another server gets a new one.
Ids == Entries \X BOOLEAN
Id(e) == <<e, entry[e].home>>

\* `free' is an entry that does not exist yet, `gone' one that was deleted.
EntryRecord ==
  [ st : {"free", "live", "gone"}, owner : Users \cup {Nil},
    reg : BOOLEAN, resumed : BOOLEAN, res : BOOLEAN, local : BOOLEAN,
    detached : BOOLEAN, conn : Socks \cup {Nil}, routed : BOOLEAN,
    resuming : Entries \cup {Nil}, key : Users \cup {Nil},
    expired : BOOLEAN, home : BOOLEAN ]

NoClient ==
  [ st |-> "free", owner |-> Nil, reg |-> FALSE, resumed |-> FALSE,
    res |-> FALSE, local |-> FALSE, detached |-> FALSE, conn |-> Nil,
    routed |-> FALSE, resuming |-> Nil, key |-> Nil, expired |-> FALSE,
    home |-> TRUE ]

SockRecord == [ st : {"free", "open", "closed"}, user : Users \cup {Nil},
                ctx : Entries \cup {Nil}, sent : BOOLEAN ]

Commands == {"quit", "detach"}
TaskRecord ==
       [ t : {"command"}, s : Socks, c : Commands ]
  \cup [ t : {"quit_cb", "detach_cb"}, s : Socks ]
  \cup [ t : {"detach_timeout"}, s : Socks, id : Ids ]
  \cup [ t : {"getkey"}, s : Socks, id : Ids ]
  \cup [ t : {"whois"}, s : Socks, id : Ids, modes : SUBSET BOOLEAN ]

NoEntries == [e \in Entries |-> NoClient]
NoSocks == [s \in Socks |->
              [st |-> "free", user |-> Nil, ctx |-> Nil, sent |-> FALSE]]

Init ==
  /\ kind \in Kinds
  /\ entry = NoEntries
  /\ sock = NoSocks
  /\ tasks = {}
  /\ raced = {}
  /\ down = FALSE

-----------------------------------------------------------------------------
\* silc_server_free_client_data: the entry goes into the history, and nothing
\* but its ID and its names is looked at any more (by WHOWAS); the purge of the
\* history, 500 seconds later, is left out.
Unregistered(r) ==
  [NoClient EXCEPT !.st = "live", !.owner = r.owner, !.expired = TRUE]
Deleted(r) == [NoClient EXCEPT !.st = "gone", !.owner = r.owner]

\* silc_server_free_sock_user_data for a client connection.
FreedSockUserData(en, s) ==
  IF sock[s].ctx = Nil THEN en
  ELSE [en EXCEPT ![sock[s].ctx] = Unregistered(@)]

ClosedSock(sk) == [sk EXCEPT !.st = "closed"]
ClearedSock(sk) == [sk EXCEPT !.st = "closed", !.ctx = Nil]

\* silc_server_disconnect_remote followed by silc_server_free_sock_user_data.
Disconnect(en, s) ==
  /\ entry' = FreedSockUserData(en, s)
  /\ sock' = [sock EXCEPT ![s] = ClearedSock(@)]

FindClientById(en, id) ==
  {e \in Entries : en[e].reg /\ id = <<e, en[e].home>>}

-----------------------------------------------------------------------------
\* The key exchange and authentication are over: the client is given an entry.
Connect(s, u) ==
  /\ sock[s].st = "free" /\ u \in UsersOf[s]
  /\ \A r \in Socks : r < s => sock[r].st # "free"
  /\ sock' = [sock EXCEPT ![s] = [@ EXCEPT !.st = "open", !.user = u, !.ctx = s]]
  /\ entry' = [entry EXCEPT ![s] =
       [@ EXCEPT !.st = "live", !.owner = u, !.local = TRUE, !.conn = s,
                 !.key = u]]
  /\ UNCHANGED <<kind, tasks, raced, down>>

\* NEW_CLIENT, from a connection that has not registered; it is refused when
\* the user name, host name or nickname is bad.
NewClient(s) ==
  /\ sock[s].st = "open" /\ ~sock[s].sent
  /\ sock[s].ctx # Nil /\ ~entry[sock[s].ctx].reg
  /\ ~\E k \in tasks : k.t \in {"whois", "getkey"} /\ k.s = s
  /\ \/ /\ entry' = [entry EXCEPT ![sock[s].ctx].reg = TRUE]
        /\ UNCHANGED sock
     \/ Disconnect(entry, s)
  /\ UNCHANGED <<kind, tasks, raced, down>>

\* A command packet is put into the scheduler, where it waits for up to two
\* seconds.  A client that has sent QUIT or DETACH sends no more.
CommandProcess(s, c) ==
  /\ sock[s].st = "open" /\ sock[s].ctx # Nil /\ ~sock[s].sent
  /\ sock' = [sock EXCEPT ![s].sent = TRUE]
  /\ tasks' = tasks \cup {[t |-> "command", s |-> s, c |-> c]}
  /\ UNCHANGED <<kind, entry, raced, down>>

DetachTimeoutTask(s, e) == [t |-> "detach_timeout", s |-> s, id |-> Id(e)]

\* The delayed command: dropped when the client is gone or not registered.  A
\* DETACH sets the timeout if the configuration of the time has one.
CommandProcessTimeout(k) ==
  LET s == k.s
      e == sock[s].ctx
  IN
  /\ k.t = "command"
  /\ IF e = Nil \/ ~entry[e].reg
     THEN /\ tasks' = tasks \ {k}
          /\ UNCHANGED entry
     ELSE IF k.c = "quit"
     THEN /\ tasks' = (tasks \ {k}) \cup {[t |-> "quit_cb", s |-> s]}
          /\ UNCHANGED entry
     ELSE /\ entry' = [entry EXCEPT ![e] =
               [@ EXCEPT !.detached = TRUE, !.resumed = FALSE]]
          /\ \E set \in DetachTimeouts :
               tasks' = (tasks \ {k}) \cup {[t |-> "detach_cb", s |-> s]}
                          \cup (IF set THEN {DetachTimeoutTask(s, e)} ELSE {})
  /\ UNCHANGED <<kind, sock, raced, down>>

QuitCb(k) ==
  /\ k.t = "quit_cb"
  /\ tasks' = tasks \ {k}
  /\ IF sock[k.s].ctx = Nil THEN UNCHANGED <<entry, sock>>
                            ELSE Disconnect(entry, k.s)
  /\ UNCHANGED <<kind, raced, down>>

\* 200 ms after DETACH the connection is closed; its context keeps pointing to
\* the entry, whatever has become of the session meanwhile.
DetachCb(k) ==
  LET e == sock[k.s].ctx IN
  /\ k.t = "detach_cb"
  /\ tasks' = tasks \ {k}
  /\ IF e = Nil
     THEN UNCHANGED <<entry, sock>>
     ELSE /\ entry' = [entry EXCEPT ![e].routed = FALSE, ![e].conn = Nil]
          /\ sock' = [sock EXCEPT ![k.s] = ClosedSock(@)]
  /\ UNCHANGED <<kind, raced, down>>

\* Mutant: the client is looked up in the global list.
DetachExpiresGlobal(e, id) ==
  e \in FindClientById(entry, id) /\ ~entry[e].local /\ entry[e].detached
DetachExpires(e, id) ==
  e \in FindClientById(entry, id) /\ entry[e].local /\ entry[e].detached

\* Minutes after detach_cb.  Found by the ID it had when it was detached, in the
\* local list only.
DetachTimeout(k) ==
  /\ k.t = "detach_timeout" /\ [t |-> "detach_cb", s |-> k.s] \notin tasks
  /\ tasks' = tasks \ {k}
  /\ entry' = [e \in Entries |->
       IF DetachExpires(e, k.id) THEN Unregistered(entry[e]) ELSE entry[e]]
  /\ UNCHANGED <<kind, sock, raced, down>>

\* The peer closed the connection, or a packet error did.
PacketEos(s) ==
  /\ sock[s].st = "open"
  /\ Disconnect(entry, s)
  /\ UNCHANGED <<kind, tasks, raced, down>>

-----------------------------------------------------------------------------
\* The mode a WHOIS reply may bring: for one of our own clients what we told
\* the network before we asked, else whatever its own server says.
WhoisTask(en, s, id) ==
  LET own == {e \in FindClientById(en, id) : en[e].local}
  IN [ t |-> "whois", s |-> s, id |-> id,
       modes |-> IF own = {} THEN BOOLEAN ELSE {en[e].detached : e \in own} ]

\* The old connection of the session has not been closed yet.
DetachPending(e) == \E k \in tasks : k.t = "detach_cb" /\ sock[k.s].ctx = e

\* The entry d of the session once it is attached to connection s.
\* Mutant: the pointer to the connection is not set.
AttachedNoConnection(d, s, key) ==
  [d EXCEPT !.reg = TRUE, !.resumed = TRUE, !.local = TRUE, !.res = FALSE,
            !.detached = FALSE, !.routed = FALSE, !.resuming = Nil,
            !.home = TRUE, !.key = key]
\* Mutant: key and connection are exchanged.
AttachedSwapped(d, s, key) ==
  [d EXCEPT !.reg = TRUE, !.resumed = TRUE, !.local = TRUE, !.res = FALSE,
            !.detached = FALSE, !.routed = FALSE, !.resuming = Nil,
            !.home = TRUE, !.key = s, !.conn = key]
Attached(d, s, key) ==
  [d EXCEPT !.reg = TRUE, !.resumed = TRUE, !.local = TRUE, !.res = FALSE,
            !.detached = FALSE, !.routed = FALSE, !.resuming = Nil,
            !.home = TRUE, !.key = key, !.conn = s]

\* The session continues on the new connection, and the entry that was made
\* for that connection is deleted.
Resumed(st, s, e) ==
  LET c == sock[s].ctx IN
  /\ entry' = [d \in Entries |->
       IF d = c THEN Deleted(st.en[d])
       ELSE IF d = e THEN Attached(st.en[d], s, st.en[c].key) ELSE st.en[d]]
  /\ sock' = [sock EXCEPT ![s].ctx = e]
  /\ tasks' = st.tk
  /\ raced' = IF DetachPending(e) THEN st.rc \cup {e} ELSE st.rc

\* The resume is refused, or it waits for the reply to command k.
ResumeRefused(st, s) ==
  Disconnect(st.en, s) /\ tasks' = st.tk /\ raced' = st.rc
ResumeWaits(st, k) ==
  /\ entry' = st.en /\ tasks' = st.tk \cup {k} /\ raced' = st.rc
  /\ UNCHANGED sock

\* The details of the session must be asked for again.
\* Mutant: a session that is not detached is resumed like one that is.
MustResolveDetached(d, complete) == d.routed /\ ~complete /\ ~d.res
MustResolve(d, complete) ==
  (~d.detached \/ (d.routed /\ ~complete)) /\ ~d.res

\* The connection and the authentication data must use the key of the session.
\* Mutant: only the authentication payload is looked at.
AuthFailsUnlessVerified(d, key, verified) == ~verified
AuthFails(d, key, verified) == d.key # key \/ ~verified

\* The client's part of silc_server_resume_client for an entry that is known.
\* `complete' says whether the entry has its names and its channels, `verified'
\* whether the authentication payload is good.  resuming_client is set before
\* most of the checks.
ResumeKnown(st, s, e, complete, verified) ==
  LET c == sock[s].ctx
      d == st.en[e]
      id == <<e, d.home>>
      taken == [st EXCEPT !.en[e].resuming = c]
      resolve == MustResolve(d, complete)
  IN
  CASE d.resumed \/ d.resuming \notin {Nil, c} ->
         ResumeRefused(st, s)
    [] OTHER ->
       CASE resolve /\ kind = "server" ->
              ResumeWaits(taken, WhoisTask(st.en, s, id))
         [] resolve /\ kind = "standalone" ->
              ResumeRefused(taken, s)
         [] OTHER ->
            CASE d.key = Nil /\ kind # "standalone" ->
                   ResumeWaits(taken, [t |-> "getkey", s |-> s, id |-> id])
              [] d.key = Nil /\ kind = "standalone" ->
                   ResumeRefused(taken, s)
              [] d.key # Nil /\ AuthFails(d, st.en[c].key, verified) ->
                   ResumeRefused(taken, s)
              [] OTHER -> Resumed(taken, s, e)

\* An entry that came with NEW_ID may lack its names; silc_server_query_client
\* then asks for them before anything is checked or marked.
Nameless(d, complete) == d.routed /\ ~d.local /\ ~complete /\ ~d.res

\* silc_server_resume_client for a client, from the state st its caller left:
\* entries, tasks and the history variable.  Only a normal server with a router
\* can ask for a client it does not know.
ResumeClient(st, s, id, complete, verified) ==
  LET found == FindClientById(st.en, id) IN
  IF sock[s].ctx = Nil
  THEN /\ down' = TRUE
       /\ entry' = NoEntries /\ sock' = NoSocks /\ tasks' = {} /\ raced' = {}
  ELSE /\ UNCHANGED down
       /\ IF found # {}
          THEN \E e \in found :
                 \/ ResumeKnown(st, s, e, complete, verified)
                 \/ /\ Nameless(st.en[e], complete)
                    /\ ResumeWaits(st, WhoisTask(st.en, s, id))
          ELSE IF kind = "server"
          THEN ResumeWaits(st, WhoisTask(st.en, s, id))
          ELSE ResumeRefused(st, s)

\* RESUME_CLIENT in place of NEW_CLIENT, for a client that has been given an ID.
ResumePacket(s, id, complete, verified) ==
  /\ sock[s].st = "open" /\ ~sock[s].sent
  /\ sock[s].ctx # Nil /\ ~entry[sock[s].ctx].reg
  /\ ~\E k \in tasks : k.t \in {"whois", "getkey"} /\ k.s = s
  /\ id[1] \in Socks => entry[id[1]].reg \/ entry[id[1]].expired
                             \/ entry[id[1]].st = "gone"
  /\ ResumeClient([en |-> entry, tk |-> tasks, rc |-> raced],
                  s, id, complete, verified)
  /\ UNCHANGED kind

\* The command sent for a resume times out, or its reply is an error.
ResolveFails(k) ==
  /\ k.t \in {"whois", "getkey"}
  /\ Disconnect(entry, k.s)
  /\ tasks' = tasks \ {k}
  /\ UNCHANGED <<kind, raced, down>>

\* The entries once a WHOIS reply has been saved: a client that is unknown is
\* added, and one that is known is given the mode of the reply.  The code also adds
\* one that was deleted or got another ID while the command was out; here that
\* client stays unknown, since an entry of the model is never used twice.
WhoisSaved(k, mode) ==
  LET e == k.id[1] IN
  IF entry[e].st = "free"
  THEN [entry EXCEPT ![e] = [NoClient EXCEPT !.st = "live", !.reg = TRUE,
           !.owner = RemoteOwner[e], !.routed = TRUE, !.detached = mode,
           !.home = FALSE]]
  ELSE IF entry[e].reg /\ k.id = Id(e)
  THEN [entry EXCEPT ![e].detached = mode]
  ELSE entry

\* SILC_IDLIST_STATUS_RESUME_RES: the details are not asked for again.
\* Mutant: the status is not set.
ResumeResNot(r) == r
ResumeRes(r) == [r EXCEPT !.res = TRUE]

\* silc_server_command_resume_resolve after a WHOIS reply: the packet is
\* processed again, with the connection it came from as it is now.
WhoisReply(k, mode, complete, verified) ==
  LET en == WhoisSaved(k, mode)
      found == {e \in FindClientById(en, k.id) : en[e].detached}
      marked == [e \in Entries |->
                   IF e \in found THEN ResumeRes(en[e]) ELSE en[e]]
      stale == {e \in Entries : /\ en[e].detached # entry[e].detached
                                /\ entry[e].local}
      st == [en |-> marked, tk |-> tasks \ {k}, rc |-> raced \cup stale]
  IN
  /\ k.t = "whois" /\ mode \in k.modes
  /\ entry[k.id[1]].st = "free" => k.id \in Remotes \X {FALSE}
  /\ IF found = {}
     THEN ResumeRefused(st, k.s) /\ UNCHANGED down
     ELSE ResumeClient(st, k.s, k.id, complete, verified)
  /\ UNCHANGED kind

\* The reply to GETKEY: the key is stored unless the entry has one.  A reply that
\* is "just OK", without key, has the command sent again.
GetkeyReply(k, keyed, complete, verified) ==
  LET en == [e \in Entries |->
               IF keyed /\ e \in FindClientById(entry, k.id) /\ entry[e].key = Nil
               THEN [entry[e] EXCEPT !.key = entry[e].owner] ELSE entry[e]]
  IN
  /\ k.t = "getkey"
  /\ ResumeClient([en |-> en, tk |-> tasks \ {k}, rc |-> raced],
                  k.s, k.id, complete, verified)
  /\ UNCHANGED kind

-----------------------------------------------------------------------------
\* Mutant: the entry of a connected client is deleted as well.
KilledAtOnce(e) ==
  entry' = [entry EXCEPT ![e] = Deleted(@)] /\ UNCHANGED sock
\* silc_server_kill_client: a connected client is disconnected, any other is
\* deleted at once.
Killed(e) ==
  LET s == entry[e].conn IN
  IF s # Nil
  THEN Disconnect(entry, s)
  ELSE /\ entry' = [entry EXCEPT ![e] = Deleted(@)]
       /\ UNCHANGED sock

\* KILL by an operator, or with the client's own authentication.
KillClient(e) ==
  /\ entry[e].reg
  /\ Killed(e)
  /\ UNCHANGED <<kind, tasks, raced, down>>

\* NEW_ID: a client of another server is announced, without names or key.
NewId(e) ==
  /\ kind # "standalone" /\ e \in Remotes /\ entry[e].st = "free"
  /\ entry' = [entry EXCEPT ![e] = [@ EXCEPT !.st = "live", !.reg = TRUE,
                 !.owner = RemoteOwner[e], !.routed = TRUE, !.home = FALSE]]
  /\ UNCHANGED <<kind, sock, tasks, raced, down>>

\* UMODE_CHANGE of a client of another server that detaches; only RESUME_CLIENT
\* takes that mode away.
UmodeNotify(e) ==
  /\ entry[e].reg /\ ~entry[e].local
  /\ entry' = [entry EXCEPT ![e].detached = TRUE, ![e].resumed = FALSE]
  /\ UNCHANGED <<kind, sock, tasks, raced, down>>

\* SIGNOFF of a client of another server, or of one of ours whose registration
\* the router refuses; the latter is disconnected.
SignoffNotify(e) ==
  /\ kind # "standalone" /\ entry[e].reg
  /\ \/ /\ ~entry[e].local
        /\ entry' = [entry EXCEPT ![e] = Unregistered(@)]
        /\ UNCHANGED sock
     \/ /\ entry[e].local /\ entry[e].conn # Nil
        /\ entry' = [entry EXCEPT ![e] = Unregistered(@)]
        /\ sock' = [sock EXCEPT ![entry[e].conn] = ClearedSock(@)]
  /\ UNCHANGED <<kind, tasks, raced, down>>

\* KILLED, sent to the server of the client: the connection is closed and keeps
\* its context.
KilledNotify(e) ==
  /\ kind # "standalone" /\ entry[e].reg
  /\ entry' = [entry EXCEPT ![e] = Unregistered(@)]
  /\ sock' = IF entry[e].conn = Nil THEN sock
             ELSE [sock EXCEPT ![entry[e].conn] = ClosedSock(@)]
  /\ UNCHANGED <<kind, tasks, raced, down>>

\* RESUME_CLIENT from a server: the session goes on there.  A session that is
\* resumed already is killed.
ResumeNotify(e) ==
  /\ kind # "standalone" /\ entry[e].reg
  /\ \/ /\ entry[e].resumed /\ ~entry[e].detached
        /\ Killed(e)
        /\ UNCHANGED raced
     \/ /\ entry[e].detached
        /\ entry' = [entry EXCEPT ![e] =
             [@ EXCEPT !.key = Nil, !.detached = FALSE, !.resumed = TRUE,
                       !.local = FALSE, !.expired = FALSE, !.routed = TRUE]]
        /\ raced' = IF DetachPending(e) THEN raced \cup {e} ELSE raced
        /\ UNCHANGED sock
  /\ UNCHANGED <<kind, tasks, down>>

\* NICK_CHANGE: the server that resumed the session has given it a new ID.
NickChangeNotify(e) ==
  /\ entry[e].reg /\ ~entry[e].local /\ entry[e].home
  /\ entry' = [entry EXCEPT ![e].home = FALSE]
  /\ UNCHANGED <<kind, sock, tasks, raced, down>>

-----------------------------------------------------------------------------
Environment ==
  \/ \E s \in Socks : \/ \E u \in Users : Connect(s, u)
                      \/ NewClient(s)
                      \/ PacketEos(s)
                      \/ \E c \in Commands : CommandProcess(s, c)
                      \/ \E id \in Ids, complete, verified \in BOOLEAN :
                           ResumePacket(s, id, complete, verified)
  \/ \E e \in Entries : \/ KillClient(e)
                        \/ NewId(e)
                        \/ UmodeNotify(e)
                        \/ SignoffNotify(e)
                        \/ KilledNotify(e)
                        \/ ResumeNotify(e)
                        \/ NickChangeNotify(e)

\* What the scheduler, and the answers to our commands, do for a connection.
Scheduled(s) ==
  \E k \in tasks :
    /\ k.s = s
    /\ \/ CommandProcessTimeout(k)
       \/ QuitCb(k)
       \/ DetachCb(k)
       \/ DetachTimeout(k)
       \/ ResolveFails(k)
       \/ \E mode, complete, verified \in BOOLEAN :
            WhoisReply(k, mode, complete, verified)
       \/ \E keyed, complete, verified \in BOOLEAN :
            GetkeyReply(k, keyed, complete, verified)

\* The server is followed up to the first race it does not handle.
Running == ~down /\ raced = {}

Next == Running /\ (Environment \/ \E s \in Socks : Scheduled(s))

\* The scheduler runs every task when its time has come, and a command is
\* answered or times out; GETKEY is not answered without a key for ever.
Fairness == \A s \in Socks : WF_vars(Running /\ Scheduled(s))

Spec == Init /\ [][Next]_vars /\ Fairness

-----------------------------------------------------------------------------
\* The variables have the types of the structures they stand for (idlist.h).
TypeOK ==
  /\ kind \in Kinds
  /\ entry \in [Entries -> EntryRecord]
  /\ sock \in [Socks -> SockRecord]
  /\ tasks \subseteq TaskRecord
  /\ raced \subseteq Entries
  /\ down \in BOOLEAN

\* A session is only ever attached to a connection that was authenticated with
\* the key of the user it belongs to, however resumes, key lookups and moves
\* between servers interleave (packet_receive.c:3653).
SessionOwner ==
  \A s \in Socks : LET e == sock[s].ctx IN
    sock[s].st = "open" /\ e # Nil => sock[s].user = entry[e].owner

\* Two open connections have the same session only while one of them is about
\* to be closed by its own QUIT or DETACH (packet_receive.c:3549-3572).  A
\* router does not refuse to resume a session that is not detached.
OneSession ==
  kind # "router" =>
    \A r, s \in Socks :
      /\ r # s /\ sock[r].st = "open" /\ sock[s].st = "open"
      /\ sock[r].ctx = sock[s].ctx /\ sock[r].ctx # Nil
      => \E k \in tasks : k.t \in {"quit_cb", "detach_cb"} /\ k.s \in {r, s}

\* A registered client of ours is detached or can be reached: its connection is
\* open and leads back to it.  Sessions that were resumed in the 200 ms between
\* DETACH and the closing of the old connection (command.c:4061), or whose mode
\* a late WHOIS reply has overwritten, are excepted: the code loses track of
\* those (packet_receive.c:3716).
SessionReachable ==
  \A e \in Entries \ raced :
    /\ entry[e].reg /\ entry[e].local /\ ~entry[e].detached
    /\ kind # "router"
    => /\ entry[e].conn # Nil
       /\ sock[entry[e].conn].st = "open" /\ sock[entry[e].conn].ctx = e

\* No open connection and no task that will still run leads to an entry that
\* has been deleted, although resume deletes the entry of the connection at
\* once, and KILL that of a client that is not connected (packet_receive.c:3790,
\* server_util.c:1592).
ContextsLive ==
  \A s \in Socks : LET e == sock[s].ctx IN
    /\ e # Nil /\ e \notin raced
    /\ \/ sock[s].st = "open"
       \/ \E k \in tasks : k.t # "detach_timeout" /\ k.s = s
    => entry[e].st = "live"

\* A client that asks to resume is attached to a session or disconnected: no
\* sequence of WHOIS and GETKEY commands, lost replies and second attempts
\* keeps it waiting (packet_receive.c:3385).
ResumeAnswered ==
  \A s \in Socks :
    (\E k \in tasks : k.t \in {"whois", "getkey"} /\ k.s = s)
      ~> (\/ ~Running
          \/ ~\E k \in tasks : k.t \in {"whois", "getkey"} /\ k.s = s)

\* A session of ours that was detached with a timeout ends or is resumed: the
\* timeout still finds it by the ID of that time (command.c:4109).
DetachEnds ==
  \A e \in Entries :
    (entry[e].local /\ entry[e].detached /\ \E s \in Socks : DetachTimeoutTask(s, e) \in tasks)
      ~> (~Running \/ ~entry[e].local \/ ~entry[e].detached)

\* While nobody's resume is under way the mark that keeps others from resuming
\* the session is not set (idlist.h:354).
ResumingReleased ==
  \A e \in Entries : entry[e].reg /\ entry[e].resuming # Nil =>
    \E k \in tasks : k.t \in {"whois", "getkey"} /\ k.id = Id(e)
                     /\ sock[k.s].ctx = entry[e].resuming
=============================================================================
