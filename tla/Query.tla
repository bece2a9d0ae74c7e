------------------------------- MODULE Query -------------------------------
(***************************************************************************)
(* Commands that a normal server cannot answer from its own lists.  It     *)
(* sends a WHOIS to its router, puts a callback on server->pending_commands *)
(* under the identifier of that WHOIS, and goes on with other work; the    *)
(* reply, or a timeout, runs the callbacks.  The commands are WHOIS or     *)
(* IDENTIFY by Client IDs and by nickname (server_query.c), and INVITE as  *)
(* the user of silc_server_query_client.                                   *)
(*                                                                         *)
(* A handler or a callback is one action.  While the callbacks of a reply  *)
(* are being run nothing else happens: `exec' holds those that are left.   *)
(* pending_commands is a set: the callbacks of one reply run in any order. *)
(***************************************************************************)
EXTENDS Integers, FiniteSets

CONSTANTS
    Requests,       \* the commands that may be sent, each of them once
    Kind,           \* "ids", "nick" or "invite"
    Connections,
    Caller,         \* the connection a command comes from
    Clients,        \* clients of other servers, named by their Client ID
    Targets,        \* the clients a command is about
    OnChannels,     \* clients the server knows to be on some channel
    Renames,        \* Client IDs and the ones they may be replaced by
    None

ASSUME RequestsAssumption ==
    /\ IsFiniteSet(Requests) /\ IsFiniteSet(Clients)
    /\ Kind \in [Requests -> {"ids", "nick", "invite"}]
    /\ Caller \in [Requests -> Connections]
    /\ Targets \in [Requests -> SUBSET Clients]
    /\ \A r \in Requests : Targets[r] # {}
    /\ \A r \in Requests : Kind[r] = "invite" =>
           \E t \in Clients : Targets[r] = {t}
    /\ OnChannels \subseteq Clients
    /\ Renames \subseteq Clients \X Clients
    /\ None \notin Requests

VARIABLES
    cmd_ident,        \* server->cmd_ident
    pending_commands, \* server->pending_commands
    wire,             \* WHOIS commands the router has not answered yet
    entry,            \* the client entries of global_list
    query,            \* SilcServerQuery of a WHOIS or IDENTIFY
    cmd_pending,      \* commands with cmd->pending
    users,            \* cmd->users
    replies,          \* command replies sent to the caller of a command
    valid,            \* connections that are up and have their context
    exec              \* the reply whose callbacks are being run

vars == <<cmd_ident, pending_commands, wire, entry, query, cmd_pending,
          users, replies, valid, exec>>

\* An entry that is `expired' has lost SILC_IDLIST_STATUS_REGISTERED and is
\* kept for WHOWAS.  Of a client the server may know the nickname, or the user
\* name and the real name as well.
NoEntry == [status |-> "none", info |-> "none", resolving |-> FALSE,
            resolve_cmd_ident |-> 0]

NoQuery == [status |-> "none", resolved |-> FALSE, queries |-> {},
            queries_left |-> 0]

\* `from' is the command that had the WHOIS sent, None for a timeout.
Idle == [cmd |-> "idle", ident |-> 0, error |-> "OK", from |-> None,
         todo |-> {}, done |-> {}]

Init ==
    /\ cmd_ident = 0
    /\ pending_commands = {}
    /\ wire = {}
    /\ entry = [t \in Clients |-> NoEntry]
    /\ query = [r \in Requests |-> NoQuery]
    /\ cmd_pending = {}
    /\ users = [r \in Requests |-> 0]
    /\ replies = [r \in Requests |-> 0]
    /\ valid = Connections
    /\ exec = Idle

CanRun == exec = Idle

-----------------------------------------------------------------------------
(***************************************************************************)
(* The list of pending commands.                                           *)
(***************************************************************************)

Pending(reply_cmd, ident, callback, r) ==
    [reply_cmd |-> reply_cmd, ident |-> ident, callback |-> callback,
     context |-> r, reply_check |-> FALSE]

SamePending(p, q) ==
    /\ p.reply_cmd = q.reply_cmd
    /\ p.ident = q.ident
    /\ p.callback = q.callback
    /\ p.context = q.context

\* The entries silc_server_command_pending really adds.
Added(ps) == {p \in ps : \A q \in pending_commands : ~SamePending(p, q)}

\* What silc_server_command_pending_check collects.
PendingMatches(p, cmd, ident) ==
    p.ident = ident /\ (p.reply_cmd = cmd \/ p.reply_cmd = "NONE")

Checked(p) == [p EXCEPT !.reply_check = TRUE]

\* silc_server_command_pending_check marks the entries it collects.
PendingChecked(cmd, ident) ==
    {IF PendingMatches(p, cmd, ident) THEN Checked(p) ELSE p :
        p \in pending_commands}

\* Mutant: attached entries stay on the list.
PendingDeletedSame(p, cmd, ident) == p.ident = ident /\ p.reply_cmd = cmd

\* What silc_server_command_pending_del removes.
PendingDeleted(p, cmd, ident) ==
    /\ p.ident = ident
    /\ p.reply_cmd = cmd \/ (p.reply_cmd = "NONE" /\ p.reply_check)

\* A reply with its callbacks, as silc_server_command_reply_process and
\* silc_server_command_pending_timeout begin to run them.
Execute(cmd, ident, error, from) ==
    /\ pending_commands' = PendingChecked(cmd, ident)
    /\ exec' = [cmd |-> cmd, ident |-> ident, error |-> error, from |-> from,
                todo |-> {p \in PendingChecked(cmd, ident) :
                             PendingMatches(p, cmd, ident)},
                done |-> {}]

\* silc_server_command_pending_timeout, with its bogus TIMEDOUT reply.
PendingTimeout(p) ==
    /\ CanRun
    /\ p \in pending_commands
    /\ Execute(p.reply_cmd, p.ident, "TIMEDOUT", None)
    /\ UNCHANGED <<cmd_ident, wire, entry, query, cmd_pending, users, replies,
                   valid>>

\* All callbacks have been run.
PendingDel ==
    /\ exec # Idle
    /\ exec.todo = {}
    /\ pending_commands' = {p \in pending_commands :
                               ~PendingDeleted(p, exec.cmd, exec.ident)}
    /\ exec' = Idle
    /\ UNCHANGED <<cmd_ident, wire, entry, query, cmd_pending, users, replies,
                   valid>>

\* The step of the loop that runs the callback of p.
RunCallback(p) ==
    /\ p \in exec.todo
    /\ exec' = [exec EXCEPT !.todo = @ \ {p}, !.done = @ \cup {p}]
    /\ UNCHANGED valid

-----------------------------------------------------------------------------
(***************************************************************************)
(* Queries.  In the operators below `held' is what cmd->users has for the  *)
(* command before the step plus what the step has added to it.             *)
(***************************************************************************)

Whois(ident, ids, r, again) ==
    [ident |-> ident, ids |-> ids, from |-> r, again |-> again]

\* silc_server_query_free.
QueryFree(r, held) ==
    /\ query' = [query EXCEPT ![r].status = "freed"]
    /\ users' = [users EXCEPT ![r] = held - 1]
    /\ UNCHANGED <<cmd_ident, pending_commands, wire, entry, cmd_pending>>

\* silc_server_query_send_reply.
SendReply(r, held) ==
    /\ QueryFree(r, held)
    /\ replies' = [replies EXCEPT ![r] = @ + 1]

\* silc_server_query_send_router.
SendRouter(r, held) ==
    /\ cmd_ident' = cmd_ident + 1
    /\ wire' = wire \cup {Whois(cmd_ident + 1, Targets[r], r, FALSE)}
    /\ pending_commands' = pending_commands \cup
           {Pending("WHOIS", cmd_ident + 1, "send_router_reply", r)}
    /\ query' = [query EXCEPT ![r].status = "waiting", ![r].resolved = TRUE]
    /\ users' = [users EXCEPT ![r] = held]
    /\ UNCHANGED <<entry, cmd_pending, replies>>

\* Mutant: every client that is resolved is counted.
QueriesStartedEach(r, ts, fresh) == Cardinality(ts)

\* What is added to query->queries_left: one for every callback that was put
\* on the list.
QueriesStarted(r, ts, fresh) ==
    Cardinality(Added({Pending("NONE", entry[t].resolve_cmd_ident,
                               "resolve_reply", r) : t \in ts \ fresh}))
    + (IF fresh = {} THEN 0 ELSE 1)

\* silc_server_query_resolve for all clients of ts and then for the WHOIS.
\* Clients being resolved already are attached to; the others, `fresh', take
\* one identifier each, and share one WHOIS with the first of these.
Resolve(r, ts, held) ==
    LET fresh == {t \in ts : ~entry[t].resolving}
        first == cmd_ident + 1
        own   == IF fresh = {} THEN {}
                 ELSE {Pending("WHOIS", first, "resolve_reply", r)}
        attached == {Pending("NONE", entry[t].resolve_cmd_ident,
                             "resolve_reply", r) : t \in ts \ fresh}
    IN  \E f \in [fresh -> first..(cmd_ident + Cardinality(fresh))] :
          LET ident(t) == IF t \in fresh THEN f[t]
                          ELSE entry[t].resolve_cmd_ident
          IN  /\ \A t, u \in fresh : f[t] = f[u] => t = u
              /\ cmd_ident' = cmd_ident + Cardinality(fresh)
              /\ wire' = wire \cup (IF fresh = {} THEN {}
                                    ELSE {Whois(first, fresh, r, FALSE)})
              /\ pending_commands' = pending_commands \cup Added(attached \cup own)
              /\ entry' = [t \in Clients |->
                     IF t \in ts
                     THEN [entry[t] EXCEPT !.resolving = TRUE,
                                           !.resolve_cmd_ident = ident(t)]
                     ELSE entry[t]]
              /\ query' = [query EXCEPT
                     ![r].status = "waiting",
                     ![r].queries = @ \cup {<<t, ident(t)>> : t \in ts},
                     ![r].queries_left = @ + QueriesStarted(r, ts, fresh)]
              /\ users' = [users EXCEPT ![r] = held]
              /\ UNCHANGED <<cmd_pending, replies>>

Registered(t) == entry[t].status = "registered"

\* The clients silc_server_query_process finds, and those of them that it has
\* to resolve.
Found(r) ==
    {t \in Targets[r] : /\ Registered(t)
                        /\ Kind[r] = "nick" => entry[t].info # "none"}

ToResolve(r, resolved) ==
    {t \in Found(r) : \/ entry[t].info # "full"
                      \/ t \notin OnChannels /\ ~resolved}

\* silc_server_query_process, for a caller whose connection has its context.  A
\* connection that lost it (to a SIGNOFF notify, packet_receive.c:372) is not in
\* valid either: the callbacks below free the query, as this function would.
Process(r, resolve, resolved, held) ==
    IF resolve /\ ToResolve(r, resolved) # {}
    THEN Resolve(r, ToResolve(r, resolved), held)
    ELSE SendReply(r, held)

\* silc_server_query_command: a query by nickname, or by the ID of a client
\* that is not known here, goes to the router first.
QueryCommand(r) ==
    /\ CanRun
    /\ Kind[r] \in {"ids", "nick"}
    /\ query[r].status = "none"
    /\ Caller[r] \in valid
    /\ IF Kind[r] = "nick" \/ Found(r) # Targets[r]
       THEN SendRouter(r, 1)
       ELSE Process(r, TRUE, FALSE, 1)
    /\ UNCHANGED <<valid, exec>>

\* silc_server_query_send_router_reply.
SendRouterReply(p) ==
    LET r == p.context
    IN  /\ p.callback = "send_router_reply"
        /\ RunCallback(p)
        /\ IF Caller[r] \notin valid
           THEN QueryFree(r, users[r]) /\ UNCHANGED replies
           ELSE IF exec.error # "OK"
                THEN SendReply(r, users[r])
                ELSE Process(r, TRUE, TRUE, users[r])

\* Mutant: the first reply ends the query.
QueriesOverEarly(r) == TRUE

\* There are no queries left after this one.
QueriesOver(r) == query[r].queries_left - 1 = 0

\* After a timeout the client resolved under that identifier may be resolved
\* again.
ResolvingCleared(r) ==
    [t \in Clients |->
        IF /\ exec.error = "TIMEDOUT"
           /\ <<t, exec.ident>> \in query[r].queries
           /\ Registered(t)
        THEN [entry[t] EXCEPT !.resolving = FALSE] ELSE entry[t]]

\* silc_server_query_resolve_reply.
ResolveReply(p) ==
    LET r == p.context
    IN  /\ p.callback = "resolve_reply"
        /\ RunCallback(p)
        /\ entry' = ResolvingCleared(r)
        /\ query' = [query EXCEPT
               ![r].queries_left = @ - 1,
               ![r].status = IF QueriesOver(r) THEN "freed" ELSE @]
        /\ users' = [users EXCEPT ![r] = IF QueriesOver(r) THEN @ - 1 ELSE @]
        /\ replies' = [replies EXCEPT ![r] =
               IF QueriesOver(r) /\ Caller[r] \in valid THEN @ + 1 ELSE @]
        /\ UNCHANGED <<cmd_ident, pending_commands, wire, cmd_pending>>

-----------------------------------------------------------------------------
(***************************************************************************)
(* INVITE, whose handler is run once more as the callback.                 *)
(***************************************************************************)

\* silc_server_query_client sends a WHOIS.  Only for an entry that is there
\* it takes a new command identifier.
QueryClient(r, t) ==
    LET ident == IF Registered(t) THEN cmd_ident + 1 ELSE cmd_ident
    IN  /\ cmd_ident' = ident
        /\ wire' = wire \cup {Whois(ident, {t}, r, r \in cmd_pending)}
        /\ entry' = IF Registered(t)
                    THEN [entry EXCEPT ![t].resolving = TRUE,
                                       ![t].resolve_cmd_ident = ident]
                    ELSE entry

\* Mutant: the pending command does not count as a user.
InviteUsersNoDup(r, held) == held - 1

\* A reference for the pending command and one less for the handler.
InviteUsers(r, held) == held + 1 - 1

\* The command is over: reply and silc_server_command_free.
InviteOver(r, held) ==
    /\ users' = [users EXCEPT ![r] = held - 1]
    /\ replies' = [replies EXCEPT ![r] = IF Caller[r] \in valid THEN @ + 1 ELSE @]
    /\ UNCHANGED <<pending_commands, cmd_pending>>

\* The handler from where it looks up the client to be invited.
InviteLookup(r, held) ==
    \E t \in Targets[r] :
        IF Registered(t) /\ entry[t].info = "full"
        THEN InviteOver(r, held) /\ UNCHANGED <<cmd_ident, wire, entry>>
        ELSE /\ QueryClient(r, t)
             /\ IF r \in cmd_pending
                THEN InviteOver(r, held)
                ELSE /\ pending_commands' = pending_commands \cup
                            {Pending("WHOIS", cmd_ident', "invite", r)}
                     /\ cmd_pending' = cmd_pending \cup {r}
                     /\ users' = [users EXCEPT ![r] = InviteUsers(r, held)]
                     /\ UNCHANGED replies

\* INVITE arrives.
Invite(r) ==
    /\ CanRun
    /\ Kind[r] = "invite"
    /\ users[r] = 0 /\ replies[r] = 0 /\ r \notin cmd_pending
    /\ Caller[r] \in valid
    /\ InviteLookup(r, 1)
    /\ UNCHANGED <<query, valid, exec>>

\* INVITE as callback.  With an error in the reply, or without a caller, it
\* is over at once.
InviteReply(p) ==
    LET r == p.context
    IN  /\ p.callback = "invite"
        /\ RunCallback(p)
        /\ IF exec.error # "OK" \/ Caller[r] \notin valid
           THEN InviteOver(r, users[r]) /\ UNCHANGED <<cmd_ident, wire, entry>>
           ELSE InviteLookup(r, users[r])
        /\ UNCHANGED query

-----------------------------------------------------------------------------
(***************************************************************************)
(* The router, and other events.                                           *)
(***************************************************************************)

\* silc_server_command_reply_whois_save.  An entry that has expired is updated
\* and stays expired.
Saved(t) ==
    [entry EXCEPT ![t].status = IF @ = "none" THEN "registered" ELSE @,
                  ![t].info = "full",
                  ![t].resolving = FALSE]

\* silc_server_command_process_error forgets a client the router denies.
ReplyEntry(t, error) ==
    IF error = "OK" THEN Saved(t)
    ELSE IF error = "NO_SUCH_CLIENT_ID" THEN [entry EXCEPT ![t] = NoEntry]
    ELSE entry

\* A reply that is not the last of its list: no callbacks yet.
WhoisListItem(w, t, error) ==
    /\ CanRun
    /\ w \in wire
    /\ t \in w.ids
    /\ w.ids # {t}
    /\ entry' = ReplyEntry(t, error)
    /\ wire' = (wire \ {w}) \cup {[w EXCEPT !.ids = @ \ {t}]}
    /\ pending_commands' = PendingChecked("WHOIS", w.ident)
    /\ UNCHANGED <<cmd_ident, query, cmd_pending, users, replies, valid, exec>>

\* The only or the last reply.
WhoisReply(w, t, error) ==
    /\ CanRun
    /\ w \in wire
    /\ t \in w.ids
    /\ entry' = ReplyEntry(t, error)
    /\ wire' = wire \ {w}
    /\ Execute("WHOIS", w.ident, error, w.from)
    /\ UNCHANGED <<cmd_ident, query, cmd_pending, users, replies, valid>>

\* The router announces a client.
Announced(t) ==
    /\ CanRun
    /\ entry[t].status = "none"
    /\ entry' = [entry EXCEPT ![t].status = "registered"]
    /\ UNCHANGED <<cmd_ident, pending_commands, wire, query, cmd_pending,
                   users, replies, valid, exec>>

\* A client takes another nickname and gets another Client ID with it; the
\* entry and what is going on with it stay.
NickChange(t, u) ==
    /\ CanRun
    /\ <<t, u>> \in Renames
    /\ entry[t].status # "none"
    /\ entry[u].status = "none"
    /\ entry' = [entry EXCEPT
           ![t] = NoEntry,
           ![u] = [entry[t] EXCEPT !.info = IF @ = "none" THEN "nick" ELSE @]]
    /\ UNCHANGED <<cmd_ident, pending_commands, wire, query, cmd_pending,
                   users, replies, valid, exec>>

\* The router reports that a client has left the network.
SignedOff(t) ==
    /\ CanRun
    /\ Registered(t)
    /\ entry' = [entry EXCEPT ![t].status = "expired"]
    /\ UNCHANGED <<cmd_ident, pending_commands, wire, query, cmd_pending,
                   users, replies, valid, exec>>

\* silc_server_purge_expired_clients.
Purge(t) ==
    /\ CanRun
    /\ entry[t].status = "expired"
    /\ entry' = [entry EXCEPT ![t] = NoEntry]
    /\ UNCHANGED <<cmd_ident, pending_commands, wire, query, cmd_pending,
                   users, replies, valid, exec>>

\* A caller's connection is closed or loses its context.
Disconnect(c) ==
    /\ CanRun
    /\ c \in valid
    /\ valid' = valid \ {c}
    /\ UNCHANGED <<cmd_ident, pending_commands, wire, entry, query,
                   cmd_pending, users, replies, exec>>

-----------------------------------------------------------------------------
Errors == {"OK", "NO_SUCH_CLIENT_ID", "TIMEDOUT"}

Callbacks ==
    \/ PendingDel
    \/ \E p \in exec.todo : SendRouterReply(p)
    \/ \E p \in exec.todo : ResolveReply(p)
    \/ \E p \in exec.todo : InviteReply(p)

Timeouts == \E p \in pending_commands : PendingTimeout(p)

Next ==
    \/ Callbacks
    \/ Timeouts
    \/ \E r \in Requests : QueryCommand(r)
    \/ \E r \in Requests : Invite(r)
    \/ \E w \in wire : \E t \in w.ids, error \in Errors : WhoisListItem(w, t, error)
    \/ \E w \in wire : \E t \in w.ids, error \in Errors : WhoisReply(w, t, error)
    \/ \E t \in Clients : Announced(t)
    \/ \E t, u \in Clients : NickChange(t, u)
    \/ \E t \in Clients : SignedOff(t)
    \/ \E t \in Clients : Purge(t)
    \/ \E c \in Connections : Disconnect(c)

\* The loop over the callbacks runs on, and the scheduler runs the timeouts.
\* Nothing is assumed of the router.
Spec == Init /\ [][Next]_vars /\ WF_vars(Callbacks) /\ WF_vars(Timeouts)

-----------------------------------------------------------------------------
(***************************************************************************)
(* Properties.                                                             *)
(***************************************************************************)

PendingType ==
    [reply_cmd : {"WHOIS", "NONE"}, ident : Nat,
     callback : {"send_router_reply", "resolve_reply", "invite"},
     context : Requests, reply_check : BOOLEAN]

\* Every variable has the type its declaration in the code gives it.
TypeOK ==
    /\ cmd_ident \in Nat
    /\ pending_commands \subseteq PendingType
    /\ wire \subseteq [ident : Nat, ids : SUBSET Clients, from : Requests,
                       again : BOOLEAN]
    /\ entry \in [Clients -> [status : {"none", "registered", "expired"},
                              info : {"none", "nick", "full"},
                              resolving : BOOLEAN, resolve_cmd_ident : Nat]]
    /\ query \in [Requests -> [status : {"none", "waiting", "freed"},
                               resolved : BOOLEAN,
                               queries : SUBSET (Clients \X Nat),
                               queries_left : Nat]]
    /\ cmd_pending \subseteq Requests
    /\ users \in [Requests -> Nat]
    /\ replies \in [Requests -> Nat]
    /\ valid \subseteq Connections
    /\ exec \in [cmd : {"idle", "WHOIS", "NONE"}, ident : Nat, error : Errors,
                 from : Requests \cup {None}, todo : SUBSET PendingType,
                 done : SUBSET PendingType]

\* The callbacks that are still to come for a command.
Waiting(r) == {p \in pending_commands : p.context = r /\ p \notin exec.done}

\* A query that waits has a callback to come, and while it resolves clients
\* query->queries_left is the number of these, although a callback may be on
\* the list under the identifiers of other commands, be refused because it is
\* there already, or be reached by a timeout and a reply: the query is neither
\* forgotten nor ended early.
QueriesLeftExact ==
    \A r \in Requests : query[r].status = "waiting" =>
        /\ Waiting(r) # {}
        /\ query[r].queries_left =
               Cardinality({p \in Waiting(r) : p.callback = "resolve_reply"})

\* A callback that may still be run has a query that is not freed and a
\* command context with a reference.
ContextsLive ==
    \A p \in pending_commands \ exec.done :
        /\ users[p.context] > 0
        /\ Kind[p.context] # "invite" => query[p.context].status = "waiting"

\* cmd->users counts the holders of a command context and nobody else, so
\* that it is freed exactly when the last of them is done.
ReferencesExact ==
    \A r \in Requests :
        users[r] = IF Kind[r] = "invite" THEN Cardinality(Waiting(r))
                   ELSE IF query[r].status = "waiting" THEN 1 ELSE 0

\* How far a command is, as its caller sees it.
CommandStatus ==
    [r \in Requests |->
        IF query[r].status = "none" /\ r \notin cmd_pending /\ replies[r] = 0
        THEN "idle"
        ELSE CASE users[r] > 0 /\ replies[r] = 0 -> "running"
               [] users[r] = 0 /\ replies[r] = 1 -> "answered"
               [] users[r] = 0 /\ replies[r] = 0 -> "dropped"
               [] OTHER -> "wrong"]

Service == INSTANCE CommandService WITH status <- CommandStatus

\* Every command is answered exactly once, or dropped when its caller has
\* gone, although replies may come late, several times or never.
ImplementsService == Service!Spec

-----------------------------------------------------------------------------
(***************************************************************************)
(* What comments in the code say of it and the code does not keep.         *)
(***************************************************************************)

\* idlist.h on resolve_cmd_ident: with SILC_IDLIST_STATUS_RESOLVING set "the
\* resolver may attach to this command identifier and handle the process
\* after the resolving is over".  So there is a command with it.
ResolvingHasCommand ==
    \A t \in Clients : entry[t].resolving =>
        \/ \E w \in wire : w.ident = entry[t].resolve_cmd_ident
        \/ exec # Idle /\ exec.ident = entry[t].resolve_cmd_ident

\* server_query.h on silc_server_query_client: "the caller may attach to the
\* query by using silc_server_command_pending function.  The
\* server->cmd_ident includes the query identifier."  So an INVITE that waits
\* is continued by the reply to its own WHOIS.
InviteOwnReply ==
    exec.from # None =>
        \A p \in exec.todo : p.callback = "invite" => p.context = exec.from

=============================================================================
