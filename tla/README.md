# TLA+ models of the SILC server

This directory models the core of `silcd`, the SILC server (version 1.1), and of
the key exchange library it uses, in TLA+. The modules are checked with TLC on
small instances, and for seven of them the safety properties the runs check are
proved with TLAPS for every instance. `PROJECT.json` is the machine-readable index: the
components, the runs, the source lines behind every definition, a mutant for
every property, the disagreements found between code and comments, and the
hazards.

## 1. The system

`silcd` is one process with one scheduler. Packets, command replies and
timeouts are callbacks of that scheduler and each runs to its end before the
next one starts; key exchange and authentication are finite state machines
driven by the same scheduler. Servers form cells: a router with its servers and
clients, and optionally a backup router. Routers are connected to each other.

| component | state | operations | what makes it correct | module |
|---|---|---|---|---|
| Channels of a server (`command.c`, `server.c`, `server_util.c`, `idlist.c`) | channel entries, `user_list`, `client->channels`, user modes, channel key, re-key task, statistics | JOIN, LEAVE, KICK, KILL, INVITE, BAN, CMODE, CUMODE, sign-off, re-key timeout | the two membership tables agree; only members hold the key; one founder; rights come from signatures or from holders of rights; counters are exact | `Channel` |
| Channels of a cell (`command.c`, `command_reply.c`, `packet_receive.c`, `packet_send.c`) | an entry of the channel on every node, packets between them | the same commands at different servers, notifies, forwarded JOIN, key packets, loss of a server | entries converge; one key; one founder | `CellChannel` |
| Pending commands and queries (`command.c`, `command_reply.c`, `server_query.c`) | `pending_commands`, `cmd_ident`, `SilcServerQuery`, reference counts, client entries of `global_list` | WHOIS, IDENTIFY, WHOWAS, `silc_server_query_client`, replies, timeouts | each command answered exactly once; no callback on freed contexts; nobody waits for ever | `Query`, `CommandService` |
| Client sessions (`packet_receive.c`, `command.c`, `server.c`, `server_util.c`) | client entries, `expired_clients`, detach flags, connections | registration, DETACH, RESUME, QUIT, KILL, timeouts | one connection per session, owned by the user with the key; nothing freed is used; sessions detached with a timeout end | `ClientSession` |
| Backup routers (`server_backup.c`) | backup entries, replaced servers, resume sessions | switch to the backup, START_USE, START, CONNECTED, ENDING, RESUMED | all or none switch back; the protocol ends | `BackupResume` |
| Connections (`server.c`, `silcconnauth.c`) | connection objects, reconnect timers | connect, accept, authenticate, register, reconnect | one primary that both ends agree on, retried until it works | `ServerLink` |
| SKE and re-key (`silcske.c`) | protocol state machines, retransmission, keys of the stream | start, payload exchange, failure, timeout, re-key | both ends agree on keys, proposal and outcome; it ends | `KeyExchange`, `KeyAgreement` |
| Command processing (`command.c`) | command contexts, throttling counters | dispatch, throttling, free | contexts freed once, commands of a gone client dropped | in `ClientSession` and `Query` |
| Configuration (`serverconfig.c`) | configuration object with a reference count | parse, rehash | objects in use are not freed | - |
| ID lists and ID cache (`idlist.c`, `silcidcache.c`) | entries by ID, name and context | add, find, update, delete | the three indexes agree | - |
| Packet engine (`silcpacket.c`) | streams, reference counts, waiters, sequence numbers | send, receive, wait, destroy | no use after destruction, packets in order | - |
| FSM, scheduler, async, hash table (`lib/silcutil`) | machines, events, task queues, tables | start, continue, wait, signal; add, delete, dispatch | no lost wakeup, no deleted task run, no lost entry | - |
| SKR (`silcskr.c`) | public keys with reference counts | add, find, delete | keys in use are not freed | - |

Interaction: a packet is dispatched by the packet engine to
`packet_receive.c`, which hands commands to `command.c`. A command handler
changes the lists and the channels, sends replies and notifies, and may send a
command of its own to the router and put itself on `pending_commands`; the
reply is saved in the lists by `command_reply.c` before the waiting callbacks
run. Timeouts of the scheduler re-key channels, end pending commands, purge
expired clients and drop the detached ones, if `detach_timeout` is set. `server.c` dials routers with the key
exchange and authentication machines and is told their outcome by callbacks,
some of which lead into `server_backup.c`.

What is hard to test here: handlers that fail half-way after changing state;
state kept in several tables by a dozen handlers; callbacks that fire after
their context changed; replies that come late, in lists, under a shared
identifier or never; commands of two servers that cross on the wire; connections
that fail in the middle of a protocol and objects freed under a scheduled retry; counters at their limits; two parties
claiming one right. `PROJECT.json` lists these hazards at the lines where they
bite.

## 2. The modules and the runs

The modules are independent views of one system: each reduces what the others
study to its outcome. `CellChannel` takes from `Channel` that one node's handlers
are right and composes a router with several servers; `ServerLink` takes from
`KeyExchange` that an exchange succeeds at both ends or fails, and `BackupResume`
takes from `ServerLink` that a connection is made. Every bound is a
CONSTANT whose comment says "bound". A module `MC...` gives the constants of a
model their values for TLC, and a module `...Proofs` holds the theorems about a model
and their proofs.

| run | instance | distinct states | checks |
|---|---|---|---|
| `channel_keys` | router, 3 clients (two with the same public key, symmetric, and an operator), 1 channel, modes PRIVKEY, FOUNDER_AUTH, CIPHER | 19,496 | `TypeOK`, `UserCountExact`, `KeyAgreement`, `SoleFounder`, `RekeyPending`, `StatExact` |
| `channel_server` | standalone server, 2 clients, one of which signs with two keys, INVITE, PASSPHRASE, FOUNDER_AUTH, lists with `ListLimit` 1 | 3,588 | `CrossReference`, `EmptyIsPermanent`, `FounderSettings`, `RightsAreGranted` |
| `query_ids` | two queries by ID from two connections, for {t1, t2} and for {t2} | 575,434 | `TypeOK`, `QueriesLeftExact`, `ContextsLive`, `ImplementsService` |
| `query_nick` | a query by nickname for {t1, t2} and an INVITE of t2, with nickname changes both ways | 324,785 | `ReferencesExact`, `ImplementsService` |
| `sessions` | 2 connections, 2 users, a client of another server, standalone or with a router, `detach_timeout` set or not | 132,670 | `SessionOwner`, `OneSession`, `SessionReachable`, `ContextsLive`, `ResumeAnswered`, `DetachEnds` |
| `backup` | primary, backup, one server; 1 fault, 2 protocol runs per node, no restart allowed, 1 repeated check | 162,100 | `ResignAfterResume`, `ResumeReachesAll`, `RouterUsable`, `ResumeEnds` |
| `ske` | 13 connections (TCP and UDP, flags, unsupported algorithms, refused keys, failing signatures), one each of re-key, lost or duplicated datagram, retransmission, abort, data packet per end | 69,018 | `KeysInStep`, `Negotiated`, `SameVerdict`, `ContextSafe`, `Agreement`, `ExchangeEnds` |
| `link` | 3 streams, 3 connection objects, 2 faults | 981,948 | `EndsAgree`, `NotLeftAlone`, `Reconnects` |
| `cell` | router and 2 servers, 4 clients, 4 established starts, 2 commands, 1 crash | 328,550 | `MembersAgree`, `KeysAgree`, `OneFounder`, `KeysConverge` |
| `resume_starts` | as `backup`, callbacks as in the code | violated | `ResumeStarts` |
| `auth_completes` | as `link`, 2 streams, 1 fault | violated | `AuthCompletes` |
| `leave_rekeys` | as `cell`, 1 command, no crash | violated | `LeaverLosesKey` |

The longest run takes about two and a half minutes.

## 3. Channel

### State and actions

| variable | code |
|---|---|
| `registered` | clients with `SILC_IDLIST_STATUS_REGISTERED` |
| `channels`, `channel` | channel entries of `local_list`; mode, user limit, passphrase, founder key, channel public keys, invite and ban list, `disabled`, `user_count` |
| `user_list`, `client_channels` | the two hash tables of members |
| `chl_mode` | `chl->mode` |
| `announced` | `chl->mode` as the members were last told by notify; a history variable |
| `key_holders` | who was sent the present channel key: the payload of `silc_server_send_channel_key` and of the JOIN reply, reset by `silc_server_create_channel_key` |
| `rekey_task` | `channel->rekey->task` |
| `stat` | the four counters of `server->stat` about channels, modulo `StatModulus` (2^32 in the code) |

`Register`, `Join`, `JoinRefused`, `Leave`, `Kick`, `KillWithAuth`,
`KillByOperator`, `Signoff`, `CMode`, `CUMode`, `Invite`, `Ban` and
`ChannelKeyRekey` are the handlers of these names. A handler that only sends an
error changes nothing and is no action. One that fails after changing something
is: `JoinRefused` is a JOIN that has already taken the rights of the present
founder, and `CMode` and `CUMode` go through the stages of the code in order,
stop at the first one that fails, and keep what the code keeps. All ways out of
a channel share `RemoveFromChannels`/`Destroyed`/`Rekeyed`, with the two
different orders a router and a standalone server have.

The model is of one router, or of one standalone server, with its own clients.
Topics and the names of ciphers and HMACs are left out; whether a cipher
changes (which makes a new key) is in. The lists of INVITE and BAN are taken to
exist: an entry is added by action 0x00 up to `ListLimit`, by 0x03 without that
limit, as in `silc_server_inviteban_process`, and removed by 0x01.

Three clients are enough for somebody who leaves, somebody who stays and
somebody who joins between; two keys for a right and a wrong signature.
`StatModulus` is larger than the number of memberships. `ListLimit` 1 is reached
by the lists. One channel is checked; the proofs below are for any number. The modes of the two
runs are chosen for their properties; ULIMIT, HMAC, CHANNEL_AUTH and the modes that
only silence users are in the model and in the proofs, which hold for any modes, and in no run.

There is no fairness in `Channel`: its properties are safety properties, and a
client may always register or sign off, so nothing stops.

### Where code and comments part

The formulas below are in the module; each is false, and TLC finds a short
behaviour when it is made an invariant. No run lists them.

* `FounderKeyPresent`: a CMODE that fails late loses the founder key and keeps
  the mode FOUNDER_AUTH.
* `DefinitelyFounder`: a JOIN may be refused after it has demoted the present
  founder (`command.c:1927`, with the comment at 1923).
* `ModesAnnounced`: a CUMODE that changes a mode and then fails tells nobody.

Without a formula: on a router `silc_server_channel_delete` leaves the last user
in `stat.my_chanclients`, which is therefore not part of `StatExact`; and
`silc_server_remove_from_channels` removes a killed client from the invite lists
only when it also sends notifies, which `silc_server_kill_client` does not ask
for.

### Proofs (`ChannelProofs`)

For all finite sets of clients and channels, all keys and both server types:

* `TypeCorrect`: `Spec => []TypeOK`.
* `Invariance`: `Spec => []ChannelInv`, the inductive invariant. `ChannelInv`
  is the conjunction of `TypeOK`, `CrossReference`, `EmptyIsPermanent`,
  `UserCountExact`, `KeyAgreement`, `RekeyPending`, `SoleFounder`, `StatExact`. None but the
  first two is inductive alone: whether a removal empties a channel depends on the tables
  agreeing, who gets a new key depends on the member list being the one the
  handler reads, and that a destroyed channel leaves no founder behind depends
  on modes existing for members only.
* `CrossReferenceCorrect`, `KeyAgreementCorrect`, `SoleFounderCorrect`,
  `EmptyIsPermanentCorrect`, `UserCountCorrect`, `RekeyPendingCorrect` and
  `StatCorrect` follow. The last needs `UserCountExact`: a router that destroys a
  channel subtracts its `user_count`, and `UsersOfDestroyed` shows that to be one.
  The counters wrap, and `ModStep` shows that adding to a number that has wrapped
  agrees with adding to the number it stands for.
* `RightsCorrect` and `FounderSettingsCorrect` prove the action
  properties `RightsAreGranted` and `FounderSettings` from the same invariant. `FounderSettings` says
  who made a change: a step after which the founder's modes, founder key, passphrase or
  channel keys of a channel differ is a CMODE by a founder of it, and is not what a CMODE of
  any other member could have done. Requests that fail half-way are included, for what they
  leave behind is still the work of the founder who sent them. It rests on `OperatorCmode`:
  what CMODE lets an operator change are the operator's modes and nothing else.

That JOIN respects invitations, bans and the user limit is the guard of `Join` and stated as no
property: over one step it would repeat that guard.

The step proofs do not repeat the case analysis over thirteen handlers for every
conjunct: `StepKinds` shows that every step is one of a removal, a join, a
change of settings, a change of rights, or a step that leaves membership alone,
and the lemmas `RemovalEffect`, `JoinEffect` and `CmodeEffect` say what each
does. The assumptions are the named ASSUMEs of `Channel`.

## 4. CellChannel

### State and actions

`chan[n]` is the entry of the one channel at node n: the Channel ID (a channel
that is created again has another one), the users with their modes, the
`global_users` flag and the channel key. `up[s]` and `down[s]` are the FIFO
connections of server s with the router R. `pending` are the clients whose JOIN
waits for the router, `here` those connected, `alive` the servers that run.

A server carries out LEAVE, KICK, CUMODE, sign-off and the JOIN of a channel it
has on its own entry (`Leave`, `Kick`, `ChangeMode`, `SignOff`, `JoinKnown`), sends the
notify and, when there are global users, the new key. Only the JOIN of a channel
it does not have is forwarded (`JoinForwarded`) and waits for `ServerReply`. The `Own...` actions
are those of the router's own clients; `Router...` what it makes of a packet of a
server; `Server...` what a server makes of a packet of the router. `Crash` ends a
server, which the router finds out as `RouterServerGone`. `RekeyTimeout` is the
router's re-key of the channel.

Assumptions: a client sends JOIN again only after the answer to the JOIN before;
channel modes, founder authentication and permanent channels are the subject of
`Channel`, so the router may refuse any JOIN of an existing channel; the re-key
timeout, an hour by default, fires when all packets have arrived (`Quiet`).

### What the run shows

Nothing orders the commands of two servers, so entries may part. The history
variables say when: `crossed` is set when a node acts on a member while a packet
about that member is on its way to the node, or a JOIN of the node's own on its
way to the router;
`overlapped` when a key is made while packets are under way, until the next
re-key of the router; `leaked` are the keys in use that former members know.

* `MembersAgree`: while nothing has crossed and all is quiet, every server with
  members has the router's list and modes and knows whether there are users
  elsewhere, the others have no entry, and nobody listed has gone. A KICK or CUMODE
  that the router drops because it crossed another command is therefore not covered.
* `KeysAgree`: commands given in turn leave one key.
* `KeysConverge`: keys that crossed become one again, unknown to former members.
  The fairness is that packets arrive and the re-key timeout fires.
* `OneFounder`: the router's entry never has two founders, even in the races. A
  server's may, in longer races than the run has: a JOIN reply adds the founder of a
  channel created anew to users that had gone meanwhile.

Two commands are what a race needs; two clients at one server, one at another and one at the
router are what the cases of `global_users` and of a server's last user need.
A wider exploration with three commands and no crash (2.75 million states) found
nothing more. The deadlock check is off: an empty channel without commands stops.

`leave_rekeys`: when the last member a server has on the channel leaves, neither
the server (whose entry is gone, `command.c:4845`) nor the router
(`packet_receive.c:306`, `:353`) makes a new key.

Further things the model has to follow, found while writing it: crossing keys
of two servers leave the cell with different keys until the router's re-key; a
key made between the arrival of the KEY and of the JOIN of the first remote
user never reaches the router, for `global_users` is still off; a KICK that
crosses a LEAVE and JOIN of its target leaves a ghost member; a stale JOIN reply,
or the JOIN notify that comes back, adds a local client again that has left;
crossing CUMODEs diverge; a KICK by somebody the router has deprived of his
rights meanwhile is refused there and stays done at the server; a JOIN at a
server that crosses the router's deletion of the channel leaves an entry the
router does not know; the JOIN reply for a client that has quit dereferences a
NULL context (`command.c:2447`, though `!entry` is tested two lines below) and
ends the server, which the model does as well; the reply to a second local
client sets `global_users` though all users are local.

### Proofs (`CellChannelProofs`)

For any number of servers, clients, commands and crashes:

* `OneFounderCorrect`: `Spec => []OneFounder`.
* `FounderByCreation`: a step gives founder rights on the router's entry only with
  the creation of the channel, never on a channel that has members.

Both follow from `CellStep`: every step leaves the router's entry with founders it had
before, or makes one of a channel without members. The inductive invariant `EntryInv`
says no more than that the entry is one and has one founder at most. Nothing is assumed
of the queues or of the entries of the servers, so what a server claims does not matter:
`silc_server_notify_process` lets no CUMODE_CHANGE make a founder and, when a server
says that a member is one, makes the server take that back
(`silc_server_force_cumode_change`, `ForceMode`). That answer takes four commands,
two more than the run has; the theorem covers it.

Only model-checked: `MembersAgree` and `KeysAgree`. They speak of quiet states and hold
because of what every packet under way will have done when it arrives, which
an inductive invariant would have to say of all the queues at once.

## 5. Query and CommandService

### State and actions

| variable | code |
|---|---|
| `cmd_ident` | `server->cmd_ident`, without its 16-bit wrap |
| `pending_commands` | `server->pending_commands`: reply command (`NONE` matches any), identifier, callback, context, `reply_check` |
| `wire` | WHOIS commands sent to the router and not answered; `from` (who had it sent) serves a property only, `again` tells apart the two WHOIS an INVITE may send under one identifier |
| `entry` | client entries of `global_list`: registered, or expired and kept for WHOWAS; what is known of the client; `SILC_IDLIST_STATUS_RESOLVING`; `resolve_cmd_ident` |
| `query` | `SilcServerQuery`: `resolved`, `queries`, `queries_left`, and whether it is freed |
| `cmd_pending`, `users` | `cmd->pending` and `cmd->users` |
| `replies` | answers sent to the caller, a history variable |
| `valid` | connections that are up and have their context |
| `exec` | the loop that runs the callbacks of a reply or a timeout |

`QueryCommand` is WHOIS or IDENTIFY by Client IDs or by nickname on a normal
server, with `SendRouter`, `Process`, `Resolve` and `SendReply` for the
functions of these names; `SendRouterReply`, `ResolveReply` and `InviteReply`
are the callbacks. `Invite` is the user of `silc_server_query_client`, the
simplest of several. `WhoisListItem` and `WhoisReply` are the reply handler for
an item of a list and for the last reply; `PendingTimeout` makes the bogus
TIMEDOUT reply. `Announced`, `NickChange`, `SignedOff`, `Purge` and
`Disconnect` change what the callbacks will find. The list of callbacks is a
set: they run in any order, which includes the code's.

WHOWAS, requested attributes, queries for servers and channels, dynamic
connections and routers (which never resolve through a router of their own for
clients of their cell) are not in the model. A connection that is up and has lost its
context (`packet_receive.c:372`) counts as gone, since `silc_server_query_process` frees
the query of such a caller without a reply (`server_query.c:942`). An answer is one event whatever
list of replies it consists of.

Two requests with a common client are what attaching to a command, sharing an
identifier and a duplicate callback need; two clients in one query are what a
shared WHOIS and lists need. Each request is sent once and the identifiers are
bounded by that, so no further bound is needed. `Renames` bounds the nickname
changes.

`ImplementsService` is refinement: with the status of each command computed
from its query, references and answers, `Query` implements `CommandService`,
in which a command is accepted, answered once or dropped for want of a caller,
and one of these does happen. The fairness it rests on is that of the scheduler:
`WF_vars(Callbacks)`, because the loop over the callbacks runs on, and
`WF_vars(Timeouts)`, because every pending command has a timeout of 12 seconds
or less. Nothing is assumed of the router, which may never answer.

Two formulas of the module are false and listed by no run: `ResolvingHasCommand`
(a client resolved together with others has a `resolve_cmd_ident` no command was
sent under) and `InviteOwnReply` (an INVITE of an unknown client shares the
identifier of the previous command, `server_query.c:2189`, and is continued by
that command's reply, against `server_query.h:40`). `ImplementsService` holds in
spite of both: commands are answered late or with less, but once.

### Proofs (`QueryProofs`)

For all finite sets of commands and clients, all connections and any targets:

* `QueryInvariance`: `Spec => []QueryInv`, the inductive invariant, which is
  `TypeOK`, `Structure` and `Phases`. `QueriesLeftExact` is not inductive alone.
  `Structure` says that the list has no duplicates, that identifiers are at most
  `cmd_ident`, and that the callbacks the loop runs are those that will be
  deleted after it: an entry put on the list by a callback must not be deleted
  unrun. `Phases` says how far each command is: a query asks the router with one
  callback on the list, or resolves with as many callbacks as `queries_left`
  says, or is over with none to come.
* `QueryTypes`, `QueriesLeft`, `NoStaleContext` and `References` prove `TypeOK`,
  `QueriesLeftExact`, `ContextsLive` and `ReferencesExact` from it.
* `CommandsServed`: `Spec => Service!Safe`, the initial states and steps of the
  refinement `ImplementsService`.

Every step is reduced to one of a few kinds (`Starts`, `InviteWaits`, `Ends`,
`QueryGoesOn`, `Marks`, `PendingDel`, or one that concerns no command), each with
a lemma for the invariant and one for the refinement; `OnlyPhases` says that it
is enough to look at the command a step belongs to. The assumption is
`RequestsAssumption` of `Query`. The fairness part of `ImplementsService` is
only model-checked.

## 6. ClientSession

`entry` are the client entries, named after the connection they were made for
(or a client of another server): registered, resumed, resolved, local, detached,
`connection`, `resuming_client`, known key, on `expired_clients`. `sock` are the
packet streams with the key that authenticated them and their context. `tasks`
are the scheduled callbacks (delayed commands, `quit_cb`, `detach_cb`, the detach
timeout) and the pending WHOIS and GETKEY of a resume, with what each holds.

`Connect`, `NewClient`, `CommandProcess` (and its timeout), `QuitCb`, `DetachCb`,
`DetachTimeout`, `PacketEos`, `ResumePacket`, `WhoisReply`, `GetkeyReply`,
`ResolveFails`, `KillClient`, `NewId` and the notify actions are the handlers.
`ResumeClient` and `ResumeKnown` are `silc_server_resume_client`, with its two
look-ups in the network: it runs again, from its beginning and on what is then in
the entries, when a reply has come. An entry that came with NEW_ID and has no names yet (`Nameless`) is
looked up before anything is checked or marked; a GETKEY reply that is OK and brings
no usable key (`keyed` false) makes the server ask again.

`detach_timeout` is not set by default, and a session then stays detached until it is
resumed or killed. `DetachTimeouts` says which of the two a DETACH may find: both in the run, for a
rehash may change the setting. `DetachEnds` is about the sessions whose DETACH has scheduled
the timeout: it fires, or the session is resumed or killed before.

The environment: a client sends NEW_CLIENT or RESUME_CLIENT first and nothing
after QUIT or DETACH; a SIGNOFF notify for a local client comes only as the
refusal of its registration. The model follows a behaviour up to the first race
the code does not handle (`raced`: a resume within the 200 ms before `detach_cb`
closes the old connection, or a late WHOIS reply that overwrites the mode of a
client that is now local) or to the reprocessing of a RESUME that finds its
context NULL (`down`). Statistics, the purge of the history and routers are not in the
run. A WHOIS reply for a client that was deleted or changed meanwhile saves what it says in the entry
the client has, and the code may make the entry anew (`command_reply.c:209`); the
model does not have the second. Fairness: for each connection, its scheduled tasks run and its pending
commands are answered or time out, and a router that answers GETKEY does not answer
without the key for ever.

`ResumingReleased` is false and listed by no run: a RESUME that is refused leaves
`resuming_client` set (`packet_receive.c:3571`, against `idlist.h:355`), so
that nobody can resume the session until it expires.

### Proofs (`ClientSessionProofs`)

For any connections, users and clients of other servers:

* `OwnerInvariance`: `Spec => []OwnerInv`, from which `SessionTypes` (`TypeOK`) and
  `SessionOwnerCorrect` follow for every kind of server. `OwnerInv` adds to the
  types that an entry has no key or the key of its owner: a resume compares the
  signature with the key in the entry, so `SessionOwner` is as good as that
  key, which a WHOIS, a GETKEY reply or an earlier resume put there.
* `SessionInvariance`: `Spec => []SessionInv`, from which `OneSessionCorrect`,
  `SessionReachableCorrect` and, with the assumption that no server of the instance is
  a router, `ContextsLiveCorrect` follow. None of the three is inductive: each asks
  whether the entry, the connection and the scheduled task that mention one another
  still agree. `SessionInv` says so for all three tables at once: what tasks a connection
  may have and in which state (`TasksOk`), what its context may be (`SocksOk`), which
  entry leads to which connection (`EntriesOk`), that two connections share a context
  only while one of them is closing (`Single`), that the tasks of one connection do
  not concern another's (`Separate`), and what a pending look-up may find
  (`Asked`).

The entries in `raced` are left out of `SessionInv` as they are left out of the
properties: the proof shows that they are the only exception. Routers are left out of the second
invariant, because there a notify may change an entry that is local. `ResumeAnswered` and
`DetachEnds` are liveness and only model-checked.

## 7. BackupResume

`link[n]` is the connection of server or backup n with the primary P, including
the states in which only one end knows it is cut; `net` the packets of the
protocol; `ctx[n]` the protocol contexts n ever allocated, with their state,
sessions, scheduled tasks; `proto[n][m]` the context in m's entry at n; `dis` the
`SILC_IDLIST_STATUS_DISABLED` flags; `replaced` the table of replaced routers;
`btype` whether the backup B is a router at the moment.

`Crash`, `Restart` and `Cut` are the faults; the `Eos...` actions notice them,
`BackupTakesOver` and `ServerSwitches` follow; `StartUse`, `PingAnswered`, `PingTimeout`,
`CheckStatus` are the check a server makes before it lets the backup be used;
`BackupConnected`, `ServerConnected`, `Start`, `Receive` and the states of
`ProtocolBackup` are the resuming, `SendEnding`, `Timeout` and `Done` its tasks.

The protocol is entered from the callbacks of a connection. The code clears
`sconn->callback` before it tests it (`server.c:1511`), so they are never called
for a router: `resume_starts` shows that a backup which is connected with its
primary again never starts to resume it. To check the protocol all the same, the
`backup` run sets `CallbackKept`, as the comments on the callbacks intend.

Timing: packets and tasks that are due come before the timers of 10 to 120
seconds (`Quiet`, `Settled`), and the connection of a server belongs to the
protocol run that made it ask (`origin`). Connections of the backup with the
servers do not fail, and a PING timeout that closes a new connection counts as a
fault. One server and two contexts per node suffice for an answer that is lost,
one that is taken for another run's and a run that is given up; `RestartLimit` is
0 (10 in the code) so that giving up is reached. Fairness is that of schedulers and
connections; a crashed primary is started again.

Not in the model: remote routers and the REPLACED message (`server_backup.c:705`,
`packet_receive.c:2555`), `wait_backup`, announcements, the answers to START_USE
(reduced to their effect), the busy wait for a running protocol.

Found while modelling, without a run: a second CONNECTED that arrives before the task of
the first has run overwrites its type and session, one answer is lost and the
run ends by its timeout; FAILURE packets are not delivered (`server.c:90`), so
state 252 is never entered and "The backup will reply with error if it's not ok"
(`server_backup.c:1440`) has no effect; `done` removes the context from one
entry, though the comment at 1331 says from all; a RESUMED after a server's own
timeout finds a NULL context. After a connection is lost and made again, the backup may have two runs of the
protocol under way, of which only the later one includes the servers;
`ResumeReachesAll` is stated for each run for that reason.

### Proofs (`BackupResumeProofs`)

For any number of servers and all bounds, with or without `CallbackKept`:

* `CellInvariance`: `Spec => []CellInv`, the inductive invariant.
* `CellTypes`, `RouterUsableCorrect`, `ResignAfterResumeCorrect` and
  `ResumeReachesAllCorrect` prove `TypeOK`, `RouterUsable`, `ResignAfterResume` and
  `ResumeReachesAll` from it.

`CellInv` ties the five places together in which a node remembers the others. `Dialing`
says who may be connecting, and from which role; `Enabled` who is never disabled;
`Resigned` is `ResignAfterResume` for a connection that was cut as well, whose
packets still arrive; `AllFit` says of every protocol context that it is bound to no
connection that is gone and, of those of the backup, that `session` and `connected`
name only servers that have answered and that a run on the connection with the
primary includes every server (`RunOk`); `Clean` that no packet is under way on a
connection that is gone and that no RESUMED comes from before the primary resumed.
`ResumeReachesAll` fails without `RunOk`: the state in which ENDING is sent is entered by
counting the sessions that are marked connected, so the marks must not be another
server's. `ResumeEnds` is liveness and only model-checked.

## 8. KeyExchange and KeyAgreement

`end[e]` is what an end keeps: the `SilcSKE` with the state its machine is in, its
references, timers and the packet it looks at, the keys of its stream and, as
history, the key materials it took into use. Every state of the machine is an
operator on that record, in the order of the code; `FsmRun`, `Deliver`, `Timeout`,
`Retry`, `Abort`, `DoRekey`, `OwnerFree` are the steps. `net[e]` is FIFO over TCP
and loses, duplicates and reorders over UDP.

Diffie-Hellman, hashes and signatures are symbolic. Memory does not run out. A UDP
datagram is one event of the scheduler, and tasks that are due run before the next select
(`silcschedule.c` 399-470), which is what keeps a retry timer and a packet that
has arrived in order. Re-keys are started by the initiator of the connection, and
only over TCP, as `server.c` does.

`Agreement` is refinement: the key materials the ends take into use form one
sequence in which neither is more than one ahead (`KeyAgreement`). `KeysInStep`
says no packet is met with the wrong key over a reliable stream. `ExchangeEnds`
rests on weak fairness of the machine and of its timeout. One lost packet, one
retransmission and one re-key reach every state of both machines.

`OkHasKeys` is false and listed by no run: an error in signing is kept in a local
variable (`silcske.c:2265`), and both ends complete with `SILC_SKE_STATUS_OK` and
without key material, against `silcske.h:301`. Statuses are left unset in the
same way at 2236, 2522, 2572, 2799 and 2849; the TIMEOUT status of
`silc_ske_timeout` is overwritten; `silcske.c:124` deletes the retry timers of all
exchanges; a re-key's context keeps a reference; a re-key that times out leaves
the ends with keys out of step.

### Proofs (`KeyExchangeProofs`, `KeyTrustProofs`)

`ContextSafe` is proved for every set `Configs` of connections and every bound, over TCP
and UDP. The one hypothesis, `NoneIsNoRecord`, is that `None`
is neither a packet nor a signature nor a material to re-key from, which for the model value TLC is given holds by
construction. The inductive invariant `RunInv` has four parts. `Shapes` says
what `end` and `net` are. `Local` says of each end, besides the types, that it is linked to the stream
exactly while its machine is in a state, that its timers end with it and that
whoever will still use the `SilcSKE` has a reference (`Living`), and that a run that
is scheduled finds the packet its state reads (`Waking`). The last needs the
other two: over TCP the packets are taken in turn (`InTurn`: of those that
make an end go on at most one exists, under way or waiting to be
processed), so none overwrites the one a scheduled run is about to read; and a
re-key, which handles its packets at once, begins when the other end is at
rest (`Rekeys`). Over UDP it is the scheduler that keeps them apart, and `Waking`
says so. The proof has a lemma for what each state of the machine does to the
record and one for each action. `DoRekey` is the action it changed: the timer takes minutes, and the
model now says that nothing of an earlier exchange is still under way when it
fires, at either end.

`Negotiated` is proved on top of it, in `KeyTrustProofs`, with one more hypothesis: `Signing`, that the
signatures of the responder can be computed. Without it both ends complete an
exchange in which no second payload was ever sent (`silcske.c:2265`, above), and
there is nothing that could have been verified. A failing signature of the
initiator, refused keys, and every proposal and version are covered. The invariant
`TrustInv` has three parts. `First` says of an end that its state and its keys
presuppose what it has verified: properties it may answer with, the other's key and
signature. `Talk` relates the two: whatever answer is under way to the initiator,
kept for retransmission, waiting to be processed or already taken over is the one the
responder stands by, SUCCESS comes only from a responder that has completed, and no
FAILURE carries the status OK (an initiator that took one for its status would
complete). `Silence` is what TCP adds: an end that has failed
is no longer linked and its FAILURE is the last it says, so a SUCCESS never reaches a machine
that has been told of a failure and would take its four bytes for the status. Over UDP it is
again the run that precedes the next datagram. `TrustInv` is inductive only together with
`RunInv`; once the initiator has begun a re-key only `First` of a responder that
has not is left to show. The proof has a lemma for what each state does
to what was verified and to what is sent (`Effect`), and one for each action.

`Agreement` is proved with the same two hypotheses. For the first exchange `TrustInv` says it
already: `Material` fixes the key material of an end to that of the two random
numbers the genuine payloads carry (`Genuine`). For the re-keys it takes one more
invariant, `RekeyInv`. The materials of a connection are one sequence, `Mat(p, 1)`,
`Mat(p, 2)`, ...: with perfect forward secrecy (`p`) each is that of its own random
numbers, without it each is derived from the one before. `Keying` says that the initiator has taken `a` of
them and the responder `b` (`Initiates`, `Responds`), that each holds what derives its next, that they are at most one
apart and when they may be apart at all (`Apart`), and that the payloads and REKEY_DONEs under way
belong to the material being made (`Answering`, `Asking`). That a late REKEY or REKEY_DONE of a re-key
that timed out cannot make an end skip a material or take one twice is the point
of the last two: the REKEY is encrypted with the key of the material both
had, and a REKEY_DONE is met only by an end that is not ahead. Each state and each action again has its lemma.
The refinement itself is short. In any two successive states the two histories are prefixes of one
such sequence; a step changes one of them, by at most one material (`Grows`, which `RunNext` now also
shows); so it is `Lead` when they were equal (the material is new because `Mat` is injective), `Follow` when the
other was one ahead, and a stutter otherwise.

`KeysInStep` and `SameVerdict` are about a connection that nothing disturbs: over TCP, with no timeout
and no abort (`Calm`). Neither is inductive, for both speak of single moments: what an end reads next, and what is left when
nothing is under way. `CalmInv` is the whole picture between them. It says that a calm connection is
always at one of the points that `CalmState` lists, each of which fixes the states of both ends, their keys, the runs that are scheduled and
what is in both queues. `Opening` has those of the first exchange: it is one end's `Turn`, with the one packet it waits
for under way or in its hands; one end has failed and the other is being told (`Ending`); the
responder has completed and its SUCCESS is followed only by data under the new key (`Confirming`); or both are
done. `Renewing` has those of a re-key: nothing under way but data (`Quiet`), the question asked
(`Asked`, and `AskedKey` with perfect forward secrecy), answered (`Answered`), both ends sending with the new material (`Switches`),
one receiving with it already (`Leads`). What the queues need is where in them the key changes: `Bears` says that all is
under the key the end receives with up to and including one packet, REKEY_DONE or SUCCESS, and all behind it is
data under the key the other now sends with. The proof shows, for each of these points, what a run, the first packet of a
queue, data sent and a new re-key make of it. It needs the other three invariants: `RunInv` for the runs and for the
absence of retransmissions, `TrustInv` for the keys the first exchange ends with and `RekeyInv` for the statuses of a
re-key. From `CalmState` both properties are read off: the head of a queue is before the change of key or is the packet that carries it, and with empty
queues and no run scheduled only the points remain at which both ends have completed or both have failed.

## 9. ServerLink

One normal server dials one router. `sconn` are the `SilcServerConnection`
objects with their pending connect, task and place on `server->conns`; `client`
and `accepted` the two ends of each stream, `entry` the object the server's entry of it points to; `router`, `router_conn` and
`standalone` those of the server; `connect_task` the scheduled
`silc_server_connect_to_router`; `configured` whether the configuration has the router. The key exchange is reduced to its outcome. `ConnectToRouter`,
`Established`, `NotEstablished`, `Retry`, `ConnectRouter`, `ServerReceive`,
`ServerKeyExchangeFails`, `ServerAuthTimeout`, `FreeAndClose`, `CloseCommand`, `Rehash` and the router's `Accept`,
`RouterKeyExchange`, `RouterAuthTimeout`, `RouterReceive`, `Drop` are the handlers. Slots are used
again once nothing refers to them.

A connection object is freed with the stream whose entry points to it, also while a task,
`router_conn` or a younger stream still has it. No order of closes and timers is
assumed: a key exchange that times out tells the peer nothing
(`silcske.c:1805`), so the stream it leaves behind may be closed before, between or after the tasks
that retry with the same object. A step that uses a freed object sets `stale` and goes on with
what the memory held, one outcome of the undefined behaviour; a crash is a behaviour that
stops there.

Assumptions: `reconnect_keep_trying` as by default, no backup router, no failed
allocation. The error path of `silc_server_connect_router` for a router that is no
longer configured (`server.c:1999`) is in `ConnectRouter`; the one at `server.c:2018`, for a TCP
connect that cannot be started, needs a failed allocation.

The faults of the bound are refusals, failed exchanges, bad credentials, timeouts,
cuts, CLOSE and rehash; two of them are a failure during the recovery from a failure. With two faults
three streams and three objects are what old streams, retries and a new attempt need at once:
with two streams `Reconnects` fails for want of a slot. The proofs are for any number.
Fairness: both schedulers run what is due and packets arrive. The deadlock check is
off, because a connected idle server does nothing, and one whose authentication
timed out does nothing either, which is the finding of `auth_completes`.

What the run shows:

* `EndsAgree`: a server that is not standalone has a primary router, whose stream is registered;
  when nothing is under way on a stream the server uses, the router has it registered there.
* `NotLeftAlone`: a configured server with neither primary router nor `router_conn` has
  `silc_server_connect_to_router` scheduled. Whether a close schedules it depends on what the stream was and on
  `router_conn`, in two places.
* `Reconnects`: a server without primary router gets one, unless the router is not configured, an authentication
  timed out, a freed object was used, or the attempt of `router_conn` was cancelled for another
  (`Superseded`). The exceptions are described below.

`auth_completes` ends in a violation: an authentication that times out never calls its completion
callback (`silcconnauth.c:171`), so nothing is retried.

Three more formulas of the module are false, and TLC finds a behaviour with at most three faults when one is made
an invariant. No run lists them.

* `RetryLive`: a key exchange with the router times out, the retry of its connection object is scheduled and
  the stream left open (`server.c:1648`). When the router then closes that stream, `silc_server_free_sock_user_data`
  frees the object (`server.c:3495`), cancels no task of it unless it is `router_conn`, and the retry
  runs with a freed object.
* `KeepsTrying`: a rehash cancels a waiting retry and makes a new object (`server.c:2135`), and `router_conn`, which
  is "non-NULL when connecting to the primary router, and NULL otherwise" (`server_internal.h:92`), keeps
  pointing to the old one. When the router refuses the new attempt, the close finds that its object is not
  `router_conn` and schedules nothing, so the server stays without router until the next rehash.
* `StandaloneMeansAlone`: a rehash that takes the router out of the configuration does not see a connection that is
  still authenticating (`server.c:1100`); it completes and becomes the primary router, and the connect task then sets
  `standalone` (`server.c:2056`), against `server_internal.h:124`.

Found while modelling, without a run: `reconnect_count` has no effect (the give-up at
`server.c:1895` cannot be reached; `doc/example_silcd.conf.in:97`); the retry time
may exceed `reconnect_interval_max`, for the random part is added after the cap
(`:99`); the test for an existing connection to the host does not see one that is
being made, so that a rehash while connecting makes two; with `no_reconnect` the
completion callbacks read a connection object that has been freed;
`silc_server_connect_to_router` cancels pending connections without calling their
callbacks; `accept_new_connection` counts an attempt twice; the configuration of
an entry that `connection_allowed` has freed is released again;
`stat.cell_servers` is decremented for servers that never registered
(`server.c:3455`, `packet_receive.c:2380`); a second registered connection to one
router removes the entry of the first from the ID cache.

### Proofs (`ServerLinkProofs`)

For any finite set of streams, any connection objects and any number of faults, with no
assumption on the order of closes, timers and tasks:

* `LinkInvariance`: `Spec => []LinkInv`, the inductive invariant.
* `LinkTypes`, `EndsAgreeCorrect` and `NotLeftAloneCorrect` prove `TypeOK`,
  `EndsAgree` and `NotLeftAlone` from it.

`LinkInv` is `TypeOK`, `StreamsCounted`, `Linked` and `Queues`. `StreamsCounted` says that the counters
of the statistics count the streams, which is what keeps them from falling below zero. `Linked` says
that the primary router's stream is registered, that every open stream has an object, live or not, and
`NotLeftAlone`, which a close keeps because it either leaves `router_conn` or schedules the connect
task. `Queues` says what the
packets under way tell of the other end: that a server whose router has closed
will read the end of the stream, and that a router that has accepted a
registered server will hear of the registration, without which the two ends need not agree when
nothing is under way. `Reconnects` is liveness and only model-checked.

## 10. Not modelled, and limits

* Payload encoders, cryptography, big numbers, ASN.1, HTTP, sockets, threads,
  memory stacks, configuration parsing and the vendored code are data handling or
  I/O without a protocol of their own; signatures verify or do not, and IDs are
  unique names. Most of the repository's 129,000 lines are of this kind (the Unicode tables,
  `silcmath`, the ciphers and hashes, headers), so the share of it that any
  protocol model can map is small: the models cover the handlers of `silcd`
  and the two key exchange machines.
* Several routers, announcements after a reconnect, topics, watchers, routing of
  messages and private messages.
* The packet engine, FSM library, scheduler, hash table, ID cache and SKR. The
  models take from them that callbacks run one at a time, that a stream keeps its
  order and that a deleted task does not run. The hazard at `silcpacket.c:893` is
  the one without a property for that reason.
* `SameVerdict` and `KeysInStep` are about TCP: over UDP one end may complete and the other give
  up. The configurations of `ske` have no responder that cannot sign (section 8).
* Properties that exclude races by a history variable (`raced`, `crossed`, `overlapped`, `Superseded`,
  `stale`) say nothing of what follows those races; each is described in its section.
* TLC is exhaustive for the instances above and says nothing of larger ones.
* Outside the reach of the proofs are liveness under fairness and ENABLED, and
  induction over data: `ResumeAnswered`, `DetachEnds`, `ResumeEnds`, `ExchangeEnds`,
  `Reconnects`, `KeysConverge` and the fairness part of `ImplementsService` are
  only model-checked. So are, for want of a proof, `MembersAgree` and `KeysAgree` of `CellChannel`.
* Two things were found by proving that TLC had no reason to report, and
  the models were corrected: `CASE` expressions with guards that overlap,
  for which TLC takes the first that holds and TLA+ any of them, in
  `BackupResume` and `KeyExchange`; and `ResumeReachesAll`, which in an earlier form held at the bounds
  of its run and at no larger ones.

Every property of a passing run has a mutant in `PROJECT.json`: a plausible bug in
a mapped definition, under which TLC finds the property violated. The type
invariants of `ClientSession`, `BackupResume`, `KeyExchange`, `ServerLink` and `CellChannel`
hold on the instances of the runs above, whose lists leave them out;
for `ClientSession`, `BackupResume` and `ServerLink` they are proved.

## 11. Plan

Done: `Channel`, `Query` with `CommandService`, `ClientSession`, `BackupResume`,
`KeyExchange` with `KeyAgreement`, `ServerLink`, `CellChannel`; proofs for each.

To come, in this order:

1. Proofs: `MembersAgree` and `KeysAgree` of `CellChannel`.
2. `PacketStream`: references, destruction inside callbacks, packet waiters.
3. `FSM` and `Schedule`: events, waiters, timeouts, deletion during dispatch.
4. Two routers: announcements, broadcast, REPLACED.
5. Configuration reference counts, hash table, ID cache, SKR.
