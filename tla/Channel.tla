------------------------------ MODULE Channel ------------------------------
(***************************************************************************)
(* Channels of one SILC server whose clients are all connected to it: who  *)
(* is on a channel and with which rights, the modes of the channel, the    *)
(* distribution of the channel key, and the statistics that count members. *)
(*                                                                         *)
(* The server is single-threaded: a command handler or a timeout callback  *)
(* runs to its end before the next one starts, so each is one action.  A   *)
(* handler that only sends an error reply changes no state and is not an   *)
(* action; one that fails after it has changed something is.               *)
(*                                                                         *)
(* Source: apps/silcd/command.c, server.c, server_util.c, idlist.c.        *)
(***************************************************************************)
EXTENDS Integers, FiniteSets

CONSTANTS
    Clients,        \* clients, named by their Client ID
    Channels,       \* channel names
    Keys,           \* public keys
    PublicKey,      \* the public key a client proved in its key exchange
    PrivateKeys,    \* the keys a client can make signatures with
    Passphrases,
    None,           \* an argument or a pointer that is NULL
    ServerType,     \* "router", or "server" for a standalone server
    Operators,      \* clients with SILC_UMODE_ROUTER_OPERATOR
    ModeBits,       \* the channel modes commands may ask for
    UModeBits,      \* the channel user modes commands may ask for
    ListItems,      \* what INVITE and BAN put on the lists: Client IDs, keys
    ListLimit,      \* 64 in the code
    UserLimits,     \* the user limits CMODE may ask for
    ChLimit,        \* config->param.chlimit
    StatModulus     \* 2^32 in the code

AllModes == {"PRIVATE", "SECRET", "PRIVKEY", "INVITE", "TOPIC", "ULIMIT",
             "PASSPHRASE", "CIPHER", "HMAC", "FOUNDER_AUTH",
             "SILENCE_USERS", "SILENCE_OPERS", "CHANNEL_AUTH"}

AllUModes == {"CHANFO", "CHANOP", "BLOCK_MESSAGES", "BLOCK_MESSAGES_USERS",
              "BLOCK_MESSAGES_ROBOTS", "QUIET"}

ASSUME ClientsAssumption == IsFiniteSet(Clients) /\ IsFiniteSet(Channels)
ASSUME KeysAssumption ==
    /\ PublicKey \in [Clients -> Keys]
    /\ PrivateKeys \in [Clients -> SUBSET Keys]
    /\ \A c \in Clients : PublicKey[c] \in PrivateKeys[c]
    /\ None \notin Keys
ASSUME ModesAssumption ==
    /\ ModeBits \subseteq AllModes
    /\ UModeBits \subseteq AllUModes
    /\ {"CHANFO", "CHANOP"} \subseteq UModeBits
ASSUME ServerAssumption ==
    /\ ServerType \in {"router", "server"}
    /\ Operators \subseteq Clients
    /\ ListItems \subseteq Clients \cup Keys
ASSUME NumbersAssumption ==
    /\ UserLimits \subseteq Nat
    /\ ListLimit \in Nat
    /\ ChLimit \in Nat
    /\ StatModulus \in Nat \ {0}

VARIABLES
    registered,      \* clients with SILC_IDLIST_STATUS_REGISTERED
    channels,        \* the channel entries of local_list
    channel,         \* the fields of SilcChannelEntry
    user_list,       \* channel->user_list
    client_channels, \* client->channels
    chl_mode,        \* chl->mode of a member, {} for the others
    announced,       \* the mode of a member as the members last heard of it
    key_holders,     \* clients that were sent the present channel->key
    rekey_task,      \* channels with a pending channel->rekey->task
    stat             \* server->stat

vars == <<registered, channels, channel, user_list, client_channels,
          chl_mode, announced, key_holders, rekey_task, stat>>

StatNames == {"my_channels", "my_chanclients",
              "cell_chanclients", "chanclients"}

\* What silc_idlist_add_channel leaves in a new entry.
NewEntry ==
    [mode |-> {}, user_limit |-> 0, passphrase |-> None, founder_key |-> None,
     channel_pubkeys |-> {}, invite_list |-> {}, ban_list |-> {},
     disabled |-> FALSE, user_count |-> 0]

ChannelEntry ==
    [mode : SUBSET ModeBits, user_limit : Nat,
     passphrase : Passphrases \cup {None}, founder_key : Keys \cup {None},
     channel_pubkeys : SUBSET Keys, invite_list : SUBSET (Clients \cup Keys),
     ban_list : SUBSET (Clients \cup Keys), disabled : BOOLEAN,
     user_count : Int]

Init ==
    /\ registered = {}
    /\ channels = {}
    /\ channel = [ch \in Channels |-> NewEntry]
    /\ user_list = [ch \in Channels |-> {}]
    /\ client_channels = [c \in Clients |-> {}]
    /\ chl_mode = [ch \in Channels |-> [c \in Clients |-> {}]]
    /\ announced = [ch \in Channels |-> [c \in Clients |-> {}]]
    /\ key_holders = [ch \in Channels |-> {}]
    /\ rekey_task = {}
    /\ stat = [s \in StatNames |-> 0]

-----------------------------------------------------------------------------
(***************************************************************************)
(* Helpers shared by the handlers.                                         *)
(***************************************************************************)

\* silc_server_client_on_channel looks only at client->channels.
OnChannel(c, ch) == ch \in client_channels[c]

HasMode(c, ch, bit) == bit \in chl_mode[ch][c]

IsOper(c, ch) == HasMode(c, ch, "CHANOP") \/ HasMode(c, ch, "CHANFO")

Founders(ch) == {c \in user_list[ch] : HasMode(c, ch, "CHANFO")}

\* A payload signed with key `auth' verifies against key `key'.
AuthVerify(auth, key) == auth # None /\ auth = key

\* silc_server_inviteban_match for the client's ID and its public key.
InviteBanMatch(list, c) == c \in list \/ PublicKey[c] \in list

\* Mutant: the counters do not wrap.
CountUnbounded(st, names, n) ==
    [s \in StatNames |-> IF s \in names THEN st[s] + n ELSE st[s]]

\* Adds n to the counters in `names'.  They are SilcUInt32 and wrap.
Count(st, names, n) ==
    [s \in StatNames |->
        IF s \in names THEN (st[s] + n) % StatModulus ELSE st[s]]

ChanclientStats ==
    IF ServerType = "router"
    THEN {"my_chanclients", "cell_chanclients", "chanclients"}
    ELSE {"my_chanclients"}

\* The silc_server_create_channel_key of a router schedules the next re-key.
RekeyScheduled(chs) ==
    IF ServerType = "router" THEN rekey_task \cup chs ELSE rekey_task

-----------------------------------------------------------------------------
(***************************************************************************)
(* Removing a client from channels.                                        *)
(***************************************************************************)

\* The channels of chs that c leaves empty.
Emptied(c, chs) == {ch \in chs : user_list[ch] \ {c} = {}}

\* Mutant: an off-by-one in the test for the last user.
DestroyedEarly(c, chs) ==
    {ch \in chs : /\ Cardinality(user_list[ch]) < 3
                  /\ "FOUNDER_AUTH" \notin channel[ch].mode}

\* Mutant: the channel stays when its last user leaves.
DestroyedNever(c, chs) == {}

\* silc_server_channel_delete destroys a channel unless it is permanent.
Destroyed(c, chs) ==
    {ch \in Emptied(c, chs) : "FOUNDER_AUTH" \notin channel[ch].mode}

\* Mutant: the key is kept when somebody leaves.
RekeyedNever(c, chs) == {}

\* Channels that get a new key because c is leaving them.
Rekeyed(c, chs) ==
    {ch \in chs \ Emptied(c, chs) : "PRIVKEY" \notin channel[ch].mode}

\* The users channel->user_count counts on the channels of chs.
UsersCounted(chs) ==
    Cardinality({p \in chs \X (1..Cardinality(Clients)) :
                    p[2] <= channel[p[1]].user_count})

\* Mutant: the users of a channel that is destroyed stay counted.
RemovalStatKept(c, chs) ==
    Count(Count(stat, ChanclientStats, -Cardinality(chs \ Destroyed(c, chs))),
          {"my_channels"}, -Cardinality(Destroyed(c, chs)))

\* A router that destroys a channel subtracts user_count from chanclients
\* and leaves the other counters of channel users alone.
RemovalStat(c, chs) ==
    LET gone == Destroyed(c, chs)
        left == IF ServerType = "router" THEN chs \ gone ELSE chs
        st1  == Count(stat, ChanclientStats, -Cardinality(left))
        st2  == IF ServerType = "router"
                THEN Count(st1, {"chanclients"}, -UsersCounted(gone)) ELSE st1
    IN  Count(st2, {"my_channels"}, -Cardinality(gone))

\* silc_server_remove_from_channels and silc_server_remove_from_one_channel
\* with the key generation their callers do after them.  The client is also
\* taken off the invite list of the channels in `uninvited'.
RemoveFromChannels(c, chs, uninvited) ==
    LET gone == Destroyed(c, chs)
        Left(ch) == [channel[ch] EXCEPT
                        !.user_count = @ - 1,
                        !.disabled = @ \/ ch \in Emptied(c, chs),
                        !.invite_list = IF ch \in uninvited THEN @ \ {c} ELSE @]
    IN  /\ channels' = channels \ gone
        /\ channel' = [ch \in Channels |->
                          IF ch \in gone THEN NewEntry
                          ELSE IF ch \in chs THEN Left(ch) ELSE channel[ch]]
        /\ user_list' = [ch \in Channels |->
                            IF ch \in chs THEN user_list[ch] \ {c}
                            ELSE user_list[ch]]
        /\ client_channels' = [client_channels EXCEPT ![c] = @ \ chs]
        /\ chl_mode' = [ch \in Channels |->
                           IF ch \in chs THEN [chl_mode[ch] EXCEPT ![c] = {}]
                           ELSE chl_mode[ch]]
        /\ announced' = [ch \in Channels |->
                            IF ch \in chs THEN [announced[ch] EXCEPT ![c] = {}]
                            ELSE announced[ch]]
        /\ key_holders' = [ch \in Channels |->
                              IF ch \in gone THEN {}
                              ELSE IF ch \in Rekeyed(c, chs)
                                   THEN user_list[ch] \ {c}
                                   ELSE key_holders[ch]]
        /\ rekey_task' = RekeyScheduled(Rekeyed(c, chs)) \ gone
        /\ stat' = RemovalStat(c, chs)

\* LEAVE
Leave(c, ch) ==
    /\ c \in registered
    /\ ch \in channels
    /\ OnChannel(c, ch)
    /\ RemoveFromChannels(c, {ch}, {})
    /\ UNCHANGED registered

\* KICK by c of `target', who may be c itself but not a founder.
Kick(c, ch, target) ==
    /\ c \in registered
    /\ ch \in channels
    /\ OnChannel(c, ch)
    /\ IsOper(c, ch)
    /\ OnChannel(target, ch)
    /\ ~HasMode(target, ch, "CHANFO")
    /\ RemoveFromChannels(target, {ch}, {ch})
    /\ UNCHANGED registered

\* The connection of c ends: QUIT, disconnection or the expiry of a detached
\* session.
Signoff(c) ==
    /\ c \in registered
    /\ RemoveFromChannels(c, client_channels[c], {})
    /\ registered' = registered \ {c}

\* KILL with a signature made with the key of `target'.
KillWithAuth(c, target) ==
    /\ c \in registered
    /\ target \in registered
    /\ PublicKey[target] \in PrivateKeys[c]
    /\ RemoveFromChannels(target, client_channels[target],
           client_channels[target] \ Emptied(target, client_channels[target]))
    /\ registered' = registered \ {target}

\* KILL by a router operator.  The call from silc_server_kill_client has
\* notify FALSE, which leaves clidp NULL, and then no invite list is touched.
KillByOperator(c, target) ==
    /\ c \in registered
    /\ target \in registered
    /\ ServerType = "router"
    /\ c \in Operators
    /\ RemoveFromChannels(target, client_channels[target], {})
    /\ registered' = registered \ {target}

\* A client completes its registration with the server.
Register(c) ==
    /\ c \notin registered
    /\ registered' = registered \cup {c}
    /\ UNCHANGED <<channels, channel, user_list, client_channels, chl_mode,
                   announced, key_holders, rekey_task, stat>>

-----------------------------------------------------------------------------
(***************************************************************************)
(* JOIN.                                                                   *)
(***************************************************************************)

Entry(ch) == IF ch \in channels THEN channel[ch] ELSE NewEntry

\* The founder authentication of silc_server_command_join_channel.
FounderAuth(c, ch, auth) ==
    /\ "FOUNDER_AUTH" \in Entry(ch).mode
    /\ Entry(ch).founder_key = PublicKey[c]
    /\ AuthVerify(auth, Entry(ch).founder_key)

\* The mode a client joins with.  Somebody who finds an empty channel that is
\* not a disabled permanent one becomes its founder.
JoinUMode(c, ch, auth) ==
    IF \/ ch \notin channels
       \/ ~channel[ch].disabled /\ user_list[ch] = {}
       \/ FounderAuth(c, ch, auth)
    THEN {"CHANOP", "CHANFO"} ELSE {}

\* The checks of the channel modes.  Founder rights override the first three.
Admitted(c, ch, pass, auth, cauth) ==
    LET e == Entry(ch)
    IN  /\ \/ JoinUMode(c, ch, auth) # {}
           \/ /\ "INVITE" \in e.mode => InviteBanMatch(e.invite_list, c)
              /\ ~InviteBanMatch(e.ban_list, c)
              /\ "ULIMIT" \in e.mode =>
                     Cardinality(user_list[ch]) + 1 <= e.user_limit
        /\ "PASSPHRASE" \in e.mode => pass # None /\ pass = e.passphrase
        /\ "CHANNEL_AUTH" \in e.mode => cauth \in e.channel_pubkeys
        /\ ~OnChannel(c, ch)

\* Mutant: the present founder keeps its rights.
ReplacedFounderKept(ch, replace) == {{}}

\* The first founder found on the user list, as a set, when one is replaced.
ReplacedFounder(ch, replace) ==
    IF replace /\ Founders(ch) # {} THEN {{f} : f \in Founders(ch)} ELSE {{}}

\* The channel's modes after those clients lost their founder rights.
Demoted(ch, fs) ==
    [c \in Clients |-> IF c \in fs THEN chl_mode[ch][c] \ {"CHANFO"}
                       ELSE chl_mode[ch][c]]

\* silc_server_force_cumode_change tells the channel.
DemotedAnnounced(ch, fs) ==
    [c \in Clients |-> IF c \in fs THEN chl_mode[ch][c] \ {"CHANFO"}
                       ELSE announced[ch][c]]

JoinAllowed(c, ch, auth, cauth) ==
    /\ c \in registered
    /\ Cardinality(client_channels[c]) < ChLimit
    /\ auth \in PrivateKeys[c] \cup {None}
    /\ cauth \in PrivateKeys[c] \cup {None}

\* JOIN that succeeds.  A channel that does not exist is created; the others
\* get a new key unless they use private keys.  The reply carries the key.
Join(c, ch, pass, auth, cauth) ==
    /\ JoinAllowed(c, ch, auth, cauth)
    /\ Admitted(c, ch, pass, auth, cauth)
    /\ \E fs \in ReplacedFounder(ch, FounderAuth(c, ch, auth)) :
        LET umode == JoinUMode(c, ch, auth)
            e     == Entry(ch)
            keyed == "PRIVKEY" \notin e.mode
        IN  /\ channels' = channels \cup {ch}
            /\ channel' = [channel EXCEPT ![ch] =
                   [e EXCEPT !.user_count = @ + 1, !.disabled = FALSE]]
            /\ user_list' = [user_list EXCEPT ![ch] = @ \cup {c}]
            /\ client_channels' = [client_channels EXCEPT ![c] = @ \cup {ch}]
            /\ chl_mode' = [chl_mode EXCEPT ![ch] =
                   [Demoted(ch, fs) EXCEPT ![c] = umode]]
            /\ announced' = [announced EXCEPT ![ch] =
                   [DemotedAnnounced(ch, fs) EXCEPT ![c] = umode]]
            /\ key_holders' = [key_holders EXCEPT ![ch] =
                   IF keyed THEN user_list[ch] \cup {c} ELSE @]
            /\ rekey_task' = IF keyed THEN RekeyScheduled({ch}) ELSE rekey_task
            /\ stat' = Count(IF ch \in channels THEN stat
                             ELSE Count(stat, {"my_channels"}, 1),
                             ChanclientStats, 1)
            /\ UNCHANGED registered

\* JOIN that is refused after the founder authentication has already taken
\* the rights of the present founder.
JoinRefused(c, ch, pass, auth, cauth) ==
    /\ JoinAllowed(c, ch, auth, cauth)
    /\ FounderAuth(c, ch, auth)
    /\ ~Admitted(c, ch, pass, auth, cauth)
    /\ \E fs \in ReplacedFounder(ch, TRUE) :
           /\ chl_mode' = [chl_mode EXCEPT ![ch] = Demoted(ch, fs)]
           /\ announced' = [announced EXCEPT ![ch] = DemotedAnnounced(ch, fs)]
    /\ UNCHANGED <<registered, channels, channel, user_list, client_channels,
                   key_holders, rekey_task, stat>>

-----------------------------------------------------------------------------
(***************************************************************************)
(* CMODE.  The handler treats the modes in a fixed order and changes the   *)
(* entry as it goes; an error stops it and restores the mode word only.    *)
(***************************************************************************)

\* An argument is read only when the mask has its bit.
Arg(mask, bit, values) == IF bit \in mask THEN values \cup {None} ELSE {None}

\* Channel public keys added and removed before the list ends or a bad entry
\* stops it.
PkLists == [add : SUBSET Keys, del : SUBSET Keys, bad : BOOLEAN]

CmodeRequests ==
    UNION {[mask   : {mask},
            limit  : Arg(mask, "ULIMIT", UserLimits),
            pass   : Arg(mask, "PASSPHRASE", Passphrases),
            cipher : Arg(mask, "CIPHER", {"known", "unknown"}),
            hmac   : Arg(mask, "HMAC", {"known", "unknown"}),
            fkey   : Arg(mask, "FOUNDER_AUTH", Keys),
            auth   : Arg(mask, "FOUNDER_AUTH", Keys),
            pk     : Arg(mask, "CHANNEL_AUTH", PkLists)] :
           mask \in SUBSET ModeBits}

\* Mutant: the founder authentication is left to operators.
FounderModesOpen == {"PASSPHRASE", "CIPHER", "SILENCE_USERS", "SILENCE_OPERS",
                     "CHANNEL_AUTH"}

\* Modes only the founder may change.
FounderModes == {"PASSPHRASE", "CIPHER", "FOUNDER_AUTH", "SILENCE_USERS",
                 "SILENCE_OPERS", "CHANNEL_AUTH"}

CheckCmodeRights(c, ch, mask) ==
    /\ IsOper(c, ch)
    /\ \/ HasMode(c, ch, "CHANFO")
       \/ /\ "PRIVKEY" \notin mask \cup channel[ch].mode
          /\ mask \cap FounderModes = channel[ch].mode \cap FounderModes

CmodeStage == [PRIVKEY |-> 1, ULIMIT |-> 2, PASSPHRASE |-> 3, CIPHER |-> 4,
               HMAC |-> 5, FOUNDER_AUTH |-> 6, CHANNEL_AUTH |-> 7]

\* Neither a key argument nor a new mode: the founder key is kept.
HasFounder(ch, r) == r.fkey = None /\ "FOUNDER_AUTH" \in channel[ch].mode

\* The key the new founder authentication is for, and is verified with.
RequestedKey(c, r) == IF r.fkey = None THEN PublicKey[c] ELSE r.fkey

\* The stage of mode `bit' ends in an error reply.
CmodeFails(c, ch, r, bit) ==
    LET added == bit \in r.mask \ channel[ch].mode
    IN  \/ bit = "ULIMIT" /\ added /\ r.limit = None
        \/ bit = "PASSPHRASE" /\ added /\ r.pass = None
        \/ bit = "CIPHER" /\ added /\ r.cipher # "known"
        \/ bit = "HMAC" /\ added /\ r.hmac # "known"
        \/ /\ bit = "FOUNDER_AUTH" /\ bit \in r.mask
           /\ HasMode(c, ch, "CHANFO")
           /\ ~HasFounder(ch, r)
           /\ ~AuthVerify(r.auth, RequestedKey(c, r))
        \/ /\ bit = "CHANNEL_AUTH" /\ bit \in r.mask
           /\ HasMode(c, ch, "CHANFO")
           /\ IF r.pk = None THEN added ELSE r.pk.bad

CmodeFailures(c, ch, r) ==
    {CmodeStage[bit] : bit \in {b \in DOMAIN CmodeStage : CmodeFails(c, ch, r, b)}}

\* The stage of `bit' is reached, and carried out, when those in `failures' fail.
CmodeReached(failures, bit) == \A n \in failures : CmodeStage[bit] <= n
CmodeDone(failures, bit) == \A n \in failures : CmodeStage[bit] < n

\* What each stage leaves in the entry when it is carried out.
CmodeUlimit(e, r) ==
    IF "ULIMIT" \in r.mask THEN (IF r.limit = None THEN e.user_limit ELSE r.limit)
    ELSE IF "ULIMIT" \in e.mode THEN 0 ELSE e.user_limit

CmodePassphrase(e, r) ==
    IF "PASSPHRASE" \in r.mask \ e.mode THEN r.pass
    ELSE IF "PASSPHRASE" \in e.mode \ r.mask THEN None ELSE e.passphrase

CmodeFounderKey(c, ch, r) ==
    LET e == channel[ch]
    IN  IF ~HasMode(c, ch, "CHANFO") THEN e.founder_key
        ELSE IF "FOUNDER_AUTH" \in r.mask
             THEN IF HasFounder(ch, r) THEN e.founder_key ELSE RequestedKey(c, r)
             ELSE IF "FOUNDER_AUTH" \in e.mode THEN None ELSE e.founder_key

CmodePubkeys(c, ch, r) ==
    LET e == channel[ch]
    IN  IF ~HasMode(c, ch, "CHANFO") THEN e.channel_pubkeys
        ELSE IF "CHANNEL_AUTH" \in r.mask
             THEN IF r.pk = None THEN e.channel_pubkeys
                  ELSE (e.channel_pubkeys \cup r.pk.add) \ r.pk.del
             ELSE IF "CHANNEL_AUTH" \in e.mode THEN {} ELSE e.channel_pubkeys

\* The cipher was replaced, and the key that goes with it sent.
NewCipher(c, ch, r) ==
    /\ ("CIPHER" \in r.mask) # ("CIPHER" \in channel[ch].mode)
    /\ CmodeDone(CmodeFailures(c, ch, r), "CIPHER")

\* Mutant: the PRIVKEY bit is still set when the new key is asked for.
NewKeyFlagKept(c, ch, r) ==
    /\ NewCipher(c, ch, r)
    /\ "PRIVKEY" \notin channel[ch].mode

\* A new key was made: when private keys are given up, and with a new cipher
\* unless private keys are in use and stay so.
NewKey(c, ch, r) ==
    \/ "PRIVKEY" \in channel[ch].mode \ r.mask
    \/ NewCipher(c, ch, r) /\ "PRIVKEY" \notin channel[ch].mode \cap r.mask

\* The entry when the handler returns.
CmodeEntry(c, ch, r) ==
    LET e == channel[ch]
        failures == CmodeFailures(c, ch, r)
        Done(bit) == CmodeDone(failures, bit)
    IN  [e EXCEPT
            !.mode = IF Done("CHANNEL_AUTH") THEN r.mask ELSE e.mode,
            !.user_limit = IF Done("ULIMIT") THEN CmodeUlimit(e, r)
                           ELSE e.user_limit,
            !.passphrase = IF Done("PASSPHRASE") THEN CmodePassphrase(e, r)
                           ELSE e.passphrase,
            !.founder_key = IF Done("FOUNDER_AUTH")
                            THEN CmodeFounderKey(c, ch, r) ELSE e.founder_key,
            !.channel_pubkeys = IF CmodeReached(failures, "CHANNEL_AUTH")
                                THEN CmodePubkeys(c, ch, r)
                                ELSE e.channel_pubkeys]

CMode(c, ch, r) ==
    /\ c \in registered
    /\ ch \in channels
    /\ OnChannel(c, ch)
    /\ CheckCmodeRights(c, ch, r.mask)
    /\ r.auth \in PrivateKeys[c] \cup {None}
    /\ channel' = [channel EXCEPT ![ch] = CmodeEntry(c, ch, r)]
    /\ key_holders' = [key_holders EXCEPT ![ch] =
           IF NewKey(c, ch, r) THEN user_list[ch]
           ELSE IF NewCipher(c, ch, r) THEN @ \cup user_list[ch] ELSE @]
    /\ rekey_task' = IF NewKey(c, ch, r) THEN RekeyScheduled({ch})
                     ELSE rekey_task
    /\ UNCHANGED <<registered, channels, user_list, client_channels,
                   chl_mode, announced, stat>>

-----------------------------------------------------------------------------
(***************************************************************************)
(* CUMODE.  As in CMODE the bits are treated in a fixed order, and an      *)
(* error leaves the bits before it changed; the channel is told only when  *)
(* the handler gets to its end.                                            *)
(***************************************************************************)

CumodeStage == [CHANFO |-> 1, CHANOP |-> 2, BLOCK_MESSAGES |-> 3,
                BLOCK_MESSAGES_USERS |-> 4, BLOCK_MESSAGES_ROBOTS |-> 5,
                QUIET |-> 6]

\* Mutant: the signature is not verified.
ClaimsFounderUnverified(c, ch, mask, target, auth) ==
    /\ "CHANFO" \in mask
    /\ c = target
    /\ ~HasMode(c, ch, "CHANFO")
    /\ "FOUNDER_AUTH" \in channel[ch].mode

\* c claims founder rights with a signature by the channel's founder key.
ClaimsFounder(c, ch, mask, target, auth) ==
    /\ "CHANFO" \in mask
    /\ c = target
    /\ ~HasMode(c, ch, "CHANFO")
    /\ "FOUNDER_AUTH" \in channel[ch].mode
    /\ channel[ch].founder_key # None
    /\ AuthVerify(auth, channel[ch].founder_key)

\* The stage of mode `bit' ends in an error reply.
CumodeFails(c, ch, mask, target, auth, bit) ==
    LET wanted  == bit \in mask
        changed == wanted # HasMode(target, ch, bit)
    IN  \/ /\ bit = "CHANFO" /\ wanted
           /\ ~(c = target /\ HasMode(c, ch, "CHANFO"))
           /\ ~ClaimsFounder(c, ch, mask, target, auth)
        \/ /\ bit = "CHANOP" /\ changed
           /\ ~IsOper(c, ch)
           /\ ~ClaimsFounder(c, ch, mask, target, auth)
        \/ /\ bit \in {"BLOCK_MESSAGES", "BLOCK_MESSAGES_USERS",
                       "BLOCK_MESSAGES_ROBOTS"}
           /\ wanted \/ HasMode(target, ch, bit)
           /\ c # target
        \/ bit = "QUIET" /\ changed /\ c = target

CumodeDone(c, ch, mask, target, auth, bit) ==
    \A b \in UModeBits : CumodeStage[b] <= CumodeStage[bit] =>
                             ~CumodeFails(c, ch, mask, target, auth, b)

\* The target's mode when the handler returns.
CumodeResult(c, ch, mask, target, auth) ==
    {b \in UModeBits : IF CumodeDone(c, ch, mask, target, auth, b)
                       THEN b \in mask ELSE HasMode(target, ch, b)}

CUMode(c, ch, mask, target, auth) ==
    /\ c \in registered
    /\ ch \in channels
    /\ OnChannel(c, ch)
    /\ auth \in PrivateKeys[c] \cup {None}
    /\ c = target \/ IsOper(c, ch)
    /\ OnChannel(target, ch)
    /\ c = target \/ ~HasMode(target, ch, "CHANFO")
    /\ \E fs \in ReplacedFounder(ch, ServerType = "router" /\
                                 ClaimsFounder(c, ch, mask, target, auth)) :
        LET result  == CumodeResult(c, ch, mask, target, auth)
            success == \A b \in UModeBits :
                           ~CumodeFails(c, ch, mask, target, auth, b)
        IN  /\ chl_mode' = [chl_mode EXCEPT ![ch] =
                   [Demoted(ch, fs) EXCEPT ![target] = result]]
            /\ announced' = [announced EXCEPT ![ch] =
                   [DemotedAnnounced(ch, fs) EXCEPT ![target] =
                       IF success /\ result # chl_mode[ch][target]
                       THEN mask ELSE @]]
    /\ UNCHANGED <<registered, channels, channel, user_list, client_channels,
                   key_holders, rekey_task, stat>>

-----------------------------------------------------------------------------
(***************************************************************************)
(* INVITE, BAN, and the re-key timeout.                                    *)
(***************************************************************************)

\* The limit check of the callers and silc_server_inviteban_process.  The
\* action of announcements, 0x03, adds as well and is not checked.
ListProcess(list, action, items) ==
    CASE action = "del" -> list \ items
      [] action = "announce" -> list \cup items
      [] action = "add" /\ Cardinality(list) <= ListLimit -> list \cup items
      [] OTHER -> list

ListActions == {"add", "del", "announce"}

\* INVITE of client `dest', a change of the list, or both.  When the list is
\* full the change is refused but `dest' has been added.
Invite(c, ch, dest, action, items) ==
    /\ c \in registered
    /\ ch \in channels
    /\ OnChannel(c, ch)
    /\ "INVITE" \in channel[ch].mode => IsOper(c, ch)
    /\ dest # None => dest \in registered /\ ~OnChannel(dest, ch)
    /\ channel' = [channel EXCEPT ![ch].invite_list =
           ListProcess(IF dest = None THEN @ ELSE @ \cup {dest}, action, items)]
    /\ UNCHANGED <<registered, channels, user_list, client_channels, chl_mode,
                   announced, key_holders, rekey_task, stat>>

\* BAN needs operator rights; a founder who gave those up may not.
Ban(c, ch, action, items) ==
    /\ c \in registered
    /\ ch \in channels
    /\ OnChannel(c, ch)
    /\ HasMode(c, ch, "CHANOP")
    /\ channel' = [channel EXCEPT ![ch].ban_list =
                       ListProcess(@, action, items)]
    /\ UNCHANGED <<registered, channels, user_list, client_channels, chl_mode,
                   announced, key_holders, rekey_task, stat>>

\* silc_server_channel_key_rekey.  With private keys no new key is made and
\* no new timeout set, but the old key is sent once more.
ChannelKeyRekey(ch) ==
    LET private == "PRIVKEY" \in channel[ch].mode
    IN  /\ ch \in rekey_task
        /\ rekey_task' = IF private THEN rekey_task \ {ch} ELSE rekey_task
        /\ key_holders' = [key_holders EXCEPT ![ch] =
               IF private THEN @ \cup user_list[ch] ELSE user_list[ch]]
        /\ UNCHANGED <<registered, channels, channel, user_list,
                       client_channels, chl_mode, announced, stat>>

-----------------------------------------------------------------------------
Next ==
    \/ \E c \in Clients : Register(c)
    \/ \E c, target \in Clients : KillByOperator(c, target)
    \/ \E c, target \in Clients : KillWithAuth(c, target)
    \/ \E c \in Clients : Signoff(c)
    \/ \E c \in Clients, ch \in Channels, pass \in Passphrases \cup {None},
          auth, cauth \in Keys \cup {None} : Join(c, ch, pass, auth, cauth)
    \/ \E c \in Clients, ch \in Channels, pass \in Passphrases \cup {None},
          auth, cauth \in Keys \cup {None} : JoinRefused(c, ch, pass, auth, cauth)
    \/ \E c \in Clients, ch \in Channels : Leave(c, ch)
    \/ \E c, target \in Clients, ch \in Channels : Kick(c, ch, target)
    \/ \E c \in Clients, ch \in Channels, r \in CmodeRequests : CMode(c, ch, r)
    \/ \E c, target \in Clients, ch \in Channels, mask \in SUBSET UModeBits,
          auth \in Keys \cup {None} : CUMode(c, ch, mask, target, auth)
    \/ \E c \in Clients, ch \in Channels,
          dest \in (ListItems \cap Clients) \cup {None},
          action \in ListActions \cup {"none"}, items \in SUBSET ListItems :
             Invite(c, ch, dest, action, items)
    \/ \E c \in Clients, ch \in Channels, action \in ListActions,
          items \in SUBSET ListItems : Ban(c, ch, action, items)
    \/ \E ch \in Channels : ChannelKeyRekey(ch)

Spec == Init /\ [][Next]_vars

-----------------------------------------------------------------------------
(***************************************************************************)
(* Properties.                                                             *)
(***************************************************************************)

\* Every variable has the type its declaration in the code gives it.
TypeOK ==
    /\ registered \subseteq Clients
    /\ channels \subseteq Channels
    /\ channel \in [Channels -> ChannelEntry]
    /\ user_list \in [Channels -> SUBSET Clients]
    /\ client_channels \in [Clients -> SUBSET Channels]
    /\ chl_mode \in [Channels -> [Clients -> SUBSET UModeBits]]
    /\ announced \in [Channels -> [Clients -> SUBSET UModeBits]]
    /\ key_holders \in [Channels -> SUBSET Clients]
    /\ rekey_task \subseteq Channels
    /\ stat \in [StatNames -> 0..(StatModulus - 1)]

\* silc_server_client_on_channel reads client->channels alone "because we
\* assure that the user list on the channel is always in up to date": the two
\* tables agree, only registered clients are in them, and only clients on a
\* channel that exists have a mode on it.
CrossReference ==
    \A ch \in Channels, c \in Clients :
        /\ (c \in user_list[ch]) <=> (ch \in client_channels[c])
        /\ c \in user_list[ch] => c \in registered /\ ch \in channels
        /\ c \notin user_list[ch] => chl_mode[ch][c] = {}

\* channel->user_count, which silc_server_channel_delete subtracts from the
\* statistics, is the number of entries of channel->user_list.
UserCountExact ==
    \A ch \in Channels : channel[ch].user_count = Cardinality(user_list[ch])

\* While a channel does not use private keys, the clients that were given the
\* present channel key are exactly its members: who leaves, is kicked or
\* killed has no later key, who joins has it, whatever else happens between.
KeyAgreement ==
    \A ch \in channels :
        "PRIVKEY" \notin channel[ch].mode /\ user_list[ch] # {} =>
            key_holders[ch] = user_list[ch]

\* A channel without members exists only as a disabled permanent channel, and
\* a disabled channel has no members.
EmptyIsPermanent ==
    \A ch \in channels :
        /\ (user_list[ch] = {}) <=> channel[ch].disabled
        /\ channel[ch].disabled => "FOUNDER_AUTH" \in channel[ch].mode

\* On a router a channel never has two founders, although founder rights can
\* be claimed by JOIN and CUMODE while somebody else has them.
SoleFounder ==
    ServerType = "router" =>
        \A ch \in Channels : \A c, d \in Founders(ch) : c = d

\* On a router the key of every channel without private keys is due to be
\* changed, also after the timeout ran while private keys were in use; and a
\* pending timeout never refers to a channel that has been freed.
RekeyPending ==
    /\ rekey_task \subseteq channels
    /\ ServerType = "router" =>
           \A ch \in channels : "PRIVKEY" \notin channel[ch].mode =>
                                    ch \in rekey_task

\* Members of a channel, over all channels.
Memberships == {p \in Channels \X Clients : p[2] \in user_list[p[1]]}

\* The channel users of a standalone server, and on a router the channel
\* users of the network, are counted exactly on every way into and out of a
\* channel; so are the channels.
StatExact ==
    /\ stat["my_channels"] = Cardinality(channels) % StatModulus
    /\ stat[IF ServerType = "router" THEN "chanclients" ELSE "my_chanclients"]
           = Cardinality(Memberships) % StatModulus

\* Modes an operator may change.
OperatorModes == {"PRIVATE", "SECRET", "INVITE", "TOPIC", "ULIMIT", "HMAC"}

\* The channel modes reserved for the founder, the founder key, the passphrase
\* and the channel public keys stay as they are in a step.
FounderSettingsKept(ch) ==
    /\ channel'[ch].mode \ OperatorModes = channel[ch].mode \ OperatorModes
    /\ channel'[ch].founder_key = channel[ch].founder_key
    /\ channel'[ch].passphrase = channel[ch].passphrase
    /\ channel'[ch].channel_pubkeys = channel[ch].channel_pubkeys

\* What is the founder's to decide is changed by a CMODE of the founder alone:
\* no other command changes it, and no CMODE of somebody else does, also when
\* the request fails half-way or an earlier one that did has left the modes and
\* the settings in disagreement.
FounderSettings ==
    [][\A ch \in channels \cap channels' :
          \/ FounderSettingsKept(ch)
          \/ /\ \E c \in Founders(ch), r \in CmodeRequests : CMode(c, ch, r)
             /\ \A c \in user_list[ch] \ Founders(ch), r \in CmodeRequests :
                    ~CMode(c, ch, r)]_vars

\* Founder rights on a channel with members are gained only by somebody who
\* can sign with the channel's founder key, and operator rights only so or
\* while an operator or founder is there to give them.
RightsAreGranted ==
    [][\A ch \in channels, c \in Clients :
          user_list[ch] # {} =>
          LET gained == chl_mode'[ch][c] \ chl_mode[ch][c]
              proved == channel[ch].founder_key \in PrivateKeys[c]
          IN  /\ "CHANFO" \in gained => proved
              /\ "CHANOP" \in gained =>
                     proved \/ \E d \in user_list[ch] : IsOper(d, ch)]_vars

-----------------------------------------------------------------------------
(***************************************************************************)
(* What comments in the code say of it and the code does not keep.         *)
(***************************************************************************)

\* idlist.h on founder_key: "If the SILC_CMODE_FOUNDER_AUTH has been set then
\* this will include the founder's public key."
FounderKeyPresent ==
    \A ch \in channels : "FOUNDER_AUTH" \in channel[ch].mode =>
                             channel[ch].founder_key # None

\* silc_server_command_join_channel, where the present founder loses its
\* rights: "This client is definitely the founder due to this authentication".
DefinitelyFounder ==
    [][\A ch \in channels, c \in Clients, pass \in Passphrases \cup {None},
          auth, cauth \in Keys \cup {None} :
          JoinRefused(c, ch, pass, auth, cauth) /\ chl_mode' # chl_mode =>
              "CHANFO" \in chl_mode'[ch][c]]_vars

\* silc_server_command_cumode: "Send notify to channel, notify only if mode
\* was actually changed."  What the members were told is what the modes are.
ModesAnnounced ==
    \A ch \in channels : \A c \in user_list[ch] :
        announced[ch][c] = chl_mode[ch][c]

=============================================================================
