--------------------------- MODULE ChannelProofs ---------------------------
(***************************************************************************)
(* Proofs about Channel for every set of clients, channels and keys, and   *)
(* for both types of server.                                               *)
(***************************************************************************)
EXTENDS Channel, FiniteSetTheorems, TLAPS

-----------------------------------------------------------------------------
(***************************************************************************)
(* Types.                                                                  *)
(***************************************************************************)

\* The counters stay SilcUInt32 numbers whatever is added to them.
LEMMA CountType ==
    ASSUME NEW st \in [StatNames -> 0..(StatModulus - 1)],
           NEW names, NEW n \in Int
    PROVE  Count(st, names, n) \in [StatNames -> 0..(StatModulus - 1)]
  <1>1. ASSUME NEW s \in StatNames
        PROVE  (st[s] + n) % StatModulus \in 0..(StatModulus - 1)
    <2>1. st[s] \in Int
      OBVIOUS
    <2> QED
      BY <2>1, NumbersAssumption, SMT
  <1> QED
    BY <1>1 DEF Count

\* The number of entries of a set of channels is a number.
LEMMA ChannelsFinite ==
    ASSUME NEW chs \in SUBSET Channels
    PROVE  IsFiniteSet(chs) /\ Cardinality(chs) \in Nat
  BY ClientsAssumption, FS_Subset, FS_CardinalityType

\* So is the number of users the channels' user_count fields count.
LEMMA UsersCountedType ==
    ASSUME NEW chs \in SUBSET Channels
    PROVE  UsersCounted(chs) \in Nat
  <1> DEFINE N == Cardinality(Clients)
  <1>1. N \in Nat
    BY ClientsAssumption, FS_CardinalityType
  <1>2. IsFiniteSet(1..N)
    BY <1>1, FS_Interval
  <1>3. IsFiniteSet(chs \X (1..N))
    BY <1>2, ChannelsFinite, FS_Product
  <1>4. IsFiniteSet({p \in chs \X (1..N) : p[2] <= channel[p[1]].user_count})
    BY <1>3, FS_Subset
  <1> QED
    BY <1>4, FS_CardinalityType DEF UsersCounted

\* The statistics stay well-typed when a client leaves channels.
LEMMA RemovalStatType ==
    ASSUME stat \in [StatNames -> 0..(StatModulus - 1)],
           NEW c, NEW chs \in SUBSET Channels
    PROVE  RemovalStat(c, chs) \in [StatNames -> 0..(StatModulus - 1)]
  <1> DEFINE gone == Destroyed(c, chs)
             left == IF ServerType = "router" THEN chs \ gone ELSE chs
             st1  == Count(stat, ChanclientStats, -Cardinality(left))
             st2  == IF ServerType = "router"
                     THEN Count(st1, {"chanclients"}, -UsersCounted(gone))
                     ELSE st1
  <1>1. gone \in SUBSET Channels /\ left \in SUBSET Channels
    BY DEF Destroyed, Emptied
  <1>2. -Cardinality(gone) \in Int /\ -Cardinality(left) \in Int
    BY <1>1, ChannelsFinite
  <1>3. -UsersCounted(gone) \in Int
    BY <1>1, UsersCountedType
  <1>4. st1 \in [StatNames -> 0..(StatModulus - 1)]
    BY <1>2, CountType
  <1>5. st2 \in [StatNames -> 0..(StatModulus - 1)]
    BY <1>3, <1>4, CountType
  <1>6. Count(st2, {"my_channels"}, -Cardinality(gone))
            \in [StatNames -> 0..(StatModulus - 1)]
    BY <1>2, <1>5, CountType
  <1> QED
    BY <1>6 DEF RemovalStat

\* Updates of an entry's fields.
LEMMA EntryMembers ==
    ASSUME NEW e \in ChannelEntry, NEW n \in Int, NEW d \in BOOLEAN,
           NEW list \in SUBSET (Clients \cup Keys)
    PROVE  /\ [e EXCEPT !.user_count = n, !.disabled = d] \in ChannelEntry
           /\ [e EXCEPT !.user_count = n, !.disabled = d, !.invite_list = list]
                  \in ChannelEntry
           /\ [e EXCEPT !.invite_list = list] \in ChannelEntry
           /\ [e EXCEPT !.ban_list = list] \in ChannelEntry
  BY Zenon DEF ChannelEntry

\* Updates of the fields CMODE sets.
LEMMA EntrySettings ==
    ASSUME NEW e \in ChannelEntry, NEW mode \in SUBSET ModeBits,
           NEW limit \in Nat, NEW pass \in Passphrases \cup {None},
           NEW key \in Keys \cup {None}, NEW pks \in SUBSET Keys
    PROVE  [e EXCEPT !.mode = mode, !.user_limit = limit, !.passphrase = pass,
                     !.founder_key = key, !.channel_pubkeys = pks]
               \in ChannelEntry
  BY Zenon DEF ChannelEntry

\* Removing a client from channels keeps the types.
LEMMA RemovalType ==
    ASSUME TypeOK, NEW c \in Clients, NEW chs \in SUBSET Channels, NEW un,
           RemoveFromChannels(c, chs, un), registered' \subseteq Clients
    PROVE  TypeOK'
  <1> DEFINE gone == Destroyed(c, chs)
             Left(ch) == [channel[ch] EXCEPT
                            !.user_count = @ - 1,
                            !.disabled = @ \/ ch \in Emptied(c, chs),
                            !.invite_list = IF ch \in un THEN @ \ {c} ELSE @]
  <1>1. NewEntry \in ChannelEntry
    BY DEF NewEntry, ChannelEntry
  <1>2. ASSUME NEW ch \in Channels
        PROVE  Left(ch) \in ChannelEntry
    <2>1. channel[ch] \in ChannelEntry
      BY DEF TypeOK
    <2> DEFINE d == channel[ch].disabled \/ ch \in Emptied(c, chs)
               n == channel[ch].user_count - 1
               list == IF ch \in un THEN channel[ch].invite_list \ {c}
                       ELSE channel[ch].invite_list
    <2>2. d \in BOOLEAN
      OBVIOUS
    <2>3. n \in Int /\ list \in SUBSET (Clients \cup Keys)
      BY <2>1 DEF ChannelEntry
    <2> HIDE DEF d, n, list
    <2>4. [channel[ch] EXCEPT !.user_count = n, !.disabled = d,
                              !.invite_list = list] \in ChannelEntry
      BY <2>1, <2>2, <2>3, EntryMembers
    <2> QED
      BY <2>4 DEF d, n, list
  <1>3. channel' \in [Channels -> ChannelEntry]
    BY <1>1, <1>2 DEF RemoveFromChannels, TypeOK
  <1>4. /\ channels' \subseteq Channels
        /\ user_list' \in [Channels -> SUBSET Clients]
        /\ client_channels' \in [Clients -> SUBSET Channels]
    BY DEF RemoveFromChannels, TypeOK
  <1>5. chl_mode' \in [Channels -> [Clients -> SUBSET UModeBits]]
    BY DEF RemoveFromChannels, TypeOK
  <1>6. announced' \in [Channels -> [Clients -> SUBSET UModeBits]]
    BY DEF RemoveFromChannels, TypeOK
  <1>7. /\ key_holders' \in [Channels -> SUBSET Clients]
        /\ rekey_task' \subseteq Channels
    BY DEF RemoveFromChannels, TypeOK, RekeyScheduled, Rekeyed
  <1>8. stat' \in [StatNames -> 0..(StatModulus - 1)]
    BY RemovalStatType DEF RemoveFromChannels, TypeOK
  <1> QED
    BY <1>3, <1>4, <1>5, <1>6, <1>7, <1>8 DEF TypeOK

\* Taking founder rights away keeps the types.
LEMMA DemotedType ==
    ASSUME TypeOK, NEW ch \in Channels, NEW fs
    PROVE  /\ Demoted(ch, fs) \in [Clients -> SUBSET UModeBits]
           /\ DemotedAnnounced(ch, fs) \in [Clients -> SUBSET UModeBits]
  BY DEF TypeOK, Demoted, DemotedAnnounced

\* A JOIN that succeeds keeps the types.
LEMMA JoinType ==
    ASSUME TypeOK, NEW c \in Clients, NEW ch \in Channels, NEW pass, NEW auth,
           NEW cauth, Join(c, ch, pass, auth, cauth)
    PROVE  TypeOK'
  <1> DEFINE umode == JoinUMode(c, ch, auth)
             e     == Entry(ch)
  <1>1. PICK fs \in ReplacedFounder(ch, FounderAuth(c, ch, auth)) :
          /\ chl_mode' = [chl_mode EXCEPT ![ch] =
                 [Demoted(ch, fs) EXCEPT ![c] = umode]]
          /\ announced' = [announced EXCEPT ![ch] =
                 [DemotedAnnounced(ch, fs) EXCEPT ![c] = umode]]
          /\ channel' = [channel EXCEPT ![ch] =
                 [e EXCEPT !.user_count = @ + 1, !.disabled = FALSE]]
    BY DEF Join
  <1>2. umode \in SUBSET UModeBits
    BY ModesAssumption DEF JoinUMode
  <1>3. /\ chl_mode' \in [Channels -> [Clients -> SUBSET UModeBits]]
        /\ announced' \in [Channels -> [Clients -> SUBSET UModeBits]]
    BY <1>1, <1>2, DemotedType DEF TypeOK
  <1>4. e \in ChannelEntry
    BY DEF Entry, NewEntry, ChannelEntry, TypeOK
  <1>5. channel' \in [Channels -> ChannelEntry]
    <2>1. e.user_count + 1 \in Int
      BY <1>4 DEF ChannelEntry
    <2>2. [e EXCEPT !.user_count = e.user_count + 1, !.disabled = FALSE]
              \in ChannelEntry
      BY <1>4, <2>1, EntryMembers
    <2> QED
      BY <1>1, <2>2 DEF TypeOK
  <1>6. /\ registered' \subseteq Clients
        /\ channels' \subseteq Channels
        /\ user_list' \in [Channels -> SUBSET Clients]
        /\ client_channels' \in [Clients -> SUBSET Channels]
        /\ key_holders' \in [Channels -> SUBSET Clients]
        /\ rekey_task' \subseteq Channels
    BY DEF Join, TypeOK, RekeyScheduled
  <1>7. stat' \in [StatNames -> 0..(StatModulus - 1)]
    <2> DEFINE st == IF ch \in channels THEN stat
                     ELSE Count(stat, {"my_channels"}, 1)
    <2>1. st \in [StatNames -> 0..(StatModulus - 1)]
      BY CountType DEF TypeOK
    <2>2. Count(st, ChanclientStats, 1) \in [StatNames -> 0..(StatModulus - 1)]
      BY <2>1, CountType
    <2> QED
      BY <2>2 DEF Join
  <1> QED
    BY <1>3, <1>5, <1>6, <1>7 DEF TypeOK

\* The arguments of a CMODE are of their types.
LEMMA CmodeRequestType ==
    ASSUME NEW r \in CmodeRequests
    PROVE  /\ r.mask \in SUBSET ModeBits
           /\ r.limit \in UserLimits \cup {None}
           /\ r.pass \in Passphrases \cup {None}
           /\ r.fkey \in Keys \cup {None}
           /\ r.auth \in Keys \cup {None}
           /\ r.pk \in PkLists \cup {None}
  BY DEF CmodeRequests, Arg

\* Every stage of CMODE leaves values of the right types.
LEMMA CmodeStageType ==
    ASSUME TypeOK, NEW c \in Clients, NEW ch \in Channels,
           NEW r \in CmodeRequests
    PROVE  /\ CmodeUlimit(channel[ch], r) \in Nat
           /\ CmodePassphrase(channel[ch], r) \in Passphrases \cup {None}
           /\ CmodeFounderKey(c, ch, r) \in Keys \cup {None}
           /\ CmodePubkeys(c, ch, r) \in SUBSET Keys
  <1>1. channel[ch] \in ChannelEntry
    BY DEF TypeOK
  <1>2. CmodeUlimit(channel[ch], r) \in Nat
    BY <1>1, CmodeRequestType, NumbersAssumption DEF CmodeUlimit, ChannelEntry
  <1>3. CmodePassphrase(channel[ch], r) \in Passphrases \cup {None}
    BY <1>1, CmodeRequestType DEF CmodePassphrase, ChannelEntry
  <1>4. RequestedKey(c, r) \in Keys
    BY CmodeRequestType, KeysAssumption DEF RequestedKey
  <1>5. CmodeFounderKey(c, ch, r) \in Keys \cup {None}
    BY <1>1, <1>4 DEF CmodeFounderKey, ChannelEntry
  <1>6. r.pk # None => r.pk.add \in SUBSET Keys
    BY CmodeRequestType DEF PkLists
  <1>7. CmodePubkeys(c, ch, r) \in SUBSET Keys
    BY <1>1, <1>6 DEF CmodePubkeys, ChannelEntry
  <1> QED
    BY <1>2, <1>3, <1>5, <1>7

\* The entry CMODE leaves is of its type.
LEMMA CmodeEntryType ==
    ASSUME TypeOK, NEW c \in Clients, NEW ch \in Channels,
           NEW r \in CmodeRequests
    PROVE  CmodeEntry(c, ch, r) \in ChannelEntry
  <1> DEFINE failures == CmodeFailures(c, ch, r)
             Done(bit) == CmodeDone(failures, bit)
             e     == channel[ch]
             mode  == IF Done("CHANNEL_AUTH") THEN r.mask ELSE e.mode
             limit == IF Done("ULIMIT") THEN CmodeUlimit(e, r)
                      ELSE e.user_limit
             pass  == IF Done("PASSPHRASE") THEN CmodePassphrase(e, r)
                      ELSE e.passphrase
             key   == IF Done("FOUNDER_AUTH") THEN CmodeFounderKey(c, ch, r)
                      ELSE e.founder_key
             pks   == IF CmodeReached(failures, "CHANNEL_AUTH")
                      THEN CmodePubkeys(c, ch, r) ELSE e.channel_pubkeys
             entry == [e EXCEPT !.mode = mode, !.user_limit = limit,
                                !.passphrase = pass, !.founder_key = key,
                                !.channel_pubkeys = pks]
  <1>1. e \in ChannelEntry
    BY DEF TypeOK
  <1>2. r.mask \in SUBSET ModeBits
    BY CmodeRequestType
  <1>3. /\ mode \in SUBSET ModeBits
        /\ limit \in Nat
        /\ pass \in Passphrases \cup {None}
        /\ key \in Keys \cup {None}
        /\ pks \in SUBSET Keys
    BY <1>1, <1>2, CmodeStageType DEF ChannelEntry
  <1>4. CmodeEntry(c, ch, r) = entry
    BY Zenon DEF CmodeEntry
  <1> HIDE DEF mode, limit, pass, key, pks
  <1>5. entry \in ChannelEntry
    BY <1>1, <1>3, EntrySettings
  <1> QED
    BY <1>4, <1>5

\* CMODE keeps the types, also when it stops half-way.
LEMMA CModeType ==
    ASSUME TypeOK, NEW c \in Clients, NEW ch \in Channels,
           NEW r \in CmodeRequests, CMode(c, ch, r)
    PROVE  TypeOK'
  <1>1. channel' \in [Channels -> ChannelEntry]
    BY CmodeEntryType DEF CMode, TypeOK
  <1>2. /\ key_holders' \in [Channels -> SUBSET Clients]
        /\ rekey_task' \subseteq Channels
    BY DEF CMode, TypeOK, RekeyScheduled
  <1>3. UNCHANGED <<registered, channels, user_list, client_channels,
                    chl_mode, announced, stat>>
    BY DEF CMode
  <1> QED
    BY <1>1, <1>2, <1>3 DEF TypeOK

\* CUMODE keeps the types, also when it stops half-way.
LEMMA CUModeType ==
    ASSUME TypeOK, NEW c \in Clients, NEW ch \in Channels,
           NEW mask \in SUBSET UModeBits, NEW target \in Clients, NEW auth,
           CUMode(c, ch, mask, target, auth)
    PROVE  TypeOK'
  <1> DEFINE result == CumodeResult(c, ch, mask, target, auth)
             success == \A b \in UModeBits :
                            ~CumodeFails(c, ch, mask, target, auth, b)
  <1>1. PICK fs \in ReplacedFounder(ch, ServerType = "router" /\
                        ClaimsFounder(c, ch, mask, target, auth)) :
          /\ chl_mode' = [chl_mode EXCEPT ![ch] =
                 [Demoted(ch, fs) EXCEPT ![target] = result]]
          /\ announced' = [announced EXCEPT ![ch] =
                 [DemotedAnnounced(ch, fs) EXCEPT ![target] =
                     IF success /\ result # chl_mode[ch][target]
                     THEN mask ELSE @]]
    BY DEF CUMode
  <1>2. result \in SUBSET UModeBits
    BY DEF CumodeResult
  <1>3. /\ chl_mode' \in [Channels -> [Clients -> SUBSET UModeBits]]
        /\ announced' \in [Channels -> [Clients -> SUBSET UModeBits]]
    <2> HIDE DEF result, success
    <2> QED
      BY <1>1, <1>2, DemotedType DEF TypeOK
  <1>4. UNCHANGED <<registered, channels, channel, user_list,
                    client_channels, key_holders, rekey_task, stat>>
    BY DEF CUMode
  <1> QED
    BY <1>3, <1>4 DEF TypeOK

\* INVITE and BAN keep the types.
LEMMA ListsType ==
    ASSUME TypeOK, NEW ch \in Channels, NEW list \in SUBSET (Clients \cup Keys),
           \/ channel' = [channel EXCEPT ![ch].invite_list = list]
           \/ channel' = [channel EXCEPT ![ch].ban_list = list],
           UNCHANGED <<registered, channels, user_list, client_channels,
                       chl_mode, announced, key_holders, rekey_task, stat>>
    PROVE  TypeOK'
  <1>1. channel[ch] \in ChannelEntry
    BY DEF TypeOK
  <1>2. /\ [channel[ch] EXCEPT !.invite_list = list] \in ChannelEntry
        /\ [channel[ch] EXCEPT !.ban_list = list] \in ChannelEntry
    BY <1>1, Zenon DEF ChannelEntry
  <1>3. channel' \in [Channels -> ChannelEntry]
    BY <1>2 DEF TypeOK
  <1> QED
    BY <1>3 DEF TypeOK

\* Every step keeps the types.
LEMMA TypeStep ==
    ASSUME TypeOK, Next
    PROVE  TypeOK'
  <1>1. CASE \E c \in Clients : Register(c)
    BY <1>1 DEF Register, TypeOK
  <1>2. CASE \E c, target \in Clients : KillByOperator(c, target)
    BY <1>2, RemovalType DEF KillByOperator, TypeOK
  <1>3. CASE \E c, target \in Clients : KillWithAuth(c, target)
    BY <1>3, RemovalType DEF KillWithAuth, TypeOK
  <1>4. CASE \E c \in Clients : Signoff(c)
    BY <1>4, RemovalType DEF Signoff, TypeOK
  <1>5. CASE \E c \in Clients, ch \in Channels,
                pass \in Passphrases \cup {None},
                auth, cauth \in Keys \cup {None} :
                   Join(c, ch, pass, auth, cauth)
    BY <1>5, JoinType
  <1>6. CASE \E c \in Clients, ch \in Channels,
                pass \in Passphrases \cup {None},
                auth, cauth \in Keys \cup {None} :
                   JoinRefused(c, ch, pass, auth, cauth)
    BY <1>6, DemotedType DEF JoinRefused, TypeOK
  <1>7. CASE \E c \in Clients, ch \in Channels : Leave(c, ch)
    BY <1>7, RemovalType DEF Leave, TypeOK
  <1>8. CASE \E c, target \in Clients, ch \in Channels : Kick(c, ch, target)
    BY <1>8, RemovalType DEF Kick, TypeOK
  <1>9. CASE \E c \in Clients, ch \in Channels, r \in CmodeRequests :
                 CMode(c, ch, r)
    BY <1>9, CModeType
  <1>10. CASE \E c, target \in Clients, ch \in Channels,
                 mask \in SUBSET UModeBits, auth \in Keys \cup {None} :
                    CUMode(c, ch, mask, target, auth)
    BY <1>10, CUModeType
  <1>11. CASE \E c \in Clients, ch \in Channels,
                 dest \in (ListItems \cap Clients) \cup {None},
                 action \in ListActions \cup {"none"}, items \in SUBSET ListItems :
                    Invite(c, ch, dest, action, items)
    <2>1. PICK c \in Clients, ch \in Channels,
               dest \in (ListItems \cap Clients) \cup {None},
               action \in ListActions \cup {"none"}, items \in SUBSET ListItems :
                  Invite(c, ch, dest, action, items)
      BY <1>11
    <2> DEFINE list == ListProcess(IF dest = None THEN channel[ch].invite_list
                                   ELSE channel[ch].invite_list \cup {dest},
                                   action, items)
    <2>2. list \in SUBSET (Clients \cup Keys)
      BY ServerAssumption DEF ListProcess, TypeOK, ChannelEntry
    <2>3. channel' = [channel EXCEPT ![ch].invite_list = list]
      BY <2>1 DEF Invite
    <2> HIDE DEF list
    <2> QED
      BY <2>1, <2>2, <2>3, ListsType DEF Invite
  <1>12. CASE \E c \in Clients, ch \in Channels, action \in ListActions,
                 items \in SUBSET ListItems : Ban(c, ch, action, items)
    <2>1. PICK c \in Clients, ch \in Channels, action \in ListActions,
               items \in SUBSET ListItems : Ban(c, ch, action, items)
      BY <1>12
    <2> DEFINE list == ListProcess(channel[ch].ban_list, action, items)
    <2>2. list \in SUBSET (Clients \cup Keys)
      BY ServerAssumption DEF ListProcess, TypeOK, ChannelEntry
    <2>3. channel' = [channel EXCEPT ![ch].ban_list = list]
      BY <2>1 DEF Ban
    <2> HIDE DEF list
    <2> QED
      BY <2>1, <2>2, <2>3, ListsType DEF Ban
  <1>13. CASE \E ch \in Channels : ChannelKeyRekey(ch)
    BY <1>13 DEF ChannelKeyRekey, TypeOK
  <1> QED
    BY <1>1, <1>2, <1>3, <1>4, <1>5, <1>6, <1>7, <1>8, <1>9, <1>10, <1>11,
       <1>12, <1>13 DEF Next

\* The variables have their types in every reachable state of a server with
\* any number of clients and channels.
THEOREM TypeCorrect == Spec => []TypeOK
  <1>1. Init => TypeOK
    BY NumbersAssumption DEF Init, TypeOK, NewEntry, ChannelEntry
  <1>2. TypeOK /\ [Next]_vars => TypeOK'
    <2>1. TypeOK /\ UNCHANGED vars => TypeOK'
      BY DEF TypeOK, vars
    <2> QED
      BY <2>1, TypeStep
  <1> QED
    BY <1>1, <1>2, PTL DEF Spec

-----------------------------------------------------------------------------
(***************************************************************************)
(* The invariant.  No part of it is inductive alone: which channels may be *)
(* empty rests on the cross-references, who holds a key on who is on the   *)
(* user list, and a sole founder on an unused channel having no user.      *)
(***************************************************************************)

ChannelInv ==
    /\ TypeOK
    /\ CrossReference
    /\ EmptyIsPermanent
    /\ UserCountExact
    /\ KeyAgreement
    /\ RekeyPending
    /\ SoleFounder
    /\ StatExact

\* Optional arguments.
PassArgs == Passphrases \cup {None}
KeyArgs == Keys \cup {None}

\* The five ways out of channels.
Removal ==
    \E c \in Clients, chs, un \in SUBSET Channels :
        /\ chs \subseteq client_channels[c]
        /\ RemoveFromChannels(c, chs, un)
        /\ \/ registered' = registered
           \/ registered' = registered \ {c} /\ chs = client_channels[c]

Joining ==
    \E c \in Clients, ch \in Channels, pass \in PassArgs,
       auth, cauth \in KeyArgs :
        Join(c, ch, pass, auth, cauth)

Refusing ==
    \E c \in Clients, ch \in Channels, pass \in PassArgs,
       auth, cauth \in KeyArgs :
        JoinRefused(c, ch, pass, auth, cauth)

CmodeStep ==
    \E c \in Clients, ch \in Channels, r \in CmodeRequests : CMode(c, ch, r)

CumodeStep ==
    \E c, target \in Clients, ch \in Channels, mask \in SUBSET UModeBits,
       auth \in KeyArgs : CUMode(c, ch, mask, target, auth)

\* Two entries agree in what only a founder may change.
SameSettings(e, f) ==
    /\ f.mode = e.mode
    /\ f.founder_key = e.founder_key
    /\ f.passphrase = e.passphrase
    /\ f.channel_pubkeys = e.channel_pubkeys

\* A step that leaves everything the invariant is about alone, except that a
\* client may register.
Passive ==
    /\ \A ch \in Channels : /\ channel'[ch].mode = channel[ch].mode
                            /\ channel'[ch].disabled = channel[ch].disabled
                            /\ channel'[ch].user_count = channel[ch].user_count
                            /\ SameSettings(channel[ch], channel'[ch])
    /\ registered \subseteq registered'
    /\ UNCHANGED <<channels, user_list, client_channels, chl_mode,
                   key_holders, rekey_task, stat>>

\* A change of a list leaves the other fields alone.
LEMMA ListUpdate ==
    ASSUME NEW e \in ChannelEntry, NEW list,
           NEW f \in {[e EXCEPT !.invite_list = list],
                      [e EXCEPT !.ban_list = list]}
    PROVE  SameSettings(e, f) /\ f.disabled = e.disabled
               /\ f.user_count = e.user_count
  BY DEF ChannelEntry, SameSettings

\* Every step is one of these kinds.
LEMMA StepKinds ==
    ASSUME TypeOK, Next
    PROVE  Removal \/ Joining \/ Refusing \/ CmodeStep \/ CumodeStep \/ Passive
               \/ \E ch \in Channels : ChannelKeyRekey(ch)
  <1>1. ASSUME NEW c \in Clients, Register(c)
        PROVE  Passive
    BY <1>1 DEF Register, Passive, SameSettings
  <1>2. ASSUME NEW c \in Clients, NEW target \in Clients,
               \/ KillByOperator(c, target)
               \/ KillWithAuth(c, target)
               \/ Signoff(target)
        PROVE  Removal
    <2>1. client_channels[target] \in SUBSET Channels
      BY DEF TypeOK
    <2> QED
      BY <1>2, <2>1 DEF KillByOperator, KillWithAuth, Signoff, Removal
  <1>3. ASSUME NEW c \in Clients, NEW target \in Clients, NEW ch \in Channels,
               Leave(target, ch) \/ Kick(c, ch, target)
        PROVE  Removal
    <2>1. {ch} \subseteq client_channels[target]
      BY <1>3 DEF Leave, Kick, OnChannel
    <2>2. {ch} \in SUBSET Channels /\ {} \in SUBSET Channels
      OBVIOUS
    <2>3. registered' = registered
      BY <1>3 DEF Leave, Kick
    <2>4. RemoveFromChannels(target, {ch}, {})
              \/ RemoveFromChannels(target, {ch}, {ch})
      BY <1>3 DEF Leave, Kick
    <2> QED
      BY <2>1, <2>2, <2>3, <2>4 DEF Removal
  <1>4. ASSUME NEW c \in Clients, NEW ch \in Channels, NEW dest, NEW action,
               NEW items,
               \/ Invite(c, ch, dest, action, items)
               \/ Ban(c, ch, action, items)
        PROVE  Passive
    <2>1. \E list : \/ channel' = [channel EXCEPT ![ch].invite_list = list]
                    \/ channel' = [channel EXCEPT ![ch].ban_list = list]
      BY <1>4 DEF Invite, Ban
    <2>2. \A x \in Channels : channel[x] \in ChannelEntry
      BY DEF TypeOK
    <2>3. \A x \in Channels :
             \/ channel'[x] = channel[x]
             \/ \E list : channel'[x] = [channel[x] EXCEPT !.invite_list = list]
             \/ \E list : channel'[x] = [channel[x] EXCEPT !.ban_list = list]
      BY <2>1, <2>2 DEF TypeOK
    <2>4. \A x \in Channels :
             /\ channel'[x].mode = channel[x].mode
             /\ channel'[x].disabled = channel[x].disabled
             /\ channel'[x].user_count = channel[x].user_count
             /\ SameSettings(channel[x], channel'[x])
      <3> TAKE x \in Channels
      <3>1. CASE channel'[x] = channel[x]
        BY <3>1 DEF SameSettings
      <3>2. CASE \E list : channel'[x] = [channel[x] EXCEPT !.invite_list = list]
        BY <2>2, <3>2, ListUpdate DEF SameSettings
      <3>3. CASE \E list : channel'[x] = [channel[x] EXCEPT !.ban_list = list]
        BY <2>2, <3>3, ListUpdate DEF SameSettings
      <3> QED
        BY <2>3, <3>1, <3>2, <3>3
    <2> QED
      BY <1>4, <2>4 DEF Invite, Ban, Passive
  <1> QED
    BY <1>1, <1>2, <1>3, <1>4
    DEF Next, PassArgs, KeyArgs, Joining, Refusing, CmodeStep, CumodeStep

-----------------------------------------------------------------------------
(***************************************************************************)
(* What the steps do to the state the invariant is about.                  *)
(***************************************************************************)

\* The fields of an entry after a user left.
LEMMA LeftFields ==
    ASSUME NEW e \in ChannelEntry, NEW n \in Int, NEW d \in BOOLEAN, NEW list
    PROVE  LET f == [e EXCEPT !.user_count = n, !.disabled = d,
                              !.invite_list = list]
           IN  f.mode = e.mode /\ f.user_count = n /\ f.disabled = d
                   /\ SameSettings(e, f)
  BY Zenon DEF ChannelEntry, SameSettings

\* A client only leaves channels that exist and whose user list has it; the
\* entries of the others are as they were.
LEMMA RemovalEffect ==
    ASSUME TypeOK, CrossReference, NEW c \in Clients,
           NEW chs \in SUBSET Channels, NEW un,
           chs \subseteq client_channels[c], RemoveFromChannels(c, chs, un)
    PROVE  /\ chs \subseteq channels
           /\ \A ch \in chs : c \in user_list[ch]
           /\ \A ch \in Destroyed(c, chs) : channel'[ch] = NewEntry
           /\ \A ch \in Channels \ Destroyed(c, chs) :
                 /\ channel'[ch].mode = channel[ch].mode
                 /\ SameSettings(channel[ch], channel'[ch])
                 /\ ch \in chs =>
                      /\ channel'[ch].user_count = channel[ch].user_count - 1
                      /\ channel'[ch].disabled =
                             (channel[ch].disabled \/ ch \in Emptied(c, chs))
                 /\ ch \notin chs => channel'[ch] = channel[ch]
  <1>1. \A ch \in chs : ch \in channels /\ c \in user_list[ch]
    BY DEF CrossReference
  <1>2. Destroyed(c, chs) \subseteq chs
    BY DEF Destroyed, Emptied
  <1>3. \A ch \in Destroyed(c, chs) : channel'[ch] = NewEntry
    BY <1>2 DEF RemoveFromChannels
  <1>4. ASSUME NEW ch \in chs, ch \notin Destroyed(c, chs)
        PROVE  /\ channel'[ch].mode = channel[ch].mode
               /\ SameSettings(channel[ch], channel'[ch])
               /\ channel'[ch].user_count = channel[ch].user_count - 1
               /\ channel'[ch].disabled =
                             (channel[ch].disabled \/ ch \in Emptied(c, chs))
    <2> DEFINE d == channel[ch].disabled \/ ch \in Emptied(c, chs)
               n == channel[ch].user_count - 1
               list == IF ch \in un THEN channel[ch].invite_list \ {c}
                       ELSE channel[ch].invite_list
    <2>1. channel[ch] \in ChannelEntry
      BY DEF TypeOK
    <2>2. channel'[ch] = [channel[ch] EXCEPT !.user_count = n, !.disabled = d,
                                             !.invite_list = list]
      <3>1. channel'[ch] =
               [channel[ch] EXCEPT
                  !.user_count = @ - 1,
                  !.disabled = @ \/ ch \in Emptied(c, chs),
                  !.invite_list = IF ch \in un THEN @ \ {c} ELSE @]
        BY <1>4 DEF RemoveFromChannels
      <3> QED
        BY <3>1, Zenon
    <2>3. n \in Int
      BY <2>1 DEF ChannelEntry
    <2>4. d \in BOOLEAN
      OBVIOUS
    <2> HIDE DEF d, n, list
    <2>5. channel'[ch].mode = channel[ch].mode /\ channel'[ch].user_count = n
              /\ channel'[ch].disabled = d
              /\ SameSettings(channel[ch], channel'[ch])
      <3> DEFINE f == [channel[ch] EXCEPT !.user_count = n, !.disabled = d,
                                          !.invite_list = list]
      <3>1. f.mode = channel[ch].mode /\ f.user_count = n /\ f.disabled = d
                /\ SameSettings(channel[ch], f)
        BY <2>1, <2>3, <2>4, LeftFields DEF SameSettings
      <3> QED
        BY <2>2, <3>1, Zenon
    <2> QED
      BY <2>5 DEF d, n
  <1>5. \A ch \in Channels : ch \notin chs => channel'[ch] = channel[ch]
    BY <1>2 DEF RemoveFromChannels
  <1> QED
    BY <1>1, <1>3, <1>4, <1>5 DEF SameSettings

\* The fields of an entry after a user joined.
LEMMA JoinedFields ==
    ASSUME NEW e \in ChannelEntry, NEW f,
           f = [e EXCEPT !.user_count = @ + 1, !.disabled = FALSE]
    PROVE  f.mode = e.mode /\ f.user_count = e.user_count + 1
               /\ f.disabled = FALSE /\ SameSettings(e, f)
  BY DEF ChannelEntry, SameSettings

\* A client joins a channel it is not on.
LEMMA JoinEffect ==
    ASSUME TypeOK, CrossReference, NEW c \in Clients, NEW ch \in Channels,
           NEW pass, NEW auth, NEW cauth, Join(c, ch, pass, auth, cauth)
    PROVE  /\ c \notin user_list[ch]
           /\ channel'[ch].mode = Entry(ch).mode
           /\ SameSettings(Entry(ch), channel'[ch])
           /\ channel'[ch].user_count = Entry(ch).user_count + 1
           /\ channel'[ch].disabled = FALSE
           /\ \A x \in Channels \ {ch} : channel'[x] = channel[x]
  <1>1. Entry(ch) \in ChannelEntry
    BY DEF Entry, NewEntry, ChannelEntry, TypeOK
  <1>2. channel' = [channel EXCEPT ![ch] =
                       [Entry(ch) EXCEPT !.user_count = @ + 1,
                                         !.disabled = FALSE]]
    BY DEF Join
  <1>3. channel'[ch] = [Entry(ch) EXCEPT !.user_count = @ + 1,
                                         !.disabled = FALSE]
    BY <1>2 DEF TypeOK
  <1>4. c \notin user_list[ch]
    BY DEF Join, Admitted, OnChannel, CrossReference
  <1>5. \A x \in Channels \ {ch} : channel'[x] = channel[x]
    BY <1>2 DEF TypeOK
  <1> QED
    BY <1>1, <1>3, <1>4, <1>5, JoinedFields

\* CMODE either carries out the whole request or restores the mode word, and
\* it leaves the members and their number alone.
LEMMA CmodeEffect ==
    ASSUME TypeOK, NEW c \in Clients, NEW ch \in Channels,
           NEW r \in CmodeRequests, CMode(c, ch, r)
    PROVE  /\ channel'[ch].mode \in {r.mask, channel[ch].mode}
           /\ channel'[ch].disabled = channel[ch].disabled
           /\ channel'[ch].user_count = channel[ch].user_count
           /\ \A x \in Channels \ {ch} : channel'[x] = channel[x]
  <1>1. channel[ch] \in ChannelEntry
    BY DEF TypeOK
  <1>2. channel'[ch] = CmodeEntry(c, ch, r)
    BY DEF CMode, TypeOK
  <1>3. /\ CmodeEntry(c, ch, r).mode \in {r.mask, channel[ch].mode}
        /\ CmodeEntry(c, ch, r).disabled = channel[ch].disabled
        /\ CmodeEntry(c, ch, r).user_count = channel[ch].user_count
    BY <1>1 DEF CmodeEntry, ChannelEntry
  <1>4. \A x \in Channels \ {ch} : channel'[x] = channel[x]
    BY DEF CMode, TypeOK
  <1> QED
    BY <1>2, <1>3, <1>4

-----------------------------------------------------------------------------
(***************************************************************************)
(* Each part of the invariant is kept by every kind of step.               *)
(***************************************************************************)

\* The user list and client->channels stay in agreement.
LEMMA CrossReferenceStep ==
    ASSUME TypeOK, CrossReference, Next
    PROVE  CrossReference'
  <1>1. CASE Removal
    <2>1. PICK c \in Clients, chs \in SUBSET Channels, un \in SUBSET Channels :
            /\ chs \subseteq client_channels[c]
            /\ RemoveFromChannels(c, chs, un)
            /\ \/ registered' = registered
               \/ registered' = registered \ {c} /\ chs = client_channels[c]
      BY <1>1 DEF Removal
    <2> SUFFICES ASSUME NEW ch \in Channels, NEW d \in Clients
                 PROVE  /\ d \in user_list'[ch] <=> ch \in client_channels'[d]
                        /\ d \in user_list'[ch] =>
                               d \in registered' /\ ch \in channels'
                        /\ d \notin user_list'[ch] => chl_mode'[ch][d] = {}
      BY DEF CrossReference
    <2>2. /\ user_list'[ch] = IF ch \in chs THEN user_list[ch] \ {c}
                              ELSE user_list[ch]
          /\ client_channels'[d] = IF d = c THEN client_channels[c] \ chs
                                   ELSE client_channels[d]
          /\ chl_mode'[ch][d] = IF ch \in chs /\ d = c THEN {}
                                ELSE chl_mode[ch][d]
          /\ channels' = channels \ Destroyed(c, chs)
      BY <2>1 DEF RemoveFromChannels, TypeOK
    <2>3. ch \in Destroyed(c, chs) => ch \in chs /\ user_list[ch] \ {c} = {}
      BY DEF Destroyed, Emptied
    <2>4. /\ d \in user_list[ch] <=> ch \in client_channels[d]
          /\ d \in user_list[ch] => d \in registered /\ ch \in channels
          /\ d \notin user_list[ch] => chl_mode[ch][d] = {}
      BY DEF CrossReference
    <2> QED
      BY <2>1, <2>2, <2>3, <2>4
  <1>2. CASE Joining
    <2>1. PICK c \in Clients, ch \in Channels,
                pass \in PassArgs, auth, cauth \in KeyArgs :
            Join(c, ch, pass, auth, cauth)
      BY <1>2 DEF Joining
    <2>2. PICK fs \in ReplacedFounder(ch, FounderAuth(c, ch, auth)) :
            chl_mode' = [chl_mode EXCEPT ![ch] =
                [Demoted(ch, fs) EXCEPT ![c] = JoinUMode(c, ch, auth)]]
      BY <2>1 DEF Join
    <2>3. \A x \in Channels, d \in Clients :
             x # ch \/ d # c => chl_mode'[x][d] \subseteq chl_mode[x][d]
      BY <2>2, DemotedType DEF TypeOK, Demoted
    <2>4. /\ channels' = channels \cup {ch}
          /\ user_list' = [user_list EXCEPT ![ch] = @ \cup {c}]
          /\ client_channels' = [client_channels EXCEPT ![c] = @ \cup {ch}]
          /\ registered' = registered
          /\ c \in registered
      BY <2>1 DEF Join, JoinAllowed
    <2> QED
      BY <2>3, <2>4 DEF CrossReference, TypeOK
  <1>3. CASE Refusing
    <2>1. PICK c \in Clients, ch \in Channels,
                pass \in PassArgs, auth, cauth \in KeyArgs :
            JoinRefused(c, ch, pass, auth, cauth)
      BY <1>3 DEF Refusing
    <2>2. \A x \in Channels, d \in Clients :
             chl_mode'[x][d] \subseteq chl_mode[x][d]
      BY <2>1, DemotedType DEF JoinRefused, TypeOK, Demoted
    <2> QED
      BY <2>1, <2>2 DEF JoinRefused, CrossReference
  <1>4. CASE CmodeStep
    BY <1>4 DEF CmodeStep, CMode, CrossReference
  <1>5. CASE CumodeStep
    <2>1. PICK c \in Clients, target \in Clients, ch \in Channels,
               mask \in SUBSET UModeBits, auth \in KeyArgs :
                  CUMode(c, ch, mask, target, auth)
      BY <1>5 DEF CumodeStep
    <2>2. PICK fs : chl_mode' = [chl_mode EXCEPT ![ch] =
                      [Demoted(ch, fs) EXCEPT ![target] =
                          CumodeResult(c, ch, mask, target, auth)]]
      BY <2>1 DEF CUMode
    <2>3. \A x \in Channels, d \in Clients :
             x # ch \/ d # target => chl_mode'[x][d] \subseteq chl_mode[x][d]
      BY <2>2, DemotedType DEF TypeOK, Demoted
    <2>4. target \in user_list[ch]
      BY <2>1 DEF CUMode, OnChannel, CrossReference
    <2> QED
      BY <2>1, <2>3, <2>4 DEF CUMode, CrossReference
  <1>6. CASE Passive
    BY <1>6 DEF Passive, CrossReference
  <1>7. CASE \E ch \in Channels : ChannelKeyRekey(ch)
    BY <1>7 DEF ChannelKeyRekey, CrossReference
  <1> QED
    BY <1>1, <1>2, <1>3, <1>4, <1>5, <1>6, <1>7, StepKinds

\* Only permanent channels stay when their last user leaves.
LEMMA EmptyIsPermanentStep ==
    ASSUME TypeOK, CrossReference, EmptyIsPermanent, Next
    PROVE  EmptyIsPermanent'
  <1>1. CASE Removal
    <2>1. PICK c \in Clients, chs \in SUBSET Channels, un \in SUBSET Channels :
            chs \subseteq client_channels[c] /\ RemoveFromChannels(c, chs, un)
      BY <1>1 DEF Removal
    <2> SUFFICES ASSUME NEW ch \in channels'
                 PROVE  /\ user_list'[ch] = {} <=> channel'[ch].disabled
                        /\ channel'[ch].disabled =>
                               "FOUNDER_AUTH" \in channel'[ch].mode
      BY DEF EmptyIsPermanent
    <2>2. ch \in channels /\ ch \notin Destroyed(c, chs) /\ ch \in Channels
      BY <2>1 DEF RemoveFromChannels, TypeOK
    <2>3. /\ user_list[ch] = {} <=> channel[ch].disabled
          /\ channel[ch].disabled => "FOUNDER_AUTH" \in channel[ch].mode
      BY <2>2 DEF EmptyIsPermanent
    <2>4. user_list'[ch] = IF ch \in chs THEN user_list[ch] \ {c}
                           ELSE user_list[ch]
      BY <2>1, <2>2 DEF RemoveFromChannels
    <2>5. CASE ch \in chs
      <3>1. /\ c \in user_list[ch]
            /\ channel'[ch].mode = channel[ch].mode
            /\ channel'[ch].disabled =
                   (channel[ch].disabled \/ ch \in Emptied(c, chs))
        BY <2>1, <2>2, <2>5, RemovalEffect
      <3>2. ch \in Emptied(c, chs) <=> user_list[ch] \ {c} = {}
        BY <2>5 DEF Emptied
      <3>3. ch \in Emptied(c, chs) => "FOUNDER_AUTH" \in channel[ch].mode
        BY <2>2 DEF Destroyed
      <3> QED
        BY <2>3, <2>4, <2>5, <3>1, <3>2, <3>3
    <2>6. CASE ch \notin chs
      BY <2>1, <2>2, <2>3, <2>4, <2>6, RemovalEffect
    <2> QED
      BY <2>5, <2>6
  <1>2. CASE Joining
    <2>1. PICK c \in Clients, ch \in Channels,
                pass \in PassArgs, auth, cauth \in KeyArgs :
            Join(c, ch, pass, auth, cauth)
      BY <1>2 DEF Joining
    <2>2. /\ channel'[ch].disabled = FALSE
          /\ \A x \in Channels \ {ch} : channel'[x] = channel[x]
      BY <2>1, JoinEffect
    <2>3. /\ channels' = channels \cup {ch}
          /\ user_list' = [user_list EXCEPT ![ch] = @ \cup {c}]
      BY <2>1 DEF Join
    <2> QED
      BY <2>2, <2>3 DEF EmptyIsPermanent, TypeOK
  <1>3. CASE Refusing
    BY <1>3 DEF Refusing, JoinRefused, EmptyIsPermanent
  <1>4. CASE CmodeStep
    <2>1. PICK c \in Clients, ch \in Channels, r \in CmodeRequests :
            CMode(c, ch, r)
      BY <1>4 DEF CmodeStep
    <2>2. /\ channel'[ch].disabled = channel[ch].disabled
          /\ \A x \in Channels \ {ch} : channel'[x] = channel[x]
      BY <2>1, CmodeEffect
    <2>3. c \in user_list[ch] /\ channels' = channels /\ user_list' = user_list
      BY <2>1 DEF CMode, OnChannel, CrossReference
    <2> QED
      BY <2>2, <2>3 DEF EmptyIsPermanent, TypeOK
  <1>5. CASE CumodeStep
    BY <1>5 DEF CumodeStep, CUMode, EmptyIsPermanent
  <1>6. CASE Passive
    BY <1>6 DEF Passive, EmptyIsPermanent, TypeOK
  <1>7. CASE \E ch \in Channels : ChannelKeyRekey(ch)
    BY <1>7 DEF ChannelKeyRekey, EmptyIsPermanent
  <1> QED
    BY <1>1, <1>2, <1>3, <1>4, <1>5, <1>6, <1>7, StepKinds

\* user_count follows the user list.
LEMMA UserCountStep ==
    ASSUME TypeOK, CrossReference, UserCountExact, Next
    PROVE  UserCountExact'
  <1>0. \A ch \in Channels : IsFiniteSet(user_list[ch])
    BY ClientsAssumption, FS_Subset DEF TypeOK
  <1>1. CASE Removal
    <2>1. PICK c \in Clients, chs \in SUBSET Channels, un \in SUBSET Channels :
            chs \subseteq client_channels[c] /\ RemoveFromChannels(c, chs, un)
      BY <1>1 DEF Removal
    <2> SUFFICES ASSUME NEW ch \in Channels
                 PROVE  channel'[ch].user_count = Cardinality(user_list'[ch])
      BY DEF UserCountExact
    <2>2. user_list'[ch] = IF ch \in chs THEN user_list[ch] \ {c}
                           ELSE user_list[ch]
      BY <2>1 DEF RemoveFromChannels
    <2>3. CASE ch \in Destroyed(c, chs)
      <3>1. channel'[ch] = NewEntry
        BY <2>1, <2>3, RemovalEffect
      <3>2. user_list'[ch] = {}
        BY <2>2, <2>3 DEF Destroyed, Emptied
      <3> QED
        BY <3>1, <3>2, FS_EmptySet DEF NewEntry
    <2>4. CASE ch \in chs \ Destroyed(c, chs)
      <3>1. /\ c \in user_list[ch]
            /\ channel'[ch].user_count = channel[ch].user_count - 1
        BY <2>1, <2>4, RemovalEffect
      <3>2. Cardinality(user_list[ch] \ {c}) = Cardinality(user_list[ch]) - 1
        BY <1>0, <3>1, FS_RemoveElement
      <3> QED
        BY <2>2, <2>4, <3>1, <3>2 DEF UserCountExact
    <2>5. CASE ch \notin chs
      <3>1. ch \notin Destroyed(c, chs)
        BY <2>5 DEF Destroyed, Emptied
      <3>2. channel'[ch] = channel[ch]
        BY <2>1, <2>5, <3>1, RemovalEffect
      <3> QED
        BY <2>2, <2>5, <3>2 DEF UserCountExact
    <2> QED
      BY <2>3, <2>4, <2>5
  <1>2. CASE Joining
    <2>1. PICK c \in Clients, ch \in Channels,
                pass \in PassArgs, auth, cauth \in KeyArgs :
            Join(c, ch, pass, auth, cauth)
      BY <1>2 DEF Joining
    <2>2. /\ c \notin user_list[ch]
          /\ channel'[ch].user_count = Entry(ch).user_count + 1
          /\ \A x \in Channels \ {ch} : channel'[x] = channel[x]
      BY <2>1, JoinEffect
    <2>3. user_list' = [user_list EXCEPT ![ch] = @ \cup {c}]
      BY <2>1 DEF Join
    <2>4. Cardinality(user_list[ch] \cup {c}) = Cardinality(user_list[ch]) + 1
      BY <1>0, <2>2, FS_AddElement
    <2>5. Entry(ch).user_count = Cardinality(user_list[ch])
      <3>1. CASE ch \in channels
        BY <3>1 DEF Entry, UserCountExact
      <3>2. CASE ch \notin channels
        <4>1. user_list[ch] = {}
          BY <3>2 DEF CrossReference, TypeOK
        <4> QED
          BY <3>2, <4>1, FS_EmptySet DEF Entry, NewEntry
      <3> QED
        BY <3>1, <3>2
    <2>6. user_list'[ch] = user_list[ch] \cup {c}
            /\ \A x \in Channels \ {ch} : user_list'[x] = user_list[x]
      BY <2>3 DEF TypeOK
    <2> QED
      BY <2>2, <2>4, <2>5, <2>6 DEF UserCountExact
  <1>3. CASE Refusing
    BY <1>3 DEF Refusing, JoinRefused, UserCountExact
  <1>4. CASE CmodeStep
    <2>1. PICK c \in Clients, ch \in Channels, r \in CmodeRequests :
            CMode(c, ch, r)
      BY <1>4 DEF CmodeStep
    <2>2. \A x \in Channels : channel'[x].user_count = channel[x].user_count
      BY <2>1, CmodeEffect
    <2> QED
      BY <2>1, <2>2 DEF CMode, UserCountExact
  <1>5. CASE CumodeStep
    BY <1>5 DEF CumodeStep, CUMode, UserCountExact
  <1>6. CASE Passive
    BY <1>6 DEF Passive, UserCountExact
  <1>7. CASE \E ch \in Channels : ChannelKeyRekey(ch)
    BY <1>7 DEF ChannelKeyRekey, UserCountExact
  <1> QED
    BY <1>1, <1>2, <1>3, <1>4, <1>5, <1>6, <1>7, StepKinds

\* The members, and nobody else, hold the key.
LEMMA KeyAgreementStep ==
    ASSUME TypeOK, CrossReference, KeyAgreement, Next
    PROVE  KeyAgreement'
  <1>1. CASE Removal
    <2>1. PICK c \in Clients, chs \in SUBSET Channels, un \in SUBSET Channels :
            chs \subseteq client_channels[c] /\ RemoveFromChannels(c, chs, un)
      BY <1>1 DEF Removal
    <2> SUFFICES ASSUME NEW ch \in channels',
                        "PRIVKEY" \notin channel'[ch].mode,
                        user_list'[ch] # {}
                 PROVE  key_holders'[ch] = user_list'[ch]
      BY DEF KeyAgreement
    <2>2. ch \in channels /\ ch \notin Destroyed(c, chs) /\ ch \in Channels
      BY <2>1 DEF RemoveFromChannels, TypeOK
    <2>3. channel'[ch].mode = channel[ch].mode
      BY <2>1, <2>2, RemovalEffect
    <2>4. /\ user_list'[ch] = IF ch \in chs THEN user_list[ch] \ {c}
                              ELSE user_list[ch]
          /\ key_holders'[ch] = IF ch \in Rekeyed(c, chs)
                                THEN user_list[ch] \ {c} ELSE key_holders[ch]
      BY <2>1, <2>2 DEF RemoveFromChannels
    <2>5. ch \in chs => ch \in Rekeyed(c, chs)
      BY <2>3, <2>4 DEF Rekeyed, Emptied
    <2>6. ch \notin chs => ch \notin Rekeyed(c, chs)
      BY DEF Rekeyed
    <2> QED
      BY <2>2, <2>3, <2>4, <2>5, <2>6 DEF KeyAgreement
  <1>2. CASE Joining
    <2>1. PICK c \in Clients, ch \in Channels,
                pass \in PassArgs, auth, cauth \in KeyArgs :
            Join(c, ch, pass, auth, cauth)
      BY <1>2 DEF Joining
    <2>2. /\ channel'[ch].mode = Entry(ch).mode
          /\ \A x \in Channels \ {ch} : channel'[x] = channel[x]
      BY <2>1, JoinEffect
    <2>3. /\ channels' = channels \cup {ch}
          /\ user_list' = [user_list EXCEPT ![ch] = @ \cup {c}]
          /\ key_holders' = [key_holders EXCEPT ![ch] =
                 IF "PRIVKEY" \notin Entry(ch).mode THEN user_list[ch] \cup {c}
                 ELSE @]
      BY <2>1 DEF Join
    <2> QED
      BY <2>2, <2>3 DEF KeyAgreement, TypeOK
  <1>3. CASE Refusing
    BY <1>3 DEF Refusing, JoinRefused, KeyAgreement
  <1>4. CASE CmodeStep
    <2>1. PICK c \in Clients, ch \in Channels, r \in CmodeRequests :
            CMode(c, ch, r)
      BY <1>4 DEF CmodeStep
    <2>2. /\ channel'[ch].mode \in {r.mask, channel[ch].mode}
          /\ \A x \in Channels \ {ch} : channel'[x] = channel[x]
      BY <2>1, CmodeEffect
    <2>3. /\ channels' = channels /\ user_list' = user_list
          /\ key_holders' = [key_holders EXCEPT ![ch] =
                 IF NewKey(c, ch, r) THEN user_list[ch]
                 ELSE IF NewCipher(c, ch, r) THEN @ \cup user_list[ch] ELSE @]
      BY <2>1 DEF CMode
    <2>4. "PRIVKEY" \in channel[ch].mode /\ "PRIVKEY" \notin channel'[ch].mode
              => NewKey(c, ch, r)
      BY <2>2 DEF NewKey
    <2> QED
      BY <2>2, <2>3, <2>4 DEF KeyAgreement, TypeOK
  <1>5. CASE CumodeStep
    BY <1>5 DEF CumodeStep, CUMode, KeyAgreement
  <1>6. CASE Passive
    BY <1>6 DEF Passive, KeyAgreement, TypeOK
  <1>7. CASE \E ch \in Channels : ChannelKeyRekey(ch)
    BY <1>7 DEF ChannelKeyRekey, KeyAgreement, TypeOK
  <1> QED
    BY <1>1, <1>2, <1>3, <1>4, <1>5, <1>6, <1>7, StepKinds

\* A key that the server made has its re-key timeout on a router.
LEMMA RekeyPendingStep ==
    ASSUME TypeOK, CrossReference, RekeyPending, Next
    PROVE  RekeyPending'
  <1>1. CASE Removal
    <2>1. PICK c \in Clients, chs \in SUBSET Channels, un \in SUBSET Channels :
            chs \subseteq client_channels[c] /\ RemoveFromChannels(c, chs, un)
      BY <1>1 DEF Removal
    <2>2. /\ chs \subseteq channels
          /\ \A ch \in Channels \ Destroyed(c, chs) :
                channel'[ch].mode = channel[ch].mode
      BY <2>1, RemovalEffect
    <2>3. /\ channels' = channels \ Destroyed(c, chs)
          /\ rekey_task' = RekeyScheduled(Rekeyed(c, chs)) \ Destroyed(c, chs)
      BY <2>1 DEF RemoveFromChannels
    <2>4. Rekeyed(c, chs) \subseteq chs
      BY DEF Rekeyed
    <2> QED
      BY <2>2, <2>3, <2>4 DEF RekeyPending, RekeyScheduled, TypeOK
  <1>2. CASE Joining
    <2>1. PICK c \in Clients, ch \in Channels,
                pass \in PassArgs, auth, cauth \in KeyArgs :
            Join(c, ch, pass, auth, cauth)
      BY <1>2 DEF Joining
    <2>2. /\ channel'[ch].mode = Entry(ch).mode
          /\ \A x \in Channels \ {ch} : channel'[x] = channel[x]
      BY <2>1, JoinEffect
    <2>3. /\ channels' = channels \cup {ch}
          /\ rekey_task' = IF "PRIVKEY" \notin Entry(ch).mode
                           THEN RekeyScheduled({ch}) ELSE rekey_task
      BY <2>1 DEF Join
    <2> QED
      BY <2>2, <2>3 DEF RekeyPending, RekeyScheduled, TypeOK
  <1>3. CASE Refusing
    BY <1>3 DEF Refusing, JoinRefused, RekeyPending
  <1>4. CASE CmodeStep
    <2>1. PICK c \in Clients, ch \in Channels, r \in CmodeRequests :
            CMode(c, ch, r)
      BY <1>4 DEF CmodeStep
    <2>2. /\ channel'[ch].mode \in {r.mask, channel[ch].mode}
          /\ \A x \in Channels \ {ch} : channel'[x] = channel[x]
      BY <2>1, CmodeEffect
    <2>3. /\ ch \in channels /\ channels' = channels
          /\ rekey_task' = IF NewKey(c, ch, r) THEN RekeyScheduled({ch})
                           ELSE rekey_task
      BY <2>1 DEF CMode
    <2>4. "PRIVKEY" \in channel[ch].mode /\ "PRIVKEY" \notin channel'[ch].mode
              => NewKey(c, ch, r)
      BY <2>2 DEF NewKey
    <2> QED
      BY <2>2, <2>3, <2>4 DEF RekeyPending, RekeyScheduled, TypeOK
  <1>5. CASE CumodeStep
    BY <1>5 DEF CumodeStep, CUMode, RekeyPending
  <1>6. CASE Passive
    BY <1>6 DEF Passive, RekeyPending, TypeOK
  <1>7. CASE \E ch \in Channels : ChannelKeyRekey(ch)
    BY <1>7 DEF ChannelKeyRekey, RekeyPending, TypeOK
  <1> QED
    BY <1>1, <1>2, <1>3, <1>4, <1>5, <1>6, <1>7, StepKinds

\* When somebody authenticates as founder, the founder there was is among the
\* clients that lose the rights: it is the only one.
LEMMA FounderReplaced ==
    ASSUME NEW ch \in Channels, NEW fs \in ReplacedFounder(ch, TRUE),
           \A c, d \in Founders(ch) : c = d
    PROVE  Founders(ch) \subseteq fs
  BY DEF ReplacedFounder

\* A router's channel has no second founder.
LEMMA SoleFounderStep ==
    ASSUME TypeOK, CrossReference, EmptyIsPermanent, SoleFounder, Next
    PROVE  SoleFounder'
  <1> SUFFICES ASSUME ServerType = "router", NEW ch \in Channels
               PROVE  \A c, d \in Founders(ch)' : c = d
    BY DEF SoleFounder
  <1>0. \A c, d \in Founders(ch) : c = d
    BY DEF SoleFounder
  <1>a. Founders(ch)' = {c \in user_list'[ch] : "CHANFO" \in chl_mode'[ch][c]}
    BY DEF Founders, HasMode
  <1>b. Founders(ch) = {c \in user_list[ch] : "CHANFO" \in chl_mode[ch][c]}
    BY DEF Founders, HasMode
  <1>1. CASE Removal
    <2>1. PICK c \in Clients, chs \in SUBSET Channels, un \in SUBSET Channels :
            RemoveFromChannels(c, chs, un)
      BY <1>1 DEF Removal
    <2>2. /\ user_list'[ch] \subseteq user_list[ch]
          /\ \A d \in Clients : chl_mode'[ch][d] \subseteq chl_mode[ch][d]
      BY <2>1 DEF RemoveFromChannels, TypeOK
    <2> QED
      BY <1>0, <1>a, <1>b, <2>2 DEF TypeOK
  <1>2. CASE Joining
    <2>1. PICK c \in Clients, x \in Channels,
                pass \in PassArgs, auth, cauth \in KeyArgs :
            Join(c, x, pass, auth, cauth)
      BY <1>2 DEF Joining
    <2>2. PICK fs \in ReplacedFounder(x, FounderAuth(c, x, auth)) :
            chl_mode' = [chl_mode EXCEPT ![x] =
                [Demoted(x, fs) EXCEPT ![c] = JoinUMode(c, x, auth)]]
      BY <2>1 DEF Join
    <2>3. user_list' = [user_list EXCEPT ![x] = @ \cup {c}]
      BY <2>1 DEF Join
    <2>4. c \notin user_list[x]
      BY <2>1, JoinEffect
    <2>5. CASE x # ch
      BY <1>0, <1>a, <1>b, <2>2, <2>3, <2>5 DEF TypeOK
    <2>6. CASE x = ch
      <3>1. /\ user_list'[ch] = user_list[ch] \cup {c}
            /\ chl_mode'[ch] = [Demoted(ch, fs) EXCEPT
                                   ![c] = JoinUMode(c, ch, auth)]
        BY <2>2, <2>3, <2>6 DEF TypeOK
      <3>2. \A d \in user_list[ch] :
               /\ d \in fs => "CHANFO" \notin chl_mode'[ch][d]
               /\ chl_mode'[ch][d] \subseteq chl_mode[ch][d]
        BY <2>4, <2>6, <3>1, DemotedType DEF Demoted, TypeOK
      <3>3. CASE FounderAuth(c, ch, auth)
        <4>1. Founders(ch) \subseteq fs
          BY <1>0, <2>2, <2>6, <3>3, FounderReplaced
        <4> QED
          BY <1>a, <1>b, <3>1, <3>2, <4>1
      <3>4. CASE ~FounderAuth(c, ch, auth) /\ user_list[ch] = {}
        BY <1>a, <3>1, <3>4
      <3>5. CASE ~FounderAuth(c, ch, auth) /\ user_list[ch] # {}
        <4>1. ch \in channels
          BY <3>5 DEF CrossReference, TypeOK
        <4>2. JoinUMode(c, ch, auth) = {}
          BY <3>5, <4>1 DEF JoinUMode
        <4>3. chl_mode'[ch][c] = {}
          BY <3>1, <4>2, DemotedType
        <4> QED
          BY <1>0, <1>a, <1>b, <3>1, <3>2, <4>3
      <3> QED
        BY <3>3, <3>4, <3>5
    <2> QED
      BY <2>5, <2>6
  <1>3. CASE Refusing
    <2>1. PICK c \in Clients, x \in Channels,
                pass \in PassArgs, auth, cauth \in KeyArgs :
            JoinRefused(c, x, pass, auth, cauth)
      BY <1>3 DEF Refusing
    <2>2. \A d \in Clients : chl_mode'[ch][d] \subseteq chl_mode[ch][d]
      BY <2>1, DemotedType DEF JoinRefused, TypeOK, Demoted
    <2> QED
      BY <1>0, <1>a, <1>b, <2>1, <2>2 DEF JoinRefused, TypeOK
  <1>4. CASE CmodeStep
    BY <1>0, <1>4, <1>a, <1>b DEF CmodeStep, CMode
  <1>5. CASE CumodeStep
    <2>1. PICK c \in Clients, target \in Clients, x \in Channels,
               mask \in SUBSET UModeBits, auth \in KeyArgs :
                  CUMode(c, x, mask, target, auth)
      BY <1>5 DEF CumodeStep
    <2> DEFINE claims == ClaimsFounder(c, x, mask, target, auth)
               result == CumodeResult(c, x, mask, target, auth)
    <2>2. PICK fs \in ReplacedFounder(x, ServerType = "router" /\ claims) :
            chl_mode' = [chl_mode EXCEPT ![x] =
                [Demoted(x, fs) EXCEPT ![target] = result]]
      BY <2>1 DEF CUMode
    <2>3. user_list' = user_list
      BY <2>1 DEF CUMode
    <2>4. "CHANFO" \in result => claims \/ "CHANFO" \in chl_mode[x][target]
      <3>1. CumodeStage["CHANFO"] <= CumodeStage["CHANFO"]
        BY DEF CumodeStage
      <3>2. "CHANFO" \in UModeBits
        BY ModesAssumption
      <3>3. CumodeDone(c, x, mask, target, auth, "CHANFO") =>
                ~CumodeFails(c, x, mask, target, auth, "CHANFO")
        BY <3>1, <3>2 DEF CumodeDone
      <3> QED
        BY <3>2, <3>3 DEF CumodeResult, CumodeFails, HasMode
    <2>5. CASE x # ch
      BY <1>0, <1>a, <1>b, <2>2, <2>3, <2>5 DEF TypeOK
    <2>6. CASE x = ch
      <3>1. chl_mode'[ch] = [Demoted(ch, fs) EXCEPT ![target] = result]
        BY <2>2, <2>6 DEF TypeOK
      <3> HIDE DEF result, claims
      <3>2. \A d \in user_list[ch] : d # target =>
               /\ d \in fs => "CHANFO" \notin chl_mode'[ch][d]
               /\ chl_mode'[ch][d] \subseteq chl_mode[ch][d]
        BY <3>1, DemotedType DEF Demoted, TypeOK
      <3>3. target \in user_list[ch] /\ chl_mode'[ch][target] = result
        <4>1. target \in user_list[ch]
          BY <2>1, <2>6 DEF CUMode, OnChannel, CrossReference
        <4> QED
          BY <3>1, <4>1, DemotedType
      <3>4. CASE claims
        <4>1. fs \in ReplacedFounder(ch, TRUE)
          BY <2>2, <2>6, <3>4 DEF ReplacedFounder
        <4>2. Founders(ch) \subseteq fs
          BY <1>0, <4>1, FounderReplaced
        <4> QED
          BY <1>a, <1>b, <2>3, <3>2, <4>2
      <3>5. CASE ~claims
        BY <1>0, <1>a, <1>b, <2>3, <2>4, <2>6, <3>2, <3>3, <3>5
      <3> QED
        BY <3>4, <3>5
    <2> QED
      BY <2>5, <2>6
  <1>6. CASE Passive
    BY <1>0, <1>6, <1>a, <1>b DEF Passive
  <1>7. CASE \E x \in Channels : ChannelKeyRekey(x)
    BY <1>0, <1>7, <1>a, <1>b DEF ChannelKeyRekey
  <1> QED
    BY <1>1, <1>2, <1>3, <1>4, <1>5, <1>6, <1>7, StepKinds

-----------------------------------------------------------------------------
(***************************************************************************)
(* The statistics.  The counters wrap, so they are compared modulo their   *)
(* width; what a removal subtracts on a router depends on user_count.      *)
(***************************************************************************)

\* What % leaves out is a multiple of the modulus.
LEMMA ModQuotient ==
    ASSUME NEW M \in Int, M > 0, NEW b \in Int
    PROVE  \E q \in Int : b % M = b - M * q
  <1>1. b % M = b - M * (b \div M)
    BY SMTT(20)
  <1>2. b \div M \in Int
    BY SMT
  <1> QED
    BY <1>1, <1>2

\* A remainder is determined by that.
LEMMA ModUnique ==
    ASSUME NEW M \in Int, M > 0, NEW q \in Int, NEW r \in 0..(M - 1)
    PROVE  (M * q + r) % M = r
  BY SMT

\* Adding to a counter that has wrapped is adding to the number it counts.
LEMMA ModStep ==
    ASSUME NEW M \in Int, M > 0, NEW b \in Int, NEW n \in Int
    PROVE  ((b % M) + n) % M = (b + n) % M
  <1>1. PICK p \in Int : b % M = b - M * p
    BY ModQuotient
  <1>2. PICK q \in Int : (b + n) % M = (b + n) - M * q
    BY ModQuotient
  <1>3. (b + n) % M \in 0..(M - 1) /\ b % M \in Int
    BY SMT
  <1>4. (b % M) + n = M * (q - p) + ((b + n) % M)
    BY <1>1, <1>2, <1>3
  <1> QED
    BY <1>3, <1>4, ModUnique

\* A counter that is exact stays exact when both sides change alike.
LEMMA CountModulo ==
    \A b, n \in Int :
        ((b % StatModulus) + n) % StatModulus = (b + n) % StatModulus
  <1>1. StatModulus \in Int /\ StatModulus > 0
    BY NumbersAssumption
  <1> QED
    BY <1>1, ModStep

\* The counters that are not named are as they were.
LEMMA CountKeeps ==
    ASSUME NEW st, NEW names, NEW s \in StatNames, s \notin names, NEW n
    PROVE  Count(st, names, n)[s] = st[s]
  BY DEF Count

\* A set of channels has as many memberships of one client as channels.
LEMMA ClientMemberships ==
    ASSUME NEW c, NEW chs \in SUBSET Channels
    PROVE  /\ IsFiniteSet(chs \X {c})
           /\ Cardinality(chs \X {c}) = Cardinality(chs)
  <1>1. IsFiniteSet(chs) /\ Cardinality(chs) \in Nat
    BY ChannelsFinite
  <1>2. IsFiniteSet({c}) /\ Cardinality({c}) = 1
    BY FS_Singleton
  <1>3. /\ IsFiniteSet(chs \X {c})
        /\ Cardinality(chs \X {c}) = Cardinality(chs) * Cardinality({c})
    BY <1>1, <1>2, FS_Product
  <1> QED
    BY <1>1, <1>2, <1>3

\* There are finitely many memberships.
LEMMA MembershipsFinite ==
    IsFiniteSet(Memberships) /\ Cardinality(Memberships) \in Nat
  <1>1. IsFiniteSet(Channels \X Clients)
    BY ClientsAssumption, FS_Product
  <1>2. Memberships \in SUBSET (Channels \X Clients)
    BY DEF Memberships
  <1> QED
    BY <1>1, <1>2, FS_Subset, FS_CardinalityType

\* user_count is one on every channel that is destroyed, so that what a router
\* subtracts is the number of these channels.
LEMMA UsersOfDestroyed ==
    ASSUME TypeOK, CrossReference, UserCountExact, NEW c \in Clients,
           NEW chs \in SUBSET Channels, chs \subseteq client_channels[c]
    PROVE  UsersCounted(Destroyed(c, chs)) = Cardinality(Destroyed(c, chs))
  <1> DEFINE gone == Destroyed(c, chs)
             N == Cardinality(Clients)
  <1>1. gone \in SUBSET Channels /\ gone \subseteq chs
    BY DEF Destroyed, Emptied
  <1>2. \A ch \in gone : user_list[ch] = {c}
    BY <1>1 DEF Destroyed, Emptied, CrossReference
  <1>3. \A ch \in gone : channel[ch].user_count = 1
    BY <1>1, <1>2, FS_Singleton DEF UserCountExact
  <1>4. N \in Nat /\ N >= 1
    BY ClientsAssumption, FS_CardinalityType, FS_EmptySet
  <1> HIDE DEF gone, N
  <1>5. {p \in gone \X (1..N) : p[2] <= channel[p[1]].user_count} = gone \X {1}
    <2>1. ASSUME NEW p \in gone \X (1..N)
          PROVE  p[2] <= channel[p[1]].user_count <=> p[2] = 1
      BY <1>3, <1>4
    <2>2. 1 \in 1..N
      BY <1>4
    <2> QED
      BY <2>1, <2>2
  <1>6. UsersCounted(gone) = Cardinality(gone \X {1})
    BY <1>5 DEF UsersCounted, N
  <1> QED
    BY <1>1, <1>6, ClientMemberships DEF gone

\* The counters follow the channels and the memberships.
LEMMA StatStep ==
    ASSUME TypeOK, CrossReference, UserCountExact, StatExact, Next
    PROVE  StatExact'
  <1> DEFINE X == IF ServerType = "router" THEN "chanclients"
                  ELSE "my_chanclients"
             m == Cardinality(Memberships)
             k == Cardinality(channels)
  <1>0. /\ X \in StatNames /\ X \in ChanclientStats /\ X # "my_channels"
        /\ "my_channels" \in StatNames /\ "my_channels" \notin ChanclientStats
    BY DEF StatNames, ChanclientStats
  <1>a. m \in Nat /\ IsFiniteSet(Memberships) /\ k \in Nat /\ IsFiniteSet(channels)
    BY MembershipsFinite, ChannelsFinite DEF TypeOK
  <1>b. stat[X] = m % StatModulus /\ stat["my_channels"] = k % StatModulus
    BY DEF StatExact
  <1>c. stat \in [StatNames -> 0..(StatModulus - 1)]
    BY DEF TypeOK
  <1>d. SUFFICES /\ stat'[X] = Cardinality(Memberships') % StatModulus
                 /\ stat'["my_channels"] = Cardinality(channels') % StatModulus
    BY DEF StatExact
  <1> HIDE DEF X
  <1>1. CASE Removal
    <2>1. PICK c \in Clients, chs \in SUBSET Channels, un \in SUBSET Channels :
            chs \subseteq client_channels[c] /\ RemoveFromChannels(c, chs, un)
      BY <1>1 DEF Removal
    <2> DEFINE gone == Destroyed(c, chs)
               g == Cardinality(gone)
               n == Cardinality(chs)
               left == IF ServerType = "router" THEN chs \ gone ELSE chs
               l == Cardinality(left)
               st1 == Count(stat, ChanclientStats, -l)
               st2 == IF ServerType = "router"
                      THEN Count(st1, {"chanclients"}, -UsersCounted(gone))
                      ELSE st1
    <2>2. /\ gone \in SUBSET Channels /\ gone \subseteq chs
          /\ left \in SUBSET Channels /\ chs \subseteq channels
          /\ \A ch \in chs : c \in user_list[ch]
      BY <2>1, RemovalEffect DEF Destroyed, Emptied
    <2>3. /\ g \in Nat /\ n \in Nat /\ l \in Nat
          /\ IsFiniteSet(gone) /\ IsFiniteSet(chs)
      BY <2>2, ChannelsFinite
    <2>4. l = IF ServerType = "router" THEN n - g ELSE n
      <3>1. Cardinality(chs \ gone) = n - g
        <4>1. chs \cap gone = gone
          BY <2>2
        <4>2. Cardinality(chs \ gone) = Cardinality(chs) - Cardinality(chs \cap gone)
          BY <2>3, FS_Difference
        <4> QED
          BY <4>1, <4>2
      <3> QED
        BY <3>1
    <2>5. Cardinality(channels') = k - g
      <3>1. channels' = channels \ gone /\ channels \cap gone = gone
        BY <2>1, <2>2 DEF RemoveFromChannels
      <3>2. Cardinality(channels \ gone) = k - Cardinality(channels \cap gone)
        BY <1>a, FS_Difference
      <3> QED
        BY <3>1, <3>2
    <2>6. Cardinality(Memberships') = m - n
      <3>1. user_list' = [ch \in Channels |->
                            IF ch \in chs THEN user_list[ch] \ {c}
                            ELSE user_list[ch]]
        BY <2>1 DEF RemoveFromChannels
      <3>2. Memberships' = Memberships \ (chs \X {c})
        BY <3>1 DEF Memberships
      <3>3. Memberships \cap (chs \X {c}) = chs \X {c}
        BY <2>2 DEF Memberships
      <3>4. Cardinality(Memberships \ (chs \X {c}))
              = m - Cardinality(Memberships \cap (chs \X {c}))
        BY <1>a, FS_Difference
      <3>5. Cardinality(chs \X {c}) = n
        BY ClientMemberships
      <3> QED
        BY <3>2, <3>3, <3>4, <3>5
    <2>7. UsersCounted(gone) = g
      BY <2>1, UsersOfDestroyed
    <2>8. stat' = Count(st2, {"my_channels"}, -g)
      BY <2>1 DEF RemoveFromChannels, RemovalStat
    <2> HIDE DEF gone, g, n, l, left, m, k
    <2>9. /\ st1 \in [StatNames -> 0..(StatModulus - 1)]
          /\ st1[X] = (m - l) % StatModulus
          /\ st1["my_channels"] = k % StatModulus
      <3>1. -l \in Int /\ m + (-l) = m - l
        BY <1>a, <2>3
      <3>2. st1 \in [StatNames -> 0..(StatModulus - 1)]
        BY <1>c, <3>1, CountType
      <3>3. st1[X] = (m + (-l)) % StatModulus
        BY <1>0, <1>a, <1>b, <3>1, CountModulo DEF Count
      <3>4. st1["my_channels"] = k % StatModulus
        BY <1>0, <1>a, <1>b, <1>c, <3>1, CountKeeps
      <3> QED
        BY <3>1, <3>2, <3>3, <3>4
    <2> HIDE DEF st1
    <2>10. /\ st2 \in [StatNames -> 0..(StatModulus - 1)]
           /\ st2[X] = (m - n) % StatModulus
           /\ st2["my_channels"] = k % StatModulus
      <3>1. CASE ServerType = "router"
        <4>1. m - l \in Int /\ -g \in Int /\ (m - l) + (-g) = m - n
          BY <1>a, <2>3, <2>4, <3>1
        <4>2. st2 = Count(st1, {"chanclients"}, -g) /\ X = "chanclients"
          BY <2>7, <3>1 DEF X
        <4>3. Count(st1, {"chanclients"}, -g)
                \in [StatNames -> 0..(StatModulus - 1)]
          BY <2>9, <4>1, CountType
        <4>4. Count(st1, {"chanclients"}, -g)[X] = ((m - l) + (-g)) % StatModulus
          <5>1. X \in {"chanclients"}
            BY <4>2
          <5> QED
            BY <1>0, <2>9, <4>1, <5>1, CountModulo DEF Count
        <4>5. Count(st1, {"chanclients"}, -g)["my_channels"] = k % StatModulus
          <5>1. "my_channels" \notin {"chanclients"}
            OBVIOUS
          <5>2. Count(st1, {"chanclients"}, -g)["my_channels"]
                  = st1["my_channels"]
            BY <1>0, <5>1, CountKeeps, Zenon
          <5> QED
            BY <2>9, <5>2
        <4> QED
          BY <4>1, <4>2, <4>3, <4>4, <4>5
      <3>2. CASE ServerType # "router"
        BY <2>4, <2>9, <3>2
      <3> QED
        BY <3>1, <3>2
    <2> HIDE DEF st2
    <2>11. stat'[X] = (m - n) % StatModulus /\ stat'["my_channels"] = (k - g) % StatModulus
      <3>1. -g \in Int /\ k + (-g) = k - g /\ m - n \in Int
        BY <1>a, <2>3
      <3>2. stat'[X] = (m - n) % StatModulus
        BY <1>0, <2>8, <2>10, <3>1, CountKeeps
      <3>3. stat'["my_channels"] = (k + (-g)) % StatModulus
        <4>1. k \in Int /\ "my_channels" \in {"my_channels"}
          BY <1>a
        <4>2. Count(st2, {"my_channels"}, -g)["my_channels"]
                = (k + (-g)) % StatModulus
          BY <1>0, <2>10, <3>1, <4>1, CountModulo DEF Count
        <4> QED
          BY <2>8, <4>2
      <3> QED
        BY <3>1, <3>2, <3>3
    <2> QED
      BY <2>5, <2>6, <2>11
  <1>2. CASE Joining
    <2>1. PICK c \in Clients, ch \in Channels,
                pass \in PassArgs, auth, cauth \in KeyArgs :
            Join(c, ch, pass, auth, cauth)
      BY <1>2 DEF Joining
    <2> DEFINE st1 == IF ch \in channels THEN stat
                      ELSE Count(stat, {"my_channels"}, 1)
    <2>2. c \notin user_list[ch]
      BY <2>1, JoinEffect
    <2>3. /\ channels' = channels \cup {ch}
          /\ user_list' = [user_list EXCEPT ![ch] = @ \cup {c}]
          /\ stat' = Count(st1, ChanclientStats, 1)
      BY <2>1 DEF Join
    <2>4. Cardinality(channels') = IF ch \in channels THEN k ELSE k + 1
      BY <1>a, <2>3, FS_AddElement
    <2>5. Cardinality(Memberships') = m + 1
      <3>1. Memberships' = Memberships \cup {<<ch, c>>}
        BY <2>3 DEF Memberships, TypeOK
      <3>2. <<ch, c>> \notin Memberships
        BY <2>2 DEF Memberships
      <3> QED
        BY <1>a, <3>1, <3>2, FS_AddElement
    <2> HIDE DEF m, k
    <2>6. /\ st1 \in [StatNames -> 0..(StatModulus - 1)]
          /\ st1[X] = m % StatModulus
          /\ st1["my_channels"] = (IF ch \in channels THEN k ELSE k + 1) % StatModulus
      <3>1. CASE ch \in channels
        BY <1>b, <1>c, <3>1
      <3>2. CASE ch \notin channels
        <4>1. st1 = Count(stat, {"my_channels"}, 1)
          BY <3>2
        <4>2. st1 \in [StatNames -> 0..(StatModulus - 1)]
          BY <1>c, <4>1, CountType
        <4>3. st1[X] = m % StatModulus
          <5>1. X \notin {"my_channels"}
            BY <1>0
          <5>2. Count(stat, {"my_channels"}, 1)[X] = stat[X]
            BY <1>0, <5>1, CountKeeps, Zenon
          <5> QED
            BY <1>b, <4>1, <5>2
        <4>4. st1["my_channels"] = (k + 1) % StatModulus
          <5>1. k \in Int /\ 1 \in Int /\ "my_channels" \in {"my_channels"}
            BY <1>a
          <5> QED
            BY <1>0, <1>b, <4>1, <5>1, CountModulo DEF Count
        <4> QED
          BY <3>2, <4>2, <4>3, <4>4
      <3> QED
        BY <3>1, <3>2
    <2> HIDE DEF st1
    <2> DEFINE kk == IF ch \in channels THEN k ELSE k + 1
    <2>7. kk \in Int
      BY <1>a
    <2>8. st1["my_channels"] = kk % StatModulus /\ Cardinality(channels') = kk
      BY <2>4, <2>6
    <2> HIDE DEF kk
    <2>9. stat'[X] = (m + 1) % StatModulus
      <3>1. m \in Int /\ 1 \in Int
        BY <1>a
      <3> QED
        BY <1>0, <2>3, <2>6, <3>1, CountModulo DEF Count
    <2>10. stat'["my_channels"] = kk % StatModulus
      BY <1>0, <2>3, <2>6, <2>7, <2>8, CountKeeps
    <2> QED
      BY <2>5, <2>8, <2>9, <2>10
  <1>3. CASE UNCHANGED <<channels, user_list, stat>>
    BY <1>b, <1>3 DEF Memberships
  <1>4. Refusing => UNCHANGED <<channels, user_list, stat>>
    BY DEF Refusing, JoinRefused
  <1>5. CmodeStep \/ CumodeStep => UNCHANGED <<channels, user_list, stat>>
    <2>1. CmodeStep => UNCHANGED <<channels, user_list, stat>>
      BY DEF CmodeStep, CMode
    <2>2. CumodeStep => UNCHANGED <<channels, user_list, stat>>
      BY DEF CumodeStep, CUMode
    <2> QED
      BY <2>1, <2>2
  <1>6. Passive \/ (\E ch \in Channels : ChannelKeyRekey(ch))
          => UNCHANGED <<channels, user_list, stat>>
    BY DEF Passive, ChannelKeyRekey
  <1> QED
    BY <1>1, <1>2, <1>3, <1>4, <1>5, <1>6, StepKinds

-----------------------------------------------------------------------------
(***************************************************************************)
(* The theorems.                                                           *)
(***************************************************************************)

\* ChannelInv holds initially and every step keeps it.
THEOREM Invariance == Spec => []ChannelInv
  <1>1. Init => ChannelInv
    <2> SUFFICES ASSUME Init PROVE ChannelInv
      OBVIOUS
    <2>1. TypeOK
      BY NumbersAssumption DEF Init, TypeOK, NewEntry, ChannelEntry
    <2>2. CrossReference /\ EmptyIsPermanent /\ KeyAgreement /\ RekeyPending
      BY DEF Init, CrossReference, EmptyIsPermanent, KeyAgreement, RekeyPending
    <2>3. UserCountExact
      BY FS_EmptySet DEF Init, UserCountExact, NewEntry
    <2>4. SoleFounder
      BY DEF Init, SoleFounder, Founders
    <2>5. StatExact
      <3>1. Cardinality(channels) = 0 /\ Cardinality(Memberships) = 0
        BY FS_EmptySet DEF Init, Memberships
      <3>2. 0 % StatModulus = 0
        BY NumbersAssumption
      <3> QED
        BY <3>1, <3>2 DEF Init, StatExact, StatNames
    <2> QED
      BY <2>1, <2>2, <2>3, <2>4, <2>5 DEF ChannelInv
  <1>2. ChannelInv /\ [Next]_vars => ChannelInv'
    <2>1. ASSUME ChannelInv, Next PROVE ChannelInv'
      BY <2>1, TypeStep, CrossReferenceStep, EmptyIsPermanentStep,
         UserCountStep, KeyAgreementStep, RekeyPendingStep, SoleFounderStep,
         StatStep
      DEF ChannelInv
    <2>2. ASSUME ChannelInv, UNCHANGED vars PROVE ChannelInv'
      <3>1. TypeOK' /\ CrossReference'
        BY <2>2 DEF ChannelInv, vars, TypeOK, CrossReference
      <3>2. EmptyIsPermanent' /\ UserCountExact' /\ KeyAgreement'
        BY <2>2 DEF ChannelInv, vars, EmptyIsPermanent, UserCountExact,
                    KeyAgreement
      <3>3. RekeyPending' /\ SoleFounder'
        BY <2>2 DEF ChannelInv, vars, RekeyPending, SoleFounder, Founders,
                    HasMode
      <3>4. StatExact'
        BY <2>2 DEF ChannelInv, vars, StatExact, Memberships
      <3> QED
        BY <3>1, <3>2, <3>3, <3>4 DEF ChannelInv
    <2> QED
      BY <2>1, <2>2
  <1> QED
    BY <1>1, <1>2, PTL DEF Spec

\* silc_server_client_on_channel may rely on client->channels alone.
THEOREM CrossReferenceCorrect == Spec => []CrossReference
  BY Invariance, PTL DEF ChannelInv

\* The channel key is with the members of a channel and with nobody else.
THEOREM KeyAgreementCorrect == Spec => []KeyAgreement
  BY Invariance, PTL DEF ChannelInv

\* Founder rights that are claimed are taken from whoever had them.
THEOREM SoleFounderCorrect == Spec => []SoleFounder
  BY Invariance, PTL DEF ChannelInv

\* Only disabled permanent channels are without members.
THEOREM EmptyIsPermanentCorrect == Spec => []EmptyIsPermanent
  BY Invariance, PTL DEF ChannelInv

\* channel->user_count is the length of channel->user_list.
THEOREM UserCountCorrect == Spec => []UserCountExact
  BY Invariance, PTL DEF ChannelInv

\* A router's channel keys are due to be changed, and no re-key timeout
\* outlives its channel.
THEOREM RekeyPendingCorrect == Spec => []RekeyPending
  BY Invariance, PTL DEF ChannelInv

\* The statistics count the channels and their users, as far as a SilcUInt32
\* can.
THEOREM StatCorrect == Spec => []StatExact
  BY Invariance, PTL DEF ChannelInv

\* Founder rights are gained on a channel with members only with a signature
\* by its founder key, operator rights so or from an operator or founder.
THEOREM RightsCorrect == Spec => RightsAreGranted
  <1> DEFINE A == \A ch \in channels, c \in Clients :
                    user_list[ch] # {} =>
                    LET gained == chl_mode'[ch][c] \ chl_mode[ch][c]
                        proved == channel[ch].founder_key \in PrivateKeys[c]
                    IN  /\ "CHANFO" \in gained => proved
                        /\ "CHANOP" \in gained =>
                               proved \/ \E d \in user_list[ch] : IsOper(d, ch)
  <1>1. ChannelInv /\ [Next]_vars => [A]_vars
    <2> SUFFICES ASSUME ChannelInv, Next, NEW ch \in channels,
                        NEW c \in Clients, user_list[ch] # {}
                 PROVE  LET gained == chl_mode'[ch][c] \ chl_mode[ch][c]
                            proved == channel[ch].founder_key \in PrivateKeys[c]
                        IN  /\ "CHANFO" \in gained => proved
                            /\ "CHANOP" \in gained => proved
                                  \/ \E d \in user_list[ch] : IsOper(d, ch)
      BY Zenon
    <2> DEFINE proved == channel[ch].founder_key \in PrivateKeys[c]
    <2>0. TypeOK /\ CrossReference /\ ch \in Channels
      BY DEF ChannelInv, TypeOK
    <2>1. CASE Joining
      <3>1. PICK d \in Clients, x \in Channels,
                  pass \in PassArgs, auth, cauth \in KeyArgs :
              Join(d, x, pass, auth, cauth)
        BY <2>1 DEF Joining
      <3>2. PICK fs \in ReplacedFounder(x, FounderAuth(d, x, auth)) :
              chl_mode' = [chl_mode EXCEPT ![x] =
                  [Demoted(x, fs) EXCEPT ![d] = JoinUMode(d, x, auth)]]
        BY <3>1 DEF Join
      <3>3. CASE x = ch /\ d = c /\ JoinUMode(c, ch, auth) # {}
        <4>1. FounderAuth(c, ch, auth)
          BY <3>3 DEF JoinUMode
        <4>2. auth \in PrivateKeys[c] \cup {None}
          BY <3>1, <3>3 DEF Join, JoinAllowed
        <4>3. proved
          BY <4>1, <4>2 DEF FounderAuth, AuthVerify, Entry
        <4> QED
          BY <4>3
      <3>4. CASE ~(x = ch /\ d = c /\ JoinUMode(c, ch, auth) # {})
        <4>1. chl_mode'[ch][c] \subseteq chl_mode[ch][c]
          BY <2>0, <3>2, <3>4, DemotedType DEF TypeOK, Demoted
        <4> QED
          BY <4>1
      <3> QED
        BY <3>3, <3>4
    <2>2. CASE Removal
      <3>1. PICK d \in Clients, chs \in SUBSET Channels,
                 un \in SUBSET Channels : RemoveFromChannels(d, chs, un)
        BY <2>2 DEF Removal
      <3>2. chl_mode'[ch][c] \subseteq chl_mode[ch][c]
        BY <2>0, <3>1 DEF RemoveFromChannels, TypeOK
      <3> QED
        BY <3>2
    <2>3. CASE CumodeStep
      <3>1. PICK d \in Clients, target \in Clients, x \in Channels,
                 mask \in SUBSET UModeBits, auth \in KeyArgs :
                    CUMode(d, x, mask, target, auth)
        BY <2>3 DEF CumodeStep
      <3> DEFINE result == CumodeResult(d, x, mask, target, auth)
                 claims == ClaimsFounder(d, x, mask, target, auth)
                 Done(bit) == CumodeDone(d, x, mask, target, auth, bit)
                 Fails(bit) == CumodeFails(d, x, mask, target, auth, bit)
      <3>2. PICK fs : chl_mode' = [chl_mode EXCEPT ![x] =
                        [Demoted(x, fs) EXCEPT ![target] = result]]
        BY <3>1 DEF CUMode
      <3>3. CASE x = ch /\ target = c
        <4>1. chl_mode'[ch][c] = result
          BY <2>0, <3>2, <3>3, DemotedType DEF TypeOK
        <4>2. /\ Done("CHANFO") => ~Fails("CHANFO")
              /\ Done("CHANOP") => ~Fails("CHANOP")
          BY ModesAssumption DEF CumodeDone, CumodeStage
        <4>3. "CHANFO" \in result \ chl_mode[ch][c] =>
                  ~Fails("CHANFO") /\ "CHANFO" \in mask
          BY <3>3, <4>2 DEF CumodeResult, HasMode
        <4>4. "CHANOP" \in result \ chl_mode[ch][c] =>
                  ~Fails("CHANOP") /\ "CHANOP" \in mask
          BY <3>3, <4>2 DEF CumodeResult, HasMode
        <4>5. claims => proved
          <5>1. auth \in PrivateKeys[d] \cup {None}
            BY <3>1 DEF CUMode
          <5> QED
            BY <3>3, <5>1 DEF ClaimsFounder, AuthVerify
        <4>6. "CHANFO" \in result \ chl_mode[ch][c] => claims
          BY <3>3, <4>3 DEF CumodeFails, HasMode
        <4>7. "CHANOP" \in result \ chl_mode[ch][c] =>
                  claims \/ IsOper(d, ch)
          BY <3>3, <4>4 DEF CumodeFails, HasMode
        <4>8. d \in user_list[ch]
          BY <2>0, <3>1, <3>3 DEF CUMode, OnChannel, CrossReference
        <4> HIDE DEF claims, result, proved
        <4>9. /\ "CHANFO" \in chl_mode'[ch][c] \ chl_mode[ch][c] => proved
              /\ "CHANOP" \in chl_mode'[ch][c] \ chl_mode[ch][c] =>
                     proved \/ \E u \in user_list[ch] : IsOper(u, ch)
          BY <4>1, <4>5, <4>6, <4>7, <4>8
        <4> QED
          BY <4>9 DEF proved
      <3>4. CASE ~(x = ch /\ target = c)
        <4>1. chl_mode'[ch][c] \subseteq chl_mode[ch][c]
          <5> HIDE DEF result
          <5> QED
            BY <2>0, <3>2, <3>4, DemotedType DEF TypeOK, Demoted
        <4> QED
          BY <4>1
      <3> QED
        BY <3>3, <3>4
    <2>4. CASE Refusing
      <3>1. PICK d \in Clients, x \in Channels,
                  pass \in PassArgs, auth, cauth \in KeyArgs :
              JoinRefused(d, x, pass, auth, cauth)
        BY <2>4 DEF Refusing
      <3>2. chl_mode'[ch][c] \subseteq chl_mode[ch][c]
        BY <2>0, <3>1, DemotedType DEF JoinRefused, TypeOK, Demoted
      <3> QED
        BY <3>2
    <2>5. CASE CmodeStep \/ Passive \/ \E x \in Channels : ChannelKeyRekey(x)
      <3>1. chl_mode' = chl_mode
        BY <2>5 DEF CmodeStep, CMode, Passive, ChannelKeyRekey
      <3> QED
        BY <3>1
    <2> QED
      BY <2>0, <2>1, <2>2, <2>3, <2>4, <2>5, StepKinds
  <1> QED
    BY <1>1, Invariance, PTL DEF Spec, RightsAreGranted

\* CMODE by an operator who is not a founder leaves the founder's settings
\* alone, also where a later stage fails after an earlier one was carried out.
LEMMA OperatorCmode ==
    ASSUME TypeOK, NEW c \in Clients, NEW ch \in Channels,
           NEW r \in CmodeRequests, CMode(c, ch, r),
           ~HasMode(c, ch, "CHANFO")
    PROVE  FounderSettingsKept(ch)
  <1>1. channel[ch] \in ChannelEntry /\ r.mask \in SUBSET ModeBits
    BY CmodeRequestType DEF TypeOK
  <1>2. channel'[ch] = CmodeEntry(c, ch, r)
    BY DEF CMode, TypeOK
  <1>3. /\ "PRIVKEY" \notin r.mask \cup channel[ch].mode
        /\ r.mask \cap FounderModes = channel[ch].mode \cap FounderModes
    BY DEF CMode, CheckCmodeRights
  <1>4. r.mask \ OperatorModes = channel[ch].mode \ OperatorModes
    <2>1. \A m \in ModeBits : \/ m \in OperatorModes
                              \/ m \in FounderModes
                              \/ m = "PRIVKEY"
      BY ModesAssumption DEF AllModes, OperatorModes, FounderModes
    <2>2. channel[ch].mode \in SUBSET ModeBits
      BY <1>1 DEF ChannelEntry
    <2> QED
      BY <1>1, <1>3, <2>1, <2>2, Zenon
  <1>5. channel'[ch].mode \in {r.mask, channel[ch].mode}
    BY CmodeEffect
  <1>6. CmodePassphrase(channel[ch], r) = channel[ch].passphrase
    BY <1>3 DEF CmodePassphrase, FounderModes
  <1>7. /\ CmodeFounderKey(c, ch, r) = channel[ch].founder_key
        /\ CmodePubkeys(c, ch, r) = channel[ch].channel_pubkeys
    BY DEF CmodeFounderKey, CmodePubkeys
  <1>8. /\ CmodeEntry(c, ch, r).founder_key = channel[ch].founder_key
        /\ CmodeEntry(c, ch, r).passphrase = channel[ch].passphrase
        /\ CmodeEntry(c, ch, r).channel_pubkeys = channel[ch].channel_pubkeys
    BY <1>1, <1>6, <1>7 DEF CmodeEntry, ChannelEntry
  <1> QED
    BY <1>2, <1>4, <1>5, <1>8 DEF FounderSettingsKept

\* The founder's settings of a channel are changed by CMODE alone, and by no
\* CMODE of a client that is not its founder.
THEOREM FounderSettingsCorrect == Spec => FounderSettings
  <1> DEFINE Founded(ch) ==
                 /\ \E c \in Founders(ch), r \in CmodeRequests : CMode(c, ch, r)
                 /\ \A c \in user_list[ch] \ Founders(ch), r \in CmodeRequests :
                        ~CMode(c, ch, r)
             A == \A ch \in channels \cap channels' :
                    \/ FounderSettingsKept(ch)
                    \/ /\ \E c \in Founders(ch), r \in CmodeRequests : CMode(c, ch, r)
                       /\ \A c \in user_list[ch] \ Founders(ch), r \in CmodeRequests :
                              ~CMode(c, ch, r)
  <1>1. ChannelInv /\ [Next]_vars => [A]_vars
    <2> DEFINE Kept(ch) == FounderSettingsKept(ch)
    <2> SUFFICES ASSUME ChannelInv, Next, NEW ch \in channels, ch \in channels'
                 PROVE  Kept(ch) \/ Founded(ch)
      BY Zenon
    <2>0. TypeOK /\ CrossReference /\ ch \in Channels
      BY DEF ChannelInv, TypeOK
    <2>1. SameSettings(channel[ch], channel'[ch]) => Kept(ch)
      BY DEF SameSettings, FounderSettingsKept
    <2>2. channel'[ch] = channel[ch] => Kept(ch)
      BY DEF FounderSettingsKept
    <2> HIDE DEF Kept
    <2>3. CASE Joining
      <3>1. PICK d \in Clients, x \in Channels,
                  pass \in PassArgs, auth, cauth \in KeyArgs :
              Join(d, x, pass, auth, cauth)
        BY <2>3 DEF Joining
      <3>2. SameSettings(Entry(x), channel'[x])
        BY <2>0, <3>1, JoinEffect
      <3>3. ch # x => channel'[ch] = channel[ch]
        BY <2>0, <3>1, JoinEffect
      <3>4. ch = x => Entry(x) = channel[ch]
        BY DEF Entry
      <3> QED
        BY <2>1, <2>2, <3>2, <3>3, <3>4
    <2>4. CASE Removal
      <3>1. PICK d \in Clients, chs \in SUBSET Channels, un \in SUBSET Channels :
              chs \subseteq client_channels[d] /\ RemoveFromChannels(d, chs, un)
        BY <2>4 DEF Removal
      <3>2. ch \notin Destroyed(d, chs)
        BY <3>1 DEF RemoveFromChannels
      <3>3. SameSettings(channel[ch], channel'[ch])
        BY <2>0, <3>1, <3>2, RemovalEffect
      <3> QED
        BY <2>1, <3>3
    <2>5. CASE CmodeStep
      <3>1. PICK d \in Clients, x \in Channels, r \in CmodeRequests :
              CMode(d, x, r)
        BY <2>5 DEF CmodeStep
      <3>2. CASE ch # x
        BY <2>0, <2>2, <3>1, <3>2, CmodeEffect
      <3>3. ASSUME NEW c \in Clients, NEW q \in CmodeRequests, CMode(c, ch, q)
            PROVE  Kept(ch) \/ c \in Founders(ch)
        <4>1. c \in user_list[ch]
          BY <2>0, <3>3 DEF CMode, OnChannel, CrossReference
        <4>2. CASE HasMode(c, ch, "CHANFO")
          BY <4>1, <4>2 DEF Founders
        <4>3. CASE ~HasMode(c, ch, "CHANFO")
          BY <2>0, <3>3, <4>3, OperatorCmode DEF Kept
        <4> QED
          BY <4>2, <4>3
      <3>4. CASE ch = x /\ ~Kept(ch)
        <4>1. \E c \in Founders(ch), q \in CmodeRequests : CMode(c, ch, q)
          BY <3>1, <3>3, <3>4
        <4>2. \A c \in user_list[ch] \ Founders(ch), q \in CmodeRequests : ~CMode(c, ch, q)
          BY <2>0, <3>3, <3>4 DEF TypeOK
        <4> QED
          BY <4>1, <4>2
      <3> QED
        BY <3>2, <3>4
    <2>6. CASE Passive
      BY <2>0, <2>1, <2>6 DEF Passive
    <2>7. CASE Refusing \/ CumodeStep
                   \/ \E x \in Channels : ChannelKeyRekey(x)
      <3>1. channel' = channel
        <4>1. Refusing => channel' = channel
          BY DEF Refusing, JoinRefused
        <4>2. CumodeStep => channel' = channel
          BY DEF CumodeStep, CUMode
        <4>3. (\E x \in Channels : ChannelKeyRekey(x)) => channel' = channel
          BY DEF ChannelKeyRekey
        <4> QED
          BY <2>7, <4>1, <4>2, <4>3, Zenon
      <3> QED
        BY <2>2, <3>1
    <2> QED
      BY <2>0, <2>3, <2>4, <2>5, <2>6, <2>7, StepKinds
  <1> QED
    BY <1>1, Invariance, PTL DEF Spec, FounderSettings

=============================================================================
