------------------------- MODULE CellChannelProofs -------------------------
(***************************************************************************)
(* Who is founder of the channel on the router of a cell.  Nothing is      *)
(* assumed of the order in which packets arrive, of the user lists of the  *)
(* servers or of the packets they send: it is the router's own checks that *)
(* keep a second founder out, for any number of servers, clients, commands *)
(* and crashes.                                                            *)
(***************************************************************************)
EXTENDS CellChannel, TLAPS

\* A channel entry, whatever its fields hold but for the user list.
Entry(ch) ==
    /\ ch = [id |-> ch.id, users |-> ch.users, global |-> ch.global,
             key |-> ch.key]
    /\ ch.users = [c \in DOMAIN ch.users |-> ch.users[c]]

\* The user list of ch gives nobody founder rights who did not have them in
\* users, except to one client when users is empty.
NoNewFounder(users, ch) ==
    \/ FoundersOf(ch.users) \subseteq FoundersOf(users)
    \/ DOMAIN users = {} /\ \E c : FoundersOf(ch.users) \subseteq {c}

Follows(users, ch) == Entry(ch) /\ NoNewFounder(users, ch)

\* The invariant: the router's entry is one, and has one founder at most.
RouterEntry == chan = [n \in Nodes |-> chan[n]] /\ Entry(chan[R])
EntryInv == RouterEntry /\ OneFounder

-----------------------------------------------------------------------------
(* What is done to an entry.                                               *)

\* Other fields than the user list.
LEMMA FieldsFollow ==
    ASSUME NEW ch, Entry(ch), NEW x, NEW y, NEW new,
           new = [id |-> x, users |-> ch.users, global |-> ch.global, key |-> y]
    PROVE  Follows(ch.users, new) /\ new.users = ch.users
  <1>1. /\ new.users = ch.users /\ new.id = x
        /\ new.global = ch.global /\ new.key = y
    OBVIOUS
  <1> QED
    BY <1>1 DEF Entry, Follows, NoNewFounder

\* A new key, or none.
LEMMA KeyFollows ==
    ASSUME NEW ch, Entry(ch), NEW k, NEW new \in {ch, [ch EXCEPT !.key = k]}
    PROVE  Follows(ch.users, new) /\ new.users = ch.users
  <1>1. CASE new = ch
    BY <1>1 DEF Follows, NoNewFounder
  <1>2. CASE new = [ch EXCEPT !.key = k]
    <2>1. new = [id |-> ch.id, users |-> ch.users, global |-> ch.global,
                 key |-> k]
      BY <1>2 DEF Entry
    <2> QED
      BY <2>1, FieldsFollow
  <1> QED
    BY <1>1, <1>2

\* A user list in place of another one.
LEMMA UsersReplaced ==
    ASSUME NEW ch, Entry(ch), NEW users,
           users = [c \in DOMAIN users |-> users[c]]
    PROVE  LET new == [ch EXCEPT !.users = users]
           IN  Entry(new) /\ new.users = users /\ new.global = ch.global
  <1> DEFINE new == [ch EXCEPT !.users = users]
  <1>1. new = [id |-> ch.id, users |-> users, global |-> ch.global,
               key |-> ch.key]
    BY DEF Entry
  <1>2. /\ new.users = users /\ new.id = ch.id
        /\ new.global = ch.global /\ new.key = ch.key
    BY <1>1
  <1> HIDE DEF new
  <1> QED
    BY <1>1, <1>2 DEF new, Entry

\* Only the client that joins a channel without users becomes its founder.
LEMMA JoinedFollows ==
    ASSUME NEW ch, Entry(ch), NEW c, NEW mode \in {{}, JoinMode(ch)}
    PROVE  Follows(ch.users, Joined(ch, c, mode))
  <1> DEFINE users == WithUser(ch.users, c, mode)
  <1>1. /\ DOMAIN users = DOMAIN ch.users \cup {c}
        /\ users = [x \in DOMAIN users |-> users[x]]
        /\ users[c] = mode
        /\ \A x \in DOMAIN ch.users \ {c} : users[x] = ch.users[x]
    BY DEF WithUser
  <1> HIDE DEF users
  <1>2. Joined(ch, c, mode) = [ch EXCEPT !.users = users]
    BY DEF Joined, users, Entry
  <1>3. Entry(Joined(ch, c, mode)) /\ Joined(ch, c, mode).users = users
    BY <1>1, <1>2, UsersReplaced
  <1>4. CASE DOMAIN ch.users = {}
    BY <1>1, <1>3, <1>4 DEF Follows, NoNewFounder, FoundersOf
  <1>5. CASE DOMAIN ch.users # {}
    <2>1. mode = {}
      BY <1>5 DEF JoinMode
    <2>2. FoundersOf(users) \subseteq FoundersOf(ch.users)
      BY <1>1, <2>1 DEF FoundersOf
    <2> QED
      BY <1>3, <2>2 DEF Follows, NoNewFounder
  <1> QED
    BY <1>4, <1>5

\* Nobody gains by a removal, nor by the new key after it.
LEMMA WithoutFollows ==
    ASSUME NEW ch, Entry(ch), NEW gone
    PROVE  /\ Follows(ch.users, Without(R, ch, gone))
           /\ Follows(ch.users, Rekeyed(Without(R, ch, gone)))
  <1> DEFINE users == Restrict(ch.users, DOMAIN ch.users \ gone)
             new == Without(R, ch, gone)
  <1>1. /\ DOMAIN users \subseteq DOMAIN ch.users
        /\ users = [x \in DOMAIN users |-> users[x]]
        /\ \A x \in DOMAIN users : users[x] = ch.users[x]
    BY DEF Restrict
  <1>2. FoundersOf(users) \subseteq FoundersOf(ch.users)
    BY <1>1 DEF FoundersOf
  <1>3. Entry(NoChannel) /\ FoundersOf(NoChannel.users) = {}
    BY DEF Entry, NoChannel, NoUsers, FoundersOf
  <1>4. \/ new = NoChannel
        \/ \E g : new = [ch EXCEPT !.users = users, !.global = g]
    BY DEF Without
  <1> HIDE DEF users, new
  <1>5. ASSUME NEW g, new = [ch EXCEPT !.users = users, !.global = g]
        PROVE  Entry(new) /\ new.users = users
    <2>1. new = [id |-> ch.id, users |-> users, global |-> g, key |-> ch.key]
      BY <1>5 DEF Entry
    <2>2. /\ new.users = users /\ new.id = ch.id
          /\ new.global = g /\ new.key = ch.key
      BY <2>1
    <2> QED
      BY <1>1, <2>1, <2>2 DEF Entry
  <1>6. Entry(new) /\ FoundersOf(new.users) \subseteq FoundersOf(ch.users)
    BY <1>2, <1>3, <1>4, <1>5
  <1>7. Entry(Rekeyed(new)) /\ Rekeyed(new).users = new.users
    <2>1. CASE Rekeyed(new) = new
      BY <1>6, <2>1
    <2>2. CASE Rekeyed(new) = [new EXCEPT !.key = NewKey]
      BY <1>6, <2>2, KeyFollows DEF Follows
    <2> QED
      BY <2>1, <2>2 DEF Rekeyed
  <1> QED
    BY <1>6, <1>7 DEF new, Follows, NoNewFounder

\* A mode change follows when it gives no founder rights.
LEMMA ModeFollows ==
    ASSUME NEW ch, Entry(ch), NEW t \in DOMAIN ch.users, NEW mode,
           "fo" \in mode => "fo" \in ch.users[t]
    PROVE  Follows(ch.users, [ch EXCEPT !.users[t] = mode])
  <1> DEFINE users == [ch.users EXCEPT ![t] = mode]
             new == [ch EXCEPT !.users = users]
  <1>1. /\ DOMAIN users = DOMAIN ch.users
        /\ users = [x \in DOMAIN users |-> users[x]]
        /\ users[t] = mode
        /\ \A x \in DOMAIN users \ {t} : users[x] = ch.users[x]
    BY DEF Entry
  <1>2. [ch EXCEPT !.users[t] = mode] = new
    BY DEF Entry
  <1> HIDE DEF users
  <1>3. Entry(new) /\ new.users = users
    BY <1>1, UsersReplaced
  <1>4. FoundersOf(users) \subseteq FoundersOf(ch.users)
    BY <1>1 DEF FoundersOf
  <1> HIDE DEF new
  <1> QED
    BY <1>2, <1>3, <1>4 DEF Follows, NoNewFounder

-----------------------------------------------------------------------------
(* What the steps do to the router's entry.                                *)

\* The router still has an entry, and nobody gained founder rights on it.
StepOK == RouterEntry' /\ NoNewFounder(chan[R].users, chan'[R])

\* The router's entry is left alone.
LEMMA Untouched ==
    ASSUME RouterEntry, chan'[R] = chan[R], chan' = [n \in Nodes |-> chan'[n]]
    PROVE  StepOK
  BY DEF StepOK, RouterEntry, NoNewFounder

\* The router's entry becomes one that follows.
LEMMA RouterBecomes ==
    ASSUME RouterEntry, NEW ch, Becomes(R, ch), Follows(chan[R].users, ch)
    PROVE  StepOK
  <1>1. chan' = [chan EXCEPT ![R] = ch] /\ R \in Nodes
    BY DEF Becomes, Nodes
  <1>2. chan'[R] = ch /\ chan' = [n \in Nodes |-> chan'[n]]
    BY <1>1 DEF RouterEntry
  <1> QED
    BY <1>2 DEF StepOK, RouterEntry, Follows

\* A step of a normal server leaves the router's entry alone.
LEMMA ServerBecomes ==
    ASSUME RouterEntry, NEW s \in Servers, NEW ch, Becomes(s, ch)
    PROVE  StepOK
  <1>1. chan' = [chan EXCEPT ![s] = ch] /\ R \in Nodes /\ s # R
    BY CellAssumption DEF Becomes, Nodes
  <1>2. chan'[R] = chan[R] /\ chan' = [n \in Nodes |-> chan'[n]]
    BY <1>1 DEF RouterEntry
  <1> QED
    BY <1>2, Untouched

\* Clients that are not the router's are those of a server.
LEMMA HomeServer ==
    ASSUME NEW c \in Clients, Home[c] # R
    PROVE  Home[c] \in Servers
  BY CellAssumption DEF Nodes

\* JOIN on the router, of a client of its own or of a server.
LEMMA RouterJoinStep ==
    ASSUME RouterEntry, NEW c, NEW asking, RouterJoin(c, asking)
    PROVE  StepOK
  <1> DEFINE created == ~Opened(R)
             old == [chan[R] EXCEPT
                        !.id = IF created THEN NewId ELSE chan[R].id,
                        !.key = NewKey]
             ch == Joined(old, c, JoinMode(old))
  <1>1. Becomes(R, ch)
    BY DEF RouterJoin, RouterDown
  <1> DEFINE i == IF created THEN NewId ELSE chan[R].id
  <1>2. old = [chan[R] EXCEPT !.id = i, !.key = NewKey]
    BY Zenon
  <1> HIDE DEF old, i
  <1>3. Entry(old) /\ old.users = chan[R].users
    <2>1. Entry(chan[R])
      BY DEF RouterEntry
    <2>2. old = [id |-> i, users |-> chan[R].users, global |-> chan[R].global,
                 key |-> NewKey]
      BY <1>2, <2>1 DEF Entry
    <2> QED
      BY <2>1, <2>2, FieldsFollow DEF Follows
  <1>4. Follows(chan[R].users, ch)
    BY <1>3, JoinedFollows
  <1> HIDE DEF ch
  <1> QED
    BY <1>1, <1>4, RouterBecomes

\* Commands of clients.
LEMMA CommandStep ==
    ASSUME RouterEntry, ClientCommand
    PROVE  StepOK
  <1>1. ASSUME NEW c \in Clients, JoinKnown(c) \/ JoinForwarded(c)
        PROVE  StepOK
    <2>1. Home[c] \in Servers /\ \E ch : Becomes(Home[c], ch)
      BY <1>1, HomeServer DEF JoinKnown, JoinForwarded, ServerUp
    <2> QED
      BY <2>1, ServerBecomes
  <1>2. ASSUME NEW c \in Clients, Leave(c) \/ SignOff(c)
        PROVE  StepOK
    <2>1. Home[c] \in Servers /\ \E ch : Becomes(Home[c], ch)
      BY <1>2, HomeServer DEF Leave, SignOff, Departed, ServerUp
    <2> QED
      BY <2>1, ServerBecomes
  <1>3. ASSUME NEW a \in Clients, NEW t \in Clients, NEW mode,
               Kick(a, t) \/ ChangeMode(a, t, mode)
        PROVE  StepOK
    <2>1. Home[a] \in Servers /\ \E ch : Becomes(Home[a], ch)
      BY <1>3, HomeServer DEF Kick, ChangeMode, ServerUp
    <2> QED
      BY <2>1, ServerBecomes
  <1>4. ASSUME NEW c \in Clients, OwnJoin(c)
        PROVE  StepOK
    BY <1>4, RouterJoinStep DEF OwnJoin
  <1>5. ASSUME NEW c \in Clients, NEW type, OwnDeparts(c, type)
        PROVE  StepOK
    <2>1. Becomes(R, Rekeyed(Without(R, chan[R], {c})))
      BY <1>5 DEF OwnDeparts, RouterRemoves, RouterDown
    <2> QED
      BY <2>1, WithoutFollows, RouterBecomes DEF RouterEntry
  <1>6. ASSUME NEW a \in Clients, NEW t \in Clients, OwnKick(a, t)
        PROVE  StepOK
    <2>1. Becomes(R, Rekeyed(Without(R, chan[R], {t})))
      BY <1>6 DEF OwnKick, RouterDown
    <2> QED
      BY <2>1, WithoutFollows, RouterBecomes DEF RouterEntry
  <1>7. ASSUME NEW a \in Clients, NEW t \in Clients, NEW mode,
               OwnChangeMode(a, t, mode)
        PROVE  StepOK
    <2>1. Becomes(R, [chan[R] EXCEPT !.users[t] = mode])
      BY <1>7 DEF OwnChangeMode, RouterDown
    <2>2. /\ t \in DOMAIN chan[R].users
          /\ "fo" \in mode => "fo" \in chan[R].users[t]
      BY <1>7 DEF OwnChangeMode, MayChange
    <2> QED
      BY <2>1, <2>2, ModeFollows, RouterBecomes DEF RouterEntry
  <1> QED
    BY <1>1, <1>2, <1>3, <1>4, <1>5, <1>6, <1>7 DEF ClientCommand

\* What a server sent.
LEMMA RouterReceivesStep ==
    ASSUME RouterEntry, NEW s \in Servers, RouterReceives(s)
    PROVE  StepOK
  <1> DEFINE m == Head(up[s])
             ch == chan[R]
  <1>0. Entry(ch)
    BY DEF RouterEntry
  <1>1. ASSUME chan' = chan PROVE StepOK
    BY <1>1, Untouched DEF RouterEntry
  <1>2. CASE RouterJoinCommand(s)
    BY <1>1, <1>2, RouterJoinStep DEF RouterJoinCommand
  <1>3. CASE RouterJoinNotify(s)
    <2>1. Becomes(R, Joined(ch, m.c, {})) \/ chan' = chan
      BY <1>3 DEF RouterJoinNotify, RouterDown, Ignored
    <2> QED
      BY <1>0, <1>1, <2>1, JoinedFollows, RouterBecomes
  <1>4. CASE RouterRemoveNotify(s, "leave") \/ RouterRemoveNotify(s, "kicked")
                 \/ RouterSignOffNotify(s)
    <2>1. Becomes(R, Without(R, ch, {m.c})) \/ chan' = chan
      BY <1>4 DEF RouterRemoveNotify, RouterSignOffNotify, RouterDown, Ignored
    <2> QED
      BY <1>0, <1>1, <2>1, WithoutFollows, RouterBecomes
  <1>5. CASE RouterModeNotify(s)
    <2>1. \/ chan' = chan
          \/ /\ m.c \in DOMAIN ch.users
             /\ \/ Becomes(R, [ch EXCEPT !.users[m.c] = m.mode \ {"fo"}])
                \/ /\ "fo" \notin m.mode \ ch.users[m.c]
                   /\ Becomes(R, [ch EXCEPT !.users[m.c] = m.mode])
      BY <1>5 DEF RouterModeNotify, ForceMode, RouterDown, Ignored, Members
    <2>2. \A mode : m.c \in DOMAIN ch.users
                    /\ ("fo" \in mode => "fo" \in ch.users[m.c])
                    /\ Becomes(R, [ch EXCEPT !.users[m.c] = mode]) => StepOK
      BY <1>0, ModeFollows, RouterBecomes
    <2> QED
      BY <1>1, <2>1, <2>2
  <1>6. CASE RouterKey(s)
    <2>1. Becomes(R, [ch EXCEPT !.key = m.key]) \/ chan' = chan
      BY <1>6 DEF RouterKey, RouterDown, Ignored
    <2> QED
      BY <1>0, <1>1, <2>1, KeyFollows, RouterBecomes
  <1>7. CASE RouterServerGone(s)
    <2>1. Becomes(R, Rekeyed(Without(R, ch, ClientsOf(s)))) \/ chan' = chan
      BY <1>7 DEF RouterServerGone, RouterRemoves, RouterDown, Ignored
    <2> QED
      BY <1>0, <1>1, <2>1, WithoutFollows, RouterBecomes
  <1> QED
    BY <1>2, <1>3, <1>4, <1>5, <1>6, <1>7 DEF RouterReceives

\* What the router sent, and crashes.
LEMMA ServerReceivesStep ==
    ASSUME RouterEntry, NEW s \in Servers, ServerReceives(s) \/ Crash(s)
    PROVE  StepOK
  <1>1. \E ch : Becomes(s, ch)
    <2>1. CASE ServerReply(s) \/ Crash(s)
      BY <2>1 DEF ServerReply, Crash, Ended, Received
    <2>2. CASE ServerJoinNotify(s) \/ ServerRemoveNotify(s)
                   \/ ServerModeNotify(s) \/ ServerKey(s)
      BY <2>2 DEF ServerJoinNotify, ServerRemoveNotify, ServerModeNotify,
                  ServerKey, Received
    <2> QED
      BY <2>1, <2>2 DEF ServerReceives
  <1> QED
    BY <1>1, ServerBecomes

\* Every step.
LEMMA CellStep ==
    ASSUME RouterEntry, [Next]_vars
    PROVE  StepOK
  <1>1. CASE RekeyTimeout
    <2>1. Becomes(R, Rekeyed(chan[R]))
      BY <1>1 DEF RekeyTimeout, RouterDown
    <2>2. Rekeyed(chan[R]) = chan[R]
              \/ Rekeyed(chan[R]) = [chan[R] EXCEPT !.key = NewKey]
      BY DEF Rekeyed
    <2>3. Follows(chan[R].users, Rekeyed(chan[R]))
      BY <2>2, KeyFollows DEF RouterEntry
    <2> QED
      BY <2>1, <2>3, RouterBecomes
  <1>2. CASE UNCHANGED vars
    BY <1>2, Untouched DEF vars, RouterEntry
  <1> QED
    BY <1>1, <1>2, CommandStep, RouterReceivesStep, ServerReceivesStep DEF Next

-----------------------------------------------------------------------------

\* The router's entry is one, with one founder at most.
THEOREM EntryInvariance == Spec => []EntryInv
  <1>1. Init => EntryInv
    <2> SUFFICES ASSUME Init PROVE EntryInv
      OBVIOUS
    <2>1. PICK users \in InitUsers : chan = Established(users)
      BY DEF Init
    <2>2. R \in Nodes
      BY DEF Nodes
    <2>3. chan = [n \in Nodes |-> chan[n]]
      BY <2>1 DEF Established
    <2>4. users = [c \in DOMAIN users |-> users[c]]
      BY UsersAssumption DEF UserLists
    <2>5. CASE chan[R] = NoChannel
      <3>1. Entry(NoChannel) /\ FoundersOf(NoChannel.users) = {}
        BY DEF Entry, NoChannel, NoUsers, FoundersOf
      <3> QED
        BY <2>3, <2>5, <3>1 DEF EntryInv, RouterEntry, OneFounder
    <2>6. CASE chan[R] # NoChannel
      <3>1. \E k, g : chan[R] = [id |-> 1, users |-> users, key |-> k,
                                 global |-> g]
        BY <2>1, <2>2, <2>6 DEF Established
      <3>2. Entry(chan[R]) /\ chan[R].users = users
        BY <2>4, <3>1 DEF Entry
      <3> QED
        BY <2>3, <3>2, UsersAssumption DEF EntryInv, RouterEntry, OneFounder
    <2> QED
      BY <2>5, <2>6
  <1>2. EntryInv /\ [Next]_vars => EntryInv'
    <2> SUFFICES ASSUME EntryInv, [Next]_vars PROVE EntryInv'
      OBVIOUS
    <2>1. StepOK
      BY CellStep DEF EntryInv
    <2>2. OneFounder'
      BY <2>1 DEF StepOK, NoNewFounder, EntryInv, OneFounder
    <2> QED
      BY <2>1, <2>2 DEF StepOK, EntryInv
  <1> QED
    BY <1>1, <1>2, PTL DEF Spec

\* The router's entry has one founder at most, whatever the servers send and
\* in whatever order it arrives: silc_server_command_join gives founder rights
\* with a new channel only, and silc_server_notify_process takes the claim of
\* a server back that a member is founder whom the router does not know as one.
THEOREM OneFounderCorrect == Spec => []OneFounder
  BY EntryInvariance, PTL DEF EntryInv

\* Founder rights on the router's entry come with the creation of the channel
\* and are never gained on a channel that has members.
THEOREM FounderByCreation ==
    Spec => [][Opened(R) => FoundersOf(chan'[R].users)
                                \subseteq FoundersOf(chan[R].users)]_vars
  <1>1. EntryInv /\ [Next]_vars =>
            [Opened(R) => FoundersOf(chan'[R].users)
                              \subseteq FoundersOf(chan[R].users)]_vars
    <2> SUFFICES ASSUME EntryInv, Next, Opened(R)
                 PROVE  FoundersOf(chan'[R].users)
                            \subseteq FoundersOf(chan[R].users)
      OBVIOUS
    <2>1. StepOK
      BY CellStep DEF EntryInv
    <2> QED
      BY <2>1 DEF StepOK, NoNewFounder, Opened, Members
  <1> QED
    BY <1>1, EntryInvariance, PTL DEF Spec

=============================================================================
