------------------------- MODULE ClientSessionProofs -------------------------
(***************************************************************************)
(* Proofs about ClientSession for any number of connections, users and     *)
(* remote clients.                                                         *)
(***************************************************************************)
EXTENDS ClientSession, TLAPS

-----------------------------------------------------------------------------
(***************************************************************************)
(* What the operations on an entry do to its fields.                       *)
(***************************************************************************)

Tables == [Entries -> EntryRecord]
Connections == [Socks -> SockRecord]

LEMMA NilIsNoEntry == Nil \notin Entries /\ Nil \notin Socks /\ Socks \subseteq Entries /\ Nil \notin Users
  BY SocksAssumption, RemotesAssumption DEF Entries

\* An entry in the history keeps nothing but its owner.
LEMMA UnregisteredEntry ==
    ASSUME NEW r \in EntryRecord
    PROVE  /\ Unregistered(r) \in EntryRecord
           /\ Unregistered(r).st = "live" /\ Unregistered(r).owner = r.owner
           /\ Unregistered(r).key = Nil /\ Unregistered(r).conn = Nil /\ Unregistered(r).expired
           /\ ~Unregistered(r).reg /\ ~Unregistered(r).resumed /\ ~Unregistered(r).res
           /\ ~Unregistered(r).local /\ ~Unregistered(r).detached
  BY DEF Unregistered, NoClient, EntryRecord

LEMMA DeletedEntry ==
    ASSUME NEW r \in EntryRecord
    PROVE  /\ Deleted(r) \in EntryRecord
           /\ Deleted(r).st = "gone" /\ Deleted(r).owner = r.owner
           /\ Deleted(r).key = Nil /\ Deleted(r).conn = Nil /\ ~Deleted(r).expired
           /\ ~Deleted(r).reg /\ ~Deleted(r).resumed /\ ~Deleted(r).res
           /\ ~Deleted(r).local /\ ~Deleted(r).detached
  BY DEF Deleted, NoClient, EntryRecord

\* The entry of a resumed session.
LEMMA AttachedEntry ==
    ASSUME NEW r \in EntryRecord, NEW s \in Socks, NEW key \in Users \cup {Nil}
    PROVE  /\ Attached(r, s, key) \in EntryRecord
           /\ Attached(r, s, key).st = r.st /\ Attached(r, s, key).owner = r.owner
           /\ Attached(r, s, key).key = key /\ Attached(r, s, key).conn = s
           /\ Attached(r, s, key).expired = r.expired
           /\ Attached(r, s, key).reg /\ Attached(r, s, key).resumed /\ ~Attached(r, s, key).res
           /\ Attached(r, s, key).local /\ ~Attached(r, s, key).detached
           /\ Attached(r, s, key).home
  BY DEF Attached, EntryRecord

LEMMA NoClientEntry == NoClient \in EntryRecord
  BY DEF NoClient, EntryRecord

\* The connection after its close.
LEMMA ClosedConnection ==
    ASSUME NEW x \in SockRecord
    PROVE  /\ ClosedSock(x) \in SockRecord /\ ClearedSock(x) \in SockRecord
           /\ ClosedSock(x).st = "closed" /\ ClearedSock(x).st = "closed"
           /\ ClosedSock(x).ctx = x.ctx /\ ClearedSock(x).ctx = Nil
           /\ ClosedSock(x).user = x.user /\ ClearedSock(x).user = x.user
           /\ ClosedSock(x).sent = x.sent /\ ClearedSock(x).sent = x.sent
  BY DEF ClosedSock, ClearedSock, SockRecord

\* Disconnecting a client: its entry is unregistered, the connection closed and
\* its context cleared.
LEMMA Disconnects ==
    ASSUME NEW en \in Tables, sock \in Connections, NEW s \in Socks, Disconnect(en, s)
    PROVE  /\ entry' \in Tables /\ sock' \in Connections
           /\ \A e \in Entries : entry'[e] = IF e = sock[s].ctx THEN Unregistered(en[e]) ELSE en[e]
           /\ \A r \in Socks : sock'[r] = IF r = s THEN ClearedSock(sock[r]) ELSE sock[r]
  <1>1. sock[s].ctx \in Entries \cup {Nil} /\ sock[s] \in SockRecord
    BY DEF Connections, SockRecord
  <1>2. entry' = FreedSockUserData(en, s) /\ sock' = [sock EXCEPT ![s] = ClearedSock(@)]
    BY DEF Disconnect
  <1>3. sock' \in Connections /\ \A r \in Socks : sock'[r] = IF r = s THEN ClearedSock(sock[r]) ELSE sock[r]
    BY <1>1, <1>2, ClosedConnection DEF Connections
  <1>4. CASE sock[s].ctx = Nil
    BY <1>2, <1>3, <1>4, NilIsNoEntry DEF FreedSockUserData
  <1>5. CASE sock[s].ctx \in Entries
    <2>1. entry' = [en EXCEPT ![sock[s].ctx] = Unregistered(@)]
      BY <1>2, <1>5, NilIsNoEntry DEF FreedSockUserData
    <2>2. Unregistered(en[sock[s].ctx]) \in EntryRecord
      BY <1>5, UnregisteredEntry DEF Tables
    <2> QED
      BY <1>3, <1>5, <2>1, <2>2 DEF Tables
  <1> QED
    BY <1>1, <1>4, <1>5

\* The entries once resuming_client of e is set.
Taken(en, e, c) == [en EXCEPT ![e].resuming = c]

\* Equal in everything but resuming_client.
Alike(r, q) ==
    /\ q.st = r.st /\ q.owner = r.owner /\ q.reg = r.reg /\ q.resumed = r.resumed
    /\ q.res = r.res /\ q.local = r.local /\ q.detached = r.detached /\ q.conn = r.conn
    /\ q.routed = r.routed /\ q.key = r.key /\ q.expired = r.expired /\ q.home = r.home

LEMMA TakenEntries ==
    ASSUME NEW en \in Tables, NEW e \in Entries, NEW c \in Entries
    PROVE  Taken(en, e, c) \in Tables /\ \A d \in Entries : Alike(en[d], Taken(en, e, c)[d])
  <1>1. en[e] \in EntryRecord
    BY DEF Tables
  <1>2. [en[e] EXCEPT !.resuming = c] \in EntryRecord /\ Alike(en[e], [en[e] EXCEPT !.resuming = c])
    BY <1>1 DEF EntryRecord, Alike
  <1>3. Taken(en, e, c) = [en EXCEPT ![e] = [en[e] EXCEPT !.resuming = c]]
    BY DEF Taken
  <1>4. \A d \in Entries : Alike(en[d], en[d])
    BY DEF Alike
  <1> QED
    BY <1>2, <1>3, <1>4 DEF Tables

-----------------------------------------------------------------------------
(***************************************************************************)
(* The outcomes of silc_server_resume_client.                              *)
(***************************************************************************)

\* The state its caller left: entries, tasks, history.
Before(en, tk, rc) == [en |-> en, tk |-> tk, rc |-> rc]

\* There is no client any more: the process is gone.
Crashes ==
    /\ down' = TRUE
    /\ entry' = NoEntries /\ sock' = NoSocks /\ tasks' = {} /\ raced' = {}

\* The resume waits for the reply to a command.
Waits(en, tk, rc, s, id) ==
    /\ entry' = en /\ sock' = sock /\ raced' = rc
    /\ \/ tasks' = tk \cup {WhoisTask(en, s, id)}
       \/ tasks' = tk \cup {[t |-> "getkey", s |-> s, id |-> id]}

\* It is refused.
Refuses(en, tk, rc, s) == Disconnect(en, s) /\ tasks' = tk /\ raced' = rc

\* The session e goes on at connection s.
Resumes(en, tk, rc, s, e) ==
    LET c == sock[s].ctx IN
    /\ en[e].reg /\ ~en[e].resumed
    /\ kind # "router" => en[e].detached \/ en[e].res
    /\ en[e].key # Nil /\ en[e].key = en[c].key
    /\ entry' \in Tables /\ sock' \in Connections
    /\ \A d \in Entries : entry'[d] = IF d = c THEN Deleted(en[d])
                                      ELSE IF d = e THEN Attached(en[d], s, en[c].key) ELSE en[d]
    /\ \A r \in Socks : sock'[r] = IF r = s THEN [sock[r] EXCEPT !.ctx = e] ELSE sock[r]
    /\ tasks' = tk
    /\ raced' = IF DetachPending(e) THEN rc \cup {e} ELSE rc

Outcome(en, tk, rc, s, id) ==
    \/ Waits(en, tk, rc, s, id)
    \/ Refuses(en, tk, rc, s)
    \/ \E e \in Entries : id = <<e, en[e].home>> /\ Resumes(en, tk, rc, s, e)

\* What the WHOIS command may bring does not depend on resuming_client.
LEMMA WhoisAlike ==
    ASSUME NEW en \in Tables, NEW en2 \in Tables, \A e \in Entries : Alike(en[e], en2[e]),
           NEW s, NEW id
    PROVE  WhoisTask(en2, s, id) = WhoisTask(en, s, id)
  <1>1. FindClientById(en2, id) = FindClientById(en, id)
    BY DEF FindClientById, Alike
  <1>2. \A e \in FindClientById(en, id) : en2[e].local = en[e].local /\ en2[e].detached = en[e].detached
    BY DEF FindClientById, Alike
  <1>3. {e \in FindClientById(en2, id) : en2[e].local} = {e \in FindClientById(en, id) : en[e].local}
    BY <1>1, <1>2
  <1> DEFINE own == {e \in FindClientById(en, id) : en[e].local}
  <1>4. {en2[e].detached : e \in own} = {en[e].detached : e \in own}
    BY <1>2
  <1> QED
    BY <1>3, <1>4 DEF WhoisTask

\* silc_server_resume_client crashes, or the resume waits, is refused or
\* succeeds, and at most resuming_client has changed before.
LEMMA ResumeOutcome ==
    ASSUME NEW en \in Tables, NEW tk, NEW rc, NEW s \in Socks, NEW id \in Ids,
           NEW complete \in BOOLEAN, NEW verified \in BOOLEAN,
           sock \in Connections, kind \in Kinds,
           ResumeClient(Before(en, tk, rc), s, id, complete, verified)
    PROVE  \/ Crashes
           \/ /\ sock[s].ctx \in Entries /\ UNCHANGED down
              /\ \E en2 \in Tables : /\ \A e \in Entries : Alike(en[e], en2[e])
                                     /\ Outcome(en2, tk, rc, s, id)
  <1> DEFINE st == Before(en, tk, rc)
             c == sock[s].ctx
  <1>1. c \in Entries \cup {Nil} /\ sock[s] \in SockRecord
    BY DEF Connections, SockRecord
  <1>2. st.en = en /\ st.tk = tk /\ st.rc = rc
    BY DEF Before
  <1>3. CASE c = Nil
    BY <1>3 DEF ResumeClient, Crashes
  <1>4. ASSUME c \in Entries
        PROVE  UNCHANGED down /\ \E en2 \in Tables : /\ \A e \in Entries : Alike(en[e], en2[e])
                                                     /\ Outcome(en2, tk, rc, s, id)
    <2>1. c # Nil
      BY <1>4, NilIsNoEntry
    <2>2. \A e \in Entries : Alike(en[e], en[e])
      BY DEF Alike
    <2>3. UNCHANGED down
      BY <2>1 DEF ResumeClient
    <2>4. CASE ResumeRefused(st, s)
      BY <1>2, <2>2, <2>3, <2>4 DEF Outcome, Refuses, ResumeRefused
    <2>5. CASE ResumeWaits(st, WhoisTask(st.en, s, id))
      BY <1>2, <2>2, <2>3, <2>5 DEF Outcome, Waits, ResumeWaits
    <2>6. ASSUME NEW e \in FindClientById(st.en, id), ResumeKnown(st, s, e, complete, verified)
          PROVE  \E en2 \in Tables : /\ \A d \in Entries : Alike(en[d], en2[d])
                                     /\ Outcome(en2, tk, rc, s, id)
      <3> DEFINE d == st.en[e]
                 taken == [st EXCEPT !.en[e].resuming = c]
                 en2 == Taken(en, e, c)
                 resolve == MustResolve(d, complete)
      <3>1. e \in Entries /\ en[e].reg /\ id = <<e, en[e].home>>
        BY <1>2, <2>6 DEF FindClientById
      <3>2. en2 \in Tables /\ \A f \in Entries : Alike(en[f], en2[f])
        BY <1>4, <3>1, TakenEntries
      <3>3. taken.en = en2 /\ taken.tk = tk /\ taken.rc = rc
        BY DEF Before, Taken
      <3>4. WhoisTask(en2, s, id) = WhoisTask(st.en, s, id)
        BY <1>2, <3>2, WhoisAlike
      <3>5. CASE ResumeRefused(taken, s)
        BY <3>2, <3>3, <3>5 DEF Outcome, Refuses, ResumeRefused
      <3>6. CASE ResumeWaits(taken, WhoisTask(st.en, s, id))
        BY <3>2, <3>3, <3>4, <3>6 DEF Outcome, Waits, ResumeWaits
      <3>7. CASE ResumeWaits(taken, [t |-> "getkey", s |-> s, id |-> id])
        BY <3>2, <3>3, <3>7 DEF Outcome, Waits, ResumeWaits
      <3>8. CASE /\ Resumed(taken, s, e) /\ ~d.resumed /\ d.key # Nil /\ d.key = st.en[c].key
                 /\ kind # "router" => ~resolve
        <4>1. en2[e].reg /\ ~en2[e].resumed /\ en2[e].key # Nil /\ en2[e].key = en2[c].key
          BY <1>2, <1>4, <3>1, <3>2, <3>8 DEF Alike
        <4>2. kind # "router" => en2[e].detached \/ en2[e].res
          BY <1>2, <3>1, <3>2, <3>8 DEF Alike, MustResolve
        <4>3. /\ entry' = [f \in Entries |->
                   IF f = c THEN Deleted(en2[f])
                   ELSE IF f = e THEN Attached(en2[f], s, en2[c].key) ELSE en2[f]]
              /\ sock' = [sock EXCEPT ![s].ctx = e]
              /\ tasks' = tk
              /\ raced' = IF DetachPending(e) THEN rc \cup {e} ELSE rc
          <5> HIDE DEF en2, taken, d
          <5> QED
            BY <3>3, <3>8 DEF Resumed
        <4>4. en2[c].key \in Users \cup {Nil} /\ en2[e] \in EntryRecord /\ en2[c] \in EntryRecord
          BY <1>4, <3>1, <3>2 DEF Tables, EntryRecord
        <4>5. Attached(en2[e], s, en2[c].key) \in EntryRecord
          BY <4>4, AttachedEntry
        <4>6. /\ \A x \in EntryRecord : Deleted(x) \in EntryRecord
              /\ [sock[s] EXCEPT !.ctx = e] \in SockRecord
          BY <1>1, <3>1, DeletedEntry DEF SockRecord
        <4> HIDE DEF en2, taken, d, st
        <4>7. entry' \in Tables /\ sock' \in Connections
          BY <1>4, <3>1, <3>2, <4>3, <4>4, <4>5, <4>6 DEF Tables, Connections
        <4>8. \A f \in Entries : entry'[f] = IF f = c THEN Deleted(en2[f])
                ELSE IF f = e THEN Attached(en2[f], s, en2[c].key) ELSE en2[f]
          BY <4>3
        <4>9. \A r \in Socks : sock'[r] = IF r = s THEN [sock[r] EXCEPT !.ctx = e] ELSE sock[r]
          BY <4>3 DEF Connections
        <4>10. Resumes(en2, tk, rc, s, e)
          BY <4>1, <4>2, <4>3, <4>7, <4>8, <4>9 DEF Resumes
        <4>11. id = <<e, en2[e].home>>
          BY <3>1, <3>2 DEF Alike
        <4> QED
          BY <3>1, <3>2, <4>10, <4>11 DEF Outcome
      <3> HIDE DEF taken, en2
      <3>9. CASE ResumeRefused(st, s)
        BY <2>2, <1>2, <3>9 DEF Outcome, Refuses, ResumeRefused
      <3>10. kind \in {"standalone", "server", "router"}
        BY KindsAssumption
      <3>11. CASE d.resumed \/ d.resuming \notin {Nil, c}
        BY <2>6, <3>9, <3>11 DEF ResumeKnown
      <3>12. CASE ~(d.resumed \/ d.resuming \notin {Nil, c})
        <4>1. CASE resolve /\ kind = "server"
          BY <1>2, <2>6, <3>1, <3>6, <3>12, <4>1 DEF ResumeKnown, taken
        <4>2. CASE resolve /\ kind = "standalone"
          BY <2>6, <3>5, <3>12, <4>2 DEF ResumeKnown, taken
        <4>3. CASE kind # "router" => ~resolve
          <5>1. CASE d.key = Nil /\ kind # "standalone"
            BY <1>2, <2>6, <3>1, <3>7, <3>12, <4>3, <5>1 DEF ResumeKnown, taken
          <5>2. CASE d.key = Nil /\ kind = "standalone"
            BY <2>6, <3>5, <3>12, <4>3, <5>2 DEF ResumeKnown, taken
          <5>3. CASE d.key # Nil /\ AuthFails(d, st.en[c].key, verified)
            BY <2>6, <3>5, <3>12, <4>3, <5>3 DEF ResumeKnown, taken
          <5>4. CASE d.key # Nil /\ ~AuthFails(d, st.en[c].key, verified)
            <6>1. Resumed(taken, s, e)
              BY <2>6, <3>12, <4>3, <5>4 DEF ResumeKnown, taken
            <6> QED
              BY <3>8, <3>12, <4>3, <5>4, <6>1 DEF AuthFails
          <5> QED
            BY <5>1, <5>2, <5>3, <5>4
        <4> QED
          BY <3>10, <4>1, <4>2, <4>3
      <3> QED
        BY <3>11, <3>12
    <2> QED
      BY <2>1, <2>3, <2>4, <2>5, <2>6 DEF ResumeClient
  <1> QED
    BY <1>1, <1>3, <1>4

-----------------------------------------------------------------------------
(***************************************************************************)
(* What a reply leaves to silc_server_resume_client.                       *)
(***************************************************************************)

\* After a WHOIS reply: the entries found, the entries with these marked, and
\* those of our own clients whose mode the reply has overwritten.
WhoisFound(k, mode) ==
    {e \in FindClientById(WhoisSaved(k, mode), k.id) : WhoisSaved(k, mode)[e].detached}
WhoisMarked(k, mode) ==
    [e \in Entries |-> IF e \in WhoisFound(k, mode) THEN ResumeRes(WhoisSaved(k, mode)[e])
                       ELSE WhoisSaved(k, mode)[e]]
WhoisStale(k, mode) ==
    {e \in Entries : WhoisSaved(k, mode)[e].detached # entry[e].detached /\ entry[e].local}

\* After a GETKEY reply.
GetkeyStored(k, keyed) ==
    [e \in Entries |-> IF keyed /\ e \in FindClientById(entry, k.id) /\ entry[e].key = Nil
                       THEN [entry[e] EXCEPT !.key = entry[e].owner] ELSE entry[e]]

\* The entry of a client that was not known before.
Added(r, e) ==
    /\ r.st = "live" /\ r.reg /\ r.owner = RemoteOwner[e] /\ ~r.local /\ r.conn = Nil
    /\ r.key = Nil /\ ~r.home /\ ~r.resumed /\ ~r.expired

\* Equal in everything but key, resuming_client and the two marks.
Similar(r, q) ==
    /\ q.st = r.st /\ q.owner = r.owner /\ q.reg = r.reg /\ q.resumed = r.resumed
    /\ q.local = r.local /\ q.conn = r.conn /\ q.expired = r.expired /\ q.home = r.home

\* What the reply does to the entry e: it is added, or it keeps all but its mode
\* and the mark of the resume.
Learnt(k, mode, e) ==
    \/ /\ entry[e].st = "free" /\ e = k.id[1] /\ e \in Remotes
       /\ Added(WhoisMarked(k, mode)[e], e)
    \/ /\ Similar(entry[e], WhoisMarked(k, mode)[e])
       /\ WhoisMarked(k, mode)[e].key = entry[e].key
       /\ WhoisMarked(k, mode)[e].detached # entry[e].detached =>
            /\ entry[e].reg /\ k.id = Id(e) /\ WhoisMarked(k, mode)[e].detached = mode
            /\ entry[e].local => e \in WhoisStale(k, mode)
       /\ WhoisMarked(k, mode)[e].res # entry[e].res =>
            WhoisMarked(k, mode)[e].detached /\ entry[e].reg /\ k.id = Id(e)
Overwritten(k, mode, e) ==
    /\ e \in Entries /\ entry[e].local /\ entry[e].reg
    /\ entry[e].detached = ~mode /\ k.id = Id(e)

LEMMA WhoisEntries ==
    ASSUME entry \in Tables, NEW k, k.id \in Ids, NEW mode \in BOOLEAN,
           entry[k.id[1]].st = "free" => k.id \in Remotes \X {FALSE} /\ ~entry[k.id[1]].local
    PROVE  /\ WhoisMarked(k, mode) \in Tables
           /\ \A e \in Entries : Learnt(k, mode, e)
           /\ \A e \in WhoisStale(k, mode) : Overwritten(k, mode, e)
           /\ WhoisFound(k, mode) # {} => mode \/ WhoisStale(k, mode) = {}
  <1> DEFINE x == k.id[1]
             en == WhoisSaved(k, mode)
             new == [NoClient EXCEPT !.st = "live", !.reg = TRUE, !.owner = RemoteOwner[x],
                                     !.routed = TRUE, !.detached = mode, !.home = FALSE]
  <1>1. x \in Entries /\ k.id = <<x, k.id[2]>>
    BY DEF Ids
  <1>2. entry[x] \in EntryRecord /\ \A e \in Entries : entry[e] \in EntryRecord
    BY <1>1 DEF Tables
  <1>3. x \in Remotes => new \in EntryRecord /\ Added(new, x) /\ ~new.res
    BY RemotesAssumption, NilIsNoEntry DEF EntryRecord, NoClient, Added
  <1>4. [entry[x] EXCEPT !.detached = mode] \in EntryRecord
    BY <1>2 DEF EntryRecord
  <1>5. /\ Similar(entry[x], [entry[x] EXCEPT !.detached = mode])
        /\ [entry[x] EXCEPT !.detached = mode].key = entry[x].key
        /\ [entry[x] EXCEPT !.detached = mode].res = entry[x].res
        /\ [entry[x] EXCEPT !.detached = mode].detached = mode
    BY <1>2 DEF EntryRecord, Similar
  <1>6. \A e \in Entries : Similar(entry[e], entry[e])
    BY DEF Similar
  <1>7. en \in Tables /\ \A e \in Entries :
           \/ /\ entry[e].st = "free" /\ e = x /\ e \in Remotes /\ Added(en[e], e)
           \/ /\ Similar(entry[e], en[e]) /\ en[e].key = entry[e].key /\ en[e].res = entry[e].res
              /\ en[e].detached # entry[e].detached =>
                    entry[e].reg /\ k.id = Id(e) /\ en[e].detached = mode
    <2>1. CASE entry[x].st = "free"
      <3>1. en = [entry EXCEPT ![x] = new] /\ x \in Remotes
        BY <2>1 DEF WhoisSaved
      <3> HIDE DEF new, en
      <3> QED
        BY <2>1, <3>1, <1>1, <1>3, <1>6 DEF Tables
    <2>2. CASE entry[x].st # "free" /\ entry[x].reg /\ k.id = Id(x)
      <3>1. en = [entry EXCEPT ![x] = [entry[x] EXCEPT !.detached = mode]]
        BY <2>2 DEF WhoisSaved
      <3> HIDE DEF en
      <3> QED
        BY <2>2, <3>1, <1>1, <1>4, <1>5, <1>6 DEF Tables
    <2>3. CASE entry[x].st # "free" /\ ~(entry[x].reg /\ k.id = Id(x))
      <3>1. en = entry
        BY <2>3 DEF WhoisSaved
      <3> QED
        BY <3>1, <1>6
    <2> QED
      BY <2>1, <2>2, <2>3
  <1> HIDE DEF en, new
  <1>8. ASSUME NEW r \in EntryRecord
        PROVE  /\ ResumeRes(r) \in EntryRecord /\ Similar(r, ResumeRes(r)) /\ ResumeRes(r).res
               /\ ResumeRes(r).key = r.key /\ ResumeRes(r).detached = r.detached
    BY <1>8 DEF ResumeRes, EntryRecord, Similar
  <1>9. \A e \in WhoisFound(k, mode) : e \in Entries /\ en[e].detached /\ en[e].reg /\ k.id = <<e, en[e].home>>
    BY DEF WhoisFound, FindClientById, en
  <1>10. \A e \in Entries :
           WhoisMarked(k, mode)[e] = IF e \in WhoisFound(k, mode) THEN ResumeRes(en[e]) ELSE en[e]
    BY DEF WhoisMarked, en
  <1>11. WhoisMarked(k, mode) \in Tables
    <2>1. \A e \in Entries : WhoisMarked(k, mode)[e] \in EntryRecord
      BY <1>7, <1>8, <1>10 DEF Tables
    <2> QED
      BY <2>1 DEF WhoisMarked, Tables
  <1>12. \A e \in Entries : WhoisMarked(k, mode)[e].detached = en[e].detached
    BY <1>7, <1>8, <1>10 DEF Tables
  <1>13. \A e \in WhoisStale(k, mode) : /\ e \in Entries /\ entry[e].local
                                        /\ en[e].detached # entry[e].detached
    BY DEF WhoisStale, en
  <1>14. NoClient.local = FALSE
    BY DEF NoClient
  <1>15. ASSUME NEW e \in Entries
         PROVE  Learnt(k, mode, e)
    <2>1. en[e] \in EntryRecord
      BY <1>7 DEF Tables
    <2>2. CASE entry[e].st = "free" /\ e = x /\ e \in Remotes /\ Added(en[e], e)
      BY <1>8, <1>10, <2>1, <2>2 DEF Added, Similar, Learnt
    <2>3. CASE /\ Similar(entry[e], en[e]) /\ en[e].key = entry[e].key /\ en[e].res = entry[e].res
               /\ en[e].detached # entry[e].detached =>
                    entry[e].reg /\ k.id = Id(e) /\ en[e].detached = mode
      <3>1. Similar(entry[e], WhoisMarked(k, mode)[e]) /\ WhoisMarked(k, mode)[e].key = entry[e].key
        BY <1>8, <1>10, <2>1, <2>3 DEF Similar
      <3>2. en[e].detached # entry[e].detached /\ entry[e].local => e \in WhoisStale(k, mode)
        BY DEF WhoisStale, en
      <3>3. e \in WhoisFound(k, mode) => en[e].detached /\ entry[e].reg /\ k.id = Id(e)
        BY <1>9, <2>3 DEF Similar, Id
      <3>4. e \notin WhoisFound(k, mode) => WhoisMarked(k, mode)[e].res = entry[e].res
        BY <1>10, <2>3
      <3> QED
        BY <1>12, <2>3, <3>1, <3>2, <3>3, <3>4 DEF Learnt
    <2> QED
      BY <1>7, <2>2, <2>3
  <1>16. ASSUME NEW e \in WhoisStale(k, mode)
         PROVE  entry[e].reg /\ entry[e].detached = ~mode /\ k.id = Id(e)
    <2>1. e \in Entries /\ entry[e].local /\ en[e].detached # entry[e].detached
      BY <1>13
    <2>2. ~(entry[e].st = "free" /\ e = x)
      BY <2>1
    <2>3. entry[e].reg /\ k.id = Id(e) /\ en[e].detached = mode
      BY <1>7, <2>1, <2>2
    <2>4. entry[e].detached \in BOOLEAN
      BY <1>2, <2>1 DEF EntryRecord
    <2> QED
      BY <2>1, <2>3, <2>4
  <1>17. ASSUME NEW f \in WhoisFound(k, mode), NEW e \in WhoisStale(k, mode)
         PROVE  mode
    <2>1. f = x /\ en[f].detached
      BY <1>1, <1>9
    <2>2. e \in Entries /\ entry[e].local /\ en[e].detached # entry[e].detached
      BY <1>13
    <2>3. k.id = Id(e) /\ en[e].detached = mode
      BY <1>7, <2>2
    <2>4. e = x
      BY <1>1, <2>3 DEF Id
    <2> QED
      BY <2>1, <2>3, <2>4
  <1> QED
    BY <1>11, <1>13, <1>15, <1>16, <1>17 DEF Overwritten

LEMMA GetkeyEntries ==
    ASSUME entry \in Tables, NEW k, NEW keyed \in BOOLEAN
    PROVE  /\ GetkeyStored(k, keyed) \in Tables
           /\ \A e \in Entries :
                /\ Similar(entry[e], GetkeyStored(k, keyed)[e])
                /\ GetkeyStored(k, keyed)[e].detached = entry[e].detached
                /\ GetkeyStored(k, keyed)[e].res = entry[e].res
                /\ GetkeyStored(k, keyed)[e].key \in {entry[e].key, entry[e].owner}
  <1>1. ASSUME NEW e \in Entries
        PROVE  /\ GetkeyStored(k, keyed)[e] \in EntryRecord
               /\ Similar(entry[e], GetkeyStored(k, keyed)[e])
               /\ GetkeyStored(k, keyed)[e].detached = entry[e].detached
               /\ GetkeyStored(k, keyed)[e].res = entry[e].res
               /\ GetkeyStored(k, keyed)[e].key \in {entry[e].key, entry[e].owner}
    <2>1. entry[e] \in EntryRecord
      BY DEF Tables
    <2>2. CASE keyed /\ e \in FindClientById(entry, k.id) /\ entry[e].key = Nil
      <3>1. GetkeyStored(k, keyed)[e] = [entry[e] EXCEPT !.key = entry[e].owner]
        BY <2>2 DEF GetkeyStored
      <3> QED
        BY <2>1, <3>1 DEF EntryRecord, Similar
    <2>3. CASE ~(keyed /\ e \in FindClientById(entry, k.id) /\ entry[e].key = Nil)
      <3>1. GetkeyStored(k, keyed)[e] = entry[e]
        BY <2>3 DEF GetkeyStored
      <3> QED
        BY <2>1, <3>1 DEF Similar
    <2> QED
      BY <2>2, <2>3
  <1> QED
    BY <1>1 DEF GetkeyStored, Tables

-----------------------------------------------------------------------------
(***************************************************************************)
(* Types, and the owner of the session of a connection.                    *)
(***************************************************************************)

\* An entry that does not exist is blank; an entry has no key or that of its
\* owner; the entry of a connection is made with the connection; the context
\* of a connection exists and, while it is open, belongs to its user.
Owned(en, sk) ==
    /\ \A e \in Entries : en[e].st = "free" =>
          ~en[e].reg /\ ~en[e].local /\ ~en[e].expired /\ en[e].owner = Nil
    /\ \A e \in Entries : en[e].key \in {Nil, en[e].owner}
    /\ \A s \in Socks : sk[s].st = "free" => en[s].st = "free" /\ sk[s].ctx = Nil
    /\ \A s \in Socks : sk[s].ctx # Nil =>
          /\ en[sk[s].ctx].st # "free"
          /\ sk[s].st = "open" => sk[s].user = en[sk[s].ctx].owner

OwnerInv == TypeOK /\ Owned(entry, sock)

\* What most operations do to an entry and to a connection.
Follows(r, q) ==
    /\ q.owner = r.owner /\ q.key \in {Nil, r.key, r.owner}
    /\ q.st = "free" <=> r.st = "free"
    /\ r.st = "free" => q.reg = r.reg /\ q.local = r.local /\ q.expired = r.expired

SockFollows(x, y) ==
    /\ y.user = x.user /\ y.ctx \in {x.ctx, Nil}
    /\ y.st = "open" => x.st = "open"
    /\ y.st = "free" => x.st = "free"

LEMMA OwnedFollows ==
    ASSUME NEW en \in Tables, NEW en2 \in Tables, NEW sk \in Connections, NEW sk2 \in Connections,
           Owned(en, sk), \A e \in Entries : Follows(en[e], en2[e]),
           \A s \in Socks : SockFollows(sk[s], sk2[s])
    PROVE  Owned(en2, sk2)
  <1>1. \A e \in Entries : en2[e].st = "free" =>
          ~en2[e].reg /\ ~en2[e].local /\ ~en2[e].expired /\ en2[e].owner = Nil
    BY DEF Owned, Follows
  <1>2. \A e \in Entries : en2[e].key \in {Nil, en2[e].owner}
    BY DEF Owned, Follows
  <1>3. \A s \in Socks : sk2[s].st = "free" => en2[s].st = "free" /\ sk2[s].ctx = Nil
    BY NilIsNoEntry DEF Owned, Follows, SockFollows
  <1>4. ASSUME NEW s \in Socks, sk2[s].ctx # Nil
        PROVE  /\ en2[sk2[s].ctx].st # "free"
               /\ sk2[s].st = "open" => sk2[s].user = en2[sk2[s].ctx].owner
    <2>1. sk2[s].ctx = sk[s].ctx /\ sk[s].ctx \in Entries
      BY <1>4 DEF SockFollows, Connections, SockRecord
    <2> QED
      BY <2>1, <1>4 DEF Owned, Follows, SockFollows
  <1> QED
    BY <1>1, <1>2, <1>3, <1>4 DEF Owned

LEMMA FollowsItself ==
    /\ \A r : Follows(r, r) /\ SockFollows(r, r)
    /\ \A r, q : Alike(r, q) => Follows(r, q)
    /\ \A r \in EntryRecord : r.st # "free" => Follows(r, Unregistered(r)) /\ Follows(r, Deleted(r))
    /\ \A x \in SockRecord : SockFollows(x, ClosedSock(x)) /\ SockFollows(x, ClearedSock(x))
  <1>1. \A r : Follows(r, r) /\ SockFollows(r, r)
    BY DEF Follows, SockFollows
  <1>2. \A r, q : Alike(r, q) => Follows(r, q)
    BY DEF Follows, Alike
  <1>3. \A r \in EntryRecord : r.st # "free" => Follows(r, Unregistered(r)) /\ Follows(r, Deleted(r))
    BY UnregisteredEntry, DeletedEntry DEF Follows
  <1>4. \A x \in SockRecord : SockFollows(x, ClosedSock(x)) /\ SockFollows(x, ClearedSock(x))
    BY ClosedConnection DEF SockFollows
  <1> QED
    BY <1>1, <1>2, <1>3, <1>4

\* A disconnect.
LEMMA DisconnectOwned ==
    ASSUME NEW en \in Tables, sock \in Connections, Owned(en, sock), NEW s \in Socks, Disconnect(en, s)
    PROVE  entry' \in Tables /\ sock' \in Connections /\ Owned(entry', sock')
  <1>1. /\ entry' \in Tables /\ sock' \in Connections
        /\ \A e \in Entries : entry'[e] = IF e = sock[s].ctx THEN Unregistered(en[e]) ELSE en[e]
        /\ \A r \in Socks : sock'[r] = IF r = s THEN ClearedSock(sock[r]) ELSE sock[r]
    BY Disconnects
  <1>2. \A e \in Entries : Follows(en[e], entry'[e])
    <2> SUFFICES ASSUME NEW e \in Entries PROVE Follows(en[e], entry'[e])
      OBVIOUS
    <2>1. en[e] \in EntryRecord /\ (e = sock[s].ctx => en[e].st # "free")
      BY NilIsNoEntry DEF Tables, Owned
    <2> QED
      BY <1>1, <2>1, FollowsItself
  <1>3. \A r \in Socks : SockFollows(sock[r], sock'[r])
    <2> SUFFICES ASSUME NEW r \in Socks PROVE SockFollows(sock[r], sock'[r])
      OBVIOUS
    <2>1. sock[r] \in SockRecord
      BY DEF Connections
    <2> QED
      BY <1>1, <2>1, FollowsItself
  <1> QED
    BY <1>1, <1>2, <1>3, OwnedFollows

\* The tasks a resume may add.
LEMMA ResumeTasks ==
    ASSUME NEW en \in Tables, NEW s \in Socks, NEW id \in Ids
    PROVE  WhoisTask(en, s, id) \in TaskRecord /\ [t |-> "getkey", s |-> s, id |-> id] \in TaskRecord
  <1>1. \A e \in Entries : en[e].detached \in BOOLEAN
    BY DEF Tables, EntryRecord
  <1>2. {en[e].detached : e \in {e \in FindClientById(en, id) : en[e].local}} \subseteq BOOLEAN
    BY <1>1 DEF FindClientById
  <1>3. WhoisTask(en, s, id).modes \subseteq BOOLEAN
    BY <1>2 DEF WhoisTask
  <1>4. WhoisTask(en, s, id) \in [t : {"whois"}, s : Socks, id : Ids, modes : SUBSET BOOLEAN]
    BY <1>2 DEF WhoisTask
  <1> QED
    BY <1>4 DEF TaskRecord

\* silc_server_resume_client from entries that are owned.
LEMMA ResumeOwned ==
    ASSUME TypeOK, NEW en \in Tables, NEW tk \in SUBSET TaskRecord, NEW rc \in SUBSET Entries,
           NEW s \in Socks, NEW id \in Ids, NEW complete \in BOOLEAN, NEW verified \in BOOLEAN,
           Owned(en, sock), ResumeClient(Before(en, tk, rc), s, id, complete, verified)
    PROVE  /\ entry' \in Tables /\ sock' \in Connections /\ tasks' \subseteq TaskRecord
           /\ raced' \subseteq Entries /\ down' \in BOOLEAN /\ Owned(entry', sock')
  <1>1. sock \in Connections /\ kind \in Kinds /\ down \in BOOLEAN
    BY DEF TypeOK, Connections
  <1>2. CASE Crashes
    <2>1. NoEntries \in Tables /\ NoSocks \in Connections
      BY NoClientEntry DEF NoEntries, NoSocks, Tables, Connections, SockRecord
    <2>2. Owned(NoEntries, NoSocks)
      BY NilIsNoEntry DEF Owned, NoEntries, NoSocks, NoClient
    <2> QED
      BY <1>2, <2>1, <2>2 DEF Crashes
  <1>3. ASSUME sock[s].ctx \in Entries, UNCHANGED down, NEW en2 \in Tables,
               \A e \in Entries : Alike(en[e], en2[e]), Outcome(en2, tk, rc, s, id)
        PROVE  /\ entry' \in Tables /\ sock' \in Connections /\ tasks' \subseteq TaskRecord
               /\ raced' \subseteq Entries /\ down' \in BOOLEAN /\ Owned(entry', sock')
    <2>1. Owned(en2, sock)
      BY <1>1, <1>3, FollowsItself, OwnedFollows
    <2>2. CASE Waits(en2, tk, rc, s, id)
      BY <1>1, <1>3, <2>1, <2>2, ResumeTasks DEF Waits
    <2>3. CASE Refuses(en2, tk, rc, s)
      BY <1>1, <1>3, <2>1, <2>3, DisconnectOwned DEF Refuses
    <2>4. ASSUME NEW e \in Entries, Resumes(en2, tk, rc, s, e)
          PROVE  /\ entry' \in Tables /\ sock' \in Connections /\ tasks' \subseteq TaskRecord
                 /\ raced' \subseteq Entries /\ down' \in BOOLEAN /\ Owned(entry', sock')
      <3> DEFINE c == sock[s].ctx
      <3>1. /\ entry' \in Tables /\ sock' \in Connections /\ tasks' = tk /\ raced' \subseteq Entries
            /\ en2[e].reg /\ en2[e].key # Nil /\ en2[e].key = en2[c].key
            /\ \A d \in Entries : entry'[d] = IF d = c THEN Deleted(en2[d])
                                              ELSE IF d = e THEN Attached(en2[d], s, en2[c].key) ELSE en2[d]
            /\ \A r \in Socks : sock'[r] = IF r = s THEN [sock[r] EXCEPT !.ctx = e] ELSE sock[r]
        BY <2>4 DEF Resumes
      <3>2. c # Nil /\ en2[c].st # "free" /\ en2[e].st # "free"
        BY <1>3, <2>1, <3>1, NilIsNoEntry DEF Owned
      <3>3. en2[c].owner = en2[e].owner
        BY <1>3, <2>1, <3>1 DEF Owned
      <3>4. \A d \in Entries : Follows(en2[d], entry'[d])
        <4> SUFFICES ASSUME NEW d \in Entries PROVE Follows(en2[d], entry'[d])
          OBVIOUS
        <4>1. en2[d] \in EntryRecord /\ en2[c].key \in Users \cup {Nil}
          BY <1>3 DEF Tables, EntryRecord
        <4>2. d = e => Follows(en2[d], Attached(en2[d], s, en2[c].key))
          BY <3>1, <3>2, <4>1, AttachedEntry DEF Follows
        <4> QED
          BY <3>1, <3>2, <4>1, <4>2, FollowsItself
      <3>5. Owned(entry', sock)
        BY <1>1, <2>1, <3>1, <3>4, FollowsItself, OwnedFollows
      <3>6. entry'[c].owner = entry'[e].owner /\ entry'[e].st # "free"
        BY <1>3, <3>2, <3>3, <3>4 DEF Follows
      <3>7. /\ sock'[s].ctx = e /\ sock'[s].st = sock[s].st /\ sock'[s].user = sock[s].user
            /\ \A r \in Socks \ {s} : sock'[r] = sock[r]
        BY <1>1, <3>1 DEF Connections, SockRecord
      <3>8. sock[s].st # "free"
        BY <3>2, <3>5 DEF Owned
      <3>9. Owned(entry', sock')
        BY <3>2, <3>5, <3>6, <3>7, <3>8 DEF Owned
      <3> QED
        BY <1>1, <1>3, <3>1, <3>9
    <2> QED
      BY <1>3, <2>2, <2>3, <2>4 DEF Outcome
  <1> QED
    BY <1>1, <1>2, <1>3, ResumeOutcome

-----------------------------------------------------------------------------
(***************************************************************************)
(* What the other actions do to one entry, or to one connection.           *)
(***************************************************************************)

ConnectedEntry(r, s, u) ==
    [r EXCEPT !.st = "live", !.owner = u, !.local = TRUE, !.conn = s, !.key = u]
RegisteredEntry(r) == [r EXCEPT !.reg = TRUE]
DetachedEntry(r) == [r EXCEPT !.detached = TRUE, !.resumed = FALSE]
UnconnectedEntry(r) == [r EXCEPT !.routed = FALSE, !.conn = Nil]
AnnouncedEntry(r, e) == [r EXCEPT !.st = "live", !.reg = TRUE, !.owner = RemoteOwner[e],
                                  !.routed = TRUE, !.home = FALSE]
MovedEntry(r) == [r EXCEPT !.key = Nil, !.detached = FALSE, !.resumed = TRUE, !.local = FALSE,
                           !.expired = FALSE, !.routed = TRUE]
RenamedEntry(r) == [r EXCEPT !.home = FALSE]
OpenSock(x, s, u) == [x EXCEPT !.st = "open", !.user = u, !.ctx = s]
SentSock(x) == [x EXCEPT !.sent = TRUE]

LEMMA ConnectedFields ==
    ASSUME NEW r \in EntryRecord, NEW s \in Socks, NEW u \in Users
    PROVE  /\ ConnectedEntry(r, s, u) \in EntryRecord
           /\ ConnectedEntry(r, s, u).st = "live" /\ ConnectedEntry(r, s, u).owner = u
           /\ ConnectedEntry(r, s, u).reg = r.reg
           /\ ConnectedEntry(r, s, u).resumed = r.resumed
           /\ ConnectedEntry(r, s, u).res = r.res /\ ConnectedEntry(r, s, u).local
           /\ ConnectedEntry(r, s, u).detached = r.detached
           /\ ConnectedEntry(r, s, u).conn = s /\ ConnectedEntry(r, s, u).key = u
           /\ ConnectedEntry(r, s, u).expired = r.expired
           /\ ConnectedEntry(r, s, u).home = r.home
  BY DEF EntryRecord, ConnectedEntry

LEMMA RegisteredFields ==
    ASSUME NEW r \in EntryRecord
    PROVE  /\ RegisteredEntry(r) \in EntryRecord
           /\ RegisteredEntry(r).st = r.st /\ RegisteredEntry(r).owner = r.owner
           /\ RegisteredEntry(r).reg /\ RegisteredEntry(r).resumed = r.resumed
           /\ RegisteredEntry(r).res = r.res /\ RegisteredEntry(r).local = r.local
           /\ RegisteredEntry(r).detached = r.detached /\ RegisteredEntry(r).conn = r.conn
           /\ RegisteredEntry(r).key = r.key /\ RegisteredEntry(r).expired = r.expired
           /\ RegisteredEntry(r).home = r.home
  BY DEF EntryRecord, RegisteredEntry

LEMMA DetachedFields ==
    ASSUME NEW r \in EntryRecord
    PROVE  /\ DetachedEntry(r) \in EntryRecord
           /\ DetachedEntry(r).st = r.st /\ DetachedEntry(r).owner = r.owner
           /\ DetachedEntry(r).reg = r.reg /\ ~DetachedEntry(r).resumed
           /\ DetachedEntry(r).res = r.res /\ DetachedEntry(r).local = r.local
           /\ DetachedEntry(r).detached /\ DetachedEntry(r).conn = r.conn
           /\ DetachedEntry(r).key = r.key /\ DetachedEntry(r).expired = r.expired
           /\ DetachedEntry(r).home = r.home
  BY DEF EntryRecord, DetachedEntry

LEMMA UnconnectedFields ==
    ASSUME NEW r \in EntryRecord
    PROVE  /\ UnconnectedEntry(r) \in EntryRecord
           /\ UnconnectedEntry(r).st = r.st /\ UnconnectedEntry(r).owner = r.owner
           /\ UnconnectedEntry(r).reg = r.reg /\ UnconnectedEntry(r).resumed = r.resumed
           /\ UnconnectedEntry(r).res = r.res /\ UnconnectedEntry(r).local = r.local
           /\ UnconnectedEntry(r).detached = r.detached /\ UnconnectedEntry(r).conn = Nil
           /\ UnconnectedEntry(r).key = r.key /\ UnconnectedEntry(r).expired = r.expired
           /\ UnconnectedEntry(r).home = r.home
  BY DEF EntryRecord, UnconnectedEntry

LEMMA AnnouncedFields ==
    ASSUME NEW r \in EntryRecord, NEW e \in Remotes
    PROVE  /\ AnnouncedEntry(r, e) \in EntryRecord
           /\ AnnouncedEntry(r, e).st = "live"
           /\ AnnouncedEntry(r, e).owner = RemoteOwner[e] /\ AnnouncedEntry(r, e).reg
           /\ AnnouncedEntry(r, e).resumed = r.resumed /\ AnnouncedEntry(r, e).res = r.res
           /\ AnnouncedEntry(r, e).local = r.local
           /\ AnnouncedEntry(r, e).detached = r.detached
           /\ AnnouncedEntry(r, e).conn = r.conn /\ AnnouncedEntry(r, e).key = r.key
           /\ AnnouncedEntry(r, e).expired = r.expired /\ ~AnnouncedEntry(r, e).home
  <1>1. RemoteOwner[e] \in Users
    BY RemotesAssumption
  <1> QED
    BY <1>1 DEF EntryRecord, AnnouncedEntry

LEMMA MovedFields ==
    ASSUME NEW r \in EntryRecord
    PROVE  /\ MovedEntry(r) \in EntryRecord
           /\ MovedEntry(r).st = r.st /\ MovedEntry(r).owner = r.owner
           /\ MovedEntry(r).reg = r.reg /\ MovedEntry(r).resumed
           /\ MovedEntry(r).res = r.res /\ ~MovedEntry(r).local /\ ~MovedEntry(r).detached
           /\ MovedEntry(r).conn = r.conn /\ MovedEntry(r).key = Nil
           /\ ~MovedEntry(r).expired /\ MovedEntry(r).home = r.home
  BY DEF EntryRecord, MovedEntry

LEMMA RenamedFields ==
    ASSUME NEW r \in EntryRecord
    PROVE  /\ RenamedEntry(r) \in EntryRecord
           /\ RenamedEntry(r).st = r.st /\ RenamedEntry(r).owner = r.owner
           /\ RenamedEntry(r).reg = r.reg /\ RenamedEntry(r).resumed = r.resumed
           /\ RenamedEntry(r).res = r.res /\ RenamedEntry(r).local = r.local
           /\ RenamedEntry(r).detached = r.detached /\ RenamedEntry(r).conn = r.conn
           /\ RenamedEntry(r).key = r.key /\ RenamedEntry(r).expired = r.expired
           /\ ~RenamedEntry(r).home
  BY DEF EntryRecord, RenamedEntry

LEMMA OpenFields ==
    ASSUME NEW x \in SockRecord, NEW s \in Socks, NEW u \in Users
    PROVE  /\ OpenSock(x, s, u) \in SockRecord
           /\ OpenSock(x, s, u).st = "open" /\ OpenSock(x, s, u).user = u
           /\ OpenSock(x, s, u).ctx = s /\ OpenSock(x, s, u).sent = x.sent
  BY NilIsNoEntry DEF SockRecord, OpenSock

LEMMA SentFields ==
    ASSUME NEW x \in SockRecord
    PROVE  /\ SentSock(x) \in SockRecord
           /\ SentSock(x).st = x.st /\ SentSock(x).user = x.user /\ SentSock(x).ctx = x.ctx
           /\ SentSock(x).sent
  BY DEF SockRecord, SentSock

\* One entry, or one connection, is changed.
Becomes(e, q) ==
    entry' \in Tables /\ \A d \in Entries : entry'[d] = IF d = e THEN q ELSE entry[d]
SockBecomes(s, y) ==
    sock' \in Connections /\ \A r \in Socks : sock'[r] = IF r = s THEN y ELSE sock[r]

LEMMA OneChange ==
    ASSUME TypeOK
    PROVE  /\ \A e \in Entries, q \in EntryRecord : entry' = [entry EXCEPT ![e] = q] => Becomes(e, q)
           /\ \A s \in Socks, y \in SockRecord : sock' = [sock EXCEPT ![s] = y] => SockBecomes(s, y)
           /\ UNCHANGED entry => entry' \in Tables
           /\ UNCHANGED sock => sock' \in Connections
           /\ \A e \in Entries : entry[e] \in EntryRecord
           /\ \A s \in Socks : /\ sock[s] \in SockRecord /\ sock[s].ctx \in Entries \cup {Nil}
                               /\ sock[s].ctx # Nil => sock[s].ctx \in Entries
  BY DEF TypeOK, Tables, Connections, Becomes, SockBecomes, SockRecord

LEMMA ConnectEffect ==
    ASSUME TypeOK, NEW s \in Socks, NEW u \in Users, Connect(s, u)
    PROVE  /\ sock[s].st = "free" /\ UNCHANGED <<kind, tasks, raced, down>>
           /\ Becomes(s, ConnectedEntry(entry[s], s, u)) /\ SockBecomes(s, OpenSock(sock[s], s, u))
  <1>1. s \in Entries /\ entry[s] \in EntryRecord /\ sock[s] \in SockRecord
    BY NilIsNoEntry, OneChange
  <1>2. ConnectedEntry(entry[s], s, u) \in EntryRecord /\ OpenSock(sock[s], s, u) \in SockRecord
    BY <1>1, ConnectedFields, OpenFields
  <1>3. /\ entry' = [entry EXCEPT ![s] = ConnectedEntry(entry[s], s, u)]
        /\ sock' = [sock EXCEPT ![s] = OpenSock(sock[s], s, u)]
    BY DEF Connect, ConnectedEntry, OpenSock
  <1> QED
    BY <1>1, <1>2, <1>3, OneChange DEF Connect

LEMMA NewClientEffect ==
    ASSUME TypeOK, NEW s \in Socks, NewClient(s)
    PROVE  /\ sock[s].st = "open" /\ ~sock[s].sent /\ sock[s].ctx \in Entries /\ ~entry[sock[s].ctx].reg
           /\ UNCHANGED <<kind, tasks, raced, down>>
           /\ ~\E k \in tasks : k.t \in {"whois", "getkey"} /\ k.s = s
           /\ \/ UNCHANGED sock /\ Becomes(sock[s].ctx, RegisteredEntry(entry[sock[s].ctx]))
              \/ Disconnect(entry, s)
  <1>1. sock[s].ctx \in Entries /\ entry[sock[s].ctx] \in EntryRecord
    BY OneChange DEF NewClient
  <1>2. RegisteredEntry(entry[sock[s].ctx]) \in EntryRecord
    BY <1>1, RegisteredFields
  <1>3. CASE entry' = [entry EXCEPT ![sock[s].ctx].reg = TRUE] /\ UNCHANGED sock
    <2>1. entry' = [entry EXCEPT ![sock[s].ctx] = RegisteredEntry(entry[sock[s].ctx])]
      BY <1>3 DEF RegisteredEntry
    <2>2. Becomes(sock[s].ctx, RegisteredEntry(entry[sock[s].ctx]))
      BY <1>1, <1>2, <2>1, OneChange
    <2> QED
      BY <1>1, <1>3, <2>2 DEF NewClient
  <1>4. CASE Disconnect(entry, s)
    BY <1>1, <1>4 DEF NewClient
  <1> QED
    BY <1>3, <1>4 DEF NewClient

LEMMA CommandProcessEffect ==
    ASSUME TypeOK, NEW s \in Socks, NEW c \in Commands, CommandProcess(s, c)
    PROVE  /\ sock[s].st = "open" /\ sock[s].ctx \in Entries /\ ~sock[s].sent
           /\ UNCHANGED <<kind, entry, raced, down>> /\ SockBecomes(s, SentSock(sock[s]))
           /\ tasks' = tasks \cup {[t |-> "command", s |-> s, c |-> c]}
           /\ [t |-> "command", s |-> s, c |-> c] \in TaskRecord
  <1>1. sock[s] \in SockRecord /\ sock[s].ctx \in Entries
    BY OneChange DEF CommandProcess
  <1>2. SentSock(sock[s]) \in SockRecord
    BY <1>1, SentFields
  <1>3. sock' = [sock EXCEPT ![s] = SentSock(sock[s])]
    BY DEF CommandProcess, SentSock
  <1>4. SockBecomes(s, SentSock(sock[s]))
    BY <1>2, <1>3, OneChange
  <1> QED
    BY <1>1, <1>4 DEF CommandProcess, TaskRecord

\* The delayed command.
LEMMA CommandEffect ==
    ASSUME TypeOK, NEW k \in tasks, CommandProcessTimeout(k)
    PROVE  /\ k.s \in Socks /\ k.t = "command" /\ UNCHANGED <<kind, sock, raced, down>>
           /\ tasks' \subseteq TaskRecord
           /\ \/ UNCHANGED entry /\ tasks' = tasks \ {k}
              \/ /\ sock[k.s].ctx \in Entries /\ entry[sock[k.s].ctx].reg
                 /\ UNCHANGED entry /\ tasks' = (tasks \ {k}) \cup {[t |-> "quit_cb", s |-> k.s]}
              \/ /\ sock[k.s].ctx \in Entries /\ entry[sock[k.s].ctx].reg
                 /\ Becomes(sock[k.s].ctx, DetachedEntry(entry[sock[k.s].ctx]))
                 /\ \E m \in {[t |-> "detach_cb", s |-> k.s], DetachTimeoutTask(k.s, sock[k.s].ctx)} :
                      tasks' = (tasks \ {k}) \cup {[t |-> "detach_cb", s |-> k.s], m}
  <1> DEFINE s == k.s
             e == sock[s].ctx
  <1>1. s \in Socks /\ tasks \subseteq TaskRecord
    BY DEF TypeOK, TaskRecord
  <1>2. k.t = "command" /\ UNCHANGED <<kind, sock, raced, down>>
    BY DEF CommandProcessTimeout
  <1>3. CASE e = Nil \/ ~entry[e].reg
    <2>1. UNCHANGED entry /\ tasks' = tasks \ {k}
      BY <1>3 DEF CommandProcessTimeout
    <2> QED
      BY <1>1, <1>2, <2>1
  <1>4. CASE ~(e = Nil \/ ~entry[e].reg) /\ k.c = "quit"
    <2>1. e \in Entries /\ entry[e].reg
      BY <1>1, <1>4, OneChange
    <2>2. UNCHANGED entry /\ tasks' = (tasks \ {k}) \cup {[t |-> "quit_cb", s |-> s]}
      BY <1>4 DEF CommandProcessTimeout
    <2>3. [t |-> "quit_cb", s |-> s] \in TaskRecord
      BY <1>1 DEF TaskRecord
    <2> QED
      BY <1>1, <1>2, <2>1, <2>2, <2>3
  <1>5. CASE ~(e = Nil \/ ~entry[e].reg) /\ k.c # "quit"
    <2>1. e \in Entries /\ entry[e].reg /\ entry[e] \in EntryRecord
      BY <1>1, <1>5, OneChange
    <2>2. /\ entry' = [entry EXCEPT ![e] = DetachedEntry(entry[e])]
          /\ \E set \in DetachTimeouts :
               tasks' = (tasks \ {k}) \cup {[t |-> "detach_cb", s |-> s]}
                          \cup (IF set THEN {DetachTimeoutTask(s, e)} ELSE {})
      BY <1>5 DEF CommandProcessTimeout, DetachedEntry
    <2>3. DetachedEntry(entry[e]) \in EntryRecord
      BY <2>1, DetachedFields
    <2>4. Becomes(e, DetachedEntry(entry[e]))
      BY <2>1, <2>2, <2>3, OneChange
    <2>5. [t |-> "detach_cb", s |-> s] \in TaskRecord /\ DetachTimeoutTask(s, e) \in TaskRecord
      <3>1. entry[e].home \in BOOLEAN
        BY <2>1 DEF EntryRecord
      <3> QED
        BY <1>1, <2>1, <3>1 DEF TaskRecord, DetachTimeoutTask, Id, Ids
    <2>6. \E m \in {[t |-> "detach_cb", s |-> s], DetachTimeoutTask(s, e)} :
            tasks' = (tasks \ {k}) \cup {[t |-> "detach_cb", s |-> s], m}
      BY <2>2
    <2>7. tasks' \subseteq TaskRecord
      BY <1>1, <2>5, <2>6
    <2> QED
      BY <1>1, <1>2, <2>1, <2>4, <2>6, <2>7
  <1> QED
    BY <1>3, <1>4, <1>5

LEMMA DetachCbEffect ==
    ASSUME TypeOK, NEW k \in tasks, DetachCb(k)
    PROVE  /\ k.s \in Socks /\ k.t = "detach_cb" /\ tasks' = tasks \ {k} /\ UNCHANGED <<kind, raced, down>>
           /\ \/ sock[k.s].ctx = Nil /\ UNCHANGED <<entry, sock>>
              \/ /\ sock[k.s].ctx \in Entries
                 /\ Becomes(sock[k.s].ctx, UnconnectedEntry(entry[sock[k.s].ctx]))
                 /\ SockBecomes(k.s, ClosedSock(sock[k.s]))
  <1> DEFINE s == k.s
             e == sock[s].ctx
  <1>1. s \in Socks /\ sock[s] \in SockRecord
    BY OneChange DEF TypeOK, TaskRecord
  <1>2. CASE e = Nil
    BY <1>1, <1>2 DEF DetachCb
  <1>3. CASE e # Nil
    <2>1. e \in Entries /\ entry[e] \in EntryRecord
      BY <1>1, <1>3, OneChange
    <2>2. /\ entry' = [entry EXCEPT ![e] = UnconnectedEntry(entry[e])]
          /\ sock' = [sock EXCEPT ![s] = ClosedSock(sock[s])]
      BY <1>3, <2>1 DEF DetachCb, UnconnectedEntry, EntryRecord, TypeOK
    <2>3. UnconnectedEntry(entry[e]) \in EntryRecord /\ ClosedSock(sock[s]) \in SockRecord
      BY <1>1, <2>1, UnconnectedFields, ClosedConnection
    <2>4. Becomes(e, UnconnectedEntry(entry[e])) /\ SockBecomes(s, ClosedSock(sock[s]))
      BY <1>1, <2>1, <2>2, <2>3, OneChange
    <2> QED
      BY <1>1, <2>1, <2>4 DEF DetachCb
  <1> QED
    BY <1>2, <1>3

LEMMA DetachTimeoutEffect ==
    ASSUME TypeOK, NEW k \in tasks, DetachTimeout(k)
    PROVE  /\ k.s \in Socks /\ k.t = "detach_timeout" /\ [t |-> "detach_cb", s |-> k.s] \notin tasks
           /\ tasks' = tasks \ {k} /\ UNCHANGED <<kind, sock, raced, down>>
           /\ entry' \in Tables
           /\ \A e \in Entries : \/ entry'[e] = entry[e]
                                 \/ /\ entry[e].reg /\ entry[e].local /\ entry[e].detached
                                    /\ entry'[e] = Unregistered(entry[e])
  <1>1. entry' = [e \in Entries |-> IF DetachExpires(e, k.id) THEN Unregistered(entry[e]) ELSE entry[e]]
    BY DEF DetachTimeout
  <1>2. \A e \in Entries : DetachExpires(e, k.id) => entry[e].reg /\ entry[e].local /\ entry[e].detached
    BY DEF DetachExpires, FindClientById
  <1>3. \A e \in Entries : entry'[e] \in EntryRecord
    BY <1>1, OneChange, UnregisteredEntry
  <1>4. entry' \in Tables
    BY <1>1, <1>3 DEF Tables
  <1> QED
    BY <1>1, <1>2, <1>4 DEF DetachTimeout, TypeOK, TaskRecord

LEMMA KilledEffect ==
    ASSUME TypeOK, NEW e \in Entries, Killed(e)
    PROVE  \/ entry[e].conn \in Socks /\ Disconnect(entry, entry[e].conn)
           \/ entry[e].conn = Nil /\ UNCHANGED sock /\ Becomes(e, Deleted(entry[e]))
  <1>1. entry[e] \in EntryRecord /\ entry[e].conn \in Socks \cup {Nil}
    BY OneChange DEF EntryRecord
  <1>2. Deleted(entry[e]) \in EntryRecord
    BY <1>1, DeletedEntry
  <1>3. entry[e].conn = Nil => UNCHANGED sock /\ entry' = [entry EXCEPT ![e] = Deleted(entry[e])]
    BY DEF Killed
  <1>4. entry[e].conn # Nil => Disconnect(entry, entry[e].conn)
    BY DEF Killed
  <1> QED
    BY <1>1, <1>2, <1>3, <1>4, OneChange

\* What the network reports about a client.
LEMMA NotifyEffect ==
    ASSUME TypeOK, NEW e \in Entries,
           NewId(e) \/ UmodeNotify(e) \/ NickChangeNotify(e)
    PROVE  /\ UNCHANGED <<kind, sock, tasks, raced, down>>
           /\ \/ /\ e \in Remotes /\ entry[e].st = "free"
                 /\ Becomes(e, AnnouncedEntry(entry[e], e))
              \/ entry[e].reg /\ ~entry[e].local /\ Becomes(e, DetachedEntry(entry[e]))
              \/ entry[e].reg /\ ~entry[e].local /\ Becomes(e, RenamedEntry(entry[e]))
  <1>1. entry[e] \in EntryRecord
    BY OneChange
  <1>2. CASE NewId(e)
    <2>1. e \in Remotes /\ entry[e].st = "free"
          /\ entry' = [entry EXCEPT ![e] = AnnouncedEntry(entry[e], e)]
      BY <1>2 DEF NewId, AnnouncedEntry
    <2>2. AnnouncedEntry(entry[e], e) \in EntryRecord
      BY <1>1, <2>1, AnnouncedFields
    <2> QED
      BY <1>2, <2>1, <2>2, OneChange DEF NewId
  <1>3. CASE UmodeNotify(e)
    <2>1. entry' = [entry EXCEPT ![e] = DetachedEntry(entry[e])]
      BY <1>1, <1>3 DEF UmodeNotify, DetachedEntry, EntryRecord, TypeOK
    <2>2. DetachedEntry(entry[e]) \in EntryRecord
      BY <1>1, DetachedFields
    <2> QED
      BY <1>3, <2>1, <2>2, OneChange DEF UmodeNotify
  <1>4. CASE NickChangeNotify(e)
    <2>1. entry' = [entry EXCEPT ![e] = RenamedEntry(entry[e])]
      BY <1>4 DEF NickChangeNotify, RenamedEntry
    <2>2. RenamedEntry(entry[e]) \in EntryRecord
      BY <1>1, RenamedFields
    <2> QED
      BY <1>4, <2>1, <2>2, OneChange DEF NickChangeNotify
  <1> QED
    BY <1>2, <1>3, <1>4

LEMMA SignoffEffect ==
    ASSUME TypeOK, NEW e \in Entries, SignoffNotify(e) \/ KilledNotify(e)
    PROVE  /\ UNCHANGED <<kind, tasks, raced, down>> /\ entry[e].reg
           /\ Becomes(e, Unregistered(entry[e]))
           /\ \/ UNCHANGED sock /\ (~entry[e].local \/ entry[e].conn = Nil)
              \/ entry[e].conn \in Socks /\ SockBecomes(entry[e].conn, ClearedSock(sock[entry[e].conn]))
              \/ entry[e].conn \in Socks /\ SockBecomes(entry[e].conn, ClosedSock(sock[entry[e].conn]))
  <1>1. entry[e] \in EntryRecord /\ entry[e].conn \in Socks \cup {Nil}
    BY OneChange DEF EntryRecord
  <1>2. Unregistered(entry[e]) \in EntryRecord
    BY <1>1, UnregisteredEntry
  <1>3. entry' = [entry EXCEPT ![e] = Unregistered(entry[e])]
    BY DEF SignoffNotify, KilledNotify
  <1>4. Becomes(e, Unregistered(entry[e]))
    BY <1>2, <1>3, OneChange
  <1>5. \A s \in Socks : ClearedSock(sock[s]) \in SockRecord /\ ClosedSock(sock[s]) \in SockRecord
    BY OneChange, ClosedConnection
  <1>6. \/ UNCHANGED sock /\ (~entry[e].local \/ entry[e].conn = Nil)
        \/ /\ entry[e].conn \in Socks
           /\ sock' = [sock EXCEPT ![entry[e].conn] = ClearedSock(sock[entry[e].conn])]
        \/ /\ entry[e].conn \in Socks
           /\ sock' = [sock EXCEPT ![entry[e].conn] = ClosedSock(sock[entry[e].conn])]
    BY <1>1 DEF SignoffNotify, KilledNotify
  <1>7. \/ UNCHANGED sock /\ (~entry[e].local \/ entry[e].conn = Nil)
        \/ entry[e].conn \in Socks /\ SockBecomes(entry[e].conn, ClearedSock(sock[entry[e].conn]))
        \/ entry[e].conn \in Socks /\ SockBecomes(entry[e].conn, ClosedSock(sock[entry[e].conn]))
    BY <1>5, <1>6, OneChange
  <1> QED
    BY <1>4, <1>7 DEF SignoffNotify, KilledNotify

LEMMA ResumeNotifyEffect ==
    ASSUME TypeOK, NEW e \in Entries, ResumeNotify(e)
    PROVE  /\ UNCHANGED <<kind, tasks, down>> /\ entry[e].reg
           /\ \/ Killed(e) /\ UNCHANGED raced
              \/ /\ entry[e].detached /\ UNCHANGED sock
                 /\ Becomes(e, MovedEntry(entry[e]))
                 /\ raced' = IF DetachPending(e) THEN raced \cup {e} ELSE raced
  <1>1. entry[e] \in EntryRecord
    BY OneChange
  <1>2. MovedEntry(entry[e]) \in EntryRecord
    BY <1>1, MovedFields
  <1>3. CASE Killed(e) /\ UNCHANGED raced
    BY <1>3 DEF ResumeNotify
  <1>4. CASE /\ entry[e].detached /\ UNCHANGED sock
             /\ entry' = [entry EXCEPT ![e] = MovedEntry(entry[e])]
             /\ raced' = IF DetachPending(e) THEN raced \cup {e} ELSE raced
    BY <1>2, <1>4, OneChange DEF ResumeNotify
  <1> QED
    BY <1>3, <1>4 DEF ResumeNotify, MovedEntry

-----------------------------------------------------------------------------
\* Every step keeps the types and the owners.
LEMMA OwnerKept ==
    ASSUME OwnerInv, Next
    PROVE  OwnerInv'
  <1> USE DEF OwnerInv
  <1>1. entry \in Tables /\ sock \in Connections /\ kind \in Kinds /\ tasks \subseteq TaskRecord
        /\ raced \subseteq Entries /\ down \in BOOLEAN
    BY DEF TypeOK, Tables, Connections
  <1>2. ASSUME entry' \in Tables, sock' \in Connections, UNCHANGED kind, tasks' \subseteq TaskRecord,
               raced' \subseteq Entries, down' \in BOOLEAN, Owned(entry', sock')
        PROVE  OwnerInv'
    BY <1>1, <1>2 DEF TypeOK, Tables, Connections
  <1>3. ASSUME entry' \in Tables, sock' \in Connections, UNCHANGED kind, tasks' \subseteq TaskRecord,
               raced' \subseteq Entries, down' \in BOOLEAN,
               \A e \in Entries : Follows(entry[e], entry'[e]),
               \A s \in Socks : SockFollows(sock[s], sock'[s])
        PROVE  OwnerInv'
    BY <1>1, <1>2, <1>3, OwnedFollows
  <1>4. ASSUME NEW s \in Socks, Disconnect(entry, s), UNCHANGED kind, tasks' \subseteq TaskRecord,
               raced' \subseteq Entries, down' \in BOOLEAN
        PROVE  OwnerInv'
    BY <1>1, <1>2, <1>4, DisconnectOwned
  <1>5. \A e \in Entries : entry[e] \in EntryRecord /\ (entry[e].reg => entry[e].st # "free")
    BY <1>1 DEF Tables, Owned
  <1>6. \A s \in Socks : sock[s] \in SockRecord
    BY <1>1 DEF Connections
  <1>7. \A k \in tasks : k.s \in Socks
    BY <1>1 DEF TaskRecord
  <1>8. ASSUME NEW s \in Socks, NEW u \in Users, Connect(s, u) PROVE OwnerInv'
    <2>1. /\ sock[s].st = "free" /\ UNCHANGED <<kind, tasks, raced, down>>
          /\ Becomes(s, ConnectedEntry(entry[s], s, u)) /\ SockBecomes(s, OpenSock(sock[s], s, u))
      BY <1>8, ConnectEffect
    <2>2. s \in Entries /\ entry[s].st = "free" /\ s # Nil
      BY <2>1, NilIsNoEntry DEF Owned
    <2>3. /\ entry'[s].st = "live" /\ entry'[s].owner = u /\ entry'[s].key = u
          /\ \A d \in Entries \ {s} : entry'[d] = entry[d]
      BY <1>5, <2>1, <2>2, ConnectedFields DEF Becomes
    <2>4. /\ sock'[s].st = "open" /\ sock'[s].user = u /\ sock'[s].ctx = s
          /\ \A r \in Socks \ {s} : sock'[r] = sock[r]
      BY <1>6, <2>1, OpenFields DEF SockBecomes
    <2>5. \A r \in Socks : sock[r].ctx # s
      BY <2>2 DEF Owned
    <2>6. \A r \in Socks \ {s} : sock[r].ctx # Nil => sock[r].ctx \in Entries \ {s}
      BY <1>6, <2>5 DEF SockRecord
    <2>7. Owned(entry', sock')
      BY <2>2, <2>3, <2>4, <2>6, NilIsNoEntry DEF Owned
    <2> QED
      BY <1>1, <1>2, <2>1, <2>7 DEF Becomes, SockBecomes
  <1>9. ASSUME NEW s \in Socks, NewClient(s) PROVE OwnerInv'
    <2> DEFINE e == sock[s].ctx
    <2>1. /\ e \in Entries /\ UNCHANGED <<kind, tasks, raced, down>>
          /\ \/ UNCHANGED sock /\ Becomes(e, RegisteredEntry(entry[e]))
             \/ Disconnect(entry, s)
      BY <1>9, NewClientEffect
    <2>2. CASE UNCHANGED sock /\ Becomes(e, RegisteredEntry(entry[e]))
      <3>1. entry[e].st # "free" /\ entry[e] \in EntryRecord
        BY <1>5, <2>1, NilIsNoEntry DEF Owned
      <3>2. Follows(entry[e], RegisteredEntry(entry[e]))
        BY <3>1, RegisteredFields DEF Follows
      <3> QED
        BY <1>1, <1>3, <2>1, <2>2, <3>2, FollowsItself DEF Becomes
    <2> QED
      BY <1>1, <1>4, <2>1, <2>2
  <1>10. ASSUME NEW s \in Socks, PacketEos(s) PROVE OwnerInv'
    BY <1>1, <1>4, <1>10 DEF PacketEos
  <1>11. ASSUME NEW s \in Socks, NEW c \in Commands, CommandProcess(s, c) PROVE OwnerInv'
    <2>1. /\ UNCHANGED <<kind, entry, raced, down>> /\ SockBecomes(s, SentSock(sock[s]))
          /\ tasks' \subseteq TaskRecord
      BY <1>1, <1>11, CommandProcessEffect
    <2>2. SockFollows(sock[s], SentSock(sock[s]))
      BY <1>6, SentFields DEF SockFollows
    <2> QED
      BY <1>1, <1>3, <2>1, <2>2, FollowsItself DEF SockBecomes
  <1>12. ASSUME NEW s \in Socks, NEW id \in Ids, NEW complete \in BOOLEAN, NEW verified \in BOOLEAN,
                ResumePacket(s, id, complete, verified)
         PROVE  OwnerInv'
    <2>1. ResumeClient(Before(entry, tasks, raced), s, id, complete, verified) /\ UNCHANGED kind
      BY <1>12 DEF ResumePacket, Before
    <2> QED
      BY <1>1, <1>2, <2>1, ResumeOwned
  <1>13. ASSUME NEW e \in Entries, entry[e].reg, Killed(e), UNCHANGED kind, tasks' \subseteq TaskRecord,
               raced' \subseteq Entries, down' \in BOOLEAN
         PROVE  OwnerInv'
    <2>1. CASE entry[e].conn \in Socks /\ Disconnect(entry, entry[e].conn)
      BY <1>4, <1>13, <2>1
    <2>2. CASE entry[e].conn = Nil /\ UNCHANGED sock /\ Becomes(e, Deleted(entry[e]))
      <3>1. Follows(entry[e], Deleted(entry[e]))
        BY <1>5, <1>13, FollowsItself
      <3> QED
        BY <1>1, <1>3, <1>13, <2>2, <3>1, FollowsItself DEF Becomes
    <2> QED
      BY <1>13, <2>1, <2>2, KilledEffect
  <1>14. ASSUME NEW e \in Entries, KillClient(e) PROVE OwnerInv'
    BY <1>1, <1>13, <1>14 DEF KillClient
  <1>15. ASSUME NEW e \in Entries, NewId(e) \/ UmodeNotify(e) \/ NickChangeNotify(e) PROVE OwnerInv'
    <2>1. UNCHANGED <<kind, sock, tasks, raced, down>> /\ entry[e] \in EntryRecord
      BY <1>5, <1>15, NotifyEffect
    <2>2. CASE e \in Remotes /\ entry[e].st = "free" /\ Becomes(e, AnnouncedEntry(entry[e], e))
      <3>1. /\ entry'[e].st = "live" /\ entry'[e].key = entry[e].key
            /\ \A d \in Entries \ {e} : entry'[d] = entry[d]
        BY <2>1, <2>2, AnnouncedFields DEF Becomes
      <3>2. e \notin Socks /\ \A r \in Socks : sock[r].ctx # e
        BY <2>2, NilIsNoEntry, RemotesAssumption DEF Owned
      <3>3. \A r \in Socks : sock[r].ctx # Nil => sock[r].ctx \in Entries \ {e}
        BY <1>6, <3>2 DEF SockRecord
      <3>4. entry'[e].key \in {Nil, entry'[e].owner}
        BY <2>2, <3>1 DEF Owned
      <3>5. Owned(entry', sock')
        BY <2>1, <3>1, <3>2, <3>3, <3>4, NilIsNoEntry DEF Owned
      <3> QED
        BY <1>1, <1>2, <2>1, <2>2, <3>5 DEF Becomes
    <2>3. CASE entry[e].reg /\ (Becomes(e, DetachedEntry(entry[e])) \/ Becomes(e, RenamedEntry(entry[e])))
      <3>1. Follows(entry[e], DetachedEntry(entry[e])) /\ Follows(entry[e], RenamedEntry(entry[e]))
        BY <1>5, <2>1, <2>3, DetachedFields, RenamedFields DEF Follows
      <3> QED
        BY <1>1, <1>3, <2>1, <2>3, <3>1, FollowsItself DEF Becomes
    <2> QED
      BY <1>15, <2>2, <2>3, NotifyEffect
  <1>16. ASSUME NEW e \in Entries, SignoffNotify(e) \/ KilledNotify(e) PROVE OwnerInv'
    <2>1. /\ UNCHANGED <<kind, tasks, raced, down>> /\ entry[e].reg
          /\ Becomes(e, Unregistered(entry[e]))
          /\ \/ UNCHANGED sock /\ (~entry[e].local \/ entry[e].conn = Nil)
             \/ entry[e].conn \in Socks /\ SockBecomes(entry[e].conn, ClearedSock(sock[entry[e].conn]))
             \/ entry[e].conn \in Socks /\ SockBecomes(entry[e].conn, ClosedSock(sock[entry[e].conn]))
      BY <1>16, SignoffEffect
    <2>2. \A d \in Entries : Follows(entry[d], entry'[d])
      BY <1>5, <2>1, FollowsItself DEF Becomes
    <2>3. sock' \in Connections /\ \A s \in Socks : SockFollows(sock[s], sock'[s])
      BY <1>1, <1>6, <2>1, FollowsItself DEF SockBecomes
    <2> QED
      BY <1>1, <1>3, <2>1, <2>2, <2>3 DEF Becomes
  <1>17. ASSUME NEW e \in Entries, ResumeNotify(e) PROVE OwnerInv'
    <2>1. UNCHANGED <<kind, tasks, down>> /\ entry[e].reg /\ raced' \subseteq Entries
      BY <1>1, <1>17, ResumeNotifyEffect
    <2>2. CASE Killed(e) /\ UNCHANGED raced
      BY <1>1, <1>13, <2>1, <2>2
    <2>3. CASE UNCHANGED sock /\ Becomes(e, MovedEntry(entry[e]))
      <3>1. Follows(entry[e], MovedEntry(entry[e]))
        BY <1>5, <2>1, MovedFields DEF Follows
      <3> QED
        BY <1>1, <1>3, <2>1, <2>3, <3>1, FollowsItself DEF Becomes
    <2> QED
      BY <1>17, <2>2, <2>3, ResumeNotifyEffect
  <1>18. ASSUME NEW k \in tasks, CommandProcessTimeout(k) PROVE OwnerInv'
    <2>1. UNCHANGED <<kind, sock, raced, down>> /\ tasks' \subseteq TaskRecord
      BY <1>18, CommandEffect
    <2>2. CASE UNCHANGED entry
      BY <1>1, <1>3, <2>1, <2>2, FollowsItself
    <2>3. CASE /\ sock[k.s].ctx \in Entries /\ entry[sock[k.s].ctx].reg
               /\ Becomes(sock[k.s].ctx, DetachedEntry(entry[sock[k.s].ctx]))
      <3>1. Follows(entry[sock[k.s].ctx], DetachedEntry(entry[sock[k.s].ctx]))
        BY <1>5, <2>3, DetachedFields DEF Follows
      <3> QED
        BY <1>1, <1>3, <2>1, <2>3, <3>1, FollowsItself DEF Becomes
    <2> QED
      BY <1>18, <2>2, <2>3, CommandEffect
  <1>19. ASSUME NEW k \in tasks, QuitCb(k) \/ ResolveFails(k) PROVE OwnerInv'
    <2>1. CASE Disconnect(entry, k.s)
      BY <1>1, <1>4, <1>7, <1>19, <2>1 DEF QuitCb, ResolveFails
    <2>2. CASE UNCHANGED <<entry, sock>>
      BY <1>1, <1>3, <1>19, <2>2, FollowsItself DEF QuitCb, ResolveFails
    <2> QED
      BY <1>19, <2>1, <2>2 DEF QuitCb, ResolveFails
  <1>20. ASSUME NEW k \in tasks, DetachCb(k) PROVE OwnerInv'
    <2>1. k.s \in Socks /\ tasks' \subseteq TaskRecord /\ UNCHANGED <<kind, raced, down>>
      BY <1>1, <1>20, DetachCbEffect
    <2>2. CASE UNCHANGED <<entry, sock>>
      BY <1>1, <1>3, <2>1, <2>2, FollowsItself
    <2>3. CASE /\ sock[k.s].ctx \in Entries
               /\ Becomes(sock[k.s].ctx, UnconnectedEntry(entry[sock[k.s].ctx]))
               /\ SockBecomes(k.s, ClosedSock(sock[k.s]))
      <3>1. entry[sock[k.s].ctx] \in EntryRecord /\ entry[sock[k.s].ctx].st # "free"
        BY <1>5, <2>1, <2>3, NilIsNoEntry DEF Owned
      <3>2. Follows(entry[sock[k.s].ctx], UnconnectedEntry(entry[sock[k.s].ctx]))
        BY <3>1, UnconnectedFields DEF Follows
      <3>3. SockFollows(sock[k.s], ClosedSock(sock[k.s]))
        BY <1>6, <2>1, FollowsItself
      <3> QED
        BY <1>1, <1>3, <2>1, <2>3, <3>2, <3>3, FollowsItself DEF Becomes, SockBecomes
    <2> QED
      BY <1>20, <2>2, <2>3, DetachCbEffect
  <1>21. ASSUME NEW k \in tasks, DetachTimeout(k) PROVE OwnerInv'
    <2>1. /\ tasks' \subseteq TaskRecord /\ UNCHANGED <<kind, sock, raced, down>> /\ entry' \in Tables
          /\ \A e \in Entries : \/ entry'[e] = entry[e]
                                \/ entry[e].reg /\ entry'[e] = Unregistered(entry[e])
      BY <1>1, <1>21, DetachTimeoutEffect
    <2>2. \A e \in Entries : Follows(entry[e], entry'[e])
      BY <1>5, <2>1, FollowsItself
    <2> QED
      BY <1>1, <1>3, <2>1, <2>2, FollowsItself
  <1>22. ASSUME NEW k \in tasks, NEW mode \in BOOLEAN, NEW complete \in BOOLEAN, NEW verified \in BOOLEAN,
                WhoisReply(k, mode, complete, verified)
         PROVE  OwnerInv'
    <2> DEFINE en == WhoisMarked(k, mode)
               st == Before(en, tasks \ {k}, raced \cup WhoisStale(k, mode))
    <2>1. /\ k.t = "whois" /\ UNCHANGED kind
          /\ entry[k.id[1]].st = "free" => k.id \in Remotes \X {FALSE}
          /\ \/ ResumeRefused(st, k.s) /\ UNCHANGED down
             \/ ResumeClient(st, k.s, k.id, complete, verified)
      BY <1>22 DEF WhoisReply, WhoisMarked, WhoisStale, WhoisFound, Before
    <2>2. k.id \in Ids /\ k.id[1] \in Entries
      BY <1>1, <2>1 DEF TaskRecord, Ids
    <2>3. entry[k.id[1]].st = "free" => k.id \in Remotes \X {FALSE} /\ ~entry[k.id[1]].local
      BY <2>1, <2>2 DEF Owned
    <2>4. /\ en \in Tables
          /\ \A e \in Entries : \/ entry[e].st = "free" /\ e \in Remotes /\ Added(en[e], e)
                                \/ Similar(entry[e], en[e]) /\ en[e].key = entry[e].key
      <3> HIDE DEF st
      <3>1. en \in Tables /\ \A e \in Entries : Learnt(k, mode, e)
        BY <1>1, <2>2, <2>3, WhoisEntries
      <3> QED
        BY <3>1 DEF Learnt
    <2>5. Owned(en, sock)
      <3> HIDE DEF en
      <3>1. \A e \in Entries : /\ en[e].st = "free" => /\ ~en[e].reg /\ ~en[e].local /\ ~en[e].expired
                                                       /\ en[e].owner = Nil
                               /\ en[e].key \in {Nil, en[e].owner}
        BY <2>4 DEF Owned, Added, Similar
      <3>2. \A s \in Socks : entry[s].st = "free" => en[s].st = "free"
        BY <2>4, NilIsNoEntry, RemotesAssumption DEF Similar
      <3>3. \A e \in Entries : entry[e].st # "free" => en[e].st # "free" /\ en[e].owner = entry[e].owner
        BY <2>4 DEF Similar
      <3>4. \A s \in Socks : sock[s].ctx # Nil => sock[s].ctx \in Entries
        BY <1>6 DEF SockRecord
      <3> QED
        BY <3>1, <3>2, <3>3, <3>4 DEF Owned
    <2>6. tasks \ {k} \subseteq TaskRecord /\ raced \cup WhoisStale(k, mode) \subseteq Entries
      BY <1>1 DEF WhoisStale
    <2>7. CASE ResumeRefused(st, k.s) /\ UNCHANGED down
      <3>1. Disconnect(en, k.s) /\ tasks' = tasks \ {k} /\ raced' = raced \cup WhoisStale(k, mode)
        BY <2>7 DEF ResumeRefused, Before
      <3> HIDE DEF en
      <3>2. entry' \in Tables /\ sock' \in Connections /\ Owned(entry', sock')
        BY <1>1, <1>7, <2>4, <2>5, <3>1, DisconnectOwned
      <3> QED
        BY <1>1, <1>2, <2>1, <2>6, <2>7, <3>1, <3>2
    <2>8. CASE ResumeClient(st, k.s, k.id, complete, verified)
      <3> HIDE DEF en
      <3> QED
        BY <1>1, <1>2, <1>7, <2>1, <2>2, <2>4, <2>5, <2>6, <2>8, ResumeOwned
    <2> QED
      BY <2>1, <2>7, <2>8
  <1>23. ASSUME NEW k \in tasks, NEW keyed \in BOOLEAN, NEW complete \in BOOLEAN,
                NEW verified \in BOOLEAN, GetkeyReply(k, keyed, complete, verified)
         PROVE  OwnerInv'
    <2> DEFINE en == GetkeyStored(k, keyed)
    <2>1. k.t = "getkey" /\ UNCHANGED kind
          /\ ResumeClient(Before(en, tasks \ {k}, raced), k.s, k.id, complete, verified)
      BY <1>23 DEF GetkeyReply, GetkeyStored, Before
    <2>2. k.id \in Ids /\ tasks \ {k} \subseteq TaskRecord
      BY <1>1, <2>1 DEF TaskRecord
    <2>3. /\ en \in Tables
          /\ \A e \in Entries : Similar(entry[e], en[e]) /\ en[e].key \in {entry[e].key, entry[e].owner}
      BY <1>1, GetkeyEntries
    <2>4. \A e \in Entries : Follows(entry[e], en[e])
      BY <2>3 DEF Similar, Follows
    <2> HIDE DEF en
    <2>5. Owned(en, sock)
      BY <1>1, <2>3, <2>4, FollowsItself, OwnedFollows
    <2> QED
      BY <1>1, <1>2, <1>7, <2>1, <2>2, <2>3, <2>5, ResumeOwned
  <1> QED
    BY <1>8, <1>9, <1>10, <1>11, <1>12, <1>14, <1>15, <1>16, <1>17, <1>18, <1>19, <1>20, <1>21,
       <1>22, <1>23 DEF Next, Environment, Scheduled

LEMMA InitOwner ==
    ASSUME Init
    PROVE  OwnerInv
  <1>1. entry \in Tables /\ \A e \in Entries : entry[e] = NoClient
    BY NoClientEntry DEF Init, NoEntries, Tables
  <1>2. sock \in Connections /\ \A s \in Socks : sock[s].st = "free" /\ sock[s].ctx = Nil
    BY DEF Init, NoSocks, Connections, SockRecord
  <1>3. Owned(entry, sock)
    BY <1>1, <1>2, NilIsNoEntry DEF Owned, NoClient
  <1> QED
    BY <1>1, <1>2, <1>3 DEF Init, OwnerInv, TypeOK, Tables, Connections

\* The inductive invariant of the owners of sessions.
THEOREM OwnerInvariance == Spec => []OwnerInv
  <1>1. OwnerInv /\ [Next]_vars => OwnerInv'
    <2> SUFFICES ASSUME OwnerInv, [Next]_vars PROVE OwnerInv'
      OBVIOUS
    <2>1. CASE Next
      BY <2>1, OwnerKept
    <2>2. CASE UNCHANGED vars
      BY <2>2 DEF vars, OwnerInv, TypeOK, Owned
    <2> QED
      BY <2>1, <2>2
  <1> QED
    BY <1>1, InitOwner, PTL DEF Spec

\* The entries, the connections and the scheduled tasks keep the types of the
\* structures they stand for, whatever packets and replies arrive.
THEOREM SessionTypes == Spec => []TypeOK
  <1>1. OwnerInv => TypeOK
    BY DEF OwnerInv
  <1> QED
    BY <1>1, OwnerInvariance, PTL

\* An open connection only ever has a session of the user whose key
\* authenticated it, on a server of any kind: silc_server_resume_client gives
\* nobody the session of somebody else (packet_receive.c:3653).
THEOREM SessionOwnerCorrect == Spec => []SessionOwner
  <1>1. OwnerInv => SessionOwner
    BY DEF OwnerInv, Owned, SessionOwner
  <1> QED
    BY <1>1, OwnerInvariance, PTL

-----------------------------------------------------------------------------
(***************************************************************************)
(* One session per connection, on a server that is not a router.           *)
(***************************************************************************)

Resolving == {"whois", "getkey"}
Closing == {"quit_cb", "detach_cb"}
Later == {"command"} \cup Closing

Task(tk, T, s) == \E k \in tk : k.t \in T /\ k.s = s

\* A connection that is open, or that a task will still look at.
Busy(sk, tk, s) == sk[s].st = "open" \/ Task(tk, Resolving \cup Later, s)

\* A client sends one QUIT or DETACH, waits for one command at a time while it
\* resumes, and is not waiting when its connection is about to be closed.
TasksOk(sk, tk) ==
    /\ \A k \in tk : k.t \in Later => sk[k.s].sent
    /\ \A k, l \in tk : k.t \in Later /\ l.t \in Later /\ k.s = l.s => k = l
    /\ \A k, l \in tk : k.t \in Resolving /\ l.t \in Resolving /\ k.s = l.s => k = l
    /\ \A k, l \in tk : k.t \in Closing /\ l.t \in Resolving => k.s # l.s

\* A connection that waits has not registered; the entry behind a busy one
\* exists and, once registered, leads back to it; one that has registered
\* nothing has the entry that was made for it; DETACH has detached.
Waiting(en, sk, tk, s) ==
    Task(tk, Resolving, s) => sk[s].st = "open" /\ ~en[sk[s].ctx].reg
Attends(en, sk, tk, s) ==
    Busy(sk, tk, s) => /\ en[sk[s].ctx].st = "live"
                       /\ en[sk[s].ctx].reg => en[sk[s].ctx].conn = s /\ en[sk[s].ctx].local
Fresh(en, sk, s) ==
    sk[s].st = "open" /\ ~sk[s].sent /\ ~en[sk[s].ctx].reg =>
      /\ sk[s].ctx = s /\ en[s].conn = s /\ en[s].local /\ ~en[s].expired
Leaving(en, sk, tk, s) ==
    Task(tk, {"detach_cb"}, s) /\ en[sk[s].ctx].reg => en[sk[s].ctx].detached

SocksOk(en, sk, tk, rc) ==
    \A s \in Socks : sk[s].ctx # Nil =>
      /\ Waiting(en, sk, tk, s)
      /\ Fresh(en, sk, s)
      /\ sk[s].ctx \notin rc => Attends(en, sk, tk, s) /\ Leaving(en, sk, tk, s)

\* No two busy connections have the same context.
Single(sk, tk, rc) ==
    \A r, s \in Socks : /\ sk[r].ctx = sk[s].ctx /\ sk[r].ctx \notin rc /\ sk[r].ctx # Nil
                        /\ Busy(sk, tk, r) /\ Busy(sk, tk, s)
                        => r = s
Separate(sk, tk) ==
    \A r, s \in Socks : /\ sk[r].ctx = sk[s].ctx /\ sk[r].ctx # Nil
                        /\ sk[r].st = "open" /\ sk[s].st = "open" /\ r # s
                        => Task(tk, Closing, r) \/ Task(tk, Closing, s)

\* A registered entry with a connection is its context; one of ours without a
\* connection is detached, and one that is detached has none or is losing it.
Linked(r, e, sk, tk) ==
    r.reg =>
      /\ r.conn # Nil => sk[r.conn].st = "open" /\ sk[r.conn].ctx = e
      /\ r.local => /\ r.detached => r.conn = Nil \/ Task(tk, {"detach_cb"}, r.conn)
                    /\ r.res \/ r.conn = Nil => r.detached
Blank(r) == /\ ~r.reg => ~r.res /\ ~r.detached /\ ~r.resumed
            /\ r.reg => r.st = "live"
            /\ r.st = "free" => r.conn = Nil

EntriesOk(en, sk, tk, rc) ==
    /\ \A e \in Entries \ rc : Linked(en[e], e, sk, tk)
    /\ \A e \in Entries : Blank(en[e])

\* A session whose mode was asked for existed then; if it is ours and was
\* detached, it is detached still or has been resumed.
Settled(r) == r.reg \/ r.expired \/ r.st = "gone"
Asked(en, tk, rc) ==
    \A k \in tk : k.t \in Resolving => 
      LET e == k.id[1] IN
      /\ e \in Socks => Settled(en[e])
      /\ /\ k.t = "whois" /\ TRUE \in k.modes /\ e \notin rc
         /\ k.id = <<e, en[e].home>> /\ en[e].reg /\ en[e].local
         => en[e].detached \/ en[e].resumed

Sessions(en, sk, tk, rc) ==
    /\ TasksOk(sk, tk) /\ SocksOk(en, sk, tk, rc) /\ Single(sk, tk, rc) /\ Separate(sk, tk)
    /\ EntriesOk(en, sk, tk, rc) /\ Asked(en, tk, rc)

SessionInv == OwnerInv /\ (kind # "router" => Sessions(entry, sock, tasks, raced))

LEMMA TaskFields ==
    ASSUME NEW k \in TaskRecord
    PROVE  /\ k.s \in Socks
           /\ k.t \in Resolving \cup Later \cup {"detach_timeout"}
           /\ k.t \in Resolving => k.id \in Ids /\ k.id[1] \in Entries
  <1>1. k.s \in Socks
    BY DEF TaskRecord
  <1>2. k.t \in Resolving \cup Later \cup {"detach_timeout"}
    BY DEF TaskRecord, Resolving, Later, Closing
  <1>3. k.t \in Resolving => k.id \in Ids
    BY DEF TaskRecord, Resolving
  <1> QED
    BY <1>1, <1>2, <1>3 DEF Ids

LEMMA SockFields ==
    ASSUME NEW sk \in Connections, NEW s \in Socks
    PROVE  sk[s] \in SockRecord /\ sk[s].ctx \in Entries \cup {Nil}
  BY DEF Connections, SockRecord

\* Tasks that end, other than a close, leave no connection busier.
Ended(tk, tk2) ==
    tk2 \subseteq tk /\ \A k \in tk : k.t \in Closing => k \in tk2

LEMMA FewerTasks ==
    ASSUME NEW tk, NEW tk2, Ended(tk, tk2), NEW sk, NEW s
    PROVE  /\ \A T : Task(tk2, T, s) => Task(tk, T, s)
           /\ Busy(sk, tk2, s) => Busy(sk, tk, s)
           /\ Task(tk2, Closing, s) = Task(tk, Closing, s)
           /\ Task(tk2, {"detach_cb"}, s) = Task(tk, {"detach_cb"}, s)
  BY DEF Ended, Task, Busy, Closing

\* An entry that no busy connection has may change in the ways of IdleStep; any
\* other keeps what matters, unless it is overtaken by a race.
Idle(sk, tk, e) == \A s \in Socks : sk[s].ctx = e => ~Busy(sk, tk, s)
IdleStep(r, q) ==
    /\ q.reg => q.conn = Nil /\ (q.local => q.detached)
    /\ Blank(q)
    /\ Settled(r) => Settled(q)
Kept(r, q) ==
    /\ q.st = r.st /\ q.reg = r.reg /\ q.local = r.local /\ q.conn = r.conn /\ q.home = r.home
    /\ q.detached = r.detached /\ q.resumed = r.resumed /\ q.expired = r.expired
    /\ q.res = r.res \/ (q.reg /\ q.detached)

EntryStep(r, q, e, sk, tk, rc) ==
    \/ Kept(r, q)
    \/ Idle(sk, tk, e) /\ IdleStep(r, q)
    \/ e \in rc /\ r.reg /\ q.reg /\ q.st = r.st /\ q.conn = r.conn

LEMMA EntriesChange ==
    ASSUME NEW en \in Tables, NEW en2 \in Tables, NEW sk \in Connections,
           NEW tk \in SUBSET TaskRecord, NEW tk2, Ended(tk, tk2),
           NEW rc \in SUBSET Entries, NEW rc2 \in SUBSET Entries, rc \subseteq rc2,
           Sessions(en, sk, tk, rc),
           \A e \in Entries : EntryStep(en[e], en2[e], e, sk, tk, rc2)
    PROVE  Sessions(en2, sk, tk2, rc2)
  <1>1. \A s \in Socks : sk[s].ctx \in Entries \cup {Nil}
    BY SockFields
  <1>2. tk2 \subseteq tk /\ tk2 \subseteq TaskRecord
    BY DEF Ended
  <1>3. TasksOk(sk, tk2)
    BY <1>2 DEF Sessions, TasksOk
  <1>4. ASSUME NEW s \in Socks, sk[s].ctx # Nil
        PROVE  /\ Waiting(en2, sk, tk2, s) /\ Fresh(en2, sk, s)
               /\ sk[s].ctx \notin rc2 => Attends(en2, sk, tk2, s) /\ Leaving(en2, sk, tk2, s)
    <2> DEFINE e == sk[s].ctx
    <2>1. e \in Entries
      BY <1>1, <1>4
    <2>2. /\ Waiting(en, sk, tk, s) /\ Fresh(en, sk, s)
          /\ e \notin rc => Attends(en, sk, tk, s) /\ Leaving(en, sk, tk, s)
      BY <1>4 DEF Sessions, SocksOk
    <2>3. /\ Task(tk2, Resolving, s) => Task(tk, Resolving, s)
          /\ Busy(sk, tk2, s) => Busy(sk, tk, s)
          /\ Task(tk2, {"detach_cb"}, s) = Task(tk, {"detach_cb"}, s)
      BY FewerTasks
    <2>4. sk[s].st = "open" \/ Task(tk, Resolving, s) \/ Task(tk, {"detach_cb"}, s) => Busy(sk, tk, s)
      BY DEF Busy, Task, Resolving, Later, Closing
    <2>5. CASE Kept(en[e], en2[e])
      <3>1. Fresh(en2, sk, s)
        BY <2>2, <2>5 DEF Kept, Fresh
      <3> QED
        BY <2>2, <2>3, <2>5, <3>1 DEF Kept, Waiting, Attends, Leaving
    <2>6. CASE Idle(sk, tk, e)
      BY <2>3, <2>4, <2>6 DEF Idle, Waiting, Fresh, Attends, Leaving
    <2>7. CASE e \in rc2 /\ en[e].reg /\ en2[e].reg
      BY <2>2, <2>3, <2>7 DEF Waiting, Fresh
    <2> QED
      BY <2>1, <2>5, <2>6, <2>7 DEF EntryStep
  <1>5. Single(sk, tk2, rc2)
    <2>1. \A s \in Socks : Busy(sk, tk2, s) => Busy(sk, tk, s)
      BY FewerTasks
    <2>2. Single(sk, tk, rc)
      BY DEF Sessions
    <2> QED
      BY <2>1, <2>2 DEF Single
  <1>6. Separate(sk, tk2)
    <2>1. \A s \in Socks : Task(tk2, Closing, s) = Task(tk, Closing, s)
      BY FewerTasks
    <2>2. Separate(sk, tk)
      BY DEF Sessions
    <2> QED
      BY <2>1, <2>2 DEF Separate
  <1>7. ASSUME NEW e \in Entries
        PROVE  Blank(en2[e]) /\ (e \notin rc2 => Linked(en2[e], e, sk, tk2))
    <2>1. Blank(en[e]) /\ (e \notin rc2 => Linked(en[e], e, sk, tk))
      BY DEF Sessions, EntriesOk
    <2>2. CASE Kept(en[e], en2[e])
      <3>1. Task(tk2, {"detach_cb"}, en[e].conn) = Task(tk, {"detach_cb"}, en[e].conn)
        BY FewerTasks
      <3> QED
        BY <2>1, <2>2, <3>1 DEF Kept, Blank, Linked
    <2>3. CASE Idle(sk, tk, e) /\ IdleStep(en[e], en2[e])
      BY <2>3 DEF IdleStep, Linked
    <2>4. CASE e \in rc2 /\ en[e].reg /\ en2[e].reg /\ en2[e].st = en[e].st /\ en2[e].conn = en[e].conn
      BY <2>1, <2>4 DEF Blank
    <2> QED
      BY <2>2, <2>3, <2>4 DEF EntryStep
  <1>8. ASSUME NEW k \in tk2, k.t \in Resolving
        PROVE  LET e == k.id[1] IN
               /\ e \in Socks => Settled(en2[e])
               /\ /\ k.t = "whois" /\ TRUE \in k.modes /\ e \notin rc2
                  /\ k.id = <<e, en2[e].home>> /\ en2[e].reg /\ en2[e].local
                  => en2[e].detached \/ en2[e].resumed
    <2> DEFINE e == k.id[1]
    <2>1. k \in tk /\ e \in Entries
      BY <1>2, <1>8, TaskFields
    <2>2. /\ e \in Socks => Settled(en[e])
          /\ /\ k.t = "whois" /\ TRUE \in k.modes /\ e \notin rc
             /\ k.id = <<e, en[e].home>> /\ en[e].reg /\ en[e].local
             => en[e].detached \/ en[e].resumed
      BY <1>8, <2>1 DEF Sessions, Asked
    <2> HIDE DEF e
    <2>3. CASE Kept(en[e], en2[e])
      BY <2>2, <2>3 DEF Kept, Settled, e
    <2>4. CASE Idle(sk, tk, e) /\ IdleStep(en[e], en2[e])
      BY <2>2, <2>4 DEF IdleStep, e
    <2>5. CASE e \in rc2 /\ en[e].reg /\ en2[e].reg
      BY <2>2, <2>5 DEF Settled, e
    <2> QED
      BY <2>1, <2>3, <2>4, <2>5 DEF EntryStep
  <1> QED
    BY <1>3, <1>4, <1>5, <1>6, <1>7, <1>8 DEF Sessions, SocksOk, EntriesOk, Asked

\* A client is disconnected, with whatever task has led to that.
LEMMA DisconnectChange ==
    ASSUME NEW en \in Tables, sock \in Connections, NEW s \in Socks,
           NEW tk \in SUBSET TaskRecord, NEW tk2, tk2 \subseteq tk,
           \A k \in tk : k.t \in Closing => k \in tk2 \/ k.s = s,
           NEW rc \in SUBSET Entries, Sessions(en, sock, tk, rc),
           sock[s].ctx # Nil => Busy(sock, tk, s) /\ sock[s].ctx \notin rc,
           Disconnect(en, s)
    PROVE  Sessions(entry', sock', tk2, rc)
  <1> DEFINE c == sock[s].ctx
  <1>1. /\ entry' \in Tables /\ sock' \in Connections
        /\ \A e \in Entries : entry'[e] = IF e = c THEN Unregistered(en[e]) ELSE en[e]
        /\ \A r \in Socks : sock'[r] = IF r = s THEN ClearedSock(sock[r]) ELSE sock[r]
    BY Disconnects
  <1>2. \A r \in Socks : sock[r].ctx \in Entries \cup {Nil} /\ sock[r] \in SockRecord
    BY SockFields
  <1>3. /\ sock'[s].st = "closed" /\ sock'[s].ctx = Nil /\ sock'[s].sent = sock[s].sent
        /\ \A r \in Socks : r # s => sock'[r] = sock[r]
    BY <1>1, <1>2, ClosedConnection
  <1>4. c # Nil => /\ entry'[c].st = "live" /\ ~entry'[c].reg /\ entry'[c].expired /\ entry'[c].conn = Nil
                   /\ ~entry'[c].res /\ ~entry'[c].detached /\ ~entry'[c].resumed
    <2> SUFFICES ASSUME c # Nil
                 PROVE  /\ entry'[c].st = "live" /\ ~entry'[c].reg /\ entry'[c].expired
                        /\ entry'[c].conn = Nil
                        /\ ~entry'[c].res /\ ~entry'[c].detached /\ ~entry'[c].resumed
      OBVIOUS
    <2>1. c \in Entries /\ en[c] \in EntryRecord
      BY <1>2 DEF Tables
    <2> QED
      BY <1>1, <2>1, UnregisteredEntry
  <1>5. \A e \in Entries : e # c => entry'[e] = en[e]
    BY <1>1
  <1> HIDE DEF c
  <1>6. \A r \in Socks : \A T : Task(tk2, T, r) => Task(tk, T, r)
    BY DEF Task
  <1>7. \A r \in Socks : r # s => /\ Busy(sock', tk2, r) => Busy(sock, tk, r)
                                  /\ Task(tk2, Closing, r) = Task(tk, Closing, r)
                                  /\ Task(tk2, {"detach_cb"}, r) = Task(tk, {"detach_cb"}, r)
    BY <1>3 DEF Task, Busy, Closing
  <1>8. TasksOk(sock', tk2)
    <2>1. \A r \in Socks : sock'[r].sent = sock[r].sent
      BY <1>3
    <2>2. \A k \in tk2 : k \in tk /\ k.s \in Socks
      BY TaskFields
    <2>3. TasksOk(sock, tk)
      BY DEF Sessions
    <2> QED
      BY <2>1, <2>2, <2>3 DEF TasksOk
  <1>9. ASSUME NEW r \in Socks, sock'[r].ctx # Nil
        PROVE  /\ Waiting(entry', sock', tk2, r) /\ Fresh(entry', sock', r)
               /\ sock'[r].ctx \notin rc => Attends(entry', sock', tk2, r) /\ Leaving(entry', sock', tk2, r)
    <2> DEFINE e == sock[r].ctx
    <2>1. r # s /\ sock'[r] = sock[r] /\ e \in Entries /\ e # Nil
      BY <1>2, <1>3, <1>9
    <2>2. /\ Waiting(en, sock, tk, r) /\ Fresh(en, sock, r)
          /\ e \notin rc => Attends(en, sock, tk, r) /\ Leaving(en, sock, tk, r)
      BY <2>1 DEF Sessions, SocksOk
    <2>3. /\ Task(tk2, Resolving, r) => Task(tk, Resolving, r)
          /\ Busy(sock', tk2, r) => Busy(sock, tk, r)
          /\ Task(tk2, {"detach_cb"}, r) => Task(tk, {"detach_cb"}, r)
      BY <1>6, <1>7, <2>1
    <2>4. sock[r].st = "open" \/ Task(tk, Resolving, r) \/ Task(tk, {"detach_cb"}, r) => Busy(sock, tk, r)
      BY DEF Busy, Task, Resolving, Later, Closing
    <2>5. CASE e # c
      <3>1. entry'[e] = en[e]
        BY <1>5, <2>1, <2>5
      <3>2. Fresh(entry', sock', r)
        BY <2>1, <2>2, <3>1 DEF Fresh
      <3>3. Waiting(entry', sock', tk2, r)
        BY <2>1, <2>2, <2>3, <3>1 DEF Waiting
      <3> QED
        BY <2>1, <2>2, <2>3, <3>1, <3>2, <3>3 DEF Attends, Leaving
    <2>6. CASE e = c
      <3>1. ~Busy(sock, tk, r)
        BY <2>1, <2>6 DEF Sessions, Single, c
      <3> QED
        BY <2>1, <2>3, <2>4, <3>1 DEF Waiting, Fresh, Attends, Leaving
    <2> QED
      BY <2>5, <2>6
  <1>10. Single(sock', tk2, rc)
    <2>1. Single(sock, tk, rc)
      BY DEF Sessions
    <2> QED
      BY <1>3, <1>7, <2>1 DEF Single
  <1>11. Separate(sock', tk2)
    <2>1. Separate(sock, tk)
      BY DEF Sessions
    <2> QED
      BY <1>3, <1>7, <2>1 DEF Separate
  <1>12. ASSUME NEW e \in Entries
         PROVE  Blank(entry'[e]) /\ (e \notin rc => Linked(entry'[e], e, sock', tk2))
    <2>1. Blank(en[e]) /\ (e \notin rc => Linked(en[e], e, sock, tk))
      BY DEF Sessions, EntriesOk
    <2>2. CASE e = c
      BY <1>4, <2>2, NilIsNoEntry DEF Blank, Linked
    <2>3. CASE e # c
      <3>1. entry'[e] = en[e] /\ en[e].conn \in Socks \cup {Nil}
        BY <1>5, <2>3 DEF Tables, EntryRecord
      <3>2. e \notin rc /\ en[e].reg /\ en[e].conn # Nil =>
              /\ en[e].conn # s /\ sock'[en[e].conn] = sock[en[e].conn]
              /\ Task(tk2, {"detach_cb"}, en[e].conn) = Task(tk, {"detach_cb"}, en[e].conn)
        BY <1>3, <1>7, <2>1, <2>3, <3>1 DEF Linked, c
      <3> QED
        BY <2>1, <3>1, <3>2 DEF Linked
    <2> QED
      BY <2>2, <2>3
  <1>13. ASSUME NEW k \in tk2, k.t \in Resolving
         PROVE  LET e == k.id[1] IN
                /\ e \in Socks => Settled(entry'[e])
                /\ /\ k.t = "whois" /\ TRUE \in k.modes /\ e \notin rc
                   /\ k.id = <<e, entry'[e].home>> /\ entry'[e].reg /\ entry'[e].local
                   => entry'[e].detached \/ entry'[e].resumed
    <2> DEFINE e == k.id[1]
    <2>1. k \in tk /\ e \in Entries /\ e # Nil
      BY <1>13, TaskFields, NilIsNoEntry
    <2>2. /\ e \in Socks => Settled(en[e])
          /\ /\ k.t = "whois" /\ TRUE \in k.modes /\ e \notin rc
             /\ k.id = <<e, en[e].home>> /\ en[e].reg /\ en[e].local
             => en[e].detached \/ en[e].resumed
      BY <1>13, <2>1 DEF Sessions, Asked
    <2>3. CASE e = c
      BY <1>4, <2>1, <2>3 DEF Settled
    <2>4. CASE e # c
      BY <1>5, <2>1, <2>2, <2>4
    <2> QED
      BY <2>3, <2>4
  <1> QED
    BY <1>8, <1>9, <1>10, <1>11, <1>12, <1>13 DEF Sessions, SocksOk, EntriesOk, Asked

\* The invariant at one connection and at one entry.
TasksAt(sk, tk, s) ==
    /\ Task(tk, Later, s) => sk[s].sent
    /\ \A k, l \in tk : k.s = s /\ l.s = s =>
          /\ k.t \in Later /\ l.t \in Later => k = l
          /\ k.t \in Resolving /\ l.t \in Resolving => k = l
          /\ ~(k.t \in Closing /\ l.t \in Resolving)
SockAt(en, sk, tk, rc, s) ==
    sk[s].ctx # Nil =>
      /\ Waiting(en, sk, tk, s) /\ Fresh(en, sk, s)
      /\ sk[s].ctx \notin rc => Attends(en, sk, tk, s) /\ Leaving(en, sk, tk, s)
SeparateAt(sk, tk, s) ==
    sk[s].ctx # Nil /\ sk[s].st = "open" =>
      \A r \in Socks : r # s /\ sk[r].ctx = sk[s].ctx /\ sk[r].st = "open" =>
        Task(tk, Closing, r) \/ Task(tk, Closing, s)
AskedAt(en, k, rc) ==
    LET e == k.id[1] IN
    /\ e \in Socks => Settled(en[e])
    /\ /\ k.t = "whois" /\ TRUE \in k.modes /\ e \notin rc
       /\ k.id = <<e, en[e].home>> /\ en[e].reg /\ en[e].local
       => en[e].detached \/ en[e].resumed

\* No connection but s is busy with the entry d, and no entry but d leads to s.
Alone(sk, tk, s, d) == \A r \in Socks : r # s /\ sk[r].ctx = d => ~Busy(sk, tk, r)
Unlinked(en, s, d, rc) == \A e \in Entries : e # d /\ e \notin rc /\ en[e].reg => en[e].conn # s

\* The tasks of other connections than s stay.
OthersKeep(tk, tk2, s) == \A k \in tk \cup tk2 : k.s # s => (k \in tk <=> k \in tk2)

\* One connection x and the entry d it has, or had, change with its tasks.
LEMMA LocalChange ==
    ASSUME NEW en \in Tables, NEW en2 \in Tables, NEW sk \in Connections, NEW sk2 \in Connections,
           NEW tk \in SUBSET TaskRecord, NEW tk2 \in SUBSET TaskRecord,
           NEW rc \in SUBSET Entries, NEW rc2 \in SUBSET Entries, rc \subseteq rc2,
           NEW x \in Socks, NEW d \in Entries,
           Sessions(en, sk, tk, rc),
           \A e \in Entries : e # d => en2[e] = en[e],
           \A r \in Socks : r # x => sk2[r] = sk[r],
           OthersKeep(tk, tk2, x),
           Alone(sk, tk, x, d) \/ (d \in rc2 /\ en[d].reg /\ en2[d].reg),
           Unlinked(en, x, d, rc2),
           sk2[x].ctx \in {d, Nil},
           TasksAt(sk2, tk2, x),
           SockAt(en2, sk2, tk2, rc2, x),
           SeparateAt(sk2, tk2, x),
           Blank(en2[d]),
           d \notin rc2 => Linked(en2[d], d, sk2, tk2),
           \A k \in tk2 : k.t \in Resolving /\ (k.id[1] = d \/ k \notin tk) => AskedAt(en2, k, rc2)
    PROVE  Sessions(en2, sk2, tk2, rc2)
  <1> USE DEF OthersKeep, Alone, Unlinked
  <1>1. \A s \in Socks : sk[s].ctx \in Entries \cup {Nil}
    BY SockFields
  <1>2. \A k \in tk \cup tk2 : k.s \in Socks /\ (k.t \in Resolving => k.id[1] \in Entries)
    BY TaskFields
  <1>3. \A r \in Socks : r # x => /\ \A T : Task(tk2, T, r) <=> Task(tk, T, r)
                                  /\ Busy(sk2, tk2, r) <=> Busy(sk, tk, r)
    BY DEF Task, Busy
  <1>4. TasksOk(sk2, tk2)
    <2>1. TasksOk(sk, tk)
      BY DEF Sessions
    <2>2. ASSUME NEW k \in tk2, k.t \in Later PROVE sk2[k.s].sent
      BY <1>2, <2>1, <2>2 DEF TasksOk, TasksAt, Task
    <2>3. ASSUME NEW k \in tk2, NEW l \in tk2, k.s = l.s
          PROVE  /\ k.t \in Later /\ l.t \in Later => k = l
                 /\ k.t \in Resolving /\ l.t \in Resolving => k = l
                 /\ ~(k.t \in Closing /\ l.t \in Resolving)
      <3>1. CASE k.s = x
        BY <2>3, <3>1 DEF TasksAt
      <3>2. CASE k.s # x
        <4>1. k \in tk /\ l \in tk
          BY <2>3, <3>2
        <4> QED
          BY <2>1, <2>3, <4>1 DEF TasksOk
      <3> QED
        BY <3>1, <3>2
    <2> QED
      BY <2>2, <2>3 DEF TasksOk
  <1>5. ASSUME NEW s \in Socks PROVE SockAt(en2, sk2, tk2, rc2, s)
    <2> SUFFICES ASSUME s # x, sk2[s].ctx # Nil
                 PROVE  /\ Waiting(en2, sk2, tk2, s) /\ Fresh(en2, sk2, s)
                        /\ sk2[s].ctx \notin rc2 => /\ Attends(en2, sk2, tk2, s)
                                                    /\ Leaving(en2, sk2, tk2, s)
      BY DEF SockAt
    <2> DEFINE e == sk[s].ctx
    <2>1. sk2[s] = sk[s] /\ e \in Entries
      BY <1>1
    <2>2. /\ Waiting(en, sk, tk, s) /\ Fresh(en, sk, s)
          /\ e \notin rc => Attends(en, sk, tk, s) /\ Leaving(en, sk, tk, s)
      BY <2>1 DEF Sessions, SocksOk
    <2>3. /\ Task(tk2, Resolving, s) <=> Task(tk, Resolving, s)
          /\ Busy(sk2, tk2, s) <=> Busy(sk, tk, s)
          /\ Task(tk2, {"detach_cb"}, s) <=> Task(tk, {"detach_cb"}, s)
      BY <1>3
    <2>4. sk[s].st = "open" \/ Task(tk, Resolving, s) \/ Task(tk, {"detach_cb"}, s) => Busy(sk, tk, s)
      BY DEF Busy, Task, Resolving, Later, Closing
    <2>5. CASE e # d
      <3>1. en2[e] = en[e]
        BY <2>1, <2>5
      <3>2. Fresh(en2, sk2, s)
        BY <2>1, <2>2, <3>1 DEF Fresh
      <3>3. Waiting(en2, sk2, tk2, s)
        BY <2>1, <2>2, <2>3, <3>1 DEF Waiting
      <3> QED
        BY <2>1, <2>2, <2>3, <3>1, <3>2, <3>3 DEF Attends, Leaving
    <2>6. CASE e = d /\ ~Busy(sk, tk, s)
      BY <2>1, <2>3, <2>4, <2>6 DEF Waiting, Fresh, Attends, Leaving
    <2>7. CASE e = d /\ d \in rc2 /\ en[d].reg /\ en2[d].reg
      BY <2>1, <2>2, <2>3, <2>7 DEF Waiting, Fresh
    <2> QED
      BY <2>5, <2>6, <2>7
  <1>6. Single(sk2, tk2, rc2)
    <2> SUFFICES ASSUME NEW r \in Socks, NEW s \in Socks, sk2[r].ctx = sk2[s].ctx, r # s,
                        sk2[r].ctx \notin rc2, sk2[r].ctx # Nil, Busy(sk2, tk2, r), Busy(sk2, tk2, s)
                 PROVE  FALSE
      BY DEF Single
    <2>1. Single(sk, tk, rc)
      BY DEF Sessions
    <2>2. CASE r # x /\ s # x
      <3>1. sk2[r] = sk[r] /\ sk2[s] = sk[s] /\ Busy(sk, tk, r) /\ Busy(sk, tk, s)
        BY <1>3, <2>2
      <3> QED
        BY <2>1, <3>1 DEF Single
    <2>3. CASE r = x
      <3>1. sk2[s] = sk[s] /\ Busy(sk, tk, s) /\ sk[s].ctx = d
        BY <1>3, <2>3
      <3> QED
        BY <2>3, <3>1
    <2>4. CASE s = x
      <3>1. sk2[r] = sk[r] /\ Busy(sk, tk, r) /\ sk[r].ctx = d
        BY <1>3, <2>4
      <3> QED
        BY <2>4, <3>1
    <2> QED
      BY <2>2, <2>3, <2>4
  <1>7. Separate(sk2, tk2)
    <2>1. Separate(sk, tk)
      BY DEF Sessions
    <2>2. ASSUME NEW r \in Socks, NEW s \in Socks, sk2[r].ctx = sk2[s].ctx, r # s, r # x, s # x,
                 sk2[r].st = "open", sk2[s].st = "open", sk2[r].ctx # Nil
          PROVE  Task(tk2, Closing, r) \/ Task(tk2, Closing, s)
      <3>1. sk2[r] = sk[r] /\ sk2[s] = sk[s]
        BY <2>2
      <3>2. Task(tk, Closing, r) \/ Task(tk, Closing, s)
        BY <2>1, <2>2, <3>1 DEF Separate
      <3> QED
        BY <1>3, <2>2, <3>2
    <2> QED
      BY <2>2 DEF Separate, SeparateAt
  <1>8. ASSUME NEW e \in Entries
        PROVE  Blank(en2[e]) /\ (e \notin rc2 => Linked(en2[e], e, sk2, tk2))
    <2> SUFFICES ASSUME e # d
                 PROVE  Blank(en2[e]) /\ (e \notin rc2 => Linked(en2[e], e, sk2, tk2))
      OBVIOUS
    <2>1. Blank(en[e]) /\ (e \notin rc2 => Linked(en[e], e, sk, tk))
      BY DEF Sessions, EntriesOk
    <2>2. en2[e] = en[e] /\ en[e].conn \in Socks \cup {Nil}
      BY DEF Tables, EntryRecord
    <2>3. e \notin rc2 /\ en[e].reg /\ en[e].conn # Nil =>
            /\ sk2[en[e].conn] = sk[en[e].conn]
            /\ Task(tk2, {"detach_cb"}, en[e].conn) <=> Task(tk, {"detach_cb"}, en[e].conn)
      BY <1>3, <2>2
    <2> QED
      BY <2>1, <2>2, <2>3 DEF Linked
  <1>9. ASSUME NEW k \in tk2, k.t \in Resolving PROVE AskedAt(en2, k, rc2)
    <2> SUFFICES ASSUME k \in tk, k.id[1] # d PROVE AskedAt(en2, k, rc2)
      BY <1>9
    <2>1. en2[k.id[1]] = en[k.id[1]]
      BY <1>2, <1>9
    <2>2. AskedAt(en, k, rc)
      BY <1>9 DEF Sessions, Asked, AskedAt
    <2> QED
      BY <2>1, <2>2 DEF AskedAt
  <1>10. SocksOk(en2, sk2, tk2, rc2)
    BY <1>5 DEF SocksOk, SockAt
  <1>11. Asked(en2, tk2, rc2)
    BY <1>9 DEF Asked, AskedAt
  <1> QED
    BY <1>4, <1>6, <1>7, <1>8, <1>10, <1>11 DEF Sessions, EntriesOk

\* What the invariant says of one connection, and of one entry.
LEMMA AtSock ==
    ASSUME NEW en \in Tables, NEW sk \in Connections, NEW tk \in SUBSET TaskRecord, NEW rc \in SUBSET Entries,
           Sessions(en, sk, tk, rc), NEW s \in Socks
    PROVE  /\ TasksAt(sk, tk, s) /\ SockAt(en, sk, tk, rc, s) /\ SeparateAt(sk, tk, s)
           /\ sk[s].ctx # Nil /\ sk[s].ctx \notin rc /\ Busy(sk, tk, s) => Alone(sk, tk, s, sk[s].ctx)
           /\ Unlinked(en, s, sk[s].ctx, rc)
           /\ sk[s].st = "open" \/ Task(tk, Resolving, s) \/ Task(tk, Later, s) => Busy(sk, tk, s)
  <1>1. TasksAt(sk, tk, s)
    BY DEF Sessions, TasksOk, TasksAt, Task
  <1>2. SockAt(en, sk, tk, rc, s)
    BY DEF Sessions, SocksOk, SockAt
  <1>3. SeparateAt(sk, tk, s)
    BY DEF Sessions, Separate, SeparateAt
  <1>4. sk[s].ctx # Nil /\ sk[s].ctx \notin rc /\ Busy(sk, tk, s) => Alone(sk, tk, s, sk[s].ctx)
    BY DEF Sessions, Single, Alone
  <1>5. Unlinked(en, s, sk[s].ctx, rc)
    BY NilIsNoEntry DEF Sessions, EntriesOk, Linked, Unlinked
  <1>6. sk[s].st = "open" \/ Task(tk, Resolving, s) \/ Task(tk, Later, s) => Busy(sk, tk, s)
    BY DEF Busy, Task
  <1> QED
    BY <1>1, <1>2, <1>3, <1>4, <1>5, <1>6

LEMMA AtEntry ==
    ASSUME NEW en \in Tables, NEW sk \in Connections, NEW tk \in SUBSET TaskRecord, NEW rc \in SUBSET Entries,
           Sessions(en, sk, tk, rc), NEW e \in Entries
    PROVE  /\ Blank(en[e])
           /\ e \notin rc => Linked(en[e], e, sk, tk)
           /\ e \notin rc /\ en[e].reg /\ (~en[e].local \/ en[e].conn = Nil) =>
                en[e].conn = Nil /\ Idle(sk, tk, e)
  <1>1. Blank(en[e]) /\ (e \notin rc => Linked(en[e], e, sk, tk))
    BY DEF Sessions, EntriesOk
  <1>2. ASSUME e \notin rc, en[e].reg, ~en[e].local \/ en[e].conn = Nil, NEW s \in Socks, sk[s].ctx = e
        PROVE  ~Busy(sk, tk, s)
    <2>1. e # Nil /\ s # Nil
      BY NilIsNoEntry
    <2>2. Attends(en, sk, tk, s)
      BY <1>2, <2>1 DEF Sessions, SocksOk
    <2> QED
      BY <1>2, <2>1, <2>2 DEF Attends
  <1>3. ASSUME e \notin rc, en[e].reg, ~en[e].local, en[e].conn # Nil
        PROVE  FALSE
    <2>1. en[e].conn \in Socks
      BY <1>3 DEF Tables, EntryRecord
    <2>2. sk[en[e].conn].st = "open" /\ sk[en[e].conn].ctx = e
      BY <1>1, <1>3 DEF Linked
    <2> QED
      BY <1>2, <1>3, <2>1, <2>2 DEF Busy
  <1> QED
    BY <1>1, <1>2, <1>3 DEF Idle

LEMMA FreeIsIdle ==
    ASSUME NEW sk, NEW tk, Owned(entry, sk), NEW e \in Entries, entry[e].st = "free"
    PROVE  Idle(sk, tk, e)
  BY NilIsNoEntry DEF Owned, Idle

LEMMA KeptItself ==
    ASSUME NEW r
    PROVE  Kept(r, r)
  BY DEF Kept

-----------------------------------------------------------------------------
(***************************************************************************)
(* The operations keep the invariant.                                      *)
(***************************************************************************)

SessionState == OwnerInv /\ Sessions(entry, sock, tasks, {})

LEMMA StateTypes ==
    ASSUME SessionState
    PROVE  /\ TypeOK /\ entry \in Tables /\ sock \in Connections /\ tasks \in SUBSET TaskRecord
           /\ kind \in Kinds /\ Owned(entry, sock) /\ Sessions(entry, sock, tasks, {})
           /\ \A e \in Entries : entry[e] \in EntryRecord
           /\ \A s \in Socks : sock[s] \in SockRecord /\ sock[s].ctx \in Entries \cup {Nil}
  BY SockFields DEF SessionState, OwnerInv, TypeOK, Tables, Connections

LEMMA StateSock ==
    ASSUME SessionState, NEW s \in Socks
    PROVE  /\ TasksAt(sock, tasks, s) /\ SockAt(entry, sock, tasks, {}, s) /\ SeparateAt(sock, tasks, s)
           /\ sock[s].ctx # Nil /\ Busy(sock, tasks, s) => Alone(sock, tasks, s, sock[s].ctx)
           /\ Unlinked(entry, s, sock[s].ctx, {})
           /\ sock[s].st = "open" \/ Task(tasks, Resolving, s) \/ Task(tasks, Later, s) =>
                Busy(sock, tasks, s)
  <1>1. /\ entry \in Tables /\ sock \in Connections /\ tasks \in SUBSET TaskRecord
        /\ {} \in SUBSET Entries /\ Sessions(entry, sock, tasks, {})
    BY StateTypes
  <1> HIDE DEF SessionState
  <1> QED
    BY <1>1, AtSock

LEMMA StateEntry ==
    ASSUME SessionState, NEW e \in Entries
    PROVE  /\ Blank(entry[e]) /\ Linked(entry[e], e, sock, tasks)
           /\ entry[e].reg /\ (~entry[e].local \/ entry[e].conn = Nil) =>
                entry[e].conn = Nil /\ Idle(sock, tasks, e)
           /\ entry[e].conn \in Socks \cup {Nil}
  <1>1. /\ entry \in Tables /\ sock \in Connections /\ tasks \in SUBSET TaskRecord
        /\ {} \in SUBSET Entries /\ Sessions(entry, sock, tasks, {})
    BY StateTypes
  <1>2. entry[e].conn \in Socks \cup {Nil}
    BY StateTypes DEF EntryRecord
  <1>3. e \notin {}
    OBVIOUS
  <1>4. /\ Blank(entry[e])
        /\ e \notin {} => Linked(entry[e], e, sock, tasks)
        /\ e \notin {} /\ entry[e].reg /\ (~entry[e].local \/ entry[e].conn = Nil) =>
             entry[e].conn = Nil /\ Idle(sock, tasks, e)
    BY <1>1, AtEntry, Zenon
  <1> QED
    BY <1>2, <1>3, <1>4

LEMMA StateAsked ==
    ASSUME SessionState, NEW k \in tasks, k.t \in Resolving
    PROVE  AskedAt(entry, k, {})
  BY DEF SessionState, Sessions, Asked, AskedAt

LEMMA ConnectKeeps ==
    ASSUME SessionState, NEW s \in Socks, NEW u \in Users, Connect(s, u)
    PROVE  Sessions(entry', sock', tasks', {})
  <1>1. /\ TypeOK /\ entry \in Tables /\ sock \in Connections /\ tasks \in SUBSET TaskRecord
        /\ Owned(entry, sock) /\ Sessions(entry, sock, tasks, {})
        /\ entry[s] \in EntryRecord /\ sock[s] \in SockRecord /\ s \in Entries /\ s # Nil
    BY StateTypes, NilIsNoEntry
  <1>2. /\ sock[s].st = "free" /\ tasks' = tasks
        /\ Becomes(s, ConnectedEntry(entry[s], s, u)) /\ SockBecomes(s, OpenSock(sock[s], s, u))
    BY <1>1, ConnectEffect
  <1>3. entry[s].st = "free" /\ ~entry[s].reg /\ ~entry[s].expired /\ sock[s].ctx = Nil
    BY <1>1, <1>2 DEF Owned
  <1>4. Blank(entry[s]) /\ TasksAt(sock, tasks, s)
    BY <1>1, StateEntry, StateSock
  <1>5. /\ entry' \in Tables /\ sock' \in Connections
        /\ \A e \in Entries : e # s => entry'[e] = entry[e]
        /\ \A r \in Socks : r # s => sock'[r] = sock[r]
    BY <1>2 DEF Becomes, SockBecomes
  <1>6. /\ entry'[s].st = "live" /\ ~entry'[s].reg /\ entry'[s].local /\ entry'[s].conn = s
        /\ ~entry'[s].expired /\ ~entry'[s].resumed /\ ~entry'[s].res /\ ~entry'[s].detached
    BY <1>1, <1>2, <1>3, <1>4, ConnectedFields DEF Becomes, Blank
  <1>7. sock'[s].st = "open" /\ sock'[s].ctx = s /\ sock'[s].sent = sock[s].sent
    BY <1>1, <1>2, OpenFields DEF SockBecomes
  <1>8. \A r \in Socks : r # s => sock[r].ctx # s
    BY <1>1, <1>3 DEF Owned
  <1>9. TasksAt(sock', tasks', s)
    BY <1>2, <1>4, <1>7 DEF TasksAt
  <1>10. SockAt(entry', sock', tasks', {}, s)
    BY <1>6, <1>7 DEF SockAt, Waiting, Fresh, Attends, Leaving
  <1>11. SeparateAt(sock', tasks', s)
    BY <1>5, <1>7, <1>8 DEF SeparateAt
  <1>12. Blank(entry'[s]) /\ Linked(entry'[s], s, sock', tasks')
    BY <1>6 DEF Blank, Linked
  <1>13. ASSUME NEW k \in tasks', k.t \in Resolving, k.id[1] = s \/ k \notin tasks
         PROVE  FALSE
    <2>1. s \in Socks => Settled(entry[s])
      BY <1>1, <1>2, <1>13 DEF Sessions, Asked
    <2> QED
      BY <1>3, <2>1 DEF Settled
  <1>14. Unlinked(entry, s, s, {}) /\ Alone(sock, tasks, s, s)
    <2>1. Unlinked(entry, s, Nil, {})
      BY <1>3, StateSock
    <2> QED
      BY <1>8, <2>1, NilIsNoEntry DEF Unlinked, Alone
  <1>15. tasks' \in SUBSET TaskRecord /\ OthersKeep(tasks, tasks', s) /\ sock'[s].ctx \in {s, Nil}
    BY <1>1, <1>2, <1>7 DEF OthersKeep
  <1> QED
    BY <1>1, <1>5, <1>9, <1>10, <1>11, <1>12, <1>13, <1>14, <1>15, LocalChange

\* NEW_CLIENT is accepted.
LEMMA RegisterKeeps ==
    ASSUME SessionState, NEW s \in Socks, sock[s].st = "open", ~sock[s].sent,
           sock[s].ctx \in Entries, ~entry[sock[s].ctx].reg, ~Task(tasks, Resolving, s),
           UNCHANGED <<sock, tasks>>, Becomes(sock[s].ctx, RegisteredEntry(entry[sock[s].ctx]))
    PROVE  Sessions(entry', sock', tasks', {})
  <1> DEFINE e == sock[s].ctx
  <1>1. /\ TypeOK /\ entry \in Tables /\ sock \in Connections /\ tasks \in SUBSET TaskRecord
        /\ Sessions(entry, sock, tasks, {})
        /\ entry[e] \in EntryRecord /\ e # Nil
    BY StateTypes, NilIsNoEntry
  <1>2. TasksAt(sock, tasks, s) /\ SockAt(entry, sock, tasks, {}, s) /\ SeparateAt(sock, tasks, s)
        /\ Blank(entry[e]) /\ Busy(sock, tasks, s)
    BY <1>1, StateSock, StateEntry
  <1>3. e = s /\ entry[e].conn = s /\ entry[e].local /\ ~entry[e].expired /\ entry[e].st = "live"
    BY <1>1, <1>2 DEF SockAt, Fresh, Attends
  <1>4. /\ entry' \in Tables /\ \A d \in Entries : d # e => entry'[d] = entry[d]
    BY DEF Becomes
  <1>5. /\ entry'[e].reg /\ entry'[e].st = "live" /\ entry'[e].conn = s /\ entry'[e].local
        /\ ~entry'[e].detached /\ ~entry'[e].res
    BY <1>1, <1>2, <1>3, RegisteredFields DEF Becomes, Blank
  <1>6. ~Task(tasks, {"detach_cb"}, s)
    BY <1>2 DEF TasksAt, Task, Later, Closing
  <1>7. SockAt(entry', sock', tasks', {}, s)
    BY <1>5, <1>6 DEF SockAt, Waiting, Fresh, Attends, Leaving
  <1>8. Blank(entry'[e]) /\ Linked(entry'[e], e, sock', tasks')
    BY <1>3, <1>5, NilIsNoEntry DEF Blank, Linked
  <1>9. ASSUME NEW k \in tasks', k.t \in Resolving, k.id[1] = e \/ k \notin tasks
        PROVE  FALSE
    <2>1. e \in Socks => Settled(entry[e])
      BY <1>1, <1>9 DEF Sessions, Asked
    <2> QED
      BY <1>3, <2>1 DEF Settled
  <1>10. Alone(sock, tasks, s, e) /\ Unlinked(entry, s, e, {})
    BY <1>1, <1>2, StateSock
  <1> HIDE DEF e
  <1>11. /\ sock'[s].ctx \in {e, Nil} /\ e \in Entries /\ sock' \in Connections
         /\ tasks' \in SUBSET TaskRecord /\ OthersKeep(tasks, tasks', s)
         /\ \A r \in Socks : r # s => sock'[r] = sock[r]
    BY <1>1 DEF e, OthersKeep
  <1>12. TasksAt(sock', tasks', s) /\ SeparateAt(sock', tasks', s)
    BY <1>2 DEF TasksAt, SeparateAt
  <1> QED
    BY <1>1, <1>4, <1>7, <1>8, <1>9, <1>10, <1>11, <1>12, LocalChange

\* A command packet arrives.
LEMMA CommandProcessKeeps ==
    ASSUME SessionState, NEW s \in Socks, NEW c \in Commands, CommandProcess(s, c)
    PROVE  Sessions(entry', sock', tasks', {})
  <1> DEFINE e == sock[s].ctx
             k == [t |-> "command", s |-> s, c |-> c]
  <1>1. /\ TypeOK /\ entry \in Tables /\ sock \in Connections /\ tasks \in SUBSET TaskRecord
        /\ Sessions(entry, sock, tasks, {}) /\ sock[s] \in SockRecord
    BY StateTypes
  <1>2. /\ sock[s].st = "open" /\ e \in Entries /\ ~sock[s].sent
        /\ entry' = entry /\ SockBecomes(s, SentSock(sock[s]))
        /\ tasks' = tasks \cup {k} /\ k \in TaskRecord
    BY <1>1, CommandProcessEffect
  <1>3. TasksAt(sock, tasks, s) /\ SockAt(entry, sock, tasks, {}, s) /\ SeparateAt(sock, tasks, s)
        /\ Busy(sock, tasks, s) /\ e # Nil
    BY <1>1, <1>2, StateSock, NilIsNoEntry
  <1>4. /\ sock' \in Connections /\ \A r \in Socks : r # s => sock'[r] = sock[r]
        /\ sock'[s].st = "open" /\ sock'[s].ctx = e /\ sock'[s].sent
    BY <1>1, <1>2, SentFields DEF SockBecomes
  <1>5. k.t = "command" /\ k.s = s
    OBVIOUS
  <1> HIDE DEF k
  <1>6. \A T : T \subseteq Resolving \cup Closing => (Task(tasks', T, s) <=> Task(tasks, T, s))
    BY <1>2, <1>5 DEF Task, Resolving, Closing
  <1>7. TasksAt(sock', tasks', s)
    BY <1>2, <1>3, <1>4, <1>5 DEF TasksAt, Task, Resolving, Later, Closing
  <1>8. SockAt(entry', sock', tasks', {}, s)
    <2>1. Task(tasks', Resolving, s) <=> Task(tasks, Resolving, s)
      BY <1>6
    <2>2. Task(tasks', {"detach_cb"}, s) <=> Task(tasks, {"detach_cb"}, s)
      BY <1>6 DEF Closing
    <2> QED
      BY <1>2, <1>3, <1>4, <2>1, <2>2 DEF SockAt, Waiting, Fresh, Attends, Leaving
  <1>9. SeparateAt(sock', tasks', s)
    <2>1. \A r \in Socks : Task(tasks, Closing, r) => Task(tasks', Closing, r)
      BY <1>2 DEF Task
    <2> QED
      BY <1>2, <1>3, <1>4, <2>1 DEF SeparateAt
  <1>10. /\ Alone(sock, tasks, s, e) /\ Unlinked(entry, s, e, {})
         /\ Blank(entry[e]) /\ Linked(entry[e], e, sock, tasks)
    BY <1>2, <1>3, StateSock, StateEntry
  <1>11. Blank(entry'[e]) /\ Linked(entry'[e], e, sock', tasks')
    <2>1. \A r : Task(tasks, {"detach_cb"}, r) => Task(tasks', {"detach_cb"}, r)
      BY <1>2 DEF Task
    <2>2. entry[e].conn # Nil => entry[e].conn \in Socks
      BY <1>1, <1>2 DEF Tables, EntryRecord
    <2>3. \A r \in Socks : sock'[r].st = sock[r].st /\ sock'[r].ctx = sock[r].ctx
      BY <1>2, <1>4
    <2> QED
      BY <1>2, <1>10, <2>1, <2>2, <2>3 DEF Linked
  <1>12. ASSUME NEW l \in tasks', l.t \in Resolving, l.id[1] = e \/ l \notin tasks
         PROVE  AskedAt(entry', l, {})
    <2>1. l \in tasks
      BY <1>2, <1>5, <1>12 DEF Resolving
    <2> QED
      BY <1>1, <1>2, <1>12, <2>1 DEF Sessions, Asked, AskedAt
  <1> HIDE DEF e
  <1>13. /\ tasks' \in SUBSET TaskRecord
         /\ OthersKeep(tasks, tasks', s)
    BY <1>1, <1>2, <1>5 DEF OthersKeep
  <1>14. /\ entry' \in Tables /\ \A d \in Entries : d # e => entry'[d] = entry[d]
         /\ sock'[s].ctx \in {e, Nil} /\ e \in Entries
    BY <1>1, <1>2, <1>4
  <1> QED
    BY <1>1, <1>4, <1>7, <1>8, <1>9, <1>10, <1>11, <1>12, <1>13, <1>14, LocalChange

\* The delayed command is dropped, is QUIT, or is DETACH.
LEMMA CommandKeeps ==
    ASSUME SessionState, NEW k \in tasks, CommandProcessTimeout(k)
    PROVE  Sessions(entry', sock', tasks', {})
  <1> DEFINE s == k.s
             e == sock[s].ctx
  <1>1. /\ TypeOK /\ entry \in Tables /\ sock \in Connections /\ tasks \in SUBSET TaskRecord
        /\ Sessions(entry, sock, tasks, {}) /\ {} \in SUBSET Entries
        /\ \A d \in Entries : entry[d] \in EntryRecord
    BY StateTypes
  <1>2. /\ s \in Socks /\ k.t = "command" /\ sock' = sock /\ tasks' \in SUBSET TaskRecord
        /\ \/ entry' = entry /\ tasks' = tasks \ {k}
           \/ /\ e \in Entries /\ entry[e].reg
              /\ entry' = entry /\ tasks' = (tasks \ {k}) \cup {[t |-> "quit_cb", s |-> s]}
           \/ /\ e \in Entries /\ entry[e].reg
              /\ Becomes(e, DetachedEntry(entry[e]))
              /\ \E m \in {[t |-> "detach_cb", s |-> s], DetachTimeoutTask(s, e)} :
                   tasks' = (tasks \ {k}) \cup {[t |-> "detach_cb", s |-> s], m}
    BY <1>1, CommandEffect
  <1>3. CASE entry' = entry /\ tasks' = tasks \ {k}
    <2>1. Ended(tasks, tasks')
      BY <1>2, <1>3 DEF Ended, Closing
    <2>2. \A d \in Entries : EntryStep(entry[d], entry'[d], d, sock, tasks, {})
      BY <1>3, KeptItself DEF EntryStep
    <2>3. entry' \in Tables
      BY <1>1, <1>3
    <2>4. Sessions(entry', sock, tasks', {})
      BY <1>1, <2>1, <2>2, <2>3, EntriesChange
    <2> QED
      BY <1>2, <2>4
  <1>4. ASSUME e \in Entries, entry[e].reg,
               NEW l, NEW m, l.t \in Closing, l.s = s, m.t = "detach_timeout" \/ m = l, m.s = s,
               tasks' = (tasks \ {k}) \cup {l, m},
               \/ entry' = entry /\ l.t = "quit_cb"
               \/ Becomes(e, DetachedEntry(entry[e])) /\ l.t = "detach_cb"
        PROVE  Sessions(entry', sock', tasks', {})
    <2> HIDE DEF s
    <2>1. e # Nil /\ Task(tasks, Later, s)
      BY <1>2, <1>4, NilIsNoEntry DEF Task, Later, s
    <2>2. /\ TasksAt(sock, tasks, s) /\ SockAt(entry, sock, tasks, {}, s) /\ SeparateAt(sock, tasks, s)
          /\ Busy(sock, tasks, s) /\ Alone(sock, tasks, s, e) /\ Unlinked(entry, s, e, {})
      BY <1>2, <2>1, StateSock
    <2>3. /\ entry[e].conn = s /\ entry[e].local /\ entry[e].st = "live" /\ sock[s].sent
          /\ ~Task(tasks, Resolving, s)
      BY <1>4, <2>1, <2>2 DEF SockAt, Attends, Waiting, TasksAt
    <2>4. /\ Blank(entry[e]) /\ Linked(entry[e], e, sock, tasks)
      BY <1>4, StateEntry
    <2>5. /\ entry' \in Tables /\ \A d \in Entries : d # e => entry'[d] = entry[d]
          /\ entry'[e].st = "live" /\ entry'[e].reg /\ entry'[e].conn = s /\ entry'[e].local
          /\ entry'[e].home = entry[e].home
          /\ \/ entry'[e] = entry[e] /\ l.t = "quit_cb"
             \/ entry'[e].detached /\ l.t = "detach_cb"
      BY <1>1, <1>4, <2>3, DetachedFields DEF Becomes
    <2>6. \A x \in tasks' : x.s = s => (x \in tasks /\ x # k) \/ x = l \/ x = m
      BY <1>4
    <2>7. k \in tasks /\ k.s = s /\ k.t \in Later /\ k.t \notin Closing
      BY <1>2 DEF s, Later, Closing
    <2>8. ASSUME NEW x \in tasks', x.s = s
          PROVE  /\ x.t \in Later => x = l
                 /\ x.t \notin Resolving
      <3>1. CASE x \in tasks /\ x # k
        <4>1. x.t \notin Later
          BY <2>2, <2>7, <2>8, <3>1 DEF TasksAt
        <4>2. x.t \notin Resolving
          BY <2>3, <2>8, <3>1 DEF Task
        <4> QED
          BY <4>1, <4>2
      <3>2. CASE x = l
        BY <1>4, <3>2 DEF Closing, Resolving
      <3>3. CASE x = m
        BY <1>4, <3>2, <3>3 DEF Later, Closing, Resolving
      <3> QED
        BY <2>6, <2>8, <3>1, <3>2, <3>3
    <2>9. TasksAt(sock', tasks', s)
      <3>1. Task(tasks', Later, s) => sock'[s].sent
        BY <1>2, <2>3
      <3>2. \A x, y \in tasks' : x.s = s /\ y.s = s =>
              /\ x.t \in Later /\ y.t \in Later => x = y
              /\ x.t \in Resolving /\ y.t \in Resolving => x = y
              /\ ~(x.t \in Closing /\ y.t \in Resolving)
        BY <2>8
      <3> QED
        BY <3>1, <3>2 DEF TasksAt
    <2>10. ~Task(tasks', Resolving, s)
      BY <2>8 DEF Task
    <2>11. Task(tasks', {"detach_cb"}, s) => entry'[e].detached
      <3>1. ASSUME NEW x \in tasks', x.s = s, x.t = "detach_cb" PROVE entry'[e].detached
        <4>1. x = l
          BY <2>8, <3>1 DEF Later, Closing
        <4> QED
          BY <2>5, <3>1, <4>1
      <3> QED
        BY <3>1 DEF Task
    <2>12. SockAt(entry', sock', tasks', {}, s)
      BY <1>2, <2>5, <2>10, <2>11 DEF SockAt, Waiting, Fresh, Attends, Leaving
    <2>13. \A r \in Socks : /\ Task(tasks, Closing, r) => Task(tasks', Closing, r)
                            /\ Task(tasks, {"detach_cb"}, r) => Task(tasks', {"detach_cb"}, r)
      BY <1>4, <2>7 DEF Task, Closing
    <2>14. SeparateAt(sock', tasks', s)
      BY <1>2, <2>2, <2>13 DEF SeparateAt
    <2>15. Blank(entry'[e])
      BY <2>5 DEF Blank
    <2>16. Linked(entry'[e], e, sock', tasks')
      <3>1. sock[s].st = "open" /\ s # Nil
        BY <1>2, <1>4, <2>3, <2>4, NilIsNoEntry DEF Linked, s
      <3>2. entry'[e].detached => Task(tasks', {"detach_cb"}, s)
        <4>1. CASE l.t = "detach_cb"
          BY <1>4, <4>1 DEF Task
        <4>2. CASE entry'[e] = entry[e]
          BY <1>2, <1>4, <2>3, <2>4, <2>13, <3>1, <4>2 DEF Linked, s
        <4> QED
          BY <2>5, <4>1, <4>2
      <3>3. entry'[e].res => entry'[e].detached
        BY <1>4, <2>3, <2>4, <2>5 DEF Linked
      <3> QED
        BY <1>2, <2>5, <3>1, <3>2, <3>3 DEF Linked
    <2>17. ASSUME NEW x \in tasks', x.t \in Resolving, x.id[1] = e \/ x \notin tasks
           PROVE  AskedAt(entry', x, {})
      <3>1. x \in tasks
        BY <1>4, <2>17 DEF Resolving, Closing
      <3>2. AskedAt(entry, x, {}) /\ x.id[1] = e
        BY <2>17, <3>1, StateAsked
      <3> QED
        BY <2>5, <3>2 DEF AskedAt, Settled
    <2>18. OthersKeep(tasks, tasks', s)
      BY <1>4, <2>7 DEF OthersKeep
    <2>19. /\ sock' \in Connections /\ sock'[s].ctx \in {e, Nil} /\ s \in Socks
           /\ \A r \in Socks : r # s => sock'[r] = sock[r]
      BY <1>1, <1>2 DEF s
    <2> HIDE DEF e
    <2> QED
      BY <1>1, <1>2, <1>4, <2>2, <2>5, <2>9, <2>12, <2>14, <2>15, <2>16, <2>17, <2>18, <2>19, LocalChange
  <1>5. CASE /\ e \in Entries /\ entry[e].reg
             /\ entry' = entry /\ tasks' = (tasks \ {k}) \cup {[t |-> "quit_cb", s |-> s]}
    <2> DEFINE l == [t |-> "quit_cb", s |-> s]
    <2>1. l.t \in Closing /\ l.s = s /\ l.t = "quit_cb" /\ tasks' = (tasks \ {k}) \cup {l, l}
      BY <1>5 DEF Closing
    <2> HIDE DEF l
    <2> QED
      BY <1>4, <1>5, <2>1
  <1>6. CASE /\ e \in Entries /\ entry[e].reg
             /\ Becomes(e, DetachedEntry(entry[e]))
             /\ \E m \in {[t |-> "detach_cb", s |-> s], DetachTimeoutTask(s, e)} :
                  tasks' = (tasks \ {k}) \cup {[t |-> "detach_cb", s |-> s], m}
    <2> DEFINE l == [t |-> "detach_cb", s |-> s]
    <2>1. PICK m \in {l, DetachTimeoutTask(s, e)} : tasks' = (tasks \ {k}) \cup {l, m}
      BY <1>6
    <2>2. /\ l.t \in Closing /\ l.s = s /\ l.t = "detach_cb"
          /\ m.t = "detach_timeout" \/ m = l
          /\ m.s = s
      BY <2>1 DEF Closing, DetachTimeoutTask
    <2> HIDE DEF l
    <2> QED
      BY <1>4, <1>6, <2>1, <2>2
  <1> QED
    BY <1>2, <1>3, <1>5, <1>6

\* The task of a connection that has lost its client ends.
LEMMA TaskEnds ==
    ASSUME SessionState, NEW k \in tasks, sock[k.s].ctx = Nil
    PROVE  Sessions(entry, sock, tasks \ {k}, {})
  <1> DEFINE tk == tasks \ {k}
  <1>1. /\ tasks \in SUBSET TaskRecord /\ Sessions(entry, sock, tasks, {}) /\ k.s \in Socks
    BY StateTypes, TaskFields
  <1>2. TasksOk(sock, tk)
    BY <1>1 DEF Sessions, TasksOk
  <1>3. \A r \in Socks : /\ Task(tk, Resolving, r) => Task(tasks, Resolving, r)
                         /\ Task(tk, {"detach_cb"}, r) => Task(tasks, {"detach_cb"}, r)
                         /\ Busy(sock, tk, r) => Busy(sock, tasks, r)
    BY DEF Task, Busy
  <1>4. \A r \in Socks : r # k.s =>
          /\ Task(tasks, Closing, r) => Task(tk, Closing, r)
          /\ Task(tasks, {"detach_cb"}, r) => Task(tk, {"detach_cb"}, r)
    BY DEF Task
  <1>5. SocksOk(entry, sock, tk, {})
    <2> SUFFICES ASSUME NEW r \in Socks, sock[r].ctx # Nil
                 PROVE  /\ Waiting(entry, sock, tk, r) /\ Fresh(entry, sock, r)
                        /\ Attends(entry, sock, tk, r) /\ Leaving(entry, sock, tk, r)
      BY DEF SocksOk
    <2>1. SockAt(entry, sock, tasks, {}, r)
      BY StateSock
    <2>2. Waiting(entry, sock, tk, r)
      BY <1>3, <2>1 DEF SockAt, Waiting
    <2>3. Attends(entry, sock, tk, r)
      BY <1>3, <2>1 DEF SockAt, Attends
    <2> QED
      BY <1>3, <2>1, <2>2, <2>3 DEF SockAt, Leaving
  <1>6. Single(sock, tk, {})
    BY <1>1, <1>3 DEF Sessions, Single
  <1>7. Separate(sock, tk)
    <2>1. Separate(sock, tasks)
      BY <1>1 DEF Sessions
    <2> QED
      BY <1>4, <2>1 DEF Separate
  <1>8. ASSUME NEW d \in Entries PROVE Blank(entry[d]) /\ Linked(entry[d], d, sock, tk)
    <2>1. Blank(entry[d]) /\ Linked(entry[d], d, sock, tasks) /\ entry[d].conn \in Socks \cup {Nil}
      BY <1>8, StateEntry
    <2>2. Unlinked(entry, k.s, Nil, {})
      BY <1>1, StateSock
    <2>3. entry[d].reg => entry[d].conn # k.s
      BY <2>2, NilIsNoEntry DEF Unlinked
    <2> QED
      BY <1>4, <2>1, <2>3 DEF Linked
  <1>9. Asked(entry, tk, {})
    BY <1>1 DEF Sessions, Asked
  <1> QED
    BY <1>2, <1>5, <1>6, <1>7, <1>8, <1>9 DEF Sessions, EntriesOk

\* The connection of a detached session is closed.
LEMMA DetachCbKeeps ==
    ASSUME SessionState, NEW k \in tasks, DetachCb(k)
    PROVE  Sessions(entry', sock', tasks', {})
  <1> DEFINE s == k.s
             e == sock[s].ctx
  <1>1. /\ TypeOK /\ entry \in Tables /\ sock \in Connections /\ tasks \in SUBSET TaskRecord
        /\ Sessions(entry, sock, tasks, {}) /\ {} \in SUBSET Entries
        /\ \A d \in Entries : entry[d] \in EntryRecord
        /\ \A r \in Socks : sock[r] \in SockRecord
    BY StateTypes
  <1>2. /\ s \in Socks /\ k.t = "detach_cb" /\ tasks' = tasks \ {k}
        /\ \/ e = Nil /\ entry' = entry /\ sock' = sock
           \/ /\ e \in Entries /\ Becomes(e, UnconnectedEntry(entry[e]))
              /\ SockBecomes(s, ClosedSock(sock[s]))
    BY <1>1, DetachCbEffect
  <1>3. Task(tasks, Later, s) /\ Task(tasks, {"detach_cb"}, s) /\ k \in tasks /\ k.s = s
        /\ k.t \in Later /\ k.t \in Closing
    BY <1>2 DEF Task, Later, Closing
  <1> HIDE DEF s
  <1>4. /\ TasksAt(sock, tasks, s) /\ SockAt(entry, sock, tasks, {}, s) /\ SeparateAt(sock, tasks, s)
        /\ Busy(sock, tasks, s) /\ (e # Nil => Alone(sock, tasks, s, e)) /\ Unlinked(entry, s, e, {})
    BY <1>2, <1>3, StateSock
  <1>5. \A x \in tasks' : x.s = s => x.t \notin Later /\ x.t \notin Resolving
    BY <1>2, <1>3, <1>4 DEF TasksAt
  <1>6. TasksAt(sock', tasks', s)
    BY <1>5 DEF TasksAt, Task, Closing, Later
  <1>7. tasks' \in SUBSET TaskRecord /\ OthersKeep(tasks, tasks', s)
    BY <1>1, <1>2, <1>3 DEF OthersKeep
  <1>8. ~Task(tasks', Resolving, s) /\ ~Task(tasks', {"detach_cb"}, s) /\ ~Task(tasks', Closing, s)
    BY <1>5 DEF Task, Later, Closing
  <1>9. \A r \in Socks : r # s =>
          /\ Task(tasks, Closing, r) => Task(tasks', Closing, r)
          /\ Task(tasks, {"detach_cb"}, r) => Task(tasks', {"detach_cb"}, r)
    BY <1>2, <1>3 DEF Task
  <1>10. \A x \in tasks' : x \in tasks
    BY <1>2
  <1>11. CASE e \in Entries /\ Becomes(e, UnconnectedEntry(entry[e])) /\ SockBecomes(s, ClosedSock(sock[s]))
    <2>1. e # Nil /\ Blank(entry[e]) /\ Linked(entry[e], e, sock, tasks)
      BY <1>11, NilIsNoEntry, StateEntry
    <2>2. /\ entry' \in Tables /\ \A d \in Entries : d # e => entry'[d] = entry[d]
          /\ entry'[e].st = entry[e].st /\ entry'[e].reg = entry[e].reg
          /\ entry'[e].resumed = entry[e].resumed /\ entry'[e].res = entry[e].res
          /\ entry'[e].local = entry[e].local /\ entry'[e].detached = entry[e].detached
          /\ entry'[e].conn = Nil /\ entry'[e].expired = entry[e].expired
          /\ entry'[e].home = entry[e].home
      BY <1>1, <1>11, UnconnectedFields DEF Becomes
    <2>3. /\ sock' \in Connections /\ \A r \in Socks : r # s => sock'[r] = sock[r]
          /\ sock'[s].st = "closed" /\ sock'[s].ctx = e
      BY <1>1, <1>2, <1>11, ClosedConnection DEF SockBecomes
    <2>4. ~Busy(sock', tasks', s)
      BY <1>5, <2>3 DEF Busy, Task
    <2>5. SockAt(entry', sock', tasks', {}, s)
      BY <1>8, <2>3, <2>4 DEF SockAt, Waiting, Fresh, Attends, Leaving
    <2>6. SeparateAt(sock', tasks', s)
      BY <2>3 DEF SeparateAt
    <2>7. entry[e].reg => entry[e].detached
      BY <1>3, <1>4, <2>1 DEF SockAt, Leaving
    <2>8. Blank(entry'[e]) /\ Linked(entry'[e], e, sock', tasks')
      BY <2>1, <2>2, <2>7 DEF Blank, Linked
    <2>9. ASSUME NEW x \in tasks', x.t \in Resolving, x.id[1] = e \/ x \notin tasks
          PROVE  AskedAt(entry', x, {})
      <3>1. AskedAt(entry, x, {}) /\ x.id[1] = e
        BY <1>10, <2>9, StateAsked
      <3> QED
        BY <2>2, <3>1 DEF AskedAt, Settled
    <2> HIDE DEF e
    <2>10. sock'[s].ctx \in {e, Nil}
      BY <2>3
    <2> QED
      BY <1>1, <1>2, <1>4, <1>6, <1>7, <1>11, <2>1, <2>2, <2>3, <2>5, <2>6, <2>8, <2>9, <2>10, LocalChange
  <1>12. CASE e = Nil /\ entry' = entry /\ sock' = sock
    <2>1. Sessions(entry, sock, tasks \ {k}, {})
      BY <1>12, TaskEnds DEF s
    <2> QED
      BY <1>2, <1>12, <2>1
  <1> QED
    BY <1>2, <1>11, <1>12

\* The timeout of a detached session.
LEMMA DetachTimeoutKeeps ==
    ASSUME SessionState, NEW k \in tasks, DetachTimeout(k)
    PROVE  Sessions(entry', sock', tasks', {})
  <1>1. /\ TypeOK /\ entry \in Tables /\ sock \in Connections /\ tasks \in SUBSET TaskRecord
        /\ Sessions(entry, sock, tasks, {}) /\ {} \in SUBSET Entries
        /\ \A d \in Entries : entry[d] \in EntryRecord
    BY StateTypes
  <1>2. /\ k.t = "detach_timeout" /\ tasks' = tasks \ {k} /\ sock' = sock /\ entry' \in Tables
        /\ \A e \in Entries : \/ entry'[e] = entry[e]
                              \/ /\ entry[e].reg /\ entry[e].local /\ entry[e].detached
                                 /\ entry'[e] = Unregistered(entry[e])
    BY <1>1, DetachTimeoutEffect
  <1>3. ASSUME NEW e \in Entries, entry'[e] # entry[e]
        PROVE  /\ entry[e].reg /\ entry'[e].st = "live" /\ ~entry'[e].reg /\ entry'[e].expired
               /\ entry'[e].conn = Nil
               /\ ~entry'[e].res /\ ~entry'[e].detached /\ ~entry'[e].resumed
               /\ \A s \in Socks : sock[s].ctx = e /\ sock[s].st = "open" => sock[s].sent
    <2>1. entry[e].reg /\ entry[e].local /\ entry[e].detached /\ entry'[e] = Unregistered(entry[e])
      BY <1>2, <1>3
    <2>2. ASSUME NEW s \in Socks, sock[s].ctx = e, sock[s].st = "open" PROVE sock[s].sent
      <3>1. SockAt(entry, sock, tasks, {}, s) /\ TasksAt(sock, tasks, s) /\ Busy(sock, tasks, s)
        BY <2>2, StateSock
      <3>2. entry[e].conn = s /\ s # Nil
        BY <2>1, <2>2, <3>1, NilIsNoEntry DEF SockAt, Attends
      <3>3. Linked(entry[e], e, sock, tasks)
        BY <1>3, StateEntry
      <3>4. Task(tasks, {"detach_cb"}, s)
        BY <2>1, <3>2, <3>3 DEF Linked
      <3> QED
        BY <3>1, <3>4 DEF TasksAt, Task, Later, Closing
    <2>3. entry[e] \in EntryRecord
      BY <1>1, <1>3
    <2> QED
      BY <2>1, <2>2, <2>3, UnregisteredEntry
  <1>4. tasks' \subseteq tasks /\ \A x \in tasks : x.t \in Resolving \cup Later => x \in tasks'
    BY <1>2 DEF Resolving, Later, Closing
  <1>5. \A r : /\ \A T : Task(tasks', T, r) => Task(tasks, T, r)
               /\ Busy(sock', tasks', r) => Busy(sock, tasks, r)
               /\ Task(tasks', Closing, r) <=> Task(tasks, Closing, r)
               /\ Task(tasks', {"detach_cb"}, r) <=> Task(tasks, {"detach_cb"}, r)
    BY <1>2, <1>4 DEF Task, Busy, Later, Closing
  <1>6. TasksOk(sock', tasks')
    BY <1>1, <1>2, <1>4 DEF Sessions, TasksOk
  <1>7. SocksOk(entry', sock', tasks', {})
    <2> SUFFICES ASSUME NEW r \in Socks, sock[r].ctx # Nil
                 PROVE  /\ Waiting(entry', sock', tasks', r) /\ Fresh(entry', sock', r)
                        /\ Attends(entry', sock', tasks', r) /\ Leaving(entry', sock', tasks', r)
      BY <1>2 DEF SocksOk
    <2> DEFINE e == sock[r].ctx
    <2>1. SockAt(entry, sock, tasks, {}, r) /\ e \in Entries
      BY StateSock, StateTypes
    <2>2. /\ Waiting(entry, sock, tasks, r) /\ Fresh(entry, sock, r)
          /\ Attends(entry, sock, tasks, r) /\ Leaving(entry, sock, tasks, r)
      BY <2>1 DEF SockAt
    <2>3. CASE entry'[e] = entry[e]
      <3>1. Fresh(entry', sock', r)
        BY <1>2, <2>2, <2>3 DEF Fresh
      <3>2. Waiting(entry', sock', tasks', r)
        BY <1>2, <1>5, <2>2, <2>3 DEF Waiting
      <3>3. Attends(entry', sock', tasks', r)
        BY <1>2, <1>5, <2>2, <2>3 DEF Attends
      <3> QED
        BY <1>2, <1>5, <2>2, <2>3, <3>1, <3>2, <3>3 DEF Leaving
    <2>4. CASE entry'[e] # entry[e]
      <3>1. /\ entry[e].reg /\ entry'[e].st = "live" /\ ~entry'[e].reg
            /\ sock[r].st = "open" => sock[r].sent
        BY <1>3, <2>1, <2>4
      <3>2. ~Task(tasks', Resolving, r)
        BY <1>5, <2>2, <3>1 DEF Waiting
      <3> QED
        BY <1>2, <3>1, <3>2 DEF Waiting, Fresh, Attends, Leaving
    <2> QED
      BY <2>3, <2>4
  <1>8. Single(sock', tasks', {})
    BY <1>1, <1>2, <1>5 DEF Sessions, Single
  <1>9. Separate(sock', tasks')
    BY <1>1, <1>2, <1>5 DEF Sessions, Separate
  <1>10. ASSUME NEW e \in Entries PROVE Blank(entry'[e]) /\ Linked(entry'[e], e, sock', tasks')
    <2>1. Blank(entry[e]) /\ Linked(entry[e], e, sock, tasks)
      BY <1>10, StateEntry
    <2>2. CASE entry'[e] = entry[e]
      BY <1>2, <1>5, <2>1, <2>2 DEF Linked
    <2>3. CASE entry'[e] # entry[e]
      BY <1>3, <1>10, <2>3 DEF Blank, Linked
    <2> QED
      BY <2>2, <2>3
  <1>11. ASSUME NEW x \in tasks', x.t \in Resolving PROVE AskedAt(entry', x, {})
    <2>1. AskedAt(entry, x, {}) /\ x.id[1] \in Entries
      BY <1>1, <1>4, <1>11, StateAsked, TaskFields
    <2>2. CASE entry'[x.id[1]] = entry[x.id[1]]
      BY <2>1, <2>2 DEF AskedAt
    <2>3. CASE entry'[x.id[1]] # entry[x.id[1]]
      <3>1. entry'[x.id[1]].expired /\ ~entry'[x.id[1]].reg
        BY <1>3, <2>1, <2>3
      <3> QED
        BY <3>1 DEF AskedAt, Settled
    <2> QED
      BY <2>2, <2>3
  <1>12. Asked(entry', tasks', {})
    BY <1>11 DEF Asked, AskedAt
  <1> QED
    BY <1>6, <1>7, <1>8, <1>9, <1>10, <1>12 DEF Sessions, EntriesOk

\* An entry that no busy connection has changes.
LEMMA IdleKeeps ==
    ASSUME SessionState, NEW e \in Entries, NEW q, Becomes(e, q), UNCHANGED <<sock, tasks>>,
           NEW rc \in SUBSET Entries,
           EntryStep(entry[e], q, e, sock, tasks, rc)
    PROVE  Sessions(entry', sock', tasks', rc)
  <1>1. /\ entry \in Tables /\ sock \in Connections /\ tasks \in SUBSET TaskRecord
        /\ Sessions(entry, sock, tasks, {}) /\ {} \in SUBSET Entries /\ {} \subseteq rc
    BY StateTypes
  <1>2. entry' \in Tables /\ \A d \in Entries : EntryStep(entry[d], entry'[d], d, sock, tasks, rc)
    BY KeptItself DEF Becomes, EntryStep
  <1>3. Ended(tasks, tasks')
    BY DEF Ended
  <1>4. Sessions(entry', sock, tasks', rc)
    BY <1>1, <1>2, <1>3, EntriesChange
  <1> QED
    BY <1>4

\* A client of ours is disconnected.
LEMMA DisconnectKeeps ==
    ASSUME SessionState, NEW s \in Socks, Disconnect(entry, s),
           sock[s].ctx # Nil => Busy(sock, tasks, s),
           tasks' \subseteq tasks,
           \A k \in tasks : k.t \in Closing => k \in tasks' \/ k.s = s
    PROVE  Sessions(entry', sock', tasks', {})
  <1>1. /\ entry \in Tables /\ sock \in Connections /\ tasks \in SUBSET TaskRecord
        /\ Sessions(entry, sock, tasks, {}) /\ {} \in SUBSET Entries
    BY StateTypes
  <1> QED
    BY <1>1, DisconnectChange

LEMMA KilledKeeps ==
    ASSUME SessionState, NEW e \in Entries, entry[e].reg, Killed(e), UNCHANGED tasks
    PROVE  Sessions(entry', sock', tasks', {})
  <1>1. TypeOK /\ entry[e] \in EntryRecord /\ e # Nil
    BY StateTypes, NilIsNoEntry
  <1>2. /\ Linked(entry[e], e, sock, tasks)
        /\ entry[e].conn = Nil => Idle(sock, tasks, e)
    BY StateEntry
  <1>3. CASE entry[e].conn \in Socks /\ Disconnect(entry, entry[e].conn)
    <2>1. Busy(sock, tasks, entry[e].conn)
      BY <1>2, <1>3, NilIsNoEntry DEF Linked, Busy
    <2> QED
      BY <1>3, <2>1, DisconnectKeeps
  <1>4. CASE entry[e].conn = Nil /\ UNCHANGED sock /\ Becomes(e, Deleted(entry[e]))
    <2>1. IdleStep(entry[e], Deleted(entry[e]))
      BY <1>1, DeletedEntry DEF IdleStep, Blank, Settled
    <2>2. EntryStep(entry[e], Deleted(entry[e]), e, sock, tasks, {})
      BY <1>2, <1>4, <2>1 DEF EntryStep
    <2> QED
      BY <1>4, <2>2, IdleKeeps
  <1> QED
    BY <1>1, <1>3, <1>4, KilledEffect

LEMMA NotifyKeeps ==
    ASSUME SessionState, NEW e \in Entries,
           NewId(e) \/ UmodeNotify(e) \/ NickChangeNotify(e)
    PROVE  Sessions(entry', sock', tasks', {})
  <1>1. TypeOK /\ entry[e] \in EntryRecord /\ Owned(entry, sock) /\ Blank(entry[e])
    BY StateTypes, StateEntry
  <1>2. /\ UNCHANGED <<sock, tasks>>
        /\ \/ /\ e \in Remotes /\ entry[e].st = "free"
              /\ Becomes(e, AnnouncedEntry(entry[e], e))
           \/ entry[e].reg /\ ~entry[e].local /\ Becomes(e, DetachedEntry(entry[e]))
           \/ entry[e].reg /\ ~entry[e].local /\ Becomes(e, RenamedEntry(entry[e]))
    BY <1>1, NotifyEffect
  <1>3. CASE /\ e \in Remotes /\ entry[e].st = "free" /\ Becomes(e, AnnouncedEntry(entry[e], e))
    <2>1. Idle(sock, tasks, e) /\ ~entry[e].local /\ entry[e].conn = Nil
      BY <1>1, <1>3, FreeIsIdle DEF Owned, Blank
    <2>2. IdleStep(entry[e], AnnouncedEntry(entry[e], e))
      BY <1>1, <1>3, <2>1, AnnouncedFields DEF IdleStep, Blank, Settled
    <2>3. EntryStep(entry[e], AnnouncedEntry(entry[e], e), e, sock, tasks, {})
      BY <2>1, <2>2 DEF EntryStep
    <2> QED
      BY <1>2, <1>3, <2>3, IdleKeeps
  <1>4. CASE entry[e].reg /\ ~entry[e].local /\ Becomes(e, DetachedEntry(entry[e]))
    <2>1. Idle(sock, tasks, e) /\ entry[e].conn = Nil
      BY <1>4, StateEntry
    <2>2. IdleStep(entry[e], DetachedEntry(entry[e]))
      BY <1>1, <1>4, <2>1, DetachedFields DEF IdleStep, Blank, Settled
    <2>3. EntryStep(entry[e], DetachedEntry(entry[e]), e, sock, tasks, {})
      BY <2>1, <2>2 DEF EntryStep
    <2> QED
      BY <1>2, <1>4, <2>3, IdleKeeps
  <1>5. CASE entry[e].reg /\ ~entry[e].local /\ Becomes(e, RenamedEntry(entry[e]))
    <2>1. Idle(sock, tasks, e) /\ entry[e].conn = Nil
      BY <1>5, StateEntry
    <2>2. IdleStep(entry[e], RenamedEntry(entry[e]))
      BY <1>1, <1>5, <2>1, RenamedFields DEF IdleStep, Blank, Settled
    <2>3. EntryStep(entry[e], RenamedEntry(entry[e]), e, sock, tasks, {})
      BY <2>1, <2>2 DEF EntryStep
    <2> QED
      BY <1>2, <1>5, <2>3, IdleKeeps
  <1> QED
    BY <1>2, <1>3, <1>4, <1>5

\* SIGNOFF and KILLED.
LEMMA SignoffKeeps ==
    ASSUME SessionState, NEW e \in Entries, SignoffNotify(e) \/ KilledNotify(e)
    PROVE  Sessions(entry', sock', tasks', {})
  <1> DEFINE s == entry[e].conn
  <1>1. /\ TypeOK /\ entry \in Tables /\ sock \in Connections /\ tasks \in SUBSET TaskRecord
        /\ Sessions(entry, sock, tasks, {}) /\ {} \in SUBSET Entries
        /\ entry[e] \in EntryRecord /\ e # Nil
        /\ \A r \in Socks : sock[r] \in SockRecord
    BY StateTypes, NilIsNoEntry
  <1>2. /\ UNCHANGED tasks /\ entry[e].reg /\ Becomes(e, Unregistered(entry[e]))
        /\ \/ UNCHANGED sock /\ (~entry[e].local \/ s = Nil)
           \/ s \in Socks /\ SockBecomes(s, ClearedSock(sock[s]))
           \/ s \in Socks /\ SockBecomes(s, ClosedSock(sock[s]))
    BY <1>1, SignoffEffect
  <1>3. CASE UNCHANGED sock /\ (~entry[e].local \/ s = Nil)
    <2>1. Idle(sock, tasks, e)
      BY <1>2, <1>3, StateEntry
    <2>2. IdleStep(entry[e], Unregistered(entry[e]))
      BY <1>1, UnregisteredEntry DEF IdleStep, Blank, Settled
    <2>3. EntryStep(entry[e], Unregistered(entry[e]), e, sock, tasks, {})
      BY <2>1, <2>2 DEF EntryStep
    <2> QED
      BY <1>2, <1>3, <2>3, IdleKeeps
  <1>4. CASE s \in Socks /\ (SockBecomes(s, ClearedSock(sock[s])) \/ SockBecomes(s, ClosedSock(sock[s])))
    <2>1. sock[s].st = "open" /\ sock[s].ctx = e
      <3>1. Linked(entry[e], e, sock, tasks)
        BY StateEntry
      <3> QED
        BY <1>2, <1>4, <3>1, NilIsNoEntry DEF Linked
    <2>2. /\ TasksAt(sock, tasks, s) /\ SockAt(entry, sock, tasks, {}, s) /\ SeparateAt(sock, tasks, s)
          /\ Alone(sock, tasks, s, e) /\ Unlinked(entry, s, e, {})
      BY <1>1, <1>4, <2>1, StateSock
    <2>3. /\ sock' \in Connections /\ \A r \in Socks : r # s => sock'[r] = sock[r]
          /\ sock'[s].st = "closed" /\ sock'[s].ctx \in {e, Nil} /\ sock'[s].sent = sock[s].sent
      BY <1>1, <1>4, <2>1, ClosedConnection DEF SockBecomes
    <2>4. /\ entry' \in Tables /\ \A d \in Entries : d # e => entry'[d] = entry[d]
          /\ entry'[e].st = "live" /\ ~entry'[e].reg /\ entry'[e].expired /\ entry'[e].conn = Nil
          /\ ~entry'[e].res /\ ~entry'[e].detached /\ ~entry'[e].resumed
      BY <1>1, <1>2, UnregisteredEntry DEF Becomes
    <2>5. TasksAt(sock', tasks', s)
      BY <1>2, <2>2, <2>3 DEF TasksAt
    <2>6. ~Task(tasks', Resolving, s)
      BY <1>1, <1>2, <2>1, <2>2 DEF SockAt, Waiting
    <2>7. SockAt(entry', sock', tasks', {}, s)
      BY <2>3, <2>4, <2>6 DEF SockAt, Waiting, Fresh, Attends, Leaving
    <2>8. SeparateAt(sock', tasks', s)
      BY <2>3 DEF SeparateAt
    <2>9. Blank(entry'[e]) /\ Linked(entry'[e], e, sock', tasks')
      BY <2>4 DEF Blank, Linked
    <2>10. ASSUME NEW x \in tasks', x.t \in Resolving, x.id[1] = e \/ x \notin tasks
           PROVE  AskedAt(entry', x, {})
      BY <1>2, <2>4, <2>10 DEF AskedAt, Settled
    <2>11. tasks' \in SUBSET TaskRecord /\ OthersKeep(tasks, tasks', s)
      BY <1>1, <1>2 DEF OthersKeep
    <2> HIDE DEF s
    <2> QED
      BY <1>1, <1>4, <2>2, <2>3, <2>4, <2>5, <2>7, <2>8, <2>9, <2>10, <2>11, LocalChange
  <1> QED
    BY <1>2, <1>3, <1>4

\* RESUME_CLIENT from a server.
LEMMA ResumeNotifyKeeps ==
    ASSUME SessionState, raced = {}, NEW e \in Entries, ResumeNotify(e)
    PROVE  Sessions(entry', sock', tasks', raced')
  <1>1. TypeOK /\ entry[e] \in EntryRecord /\ Blank(entry[e]) /\ Linked(entry[e], e, sock, tasks)
    BY StateTypes, StateEntry
  <1>2. /\ UNCHANGED tasks /\ entry[e].reg
        /\ \/ Killed(e) /\ UNCHANGED raced
           \/ /\ entry[e].detached /\ UNCHANGED sock
              /\ Becomes(e, MovedEntry(entry[e]))
              /\ raced' = IF DetachPending(e) THEN raced \cup {e} ELSE raced
    BY <1>1, ResumeNotifyEffect
  <1>3. CASE Killed(e) /\ UNCHANGED raced
    BY <1>2, <1>3, KilledKeeps
  <1>4. CASE /\ entry[e].detached /\ UNCHANGED sock
             /\ Becomes(e, MovedEntry(entry[e]))
             /\ raced' = IF DetachPending(e) THEN raced \cup {e} ELSE raced
    <2>1. CASE DetachPending(e)
      <3>1. EntryStep(entry[e], MovedEntry(entry[e]), e, sock, tasks, raced') /\ raced' \in SUBSET Entries
        BY <1>1, <1>2, <1>4, <2>1, MovedFields DEF EntryStep
      <3> QED
        BY <1>2, <1>4, <3>1, IdleKeeps
    <2>2. CASE ~DetachPending(e)
      <3>1. ~entry[e].local \/ entry[e].conn = Nil
        <4> SUFFICES ASSUME entry[e].local, entry[e].conn # Nil PROVE FALSE
          OBVIOUS
        <4>1. sock[entry[e].conn].ctx = e /\ Task(tasks, {"detach_cb"}, entry[e].conn)
          BY <1>1, <1>2, <1>4 DEF Linked
        <4> QED
          BY <2>2, <4>1 DEF Task, DetachPending
      <3>2. Idle(sock, tasks, e) /\ entry[e].conn = Nil
        BY <1>2, <3>1, StateEntry
      <3>3. IdleStep(entry[e], MovedEntry(entry[e]))
        BY <1>1, <1>2, <3>2, MovedFields DEF IdleStep, Blank, Settled
      <3>4. EntryStep(entry[e], MovedEntry(entry[e]), e, sock, tasks, {}) /\ raced' = {}
        BY <1>4, <2>2, <3>2, <3>3 DEF EntryStep
      <3> QED
        BY <1>2, <1>4, <3>4, IdleKeeps
    <2> QED
      BY <2>1, <2>2
  <1> QED
    BY <1>2, <1>3, <1>4

-----------------------------------------------------------------------------
(***************************************************************************)
(* Resume keeps the invariant, whatever state its caller has left.         *)
(***************************************************************************)

\* The connection s, in the state that is left, may resume: its client has not
\* registered, and nothing else is under way there.
Resumable(en, tk, rc, s) ==
    /\ Sessions(en, sock, tk, rc)
    /\ sock[s].ctx \in Entries /\ sock[s].ctx \notin rc
    /\ sock[s].st = "open" /\ ~en[sock[s].ctx].reg
    /\ ~Task(tk, Resolving, s) /\ ~Task(tk, Closing, s)

LEMMA RefusesKeeps ==
    ASSUME NEW en \in Tables, NEW tk \in SUBSET TaskRecord, NEW rc \in SUBSET Entries, NEW s \in Socks,
           sock \in Connections, Resumable(en, tk, rc, s), Refuses(en, tk, rc, s)
    PROVE  Sessions(entry', sock', tasks', raced')
  <1>1. Busy(sock, tk, s) /\ Disconnect(en, s) /\ tasks' = tk /\ raced' = rc
    BY DEF Resumable, Busy, Refuses
  <1>2. /\ Sessions(en, sock, tk, rc) /\ sock[s].ctx \notin rc
        /\ tk \subseteq tk /\ \A k \in tk : k.t \in Closing => k \in tk \/ k.s = s
    BY DEF Resumable
  <1>3. Sessions(entry', sock', tk, rc)
    BY <1>1, <1>2, DisconnectChange
  <1> QED
    BY <1>1, <1>3

LEMMA WaitsKeeps ==
    ASSUME NEW en \in Tables, NEW tk \in SUBSET TaskRecord, NEW rc \in SUBSET Entries, NEW s \in Socks,
           NEW id \in Ids, sock \in Connections, Resumable(en, tk, rc, s),
           id[1] \in Socks => Settled(en[id[1]]),
           tasks' \in SUBSET TaskRecord, Waits(en, tk, rc, s, id)
    PROVE  Sessions(entry', sock', tasks', raced')
  <1> DEFINE e == sock[s].ctx
  <1>1. PICK k : /\ tasks' = tk \cup {k} /\ k.s = s /\ k.t \in Resolving /\ k.id = id
                 /\ k.t = "whois" => k = WhoisTask(en, s, id)
    <2>1. CASE tasks' = tk \cup {WhoisTask(en, s, id)}
      <3>1. /\ WhoisTask(en, s, id).s = s /\ WhoisTask(en, s, id).t \in Resolving
            /\ WhoisTask(en, s, id).id = id
        BY DEF WhoisTask, Resolving
      <3> QED
        BY <2>1, <3>1
    <2>2. CASE tasks' = tk \cup {[t |-> "getkey", s |-> s, id |-> id]}
      <3> DEFINE l == [t |-> "getkey", s |-> s, id |-> id]
      <3>1. l.s = s /\ l.t \in Resolving /\ l.id = id /\ l.t # "whois"
        BY DEF Resolving
      <3> QED
        BY <2>2, <3>1
    <2> QED
      BY <2>1, <2>2 DEF Waits
  <1>2. entry' = en /\ sock' = sock /\ raced' = rc
    BY DEF Waits
  <1>3. /\ Sessions(en, sock, tk, rc) /\ e \in Entries /\ e \notin rc /\ e # Nil
        /\ sock[s].st = "open" /\ ~en[e].reg /\ ~Task(tk, Resolving, s) /\ ~Task(tk, Closing, s)
    BY NilIsNoEntry DEF Resumable
  <1>4. /\ TasksAt(sock, tk, s) /\ SockAt(en, sock, tk, rc, s) /\ SeparateAt(sock, tk, s)
        /\ Busy(sock, tk, s) /\ Alone(sock, tk, s, e) /\ Unlinked(en, s, e, rc)
    BY <1>3, AtSock
  <1>5. Blank(en[e]) /\ Linked(en[e], e, sock, tk)
    BY <1>3, AtEntry
  <1>6. /\ k.t \notin Later /\ k.t \notin Closing /\ k.t # "detach_cb"
    BY <1>1 DEF Resolving, Later, Closing
  <1>7. \A r \in Socks : /\ Task(tasks', Later, r) <=> Task(tk, Later, r)
                         /\ Task(tasks', Closing, r) <=> Task(tk, Closing, r)
                         /\ Task(tasks', {"detach_cb"}, r) <=> Task(tk, {"detach_cb"}, r)
    BY <1>1, <1>6 DEF Task
  <1>8. TasksAt(sock', tasks', s)
    <2>1. \A x \in tk : x.s = s => x.t \notin Resolving /\ x.t \notin Closing
      BY <1>3 DEF Task
    <2> QED
      BY <1>1, <1>2, <1>4, <1>6, <1>7, <2>1 DEF TasksAt
  <1>9. SockAt(en, sock, tasks', rc, s)
    BY <1>3, <1>4, <1>7 DEF SockAt, Waiting, Attends, Leaving
  <1>10. SeparateAt(sock', tasks', s)
    BY <1>2, <1>4, <1>7 DEF SeparateAt
  <1>11. Linked(en[e], e, sock, tasks')
    BY <1>3 DEF Linked
  <1>12. AskedAt(en, k, rc)
    <2>1. ASSUME k.t = "whois", TRUE \in k.modes, id = <<id[1], en[id[1]].home>>, en[id[1]].reg, en[id[1]].local
          PROVE  en[id[1]].detached
      <3> DEFINE own == {d \in FindClientById(en, id) : en[d].local}
      <3>1. id[1] \in Entries
        BY DEF Ids
      <3>2. \A d \in own : d = id[1]
        BY <2>1 DEF FindClientById
      <3>3. id[1] \in own
        BY <2>1, <3>1 DEF FindClientById
      <3>4. k.modes = {en[d].detached : d \in own}
        BY <1>1, <2>1, <3>3 DEF WhoisTask
      <3>5. PICK d \in own : TRUE = en[d].detached
        BY <2>1, <3>4
      <3> QED
        BY <3>2, <3>5
    <2> QED
      BY <1>1, <2>1 DEF AskedAt
  <1>13. ASSUME NEW x \in tasks', x.t \in Resolving, x.id[1] = e \/ x \notin tk
         PROVE  AskedAt(en, x, rc)
    <2>1. CASE x \in tk
      BY <1>3, <1>13, <2>1 DEF Sessions, Asked, AskedAt
    <2>2. CASE x = k
      BY <1>12, <2>2
    <2> QED
      BY <1>1, <2>1, <2>2
  <1>14. OthersKeep(tk, tasks', s) /\ sock[s].ctx \in {e, Nil}
    BY <1>1 DEF OthersKeep
  <1>15. TasksAt(sock, tasks', s) /\ SeparateAt(sock, tasks', s)
    BY <1>2, <1>8, <1>10
  <1> HIDE DEF e
  <1>16. Sessions(en, sock, tasks', rc)
    BY <1>3, <1>4, <1>5, <1>9, <1>11, <1>13, <1>14, <1>15, LocalChange
  <1> QED
    BY <1>2, <1>16

\* The entry made for the connection is deleted.
LEMMA EntryDeleted ==
    ASSUME NEW en \in Tables, NEW tk \in SUBSET TaskRecord, NEW rc \in SUBSET Entries, NEW s \in Socks,
           sock \in Connections, Resumable(en, tk, rc, s),
           NEW en2 \in Tables, NEW sk2 \in Connections,
           \A d \in Entries : d # sock[s].ctx => en2[d] = en[d],
           en2[sock[s].ctx] = Deleted(en[sock[s].ctx]),
           \A r \in Socks : r # s => sk2[r] = sock[r],
           sk2[s].st = "open", sk2[s].ctx = Nil, sk2[s].sent = sock[s].sent
    PROVE  Sessions(en2, sk2, tk, rc)
  <1> DEFINE c == sock[s].ctx
  <1>1. /\ Sessions(en, sock, tk, rc) /\ c \in Entries /\ c \notin rc /\ c # Nil
        /\ sock[s].st = "open" /\ ~en[c].reg
    BY NilIsNoEntry DEF Resumable
  <1>2. /\ TasksAt(sock, tk, s) /\ SockAt(en, sock, tk, rc, s) /\ SeparateAt(sock, tk, s)
        /\ Busy(sock, tk, s) /\ Alone(sock, tk, s, c) /\ Unlinked(en, s, c, rc)
    BY <1>1, AtSock
  <1>3. en[c] \in EntryRecord
    BY <1>1 DEF Tables
  <1>4. /\ en2[c].st = "gone" /\ ~en2[c].reg /\ ~en2[c].res /\ ~en2[c].detached /\ ~en2[c].resumed
    BY <1>3, DeletedEntry
  <1>5. Blank(en2[c]) /\ Linked(en2[c], c, sk2, tk)
    BY <1>4 DEF Blank, Linked
  <1>6. TasksAt(sk2, tk, s) /\ SockAt(en2, sk2, tk, rc, s) /\ SeparateAt(sk2, tk, s)
    BY <1>2 DEF TasksAt, SockAt, SeparateAt
  <1>7. \A x \in tk : x.t \in Resolving /\ (x.id[1] = c \/ x \notin tk) => AskedAt(en2, x, rc)
    BY <1>4 DEF AskedAt, Settled
  <1>8. OthersKeep(tk, tk, s) /\ sk2[s].ctx \in {c, Nil} /\ rc \subseteq rc
        /\ \A d \in Entries : d # c => en2[d] = en[d]
    BY DEF OthersKeep
  <1> HIDE DEF c
  <1> QED
    BY <1>1, <1>2, <1>5, <1>6, <1>7, <1>8, LocalChange

\* The session e goes on at the connection s.
LEMMA ResumesKeeps ==
    ASSUME NEW en \in Tables, NEW tk \in SUBSET TaskRecord, NEW rc \in SUBSET Entries, NEW s \in Socks,
           sock \in Connections, Resumable(en, tk, rc, s), kind # "router",
           tk \subseteq tasks, \A k \in tasks : k.t \in Closing => k \in tk,
           \A d \in rc : en[d].resumed,
           NEW e \in Entries, Resumes(en, tk, rc, s, e)
    PROVE  Sessions(entry', sock', tasks', raced')
  <1> DEFINE c == sock[s].ctx
             en2 == [en EXCEPT ![c] = Deleted(en[c])]
             sk2 == [sock EXCEPT ![s] = [sock[s] EXCEPT !.ctx = Nil]]
  <1>1. /\ Sessions(en, sock, tk, rc) /\ c \in Entries /\ c \notin rc /\ c # Nil
        /\ sock[s].st = "open" /\ ~en[c].reg /\ ~Task(tk, Resolving, s) /\ ~Task(tk, Closing, s)
    BY NilIsNoEntry DEF Resumable
  <1>2. /\ en[e].reg /\ ~en[e].resumed /\ (en[e].detached \/ en[e].res) /\ e \notin rc /\ e # c /\ e # Nil
        /\ entry' \in Tables /\ sock' \in Connections
        /\ \A d \in Entries : entry'[d] = IF d = c THEN Deleted(en[d])
                                          ELSE IF d = e THEN Attached(en[d], s, en[c].key) ELSE en[d]
        /\ \A r \in Socks : sock'[r] = IF r = s THEN [sock[r] EXCEPT !.ctx = e] ELSE sock[r]
        /\ tasks' = tk
        /\ raced' = IF DetachPending(e) THEN rc \cup {e} ELSE rc
    BY <1>1, NilIsNoEntry DEF Resumes
  <1>3. /\ en[c] \in EntryRecord /\ en[e] \in EntryRecord /\ en[c].key \in Users \cup {Nil}
        /\ sock[s] \in SockRecord
    BY <1>1, SockFields DEF Tables, EntryRecord
  <1>4. /\ en2 \in Tables /\ en2[c] = Deleted(en[c]) /\ \A d \in Entries : d # c => en2[d] = en[d]
    BY <1>1, <1>3, DeletedEntry DEF Tables
  <1>5. /\ sk2 \in Connections /\ \A r \in Socks : r # s => sk2[r] = sock[r]
        /\ sk2[s].st = "open" /\ sk2[s].ctx = Nil /\ sk2[s].sent = sock[s].sent
    <2>1. LET y == [sock[s] EXCEPT !.ctx = Nil] IN
          y \in SockRecord /\ y.st = "open" /\ y.ctx = Nil /\ y.sent = sock[s].sent
      BY <1>1, <1>3 DEF SockRecord
    <2> QED
      BY <2>1 DEF Connections
  <1>6. /\ sock'[s].st = "open" /\ sock'[s].ctx = e /\ sock'[s].sent = sk2[s].sent
        /\ \A r \in Socks : r # s => sock'[r] = sk2[r]
    BY <1>1, <1>2, <1>3, <1>5 DEF SockRecord
  <1> HIDE DEF en2, sk2
  <1>7. Sessions(en2, sk2, tk, rc)
    BY <1>4, <1>5, EntryDeleted
  <1>8. /\ entry'[e].reg /\ entry'[e].resumed /\ ~entry'[e].res /\ entry'[e].local
        /\ ~entry'[e].detached /\ entry'[e].conn = s /\ entry'[e].st = en[e].st
    BY <1>2, <1>3, AttachedEntry
  <1>9. \A d \in Entries : d # e => entry'[d] = en2[d]
    BY <1>2, <1>4
  <1>10. en2[e] = en[e] /\ Blank(en[e]) /\ Linked(en[e], e, sock, tk)
    BY <1>1, <1>2, <1>4, AtEntry
  <1>11. TasksAt(sk2, tk, s) /\ Unlinked(en2, s, Nil, rc)
    BY <1>4, <1>5, <1>7, AtSock
  <1>12. Alone(sk2, tk, s, e) \/ DetachPending(e)
    <2> SUFFICES ASSUME ~DetachPending(e) PROVE Alone(sk2, tk, s, e)
      OBVIOUS
    <2>1. ~en[e].local \/ en[e].conn = Nil
      <3> SUFFICES ASSUME en[e].local, en[e].conn # Nil PROVE FALSE
        OBVIOUS
      <3>1. en[e].detached /\ sock[en[e].conn].ctx = e /\ Task(tk, {"detach_cb"}, en[e].conn)
        BY <1>2, <1>10 DEF Linked
      <3>2. PICK k \in tk : k.t = "detach_cb" /\ k.s = en[e].conn
        BY <3>1 DEF Task
      <3> QED
        BY <3>1, <3>2 DEF DetachPending
    <2>2. Idle(sk2, tk, e)
      BY <1>2, <1>4, <1>5, <1>7, <1>10, <2>1, AtEntry
    <2> QED
      BY <2>2 DEF Idle, Alone
  <1> DEFINE rc2 == raced'
  <1>13. rc2 \in SUBSET Entries /\ rc \subseteq rc2 /\ (DetachPending(e) => e \in rc2)
    BY <1>2
  <1>14. Alone(sk2, tk, s, e) \/ (e \in rc2 /\ en2[e].reg /\ entry'[e].reg)
    BY <1>2, <1>8, <1>10, <1>12, <1>13
  <1>15. Unlinked(en2, s, e, rc2)
    BY <1>11, <1>13, NilIsNoEntry DEF Unlinked
  <1>16. TasksAt(sock', tk, s)
    BY <1>6, <1>11 DEF TasksAt
  <1>17. ~Task(tk, {"detach_cb"}, s)
    BY <1>1 DEF Task, Closing
  <1>18. entry'[e].st = "live"
    BY <1>2, <1>8, <1>10 DEF Blank
  <1>19. SockAt(entry', sock', tk, rc2, s)
    BY <1>1, <1>6, <1>8, <1>17, <1>18 DEF SockAt, Waiting, Fresh, Attends, Leaving
  <1>20. SeparateAt(sock', tk, s)
    <2> SUFFICES ASSUME NEW r \in Socks, r # s, sock'[r].ctx = e, sock'[r].st = "open"
                 PROVE  Task(tk, Closing, r)
      BY <1>6 DEF SeparateAt
    <2>1. sk2[r].ctx = e /\ sk2[r].st = "open" /\ sock[r].ctx = e /\ sock[r].st = "open"
      BY <1>5, <1>6
    <2>2. DetachPending(e)
      BY <1>12, <2>1 DEF Alone, Busy
    <2>3. PICK k \in tasks : k.t = "detach_cb" /\ sock[k.s].ctx = e
      BY <2>2 DEF DetachPending
    <2>4. k \in tk /\ k.s \in Socks /\ k.t \in Closing /\ k.t \in Later
      BY <2>3, TaskFields DEF Closing, Later
    <2>5. Busy(sock, tk, r) /\ Busy(sock, tk, k.s)
      BY <2>1, <2>4 DEF Busy, Task
    <2>6. k.s = r
      BY <1>1, <1>2, <2>1, <2>3, <2>4, <2>5 DEF Sessions, Single
    <2> QED
      BY <2>4, <2>6 DEF Task
  <1>21. Blank(entry'[e])
    BY <1>8, <1>18 DEF Blank
  <1>22. Linked(entry'[e], e, sock', tk)
    BY <1>6, <1>8, NilIsNoEntry DEF Linked
  <1>23. \A x \in tk : x.t \in Resolving /\ (x.id[1] = e \/ x \notin tk) => AskedAt(entry', x, rc2)
    BY <1>8 DEF AskedAt, Settled
  <1>24. OthersKeep(tk, tk, s) /\ sock'[s].ctx \in {e, Nil}
    BY <1>6 DEF OthersKeep
  <1> HIDE DEF c, rc2
  <1>25. entry' \in Tables /\ sock' \in Connections
    BY <1>2
  <1>26. Sessions(entry', sock', tk, rc2)
    BY <1>4, <1>5, <1>6, <1>7, <1>9, <1>13, <1>14, <1>15, <1>16, <1>19, <1>20, <1>21, <1>22, <1>23,
       <1>24, <1>25, LocalChange
  <1> QED
    BY <1>2, <1>26 DEF rc2

\* Nothing is known and nothing is connected.
LEMMA NothingYet == Sessions(NoEntries, NoSocks, {}, {})
  <1>1. \A s \in Socks : NoSocks[s].st = "free" /\ NoSocks[s].ctx = Nil
    BY DEF NoSocks
  <1>2. \A e \in Entries : ~NoEntries[e].reg /\ NoEntries[e].conn = Nil /\ ~NoEntries[e].res
                           /\ ~NoEntries[e].detached /\ ~NoEntries[e].resumed
    BY DEF NoEntries, NoClient
  <1>3. TasksOk(NoSocks, {}) /\ Asked(NoEntries, {}, {})
    BY DEF TasksOk, Asked
  <1>4. SocksOk(NoEntries, NoSocks, {}, {})
    BY <1>1 DEF SocksOk
  <1>5. Single(NoSocks, {}, {}) /\ Separate(NoSocks, {})
    BY <1>1 DEF Single, Separate
  <1>6. EntriesOk(NoEntries, NoSocks, {}, {})
    BY <1>2 DEF EntriesOk, Linked, Blank
  <1> QED
    BY <1>3, <1>4, <1>5, <1>6 DEF Sessions

\* silc_server_resume_client.
LEMMA ResumeClientKeeps ==
    ASSUME TypeOK, kind # "router",
           NEW en \in Tables, NEW tk \in SUBSET TaskRecord, NEW rc \in SUBSET Entries,
           NEW s \in Socks, NEW id \in Ids, NEW complete \in BOOLEAN, NEW verified \in BOOLEAN,
           sock[s].ctx # Nil => Resumable(en, tk, rc, s),
           tk \subseteq tasks, \A k \in tasks : k.t \in Closing => k \in tk,
           \A d \in rc : en[d].resumed,
           id[1] \in Socks => Settled(en[id[1]]),
           ResumeClient(Before(en, tk, rc), s, id, complete, verified)
    PROVE  Sessions(entry', sock', tasks', raced')
  <1>1. sock \in Connections /\ kind \in Kinds
    BY DEF TypeOK, Connections
  <1>2. CASE Crashes
    BY <1>2, NothingYet DEF Crashes
  <1>3. ASSUME sock[s].ctx \in Entries, NEW en2 \in Tables,
               \A e \in Entries : Alike(en[e], en2[e]), Outcome(en2, tk, rc, s, id)
        PROVE  Sessions(entry', sock', tasks', raced')
    <2>1. Resumable(en, tk, rc, s)
      BY <1>3, NilIsNoEntry
    <2>2. Sessions(en2, sock, tk, rc)
      <3>1. \A e \in Entries : EntryStep(en[e], en2[e], e, sock, tk, rc)
        BY <1>3 DEF EntryStep, Kept, Alike
      <3>2. Ended(tk, tk) /\ Sessions(en, sock, tk, rc) /\ rc \subseteq rc
        BY <2>1 DEF Ended, Resumable
      <3> QED
        BY <1>1, <3>1, <3>2, EntriesChange
    <2>3. Resumable(en2, tk, rc, s)
      BY <1>3, <2>1, <2>2 DEF Resumable, Alike
    <2>4. /\ \A d \in rc : en2[d].resumed
          /\ id[1] \in Socks => Settled(en2[id[1]])
      BY <1>3, NilIsNoEntry DEF Alike, Settled
    <2>5. CASE Waits(en2, tk, rc, s, id)
      <3>1. tasks' \in SUBSET TaskRecord
        <4>1. WhoisTask(en2, s, id) \in TaskRecord /\ [t |-> "getkey", s |-> s, id |-> id] \in TaskRecord
          BY ResumeTasks
        <4> QED
          BY <2>5, <4>1 DEF Waits
      <3> QED
        BY <1>1, <2>3, <2>4, <2>5, <3>1, WaitsKeeps
    <2>6. CASE Refuses(en2, tk, rc, s)
      BY <1>1, <2>3, <2>6, RefusesKeeps
    <2>7. ASSUME NEW e \in Entries, Resumes(en2, tk, rc, s, e)
          PROVE  Sessions(entry', sock', tasks', raced')
      BY <1>1, <2>3, <2>4, <2>7, ResumesKeeps
    <2> QED
      BY <1>3, <2>5, <2>6, <2>7 DEF Outcome
  <1> QED
    BY <1>1, <1>2, <1>3, ResumeOutcome

\* RESUME_CLIENT from a client.
LEMMA ResumePacketKeeps ==
    ASSUME SessionState, kind # "router", raced = {}, NEW s \in Socks, NEW id \in Ids,
           NEW complete \in BOOLEAN, NEW verified \in BOOLEAN,
           ResumePacket(s, id, complete, verified)
    PROVE  Sessions(entry', sock', tasks', raced')
  <1>1. /\ TypeOK /\ entry \in Tables /\ sock \in Connections /\ tasks \in SUBSET TaskRecord
        /\ Sessions(entry, sock, tasks, {}) /\ {} \in SUBSET Entries
        /\ sock[s].ctx \in Entries \cup {Nil}
    BY StateTypes
  <1>2. /\ sock[s].st = "open" /\ ~sock[s].sent /\ sock[s].ctx # Nil /\ ~entry[sock[s].ctx].reg
        /\ ~Task(tasks, Resolving, s)
        /\ id[1] \in Socks => Settled(entry[id[1]])
        /\ ResumeClient(Before(entry, tasks, {}), s, id, complete, verified)
    BY DEF ResumePacket, Before, Task, Resolving, Settled
  <1>3. TasksAt(sock, tasks, s)
    BY StateSock
  <1>4. ~Task(tasks, Closing, s)
    BY <1>2, <1>3 DEF TasksAt, Task, Later
  <1>5. Resumable(entry, tasks, {}, s)
    BY <1>1, <1>2, <1>4 DEF Resumable
  <1>6. /\ tasks \subseteq tasks /\ \A k \in tasks : k.t \in Closing => k \in tasks
        /\ \A d \in {} : entry[d].resumed
    OBVIOUS
  <1> QED
    BY <1>1, <1>2, <1>5, <1>6, ResumeClientKeeps

\* A reply to a command of a resume leaves a connection that may resume.
LEMMA ReplyResumable ==
    ASSUME SessionState, NEW k \in tasks, k.t \in Resolving,
           NEW en \in Tables, NEW rc \in SUBSET Entries,
           \A e \in Entries : EntryStep(entry[e], en[e], e, sock, tasks, rc),
           \A e \in Entries : entry[e].st = "free" \/ en[e].reg = entry[e].reg,
           \A e \in rc : entry[e].reg
    PROVE  /\ Sessions(en, sock, tasks \ {k}, rc)
           /\ sock[k.s].ctx # Nil => Resumable(en, tasks \ {k}, rc, k.s)
           /\ tasks \ {k} \in SUBSET TaskRecord /\ tasks \ {k} \subseteq tasks
           /\ \A x \in tasks : x.t \in Closing => x \in tasks \ {k}
  <1> DEFINE tk == tasks \ {k}
             s == k.s
  <1>1. /\ entry \in Tables /\ sock \in Connections /\ tasks \in SUBSET TaskRecord
        /\ Owned(entry, sock) /\ Sessions(entry, sock, tasks, {}) /\ {} \in SUBSET Entries
        /\ s \in Socks /\ sock[s].ctx \in Entries \cup {Nil}
    BY StateTypes, TaskFields
  <1>2. /\ tk \in SUBSET TaskRecord /\ tk \subseteq tasks
        /\ \A x \in tasks : x.t \in Closing => x \in tk
    BY <1>1 DEF Resolving, Closing
  <1>3. Ended(tasks, tk) /\ {} \subseteq rc
    BY <1>2 DEF Ended
  <1> HIDE DEF tk
  <1>4. Sessions(en, sock, tk, rc)
    BY <1>1, <1>3, EntriesChange
  <1>5. TasksAt(sock, tasks, s) /\ SockAt(entry, sock, tasks, {}, s) /\ Task(tasks, Resolving, s)
    BY <1>1, StateSock DEF Task
  <1>6. ~Task(tk, Resolving, s)
    BY <1>5 DEF TasksAt, Task, tk
  <1>7. ~Task(tk, Closing, s)
    BY <1>5 DEF TasksAt, Task, tk
  <1>8. ASSUME sock[s].ctx # Nil PROVE Resumable(en, tk, rc, s)
    <2>1. /\ sock[s].ctx \in Entries /\ sock[s].st = "open" /\ ~entry[sock[s].ctx].reg
          /\ entry[sock[s].ctx].st # "free"
      BY <1>1, <1>5, <1>8 DEF SockAt, Waiting, Owned
    <2> QED
      BY <1>4, <1>6, <1>7, <2>1 DEF Resumable
  <1> QED
    BY <1>2, <1>4, <1>8 DEF tk

\* The reply to WHOIS.
LEMMA WhoisReplyKeeps ==
    ASSUME SessionState, kind # "router", raced = {}, NEW k \in tasks,
           NEW mode \in BOOLEAN, NEW complete \in BOOLEAN, NEW verified \in BOOLEAN,
           WhoisReply(k, mode, complete, verified)
    PROVE  Sessions(entry', sock', tasks', raced')
  <1> DEFINE en == WhoisMarked(k, mode)
             stale == WhoisStale(k, mode)
             tk == tasks \ {k}
  <1>1. /\ TypeOK /\ entry \in Tables /\ sock \in Connections /\ tasks \in SUBSET TaskRecord
        /\ Owned(entry, sock) /\ \A e \in Entries : entry[e] \in EntryRecord
    BY StateTypes
  <1>2. /\ k.t = "whois" /\ mode \in k.modes
        /\ entry[k.id[1]].st = "free" => k.id \in Remotes \X {FALSE}
        /\ \/ WhoisFound(k, mode) = {} /\ ResumeRefused(Before(en, tk, stale), k.s)
           \/ WhoisFound(k, mode) # {} /\ ResumeClient(Before(en, tk, stale), k.s, k.id, complete, verified)
    <2>1. raced \cup stale = stale
      OBVIOUS
    <2>2. /\ k.t = "whois" /\ mode \in k.modes
          /\ entry[k.id[1]].st = "free" => k.id \in Remotes \X {FALSE}
          /\ \/ WhoisFound(k, mode) = {} /\ ResumeRefused(Before(en, tk, raced \cup stale), k.s)
             \/ /\ WhoisFound(k, mode) # {}
                /\ ResumeClient(Before(en, tk, raced \cup stale), k.s, k.id, complete, verified)
      BY DEF WhoisReply, WhoisMarked, WhoisStale, WhoisFound, Before
    <2> QED
      BY <2>1, <2>2
  <1> HIDE DEF en, stale, tk
  <1>3. k.t \in Resolving /\ k.s \in Socks /\ k.id \in Ids /\ k.id[1] \in Entries
    <2>1. k \in TaskRecord /\ k.t \in Resolving
      BY <1>1, <1>2 DEF Resolving
    <2> QED
      BY <2>1, TaskFields
  <1>4. entry[k.id[1]].st = "free" => k.id \in Remotes \X {FALSE} /\ ~entry[k.id[1]].local
    BY <1>1, <1>2, <1>3 DEF Owned
  <1>5. /\ en \in Tables /\ \A e \in Entries : Learnt(k, mode, e)
        /\ \A e \in stale : Overwritten(k, mode, e)
        /\ WhoisFound(k, mode) # {} => mode \/ stale = {}
    BY <1>1, <1>3, <1>4, WhoisEntries DEF en, stale
  <1>6. stale \in SUBSET Entries /\ \A e \in stale : entry[e].reg
    BY <1>5 DEF Overwritten
  <1>7. ASSUME NEW e \in Entries
        PROVE  /\ EntryStep(entry[e], en[e], e, sock, tasks, stale)
               /\ entry[e].st = "free" \/ en[e].reg = entry[e].reg
               /\ Settled(entry[e]) => Settled(en[e])
               /\ entry[e].st # "free" => en[e].resumed = entry[e].resumed
    <2>1. Learnt(k, mode, e) /\ Blank(entry[e]) /\ entry[e] \in EntryRecord /\ en[e] \in EntryRecord
      BY <1>1, <1>5, <1>7, StateEntry DEF Tables
    <2>2. CASE entry[e].st = "free" /\ e \in Remotes /\ Added(en[e], e)
      <3>1. Idle(sock, tasks, e)
        BY <1>1, <2>2, FreeIsIdle
      <3>2. IdleStep(entry[e], en[e])
        BY <2>2 DEF Added, IdleStep, Blank, Settled
      <3> QED
        BY <2>2, <3>1, <3>2 DEF EntryStep, IdleStep
    <2>3. CASE /\ Similar(entry[e], en[e])
               /\ en[e].detached # entry[e].detached =>
                    entry[e].reg /\ (entry[e].local => e \in stale)
               /\ en[e].res # entry[e].res => en[e].detached /\ entry[e].reg
      <3>1. CASE en[e].detached = entry[e].detached
        <4>1. Kept(entry[e], en[e])
          BY <2>3, <3>1 DEF Similar, Kept
        <4> QED
          BY <2>3, <4>1 DEF EntryStep, Similar, Settled
      <3>2. CASE en[e].detached # entry[e].detached /\ entry[e].local
        BY <2>3, <3>2 DEF EntryStep, Similar, Settled
      <3>3. CASE en[e].detached # entry[e].detached /\ ~entry[e].local
        <4>1. Idle(sock, tasks, e) /\ entry[e].conn = Nil
          BY <1>7, <2>3, <3>3, StateEntry
        <4>2. IdleStep(entry[e], en[e])
          BY <2>1, <2>3, <3>3, <4>1 DEF Similar, IdleStep, Blank, Settled
        <4> QED
          BY <2>3, <4>1, <4>2 DEF EntryStep, Similar, Settled
      <3> QED
        BY <3>1, <3>2, <3>3
    <2> QED
      BY <2>1, <2>2, <2>3 DEF Learnt, en, stale
  <1>8. /\ Sessions(en, sock, tk, stale)
        /\ sock[k.s].ctx # Nil => Resumable(en, tk, stale, k.s)
        /\ tk \in SUBSET TaskRecord /\ tk \subseteq tasks
        /\ \A x \in tasks : x.t \in Closing => x \in tk
    BY <1>3, <1>5, <1>6, <1>7, ReplyResumable DEF tk
  <1>9. CASE ResumeRefused(Before(en, tk, stale), k.s)
    <2>1. Disconnect(en, k.s) /\ tasks' = tk /\ raced' = stale
      BY <1>9 DEF ResumeRefused, Before
    <2>2. sock[k.s].ctx # Nil => Busy(sock, tk, k.s) /\ sock[k.s].ctx \notin stale
      BY <1>8 DEF Resumable, Busy
    <2>3. tk \subseteq tk /\ \A x \in tk : x.t \in Closing => x \in tk \/ x.s = k.s
      OBVIOUS
    <2>4. Sessions(entry', sock', tk, stale)
      BY <1>1, <1>3, <1>5, <1>6, <1>8, <2>1, <2>2, <2>3, DisconnectChange
    <2> QED
      BY <2>1, <2>4
  <1>10. CASE WhoisFound(k, mode) # {} /\ ResumeClient(Before(en, tk, stale), k.s, k.id, complete, verified)
    <2>1. AskedAt(entry, k, {})
      BY <1>3, StateAsked
    <2>2. k.id[1] \in Socks => Settled(en[k.id[1]])
      BY <1>3, <1>7, <2>1 DEF AskedAt
    <2>3. ASSUME NEW d \in stale PROVE en[d].resumed
      <3>1. mode /\ Overwritten(k, mode, d)
        BY <1>5, <1>10, <2>3
      <3>2. /\ d \in Entries /\ entry[d].local /\ entry[d].reg /\ ~entry[d].detached /\ k.id = Id(d)
        BY <3>1 DEF Overwritten
      <3>3. d = k.id[1] /\ k.id = <<d, entry[d].home>>
        BY <3>2 DEF Id
      <3>4. TRUE \in k.modes
        BY <1>2, <3>1
      <3>5. entry[d].resumed
        BY <1>2, <2>1, <3>2, <3>3, <3>4 DEF AskedAt
      <3>6. entry[d].st # "free"
        BY <1>1, <3>2 DEF Owned
      <3> QED
        BY <1>7, <3>2, <3>5, <3>6
    <2> QED
      BY <1>1, <1>3, <1>5, <1>6, <1>8, <1>10, <2>2, <2>3, ResumeClientKeeps
  <1> QED
    BY <1>2, <1>9, <1>10

\* The reply to GETKEY.
LEMMA GetkeyReplyKeeps ==
    ASSUME SessionState, kind # "router", raced = {}, NEW k \in tasks,
           NEW keyed \in BOOLEAN, NEW complete \in BOOLEAN,
           NEW verified \in BOOLEAN, GetkeyReply(k, keyed, complete, verified)
    PROVE  Sessions(entry', sock', tasks', raced')
  <1> DEFINE en == GetkeyStored(k, keyed)
             tk == tasks \ {k}
  <1>1. /\ TypeOK /\ entry \in Tables /\ sock \in Connections /\ tasks \in SUBSET TaskRecord
        /\ Owned(entry, sock) /\ {} \in SUBSET Entries
    BY StateTypes
  <1>2. k.t = "getkey" /\ ResumeClient(Before(en, tk, {}), k.s, k.id, complete, verified)
    BY DEF GetkeyReply, GetkeyStored, Before
  <1>3. k.t \in Resolving /\ k.s \in Socks /\ k.id \in Ids /\ k.id[1] \in Entries
    <2>1. k \in TaskRecord /\ k.t \in Resolving
      BY <1>1, <1>2 DEF Resolving
    <2> QED
      BY <2>1, TaskFields
  <1>4. en \in Tables /\ \A e \in Entries : Kept(entry[e], en[e])
    <2>1. /\ en \in Tables
          /\ \A e \in Entries : /\ Similar(entry[e], en[e])
                                /\ en[e].detached = entry[e].detached /\ en[e].res = entry[e].res
      BY <1>1, GetkeyEntries
    <2> QED
      BY <2>1 DEF Similar, Kept
  <1> HIDE DEF en, tk
  <1>5. /\ \A e \in Entries : EntryStep(entry[e], en[e], e, sock, tasks, {})
        /\ \A e \in Entries : entry[e].st = "free" \/ en[e].reg = entry[e].reg
        /\ \A e \in {} : entry[e].reg
    BY <1>4 DEF EntryStep, Kept
  <1>6. /\ sock[k.s].ctx # Nil => Resumable(en, tk, {}, k.s)
        /\ tk \in SUBSET TaskRecord /\ tk \subseteq tasks
        /\ \A x \in tasks : x.t \in Closing => x \in tk
    BY <1>1, <1>3, <1>4, <1>5, ReplyResumable DEF tk
  <1>7. AskedAt(entry, k, {})
    BY <1>3, StateAsked
  <1>8. k.id[1] \in Socks => Settled(en[k.id[1]])
    BY <1>3, <1>4, <1>7 DEF AskedAt, Kept, Settled
  <1>9. \A d \in {} : en[d].resumed
    OBVIOUS
  <1> QED
    BY <1>1, <1>2, <1>3, <1>4, <1>6, <1>8, <1>9, ResumeClientKeeps

-----------------------------------------------------------------------------
LEMMA SessionsKept ==
    ASSUME SessionState, kind # "router", Next
    PROVE  Sessions(entry', sock', tasks', raced')
  <1>1. raced = {} /\ (Environment \/ \E s \in Socks : Scheduled(s))
    BY DEF Next, Running
  <1>2. TypeOK /\ \A k \in tasks : k.s \in Socks
    BY StateTypes, TaskFields
  <1>3. ASSUME Sessions(entry', sock', tasks', {}), UNCHANGED raced
        PROVE  Sessions(entry', sock', tasks', raced')
    BY <1>1, <1>3
  <1>4. ASSUME NEW s \in Socks, sock[s].st = "open", Disconnect(entry, s), UNCHANGED <<tasks, raced>>
        PROVE  Sessions(entry', sock', tasks', raced')
    BY <1>3, <1>4, DisconnectKeeps DEF Busy
  <1>5. ASSUME NEW s \in Socks, NEW u \in Users, Connect(s, u) PROVE Sessions(entry', sock', tasks', raced')
    <2>1. UNCHANGED raced
      BY <1>5 DEF Connect
    <2> QED
      BY <1>3, <1>5, <2>1, ConnectKeeps
  <1>6. ASSUME NEW s \in Socks, NewClient(s) PROVE Sessions(entry', sock', tasks', raced')
    <2>1. /\ sock[s].st = "open" /\ ~sock[s].sent /\ sock[s].ctx \in Entries /\ ~entry[sock[s].ctx].reg
          /\ UNCHANGED <<tasks, raced>> /\ ~Task(tasks, Resolving, s)
          /\ \/ UNCHANGED sock /\ Becomes(sock[s].ctx, RegisteredEntry(entry[sock[s].ctx]))
             \/ Disconnect(entry, s)
      BY <1>2, <1>6, NewClientEffect DEF Task, Resolving
    <2> QED
      BY <1>3, <1>4, <2>1, RegisterKeeps
  <1>7. ASSUME NEW s \in Socks, PacketEos(s) PROVE Sessions(entry', sock', tasks', raced')
    BY <1>4, <1>7 DEF PacketEos
  <1>8. ASSUME NEW s \in Socks, NEW c \in Commands, CommandProcess(s, c)
        PROVE  Sessions(entry', sock', tasks', raced')
    <2>1. UNCHANGED raced
      BY <1>8 DEF CommandProcess
    <2> QED
      BY <1>3, <1>8, <2>1, CommandProcessKeeps
  <1>9. ASSUME NEW s \in Socks, NEW id \in Ids, NEW complete \in BOOLEAN, NEW verified \in BOOLEAN,
               ResumePacket(s, id, complete, verified)
        PROVE  Sessions(entry', sock', tasks', raced')
    BY <1>1, <1>9, ResumePacketKeeps
  <1>10. ASSUME NEW e \in Entries, KillClient(e) PROVE Sessions(entry', sock', tasks', raced')
    <2>1. entry[e].reg /\ Killed(e) /\ UNCHANGED <<tasks, raced>>
      BY <1>10 DEF KillClient
    <2> QED
      BY <1>3, <2>1, KilledKeeps
  <1>11. ASSUME NEW e \in Entries, NewId(e) \/ UmodeNotify(e) \/ NickChangeNotify(e)
         PROVE  Sessions(entry', sock', tasks', raced')
    <2>1. UNCHANGED raced
      BY <1>11 DEF NewId, UmodeNotify, NickChangeNotify
    <2> QED
      BY <1>3, <1>11, <2>1, NotifyKeeps
  <1>12. ASSUME NEW e \in Entries, SignoffNotify(e) \/ KilledNotify(e)
         PROVE  Sessions(entry', sock', tasks', raced')
    <2>1. UNCHANGED raced
      BY <1>12 DEF SignoffNotify, KilledNotify
    <2> QED
      BY <1>3, <1>12, <2>1, SignoffKeeps
  <1>13. ASSUME NEW e \in Entries, ResumeNotify(e) PROVE Sessions(entry', sock', tasks', raced')
    BY <1>1, <1>13, ResumeNotifyKeeps
  <1>14. ASSUME NEW k \in tasks, CommandProcessTimeout(k) PROVE Sessions(entry', sock', tasks', raced')
    <2>1. UNCHANGED raced
      BY <1>14 DEF CommandProcessTimeout
    <2> QED
      BY <1>3, <1>14, <2>1, CommandKeeps
  <1>15. ASSUME NEW k \in tasks, QuitCb(k) PROVE Sessions(entry', sock', tasks', raced')
    <2>1. k.t = "quit_cb" /\ tasks' = tasks \ {k} /\ UNCHANGED raced /\ k.s \in Socks
      BY <1>2, <1>15 DEF QuitCb
    <2>2. CASE sock[k.s].ctx = Nil
      <3>1. entry' = entry /\ sock' = sock
        BY <1>15, <2>2 DEF QuitCb
      <3>2. Sessions(entry, sock, tasks \ {k}, {})
        BY <2>2, TaskEnds
      <3> QED
        BY <1>1, <2>1, <3>1, <3>2
    <2>3. CASE sock[k.s].ctx # Nil
      <3>1. Disconnect(entry, k.s)
        BY <1>15, <2>3 DEF QuitCb
      <3>2. Busy(sock, tasks, k.s)
        BY <2>1 DEF Busy, Task, Later, Closing
      <3>3. tasks' \subseteq tasks /\ \A x \in tasks : x.t \in Closing => x \in tasks' \/ x.s = k.s
        BY <2>1
      <3> QED
        BY <1>3, <2>1, <3>1, <3>2, <3>3, DisconnectKeeps
    <2> QED
      BY <2>2, <2>3
  <1>16. ASSUME NEW k \in tasks, DetachCb(k) PROVE Sessions(entry', sock', tasks', raced')
    <2>1. UNCHANGED raced
      BY <1>16 DEF DetachCb
    <2> QED
      BY <1>3, <1>16, <2>1, DetachCbKeeps
  <1>17. ASSUME NEW k \in tasks, DetachTimeout(k) PROVE Sessions(entry', sock', tasks', raced')
    <2>1. UNCHANGED raced
      BY <1>17 DEF DetachTimeout
    <2> QED
      BY <1>3, <1>17, <2>1, DetachTimeoutKeeps
  <1>18. ASSUME NEW k \in tasks, ResolveFails(k) PROVE Sessions(entry', sock', tasks', raced')
    <2>1. /\ k.t \in Resolving /\ Disconnect(entry, k.s) /\ tasks' = tasks \ {k} /\ UNCHANGED raced
          /\ k.s \in Socks
      BY <1>2, <1>18 DEF ResolveFails, Resolving
    <2>2. Busy(sock, tasks, k.s)
      BY <2>1 DEF Busy, Task
    <2>3. tasks' \subseteq tasks /\ \A x \in tasks : x.t \in Closing => x \in tasks' \/ x.s = k.s
      BY <2>1
    <2> QED
      BY <1>3, <2>1, <2>2, <2>3, DisconnectKeeps
  <1>19. ASSUME NEW k \in tasks, NEW mode \in BOOLEAN, NEW complete \in BOOLEAN, NEW verified \in BOOLEAN,
                WhoisReply(k, mode, complete, verified)
         PROVE  Sessions(entry', sock', tasks', raced')
    BY <1>1, <1>19, WhoisReplyKeeps
  <1>20. ASSUME NEW k \in tasks, NEW keyed \in BOOLEAN, NEW complete \in BOOLEAN,
                NEW verified \in BOOLEAN, GetkeyReply(k, keyed, complete, verified)
         PROVE  Sessions(entry', sock', tasks', raced')
    BY <1>1, <1>20, GetkeyReplyKeeps
  <1>21. CASE Environment
    BY <1>5, <1>6, <1>7, <1>8, <1>9, <1>10, <1>11, <1>12, <1>13, <1>21 DEF Environment
  <1>22. ASSUME NEW s \in Socks, Scheduled(s) PROVE Sessions(entry', sock', tasks', raced')
    BY <1>14, <1>15, <1>16, <1>17, <1>18, <1>19, <1>20, <1>22 DEF Scheduled
  <1> QED
    BY <1>1, <1>21, <1>22

LEMMA KindKept ==
    ASSUME Next
    PROVE  kind' = kind
  <1>1. ASSUME NEW s \in Socks, NEW u \in Users,
              Connect(s, u)
       PROVE  kind' = kind
    BY <1>1 DEF Connect
  <1>2. ASSUME NEW s \in Socks,
              NewClient(s)
       PROVE  kind' = kind
    BY <1>2 DEF NewClient
  <1>3. ASSUME NEW s \in Socks,
              PacketEos(s)
       PROVE  kind' = kind
    BY <1>3 DEF PacketEos
  <1>4. ASSUME NEW s \in Socks, NEW c \in Commands,
              CommandProcess(s, c)
       PROVE  kind' = kind
    BY <1>4 DEF CommandProcess
  <1>5. ASSUME NEW s \in Socks, NEW id \in Ids, NEW complete \in BOOLEAN, NEW verified \in BOOLEAN,
              ResumePacket(s, id, complete, verified)
       PROVE  kind' = kind
    BY <1>5 DEF ResumePacket
  <1>6. ASSUME NEW e \in Entries,
              KillClient(e)
       PROVE  kind' = kind
    BY <1>6 DEF KillClient
  <1>7. ASSUME NEW e \in Entries,
              NewId(e)
       PROVE  kind' = kind
    BY <1>7 DEF NewId
  <1>8. ASSUME NEW e \in Entries,
              UmodeNotify(e)
       PROVE  kind' = kind
    BY <1>8 DEF UmodeNotify
  <1>9. ASSUME NEW e \in Entries,
              SignoffNotify(e)
       PROVE  kind' = kind
    BY <1>9 DEF SignoffNotify
  <1>10. ASSUME NEW e \in Entries,
              KilledNotify(e)
       PROVE  kind' = kind
    BY <1>10 DEF KilledNotify
  <1>11. ASSUME NEW e \in Entries,
              ResumeNotify(e)
       PROVE  kind' = kind
    BY <1>11 DEF ResumeNotify
  <1>12. ASSUME NEW e \in Entries,
              NickChangeNotify(e)
       PROVE  kind' = kind
    BY <1>12 DEF NickChangeNotify
  <1>13. ASSUME NEW k \in tasks,
              CommandProcessTimeout(k)
       PROVE  kind' = kind
    BY <1>13 DEF CommandProcessTimeout
  <1>14. ASSUME NEW k \in tasks,
              QuitCb(k)
       PROVE  kind' = kind
    BY <1>14 DEF QuitCb
  <1>15. ASSUME NEW k \in tasks,
              DetachCb(k)
       PROVE  kind' = kind
    BY <1>15 DEF DetachCb
  <1>16. ASSUME NEW k \in tasks,
              DetachTimeout(k)
       PROVE  kind' = kind
    BY <1>16 DEF DetachTimeout
  <1>17. ASSUME NEW k \in tasks,
              ResolveFails(k)
       PROVE  kind' = kind
    BY <1>17 DEF ResolveFails
  <1>18. ASSUME NEW k \in tasks, NEW mode \in BOOLEAN, NEW complete \in BOOLEAN, NEW verified \in BOOLEAN,
              WhoisReply(k, mode, complete, verified)
       PROVE  kind' = kind
    BY <1>18 DEF WhoisReply
  <1>19. ASSUME NEW k \in tasks, NEW keyed \in BOOLEAN, NEW complete \in BOOLEAN,
              NEW verified \in BOOLEAN, GetkeyReply(k, keyed, complete, verified)
       PROVE  kind' = kind
    BY <1>19 DEF GetkeyReply
  <1>20. CASE Environment
    BY <1>1, <1>2, <1>3, <1>4, <1>5, <1>6, <1>7, <1>8, <1>9, <1>10, <1>11, <1>12, <1>20 DEF Environment
  <1>21. ASSUME NEW s \in Socks, Scheduled(s) PROVE kind' = kind
    BY <1>13, <1>14, <1>15, <1>16, <1>17, <1>18, <1>19, <1>21 DEF Scheduled
  <1> QED
    BY <1>20, <1>21 DEF Next

\* The inductive invariant of the sessions.
THEOREM SessionInvariance == Spec => []SessionInv
  <1>1. Init => SessionInv
    <2> SUFFICES ASSUME Init PROVE SessionInv
      OBVIOUS
    <2>1. Sessions(entry, sock, tasks, raced)
      BY NothingYet DEF Init
    <2> QED
      BY <2>1, InitOwner DEF SessionInv
  <1>2. SessionInv /\ [Next]_vars => SessionInv'
    <2> SUFFICES ASSUME SessionInv, [Next]_vars PROVE SessionInv'
      OBVIOUS
    <2>1. CASE Next
      <3>1. OwnerInv' /\ kind' = kind /\ raced = {}
        BY <2>1, OwnerKept, KindKept DEF SessionInv, Next, Running
      <3>2. kind # "router" => Sessions(entry', sock', tasks', raced')
        BY <2>1, <3>1, SessionsKept DEF SessionInv, SessionState
      <3> QED
        BY <3>1, <3>2 DEF SessionInv
    <2>2. CASE UNCHANGED vars
      <3>1. OwnerInv'
        BY <2>2 DEF SessionInv, vars, OwnerInv, TypeOK, Owned
      <3>2. kind' = kind /\ entry' = entry /\ sock' = sock /\ tasks' = tasks /\ raced' = raced
        BY <2>2 DEF vars
      <3>3. kind # "router" => Sessions(entry', sock', tasks', raced')
        BY <3>2 DEF SessionInv
      <3> QED
        BY <3>1, <3>2, <3>3 DEF SessionInv
    <2> QED
      BY <2>1, <2>2
  <1> QED
    BY <1>1, <1>2, PTL DEF Spec

\* On a server that is not a router two open connections share a session only
\* while one of them is about to be closed by its own QUIT or DETACH
\* (packet_receive.c:3549-3572).
THEOREM OneSessionCorrect == Spec => []OneSession
  <1>1. SessionInv => OneSession
    <2> SUFFICES ASSUME SessionInv, kind # "router", NEW r \in Socks, NEW s \in Socks,
                        r # s, sock[r].st = "open", sock[s].st = "open",
                        sock[r].ctx = sock[s].ctx, sock[r].ctx # Nil
                 PROVE  \E k \in tasks : k.t \in {"quit_cb", "detach_cb"} /\ k.s \in {r, s}
      BY DEF OneSession
    <2>1. Task(tasks, Closing, r) \/ Task(tasks, Closing, s)
      BY DEF SessionInv, Sessions, Separate
    <2> QED
      BY <2>1 DEF Task, Closing
  <1> QED
    BY <1>1, SessionInvariance, PTL

\* A registered client of such a server is detached or can be reached over an
\* open connection that leads back to it, but for the sessions of which the
\* code loses track (command.c:4061, packet_receive.c:3716).
THEOREM SessionReachableCorrect == Spec => []SessionReachable
  <1>1. SessionInv => SessionReachable
    <2> SUFFICES ASSUME SessionInv, NEW e \in Entries \ raced, entry[e].reg, entry[e].local,
                        ~entry[e].detached, kind # "router"
                 PROVE  /\ entry[e].conn # Nil
                        /\ sock[entry[e].conn].st = "open" /\ sock[entry[e].conn].ctx = e
      BY DEF SessionReachable
    <2>1. Linked(entry[e], e, sock, tasks)
      BY DEF SessionInv, Sessions, EntriesOk
    <2> QED
      BY <2>1 DEF Linked
  <1> QED
    BY <1>1, SessionInvariance, PTL

\* Where no server is a router, no open connection and no task that will still
\* run leads to an entry that has been deleted (packet_receive.c:3790,
\* server_util.c:1592).
THEOREM ContextsLiveCorrect ==
    ASSUME "router" \notin Kinds
    PROVE  Spec => []ContextsLive
  <1>1. SessionInv => ContextsLive
    <2> SUFFICES ASSUME SessionInv, NEW s \in Socks, sock[s].ctx # Nil, sock[s].ctx \notin raced,
                        \/ sock[s].st = "open"
                        \/ \E k \in tasks : k.t # "detach_timeout" /\ k.s = s
                 PROVE  entry[sock[s].ctx].st = "live"
      BY DEF ContextsLive
    <2>1. TypeOK /\ kind # "router" /\ tasks \subseteq TaskRecord
      BY DEF SessionInv, OwnerInv, TypeOK
    <2>2. \A k \in tasks : k.t # "detach_timeout" => k.t \in Resolving \cup Later
      BY <2>1, TaskFields
    <2>3. Busy(sock, tasks, s)
      BY <2>2 DEF Busy, Task
    <2>4. Attends(entry, sock, tasks, s)
      BY <2>1 DEF SessionInv, Sessions, SocksOk
    <2> QED
      BY <2>3, <2>4 DEF Attends
  <1> QED
    BY <1>1, SessionInvariance, PTL
=============================================================================
