--------------------------- MODULE ServerLinkProofs ---------------------------
(***************************************************************************)
(* Proofs about ServerLink for every number of streams, of connection      *)
(* objects and of faults.                                                  *)
(***************************************************************************)
EXTENDS ServerLink, SequenceTheorems, FiniteSetTheorems, TLAPS

-----------------------------------------------------------------------------
(***************************************************************************)
(* The inductive invariant.                                                *)
(***************************************************************************)

\* The counters of server->stat count the streams they are about.
StreamsCounted ==
    /\ stat.conn_num = Cardinality({i \in Streams : Open(i)})
    /\ stat.my_routers = Cardinality({i \in Streams : client[i] = "registered"})
    /\ rstat = Cardinality({i \in Streams : accepted[i] \in {"accepted", "registered"}})

\* A server that is not standalone has a primary router, whose stream is
\* registered; an open stream has a connection object; a server with neither
\* primary router nor router_conn is about to connect.
Linked ==
    /\ ~standalone => router # None
    /\ router # None => client[router] = "registered"
    /\ \A i \in Streams : Open(i) => entry[i] \in Conns
    /\ NotLeftAlone

Has(q, p) == \E k \in DOMAIN q : q[k] = p
Ends(q, ps) == q # <<>> /\ Last(q) \in ps

\* What the queues of a stream say about its ends: nothing is under way to an
\* end that is closed; an end that is open will learn that the other one has
\* gone; the server is told of its success by a router that has accepted it, and
\* a router that has accepted it will hear of the registration.
Queue(i) ==
    /\ ~Open(i) => toServer[i] = <<>>
    /\ Open(i) /\ ~ROpen(i) => Ends(toServer[i], {"EOS"})
    /\ client[i] = "registered" \/ Has(toServer[i], "SUCCESS") =>
          accepted[i] \in {"accepted", "registered", "closed"}
    /\ client[i] = "registered" /\ accepted[i] = "accepted" =>
          Ends(toRouter[i], {"NEW_SERVER", "DISCONNECT", "EOS"})

Queues == \A i \in Streams : Queue(i)

LinkInv == TypeOK /\ StreamsCounted /\ Linked /\ Queues

\* The slot of a new object or stream is a free one.
LEMMA NewConnType == \A c \in NewConn : c \in Conns
  BY DEF NewConn, FreeConns

LEMMA NewStreamType == \A i \in NewStream : i \in Streams /\ ~Open(i) /\ ~ROpen(i)
  BY DEF NewStream, FreeStreams

-----------------------------------------------------------------------------
(***************************************************************************)
(* Queues.                                                                 *)
(***************************************************************************)

\* Taking the first packet of a queue.
LEMMA TakePacket ==
    ASSUME NEW q \in Seq(Packets), q # <<>>
    PROVE  /\ Head(q) \in Packets /\ Tail(q) \in Seq(Packets)
           /\ \A p : Has(Tail(q), p) => Has(q, p)
           /\ Has(q, Head(q))
           /\ \A ps : Ends(q, ps) /\ Head(q) \notin ps => Ends(Tail(q), ps)
  <1>1. Len(q) \in Nat \ {0} /\ Len(Tail(q)) = Len(q) - 1 /\ Tail(q) \in Seq(Packets)
    OBVIOUS
  <1>2. \A k \in 1 .. Len(Tail(q)) : Tail(q)[k] = q[k + 1]
    OBVIOUS
  <1>3. Head(q) = q[1] /\ Head(q) \in Packets
    OBVIOUS
  <1>4. ASSUME NEW p, Has(Tail(q), p)
        PROVE  Has(q, p)
    <2>1. PICK k \in 1 .. Len(Tail(q)) : Tail(q)[k] = p
      BY <1>1, <1>4 DEF Has
    <2> QED
      BY <2>1, <1>1, <1>2 DEF Has
  <1>5. ASSUME NEW ps, Ends(q, ps), Head(q) \notin ps
        PROVE  Ends(Tail(q), ps)
    <2>1. q[Len(q)] \in ps
      BY <1>5 DEF Ends, Last
    <2>2. Len(q) # 1
      BY <2>1, <1>3, <1>5
    <2>3. Len(Tail(q)) \in 1 .. Len(Tail(q)) /\ Tail(q)[Len(Tail(q))] = q[Len(q)]
      BY <2>2, <1>1, <1>2
    <2>4. Tail(q) # <<>>
      <3>1. Len(Tail(q)) # 0 /\ Len(<<>>) = 0
        BY <2>2, <1>1
      <3> QED
        BY <3>1, Zenon
    <2> QED
      BY <2>1, <2>3, <2>4 DEF Ends, Last
  <1> QED
    BY <1>1, <1>3, <1>4, <1>5 DEF Has

\* Sending packets after those under way.
LEMMA SendPackets ==
    ASSUME NEW q \in Seq(Packets), NEW r \in Seq(Packets)
    PROVE  /\ q \o r \in Seq(Packets)
           /\ \A p : Has(q \o r, p) => Has(q, p) \/ Has(r, p)
           /\ \A ps : Ends(r, ps) => Ends(q \o r, ps)
  <1>1. /\ q \o r \in Seq(Packets) /\ Len(q \o r) = Len(q) + Len(r)
        /\ Len(q) \in Nat /\ Len(r) \in Nat
    OBVIOUS
  <1>2. \A k \in 1 .. Len(q) + Len(r) :
            (q \o r)[k] = IF k <= Len(q) THEN q[k] ELSE r[k - Len(q)]
    OBVIOUS
  <1>3. ASSUME NEW p, Has(q \o r, p)
        PROVE  Has(q, p) \/ Has(r, p)
    <2>1. PICK k \in 1 .. Len(q) + Len(r) : (q \o r)[k] = p
      BY <1>1, <1>3 DEF Has
    <2>2. CASE k <= Len(q)
      BY <2>1, <2>2, <1>1, <1>2 DEF Has
    <2>3. CASE ~(k <= Len(q))
      <3>1. k - Len(q) \in 1 .. Len(r) /\ r[k - Len(q)] = p
        BY <2>1, <2>3, <1>1, <1>2
      <3> QED
        BY <3>1 DEF Has
    <2> QED
      BY <2>2, <2>3
  <1>4. ASSUME NEW ps, Ends(r, ps)
        PROVE  Ends(q \o r, ps)
    <2>1. r[Len(r)] \in ps /\ Len(r) # 0
      BY <1>4 DEF Ends, Last
    <2>2. (q \o r)[Len(q) + Len(r)] = r[Len(r)]
      BY <2>1, <1>1, <1>2
    <2>3. q \o r # <<>>
      BY <2>1, <1>1
    <2> QED
      BY <2>1, <2>2, <2>3, <1>1 DEF Ends, Last
  <1> QED
    BY <1>1, <1>3, <1>4

-----------------------------------------------------------------------------
(***************************************************************************)
(* Types and counters.                                                     *)
(***************************************************************************)

\* How the number of streams in a set follows a change of one stream.
LEMMA Recount ==
    ASSUME NEW S \in SUBSET Streams, NEW T \in SUBSET Streams, NEW i \in Streams,
           T \ {i} = S \ {i}
    PROVE  /\ Cardinality(S) \in Nat /\ Cardinality(T) \in Nat
           /\ (i \in T <=> i \in S) => Cardinality(T) = Cardinality(S)
           /\ i \in T /\ i \notin S => Cardinality(T) = Cardinality(S) + 1
           /\ i \notin T /\ i \in S => Cardinality(T) = Cardinality(S) - 1
  <1>1. IsFiniteSet(S) /\ IsFiniteSet(T) /\ Cardinality(S) \in Nat /\ Cardinality(T) \in Nat
    BY LinkAssumption, FS_Subset, FS_CardinalityType
  <1>2. (i \in T <=> i \in S) => T = S
    OBVIOUS
  <1>3. CASE i \in T /\ i \notin S
    <2>1. T = S \cup {i}
      BY <1>3
    <2> QED
      BY <2>1, <1>1, <1>3, FS_AddElement
  <1>4. CASE i \notin T /\ i \in S
    <2>1. S = T \cup {i}
      BY <1>4
    <2>2. Cardinality(S) = Cardinality(T) + 1
      BY <2>1, <1>1, <1>4, FS_AddElement
    <2> QED
      BY <2>2, <1>1, <1>4
  <1> QED
    BY <1>1, <1>2, <1>3, <1>4

OpenSet == {i \in Streams : Open(i)}
RegisteredSet == {i \in Streams : client[i] = "registered"}
ServerSet == {i \in Streams : accepted[i] \in {"accepted", "registered"}}

LEMMA CountedSets ==
    StreamsCounted <=> /\ stat.conn_num = Cardinality(OpenSet)
                       /\ stat.my_routers = Cardinality(RegisteredSet)
                       /\ rstat = Cardinality(ServerSet)
  BY DEF StreamsCounted, OpenSet, RegisteredSet, ServerSet

\* The states of the server's end that are counted in conn_num.
OpenStates == {"ske", "auth", "failed", "dead", "registered"}

\* A change of the server's end of one stream that the counters follow.
LEMMA CountClient ==
    ASSUME TypeOK, StreamsCounted, NEW i \in Streams, NEW x, client' = [client EXCEPT ![i] = x],
           UNCHANGED rstat, ServerSet' = ServerSet,
           (x \in OpenStates <=> Open(i)) => stat'.conn_num = stat.conn_num,
           x \in OpenStates /\ ~Open(i) => stat'.conn_num = stat.conn_num + 1,
           x \notin OpenStates /\ Open(i) => stat'.conn_num = stat.conn_num - 1,
           (x = "registered" <=> client[i] = "registered") => stat'.my_routers = stat.my_routers,
           x = "registered" /\ client[i] # "registered" => stat'.my_routers = stat.my_routers + 1,
           x # "registered" /\ client[i] = "registered" => stat'.my_routers = stat.my_routers - 1
    PROVE  StreamsCounted' /\ stat'.conn_num \in Nat /\ stat'.my_routers \in Nat
  <1>1. client'[i] = x /\ \A j \in Streams \ {i} : client'[j] = client[j]
    BY DEF TypeOK
  <1>2. stat.conn_num = Cardinality(OpenSet) /\ stat.my_routers = Cardinality(RegisteredSet)
    BY CountedSets
  <1>3. stat'.conn_num = Cardinality(OpenSet') /\ Cardinality(OpenSet') \in Nat
    <2>1. OpenSet' \ {i} = OpenSet \ {i} /\ OpenSet \subseteq Streams /\ OpenSet' \subseteq Streams
      BY <1>1 DEF OpenSet, Open
    <2>2. (i \in OpenSet <=> Open(i)) /\ (i \in OpenSet' <=> x \in OpenStates)
      BY <1>1 DEF OpenSet, Open, OpenStates
    <2> QED
      BY <2>1, <2>2, <1>2, Recount
  <1>4. stat'.my_routers = Cardinality(RegisteredSet') /\ Cardinality(RegisteredSet') \in Nat
    <2>1. /\ RegisteredSet' \ {i} = RegisteredSet \ {i}
          /\ RegisteredSet \subseteq Streams /\ RegisteredSet' \subseteq Streams
      BY <1>1 DEF RegisteredSet
    <2>2. (i \in RegisteredSet <=> client[i] = "registered") /\ (i \in RegisteredSet' <=> x = "registered")
      BY <1>1 DEF RegisteredSet
    <2> QED
      BY <2>1, <2>2, <1>2, Recount
  <1>5. rstat' = Cardinality(ServerSet')
    BY CountedSets
  <1> QED
    BY <1>3, <1>4, <1>5 DEF StreamsCounted, OpenSet, RegisteredSet, ServerSet

\* A change of the router's end of one stream that its counter follows.
LEMMA CountAccepted ==
    ASSUME TypeOK, StreamsCounted, NEW i \in Streams, NEW x,
           accepted' = [accepted EXCEPT ![i] = x], UNCHANGED <<client, stat>>,
           (x \in {"accepted", "registered"} <=> accepted[i] \in {"accepted", "registered"}) =>
               rstat' = rstat,
           x \in {"accepted", "registered"} /\ accepted[i] \notin {"accepted", "registered"} =>
               rstat' = rstat + 1,
           x \notin {"accepted", "registered"} /\ accepted[i] \in {"accepted", "registered"} =>
               rstat' = rstat - 1
    PROVE  StreamsCounted' /\ rstat' \in Nat
  <1>1. accepted'[i] = x /\ \A j \in Streams \ {i} : accepted'[j] = accepted[j]
    BY DEF TypeOK
  <1>2. rstat = Cardinality(ServerSet)
    BY CountedSets
  <1>3. rstat' = Cardinality(ServerSet') /\ Cardinality(ServerSet') \in Nat
    <2>1. /\ ServerSet' \ {i} = ServerSet \ {i}
          /\ ServerSet \subseteq Streams /\ ServerSet' \subseteq Streams
      BY <1>1 DEF ServerSet
    <2>2. /\ i \in ServerSet <=> accepted[i] \in {"accepted", "registered"}
          /\ i \in ServerSet' <=> x \in {"accepted", "registered"}
      BY <1>1 DEF ServerSet
    <2> QED
      BY <2>1, <2>2, <1>2, Recount
  <1>4. stat' = stat /\ OpenSet' = OpenSet /\ RegisteredSet' = RegisteredSet
    BY DEF OpenSet, RegisteredSet, Open
  <1> QED
    BY <1>3, <1>4, CountedSets DEF StreamsCounted, OpenSet, RegisteredSet, ServerSet

-----------------------------------------------------------------------------
(***************************************************************************)
(* The primary router and the next attempt to connect to it.               *)
(***************************************************************************)

\* Freeing the entry of a stream: a primary router that is lost, or a
\* router_conn that is, leaves the task that connects.
LEMMA FreesLinked ==
    ASSUME TypeOK, Linked, NEW i \in Streams, CloseStream(i), configured' => configured
    PROVE  Linked'
  <1>1. /\ client' = [client EXCEPT ![i] = "closed"] /\ entry' = [entry EXCEPT ![i] = None]
        /\ router' = RouterWithout(i) /\ standalone' = (standalone \/ router = i)
        /\ connect_task' = (connect_task \/ ReconnectsAfter(i))
        /\ router_conn' = IF client[i] # "registered" /\ router_conn = entry[i] THEN None ELSE router_conn
    BY DEF CloseStream, CloseEnd
  <1>2. client'[i] = "closed" /\ \A j \in Streams \ {i} : client'[j] = client[j] /\ entry'[j] = entry[j]
    BY <1>1 DEF TypeOK
  <1>3. router' # None => router' = router /\ router # i /\ router \in Streams
    BY <1>1 DEF RouterWithout, TypeOK
  <1>4. router' # None => client'[router'] = "registered"
    BY <1>2, <1>3 DEF Linked
  <1>5. ~standalone' => router' # None
    BY <1>1 DEF Linked, RouterWithout
  <1>6. \A j \in Streams : Open(j)' => entry'[j] \in Conns
    BY <1>2 DEF Linked, Open
  <1>7. ASSUME configured', router' = None, router_conn' = None PROVE connect_task'
    <2>1. CASE router = i
      BY <1>1, <2>1, LinkAssumption DEF Linked, ReconnectsAfter
    <2>2. CASE router # i /\ router_conn = None
      BY <1>1, <1>7, <2>2 DEF Linked, NotLeftAlone, RouterWithout
    <2>3. CASE router # i /\ router_conn # None
      BY <1>1, <1>7, <2>3 DEF ReconnectsAfter
    <2> QED
      BY <2>1, <2>2, <2>3
  <1> QED
    BY <1>4, <1>5, <1>6, <1>7 DEF Linked, NotLeftAlone

\* A step of an end that is not registered, and stays so.
LEMMA UnregisteredLinked ==
    ASSUME TypeOK, Linked, NEW i \in Streams, client[i] # "registered",
           NEW x, client' = [client EXCEPT ![i] = x],
           UNCHANGED <<standalone, router, router_conn, connect_task, configured>>,
           \/ UNCHANGED entry /\ Open(i)
           \/ \E c \in Conns : entry' = [entry EXCEPT ![i] = c]
    PROVE  Linked'
  <1>1. \A j \in Streams \ {i} : client'[j] = client[j] /\ entry'[j] = entry[j]
    BY DEF TypeOK
  <1>2. entry'[i] \in Conns
    BY DEF TypeOK, Linked
  <1>3. router # None => router \in Streams \ {i}
    BY DEF TypeOK, Linked
  <1>4. \A j \in Streams : Open(j)' => entry'[j] \in Conns
    BY <1>1, <1>2 DEF Linked, Open
  <1> QED
    BY <1>1, <1>3, <1>4 DEF Linked, NotLeftAlone

LEMMA SameLinked ==
    ASSUME Linked, UNCHANGED <<standalone, router, router_conn, connect_task, configured, client, entry>>
    PROVE  Linked'
  BY DEF Linked, NotLeftAlone, Open

\* What the server does about a primary router it lost, or never had, always
\* leaves a way to the next one.
LEMMA LinkedKept ==
    ASSUME TypeOK, Linked, Next
    PROVE  Linked'
  <1>1. CASE ConnectToRouter
    <2> DEFINE quiet == [c \in Conns |-> [sconn[c] EXCEPT !.task = "none"]]
               desync == standalone /\ router = None
    <2>1. connect_task /\ configured' = configured /\ UNCHANGED router
      BY <1>1 DEF ConnectToRouter
    <2>2. CASE ~configured /\ standalone' = TRUE /\ UNCHANGED <<client, entry>>
      BY <2>1, <2>2 DEF Linked, NotLeftAlone, Open
    <2>3. CASE ~desync /\ UNCHANGED <<client, entry, standalone, router_conn>>
      BY <2>1, <2>3 DEF Linked, NotLeftAlone, Open
    <2>4. CASE /\ \E c \in NewConn : router_conn' = IF router_conn = None THEN c ELSE router_conn
               /\ UNCHANGED <<client, entry, standalone>>
      <3>1. router_conn' # None
        BY <2>4, LinkAssumption, NewConnType
      <3> QED
        BY <2>1, <2>4, <3>1 DEF Linked, NotLeftAlone, Open
    <2>5. CASE desync /\ (\E i \in ConnectedStreams : CloseEnd(i)) /\ UNCHANGED <<standalone, connect_task>>
      <3>1. PICK i \in Streams : CloseEnd(i)
        BY <2>5 DEF ConnectedStreams
      <3>2. \A j \in Streams : Open(j)' => Open(j) /\ entry'[j] = entry[j]
        BY <3>1 DEF CloseEnd, Open, TypeOK
      <3> QED
        BY <2>1, <2>5, <3>2 DEF Linked, NotLeftAlone
    <2> QED
      BY <1>1, <2>2, <2>3, <2>4, <2>5 DEF ConnectToRouter
  <1>2. ASSUME NEW c \in Conns, Established(c)
        PROVE  Linked'
    <2>1. PICK i \in NewStream : client' = [client EXCEPT ![i] = "ske"] /\ entry' = [entry EXCEPT ![i] = c]
      BY <1>2 DEF Established
    <2>2. i \in Streams /\ client[i] # "registered"
      BY NewStreamType DEF Open
    <2> QED
      BY <1>2, <2>1, <2>2, UnregisteredLinked DEF Established
  <1>3. ASSUME NEW c \in Conns, NotEstablished(c) \/ Retry(c) \/ ConnectRouter(c)
        PROVE  Linked'
    BY <1>3, SameLinked DEF NotEstablished, Retry, ConnectRouter, objectsOnly
  <1>4. ASSUME NEW i \in Streams, CloseCommand(i)
        PROVE  Linked'
    BY <1>4, FreesLinked DEF CloseCommand, FreeAndClose
  <1>5. CASE Rehash
    <2>1. CASE connect_task' = TRUE /\ UNCHANGED <<standalone, router, router_conn, client, entry>>
      BY <2>1 DEF Linked, NotLeftAlone, Open
    <2>2. CASE ~configured' /\ \E i \in ConnectedStreams : FreeAndClose(i)
      BY <2>2, FreesLinked DEF FreeAndClose, ConnectedStreams
    <2> QED
      BY <1>5, <2>1, <2>2 DEF Rehash
  <1>6. ASSUME NEW i \in Streams, ServerReceive(i)
        PROVE  Linked'
    <2>1. Open(i) /\ UNCHANGED configured
      BY <1>6 DEF ServerReceive
    <2>2. CASE /\ client[i] \in {"ske", "auth"}
               /\ client' = [client EXCEPT ![i] = "auth"] \/ Fails(i)
               /\ UNCHANGED <<standalone, router, router_conn, connect_task, entry>>
      BY <2>1, <2>2, UnregisteredLinked DEF Fails
    <2>3. CASE Registered(i) /\ UNCHANGED <<connect_task, entry>>
      <3>1. /\ router' = (IF standalone THEN i ELSE router) /\ standalone' = FALSE
            /\ client' = [client EXCEPT ![i] = "registered"]
        BY <2>3 DEF Registered
      <3>2. router' \in Streams /\ (router' = i \/ router' = router)
        BY <3>1 DEF Linked, TypeOK
      <3>3. client'[router'] = "registered"
        BY <3>1, <3>2, LinkAssumption DEF Linked, TypeOK
      <3>4. \A j \in Streams : Open(j)' => entry'[j] \in Conns
        BY <2>1, <2>3, <3>1 DEF Linked, Open, TypeOK
      <3> QED
        BY <3>2, <3>3, <3>4, LinkAssumption DEF Linked, NotLeftAlone
    <2>4. CASE CloseStream(i)
      BY <2>1, <2>4, FreesLinked
    <2>5. CASE UNCHANGED <<standalone, router, router_conn, connect_task, entry, client>>
      BY <2>1, <2>5, SameLinked
    <2> QED
      BY <1>6, <2>2, <2>3, <2>4, <2>5 DEF ServerReceive
  <1>7. ASSUME NEW i \in Streams, ServerKeyExchangeFails(i)
        PROVE  Linked'
    BY <1>7, UnregisteredLinked DEF ServerKeyExchangeFails, Fails, Open
  <1>8. ASSUME NEW i \in Streams, ServerAuthTimeout(i)
        PROVE  Linked'
    BY <1>8, UnregisteredLinked DEF ServerAuthTimeout, serverVars, Open
  <1>9. ASSUME NEW i \in Streams, RouterStream(i) \/ Cut(i)
        PROVE  Linked'
    BY <1>9, SameLinked DEF RouterStream, Cut, Accept, RouterKeyExchange, RouterAuthTimeout,
       RouterReceive, serverVars
  <1> QED
    BY <1>1, <1>2, <1>3, <1>4, <1>5, <1>6, <1>7, <1>8, <1>9 DEF Next, Tasks, ServerStream

-----------------------------------------------------------------------------
(***************************************************************************)
(* The counters.                                                           *)
(***************************************************************************)

StatType == [conn_num : Nat, my_routers : Nat]

\* The counters after the entry of an open stream was freed.
LEMMA FreesCounted ==
    ASSUME TypeOK, StreamsCounted, NEW i \in Streams, Open(i), CloseEnd(i),
           UNCHANGED <<accepted, rstat>>
    PROVE  StreamsCounted' /\ stat' \in StatType
  <1>1. /\ client' = [client EXCEPT ![i] = "closed"]
        /\ stat' = [conn_num |-> stat.conn_num - 1,
                    my_routers |-> IF client[i] = "registered" THEN stat.my_routers - 1 ELSE stat.my_routers]
    BY DEF CloseEnd
  <1>2. /\ stat'.conn_num = stat.conn_num - 1
        /\ client[i] = "registered" => stat'.my_routers = stat.my_routers - 1
        /\ client[i] # "registered" => stat'.my_routers = stat.my_routers
    BY <1>1
  <1>3. "closed" \notin OpenStates /\ ServerSet' = ServerSet
    BY DEF OpenStates, ServerSet
  <1>4. StreamsCounted' /\ stat'.conn_num \in Nat /\ stat'.my_routers \in Nat
    BY <1>1, <1>2, <1>3, CountClient
  <1> QED
    BY <1>1, <1>4 DEF StatType

\* The counters while the server's end of a stream stays open and unregistered.
LEMMA StaysCounted ==
    ASSUME TypeOK, StreamsCounted, NEW i \in Streams, client[i] \in {"ske", "auth"},
           NEW x \in {"auth", "failed", "dead"}, client' = [client EXCEPT ![i] = x],
           UNCHANGED <<accepted, rstat, stat>>
    PROVE  StreamsCounted'
  <1>1. x \in OpenStates /\ Open(i) /\ x # "registered" /\ client[i] # "registered" /\ ServerSet' = ServerSet
    BY DEF OpenStates, Open, ServerSet
  <1> QED
    BY <1>1, CountClient

\* The counters after the router dropped a stream.
LEMMA DropsCounted ==
    ASSUME TypeOK, StreamsCounted, NEW i \in Streams, NEW p, Drop(i, p), UNCHANGED <<client, stat>>
    PROVE  StreamsCounted' /\ rstat' \in Nat
  BY CountAccepted DEF Drop, ServersWithout

LEMMA SameCounted ==
    ASSUME StreamsCounted, UNCHANGED <<client, accepted, stat, rstat>>
    PROVE  StreamsCounted'
  BY DEF StreamsCounted, Open

\* Every step keeps the counters of both ends right.
LEMMA CountersKept ==
    ASSUME TypeOK, StreamsCounted, Next
    PROVE  StreamsCounted' /\ stat' \in StatType /\ rstat' \in Nat
  <1>1. stat \in StatType /\ rstat \in Nat
    BY DEF TypeOK, StatType
  <1>2. CASE ConnectToRouter \/ Rehash
    <2>1. UNCHANGED <<accepted, rstat>>
      BY <1>2 DEF ConnectToRouter, Rehash
    <2>2. CASE UNCHANGED <<client, stat>>
      BY <1>1, <2>1, <2>2, SameCounted
    <2>3. CASE \E i \in ConnectedStreams : CloseEnd(i)
      <3>1. PICK i \in Streams : CloseEnd(i) /\ Open(i)
        BY <2>3 DEF ConnectedStreams, Open
      <3> QED
        BY <1>1, <2>1, <3>1, FreesCounted
    <2> QED
      BY <1>2, <2>2, <2>3 DEF ConnectToRouter, Rehash, FreeAndClose, CloseStream
  <1>3. ASSUME NEW c \in Conns, Established(c)
        PROVE  StreamsCounted' /\ stat' \in StatType /\ rstat' \in Nat
    <2>1. PICK i \in NewStream : /\ client' = [client EXCEPT ![i] = "ske"]
                                 /\ accepted' = [accepted EXCEPT ![i] = "syn"]
      BY <1>3 DEF Established
    <2>2. i \in Streams /\ ~Open(i) /\ ~ROpen(i)
      BY NewStreamType
    <2>3. stat' = [stat EXCEPT !.conn_num = @ + 1] /\ rstat' = rstat
      BY <1>3 DEF Established
    <2>4. ServerSet' = ServerSet
      BY <2>1, <2>2 DEF ServerSet, ROpen, TypeOK
    <2>5. stat'.conn_num = stat.conn_num + 1 /\ stat'.my_routers = stat.my_routers
      BY <2>3, <1>1 DEF StatType
    <2>6. "ske" \in OpenStates /\ client[i] # "registered"
      BY <2>2 DEF OpenStates, Open
    <2>7. StreamsCounted'
      BY <2>1, <2>2, <2>3, <2>4, <2>5, <2>6, CountClient
    <2> QED
      BY <2>3, <2>7, <1>1 DEF StatType
  <1>4. ASSUME NEW c \in Conns, NotEstablished(c) \/ Retry(c) \/ ConnectRouter(c)
        PROVE  StreamsCounted' /\ stat' \in StatType /\ rstat' \in Nat
    BY <1>1, <1>4, SameCounted DEF NotEstablished, Retry, ConnectRouter, objectsOnly
  <1>5. ASSUME NEW i \in Streams, CloseCommand(i)
        PROVE  StreamsCounted' /\ stat' \in StatType /\ rstat' \in Nat
    BY <1>1, <1>5, FreesCounted DEF CloseCommand, FreeAndClose, CloseStream, Open
  <1>6. ASSUME NEW i \in Streams, ServerReceive(i)
        PROVE  StreamsCounted' /\ stat' \in StatType /\ rstat' \in Nat
    <2>1. Open(i) /\ UNCHANGED <<accepted, rstat>>
      BY <1>6 DEF ServerReceive
    <2>2. CASE client[i] = "ske" /\ client' = [client EXCEPT ![i] = "auth"] /\ UNCHANGED stat
      BY <2>1, <2>2, <1>1, StaysCounted
    <2>3. CASE client[i] \in {"ske", "auth"} /\ Fails(i) /\ UNCHANGED stat
      BY <2>1, <2>3, <1>1, StaysCounted DEF Fails
    <2>4. CASE client[i] = "auth" /\ Registered(i)
      <3>1. client' = [client EXCEPT ![i] = "registered"] /\ stat' = [stat EXCEPT !.my_routers = @ + 1]
        BY <2>4 DEF Registered
      <3>2. stat'.conn_num = stat.conn_num /\ stat'.my_routers = stat.my_routers + 1
        BY <3>1, <1>1 DEF StatType
      <3>3. "registered" \in OpenStates /\ ServerSet' = ServerSet
        BY <2>1 DEF OpenStates, ServerSet
      <3>4. StreamsCounted'
        BY <2>1, <2>4, <3>1, <3>2, <3>3, CountClient
      <3> QED
        BY <3>1, <3>4, <2>1, <1>1 DEF StatType
    <2>5. CASE CloseStream(i)
      BY <2>1, <2>5, <1>1, FreesCounted DEF CloseStream
    <2>6. CASE UNCHANGED <<client, stat>>
      BY <2>1, <2>6, <1>1, SameCounted
    <2> QED
      BY <1>6, <2>2, <2>3, <2>4, <2>5, <2>6 DEF ServerReceive
  <1>7. ASSUME NEW i \in Streams, ServerKeyExchangeFails(i) \/ ServerAuthTimeout(i)
        PROVE  StreamsCounted' /\ stat' \in StatType /\ rstat' \in Nat
    BY <1>1, <1>7, StaysCounted DEF ServerKeyExchangeFails, ServerAuthTimeout, Fails, serverVars
  <1>8. ASSUME NEW i \in Streams, RouterStream(i)
        PROVE  StreamsCounted' /\ stat' \in StatType /\ rstat' \in Nat
    <2>1. UNCHANGED <<client, stat>>
      BY <1>8 DEF RouterStream, Accept, RouterKeyExchange, RouterAuthTimeout, RouterReceive, serverVars
    <2>2. ASSUME NEW p, Drop(i, p)
          PROVE  StreamsCounted' /\ stat' \in StatType /\ rstat' \in Nat
      BY <2>1, <2>2, <1>1, DropsCounted
    <2>3. CASE \E x \in {"ske", "auth", "dead"} : /\ accepted[i] \in {"syn", "ske", "auth"}
                                                  /\ accepted' = [accepted EXCEPT ![i] = x]
                                                  /\ UNCHANGED rstat
      BY <2>1, <2>3, <1>1, CountAccepted
    <2>4. CASE /\ accepted[i] = "auth" /\ accepted' = [accepted EXCEPT ![i] = "accepted"]
               /\ rstat' = rstat + 1
      BY <2>1, <2>4, <1>1, CountAccepted
    <2>5. CASE /\ accepted[i] = "accepted" /\ accepted' = [accepted EXCEPT ![i] = "registered"]
               /\ UNCHANGED rstat
      BY <2>1, <2>5, <1>1, CountAccepted
    <2>6. CASE UNCHANGED <<accepted, rstat>>
      BY <2>1, <2>6, <1>1, SameCounted
    <2>7. CASE Accept(i)
      BY <2>7, <2>2, <2>3 DEF Accept
    <2>8. CASE RouterKeyExchange(i)
      BY <2>8, <2>2, <2>3 DEF RouterKeyExchange
    <2>9. CASE RouterAuthTimeout(i)
      BY <2>9, <2>3 DEF RouterAuthTimeout
    <2>10. CASE RouterReceive(i)
      BY <2>10, <2>2, <2>4, <2>5, <2>6 DEF RouterReceive
    <2> QED
      BY <1>8, <2>7, <2>8, <2>9, <2>10 DEF RouterStream
  <1>9. ASSUME NEW i \in Streams, Cut(i)
        PROVE  StreamsCounted' /\ stat' \in StatType /\ rstat' \in Nat
    BY <1>1, <1>9, SameCounted DEF Cut, serverVars
  <1> QED
    BY <1>2, <1>3, <1>4, <1>5, <1>6, <1>7, <1>8, <1>9 DEF Next, Tasks, ServerStream

-----------------------------------------------------------------------------
(***************************************************************************)
(* The queues.                                                             *)
(***************************************************************************)

\* Short sequences of packets.
LEMMA ShortQueues ==
    /\ <<>> \in Seq(Packets) /\ \A p : ~Has(<<>>, p)
    /\ \A p \in Packets : /\ <<p>> \in Seq(Packets) /\ \A r : Has(<<p>>, r) => r = p
                          /\ \A ps : p \in ps => Ends(<<p>>, ps)
    /\ \A p, r \in Packets : <<p, r>> \in Seq(Packets)
  <1>1. <<>> \in Seq(Packets) /\ \A p : ~Has(<<>>, p)
    BY DEF Has
  <1>2. ASSUME NEW p \in Packets
        PROVE  /\ <<p>> \in Seq(Packets) /\ \A r : Has(<<p>>, r) => r = p
               /\ \A ps : p \in ps => Ends(<<p>>, ps)
    BY DEF Has, Ends, Last
  <1>3. ASSUME NEW p \in Packets, NEW r \in Packets
        PROVE  <<p, r>> \in Seq(Packets)
    OBVIOUS
  <1> QED
    BY <1>1, <1>2, <1>3

\* Sending to the server, and dropping a stream, whose end is then announced.
LEMMA SendsToServer ==
    ASSUME TypeOK, NEW i \in Streams, NEW s \in Seq(Packets), ToServer(i, s)
    PROVE  /\ toServer' \in [Streams -> Seq(Packets)]
           /\ \A j \in Streams \ {i} : toServer'[j] = toServer[j]
           /\ ~Open(i) => toServer'[i] = <<>>
           /\ Open(i) => toServer'[i] = toServer[i] \o s
           /\ Has(toServer'[i], "SUCCESS") => Has(toServer[i], "SUCCESS") \/ Has(s, "SUCCESS")
           /\ \A ps : Open(i) /\ Ends(s, ps) => Ends(toServer'[i], ps)
  <1>1. toServer[i] \in Seq(Packets)
    BY DEF TypeOK
  <1>2. /\ toServer[i] \o s \in Seq(Packets)
        /\ \A p : Has(toServer[i] \o s, p) => Has(toServer[i], p) \/ Has(s, p)
        /\ \A ps : Ends(s, ps) => Ends(toServer[i] \o s, ps)
    BY <1>1, SendPackets
  <1>3. <<>> \in Seq(Packets) /\ ~Has(<<>>, "SUCCESS")
    BY ShortQueues
  <1>4. toServer' = [toServer EXCEPT ![i] = IF Open(i) THEN toServer[i] \o s ELSE <<>>]
    BY DEF ToServer
  <1>5. toServer'[i] = IF Open(i) THEN toServer[i] \o s ELSE <<>>
    BY <1>4 DEF TypeOK
  <1>6. toServer' \in [Streams -> Seq(Packets)] /\ \A j \in Streams \ {i} : toServer'[j] = toServer[j]
    BY <1>2, <1>3, <1>4 DEF TypeOK
  <1> QED
    BY <1>2, <1>3, <1>5, <1>6

LEMMA SendsToRouter ==
    ASSUME TypeOK, NEW i \in Streams, NEW s \in Seq(Packets), ToRouter(i, s)
    PROVE  /\ toRouter' \in [Streams -> Seq(Packets)]
           /\ \A j \in Streams \ {i} : toRouter'[j] = toRouter[j]
           /\ \A ps : ROpen(i) /\ Ends(s, ps) => Ends(toRouter'[i], ps)
  <1>1. toRouter[i] \in Seq(Packets)
    BY DEF TypeOK
  <1>2. toRouter[i] \o s \in Seq(Packets) /\ \A ps : Ends(s, ps) => Ends(toRouter[i] \o s, ps)
    BY <1>1, SendPackets
  <1>3. toRouter' = [toRouter EXCEPT ![i] = IF ROpen(i) THEN toRouter[i] \o s ELSE <<>>]
    BY DEF ToRouter
  <1>4. toRouter'[i] = IF ROpen(i) THEN toRouter[i] \o s ELSE <<>>
    BY <1>3 DEF TypeOK
  <1>5. toRouter' \in [Streams -> Seq(Packets)] /\ \A j \in Streams \ {i} : toRouter'[j] = toRouter[j]
    BY <1>2, <1>3, ShortQueues DEF TypeOK
  <1> QED
    BY <1>2, <1>4, <1>5

\* Taking what is first in a queue of an open stream.
LEMMA TakesToServer ==
    ASSUME TypeOK, NEW i \in Streams, toServer[i] # <<>>, toServer' = [toServer EXCEPT ![i] = Tail(@)]
    PROVE  /\ toServer' \in [Streams -> Seq(Packets)] /\ Head(toServer[i]) \in Packets
           /\ \A j \in Streams \ {i} : toServer'[j] = toServer[j]
           /\ Has(toServer[i], Head(toServer[i]))
           /\ Has(toServer'[i], "SUCCESS") => Has(toServer[i], "SUCCESS")
           /\ Ends(toServer[i], {"EOS"}) /\ Head(toServer[i]) # "EOS" => Ends(toServer'[i], {"EOS"})
  <1>1. toServer[i] \in Seq(Packets) /\ toServer'[i] = Tail(toServer[i])
    BY DEF TypeOK
  <1>2. /\ Head(toServer[i]) \in Packets /\ Tail(toServer[i]) \in Seq(Packets)
        /\ \A p : Has(Tail(toServer[i]), p) => Has(toServer[i], p)
        /\ Has(toServer[i], Head(toServer[i]))
        /\ \A ps : Ends(toServer[i], ps) /\ Head(toServer[i]) \notin ps => Ends(Tail(toServer[i]), ps)
    BY <1>1, TakePacket
  <1>3. toServer' \in [Streams -> Seq(Packets)] /\ \A j \in Streams \ {i} : toServer'[j] = toServer[j]
    BY <1>2 DEF TypeOK
  <1> QED
    BY <1>1, <1>2, <1>3

LEMMA TakesToRouter ==
    ASSUME TypeOK, NEW i \in Streams, toRouter[i] # <<>>, toRouter' = [toRouter EXCEPT ![i] = Tail(@)]
    PROVE  /\ toRouter' \in [Streams -> Seq(Packets)] /\ Head(toRouter[i]) \in Packets
           /\ \A j \in Streams \ {i} : toRouter'[j] = toRouter[j]
           /\ \A ps : Ends(toRouter[i], ps) /\ Head(toRouter[i]) \notin ps => Ends(toRouter'[i], ps)
  <1>1. toRouter[i] \in Seq(Packets) /\ toRouter'[i] = Tail(toRouter[i])
    BY DEF TypeOK
  <1>2. /\ Head(toRouter[i]) \in Packets /\ Tail(toRouter[i]) \in Seq(Packets)
        /\ \A ps : Ends(toRouter[i], ps) /\ Head(toRouter[i]) \notin ps => Ends(Tail(toRouter[i]), ps)
    BY <1>1, TakePacket
  <1>3. toRouter' \in [Streams -> Seq(Packets)] /\ \A j \in Streams \ {i} : toRouter'[j] = toRouter[j]
    BY <1>2 DEF TypeOK
  <1> QED
    BY <1>1, <1>2, <1>3

\* Dropping a stream.
LEMMA DropsStream ==
    ASSUME TypeOK, NEW i \in Streams, NEW s \in Seq(Packets), Drop(i, s), UNCHANGED client
    PROVE  /\ toServer' \in [Streams -> Seq(Packets)] /\ toRouter' \in [Streams -> Seq(Packets)]
           /\ accepted' \in [Streams -> AcceptStates]
           /\ \A j \in Streams \ {i} : /\ toServer'[j] = toServer[j] /\ toRouter'[j] = toRouter[j]
                                       /\ accepted'[j] = accepted[j]
           /\ Queue(i)'
  <1> DEFINE r == s \o <<"EOS">>
  <1>1. <<"EOS">> \in Seq(Packets) /\ Ends(<<"EOS">>, {"EOS"}) /\ <<>> \in Seq(Packets)
    BY ShortQueues DEF Packets
  <1>2. r \in Seq(Packets) /\ Ends(r, {"EOS"})
    BY <1>1, SendPackets
  <1>3. ToServer(i, r)
    BY DEF Drop
  <1> HIDE DEF r
  <1>4. /\ toServer' \in [Streams -> Seq(Packets)]
        /\ \A j \in Streams \ {i} : toServer'[j] = toServer[j]
        /\ ~Open(i) => toServer'[i] = <<>>
        /\ Open(i) => Ends(toServer'[i], {"EOS"})
    BY <1>2, <1>3, SendsToServer
  <1>5. /\ toRouter' \in [Streams -> Seq(Packets)]
        /\ accepted' \in [Streams -> AcceptStates] /\ accepted'[i] = "closed"
        /\ \A j \in Streams \ {i} : toRouter'[j] = toRouter[j] /\ accepted'[j] = accepted[j]
    BY <1>1 DEF Drop, TypeOK, AcceptStates
  <1>6. Queue(i)'
    BY <1>4, <1>5 DEF Queue, Open, ROpen
  <1> QED
    BY <1>4, <1>5, <1>6

\* A step that is about one stream keeps what is said of the others.
LEMMA OtherQueues ==
    ASSUME Queues, NEW i \in Streams, Queue(i)',
           \A j \in Streams \ {i} : /\ client'[j] = client[j] /\ accepted'[j] = accepted[j]
                                    /\ toServer'[j] = toServer[j] /\ toRouter'[j] = toRouter[j]
    PROVE  Queues'
  <1>1. \A j \in Streams \ {i} : Queue(j)'
    BY DEF Queues, Queue, Open, ROpen
  <1> QED
    BY <1>1 DEF Queues

\* The server forgets a stream.
LEMMA FreesQueue ==
    ASSUME TypeOK, Queues, NEW i \in Streams, CloseEnd(i),
           NEW s \in Seq(Packets), ToRouter(i, s), UNCHANGED accepted
    PROVE  Queues'
  <1>1. client' = [client EXCEPT ![i] = "closed"] /\ toServer' = [toServer EXCEPT ![i] = <<>>]
    BY DEF CloseEnd
  <1>2. client'[i] = "closed" /\ toServer'[i] = <<>> /\ ~Has(<<>>, "SUCCESS")
    BY <1>1, ShortQueues DEF TypeOK
  <1>3. Queue(i)'
    BY <1>2 DEF Queue, Open
  <1>4. \A j \in Streams \ {i} : /\ client'[j] = client[j] /\ accepted'[j] = accepted[j]
                                 /\ toServer'[j] = toServer[j] /\ toRouter'[j] = toRouter[j]
    BY <1>1, SendsToRouter DEF TypeOK
  <1> QED
    BY <1>3, <1>4, OtherQueues

LEMMA SameQueues ==
    ASSUME Queues, UNCHANGED <<client, accepted, toServer, toRouter>>
    PROVE  Queues'
  BY DEF Queues, Queue, Open, ROpen

\* What each action does to the queue in hand: the literals of the sends.
LEMMA Sends ==
    /\ \A p \in Packets : <<p>> \in Seq(Packets)
    /\ <<>> \in Seq(Packets) /\ <<"DISCONNECT">> \in Seq(Packets) /\ <<"EOS">> \in Seq(Packets)
    /\ <<"DISCONNECT", "EOS">> \in Seq(Packets) /\ <<"KE_FAIL", "DISCONNECT">> \in Seq(Packets)
    /\ <<"SUCCESS", "DISCONNECT">> \in Seq(Packets) /\ <<"FAILURE", "DISCONNECT">> \in Seq(Packets)
    /\ <<"KE_OK">> \in Seq(Packets) /\ <<"SUCCESS">> \in Seq(Packets) /\ <<"NEW_SERVER">> \in Seq(Packets)
    /\ <<"AUTH">> \in Seq(Packets) /\ <<"BAD_AUTH">> \in Seq(Packets) /\ <<"KE_FAIL">> \in Seq(Packets)
  <1>1. {"KE_OK", "KE_FAIL", "AUTH", "BAD_AUTH", "SUCCESS", "FAILURE",
         "NEW_SERVER", "DISCONNECT", "EOS"} \subseteq Packets
    BY DEF Packets
  <1> QED
    BY <1>1, ShortQueues

\* Every step keeps what the queues say about the two ends.
LEMMA QueuesKept ==
    ASSUME TypeOK, Queues, Next
    PROVE  Queues'
  <1>1. CASE ConnectToRouter \/ Rehash
    <2>1. UNCHANGED accepted
      BY <1>1 DEF ConnectToRouter, Rehash
    <2>2. CASE UNCHANGED <<client, toServer, toRouter>>
      BY <2>1, <2>2, SameQueues
    <2>3. CASE \E i \in ConnectedStreams : CloseEnd(i) /\ ToRouter(i, <<"DISCONNECT", "EOS">>)
      BY <2>1, <2>3, Sends, FreesQueue DEF ConnectedStreams
    <2> QED
      BY <1>1, <2>2, <2>3 DEF ConnectToRouter, Rehash, FreeAndClose, CloseStream
  <1>2. ASSUME NEW c \in Conns, Established(c)
        PROVE  Queues'
    <2>1. PICK i \in NewStream : /\ client' = [client EXCEPT ![i] = "ske"]
                                 /\ accepted' = [accepted EXCEPT ![i] = "syn"]
                                 /\ toServer' = [toServer EXCEPT ![i] = <<>>]
                                 /\ toRouter' = [toRouter EXCEPT ![i] = <<>>]
      BY <1>2 DEF Established
    <2>2. i \in Streams /\ client'[i] = "ske" /\ accepted'[i] = "syn" /\ toServer'[i] = <<>>
      BY <2>1, NewStreamType DEF TypeOK
    <2>3. Queue(i)'
      BY <2>2, ShortQueues DEF Queue, Open, ROpen
    <2>4. \A j \in Streams \ {i} : /\ client'[j] = client[j] /\ accepted'[j] = accepted[j]
                                   /\ toServer'[j] = toServer[j] /\ toRouter'[j] = toRouter[j]
      BY <2>1, <2>2 DEF TypeOK
    <2> QED
      BY <2>2, <2>3, <2>4, OtherQueues
  <1>3. ASSUME NEW c \in Conns, NotEstablished(c) \/ Retry(c) \/ ConnectRouter(c)
        PROVE  Queues'
    BY <1>3, SameQueues DEF NotEstablished, Retry, ConnectRouter, objectsOnly
  <1>4. ASSUME NEW i \in Streams, CloseCommand(i)
        PROVE  Queues'
    BY <1>4, Sends, FreesQueue DEF CloseCommand, FreeAndClose, CloseStream
  <1>5. ASSUME NEW i \in Streams, ServerReceive(i)
        PROVE  Queues'
    <2> DEFINE p == Head(toServer[i])
               rest == toServer' = [toServer EXCEPT ![i] = Tail(@)]
    <2>1. Open(i) /\ toServer[i] # <<>> /\ UNCHANGED accepted /\ Queue(i)
      BY <1>5 DEF ServerReceive, Queues
    <2>2. CASE CloseStream(i) /\ ToRouter(i, <<"EOS">>)
      BY <2>1, <2>2, Sends, FreesQueue DEF CloseStream
    <2>3. ASSUME rest, p \notin {"DISCONNECT", "EOS"}, NEW x \in ClientStates, client' = [client EXCEPT ![i] = x],
                 x \in OpenStates, x = "registered" => client[i] = "registered",
                 \/ UNCHANGED toRouter
                 \/ /\ client[i] # "registered"
                    /\ \A j \in Streams \ {i} : toRouter'[j] = toRouter[j]
          PROVE  Queues'
      <3>1. /\ \A j \in Streams \ {i} : toServer'[j] = toServer[j]
            /\ Has(toServer'[i], "SUCCESS") => Has(toServer[i], "SUCCESS")
            /\ Ends(toServer[i], {"EOS"}) => Ends(toServer'[i], {"EOS"})
        BY <2>1, <2>3, TakesToServer
      <3>2. client'[i] = x /\ \A j \in Streams \ {i} : client'[j] = client[j]
        BY <2>3 DEF TypeOK
      <3>3. Queue(i)'
        BY <2>1, <2>3, <3>1, <3>2 DEF Queue, Open, ROpen, OpenStates
      <3> QED
        BY <2>1, <2>3, <3>1, <3>2, <3>3, OtherQueues
    <2>4. CASE /\ p = "KE_OK" /\ client[i] = "ske" /\ client' = [client EXCEPT ![i] = "auth"]
               /\ ToRouter(i, <<"AUTH">>) \/ ToRouter(i, <<"BAD_AUTH">>)
               /\ rest
      <3>1. \A j \in Streams \ {i} : toRouter'[j] = toRouter[j]
        BY <2>4, Sends, SendsToRouter
      <3> QED
        BY <2>3, <2>4, <3>1 DEF ClientStates, OpenStates
    <2>5. CASE /\ p \in {"KE_FAIL", "FAILURE"} /\ Fails(i) /\ rest /\ UNCHANGED toRouter
      BY <2>3, <2>5 DEF Fails, ClientStates, OpenStates
    <2>6. CASE p = "SUCCESS" /\ client[i] = "auth" /\ Registered(i) /\ rest
      <3>1. /\ \A j \in Streams \ {i} : toServer'[j] = toServer[j]
            /\ Has(toServer[i], "SUCCESS")
            /\ Ends(toServer[i], {"EOS"}) => Ends(toServer'[i], {"EOS"})
        BY <2>1, <2>6, TakesToServer
      <3>2. client' = [client EXCEPT ![i] = "registered"] /\ ToRouter(i, <<"NEW_SERVER">>)
        BY <2>6 DEF Registered
      <3>3. client'[i] = "registered" /\ \A j \in Streams \ {i} : client'[j] = client[j]
        BY <3>2 DEF TypeOK
      <3>4. Ends(<<"NEW_SERVER">>, {"NEW_SERVER", "DISCONNECT", "EOS"})
        BY ShortQueues DEF Packets
      <3>5. /\ \A j \in Streams \ {i} : toRouter'[j] = toRouter[j]
            /\ ROpen(i) => Ends(toRouter'[i], {"NEW_SERVER", "DISCONNECT", "EOS"})
        BY <3>2, <3>4, Sends, SendsToRouter
      <3>6. accepted[i] \in {"accepted", "registered", "closed"}
        BY <2>1, <3>1 DEF Queue
      <3>7. Queue(i)'
        BY <2>1, <3>1, <3>3, <3>5, <3>6 DEF Queue, Open, ROpen
      <3> QED
        BY <2>1, <3>1, <3>3, <3>5, <3>7, OtherQueues
    <2>7. CASE p \in {"KE_OK", "KE_FAIL", "SUCCESS", "FAILURE"} /\ rest /\ UNCHANGED <<client, toRouter>>
      <3>1. client' = [client EXCEPT ![i] = client[i]] /\ client[i] \in ClientStates /\ client[i] \in OpenStates
        BY <2>1, <2>7 DEF TypeOK, Open, OpenStates
      <3> QED
        BY <2>3, <2>7, <3>1
    <2> QED
      BY <1>5, <2>2, <2>4, <2>5, <2>6, <2>7 DEF ServerReceive
  <1>6. ASSUME NEW i \in Streams, NEW x \in {"failed", "dead"}, client[i] \in {"ske", "auth"},
               client' = [client EXCEPT ![i] = x], UNCHANGED <<accepted, toServer>>,
               \A j \in Streams \ {i} : toRouter'[j] = toRouter[j]
        PROVE  Queues'
    <2>1. client'[i] = x /\ \A j \in Streams \ {i} : client'[j] = client[j]
      BY <1>6 DEF TypeOK
    <2>2. Queue(i)'
      BY <2>1, <1>6 DEF Queues, Queue, Open, ROpen
    <2> QED
      BY <2>1, <2>2, <1>6, OtherQueues
  <1>7. ASSUME NEW i \in Streams, ServerKeyExchangeFails(i)
        PROVE  Queues'
    <2>1. \A j \in Streams \ {i} : toRouter'[j] = toRouter[j]
      BY <1>7, Sends, SendsToRouter DEF ServerKeyExchangeFails
    <2> QED
      BY <2>1, <1>6, <1>7 DEF ServerKeyExchangeFails, Fails
  <1>8. ASSUME NEW i \in Streams, ServerAuthTimeout(i)
        PROVE  Queues'
    BY <1>6, <1>8 DEF ServerAuthTimeout
  <1>9. ASSUME NEW i \in Streams, RouterStream(i)
        PROVE  Queues'
    <2>1. UNCHANGED client /\ Queue(i)
      BY <1>9 DEF RouterStream, Accept, RouterKeyExchange, RouterAuthTimeout, RouterReceive, Queues
    <2>2. ASSUME NEW s \in Seq(Packets), Drop(i, s)
          PROVE  Queues'
      BY <2>1, <2>2, DropsStream, OtherQueues
    <2>3. ASSUME accepted[i] \in {"syn", "ske", "auth"}, NEW x \in {"ske", "auth", "dead"},
                 accepted' = [accepted EXCEPT ![i] = x],
                 UNCHANGED toRouter, UNCHANGED toServer \/ ToServer(i, <<"KE_OK">>)
          PROVE  Queues'
      <3>1. accepted'[i] = x /\ \A j \in Streams \ {i} : accepted'[j] = accepted[j]
        BY <2>3 DEF TypeOK
      <3>2. client[i] # "registered" /\ ~Has(toServer[i], "SUCCESS")
        BY <2>1, <2>3 DEF Queue
      <3>3. /\ \A j \in Streams \ {i} : toServer'[j] = toServer[j]
            /\ ~Has(toServer'[i], "SUCCESS")
            /\ ~Open(i) => toServer'[i] = <<>>
        <4>1. CASE UNCHANGED toServer
          BY <4>1, <3>2, <2>1 DEF Queue
        <4>2. CASE ToServer(i, <<"KE_OK">>)
          <5>1. ~Has(<<"KE_OK">>, "SUCCESS")
            BY ShortQueues DEF Packets
          <5> QED
            BY <4>2, <5>1, <3>2, Sends, SendsToServer
        <4> QED
          BY <4>1, <4>2, <2>3
      <3>4. Queue(i)'
        BY <2>1, <2>3, <3>1, <3>2, <3>3 DEF Queue, Open, ROpen
      <3> QED
        BY <2>1, <2>3, <3>1, <3>3, <3>4, OtherQueues
    <2>4. CASE Accept(i)
      BY <2>2, <2>3, <2>4, Sends DEF Accept
    <2>5. CASE RouterKeyExchange(i)
      BY <2>2, <2>3, <2>5, Sends DEF RouterKeyExchange
    <2>6. CASE RouterAuthTimeout(i)
      BY <2>3, <2>6 DEF RouterAuthTimeout
    <2>7. CASE RouterReceive(i)
      <3> DEFINE p == Head(toRouter[i])
                 rest == toRouter' = [toRouter EXCEPT ![i] = Tail(@)]
      <3>1. ROpen(i) /\ toRouter[i] # <<>>
        BY <2>7 DEF RouterReceive
      <3>2. ASSUME rest PROVE \A j \in Streams \ {i} : toRouter'[j] = toRouter[j]
        BY <3>1, <3>2, TakesToRouter
      <3>3. CASE /\ p = "AUTH" /\ accepted[i] = "auth" /\ accepted' = [accepted EXCEPT ![i] = "accepted"]
                 /\ ToServer(i, <<"SUCCESS">>) /\ rest
        <4>1. accepted'[i] = "accepted" /\ \A j \in Streams \ {i} : accepted'[j] = accepted[j]
          BY <3>3 DEF TypeOK
        <4>2. client[i] # "registered"
          BY <2>1, <3>3 DEF Queue
        <4>3. /\ \A j \in Streams \ {i} : toServer'[j] = toServer[j]
              /\ ~Open(i) => toServer'[i] = <<>>
          BY <3>3, Sends, SendsToServer
        <4>4. Queue(i)'
          BY <2>1, <4>1, <4>2, <4>3 DEF Queue, Open, ROpen
        <4> QED
          BY <2>1, <3>2, <3>3, <4>1, <4>3, <4>4, OtherQueues
      <3>4. CASE /\ p = "NEW_SERVER" /\ accepted[i] = "accepted"
                 /\ accepted' = [accepted EXCEPT ![i] = "registered"]
                 /\ rest /\ UNCHANGED toServer
        <4>1. accepted'[i] = "registered" /\ \A j \in Streams \ {i} : accepted'[j] = accepted[j]
          BY <3>4 DEF TypeOK
        <4>2. Queue(i)'
          BY <2>1, <3>4, <4>1 DEF Queue, Open, ROpen
        <4> QED
          BY <2>1, <3>2, <3>4, <4>1, <4>2, OtherQueues
      <3>5. CASE p \in {"AUTH", "BAD_AUTH", "KE_FAIL"} /\ rest /\ UNCHANGED <<accepted, toServer>>
        <4>1. Ends(toRouter[i], {"NEW_SERVER", "DISCONNECT", "EOS"}) =>
                 Ends(toRouter'[i], {"NEW_SERVER", "DISCONNECT", "EOS"})
          BY <3>1, <3>5, TakesToRouter
        <4>2. Queue(i)'
          BY <2>1, <3>5, <4>1 DEF Queue, Open, ROpen
        <4> QED
          BY <2>1, <3>2, <3>5, <4>2, OtherQueues
      <3>6. ASSUME NEW s \in {<<>>, <<"DISCONNECT">>, <<"SUCCESS", "DISCONNECT">>, <<"FAILURE", "DISCONNECT">>},
                   Drop(i, s)
            PROVE  Queues'
        BY <3>6, <2>2, Sends
      <3> QED
        BY <2>7, <3>3, <3>4, <3>5, <3>6 DEF RouterReceive
    <2> QED
      BY <1>9, <2>4, <2>5, <2>6, <2>7 DEF RouterStream
  <1>10. ASSUME NEW i \in Streams, Cut(i)
         PROVE  Queues'
    <2>1. /\ UNCHANGED <<client, accepted>> /\ Open(i) /\ ROpen(i)
          /\ toServer' = [toServer EXCEPT ![i] = <<"EOS">>] /\ toRouter' = [toRouter EXCEPT ![i] = <<"EOS">>]
      BY <1>10 DEF Cut
    <2>2. toServer'[i] = <<"EOS">> /\ toRouter'[i] = <<"EOS">>
      BY <2>1 DEF TypeOK
    <2>3. /\ ~Has(<<"EOS">>, "SUCCESS") /\ Ends(<<"EOS">>, {"EOS"})
          /\ Ends(<<"EOS">>, {"NEW_SERVER", "DISCONNECT", "EOS"})
      BY ShortQueues DEF Packets
    <2>4. Queue(i)'
      BY <2>1, <2>2, <2>3 DEF Queues, Queue, Open, ROpen
    <2>5. \A j \in Streams \ {i} : toServer'[j] = toServer[j] /\ toRouter'[j] = toRouter[j]
      BY <2>1 DEF TypeOK
    <2> QED
      BY <2>1, <2>4, <2>5, OtherQueues
  <1> QED
    BY <1>1, <1>2, <1>3, <1>4, <1>5, <1>7, <1>8, <1>9, <1>10 DEF Next, Tasks, ServerStream

-----------------------------------------------------------------------------
(***************************************************************************)
(* Types.                                                                  *)
(***************************************************************************)

ConnType == [live : BOOLEAN, sock : Streams \cup {None}, task : {"none", "connect", "retry"},
             op : BOOLEAN, listed : BOOLEAN]
StreamQueues == [Streams -> Seq(Packets)]

\* The type invariant with its types named.
Typed ==
    /\ standalone \in BOOLEAN /\ connect_task \in BOOLEAN
    /\ configured \in BOOLEAN /\ stale \in BOOLEAN
    /\ router \in Streams \cup {None} /\ router_conn \in Conns \cup {None}
    /\ sconn \in [Conns -> ConnType]
    /\ client \in [Streams -> ClientStates]
    /\ entry \in [Streams -> Conns \cup {None}]
    /\ accepted \in [Streams -> AcceptStates]
    /\ toServer \in StreamQueues /\ toRouter \in StreamQueues
    /\ stat \in StatType
    /\ rstat \in Nat /\ faults \in 0 .. MaxFaults

\* What is done to a connection object keeps its type.
LEMMA ConnTypes ==
    ASSUME NEW conn \in ConnType
    PROVE  /\ Freed(conn) \in ConnType /\ Retrying(conn) \in ConnType
           /\ Retrying([conn EXCEPT !.op = FALSE]) \in ConnType
           /\ [conn EXCEPT !.task = "none"] \in ConnType
  BY DEF Freed, Retrying, ConnType

\* Freeing an entry keeps the types of the server.
LEMMA FreesTypes ==
    ASSUME Typed, Linked, NEW i \in Streams, Open(i), CloseStream(i)
    PROVE  /\ sconn' \in [Conns -> ConnType] /\ connect_task' \in BOOLEAN /\ standalone' \in BOOLEAN
           /\ router' \in Streams \cup {None} /\ router_conn' \in Conns \cup {None}
  <1>1. entry[i] \in Conns
    BY DEF Linked
  <1>2. sconn' \in [Conns -> ConnType]
    <2>1. sconn \in [Conns -> ConnType] /\ NoRetries(sconn) \in [Conns -> ConnType]
      BY ConnTypes DEF NoRetries, Typed
    <2>2. \A s \in [Conns -> ConnType] : [s EXCEPT ![entry[i]] = Freed(@)] \in [Conns -> ConnType]
      BY <1>1, ConnTypes
    <2> QED
      BY <2>1, <2>2 DEF CloseStream
  <1>3. connect_task' \in BOOLEAN /\ standalone' \in BOOLEAN
    <2>1. connect_task \in BOOLEAN /\ standalone \in BOOLEAN
      BY DEF Typed
    <2> QED
      BY <2>1, Zenon DEF CloseStream
  <1> QED
    BY <1>1, <1>2, <1>3 DEF CloseStream, RouterWithout, Typed

LEMMA EndTypes ==
    ASSUME Typed, NEW i \in Streams, CloseEnd(i)
    PROVE  /\ client' \in [Streams -> ClientStates] /\ entry' \in [Streams -> Conns \cup {None}]
           /\ toServer' \in StreamQueues
  BY ShortQueues DEF CloseEnd, Typed, ClientStates, StreamQueues

\* Every step keeps the types.
LEMMA TypesKept ==
    ASSUME TypeOK, StreamsCounted, Linked, Next
    PROVE  TypeOK'
  <1>0. Typed
    BY DEF TypeOK, Typed, ConnType, StatType, StreamQueues
  <1> SUFFICES Typed'
    BY DEF TypeOK, Typed, ConnType, StatType, StreamQueues
  <1>1. stat' \in StatType /\ rstat' \in Nat
    BY CountersKept
  <1>2. faults' \in 0 .. MaxFaults
    <2>1. faults' = faults \/ Fault
      BY DEF Next, Tasks, ServerStream, RouterStream, ConnectToRouter, Established, NotEstablished,
         Retry, ConnectRouter, CloseCommand, Rehash, ServerReceive, ServerKeyExchangeFails,
         ServerAuthTimeout, Accept, RouterKeyExchange, RouterAuthTimeout, RouterReceive, Cut, NoFault
    <2> QED
      BY <2>1, LinkAssumption DEF Fault, TypeOK
  <1>13. stale' \in BOOLEAN
    <2>1. stale' = stale \/ \E C : UsesAll(C)
      BY Zenon DEF Next, Tasks, ServerStream, RouterStream, ConnectToRouter, Established, NotEstablished,
         Retry, ConnectRouter, CloseCommand, Rehash, ServerReceive, ServerKeyExchangeFails, FreeAndClose,
         ServerAuthTimeout, Accept, RouterKeyExchange, RouterAuthTimeout, RouterReceive, Cut,
         Uses, Fails, Registered, serverVars
    <2> QED
      BY <2>1, Zenon DEF UsesAll, TypeOK
  <1>3. CASE ConnectToRouter
    <2> DEFINE quiet == [d \in Conns |-> [sconn[d] EXCEPT !.task = "none"]]
    <2>1. quiet \in [Conns -> ConnType] /\ Connecting \in ConnType
      BY <1>0, ConnTypes DEF Typed, Connecting, ConnType
    <2>2. standalone' \in BOOLEAN /\ connect_task' \in BOOLEAN /\ UNCHANGED <<router, configured, accepted>>
      BY <1>0, <1>3 DEF ConnectToRouter, Typed
    <2>3. CASE UNCHANGED <<router_conn, client, entry, toServer, toRouter>> /\ (UNCHANGED sconn \/ sconn' = quiet)
      BY <1>0, <1>1, <1>2, <1>13, <2>1, <2>2, <2>3 DEF Typed
    <2>4. CASE /\ UNCHANGED <<client, entry, toServer, toRouter>>
               /\ \E c \in NewConn : /\ sconn' = [quiet EXCEPT ![c] = Connecting]
                                     /\ router_conn' = IF router_conn = None THEN c ELSE router_conn
      <3>1. sconn' \in [Conns -> ConnType] /\ router_conn' \in Conns \cup {None}
        BY <1>0, <2>1, <2>4, NewConnType DEF Typed
      <3> QED
        BY <1>0, <1>1, <1>2, <1>13, <2>2, <2>4, <3>1 DEF Typed
    <2>5. CASE \E i \in ConnectedStreams, c \in NewConn :
                  /\ CloseEnd(i)
                  /\ sconn' = [quiet EXCEPT ![entry[i]] = Freed(@), ![c] = Connecting]
                  /\ router_conn' = IF router_conn = None THEN c ELSE router_conn
                  /\ ToRouter(i, <<"DISCONNECT", "EOS">>)
      <3>1. PICK i \in Streams, c \in Conns :
                  /\ Open(i) /\ CloseEnd(i)
                  /\ sconn' = [quiet EXCEPT ![entry[i]] = Freed(@), ![c] = Connecting]
                  /\ router_conn' = IF router_conn = None THEN c ELSE router_conn
                  /\ ToRouter(i, <<"DISCONNECT", "EOS">>)
        BY <2>5, NewConnType DEF ConnectedStreams, Open
      <3>2. router_conn' \in Conns \cup {None} /\ entry[i] \in Conns
        BY <1>0, <3>1 DEF Typed, Linked
      <3>3. [quiet EXCEPT ![entry[i]] = Freed(@)] \in [Conns -> ConnType]
        BY <2>1, <3>2, ConnTypes
      <3>4. sconn' \in [Conns -> ConnType]
        BY <2>1, <3>1, <3>3
      <3>5. toRouter' \in StreamQueues
        BY <3>1, Sends, SendsToRouter DEF StreamQueues
      <3> QED
        BY <1>0, <1>1, <1>2, <1>13, <2>2, <3>1, <3>2, <3>4, <3>5, EndTypes DEF Typed
    <2> QED
      BY <1>3, <2>3, <2>4, <2>5 DEF ConnectToRouter
  <1>4. ASSUME NEW c \in Conns, Established(c)
        PROVE  Typed'
    <2>1. PICK i \in Streams :
            /\ sconn' = [sconn EXCEPT ![c].op = FALSE, ![c].task = "none", ![c].sock = i]
            /\ client' = [client EXCEPT ![i] = "ske"]
            /\ entry' = [entry EXCEPT ![i] = c]
            /\ accepted' = [accepted EXCEPT ![i] = "syn"]
            /\ toServer' = [toServer EXCEPT ![i] = <<>>]
            /\ toRouter' = [toRouter EXCEPT ![i] = <<>>]
      BY <1>4, NewStreamType DEF Established
    <2>2. sconn' \in [Conns -> ConnType]
      <3>1. sconn[c] \in ConnType
        BY <1>0 DEF Typed
      <3>2. [sconn[c] EXCEPT !.op = FALSE, !.task = "none", !.sock = i] \in ConnType
        BY <2>1, <3>1 DEF ConnType
      <3>3. sconn' = [sconn EXCEPT ![c] = [sconn[c] EXCEPT !.op = FALSE, !.task = "none", !.sock = i]]
        BY <1>0, <2>1, <3>1 DEF Typed, ConnType
      <3> QED
        BY <1>0, <3>2, <3>3 DEF Typed
    <2>3. toServer' \in StreamQueues /\ toRouter' \in StreamQueues
      BY <2>1, ShortQueues DEF TypeOK, StreamQueues
    <2>4. client' \in [Streams -> ClientStates] /\ accepted' \in [Streams -> AcceptStates]
      BY <2>1 DEF TypeOK, ClientStates, AcceptStates
    <2> QED
      BY <1>0, <1>1, <1>2, <1>13, <1>4, <2>1, <2>2, <2>3, <2>4 DEF Established, Typed
  <1>5. ASSUME NEW c \in Conns, NotEstablished(c) \/ Retry(c) \/ ConnectRouter(c)
        PROVE  Typed'
    <2>1. sconn' \in [Conns -> ConnType]
      <3>1. sconn[c] \in ConnType
        BY <1>0 DEF Typed
      <3>2. CASE NotEstablished(c)
        BY <1>0, <3>1, <3>2, ConnTypes DEF NotEstablished, Typed
      <3>3. CASE Retry(c)
        BY <1>0, <3>1, <3>3 DEF Retry, Typed, ConnType
      <3>4. CASE ConnectRouter(c)
        <4>1. /\ [sconn[c] EXCEPT !.task = "none", !.op = TRUE, !.listed = TRUE] \in ConnType
              /\ Freed([sconn[c] EXCEPT !.task = "none"]) \in ConnType
          BY <3>1 DEF ConnType, Freed
        <4>2. \/ sconn' = [sconn EXCEPT ![c] = [sconn[c] EXCEPT !.task = "none", !.op = TRUE, !.listed = TRUE]]
              \/ sconn' = [sconn EXCEPT ![c] = Freed([sconn[c] EXCEPT !.task = "none"])]
          BY <1>0, <3>1, <3>4 DEF ConnectRouter, Typed, ConnType
        <4> QED
          BY <1>0, <4>1, <4>2 DEF Typed
      <3> QED
        BY <1>5, <3>2, <3>3, <3>4
    <2> QED
      BY <1>0, <1>1, <1>2, <1>13, <1>5, <2>1 DEF NotEstablished, Retry, ConnectRouter, objectsOnly, Typed
  <1>6. ASSUME NEW i \in Streams, Open(i), CloseStream(i), ToRouter(i, <<"DISCONNECT", "EOS">>),
               UNCHANGED <<accepted, rstat>>, configured' \in BOOLEAN
        PROVE  Typed'
    <2>1. toRouter' \in StreamQueues
      BY <1>6, Sends, SendsToRouter DEF StreamQueues
    <2> QED
      BY <1>0, <1>1, <1>2, <1>13, <1>6, <2>1, FreesTypes, EndTypes DEF CloseStream, Typed
  <1>14. ASSUME NEW i \in Streams, CloseCommand(i)
         PROVE  Typed'
    BY <1>0, <1>6, <1>14 DEF CloseCommand, FreeAndClose, Open, Typed
  <1>7. CASE Rehash
    <2>1. CASE /\ sconn' = NoRetries(sconn) /\ connect_task' = TRUE
               /\ UNCHANGED <<standalone, router, router_conn, client, entry, toServer, toRouter>>
      <3>1. sconn' \in [Conns -> ConnType]
        BY <1>0, <2>1, ConnTypes DEF NoRetries, Typed
      <3> QED
        BY <1>0, <1>1, <1>2, <1>13, <1>7, <2>1, <3>1 DEF Rehash, Typed
    <2>2. CASE \E i \in ConnectedStreams : FreeAndClose(i) /\ ToRouter(i, <<"DISCONNECT", "EOS">>)
      BY <1>6, <1>7, <2>2 DEF Rehash, FreeAndClose, ConnectedStreams, Open
    <2> QED
      BY <1>7, <2>1, <2>2 DEF Rehash
  <1>8. ASSUME NEW i \in Streams, ServerReceive(i)
        PROVE  Typed'
    <2>1. Open(i) /\ toServer[i] # <<>> /\ UNCHANGED <<accepted, configured>> /\ entry[i] \in Conns
      BY <1>8 DEF ServerReceive, Linked
    <2>2. toServer' \in StreamQueues
      BY <1>0, <1>8, <2>1, TakesToServer, EndTypes DEF ServerReceive, CloseStream, StreamQueues, TypeOK
    <2>3. toRouter' \in StreamQueues
      <3>1. \/ UNCHANGED toRouter
            \/ \E s \in {<<"AUTH">>, <<"BAD_AUTH">>, <<"NEW_SERVER">>, <<"EOS">>} : ToRouter(i, s)
        BY <1>8 DEF ServerReceive, Registered
      <3> QED
        BY <3>1, Sends, SendsToRouter DEF StreamQueues, TypeOK
    <2>4. CASE CloseStream(i)
      BY <1>0, <1>1, <1>2, <1>13, <2>1, <2>2, <2>3, <2>4, FreesTypes, EndTypes DEF CloseStream, Typed
    <2>5. CASE Registered(i) /\ UNCHANGED <<connect_task, entry, sconn>>
      <3>1. client' \in [Streams -> ClientStates]
        BY <2>5 DEF Registered, TypeOK, ClientStates
      <3> QED
        BY <1>0, <1>1, <1>2, <1>13, <2>1, <2>2, <2>3, <2>5, <3>1 DEF Registered, Typed
    <2>6. CASE /\ UNCHANGED <<standalone, router, router_conn, connect_task, entry>>
               /\ Fails(i) \/ UNCHANGED sconn
               /\ UNCHANGED client \/ Fails(i) \/ client' = [client EXCEPT ![i] = "auth"]
      <3>1. client' \in [Streams -> ClientStates]
        BY <2>6 DEF Fails, TypeOK, ClientStates
      <3>2. sconn' \in [Conns -> ConnType]
        <4>1. sconn[entry[i]] \in ConnType
          BY <1>0, <2>1 DEF Typed
        <4>2. Retrying(sconn[entry[i]]) \in ConnType
          BY <4>1, ConnTypes
        <4> QED
          BY <1>0, <2>1, <2>6, <4>2 DEF Fails, Typed
      <3> QED
        BY <1>0, <1>1, <1>2, <1>13, <2>1, <2>2, <2>3, <2>6, <3>1, <3>2 DEF Typed
    <2> QED
      BY <1>8, <2>4, <2>5, <2>6 DEF ServerReceive
  <1>9. ASSUME NEW i \in Streams, ServerKeyExchangeFails(i)
        PROVE  Typed'
    <2>1. Open(i)
      BY <1>9 DEF ServerKeyExchangeFails, Open
    <2>2. entry[i] \in Conns
      BY <2>1 DEF Linked
    <2>3. client' \in [Streams -> ClientStates] /\ sconn' \in [Conns -> ConnType]
      BY <1>0, <1>9, <2>2, ConnTypes DEF ServerKeyExchangeFails, Fails, Typed, ClientStates
    <2>4. toRouter' \in StreamQueues
      BY <1>9, Sends, SendsToRouter DEF ServerKeyExchangeFails, StreamQueues, TypeOK
    <2> QED
      BY <1>0, <1>1, <1>2, <1>13, <1>9, <2>3, <2>4 DEF ServerKeyExchangeFails, Typed
  <1>10. ASSUME NEW i \in Streams, ServerAuthTimeout(i)
         PROVE  Typed'
    <2>1. client' \in [Streams -> ClientStates]
      BY <1>10 DEF ServerAuthTimeout, TypeOK, ClientStates
    <2> QED
      BY <1>0, <1>1, <1>2, <1>13, <1>10, <2>1 DEF ServerAuthTimeout, serverVars, Typed
  <1>11. ASSUME NEW i \in Streams, RouterStream(i)
         PROVE  Typed'
    <2>1. UNCHANGED <<serverVars, client>>
      BY <1>11 DEF RouterStream, Accept, RouterKeyExchange, RouterAuthTimeout, RouterReceive
    <2>2. CASE \E s \in {<<>>, <<"DISCONNECT">>, <<"KE_FAIL", "DISCONNECT">>, <<"SUCCESS", "DISCONNECT">>,
                         <<"FAILURE", "DISCONNECT">>} : Drop(i, s)
      <3>1. /\ accepted' \in [Streams -> AcceptStates]
            /\ toServer' \in StreamQueues /\ toRouter' \in StreamQueues
        BY <2>1, <2>2, Sends, DropsStream DEF StreamQueues
      <3> QED
        BY <1>0, <1>1, <1>2, <1>13, <2>1, <3>1 DEF serverVars, Typed
    <2>3. CASE /\ UNCHANGED accepted \/ \E x \in AcceptStates : accepted' = [accepted EXCEPT ![i] = x]
               /\ UNCHANGED toServer \/ ToServer(i, <<"KE_OK">>) \/ ToServer(i, <<"SUCCESS">>)
               /\ \/ UNCHANGED toRouter
                  \/ toRouter[i] # <<>> /\ toRouter' = [toRouter EXCEPT ![i] = Tail(@)]
      <3>1. accepted' \in [Streams -> AcceptStates]
        BY <2>3 DEF TypeOK
      <3>2. toServer' \in StreamQueues
        BY <2>3, Sends, SendsToServer DEF TypeOK, StreamQueues
      <3>3. toRouter' \in StreamQueues
        BY <2>3, TakesToRouter DEF TypeOK, StreamQueues
      <3> QED
        BY <1>0, <1>1, <1>2, <1>13, <2>1, <3>1, <3>2, <3>3 DEF serverVars, Typed
    <2>4. {"ske", "auth", "dead", "accepted", "registered"} \subseteq AcceptStates
      BY DEF AcceptStates
    <2>5. CASE Accept(i)
      BY <2>2, <2>3, <2>4, <2>5 DEF Accept
    <2>6. CASE RouterKeyExchange(i)
      BY <2>2, <2>3, <2>4, <2>6 DEF RouterKeyExchange
    <2>7. CASE RouterAuthTimeout(i)
      BY <2>3, <2>4, <2>7 DEF RouterAuthTimeout
    <2>8. CASE RouterReceive(i)
      BY <2>2, <2>3, <2>4, <2>8 DEF RouterReceive
    <2> QED
      BY <1>11, <2>5, <2>6, <2>7, <2>8 DEF RouterStream
  <1>12. ASSUME NEW i \in Streams, Cut(i)
         PROVE  Typed'
    <2>1. toServer' \in StreamQueues /\ toRouter' \in StreamQueues
      BY <1>12, Sends DEF Cut, TypeOK, StreamQueues
    <2> QED
      BY <1>0, <1>1, <1>2, <1>13, <1>12, <2>1 DEF Cut, serverVars, Typed
  <1> QED
    BY <1>3, <1>4, <1>5, <1>14, <1>7, <1>8, <1>9, <1>10, <1>11, <1>12 DEF Next, Tasks, ServerStream

-----------------------------------------------------------------------------
(***************************************************************************)
(* The theorems.                                                           *)
(***************************************************************************)

LEMMA InitLinkInv == Init => LinkInv
  <1> SUFFICES ASSUME Init PROVE LinkInv
    OBVIOUS
  <1>1. \A i \in Streams : ~Open(i) /\ ~ROpen(i) /\ client[i] # "registered" /\ toServer[i] = <<>>
    BY DEF Init, Open, ROpen
  <1>2. TypeOK
    <2>1. sconn \in [Conns -> ConnType]
      BY DEF Init, NoConn, ConnType
    <2>2. toServer \in StreamQueues /\ toRouter \in StreamQueues
      BY ShortQueues DEF Init, StreamQueues
    <2> QED
      <3>1. client \in [Streams -> ClientStates] /\ accepted \in [Streams -> AcceptStates]
        BY DEF Init, ClientStates, AcceptStates
      <3>2. stat \in StatType /\ rstat \in Nat /\ faults \in 0 .. MaxFaults
        BY LinkAssumption DEF Init, StatType
      <3>3. Typed
        BY <2>1, <2>2, <3>1, <3>2 DEF Init, Typed
      <3> QED
        BY <3>3 DEF TypeOK, Typed, ConnType, StatType, StreamQueues
  <1>3. StreamsCounted
    <2>1. OpenSet = {} /\ RegisteredSet = {} /\ ServerSet = {}
      BY <1>1 DEF Init, OpenSet, RegisteredSet, ServerSet
    <2>2. Cardinality({}) = 0
      BY FS_EmptySet
    <2> QED
      BY <2>1, <2>2, CountedSets DEF Init
  <1>4. Linked
    BY <1>1 DEF Init, Linked, NotLeftAlone
  <1>5. Queues
    BY <1>1, ShortQueues DEF Queues, Queue
  <1> QED
    BY <1>2, <1>3, <1>4, <1>5 DEF LinkInv

LEMMA NextLinkInv ==
    ASSUME LinkInv, [Next]_vars
    PROVE  LinkInv'
  <1>1. CASE Next
    BY <1>1, TypesKept, CountersKept, LinkedKept, QueuesKept DEF LinkInv
  <1>2. CASE UNCHANGED vars
    <2>1. TypeOK'
      BY <1>2 DEF LinkInv, TypeOK, vars, serverVars
    <2>2. StreamsCounted'
      BY <1>2, SameCounted DEF LinkInv, vars, serverVars
    <2>3. Linked'
      BY <1>2, SameLinked DEF LinkInv, vars, serverVars
    <2>4. Queues'
      BY <1>2, SameQueues DEF LinkInv, vars
    <2> QED
      BY <2>1, <2>2, <2>3, <2>4 DEF LinkInv
  <1> QED
    BY <1>1, <1>2

\* The inductive invariant of the link: counters that count, a primary router
\* that is registered or a way to the next one, queues that tell of the other
\* end.  No order of timers, closes and answers is assumed.
THEOREM LinkInvariance == Spec => []LinkInv
  <1>1. LinkInv /\ [Next]_vars => LinkInv'
    BY NextLinkInv
  <1> QED
    BY <1>1, InitLinkInv, PTL DEF Spec

\* The variables of the link keep their types; conn_num, my_routers and
\* my_servers never fall below zero (server.c, silc_server_free_sock_user_data).
THEOREM LinkTypes == Spec => []TypeOK
  <1>1. LinkInv => TypeOK
    BY DEF LinkInv
  <1> QED
    BY <1>1, LinkInvariance, PTL

\* A server that is not standalone has a registered primary router, and the
\* server and the router agree about each connection between them once nothing
\* is under way on it (server.c, silc_server_ke_auth_compl and
\* silc_server_free_sock_user_data; packet_receive.c, silc_server_new_server).
THEOREM EndsAgreeCorrect == Spec => []EndsAgree
  <1>1. LinkInv => EndsAgree
    <2> SUFFICES ASSUME LinkInv PROVE EndsAgree
      OBVIOUS
    <2>1. ASSUME NEW i \in Streams, client[i] = "registered", toServer[i] = <<>>, toRouter[i] = <<>>
          PROVE  accepted[i] = "registered"
      <3>1. Open(i) /\ Queue(i)
        BY <2>1 DEF Open, LinkInv, Queues
      <3> QED
        BY <2>1, <3>1 DEF Queue, Ends, ROpen
    <2> QED
      BY <2>1 DEF EndsAgree, LinkInv, Linked
  <1> QED
    BY <1>1, LinkInvariance, PTL

\* Whichever stream is lost or closed, and in whatever order with the retry
\* timers, rehashes and operator commands: a server with a configured router
\* that has neither a primary router nor router_conn is about to connect.
THEOREM NotLeftAloneCorrect == Spec => []NotLeftAlone
  <1>1. LinkInv => NotLeftAlone
    BY DEF LinkInv, Linked
  <1> QED
    BY <1>1, LinkInvariance, PTL
=============================================================================
