------------------------- MODULE KeyExchangeProofs --------------------------
(***************************************************************************)
(* Proofs about KeyExchange, for every connection and every bound.         *)
(***************************************************************************)
EXTENDS KeyExchange, SequenceTheorems, TLAPS

\* The fields of end[e].
Fields ==
    {"me", "st", "link", "runs", "fin", "timer", "retry", "count", "retrans",
     "pkt", "status", "notified", "aborted", "refcnt", "rekeying", "start",
     "prop", "ke1", "ke2", "KEY", "keymat", "round", "done", "send", "recv",
     "rekey", "hist", "data", "held", "null", "out"}

States == Reads \cup {"none", "i_start", "r_start", "rekey_i_start", "failure"}

IsSeq(q) == q \in Seq({q[n] : n \in DOMAIN q})

Packets(q) == IsSeq(q) /\ \A n \in DOMAIN q : q[n] # None

One(b) == IF b THEN 1 ELSE 0

Formed(k) ==
    /\ DOMAIN k = Fields
    /\ k.link \in BOOLEAN /\ k.fin \in BOOLEAN /\ k.timer \in BOOLEAN
    /\ k.retry \in BOOLEAN /\ k.notified \in BOOLEAN /\ k.aborted \in BOOLEAN
    /\ k.rekeying \in BOOLEAN /\ k.held \in BOOLEAN /\ k.null \in BOOLEAN
    /\ k.refcnt \in Int /\ k.runs \in Nat /\ k.st \in States

\* The exchange is linked to the stream as long as its machine runs, its tasks
\* end with it, and whoever will still use it has a reference.
Living(k) ==
    /\ ~k.null
    /\ k.link <=> k.st # "none"
    /\ ~k.link => k.runs = 0 /\ ~k.timer /\ ~k.retry
    /\ k.link => (k.notified <=> k.st = "failure")
    /\ k.link /\ ~k.rekeying => k.refcnt = 2 /\ ~k.fin /\ ~k.held
    /\ k.refcnt >= One(k.link /\ k.rekeying) + One(k.fin)
                       + One(k.held /\ ~k.rekeying)

\* A run that is scheduled finds the packet its state reads.
Waking(k) ==
    /\ k.runs > 0 /\ k.st \in Reads => k.pkt # None
    /\ k.runs > 1 => k.st \in {"r_start", "failure"}
    /\ k.st = "r_start" => k.runs <= 2
    /\ k.runs > 1 /\ k.st = "r_start" => k.pkt # None
    /\ k.st = "i_start" => k.runs = 1
    /\ k.rekeying /\ k.link => k.runs = One(k.st = "rekey_i_start")
    /\ k.st = "rekey_i_start" => k.rekeying /\ k.me = "i"
    /\ cfg.udp => k.runs <= 1
    /\ k.retry => cfg.udp /\ k.runs = 0 /\ k.retrans # None
    /\ k.retrans # None => k.retrans.t \notin {"REKEY", "FAILURE"}

Local(k) == Formed(k) /\ Living(k) /\ Waking(k) /\ k.out = <<>>

Turns == {"KEY_EXCHANGE", "KEY_EXCHANGE_1", "KEY_EXCHANGE_2", "SUCCESS"}

NoTurn(q) == \A n \in DOMAIN q : q[n].t \notin Turns
OneTurn(q) == \A m, n \in DOMAIN q : q[m].t \in Turns /\ q[n].t \in Turns => m = n
Busy(k) ==
    \/ k.st = "i_start"
    \/ k.runs > 0 /\ k.pkt # None /\ k.st \in Reads \cup {"r_start"}

\* Over TCP the first exchange is a conversation in turns.
InTurn ==
    /\ \A e \in Ends : OneTurn(net[e])
    /\ NoTurn(net["i"]) \/ NoTurn(net["r"])
    /\ \A e \in Ends : Busy(end[e]) =>
          NoTurn(net["i"]) /\ NoTurn(net["r"]) /\ ~Busy(end[Peer(e)])

NoRekey(q) == \A n \in DOMAIN q : q[n].t # "REKEY"
OnlyData(q) == \A n \in DOMAIN q : q[n].t = "DATA"

\* A re-key is begun by the initiator, when the other end is at rest.
Rekeys ==
    /\ NoRekey(net["i"])
    /\ ~end["i"].rekeying => NoRekey(net["r"])
    /\ end["r"].rekeying => end["i"].rekeying
    /\ end["i"].rekeying => /\ ~cfg.udp
                            /\ end["r"].link => end["r"].rekeying
    /\ end["i"].st = "rekey_i_start" =>
          ~end["r"].link /\ OnlyData(net["i"]) /\ OnlyData(net["r"])

Shapes ==
    /\ cfg \in Configs
    /\ DOMAIN end = Ends /\ DOMAIN net = Ends
    /\ \A e \in Ends : end[e].me = e /\ Packets(net[e])

RunInv ==
    /\ Shapes
    /\ \A e \in Ends : Local(end[e])
    /\ ~cfg.udp /\ ~end["i"].rekeying => InTurn
    /\ Rekeys

-----------------------------------------------------------------------------
(***************************************************************************)
(* What the operators on an end do to its fields.                          *)
(***************************************************************************)

\* l is k but for the fields fs.
Keeps(k, l, fs) == DOMAIN l = Fields /\ \A f \in Fields \ fs : l[f] = k[f]

LEMMA SendFields ==
    ASSUME NEW k, DOMAIN k = Fields, NEW type, NEW body
    PROVE  LET l == Send(k, type, body)
               p == [t |-> type, key |-> k.send, body |-> body]
           IN  /\ Keeps(k, l, {"out", "retrans", "retry"})
               /\ l.out = Append(k.out, p)
               /\ \/ l.retry = k.retry /\ l.retrans = k.retrans
                  \/ cfg.udp /\ l.retry /\ l.retrans = p /\ type \notin {"REKEY", "FAILURE"}
  BY DEF Send, Keeps, Fields

LEMMA FinishFields ==
    ASSUME NEW k, DOMAIN k = Fields, k.aborted \in BOOLEAN, k.rekeying \in BOOLEAN
    PROVE  LET l == Finish(k)
               ok == ~k.aborted /\ k.status = "OK"
           IN  /\ Keeps(k, l, {"link", "timer", "retry", "st", "runs", "fin", "done",
                               "refcnt", "held", "send", "recv", "hist"})
               /\ ~l.link /\ ~l.timer /\ ~l.retry /\ l.fin
               /\ l.link \in BOOLEAN /\ l.timer \in BOOLEAN /\ l.retry \in BOOLEAN /\ l.fin \in BOOLEAN
               /\ l.st = "none" /\ l.runs = 0
               /\ l.refcnt = IF k.aborted \/ k.rekeying \/ k.status = "OK"
                             THEN k.refcnt ELSE k.refcnt - 1
               /\ l.held = IF ok /\ ~k.rekeying THEN TRUE ELSE k.held
               /\ l.hist = IF ok THEN Append(k.hist, k.keymat) ELSE k.hist
               /\ l.done = "ok" <=> ok
               /\ ok /\ ~k.rekeying => /\ l.send = Key(k.keymat, k.me)
                                      /\ l.recv = Key(k.keymat, Peer(k.me))
               /\ k.rekeying => l.send = k.send /\ l.recv = k.recv
  BY DEF Finish, Completion, ServerCompleted, Keeps, Fields

\* None stands for the absence of a packet, of a signature and of a material to
\* re-key from.
NoneIsNoRecord ==
    /\ \A t, key, body : [t |-> t, key |-> key, body |-> body] # None
    /\ \A by, of : [by |-> by, of |-> of] # None
    /\ \A pfs, of : [pfs |-> pfs, of |-> of] # None

\* The fields the states of the machine work on.
Work == {"st", "timer", "retry", "retrans", "pkt", "status", "start", "prop",
         "ke1", "ke2", "KEY", "keymat", "send", "recv", "rekey", "out"}

\* What the machine may send in state k.st.
Sendable(k) ==
    IF k.st = "rekey_i_start" THEN Types \ {"DATA"} ELSE Types \ {"DATA", "REKEY"}

OutOk(k, q, n) ==
    /\ IsSeq(q) /\ Len(q) <= n
    /\ \A j \in DOMAIN q : q[j] # None /\ q[j].t \in Sendable(k)

ResendOk(k) ==
    /\ k.retry => cfg.udp /\ k.retrans # None
    /\ k.retrans # None => k.retrans.t \notin {"REKEY", "FAILURE"}

\* x is k in the middle of a step that has sent at most n packets.
Near(k, x, n) ==
    /\ Keeps(k, x, Work)
    /\ x.timer \in BOOLEAN /\ x.retry \in BOOLEAN
    /\ x.pkt = None \/ x.pkt = k.pkt
    /\ ResendOk(x)
    /\ OutOk(k, x.out, n)

\* l has the key materials of k, or one more.
Grows(k, l) == l.hist = k.hist \/ \E m : l.hist = Append(k.hist, m)

\* l is k after the exchange has ended.
Over(k, l) ==
    /\ Formed(l) /\ Grows(k, l)
    /\ ~l.link /\ ~l.timer /\ ~l.retry /\ l.fin /\ l.st = "none" /\ l.runs = 0
    /\ l.me = k.me /\ l.null = k.null /\ l.rekeying = k.rekeying
    /\ k.rekeying => l.refcnt = k.refcnt
    /\ ~k.rekeying => \/ l.refcnt = k.refcnt
                      \/ l.refcnt = k.refcnt - 1 /\ l.held = k.held
    /\ ResendOk(l)

Moves(k, l, n) ==
    /\ OutOk(k, l.out, n)
    /\ Over(k, l) \/ (Near(k, l, n) /\ l.st \in Reads)

LEMMA NoPackets == IsSeq(<<>>) /\ Len(<<>>) = 0 /\ DOMAIN <<>> = {}
  BY DEF IsSeq

LEMMA SeqIsSeq ==
    ASSUME NEW S, NEW q \in Seq(S)
    PROVE  IsSeq(q)
  <1> DEFINE T == {q[n] : n \in DOMAIN q}
  <1>1. Len(q) \in Nat /\ q \in [1..Len(q) -> S]
    BY LenProperties
  <1>2. q \in [1..Len(q) -> T]
    BY <1>1
  <1> HIDE DEF T
  <1>3. q \in Seq(T)
    <2>1. Seq(T) = UNION {[1..n -> T] : n \in Nat}
      BY SeqDef
    <2> QED
      BY <1>1, <1>2, <2>1
  <1> QED
    BY <1>3 DEF IsSeq, T

LEMMA SeqDomain ==
    ASSUME NEW q, IsSeq(q)
    PROVE  Len(q) \in Nat /\ DOMAIN q = 1..Len(q)
  BY DEF IsSeq

LEMMA AppendSeq ==
    ASSUME NEW q, IsSeq(q), NEW p
    PROVE  /\ IsSeq(Append(q, p)) /\ Len(Append(q, p)) = Len(q) + 1
           /\ \A j \in DOMAIN Append(q, p) :
                 (j \in DOMAIN q /\ Append(q, p)[j] = q[j]) \/ Append(q, p)[j] = p
  <1> DEFINE S == {q[n] : n \in DOMAIN q} \cup {p}
             r == Append(q, p)
  <1>1. q \in Seq(S) /\ p \in S
    <2>1. q \in Seq({q[n] : n \in DOMAIN q})
      BY DEF IsSeq
    <2> QED
      BY <2>1
  <1> HIDE DEF S
  <1>2. /\ r \in Seq(S) /\ Len(r) = Len(q) + 1
        /\ \A j \in 1..Len(q) : r[j] = q[j]
        /\ r[Len(q) + 1] = p
    BY <1>1
  <1>3. Len(q) \in Nat /\ DOMAIN q = 1..Len(q) /\ DOMAIN r = 1..(Len(q) + 1)
    BY <1>1, <1>2
  <1>4. \A j \in DOMAIN r : (j \in DOMAIN q /\ r[j] = q[j]) \/ r[j] = p
    BY <1>2, <1>3
  <1>5. IsSeq(r)
    BY <1>2, SeqIsSeq
  <1> QED
    BY <1>2, <1>4, <1>5

LEMMA OutAppend ==
    ASSUME NEW k, NEW q, NEW n \in Nat, OutOk(k, q, n), NEW p, p # None,
           p.t \in Sendable(k)
    PROVE  OutOk(k, Append(q, p), n + 1)
  BY AppendSeq, SeqDomain DEF OutOk

LEMMA NearSend ==
    ASSUME NoneIsNoRecord, NEW k, NEW x, NEW n \in Nat, Near(k, x, n), NEW body,
           NEW type \in Sendable(k)
    PROVE  Near(k, Send(x, type, body), n + 1) /\ Send(x, type, body).st = x.st
               /\ Send(x, type, body).pkt = x.pkt
  <1> DEFINE l == Send(x, type, body)
             p == [t |-> type, key |-> x.send, body |-> body]
  <1>1. /\ Keeps(x, l, {"out", "retrans", "retry"})
        /\ l.out = Append(x.out, p)
        /\ \/ l.retry = x.retry /\ l.retrans = x.retrans
           \/ cfg.udp /\ l.retry /\ l.retrans = p /\ type \notin {"REKEY", "FAILURE"}
    BY SendFields DEF Near, Keeps
  <1>2. OutOk(k, l.out, n + 1)
    <2>1. p # None /\ p.t \in Sendable(k)
      BY DEF NoneIsNoRecord
    <2> QED
      BY <1>1, <2>1, OutAppend DEF Near
  <1>3. p # None /\ p.t = type
    BY DEF NoneIsNoRecord
  <1> HIDE DEF l, p
  <1>4. l.retry \in BOOLEAN /\ l.timer \in BOOLEAN /\ ResendOk(l)
    BY <1>1, <1>3 DEF Near, Keeps, ResendOk, Fields
  <1>5. Keeps(k, l, Work) /\ l.pkt = x.pkt /\ l.st = x.st
    BY <1>1 DEF Near, Keeps, Fields, Work
  <1>6. Near(k, l, n + 1)
    BY <1>2, <1>4, <1>5 DEF Near
  <1> QED
    BY <1>5, <1>6 DEF l

LEMMA NearFinish ==
    ASSUME NEW k, Formed(k), NEW x, NEW n, Near(k, x, n)
    PROVE  Moves(k, Finish(x), n)
  <1> DEFINE l == Finish(x)
             ok == ~x.aborted /\ x.status = "OK"
  <1>1. /\ DOMAIN x = Fields /\ x.aborted \in BOOLEAN /\ x.rekeying = k.rekeying
        /\ x.rekeying \in BOOLEAN /\ x.held = k.held /\ x.refcnt = k.refcnt /\ x.me = k.me
        /\ x.null = k.null /\ x.notified = k.notified /\ x.aborted = k.aborted
    BY DEF Near, Keeps, Formed, Fields, Work
  <1>2. /\ Keeps(x, l, {"link", "timer", "retry", "st", "runs", "fin", "done",
                        "refcnt", "held", "send", "recv", "hist"})
        /\ ~l.link /\ ~l.timer /\ ~l.retry /\ l.fin
        /\ l.link \in BOOLEAN /\ l.timer \in BOOLEAN /\ l.retry \in BOOLEAN /\ l.fin \in BOOLEAN
        /\ l.st = "none" /\ l.runs = 0
        /\ l.refcnt = IF x.aborted \/ x.rekeying \/ x.status = "OK"
                      THEN x.refcnt ELSE x.refcnt - 1
        /\ l.held = IF ok /\ ~x.rekeying THEN TRUE ELSE x.held
    BY <1>1, FinishFields
  <1> HIDE DEF l
  <1>3. /\ l.me = k.me /\ l.null = k.null /\ l.rekeying = k.rekeying /\ l.notified = k.notified
        /\ l.aborted = k.aborted /\ l.out = x.out /\ l.retrans = x.retrans /\ DOMAIN l = Fields
    BY <1>1, <1>2 DEF Keeps, Fields
  <1>4. Formed(l)
    <2>1. l.held \in BOOLEAN
      BY <1>1, <1>2 DEF Formed
    <2>2. l.refcnt \in Int
      BY <1>1, <1>2 DEF Formed
    <2>3. k.null \in BOOLEAN /\ k.notified \in BOOLEAN /\ k.aborted \in BOOLEAN /\ k.rekeying \in BOOLEAN
      BY DEF Formed
    <2>4. l.runs \in Nat /\ l.st \in States
      BY <1>2 DEF States
    <2> QED
      BY <1>2, <1>3, <2>1, <2>2, <2>3, <2>4, Zenon DEF Formed
  <1>5. ResendOk(l)
    BY <1>2, <1>3 DEF Near, ResendOk
  <1>6. /\ k.rekeying => l.refcnt = k.refcnt
        /\ ~k.rekeying => \/ l.refcnt = k.refcnt
                          \/ l.refcnt = k.refcnt - 1 /\ l.held = k.held
    BY <1>1, <1>2
  <1>7. Grows(k, l)
    <2>1. x.hist = k.hist
      BY DEF Near, Keeps, Fields, Work
    <2>2. l.hist = IF ok THEN Append(x.hist, x.keymat) ELSE x.hist
      BY <1>1, FinishFields DEF l
    <2> QED
      BY <2>1, <2>2 DEF Grows
  <1>8. Over(k, l)
    BY <1>2, <1>3, <1>4, <1>5, <1>6, <1>7 DEF Over
  <1> QED
    BY <1>3, <1>8 DEF Moves, Near, l

LEMMA NearSet ==
    ASSUME NEW k, NEW x, NEW n, Near(k, x, n), NEW y,
           Keeps(x, y, Work \ {"retry", "retrans", "out"}),
           y.timer \in BOOLEAN, y.pkt = None \/ y.pkt = x.pkt
    PROVE  Near(k, y, n)
  <1>1. y.retry = x.retry /\ y.retrans = x.retrans /\ y.out = x.out
    BY DEF Keeps, Fields, Work
  <1>2. Keeps(k, y, Work)
    BY DEF Keeps, Near, Work
  <1> QED
    BY <1>1, <1>2 DEF Near, ResendOk

LEMMA OutMore ==
    ASSUME NEW k, NEW q, NEW m \in Nat, NEW n \in Nat, m <= n, OutOk(k, q, m)
    PROVE  OutOk(k, q, n)
  <1>1. Len(q) \in Nat
    BY SeqDomain DEF OutOk
  <1> QED
    BY <1>1 DEF OutOk

LEMMA MovesMore ==
    ASSUME NEW k, NEW l, NEW m \in Nat, NEW n \in Nat, m <= n, Moves(k, l, m)
    PROVE  Moves(k, l, n)
  BY OutMore DEF Moves, Near

LEMMA FailureSent ==
    ASSUME NEW k
    PROVE  Types \ {"DATA", "REKEY"} \subseteq Sendable(k) /\ "FAILURE" \in Sendable(k)
  BY DEF Sendable, Types

\* The ways out that tell the other end.
LEMMA ErrorMoves ==
    ASSUME NoneIsNoRecord, NEW k, Formed(k), NEW x, NEW n \in Nat, Near(k, x, n)
    PROVE  /\ Moves(k, Aborted(x), n + 1)
           /\ Moves(k, InitiatorError(x), n + 1)
           /\ Moves(k, ResponderError(x), n + 1)
  <1>1. ASSUME NEW y, Near(k, y, n), NEW body
        PROVE  Moves(k, Finish(Send(y, "FAILURE", body)), n + 1)
    BY <1>1, NearSend, NearFinish, FailureSent
  <1>2. ASSUME NEW s PROVE Near(k, [x EXCEPT !.status = s], n)
    <2> DEFINE y == [x EXCEPT !.status = s]
    <2>1. /\ Keeps(x, y, Work \ {"retry", "retrans", "out"})
          /\ y.timer = x.timer /\ y.pkt = x.pkt
      BY DEF Near, Keeps, Fields, Work
    <2>2. y.timer \in BOOLEAN
      BY <2>1 DEF Near
    <2> QED
      BY <2>1, <2>2, NearSet
  <1> QED
    BY <1>1, <1>2 DEF Aborted, InitiatorError, ResponderError

LEMMA OldPacketMoves ==
    ASSUME NEW k, Formed(k), NEW x, NEW n \in Nat, Near(k, x, n), x.st \in Reads
    PROVE  Moves(k, OldPacket(x), n)
  <1> DEFINE l == OldPacket(x)
  <1>1. /\ Keeps(x, l, {"pkt", "retry"}) /\ l.pkt = None
        /\ l.retry = (~x.rekeying /\ cfg.udp /\ x.retrans # None)
    BY DEF OldPacket, Near, Keeps, Fields
  <1> HIDE DEF l
  <1>2. Keeps(k, l, Work)
    BY <1>1 DEF Keeps, Near, Fields, Work
  <1>3. l.retrans = x.retrans /\ l.out = x.out /\ l.timer = x.timer /\ l.st = x.st
    BY <1>1 DEF Keeps, Fields
  <1>4. l.retry \in BOOLEAN /\ (l.retry => cfg.udp /\ x.retrans # None)
    BY <1>1
  <1>5. Near(k, l, n)
    BY <1>1, <1>2, <1>3, <1>4 DEF Near, ResendOk
  <1> QED
    BY <1>3, <1>5 DEF Moves, Near, l

\* A re-key's REKEY_DONE.
LEMMA RekeyDoneMoves ==
    ASSUME NoneIsNoRecord, NEW k, Formed(k), NEW x, NEW n \in Nat, Near(k, x, n)
    PROVE  Moves(k, RekeyDone(x), n + 1)
  <1> DEFINE l == RekeyDone(x)
             p == [t |-> "REKEY_DONE", key |-> x.send, body |-> None]
  <1>1. Keeps(x, l, {"out", "keymat", "send", "st"}) /\ l.out = Append(x.out, p) /\ l.st = "rekey_end"
    BY DEF RekeyDone, Near, Keeps, Fields
  <1>2. OutOk(k, Append(x.out, p), n + 1)
    <2>1. p # None /\ p.t \in Sendable(k)
      BY DEF Sendable, Types, NoneIsNoRecord
    <2> QED
      BY <2>1, OutAppend DEF Near
  <1> HIDE DEF l, p
  <1>3. Keeps(k, l, Work) /\ l.timer = x.timer /\ l.retry = x.retry /\ l.retrans = x.retrans /\ l.pkt = x.pkt
    BY <1>1 DEF Near, Keeps, Fields, Work
  <1>4. Near(k, l, n + 1)
    BY <1>1, <1>2, <1>3 DEF Near, ResendOk
  <1> QED
    BY <1>1, <1>2, <1>4 DEF Moves, Reads, l

LEMMA NearMoves ==
    ASSUME NEW k, NEW y, NEW n, Near(k, y, n), y.st \in Reads
    PROVE  Moves(k, y, n)
  BY DEF Moves, Near

\* A packet is sent, and the machine waits for the answer.
LEMMA SendMoves ==
    ASSUME NoneIsNoRecord, NEW k, NEW x, NEW n \in Nat, Near(k, x, n), NEW body,
           NEW type \in Types \ {"DATA", "REKEY"}, NEW st \in Reads
    PROVE  /\ Moves(k, [Send(x, type, body) EXCEPT !.st = st], n + 1)
           /\ Moves(k, [Send(x, type, body) EXCEPT !.timer = TRUE, !.st = st], n + 1)
  <1> DEFINE l == Send(x, type, body)
  <1>1. Near(k, l, n + 1)
    BY NearSend, FailureSent
  <1> HIDE DEF l
  <1>2. Near(k, [l EXCEPT !.st = st], n + 1) /\ [l EXCEPT !.st = st].st = st
    <2> DEFINE y == [l EXCEPT !.st = st]
    <2>1. /\ Keeps(l, y, Work \ {"retry", "retrans", "out"})
          /\ y.timer = l.timer /\ y.pkt = l.pkt /\ y.st = st
      BY <1>1 DEF Near, Keeps, Fields, Work
    <2>2. y.timer \in BOOLEAN
      BY <1>1, <2>1 DEF Near
    <2> QED
      BY <1>1, <2>1, <2>2, NearSet
  <1>3. /\ Near(k, [l EXCEPT !.timer = TRUE, !.st = st], n + 1)
        /\ [l EXCEPT !.timer = TRUE, !.st = st].st = st
    <2> DEFINE y == [l EXCEPT !.timer = TRUE, !.st = st]
    <2>1. /\ Keeps(l, y, Work \ {"retry", "retrans", "out"})
          /\ y.timer = TRUE /\ y.pkt = l.pkt /\ y.st = st
      BY <1>1 DEF Near, Keeps, Fields, Work
    <2> QED
      BY <1>1, <2>1, NearSet
  <1> QED
    BY <1>2, <1>3, NearMoves DEF l

LEMMA InitiatorStartMoves ==
    ASSUME NoneIsNoRecord, NEW k, Formed(k), NEW x, NEW n \in Nat, Near(k, x, n)
    PROVE  Moves(k, InitiatorStart(x), n + 1)
  <1>1. ASSUME NEW p PROVE Near(k, [x EXCEPT !.start = p], n)
    <2> DEFINE y == [x EXCEPT !.start = p]
    <2>1. /\ Keeps(x, y, Work \ {"retry", "retrans", "out"})
          /\ y.timer = x.timer /\ y.pkt = x.pkt
      BY DEF Near, Keeps, Fields, Work
    <2>2. y.timer \in BOOLEAN
      BY <2>1 DEF Near
    <2> QED
      BY <2>1, <2>2, NearSet
  <1>2. "KEY_EXCHANGE" \in Types \ {"DATA", "REKEY"} /\ "i_phase1" \in Reads
    BY DEF Types, Reads
  <1> QED
    BY <1>1, <1>2, SendMoves, ErrorMoves DEF InitiatorStart

LEMMA InitiatorPhase2Moves ==
    ASSUME NoneIsNoRecord, NEW k, Formed(k), NEW x, NEW n \in Nat, Near(k, x, n)
    PROVE  Moves(k, InitiatorPhase2(x), n + 1)
  <1>1. ASSUME NEW v
        PROVE  Near(k, [x EXCEPT !.ke1 = v], n) /\ Near(k, [x EXCEPT !.status = v], n)
    <2> DEFINE y == [x EXCEPT !.ke1 = v]
               z == [x EXCEPT !.status = v]
    <2>1. /\ Keeps(x, y, Work \ {"retry", "retrans", "out"})
          /\ y.timer = x.timer /\ y.pkt = x.pkt
      BY DEF Near, Keeps, Fields, Work
    <2>2. /\ Keeps(x, z, Work \ {"retry", "retrans", "out"})
          /\ z.timer = x.timer /\ z.pkt = x.pkt
      BY DEF Near, Keeps, Fields, Work
    <2>3. y.timer \in BOOLEAN /\ z.timer \in BOOLEAN
      BY <2>1, <2>2 DEF Near
    <2> QED
      BY <2>1, <2>2, <2>3, NearSet
  <1>2. "KEY_EXCHANGE_1" \in Types \ {"DATA", "REKEY"} /\ "i_phase3" \in Reads
    BY DEF Types, Reads
  <1> QED
    BY <1>1, <1>2, SendMoves, ErrorMoves DEF InitiatorPhase2

LEMMA InitiatorPhase1Moves ==
    ASSUME NoneIsNoRecord, NEW k, Formed(k), NEW x, NEW n \in Nat, Near(k, x, n),
           x.st \in Reads
    PROVE  Moves(k, InitiatorPhase1(x), n + 1)
  <1> DEFINE got == [x EXCEPT !.pkt = None]
  <1>1. ASSUME NEW v
        PROVE  Near(k, [got EXCEPT !.prop = v], n) /\ Near(k, [got EXCEPT !.status = v], n)
    <2> DEFINE y == [got EXCEPT !.prop = v]
               z == [got EXCEPT !.status = v]
    <2>1. /\ Keeps(x, y, Work \ {"retry", "retrans", "out"})
          /\ y.timer = x.timer /\ y.pkt = None
      BY DEF Near, Keeps, Fields, Work
    <2>2. /\ Keeps(x, z, Work \ {"retry", "retrans", "out"})
          /\ z.timer = x.timer /\ z.pkt = None
      BY DEF Near, Keeps, Fields, Work
    <2>3. y.timer \in BOOLEAN /\ z.timer \in BOOLEAN
      BY <2>1, <2>2 DEF Near
    <2> QED
      BY <2>1, <2>2, <2>3, NearSet
  <1>2. Moves(k, OldPacket(x), n + 1)
    BY OldPacketMoves, MovesMore
  <1> QED
    BY <1>1, <1>2, InitiatorPhase2Moves, ErrorMoves DEF InitiatorPhase1

LEMMA InitiatorPhase4Moves ==
    ASSUME NoneIsNoRecord, NEW k, Formed(k), NEW x, NEW n \in Nat, Near(k, x, n)
    PROVE  Moves(k, InitiatorPhase4(x), n + 1)
  <1>1. Near(k, Keyed(x), n)
    <2> DEFINE y == Keyed(x)
    <2>1. /\ Keeps(x, y, Work \ {"retry", "retrans", "out"})
          /\ y.timer = x.timer /\ y.pkt = x.pkt
      BY DEF Near, Keeps, Fields, Work, Keyed
    <2>2. y.timer \in BOOLEAN
      BY <2>1 DEF Near
    <2> QED
      BY <2>1, <2>2, NearSet
  <1>2. ASSUME NEW v PROVE Near(k, [x EXCEPT !.status = v], n)
    <2> DEFINE y == [x EXCEPT !.status = v]
    <2>1. /\ Keeps(x, y, Work \ {"retry", "retrans", "out"})
          /\ y.timer = x.timer /\ y.pkt = x.pkt
      BY DEF Near, Keeps, Fields, Work
    <2>2. y.timer \in BOOLEAN
      BY <2>1 DEF Near
    <2> QED
      BY <2>1, <2>2, NearSet
  <1>3. "SUCCESS" \in Types \ {"DATA", "REKEY"} /\ "i_end" \in Reads
    BY DEF Types, Reads
  <1>4. Moves(k, [Send(Keyed(x), "SUCCESS", Code("OK")) EXCEPT !.st = "i_end"], n + 1)
    BY <1>1, <1>3, SendMoves
  <1>5. /\ Moves(k, Aborted(x), n + 1) /\ Moves(k, InitiatorError(x), n + 1)
        /\ Moves(k, RekeyDone(x), n + 1)
        /\ Moves(k, InitiatorError([x EXCEPT !.status = "INCORRECT_SIGNATURE"]), n + 1)
    BY <1>2, ErrorMoves, RekeyDoneMoves
  <1>6. x.aborted \in BOOLEAN /\ x.rekeying \in BOOLEAN
    BY DEF Near, Keeps, Formed, Fields, Work
  <1> QED
    BY <1>4, <1>5, <1>6 DEF InitiatorPhase4

LEMMA InitiatorPhase3Moves ==
    ASSUME NoneIsNoRecord, NEW k, Formed(k), NEW x, NEW n \in Nat, Near(k, x, n),
           x.st \in Reads
    PROVE  Moves(k, InitiatorPhase3(x), n + 1)
  <1> DEFINE y == [x EXCEPT !.pkt = None, !.ke2 = x.pkt.body,
                            !.KEY = {x.ke1.x, x.pkt.body.x},
                            !.status = IF x.rekeying \/ cfg.accepts["i"] THEN @
                                       ELSE "UNSUPPORTED_PUBLIC_KEY"]
  <1>1. Keeps(x, y, Work \ {"retry", "retrans", "out"}) /\ y.timer = x.timer /\ y.pkt = None
    BY DEF Near, Keeps, Fields, Work
  <1>2. Near(k, y, n)
    <2>1. y.timer \in BOOLEAN
      BY <1>1 DEF Near
    <2> QED
      BY <1>1, <2>1, NearSet
  <1>3. InitiatorPhase3(x) = IF x.pkt.t # "KEY_EXCHANGE_2" THEN OldPacket(x) ELSE InitiatorPhase4(y)
    BY DEF InitiatorPhase3
  <1> HIDE DEF y
  <1>4. Moves(k, OldPacket(x), n + 1) /\ Moves(k, InitiatorPhase4(y), n + 1)
    BY <1>2, OldPacketMoves, MovesMore, InitiatorPhase4Moves
  <1> QED
    BY <1>3, <1>4

LEMMA EndMoves ==
    ASSUME NoneIsNoRecord, NEW k, Formed(k), NEW x, NEW n \in Nat, Near(k, x, n),
           x.st \in Reads
    PROVE  Moves(k, InitiatorEnd(x), n) /\ Moves(k, RekeyEnd(x), n)
  <1>1. Near(k, [x EXCEPT !.pkt = None], n)
    <2> DEFINE y == [x EXCEPT !.pkt = None]
    <2>1. /\ Keeps(x, y, Work \ {"retry", "retrans", "out"})
          /\ y.timer = x.timer /\ y.pkt = None
      BY DEF Near, Keeps, Fields, Work
    <2>2. y.timer \in BOOLEAN
      BY <2>1 DEF Near
    <2> QED
      BY <2>1, <2>2, NearSet
  <1>2. Moves(k, OldPacket(x), n)
    BY OldPacketMoves
  <1>3. Moves(k, Finish([x EXCEPT !.pkt = None]), n)
    BY <1>1, NearFinish
  <1>4. Moves(k, InitiatorEnd(x), n)
    BY <1>2, <1>3 DEF InitiatorEnd
  <1> DEFINE z == [x EXCEPT !.recv = Key(x.keymat, Peer(x.me)),
                            !.rekey = [pfs |-> x.rekey.pfs, of |-> x.keymat], !.pkt = None]
  <1>5. Near(k, z, n)
    <2>1. /\ Keeps(x, z, Work \ {"retry", "retrans", "out"})
          /\ z.timer = x.timer /\ z.pkt = None
      BY DEF Near, Keeps, Fields, Work
    <2>2. z.timer \in BOOLEAN
      BY <2>1 DEF Near
    <2> QED
      BY <2>1, <2>2, NearSet
  <1>6. Moves(k, Finish(z), n)
    BY <1>5, NearFinish
  <1>7. RekeyEnd(x) = IF x.pkt.t # "REKEY_DONE" THEN OldPacket(x) ELSE Finish(z)
    BY DEF RekeyEnd
  <1> QED
    BY <1>2, <1>4, <1>6, <1>7

LEMMA RekeyInitiatorStartMoves ==
    ASSUME NoneIsNoRecord, NEW k, Formed(k), NEW x, NEW n \in Nat, Near(k, x, n),
           k.st = "rekey_i_start"
    PROVE  Moves(k, RekeyInitiatorStart(x), n + 2)
  <1> DEFINE y == [x EXCEPT !.timer = TRUE]
             z == Send(y, "REKEY", None)
  <1>1. Near(k, y, n)
    <2>1. /\ Keeps(x, y, Work \ {"retry", "retrans", "out"})
          /\ y.timer = TRUE /\ y.pkt = x.pkt
      BY DEF Near, Keeps, Fields, Work
    <2> QED
      BY <2>1, NearSet
  <1>2. "REKEY" \in Sendable(k)
    BY DEF Sendable, Types
  <1>3. Near(k, z, n + 1)
    BY <1>1, <1>2, NearSend
  <1>4. RekeyInitiatorStart(x) = IF x.aborted THEN Aborted(x)
                                 ELSE IF x.rekey.pfs THEN InitiatorPhase2(z) ELSE RekeyDone(z)
    BY DEF RekeyInitiatorStart
  <1> HIDE DEF z
  <1>5. Moves(k, InitiatorPhase2(z), (n + 1) + 1) /\ Moves(k, RekeyDone(z), (n + 1) + 1)
    BY <1>3, InitiatorPhase2Moves, RekeyDoneMoves
  <1>6. Moves(k, Aborted(x), n + 2)
    BY ErrorMoves, MovesMore
  <1>7. (n + 1) + 1 = n + 2
    OBVIOUS
  <1> QED
    BY <1>4, <1>5, <1>6, <1>7

LEMMA ResponderStartMoves ==
    ASSUME NoneIsNoRecord, NEW k, Formed(k), NEW x, NEW n \in Nat, Near(k, x, n)
    PROVE  /\ Moves(k, ResponderStart(x), n + 1)
           /\ ~x.aborted => ResponderStart(x).pkt = x.pkt /\ ResponderStart(x).out = x.out
                            /\ ResponderStart(x).st = "r_phase1"
  <1> DEFINE y == [x EXCEPT !.timer = TRUE, !.st = "r_phase1"]
  <1>1. /\ Keeps(x, y, Work \ {"retry", "retrans", "out"})
        /\ y.timer = TRUE /\ y.pkt = x.pkt /\ y.out = x.out /\ y.st = "r_phase1"
    BY DEF Near, Keeps, Fields, Work
  <1>2. Near(k, y, n)
    BY <1>1, NearSet
  <1>3. Moves(k, y, n + 1)
    <2>1. y.st \in Reads
      BY <1>1 DEF Reads
    <2>2. Moves(k, y, n)
      BY <1>2, <2>1, NearMoves
    <2> QED
      BY <2>2, MovesMore
  <1>4. Moves(k, Aborted(x), n + 1)
    BY ErrorMoves
  <1>5. ResponderStart(x) = IF x.aborted THEN Aborted(x) ELSE y
    BY DEF ResponderStart
  <1> HIDE DEF y
  <1> QED
    BY <1>1, <1>3, <1>4, <1>5

LEMMA ResponderPhase1Moves ==
    ASSUME NoneIsNoRecord, NEW k, Formed(k), NEW x, NEW n \in Nat, Near(k, x, n),
           x.st \in Reads
    PROVE  Moves(k, ResponderPhase1(x), n + 1)
  <1> DEFINE got == [x EXCEPT !.pkt = None]
  <1>1. ASSUME NEW u, NEW v
        PROVE  /\ Near(k, [got EXCEPT !.status = u], n)
               /\ Near(k, [got EXCEPT !.start = u, !.status = v], n)
               /\ Near(k, [got EXCEPT !.start = u, !.prop = v], n)
    <2> DEFINE y == [got EXCEPT !.status = u]
               z == [got EXCEPT !.start = u, !.status = v]
               w == [got EXCEPT !.start = u, !.prop = v]
    <2>1. /\ Keeps(x, y, Work \ {"retry", "retrans", "out"})
          /\ y.timer = x.timer /\ y.pkt = None
      BY DEF Near, Keeps, Fields, Work
    <2>2. /\ Keeps(x, z, Work \ {"retry", "retrans", "out"})
          /\ z.timer = x.timer /\ z.pkt = None
      BY DEF Near, Keeps, Fields, Work
    <2>3. /\ Keeps(x, w, Work \ {"retry", "retrans", "out"})
          /\ w.timer = x.timer /\ w.pkt = None
      BY DEF Near, Keeps, Fields, Work
    <2>4. y.timer \in BOOLEAN /\ z.timer \in BOOLEAN /\ w.timer \in BOOLEAN
      BY <2>1, <2>2, <2>3 DEF Near
    <2> QED
      BY <2>1, <2>2, <2>3, <2>4, NearSet
  <1> HIDE DEF got
  <1>2. "KEY_EXCHANGE" \in Types \ {"DATA", "REKEY"} /\ "r_phase2" \in Reads
    BY DEF Types, Reads
  <1> DEFINE p == x.pkt
             prop == [flags |-> Forced(p.body.flags), alg |-> [c \in ClassNames |-> SelectOf(c)]]
             a == ResponderError([got EXCEPT !.status = "BAD_PAYLOAD"])
             b == ResponderError([got EXCEPT !.start = p.body, !.status = SelectStatus])
             c == [Send([got EXCEPT !.start = p.body, !.prop = prop], "KEY_EXCHANGE", prop)
                     EXCEPT !.st = "r_phase2"]
  <1>3. Moves(k, a, n + 1) /\ Moves(k, b, n + 1)
    BY <1>1, ErrorMoves
  <1>4. Moves(k, c, n + 1)
    BY <1>1, <1>2, SendMoves
  <1>5. ResponderPhase1(x) = CASE p.t # "KEY_EXCHANGE" -> a
                               [] p.t = "KEY_EXCHANGE" /\ SelectStatus # "OK" -> b
                               [] OTHER -> c
    BY DEF ResponderPhase1, got
  <1> HIDE DEF a, b, c, p
  <1> QED
    BY <1>3, <1>4, <1>5

\* A re-key sends REKEY_DONE after the KE payload.
LEMMA ResponderPhase5Moves ==
    ASSUME NoneIsNoRecord, NEW k, Formed(k), NEW x, NEW n \in Nat, Near(k, x, n)
    PROVE  Moves(k, ResponderPhase5(x), n + IF k.rekeying THEN 2 ELSE 1)
  <1> DEFINE sign == Sign("r", Hash(x))
             ke == [x |-> x.ke2.x, sign |-> IF x.rekeying THEN None ELSE sign]
             y == [x EXCEPT !.ke2 = ke]
             sent == Send(y, "KEY_EXCHANGE_2", ke)
  <1>0. x.rekeying = k.rekeying /\ k.rekeying \in BOOLEAN
    BY DEF Near, Keeps, Formed, Fields, Work
  <1>1. Near(k, y, n)
    <2>1. /\ Keeps(x, y, Work \ {"retry", "retrans", "out"})
          /\ y.timer = x.timer /\ y.pkt = x.pkt
      BY DEF Near, Keeps, Fields, Work
    <2>2. y.timer \in BOOLEAN
      BY <2>1 DEF Near
    <2> QED
      BY <2>1, <2>2, NearSet
  <1>2. "KEY_EXCHANGE_2" \in Types \ {"DATA", "REKEY"} /\ "r_end" \in Reads
    BY DEF Types, Reads
  <1>3. ResponderPhase5(x) = CASE ~x.rekeying /\ sign = None -> ResponderError(x)
                               [] x.rekeying -> RekeyDone(sent)
                               [] OTHER -> [sent EXCEPT !.st = "r_end"]
    BY DEF ResponderPhase5
  <1> HIDE DEF y, ke, sign
  <1>4. Near(k, sent, n + 1)
    BY <1>1, <1>2, NearSend, FailureSent
  <1>5. Moves(k, [sent EXCEPT !.st = "r_end"], n + 1)
    BY <1>1, <1>2, SendMoves
  <1> HIDE DEF sent
  <1>6. Moves(k, RekeyDone(sent), (n + 1) + 1)
    BY <1>4, RekeyDoneMoves
  <1>7. Moves(k, ResponderError(x), n + 1)
    BY ErrorMoves
  <1>8. CASE k.rekeying
    <2>1. ResponderPhase5(x) = RekeyDone(sent) /\ (n + 1) + 1 = n + 2
      BY <1>0, <1>3, <1>8
    <2> QED
      BY <1>6, <1>8, <2>1
  <1>9. CASE ~k.rekeying
    BY <1>0, <1>3, <1>5, <1>7, <1>9
  <1> QED
    BY <1>0, <1>8, <1>9

LEMMA ResponderPhase4Moves ==
    ASSUME NoneIsNoRecord, NEW k, Formed(k), NEW x, NEW n \in Nat, Near(k, x, n)
    PROVE  Moves(k, ResponderPhase4(x), n + IF k.rekeying THEN 2 ELSE 1)
  <1> DEFINE m == n + IF k.rekeying THEN 2 ELSE 1
             xr == <<"r", x.round>>
             y == [x EXCEPT !.ke2 = [x |-> xr, sign |-> None], !.KEY = {x.ke1.x, xr}]
             z == [x EXCEPT !.status = "INCORRECT_SIGNATURE"]
  <1>1. Near(k, y, n) /\ Near(k, z, n)
    <2>1. /\ Keeps(x, y, Work \ {"retry", "retrans", "out"})
          /\ y.timer = x.timer /\ y.pkt = x.pkt
      BY DEF Near, Keeps, Fields, Work
    <2>2. /\ Keeps(x, z, Work \ {"retry", "retrans", "out"})
          /\ z.timer = x.timer /\ z.pkt = x.pkt
      BY DEF Near, Keeps, Fields, Work
    <2>3. y.timer \in BOOLEAN /\ z.timer \in BOOLEAN
      BY <2>1, <2>2 DEF Near
    <2> QED
      BY <2>1, <2>2, <2>3, NearSet
  <1>2. \/ ResponderPhase4(x) = Aborted(x)
        \/ ResponderPhase4(x) = InitiatorError(x)
        \/ ResponderPhase4(x) = ResponderError(z)
        \/ ResponderPhase4(x) = ResponderPhase5(y)
    BY DEF ResponderPhase4
  <1> HIDE DEF y, z
  <1>3. m \in Nat /\ n + 1 <= m /\ n + 1 \in Nat
    OBVIOUS
  <1>4. Moves(k, ResponderPhase5(y), m)
    BY <1>1, ResponderPhase5Moves
  <1>5. /\ Moves(k, Aborted(x), n + 1) /\ Moves(k, InitiatorError(x), n + 1)
        /\ Moves(k, ResponderError(z), n + 1)
    BY <1>1, ErrorMoves
  <1> HIDE DEF m
  <1>6. Moves(k, Aborted(x), m) /\ Moves(k, InitiatorError(x), m) /\ Moves(k, ResponderError(z), m)
    BY <1>3, <1>5, MovesMore
  <1> QED
    BY <1>2, <1>4, <1>6 DEF m

LEMMA ResponderPhase2Moves ==
    ASSUME NoneIsNoRecord, NEW k, Formed(k), NEW x, NEW n \in Nat, Near(k, x, n),
           x.st \in Reads
    PROVE  Moves(k, ResponderPhase2(x), n + IF k.rekeying THEN 2 ELSE 1)
  <1> DEFINE m == n + IF k.rekeying THEN 2 ELSE 1
             y == [x EXCEPT !.pkt = None, !.ke1 = x.pkt.body,
                            !.status = IF x.rekeying \/ cfg.accepts["r"] THEN @
                                       ELSE "UNSUPPORTED_PUBLIC_KEY"]
  <1>1. Keeps(x, y, Work \ {"retry", "retrans", "out"}) /\ y.timer = x.timer /\ y.pkt = None
    BY DEF Near, Keeps, Fields, Work
  <1>2. Near(k, y, n)
    <2>1. y.timer \in BOOLEAN
      BY <1>1 DEF Near
    <2> QED
      BY <1>1, <2>1, NearSet
  <1>3. ResponderPhase2(x) = IF x.pkt.t # "KEY_EXCHANGE_1" THEN OldPacket(x) ELSE ResponderPhase4(y)
    BY DEF ResponderPhase2
  <1> HIDE DEF y
  <1>4. m \in Nat /\ n <= m
    OBVIOUS
  <1>5. Moves(k, ResponderPhase4(y), m)
    BY <1>2, ResponderPhase4Moves
  <1> HIDE DEF m
  <1>6. Moves(k, OldPacket(x), m)
    BY <1>4, OldPacketMoves, MovesMore
  <1> QED
    BY <1>3, <1>5, <1>6 DEF m

LEMMA ResponderEndMoves ==
    ASSUME NoneIsNoRecord, NEW k, Formed(k), NEW x, NEW n \in Nat, Near(k, x, n),
           x.st \in Reads
    PROVE  Moves(k, ResponderEnd(x), n + 1)
  <1> DEFINE y == Keyed([x EXCEPT !.pkt = None])
  <1>1. Near(k, y, n)
    <2>1. /\ Keeps(x, y, Work \ {"retry", "retrans", "out"})
          /\ y.timer = x.timer /\ y.pkt = None
      BY DEF Near, Keeps, Fields, Work, Keyed
    <2>2. y.timer \in BOOLEAN
      BY <2>1 DEF Near
    <2> QED
      BY <2>1, <2>2, NearSet
  <1>2. ResponderEnd(x) = IF x.pkt.t # "SUCCESS" THEN OldPacket(x)
                          ELSE Finish(Send(y, "SUCCESS", Code("OK")))
    BY DEF ResponderEnd
  <1> HIDE DEF y
  <1>3. "SUCCESS" \in Types \ {"DATA", "REKEY"}
    BY DEF Types
  <1>4. Near(k, Send(y, "SUCCESS", Code("OK")), n + 1)
    BY <1>1, <1>3, NearSend, FailureSent
  <1>5. Moves(k, Finish(Send(y, "SUCCESS", Code("OK"))), n + 1)
    BY <1>4, NearFinish
  <1>6. Moves(k, OldPacket(x), n + 1)
    BY OldPacketMoves, MovesMore
  <1> QED
    BY <1>2, <1>5, <1>6

LEMMA RekeyResponderStartMoves ==
    ASSUME NoneIsNoRecord, NEW k, Formed(k), NEW x, NEW n \in Nat, Near(k, x, n)
    PROVE  Moves(k, RekeyResponderStart(x), n + 1)
  <1> DEFINE timed == [x EXCEPT !.timer = TRUE]
             y == [timed EXCEPT !.status = "ERROR", !.pkt = None]
             z == [timed EXCEPT !.st = "r_phase2"]
  <1>1. Near(k, timed, n) /\ Near(k, y, n) /\ Near(k, z, n) /\ z.st \in Reads
    <2>1. /\ Keeps(x, timed, Work \ {"retry", "retrans", "out"})
          /\ timed.timer = TRUE /\ timed.pkt = x.pkt
      BY DEF Near, Keeps, Fields, Work
    <2>2. /\ Keeps(x, y, Work \ {"retry", "retrans", "out"})
          /\ y.timer = TRUE /\ y.pkt = None
      BY DEF Near, Keeps, Fields, Work
    <2>3. /\ Keeps(x, z, Work \ {"retry", "retrans", "out"})
          /\ z.timer = TRUE /\ z.pkt = x.pkt /\ z.st = "r_phase2"
      BY DEF Near, Keeps, Fields, Work
    <2>4. z.st \in Reads
      BY <2>3 DEF Reads
    <2> QED
      BY <2>1, <2>2, <2>3, <2>4, NearSet
  <1>2. \/ RekeyResponderStart(x) = Aborted(x)
        \/ RekeyResponderStart(x) = ResponderError(y)
        \/ RekeyResponderStart(x) = z
        \/ RekeyResponderStart(x) = RekeyDone(timed)
    BY DEF RekeyResponderStart
  <1> HIDE DEF timed, y, z
  <1>3. Moves(k, z, n + 1)
    BY <1>1, NearMoves, MovesMore
  <1>4. /\ Moves(k, Aborted(x), n + 1) /\ Moves(k, ResponderError(y), n + 1)
        /\ Moves(k, RekeyDone(timed), n + 1)
    BY <1>1, ErrorMoves, RekeyDoneMoves
  <1> QED
    BY <1>2, <1>3, <1>4

LEMMA FailureMoves ==
    ASSUME NEW k, Formed(k), NEW x, NEW n \in Nat, Near(k, x, n)
    PROVE  Moves(k, Failure(x), n) /\ Over(k, Failure(x))
  <1>1. ASSUME NEW s, NEW p, p = None \/ p = x.pkt
        PROVE  Near(k, [x EXCEPT !.status = s, !.pkt = p], n)
    <2> DEFINE y == [x EXCEPT !.status = s, !.pkt = p]
    <2>1. /\ Keeps(x, y, Work \ {"retry", "retrans", "out"})
          /\ y.timer = x.timer /\ y.pkt = p
      BY DEF Near, Keeps, Fields, Work
    <2>2. y.timer \in BOOLEAN
      BY <2>1 DEF Near
    <2> QED
      BY <1>1, <2>1, <2>2, NearSet
  <1>2. PICK s, p : (p = None \/ p = x.pkt) /\ Failure(x) = Finish([x EXCEPT !.status = s, !.pkt = p])
    BY DEF Failure
  <1> DEFINE y == [x EXCEPT !.status = s, !.pkt = p]
  <1>3. Near(k, y, n)
    BY <1>1, <1>2
  <1> HIDE DEF y
  <1>4. Moves(k, Finish(y), n)
    BY <1>3, NearFinish
  <1>5. Finish(y).st = "none"
    <2>1. DOMAIN y = Fields /\ y.aborted \in BOOLEAN /\ y.rekeying \in BOOLEAN
      BY <1>3 DEF Near, Keeps, Formed, Fields, Work
    <2> QED
      BY <2>1, FinishFields
  <1>6. Over(k, Finish(y))
    BY <1>4, <1>5 DEF Moves, Reads
  <1> QED
    BY <1>2, <1>4, <1>6 DEF y

\* What a run of the machine may send.
Bound(k) == IF k.rekeying THEN 2 ELSE 1

\* An exchange in which a run finds what it needs.
Runnable(k) ==
    /\ Formed(k) /\ ResendOk(k) /\ k.out = <<>> /\ k.st # "none"
    /\ k.st \in Reads => k.pkt # None
    /\ k.st = "rekey_i_start" => k.rekeying

LEMMA NearSelf ==
    ASSUME NEW k, Formed(k), ResendOk(k), k.out = <<>>
    PROVE  Near(k, k, 0)
  <1>1. OutOk(k, k.out, 0)
    BY NoPackets DEF OutOk
  <1> QED
    BY <1>1 DEF Near, Keeps, Formed

LEMMA RunMoves ==
    ASSUME NoneIsNoRecord, NEW k, Runnable(k)
    PROVE  /\ Moves(k, Run(k), Bound(k))
           /\ k.st = "failure" => Over(k, Run(k)) /\ Run(k).out = <<>>
           /\ k.st = "r_start" => \/ Run(k) = Aborted(k)
                                  \/ /\ Run(k).pkt = k.pkt /\ Run(k).out = <<>>
                                     /\ Run(k).st = "r_phase1"
  <1> DEFINE b == Bound(k)
  <1>0. Formed(k) /\ k.st \in States
    BY DEF Runnable, Formed
  <1>1. b \in Nat /\ 1 <= b /\ 0 <= b /\ 0 + 1 = 1 /\ 0 + 2 = 2
    BY DEF Bound
  <1>2. Near(k, k, 0)
    BY <1>0, NearSelf DEF Runnable
  <1>3. ASSUME NEW l, Moves(k, l, 0) \/ Moves(k, l, 0 + 1)
        PROVE  Moves(k, l, b)
    BY <1>1, <1>3, MovesMore
  <1>4. k.rekeying => b = 2
    BY DEF Bound
  <1>5. b = 0 + IF k.rekeying THEN 2 ELSE 1
    BY DEF Bound
  <1> HIDE DEF b
  <1>6. CASE k.st = "i_start"
    <2>1. Run(k) = InitiatorStart(k)
      BY <1>6 DEF Run, Reads
    <2> QED
      BY <1>0, <1>2, <1>3, <1>6, <2>1, InitiatorStartMoves DEF b
  <1>7. CASE k.st = "i_phase1"
    <2>1. Run(k) = InitiatorPhase1(k) /\ k.st \in Reads
      BY <1>7 DEF Run, Reads, Runnable
    <2> QED
      BY <1>0, <1>2, <1>3, <1>7, <2>1, InitiatorPhase1Moves DEF b
  <1>8. CASE k.st = "i_phase3"
    <2>1. Run(k) = InitiatorPhase3(k) /\ k.st \in Reads
      BY <1>8 DEF Run, Reads, Runnable
    <2> QED
      BY <1>0, <1>2, <1>3, <1>8, <2>1, InitiatorPhase3Moves DEF b
  <1>9. CASE k.st = "i_end"
    <2>1. Run(k) = InitiatorEnd(k) /\ k.st \in Reads
      BY <1>9 DEF Run, Reads, Runnable
    <2> QED
      BY <1>0, <1>2, <1>3, <1>9, <2>1, EndMoves DEF b
  <1>10. CASE k.st = "rekey_i_start"
    <2>1. Run(k) = RekeyInitiatorStart(k) /\ k.rekeying
      BY <1>10 DEF Run, Reads, Runnable
    <2>2. Moves(k, RekeyInitiatorStart(k), 0 + 2)
      BY <1>0, <1>2, <1>10, RekeyInitiatorStartMoves
    <2> QED
      BY <1>1, <1>4, <1>10, <2>1, <2>2 DEF b
  <1>11. CASE k.st = "r_start"
    <2>1. Run(k) = ResponderStart(k) /\ k.out = <<>>
      BY <1>11 DEF Run, Reads, Runnable
    <2>2. Moves(k, Run(k), b)
      BY <1>0, <1>2, <1>3, <2>1, ResponderStartMoves
    <2>3. k.aborted => Run(k) = Aborted(k)
      BY <2>1 DEF ResponderStart
    <2>4. ~k.aborted => Run(k).pkt = k.pkt /\ Run(k).out = <<>> /\ Run(k).st = "r_phase1"
      BY <1>0, <1>2, <2>1, ResponderStartMoves
    <2> QED
      BY <1>11, <2>2, <2>3, <2>4 DEF b
  <1>12. CASE k.st = "r_phase1"
    <2>1. Run(k) = ResponderPhase1(k) /\ k.st \in Reads
      BY <1>12 DEF Run, Reads, Runnable
    <2> QED
      BY <1>0, <1>2, <1>3, <1>12, <2>1, ResponderPhase1Moves DEF b
  <1>13. CASE k.st = "r_phase2"
    <2>1. Run(k) = ResponderPhase2(k) /\ k.st \in Reads
      BY <1>13 DEF Run, Reads, Runnable
    <2>2. Moves(k, ResponderPhase2(k), 0 + IF k.rekeying THEN 2 ELSE 1)
      BY <1>0, <1>2, <2>1, ResponderPhase2Moves
    <2> QED
      BY <1>5, <1>13, <2>1, <2>2 DEF b
  <1>14. CASE k.st = "r_end"
    <2>1. Run(k) = ResponderEnd(k) /\ k.st \in Reads
      BY <1>14 DEF Run, Reads, Runnable
    <2> QED
      BY <1>0, <1>2, <1>3, <1>14, <2>1, ResponderEndMoves DEF b
  <1>15. CASE k.st = "rekey_end"
    <2>1. Run(k) = RekeyEnd(k) /\ k.st \in Reads
      BY <1>15 DEF Run, Reads, Runnable
    <2> QED
      BY <1>0, <1>2, <1>3, <1>15, <2>1, EndMoves DEF b
  <1>16. CASE k.st = "failure"
    <2>1. Run(k) = Failure(k)
      BY <1>16 DEF Run, Reads
    <2>2. Moves(k, Failure(k), 0) /\ Over(k, Failure(k))
      BY <1>0, <1>2, FailureMoves
    <2>3. Failure(k).out = <<>>
      <3> DEFINE q == Failure(k).out
      <3>1. IsSeq(q) /\ Len(q) <= 0
        BY <2>2 DEF Moves, OutOk
      <3> HIDE DEF q
      <3>2. q \in Seq({q[n] : n \in DOMAIN q}) /\ Len(q) = 0
        BY <3>1 DEF IsSeq
      <3>3. q = <<>>
        BY <3>2, EmptySeq
      <3> QED
        BY <3>3 DEF q
    <2> QED
      BY <1>3, <1>16, <2>1, <2>2, <2>3 DEF b
  <1> QED
    BY <1>0, <1>6, <1>7, <1>8, <1>9, <1>10, <1>11, <1>12, <1>13, <1>14, <1>15, <1>16
    DEF Runnable, States, Reads

-----------------------------------------------------------------------------
(***************************************************************************)
(* The end that a step leaves.                                             *)
(***************************************************************************)

Clear(l) == [l EXCEPT !.out = <<>>]

LEMMA ClearFields ==
    ASSUME NEW l, DOMAIN l = Fields
    PROVE  Keeps(l, Clear(l), {"out"}) /\ Clear(l).out = <<>>
  BY DEF Clear, Keeps, Fields

LEMMA ClearLocal ==
    ASSUME NEW l, Formed(l), Living(l), Waking(l)
    PROVE  Local(Clear(l))
  <1>1. Keeps(l, Clear(l), {"out"}) /\ Clear(l).out = <<>>
    BY ClearFields DEF Formed
  <1> DEFINE c == Clear(l)
  <1>2. /\ DOMAIN c = Fields /\ c.me = l.me /\ c.st = l.st /\ c.link = l.link /\ c.runs = l.runs
        /\ c.fin = l.fin /\ c.timer = l.timer /\ c.retry = l.retry /\ c.retrans = l.retrans
        /\ c.pkt = l.pkt /\ c.notified = l.notified /\ c.aborted = l.aborted /\ c.refcnt = l.refcnt
        /\ c.rekeying = l.rekeying /\ c.held = l.held /\ c.null = l.null
    BY <1>1 DEF Keeps, Fields
  <1> HIDE DEF c
  <1>3. Formed(c)
    BY <1>2 DEF Formed
  <1>4. Living(c)
    BY <1>2 DEF Living
  <1>5. Waking(c)
    BY <1>2 DEF Waking
  <1> QED
    BY <1>1, <1>3, <1>4, <1>5 DEF Local, c

LEMMA OverLocal ==
    ASSUME NEW k, Formed(k), Living(k), k.link, NEW l, Over(k, l)
    PROVE  Formed(l) /\ Living(l) /\ Waking(l)
  <1>1. Formed(l)
    BY DEF Over
  <1>2. /\ l.fin /\ ~l.link /\ l.st = "none" /\ l.runs = 0 /\ ~l.timer /\ ~l.retry /\ ~l.null
        /\ l.rekeying = k.rekeying
    BY DEF Over, Living
  <1>3. l.refcnt >= One(l.link /\ l.rekeying) + One(l.fin) + One(l.held /\ ~l.rekeying)
    <2>0. k.refcnt \in Int /\ k.rekeying \in BOOLEAN /\ l.held \in BOOLEAN /\ k.held \in BOOLEAN
      BY <1>1 DEF Formed
    <2>1. One(l.fin) = 1 /\ One(l.link /\ l.rekeying) = 0
      BY <1>2 DEF One
    <2>2. CASE k.rekeying
      <3>1. l.refcnt = k.refcnt /\ One(l.held /\ ~l.rekeying) = 0
        BY <1>2, <2>2 DEF Over, One
      <3>2. k.refcnt >= 1
        <4>1. One(k.link /\ k.rekeying) = 1 /\ One(k.fin) \in Nat /\ One(k.held /\ ~k.rekeying) \in Nat
          BY <2>2 DEF One
        <4> QED
          BY <2>0, <4>1 DEF Living
      <3> QED
        BY <2>0, <2>1, <3>1, <3>2
    <2>3. CASE ~k.rekeying
      <3>1. k.refcnt = 2 /\ ~k.held
        BY <2>3 DEF Living
      <3>2. \/ l.refcnt = k.refcnt
            \/ l.refcnt = k.refcnt - 1 /\ l.held = k.held
        BY <2>3 DEF Over
      <3>3. One(l.held /\ ~l.rekeying) \in {0, 1} /\ (~l.held => One(l.held /\ ~l.rekeying) = 0)
        BY DEF One
      <3> QED
        BY <2>1, <3>1, <3>2, <3>3
    <2> QED
      BY <2>0, <2>2, <2>3
  <1>4. Living(l)
    BY <1>2, <1>3 DEF Living
  <1>5. Waking(l)
    BY <1>2 DEF Over, Waking, ResendOk, Reads
  <1> QED
    BY <1>1, <1>4, <1>5

LEMMA NearLocal ==
    ASSUME NEW k, Formed(k), Living(k), k.link, k.st # "failure", NEW l, NEW n, Near(k, l, n),
           l.st \in Reads,
           \/ k.runs = 0
           \/ k.runs = 1 /\ l.pkt # None /\ ~cfg.udp /\ ~k.rekeying
    PROVE  Formed(l) /\ Living(l) /\ Waking(l)
  <1>1. /\ DOMAIN l = Fields /\ l.me = k.me /\ l.link = k.link /\ l.runs = k.runs
        /\ l.fin = k.fin /\ l.notified = k.notified /\ l.aborted = k.aborted /\ l.refcnt = k.refcnt
        /\ l.rekeying = k.rekeying /\ l.held = k.held /\ l.null = k.null
    BY DEF Near, Keeps, Fields, Work
  <1>2. l.timer \in BOOLEAN /\ l.retry \in BOOLEAN /\ ResendOk(l) /\ l.st \in States
    BY DEF Near, States
  <1>3. Formed(l)
    BY <1>1, <1>2 DEF Formed
  <1>4. l.st \notin {"none", "failure", "i_start", "r_start", "rekey_i_start"}
    BY DEF Reads
  <1>5. Living(l)
    BY <1>1, <1>4 DEF Living
  <1>6. Waking(l)
    <2>1. l.runs = 0 \/ (l.runs = 1 /\ l.pkt # None /\ ~cfg.udp /\ ~l.rekeying)
      BY <1>1
    <2>2. l.retry => cfg.udp /\ l.retrans # None
      BY <1>2 DEF ResendOk
    <2>3. l.retrans # None => l.retrans.t \notin {"REKEY", "FAILURE"}
      BY <1>2 DEF ResendOk
    <2>4. One(l.st = "rekey_i_start") = 0
      BY <1>4 DEF One
    <2> QED
      BY <1>4, <2>1, <2>2, <2>3, <2>4 DEF Waking
  <1> QED
    BY <1>3, <1>5, <1>6

LEMMA MovesLocal ==
    ASSUME NEW k, Formed(k), Living(k), k.link, NEW l, NEW n, Moves(k, l, n),
           k.st = "failure" => Over(k, l),
           l.st \in Reads => \/ k.runs = 0
                             \/ k.runs = 1 /\ l.pkt # None /\ ~cfg.udp /\ ~k.rekeying
    PROVE  /\ Local(Clear(l)) /\ Clear(l).me = k.me /\ Clear(l).rekeying = k.rekeying
           /\ Clear(l).st \in Reads \cup {"none"} /\ Clear(l).st = l.st
           /\ Clear(l).runs = l.runs /\ Clear(l).pkt = l.pkt
           /\ DOMAIN l = Fields
           /\ l.st \in Reads => l.runs = k.runs
  <1>1. Over(k, l) \/ (Near(k, l, n) /\ l.st \in Reads /\ k.st # "failure")
    <2>1. Over(k, l) => l.st \notin Reads
      BY DEF Over, Reads
    <2> QED
      BY <2>1 DEF Moves
  <1>2. Formed(l) /\ Living(l) /\ Waking(l)
    BY <1>1, OverLocal, NearLocal
  <1>3. l.me = k.me /\ l.rekeying = k.rekeying /\ l.st \in Reads \cup {"none"}
        /\ (l.st \in Reads => l.runs = k.runs)
    BY <1>1 DEF Over, Near, Keeps, Fields, Work, Reads
  <1>4. DOMAIN l = Fields
    BY <1>2 DEF Formed
  <1>5. Keeps(l, Clear(l), {"out"})
    BY <1>4, ClearFields
  <1>6. /\ Clear(l).me = l.me /\ Clear(l).rekeying = l.rekeying /\ Clear(l).st = l.st
        /\ Clear(l).runs = l.runs /\ Clear(l).pkt = l.pkt
    BY <1>5 DEF Keeps, Fields
  <1> QED
    BY <1>2, <1>3, <1>4, <1>6, ClearLocal

-----------------------------------------------------------------------------
(***************************************************************************)
(* Queues.                                                                 *)
(***************************************************************************)

LEMMA Peers == Peer("i") = "r" /\ Peer("r") = "i" /\ "i" # "r"
  BY DEF Peer, Ends

LEMMA RemoveSeq ==
    ASSUME NEW q, IsSeq(q), NEW n \in DOMAIN q
    PROVE  LET r == RemoveAt(q, n) IN
           /\ IsSeq(r)
           /\ DOMAIN r = 1..(Len(q) - 1)
           /\ \A j \in DOMAIN r : r[j] = q[IF j < n THEN j ELSE j + 1]
  <1> DEFINE S == {q[m] : m \in DOMAIN q}
             r == RemoveAt(q, n)
             a == SubSeq(q, 1, n - 1)
             b == SubSeq(q, n + 1, Len(q))
  <1>1. q \in Seq(S) /\ Len(q) \in Nat /\ n \in 1..Len(q)
    BY SeqDomain DEF IsSeq
  <1> HIDE DEF S
  <1>2. a \in Seq(S) /\ Len(a) = n - 1 /\ \A j \in 1..(n - 1) : a[j] = q[j]
    BY <1>1
  <1>3. b \in Seq(S) /\ Len(b) = Len(q) - n /\ \A j \in 1..(Len(q) - n) : b[j] = q[n + j]
    BY <1>1
  <1>4. r = a \o b
    BY DEF RemoveAt
  <1> HIDE DEF a, b, r
  <1>5. r \in Seq(S) /\ Len(r) = Len(q) - 1
    BY <1>1, <1>2, <1>3, <1>4
  <1>6. \A j \in 1..(Len(q) - 1) : r[j] = IF j < n THEN a[j] ELSE b[j - (n - 1)]
    BY <1>1, <1>2, <1>3, <1>4
  <1>7. \A j \in 1..(Len(q) - 1) : r[j] = q[IF j < n THEN j ELSE j + 1]
    <2> TAKE j \in 1..(Len(q) - 1)
    <2>1. CASE j < n
      BY <1>1, <1>2, <1>6, <2>1
    <2>2. CASE j >= n
      <3>1. j - (n - 1) \in 1..(Len(q) - n) /\ n + (j - (n - 1)) = j + 1 /\ ~(j < n)
        BY <1>1, <2>2
      <3>2. b[j - (n - 1)] = q[n + (j - (n - 1))]
        BY <1>3, <3>1
      <3> QED
        BY <1>6, <3>1, <3>2
    <2> QED
      BY <1>1, <2>1, <2>2
  <1>8. IsSeq(r) /\ DOMAIN r = 1..(Len(q) - 1)
    BY <1>1, <1>5, SeqIsSeq
  <1> QED
    BY <1>7, <1>8 DEF r

LEMMA ConcatSeq ==
    ASSUME NEW q, IsSeq(q), NEW s, IsSeq(s)
    PROVE  LET r == q \o s IN
           /\ IsSeq(r)
           /\ DOMAIN r = 1..(Len(q) + Len(s))
           /\ \A j \in DOMAIN r :
                \/ j \in DOMAIN q /\ r[j] = q[j]
                \/ j - Len(q) \in DOMAIN s /\ r[j] = s[j - Len(q)]
  <1> DEFINE S == {q[m] : m \in DOMAIN q} \cup {s[m] : m \in DOMAIN s}
             r == q \o s
  <1>1. q \in Seq(S) /\ s \in Seq(S)
    <2>1. q \in Seq({q[m] : m \in DOMAIN q}) /\ s \in Seq({s[m] : m \in DOMAIN s})
      BY DEF IsSeq
    <2> QED
      BY <2>1
  <1> HIDE DEF S
  <1>2. /\ r \in Seq(S) /\ Len(r) = Len(q) + Len(s)
        /\ \A j \in 1..(Len(q) + Len(s)) : r[j] = IF j <= Len(q) THEN q[j] ELSE s[j - Len(q)]
    BY <1>1
  <1>3. /\ Len(q) \in Nat /\ Len(s) \in Nat /\ DOMAIN q = 1..Len(q) /\ DOMAIN s = 1..Len(s)
        /\ DOMAIN r = 1..(Len(q) + Len(s))
    BY <1>1, <1>2
  <1> HIDE DEF r
  <1>4. \A j \in 1..(Len(q) + Len(s)) :
                \/ j \in DOMAIN q /\ r[j] = q[j]
                \/ j - Len(q) \in DOMAIN s /\ r[j] = s[j - Len(q)]
    <2> TAKE j \in 1..(Len(q) + Len(s))
    <2>1. CASE j <= Len(q)
      BY <1>2, <1>3, <2>1
    <2>2. CASE ~(j <= Len(q))
      <3>1. j - Len(q) \in 1..Len(s)
        BY <1>3, <2>2
      <3> QED
        BY <1>2, <1>3, <2>2, <3>1
    <2> QED
      BY <2>1, <2>2
  <1>5. IsSeq(r)
    BY <1>2, SeqIsSeq
  <1> QED
    BY <1>3, <1>4, <1>5 DEF r

LEMMA RemoveQueue ==
    ASSUME NEW q, Packets(q), NEW n \in DOMAIN q
    PROVE  LET r == RemoveAt(q, n) IN
           /\ Packets(r)
           /\ OneTurn(q) => OneTurn(r)
           /\ OneTurn(q) /\ q[n].t \in Turns => NoTurn(r)
           /\ NoTurn(q) => NoTurn(r)
           /\ NoRekey(q) => NoRekey(r)
           /\ OnlyData(q) => OnlyData(r)
  <1> DEFINE r == RemoveAt(q, n)
             at(j) == IF j < n THEN j ELSE j + 1
  <1>1. /\ IsSeq(r) /\ DOMAIN r = 1..(Len(q) - 1)
        /\ \A j \in DOMAIN r : r[j] = q[at(j)]
    BY RemoveSeq DEF Packets
  <1>2. Len(q) \in Nat /\ DOMAIN q = 1..Len(q) /\ n \in 1..Len(q)
    BY SeqDomain DEF Packets
  <1>3. \A j \in DOMAIN r : at(j) \in DOMAIN q /\ at(j) # n
    BY <1>1, <1>2
  <1>4. \A i, j \in DOMAIN r : at(i) = at(j) => i = j
    BY <1>1, <1>2
  <1> HIDE DEF r, at
  <1>5. Packets(r)
    BY <1>1, <1>3 DEF Packets
  <1>6. OneTurn(q) => OneTurn(r)
    BY <1>1, <1>3, <1>4 DEF OneTurn
  <1>7. OneTurn(q) /\ q[n].t \in Turns => NoTurn(r)
    BY <1>1, <1>3 DEF OneTurn, NoTurn
  <1>8. /\ NoTurn(q) => NoTurn(r)
        /\ NoRekey(q) => NoRekey(r)
        /\ OnlyData(q) => OnlyData(r)
    BY <1>1, <1>3 DEF NoTurn, NoRekey, OnlyData
  <1> QED
    BY <1>5, <1>6, <1>7, <1>8 DEF r

LEMMA ConcatQueue ==
    ASSUME NEW q, Packets(q), NEW s, Packets(s)
    PROVE  LET r == q \o s IN
           /\ Packets(r)
           /\ OneTurn(q) /\ NoTurn(s) => OneTurn(r)
           /\ NoTurn(q) /\ Len(s) <= 1 => OneTurn(r)
           /\ NoTurn(q) /\ NoTurn(s) => NoTurn(r)
           /\ NoRekey(q) /\ NoRekey(s) => NoRekey(r)
           /\ OnlyData(q) /\ OnlyData(s) => OnlyData(r)
  <1> DEFINE r == q \o s
  <1>1. /\ IsSeq(r)
        /\ DOMAIN r = 1..(Len(q) + Len(s))
        /\ \A j \in DOMAIN r :
             \/ j \in DOMAIN q /\ r[j] = q[j]
             \/ j - Len(q) \in DOMAIN s /\ r[j] = s[j - Len(q)]
    BY ConcatSeq DEF Packets
  <1>2. Len(q) \in Nat /\ DOMAIN q = 1..Len(q) /\ Len(s) \in Nat /\ DOMAIN s = 1..Len(s)
    BY SeqDomain DEF Packets
  <1> HIDE DEF r
  <1>3. Packets(r)
    BY <1>1 DEF Packets
  <1>4. ASSUME OneTurn(q), NoTurn(s) PROVE OneTurn(r)
    BY <1>1, <1>4 DEF OneTurn, NoTurn
  <1>5. ASSUME NoTurn(q), Len(s) <= 1 PROVE OneTurn(r)
    <2> SUFFICES ASSUME NEW i \in DOMAIN r, NEW j \in DOMAIN r, r[i].t \in Turns, r[j].t \in Turns
                 PROVE  i = j
      BY DEF OneTurn
    <2>1. i - Len(q) \in DOMAIN s /\ j - Len(q) \in DOMAIN s
      BY <1>1, <1>5 DEF NoTurn
    <2>2. i \in Int /\ j \in Int
      BY <1>1, <1>2
    <2> QED
      BY <1>2, <1>5, <2>1, <2>2
  <1>6. /\ NoTurn(q) /\ NoTurn(s) => NoTurn(r)
        /\ NoRekey(q) /\ NoRekey(s) => NoRekey(r)
        /\ OnlyData(q) /\ OnlyData(s) => OnlyData(r)
    BY <1>1 DEF NoTurn, NoRekey, OnlyData
  <1> QED
    BY <1>3, <1>4, <1>5, <1>6 DEF r

LEMMA NoOut ==
    /\ Packets(<<>>) /\ NoTurn(<<>>) /\ NoRekey(<<>>) /\ OnlyData(<<>>) /\ Len(<<>>) <= 1
  BY NoPackets DEF Packets, NoTurn, NoRekey, OnlyData

-----------------------------------------------------------------------------
(***************************************************************************)
(* A step of end e that leaves the record l and the queue rest[e].         *)
(***************************************************************************)

\* The step starts no exchange.
Plain(k, l) ==
    /\ DOMAIN l = Fields /\ l.me = k.me /\ l.rekeying = k.rekeying /\ Grows(k, l)
    /\ l.link => k.link
    /\ l.st = "rekey_i_start" => k.st = "rekey_i_start"
    /\ k.st # "rekey_i_start" => NoRekey(l.out)
    /\ ~k.link \/ l.st = "rekey_i_start" => OnlyData(l.out)

\* A re-key is not followed by a first exchange, the initiator begins one with
\* DoRekey only, and no key material is forgotten.
Continues ==
    /\ \A g \in Ends : (end[g].rekeying => end'[g].rekeying) /\ Grows(end[g], end'[g])
    /\ end'["i"].rekeying => end["i"].rekeying \/ DoRekey

\* The step takes a turn only when it is this end's.
TakesTurn(k, l, q) ==
    \/ NoTurn(l.out) /\ (Busy(Clear(l)) => Busy(k))
    \/ /\ NoTurn(q)
       /\ NoTurn(l.out) \/ (~Busy(Clear(l)) /\ Len(l.out) <= 1)

Rest(e, rest) ==
    /\ DOMAIN rest = Ends /\ rest[Peer(e)] = net[Peer(e)]
    /\ Packets(rest[e])
    /\ OneTurn(net[e]) => OneTurn(rest[e])
    /\ NoTurn(net[e]) => NoTurn(rest[e])
    /\ NoRekey(net[e]) => NoRekey(rest[e])
    /\ OnlyData(net[e]) => OnlyData(rest[e])

LEMMA PutStep ==
    ASSUME RunInv, NEW e \in Ends, NEW l, NEW rest, Rest(e, rest), Put(e, l, rest),
           UNCHANGED cfg, Packets(l.out), Plain(end[e], l), Local(Clear(l)),
           ~cfg.udp /\ ~end["i"].rekeying =>
              /\ TakesTurn(end[e], l, rest[e])
              /\ ~(NoTurn(l.out) /\ (Busy(Clear(l)) => Busy(end[e]))) =>
                    NoTurn(net[Peer(e)]) /\ ~Busy(end[Peer(e)])
    PROVE  RunInv' /\ Continues
  <1> DEFINE f == Peer(e)
  <1>1. f \in Ends /\ f # e /\ Ends = {e, f} /\ Peer(f) = e
    BY Peers DEF Ends
  <1>2. DOMAIN end = Ends /\ DOMAIN net = Ends
    BY DEF RunInv, Shapes
  <1>3. end' = [end EXCEPT ![e] = Clear(l)] /\ net' = [rest EXCEPT ![f] = @ \o l.out]
    BY DEF Put, Clear
  <1>4. /\ end'[e] = Clear(l) /\ end'[f] = end[f] /\ net'[e] = rest[e]
        /\ net'[f] = net[f] \o l.out /\ DOMAIN end' = Ends /\ DOMAIN net' = Ends
    BY <1>1, <1>2, <1>3 DEF Rest
  <1>5. /\ Clear(l).me = l.me /\ Clear(l).rekeying = l.rekeying /\ Clear(l).link = l.link
        /\ Clear(l).st = l.st /\ Clear(l).hist = l.hist
    <2>1. Keeps(l, Clear(l), {"out"})
      BY ClearFields DEF Plain
    <2> QED
      BY <2>1 DEF Keeps, Fields
  <1> HIDE DEF f
  <1>6. Packets(net[f]) /\ cfg' = cfg /\ cfg \in Configs
    BY <1>1 DEF RunInv, Shapes
  <1>7. LET r == net[f] \o l.out IN
           /\ Packets(r)
           /\ OneTurn(net[f]) /\ NoTurn(l.out) => OneTurn(r)
           /\ NoTurn(net[f]) /\ Len(l.out) <= 1 => OneTurn(r)
           /\ NoTurn(net[f]) /\ NoTurn(l.out) => NoTurn(r)
           /\ NoRekey(net[f]) /\ NoRekey(l.out) => NoRekey(r)
           /\ OnlyData(net[f]) /\ OnlyData(l.out) => OnlyData(r)
    BY <1>6, ConcatQueue
  <1>8. Shapes'
    BY <1>1, <1>4, <1>5, <1>6, <1>7 DEF Shapes, RunInv, Rest, Plain
  <1>9. (\A g \in Ends : Local(end[g]))'
    <2>1. \A g \in Ends : Local(end'[g])
      BY <1>1, <1>4 DEF RunInv
    <2> QED
      BY <1>6, <2>1 DEF Local, Waking
  <1>10. end'["i"].rekeying = end["i"].rekeying /\ end'["r"].rekeying = end["r"].rekeying
    BY <1>1, <1>4, <1>5 DEF Plain, Ends
  <1>11. ASSUME ~cfg.udp, ~end["i"].rekeying PROVE InTurn'
    <2>1. InTurn
      BY <1>11 DEF RunInv
    <2>2. /\ OneTurn(net[e]) /\ OneTurn(net[f]) /\ (NoTurn(net[e]) \/ NoTurn(net[f]))
          /\ Busy(end[e]) => NoTurn(net[e]) /\ NoTurn(net[f]) /\ ~Busy(end[f])
          /\ Busy(end[f]) => NoTurn(net[e]) /\ NoTurn(net[f]) /\ ~Busy(end[e])
      BY <1>1, <2>1 DEF InTurn, Ends
    <2>3. /\ TakesTurn(end[e], l, rest[e])
          /\ ~(NoTurn(l.out) /\ (Busy(Clear(l)) => Busy(end[e]))) => NoTurn(net[f]) /\ ~Busy(end[f])
      BY <1>11 DEF f
    <2>4. OneTurn(rest[e]) /\ (NoTurn(net[e]) => NoTurn(rest[e]))
      BY <2>2 DEF Rest
    <2> DEFINE r == net[f] \o l.out
    <2>5. /\ OneTurn(r) /\ (NoTurn(rest[e]) \/ NoTurn(r))
          /\ Busy(Clear(l)) => NoTurn(rest[e]) /\ NoTurn(r) /\ ~Busy(end[f])
          /\ Busy(end[f]) => NoTurn(rest[e]) /\ NoTurn(r) /\ ~Busy(Clear(l))
      <3> HIDE DEF r
      <3>1. /\ OneTurn(net[f]) /\ NoTurn(l.out) => OneTurn(r)
            /\ NoTurn(net[f]) /\ Len(l.out) <= 1 => OneTurn(r)
            /\ NoTurn(net[f]) /\ NoTurn(l.out) => NoTurn(r)
        BY <1>7 DEF r
      <3>2. CASE NoTurn(l.out) /\ (Busy(Clear(l)) => Busy(end[e]))
        BY <2>2, <2>4, <3>1, <3>2
      <3>3. CASE ~(NoTurn(l.out) /\ (Busy(Clear(l)) => Busy(end[e])))
        <4>1. NoTurn(rest[e]) /\ (NoTurn(l.out) \/ (~Busy(Clear(l)) /\ Len(l.out) <= 1))
          BY <2>3, <3>3 DEF TakesTurn
        <4>2. NoTurn(net[f]) /\ ~Busy(end[f])
          BY <2>3, <3>3
        <4>3. OneTurn(net[f])
          BY <2>2
        <4> QED
          BY <3>1, <4>1, <4>2, <4>3
      <3> QED
        BY <3>2, <3>3
    <2> HIDE DEF r
    <2>6. net'[f] = r
      BY <1>4 DEF r
    <2>7. \A g \in Ends : OneTurn(net'[g])
      BY <1>1, <1>4, <2>4, <2>5, <2>6
    <2>8. NoTurn(net'["i"]) \/ NoTurn(net'["r"])
      BY <1>1, <1>4, <2>5, <2>6 DEF Ends
    <2>9. ASSUME NEW g \in Ends, Busy(end'[g])
          PROVE  NoTurn(net'["i"]) /\ NoTurn(net'["r"]) /\ ~Busy(end'[Peer(g)])
      <3>1. CASE g = e
        <4>1. NoTurn(net'[e]) /\ NoTurn(net'[f]) /\ ~Busy(end'[f])
          BY <1>4, <2>5, <2>6, <2>9, <3>1
        <4> QED
          BY <1>1, <3>1, <4>1 DEF Ends, f
      <3>2. CASE g = f
        <4>1. NoTurn(net'[e]) /\ NoTurn(net'[f]) /\ ~Busy(end'[e])
          BY <1>4, <2>5, <2>6, <2>9, <3>2
        <4> QED
          BY <1>1, <3>2, <4>1 DEF Ends
      <3> QED
        BY <1>1, <3>1, <3>2
    <2> QED
      BY <2>7, <2>8, <2>9 DEF InTurn
  <1>12. Rekeys'
    <2>0. Rekeys /\ Plain(end[e], l) /\ end[e].me = e /\ Local(end[e])
      BY DEF RunInv, Shapes
    <2>1. end[e].st = "rekey_i_start" => e = "i" /\ end["i"].rekeying
      BY <2>0 DEF Local, Waking
    <2>2. CASE e = "i"
      <3>1. f = "r" /\ e = "i"
        BY <2>2, Peers DEF f
      <3>2. /\ NoRekey(net'["i"])
            /\ ~end'["i"].rekeying => NoRekey(net'["r"])
        BY <1>4, <1>7, <1>10, <2>0, <2>1, <3>1 DEF Rekeys, Rest, Plain
      <3>3. /\ end'["r"].rekeying => end'["i"].rekeying
            /\ end'["i"].rekeying => /\ ~cfg'.udp
                                     /\ end'["r"].link => end'["r"].rekeying
        BY <1>4, <1>6, <1>10, <2>0, <3>1 DEF Rekeys
      <3>4. end'["i"].st = "rekey_i_start" =>
               ~end'["r"].link /\ OnlyData(net'["i"]) /\ OnlyData(net'["r"])
        BY <1>4, <1>5, <1>7, <2>0, <3>1 DEF Rekeys, Rest, Plain
      <3> QED
        BY <3>2, <3>3, <3>4 DEF Rekeys
    <2>3. CASE e = "r"
      <3>1. f = "i" /\ e = "r"
        BY <2>3, Peers DEF f
      <3>2. /\ NoRekey(net'["i"])
            /\ ~end'["i"].rekeying => NoRekey(net'["r"])
        BY <1>4, <1>7, <1>10, <2>0, <2>1, <3>1, Peers DEF Rekeys, Rest, Plain
      <3>3. /\ end'["r"].rekeying => end'["i"].rekeying
            /\ end'["i"].rekeying => /\ ~cfg'.udp
                                     /\ end'["r"].link => end'["r"].rekeying
        BY <1>4, <1>5, <1>6, <1>10, <2>0, <3>1 DEF Rekeys, Plain
      <3>4. end'["i"].st = "rekey_i_start" =>
               ~end'["r"].link /\ OnlyData(net'["i"]) /\ OnlyData(net'["r"])
        BY <1>4, <1>5, <1>7, <2>0, <3>1 DEF Rekeys, Rest, Plain
      <3> QED
        BY <3>2, <3>3, <3>4 DEF Rekeys
    <2> QED
      BY <2>2, <2>3 DEF Ends
  <1>13. Continues
    <2>1. Grows(end[e], end'[e]) /\ Grows(end[f], end'[f])
      BY <1>4, <1>5 DEF Plain, Grows
    <2> QED
      BY <1>1, <1>10, <2>1 DEF Continues, Ends
  <1> QED
    BY <1>6, <1>8, <1>9, <1>10, <1>11, <1>12, <1>13 DEF RunInv

-----------------------------------------------------------------------------
(***************************************************************************)
(* The steps.                                                              *)
(***************************************************************************)

LEMMA AbortedOver ==
    ASSUME NoneIsNoRecord, NEW k, Formed(k), ResendOk(k), k.out = <<>>
    PROVE  Over(k, Aborted(k)) /\ Moves(k, Aborted(k), 1) /\ NoTurn(Aborted(k).out)
  <1> DEFINE x == Send(k, "FAILURE", Code("ERROR"))
             p == [t |-> "FAILURE", key |-> k.send, body |-> Code("ERROR")]
  <1>1. Keeps(k, x, {"out", "retrans", "retry"}) /\ x.out = Append(k.out, p)
    BY SendFields DEF Formed
  <1>2. Moves(k, Aborted(k), 0 + 1)
    BY NearSelf, ErrorMoves
  <1>3. DOMAIN x = Fields /\ x.aborted \in BOOLEAN /\ x.rekeying \in BOOLEAN
    <2> HIDE DEF x
    <2> QED
      BY <1>1 DEF Keeps, Fields, Formed
  <1>4. Aborted(k) = Finish(x)
    BY DEF Aborted
  <1> HIDE DEF x
  <1>5. Aborted(k).st = "none" /\ Aborted(k).out = x.out
    <2>1. /\ Keeps(x, Finish(x), {"link", "timer", "retry", "st", "runs", "fin", "done",
                                  "refcnt", "held", "send", "recv", "hist"})
          /\ Finish(x).st = "none"
      BY <1>3, FinishFields
    <2> QED
      BY <1>4, <2>1 DEF Keeps, Fields
  <1>6. Over(k, Aborted(k))
    BY <1>2, <1>5 DEF Moves, Reads
  <1>7. NoTurn(Aborted(k).out)
    <2>1. p.t \notin Turns
      BY DEF Turns
    <2> HIDE DEF p
    <2>2. \A j \in DOMAIN Append(k.out, p) :
             (j \in DOMAIN k.out /\ Append(k.out, p)[j] = k.out[j]) \/ Append(k.out, p)[j] = p
      BY AppendSeq, NoPackets
    <2> QED
      BY <1>1, <1>5, <2>1, <2>2, NoPackets DEF NoTurn
  <1> QED
    BY <1>2, <1>6, <1>7

LEMMA OutPackets ==
    ASSUME NEW k, NEW q, NEW n, OutOk(k, q, n)
    PROVE  Packets(q) /\ (k.st # "rekey_i_start" => NoRekey(q))
  BY DEF OutOk, Packets, NoRekey, Sendable

\* A run of the machine, whoever calls it.
LEMMA RunStep ==
    ASSUME NoneIsNoRecord, NEW k, Runnable(k), Living(k), k.link,
           \/ k.runs = 0
           \/ k.st = "failure"
           \/ k.st = "r_start" /\ k.runs = 1 /\ k.pkt # None /\ ~cfg.udp /\ ~k.rekeying
    PROVE  LET l == Run(k) IN
           /\ DOMAIN l = Fields /\ l.me = k.me /\ l.rekeying = k.rekeying /\ Grows(k, l)
           /\ Local(Clear(l)) /\ l.st \in Reads \cup {"none"}
           /\ Packets(l.out) /\ Len(l.out) <= Bound(k)
           /\ k.st # "rekey_i_start" => NoRekey(l.out)
           /\ k.st \in {"failure", "r_start"} => NoTurn(l.out)
           /\ Busy(Clear(l)) => k.st = "r_start" /\ k.runs = 1
  <1> DEFINE l == Run(k)
  <1>1. /\ Moves(k, l, Bound(k))
        /\ k.st = "failure" => Over(k, l) /\ l.out = <<>>
        /\ k.st = "r_start" => \/ l = Aborted(k)
                               \/ l.pkt = k.pkt /\ l.out = <<>> /\ l.st = "r_phase1"
    BY RunMoves
  <1>2. Formed(k) /\ ResendOk(k) /\ k.out = <<>>
    BY DEF Runnable
  <1> HIDE DEF l
  <1>3. l = Aborted(k) => l.st = "none" /\ NoTurn(l.out)
    BY <1>2, AbortedOver DEF Over
  <1>4. k.st = "failure" => l.st = "none"
    BY <1>1 DEF Over
  <1>5. l.st \in Reads => \/ k.runs = 0
                          \/ k.runs = 1 /\ l.pkt # None /\ ~cfg.udp /\ ~k.rekeying
    BY <1>1, <1>3, <1>4 DEF Reads
  <1>6. /\ Local(Clear(l)) /\ Clear(l).me = k.me /\ Clear(l).rekeying = k.rekeying
        /\ Clear(l).st \in Reads \cup {"none"} /\ Clear(l).st = l.st
        /\ Clear(l).runs = l.runs /\ Clear(l).pkt = l.pkt
        /\ DOMAIN l = Fields
        /\ l.st \in Reads => l.runs = k.runs
    BY <1>1, <1>2, <1>5, MovesLocal
  <1>7. l.me = k.me /\ l.rekeying = k.rekeying
    <2>1. Keeps(l, Clear(l), {"out"})
      BY <1>6, ClearFields
    <2> QED
      BY <1>6, <2>1 DEF Keeps, Fields
  <1>8. OutOk(k, l.out, Bound(k))
    BY <1>1 DEF Moves
  <1>9. Packets(l.out) /\ (k.st # "rekey_i_start" => NoRekey(l.out)) /\ Len(l.out) <= Bound(k)
    BY <1>8, OutPackets DEF OutOk
  <1>10. k.st \in {"failure", "r_start"} => NoTurn(l.out)
    BY <1>1, <1>3, NoOut
  <1>11. Busy(Clear(l)) => k.st = "r_start" /\ k.runs = 1
    <2> SUFFICES ASSUME Busy(Clear(l)) PROVE k.st = "r_start" /\ k.runs = 1
      OBVIOUS
    <2>1. l.st \in Reads /\ l.runs > 0
      BY <1>6 DEF Busy, Reads
    <2>2. k.runs > 0 /\ k.st # "failure"
      BY <1>4, <1>6, <2>1 DEF Reads
    <2> QED
      BY <2>2
  <1>12. Grows(k, l)
    BY <1>1 DEF Moves, Over, Near, Keeps, Fields, Work, Grows
  <1> QED
    BY <1>6, <1>7, <1>9, <1>10, <1>11, <1>12 DEF l

LEMMA RestNet ==
    ASSUME RunInv, NEW e \in Ends
    PROVE  Rest(e, net)
  BY DEF RunInv, Shapes, Rest

LEMMA Locals ==
    ASSUME RunInv, NEW e \in Ends
    PROVE  /\ Local(end[e]) /\ Formed(end[e]) /\ Living(end[e]) /\ Waking(end[e])
           /\ DOMAIN end[e] = Fields /\ end[e].me = e /\ end[e].out = <<>>
           /\ ResendOk(end[e]) /\ Peer(e) \in Ends
  <1>1. Local(end[e]) /\ end[e].me = e /\ Peer(e) \in Ends
    BY Peers DEF RunInv, Shapes, Ends
  <1>2. Formed(end[e]) /\ Living(end[e]) /\ Waking(end[e]) /\ end[e].out = <<>>
    BY <1>1 DEF Local
  <1> QED
    BY <1>1, <1>2 DEF Formed, Waking, ResendOk

LEMMA Turns1 ==
    ASSUME RunInv, ~cfg.udp, ~end["i"].rekeying, NEW e \in Ends
    PROVE  /\ Busy(end[e]) => NoTurn(net[e]) /\ NoTurn(net[Peer(e)]) /\ ~Busy(end[Peer(e)])
           /\ ~NoTurn(net[e]) => /\ NoTurn(net[Peer(e)]) /\ ~Busy(end[e])
                                 /\ ~Busy(end[Peer(e)]) /\ OneTurn(net[e])
  <1>1. InTurn
    BY DEF RunInv
  <1> QED
    BY <1>1, Peers DEF InTurn, Ends

\* The machine as a run that the scheduler calls finds it.
LEMMA FsmRunnable ==
    ASSUME RunInv, NEW e \in Ends, end[e].runs > 0
    PROVE  LET k == [end[e] EXCEPT !.runs = @ - 1] IN
           /\ Keeps(end[e], k, {"runs"}) /\ k.runs = end[e].runs - 1
           /\ Runnable(k) /\ Living(k) /\ k.link
           /\ \/ k.runs = 0
              \/ k.st = "failure"
              \/ k.st = "r_start" /\ k.runs = 1 /\ k.pkt # None /\ ~cfg.udp /\ ~k.rekeying
  <1> DEFINE k0 == end[e]
             k == [k0 EXCEPT !.runs = @ - 1]
  <1>1. /\ Formed(k0) /\ Living(k0) /\ Waking(k0) /\ DOMAIN k0 = Fields
        /\ k0.out = <<>> /\ ResendOk(k0) /\ k0.runs > 0
    BY Locals
  <1>2. Keeps(k0, k, {"runs"}) /\ k.runs = k0.runs - 1
    BY <1>1 DEF Keeps, Fields
  <1> HIDE DEF k, k0
  <1>3. k0.link /\ k0.st # "none"
    BY <1>1 DEF Living, Formed
  <1>4. /\ DOMAIN k = Fields /\ k.me = k0.me /\ k.st = k0.st /\ k.link = k0.link
        /\ k.fin = k0.fin /\ k.timer = k0.timer /\ k.retry = k0.retry /\ k.retrans = k0.retrans
        /\ k.pkt = k0.pkt /\ k.notified = k0.notified /\ k.aborted = k0.aborted
        /\ k.refcnt = k0.refcnt /\ k.rekeying = k0.rekeying /\ k.held = k0.held /\ k.null = k0.null
        /\ k.out = k0.out
    BY <1>2 DEF Keeps, Fields
  <1>5. Formed(k)
    BY <1>1, <1>2, <1>4 DEF Formed
  <1>6. Living(k)
    BY <1>1, <1>3, <1>4 DEF Living
  <1>7. Runnable(k)
    BY <1>1, <1>3, <1>4, <1>5 DEF Runnable, Waking, ResendOk
  <1>8. \/ k.runs = 0
        \/ k.st = "failure"
        \/ k.st = "r_start" /\ k.runs = 1 /\ k.pkt # None /\ ~cfg.udp /\ ~k.rekeying
    <2>1. k0.runs \in Nat /\ One(FALSE) = 0
      BY <1>1 DEF Formed, One
    <2> QED
      BY <1>1, <1>2, <1>3, <1>4, <2>1 DEF Waking, One
  <1> QED
    BY <1>2, <1>3, <1>4, <1>6, <1>7, <1>8 DEF k0, k

LEMMA FsmRunStep ==
    ASSUME NoneIsNoRecord, RunInv, NEW e \in Ends, FsmRun(e)
    PROVE  RunInv' /\ Continues
  <1> DEFINE k0 == end[e]
             k == [k0 EXCEPT !.runs = @ - 1]
             l == Run(k)
  <1>1. /\ Formed(k0) /\ Living(k0) /\ Waking(k0) /\ DOMAIN k0 = Fields /\ k0.me = e
    BY Locals
  <1>2. k0.runs > 0 /\ Put(e, l, net) /\ cfg' = cfg
    BY DEF FsmRun
  <1>3. /\ Keeps(k0, k, {"runs"}) /\ k.runs = k0.runs - 1
        /\ Runnable(k) /\ Living(k) /\ k.link
        /\ \/ k.runs = 0
           \/ k.st = "failure"
           \/ k.st = "r_start" /\ k.runs = 1 /\ k.pkt # None /\ ~cfg.udp /\ ~k.rekeying
    BY <1>2, FsmRunnable
  <1> HIDE DEF k, l, k0
  <1>4. k0.link /\ k0.st # "none"
    BY <1>1, <1>2 DEF Living, Formed
  <1>5. /\ k.me = k0.me /\ k.st = k0.st /\ k.link = k0.link /\ k.pkt = k0.pkt
        /\ k.rekeying = k0.rekeying /\ k.hist = k0.hist
    BY <1>3 DEF Keeps, Fields
  <1>10. /\ DOMAIN l = Fields /\ l.me = k.me /\ l.rekeying = k.rekeying /\ Grows(k, l)
         /\ Local(Clear(l)) /\ l.st \in Reads \cup {"none"}
         /\ Packets(l.out) /\ Len(l.out) <= Bound(k)
         /\ k.st # "rekey_i_start" => NoRekey(l.out)
         /\ k.st \in {"failure", "r_start"} => NoTurn(l.out)
         /\ Busy(Clear(l)) => k.st = "r_start" /\ k.runs = 1
    BY <1>3, RunStep DEF l
  <1>11. Plain(k0, l)
    <2>1. l.st # "rekey_i_start"
      BY <1>10 DEF Reads
    <2> QED
      BY <1>4, <1>5, <1>10, <2>1 DEF Plain, Grows
  <1>12. ASSUME ~cfg.udp, ~end["i"].rekeying
         PROVE  /\ TakesTurn(k0, l, net[e])
                /\ ~(NoTurn(l.out) /\ (Busy(Clear(l)) => Busy(k0))) =>
                      NoTurn(net[Peer(e)]) /\ ~Busy(end[Peer(e)])
    <2>1. ~k0.rekeying
      BY <1>12 DEF RunInv, Rekeys, Ends, k0
    <2>2. CASE k0.st \in {"failure", "r_start"}
      <3>1. NoTurn(l.out)
        BY <1>5, <1>10, <2>2
      <3>2. ASSUME Busy(Clear(l)) PROVE Busy(k0)
        <4>1. k0.st = "r_start" /\ k0.runs > 1
          BY <1>1, <1>3, <1>5, <1>10, <3>2 DEF Formed
        <4>2. k0.pkt # None
          BY <1>1, <4>1 DEF Waking
        <4> QED
          BY <1>2, <4>1, <4>2 DEF Busy
      <3> QED
        BY <3>1, <3>2 DEF TakesTurn
    <2>3. CASE k0.st \notin {"failure", "r_start"}
      <3>1. Busy(k0)
        <4>1. k0.st \in Reads \/ k0.st = "i_start"
          BY <1>1, <1>4, <2>1, <2>3 DEF Formed, States, Waking
        <4> QED
          BY <1>1, <1>2, <4>1 DEF Busy, Waking
      <3>2. NoTurn(net[e]) /\ NoTurn(net[Peer(e)]) /\ ~Busy(end[Peer(e)])
        BY <1>12, <3>1, Turns1 DEF k0
      <3>3. ~Busy(Clear(l)) /\ Len(l.out) <= 1
        BY <1>5, <1>10, <2>1, <2>3 DEF Bound
      <3> QED
        BY <3>2, <3>3 DEF TakesTurn
    <2> QED
      BY <2>2, <2>3
  <1> QED
    BY <1>2, <1>10, <1>11, <1>12, RestNet, PutStep DEF k0

\* The machine is told that the exchange has failed, and runs.
LEMMA FailStep ==
    ASSUME NoneIsNoRecord, RunInv, NEW e \in Ends, end[e].link, NEW x,
           Keeps(end[e], x, {"timer", "pkt", "status", "retry", "count", "retrans"}),
           x.timer \in BOOLEAN, x.retry \in BOOLEAN, ResendOk(x),
           Put(e, Run(NotifyFailure(x)), net), UNCHANGED cfg
    PROVE  RunInv' /\ Continues
  <1> DEFINE k0 == end[e]
             k == NotifyFailure(x)
             l == Run(k)
  <1>1. Formed(k0) /\ Living(k0) /\ Waking(k0) /\ k0.me = e /\ k0.out = <<>> /\ k0.link
    BY Locals
  <1>2. /\ DOMAIN x = Fields /\ x.me = k0.me /\ x.st = k0.st /\ x.link = k0.link /\ x.runs = k0.runs
        /\ x.fin = k0.fin /\ x.notified = k0.notified /\ x.aborted = k0.aborted
        /\ x.refcnt = k0.refcnt /\ x.rekeying = k0.rekeying /\ x.held = k0.held /\ x.null = k0.null
        /\ x.out = k0.out /\ x.hist = k0.hist
    BY DEF Keeps, Fields
  <1> HIDE DEF k0
  <1>3. x.notified \in BOOLEAN /\ (x.notified <=> x.st = "failure")
    BY <1>1, <1>2 DEF Living, Formed
  <1>4. /\ Keeps(x, k, {"notified", "st"}) /\ k.st = "failure" /\ k.notified
        /\ k.notified \in BOOLEAN
    BY <1>2, <1>3 DEF NotifyFailure, Keeps, Fields
  <1> HIDE DEF k
  <1>5. /\ DOMAIN k = Fields /\ k.me = k0.me /\ k.link = k0.link /\ k.runs = k0.runs
        /\ k.fin = k0.fin /\ k.aborted = k0.aborted /\ k.timer = x.timer /\ k.retry = x.retry
        /\ k.refcnt = k0.refcnt /\ k.rekeying = k0.rekeying /\ k.held = k0.held /\ k.null = k0.null
        /\ k.out = k0.out /\ k.retrans = x.retrans /\ k.hist = k0.hist
    BY <1>2, <1>4 DEF Keeps, Fields
  <1>6. Formed(k)
    BY <1>1, <1>4, <1>5 DEF Formed, States
  <1>7. Living(k)
    BY <1>1, <1>4, <1>5 DEF Living
  <1>8. Runnable(k)
    BY <1>1, <1>4, <1>5, <1>6 DEF Runnable, ResendOk, Reads
  <1> HIDE DEF l
  <1>9. /\ DOMAIN l = Fields /\ l.me = k.me /\ l.rekeying = k.rekeying /\ Grows(k, l)
        /\ Local(Clear(l)) /\ l.st \in Reads \cup {"none"}
        /\ Packets(l.out) /\ NoRekey(l.out) /\ NoTurn(l.out) /\ ~Busy(Clear(l))
    BY <1>1, <1>4, <1>5, <1>7, <1>8, RunStep DEF l
  <1>10. Plain(k0, l)
    <2>1. l.st # "rekey_i_start"
      BY <1>9 DEF Reads
    <2> QED
      BY <1>1, <1>5, <1>9, <2>1 DEF Plain, Grows
  <1>11. TakesTurn(k0, l, net[e]) /\ NoTurn(l.out) /\ ~Busy(Clear(l))
    BY <1>9 DEF TakesTurn
  <1>12. Put(e, l, net)
    BY DEF k, l
  <1> QED
    BY <1>9, <1>10, <1>11, <1>12, RestNet, PutStep DEF k0

LEMMA TimeoutStep ==
    ASSUME NoneIsNoRecord, RunInv, NEW e \in Ends, Timeout(e)
    PROVE  RunInv' /\ Continues
  <1> DEFINE x == [end[e] EXCEPT !.timer = FALSE, !.pkt = None, !.status = "TIMEOUT"]
  <1>1. DOMAIN end[e] = Fields /\ Living(end[e]) /\ Formed(end[e]) /\ ResendOk(end[e])
    BY Locals
  <1>2. end[e].link
    BY <1>1 DEF Timeout, Living
  <1>3. /\ Keeps(end[e], x, {"timer", "pkt", "status", "retry", "count", "retrans"})
        /\ x.timer = FALSE /\ x.retry = end[e].retry /\ x.retrans = end[e].retrans
    BY <1>1 DEF Keeps, Fields
  <1>4. Put(e, Run(NotifyFailure(x)), net) /\ cfg' = cfg
    BY DEF Timeout
  <1> HIDE DEF x
  <1>5. x.timer \in BOOLEAN /\ x.retry \in BOOLEAN /\ ResendOk(x)
    BY <1>1, <1>3 DEF Formed, ResendOk
  <1> QED
    BY <1>2, <1>3, <1>4, <1>5, FailStep

\* A packet is sent again.
LEMMA ResendStep ==
    ASSUME NoneIsNoRecord, RunInv, NEW e \in Ends, end[e].retry, NEW k,
           Keeps(end[e], k, {"retry", "count"}), k.retry = FALSE,
           Put(e, Send(k, k.retrans.t, k.retrans.body), net), UNCHANGED cfg
    PROVE  RunInv' /\ Continues
  <1> DEFINE k0 == end[e]
             p == [t |-> k.retrans.t, key |-> k.send, body |-> k.retrans.body]
             l == Send(k, k.retrans.t, k.retrans.body)
  <1>1. Formed(k0) /\ Living(k0) /\ Waking(k0) /\ k0.me = e /\ k0.out = <<>> /\ k0.retry
    BY Locals
  <1>2. cfg.udp /\ k0.runs = 0 /\ k0.retrans # None /\ k0.retrans.t \notin {"REKEY", "FAILURE"}
    BY <1>1 DEF Waking
  <1>3. k.retrans = k0.retrans /\ k.out = <<>> /\ DOMAIN k = Fields
    BY <1>1 DEF Keeps, Fields
  <1>4. Keeps(k, l, {"out", "retrans", "retry"}) /\ l.out = Append(<<>>, p) /\ l.retry = TRUE /\ l.retrans = p
    BY <1>2, <1>3 DEF Send, Keeps, Fields
  <1>5. p # None /\ p.t = k0.retrans.t
    BY <1>3 DEF NoneIsNoRecord
  <1> HIDE DEF k0, l
  <1>6. /\ DOMAIN l = Fields /\ l.me = k0.me /\ l.st = k0.st /\ l.link = k0.link
        /\ l.fin = k0.fin /\ l.timer = k0.timer /\ l.runs = k0.runs
        /\ l.pkt = k0.pkt /\ l.notified = k0.notified /\ l.aborted = k0.aborted
        /\ l.refcnt = k0.refcnt /\ l.rekeying = k0.rekeying /\ l.held = k0.held /\ l.null = k0.null
        /\ l.hist = k0.hist
    <2>1. \A f \in Fields \ {"retry", "count"} : k[f] = k0[f]
      BY DEF Keeps, k0
    <2>2. DOMAIN l = Fields /\ \A f \in Fields \ {"out", "retrans", "retry"} : l[f] = k[f]
      BY <1>4 DEF Keeps
    <2> QED
      BY <2>1, <2>2 DEF Fields
  <1> HIDE DEF p
  <1>7. k0.link
    BY <1>1 DEF Living
  <1>8. Local(Clear(l))
    <2>1. Formed(l)
      BY <1>1, <1>4, <1>6 DEF Formed
    <2>2. Living(l)
      BY <1>1, <1>6, <1>7 DEF Living
    <2>3. Waking(l)
      BY <1>1, <1>2, <1>4, <1>5, <1>6 DEF Waking
    <2> QED
      BY <2>1, <2>2, <2>3, ClearLocal
  <1>9. Packets(l.out) /\ NoRekey(l.out)
    <2>1. \A j \in DOMAIN Append(<<>>, p) :
            (j \in DOMAIN <<>> /\ Append(<<>>, p)[j] = <<>>[j]) \/ Append(<<>>, p)[j] = p
      BY AppendSeq, NoPackets
    <2>2. IsSeq(Append(<<>>, p))
      BY AppendSeq, NoPackets
    <2> QED
      BY <1>2, <1>4, <1>5, <2>1, <2>2, NoPackets DEF Packets, NoRekey
  <1>10. k0.st # "rekey_i_start"
    BY <1>1, <1>2 DEF Waking, RunInv, Rekeys, k0
  <1>11. Plain(k0, l)
    BY <1>6, <1>7, <1>9, <1>10 DEF Plain, Grows
  <1>12. Put(e, l, net)
    BY DEF l
  <1> QED
    BY <1>2, <1>8, <1>9, <1>11, <1>12, RestNet, PutStep DEF k0

LEMMA RetryStep ==
    ASSUME NoneIsNoRecord, RunInv, NEW e \in Ends, Retry(e)
    PROVE  RunInv' /\ Continues
  <1> DEFINE k == [end[e] EXCEPT !.retry = FALSE, !.count = @ + 1]
             x == [k EXCEPT !.count = 0, !.retrans = None, !.status = "TIMEOUT"]
  <1>1. DOMAIN end[e] = Fields /\ Living(end[e]) /\ Formed(end[e]) /\ end[e].retry
    BY Locals DEF Retry
  <1>2. end[e].link
    BY <1>1 DEF Living
  <1>3. Keeps(end[e], k, {"retry", "count"}) /\ k.retry = FALSE
    BY <1>1 DEF Keeps, Fields
  <1>4. /\ Keeps(end[e], x, {"timer", "pkt", "status", "retry", "count", "retrans"})
        /\ x.timer = end[e].timer /\ x.retry = FALSE /\ x.retrans = None
    BY <1>1 DEF Keeps, Fields
  <1>5. /\ cfg' = cfg
        /\ \/ Put(e, Run(NotifyFailure(x)), net)
           \/ Put(e, Send(k, k.retrans.t, k.retrans.body), net)
    BY DEF Retry
  <1> HIDE DEF x, k
  <1>6. x.timer \in BOOLEAN /\ x.retry \in BOOLEAN /\ ResendOk(x)
    BY <1>1, <1>4 DEF Formed, ResendOk
  <1> QED
    BY <1>1, <1>2, <1>3, <1>4, <1>5, <1>6, FailStep, ResendStep

\* A step that only changes the references of the exchange.
LEMMA EditStep ==
    ASSUME NoneIsNoRecord, RunInv, NEW e \in Ends, NEW l,
           Keeps(end[e], l, {"fin", "refcnt", "held", "aborted"}),
           Formed(l), Living(l), Put(e, l, net), UNCHANGED cfg
    PROVE  RunInv' /\ Continues
  <1> DEFINE k0 == end[e]
  <1>1. Formed(k0) /\ Living(k0) /\ Waking(k0) /\ k0.me = e /\ k0.out = <<>>
    BY Locals
  <1>2. /\ DOMAIN l = Fields /\ l.me = k0.me /\ l.st = k0.st /\ l.link = k0.link
        /\ l.timer = k0.timer /\ l.runs = k0.runs /\ l.retry = k0.retry /\ l.retrans = k0.retrans
        /\ l.pkt = k0.pkt /\ l.rekeying = k0.rekeying /\ l.out = k0.out /\ l.hist = k0.hist
    BY DEF Keeps, Fields
  <1> HIDE DEF k0
  <1>3. Waking(l)
    BY <1>1, <1>2 DEF Waking
  <1>4. Local(Clear(l))
    BY <1>3, ClearLocal
  <1>5. Packets(l.out) /\ NoRekey(l.out) /\ OnlyData(l.out) /\ NoTurn(l.out)
    BY <1>1, <1>2, NoOut
  <1>6. Plain(k0, l)
    BY <1>2, <1>5 DEF Plain, Grows
  <1>7. Busy(Clear(l)) => Busy(k0)
    <2>1. Clear(l).st = l.st /\ Clear(l).runs = l.runs /\ Clear(l).pkt = l.pkt
      BY <1>2, ClearFields DEF Keeps, Fields
    <2> QED
      BY <1>2, <2>1 DEF Busy
  <1>8. TakesTurn(k0, l, net[e])
    BY <1>5, <1>7 DEF TakesTurn
  <1> QED
    BY <1>4, <1>5, <1>6, <1>7, <1>8, RestNet, PutStep DEF k0

LEMMA FinishedStep ==
    ASSUME NoneIsNoRecord, RunInv, NEW e \in Ends, Finished(e) \/ OwnerFree(e) \/ Abort(e)
    PROVE  RunInv' /\ Continues
  <1> DEFINE k == end[e]
  <1>1. Formed(k) /\ Living(k) /\ DOMAIN k = Fields
    BY Locals
  <1>2. k.refcnt \in Int /\ k.fin \in BOOLEAN /\ k.held \in BOOLEAN /\ k.rekeying \in BOOLEAN /\ k.link \in BOOLEAN
    BY <1>1 DEF Formed
  <1>3. CASE Finished(e)
    <2> DEFINE l == [k EXCEPT !.fin = FALSE, !.refcnt = @ - 1]
    <2>1. Keeps(k, l, {"fin", "refcnt"}) /\ l.fin = FALSE /\ l.refcnt = k.refcnt - 1
      BY <1>1 DEF Keeps, Fields
    <2>2. Put(e, l, net) /\ cfg' = cfg /\ k.fin
      BY <1>3 DEF Finished
    <2> HIDE DEF l, k
    <2>3. /\ DOMAIN l = Fields /\ l.me = k.me /\ l.st = k.st /\ l.link = k.link
          /\ l.timer = k.timer /\ l.runs = k.runs /\ l.retry = k.retry
          /\ l.notified = k.notified /\ l.aborted = k.aborted
          /\ l.rekeying = k.rekeying /\ l.held = k.held /\ l.null = k.null
      BY <2>1 DEF Keeps, Fields
    <2>4. Formed(l)
      <3>1. l.refcnt \in Int
        BY <1>2, <2>1
      <3>2. l.fin \in BOOLEAN
        BY <2>1
      <3> QED
        BY <1>1, <2>3, <3>1, <3>2, Zenon DEF Formed
    <2>5. Living(l)
      BY <1>1, <1>2, <2>1, <2>2, <2>3 DEF Living, One
    <2>6. Keeps(k, l, {"fin", "refcnt", "held", "aborted"})
      BY <2>1 DEF Keeps
    <2> QED
      BY <2>2, <2>4, <2>5, <2>6, EditStep DEF k
  <1>4. CASE OwnerFree(e)
    <2> DEFINE l == [k EXCEPT !.held = FALSE, !.refcnt = @ - 1]
    <2>1. Keeps(k, l, {"held", "refcnt"}) /\ l.held = FALSE /\ l.refcnt = k.refcnt - 1
      BY <1>1 DEF Keeps, Fields
    <2>2. Put(e, l, net) /\ cfg' = cfg /\ k.held /\ ~k.rekeying
      BY <1>4 DEF OwnerFree
    <2> HIDE DEF l, k
    <2>3. /\ DOMAIN l = Fields /\ l.me = k.me /\ l.st = k.st /\ l.link = k.link
          /\ l.timer = k.timer /\ l.runs = k.runs /\ l.retry = k.retry
          /\ l.notified = k.notified /\ l.aborted = k.aborted
          /\ l.rekeying = k.rekeying /\ l.fin = k.fin /\ l.null = k.null
      BY <2>1 DEF Keeps, Fields
    <2>4. Formed(l)
      <3>1. l.refcnt \in Int
        BY <1>2, <2>1
      <3>2. l.held \in BOOLEAN
        BY <2>1
      <3> QED
        BY <1>1, <2>3, <3>1, <3>2, Zenon DEF Formed
    <2>5. Living(l)
      BY <1>1, <1>2, <2>1, <2>2, <2>3 DEF Living, One
    <2>6. Keeps(k, l, {"fin", "refcnt", "held", "aborted"})
      BY <2>1 DEF Keeps
    <2> QED
      BY <2>2, <2>4, <2>5, <2>6, EditStep DEF k
  <1>5. CASE Abort(e)
    <2> DEFINE l == [k EXCEPT !.aborted = TRUE]
    <2>1. Keeps(k, l, {"aborted"}) /\ l.aborted = TRUE
      BY <1>1 DEF Keeps, Fields
    <2>2. Put(e, l, net) /\ cfg' = cfg
      BY <1>5 DEF Abort
    <2> HIDE DEF l, k
    <2>3. /\ DOMAIN l = Fields /\ l.me = k.me /\ l.st = k.st /\ l.link = k.link
          /\ l.timer = k.timer /\ l.runs = k.runs /\ l.retry = k.retry
          /\ l.notified = k.notified /\ l.held = k.held /\ l.refcnt = k.refcnt
          /\ l.rekeying = k.rekeying /\ l.fin = k.fin /\ l.null = k.null
      BY <2>1 DEF Keeps, Fields
    <2>4. Formed(l)
      BY <1>1, <2>1, <2>3 DEF Formed
    <2>5. Living(l)
      BY <1>1, <2>3 DEF Living
    <2>6. Keeps(k, l, {"fin", "refcnt", "held", "aborted"})
      BY <2>1 DEF Keeps
    <2> QED
      BY <2>2, <2>4, <2>5, <2>6, EditStep DEF k
  <1> QED
    BY <1>3, <1>4, <1>5

LEMMA SendDataStep ==
    ASSUME NoneIsNoRecord, RunInv, NEW e \in Ends, SendData(e)
    PROVE  RunInv' /\ Continues
  <1> DEFINE k0 == end[e]
             p == [t |-> "DATA", key |-> k0.send, body |-> None]
             l == [k0 EXCEPT !.data = @ + 1, !.out = <<p>>]
  <1>1. Formed(k0) /\ Living(k0) /\ Waking(k0) /\ k0.me = e /\ DOMAIN k0 = Fields
    BY Locals
  <1>2. Put(e, l, net) /\ cfg' = cfg
    BY DEF SendData
  <1>3. Keeps(k0, l, {"data", "out"}) /\ l.out = <<p>>
    BY <1>1 DEF Keeps, Fields
  <1>4. Packets(<<p>>) /\ NoRekey(<<p>>) /\ OnlyData(<<p>>) /\ NoTurn(<<p>>)
    <2>1. p # None /\ p.t = "DATA"
      BY DEF NoneIsNoRecord
    <2> HIDE DEF p
    <2>2. <<p>> \in Seq({p})
      OBVIOUS
    <2>3. IsSeq(<<p>>)
      BY <2>2, SeqIsSeq
    <2>4. \A j \in DOMAIN <<p>> : <<p>>[j] = p
      OBVIOUS
    <2> QED
      BY <2>1, <2>3, <2>4 DEF Packets, NoRekey, OnlyData, NoTurn, Turns
  <1> HIDE DEF l, k0, p
  <1>5. /\ DOMAIN l = Fields /\ l.me = k0.me /\ l.st = k0.st /\ l.link = k0.link
        /\ l.fin = k0.fin /\ l.timer = k0.timer /\ l.runs = k0.runs /\ l.retry = k0.retry
        /\ l.pkt = k0.pkt /\ l.notified = k0.notified /\ l.aborted = k0.aborted
        /\ l.refcnt = k0.refcnt /\ l.rekeying = k0.rekeying /\ l.held = k0.held /\ l.null = k0.null
        /\ l.retrans = k0.retrans /\ l.hist = k0.hist
    BY <1>3 DEF Keeps, Fields
  <1>6. Local(Clear(l))
    <2>1. Formed(l)
      BY <1>1, <1>5 DEF Formed
    <2>2. Living(l)
      BY <1>1, <1>5 DEF Living
    <2>3. Waking(l)
      BY <1>1, <1>5 DEF Waking
    <2> QED
      BY <2>1, <2>2, <2>3, ClearLocal
  <1>7. Plain(k0, l)
    BY <1>3, <1>4, <1>5 DEF Plain, Grows
  <1>8. Busy(Clear(l)) => Busy(k0)
    <2>1. Clear(l).st = l.st /\ Clear(l).runs = l.runs /\ Clear(l).pkt = l.pkt
      BY <1>5, ClearFields DEF Keeps, Fields
    <2> QED
      BY <1>5, <2>1 DEF Busy
  <1>9. TakesTurn(k0, l, net[e])
    BY <1>3, <1>4, <1>8 DEF TakesTurn
  <1> QED
    BY <1>2, <1>3, <1>4, <1>6, <1>7, <1>8, <1>9, RestNet, PutStep DEF k0

LEMMA RestRemove ==
    ASSUME RunInv, NEW e \in Ends, NEW n \in DOMAIN net[e]
    PROVE  LET rest == [net EXCEPT ![e] = RemoveAt(@, n)] IN
           /\ Rest(e, rest) /\ rest[e] = RemoveAt(net[e], n)
           /\ net[e][n] # None
           /\ OneTurn(net[e]) /\ net[e][n].t \in Turns => NoTurn(rest[e])
  <1>1. DOMAIN net = Ends /\ Packets(net[e])
    BY DEF RunInv, Shapes
  <1> DEFINE rest == [net EXCEPT ![e] = RemoveAt(@, n)]
             q == net[e]
             r == RemoveAt(q, n)
  <1>2. /\ Packets(r)
        /\ OneTurn(q) => OneTurn(r)
        /\ OneTurn(q) /\ q[n].t \in Turns => NoTurn(r)
        /\ NoTurn(q) => NoTurn(r)
        /\ NoRekey(q) => NoRekey(r)
        /\ OnlyData(q) => OnlyData(r)
    BY <1>1, RemoveQueue
  <1>3. DOMAIN rest = Ends /\ rest[e] = r /\ rest[Peer(e)] = net[Peer(e)] /\ q[n] # None
    BY <1>1, Peers DEF Ends, Packets
  <1> HIDE DEF rest, r
  <1> QED
    BY <1>2, <1>3 DEF Rest, rest, r

\* A packet that nothing is done with.
LEMMA DropStep ==
    ASSUME NoneIsNoRecord, RunInv, NEW e \in Ends, NEW rest, Rest(e, rest),
           Put(e, end[e], rest), UNCHANGED cfg
    PROVE  RunInv' /\ Continues
  <1> DEFINE k == end[e]
  <1>1. Formed(k) /\ Living(k) /\ Waking(k) /\ k.out = <<>> /\ DOMAIN k = Fields
    BY Locals
  <1>2. Local(Clear(k))
    BY <1>1, ClearLocal
  <1>3. Packets(k.out) /\ NoRekey(k.out) /\ OnlyData(k.out) /\ NoTurn(k.out)
    BY <1>1, NoOut
  <1>4. Plain(k, k)
    BY <1>1, <1>3 DEF Plain, Grows
  <1>5. Busy(Clear(k)) => Busy(k)
    <2>1. Clear(k).st = k.st /\ Clear(k).runs = k.runs /\ Clear(k).pkt = k.pkt
      BY <1>1, ClearFields DEF Keeps, Fields
    <2> QED
      BY <2>1 DEF Busy
  <1>6. TakesTurn(k, k, rest[e])
    BY <1>3, <1>5 DEF TakesTurn
  <1> QED
    BY <1>2, <1>3, <1>4, <1>5, <1>6, PutStep

\* The first exchange over TCP is going on as long as an end is linked for it.
LEMMA FirstExchange ==
    ASSUME RunInv, NEW e \in Ends, end[e].link, ~end[e].rekeying
    PROVE  ~end["i"].rekeying
  BY DEF RunInv, Rekeys, Ends

\* The end that takes a packet from the stream.
Taken(k, x, p) ==
    /\ Keeps(k, x, {"count", "retry", "pkt", "notified", "st"})
    /\ x.retry = FALSE /\ x.pkt = p
    /\ \/ x.st = k.st /\ x.notified = k.notified
       \/ x.st = "failure" /\ x.notified = TRUE

LEMMA TakenFields ==
    ASSUME NEW k, Formed(k), Living(k), Waking(k), k.link, k.out = <<>>, NEW p, NEW x, Taken(k, x, p)
    PROVE  /\ Formed(x) /\ Living(x) /\ x.link /\ ResendOk(x) /\ x.out = <<>> /\ x.runs = k.runs
           /\ x.me = k.me /\ x.rekeying = k.rekeying /\ x.st # "none"
           /\ x.st = "rekey_i_start" => x.rekeying /\ k.st = "rekey_i_start"
           /\ x.retrans = k.retrans /\ x.hist = k.hist
  <1>1. /\ DOMAIN x = Fields /\ x.me = k.me /\ x.link = k.link /\ x.runs = k.runs
        /\ x.fin = k.fin /\ x.aborted = k.aborted /\ x.timer = k.timer
        /\ x.refcnt = k.refcnt /\ x.rekeying = k.rekeying /\ x.held = k.held /\ x.null = k.null
        /\ x.out = k.out /\ x.retrans = k.retrans /\ x.hist = k.hist
    BY DEF Taken, Keeps, Fields
  <1>2. x.retry = FALSE /\ \/ x.st = k.st /\ x.notified = k.notified
                           \/ x.st = "failure" /\ x.notified = TRUE
    BY DEF Taken
  <1>3. Formed(x)
    BY <1>1, <1>2 DEF Formed, States
  <1>4. Living(x)
    BY <1>1, <1>2 DEF Living
  <1>5. x.st # "none" /\ (x.st = "rekey_i_start" => x.rekeying /\ k.st = "rekey_i_start")
    BY <1>1, <1>2 DEF Living, Waking
  <1> QED
    BY <1>1, <1>2, <1>3, <1>4, <1>5 DEF ResendOk, Waking

LEMMA ReceiveStep ==
    ASSUME NoneIsNoRecord, RunInv, NEW e \in Ends, NEW n \in DOMAIN net[e],
           cfg.udp => end[e].runs = 0, end[e].link, net[e][n].t \in Linked(end[e]),
           Put(e, PacketReceive(end[e], net[e][n]), [net EXCEPT ![e] = RemoveAt(@, n)]),
           UNCHANGED cfg
    PROVE  RunInv' /\ Continues
  <1> DEFINE k0 == end[e]
             p == net[e][n]
             rest == [net EXCEPT ![e] = RemoveAt(@, n)]
             got == [k0 EXCEPT !.count = 0, !.retry = FALSE, !.pkt = p]
             told == IF p.t = "FAILURE" THEN NotifyFailure(got) ELSE got
             gone == [got EXCEPT !.pkt = None]
             more == [told EXCEPT !.runs = @ + 1]
             l == PacketReceive(k0, p)
  <1>1. /\ Formed(k0) /\ Living(k0) /\ Waking(k0) /\ DOMAIN k0 = Fields /\ k0.me = e
        /\ k0.out = <<>> /\ k0.link
    BY Locals
  <1>2. /\ Rest(e, rest) /\ p # None
        /\ OneTurn(net[e]) /\ p.t \in Turns => NoTurn(rest[e])
    BY RestRemove
  <1>3. k0.notified \in BOOLEAN /\ (k0.notified <=> k0.st = "failure") /\ k0.runs \in Nat
        /\ k0.aborted \in BOOLEAN /\ k0.rekeying \in BOOLEAN
    BY <1>1 DEF Formed, Living
  <1>4. Taken(k0, told, p) /\ (p.t = "FAILURE" => told.st = "failure")
        /\ (p.t # "FAILURE" => told.st = k0.st /\ told.notified = k0.notified)
    BY <1>1, <1>3 DEF Taken, Keeps, Fields, NotifyFailure
  <1>5. Taken(k0, gone, None)
    BY <1>1 DEF Taken, Keeps, Fields
  <1>6. /\ Keeps(told, more, {"runs"}) /\ more.runs = told.runs + 1
    BY <1>4 DEF Taken, Keeps, Fields
  <1>7. l = CASE k0.aborted -> Aborted(gone)
              [] ~k0.aborted /\ (k0.rekeying \/ p.t = "SUCCESS") -> Run(told)
              [] OTHER -> more
    BY DEF PacketReceive
  <1>8. Put(e, l, rest) /\ (cfg.udp => k0.runs = 0) /\ p.t \in Linked(k0) /\ p = net[e][n]
    OBVIOUS
  <1> HIDE DEF k0, p, rest, got, told, gone, more, l
  <1>9. p.t \in {"SUCCESS", "FAILURE", "REKEY", "REKEY_DONE", "KEY_EXCHANGE", "KEY_EXCHANGE_1", "KEY_EXCHANGE_2"}
        /\ (~k0.rekeying => p.t = "FAILURE" \/ p.t \in Turns) /\ p.t # "DATA"
    BY <1>3, <1>8 DEF Linked, Turns
  <1>10. k0.st # "rekey_i_start"
    <2> SUFFICES ASSUME k0.st = "rekey_i_start" PROVE FALSE
      OBVIOUS
    <2>1. e = "i"
      BY <1>1 DEF Waking
    <2>2. OnlyData(net["i"])
      BY <2>1 DEF RunInv, Rekeys, k0
    <2> QED
      BY <1>8, <1>9, <2>1, <2>2 DEF OnlyData
  \* The turns of the first exchange.
  <1>11. ASSUME ~cfg.udp, ~k0.rekeying, p.t \in Turns
         PROVE  NoTurn(rest[e]) /\ NoTurn(net[Peer(e)]) /\ ~Busy(k0) /\ ~Busy(end[Peer(e)])
    <2>1. ~end["i"].rekeying
      BY <1>1, <1>11, FirstExchange DEF k0
    <2>2. ~NoTurn(net[e])
      BY <1>8, <1>11 DEF NoTurn
    <2>3. NoTurn(net[Peer(e)]) /\ ~Busy(k0) /\ ~Busy(end[Peer(e)]) /\ OneTurn(net[e])
      BY <1>11, <2>1, <2>2, Turns1 DEF k0
    <2> QED
      BY <1>2, <1>11, <2>3
  <1>12. \/ k0.runs = 0
         \/ k0.st = "failure"
         \/ p.t = "FAILURE"
         \/ k0.st = "r_start" /\ k0.runs = 1 /\ ~cfg.udp /\ ~k0.rekeying
    <2>1. CASE cfg.udp
      BY <1>8, <2>1
    <2>2. CASE k0.rekeying
      BY <1>1, <1>10, <2>2 DEF Waking, One
    <2>3. CASE ~cfg.udp /\ ~k0.rekeying /\ p.t # "FAILURE" /\ k0.st # "failure" /\ k0.runs > 0
      <3>1. ~Busy(k0)
        BY <1>9, <1>11, <2>3
      <3>2. k0.st \notin Reads /\ k0.st # "i_start" /\ k0.st # "none"
        BY <1>1, <2>3, <3>1 DEF Busy, Waking, Living
      <3>3. k0.st = "r_start"
        BY <1>1, <1>10, <2>3, <3>2 DEF Formed, States
      <3>4. k0.runs <= 2 /\ (k0.runs > 1 => k0.pkt # None)
        BY <1>1, <3>3 DEF Waking
      <3>5. k0.runs = 1
        BY <1>3, <2>3, <3>1, <3>3, <3>4 DEF Busy
      <3> QED
        BY <2>3, <3>3, <3>5
    <2> QED
      BY <1>3, <2>1, <2>2, <2>3
  <1>13. CASE k0.aborted
    <2>1. /\ Formed(gone) /\ Living(gone) /\ gone.link /\ ResendOk(gone) /\ gone.out = <<>>
          /\ gone.me = k0.me /\ gone.rekeying = k0.rekeying /\ gone.hist = k0.hist
          /\ gone.st = "rekey_i_start" => gone.rekeying /\ k0.st = "rekey_i_start"
      BY <1>1, <1>5, TakenFields
    <2>2. Over(gone, l) /\ Moves(gone, l, 1) /\ NoTurn(l.out)
      BY <1>7, <1>13, <2>1, AbortedOver
    <2>3. l.st = "none"
      BY <2>2 DEF Over
    <2>4. /\ Local(Clear(l)) /\ Clear(l).me = gone.me /\ Clear(l).rekeying = gone.rekeying
          /\ Clear(l).st = l.st /\ DOMAIN l = Fields
      BY <2>1, <2>2, <2>3, MovesLocal DEF Reads
    <2>5. l.me = k0.me /\ l.rekeying = k0.rekeying /\ Grows(k0, l)
      BY <2>1, <2>2 DEF Over, Grows
    <2>6. Packets(l.out) /\ NoRekey(l.out)
      <3>1. OutOk(gone, l.out, 1)
        BY <2>2 DEF Moves
      <3> QED
        BY <1>10, <2>1, <3>1, OutPackets
    <2>7. Plain(k0, l)
      BY <1>1, <2>3, <2>4, <2>5, <2>6 DEF Plain
    <2>8. ~Busy(Clear(l))
      BY <2>3, <2>4 DEF Busy, Reads
    <2>9. TakesTurn(k0, l, rest[e])
      BY <2>2, <2>8 DEF TakesTurn
    <2> QED
      BY <1>2, <1>8, <2>2, <2>4, <2>6, <2>7, <2>8, <2>9, PutStep DEF k0
  <1>14. CASE ~k0.aborted /\ (k0.rekeying \/ p.t = "SUCCESS")
    <2>1. /\ Formed(told) /\ Living(told) /\ told.link /\ ResendOk(told) /\ told.out = <<>>
          /\ told.runs = k0.runs /\ told.me = k0.me /\ told.rekeying = k0.rekeying
          /\ told.st # "none" /\ told.st # "rekey_i_start" /\ told.hist = k0.hist
      BY <1>1, <1>4, <1>10, TakenFields
    <2>2. told.pkt = p
      BY <1>4 DEF Taken
    <2>3. Runnable(told)
      BY <1>2, <2>1, <2>2 DEF Runnable
    <2>4. l = Run(told)
      BY <1>7, <1>14
    <2>5. \/ told.runs = 0
          \/ told.st = "failure"
          \/ told.st = "r_start" /\ told.runs = 1 /\ told.pkt # None /\ ~cfg.udp /\ ~told.rekeying
      <3>1. told.st = "failure" \/ told.st = k0.st
        BY <1>4 DEF Taken
      <3>2. k0.st = "failure" => told.st = "failure"
        BY <3>1
      <3> QED
        BY <1>2, <1>4, <1>12, <2>1, <2>2, <3>1, <3>2
    <2>6. /\ DOMAIN l = Fields /\ l.me = told.me /\ l.rekeying = told.rekeying /\ Grows(told, l)
          /\ Local(Clear(l)) /\ l.st \in Reads \cup {"none"}
          /\ Packets(l.out) /\ Len(l.out) <= Bound(told)
          /\ told.st # "rekey_i_start" => NoRekey(l.out)
          /\ told.st \in {"failure", "r_start"} => NoTurn(l.out)
          /\ Busy(Clear(l)) => told.st = "r_start" /\ told.runs = 1
      BY <2>1, <2>3, <2>4, <2>5, RunStep
    <2>7. Plain(k0, l)
      <3>1. l.st # "rekey_i_start"
        BY <2>6 DEF Reads
      <3> QED
        BY <1>1, <2>1, <2>6, <3>1 DEF Plain, Grows
    <2>8. ASSUME ~cfg.udp, ~end["i"].rekeying
          PROVE  /\ TakesTurn(k0, l, rest[e])
                 /\ NoTurn(net[Peer(e)]) /\ ~Busy(end[Peer(e)])
      <3>1. ~k0.rekeying
        BY <2>8 DEF RunInv, Rekeys, Ends, k0
      <3>2. NoTurn(rest[e]) /\ NoTurn(net[Peer(e)]) /\ ~Busy(end[Peer(e)])
        BY <1>11, <1>14, <2>8, <3>1 DEF Turns
      <3>3. NoTurn(l.out) \/ (~Busy(Clear(l)) /\ Len(l.out) <= 1)
        BY <2>1, <2>6, <3>1 DEF Bound
      <3> QED
        BY <3>2, <3>3 DEF TakesTurn
    <2> QED
      BY <1>2, <1>8, <2>6, <2>7, <2>8, PutStep DEF k0
  <1>15. CASE ~k0.aborted /\ ~k0.rekeying /\ p.t # "SUCCESS"
    <2>1. /\ Formed(told) /\ Living(told) /\ told.link /\ ResendOk(told) /\ told.out = <<>>
          /\ told.runs = k0.runs /\ told.me = k0.me /\ told.rekeying = k0.rekeying
          /\ told.st # "none" /\ told.st # "rekey_i_start" /\ told.retrans = k0.retrans
          /\ told.hist = k0.hist
      BY <1>1, <1>4, <1>10, TakenFields
    <2>2. told.pkt = p /\ told.retry = FALSE /\ (told.st = k0.st \/ told.st = "failure")
      BY <1>4 DEF Taken
    <2>3. l = more
      BY <1>7, <1>15
    <2>4. /\ DOMAIN l = Fields /\ l.me = told.me /\ l.st = told.st /\ l.link = told.link
          /\ l.fin = told.fin /\ l.timer = told.timer /\ l.runs = told.runs + 1 /\ l.retry = told.retry
          /\ l.pkt = told.pkt /\ l.notified = told.notified /\ l.aborted = told.aborted
          /\ l.refcnt = told.refcnt /\ l.rekeying = told.rekeying /\ l.held = told.held
          /\ l.null = told.null /\ l.retrans = told.retrans /\ l.out = told.out
          /\ l.hist = told.hist
      BY <1>6, <2>3 DEF Keeps, Fields
    <2>5. Formed(l)
      BY <1>3, <2>1, <2>4 DEF Formed
    <2>6. Living(l)
      BY <2>1, <2>4 DEF Living
    <2>7. k0.st = "i_start" => told.st = "failure"
      <3>1. CASE p.t = "FAILURE"
        BY <1>4, <3>1
      <3>2. CASE p.t # "FAILURE"
        <4>1. p.t \in Turns
          BY <1>9, <1>15, <3>2
        <4>2. k0.st = "i_start" => Busy(k0) /\ k0.runs = 1
          BY <1>1 DEF Busy, Waking
        <4> QED
          BY <1>8, <1>11, <1>15, <4>1, <4>2
      <3> QED
        BY <3>1, <3>2
    <2>8. told.st = "failure" \/ k0.runs = 0 \/ (told.st = "r_start" /\ k0.runs = 1 /\ ~cfg.udp)
      BY <1>4, <1>12, <2>2
    <2>9. Waking(l)
      <3>1. l.retry = FALSE /\ l.pkt # None /\ l.retrans = k0.retrans /\ l.st = told.st /\ l.runs = k0.runs + 1
            /\ ~l.rekeying
        BY <1>2, <1>15, <2>1, <2>2, <2>4
      <3>2. l.st # "i_start" /\ l.st # "rekey_i_start"
        BY <2>1, <2>2, <2>7, <3>1
      <3>3. l.runs > 1 => l.st \in {"r_start", "failure"}
        BY <1>3, <2>8, <3>1
      <3>4. l.st = "r_start" => l.runs <= 2
        BY <1>3, <2>8, <3>1
      <3>5. cfg.udp => l.runs <= 1
        BY <1>3, <1>8, <3>1
      <3>6. k0.retrans # None => k0.retrans.t \notin {"REKEY", "FAILURE"}
        BY <1>1 DEF Waking
      <3> QED
        BY <3>1, <3>2, <3>3, <3>4, <3>5, <3>6 DEF Waking
    <2>10. Local(Clear(l))
      BY <2>5, <2>6, <2>9, ClearLocal
    <2>11. Packets(l.out) /\ NoRekey(l.out) /\ NoTurn(l.out)
      BY <2>1, <2>4, NoOut
    <2>12. Plain(k0, l)
      BY <1>1, <2>1, <2>4, <2>11 DEF Plain, Grows
    <2>13. ASSUME ~cfg.udp, ~end["i"].rekeying
           PROVE  /\ TakesTurn(k0, l, rest[e])
                  /\ ~(NoTurn(l.out) /\ (Busy(Clear(l)) => Busy(k0))) =>
                        NoTurn(net[Peer(e)]) /\ ~Busy(end[Peer(e)])
      <3>1. CASE p.t = "FAILURE"
        <4>1. Clear(l).st = "failure"
          BY <1>4, <2>4, <3>1, ClearFields DEF Keeps, Fields
        <4>2. ~Busy(Clear(l))
          BY <4>1 DEF Busy, Reads
        <4> QED
          BY <2>11, <4>2 DEF TakesTurn
      <3>2. CASE p.t # "FAILURE"
        <4>1. NoTurn(rest[e]) /\ NoTurn(net[Peer(e)]) /\ ~Busy(end[Peer(e)])
          BY <1>9, <1>11, <1>15, <2>13, <3>2
        <4> QED
          BY <2>11, <4>1 DEF TakesTurn
      <3> QED
        BY <3>1, <3>2
    <2> QED
      BY <1>2, <1>8, <2>10, <2>11, <2>12, <2>13, PutStep DEF k0
  <1> QED
    BY <1>3, <1>13, <1>14, <1>15

\* x is k with a re-key begun in state st.
Begun(k, x, st, p) ==
    /\ DOMAIN x = Fields /\ x.me = k.me /\ x.st = st /\ x.link = TRUE /\ x.runs = 0
    /\ x.fin = k.fin /\ x.timer = k.timer /\ x.retry = k.retry /\ x.retrans = k.retrans
    /\ x.pkt = p /\ x.notified = FALSE /\ x.aborted = FALSE /\ x.refcnt = 2
    /\ x.rekeying = TRUE /\ x.held = k.held /\ x.null = k.null /\ x.out = k.out
    /\ x.hist = k.hist

LEMMA StartedFields ==
    ASSUME NEW k, DOMAIN k = Fields, NEW st, NEW p
    PROVE  Begun(k, Started(k, st, TRUE, p), st, p)
  BY DEF Begun, Started, Fields

\* The responder begins a re-key.
LEMMA ServerRekeyStep ==
    ASSUME NoneIsNoRecord, RunInv, NEW e \in Ends, NEW n \in DOMAIN net[e],
           ~end[e].link, net[e][n].t = "REKEY",
           Put(e, ServerRekey(end[e], net[e][n]), [net EXCEPT ![e] = RemoveAt(@, n)]),
           UNCHANGED cfg
    PROVE  /\ RunInv' /\ Continues
           /\ \/ end'["r"].rekeying
              \/ Put(e, end[e], [net EXCEPT ![e] = RemoveAt(@, n)])
  <1> DEFINE k0 == end[e]
             p == net[e][n]
             rest == [net EXCEPT ![e] = RemoveAt(@, n)]
             x == Started(k0, "rekey_r_start", TRUE, p)
             k == [x EXCEPT !.st = "r_phase2"]
             l == RekeyResponderStart(x)
  <1>1. /\ Formed(k0) /\ Living(k0) /\ Waking(k0) /\ DOMAIN k0 = Fields /\ k0.me = e
        /\ k0.out = <<>> /\ ~k0.link /\ ResendOk(k0)
    BY Locals
  <1>2. Rest(e, rest) /\ p # None
    BY RestRemove
  <1>3. e = "r" /\ end["i"].rekeying /\ end["i"].st # "rekey_i_start" /\ ~cfg.udp
    <2>1. Rekeys /\ ~NoRekey(net[e]) /\ ~OnlyData(net[e])
      BY DEF RunInv, NoRekey, OnlyData
    <2> QED
      BY <2>1 DEF Rekeys, Ends
  <1>4. Put(e, k0, rest) \/ Put(e, l, rest)
    BY DEF ServerRekey
  <1>5. CASE Put(e, k0, rest)
    BY <1>2, <1>5, DropStep
  <1>6. CASE Put(e, l, rest)
    <2>1. /\ DOMAIN x = Fields /\ x.me = k0.me /\ x.st = "rekey_r_start" /\ x.link = TRUE /\ x.runs = 0
          /\ x.fin = k0.fin /\ x.timer = k0.timer /\ x.retry = k0.retry /\ x.retrans = k0.retrans
          /\ x.pkt = p /\ x.notified = FALSE /\ x.aborted = FALSE /\ x.refcnt = 2
          /\ x.rekeying = TRUE /\ x.held = k0.held /\ x.null = k0.null /\ x.out = k0.out
          /\ x.hist = k0.hist
      <3>1. Begun(k0, x, "rekey_r_start", p)
        BY <1>1, StartedFields
      <3> HIDE DEF x, k0, p
      <3> QED
        BY <3>1 DEF Begun
    <2> HIDE DEF x, k0, rest, p
    <2>2. Keeps(k, x, Work) /\ Keeps(x, k, {"st"}) /\ k.st = "r_phase2"
      BY <2>1 DEF Keeps, Fields, Work
    <2>3. /\ DOMAIN k = Fields /\ k.me = x.me /\ k.link = x.link /\ k.runs = x.runs
          /\ k.fin = x.fin /\ k.timer = x.timer /\ k.retry = x.retry /\ k.retrans = x.retrans
          /\ k.pkt = x.pkt /\ k.notified = x.notified /\ k.aborted = x.aborted /\ k.refcnt = x.refcnt
          /\ k.rekeying = x.rekeying /\ k.held = x.held /\ k.null = x.null /\ k.out = x.out
          /\ k.hist = x.hist
      BY <2>2 DEF Keeps, Fields
    <2> HIDE DEF k
    <2>4. Formed(k)
      <3>1. k.refcnt \in Int /\ k.runs \in Nat /\ k.st \in States
        BY <2>1, <2>2, <2>3 DEF States, Reads
      <3>2. k.link \in BOOLEAN /\ k.notified \in BOOLEAN /\ k.aborted \in BOOLEAN /\ k.rekeying \in BOOLEAN
        BY <2>1, <2>3
      <3>3. k.fin = k0.fin /\ k.timer = k0.timer /\ k.retry = k0.retry /\ k.held = k0.held /\ k.null = k0.null
        BY <2>1, <2>3
      <3> QED
        BY <1>1, <2>3, <3>1, <3>2, <3>3, Zenon DEF Formed
    <2>5. Living(k)
      BY <1>1, <2>1, <2>2, <2>3 DEF Living, One, Formed
    <2>6. Near(k, x, 0)
      <3>1. OutOk(k, x.out, 0)
        BY <1>1, <2>1, NoPackets DEF OutOk
      <3>2. x.timer \in BOOLEAN /\ x.retry \in BOOLEAN /\ ResendOk(x)
        BY <1>1, <2>1 DEF Formed, ResendOk
      <3> QED
        BY <2>2, <2>3, <3>1, <3>2 DEF Near
    <2>7. Moves(k, l, 0 + 1)
      BY <2>4, <2>6, RekeyResponderStartMoves
    <2> HIDE DEF l
    <2>8. /\ Local(Clear(l)) /\ Clear(l).me = k.me /\ Clear(l).rekeying = k.rekeying
          /\ DOMAIN l = Fields
      BY <2>1, <2>2, <2>3, <2>4, <2>5, <2>7, MovesLocal
    <2>9. Packets(l.out) /\ NoRekey(l.out)
      <3>1. OutOk(k, l.out, 0 + 1)
        BY <2>7 DEF Moves
      <3> QED
        BY <2>2, <3>1, OutPackets
    <2>10. /\ DOMAIN end = Ends /\ DOMAIN net = Ends /\ DOMAIN rest = Ends /\ rest["i"] = net["i"]
           /\ Packets(net["i"]) /\ Packets(rest["r"])
      BY <1>2, <1>3, Peers DEF RunInv, Shapes, Rest, Ends
    <2>11. /\ end'["r"] = Clear(l) /\ end'["i"] = end["i"] /\ net'["r"] = rest["r"]
           /\ net'["i"] = net["i"] \o l.out /\ DOMAIN end' = Ends /\ DOMAIN net' = Ends
      <3>1. end' = [end EXCEPT !["r"] = Clear(l)] /\ net' = [rest EXCEPT !["i"] = @ \o l.out]
        BY <1>3, <1>6, Peers DEF Put, Clear
      <3>2. "i" \in Ends /\ "r" \in Ends /\ "i" # "r"
        BY DEF Ends
      <3> QED
        BY <2>10, <3>1, <3>2
    <2>12. /\ Packets(net'["i"])
           /\ NoRekey(net["i"]) => NoRekey(net'["i"])
      BY <2>9, <2>10, <2>11, ConcatQueue
    <2>13. Shapes'
      <3>1. cfg' \in Configs /\ end["i"].me = "i"
        BY DEF RunInv, Shapes, Ends
      <3>2. end'["r"].me = "r" /\ end'["i"].me = "i"
        BY <1>1, <1>3, <2>1, <2>3, <2>8, <2>11, <3>1
      <3>3. Packets(net'["r"]) /\ Packets(net'["i"])
        BY <2>10, <2>11, <2>12
      <3> QED
        BY <2>11, <3>1, <3>2, <3>3 DEF Shapes, Ends
    <2>14. (\A g \in Ends : Local(end[g]))'
      <3>1. \A g \in Ends : Local(end'[g])
        BY <2>8, <2>11 DEF RunInv, Ends
      <3> QED
        BY <3>1 DEF Local, Waking
    <2>15. Rekeys'
      BY <1>3, <2>1, <2>3, <2>8, <2>11, <2>12 DEF Rekeys, RunInv
    <2>16. end'["r"].rekeying /\ Continues
      <3>1. Grows(k, l)
        BY <2>7 DEF Moves, Over, Near, Keeps, Fields, Work, Grows
      <3>2. Clear(l).hist = l.hist
        BY <2>8, ClearFields DEF Keeps, Fields
      <3>3. Grows(end["r"], end'["r"]) /\ Grows(end["i"], end'["i"])
        BY <1>3, <2>1, <2>3, <2>11, <3>1, <3>2 DEF Grows, k0
      <3> QED
        BY <2>1, <2>3, <2>8, <2>11, <3>3 DEF Continues, Ends
    <2> QED
      BY <1>3, <2>11, <2>13, <2>14, <2>15, <2>16 DEF RunInv
  <1> QED
    BY <1>4, <1>5, <1>6

LEMMA DeliverStep ==
    ASSUME NoneIsNoRecord, RunInv, NEW e \in Ends, NEW n \in DOMAIN net[e], Deliver(e, n)
    PROVE  RunInv' /\ Continues
  <1> DEFINE k == end[e]
             p == net[e][n]
             rest == [net EXCEPT ![e] = RemoveAt(@, n)]
  <1>1. Rest(e, rest) /\ cfg' = cfg /\ (cfg.udp => k.runs = 0)
    BY RestRemove DEF Deliver
  <1>2. \/ Put(e, k, rest)
        \/ k.link /\ p.t \in Linked(k) /\ Put(e, PacketReceive(k, p), rest)
        \/ ~k.link /\ p.t = "REKEY" /\ Put(e, ServerRekey(k, p), rest)
    <2>1. Put(e, IF p.key = k.recv THEN Dispatch(k, p) ELSE k, rest)
      BY DEF Deliver
    <2> HIDE DEF k, p, rest
    <2> QED
      BY <2>1 DEF Dispatch
  <1>3. CASE Put(e, k, rest)
    BY <1>1, <1>3, DropStep
  <1>4. CASE k.link /\ p.t \in Linked(k) /\ Put(e, PacketReceive(k, p), rest)
    BY <1>1, <1>4, ReceiveStep
  <1>5. CASE ~k.link /\ p.t = "REKEY" /\ Put(e, ServerRekey(k, p), rest)
    BY <1>1, <1>5, ServerRekeyStep
  <1> QED
    BY <1>2, <1>3, <1>4, <1>5

LEMMA NetworkStep ==
    ASSUME RunInv, NEW e \in Ends, NEW n \in DOMAIN net[e], Lose(e, n) \/ Duplicate(e, n)
    PROVE  RunInv' /\ Continues
  <1>1. cfg.udp /\ cfg' = cfg /\ end' = end
    BY DEF Lose, Duplicate
  <1>2. DOMAIN net = Ends /\ Packets(net[e]) /\ (\A g \in Ends : Packets(net[g]))
    BY DEF RunInv, Shapes
  <1>3. /\ DOMAIN net' = Ends /\ \A g \in Ends \ {e} : net'[g] = net[g]
        /\ Packets(net'[e]) /\ (NoRekey(net[e]) => NoRekey(net'[e]))
    <2>1. CASE Lose(e, n)
      <3>1. net' = [net EXCEPT ![e] = RemoveAt(net[e], n)]
        BY <2>1 DEF Lose
      <3> QED
        BY <1>2, <3>1, RemoveQueue
    <2>2. CASE Duplicate(e, n)
      <3> DEFINE q == net[e]
      <3>1. net' = [net EXCEPT ![e] = Append(q, q[n])]
        BY <2>2 DEF Duplicate
      <3>2. q[n] # None /\ IsSeq(q)
        BY <1>2 DEF Packets
      <3>3. /\ IsSeq(Append(q, q[n]))
            /\ \A j \in DOMAIN Append(q, q[n]) :
                 (j \in DOMAIN q /\ Append(q, q[n])[j] = q[j]) \/ Append(q, q[n])[j] = q[n]
        BY <3>2, AppendSeq
      <3>4. Packets(Append(q, q[n])) /\ (NoRekey(q) => NoRekey(Append(q, q[n])))
        BY <1>2, <3>3 DEF Packets, NoRekey
      <3> QED
        BY <1>2, <3>1, <3>4
    <2> QED
      BY <2>1, <2>2
  <1>4. Shapes'
    BY <1>1, <1>2, <1>3 DEF RunInv, Shapes
  <1>5. (\A g \in Ends : Local(end[g]))'
    BY <1>1 DEF RunInv, Local, Waking
  <1>6. Rekeys'
    <2>1. Rekeys /\ ~end["i"].rekeying
      BY <1>1 DEF RunInv, Rekeys
    <2>2. end["i"].st # "rekey_i_start"
      BY <2>1, Locals DEF Waking, Ends
    <2> QED
      BY <1>1, <1>3, <2>1, <2>2 DEF Rekeys, Ends
  <1> QED
    BY <1>1, <1>4, <1>5, <1>6 DEF RunInv, Continues, Grows, Ends

LEMMA DoRekeyStep ==
    ASSUME RunInv, DoRekey
    PROVE  RunInv' /\ Continues
  <1> DEFINE k == end["i"]
             x == Started(k, "rekey_i_start", TRUE, None)
             l == [x EXCEPT !.runs = 1]
  <1>1. /\ Formed(k) /\ Living(k) /\ Waking(k) /\ DOMAIN k = Fields /\ k.me = "i" /\ k.out = <<>>
    BY Locals DEF Ends
  <1>2. /\ ~cfg.udp /\ cfg' = cfg /\ Put("i", l, net)
        /\ ~k.link /\ ~k.fin /\ ~k.held /\ ~end["r"].link
        /\ OnlyData(net["i"]) /\ OnlyData(net["r"])
    BY DEF DoRekey, Ends, OnlyData
  <1>3. /\ DOMAIN x = Fields /\ x.me = k.me /\ x.st = "rekey_i_start" /\ x.link = TRUE /\ x.runs = 0
        /\ x.fin = k.fin /\ x.timer = k.timer /\ x.retry = k.retry /\ x.retrans = k.retrans
        /\ x.pkt = None /\ x.notified = FALSE /\ x.aborted = FALSE /\ x.refcnt = 2
        /\ x.rekeying = TRUE /\ x.held = k.held /\ x.null = k.null /\ x.out = k.out
        /\ x.hist = k.hist
    <2>1. Begun(k, x, "rekey_i_start", None)
      BY <1>1, StartedFields
    <2> HIDE DEF x, k
    <2> QED
      BY <2>1 DEF Begun
  <1> HIDE DEF x, k
  <1>4. Keeps(x, l, {"runs"}) /\ l.runs = 1
    BY <1>3 DEF Keeps, Fields
  <1> HIDE DEF l
  <1>5. /\ DOMAIN l = Fields /\ l.me = "i" /\ l.st = "rekey_i_start" /\ l.link = TRUE
        /\ l.fin = k.fin /\ l.timer = k.timer /\ l.retry = k.retry /\ l.retrans = k.retrans
        /\ l.pkt = None /\ l.notified = FALSE /\ l.aborted = FALSE /\ l.refcnt = 2
        /\ l.rekeying = TRUE /\ l.held = k.held /\ l.null = k.null /\ l.out = <<>>
        /\ l.hist = k.hist
    BY <1>1, <1>3, <1>4 DEF Keeps, Fields
  <1>6. Formed(l)
    <2>1. l.refcnt \in Int /\ l.runs \in Nat /\ l.st \in States
      BY <1>4, <1>5 DEF States
    <2>2. l.link \in BOOLEAN /\ l.notified \in BOOLEAN /\ l.aborted \in BOOLEAN /\ l.rekeying \in BOOLEAN
      BY <1>5
    <2> QED
      BY <1>1, <1>5, <2>1, <2>2, Zenon DEF Formed
  <1>7. Living(l)
    BY <1>1, <1>2, <1>5 DEF Living, One, Formed
  <1>8. ~k.retry
    BY <1>1, <1>2 DEF Living
  <1>9. Waking(l)
    BY <1>1, <1>2, <1>4, <1>5, <1>8 DEF Waking, One, Reads
  <1>10. Local(Clear(l))
    BY <1>6, <1>7, <1>9, ClearLocal
  <1>11. /\ Clear(l).me = "i" /\ Clear(l).rekeying = TRUE /\ Clear(l).st = "rekey_i_start"
         /\ Clear(l).hist = k.hist
    <2>1. Keeps(l, Clear(l), {"out"})
      BY <1>5, ClearFields
    <2> QED
      BY <1>5, <2>1 DEF Keeps, Fields
  <1>12. /\ end'["i"] = Clear(l) /\ end'["r"] = end["r"] /\ DOMAIN end' = Ends /\ DOMAIN net' = Ends
         /\ net'["i"] = net["i"] /\ net'["r"] = net["r"] \o <<>>
    <2>1. DOMAIN end = Ends /\ DOMAIN net = Ends
      BY DEF RunInv, Shapes
    <2> QED
      BY <1>2, <1>5, <2>1, Peers DEF Put, Clear, Ends
  <1>13. /\ Packets(net'["r"]) /\ NoRekey(net'["r"]) /\ OnlyData(net'["r"])
         /\ Packets(net'["i"]) /\ NoRekey(net'["i"]) /\ OnlyData(net'["i"])
    <2>1. /\ Packets(net["i"]) /\ Packets(net["r"])
          /\ NoRekey(net["i"]) /\ NoRekey(net["r"])
      BY <1>2 DEF RunInv, Shapes, Ends, OnlyData, NoRekey
    <2> QED
      BY <1>2, <1>12, <2>1, NoOut, ConcatQueue
  <1>14. Shapes'
    BY <1>2, <1>11, <1>12, <1>13 DEF Shapes, RunInv, Ends
  <1>15. (\A g \in Ends : Local(end[g]))'
    <2>1. \A g \in Ends : Local(end'[g])
      BY <1>10, <1>12 DEF RunInv, Ends
    <2> QED
      BY <1>2, <2>1 DEF Local, Waking
  <1>16. Rekeys'
    BY <1>2, <1>11, <1>12, <1>13 DEF Rekeys, RunInv
  <1>17. Continues
    BY <1>11, <1>12 DEF Continues, Ends, Grows, k
  <1> QED
    BY <1>11, <1>12, <1>14, <1>15, <1>16, <1>17 DEF RunInv

LEMMA RunInit == Init => RunInv
  <1> SUFFICES ASSUME Init PROVE RunInv
    OBVIOUS
  <1> DEFINE x(e) == [Started(Idle(e), IF e = "i" THEN "i_start" ELSE "r_start", FALSE, None)
                        EXCEPT !.runs = 1]
  <1>1. /\ cfg \in Configs /\ end = [e \in Ends |-> x(e)] /\ net = [e \in Ends |-> <<>>]
    BY DEF Init
  <1>2. ASSUME NEW e \in Ends
        PROVE  /\ DOMAIN x(e) = Fields /\ x(e).me = e /\ x(e).runs = 1 /\ x(e).link = TRUE
               /\ x(e).st = (IF e = "i" THEN "i_start" ELSE "r_start")
               /\ x(e).fin = FALSE /\ x(e).timer = FALSE /\ x(e).retry = FALSE /\ x(e).retrans = None
               /\ x(e).pkt = None /\ x(e).notified = FALSE /\ x(e).aborted = FALSE
               /\ x(e).refcnt = 2 /\ x(e).rekeying = FALSE /\ x(e).held = FALSE
               /\ x(e).null = FALSE /\ x(e).out = <<>>
    BY DEF Started, Idle, Fields
  <1> HIDE DEF x
  <1>3. ASSUME NEW e \in Ends PROVE Local(x(e))
    <2> DEFINE y == x(e)
    <2>1. /\ DOMAIN y = Fields /\ y.me = e /\ y.runs = 1 /\ y.out = <<>>
          /\ y.st \in {"i_start", "r_start"} /\ y.refcnt = 2
          /\ y.retrans = None /\ y.pkt = None
      BY <1>2
    <2>2. y.link /\ ~y.fin /\ ~y.timer /\ ~y.retry /\ ~y.notified /\ ~y.aborted /\ ~y.rekeying
          /\ ~y.held /\ ~y.null
      BY <1>2
    <2>3. /\ y.link \in BOOLEAN /\ y.fin \in BOOLEAN /\ y.timer \in BOOLEAN /\ y.retry \in BOOLEAN
          /\ y.notified \in BOOLEAN /\ y.aborted \in BOOLEAN /\ y.rekeying \in BOOLEAN
          /\ y.held \in BOOLEAN /\ y.null \in BOOLEAN
      BY <1>2
    <2> HIDE DEF y
    <2>4. /\ y.st \in States /\ y.st \notin Reads /\ y.refcnt \in Int /\ y.runs \in Nat
          /\ y.st \notin {"none", "failure", "rekey_i_start"}
      BY <2>1 DEF States, Reads
    <2>5. Formed(y)
      BY <2>1, <2>3, <2>4 DEF Formed
    <2>6. Living(y)
      BY <2>1, <2>2, <2>4 DEF Living, One
    <2>7. Waking(y)
      BY <2>1, <2>2, <2>4 DEF Waking
    <2> QED
      BY <2>1, <2>5, <2>6, <2>7 DEF Local, y
  <1>4. Shapes
    BY <1>1, <1>2, NoOut DEF Shapes
  <1>5. Busy(end["i"]) /\ ~Busy(end["r"])
    BY <1>1, <1>2 DEF Busy, Ends
  <1>6. InTurn
    <2>1. \A e \in Ends : NoTurn(net[e]) /\ OneTurn(net[e])
      BY <1>1, NoOut, NoPackets DEF OneTurn
    <2>2. NoTurn(net["i"]) /\ NoTurn(net["r"])
      BY <2>1 DEF Ends
    <2> QED
      BY <1>5, <2>1, <2>2, Peers DEF InTurn, Ends
  <1>7. Rekeys
    BY <1>1, <1>2, NoOut DEF Rekeys, Ends
  <1> QED
    BY <1>1, <1>3, <1>4, <1>6, <1>7 DEF RunInv

\* One step per action: each preserves the invariant.
LEMMA RunNext ==
    ASSUME NoneIsNoRecord, RunInv, [Next]_vars
    PROVE  RunInv' /\ Continues
  <1>1. CASE DoRekey
    BY <1>1, DoRekeyStep
  <1>2. CASE \E e \in Ends : FsmRun(e)
    BY <1>2, FsmRunStep
  <1>3. CASE \E e \in Ends : Timeout(e)
    BY <1>3, TimeoutStep
  <1>4. CASE \E e \in Ends : Retry(e)
    BY <1>4, RetryStep
  <1>5. CASE \E e \in Ends : Finished(e) \/ OwnerFree(e) \/ Abort(e)
    BY <1>5, FinishedStep
  <1>6. CASE \E e \in Ends : SendData(e)
    BY <1>6, SendDataStep
  <1>7. CASE \E e \in Ends : \E n \in DOMAIN net[e] : Deliver(e, n)
    BY <1>7, DeliverStep
  <1>8. CASE \E e \in Ends : \E n \in DOMAIN net[e] : Lose(e, n) \/ Duplicate(e, n)
    BY <1>8, NetworkStep
  <1>9. CASE UNCHANGED vars
    <2>1. RunInv'
      BY <1>9 DEF vars, RunInv, Shapes, Local, Formed, Living, Waking, InTurn, Rekeys
    <2>2. Continues
      BY <1>9 DEF vars, Continues, Grows, Ends
    <2> QED
      BY <2>1, <2>2
  <1> QED
    BY <1>1, <1>2, <1>3, <1>4, <1>5, <1>6, <1>7, <1>8, <1>9 DEF Next

\* Every state of the exchange satisfies the inductive invariant.
THEOREM RunCorrect ==
    ASSUME NoneIsNoRecord
    PROVE  Spec => []RunInv
  BY RunInit, RunNext, PTL DEF Spec

\* The machine of silcske.c never runs after its end nor without the packet
\* its state reads, and no task, link or destructor of a freed SilcSKE is left.
THEOREM ContextCorrect ==
    ASSUME NoneIsNoRecord
    PROVE  Spec => []ContextSafe
  <1>1. RunInv => ContextSafe
    <2> SUFFICES ASSUME RunInv, NEW e \in Ends
                 PROVE  /\ ~end[e].null
                        /\ end[e].refcnt = 0 =>
                              /\ end[e].runs = 0 /\ ~end[e].link /\ ~end[e].timer
                              /\ ~end[e].retry /\ ~end[e].fin
      BY DEF ContextSafe
    <2>1. Formed(end[e]) /\ Living(end[e])
      BY Locals
    <2> QED
      BY <2>1 DEF Formed, Living, One
  <1> QED
    BY <1>1, RunCorrect, PTL

=============================================================================
