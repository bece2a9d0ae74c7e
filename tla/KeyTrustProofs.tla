--------------------------- MODULE KeyTrustProofs ---------------------------
(***************************************************************************)
(* What the two ends of the first exchange agree on and have verified,     *)
(* that over all re-keys they take the same key materials into use, and    *)
(* that undisturbed they stay in step and end alike, for every connection  *)
(* and every bound.                                                        *)
(***************************************************************************)
EXTENDS KeyExchangeProofs, WellFoundedInduction

\* The responder's answer is one it may give.
Proper(k) ==
    /\ cfg.required \cap {"MUTUAL", "PFS"} \subseteq k.prop.flags
    /\ \A c \in ClassNames \ {"PKCS"} : k.prop.alg[c] \in cfg.supported[c]

\* The responder has verified the initiator, and the initiator the responder.
Trusted(k) ==
    /\ cfg.accepts["r"]
    /\ "MUTUAL" \in k.prop.flags => k.ke1.sign = [by |-> "i", of |-> HashI(k)]
Verified(k) == cfg.accepts["i"] /\ k.ke2.sign = [by |-> "r", of |-> Hash(k)]

InitiatorStates == {"i_start", "i_phase1", "i_phase3", "i_end"}
ResponderStates == {"r_start", "r_phase1", "r_phase2", "r_end"}

\* What the packets of the first exchange carry.
Genuine(p) ==
    /\ p.t = "FAILURE" => p.body.status # "OK"
    /\ p.t = "KEY_EXCHANGE_1" => p.body.x = <<"i", 1>>
    /\ p.t = "KEY_EXCHANGE_2" => p.body.x = <<"r", 1>>

\* A packet that waits to be processed.
Waits(k, p) ==
    /\ p.t = "SUCCESS" => ~cfg.udp /\ k.st = "r_phase1"
    /\ Genuine(p)

\* The first key material, and what a re-key will start from.
FirstKey == {<<"i", 1>>, <<"r", 1>>}
Renewal(k) == [pfs |-> "PFS" \in k.prop.flags, of |-> <<FirstKey>>]

\* The key material of an end of the first exchange.
Material(k) ==
    /\ k.round = 1
    /\ k.st \in {"i_phase3", "i_end"} => k.ke1.x = <<"i", 1>>
    /\ k.st = "i_end" => k.keymat = <<FirstKey>> /\ k.rekey = Renewal(k)
    /\ k.st = "r_end" => k.KEY = FirstKey
    /\ k.done = "ok" => k.hist # <<>>
    /\ k.hist # <<>> =>
          /\ k.hist = <<<<FirstKey>>>> /\ k.rekey = Renewal(k)
          /\ k.send = Key(<<FirstKey>>, k.me)
          /\ k.recv = Key(<<FirstKey>>, Peer(k.me))

\* What an end of the first exchange has verified and agreed to.
Firm(k) ==
    /\ k.st \in InitiatorStates => k.me = "i"
    /\ k.st \in ResponderStates => k.me = "r"
    /\ k.st \notin {"rekey_end", "rekey_i_start"}
    /\ k.link => k.status = "OK" /\ k.hist = <<>>
    /\ k.me = "r" => /\ k.st \in {"r_phase2", "r_end"} \/ k.hist # <<>> => Proper(k)
                     /\ k.st = "r_end" \/ k.hist # <<>> => Trusted(k)
    /\ k.me = "i" => (k.st = "i_end" \/ k.hist # <<>> => Verified(k))
    /\ Material(k)

\* An end of the first exchange.
First(k) ==
    /\ Firm(k)
    /\ k.st \in {"failure", "r_start"} => k.runs > 0
    /\ k.link /\ k.pkt # None => Waits(k, k.pkt)
    /\ k.retrans # None => Genuine(k.retrans)

\* The responder has answered, and what it says of it.
Past(k) == k.st \notin {"r_start", "r_phase1"}
Says(r, p) ==
    /\ p.t = "SUCCESS" => r.hist # <<>>
    /\ p.t = "KEY_EXCHANGE" => Past(r) /\ p.body = r.prop

Heard(i, r) ==
    /\ i.link /\ i.pkt # None => Says(r, i.pkt)
    /\ i.st \in {"i_phase3", "i_end"} \/ i.hist # <<>> => Past(r) /\ i.prop = r.prop
    /\ i.hist # <<>> => r.hist # <<>>

NoFailure(q) == \A n \in DOMAIN q : q[n].t # "FAILURE"
NoSuccess(q) == \A n \in DOMAIN q : q[n].t # "SUCCESS"
AllGenuine(q) == \A n \in DOMAIN q : Genuine(q[n])
FailureLast(q) ==
    \A m, n \in DOMAIN q : m < n /\ q[m].t = "FAILURE" => q[n].t # "SUCCESS"

Talk ==
    /\ \A n \in DOMAIN net["i"] : Says(end["r"], net["i"][n])
    /\ end["r"].retrans # None => Says(end["r"], end["r"].retrans)
    /\ Heard(end["i"], end["r"])
    /\ \A e \in Ends : AllGenuine(net[e])

\* Over TCP an end that has failed says no more.
Silence ==
    \A e \in Ends :
        /\ end[e].st = "failure" \/ ~NoFailure(net[e]) => ~end[Peer(e)].link
        /\ end[e].st = "failure" => NoSuccess(net[e])
        /\ FailureLast(net[e])

TrustInv ==
    /\ \A e \in Ends : end[e].rekeying \/ First(end[e])
    /\ ~end["i"].rekeying => Talk
    /\ ~cfg.udp /\ ~end["i"].rekeying => Silence

\* The packets of an end that fails.
Failing(q) == \A n \in DOMAIN q : q[n].t = "FAILURE" /\ q[n].body.status # "OK"

\* What a run of the machine does to an end k of the first exchange: it fails,
\* waits on, sends the next packet, or completes the exchange.
Gone(k, l) ==
    /\ ~l.link /\ l.st = "none" /\ l.hist = k.hist /\ l.retrans = k.retrans
    /\ l.round = k.round /\ l.done # "ok"
    /\ k.me = "r" => l.prop = k.prop
    /\ Failing(l.out)

Stays(k, l) ==
    /\ Keeps(k, l, {"st", "timer", "retry", "pkt"})
    /\ k.st \in Reads \cup {"r_start"}
    /\ l.st = IF k.st = "r_start" THEN "r_phase1" ELSE k.st
    /\ k.st = "r_start" => l.pkt = k.pkt
    /\ k.st # "r_start" => l.pkt = None

\* The random number of an end for the round, and what it derives from both.
Secret(e, k) == <<e, k.round>>
Derived(k, m) == [pfs |-> "PFS" \in k.prop.flags, of |-> m]

\* How an end may go on when it sends p.
Goes(k, l, p) ==
    \/ k.st = "i_start" /\ l.st = "i_phase1" /\ p.t = "KEY_EXCHANGE"
    \/ /\ k.st = "i_phase1" /\ l.st = "i_phase3"
       /\ k.pkt.t = "KEY_EXCHANGE" /\ l.prop = k.pkt.body
       /\ p.t = "KEY_EXCHANGE_1" /\ p.body.x = Secret("i", k) /\ l.ke1.x = Secret("i", k)
    \/ /\ k.st = "i_phase3" /\ l.st = "i_end" /\ l.prop = k.prop /\ Verified(l)
       /\ p.t = "SUCCESS" /\ k.pkt.t = "KEY_EXCHANGE_2" /\ l.ke1 = k.ke1
       /\ l.keymat = <<{k.ke1.x, k.pkt.body.x}>> /\ l.rekey = Derived(k, l.keymat)
    \/ /\ k.st = "r_phase1" /\ l.st = "r_phase2" /\ Proper(l)
       /\ p.t = "KEY_EXCHANGE" /\ p.body = l.prop
    \/ /\ k.st = "r_phase2" /\ l.st = "r_end" /\ l.prop = k.prop /\ Trusted(l)
       /\ p.t = "KEY_EXCHANGE_2" /\ p.body.x = Secret("r", k)
       /\ k.pkt.t = "KEY_EXCHANGE_1" /\ l.KEY = {k.pkt.body.x, Secret("r", k)}

Sends(k, l) ==
    /\ l.link = k.link /\ l.status = "OK" /\ l.hist = k.hist /\ l.runs = k.runs
    /\ l.round = k.round /\ l.done = k.done
    /\ l.pkt = None \/ (k.st = "i_start" /\ l.pkt = k.pkt)
    /\ \E p : /\ l.out = <<p>> /\ (l.retrans = k.retrans \/ l.retrans = p)
              /\ p.t # "FAILURE" /\ Goes(k, l, p)

\* The material m is taken into use in both directions.
Uses(k, l, m) ==
    /\ l.hist = Append(k.hist, m)
    /\ l.send = Key(m, k.me) /\ l.recv = Key(m, Peer(k.me))

Done(k, l) ==
    /\ ~l.link /\ l.st = "none" /\ l.round = k.round
    /\ l.prop = k.prop /\ l.start = k.start /\ l.ke1 = k.ke1 /\ l.ke2 = k.ke2 /\ l.KEY = k.KEY
    /\ \/ /\ k.st = "i_end" /\ k.pkt.t = "SUCCESS" /\ l.out = <<>> /\ l.retrans = k.retrans
          /\ Uses(k, l, k.keymat) /\ l.rekey = k.rekey
       \/ /\ k.st = "r_end" /\ Uses(k, l, <<k.KEY>>) /\ l.rekey = Derived(k, <<k.KEY>>)
          /\ \E p : /\ l.out = <<p>> /\ p.t = "SUCCESS"
                    /\ l.retrans = k.retrans \/ l.retrans = p

Effect(k, l) ==
    /\ DOMAIN l = Fields /\ l.me = k.me /\ l.rekeying = k.rekeying
    /\ Gone(k, l) \/ Stays(k, l) \/ Sends(k, l) \/ Done(k, l)

\* An end of the first exchange, before a run.
Beginning(k) ==
    /\ DOMAIN k = Fields /\ k.rekeying = FALSE /\ k.aborted \in BOOLEAN
    /\ k.status = "OK" /\ k.out = <<>>

LEMMA OnePacket ==
    ASSUME NEW p
    PROVE  Append(<<>>, p) = <<p>> /\ DOMAIN <<p>> = {1} /\ <<p>>[1] = p
  OBVIOUS

LEMMA FailureGone ==
    ASSUME NEW x, DOMAIN x = Fields, x.rekeying = FALSE, x.aborted \in BOOLEAN, x.out = <<>>,
           x.status # "OK" \/ x.aborted, NEW s, s # "OK"
    PROVE  LET l == Finish(Send(x, "FAILURE", Code(s))) IN
           DOMAIN l = Fields /\ l.me = x.me /\ l.rekeying = FALSE /\ l.prop = x.prop /\ Gone(x, l)
  <1> DEFINE y == Send(x, "FAILURE", Code(s))
             p == [t |-> "FAILURE", key |-> x.send, body |-> Code(s)]
             l == Finish(y)
  <1>1. Keeps(x, y, {"out"}) /\ y.out = Append(x.out, p)
    BY DEF Send, Keeps, Fields
  <1>2. Failing(<<p>>)
    <2>1. p.t = "FAILURE" /\ p.body.status # "OK"
      BY DEF Code
    <2> HIDE DEF p
    <2> QED
      BY <2>1, OnePacket DEF Failing
  <1> HIDE DEF y, p
  <1>3. /\ DOMAIN y = Fields /\ y.aborted = x.aborted /\ y.rekeying = FALSE /\ y.status = x.status
        /\ y.hist = x.hist /\ y.me = x.me /\ y.prop = x.prop /\ y.retrans = x.retrans
        /\ y.round = x.round
    BY <1>1 DEF Keeps, Fields
  <1>4. /\ Keeps(y, l, {"link", "timer", "retry", "st", "runs", "fin", "done",
                        "refcnt", "held", "send", "recv", "hist"})
        /\ ~l.link /\ l.st = "none" /\ (l.done = "ok" <=> ~y.aborted /\ y.status = "OK")
        /\ l.hist = IF ~y.aborted /\ y.status = "OK" THEN Append(y.hist, y.keymat) ELSE y.hist
    BY <1>3, FinishFields
  <1> HIDE DEF l
  <1>5. /\ DOMAIN l = Fields /\ l.me = x.me /\ l.rekeying = FALSE /\ l.prop = x.prop
        /\ l.retrans = x.retrans /\ l.out = y.out /\ l.round = x.round
    BY <1>3, <1>4 DEF Keeps, Fields
  <1>6. l.hist = x.hist /\ l.done # "ok"
    BY <1>3, <1>4
  <1>7. Failing(l.out)
    BY <1>1, <1>2, <1>5, OnePacket
  <1> QED
    BY <1>4, <1>5, <1>6, <1>7 DEF Gone, l, y

\* Every way out that tells the other end.
LEMMA ErrorGone ==
    ASSUME NEW x, DOMAIN x = Fields, x.rekeying = FALSE, x.aborted \in BOOLEAN, x.out = <<>>
    PROVE  /\ x.aborted => LET l == Aborted(x) IN
                /\ DOMAIN l = Fields /\ l.me = x.me /\ l.rekeying = FALSE /\ l.prop = x.prop
                /\ Gone(x, l)
           /\ x.status # "OK" => LET l == InitiatorError(x) IN
                /\ DOMAIN l = Fields /\ l.me = x.me /\ l.rekeying = FALSE /\ l.prop = x.prop
                /\ Gone(x, l)
           /\ x.status # "OK" => LET l == ResponderError(x) IN
                /\ DOMAIN l = Fields /\ l.me = x.me /\ l.rekeying = FALSE /\ l.prop = x.prop
                /\ Gone(x, l)
  <1>1. ASSUME x.aborted
        PROVE  LET l == Aborted(x) IN
               /\ DOMAIN l = Fields /\ l.me = x.me /\ l.rekeying = FALSE /\ l.prop = x.prop
               /\ Gone(x, l)
    BY <1>1, FailureGone DEF Aborted
  <1>2. ASSUME x.status # "OK"
        PROVE  LET l == InitiatorError(x) IN
               /\ DOMAIN l = Fields /\ l.me = x.me /\ l.rekeying = FALSE /\ l.prop = x.prop
               /\ Gone(x, l)
    <2> DEFINE s == IF x.status \in LocalStatus THEN "ERROR" ELSE x.status
               l == Finish(Send(x, "FAILURE", Code(s)))
    <2>1. s # "OK"
      BY <1>2 DEF LocalStatus
    <2>2. InitiatorError(x) = l
      BY DEF InitiatorError
    <2> HIDE DEF s
    <2>3. DOMAIN l = Fields /\ l.me = x.me /\ l.rekeying = FALSE /\ l.prop = x.prop /\ Gone(x, l)
      BY <1>2, <2>1, FailureGone
    <2> HIDE DEF l
    <2> QED
      BY <2>2, <2>3
  <1>3. ASSUME x.status # "OK"
        PROVE  LET l == ResponderError(x) IN
               /\ DOMAIN l = Fields /\ l.me = x.me /\ l.rekeying = FALSE /\ l.prop = x.prop
               /\ Gone(x, l)
    <2> DEFINE s == IF x.status \in LocalStatus THEN "BAD_PAYLOAD" ELSE x.status
               y == [x EXCEPT !.status = s]
               l == Finish(Send(y, "FAILURE", Code(s)))
    <2>1. s # "OK"
      BY <1>3
    <2>2. Keeps(x, y, {"status"}) /\ y.status = s
      BY DEF Keeps, Fields
    <2>3. ResponderError(x) = l
      BY DEF ResponderError
    <2> HIDE DEF s, y
    <2>4. /\ DOMAIN y = Fields /\ y.rekeying = FALSE /\ y.aborted = x.aborted /\ y.out = <<>>
          /\ y.me = x.me /\ y.prop = x.prop /\ y.hist = x.hist /\ y.retrans = x.retrans
          /\ y.round = x.round
      BY <2>2 DEF Keeps, Fields
    <2>5. DOMAIN l = Fields /\ l.me = y.me /\ l.rekeying = FALSE /\ l.prop = y.prop /\ Gone(y, l)
      BY <2>1, <2>2, <2>4, FailureGone
    <2> HIDE DEF l
    <2>6. Gone(x, l)
      BY <2>4, <2>5 DEF Gone
    <2> QED
      BY <2>3, <2>4, <2>5, <2>6
  <1> QED
    BY <1>1, <1>2, <1>3

\* The packet that p is, whether or not it will be sent again.
Sent(x, y, p, st) ==
    /\ Keeps(x, y, {"out", "retrans", "retry", "st", "timer"})
    /\ y.st = st /\ y.out = <<p>> /\ (y.retrans = x.retrans \/ y.retrans = p)

LEMMA SentFields ==
    ASSUME NEW x, DOMAIN x = Fields, x.out = <<>>, NEW type, NEW body, NEW st
    PROVE  LET p == [t |-> type, key |-> x.send, body |-> body] IN
           /\ p.t = type /\ p.body = body
           /\ Sent(x, [Send(x, type, body) EXCEPT !.st = st], p, st)
           /\ Sent(x, [Send(x, type, body) EXCEPT !.timer = TRUE, !.st = st], p, st)
  <1> DEFINE p == [t |-> type, key |-> x.send, body |-> body]
             z == Send(x, type, body)
             y == [z EXCEPT !.st = st]
             w == [z EXCEPT !.timer = TRUE, !.st = st]
  <1>1. p.t = type /\ p.body = body
    OBVIOUS
  <1>2. /\ Keeps(x, z, {"out", "retrans", "retry"})
        /\ z.out = Append(x.out, p) /\ (z.retrans = x.retrans \/ z.retrans = p)
    BY SendFields
  <1>3. Append(x.out, p) = <<p>>
    BY OnePacket
  <1> HIDE DEF z, p
  <1>4. Keeps(z, y, {"st"}) /\ y.st = st
    BY <1>2 DEF Keeps, Fields
  <1>5. Keeps(z, w, {"st", "timer"}) /\ w.st = st
    BY <1>2 DEF Keeps, Fields
  <1> HIDE DEF y, w
  <1>6. Sent(x, y, p, st)
    BY <1>2, <1>3, <1>4 DEF Sent, Keeps, Fields
  <1>7. Sent(x, w, p, st)
    BY <1>2, <1>3, <1>5 DEF Sent, Keeps, Fields
  <1> QED
    BY <1>1, <1>6, <1>7 DEF p, z, y, w

LEMMA GoneEffect ==
    ASSUME NEW k, NEW x, NEW l, DOMAIN l = Fields, l.me = x.me, l.rekeying = FALSE, k.rekeying = FALSE,
           Gone(x, l), x.me = k.me, x.hist = k.hist, x.retrans = k.retrans, x.round = k.round,
           k.me = "i" \/ x.prop = k.prop
    PROVE  Effect(k, l)
  BY DEF Effect, Gone

LEMMA OldPacketEffect ==
    ASSUME NEW k, Beginning(k), k.st \in Reads
    PROVE  Effect(k, OldPacket(k))
  <1> DEFINE l == OldPacket(k)
  <1>1. Keeps(k, l, {"pkt", "retry"}) /\ l.pkt = None
    BY DEF OldPacket, Beginning, Keeps, Fields
  <1> HIDE DEF l
  <1>2. l.st = k.st /\ l.me = k.me /\ l.rekeying = k.rekeying /\ DOMAIN l = Fields
    BY <1>1 DEF Keeps, Fields
  <1>3. Stays(k, l)
    BY <1>1, <1>2 DEF Stays, Keeps, Reads
  <1> QED
    BY <1>2, <1>3 DEF Effect, l

LEMMA InitiatorStartEffect ==
    ASSUME NEW k, Beginning(k), k.st = "i_start"
    PROVE  Effect(k, InitiatorStart(k))
  <1> DEFINE b == [flags |-> cfg.flags, alg |-> cfg.offer]
             x == [k EXCEPT !.start = b]
             y == [Send(x, "KEY_EXCHANGE", b) EXCEPT !.timer = TRUE, !.st = "i_phase1"]
  <1>1. InitiatorStart(k) = IF k.aborted THEN Aborted(k) ELSE y
    BY DEF InitiatorStart
  <1>2. CASE k.aborted
    BY <1>1, <1>2, ErrorGone, GoneEffect DEF Beginning
  <1>3. CASE ~k.aborted
    <2>1. Keeps(k, x, {"start"})
      BY DEF Beginning, Keeps, Fields
    <2> HIDE DEF b, x
    <2>2. DOMAIN x = Fields /\ x.out = <<>>
      BY <2>1 DEF Beginning, Keeps, Fields
    <2>3. PICK p : p.t = "KEY_EXCHANGE" /\ Sent(x, y, p, "i_phase1")
      BY <2>2, SentFields
    <2> HIDE DEF y
    <2>4. /\ DOMAIN y = Fields /\ y.me = k.me /\ y.rekeying = k.rekeying /\ y.link = k.link
          /\ y.status = k.status /\ y.hist = k.hist /\ y.runs = k.runs /\ y.pkt = k.pkt
          /\ y.round = k.round /\ y.done = k.done
          /\ y.out = <<p>> /\ (y.retrans = k.retrans \/ y.retrans = p) /\ y.st = "i_phase1"
      BY <2>1, <2>3 DEF Sent, Keeps, Fields
    <2>5. Sends(k, y)
      <3>1. Goes(k, y, p) /\ p.t # "FAILURE"
        BY <2>3, <2>4 DEF Goes
      <3> QED
        BY <2>4, <3>1 DEF Sends, Beginning
    <2> QED
      BY <1>1, <1>3, <2>4, <2>5 DEF Effect
  <1> QED
    BY <1>2, <1>3 DEF Beginning

LEMMA InitiatorPhase2Effect ==
    ASSUME NEW k, Beginning(k), k.st = "i_phase1", k.me = "i", k.pkt.t = "KEY_EXCHANGE", NEW x,
           Keeps(k, x, {"pkt", "prop"}), x.pkt = None, x.prop = k.pkt.body
    PROVE  Effect(k, InitiatorPhase2(x))
  <1> DEFINE X == <<"i", x.round>>
             mutual == ~x.rekeying /\ "MUTUAL" \in x.prop.flags
             unsigned == [x EXCEPT !.ke1 = [x |-> X, sign |-> None]]
             sign == Sign("i", HashI(unsigned))
             ke == [x |-> X, sign |-> IF mutual THEN sign ELSE None]
             z == [x EXCEPT !.status = "SIGNATURE_ERROR"]
             w == [x EXCEPT !.ke1 = ke]
             y == [Send(w, "KEY_EXCHANGE_1", ke) EXCEPT !.st = "i_phase3"]
  <1>1. InitiatorPhase2(x) = IF mutual /\ sign = None THEN InitiatorError(z) ELSE y
    BY DEF InitiatorPhase2
  <1>2. Keeps(x, z, {"status"}) /\ z.status = "SIGNATURE_ERROR"
    BY DEF Beginning, Keeps, Fields
  <1>3. Keeps(x, w, {"ke1"}) /\ w.ke1 = ke /\ ke.x = <<"i", x.round>>
    BY DEF Beginning, Keeps, Fields
  <1> HIDE DEF ke, sign, mutual, z, w
  <1>4. Effect(k, InitiatorError(z))
    <2>1. /\ DOMAIN z = Fields /\ z.rekeying = FALSE /\ z.aborted \in BOOLEAN /\ z.out = <<>>
          /\ z.me = k.me /\ z.hist = k.hist /\ z.retrans = k.retrans /\ z.round = k.round
      BY <1>2 DEF Beginning, Keeps, Fields
    <2> QED
      BY <1>2, <2>1, ErrorGone, GoneEffect DEF Beginning
  <1>5. Effect(k, y)
    <2>1. DOMAIN w = Fields /\ w.out = <<>>
      BY <1>3 DEF Beginning, Keeps, Fields
    <2>2. PICK p : p.t = "KEY_EXCHANGE_1" /\ p.body = ke /\ Sent(w, y, p, "i_phase3")
      BY <2>1, SentFields
    <2> HIDE DEF y
    <2>3. /\ DOMAIN y = Fields /\ y.me = k.me /\ y.rekeying = k.rekeying /\ y.link = k.link
          /\ y.status = k.status /\ y.hist = k.hist /\ y.runs = k.runs /\ y.pkt = None
          /\ y.round = k.round /\ y.done = k.done
          /\ y.prop = k.pkt.body /\ y.ke1 = ke /\ x.round = k.round
          /\ y.out = <<p>> /\ (y.retrans = k.retrans \/ y.retrans = p) /\ y.st = "i_phase3"
      BY <1>3, <2>2 DEF Sent, Keeps, Fields
    <2>4. Sends(k, y)
      <3>1. Goes(k, y, p) /\ p.t # "FAILURE"
        BY <1>3, <2>2, <2>3 DEF Goes, Secret
      <3> QED
        BY <2>3, <3>1 DEF Sends, Beginning
    <2> QED
      BY <2>3, <2>4 DEF Effect
  <1> QED
    BY <1>1, <1>4, <1>5

LEMMA InitiatorPhase1Effect ==
    ASSUME NEW k, Beginning(k), k.st = "i_phase1", k.me = "i"
    PROVE  Effect(k, InitiatorPhase1(k))
  <1> DEFINE got == [k EXCEPT !.pkt = None]
             z == [got EXCEPT !.status = "BAD_VERSION"]
             x == [got EXCEPT !.prop = k.pkt.body]
  <1>1. InitiatorPhase1(k) = CASE k.pkt.t # "KEY_EXCHANGE" -> OldPacket(k)
                               [] k.pkt.t = "KEY_EXCHANGE" /\ ~cfg.version["r"] -> InitiatorError(z)
                               [] OTHER -> InitiatorPhase2(x)
    BY DEF InitiatorPhase1
  <1>2. Keeps(k, z, {"pkt", "status"}) /\ z.status = "BAD_VERSION"
    BY DEF Beginning, Keeps, Fields
  <1>3. Keeps(k, x, {"pkt", "prop"}) /\ x.pkt = None /\ x.prop = k.pkt.body
    BY DEF Beginning, Keeps, Fields
  <1> HIDE DEF got, z, x
  <1>4. Effect(k, OldPacket(k))
    BY OldPacketEffect DEF Reads
  <1>5. Effect(k, InitiatorError(z))
    <2>1. /\ DOMAIN z = Fields /\ z.rekeying = FALSE /\ z.aborted \in BOOLEAN /\ z.out = <<>>
          /\ z.me = k.me /\ z.hist = k.hist /\ z.retrans = k.retrans /\ z.round = k.round
      BY <1>2 DEF Beginning, Keeps, Fields
    <2> QED
      BY <1>2, <2>1, ErrorGone, GoneEffect DEF Beginning
  <1>6. k.pkt.t = "KEY_EXCHANGE" => Effect(k, InitiatorPhase2(x))
    BY <1>3, InitiatorPhase2Effect
  <1> QED
    BY <1>1, <1>4, <1>5, <1>6

\* The fields that say what an end has verified.
SameTrust(x, y) ==
    /\ y.prop = x.prop /\ y.start = x.start /\ y.ke1 = x.ke1 /\ y.ke2 = x.ke2 /\ y.KEY = x.KEY

LEMMA KeyedFields ==
    ASSUME NEW x, DOMAIN x = Fields
    PROVE  /\ Keeps(x, Keyed(x), {"keymat", "rekey"})
           /\ Keyed(x).keymat = <<x.KEY>> /\ Keyed(x).rekey = Derived(x, <<x.KEY>>)
  BY DEF Derived, Keyed, Keeps, Fields

LEMMA InitiatorPhase4Effect ==
    ASSUME NEW k, Beginning(k), k.st = "i_phase3", k.me = "i", NEW x,
           Keeps(k, x, {"pkt", "ke2", "KEY", "status"}), x.pkt = None,
           k.pkt.t = "KEY_EXCHANGE_2", x.KEY = {k.ke1.x, k.pkt.body.x},
           x.status = "OK" => cfg.accepts["i"]
    PROVE  Effect(k, InitiatorPhase4(x))
  <1> DEFINE s == x.ke2.sign
             forged == ~x.rekeying /\ (s = None \/ s # [by |-> "r", of |-> Hash(x)])
             z == [x EXCEPT !.status = "INCORRECT_SIGNATURE"]
             w == Keyed(x)
             y == [Send(w, "SUCCESS", Code("OK")) EXCEPT !.st = "i_end"]
  <1>1. /\ DOMAIN x = Fields /\ x.rekeying = FALSE /\ x.aborted \in BOOLEAN /\ x.out = <<>>
        /\ x.me = k.me /\ x.hist = k.hist /\ x.retrans = k.retrans /\ x.round = k.round
    BY DEF Beginning, Keeps, Fields
  <1>2. InitiatorPhase4(x) = CASE x.aborted -> Aborted(x)
                               [] ~x.aborted /\ x.status # "OK" -> InitiatorError(x)
                               [] ~x.aborted /\ x.status = "OK" /\ forged -> InitiatorError(z)
                               [] OTHER -> y
    BY <1>1 DEF InitiatorPhase4
  <1>3. Keeps(x, z, {"status"}) /\ z.status = "INCORRECT_SIGNATURE"
    BY <1>1 DEF Keeps, Fields
  <1>4. /\ Keeps(x, w, {"keymat", "rekey"})
        /\ w.keymat = <<x.KEY>> /\ w.rekey = Derived(x, <<x.KEY>>)
    BY <1>1, KeyedFields
  <1>5. x.aborted => Effect(k, Aborted(x))
    BY <1>1, ErrorGone, GoneEffect DEF Beginning
  <1>6. x.status # "OK" => Effect(k, InitiatorError(x))
    BY <1>1, ErrorGone, GoneEffect DEF Beginning
  <1>7. Effect(k, InitiatorError(z))
    <2> HIDE DEF z
    <2>1. /\ DOMAIN z = Fields /\ z.rekeying = FALSE /\ z.aborted \in BOOLEAN /\ z.out = <<>>
          /\ z.me = k.me /\ z.hist = k.hist /\ z.retrans = k.retrans /\ z.round = k.round
      BY <1>1, <1>3 DEF Keeps, Fields
    <2> QED
      BY <1>3, <2>1, ErrorGone, GoneEffect DEF Beginning
  <1>8. ASSUME x.status = "OK", ~forged PROVE Effect(k, y)
    <2> HIDE DEF w
    <2>1. DOMAIN w = Fields /\ w.out = <<>>
      BY <1>1, <1>4 DEF Keeps, Fields
    <2>2. PICK p : p.t = "SUCCESS" /\ Sent(w, y, p, "i_end")
      BY <2>1, SentFields
    <2> HIDE DEF y
    <2>3. /\ DOMAIN y = Fields /\ y.me = k.me /\ y.rekeying = k.rekeying /\ y.link = k.link
          /\ y.status = x.status /\ y.hist = k.hist /\ y.runs = k.runs /\ y.pkt = None
          /\ y.round = k.round /\ y.done = k.done
          /\ y.prop = k.prop /\ y.ke1 = k.ke1 /\ x.prop = k.prop
          /\ y.keymat = w.keymat /\ y.rekey = w.rekey
          /\ y.out = <<p>> /\ (y.retrans = k.retrans \/ y.retrans = p) /\ y.st = "i_end"
      BY <1>4, <2>2 DEF Sent, Keeps, Fields
    <2>4. SameTrust(x, y)
      BY <1>4, <2>2 DEF Sent, Keeps, Fields, SameTrust
    <2>5. Verified(y)
      <3>1. x.ke2.sign = [by |-> "r", of |-> Hash(x)] /\ cfg.accepts["i"]
        BY <1>1, <1>8
      <3>2. Hash(y) = Hash(x)
        BY <2>4 DEF Hash, SameTrust
      <3> QED
        BY <2>4, <3>1, <3>2 DEF Verified, SameTrust
    <2>6. Sends(k, y)
      <3>1. Goes(k, y, p) /\ p.t # "FAILURE"
        BY <1>4, <2>2, <2>3, <2>5 DEF Goes, Derived
      <3> QED
        BY <1>8, <2>3, <3>1 DEF Sends, Beginning
    <2> QED
      BY <2>3, <2>6 DEF Effect
  <1> HIDE DEF z, w, y, forged
  <1> QED
    BY <1>1, <1>2, <1>5, <1>6, <1>7, <1>8

LEMMA InitiatorPhase3Effect ==
    ASSUME NEW k, Beginning(k), k.st = "i_phase3", k.me = "i"
    PROVE  Effect(k, InitiatorPhase3(k))
  <1> DEFINE p == k.pkt
             x == [k EXCEPT !.pkt = None, !.ke2 = p.body,
                            !.KEY = {k.ke1.x, p.body.x},
                            !.status = IF k.rekeying \/ cfg.accepts["i"] THEN @
                                       ELSE "UNSUPPORTED_PUBLIC_KEY"]
  <1>1. InitiatorPhase3(k) = IF p.t # "KEY_EXCHANGE_2" THEN OldPacket(k) ELSE InitiatorPhase4(x)
    BY DEF InitiatorPhase3
  <1>2. /\ Keeps(k, x, {"pkt", "ke2", "KEY", "status"}) /\ x.pkt = None
        /\ x.KEY = {k.ke1.x, p.body.x}
        /\ x.status = "OK" => cfg.accepts["i"]
    BY DEF Beginning, Keeps, Fields
  <1>3. Effect(k, OldPacket(k))
    BY OldPacketEffect DEF Reads
  <1> HIDE DEF x
  <1>4. p.t = "KEY_EXCHANGE_2" => Effect(k, InitiatorPhase4(x))
    BY <1>2, InitiatorPhase4Effect
  <1> QED
    BY <1>1, <1>3, <1>4

LEMMA FinishOut ==
    ASSUME NEW x, DOMAIN x = Fields, x.aborted \in BOOLEAN, x.rekeying = FALSE
    PROVE  LET l == Finish(x) IN
           /\ DOMAIN l = Fields /\ l.me = x.me /\ l.rekeying = FALSE /\ ~l.link /\ l.st = "none"
           /\ l.retrans = x.retrans /\ l.out = x.out /\ SameTrust(x, l)
           /\ l.hist = IF ~x.aborted /\ x.status = "OK" THEN Append(x.hist, x.keymat) ELSE x.hist
           /\ l.round = x.round /\ l.rekey = x.rekey /\ l.keymat = x.keymat
           /\ l.done = "ok" <=> ~x.aborted /\ x.status = "OK"
           /\ ~x.aborted /\ x.status = "OK" =>
                 l.send = Key(x.keymat, x.me) /\ l.recv = Key(x.keymat, Peer(x.me))
  <1> DEFINE l == Finish(x)
  <1>1. /\ Keeps(x, l, {"link", "timer", "retry", "st", "runs", "fin", "done",
                        "refcnt", "held", "send", "recv", "hist"})
        /\ ~l.link /\ l.st = "none"
        /\ l.hist = IF ~x.aborted /\ x.status = "OK" THEN Append(x.hist, x.keymat) ELSE x.hist
        /\ l.done = "ok" <=> ~x.aborted /\ x.status = "OK"
        /\ ~x.aborted /\ x.status = "OK" =>
              l.send = Key(x.keymat, x.me) /\ l.recv = Key(x.keymat, Peer(x.me))
    BY FinishFields
  <1> HIDE DEF l
  <1> QED
    BY <1>1 DEF Keeps, Fields, SameTrust, l

LEMMA InitiatorEndEffect ==
    ASSUME NEW k, Beginning(k), k.st = "i_end", k.me = "i", k.hist = <<>>
    PROVE  Effect(k, InitiatorEnd(k))
  <1> DEFINE x == [k EXCEPT !.pkt = None]
             l == Finish(x)
  <1>1. InitiatorEnd(k) = IF k.pkt.t # "SUCCESS" THEN OldPacket(k) ELSE l
    BY DEF InitiatorEnd
  <1>2. Keeps(k, x, {"pkt"})
    BY DEF Beginning, Keeps, Fields
  <1> HIDE DEF x
  <1>3. /\ DOMAIN x = Fields /\ x.aborted = k.aborted /\ x.rekeying = FALSE /\ x.me = k.me
        /\ x.status = "OK" /\ x.hist = <<>> /\ x.retrans = k.retrans /\ x.out = <<>> /\ SameTrust(k, x)
        /\ x.round = k.round /\ x.keymat = k.keymat /\ x.rekey = k.rekey
    BY <1>2 DEF Beginning, Keeps, Fields, SameTrust
  <1>4. /\ DOMAIN l = Fields /\ l.me = x.me /\ l.rekeying = FALSE /\ ~l.link /\ l.st = "none"
        /\ l.retrans = x.retrans /\ l.out = x.out /\ SameTrust(x, l)
        /\ l.hist = IF ~x.aborted /\ x.status = "OK" THEN Append(x.hist, x.keymat) ELSE x.hist
        /\ l.round = x.round /\ l.rekey = x.rekey /\ l.keymat = x.keymat
        /\ l.done = "ok" <=> ~x.aborted /\ x.status = "OK"
        /\ ~x.aborted /\ x.status = "OK" =>
              l.send = Key(x.keymat, x.me) /\ l.recv = Key(x.keymat, Peer(x.me))
    BY <1>3, FinishOut DEF Beginning
  <1> HIDE DEF l
  <1>5. Effect(k, OldPacket(k))
    BY OldPacketEffect DEF Reads
  <1>6. CASE k.aborted
    <2>1. Gone(k, l)
      BY <1>3, <1>4, <1>6, NoPackets DEF Gone, Failing
    <2> QED
      BY <1>1, <1>3, <1>4, <1>5, <2>1 DEF Effect, Beginning
  <1>7. CASE ~k.aborted /\ k.pkt.t = "SUCCESS"
    <2>1. Uses(k, l, k.keymat)
      BY <1>3, <1>4, <1>7 DEF Uses
    <2>2. Done(k, l)
      BY <1>3, <1>4, <1>7, <2>1 DEF Done, SameTrust
    <2> QED
      BY <1>1, <1>3, <1>4, <1>7, <2>2 DEF Effect, Beginning
  <1> QED
    BY <1>1, <1>5, <1>6, <1>7 DEF Beginning

LEMMA ResponderStartEffect ==
    ASSUME NEW k, Beginning(k), k.st = "r_start"
    PROVE  Effect(k, ResponderStart(k))
  <1> DEFINE l == [k EXCEPT !.timer = TRUE, !.st = "r_phase1"]
  <1>1. ResponderStart(k) = IF k.aborted THEN Aborted(k) ELSE l
    BY DEF ResponderStart
  <1>2. Keeps(k, l, {"timer", "st"}) /\ l.st = "r_phase1"
    BY DEF Beginning, Keeps, Fields
  <1> HIDE DEF l
  <1>3. l.pkt = k.pkt /\ l.me = k.me /\ l.rekeying = k.rekeying /\ DOMAIN l = Fields
    BY <1>2 DEF Keeps, Fields
  <1>4. Stays(k, l)
    BY <1>2, <1>3 DEF Stays, Keeps
  <1>5. Effect(k, l)
    BY <1>3, <1>4 DEF Effect
  <1>6. k.aborted => Effect(k, Aborted(k))
    BY ErrorGone, GoneEffect DEF Beginning
  <1> QED
    BY <1>1, <1>5, <1>6

LEMMA ResponderEndEffect ==
    ASSUME NEW k, Beginning(k), k.st = "r_end", k.me = "r", k.hist = <<>>,
           k.pkt.t = "SUCCESS" => ~k.aborted
    PROVE  Effect(k, ResponderEnd(k))
  <1> DEFINE v == [k EXCEPT !.pkt = None]
             w == Keyed(v)
             x == Send(w, "SUCCESS", Code("OK"))
             l == Finish(x)
             p == [t |-> "SUCCESS", key |-> w.send, body |-> Code("OK")]
  <1>1. ResponderEnd(k) = IF k.pkt.t # "SUCCESS" THEN OldPacket(k) ELSE l
    BY DEF ResponderEnd
  <1>2. Keeps(k, v, {"pkt"})
    BY DEF Beginning, Keeps, Fields
  <1> HIDE DEF v
  <1>3. DOMAIN v = Fields
    BY <1>2 DEF Keeps
  <1>4. /\ Keeps(v, w, {"keymat", "rekey"})
        /\ w.keymat = <<v.KEY>> /\ w.rekey = Derived(v, <<v.KEY>>)
    BY <1>3, KeyedFields
  <1>5. DOMAIN w = Fields
    BY <1>4 DEF Keeps
  <1>6. /\ Keeps(w, x, {"out", "retrans", "retry"}) /\ x.out = Append(w.out, p)
        /\ (x.retrans = w.retrans \/ x.retrans = p)
    BY <1>5, SendFields
  <1>7. p.t = "SUCCESS"
    OBVIOUS
  <1> HIDE DEF w, p, x
  <1>8. /\ DOMAIN x = Fields /\ x.aborted = k.aborted /\ x.rekeying = FALSE /\ x.me = k.me
        /\ x.status = "OK" /\ x.hist = <<>> /\ SameTrust(k, x) /\ w.out = <<>> /\ w.retrans = k.retrans
        /\ x.round = k.round /\ x.keymat = w.keymat /\ x.rekey = w.rekey
        /\ v.KEY = k.KEY /\ v.prop = k.prop
    BY <1>2, <1>4, <1>6 DEF Beginning, Keeps, Fields, SameTrust
  <1>9. x.out = <<p>>
    BY <1>6, <1>8, OnePacket
  <1>10. /\ DOMAIN l = Fields /\ l.me = x.me /\ l.rekeying = FALSE /\ ~l.link /\ l.st = "none"
         /\ l.retrans = x.retrans /\ l.out = x.out /\ SameTrust(x, l)
         /\ l.hist = IF ~x.aborted /\ x.status = "OK" THEN Append(x.hist, x.keymat) ELSE x.hist
         /\ l.round = x.round /\ l.rekey = x.rekey /\ l.keymat = x.keymat
         /\ l.done = "ok" <=> ~x.aborted /\ x.status = "OK"
         /\ ~x.aborted /\ x.status = "OK" =>
               l.send = Key(x.keymat, x.me) /\ l.recv = Key(x.keymat, Peer(x.me))
    BY <1>8, FinishOut DEF Beginning
  <1> HIDE DEF l
  <1>11. Effect(k, OldPacket(k))
    BY OldPacketEffect DEF Reads
  <1>12. CASE k.pkt.t = "SUCCESS"
    <2>1. Uses(k, l, <<k.KEY>>)
      BY <1>4, <1>8, <1>10, <1>12 DEF Uses
    <2>2. l.rekey = Derived(k, <<k.KEY>>)
      BY <1>4, <1>8, <1>10 DEF Derived
    <2>3. Done(k, l)
      BY <1>6, <1>7, <1>8, <1>9, <1>10, <2>1, <2>2 DEF Done, SameTrust
    <2> QED
      BY <1>1, <1>8, <1>10, <1>12, <2>3 DEF Effect, Beginning
  <1> QED
    BY <1>1, <1>11, <1>12

\* A set of numbers that is not empty has a least member.
LEMMA LeastExists ==
    ASSUME NEW S \in SUBSET Nat, S # {}
    PROVE  (CHOOSE n \in S : \A j \in S : n <= j) \in S
  <1>1. PICK y \in S : \A z \in S : ~(<<z, y>> \in OpToRel(<, Nat))
    BY WFMin, NatLessThanWellFounded
  <1>2. S \subseteq Nat
    OBVIOUS
  <1>3. \A z \in S : ~(z < y)
    BY <1>1, <1>2 DEF OpToRel
  <1>4. \A z \in S : y <= z
    BY <1>2, <1>3
  <1> QED
    BY <1>4

\* An algorithm that was selected is supported, unless it is the PKCS.
LEMMA SelectSupported ==
    ASSUME cfg \in Configs, NEW c \in ClassNames \ {"PKCS"}, SelectOf(c) # None
    PROVE  SelectOf(c) \in cfg.supported[c]
  <1> DEFINE list == cfg.offer[c]
             known == {n \in DOMAIN list : list[n] \in cfg.supported[c]}
             first == CHOOSE n \in known : \A j \in known : n <= j
  <1>1. list \in Seq(Range(list))
    BY KeyExchangeAssumption DEF ConfigOK
  <1>2. SelectOf(c) = CASE Len(list) = 1 /\ (c = "PKCS" \/ known # {}) -> list[1]
                        [] Len(list) > 1 /\ known # {} -> list[first]
                        [] OTHER -> None
    BY DEF SelectOf
  <1>3. Len(list) \in Nat /\ DOMAIN list = 1..Len(list)
    <2> HIDE DEF list
    <2> QED
      BY <1>1, LenProperties
  <1>4. known \in SUBSET Nat /\ \A n \in known : n \in DOMAIN list /\ list[n] \in cfg.supported[c]
    BY <1>3
  <1>5. known # {}
    BY <1>2
  <1>6. first \in known
    <2> HIDE DEF known
    <2> QED
      BY <1>4, <1>5, LeastExists
  <1> HIDE DEF list, known, first
  <1>7. Len(list) = 1 => 1 \in known
    <2> SUFFICES ASSUME Len(list) = 1 PROVE 1 \in known
      OBVIOUS
    <2>1. PICK n \in known : TRUE
      BY <1>5
    <2>2. n = 1
      BY <1>3, <1>4, <2>1
    <2> QED
      BY <2>1, <2>2
  <1> QED
    BY <1>2, <1>4, <1>6, <1>7

\* silc_ske_select_security_properties succeeds only with all classes selected.
LEMMA SelectedAll ==
    ASSUME SelectStatus = "OK"
    PROVE  \A c \in ClassNames : SelectOf(c) # None
  <1> DEFINE first == CHOOSE n \in Unknown : \A j \in Unknown : n <= j
  <1>1. DOMAIN Classes = 1..5 /\ \A n \in 1..5 : Classes[n] # "OK"
    BY DEF Classes
  <1>2. Unknown \in SUBSET Nat /\ Unknown \subseteq 1..5
    BY <1>1 DEF Unknown
  <1>3. Unknown = {}
    <2> SUFFICES ASSUME Unknown # {} PROVE FALSE
      OBVIOUS
    <2>1. first \in Unknown
      BY <1>2, LeastExists
    <2>2. SelectStatus \in {"BAD_PAYLOAD", "BAD_VERSION", Classes[first]}
      BY DEF SelectStatus
    <2> QED
      BY <1>1, <1>2, <2>1, <2>2
  <1> QED
    BY <1>3 DEF Unknown, ClassNames

LEMMA ResponderPhase1Effect ==
    ASSUME cfg \in Configs, NEW k, Beginning(k), k.st = "r_phase1", k.me = "r"
    PROVE  Effect(k, ResponderPhase1(k))
  <1> DEFINE b == k.pkt.body
             prop == [flags |-> Forced(b.flags), alg |-> [c \in ClassNames |-> SelectOf(c)]]
             got == [k EXCEPT !.pkt = None]
             u == [got EXCEPT !.status = "BAD_PAYLOAD"]
             v == [got EXCEPT !.start = b, !.status = SelectStatus]
             x == [got EXCEPT !.start = b, !.prop = prop]
             y == [Send(x, "KEY_EXCHANGE", prop) EXCEPT !.st = "r_phase2"]
  <1>1. ResponderPhase1(k) = CASE k.pkt.t # "KEY_EXCHANGE" -> ResponderError(u)
                               [] k.pkt.t = "KEY_EXCHANGE" /\ SelectStatus # "OK" -> ResponderError(v)
                               [] OTHER -> y
    BY DEF ResponderPhase1
  <1>2. Keeps(k, u, {"pkt", "status"}) /\ u.status = "BAD_PAYLOAD"
    BY DEF Beginning, Keeps, Fields
  <1>3. Keeps(k, v, {"pkt", "start", "status"}) /\ v.status = SelectStatus
    BY DEF Beginning, Keeps, Fields
  <1>4. Keeps(k, x, {"pkt", "start", "prop"}) /\ x.pkt = None /\ x.prop = prop
    BY DEF Beginning, Keeps, Fields
  <1>5. SelectStatus = "OK" => /\ cfg.required \cap {"MUTUAL", "PFS"} \subseteq prop.flags
                               /\ \A c \in ClassNames \ {"PKCS"} : prop.alg[c] \in cfg.supported[c]
    <2>1. cfg.required \cap {"MUTUAL", "PFS"} \subseteq prop.flags
      BY DEF Forced
    <2> QED
      BY <2>1, SelectSupported, SelectedAll
  <1> HIDE DEF got, u, v, x, prop, b
  <1>6. Effect(k, ResponderError(u))
    <2>1. /\ DOMAIN u = Fields /\ u.rekeying = FALSE /\ u.aborted \in BOOLEAN /\ u.out = <<>>
          /\ u.me = k.me /\ u.hist = k.hist /\ u.retrans = k.retrans /\ u.prop = k.prop
          /\ u.round = k.round
      BY <1>2 DEF Beginning, Keeps, Fields
    <2> QED
      BY <1>2, <2>1, ErrorGone, GoneEffect DEF Beginning
  <1>7. SelectStatus # "OK" => Effect(k, ResponderError(v))
    <2>1. /\ DOMAIN v = Fields /\ v.rekeying = FALSE /\ v.aborted \in BOOLEAN /\ v.out = <<>>
          /\ v.me = k.me /\ v.hist = k.hist /\ v.retrans = k.retrans /\ v.prop = k.prop
          /\ v.round = k.round
      BY <1>3 DEF Beginning, Keeps, Fields
    <2> QED
      BY <1>3, <2>1, ErrorGone, GoneEffect DEF Beginning
  <1>8. SelectStatus = "OK" => Effect(k, y)
    <2> SUFFICES ASSUME SelectStatus = "OK" PROVE Effect(k, y)
      OBVIOUS
    <2>1. DOMAIN x = Fields /\ x.out = <<>>
      BY <1>4 DEF Beginning, Keeps, Fields
    <2>2. PICK p : p.t = "KEY_EXCHANGE" /\ p.body = prop /\ Sent(x, y, p, "r_phase2")
      BY <2>1, SentFields
    <2> HIDE DEF y
    <2>3. /\ DOMAIN y = Fields /\ y.me = k.me /\ y.rekeying = k.rekeying /\ y.link = k.link
          /\ y.status = k.status /\ y.hist = k.hist /\ y.runs = k.runs /\ y.pkt = None
          /\ y.round = k.round /\ y.done = k.done
          /\ y.prop = prop
          /\ y.out = <<p>> /\ (y.retrans = k.retrans \/ y.retrans = p) /\ y.st = "r_phase2"
      BY <1>4, <2>2 DEF Sent, Keeps, Fields
    <2>4. Proper(y)
      BY <1>5, <2>3 DEF Proper
    <2>5. Sends(k, y)
      <3>1. Goes(k, y, p) /\ p.t # "FAILURE"
        BY <2>2, <2>3, <2>4 DEF Goes
      <3> QED
        BY <2>3, <3>1 DEF Sends, Beginning
    <2> QED
      BY <2>3, <2>5 DEF Effect
  <1> HIDE DEF y
  <1> QED
    BY <1>1, <1>6, <1>7, <1>8

\* The signatures of the responder can be computed.
Signing == \A c \in Configs : c.signs["r"]

LEMMA ResponderPhase5Effect ==
    ASSUME NoneIsNoRecord, cfg.signs["r"],
           NEW k, Beginning(k), k.st = "r_phase2", k.me = "r", NEW x,
           Keeps(k, x, {"pkt", "ke1", "ke2", "KEY"}), x.pkt = None, Trusted(x),
           k.pkt.t = "KEY_EXCHANGE_1", x.ke2.x = Secret("r", k),
           x.KEY = {k.pkt.body.x, Secret("r", k)}
    PROVE  Effect(k, ResponderPhase5(x))
  <1> DEFINE sign == Sign("r", Hash(x))
             ke == [x |-> x.ke2.x, sign |-> IF x.rekeying THEN None ELSE sign]
             w == [x EXCEPT !.ke2 = ke]
             y == [Send(w, "KEY_EXCHANGE_2", ke) EXCEPT !.st = "r_end"]
  <1>1. DOMAIN x = Fields /\ x.rekeying = FALSE
    BY DEF Beginning, Keeps, Fields
  <1>2. sign # None
    BY DEF Sign, NoneIsNoRecord
  <1>3. ResponderPhase5(x) = y
    BY <1>1, <1>2 DEF ResponderPhase5
  <1>4. Keeps(x, w, {"ke2"}) /\ ke.x = x.ke2.x
    BY <1>1 DEF Keeps, Fields
  <1> HIDE DEF sign, ke, w
  <1>5. DOMAIN w = Fields /\ w.out = <<>>
    BY <1>4 DEF Beginning, Keeps, Fields
  <1>6. PICK p : p.t = "KEY_EXCHANGE_2" /\ p.body = ke /\ Sent(w, y, p, "r_end")
    BY <1>5, SentFields
  <1> HIDE DEF y
  <1>7. /\ DOMAIN y = Fields /\ y.me = k.me /\ y.rekeying = k.rekeying /\ y.link = k.link
        /\ y.status = k.status /\ y.hist = k.hist /\ y.runs = k.runs /\ y.pkt = None
          /\ y.round = k.round /\ y.done = k.done
        /\ y.prop = k.prop
        /\ y.out = <<p>> /\ (y.retrans = k.retrans \/ y.retrans = p) /\ y.st = "r_end"
    BY <1>4, <1>6 DEF Sent, Keeps, Fields
  <1>8. y.prop = x.prop /\ y.KEY = x.KEY /\ y.ke1 = x.ke1 /\ y.start = x.start
    BY <1>4, <1>6 DEF Sent, Keeps, Fields
  <1>9. Trusted(y)
    BY <1>8 DEF Trusted, HashI
  <1>10. Sends(k, y)
    <2>1. Goes(k, y, p) /\ p.t # "FAILURE"
      BY <1>4, <1>6, <1>7, <1>8, <1>9 DEF Goes
    <2> QED
      BY <1>7, <2>1 DEF Sends, Beginning
  <1> QED
    BY <1>3, <1>7, <1>10 DEF Effect

LEMMA ResponderPhase4Effect ==
    ASSUME NoneIsNoRecord, cfg.signs["r"],
           NEW k, Beginning(k), k.st = "r_phase2", k.me = "r", NEW x,
           Keeps(k, x, {"pkt", "ke1", "status"}), x.pkt = None,
           k.pkt.t = "KEY_EXCHANGE_1", x.ke1 = k.pkt.body,
           x.status = "OK" => cfg.accepts["r"]
    PROVE  Effect(k, ResponderPhase4(x))
  <1> DEFINE X == <<"r", x.round>>
             mutual == ~x.rekeying /\ "MUTUAL" \in x.prop.flags
             s == x.ke1.sign
             forged == mutual /\ (s = None \/ s # [by |-> "i", of |-> HashI(x)])
             z == [x EXCEPT !.status = "INCORRECT_SIGNATURE"]
             w == [x EXCEPT !.ke2 = [x |-> X, sign |-> None], !.KEY = {x.ke1.x, X}]
  <1>1. /\ DOMAIN x = Fields /\ x.rekeying = FALSE /\ x.aborted \in BOOLEAN /\ x.out = <<>>
        /\ x.me = k.me /\ x.hist = k.hist /\ x.retrans = k.retrans /\ x.prop = k.prop
        /\ x.round = k.round
    BY DEF Beginning, Keeps, Fields
  <1>2. ResponderPhase4(x) = CASE x.aborted -> Aborted(x)
                               [] ~x.aborted /\ x.status # "OK" -> InitiatorError(x)
                               [] ~x.aborted /\ x.status = "OK" /\ forged -> ResponderError(z)
                               [] OTHER -> ResponderPhase5(w)
    BY DEF ResponderPhase4
  <1>3. Keeps(x, z, {"status"}) /\ z.status = "INCORRECT_SIGNATURE"
    BY <1>1 DEF Keeps, Fields
  <1>4. Keeps(x, w, {"ke2", "KEY"}) /\ w.ke2.x = X /\ w.KEY = {x.ke1.x, X}
    BY <1>1 DEF Keeps, Fields
  <1>5. x.aborted => Effect(k, Aborted(x))
    BY <1>1, ErrorGone, GoneEffect DEF Beginning
  <1>6. x.status # "OK" => Effect(k, InitiatorError(x))
    BY <1>1, ErrorGone, GoneEffect DEF Beginning
  <1>7. Effect(k, ResponderError(z))
    <2> HIDE DEF z
    <2>1. /\ DOMAIN z = Fields /\ z.rekeying = FALSE /\ z.aborted \in BOOLEAN /\ z.out = <<>>
          /\ z.me = k.me /\ z.hist = k.hist /\ z.retrans = k.retrans /\ z.prop = k.prop
          /\ z.round = k.round
      BY <1>1, <1>3 DEF Keeps, Fields
    <2> QED
      BY <1>3, <2>1, ErrorGone, GoneEffect DEF Beginning
  <1>8. ASSUME x.status = "OK", ~forged PROVE Effect(k, ResponderPhase5(w))
    <2> HIDE DEF w
    <2>1. w.prop = x.prop /\ w.ke1 = x.ke1 /\ w.start = x.start /\ w.pkt = None
      BY <1>4 DEF Keeps, Fields
    <2>2. "MUTUAL" \in x.prop.flags => s = [by |-> "i", of |-> HashI(x)]
      BY <1>1, <1>8
    <2>3. Trusted(w)
      BY <1>8, <2>1, <2>2 DEF Trusted, HashI
    <2>4. w.status = k.status
      BY <1>4, <1>8 DEF Keeps, Fields, Beginning
    <2>5. Keeps(k, w, {"pkt", "ke1", "ke2", "KEY"})
      BY <1>4, <2>4 DEF Keeps, Fields
    <2> QED
      BY <1>1, <1>4, <2>1, <2>3, <2>5, ResponderPhase5Effect DEF Secret
  <1> HIDE DEF z, w, forged
  <1> QED
    BY <1>1, <1>2, <1>5, <1>6, <1>7, <1>8

LEMMA ResponderPhase2Effect ==
    ASSUME NoneIsNoRecord, cfg.signs["r"],
           NEW k, Beginning(k), k.st = "r_phase2", k.me = "r"
    PROVE  Effect(k, ResponderPhase2(k))
  <1> DEFINE p == k.pkt
             x == [k EXCEPT !.pkt = None, !.ke1 = p.body,
                            !.status = IF k.rekeying \/ cfg.accepts["r"] THEN @
                                       ELSE "UNSUPPORTED_PUBLIC_KEY"]
  <1>1. ResponderPhase2(k) = IF p.t # "KEY_EXCHANGE_1" THEN OldPacket(k) ELSE ResponderPhase4(x)
    BY DEF ResponderPhase2
  <1>2. /\ Keeps(k, x, {"pkt", "ke1", "status"}) /\ x.pkt = None /\ x.ke1 = p.body
        /\ x.status = "OK" => cfg.accepts["r"]
    BY DEF Beginning, Keeps, Fields
  <1>3. Effect(k, OldPacket(k))
    BY OldPacketEffect DEF Reads
  <1> HIDE DEF x
  <1>4. p.t = "KEY_EXCHANGE_1" => Effect(k, ResponderPhase4(x))
    BY <1>2, ResponderPhase4Effect
  <1> QED
    BY <1>1, <1>3, <1>4

\* The status of an end that fails is the one of the packet.
LEMMA FailureEffect ==
    ASSUME NEW k, DOMAIN k = Fields, k.rekeying = FALSE, k.aborted \in BOOLEAN, k.out = <<>>,
           k.pkt # None => (k.pkt.t # "SUCCESS" /\ (k.pkt.t = "FAILURE" => k.pkt.body.status # "OK"))
    PROVE  Effect(k, Failure(k)) /\ Gone(k, Failure(k)) /\ Failure(k).out = <<>>
  <1> DEFINE p == k.pkt
             four == IF p = None THEN FALSE ELSE p.t \in {"FAILURE", "SUCCESS"}
             s == IF four THEN p.body.status ELSE "ERROR"
             x == [k EXCEPT !.status = s, !.pkt = IF four THEN None ELSE p]
             l == Finish(x)
  <1>1. Failure(k) = l
    BY DEF Failure
  <1>2. s # "OK"
    OBVIOUS
  <1>3. Keeps(k, x, {"status", "pkt"}) /\ x.status = s
    BY DEF Keeps, Fields
  <1> HIDE DEF four, s, x
  <1>4. /\ DOMAIN x = Fields /\ x.aborted = k.aborted /\ x.rekeying = FALSE /\ x.me = k.me
        /\ x.hist = k.hist /\ x.retrans = k.retrans /\ x.out = <<>> /\ x.prop = k.prop
        /\ x.round = k.round
    BY <1>3 DEF Keeps, Fields
  <1>5. /\ DOMAIN l = Fields /\ l.me = x.me /\ l.rekeying = FALSE /\ ~l.link /\ l.st = "none"
        /\ l.retrans = x.retrans /\ l.out = x.out /\ SameTrust(x, l)
        /\ l.hist = IF ~x.aborted /\ x.status = "OK" THEN Append(x.hist, x.keymat) ELSE x.hist
        /\ l.round = x.round /\ l.rekey = x.rekey /\ l.keymat = x.keymat
        /\ l.done = "ok" <=> ~x.aborted /\ x.status = "OK"
        /\ ~x.aborted /\ x.status = "OK" =>
              l.send = Key(x.keymat, x.me) /\ l.recv = Key(x.keymat, Peer(x.me))
    BY <1>4, FinishOut
  <1> HIDE DEF l
  <1>6. Gone(k, l)
    BY <1>2, <1>3, <1>4, <1>5, NoPackets DEF Gone, Failing, SameTrust
  <1>7. Effect(k, l)
    BY <1>4, <1>5, <1>6 DEF Effect
  <1> QED
    BY <1>1, <1>4, <1>5, <1>6, <1>7

\* One case per state of the machine.
LEMMA RunEffect ==
    ASSUME NoneIsNoRecord, cfg \in Configs, cfg.signs["r"], NEW k, Runnable(k), Beginning(k),
           Firm(k), k.link,
           k.st = "failure" /\ k.pkt # None =>
              (k.pkt.t # "SUCCESS" /\ (k.pkt.t = "FAILURE" => k.pkt.body.status # "OK")),
           k.st = "r_end" /\ k.pkt.t = "SUCCESS" => ~k.aborted
    PROVE  Effect(k, Run(k))
  <1>1. /\ k.st \in States /\ k.st # "none" /\ k.st \notin {"rekey_end", "rekey_i_start"}
        /\ k.st \in Reads => k.pkt # None
    BY DEF Runnable, Formed, Firm
  <1>2. k.hist = <<>>
    BY DEF Firm
  <1>3. CASE k.st = "i_start"
    <2>1. Run(k) = InitiatorStart(k)
      BY <1>3 DEF Run, Reads
    <2> QED
      BY <1>3, <2>1, InitiatorStartEffect
  <1>4. CASE k.st = "i_phase1"
    <2>1. Run(k) = InitiatorPhase1(k) /\ k.me = "i"
      BY <1>1, <1>4 DEF Run, Reads, Firm, InitiatorStates
    <2> QED
      BY <1>4, <2>1, InitiatorPhase1Effect
  <1>5. CASE k.st = "i_phase3"
    <2>1. Run(k) = InitiatorPhase3(k) /\ k.me = "i"
      BY <1>1, <1>5 DEF Run, Reads, Firm, InitiatorStates
    <2> QED
      BY <1>5, <2>1, InitiatorPhase3Effect
  <1>6. CASE k.st = "i_end"
    <2>1. Run(k) = InitiatorEnd(k) /\ k.me = "i"
      BY <1>1, <1>6 DEF Run, Reads, Firm, InitiatorStates
    <2> QED
      BY <1>2, <1>6, <2>1, InitiatorEndEffect
  <1>7. CASE k.st = "r_start"
    <2>1. Run(k) = ResponderStart(k)
      BY <1>7 DEF Run, Reads
    <2> QED
      BY <1>7, <2>1, ResponderStartEffect
  <1>8. CASE k.st = "r_phase1"
    <2>1. Run(k) = ResponderPhase1(k) /\ k.me = "r"
      BY <1>1, <1>8 DEF Run, Reads, Firm, ResponderStates
    <2> QED
      BY <1>8, <2>1, ResponderPhase1Effect
  <1>9. CASE k.st = "r_phase2"
    <2>1. Run(k) = ResponderPhase2(k) /\ k.me = "r"
      BY <1>1, <1>9 DEF Run, Reads, Firm, ResponderStates
    <2> QED
      BY <1>9, <2>1, ResponderPhase2Effect
  <1>10. CASE k.st = "r_end"
    <2>1. Run(k) = ResponderEnd(k) /\ k.me = "r"
      BY <1>1, <1>10 DEF Run, Reads, Firm, ResponderStates
    <2> QED
      BY <1>2, <1>10, <2>1, ResponderEndEffect
  <1>11. CASE k.st = "failure"
    <2>1. Run(k) = Failure(k)
      BY <1>11 DEF Run, Reads
    <2> QED
      BY <1>11, <2>1, FailureEffect DEF Beginning
  <1> QED
    BY <1>1, <1>3, <1>4, <1>5, <1>6, <1>7, <1>8, <1>9, <1>10, <1>11 DEF States, Reads

-----------------------------------------------------------------------------
(***************************************************************************)
(* The queues.                                                             *)
(***************************************************************************)

LEMMA ConcatTrust ==
    ASSUME NEW q, Packets(q), NEW s, Packets(s)
    PROVE  LET r == q \o s IN
           /\ \A j \in DOMAIN r : \/ \E m \in DOMAIN q : r[j] = q[m]
                                  \/ \E m \in DOMAIN s : r[j] = s[m]
           /\ AllGenuine(q) /\ AllGenuine(s) => AllGenuine(r)
           /\ NoFailure(q) /\ NoFailure(s) => NoFailure(r)
           /\ NoSuccess(q) /\ NoSuccess(s) => NoSuccess(r)
           /\ FailureLast(q) /\ Len(s) <= 1 /\ (NoFailure(q) \/ NoSuccess(s)) => FailureLast(r)
  <1> DEFINE r == q \o s
  <1>1. /\ DOMAIN r = 1..(Len(q) + Len(s))
        /\ \A j \in DOMAIN r :
             \/ j \in DOMAIN q /\ r[j] = q[j]
             \/ j - Len(q) \in DOMAIN s /\ r[j] = s[j - Len(q)]
    BY ConcatSeq DEF Packets
  <1>2. Len(q) \in Nat /\ DOMAIN q = 1..Len(q) /\ Len(s) \in Nat /\ DOMAIN s = 1..Len(s)
    BY SeqDomain DEF Packets
  <1> HIDE DEF r
  <1>3. \A j \in DOMAIN r : \/ \E m \in DOMAIN q : r[j] = q[m]
                            \/ \E m \in DOMAIN s : r[j] = s[m]
    BY <1>1
  <1>4. AllGenuine(q) /\ AllGenuine(s) => AllGenuine(r)
    BY <1>1 DEF AllGenuine
  <1>5. NoFailure(q) /\ NoFailure(s) => NoFailure(r)
    BY <1>1 DEF NoFailure
  <1>6. NoSuccess(q) /\ NoSuccess(s) => NoSuccess(r)
    BY <1>1 DEF NoSuccess
  <1>7. ASSUME FailureLast(q), Len(s) <= 1, NoFailure(q) \/ NoSuccess(s)
        PROVE  FailureLast(r)
    <2> SUFFICES ASSUME NEW m \in DOMAIN r, NEW n \in DOMAIN r, m < n, r[m].t = "FAILURE"
                 PROVE  r[n].t # "SUCCESS"
      BY DEF FailureLast
    <2>1. CASE m \in DOMAIN q /\ r[m] = q[m] /\ n \in DOMAIN q /\ r[n] = q[n]
      BY <1>7, <2>1 DEF FailureLast
    <2>2. CASE m \in DOMAIN q /\ r[m] = q[m] /\ n - Len(q) \in DOMAIN s /\ r[n] = s[n - Len(q)]
      BY <1>7, <2>2 DEF NoFailure, NoSuccess
    <2>3. CASE m - Len(q) \in DOMAIN s
      <3>1. m \in Nat /\ n \in Nat /\ n <= Len(q) + Len(s)
        BY <1>1, <1>2
      <3> QED
        BY <1>2, <1>7, <2>3, <3>1
    <2> QED
      BY <1>1, <2>1, <2>2, <2>3
  <1> QED
    BY <1>3, <1>4, <1>5, <1>6, <1>7 DEF r

LEMMA RemoveTrust ==
    ASSUME NEW q, Packets(q), NEW n \in DOMAIN q
    PROVE  LET r == RemoveAt(q, n) IN
           /\ \A j \in DOMAIN r : \E m \in DOMAIN q : r[j] = q[m]
           /\ FailureLast(q) => FailureLast(r)
           /\ FailureLast(q) /\ n = 1 /\ q[1].t = "FAILURE" => NoSuccess(r)
  <1> DEFINE r == RemoveAt(q, n)
             at(j) == IF j < n THEN j ELSE j + 1
  <1>1. /\ DOMAIN r = 1..(Len(q) - 1)
        /\ \A j \in DOMAIN r : r[j] = q[at(j)]
    BY RemoveSeq DEF Packets
  <1>2. Len(q) \in Nat /\ DOMAIN q = 1..Len(q)
    BY SeqDomain DEF Packets
  <1> HIDE DEF r
  <1>3. \A j \in DOMAIN r : at(j) \in DOMAIN q /\ (n = 1 => at(j) > 1)
    BY <1>1, <1>2
  <1>4. \A j, m \in DOMAIN r : j < m => at(j) < at(m)
    BY <1>1, <1>2
  <1> HIDE DEF at
  <1>5. FailureLast(q) => FailureLast(r)
    BY <1>1, <1>3, <1>4 DEF FailureLast
  <1>6. FailureLast(q) /\ n = 1 /\ q[1].t = "FAILURE" => NoSuccess(r)
    BY <1>1, <1>3 DEF FailureLast, NoSuccess
  <1> QED
    BY <1>1, <1>3, <1>5, <1>6 DEF r

-----------------------------------------------------------------------------
(***************************************************************************)
(* A step of end e in the first exchange that leaves the record l and the  *)
(* queue rest[e].                                                          *)
(***************************************************************************)

\* The responder keeps to its answer.
Answers(k, l) ==
    /\ Past(k) => Past(l) /\ l.prop = k.prop
    /\ k.hist # <<>> => l.hist # <<>>
    /\ \A n \in DOMAIN l.out : Says(l, l.out[n])
    /\ l.retrans # None => Says(l, l.retrans)

Follows(e, l) ==
    /\ DOMAIN l = Fields /\ l.rekeying = FALSE /\ First(l)
    /\ Packets(l.out) /\ AllGenuine(l.out)
    /\ e = "r" => Answers(end["r"], l)
    /\ e = "i" => Heard(l, end["r"])
    /\ ~cfg.udp => /\ ~end[e].link => ~l.link /\ OnlyData(l.out)
                   /\ Len(l.out) <= 1
                   /\ ~NoFailure(l.out) => ~l.link

\* An end that is told of a failure has read it from its queue.
Leaves(e, l, rest) ==
    /\ DOMAIN rest = Ends /\ rest[Peer(e)] = net[Peer(e)]
    /\ \A j \in DOMAIN rest[e] : \E m \in DOMAIN net[e] : rest[e][j] = net[e][m]
    /\ ~cfg.udp => /\ FailureLast(rest[e])
                   /\ l.st = "failure" => /\ end[e].st = "failure" \/ ~NoFailure(net[e])
                                          /\ NoSuccess(rest[e])

\* The fields these properties are about.
SameKeys(k, l) ==
    /\ l.round = k.round /\ l.keymat = k.keymat /\ l.rekey = k.rekey
    /\ l.send = k.send /\ l.recv = k.recv /\ l.done = k.done

Same(k, l) ==
    /\ l.me = k.me /\ l.st = k.st /\ l.link = k.link /\ l.status = k.status
    /\ l.hist = k.hist /\ l.runs = k.runs /\ l.pkt = k.pkt /\ l.retrans = k.retrans
    /\ SameTrust(k, l) /\ SameKeys(k, l)

LEMMA SameFirm ==
    ASSUME NEW k, NEW l, SameTrust(k, l), SameKeys(k, l), Firm(k), l.me = k.me, l.st = k.st, l.link = k.link,
           l.status = k.status, l.hist = k.hist
    PROVE  Firm(l)
  <1>1. (Proper(k) => Proper(l)) /\ (Trusted(k) => Trusted(l)) /\ (Verified(k) => Verified(l))
    BY DEF SameTrust, Proper, Trusted, Verified, Hash, HashI
  <1>2. Material(l)
    BY DEF Firm, Material, Renewal, SameTrust, SameKeys
  <1> QED
    BY <1>1, <1>2 DEF Firm

LEMMA SameFirst ==
    ASSUME NEW k, NEW l, Same(k, l), First(k)
    PROVE  First(l)
  BY SameFirm DEF Same, First, Waits

LEMMA ClearSame ==
    ASSUME NEW l, DOMAIN l = Fields
    PROVE  Same(l, Clear(l)) /\ Clear(l).rekeying = l.rekeying
  <1>1. Keeps(l, Clear(l), {"out"})
    BY ClearFields
  <1> HIDE DEF Clear
  <1> QED
    BY <1>1 DEF Keeps, Fields, Same, SameTrust, SameKeys

LEMMA FollowStep ==
    ASSUME RunInv, TrustInv, ~end["i"].rekeying, NEW e \in Ends, NEW l, NEW rest,
           Follows(e, l), Leaves(e, l, rest), Put(e, l, rest), UNCHANGED cfg
    PROVE  TrustInv'
  <1> DEFINE f == Peer(e)
             k == Clear(l)
  <1>1. f \in Ends /\ f # e /\ Ends = {e, f} /\ Peer(f) = e
    BY Peers DEF Ends
  <1>2. DOMAIN end = Ends /\ DOMAIN net = Ends /\ Packets(net[e]) /\ Packets(net[f])
    BY <1>1 DEF RunInv, Shapes
  <1>3. /\ end'[e] = k /\ end'[f] = end[f] /\ net'[e] = rest[e]
        /\ net'[f] = net[f] \o l.out
    BY <1>1, <1>2 DEF Put, Clear, Leaves
  <1>4. Same(l, k) /\ k.rekeying = FALSE /\ First(k)
    BY ClearSame, SameFirst DEF Follows
  <1> HIDE DEF k, f
  <1>5. (\A g \in Ends : end[g].rekeying \/ First(end[g]))'
    <2>1. \A g \in Ends : end'[g].rekeying \/ First(end'[g])
      BY <1>1, <1>3, <1>4 DEF TrustInv
    <2> QED
      BY <2>1 DEF First, Firm, Waits, Proper, Trusted, Verified, Hash, HashI
  <1>6. LET r == net[f] \o l.out IN
        /\ \A j \in DOMAIN r : \/ \E m \in DOMAIN net[f] : r[j] = net[f][m]
                               \/ \E m \in DOMAIN l.out : r[j] = l.out[m]
        /\ AllGenuine(net[f]) /\ AllGenuine(l.out) => AllGenuine(r)
        /\ NoFailure(net[f]) /\ NoFailure(l.out) => NoFailure(r)
        /\ NoSuccess(net[f]) /\ NoSuccess(l.out) => NoSuccess(r)
        /\ FailureLast(net[f]) /\ Len(l.out) <= 1 /\ (NoFailure(net[f]) \/ NoSuccess(l.out))
              => FailureLast(r)
    BY <1>2, ConcatTrust DEF Follows
  <1>7. Talk
    BY DEF TrustInv
  <1>8. (\A g \in Ends : AllGenuine(net[g]))'
    <2>1. AllGenuine(net'[f])
      BY <1>1, <1>3, <1>6, <1>7 DEF Talk, Follows
    <2>2. AllGenuine(net'[e])
      BY <1>3, <1>7 DEF Talk, Leaves, AllGenuine
    <2> QED
      BY <1>1, <2>1, <2>2 DEF AllGenuine
  <1>9. Talk'
    <2>1. CASE e = "r"
      <3>1. f = "i"
        BY <2>1, Peers DEF f
      <3>2. Answers(end["r"], l)
        BY <2>1 DEF Follows
      <3>3. \A p : Says(end["r"], p) => Says(k, p)
        BY <1>4, <3>2 DEF Says, Answers, Past, Same, SameTrust
      <3>4. \A p : Says(l, p) => Says(k, p)
        BY <1>4 DEF Says, Past, Same, SameTrust
      <3>5. \A n \in DOMAIN net'["i"] : Says(k, net'["i"][n])
        BY <1>3, <1>6, <1>7, <3>1, <3>2, <3>3, <3>4 DEF Talk, Answers
      <3>6. k.retrans # None => Says(k, k.retrans)
        BY <1>4, <3>2, <3>4 DEF Answers, Same
      <3>7. Heard(end["i"], k)
        BY <1>4, <1>7, <3>2, <3>3 DEF Heard, Talk, Answers, Same, SameTrust, Past
      <3> QED
        BY <1>3, <1>8, <2>1, <3>1, <3>5, <3>6, <3>7 DEF Talk
    <2>2. CASE e = "i"
      <3>1. f = "r"
        BY <2>2, Peers DEF f
      <3>2. Heard(l, end["r"])
        BY <2>2 DEF Follows
      <3>3. Heard(k, end["r"])
        BY <1>4, <3>2 DEF Heard, Same, SameTrust
      <3>4. \A n \in DOMAIN net'["i"] : Says(end["r"], net'["i"][n])
        BY <1>3, <1>7, <2>2 DEF Talk, Leaves
      <3> QED
        BY <1>3, <1>7, <1>8, <2>2, <3>1, <3>3, <3>4 DEF Talk
    <2> QED
      BY <2>1, <2>2 DEF Ends
  <1>10. ASSUME ~cfg.udp PROVE Silence'
    <2>1. Silence
      BY <1>10 DEF TrustInv
    <2>2. /\ end'[e].st = "failure" \/ ~NoFailure(net'[e]) => ~end'[f].link
          /\ end'[e].st = "failure" => NoSuccess(net'[e])
          /\ FailureLast(net'[e])
      <3>1. k.st = l.st
        BY <1>4 DEF Same
      <3>2. ~NoFailure(rest[e]) => ~NoFailure(net[e])
        BY DEF Leaves, NoFailure
      <3>3. l.st = "failure" \/ ~NoFailure(rest[e]) => ~end[f].link
        BY <1>10, <2>1, <3>2 DEF Leaves, Silence, f
      <3>4. l.st = "failure" => NoSuccess(rest[e])
        BY <1>10 DEF Leaves
      <3> QED
        BY <1>3, <1>10, <3>1, <3>3, <3>4 DEF Leaves
    <2>3. /\ end'[f].st = "failure" \/ ~NoFailure(net'[f]) => ~end'[e].link
          /\ end'[f].st = "failure" => NoSuccess(net'[f])
          /\ FailureLast(net'[f])
      <3>1. k.link = l.link
        BY <1>4 DEF Same
      <3>2. /\ ~end[e].link => ~l.link /\ OnlyData(l.out)
            /\ Len(l.out) <= 1
            /\ ~NoFailure(l.out) => ~l.link
        BY <1>10 DEF Follows
      <3>3. /\ end[f].st = "failure" \/ ~NoFailure(net[f]) => ~end[e].link
            /\ end[f].st = "failure" => NoSuccess(net[f])
            /\ FailureLast(net[f])
        BY <1>1, <2>1 DEF Silence
      <3>4. OnlyData(l.out) => NoFailure(l.out) /\ NoSuccess(l.out)
        BY DEF OnlyData, NoFailure, NoSuccess
      <3> QED
        BY <1>3, <1>6, <3>1, <3>2, <3>3, <3>4
    <2>4. Peer(e) = f
      BY DEF f
    <2> QED
      BY <1>1, <2>2, <2>3, <2>4 DEF Silence
  <1> QED
    BY <1>5, <1>9, <1>10 DEF TrustInv

LEMMA FirstEnds ==
    ASSUME RunInv, TrustInv, ~end["i"].rekeying, NEW e \in Ends
    PROVE  /\ First(end[e]) /\ Firm(end[e]) /\ Talk /\ end[e].rekeying = FALSE
           /\ end[e].link => end[e].hist = <<>> /\ end[e].status = "OK"
  <1>1. ~end[e].rekeying
    BY DEF RunInv, Rekeys, Ends
  <1>2. Formed(end[e])
    BY Locals
  <1>3. First(end[e])
    BY <1>1 DEF TrustInv
  <1> QED
    BY <1>1, <1>2, <1>3 DEF TrustInv, Formed, First, Firm

LEMMA GoneFollows ==
    ASSUME RunInv, TrustInv, ~end["i"].rekeying, NEW e \in Ends, end[e].link, NEW x,
           x.me = e, x.hist = end[e].hist, x.prop = end[e].prop, x.round = end[e].round,
           x.retrans = end[e].retrans \/ x.retrans = None,
           NEW l, DOMAIN l = Fields, l.me = e, l.rekeying = FALSE, Gone(x, l),
           Packets(l.out), Len(l.out) <= 1
    PROVE  Follows(e, l) /\ l.st # "failure"
  <1>1. /\ First(end[e]) /\ Talk /\ end[e].hist = <<>>
    BY FirstEnds
  <1>2. l.hist = <<>> /\ ~l.link /\ l.st = "none" /\ l.retrans = x.retrans /\ Failing(l.out)
        /\ (e = "r" => l.prop = end[e].prop)
    BY <1>1 DEF Gone
  <1>3. First(l)
    <2>1. l.retrans # None => Genuine(l.retrans)
      BY <1>1, <1>2 DEF First
    <2>2. Material(l)
      BY <1>1, <1>2 DEF First, Firm, Material, Gone
    <2> QED
      BY <1>2, <2>1, <2>2 DEF First, Firm, InitiatorStates, ResponderStates
  <1>4. AllGenuine(l.out)
    BY <1>2 DEF AllGenuine, Failing, Genuine
  <1>5. ASSUME e = "r" PROVE Answers(end["r"], l)
    <2>1. Past(l) /\ l.prop = end["r"].prop
      BY <1>2, <1>5 DEF Past
    <2>2. \A n \in DOMAIN l.out : Says(l, l.out[n])
      BY <1>2 DEF Failing, Says
    <2>3. \A p : Says(end["r"], p) => Says(l, p)
      BY <1>1, <1>5, <2>1 DEF Says
    <2>4. l.retrans # None => Says(l, l.retrans)
      BY <1>1, <1>2, <1>5, <2>3 DEF Talk
    <2> QED
      BY <1>1, <1>5, <2>1, <2>2, <2>4 DEF Answers
  <1>6. e = "i" => Heard(l, end["r"])
    BY <1>2 DEF Heard
  <1> QED
    BY <1>2, <1>3, <1>4, <1>5, <1>6 DEF Follows

\* The packet that an end has when it runs.
Carries(x) ==
    x.pkt # None =>
        /\ Genuine(x.pkt)
        /\ x.pkt.t = "SUCCESS" => x.st # "i_start" /\ (x.st = "r_start" => ~cfg.udp)

LEMMA EffectFollows ==
    ASSUME RunInv, TrustInv, ~end["i"].rekeying, NEW e \in Ends, end[e].link, NEW x,
           Beginning(x), Firm(x), Carries(x), x.link, x.me = e, x.hist = end[e].hist,
           x.prop = end[e].prop, x.retrans = end[e].retrans, Past(end[e]) => Past(x),
           e = "i" => Heard(x, end["r"]), x.st \in Reads => x.pkt # None,
           NEW l, Effect(x, l), Packets(l.out), Len(l.out) <= 1
    PROVE  Follows(e, l) /\ l.st # "failure"
  <1>1. /\ First(end[e]) /\ Talk /\ end[e].hist = <<>>
    BY FirstEnds
  <1>2. DOMAIN l = Fields /\ l.me = e /\ l.rekeying = FALSE
    BY DEF Effect, Beginning
  <1>3. CASE Gone(x, l)
    <2>1. x.round = end[e].round
      BY <1>1 DEF First, Firm, Material
    <2> QED
      BY <1>2, <1>3, <2>1, GoneFollows
  <1>4. CASE Stays(x, l)
    <2>1. /\ l.link = x.link /\ l.status = x.status /\ l.hist = x.hist /\ l.me = x.me
          /\ l.prop = x.prop /\ l.retrans = x.retrans /\ l.out = x.out
          /\ l.start = x.start /\ l.ke1 = x.ke1 /\ l.ke2 = x.ke2 /\ l.KEY = x.KEY
          /\ SameKeys(x, l)
      BY <1>4 DEF Stays, Keeps, Fields, SameKeys
    <2>2. /\ x.st \in Reads \cup {"r_start"} /\ l.st = IF x.st = "r_start" THEN "r_phase1" ELSE x.st
          /\ l.pkt = IF x.st = "r_start" THEN x.pkt ELSE None
      BY <1>4 DEF Stays
    <2>3. l.out = <<>>
      BY <2>1 DEF Beginning
    <2>4. Firm(l)
      <3>1. (Proper(x) => Proper(l)) /\ (Trusted(x) => Trusted(l)) /\ (Verified(x) => Verified(l))
        BY <2>1 DEF Proper, Trusted, Verified, Hash, HashI
      <3>2. Material(l)
        BY <2>1, <2>2 DEF Firm, Material, Renewal, SameKeys
      <3> QED
        BY <2>1, <2>2, <3>1, <3>2 DEF Firm, InitiatorStates, ResponderStates
    <2>5. First(l) /\ l.st # "failure"
      <3>1. l.retrans # None => Genuine(l.retrans)
        BY <1>1, <2>1 DEF First
      <3> QED
        BY <2>2, <2>4, <3>1 DEF First, Waits, Carries, Reads
    <2>6. Past(x) => Past(l)
      BY <2>2 DEF Past
    <2>7. e = "r" => Answers(end["r"], l)
      <3> SUFFICES ASSUME e = "r" PROVE Answers(end["r"], l)
        OBVIOUS
      <3>1. \A p : Says(end["r"], p) => Says(l, p)
        BY <1>1, <2>1, <2>6 DEF Says
      <3> QED
        BY <1>1, <2>1, <2>3, <2>6, <3>1, NoPackets DEF Answers, Talk
    <2>8. e = "i" => Heard(l, end["r"])
      BY <2>1, <2>2 DEF Heard
    <2>9. AllGenuine(l.out) /\ NoFailure(l.out)
      BY <2>3, NoPackets DEF AllGenuine, NoFailure
    <2> QED
      BY <1>2, <2>5, <2>7, <2>8, <2>9 DEF Follows
  <1>5. CASE Sends(x, l)
    <2>1. /\ l.link /\ l.status = "OK" /\ l.hist = <<>>
          /\ l.pkt = None \/ (x.st = "i_start" /\ l.pkt = x.pkt)
      BY <1>1, <1>5 DEF Sends
    <2>2. PICK p : /\ l.out = <<p>> /\ (l.retrans = x.retrans \/ l.retrans = p)
                   /\ p.t # "FAILURE" /\ Goes(x, l, p)
      BY <1>5 DEF Sends
    <2>3. /\ x.st \in InitiatorStates => e = "i"
          /\ x.st \in ResponderStates => e = "r"
          /\ x.st = "r_phase2" => Proper(x)
      BY DEF Firm, ResponderStates
    <2>4. l.st \in {"i_phase1", "i_phase3", "i_end", "r_phase2", "r_end"}
      BY <2>2 DEF Goes
    <2>5. /\ l.st \in InitiatorStates => e = "i"
          /\ l.st \in ResponderStates => e = "r"
      BY <2>2, <2>3 DEF Goes, InitiatorStates, ResponderStates
    <2>6. /\ l.st = "i_end" => Verified(l)
          /\ l.st = "r_end" => Trusted(l)
          /\ l.st \in {"r_phase2", "r_end"} => Proper(l)
      BY <2>2, <2>3 DEF Goes, Proper
    <2>7. First(l) /\ l.st # "failure" /\ Genuine(p)
      <3>1. Material(x) /\ l.round = x.round /\ l.done = x.done /\ x.hist = <<>>
        BY <1>1, <1>5 DEF Sends, Firm
      <3>2. x.round = 1 /\ Secret("i", x) = <<"i", 1>> /\ Secret("r", x) = <<"r", 1>>
        BY <3>1 DEF Material, Secret
      <3>3. x.st \in {"i_phase3", "r_phase2"} => Genuine(x.pkt)
        BY DEF Carries, Reads
      <3>4. Genuine(p)
        BY <2>2, <3>2 DEF Goes, Genuine
      <3>5. l.st \in {"i_phase3", "i_end"} => l.ke1.x = <<"i", 1>>
        BY <2>2, <3>1, <3>2 DEF Goes, Material
      <3>6. l.st = "i_end" => l.keymat = <<FirstKey>> /\ l.rekey = Renewal(l)
        BY <2>2, <3>1, <3>3 DEF Goes, Material, Genuine, FirstKey, Renewal, Derived
      <3>7. l.st = "r_end" => l.KEY = FirstKey
        BY <2>2, <3>2, <3>3 DEF Goes, Genuine, FirstKey
      <3>8. Material(l)
        BY <2>1, <3>1, <3>2, <3>5, <3>6, <3>7 DEF Material
      <3>9. Firm(l)
        BY <1>2, <2>1, <2>4, <2>5, <2>6, <3>8 DEF Firm
      <3>10. l.pkt # None => Waits(l, l.pkt)
        BY <2>1 DEF Waits, Carries
      <3>11. l.retrans # None => Genuine(l.retrans)
        BY <1>1, <2>2, <3>4 DEF First
      <3> QED
        BY <2>4, <3>4, <3>9, <3>10, <3>11 DEF First
    <2>8. e = "r" => Answers(end["r"], l)
      <3> SUFFICES ASSUME e = "r" PROVE Answers(end["r"], l)
        OBVIOUS
      <3>1. Past(l) /\ (Past(end["r"]) => l.prop = end["r"].prop) /\ Says(l, p)
        BY <2>2, <2>3 DEF Goes, Past, Says, InitiatorStates
      <3>2. \A q : Says(end["r"], q) => Says(l, q)
        BY <1>1, <3>1 DEF Says
      <3>3. \A n \in DOMAIN l.out : Says(l, l.out[n])
        BY <2>2, <3>1, OnePacket
      <3>4. l.retrans # None => Says(l, l.retrans)
        BY <1>1, <2>2, <3>1, <3>2 DEF Talk
      <3> QED
        BY <1>1, <3>1, <3>3, <3>4 DEF Answers
    <2>9. e = "i" => Heard(l, end["r"])
      <3> SUFFICES ASSUME e = "i" PROVE Heard(l, end["r"])
        OBVIOUS
      <3>1. Heard(x, end["r"])
        OBVIOUS
      <3>2. l.st \in {"i_phase3", "i_end"} => Past(end["r"]) /\ l.prop = end["r"].prop
        <4>1. CASE x.st = "i_phase1" /\ l.st = "i_phase3" /\ x.pkt.t = "KEY_EXCHANGE" /\ l.prop = x.pkt.body
          <5>1. x.pkt # None
            BY <4>1 DEF Reads
          <5> QED
            BY <3>1, <4>1, <5>1 DEF Heard, Says
        <4>2. CASE x.st = "i_phase3" /\ l.prop = x.prop
          BY <3>1, <4>2 DEF Heard
        <4> QED
          BY <2>2, <2>3, <4>1, <4>2 DEF Goes, ResponderStates
      <3> QED
        BY <2>1, <3>1, <3>2 DEF Heard
    <2>10. AllGenuine(l.out) /\ NoFailure(l.out)
      BY <2>2, <2>7, OnePacket DEF AllGenuine, NoFailure
    <2> QED
      BY <1>2, <2>7, <2>8, <2>9, <2>10 DEF Follows
  <1>6. CASE Done(x, l)
    <2>a. x.hist = <<>> /\ \A m : Append(<<>>, m) # <<>>
      BY <1>1, OnePacket DEF Firm
    <2>1. ~l.link /\ l.st = "none" /\ l.hist # <<>> /\ SameTrust(x, l)
      BY <1>6, <2>a DEF Done, SameTrust, Uses
    <2>2. (Proper(x) => Proper(l)) /\ (Trusted(x) => Trusted(l)) /\ (Verified(x) => Verified(l))
      BY <2>1 DEF Proper, Trusted, Verified, Hash, HashI, SameTrust
    <2>3. /\ x.st = "i_end" => e = "i" /\ Verified(l)
          /\ x.st = "r_end" => e = "r" /\ Trusted(l) /\ Proper(l)
      BY <2>2 DEF Firm, InitiatorStates, ResponderStates
    <2>4. \/ x.st = "i_end" /\ x.pkt.t = "SUCCESS" /\ l.out = <<>> /\ l.retrans = x.retrans
          \/ \E p : /\ x.st = "r_end" /\ l.out = <<p>> /\ p.t = "SUCCESS"
                    /\ (l.retrans = x.retrans \/ l.retrans = p)
      BY <1>6 DEF Done
    <2>5. First(l)
      <3>1. Material(x) /\ l.round = x.round /\ x.hist = <<>>
        BY <1>1, <1>6 DEF Done, Firm
      <3>2. Uses(x, l, <<FirstKey>>) /\ l.rekey = Renewal(l)
        BY <1>6, <2>1, <3>1 DEF Done, Material, Renewal, Derived, SameTrust
      <3>3. Material(l)
        BY <1>2, <2>1, <3>1, <3>2 DEF Material, Uses
      <3>4. l.retrans # None => Genuine(l.retrans)
        BY <1>1, <2>4 DEF First, Genuine
      <3> QED
        BY <1>2, <2>1, <2>3, <2>4, <3>3, <3>4 DEF First, Firm, InitiatorStates, ResponderStates
    <2>6. e = "r" => Answers(end["r"], l)
      <3> SUFFICES ASSUME e = "r" PROVE Answers(end["r"], l)
        OBVIOUS
      <3>1. PICK p : l.out = <<p>> /\ p.t = "SUCCESS" /\ (l.retrans = x.retrans \/ l.retrans = p)
        BY <2>3, <2>4
      <3>2. Past(l) /\ l.prop = end["r"].prop
        BY <2>1 DEF Past, SameTrust
      <3>3. Says(l, p) /\ \A q : Says(end["r"], q) => Says(l, q)
        BY <2>1, <3>1, <3>2 DEF Says
      <3>4. \A n \in DOMAIN l.out : Says(l, l.out[n])
        BY <3>1, <3>3, OnePacket
      <3>5. l.retrans # None => Says(l, l.retrans)
        BY <1>1, <3>1, <3>3 DEF Talk
      <3> QED
        BY <2>1, <3>2, <3>4, <3>5 DEF Answers
    <2>7. e = "i" => Heard(l, end["r"])
      <3> SUFFICES ASSUME e = "i" PROVE Heard(l, end["r"])
        OBVIOUS
      <3>1. x.st = "i_end" /\ x.pkt.t = "SUCCESS" /\ x.pkt # None
        BY <2>3, <2>4 DEF Reads
      <3>2. end["r"].hist # <<>> /\ Past(end["r"]) /\ x.prop = end["r"].prop
        BY <3>1 DEF Heard, Says
      <3> QED
        BY <2>1, <3>2 DEF Heard, SameTrust
    <2>8. AllGenuine(l.out)
      BY <2>4, OnePacket, NoPackets DEF AllGenuine, Genuine
    <2> QED
      BY <1>2, <2>1, <2>5, <2>6, <2>7, <2>8 DEF Follows
  <1> QED
    BY <1>3, <1>4, <1>5, <1>6 DEF Effect

-----------------------------------------------------------------------------
(***************************************************************************)
(* The steps of the first exchange.                                        *)
(***************************************************************************)

\* x is end e as a run of its machine finds it.
Found(e, x) ==
    /\ Runnable(x) /\ Living(x) /\ x.link /\ x.me = e /\ x.rekeying = FALSE
    /\ Firm(x) /\ Carries(x)
    /\ x.hist = end[e].hist /\ x.prop = end[e].prop /\ x.retrans = end[e].retrans
    /\ Past(end[e]) => Past(x)
    /\ e = "i" => Heard(x, end["r"])
    /\ x.st = "failure" /\ x.pkt # None => x.pkt.t # "SUCCESS"
    /\ x.st = "r_end" /\ x.pkt.t = "SUCCESS" => ~x.aborted
    /\ \/ x.runs = 0
       \/ x.st = "failure"
       \/ x.st = "r_start" /\ x.runs = 1 /\ x.pkt # None /\ ~cfg.udp /\ ~x.rekeying

\* What remains of the queue when nobody is told of a failure.
Remains(e, rest) ==
    /\ DOMAIN rest = Ends /\ rest[Peer(e)] = net[Peer(e)]
    /\ \A j \in DOMAIN rest[e] : \E m \in DOMAIN net[e] : rest[e][j] = net[e][m]
    /\ ~cfg.udp => FailureLast(rest[e])

LEMMA RemainsNet ==
    ASSUME RunInv, TrustInv, ~end["i"].rekeying, NEW e \in Ends
    PROVE  Remains(e, net)
  BY DEF RunInv, Shapes, TrustInv, Silence, Remains

LEMMA TrustRun ==
    ASSUME NoneIsNoRecord, Signing, RunInv, TrustInv, ~end["i"].rekeying, NEW e \in Ends,
           end[e].link, NEW x, Found(e, x), NEW rest, Remains(e, rest),
           Put(e, Run(x), rest), UNCHANGED cfg
    PROVE  TrustInv'
  <1> DEFINE l == Run(x)
  <1>1. cfg \in Configs /\ cfg.signs["r"]
    BY DEF RunInv, Shapes, Signing
  <1>2. Beginning(x)
    BY DEF Found, Beginning, Runnable, Formed, Firm
  <1>3. x.st \in Reads => x.pkt # None
    BY DEF Found, Runnable
  <1>4. Effect(x, l)
    BY <1>1, <1>2, RunEffect DEF Found, Carries, Genuine
  <1>5. Packets(l.out) /\ Len(l.out) <= 1
    <2>1. Packets(l.out) /\ Len(l.out) <= Bound(x)
      BY RunStep DEF Found
    <2> QED
      BY <2>1 DEF Bound, Found
  <1> HIDE DEF l
  <1>6. Follows(e, l) /\ l.st # "failure"
    BY <1>2, <1>3, <1>4, <1>5, EffectFollows DEF Found
  <1>7. Leaves(e, l, rest)
    BY <1>6 DEF Leaves, Remains
  <1>8. Put(e, l, rest)
    BY DEF l
  <1> QED
    BY <1>6, <1>7, <1>8, FollowStep

LEMMA TrustFsmRun ==
    ASSUME NoneIsNoRecord, Signing, RunInv, TrustInv, ~end["i"].rekeying, NEW e \in Ends, FsmRun(e)
    PROVE  TrustInv'
  <1> DEFINE k == end[e]
             x == [k EXCEPT !.runs = @ - 1]
  <1>1. k.runs > 0 /\ Put(e, Run(x), net) /\ cfg' = cfg
    BY DEF FsmRun
  <1>2. /\ Keeps(k, x, {"runs"}) /\ Runnable(x) /\ Living(x) /\ x.link
        /\ \/ x.runs = 0
           \/ x.st = "failure"
           \/ x.st = "r_start" /\ x.runs = 1 /\ x.pkt # None /\ ~cfg.udp /\ ~x.rekeying
    BY <1>1, FsmRunnable
  <1>3. First(k) /\ Firm(k) /\ Talk /\ k.rekeying = FALSE /\ k.me = e
    BY FirstEnds, Locals
  <1>4. e = "i" => Heard(k, end["r"])
    BY <1>3 DEF Talk
  <1> HIDE DEF x, k
  <1>5. /\ x.me = k.me /\ x.st = k.st /\ x.link = k.link /\ x.status = k.status /\ x.hist = k.hist
        /\ x.pkt = k.pkt /\ x.retrans = k.retrans /\ x.rekeying = k.rekeying /\ SameTrust(k, x)
        /\ SameKeys(k, x)
    BY <1>2 DEF Keeps, Fields, SameTrust, SameKeys
  <1>6. x.pkt # None => Waits(x, x.pkt)
    BY <1>2, <1>3, <1>5 DEF First, Waits
  <1>7. Runnable(x) /\ (x.st \in Reads => x.pkt # None)
    BY <1>2 DEF Runnable
  <1>8. /\ Carries(x)
        /\ x.st = "failure" /\ x.pkt # None => x.pkt.t # "SUCCESS"
        /\ x.st = "r_end" /\ x.pkt.t = "SUCCESS" => ~x.aborted
    BY <1>6, <1>7 DEF Carries, Waits, Reads
  <1>9. Firm(x)
    BY <1>3, <1>5, SameFirm
  <1>10. e = "i" => Heard(x, end["r"])
    BY <1>4, <1>5 DEF Heard, SameTrust
  <1>11. Found(e, x)
    BY <1>2, <1>3, <1>5, <1>8, <1>9, <1>10 DEF Found, SameTrust, Past, k
  <1> QED
    BY <1>1, <1>2, <1>5, <1>11, RemainsNet, TrustRun DEF k

\* The machine is told that the exchange has failed, and runs.
LEMMA TrustFail ==
    ASSUME RunInv, TrustInv, ~end["i"].rekeying, NEW e \in Ends, end[e].link, NEW x,
           Keeps(end[e], x, {"timer", "pkt", "status", "retry", "count", "retrans"}),
           x.pkt = None \/ (cfg.udp /\ x.pkt = end[e].pkt),
           x.retrans = None \/ x.retrans = end[e].retrans,
           Put(e, Run(NotifyFailure(x)), net), UNCHANGED cfg
    PROVE  TrustInv'
  <1> DEFINE k == end[e]
             y == NotifyFailure(x)
             l == Failure(y)
  <1>1. /\ First(k) /\ k.rekeying = FALSE /\ k.me = e /\ k.out = <<>> /\ Formed(k) /\ Living(k) /\ k.link
    BY FirstEnds, Locals
  <1>2. /\ DOMAIN x = Fields /\ x.me = k.me /\ x.st = k.st /\ x.notified = k.notified
        /\ x.aborted = k.aborted /\ x.rekeying = k.rekeying /\ x.out = k.out /\ x.hist = k.hist
        /\ x.prop = k.prop /\ x.round = k.round
    BY DEF Keeps, Fields
  <1>3. x.pkt # None => Waits(k, x.pkt) /\ cfg.udp
    BY <1>1 DEF First
  <1> HIDE DEF k
  <1>4. x.notified \in BOOLEAN /\ (x.notified <=> x.st = "failure") /\ x.aborted \in BOOLEAN
    BY <1>1, <1>2 DEF Living, Formed
  <1>5. Keeps(x, y, {"notified", "st"}) /\ y.st = "failure"
    BY <1>2, <1>4 DEF NotifyFailure, Keeps, Fields
  <1> HIDE DEF y
  <1>6. /\ DOMAIN y = Fields /\ y.me = e /\ y.rekeying = FALSE /\ y.aborted \in BOOLEAN /\ y.out = <<>>
        /\ y.hist = k.hist /\ y.prop = k.prop /\ y.pkt = x.pkt /\ y.retrans = x.retrans
        /\ y.round = k.round
    BY <1>1, <1>2, <1>4, <1>5 DEF Keeps, Fields
  <1>7. y.pkt # None => (y.pkt.t # "SUCCESS" /\ (y.pkt.t = "FAILURE" => y.pkt.body.status # "OK"))
    BY <1>3, <1>6 DEF Waits, Genuine
  <1>8. Effect(y, l) /\ Gone(y, l) /\ l.out = <<>>
    BY <1>6, <1>7, FailureEffect
  <1>9. Run(y) = l
    BY <1>5 DEF Run, Reads
  <1> HIDE DEF l
  <1>10. DOMAIN l = Fields /\ l.me = e /\ l.rekeying = FALSE /\ Packets(l.out) /\ Len(l.out) <= 1
    BY <1>6, <1>8, NoOut DEF Effect
  <1>11. Follows(e, l) /\ l.st # "failure"
    BY <1>1, <1>6, <1>8, <1>10, GoneFollows DEF k
  <1>12. Leaves(e, l, net)
    BY <1>11, RemainsNet DEF Leaves, Remains
  <1>13. Put(e, l, net)
    BY <1>9 DEF y
  <1> QED
    BY <1>11, <1>12, <1>13, FollowStep

LEMMA TrustTimeout ==
    ASSUME RunInv, TrustInv, ~end["i"].rekeying, NEW e \in Ends, Timeout(e)
    PROVE  TrustInv'
  <1> DEFINE x == [end[e] EXCEPT !.timer = FALSE, !.pkt = None, !.status = "TIMEOUT"]
  <1>1. DOMAIN end[e] = Fields /\ Living(end[e])
    BY Locals
  <1>2. end[e].link
    BY <1>1 DEF Timeout, Living
  <1>3. /\ Keeps(end[e], x, {"timer", "pkt", "status", "retry", "count", "retrans"})
        /\ x.pkt = None /\ x.retrans = end[e].retrans
    BY <1>1 DEF Keeps, Fields
  <1>4. Put(e, Run(NotifyFailure(x)), net) /\ cfg' = cfg
    BY DEF Timeout
  <1> HIDE DEF x
  <1> QED
    BY <1>2, <1>3, <1>4, TrustFail

\* A step that changes nothing these properties are about.
LEMMA TrustEdit ==
    ASSUME RunInv, TrustInv, ~end["i"].rekeying, NEW e \in Ends, NEW l, DOMAIN l = Fields,
           Same(end[e], l), l.rekeying = FALSE, Packets(l.out), OnlyData(l.out), Len(l.out) <= 1,
           NEW rest, Remains(e, rest), Put(e, l, rest), UNCHANGED cfg
    PROVE  TrustInv'
  <1> DEFINE k == end[e]
  <1>1. First(k) /\ Talk
    BY FirstEnds
  <1>2. First(l)
    BY <1>1, SameFirst
  <1>3. AllGenuine(l.out) /\ NoFailure(l.out)
    BY DEF OnlyData, AllGenuine, NoFailure, Genuine
  <1>4. ASSUME e = "r" PROVE Answers(end["r"], l)
    <2>1. \A p : Says(end["r"], p) => Says(l, p)
      BY <1>4 DEF Says, Past, Same, SameTrust
    <2>2. \A n \in DOMAIN l.out : Says(l, l.out[n])
      BY DEF OnlyData, Says
    <2> QED
      BY <1>1, <1>4, <2>1, <2>2 DEF Answers, Past, Same, SameTrust, Talk
  <1>5. e = "i" => Heard(l, end["r"])
    BY <1>1 DEF Talk, Heard, Same, SameTrust
  <1>6. Follows(e, l)
    BY <1>2, <1>3, <1>4, <1>5 DEF Follows, Same
  <1>7. Leaves(e, l, rest)
    <2>1. ASSUME ~cfg.udp, l.st = "failure" PROVE end[e].st = "failure" /\ NoSuccess(rest[e])
      <3>1. end[e].st = "failure"
        BY <2>1 DEF Same
      <3>2. NoSuccess(net[e])
        BY <2>1, <3>1 DEF TrustInv, Silence
      <3> QED
        BY <3>1, <3>2 DEF Remains, NoSuccess
    <2> QED
      BY <2>1 DEF Leaves, Remains
  <1> QED
    BY <1>6, <1>7, FollowStep

LEMMA TrustFinished ==
    ASSUME RunInv, TrustInv, ~end["i"].rekeying, NEW e \in Ends,
           Finished(e) \/ OwnerFree(e) \/ Abort(e)
    PROVE  TrustInv'
  <1> DEFINE k == end[e]
             u == [k EXCEPT !.fin = FALSE, !.refcnt = @ - 1]
             v == [k EXCEPT !.held = FALSE, !.refcnt = @ - 1]
             w == [k EXCEPT !.aborted = TRUE]
  <1>1. DOMAIN k = Fields /\ k.out = <<>> /\ k.rekeying = FALSE
    BY Locals, FirstEnds
  <1>2. cfg' = cfg /\ (Put(e, u, net) \/ Put(e, v, net) \/ Put(e, w, net))
    BY DEF Finished, OwnerFree, Abort
  <1>3. /\ Keeps(k, u, {"fin", "refcnt", "held", "aborted"})
        /\ Keeps(k, v, {"fin", "refcnt", "held", "aborted"})
        /\ Keeps(k, w, {"fin", "refcnt", "held", "aborted"})
    BY <1>1 DEF Keeps, Fields
  <1> HIDE DEF k, u, v, w
  <1>4. PICK l : Keeps(k, l, {"fin", "refcnt", "held", "aborted"}) /\ Put(e, l, net)
    BY <1>2, <1>3
  <1>5. DOMAIN l = Fields /\ l.out = <<>> /\ l.rekeying = FALSE /\ Same(k, l)
    BY <1>1, <1>4 DEF Keeps, Fields, Same, SameTrust, SameKeys
  <1>6. Packets(l.out) /\ OnlyData(l.out) /\ Len(l.out) <= 1
    BY <1>5, NoOut
  <1> QED
    BY <1>2, <1>4, <1>5, <1>6, RemainsNet, TrustEdit DEF k

LEMMA TrustSendData ==
    ASSUME NoneIsNoRecord, RunInv, TrustInv, ~end["i"].rekeying, NEW e \in Ends, SendData(e)
    PROVE  TrustInv'
  <1> DEFINE k == end[e]
             p == [t |-> "DATA", key |-> k.send, body |-> None]
             l == [k EXCEPT !.data = @ + 1, !.out = <<p>>]
  <1>1. DOMAIN k = Fields /\ k.rekeying = FALSE
    BY Locals, FirstEnds
  <1>2. Put(e, l, net) /\ cfg' = cfg
    BY DEF SendData
  <1>3. Keeps(k, l, {"data", "out"}) /\ l.out = <<p>>
    BY <1>1 DEF Keeps, Fields
  <1>4. p # None /\ p.t = "DATA"
    BY DEF NoneIsNoRecord
  <1> HIDE DEF p, l, k
  <1>5. Packets(<<p>>) /\ OnlyData(<<p>>) /\ Len(<<p>>) <= 1
    <2>1. <<p>> \in Seq({p}) /\ Len(<<p>>) = 1
      OBVIOUS
    <2>2. IsSeq(<<p>>)
      BY <2>1, SeqIsSeq
    <2> QED
      BY <1>4, <2>1, <2>2, OnePacket DEF Packets, OnlyData
  <1>6. DOMAIN l = Fields /\ l.rekeying = FALSE /\ Same(k, l)
    BY <1>1, <1>3 DEF Keeps, Fields, Same, SameTrust, SameKeys
  <1> QED
    BY <1>2, <1>3, <1>5, <1>6, RemainsNet, TrustEdit DEF k

\* A datagram is sent again.
LEMMA TrustResend ==
    ASSUME NoneIsNoRecord, RunInv, TrustInv, ~end["i"].rekeying, NEW e \in Ends, end[e].retry, NEW k,
           Keeps(end[e], k, {"retry", "count"}),
           Put(e, Send(k, k.retrans.t, k.retrans.body), net), UNCHANGED cfg
    PROVE  TrustInv'
  <1> DEFINE k0 == end[e]
             p == [t |-> k.retrans.t, key |-> k.send, body |-> k.retrans.body]
             l == Send(k, k.retrans.t, k.retrans.body)
  <1>1. /\ Waking(k0) /\ k0.out = <<>> /\ First(k0) /\ Firm(k0) /\ Talk /\ k0.rekeying = FALSE /\ k0.me = e
    BY Locals, FirstEnds
  <1>2. cfg.udp /\ k0.retrans # None /\ k0.retrans.t # "FAILURE"
    BY <1>1 DEF Waking
  <1>3. /\ DOMAIN k = Fields /\ k.retrans = k0.retrans /\ k.out = <<>> /\ k.rekeying = FALSE
    BY <1>1 DEF Keeps, Fields
  <1>4. Keeps(k, l, {"out", "retrans", "retry"}) /\ l.out = Append(k.out, p)
        /\ (l.retrans = k.retrans \/ l.retrans = p)
    BY <1>3, SendFields
  <1>5. p # None /\ p.t = k0.retrans.t /\ p.body = k0.retrans.body
    BY <1>3 DEF NoneIsNoRecord
  <1>6. e = "r" => end["r"] = k0
    OBVIOUS
  <1>7. e = "i" => Heard(k0, end["r"])
    BY <1>1 DEF Talk
  <1> HIDE DEF k0, l, p
  <1>8. /\ DOMAIN l = Fields /\ l.me = k0.me /\ l.st = k0.st /\ l.link = k0.link /\ l.status = k0.status
        /\ l.hist = k0.hist /\ l.runs = k0.runs /\ l.pkt = k0.pkt /\ l.rekeying = FALSE /\ SameTrust(k0, l)
        /\ SameKeys(k0, l)
    BY <1>3, <1>4 DEF Keeps, Fields, SameTrust, SameKeys, k0
  <1>9. l.out = <<p>>
    BY <1>3, <1>4, OnePacket
  <1>a. Genuine(p) /\ (l.retrans = k0.retrans \/ l.retrans = p)
    BY <1>1, <1>2, <1>3, <1>4, <1>5 DEF First, Genuine
  <1>10. First(l)
    <2>1. Firm(l)
      BY <1>1, <1>8, SameFirm
    <2> QED
      BY <1>1, <1>8, <1>a, <2>1 DEF First, Waits
  <1>11. Packets(l.out) /\ AllGenuine(l.out)
    <2>1. IsSeq(<<p>>)
      <3>1. <<p>> \in Seq({p})
        OBVIOUS
      <3> QED
        BY <3>1, SeqIsSeq
    <2> QED
      BY <1>2, <1>5, <1>9, <1>a, <2>1, OnePacket DEF Packets, AllGenuine
  <1>12. ASSUME e = "r" PROVE Answers(end["r"], l)
    <2>1. Says(end["r"], k0.retrans)
      BY <1>1, <1>2, <1>6, <1>12 DEF Talk
    <2>2. \A q : Says(end["r"], q) => Says(l, q)
      BY <1>6, <1>8, <1>12 DEF Says, Past, SameTrust
    <2>3. Says(l, p) /\ Says(l, k0.retrans)
      BY <1>5, <2>1, <2>2 DEF Says
    <2> QED
      BY <1>3, <1>4, <1>6, <1>8, <1>9, <1>12, <2>3, OnePacket DEF Answers, Past, SameTrust
  <1>13. e = "i" => Heard(l, end["r"])
    BY <1>7, <1>8 DEF Heard, SameTrust
  <1>14. Follows(e, l)
    BY <1>2, <1>8, <1>10, <1>11, <1>12, <1>13 DEF Follows
  <1>15. Leaves(e, l, net)
    BY <1>2, RemainsNet DEF Leaves, Remains
  <1>16. Put(e, l, net)
    BY DEF l
  <1> QED
    BY <1>14, <1>15, <1>16, FollowStep

LEMMA TrustRetry ==
    ASSUME NoneIsNoRecord, RunInv, TrustInv, ~end["i"].rekeying, NEW e \in Ends, Retry(e)
    PROVE  TrustInv'
  <1> DEFINE k == [end[e] EXCEPT !.retry = FALSE, !.count = @ + 1]
             x == [k EXCEPT !.count = 0, !.retrans = None, !.status = "TIMEOUT"]
  <1>1. DOMAIN end[e] = Fields /\ Living(end[e]) /\ Waking(end[e]) /\ end[e].retry
    BY Locals DEF Retry
  <1>2. end[e].link /\ cfg.udp
    BY <1>1 DEF Living, Waking
  <1>3. Keeps(end[e], k, {"retry", "count"})
    BY <1>1 DEF Keeps, Fields
  <1>4. /\ Keeps(end[e], x, {"timer", "pkt", "status", "retry", "count", "retrans"})
        /\ x.pkt = end[e].pkt /\ x.retrans = None
    BY <1>1 DEF Keeps, Fields
  <1>5. /\ cfg' = cfg
        /\ \/ Put(e, Run(NotifyFailure(x)), net)
           \/ Put(e, Send(k, k.retrans.t, k.retrans.body), net)
    BY DEF Retry
  <1> HIDE DEF x, k
  <1> QED
    BY <1>1, <1>2, <1>3, <1>4, <1>5, TrustFail, TrustResend

LEMMA RemainsRemove ==
    ASSUME RunInv, TrustInv, ~end["i"].rekeying, NEW e \in Ends, NEW n \in DOMAIN net[e],
           ~cfg.udp => n = 1
    PROVE  LET rest == [net EXCEPT ![e] = RemoveAt(@, n)] IN
           /\ Remains(e, rest)
           /\ ~cfg.udp /\ net[e][n].t = "FAILURE" => NoSuccess(rest[e])
  <1> DEFINE rest == [net EXCEPT ![e] = RemoveAt(@, n)]
             q == net[e]
             r == RemoveAt(q, n)
  <1>1. DOMAIN net = Ends /\ Packets(q)
    BY DEF RunInv, Shapes
  <1>2. /\ \A j \in DOMAIN r : \E m \in DOMAIN q : r[j] = q[m]
        /\ FailureLast(q) => FailureLast(r)
        /\ FailureLast(q) /\ n = 1 /\ q[1].t = "FAILURE" => NoSuccess(r)
    BY <1>1, RemoveTrust
  <1>3. DOMAIN rest = Ends /\ rest[e] = r /\ rest[Peer(e)] = net[Peer(e)]
    BY <1>1, Peers DEF Ends
  <1>4. ~cfg.udp => FailureLast(q)
    BY DEF TrustInv, Silence
  <1> HIDE DEF rest, r
  <1> QED
    BY <1>2, <1>3, <1>4 DEF Remains, rest, r

LEMMA TrustDrop ==
    ASSUME RunInv, TrustInv, ~end["i"].rekeying, NEW e \in Ends, NEW rest, Remains(e, rest),
           Put(e, end[e], rest), UNCHANGED cfg
    PROVE  TrustInv'
  <1>1. DOMAIN end[e] = Fields /\ end[e].out = <<>> /\ end[e].rekeying = FALSE
    BY Locals, FirstEnds
  <1>2. Same(end[e], end[e])
    BY DEF Same, SameTrust, SameKeys
  <1>3. Packets(end[e].out) /\ OnlyData(end[e].out) /\ Len(end[e].out) <= 1
    BY <1>1, NoOut
  <1> QED
    BY <1>1, <1>2, <1>3, TrustEdit

\* A packet for an exchange that has been aborted.
LEMMA TrustAborted ==
    ASSUME NoneIsNoRecord, RunInv, TrustInv, ~end["i"].rekeying, NEW e \in Ends, end[e].link,
           end[e].aborted, NEW x, Taken(end[e], x, None), NEW rest, Remains(e, rest),
           Put(e, Aborted(x), rest), UNCHANGED cfg
    PROVE  TrustInv'
  <1> DEFINE k == end[e]
             l == Aborted(x)
  <1>1. Formed(k) /\ Living(k) /\ Waking(k) /\ k.out = <<>> /\ k.rekeying = FALSE /\ k.me = e
    BY Locals, FirstEnds
  <1>2. /\ Formed(x) /\ ResendOk(x) /\ x.out = <<>> /\ x.me = e /\ x.rekeying = FALSE
        /\ x.retrans = k.retrans
    BY <1>1, TakenFields
  <1>3. x.hist = k.hist /\ x.prop = k.prop /\ x.round = k.round /\ x.aborted
    BY DEF Taken, Keeps, Fields
  <1>4. /\ DOMAIN l = Fields /\ l.me = e /\ l.rekeying = FALSE /\ Gone(x, l)
    BY <1>2, <1>3, ErrorGone DEF Formed
  <1>5. Packets(l.out) /\ Len(l.out) <= 1
    <2>1. OutOk(x, l.out, 1)
      BY <1>2, AbortedOver DEF Moves
    <2> QED
      BY <2>1, OutPackets DEF OutOk
  <1> HIDE DEF l
  <1>6. Follows(e, l) /\ l.st # "failure"
    BY <1>2, <1>3, <1>4, <1>5, GoneFollows
  <1>7. Leaves(e, l, rest)
    BY <1>6 DEF Leaves, Remains
  <1>8. Put(e, l, rest)
    BY DEF l
  <1> QED
    BY <1>6, <1>7, <1>8, FollowStep

\* SUCCESS runs the machine at once.
LEMMA TrustSuccess ==
    ASSUME NoneIsNoRecord, Signing, RunInv, TrustInv, ~end["i"].rekeying, NEW e \in Ends, end[e].link,
           ~end[e].aborted, NEW n \in DOMAIN net[e], net[e][n].t = "SUCCESS",
           cfg.udp => end[e].runs = 0,
           NEW x, Taken(end[e], x, net[e][n]), x.st = end[e].st, NEW rest, Remains(e, rest),
           Put(e, Run(x), rest), UNCHANGED cfg
    PROVE  TrustInv'
  <1> DEFINE k == end[e]
             p == net[e][n]
  <1>1. /\ Formed(k) /\ Living(k) /\ Waking(k) /\ k.out = <<>> /\ k.rekeying = FALSE /\ k.me = e
        /\ First(k) /\ Firm(k) /\ Talk /\ k.link /\ ~k.aborted
    BY Locals, FirstEnds
  <1>2. /\ Formed(x) /\ Living(x) /\ x.link /\ ResendOk(x) /\ x.out = <<>> /\ x.runs = k.runs
        /\ x.me = e /\ x.rekeying = FALSE /\ x.st # "none" /\ x.retrans = k.retrans
        /\ x.st = "rekey_i_start" => x.rekeying
    BY <1>1, TakenFields
  <1>3. p # None /\ x.pkt = p
    BY DEF RunInv, Shapes, Packets, Taken
  <1>4. /\ x.hist = k.hist /\ x.prop = k.prop /\ x.aborted = k.aborted /\ x.status = k.status
        /\ SameTrust(k, x) /\ SameKeys(k, x)
    BY DEF Taken, Keeps, Fields, SameTrust, SameKeys
  <1>5. ~cfg.udp => ~Busy(k) /\ k.st # "failure"
    <2> SUFFICES ASSUME ~cfg.udp PROVE ~Busy(k) /\ k.st # "failure"
      OBVIOUS
    <2>1. ~NoTurn(net[e]) /\ ~NoSuccess(net[e])
      BY DEF NoTurn, NoSuccess, Turns
    <2>2. ~Busy(k)
      BY <2>1, Turns1
    <2>3. NoSuccess(net[e]) \/ k.st # "failure"
      BY DEF TrustInv, Silence
    <2> QED
      BY <2>1, <2>2, <2>3
  <1>6. cfg.udp => k.runs = 0 /\ k.st \notin {"i_start", "r_start", "failure"}
    BY <1>1 DEF First, Waking
  <1>7. k.st # "failure" /\ k.st # "i_start" /\ (k.st = "r_start" => ~cfg.udp)
    BY <1>5, <1>6 DEF Busy
  <1>8. e = "i" => Heard(x, end["r"])
    <2> SUFFICES ASSUME e = "i" PROVE Heard(x, end["r"])
      OBVIOUS
    <2>1. Heard(k, end["r"]) /\ Says(end["r"], p)
      BY <1>1 DEF Talk
    <2> QED
      BY <1>3, <1>4, <2>1 DEF Heard, SameTrust
  <1> HIDE DEF k, p
  <1>9. \/ x.runs = 0
        \/ x.st = "r_start" /\ x.runs = 1 /\ x.pkt # None /\ ~cfg.udp /\ ~x.rekeying
    <2> SUFFICES ASSUME k.runs # 0 PROVE k.st = "r_start" /\ k.runs = 1 /\ ~cfg.udp
      BY <1>2, <1>3 DEF k
    <2>1. k.runs \in Nat /\ k.runs > 0 /\ ~cfg.udp /\ ~Busy(k)
      BY <1>1, <1>5, <1>6 DEF Formed
    <2>2. k.st \notin Reads /\ k.st # "none"
      BY <1>1, <2>1 DEF Busy, Waking, Living
    <2>3. k.st = "r_start"
      BY <1>1, <1>7, <2>2 DEF Formed, States, Waking
    <2>4. k.runs <= 2 /\ (k.runs > 1 => k.pkt # None)
      BY <1>1, <2>3 DEF Waking
    <2> QED
      BY <2>1, <2>3, <2>4 DEF Busy
  <1>10. Firm(x)
    BY <1>1, <1>2, <1>4, SameFirm DEF k
  <1>11. Carries(x)
    BY <1>3, <1>7 DEF Carries, Genuine, k, p
  <1>12. Runnable(x)
    BY <1>2, <1>3 DEF Runnable
  <1>13. Found(e, x)
    BY <1>1, <1>2, <1>4, <1>7, <1>8, <1>9, <1>10, <1>11, <1>12 DEF Found, Past, k
  <1> QED
    BY <1>13, TrustRun

\* Any other packet is processed later.
LEMMA TrustTaken ==
    ASSUME RunInv, TrustInv, ~end["i"].rekeying, NEW e \in Ends, end[e].link,
           NEW n \in DOMAIN net[e], net[e][n].t # "SUCCESS",
           NEW x, Taken(end[e], x, net[e][n]),
           x.st = IF net[e][n].t = "FAILURE" THEN "failure" ELSE end[e].st,
           NEW l, Keeps(x, l, {"runs"}), l.runs = x.runs + 1, NEW rest, Remains(e, rest),
           ~cfg.udp /\ net[e][n].t = "FAILURE" => NoSuccess(rest[e]),
           Put(e, l, rest), UNCHANGED cfg
    PROVE  TrustInv'
  <1> DEFINE k == end[e]
             p == net[e][n]
  <1>1. /\ Formed(k) /\ Living(k) /\ Waking(k) /\ k.out = <<>> /\ k.rekeying = FALSE /\ k.me = e
        /\ First(k) /\ Firm(k) /\ Talk /\ k.link
    BY Locals, FirstEnds
  <1>2. /\ x.link /\ x.out = <<>> /\ x.runs = k.runs /\ x.me = e /\ x.rekeying = FALSE
        /\ x.retrans = k.retrans /\ x.pkt = p
    <2>1. x.pkt = p
      BY DEF Taken
    <2> QED
      BY <1>1, <2>1, TakenFields
  <1>3. x.hist = k.hist /\ x.status = k.status /\ SameTrust(k, x) /\ SameKeys(k, x)
    BY DEF Taken, Keeps, Fields, SameTrust, SameKeys
  <1>4. /\ DOMAIN l = Fields /\ l.link /\ l.out = <<>> /\ l.me = e /\ l.rekeying = FALSE
        /\ l.retrans = k.retrans /\ l.pkt = p /\ l.hist = k.hist /\ l.status = k.status
        /\ l.st = x.st /\ SameTrust(k, l) /\ SameKeys(k, l)
    BY <1>2, <1>3 DEF Keeps, Fields, SameTrust, SameKeys
  <1>5. l.runs > 0
    BY <1>1, <1>2 DEF Formed
  <1>6. Genuine(p)
    BY <1>1 DEF Talk, AllGenuine
  <1>7. e = "i" => Heard(k, end["r"]) /\ Says(end["r"], p)
    BY <1>1 DEF Talk
  <1>8. l.st = "failure" \/ l.st = k.st
    BY <1>4
  <1> HIDE DEF p
  <1>9. Firm(l)
    <2>1. CASE l.st = k.st
      BY <1>1, <1>4, <2>1, SameFirm
    <2>2. CASE l.st = "failure"
      <3>1. l.hist = <<>> /\ l.status = "OK"
        BY <1>1, <1>4 DEF Firm
      <3>2. Material(l)
        BY <1>1, <1>4, <2>2, <3>1 DEF Firm, Material, SameKeys
      <3> QED
        BY <2>2, <3>1, <3>2 DEF Firm, InitiatorStates, ResponderStates
    <2> QED
      BY <1>8, <2>1, <2>2
  <1>10. First(l)
    BY <1>1, <1>4, <1>5, <1>6, <1>9 DEF First, Waits, p
  <1>11. Past(k) => Past(l)
    BY <1>8 DEF Past
  <1>12. ASSUME e = "r" PROVE Answers(end["r"], l)
    <2>1. \A q : Says(end["r"], q) => Says(l, q)
      BY <1>4, <1>11, <1>12 DEF Says, SameTrust
    <2> QED
      BY <1>1, <1>4, <1>11, <1>12, <2>1, NoPackets DEF Answers, SameTrust, Talk
  <1>13. e = "i" => Heard(l, end["r"])
    BY <1>4, <1>7, <1>8 DEF Heard, SameTrust
  <1>14. Packets(l.out) /\ AllGenuine(l.out) /\ NoFailure(l.out) /\ Len(l.out) <= 1
    BY <1>4, NoOut, NoPackets DEF AllGenuine, NoFailure
  <1>15. Follows(e, l)
    BY <1>1, <1>4, <1>10, <1>12, <1>13, <1>14 DEF Follows
  <1>16. ASSUME ~cfg.udp, l.st = "failure"
         PROVE  /\ k.st = "failure" \/ ~NoFailure(net[e])
                /\ NoSuccess(rest[e])
    <2>1. CASE p.t = "FAILURE"
      BY <1>16, <2>1 DEF NoFailure, p
    <2>2. CASE p.t # "FAILURE"
      <3>1. k.st = "failure"
        BY <1>4, <1>16, <2>2 DEF p
      <3>2. NoSuccess(net[e])
        BY <1>16, <3>1 DEF TrustInv, Silence
      <3> QED
        BY <3>1, <3>2 DEF Remains, NoSuccess
    <2> QED
      BY <2>1, <2>2
  <1>17. Leaves(e, l, rest)
    BY <1>16 DEF Leaves, Remains
  <1> QED
    BY <1>15, <1>17, FollowStep

\* A packet for the exchange.
LEMMA TrustReceive ==
    ASSUME NoneIsNoRecord, Signing, RunInv, TrustInv, ~end["i"].rekeying, NEW e \in Ends,
           NEW n \in DOMAIN net[e], ~cfg.udp => n = 1, cfg.udp => end[e].runs = 0,
           end[e].link, net[e][n].t \in Linked(end[e]),
           Put(e, PacketReceive(end[e], net[e][n]), [net EXCEPT ![e] = RemoveAt(@, n)]),
           UNCHANGED cfg
    PROVE  TrustInv'
  <1> DEFINE k0 == end[e]
             p == net[e][n]
             rest == [net EXCEPT ![e] = RemoveAt(@, n)]
             got == [k0 EXCEPT !.count = 0, !.retry = FALSE, !.pkt = p]
             told == IF p.t = "FAILURE" THEN NotifyFailure(got) ELSE got
             gone == [got EXCEPT !.pkt = None]
             more == [told EXCEPT !.runs = @ + 1]
             l == PacketReceive(k0, p)
  <1>1. /\ Formed(k0) /\ Living(k0) /\ DOMAIN k0 = Fields /\ k0.link /\ k0.rekeying = FALSE
    BY Locals, FirstEnds
  <1>2. /\ Remains(e, rest)
        /\ ~cfg.udp /\ p.t = "FAILURE" => NoSuccess(rest[e])
    BY RemainsRemove
  <1>3. k0.notified \in BOOLEAN /\ (k0.notified <=> k0.st = "failure") /\ k0.aborted \in BOOLEAN
    BY <1>1 DEF Formed, Living
  <1>4. Taken(k0, told, p)
        /\ told.st = IF p.t = "FAILURE" THEN "failure" ELSE k0.st
    BY <1>1, <1>3 DEF Taken, Keeps, Fields, NotifyFailure
  <1>5. Taken(k0, gone, None)
    BY <1>1 DEF Taken, Keeps, Fields
  <1>6. /\ Keeps(told, more, {"runs"}) /\ more.runs = told.runs + 1
    BY <1>4 DEF Taken, Keeps, Fields
  <1>7. l = CASE k0.aborted -> Aborted(gone)
              [] ~k0.aborted /\ (k0.rekeying \/ p.t = "SUCCESS") -> Run(told)
              [] OTHER -> more
    BY DEF PacketReceive
  <1>8. Put(e, l, rest) /\ (cfg.udp => k0.runs = 0) /\ p = net[e][n] /\ k0 = end[e]
    OBVIOUS
  <1> HIDE DEF k0, p, rest, got, told, gone, more, l
  <1>9. CASE k0.aborted
    <2>1. Put(e, Aborted(gone), rest)
      BY <1>7, <1>8, <1>9
    <2> QED
      BY <1>1, <1>2, <1>5, <1>8, <1>9, <2>1, TrustAborted
  <1>10. CASE ~k0.aborted /\ p.t = "SUCCESS"
    <2>1. Put(e, Run(told), rest) /\ told.st = k0.st
      BY <1>4, <1>7, <1>8, <1>10
    <2> QED
      BY <1>1, <1>2, <1>4, <1>8, <1>10, <2>1, TrustSuccess
  <1>11. CASE ~k0.aborted /\ p.t # "SUCCESS"
    <2>1. Put(e, more, rest)
      BY <1>1, <1>7, <1>8, <1>11
    <2> QED
      BY <1>1, <1>2, <1>4, <1>6, <1>8, <1>11, <2>1, TrustTaken
  <1> QED
    BY <1>3, <1>9, <1>10, <1>11

LEMMA TrustDeliver ==
    ASSUME NoneIsNoRecord, Signing, RunInv, TrustInv, ~end["i"].rekeying, NEW e \in Ends,
           NEW n \in DOMAIN net[e], Deliver(e, n)
    PROVE  TrustInv'
  <1> DEFINE k == end[e]
             p == net[e][n]
             rest == [net EXCEPT ![e] = RemoveAt(@, n)]
  <1>1. cfg' = cfg /\ (cfg.udp => k.runs = 0) /\ (~cfg.udp => n = 1)
    BY DEF Deliver
  <1>2. Remains(e, rest)
    BY <1>1, RemainsRemove
  <1>3. \/ Put(e, k, rest)
        \/ k.link /\ p.t \in Linked(k) /\ Put(e, PacketReceive(k, p), rest)
        \/ ~k.link /\ p.t = "REKEY" /\ Put(e, ServerRekey(k, p), rest)
    <2>1. Put(e, IF p.key = k.recv THEN Dispatch(k, p) ELSE k, rest)
      BY DEF Deliver
    <2> HIDE DEF k, p, rest
    <2> QED
      BY <2>1 DEF Dispatch
  <1>4. CASE Put(e, k, rest)
    BY <1>1, <1>2, <1>4, TrustDrop
  <1>5. CASE k.link /\ p.t \in Linked(k) /\ Put(e, PacketReceive(k, p), rest)
    BY <1>1, <1>5, TrustReceive
  <1>6. p.t # "REKEY"
    BY DEF RunInv, Rekeys, NoRekey, Ends
  <1> QED
    BY <1>3, <1>4, <1>5, <1>6

\* The network only loses and repeats what was sent.
LEMMA TrustNetwork ==
    ASSUME RunInv, TrustInv, NEW e \in Ends, NEW n \in DOMAIN net[e],
           Lose(e, n) \/ Duplicate(e, n)
    PROVE  TrustInv'
  <1>1. cfg.udp /\ cfg' = cfg /\ end' = end
    BY DEF Lose, Duplicate
  <1>2. DOMAIN net = Ends /\ Packets(net[e])
    BY DEF RunInv, Shapes
  <1>3. /\ \A g \in Ends \ {e} : net'[g] = net[g]
        /\ \A j \in DOMAIN net'[e] : \E m \in DOMAIN net[e] : net'[e][j] = net[e][m]
    <2>1. CASE Lose(e, n)
      <3> DEFINE q == net[e]
                 r == RemoveAt(q, n)
      <3>1. net' = [net EXCEPT ![e] = r]
        BY <2>1 DEF Lose
      <3>2. \A j \in DOMAIN r : \E m \in DOMAIN q : r[j] = q[m]
        BY <1>2, RemoveTrust
      <3> HIDE DEF r
      <3> QED
        BY <1>2, <3>1, <3>2
    <2>2. CASE Duplicate(e, n)
      <3> DEFINE q == net[e]
                 r == Append(q, q[n])
      <3>1. net' = [net EXCEPT ![e] = r]
        BY <2>2 DEF Duplicate
      <3>2. \A j \in DOMAIN r : (j \in DOMAIN q /\ r[j] = q[j]) \/ r[j] = q[n]
        BY <1>2, AppendSeq DEF Packets
      <3> HIDE DEF r
      <3> QED
        BY <1>2, <3>1, <3>2
    <2> QED
      BY <2>1, <2>2
  <1>4. \A g \in Ends : \A j \in DOMAIN net'[g] : \E m \in DOMAIN net[g] : net'[g][j] = net[g][m]
    BY <1>3
  <1>5. ~end["i"].rekeying => Talk'
    <2> SUFFICES ASSUME Talk PROVE Talk'
      BY DEF TrustInv
    <2>1. (\A g \in Ends : AllGenuine(net[g]))'
      BY <1>4 DEF Talk, AllGenuine
    <2>2. \A j \in DOMAIN net'["i"] : Says(end["r"], net'["i"][j])
      BY <1>4 DEF Talk, Ends
    <2>3. Heard(end["i"], end["r"]) /\ (end["r"].retrans # None => Says(end["r"], end["r"].retrans))
      BY DEF Talk
    <2> QED
      BY <1>1, <2>1, <2>2, <2>3 DEF Talk
  <1>6. \A g \in Ends : (end[g].rekeying \/ First(end[g]))'
    BY <1>1 DEF TrustInv, First, Firm, Waits, Proper, Trusted, Verified, Hash, HashI
  <1> QED
    BY <1>1, <1>5, <1>6 DEF TrustInv

-----------------------------------------------------------------------------
(***************************************************************************)
(* After the first exchange: an end that has not begun a re-key keeps what *)
(* it has verified.                                                        *)
(***************************************************************************)

\* What is said of an end does not depend on the time.
LEMMA FirstStable ==
    ASSUME TrustInv, UNCHANGED cfg, NEW e \in Ends, end'[e] = end[e]
    PROVE  (end[e].rekeying \/ First(end[e]))'
  BY DEF TrustInv, First, Firm, Waits, Proper, Trusted, Verified, Hash, HashI

\* The responder does nothing that matters before it begins a re-key.
LEMMA FirstEdit ==
    ASSUME RunInv, TrustInv, UNCHANGED cfg, NEW l, DOMAIN l = Fields, NEW rest,
           Same(end["r"], l), l.rekeying = end["r"].rekeying, Put("r", l, rest)
    PROVE  (end["r"].rekeying \/ First(end["r"]))'
  <1>1. end'["r"] = Clear(l)
    BY DEF Put, Clear, RunInv, Shapes, Ends
  <1>2. end["r"].rekeying \/ First(end["r"])
    BY DEF TrustInv, Ends
  <1>3. Same(l, Clear(l)) /\ Clear(l).rekeying = l.rekeying
    BY ClearSame
  <1>4. end["r"].rekeying \/ First(Clear(l))
    BY <1>2, <1>3, SameFirst
  <1> HIDE DEF Clear
  <1> QED
    BY <1>1, <1>3, <1>4 DEF First, Firm, Waits, Proper, Trusted, Verified, Hash, HashI

LEMMA ResponderLater ==
    ASSUME NoneIsNoRecord, RunInv, TrustInv, end["i"].rekeying, ~end["r"].rekeying,
           \/ FsmRun("r") \/ Timeout("r") \/ Retry("r") \/ Finished("r")
           \/ OwnerFree("r") \/ Abort("r") \/ SendData("r")
           \/ \E n \in DOMAIN net["r"] : Deliver("r", n)
    PROVE  (end["r"].rekeying \/ First(end["r"]))'
  <1> DEFINE k == end["r"]
  <1>1. Formed(k) /\ Living(k) /\ DOMAIN k = Fields /\ k.rekeying = FALSE
    BY Locals DEF Formed, Ends
  <1>2. ~k.link
    BY DEF RunInv, Rekeys
  <1>3. ~FsmRun("r") /\ ~Timeout("r") /\ ~Retry("r") /\ ~Abort("r")
    BY <1>1, <1>2 DEF FsmRun, Timeout, Retry, Abort, Living, Formed
  <1>4. CASE Finished("r") \/ OwnerFree("r")
    <2> DEFINE u == [k EXCEPT !.fin = FALSE, !.refcnt = @ - 1]
               v == [k EXCEPT !.held = FALSE, !.refcnt = @ - 1]
    <2>1. cfg' = cfg /\ (Put("r", u, net) \/ Put("r", v, net))
      BY <1>4 DEF Finished, OwnerFree
    <2>2. Keeps(k, u, {"fin", "refcnt", "held"}) /\ Keeps(k, v, {"fin", "refcnt", "held"})
      BY <1>1 DEF Keeps, Fields
    <2> HIDE DEF k, u, v
    <2>3. PICK l : Keeps(k, l, {"fin", "refcnt", "held"}) /\ Put("r", l, net)
      BY <2>1, <2>2
    <2>4. DOMAIN l = Fields /\ l.rekeying = k.rekeying /\ Same(k, l)
      BY <2>3 DEF Keeps, Fields, Same, SameTrust, SameKeys
    <2> QED
      BY <2>1, <2>3, <2>4, FirstEdit DEF k
  <1>5. CASE SendData("r")
    <2> DEFINE p == [t |-> "DATA", key |-> k.send, body |-> None]
               l == [k EXCEPT !.data = @ + 1, !.out = <<p>>]
    <2>1. cfg' = cfg /\ Put("r", l, net)
      BY <1>5 DEF SendData
    <2>2. Keeps(k, l, {"data", "out"})
      BY <1>1 DEF Keeps, Fields
    <2> HIDE DEF k, l
    <2>3. DOMAIN l = Fields /\ l.rekeying = k.rekeying /\ Same(k, l)
      BY <2>2 DEF Keeps, Fields, Same, SameTrust, SameKeys
    <2> QED
      BY <2>1, <2>3, FirstEdit DEF k
  <1>6. ASSUME NEW n \in DOMAIN net["r"], Deliver("r", n)
        PROVE  (end["r"].rekeying \/ First(end["r"]))'
    <2> DEFINE p == net["r"][n]
               rest == [net EXCEPT !["r"] = RemoveAt(@, n)]
    <2>1. cfg' = cfg /\ Put("r", IF p.key = k.recv THEN Dispatch(k, p) ELSE k, rest)
      BY <1>6 DEF Deliver
    <2>2. Put("r", k, rest) \/ (p.t = "REKEY" /\ Put("r", ServerRekey(k, p), rest))
      <3> HIDE DEF k, p, rest
      <3> QED
        BY <1>2, <2>1 DEF Dispatch
    <2>3. Put("r", k, rest) \/ end'["r"].rekeying
      BY <1>2, <2>1, <2>2, ServerRekeyStep DEF Ends
    <2>4. Same(k, k)
      BY DEF Same, SameTrust, SameKeys
    <2> QED
      BY <1>1, <2>1, <2>3, <2>4, FirstEdit
  <1> QED
    BY <1>3, <1>4, <1>5, <1>6

\* A step of one end leaves the other as it is.
LEMMA OtherEnd ==
    ASSUME RunInv, NEW e \in Ends,
           \/ FsmRun(e) \/ Timeout(e) \/ Retry(e) \/ Finished(e)
           \/ OwnerFree(e) \/ Abort(e) \/ SendData(e)
           \/ \E n \in DOMAIN net[e] : Deliver(e, n)
    PROVE  cfg' = cfg /\ end'[Peer(e)] = end[Peer(e)]
  <1>1. cfg' = cfg /\ \E l, rest : Put(e, l, rest)
    BY DEF FsmRun, Timeout, Retry, Finished, OwnerFree, Abort, SendData, Deliver
  <1>2. PICK l, rest : Put(e, l, rest)
    BY <1>1
  <1>3. end' = [end EXCEPT ![e] = Clear(l)]
    BY <1>2 DEF Put, Clear
  <1>4. DOMAIN end = Ends /\ Peer(e) \in Ends /\ Peer(e) # e
    BY Peers DEF RunInv, Shapes, Ends
  <1> QED
    BY <1>1, <1>3, <1>4

LEMMA TrustLater ==
    ASSUME NoneIsNoRecord, RunInv, TrustInv, end["i"].rekeying, NEW e \in Ends,
           \/ FsmRun(e) \/ Timeout(e) \/ Retry(e) \/ Finished(e)
           \/ OwnerFree(e) \/ Abort(e) \/ SendData(e)
           \/ \E n \in DOMAIN net[e] : Deliver(e, n)
    PROVE  TrustInv'
  <1>1. Continues
    <2>1. [Next]_vars
      BY DEF Next
    <2> QED
      BY <2>1, RunNext
  <1>2. end'["i"].rekeying
    BY <1>1 DEF Continues, Ends
  <1>3. (end["r"].rekeying \/ First(end["r"]))'
    <2>1. CASE end["r"].rekeying
      BY <1>1, <2>1 DEF Continues, Ends
    <2>2. CASE ~end["r"].rekeying /\ e = "i"
      <3>1. cfg' = cfg /\ end'["r"] = end["r"]
        BY <2>2, OtherEnd, Peers
      <3> QED
        BY <3>1, FirstStable DEF Ends
    <2>3. CASE ~end["r"].rekeying /\ e = "r"
      BY <2>3, ResponderLater
    <2> QED
      BY <2>1, <2>2, <2>3 DEF Ends
  <1> QED
    BY <1>2, <1>3 DEF TrustInv, Ends

\* The initiator begins a re-key.
LEMMA TrustDoRekey ==
    ASSUME RunInv, TrustInv, DoRekey
    PROVE  TrustInv'
  <1> DEFINE k == end["i"]
             x == Started(k, "rekey_i_start", TRUE, None)
             l == [x EXCEPT !.runs = 1]
  <1>1. DOMAIN k = Fields /\ cfg' = cfg /\ Put("i", l, net)
    BY Locals DEF DoRekey, Ends
  <1>2. Begun(k, x, "rekey_i_start", None)
    BY <1>1, StartedFields
  <1> HIDE DEF k, x
  <1>3. DOMAIN l = Fields /\ l.rekeying = TRUE
    BY <1>2 DEF Begun, Fields
  <1> HIDE DEF l
  <1>4. Clear(l).rekeying = TRUE
    BY <1>3, ClearFields DEF Keeps, Fields
  <1>5. end'["i"] = Clear(l) /\ end'["r"] = end["r"]
    BY <1>1 DEF Put, Clear, RunInv, Shapes, Ends
  <1>6. (end["r"].rekeying \/ First(end["r"]))'
    BY <1>1, <1>5, FirstStable DEF Ends
  <1> QED
    BY <1>4, <1>5, <1>6 DEF TrustInv, Ends

LEMMA TrustInit == Init => TrustInv
  <1> SUFFICES ASSUME Init PROVE TrustInv
    OBVIOUS
  <1> DEFINE x(e) == [Started(Idle(e), IF e = "i" THEN "i_start" ELSE "r_start", FALSE, None)
                        EXCEPT !.runs = 1]
  <1>1. /\ end = [e \in Ends |-> x(e)] /\ net = [e \in Ends |-> <<>>]
    BY DEF Init
  <1>2. ASSUME NEW e \in Ends
        PROVE  /\ x(e).me = e /\ x(e).runs = 1 /\ x(e).link = TRUE
               /\ x(e).st = (IF e = "i" THEN "i_start" ELSE "r_start")
               /\ x(e).retrans = None /\ x(e).pkt = None /\ x(e).status = "OK"
               /\ x(e).hist = <<>> /\ x(e).rekeying = FALSE
               /\ x(e).round = 1 /\ x(e).done = "no"
    BY DEF Started, Idle
  <1> HIDE DEF x
  <1>3. ASSUME NEW e \in Ends PROVE First(end[e])
    BY <1>1, <1>2 DEF First, Firm, Material, InitiatorStates, ResponderStates, Ends
  <1>4. ASSUME NEW e \in Ends
        PROVE  /\ AllGenuine(net[e]) /\ NoFailure(net[e]) /\ NoSuccess(net[e]) /\ FailureLast(net[e])
               /\ end[e].st # "failure" /\ DOMAIN net[e] = {}
    BY <1>1, <1>2, NoPackets DEF AllGenuine, NoFailure, NoSuccess, FailureLast
  <1>5. Heard(end["i"], end["r"]) /\ end["r"].retrans = None
    BY <1>1, <1>2 DEF Heard, Ends
  <1>6. Talk
    BY <1>4, <1>5 DEF Talk, Ends
  <1>7. Silence
    BY <1>4 DEF Silence
  <1> QED
    BY <1>3, <1>6, <1>7 DEF TrustInv

\* One step per action: each preserves the invariant.
LEMMA TrustNext ==
    ASSUME NoneIsNoRecord, Signing, RunInv, TrustInv, [Next]_vars
    PROVE  TrustInv'
  <1>1. CASE DoRekey
    BY <1>1, TrustDoRekey
  <1>2. ASSUME NEW e \in Ends,
               \/ FsmRun(e) \/ Timeout(e) \/ Retry(e) \/ Finished(e)
               \/ OwnerFree(e) \/ Abort(e) \/ SendData(e)
               \/ \E n \in DOMAIN net[e] : Deliver(e, n)
        PROVE  TrustInv'
    <2>1. CASE end["i"].rekeying
      BY <1>2, <2>1, TrustLater
    <2>2. CASE ~end["i"].rekeying /\ FsmRun(e)
      BY <2>2, TrustFsmRun
    <2>3. CASE ~end["i"].rekeying /\ Timeout(e)
      BY <2>3, TrustTimeout
    <2>4. CASE ~end["i"].rekeying /\ Retry(e)
      BY <2>4, TrustRetry
    <2>5. CASE ~end["i"].rekeying /\ (Finished(e) \/ OwnerFree(e) \/ Abort(e))
      BY <2>5, TrustFinished
    <2>6. CASE ~end["i"].rekeying /\ SendData(e)
      BY <2>6, TrustSendData
    <2>7. CASE ~end["i"].rekeying /\ \E n \in DOMAIN net[e] : Deliver(e, n)
      BY <2>7, TrustDeliver
    <2> QED
      BY <1>2, <2>1, <2>2, <2>3, <2>4, <2>5, <2>6, <2>7
  <1>3. CASE \E e \in Ends : \E n \in DOMAIN net[e] : Lose(e, n) \/ Duplicate(e, n)
    BY <1>3, TrustNetwork
  <1>4. CASE UNCHANGED vars
    BY <1>4 DEF vars, TrustInv, Talk, Silence, First, Firm, Waits, Proper, Trusted, Verified,
       Hash, HashI
  <1> QED
    BY <1>1, <1>2, <1>3, <1>4 DEF Next

\* In every state of a connection whose responder can sign, each end of the
\* first exchange has verified what its state and its keys presuppose, the
\* initiator has heard only what the responder stands by, and over TCP an end
\* that has failed says no more.
THEOREM TrustCorrect ==
    ASSUME NoneIsNoRecord, Signing
    PROVE  Spec => []TrustInv
  <1>1. RunInv /\ TrustInv /\ [Next]_vars => TrustInv'
    BY TrustNext
  <1>2. Spec => []RunInv
    BY RunCorrect
  <1> QED
    BY <1>1, <1>2, TrustInit, PTL DEF Spec

\* An end completes the first exchange only when it has verified what it must
\* (the public key and the signature of the responder, those of the initiator
\* when the authentication is mutual), the initiator only after the responder
\* and with the same properties, and the responder only with properties it
\* required or supports: silc_ske_st_initiator_phase4, _end and
\* silc_ske_st_responder_phase1 to _end.
THEOREM NegotiatedCorrect ==
    ASSUME NoneIsNoRecord, Signing
    PROVE  Spec => []Negotiated
  <1>1. RunInv /\ TrustInv => Negotiated
    <2> SUFFICES ASSUME RunInv, TrustInv PROVE Negotiated
      OBVIOUS
    <2>1. end["i"].me = "i" /\ end["r"].me = "r"
      BY DEF RunInv, Shapes, Ends
    <2>2. \A e \in Ends : Completed(e) => First(end[e]) /\ end[e].hist # <<>>
      BY NoPackets DEF Completed, TrustInv
    <2>3. ASSUME Completed("i")
          PROVE  /\ end["r"].hist # <<>> /\ Verified(end["i"]) /\ end["r"].prop = end["i"].prop
      <3>1. First(end["i"]) /\ end["i"].hist # <<>>
        BY <2>2, <2>3 DEF Ends
      <3>2. Heard(end["i"], end["r"])
        BY <2>3 DEF Completed, TrustInv, Talk
      <3> QED
        BY <2>1, <3>1, <3>2 DEF First, Firm, Heard
    <2>4. ASSUME Completed("r") PROVE Proper(end["r"]) /\ Trusted(end["r"])
      <3>1. First(end["r"]) /\ end["r"].hist # <<>>
        BY <2>2, <2>4 DEF Ends
      <3> QED
        BY <2>1, <3>1 DEF First, Firm
    <2> QED
      BY <2>3, <2>4 DEF Negotiated, Verified, Proper, Trusted
  <1> QED
    BY <1>1, RunCorrect, TrustCorrect, PTL

-----------------------------------------------------------------------------
(***************************************************************************)
(* The re-keys, and that the exchange implements KeyAgreement.             *)
(***************************************************************************)

\* The n-th material of a connection: of its own random numbers with perfect
\* forward secrecy (p), and derived from the one before it without.
Mat(p, n) ==
    IF p THEN <<{<<"i", n>>, <<"r", n>>}>>
    ELSE [j \in 1..n |-> IF j = 1 THEN FirstKey ELSE {}]
MatSeq(p, n) == [j \in 1..n |-> Mat(p, j)]

LEMMA MatFirst ==
    ASSUME NEW p \in BOOLEAN
    PROVE  Mat(p, 1) = <<FirstKey>> /\ MatSeq(p, 1) = <<<<FirstKey>>>>
  <1>1. Mat(p, 1) = <<FirstKey>>
    BY DEF Mat, FirstKey
  <1> QED
    BY <1>1 DEF MatSeq

LEMMA MatNext ==
    ASSUME NEW n \in Nat
    PROVE  /\ n >= 1 => Append(Mat(FALSE, n), {}) = Mat(FALSE, n + 1)
           /\ Mat(TRUE, n) = <<{<<"i", n>>, <<"r", n>>}>>
  <1>1. ASSUME n >= 1 PROVE Append(Mat(FALSE, n), {}) = Mat(FALSE, n + 1)
    <2> DEFINE s == [j \in 1..n |-> IF j = 1 THEN FirstKey ELSE {}]
               t == [j \in 1..(n + 1) |-> IF j = 1 THEN FirstKey ELSE {}]
    <2>1. s \in Seq({FirstKey, {}}) /\ Len(s) = n
      OBVIOUS
    <2>2. Append(s, {}) = [j \in 1..(n + 1) |-> IF j <= n THEN s[j] ELSE {}]
      BY <2>1
    <2>3. Append(s, {}) = t
      BY <1>1, <2>2
    <2> QED
      BY <2>3 DEF Mat
  <1> QED
    BY <1>1 DEF Mat

LEMMA MatInjective ==
    ASSUME NEW p \in BOOLEAN, NEW m \in Nat, NEW n \in Nat, Mat(p, m) = Mat(p, n)
    PROVE  m = n
  <1>1. CASE p
    <2>1. {<<"i", m>>, <<"r", m>>} = {<<"i", n>>, <<"r", n>>}
      BY <1>1 DEF Mat
    <2>2. <<"i", m>> \in {<<"i", n>>, <<"r", n>>}
      BY <2>1
    <2> QED
      BY <2>2
  <1>2. CASE ~p
    <2>1. DOMAIN Mat(p, m) = 1..m /\ DOMAIN Mat(p, n) = 1..n
      BY <1>2 DEF Mat
    <2>2. 1..m = 1..n
      BY <2>1
    <2>3. (\A j \in Nat : j \in 1..m <=> 1 <= j /\ j <= m) /\ (\A j \in Nat : j \in 1..n <=> 1 <= j /\ j <= n)
      OBVIOUS
    <2>4. (m >= 1 => m \in 1..n) /\ (n >= 1 => n \in 1..m)
      BY <2>2, <2>3
    <2> QED
      BY <2>4
  <1> QED
    BY <1>1, <1>2

LEMMA MatMore ==
    ASSUME NEW p \in BOOLEAN, NEW n \in Nat
    PROVE  /\ Append(MatSeq(p, n), Mat(p, n + 1)) = MatSeq(p, n + 1)
           /\ Len(MatSeq(p, n)) = n /\ DOMAIN MatSeq(p, n) = 1..n
           /\ \A j \in 1..n : MatSeq(p, n)[j] = Mat(p, j)
  <1> DEFINE s == MatSeq(p, n)
             S == {Mat(p, j) : j \in 1..n}
  <1>1. s \in Seq(S) /\ Len(s) = n /\ DOMAIN s = 1..n /\ \A j \in 1..n : s[j] = Mat(p, j)
    BY DEF MatSeq
  <1>2. Append(s, Mat(p, n + 1)) = [j \in 1..(n + 1) |-> IF j <= n THEN s[j] ELSE Mat(p, n + 1)]
    BY <1>1
  <1>3. \A j \in 1..(n + 1) : (IF j <= n THEN s[j] ELSE Mat(p, n + 1)) = Mat(p, j)
    <2> SUFFICES ASSUME NEW j \in 1..(n + 1)
                 PROVE  (IF j <= n THEN s[j] ELSE Mat(p, n + 1)) = Mat(p, j)
      OBVIOUS
    <2>1. j <= n \/ j = n + 1
      OBVIOUS
    <2> QED
      BY <1>1, <2>1
  <1> QED
    BY <1>1, <1>2, <1>3 DEF MatSeq

\* A FAILURE tells of one.
NoFalseFailure(q) == \A n \in DOMAIN q : q[n].t = "FAILURE" => q[n].body.status # "OK"

OneRekey(q) == \A m, n \in DOMAIN q : q[m].t = "REKEY" /\ q[n].t = "REKEY" => m = n

\* The initiator i has taken a materials into use and will take the next.
Initiates(i, p, a) ==
    /\ i.hist = MatSeq(p, a)
    /\ i.rekey = [pfs |-> p, of |-> Mat(p, a)] /\ i.recv = Key(Mat(p, a), "r")
    /\ i.st \in {"none", "rekey_i_start", "i_phase3", "rekey_end"}
    /\ i.link => i.status = "OK" /\ i.done = "no" /\ i.round = a + 1 /\ a <= MaxRekeys
    /\ i.done = "ok" => ~i.link /\ i.round = a /\ i.send = Key(Mat(p, a), "i")
    /\ i.st \in {"rekey_i_start", "i_phase3"} => i.send = Key(Mat(p, a), "i")
    /\ i.st = "i_phase3" => p /\ i.ke1.x = <<"i", a + 1>>
    /\ i.st = "rekey_end" => i.keymat = Mat(p, a + 1) /\ i.send = Key(Mat(p, a + 1), "i")

\* The responder r has taken b.
Responds(r, p, b) ==
    /\ r.hist = MatSeq(p, b)
    /\ r.rekey = [pfs |-> p, of |-> Mat(p, b)] /\ r.recv = Key(Mat(p, b), "i")
    /\ r.st \in {"none", "r_phase2", "rekey_end"}
    /\ r.link => r.status = "OK"
    /\ r.st = "r_phase2" => p /\ r.round = b + 1
    /\ r.st = "rekey_end" => r.keymat = Mat(p, b + 1) /\ r.round = b + 1

\* How far they are apart.
Apart(i, r, a, b) ==
    /\ a <= b + 1 /\ b <= a + 1
    /\ i.done = "ok" => b <= a
    /\ i.st = "rekey_i_start" \/ i.done = "ok" => (a = b => r.round = b)
    /\ b = a + 1 => r.round = b
    /\ r.st = "r_phase2" => a = b /\ i.done # "ok" /\ i.round = b + 1 /\ a <= MaxRekeys
    /\ r.st = "rekey_end" => (a = b /\ i.done # "ok" /\ a <= MaxRekeys) \/ a = b + 1

\* What is under way to the initiator, and to the responder.
Answering(i, r, a, b, q) ==
    /\ NoFalseFailure(q)
    /\ r.st = "r_phase2" => OnlyData(q)
    /\ \A n \in DOMAIN q :
        /\ q[n].t = "KEY_EXCHANGE_2" => q[n].body.x = <<"r", i.round>>
        /\ i.link /\ q[n].t = "REKEY_DONE" => b >= a
Asking(i, r, p, a, b, qi, q) ==
    /\ NoFalseFailure(q) /\ OneRekey(q)
    /\ \A n \in DOMAIN q :
        /\ q[n].t = "REKEY" =>
            /\ ~r.link /\ OnlyData(qi) /\ q[n].key = Key(Mat(p, a), "i")
            /\ i.done # "ok" /\ i.round = a + 1 /\ a <= MaxRekeys /\ (a = b => r.round = b)
        /\ q[n].t = "KEY_EXCHANGE_1" => q[n].body.x = <<"i", i.round>>

Keying(i, r, p, a, b, qi, qr) ==
    /\ Initiates(i, p, a) /\ Responds(r, p, b) /\ Apart(i, r, a, b)
    /\ Answering(i, r, a, b, qi) /\ Asking(i, r, p, a, b, qi, qr)

RekeyInv ==
    end["i"].rekeying =>
        \E p \in BOOLEAN, a, b \in 1..(MaxRekeys + 1) :
            Keying(end["i"], end["r"], p, a, b, net["i"], net["r"])

-----------------------------------------------------------------------------
(***************************************************************************)
(* What a run of the machine does to an end that re-keys.                  *)
(***************************************************************************)

\* It gives up, and says so at most.
Quits(k, l) ==
    /\ ~l.link /\ l.st = "none" /\ l.done # "ok" /\ l.hist = k.hist /\ l.round = k.round
    /\ l.rekey = k.rekey /\ l.recv = k.recv
    /\ Failing(l.out)

Ignores(k, l) ==
    k.st \in {"i_phase3", "r_phase2", "rekey_end"} /\ Keeps(k, l, {"pkt", "retry"})

\* It derives m and will send with it.
Derives(k, l, m) == l.st = "rekey_end" /\ l.keymat = m /\ l.send = Key(m, k.me)

Packet(k, type, body) == [t |-> type, key |-> k.send, body |-> body]

Begins(k, l) ==
    /\ k.st = "rekey_i_start"
    /\ Keeps(k, l, {"st", "timer", "ke1", "keymat", "send", "out"})
    /\ \/ /\ k.rekey.pfs /\ l.st = "i_phase3" /\ l.send = k.send /\ l.ke1.x = <<"i", k.round>>
          /\ \E ke : /\ ke.x = <<"i", k.round>>
                     /\ l.out = <<Packet(k, "REKEY", None), Packet(k, "KEY_EXCHANGE_1", ke)>>
       \/ /\ ~k.rekey.pfs /\ Derives(k, l, Append(k.rekey.of, {}))
          /\ l.out = <<Packet(k, "REKEY", None), Packet(k, "REKEY_DONE", None)>>

Renews(k, l) ==
    /\ k.rekey.pfs
    /\ Keeps(k, l, {"st", "pkt", "ke1", "ke2", "KEY", "keymat", "send", "out"})
    /\ \/ /\ k.st = "i_phase3" /\ k.pkt.t = "KEY_EXCHANGE_2"
          /\ Derives(k, l, <<{k.ke1.x, k.pkt.body.x}>>)
          /\ l.out = <<Packet(k, "REKEY_DONE", None)>>
       \/ /\ k.st = "r_phase2" /\ k.pkt.t = "KEY_EXCHANGE_1"
          /\ Derives(k, l, <<{k.pkt.body.x, <<"r", k.round>>}>>)
          /\ \E ke : /\ ke.x = <<"r", k.round>>
                     /\ l.out = <<Packet(k, "KEY_EXCHANGE_2", ke), Packet(k, "REKEY_DONE", None)>>

\* It takes the material into use.
Takes(k, l) ==
    /\ k.st = "rekey_end" /\ k.pkt.t = "REKEY_DONE"
    /\ ~l.link /\ l.st = "none" /\ l.done = "ok" /\ l.round = k.round /\ l.send = k.send
    /\ l.rekeying = k.rekeying /\ l.aborted = k.aborted
    /\ l.hist = Append(k.hist, k.keymat) /\ l.recv = Key(k.keymat, Peer(k.me))
    /\ l.rekey = [pfs |-> k.rekey.pfs, of |-> k.keymat]
    /\ l.out = <<>>

RekeyEffect(k, l) ==
    /\ DOMAIN l = Fields /\ l.me = k.me
    /\ Quits(k, l) \/ Ignores(k, l) \/ Begins(k, l) \/ Renews(k, l) \/ Takes(k, l)

\* An end that re-keys, before a run.
Rekeying(k) ==
    /\ DOMAIN k = Fields /\ k.rekeying = TRUE /\ k.aborted \in BOOLEAN /\ k.out = <<>>

LEMMA FailureQuits ==
    ASSUME NEW x, Rekeying(x), x.status # "OK" \/ x.aborted, NEW s, s # "OK"
    PROVE  LET l == Finish(Send(x, "FAILURE", Code(s))) IN
           DOMAIN l = Fields /\ l.me = x.me /\ Quits(x, l)
  <1> DEFINE y == Send(x, "FAILURE", Code(s))
             p == [t |-> "FAILURE", key |-> x.send, body |-> Code(s)]
             l == Finish(y)
  <1>1. Keeps(x, y, {"out"}) /\ y.out = Append(x.out, p)
    BY DEF Send, Keeps, Fields, Rekeying
  <1>2. Failing(<<p>>)
    <2>1. p.t = "FAILURE" /\ p.body.status # "OK"
      BY DEF Code
    <2> HIDE DEF p
    <2> QED
      BY <2>1, OnePacket DEF Failing
  <1> HIDE DEF y, p
  <1>3. /\ DOMAIN y = Fields /\ y.aborted = x.aborted /\ y.rekeying = TRUE /\ y.status = x.status
        /\ y.hist = x.hist /\ y.me = x.me /\ y.round = x.round /\ y.rekey = x.rekey /\ y.recv = x.recv
    BY <1>1 DEF Keeps, Fields, Rekeying
  <1>4. /\ Keeps(y, l, {"link", "timer", "retry", "st", "runs", "fin", "done",
                        "refcnt", "held", "send", "recv", "hist"})
        /\ ~l.link /\ l.st = "none" /\ (l.done = "ok" <=> ~y.aborted /\ y.status = "OK")
        /\ l.hist = IF ~y.aborted /\ y.status = "OK" THEN Append(y.hist, y.keymat) ELSE y.hist
        /\ l.recv = y.recv
    BY <1>3, FinishFields DEF Rekeying
  <1> HIDE DEF l
  <1>5. /\ DOMAIN l = Fields /\ l.me = x.me /\ l.rekey = x.rekey /\ l.out = y.out /\ l.round = x.round
    BY <1>3, <1>4 DEF Keeps, Fields
  <1>6. l.hist = x.hist /\ l.done # "ok"
    BY <1>3, <1>4
  <1>7. Failing(l.out)
    BY <1>1, <1>2, <1>5, OnePacket DEF Rekeying
  <1>8. DOMAIN l = Fields /\ l.me = x.me /\ Quits(x, l)
    BY <1>3, <1>4, <1>5, <1>6, <1>7 DEF Quits
  <1> QED
    BY <1>8 DEF l, y

\* k gives up where x does, when they differ in no field that matters.
LEMMA QuitsFrom ==
    ASSUME NEW k, NEW x, Keeps(k, x, {"timer", "pkt", "status", "ke1", "ke2", "KEY", "count", "retry", "notified", "st"}),
           NEW l, Quits(x, l)
    PROVE  x.me = k.me /\ Quits(k, l)
  <1>1. x.me = k.me /\ x.hist = k.hist /\ x.round = k.round /\ x.rekey = k.rekey /\ x.recv = k.recv
    BY DEF Keeps, Fields
  <1> QED
    BY <1>1 DEF Quits

LEMMA AbortedQuits ==
    ASSUME NEW k, NEW x, Rekeying(x), x.aborted,
           Keeps(k, x, {"timer", "pkt", "status", "ke1", "ke2", "KEY", "count", "retry", "notified", "st"})
    PROVE  LET l == Aborted(x) IN DOMAIN l = Fields /\ l.me = k.me /\ Quits(k, l)
  <1> DEFINE l == Finish(Send(x, "FAILURE", Code("ERROR")))
  <1>1. DOMAIN l = Fields /\ l.me = x.me /\ Quits(x, l)
    BY FailureQuits
  <1> HIDE DEF l
  <1>2. l.me = k.me /\ Quits(k, l)
    BY <1>1, QuitsFrom
  <1> QED
    BY <1>1, <1>2 DEF Aborted, l

\* A FAILURE, or a timeout.
LEMMA FailureQuitsEffect ==
    ASSUME NEW k, Rekeying(k), k.pkt = None \/ (k.pkt.t = "FAILURE" /\ k.pkt.body.status # "OK")
    PROVE  RekeyEffect(k, Failure(k)) /\ Failure(k).out = <<>>
  <1> DEFINE p == k.pkt
             four == IF p = None THEN FALSE ELSE p.t \in {"FAILURE", "SUCCESS"}
             s == IF four THEN p.body.status ELSE "ERROR"
             x == [k EXCEPT !.status = s, !.pkt = IF four THEN None ELSE p]
             l == Finish(x)
  <1>1. s # "OK"
    OBVIOUS
  <1>2. Keeps(k, x, {"status", "pkt"}) /\ x.status = s
    BY DEF Keeps, Fields, Rekeying
  <1>3. Failure(k) = l
    BY DEF Failure
  <1> HIDE DEF s, x
  <1>4. /\ DOMAIN x = Fields /\ x.aborted = k.aborted /\ x.rekeying = TRUE /\ x.out = <<>>
        /\ x.hist = k.hist /\ x.me = k.me /\ x.round = k.round /\ x.rekey = k.rekey /\ x.recv = k.recv
    BY <1>2 DEF Keeps, Fields, Rekeying
  <1>5. /\ Keeps(x, l, {"link", "timer", "retry", "st", "runs", "fin", "done",
                        "refcnt", "held", "send", "recv", "hist"})
        /\ ~l.link /\ l.st = "none" /\ (l.done = "ok" <=> ~x.aborted /\ x.status = "OK")
        /\ l.hist = IF ~x.aborted /\ x.status = "OK" THEN Append(x.hist, x.keymat) ELSE x.hist
        /\ l.recv = x.recv
    BY <1>4, FinishFields DEF Rekeying
  <1> HIDE DEF l
  <1>6. /\ DOMAIN l = Fields /\ l.me = x.me /\ l.rekey = x.rekey /\ l.out = <<>> /\ l.round = x.round
    BY <1>4, <1>5 DEF Keeps, Fields
  <1>7. Failing(l.out)
    BY <1>6, NoPackets DEF Failing
  <1>8. Quits(k, l)
    BY <1>1, <1>2, <1>4, <1>5, <1>6, <1>7 DEF Quits
  <1> QED
    BY <1>3, <1>4, <1>6, <1>8 DEF RekeyEffect

LEMMA IgnoresEffect ==
    ASSUME NEW k, Rekeying(k), k.st \in {"i_phase3", "r_phase2", "rekey_end"}
    PROVE  RekeyEffect(k, OldPacket(k))
  <1> DEFINE l == OldPacket(k)
  <1>1. Keeps(k, l, {"pkt", "retry"})
    BY DEF OldPacket, Rekeying, Keeps, Fields
  <1> HIDE DEF l
  <1>2. l.me = k.me /\ DOMAIN l = Fields
    BY <1>1 DEF Keeps, Fields
  <1> QED
    BY <1>1, <1>2 DEF RekeyEffect, Ignores, l

LEMMA RekeyDoneFields ==
    ASSUME NEW k, DOMAIN k = Fields
    PROVE  LET l == RekeyDone(k) IN
           /\ Keeps(k, l, {"out", "keymat", "send", "st"})
           /\ l.out = Append(k.out, Packet(k, "REKEY_DONE", None))
           /\ Derives(k, l, IF k.rekey.pfs THEN <<k.KEY>> ELSE Append(k.rekey.of, {}))
  BY DEF RekeyDone, Keeps, Fields, Derives, Packet

LEMMA TwoPackets ==
    ASSUME NEW p, NEW q
    PROVE  Append(Append(<<>>, p), q) = <<p, q>>
  <1>1. <<p>> \in Seq({p}) /\ Len(<<p>>) = 1 /\ <<p>>[1] = p
    OBVIOUS
  <1>2. Append(<<p>>, q) = [j \in 1..2 |-> IF j <= 1 THEN <<p>>[j] ELSE q]
    BY <1>1
  <1>3. <<p, q>> \in Seq({p, q}) /\ Len(<<p, q>>) = 2 /\ <<p, q>>[1] = p /\ <<p, q>>[2] = q
    OBVIOUS
  <1>4. Append(<<p>>, q) = <<p, q>>
    <2>1. Append(<<p>>, q) \in Seq({p, q}) /\ Len(Append(<<p>>, q)) = 2
      BY <1>1
    <2>2. \A j \in 1..2 : Append(<<p>>, q)[j] = <<p, q>>[j]
      BY <1>1, <1>2, <1>3
    <2> QED
      BY <1>3, <2>1, <2>2, SeqEqual
  <1> QED
    BY <1>4, OnePacket

\* Over TCP nothing is kept to be sent again.
LEMMA SendPacket ==
    ASSUME ~cfg.udp, NEW k, DOMAIN k = Fields, NEW type, NEW body
    PROVE  /\ Keeps(k, Send(k, type, body), {"out"})
           /\ Send(k, type, body).out = Append(k.out, Packet(k, type, body))
  BY DEF Send, Keeps, Fields, Packet

LEMMA BeginsEffect ==
    ASSUME ~cfg.udp, NEW k, Rekeying(k), k.st = "rekey_i_start", k.rekey.pfs \in BOOLEAN
    PROVE  LET l == RekeyInitiatorStart(k) IN RekeyEffect(k, l) /\ (~k.aborted => Begins(k, l))
  <1> DEFINE y == [k EXCEPT !.timer = TRUE]
             z == Send(y, "REKEY", None)
  <1>1. DOMAIN k = Fields /\ k.out = <<>> /\ k.rekeying = TRUE
    BY DEF Rekeying
  <1>2. Keeps(k, y, {"timer"})
    BY <1>1 DEF Keeps, Fields
  <1>3. CASE k.aborted
    <2>1. Keeps(k, k, {})
      BY <1>1 DEF Keeps
    <2>2. Keeps(k, k, {"timer", "pkt", "status", "ke1", "ke2", "KEY", "count", "retry", "notified", "st"})
      BY <2>1 DEF Keeps
    <2>3. RekeyInitiatorStart(k) = Aborted(k)
      BY <1>3 DEF RekeyInitiatorStart
    <2> QED
      BY <1>3, <2>2, <2>3, AbortedQuits DEF RekeyEffect
  <1>4. CASE ~k.aborted
    <2>1. RekeyInitiatorStart(k) = IF k.rekey.pfs THEN InitiatorPhase2(z) ELSE RekeyDone(z)
      <3>1. z.rekey = k.rekey
        BY <1>1 DEF Send, Fields
      <3> QED
        BY <1>4 DEF RekeyInitiatorStart
    <2> HIDE DEF y
    <2>2. DOMAIN y = Fields /\ y.out = <<>> /\ y.send = k.send
      BY <1>1, <1>2 DEF Keeps, Fields
    <2>3. Keeps(y, z, {"out"}) /\ z.out = Append(y.out, Packet(y, "REKEY", None))
      BY <2>2, SendPacket
    <2>4. Packet(y, "REKEY", None) = Packet(k, "REKEY", None)
      BY <2>2 DEF Packet
    <2> HIDE DEF z
    <2>5. Keeps(k, z, {"timer", "out"}) /\ z.out = Append(<<>>, Packet(k, "REKEY", None))
      BY <1>2, <2>2, <2>3, <2>4 DEF Keeps, Fields
    <2>6. /\ DOMAIN z = Fields /\ z.send = k.send /\ z.round = k.round /\ z.rekeying = TRUE
          /\ z.rekey = k.rekey /\ z.me = k.me
      BY <1>1, <2>5 DEF Keeps, Fields
    <2>7. CASE k.rekey.pfs
      <3> DEFINE ke == [x |-> <<"i", k.round>>, sign |-> None]
                 u == [z EXCEPT !.ke1 = ke]
                 v == Send(u, "KEY_EXCHANGE_1", ke)
                 l == [v EXCEPT !.st = "i_phase3"]
      <3>1. InitiatorPhase2(z) = l
        BY <2>6 DEF InitiatorPhase2
      <3>2. Keeps(z, u, {"ke1"}) /\ u.ke1 = ke
        BY <2>6 DEF Keeps, Fields
      <3>3. ke.x = <<"i", k.round>>
        OBVIOUS
      <3> HIDE DEF ke, u
      <3>4. DOMAIN u = Fields /\ u.send = k.send /\ u.out = z.out
        BY <2>6, <3>2 DEF Keeps, Fields
      <3>5. Keeps(u, v, {"out"}) /\ v.out = Append(u.out, Packet(u, "KEY_EXCHANGE_1", ke))
        BY <3>4, SendPacket
      <3>6. Packet(u, "KEY_EXCHANGE_1", ke) = Packet(k, "KEY_EXCHANGE_1", ke)
        BY <3>4 DEF Packet
      <3> HIDE DEF v
      <3>7. Keeps(v, l, {"st"}) /\ l.st = "i_phase3"
        BY <3>5 DEF Keeps, Fields
      <3> HIDE DEF l
      <3>8. /\ Keeps(k, l, {"st", "timer", "ke1", "keymat", "send", "out"}) /\ l.send = k.send
            /\ l.ke1 = ke /\ l.out = v.out /\ DOMAIN l = Fields /\ l.me = k.me
        BY <2>5, <2>6, <3>2, <3>4, <3>5, <3>7 DEF Keeps, Fields
      <3>9. l.out = <<Packet(k, "REKEY", None), Packet(k, "KEY_EXCHANGE_1", ke)>>
        BY <2>5, <3>4, <3>5, <3>6, <3>8, TwoPackets
      <3>10. Begins(k, l)
        BY <2>7, <3>3, <3>7, <3>8, <3>9 DEF Begins
      <3> QED
        BY <2>1, <2>7, <3>1, <3>8, <3>10 DEF RekeyEffect
    <2>8. CASE ~k.rekey.pfs
      <3> DEFINE l == RekeyDone(z)
      <3>1. /\ Keeps(z, l, {"out", "keymat", "send", "st"})
            /\ l.out = Append(z.out, Packet(z, "REKEY_DONE", None))
            /\ Derives(z, l, Append(k.rekey.of, {}))
        BY <2>6, <2>8, RekeyDoneFields
      <3>2. Packet(z, "REKEY_DONE", None) = Packet(k, "REKEY_DONE", None)
        BY <2>6 DEF Packet
      <3> HIDE DEF l
      <3>3. /\ Keeps(k, l, {"st", "timer", "ke1", "keymat", "send", "out"})
            /\ DOMAIN l = Fields /\ l.me = k.me
        BY <2>5, <2>6, <3>1 DEF Keeps, Fields
      <3>4. l.out = <<Packet(k, "REKEY", None), Packet(k, "REKEY_DONE", None)>>
        BY <2>5, <3>1, <3>2, TwoPackets
      <3>5. Derives(k, l, Append(k.rekey.of, {}))
        BY <2>6, <3>1 DEF Derives
      <3>6. Begins(k, l)
        BY <2>8, <3>3, <3>4, <3>5 DEF Begins
      <3>7. RekeyEffect(k, l)
        BY <3>3, <3>6 DEF RekeyEffect
      <3> QED
        BY <2>1, <2>8, <3>6, <3>7 DEF l
    <2> QED
      BY <2>7, <2>8
  <1> QED
    BY <1>3, <1>4

LEMMA InitiatorRenews ==
    ASSUME ~cfg.udp, NEW k, Rekeying(k), k.st = "i_phase3", k.rekey.pfs, k.status = "OK", ~k.aborted
    PROVE  LET l == InitiatorPhase3(k) IN
           RekeyEffect(k, l) /\ (k.pkt.t = "KEY_EXCHANGE_2" => Renews(k, l))
  <1>1. DOMAIN k = Fields /\ k.out = <<>> /\ k.rekeying = TRUE
    BY DEF Rekeying
  <1>2. CASE k.pkt.t # "KEY_EXCHANGE_2"
    BY <1>2, IgnoresEffect DEF InitiatorPhase3
  <1>3. CASE k.pkt.t = "KEY_EXCHANGE_2"
    <2> DEFINE z == [k EXCEPT !.pkt = None, !.ke2 = k.pkt.body, !.KEY = {k.ke1.x, k.pkt.body.x},
                              !.status = IF k.rekeying \/ cfg.accepts["i"] THEN @
                                         ELSE "UNSUPPORTED_PUBLIC_KEY"]
               l == RekeyDone(z)
    <2>1. InitiatorPhase3(k) = InitiatorPhase4(z)
      BY <1>3 DEF InitiatorPhase3
    <2>2. Keeps(k, z, {"pkt", "ke2", "KEY"}) /\ z.KEY = {k.ke1.x, k.pkt.body.x}
      BY <1>1 DEF Keeps, Fields
    <2> HIDE DEF z
    <2>3. /\ DOMAIN z = Fields /\ z.send = k.send /\ z.rekeying = TRUE /\ ~z.aborted /\ z.status = "OK"
          /\ z.rekey = k.rekey /\ z.me = k.me /\ z.out = <<>>
      BY <1>1, <2>2 DEF Keeps, Fields
    <2>4. InitiatorPhase4(z) = l
      BY <2>3 DEF InitiatorPhase4
    <2>5. /\ Keeps(z, l, {"out", "keymat", "send", "st"})
          /\ l.out = Append(z.out, Packet(z, "REKEY_DONE", None))
          /\ Derives(z, l, <<{k.ke1.x, k.pkt.body.x}>>)
      BY <2>2, <2>3, RekeyDoneFields
    <2>6. Packet(z, "REKEY_DONE", None) = Packet(k, "REKEY_DONE", None)
      BY <2>3 DEF Packet
    <2> HIDE DEF l
    <2>7. /\ Keeps(k, l, {"st", "pkt", "ke1", "ke2", "KEY", "keymat", "send", "out"})
          /\ DOMAIN l = Fields /\ l.me = k.me
      BY <2>2, <2>3, <2>5 DEF Keeps, Fields
    <2>8. l.out = <<Packet(k, "REKEY_DONE", None)>>
      BY <2>3, <2>5, <2>6, OnePacket
    <2>9. Derives(k, l, <<{k.ke1.x, k.pkt.body.x}>>)
      BY <2>3, <2>5 DEF Derives
    <2>10. Renews(k, l)
      BY <1>3, <2>7, <2>8, <2>9 DEF Renews
    <2> QED
      BY <2>1, <2>4, <2>7, <2>10 DEF RekeyEffect
  <1> QED
    BY <1>2, <1>3

LEMMA ResponderRenews ==
    ASSUME ~cfg.udp, NEW k, Rekeying(k), k.st = "r_phase2", k.rekey.pfs, k.status = "OK", ~k.aborted
    PROVE  LET l == ResponderPhase2(k) IN
           RekeyEffect(k, l) /\ (k.pkt.t = "KEY_EXCHANGE_1" => Renews(k, l))
  <1>1. DOMAIN k = Fields /\ k.out = <<>> /\ k.rekeying = TRUE
    BY DEF Rekeying
  <1>2. CASE k.pkt.t # "KEY_EXCHANGE_1"
    BY <1>2, IgnoresEffect DEF ResponderPhase2
  <1>3. CASE k.pkt.t = "KEY_EXCHANGE_1"
    <2> DEFINE secret == <<"r", k.round>>
               y == [k EXCEPT !.pkt = None, !.ke1 = k.pkt.body,
                              !.status = IF k.rekeying \/ cfg.accepts["r"] THEN @
                                         ELSE "UNSUPPORTED_PUBLIC_KEY"]
               z == [y EXCEPT !.ke2 = [x |-> <<"r", y.round>>, sign |-> None],
                              !.KEY = {y.ke1.x, <<"r", y.round>>}]
               ke == [x |-> z.ke2.x, sign |-> None]
               u == [z EXCEPT !.ke2 = ke]
               v == Send(u, "KEY_EXCHANGE_2", ke)
               l == RekeyDone(v)
    <2>1. ResponderPhase2(k) = ResponderPhase4(y)
      BY <1>3 DEF ResponderPhase2
    <2>2. Keeps(k, y, {"pkt", "ke1"}) /\ y.ke1 = k.pkt.body
      BY <1>1 DEF Keeps, Fields
    <2> HIDE DEF y
    <2>3. /\ DOMAIN y = Fields /\ y.rekeying = TRUE /\ ~y.aborted /\ y.status = "OK" /\ y.round = k.round
          /\ y.send = k.send /\ y.rekey = k.rekey /\ y.me = k.me /\ y.out = <<>>
      BY <1>1, <2>2 DEF Keeps, Fields
    <2>4. ResponderPhase4(y) = ResponderPhase5(z)
      BY <2>3 DEF ResponderPhase4
    <2>5. Keeps(y, z, {"ke2", "KEY"}) /\ z.KEY = {k.pkt.body.x, secret} /\ z.ke2.x = secret
      BY <2>2, <2>3 DEF Keeps, Fields
    <2> HIDE DEF z
    <2>6. /\ DOMAIN z = Fields /\ z.rekeying = TRUE /\ z.send = k.send /\ z.rekey = k.rekey
          /\ z.me = k.me /\ z.out = <<>>
      BY <2>3, <2>5 DEF Keeps, Fields
    <2>7. ResponderPhase5(z) = l
      BY <2>6 DEF ResponderPhase5
    <2>8. Keeps(z, u, {"ke2"}) /\ ke.x = secret
      BY <2>5, <2>6 DEF Keeps, Fields
    <2> HIDE DEF ke, u
    <2>9. DOMAIN u = Fields /\ u.send = k.send /\ u.out = <<>>
      BY <2>6, <2>8 DEF Keeps, Fields
    <2>10. Keeps(u, v, {"out"}) /\ v.out = Append(u.out, Packet(u, "KEY_EXCHANGE_2", ke))
      BY <2>9, SendPacket
    <2>11. Packet(u, "KEY_EXCHANGE_2", ke) = Packet(k, "KEY_EXCHANGE_2", ke)
      BY <2>9 DEF Packet
    <2> HIDE DEF v
    <2>12. /\ DOMAIN v = Fields /\ v.send = k.send /\ v.rekey = k.rekey /\ v.me = k.me
           /\ v.KEY = {k.pkt.body.x, secret}
           /\ Keeps(k, v, {"pkt", "ke1", "ke2", "KEY", "out"})
      BY <1>1, <2>2, <2>3, <2>5, <2>6, <2>8, <2>9, <2>10 DEF Keeps, Fields
    <2>13. /\ Keeps(v, l, {"out", "keymat", "send", "st"})
           /\ l.out = Append(v.out, Packet(v, "REKEY_DONE", None))
           /\ Derives(v, l, <<{k.pkt.body.x, secret}>>)
      BY <2>12, RekeyDoneFields
    <2>14. Packet(v, "REKEY_DONE", None) = Packet(k, "REKEY_DONE", None)
      BY <2>12 DEF Packet
    <2> HIDE DEF l
    <2>15. /\ Keeps(k, l, {"st", "pkt", "ke1", "ke2", "KEY", "keymat", "send", "out"})
           /\ DOMAIN l = Fields /\ l.me = k.me
      BY <2>12, <2>13 DEF Keeps, Fields
    <2>16. l.out = <<Packet(k, "KEY_EXCHANGE_2", ke), Packet(k, "REKEY_DONE", None)>>
      BY <2>9, <2>10, <2>11, <2>13, <2>14, TwoPackets
    <2>17. Derives(k, l, <<{k.pkt.body.x, secret}>>)
      BY <2>12, <2>13 DEF Derives
    <2>18. Renews(k, l)
      BY <1>3, <2>8, <2>15, <2>16, <2>17 DEF Renews
    <2> QED
      BY <2>1, <2>4, <2>7, <2>15, <2>18 DEF RekeyEffect
  <1> QED
    BY <1>2, <1>3

LEMMA TakesEffect ==
    ASSUME NEW k, Rekeying(k), k.st = "rekey_end", k.status = "OK", ~k.aborted
    PROVE  RekeyEffect(k, RekeyEnd(k)) /\ (k.pkt.t = "REKEY_DONE" => Takes(k, RekeyEnd(k)))
  <1>1. DOMAIN k = Fields /\ k.out = <<>> /\ k.rekeying = TRUE /\ k.aborted = FALSE
    BY DEF Rekeying
  <1>2. CASE k.pkt.t # "REKEY_DONE"
    BY <1>2, IgnoresEffect DEF RekeyEnd
  <1>3. CASE k.pkt.t = "REKEY_DONE"
    <2> DEFINE z == [k EXCEPT !.recv = Key(k.keymat, Peer(k.me)),
                              !.rekey = [pfs |-> k.rekey.pfs, of |-> k.keymat], !.pkt = None]
               l == Finish(z)
    <2>1. RekeyEnd(k) = l
      BY <1>3 DEF RekeyEnd
    <2>2. /\ Keeps(k, z, {"recv", "rekey", "pkt"}) /\ z.recv = Key(k.keymat, Peer(k.me))
          /\ z.rekey = [pfs |-> k.rekey.pfs, of |-> k.keymat]
      BY <1>1 DEF Keeps, Fields
    <2> HIDE DEF z
    <2>3. /\ DOMAIN z = Fields /\ z.rekeying = TRUE /\ z.aborted = FALSE /\ z.status = "OK"
          /\ z.out = <<>> /\ z.keymat = k.keymat /\ z.hist = k.hist /\ z.send = k.send
          /\ z.round = k.round /\ z.me = k.me
      BY <1>1, <2>2 DEF Keeps, Fields
    <2>4. /\ Keeps(z, l, {"link", "timer", "retry", "st", "runs", "fin", "done",
                          "refcnt", "held", "send", "recv", "hist"})
          /\ ~l.link /\ l.st = "none" /\ l.done = "ok"
          /\ l.hist = Append(z.hist, z.keymat) /\ l.send = z.send /\ l.recv = z.recv
      BY <2>3, FinishFields
    <2> HIDE DEF l
    <2>5. /\ DOMAIN l = Fields /\ l.me = k.me /\ l.rekey = z.rekey /\ l.out = <<>> /\ l.round = k.round
          /\ l.rekeying = TRUE /\ l.aborted = FALSE
      BY <2>3, <2>4 DEF Keeps, Fields
    <2>6. Takes(k, l)
      BY <1>1, <1>3, <2>2, <2>3, <2>4, <2>5 DEF Takes
    <2> QED
      BY <2>1, <2>5, <2>6 DEF RekeyEffect
  <1> QED
    BY <1>2, <1>3

\* A re-key a run can be made of.
Ready(k) ==
    /\ Rekeying(k) /\ k.rekey.pfs \in BOOLEAN
    /\ k.st \in {"rekey_i_start", "i_phase3", "r_phase2", "rekey_end", "failure"}
    /\ k.st # "failure" => k.status = "OK"
    /\ k.st \in {"i_phase3", "r_phase2", "rekey_end"} => k.pkt # None /\ ~k.aborted
    /\ k.st \in {"i_phase3", "r_phase2"} => k.rekey.pfs
    /\ k.st = "failure" => k.pkt = None \/ (k.pkt.t = "FAILURE" /\ k.pkt.body.status # "OK")

LEMMA RekeyRun ==
    ASSUME ~cfg.udp, NEW k, Ready(k)
    PROVE  RekeyEffect(k, Run(k))
  <1>1. CASE k.st = "rekey_i_start"
    <2>1. Run(k) = RekeyInitiatorStart(k)
      BY <1>1 DEF Run, Reads
    <2> QED
      BY <1>1, <2>1, BeginsEffect DEF Ready
  <1>2. CASE k.st = "i_phase3"
    <2>1. k.pkt # None
      BY <1>2 DEF Ready
    <2>2. Run(k) = InitiatorPhase3(k)
      BY <1>2, <2>1 DEF Run, Reads
    <2> QED
      BY <1>2, <2>2, InitiatorRenews DEF Ready
  <1>3. CASE k.st = "r_phase2"
    <2>1. k.pkt # None
      BY <1>3 DEF Ready
    <2>2. Run(k) = ResponderPhase2(k)
      BY <1>3, <2>1 DEF Run, Reads
    <2> QED
      BY <1>3, <2>2, ResponderRenews DEF Ready
  <1>4. CASE k.st = "rekey_end"
    <2>1. k.pkt # None
      BY <1>4 DEF Ready
    <2>2. Run(k) = RekeyEnd(k)
      BY <1>4, <2>1 DEF Run, Reads
    <2> QED
      BY <1>4, <2>2, TakesEffect DEF Ready
  <1>5. CASE k.st = "failure"
    <2>1. Run(k) = Failure(k)
      BY <1>5 DEF Run, Reads
    <2> QED
      BY <1>5, <2>1, FailureQuitsEffect DEF Ready
  <1> QED
    BY <1>1, <1>2, <1>3, <1>4, <1>5 DEF Ready

\* The responder begins.
Accepts(k, l) ==
    /\ l.hist = k.hist /\ l.rekey = k.rekey /\ l.recv = k.recv /\ l.round = k.round + 1
    /\ l.status = "OK" /\ l.link = TRUE /\ l.rekeying = TRUE /\ l.aborted = FALSE
    /\ \/ k.rekey.pfs /\ l.st = "r_phase2" /\ l.send = k.send /\ l.out = <<>>
       \/ /\ ~k.rekey.pfs /\ Derives(k, l, Append(k.rekey.of, {}))
          /\ l.out = <<Packet(k, "REKEY_DONE", None)>>

LEMMA AcceptsEffect ==
    ASSUME NEW k, DOMAIN k = Fields, k.out = <<>>, k.rekey.pfs \in BOOLEAN, k.rekey # None,
           NEW p, p.t = "REKEY"
    PROVE  LET l == ServerRekey(k, p) IN DOMAIN l = Fields /\ l.me = k.me /\ Accepts(k, l)
  <1> DEFINE x == Started(k, "rekey_r_start", TRUE, p)
             y == [x EXCEPT !.timer = TRUE]
             u == [y EXCEPT !.st = "r_phase2"]
             v == RekeyDone(y)
  <1>1. ServerRekey(k, p) = RekeyResponderStart(x)
    BY DEF ServerRekey
  <1>2. /\ DOMAIN x = Fields /\ x.me = k.me /\ x.out = <<>> /\ x.pkt = p /\ x.aborted = FALSE
        /\ x.rekey = k.rekey /\ x.hist = k.hist /\ x.recv = k.recv /\ x.send = k.send
        /\ x.round = k.round + 1 /\ x.status = "OK" /\ x.link = TRUE /\ x.rekeying = TRUE
    BY DEF Started, Fields
  <1> HIDE DEF x
  <1>3. RekeyResponderStart(x) = IF k.rekey.pfs THEN u ELSE v
    BY <1>2 DEF RekeyResponderStart
  <1>4. Keeps(x, y, {"timer"})
    BY <1>2 DEF Keeps, Fields
  <1> HIDE DEF y
  <1>5. /\ DOMAIN y = Fields /\ y.me = k.me /\ y.out = <<>>
        /\ y.rekey = k.rekey /\ y.hist = k.hist /\ y.recv = k.recv /\ y.send = k.send
        /\ y.round = k.round + 1 /\ y.status = "OK" /\ y.link = TRUE /\ y.rekeying = TRUE
        /\ y.aborted = FALSE
    BY <1>2, <1>4 DEF Keeps, Fields
  <1>6. CASE k.rekey.pfs
    <2>1. Keeps(y, u, {"st"}) /\ u.st = "r_phase2"
      BY <1>5 DEF Keeps, Fields
    <2> HIDE DEF u
    <2>2. DOMAIN u = Fields /\ u.me = k.me /\ Accepts(k, u)
      BY <1>5, <1>6, <2>1 DEF Keeps, Fields, Accepts
    <2> QED
      BY <1>1, <1>3, <1>6, <2>2
  <1>7. CASE ~k.rekey.pfs
    <2>1. /\ Keeps(y, v, {"out", "keymat", "send", "st"})
          /\ v.out = Append(y.out, Packet(y, "REKEY_DONE", None))
          /\ Derives(y, v, Append(k.rekey.of, {}))
      BY <1>5, <1>7, RekeyDoneFields
    <2>2. Packet(y, "REKEY_DONE", None) = Packet(k, "REKEY_DONE", None)
      BY <1>5 DEF Packet
    <2> HIDE DEF v
    <2>3. v.out = <<Packet(k, "REKEY_DONE", None)>>
      BY <1>5, <2>1, <2>2, OnePacket
    <2>4. Derives(k, v, Append(k.rekey.of, {}))
      BY <1>5, <2>1 DEF Derives
    <2>5. DOMAIN v = Fields /\ v.me = k.me /\ Accepts(k, v)
      BY <1>5, <1>7, <2>1, <2>3, <2>4 DEF Keeps, Fields, Accepts
    <2> QED
      BY <1>1, <1>3, <1>7, <2>5
  <1> QED
    BY <1>6, <1>7

-----------------------------------------------------------------------------
(***************************************************************************)
(* How the steps of an end preserve Keying.                                *)
(***************************************************************************)

\* The packets of s are packets of q.
Within(s, q) ==
    /\ \A j \in DOMAIN s : \E m \in DOMAIN q : s[j] = q[m]
    /\ OneRekey(q) => OneRekey(s)

LEMMA WithinSelf == \A q : Within(q, q)
  BY DEF Within

LEMMA WithinRemove ==
    ASSUME NEW q, Packets(q), NEW n \in DOMAIN q
    PROVE  LET s == RemoveAt(q, n) IN
           Packets(s) /\ Within(s, q) /\ (OneRekey(q) /\ q[n].t = "REKEY" => NoRekey(s))
  <1> DEFINE s == RemoveAt(q, n)
  <1>1. /\ IsSeq(s) /\ DOMAIN s = 1..(Len(q) - 1) /\ Packets(s)
        /\ \A j \in DOMAIN s : s[j] = q[IF j < n THEN j ELSE j + 1]
    BY RemoveSeq, RemoveQueue DEF Packets
  <1>2. Len(q) \in Nat /\ DOMAIN q = 1..Len(q)
    BY SeqDomain DEF Packets
  <1> HIDE DEF s
  <1> DEFINE f(j) == IF j < n THEN j ELSE j + 1
  <1>3. /\ \A j \in DOMAIN s : f(j) \in DOMAIN q /\ f(j) # n /\ s[j] = q[f(j)]
        /\ \A j, m \in DOMAIN s : f(j) = f(m) => j = m
    BY <1>1, <1>2
  <1> HIDE DEF f
  <1>4. Within(s, q)
    BY <1>3 DEF Within, OneRekey
  <1>5. OneRekey(q) /\ q[n].t = "REKEY" => NoRekey(s)
    BY <1>3 DEF OneRekey, NoRekey
  <1> QED
    BY <1>1, <1>4, <1>5 DEF s

LEMMA ConcatRekey ==
    ASSUME NEW q, Packets(q), NEW s, Packets(s)
    PROVE  LET r == q \o s IN
           /\ \A j \in DOMAIN r : \/ \E m \in DOMAIN q : r[j] = q[m]
                                  \/ \E m \in DOMAIN s : r[j] = s[m]
           /\ OneRekey(q) /\ NoRekey(s) => OneRekey(r)
           /\ NoRekey(q) /\ OneRekey(s) => OneRekey(r)
  <1> DEFINE r == q \o s
             k == Len(q)
  <1>1. /\ DOMAIN r = 1..(k + Len(s))
        /\ \A j \in DOMAIN r : \/ j \in DOMAIN q /\ r[j] = q[j]
                               \/ j - k \in DOMAIN s /\ r[j] = s[j - k]
    BY ConcatSeq DEF Packets
  <1>2. k \in Nat
    BY SeqDomain DEF Packets
  <1> HIDE DEF r, k
  <1>3. \A j \in DOMAIN r : \/ \E m \in DOMAIN q : r[j] = q[m]
                            \/ \E m \in DOMAIN s : r[j] = s[m]
    BY <1>1
  <1>4. OneRekey(q) /\ NoRekey(s) => OneRekey(r)
    BY <1>1 DEF OneRekey, NoRekey
  <1>5. ASSUME NoRekey(q), OneRekey(s) PROVE OneRekey(r)
    <2> SUFFICES ASSUME NEW m \in DOMAIN r, NEW n \in DOMAIN r, r[m].t = "REKEY", r[n].t = "REKEY"
                 PROVE  m = n
      BY DEF OneRekey
    <2>1. m - k \in DOMAIN s /\ r[m] = s[m - k] /\ n - k \in DOMAIN s /\ r[n] = s[n - k]
      BY <1>1, <1>5 DEF NoRekey
    <2>2. m - k = n - k
      BY <1>5, <2>1 DEF OneRekey
    <2>3. m \in Int /\ n \in Int
      BY <1>1
    <2> QED
      BY <1>2, <2>2, <2>3
  <1> QED
    BY <1>3, <1>4, <1>5 DEF r

\* The fields Keying is about.
Alike(k, l) ==
    /\ l.st = k.st /\ l.link = k.link /\ l.status = k.status /\ l.hist = k.hist
    /\ l.round = k.round /\ l.done = k.done /\ l.send = k.send /\ l.recv = k.recv
    /\ l.rekey = k.rekey /\ l.keymat = k.keymat /\ l.ke1 = k.ke1

LEMMA KeyingAlike ==
    ASSUME NEW i, NEW r, NEW k, NEW l, Alike(i, k), Alike(r, l),
           NEW p, NEW a, NEW b, NEW qi, NEW qr, Keying(i, r, p, a, b, qi, qr)
    PROVE  Keying(k, l, p, a, b, qi, qr)
  <1>1. Initiates(k, p, a)
    BY DEF Keying, Initiates, Alike
  <1>2. Responds(l, p, b)
    BY DEF Keying, Responds, Alike
  <1>3. Apart(k, l, a, b)
    BY DEF Keying, Apart, Alike
  <1>4. Answering(k, l, a, b, qi) /\ Asking(k, l, p, a, b, qi, qr)
    BY DEF Keying, Answering, Asking, Alike
  <1> QED
    BY <1>1, <1>2, <1>3, <1>4 DEF Keying

\* An initiator that does not go on.
Unmoved(k, l) ==
    /\ l.round = k.round /\ (l.link => k.link) /\ (l.done = "ok" => k.done = "ok")
    /\ l.st = "rekey_i_start" => k.st = "rekey_i_start"

\* Packets that change nothing of what is asked, and of what is answered.
Asks(i, s) ==
    /\ NoRekey(s) /\ NoFalseFailure(s)
    /\ \A n \in DOMAIN s : s[n].t = "KEY_EXCHANGE_1" => s[n].body.x = <<"i", i.round>>

LEMMA InitiatorUnmoved ==
    ASSUME NEW i, NEW r, NEW l, Unmoved(i, l), NEW p, NEW a, NEW b, NEW qi, NEW qr,
           Keying(i, r, p, a, b, qi, qr), Initiates(l, p, a),
           NEW si, Within(si, qi), Packets(qr), NEW out, Packets(out), Asks(l, out)
    PROVE  Keying(l, r, p, a, b, si, qr \o out)
  <1>1. Apart(l, r, a, b)
    BY DEF Keying, Apart, Unmoved
  <1>2. Answering(l, r, a, b, si)
    <2>1. Answering(i, r, a, b, qi)
      BY DEF Keying
    <2>2. NoFalseFailure(si) /\ (r.st = "r_phase2" => OnlyData(si))
      BY <2>1 DEF Answering, NoFalseFailure, OnlyData, Within
    <2>3. ASSUME NEW n \in DOMAIN si
          PROVE  /\ si[n].t = "KEY_EXCHANGE_2" => si[n].body.x = <<"r", l.round>>
                 /\ l.link /\ si[n].t = "REKEY_DONE" => b >= a
      BY <2>1 DEF Answering, Within, Unmoved
    <2> QED
      BY <2>2, <2>3 DEF Answering
  <1>3. Asking(l, r, p, a, b, si, qr \o out)
    <2> DEFINE q == qr \o out
    <2>1. Asking(i, r, p, a, b, qi, qr) /\ Asks(l, out)
      BY DEF Keying
    <2>2. OnlyData(qi) => OnlyData(si)
      BY DEF Within, OnlyData
    <2>3. /\ \A j \in DOMAIN q : \/ \E m \in DOMAIN qr : q[j] = qr[m]
                                 \/ \E m \in DOMAIN out : q[j] = out[m]
          /\ OneRekey(q)
      BY <2>1, ConcatRekey DEF Asking, Asks
    <2> HIDE DEF q
    <2>4. NoFalseFailure(q)
      BY <2>1, <2>3 DEF Asking, Asks, NoFalseFailure
    <2>5. ASSUME NEW n \in DOMAIN q, q[n].t = "REKEY"
          PROVE  /\ ~r.link /\ OnlyData(si) /\ q[n].key = Key(Mat(p, a), "i")
                 /\ l.done # "ok" /\ l.round = a + 1 /\ a <= MaxRekeys /\ (a = b => r.round = b)
      <3>1. PICK m \in DOMAIN qr : q[n] = qr[m]
        BY <2>1, <2>3, <2>5 DEF Asks, NoRekey
      <3> QED
        BY <2>1, <2>2, <2>5, <3>1 DEF Asking, Unmoved
    <2>6. ASSUME NEW n \in DOMAIN q, q[n].t = "KEY_EXCHANGE_1"
          PROVE  q[n].body.x = <<"i", l.round>>
      BY <2>1, <2>3, <2>6 DEF Asking, Asks, Unmoved
    <2>7. Asking(l, r, p, a, b, si, q)
      BY <2>3, <2>4, <2>5, <2>6 DEF Asking
    <2> QED
      BY <2>7 DEF q
  <1> QED
    BY <1>1, <1>2, <1>3 DEF Keying

\* x is k when it runs: with a packet of the queue q, or told of a failure.
Finds(k, x, q) ==
    /\ Keeps(k, x, {"runs", "count", "retry", "pkt", "notified", "st", "timer", "status"})
    /\ x.st = k.st \/ x.st = "failure"
    /\ Ready(x)
    /\ x.st \in {"i_phase3", "r_phase2", "rekey_end"} => \E n \in DOMAIN q : x.pkt = q[n]

LEMMA FindsFields ==
    ASSUME NEW k, NEW x, NEW q, Finds(k, x, q)
    PROVE  /\ x.hist = k.hist /\ x.round = k.round /\ x.rekey = k.rekey /\ x.recv = k.recv
           /\ x.send = k.send /\ x.keymat = k.keymat /\ x.ke1 = k.ke1 /\ x.me = k.me
           /\ x.link = k.link /\ x.done = k.done /\ x.out = <<>>
  BY DEF Finds, Keeps, Fields, Ready, Rekeying

\* The initiator gives up.
LEMMA InitiatorQuits ==
    ASSUME NEW p, NEW a, NEW b, NEW i, NEW r, NEW qi, NEW qr, Keying(i, r, p, a, b, qi, qr),
           NEW l, Quits(i, l), Packets(l.out), Packets(qr),
           NEW si, Within(si, qi)
    PROVE  Keying(l, r, p, a, b, si, qr \o l.out)
  <1>1. l.hist = i.hist /\ l.round = i.round /\ l.rekey = i.rekey /\ l.recv = i.recv
    BY DEF Quits
  <1>2. Initiates(l, p, a)
    BY <1>1 DEF Keying, Initiates, Quits
  <1>3. Unmoved(i, l)
    BY <1>1 DEF Unmoved, Quits
  <1>4. Asks(l, l.out)
    BY DEF Quits, Failing, Asks, NoRekey, NoFalseFailure
  <1> QED
    BY <1>2, <1>3, <1>4, InitiatorUnmoved

LEMMA InitiatorIgnores ==
    ASSUME NEW p, NEW a, NEW b, NEW i, NEW r, NEW qi, NEW qr, Keying(i, r, p, a, b, qi, qr), i.link,
           NEW x, Finds(i, x, qi), NEW l, Ignores(x, l), Packets(l.out), Packets(qr),
           NEW si, Within(si, qi)
    PROVE  Keying(l, r, p, a, b, si, qr \o l.out)
  <1>1. /\ Keeps(x, l, {"pkt", "retry"}) /\ x.st \in {"i_phase3", "r_phase2", "rekey_end"}
        /\ x.status = "OK"
    BY DEF Ignores, Finds, Ready
  <1>2. /\ l.hist = x.hist /\ l.round = x.round /\ l.rekey = x.rekey /\ l.recv = x.recv
        /\ l.send = x.send /\ l.keymat = x.keymat /\ l.ke1 = x.ke1 /\ l.st = x.st
        /\ l.link = x.link /\ l.done = x.done /\ l.out = x.out /\ l.status = x.status
    BY <1>1 DEF Keeps, Fields
  <1>3. x.st = i.st /\ i.status = "OK"
    BY <1>1 DEF Finds, Keying, Initiates
  <1>4. Alike(i, l) /\ l.out = <<>>
    BY <1>1, <1>2, <1>3, FindsFields DEF Alike
  <1>5. Initiates(l, p, a)
    BY <1>4 DEF Keying, Initiates, Alike
  <1>6. Unmoved(i, l)
    BY <1>4 DEF Unmoved, Alike
  <1>7. Asks(l, l.out)
    BY <1>4, NoPackets DEF Asks, NoRekey, NoFalseFailure
  <1> QED
    BY <1>5, <1>6, <1>7, InitiatorUnmoved

\* It has the other end's number.
LEMMA InitiatorRenewed ==
    ASSUME NEW p, NEW a \in Nat, NEW b, NEW i, NEW r, NEW qi, NEW qr, Keying(i, r, p, a, b, qi, qr),
           i.link, i.me = "i", NEW x, Finds(i, x, qi), NEW l, Renews(x, l), Packets(l.out), Packets(qr),
           NEW si, Within(si, qi)
    PROVE  Keying(l, r, p, a, b, si, qr \o l.out)
  <1>1. i.st # "r_phase2" /\ (x.st = i.st \/ x.st = "failure")
    BY DEF Keying, Initiates, Finds
  <1>2. /\ x.st = "i_phase3" /\ x.pkt.t = "KEY_EXCHANGE_2"
        /\ Derives(x, l, <<{x.ke1.x, x.pkt.body.x}>>)
        /\ l.out = <<Packet(x, "REKEY_DONE", None)>> /\ i.st = "i_phase3"
    BY <1>1 DEF Renews
  <1>3. /\ l.hist = x.hist /\ l.round = x.round /\ l.rekey = x.rekey /\ l.recv = x.recv
        /\ l.link = x.link /\ l.done = x.done /\ l.status = x.status
    BY DEF Renews, Keeps, Fields
  <1>4. /\ l.hist = i.hist /\ l.round = i.round /\ l.rekey = i.rekey /\ l.recv = i.recv
        /\ l.link = i.link /\ l.done = i.done /\ l.status = "OK" /\ x.me = "i" /\ x.ke1 = i.ke1
    <2>1. /\ x.hist = i.hist /\ x.round = i.round /\ x.rekey = i.rekey /\ x.recv = i.recv
          /\ x.send = i.send /\ x.keymat = i.keymat /\ x.ke1 = i.ke1 /\ x.me = i.me
          /\ x.link = i.link /\ x.done = i.done /\ x.out = <<>>
      BY FindsFields
    <2>2. x.status = "OK"
      BY <1>2 DEF Finds, Ready
    <2> QED
      BY <1>3, <2>1, <2>2
  <1>5. p /\ x.ke1.x = <<"i", a + 1>> /\ i.round = a + 1
    BY <1>2, <1>4 DEF Keying, Initiates
  <1>6. x.pkt.body.x = <<"r", a + 1>>
    <2>1. PICK n \in DOMAIN qi : x.pkt = qi[n]
      BY <1>2 DEF Finds
    <2> QED
      BY <1>2, <1>5, <2>1 DEF Keying, Answering
  <1>7. <<{x.ke1.x, x.pkt.body.x}>> = Mat(p, a + 1)
    BY <1>5, <1>6 DEF Mat
  <1>8. Initiates(l, p, a)
    BY <1>2, <1>4, <1>7 DEF Keying, Initiates, Derives
  <1>9. Unmoved(i, l)
    BY <1>2, <1>4 DEF Unmoved, Derives
  <1>10. Asks(l, l.out)
    <2>1. Packet(x, "REKEY_DONE", None).t = "REKEY_DONE"
      BY DEF Packet
    <2> QED
      BY <1>2, <2>1, OnePacket DEF Asks, NoRekey, NoFalseFailure
  <1> QED
    BY <1>8, <1>9, <1>10, InitiatorUnmoved

\* It takes the next material into use.
LEMMA InitiatorTakes ==
    ASSUME NEW p \in BOOLEAN, NEW a \in Nat, NEW b \in Nat, NEW i, NEW r, NEW qi, NEW qr,
           Keying(i, r, p, a, b, qi, qr), i.link, i.me = "i",
           NEW x, Finds(i, x, qi), NEW l, Takes(x, l), Packets(l.out), Packets(qr),
           NEW si, Within(si, qi)
    PROVE  a <= MaxRekeys /\ Keying(l, r, p, a + 1, b, si, qr \o l.out)
  <1>1. x.st = "rekey_end" /\ i.st = "rekey_end" /\ x.pkt.t = "REKEY_DONE"
    BY DEF Takes, Finds
  <1>2. PICK n \in DOMAIN qi : qi[n].t = "REKEY_DONE"
    BY <1>1 DEF Finds
  <1>3. /\ i.keymat = Mat(p, a + 1) /\ i.send = Key(Mat(p, a + 1), "i") /\ i.round = a + 1
        /\ a <= MaxRekeys /\ i.hist = MatSeq(p, a) /\ i.rekey = [pfs |-> p, of |-> Mat(p, a)]
    BY <1>1 DEF Keying, Initiates
  <1>4. /\ l.hist = MatSeq(p, a + 1) /\ l.recv = Key(Mat(p, a + 1), "r") /\ l.send = Key(Mat(p, a + 1), "i")
        /\ l.rekey = [pfs |-> p, of |-> Mat(p, a + 1)] /\ l.round = a + 1
        /\ ~l.link /\ l.st = "none" /\ l.done = "ok" /\ l.out = <<>>
    <2>1. /\ x.hist = i.hist /\ x.round = i.round /\ x.rekey = i.rekey /\ x.recv = i.recv
          /\ x.send = i.send /\ x.keymat = i.keymat /\ x.ke1 = i.ke1 /\ x.me = i.me
          /\ x.link = i.link /\ x.done = i.done /\ x.out = <<>>
      BY FindsFields
    <2>2. Append(MatSeq(p, a), Mat(p, a + 1)) = MatSeq(p, a + 1)
      BY MatMore
    <2>3. x.rekey.pfs = p /\ Peer(x.me) = "r"
      BY <1>3, <2>1, Peers
    <2> QED
      BY <1>3, <2>1, <2>2, <2>3 DEF Takes
  <1>5. b >= a /\ ~OnlyData(qi) /\ r.st # "r_phase2" /\ NoRekey(qr)
    BY <1>2 DEF Keying, Answering, Asking, OnlyData, NoRekey
  <1>6. Initiates(l, p, a + 1)
    BY <1>4 DEF Initiates
  <1>7. Apart(l, r, a + 1, b)
    BY <1>4, <1>5 DEF Keying, Apart
  <1>8. Answering(l, r, a + 1, b, si)
    BY <1>3, <1>4, <1>5 DEF Keying, Answering, NoFalseFailure, Within
  <1>9. qr \o l.out = qr
    <2>1. IsSeq(qr)
      BY DEF Packets
    <2> QED
      BY <1>4, <2>1 DEF IsSeq
  <1>10. Asking(l, r, p, a + 1, b, si, qr)
    BY <1>3, <1>4, <1>5 DEF Keying, Asking, NoRekey
  <1> QED
    BY <1>3, <1>6, <1>7, <1>8, <1>9, <1>10 DEF Keying

\* It begins.
LEMMA InitiatorBegins ==
    ASSUME NEW p \in BOOLEAN, NEW a \in Nat, a >= 1, NEW b, NEW i, NEW r, NEW qi, NEW qr,
           Keying(i, r, p, a, b, qi, qr), i.link, i.me = "i",
           ~r.link, r.st = "none", OnlyData(qi), OnlyData(qr),
           NEW x, Finds(i, x, qi), NEW l, Begins(x, l), Packets(l.out), Packets(qr),
           NEW si, Within(si, qi)
    PROVE  Keying(l, r, p, a, b, si, qr \o l.out)
  <1>1. x.st = "rekey_i_start" /\ i.st = "rekey_i_start" /\ x.status = "OK"
    BY DEF Begins, Finds, Ready
  <1>2. /\ l.hist = x.hist /\ l.round = x.round /\ l.rekey = x.rekey /\ l.recv = x.recv
        /\ l.link = x.link /\ l.done = x.done /\ l.status = x.status
    BY DEF Begins, Keeps, Fields
  <1>3. /\ i.round = a + 1 /\ i.done = "no" /\ i.send = Key(Mat(p, a), "i")
        /\ i.rekey = [pfs |-> p, of |-> Mat(p, a)] /\ a <= MaxRekeys
    BY <1>1 DEF Keying, Initiates
  <1>4. /\ l.hist = i.hist /\ l.round = i.round /\ l.rekey = i.rekey /\ l.recv = i.recv
        /\ l.link = i.link /\ l.done = i.done /\ l.status = "OK" /\ x.me = "i"
        /\ x.rekey.pfs = p /\ x.rekey.of = Mat(p, a) /\ x.send = Key(Mat(p, a), "i") /\ x.round = a + 1
    <2>1. /\ x.hist = i.hist /\ x.round = i.round /\ x.rekey = i.rekey /\ x.recv = i.recv
          /\ x.send = i.send /\ x.keymat = i.keymat /\ x.ke1 = i.ke1 /\ x.me = i.me
          /\ x.link = i.link /\ x.done = i.done /\ x.out = <<>>
      BY FindsFields
    <2> QED
      BY <1>1, <1>2, <1>3, <2>1
  <1>5. Initiates(l, p, a) /\ l.st # "rekey_i_start"
    <2>1. CASE p
      <3>1. l.st = "i_phase3" /\ l.send = x.send /\ l.ke1.x = <<"i", a + 1>>
        BY <1>4, <2>1 DEF Begins
      <3> QED
        BY <1>3, <1>4, <2>1, <3>1 DEF Keying, Initiates
    <2>2. CASE ~p
      <3>1. Derives(x, l, Append(Mat(FALSE, a), {}))
        BY <1>4, <2>2 DEF Begins
      <3>2. Derives(x, l, Mat(p, a + 1))
        BY <2>2, <3>1, MatNext
      <3> QED
        BY <1>3, <1>4, <3>2 DEF Keying, Initiates, Derives
    <2> QED
      BY <2>1, <2>2
  <1>6. Apart(l, r, a, b)
    BY <1>3, <1>4, <1>5 DEF Keying, Apart
  <1>7. OnlyData(si) /\ Answering(l, r, a, b, si)
    <2>1. OnlyData(si)
      BY DEF OnlyData, Within
    <2> QED
      BY <2>1 DEF OnlyData, Answering, NoFalseFailure
  <1>8. /\ OneRekey(l.out) /\ NoFalseFailure(l.out)
        /\ \A n \in DOMAIN l.out :
              /\ l.out[n].t = "REKEY" => l.out[n].key = Key(Mat(p, a), "i")
              /\ l.out[n].t = "KEY_EXCHANGE_1" => l.out[n].body.x = <<"i", a + 1>>
    <2>1. PICK u, v : /\ l.out = <<u, v>> /\ u.t = "REKEY" /\ u.key = x.send
                      /\ v.t \in {"KEY_EXCHANGE_1", "REKEY_DONE"}
                      /\ v.t = "KEY_EXCHANGE_1" => v.body.x = <<"i", x.round>>
      <3> DEFINE u == Packet(x, "REKEY", None)
      <3>1. u.t = "REKEY" /\ u.key = x.send
        BY DEF Packet
      <3>2. PICK v : /\ l.out = <<u, v>>
                     /\ \/ \E ke : ke.x = <<"i", x.round>> /\ v = Packet(x, "KEY_EXCHANGE_1", ke)
                        \/ v = Packet(x, "REKEY_DONE", None)
        BY DEF Begins
      <3>3. /\ v.t \in {"KEY_EXCHANGE_1", "REKEY_DONE"}
            /\ v.t = "KEY_EXCHANGE_1" => v.body.x = <<"i", x.round>>
        BY <3>2 DEF Packet
      <3> HIDE DEF u
      <3> QED
        BY <3>1, <3>2, <3>3
    <2>2. DOMAIN l.out = {1, 2} /\ l.out[1] = u /\ l.out[2] = v
      BY <2>1
    <2> QED
      BY <1>4, <2>1, <2>2 DEF OneRekey, NoFalseFailure
  <1>9. Asking(l, r, p, a, b, si, qr \o l.out)
    <2> DEFINE q == qr \o l.out
    <2>1. NoRekey(qr)
      BY DEF OnlyData, NoRekey
    <2>2. /\ \A j \in DOMAIN q : \/ \E m \in DOMAIN qr : q[j] = qr[m]
                                 \/ \E m \in DOMAIN l.out : q[j] = l.out[m]
          /\ OneRekey(q)
      BY <1>8, <2>1, ConcatRekey
    <2> HIDE DEF q
    <2>3. NoFalseFailure(q)
      BY <1>8, <2>2 DEF NoFalseFailure, OnlyData
    <2>4. a = b => r.round = b
      BY <1>1 DEF Keying, Apart
    <2>5. ASSUME NEW n \in DOMAIN q
          PROVE  /\ q[n].t = "REKEY" => q[n].key = Key(Mat(p, a), "i")
                 /\ q[n].t = "KEY_EXCHANGE_1" => q[n].body.x = <<"i", a + 1>>
      BY <1>8, <2>2 DEF OnlyData
    <2>6. Asking(l, r, p, a, b, si, q)
      BY <1>3, <1>4, <1>7, <2>2, <2>3, <2>4, <2>5 DEF Asking
    <2> QED
      BY <2>6 DEF q
  <1> QED
    BY <1>5, <1>6, <1>7, <1>9 DEF Keying

\* A responder that takes no material into use and begins nothing.
Onward(k, l) ==
    /\ l.round = k.round /\ (l.link => k.link)
    /\ l.st \in {k.st, "none"} \/ (k.st = "r_phase2" /\ l.st = "rekey_end")

Replies(i, r, l, a, b, s) ==
    /\ NoFalseFailure(s)
    /\ l.st = "r_phase2" \/ ~r.link => OnlyData(s)
    /\ \A n \in DOMAIN s :
        /\ s[n].t = "KEY_EXCHANGE_2" => s[n].body.x = <<"r", i.round>>
        /\ s[n].t = "REKEY_DONE" => b >= a

LEMMA ResponderOnward ==
    ASSUME NEW i, NEW r, NEW l, Onward(r, l), NEW p, NEW a, NEW b, NEW qi, NEW qr,
           Keying(i, r, p, a, b, qi, qr), Responds(l, p, b),
           NEW sr, Within(sr, qr), Packets(qi), NEW out, Packets(out), Replies(i, r, l, a, b, out)
    PROVE  Keying(i, l, p, a, b, qi \o out, sr)
  <1> DEFINE q == qi \o out
  <1>1. Apart(i, l, a, b)
    BY DEF Keying, Apart, Onward
  <1>2. \A j \in DOMAIN q : \/ \E m \in DOMAIN qi : q[j] = qi[m]
                            \/ \E m \in DOMAIN out : q[j] = out[m]
    BY ConcatRekey
  <1> HIDE DEF q
  <1>3. OnlyData(qi) /\ OnlyData(out) => OnlyData(q)
    BY <1>2 DEF OnlyData
  <1>4. Answering(i, l, a, b, q)
    <2>1. Answering(i, r, a, b, qi)
      BY DEF Keying
    <2>2. NoFalseFailure(q)
      BY <1>2, <2>1 DEF Answering, NoFalseFailure, Replies
    <2>3. l.st = "r_phase2" => OnlyData(q)
      <3>1. l.st = "r_phase2" => r.st = "r_phase2"
        BY DEF Onward
      <3> QED
        BY <1>3, <2>1, <3>1 DEF Answering, Replies
    <2>4. ASSUME NEW n \in DOMAIN q
          PROVE  /\ q[n].t = "KEY_EXCHANGE_2" => q[n].body.x = <<"r", i.round>>
                 /\ i.link /\ q[n].t = "REKEY_DONE" => b >= a
      <3>1. CASE \E m \in DOMAIN qi : q[n] = qi[m]
        BY <2>1, <3>1 DEF Answering
      <3>2. CASE \E m \in DOMAIN out : q[n] = out[m]
        BY <3>2 DEF Replies
      <3> QED
        BY <1>2, <3>1, <3>2
    <2> QED
      BY <2>2, <2>3, <2>4 DEF Answering
  <1>5. Asking(i, l, p, a, b, q, sr)
    <2>1. Asking(i, r, p, a, b, qi, qr)
      BY DEF Keying
    <2>2. OneRekey(sr) /\ NoFalseFailure(sr)
      BY <2>1 DEF Asking, Within, NoFalseFailure
    <2>3. ASSUME NEW n \in DOMAIN sr, sr[n].t = "REKEY"
          PROVE  /\ ~l.link /\ OnlyData(q) /\ sr[n].key = Key(Mat(p, a), "i")
                 /\ i.done # "ok" /\ i.round = a + 1 /\ a <= MaxRekeys /\ (a = b => l.round = b)
      <3>1. PICK m \in DOMAIN qr : sr[n] = qr[m]
        BY DEF Within
      <3>2. ~r.link /\ OnlyData(qi)
        BY <2>1, <2>3, <3>1 DEF Asking
      <3>3. OnlyData(q)
        BY <1>3, <3>2 DEF Replies
      <3> QED
        BY <2>1, <2>3, <3>1, <3>2, <3>3 DEF Asking, Onward
    <2>4. ASSUME NEW n \in DOMAIN sr, sr[n].t = "KEY_EXCHANGE_1"
          PROVE  sr[n].body.x = <<"i", i.round>>
      BY <2>1, <2>4 DEF Asking, Within
    <2> QED
      BY <2>2, <2>3, <2>4 DEF Asking
  <1> QED
    BY <1>1, <1>4, <1>5 DEF Keying, q

\* The responder gives up.
LEMMA ResponderQuits ==
    ASSUME NEW p, NEW a, NEW b, NEW i, NEW r, NEW qi, NEW qr, Keying(i, r, p, a, b, qi, qr), r.link,
           NEW l, Quits(r, l), Packets(l.out), Packets(qi),
           NEW sr, Within(sr, qr)
    PROVE  Keying(i, l, p, a, b, qi \o l.out, sr)
  <1>1. l.hist = r.hist /\ l.round = r.round /\ l.rekey = r.rekey /\ l.recv = r.recv
    BY DEF Quits
  <1>2. Responds(l, p, b)
    BY <1>1 DEF Keying, Responds, Quits
  <1>3. Onward(r, l)
    BY <1>1 DEF Onward, Quits
  <1>4. Replies(i, r, l, a, b, l.out)
    BY DEF Quits, Failing, Replies, NoFalseFailure
  <1> QED
    BY <1>2, <1>3, <1>4, ResponderOnward

LEMMA ResponderIgnores ==
    ASSUME NEW p, NEW a, NEW b, NEW i, NEW r, NEW qi, NEW qr, Keying(i, r, p, a, b, qi, qr), r.link,
           NEW x, Finds(r, x, qr), NEW l, Ignores(x, l), Packets(l.out), Packets(qi),
           NEW sr, Within(sr, qr)
    PROVE  Keying(i, l, p, a, b, qi \o l.out, sr)
  <1>1. /\ Keeps(x, l, {"pkt", "retry"}) /\ x.st \in {"i_phase3", "r_phase2", "rekey_end"}
        /\ x.status = "OK"
    BY DEF Ignores, Finds, Ready
  <1>2. /\ l.hist = x.hist /\ l.round = x.round /\ l.rekey = x.rekey /\ l.recv = x.recv
        /\ l.send = x.send /\ l.keymat = x.keymat /\ l.ke1 = x.ke1 /\ l.st = x.st
        /\ l.link = x.link /\ l.done = x.done /\ l.out = x.out /\ l.status = x.status
    BY <1>1 DEF Keeps, Fields
  <1>3. x.st = r.st /\ r.status = "OK"
    BY <1>1 DEF Finds, Keying, Responds
  <1>4. Alike(r, l) /\ l.out = <<>>
    BY <1>1, <1>2, <1>3, FindsFields DEF Alike
  <1>5. Responds(l, p, b)
    BY <1>4 DEF Keying, Responds, Alike
  <1>6. Onward(r, l)
    BY <1>4 DEF Onward, Alike
  <1>7. Replies(i, r, l, a, b, l.out)
    BY <1>4, NoPackets DEF Replies, OnlyData, NoFalseFailure
  <1> QED
    BY <1>5, <1>6, <1>7, ResponderOnward

\* It has the other end's number, and answers with its own.
LEMMA ResponderRenewed ==
    ASSUME NEW p, NEW a \in Nat, NEW b \in Nat, NEW i, NEW r, NEW qi, NEW qr,
           Keying(i, r, p, a, b, qi, qr),
           r.link, r.me = "r", NEW x, Finds(r, x, qr), NEW l, Renews(x, l), Packets(l.out), Packets(qi),
           NEW sr, Within(sr, qr)
    PROVE  Keying(i, l, p, a, b, qi \o l.out, sr)
  <1>1. r.st # "i_phase3" /\ (x.st = r.st \/ x.st = "failure")
    BY DEF Keying, Responds, Finds
  <1>2. /\ x.st = "r_phase2" /\ x.pkt.t = "KEY_EXCHANGE_1" /\ r.st = "r_phase2"
        /\ Derives(x, l, <<{x.pkt.body.x, <<"r", x.round>>}>>)
    BY <1>1 DEF Renews
  <1>3. PICK ke : /\ ke.x = <<"r", x.round>>
                  /\ l.out = <<Packet(x, "KEY_EXCHANGE_2", ke), Packet(x, "REKEY_DONE", None)>>
    BY <1>1 DEF Renews
  <1>4. /\ l.hist = x.hist /\ l.round = x.round /\ l.rekey = x.rekey /\ l.recv = x.recv
        /\ l.link = x.link /\ l.done = x.done /\ l.status = x.status
    BY DEF Renews, Keeps, Fields
  <1>5. /\ l.hist = r.hist /\ l.round = r.round /\ l.rekey = r.rekey /\ l.recv = r.recv
        /\ l.link = r.link /\ l.status = "OK" /\ x.me = "r" /\ x.round = r.round
    <2>1. /\ x.hist = r.hist /\ x.round = r.round /\ x.rekey = r.rekey /\ x.recv = r.recv
          /\ x.me = r.me /\ x.link = r.link
      BY FindsFields
    <2>2. x.status = "OK"
      BY <1>2 DEF Finds, Ready
    <2> QED
      BY <1>4, <2>1, <2>2
  <1>6. p /\ r.round = b + 1 /\ a = b /\ i.round = b + 1
    BY <1>2 DEF Keying, Responds, Apart
  <1>7. x.pkt.body.x = <<"i", b + 1>>
    <2>1. PICK n \in DOMAIN qr : x.pkt = qr[n]
      BY <1>2 DEF Finds
    <2> QED
      BY <1>2, <1>6, <2>1 DEF Keying, Asking
  <1>8. <<{x.pkt.body.x, <<"r", x.round>>}>> = Mat(p, b + 1)
    BY <1>5, <1>6, <1>7 DEF Mat
  <1>9. Responds(l, p, b)
    BY <1>2, <1>5, <1>6, <1>8 DEF Keying, Responds, Derives
  <1>10. Onward(r, l)
    BY <1>2, <1>5 DEF Onward, Derives
  <1>11. Replies(i, r, l, a, b, l.out)
    <2> DEFINE u == Packet(x, "KEY_EXCHANGE_2", ke)
               v == Packet(x, "REKEY_DONE", None)
    <2>1. u.t = "KEY_EXCHANGE_2" /\ u.body.x = <<"r", i.round>> /\ v.t = "REKEY_DONE"
      BY <1>3, <1>5, <1>6 DEF Packet
    <2> HIDE DEF u, v
    <2>2. l.out = <<u, v>>
      BY <1>3 DEF u, v
    <2>3. DOMAIN l.out = {1, 2} /\ l.out[1] = u /\ l.out[2] = v
      BY <2>2
    <2>4. l.st # "r_phase2"
      BY <1>2 DEF Derives
    <2> QED
      BY <1>6, <2>1, <2>3, <2>4 DEF Replies, NoFalseFailure
  <1> QED
    BY <1>9, <1>10, <1>11, ResponderOnward

\* It takes the next material into use.
LEMMA ResponderTakes ==
    ASSUME NEW p \in BOOLEAN, NEW a \in Nat, NEW b \in Nat, a <= MaxRekeys + 1, NEW i, NEW r, NEW qi, NEW qr,
           Keying(i, r, p, a, b, qi, qr), r.link, r.me = "r",
           NEW x, Finds(r, x, qr), NEW l, Takes(x, l), Packets(l.out), Packets(qi),
           NEW sr, Within(sr, qr)
    PROVE  b <= MaxRekeys /\ Keying(i, l, p, a, b + 1, qi \o l.out, sr)
  <1>1. x.st = "rekey_end" /\ r.st = "rekey_end" /\ MaxRekeys \in Nat
    BY KeyExchangeAssumption DEF Takes, Finds
  <1>2. /\ r.keymat = Mat(p, b + 1) /\ r.round = b + 1
        /\ r.hist = MatSeq(p, b) /\ r.rekey = [pfs |-> p, of |-> Mat(p, b)]
        /\ (a = b /\ i.done # "ok" /\ a <= MaxRekeys) \/ a = b + 1
    BY <1>1 DEF Keying, Responds, Apart
  <1>3. /\ l.hist = MatSeq(p, b + 1) /\ l.recv = Key(Mat(p, b + 1), "i")
        /\ l.rekey = [pfs |-> p, of |-> Mat(p, b + 1)] /\ l.round = b + 1
        /\ ~l.link /\ l.st = "none" /\ l.out = <<>>
    <2>1. /\ x.hist = r.hist /\ x.round = r.round /\ x.rekey = r.rekey /\ x.keymat = r.keymat
          /\ x.me = r.me
      BY FindsFields
    <2>2. Append(MatSeq(p, b), Mat(p, b + 1)) = MatSeq(p, b + 1)
      BY MatMore
    <2>3. x.rekey.pfs = p /\ Peer(x.me) = "i"
      BY <1>2, <2>1, Peers
    <2> QED
      BY <1>2, <2>1, <2>2, <2>3 DEF Takes
  <1>4. NoRekey(qr)
    BY DEF Keying, Asking, NoRekey
  <1>5. Responds(l, p, b + 1)
    BY <1>3 DEF Responds
  <1>6. Apart(i, l, a, b + 1)
    BY <1>2, <1>3 DEF Keying, Apart
  <1>7. qi \o l.out = qi
    <2>1. IsSeq(qi)
      BY DEF Packets
    <2> QED
      BY <1>3, <2>1 DEF IsSeq
  <1>8. Answering(i, l, a, b + 1, qi)
    BY <1>3 DEF Keying, Answering
  <1>9. Asking(i, l, p, a, b + 1, qi, sr)
    <2>1. NoRekey(sr) /\ OneRekey(sr) /\ NoFalseFailure(sr)
      BY <1>4 DEF NoRekey, Within, NoFalseFailure, Keying, Asking
    <2> QED
      BY <2>1 DEF Keying, Asking, NoRekey, Within
  <1>10. b <= MaxRekeys
    BY <1>1, <1>2
  <1> QED
    BY <1>5, <1>6, <1>7, <1>8, <1>9, <1>10 DEF Keying

\* It begins.
LEMMA ResponderAccepts ==
    ASSUME NEW p \in BOOLEAN, NEW a \in Nat, NEW b \in Nat, b >= 1, NEW i, NEW r, NEW qi, NEW qr,
           Keying(i, r, p, a, b, qi, qr), r.me = "r", i.st # "rekey_i_start",
           NEW n \in DOMAIN qr, qr[n].t = "REKEY", qr[n].key = r.recv,
           NEW l, Accepts(r, l), Packets(l.out), Packets(qi),
           NEW sr, Within(sr, qr), NoRekey(sr)
    PROVE  Keying(i, l, p, a, b, qi \o l.out, sr)
  <1>1. /\ OnlyData(qi) /\ qr[n].key = Key(Mat(p, a), "i")
        /\ i.done # "ok" /\ i.round = a + 1 /\ a <= MaxRekeys /\ (a = b => r.round = b)
    BY DEF Keying, Asking
  <1>2. r.recv = Key(Mat(p, b), "i") /\ r.rekey = [pfs |-> p, of |-> Mat(p, b)]
    BY DEF Keying, Responds
  <1>3. Mat(p, a) = Mat(p, b)
    <2>1. Key(Mat(p, a), "i") = Key(Mat(p, b), "i")
      BY <1>1, <1>2
    <2>2. \A m : Key(m, "i").m = m
      BY DEF Key
    <2> QED
      BY <2>1, <2>2
  <1>4. a = b
    BY <1>3, MatInjective
  <1>5. /\ l.hist = r.hist /\ l.rekey = r.rekey /\ l.recv = r.recv /\ l.round = b + 1
        /\ l.status = "OK" /\ l.link = TRUE /\ r.rekey.pfs = p /\ r.rekey.of = Mat(p, b)
    BY <1>1, <1>2, <1>4 DEF Accepts
  <1>6. \/ p /\ l.st = "r_phase2" /\ l.out = <<>>
        \/ /\ l.st = "rekey_end" /\ l.keymat = Mat(p, b + 1)
           /\ l.out = <<Packet(r, "REKEY_DONE", None)>>
    <2>1. CASE p
      BY <1>5, <2>1 DEF Accepts
    <2>2. CASE ~p
      <3>1. Derives(r, l, Append(Mat(FALSE, b), {})) /\ l.out = <<Packet(r, "REKEY_DONE", None)>>
        BY <1>5, <2>2 DEF Accepts
      <3>2. Append(Mat(FALSE, b), {}) = Mat(p, b + 1)
        BY <2>2, MatNext
      <3> QED
        BY <3>1, <3>2 DEF Derives
    <2> QED
      BY <2>1, <2>2
  <1>7. Responds(l, p, b)
    BY <1>5, <1>6 DEF Keying, Responds
  <1>8. Apart(i, l, a, b)
    BY <1>1, <1>4, <1>5, <1>6 DEF Apart
  <1>9. Answering(i, l, a, b, qi \o l.out)
    <2> DEFINE q == qi \o l.out
    <2>1. \A j \in DOMAIN q : \/ \E m \in DOMAIN qi : q[j] = qi[m]
                              \/ \E m \in DOMAIN l.out : q[j] = l.out[m]
      BY ConcatRekey
    <2> HIDE DEF q
    <2>2. \A m \in DOMAIN l.out : l.st = "rekey_end" /\ l.out[m].t = "REKEY_DONE"
      <3>1. Packet(r, "REKEY_DONE", None).t = "REKEY_DONE"
        BY DEF Packet
      <3> QED
        BY <1>6, <3>1, NoPackets, OnePacket
    <2>3. \A j \in DOMAIN q : q[j].t = "DATA" \/ (l.st = "rekey_end" /\ q[j].t = "REKEY_DONE")
      BY <1>1, <2>1, <2>2 DEF OnlyData
    <2>4. Answering(i, l, a, b, q)
      BY <1>4, <2>3 DEF Answering, NoFalseFailure, OnlyData
    <2> QED
      BY <2>4 DEF q
  <1>10. Asking(i, l, p, a, b, qi \o l.out, sr)
    <2>1. OneRekey(sr) /\ NoFalseFailure(sr)
      BY DEF NoRekey, Within, NoFalseFailure, Keying, Asking
    <2> QED
      BY <2>1 DEF Keying, Asking, NoRekey, Within
  <1> QED
    BY <1>7, <1>8, <1>9, <1>10 DEF Keying

-----------------------------------------------------------------------------
(***************************************************************************)
(* The re-keys of the two ends keep to one sequence of materials.          *)
(***************************************************************************)

\* What remains of the queue of e.
Cuts(e, rest) ==
    DOMAIN rest = Ends /\ rest[Peer(e)] = net[Peer(e)] /\ Within(rest[e], net[e])

Counts == 1..(MaxRekeys + 1)

\* The ends and the queues after a step of e.
KeyedBy(e, l, rest, p, a, b) ==
    IF e = "i" THEN Keying(l, end["r"], p, a, b, rest["i"], net["r"] \o l.out)
    ELSE Keying(end["i"], l, p, a, b, net["i"] \o l.out, rest["r"])

LEMMA ClearAlike ==
    ASSUME NEW l, DOMAIN l = Fields
    PROVE  Alike(l, Clear(l))
  <1>1. Keeps(l, Clear(l), {"out"})
    BY ClearFields
  <1> HIDE DEF Clear
  <1> QED
    BY <1>1 DEF Keeps, Fields, Alike

LEMMA RekeyPut ==
    ASSUME RunInv, NEW e \in Ends, NEW l, DOMAIN l = Fields, NEW rest, Cuts(e, rest), Put(e, l, rest),
           \E p \in BOOLEAN, a, b \in Counts : KeyedBy(e, l, rest, p, a, b)
    PROVE  RekeyInv'
  <1>1. PICK p \in BOOLEAN, a \in Counts, b \in Counts : KeyedBy(e, l, rest, p, a, b)
    OBVIOUS
  <1>2. /\ end' = [end EXCEPT ![e] = Clear(l)] /\ net' = [rest EXCEPT ![Peer(e)] = @ \o l.out]
        /\ DOMAIN end = Ends /\ DOMAIN net = Ends
    BY DEF Put, Clear, RunInv, Shapes
  <1>3. Alike(l, Clear(l)) /\ \A k : Alike(k, k)
    BY ClearAlike DEF Alike
  <1> HIDE DEF Clear
  <1>4. CASE e = "i"
    <2>1. /\ end'["i"] = Clear(l) /\ end'["r"] = end["r"]
          /\ net'["i"] = rest["i"] /\ net'["r"] = net["r"] \o l.out
      BY <1>2, <1>4, Peers DEF Cuts, Ends
    <2>2. Keying(l, end["r"], p, a, b, rest["i"], net["r"] \o l.out)
      BY <1>1, <1>4 DEF KeyedBy
    <2>3. Keying(Clear(l), end["r"], p, a, b, rest["i"], net["r"] \o l.out)
      BY <1>3, <2>2, KeyingAlike
    <2>4. Keying(end'["i"], end'["r"], p, a, b, net'["i"], net'["r"])
      BY <2>1, <2>3
    <2> QED
      BY <2>4 DEF RekeyInv, Counts
  <1>5. CASE e = "r"
    <2>1. /\ end'["r"] = Clear(l) /\ end'["i"] = end["i"]
          /\ net'["r"] = rest["r"] /\ net'["i"] = net["i"] \o l.out
      BY <1>2, <1>5, Peers DEF Cuts, Ends
    <2>2. Keying(end["i"], l, p, a, b, net["i"] \o l.out, rest["r"])
      BY <1>1, <1>5, Peers DEF KeyedBy
    <2>3. Keying(end["i"], Clear(l), p, a, b, net["i"] \o l.out, rest["r"])
      BY <1>3, <2>2, KeyingAlike
    <2>4. Keying(end'["i"], end'["r"], p, a, b, net'["i"], net'["r"])
      BY <2>1, <2>3
    <2> QED
      BY <2>4 DEF RekeyInv, Counts
  <1> QED
    BY <1>4, <1>5 DEF Ends

\* What is known of an end that re-keys.
LEMMA RekeyEnds ==
    ASSUME RunInv, RekeyInv, end["i"].rekeying, NEW e \in Ends
    PROVE  /\ ~cfg.udp /\ end[e].rekey.pfs \in BOOLEAN
           /\ end[e].st \in {"none", "rekey_i_start", "i_phase3", "r_phase2", "rekey_end"}
           /\ end[e].st \in {"i_phase3", "r_phase2"} => end[e].rekey.pfs
           /\ end[e].link => end[e].rekeying = TRUE /\ end[e].status = "OK" /\ end[e].notified = FALSE
           /\ end[e].link <=> end[e].st # "none"
  <1>1. PICK p \in BOOLEAN, a \in Counts, b \in Counts :
             Keying(end["i"], end["r"], p, a, b, net["i"], net["r"])
    BY DEF RekeyInv, Counts
  <1>2. /\ end[e].rekey.pfs = p /\ (end[e].link => end[e].status = "OK")
        /\ end[e].st \in {"none", "rekey_i_start", "i_phase3", "r_phase2", "rekey_end"}
        /\ end[e].st \in {"i_phase3", "r_phase2"} => p
    BY <1>1 DEF Keying, Initiates, Responds, Ends
  <1>3. Formed(end[e]) /\ Living(end[e])
    BY Locals
  <1>4. ~cfg.udp /\ (end[e].link => end[e].rekeying)
    BY DEF RunInv, Rekeys, Ends
  <1> QED
    BY <1>2, <1>3, <1>4 DEF Formed, Living

LEMMA RekeyRuns ==
    ASSUME NoneIsNoRecord, RunInv, RekeyInv, end["i"].rekeying, NEW e \in Ends, end[e].link,
           NEW x, Finds(end[e], x, net[e]), Runnable(x), NEW rest, Cuts(e, rest), Put(e, Run(x), rest)
    PROVE  RekeyInv'
  <1> DEFINE l == Run(x)
  <1>1. PICK p \in BOOLEAN, a \in Counts, b \in Counts :
             Keying(end["i"], end["r"], p, a, b, net["i"], net["r"])
    BY DEF RekeyInv, Counts
  <1>2. a \in Nat /\ b \in Nat /\ a >= 1 /\ b >= 1 /\ a <= MaxRekeys + 1 /\ MaxRekeys \in Nat
    BY KeyExchangeAssumption DEF Counts
  <1>3. RekeyEffect(x, l)
    BY RekeyEnds, RekeyRun DEF Finds
  <1>4. Packets(l.out)
    <2>1. OutOk(x, l.out, Bound(x))
      BY RunMoves DEF Moves
    <2> QED
      BY <2>1, OutPackets
  <1>5. Packets(net["i"]) /\ Packets(net["r"]) /\ end[e].me = e
    BY DEF RunInv, Shapes, Ends
  <1> HIDE DEF l
  <1>6. DOMAIN l = Fields
    BY <1>3 DEF RekeyEffect
  <1>7. Quits(x, l) => Quits(end[e], l)
    BY FindsFields DEF Quits
  <1>8. CASE e = "i"
    <2>1. Finds(end["i"], x, net["i"]) /\ end["i"].link /\ end["i"].me = "i" /\ Within(rest["i"], net["i"])
      BY <1>5, <1>8 DEF Cuts
    <2>2. CASE Quits(x, l)
      <3>1. KeyedBy(e, l, rest, p, a, b)
        BY <1>1, <1>4, <1>5, <1>7, <1>8, <2>1, <2>2, InitiatorQuits DEF KeyedBy
      <3> QED
        BY <1>6, <3>1, RekeyPut DEF l
    <2>3. CASE Ignores(x, l)
      <3>1. KeyedBy(e, l, rest, p, a, b)
        BY <1>1, <1>4, <1>5, <1>8, <2>1, <2>3, InitiatorIgnores DEF KeyedBy
      <3> QED
        BY <1>6, <3>1, RekeyPut DEF l
    <2>4. CASE Begins(x, l)
      <3>1. end["i"].st = "rekey_i_start"
        BY <2>1, <2>4 DEF Begins, Finds
      <3>2. ~end["r"].link /\ OnlyData(net["i"]) /\ OnlyData(net["r"])
        BY <3>1 DEF RunInv, Rekeys
      <3>3. end["r"].st = "none"
        BY <3>2, RekeyEnds DEF Ends
      <3>4. KeyedBy(e, l, rest, p, a, b)
        BY <1>1, <1>2, <1>4, <1>5, <1>8, <2>1, <2>4, <3>2, <3>3, InitiatorBegins DEF KeyedBy
      <3> QED
        BY <1>6, <3>4, RekeyPut DEF l
    <2>5. CASE Renews(x, l)
      <3>1. KeyedBy(e, l, rest, p, a, b)
        BY <1>1, <1>2, <1>4, <1>5, <1>8, <2>1, <2>5, InitiatorRenewed DEF KeyedBy
      <3> QED
        BY <1>6, <3>1, RekeyPut DEF l
    <2>6. CASE Takes(x, l)
      <3>1. a <= MaxRekeys /\ KeyedBy(e, l, rest, p, a + 1, b)
        BY <1>1, <1>2, <1>4, <1>5, <1>8, <2>1, <2>6, InitiatorTakes DEF KeyedBy
      <3>2. a + 1 \in Counts
        BY <1>2, <3>1 DEF Counts
      <3> QED
        BY <1>6, <3>1, <3>2, RekeyPut DEF l
    <2> QED
      BY <1>3, <2>2, <2>3, <2>4, <2>5, <2>6 DEF RekeyEffect
  <1>9. CASE e = "r"
    <2>1. Finds(end["r"], x, net["r"]) /\ end["r"].link /\ end["r"].me = "r" /\ Within(rest["r"], net["r"])
      BY <1>5, <1>9 DEF Cuts
    <2>2. CASE Quits(x, l)
      <3>1. KeyedBy(e, l, rest, p, a, b)
        BY <1>1, <1>4, <1>5, <1>7, <1>9, <2>1, <2>2, ResponderQuits, Peers DEF KeyedBy
      <3> QED
        BY <1>6, <3>1, RekeyPut DEF l
    <2>3. CASE Ignores(x, l)
      <3>1. KeyedBy(e, l, rest, p, a, b)
        BY <1>1, <1>4, <1>5, <1>9, <2>1, <2>3, ResponderIgnores, Peers DEF KeyedBy
      <3> QED
        BY <1>6, <3>1, RekeyPut DEF l
    <2>4. CASE Begins(x, l)
      <3>1. end["r"].st = "rekey_i_start"
        BY <2>1, <2>4 DEF Begins, Finds
      <3> QED
        BY <1>1, <3>1 DEF Keying, Responds
    <2>5. CASE Renews(x, l)
      <3>1. KeyedBy(e, l, rest, p, a, b)
        BY <1>1, <1>2, <1>4, <1>5, <1>9, <2>1, <2>5, ResponderRenewed, Peers DEF KeyedBy
      <3> QED
        BY <1>6, <3>1, RekeyPut DEF l
    <2>6. CASE Takes(x, l)
      <3>1. b <= MaxRekeys /\ KeyedBy(e, l, rest, p, a, b + 1)
        BY <1>1, <1>2, <1>4, <1>5, <1>9, <2>1, <2>6, ResponderTakes, Peers DEF KeyedBy
      <3>2. b + 1 \in Counts
        BY <1>2, <3>1 DEF Counts
      <3> QED
        BY <1>6, <3>1, <3>2, RekeyPut DEF l
    <2> QED
      BY <1>3, <2>2, <2>3, <2>4, <2>5, <2>6 DEF RekeyEffect
  <1> QED
    BY <1>8, <1>9 DEF Ends

LEMMA CutsNet ==
    ASSUME RunInv, NEW e \in Ends
    PROVE  Cuts(e, net)
  BY WithinSelf DEF Cuts, RunInv, Shapes

LEMMA CutsRemove ==
    ASSUME RunInv, NEW e \in Ends, NEW n \in DOMAIN net[e]
    PROVE  LET rest == [net EXCEPT ![e] = RemoveAt(@, n)] IN
           /\ Cuts(e, rest)
           /\ OneRekey(net[e]) /\ net[e][n].t = "REKEY" => NoRekey(rest[e])
           /\ net[e][n] # None
  <1> DEFINE rest == [net EXCEPT ![e] = RemoveAt(@, n)]
  <1>1. /\ DOMAIN net = Ends /\ Packets(net[e]) /\ Peer(e) \in Ends /\ Peer(e) # e
    BY Peers DEF RunInv, Shapes, Ends
  <1>2. DOMAIN rest = Ends /\ rest[Peer(e)] = net[Peer(e)] /\ rest[e] = RemoveAt(net[e], n)
    BY <1>1
  <1> HIDE DEF rest
  <1>3. Cuts(e, rest) /\ (OneRekey(net[e]) /\ net[e][n].t = "REKEY" => NoRekey(rest[e]))
    BY <1>1, <1>2, WithinRemove DEF Cuts
  <1>4. net[e][n] # None
    BY <1>1 DEF Packets
  <1> QED
    BY <1>3, <1>4 DEF rest

LEMMA RekeyEdit ==
    ASSUME RunInv, RekeyInv, end["i"].rekeying, NEW e \in Ends, NEW l, DOMAIN l = Fields,
           Alike(end[e], l), Packets(l.out), OnlyData(l.out),
           NEW rest, Cuts(e, rest), Put(e, l, rest)
    PROVE  RekeyInv'
  <1>1. PICK p \in BOOLEAN, a \in Counts, b \in Counts :
             Keying(end["i"], end["r"], p, a, b, net["i"], net["r"])
    BY DEF RekeyInv, Counts
  <1>2. Packets(net["i"]) /\ Packets(net["r"])
    BY DEF RunInv, Shapes, Ends
  <1>3. CASE e = "i"
    <2>1. Initiates(l, p, a)
      BY <1>1, <1>3 DEF Keying, Initiates, Alike
    <2>2. Unmoved(end["i"], l)
      BY <1>3 DEF Unmoved, Alike
    <2>3. Asks(l, l.out) /\ Within(rest["i"], net["i"])
      BY <1>3 DEF Asks, OnlyData, NoRekey, NoFalseFailure, Cuts
    <2>4. KeyedBy(e, l, rest, p, a, b)
      BY <1>1, <1>2, <1>3, <2>1, <2>2, <2>3, InitiatorUnmoved DEF KeyedBy
    <2> QED
      BY <2>4, RekeyPut
  <1>4. CASE e = "r"
    <2>1. Responds(l, p, b)
      BY <1>1, <1>4 DEF Keying, Responds, Alike
    <2>2. Onward(end["r"], l)
      BY <1>4 DEF Onward, Alike
    <2>3. Replies(end["i"], end["r"], l, a, b, l.out) /\ Within(rest["r"], net["r"])
      BY <1>4 DEF Replies, OnlyData, NoFalseFailure, Cuts
    <2>4. KeyedBy(e, l, rest, p, a, b)
      BY <1>1, <1>2, <1>4, <2>1, <2>2, <2>3, ResponderOnward, Peers DEF KeyedBy
    <2> QED
      BY <2>4, RekeyPut
  <1> QED
    BY <1>3, <1>4 DEF Ends

LEMMA RekeyEdits ==
    ASSUME RunInv, RekeyInv, end["i"].rekeying, NEW e \in Ends, Finished(e) \/ OwnerFree(e) \/ Abort(e)
    PROVE  RekeyInv'
  <1> DEFINE k == end[e]
             u == [k EXCEPT !.fin = FALSE, !.refcnt = @ - 1]
             v == [k EXCEPT !.held = FALSE, !.refcnt = @ - 1]
             w == [k EXCEPT !.aborted = TRUE]
  <1>1. Put(e, u, net) \/ Put(e, v, net) \/ Put(e, w, net)
    BY DEF Finished, OwnerFree, Abort
  <1>2. DOMAIN k = Fields /\ k.out = <<>>
    BY Locals
  <1>3. /\ Keeps(k, u, {"fin", "refcnt", "held", "aborted"})
        /\ Keeps(k, v, {"fin", "refcnt", "held", "aborted"})
        /\ Keeps(k, w, {"fin", "refcnt", "held", "aborted"})
    BY <1>2 DEF Keeps, Fields
  <1> HIDE DEF k, u, v, w
  <1>4. PICK l : Keeps(k, l, {"fin", "refcnt", "held", "aborted"}) /\ Put(e, l, net)
    BY <1>1, <1>3
  <1>5. DOMAIN l = Fields /\ Alike(k, l) /\ l.out = <<>>
    BY <1>2, <1>4 DEF Keeps, Fields, Alike
  <1> QED
    BY <1>4, <1>5, NoOut, CutsNet, RekeyEdit DEF k

LEMMA RekeySendData ==
    ASSUME NoneIsNoRecord, RunInv, RekeyInv, end["i"].rekeying, NEW e \in Ends, SendData(e)
    PROVE  RekeyInv'
  <1> DEFINE k == end[e]
             p == [t |-> "DATA", key |-> k.send, body |-> None]
             l == [k EXCEPT !.data = @ + 1, !.out = <<p>>]
  <1>1. Put(e, l, net) /\ p # None /\ p.t = "DATA"
    BY DEF SendData, NoneIsNoRecord
  <1>2. DOMAIN k = Fields
    BY Locals
  <1>3. Keeps(k, l, {"data", "out"}) /\ l.out = <<p>>
    BY <1>2 DEF Keeps, Fields
  <1>4. IsSeq(<<p>>)
    <2>1. <<p>> \in Seq({p})
      OBVIOUS
    <2> QED
      BY <2>1, SeqIsSeq
  <1> HIDE DEF p, l, k
  <1>5. DOMAIN l = Fields /\ Alike(k, l)
    BY <1>3 DEF Keeps, Fields, Alike
  <1>6. Packets(l.out) /\ OnlyData(l.out)
    BY <1>1, <1>3, <1>4, OnePacket DEF Packets, OnlyData
  <1> QED
    BY <1>1, <1>5, <1>6, CutsNet, RekeyEdit DEF k

LEMMA RekeyFsmRun ==
    ASSUME NoneIsNoRecord, RunInv, RekeyInv, end["i"].rekeying, NEW e \in Ends, FsmRun(e)
    PROVE  RekeyInv'
  <1> DEFINE k == end[e]
             x == [k EXCEPT !.runs = @ - 1]
  <1>1. k.runs > 0 /\ Put(e, Run(x), net)
    BY DEF FsmRun
  <1>2. Keeps(k, x, {"runs"}) /\ Runnable(x) /\ x.link
    BY <1>1, FsmRunnable
  <1>3. Formed(k) /\ Waking(k) /\ k.out = <<>>
    BY Locals
  <1> HIDE DEF x, k
  <1>4. /\ x.st = k.st /\ x.rekeying = k.rekeying /\ x.aborted = k.aborted /\ x.out = k.out
        /\ x.rekey = k.rekey /\ x.status = k.status /\ x.link = k.link /\ DOMAIN x = Fields
    BY <1>2 DEF Keeps, Fields
  <1>5. k.link /\ k.rekeying = TRUE /\ k.status = "OK" /\ k.rekey.pfs \in BOOLEAN
    BY <1>2, <1>4, RekeyEnds DEF k
  <1>6. k.st = "rekey_i_start"
    BY <1>1, <1>3, <1>5 DEF Waking, One
  <1>7. Ready(x)
    BY <1>3, <1>4, <1>5, <1>6 DEF Ready, Rekeying, Formed
  <1>8. Finds(k, x, net[e])
    BY <1>2, <1>4, <1>6, <1>7 DEF Finds, Keeps
  <1> QED
    BY <1>1, <1>2, <1>5, <1>8, CutsNet, RekeyRuns DEF k

\* x is k, told of a failure.
LEMMA ToldFinds ==
    ASSUME RunInv, RekeyInv, end["i"].rekeying, NEW e \in Ends, end[e].link,
           NEW y, Keeps(end[e], y, {"runs", "count", "retry", "pkt", "timer", "status"}),
           y.timer \in BOOLEAN, y.retry = FALSE,
           y.runs \in Nat, y.pkt = None \/ (y.pkt.t = "FAILURE" /\ y.pkt.body.status # "OK")
    PROVE  LET x == NotifyFailure(y) IN Finds(end[e], x, net[e]) /\ Runnable(x)
  <1> DEFINE k == end[e]
             x == NotifyFailure(y)
  <1>1. Formed(k) /\ k.out = <<>> /\ ResendOk(k) /\ DOMAIN k = Fields
    BY Locals
  <1>2. k.rekeying = TRUE /\ k.notified = FALSE /\ k.rekey.pfs \in BOOLEAN
    BY RekeyEnds
  <1> HIDE DEF k
  <1>3. DOMAIN y = Fields /\ y.notified = FALSE
    BY <1>2 DEF Keeps, Fields, k
  <1>4. Keeps(y, x, {"notified", "st"}) /\ x.st = "failure" /\ x.notified = TRUE
    BY <1>3 DEF NotifyFailure, Keeps, Fields
  <1> HIDE DEF x
  <1>5. Keeps(k, x, {"runs", "count", "retry", "pkt", "notified", "st", "timer", "status"})
    BY <1>4 DEF Keeps, Fields, k
  <1>6. x.timer = y.timer /\ x.retry = y.retry /\ x.runs = y.runs /\ x.pkt = y.pkt
    BY <1>4 DEF Keeps, Fields
  <1>7. /\ x.rekeying = TRUE /\ x.aborted = k.aborted /\ x.out = <<>> /\ x.rekey = k.rekey /\ DOMAIN x = Fields
        /\ x.link = k.link /\ x.fin = k.fin /\ x.held = k.held /\ x.null = k.null /\ x.refcnt = k.refcnt
        /\ x.retrans = k.retrans
    BY <1>1, <1>2, <1>5 DEF Keeps, Fields
  <1>8. Ready(x)
    BY <1>1, <1>2, <1>4, <1>6, <1>7 DEF Ready, Rekeying, Formed
  <1>9. Formed(x)
    BY <1>1, <1>4, <1>6, <1>7 DEF Formed, States
  <1>10. ResendOk(x)
    BY <1>1, <1>6, <1>7 DEF ResendOk
  <1>11. Runnable(x)
    BY <1>4, <1>7, <1>9, <1>10 DEF Runnable, Reads
  <1>12. Finds(k, x, net[e])
    BY <1>4, <1>5, <1>8 DEF Finds
  <1> QED
    BY <1>11, <1>12 DEF k, x

LEMMA RekeyTimeout ==
    ASSUME NoneIsNoRecord, RunInv, RekeyInv, end["i"].rekeying, NEW e \in Ends, Timeout(e)
    PROVE  RekeyInv'
  <1> DEFINE k == end[e]
             y == [k EXCEPT !.timer = FALSE, !.pkt = None, !.status = "TIMEOUT"]
  <1>1. k.timer /\ Put(e, Run(NotifyFailure(y)), net)
    BY DEF Timeout
  <1>2. Formed(k) /\ Living(k) /\ Waking(k)
    BY Locals
  <1>3. k.link /\ k.retry = FALSE
    BY <1>1, <1>2, RekeyEnds DEF Formed, Living, Waking
  <1>4. /\ Keeps(k, y, {"pkt", "timer", "status"}) /\ y.timer = FALSE /\ y.pkt = None
    BY <1>2 DEF Keeps, Fields, Formed
  <1> HIDE DEF y
  <1>5. y.retry = FALSE /\ y.runs \in Nat
    BY <1>2, <1>3, <1>4 DEF Keeps, Fields, Formed
  <1>6. Keeps(k, y, {"runs", "count", "retry", "pkt", "timer", "status"})
    BY <1>4 DEF Keeps
  <1>7. Finds(end[e], NotifyFailure(y), net[e]) /\ Runnable(NotifyFailure(y))
    BY <1>3, <1>4, <1>5, <1>6, ToldFinds
  <1> QED
    BY <1>1, <1>3, <1>7, CutsNet, RekeyRuns

\* A packet for the exchange arrives.
LEMMA RekeyReceive ==
    ASSUME NoneIsNoRecord, RunInv, RekeyInv, end["i"].rekeying, NEW e \in Ends, NEW n \in DOMAIN net[e],
           end[e].link,
           Put(e, PacketReceive(end[e], net[e][n]), [net EXCEPT ![e] = RemoveAt(@, n)])
    PROVE  RekeyInv'
  <1> DEFINE k == end[e]
             p == net[e][n]
             rest == [net EXCEPT ![e] = RemoveAt(@, n)]
             got == [k EXCEPT !.count = 0, !.retry = FALSE, !.pkt = p]
             told == IF p.t = "FAILURE" THEN NotifyFailure(got) ELSE got
             none == [got EXCEPT !.pkt = None]
  <1>1. Cuts(e, rest) /\ p # None
    BY CutsRemove
  <1>2. Formed(k) /\ k.out = <<>> /\ ResendOk(k) /\ DOMAIN k = Fields /\ Waking(k)
    BY Locals
  <1>3. /\ k.rekeying = TRUE /\ k.status = "OK" /\ k.rekey.pfs \in BOOLEAN /\ k.st # "none" /\ k.link
        /\ k.st \in {"none", "rekey_i_start", "i_phase3", "r_phase2", "rekey_end"}
        /\ k.st \in {"i_phase3", "r_phase2"} => k.rekey.pfs
    BY RekeyEnds
  <1>4. PacketReceive(k, p) = IF k.aborted THEN Aborted(none) ELSE Run(told)
    BY <1>2, <1>3 DEF PacketReceive, Formed
  <1>5. p.t = "FAILURE" => p.body.status # "OK"
    <2>1. PICK b \in BOOLEAN, c \in Counts, d \in Counts :
               Keying(end["i"], end["r"], b, c, d, net["i"], net["r"])
      BY DEF RekeyInv, Counts
    <2>2. NoFalseFailure(net["i"]) /\ NoFalseFailure(net["r"])
      BY <2>1 DEF Keying, Answering, Asking
    <2> QED
      BY <2>2 DEF NoFalseFailure, Ends
  <1>6. Put(e, PacketReceive(k, p), rest)
    OBVIOUS
  <1> HIDE DEF rest, p, k
  <1>7. /\ Keeps(k, got, {"count", "retry", "pkt"}) /\ got.retry = FALSE /\ got.pkt = p
        /\ Keeps(k, none, {"count", "retry", "pkt"})
    BY <1>2 DEF Keeps, Fields
  <1> HIDE DEF got, none
  <1>8. CASE k.aborted
    <2> DEFINE l == Aborted(none)
    <2>1. Rekeying(none) /\ none.aborted
      BY <1>2, <1>3, <1>7, <1>8 DEF Rekeying, Keeps, Fields, Formed
    <2>2. Keeps(k, none, {"timer", "pkt", "status", "ke1", "ke2", "KEY", "count", "retry", "notified", "st"})
      BY <1>7 DEF Keeps
    <2>3. DOMAIN l = Fields /\ l.me = k.me /\ Quits(k, l)
      BY <2>1, <2>2, AbortedQuits
    <2>4. Packets(l.out)
      <3>1. none.retry = FALSE
        BY <1>2 DEF none, got, Keeps, Fields, Formed
      <3>a. Formed(none) /\ ResendOk(none) /\ none.out = <<>>
        BY <1>2, <1>7, <3>1 DEF Formed, Keeps, Fields, ResendOk
      <3>2. OutOk(none, l.out, 1)
        BY <3>a, AbortedOver DEF Moves
      <3> QED
        BY <3>2, OutPackets
    <2> HIDE DEF l
    <2>5. PICK b \in BOOLEAN, c \in Counts, d \in Counts :
               Keying(end["i"], end["r"], b, c, d, net["i"], net["r"])
      BY DEF RekeyInv, Counts
    <2>6. Packets(net["i"]) /\ Packets(net["r"])
      BY DEF RunInv, Shapes, Ends
    <2>7. KeyedBy(e, l, rest, b, c, d)
      <3>1. CASE e = "i"
        BY <1>1, <2>3, <2>4, <2>5, <2>6, <3>1, InitiatorQuits DEF KeyedBy, Cuts, k
      <3>2. CASE e = "r"
        BY <1>1, <1>3, <2>3, <2>4, <2>5, <2>6, <3>2, ResponderQuits, Peers DEF KeyedBy, Cuts, k
      <3> QED
        BY <3>1, <3>2 DEF Ends
    <2>8. Put(e, l, rest)
      BY <1>4, <1>6, <1>8 DEF l
    <2> QED
      BY <1>1, <2>3, <2>7, <2>8, RekeyPut
  <1>9. CASE ~k.aborted
    <2>1. Put(e, Run(told), rest)
      BY <1>4, <1>6, <1>9
    <2>2. CASE p.t = "FAILURE"
      <3>1. Keeps(k, got, {"runs", "count", "retry", "pkt", "timer", "status"})
        BY <1>7 DEF Keeps
      <3>2. got.timer \in BOOLEAN /\ got.runs \in Nat
        BY <1>2, <1>7 DEF Keeps, Fields, Formed
      <3>3. Finds(k, NotifyFailure(got), net[e]) /\ Runnable(NotifyFailure(got))
        BY <1>3, <1>5, <1>7, <2>2, <3>1, <3>2, ToldFinds DEF k
      <3> QED
        BY <1>1, <1>3, <2>1, <2>2, <3>3, RekeyRuns DEF k
    <2>3. CASE p.t # "FAILURE"
      <3>1. /\ got.st = k.st /\ got.rekeying = TRUE /\ got.aborted = k.aborted /\ got.out = <<>>
            /\ got.rekey = k.rekey /\ got.status = "OK" /\ DOMAIN got = Fields
        BY <1>2, <1>3, <1>7 DEF Keeps, Fields
      <3>2. Ready(got)
        BY <1>1, <1>2, <1>3, <1>7, <1>9, <3>1 DEF Ready, Rekeying, Formed
      <3>3. Formed(got) /\ ResendOk(got)
        BY <1>2, <1>7 DEF Formed, Keeps, Fields, ResendOk
      <3>4. Runnable(got)
        BY <1>1, <1>3, <1>7, <3>1, <3>3 DEF Runnable
      <3>5. \E m \in DOMAIN net[e] : got.pkt = net[e][m]
        BY <1>7 DEF p
      <3>6. Finds(k, got, net[e])
        BY <1>7, <3>1, <3>2, <3>5 DEF Finds, Keeps
      <3> QED
        BY <1>1, <1>3, <2>1, <2>3, <3>4, <3>6, RekeyRuns DEF k
    <2> QED
      BY <2>2, <2>3
  <1> QED
    BY <1>8, <1>9

\* A REKEY arrives at the responder.
LEMMA RekeyAccept ==
    ASSUME NoneIsNoRecord, RunInv, RekeyInv, end["i"].rekeying, NEW e \in Ends, NEW n \in DOMAIN net[e],
           ~end[e].link, net[e][n].t = "REKEY", net[e][n].key = end[e].recv,
           Put(e, ServerRekey(end[e], net[e][n]), [net EXCEPT ![e] = RemoveAt(@, n)])
    PROVE  RekeyInv'
  <1> DEFINE k == end[e]
             p == net[e][n]
             rest == [net EXCEPT ![e] = RemoveAt(@, n)]
             l == ServerRekey(k, p)
  <1>1. PICK b \in BOOLEAN, c \in Counts, d \in Counts :
             Keying(end["i"], end["r"], b, c, d, net["i"], net["r"])
    BY DEF RekeyInv, Counts
  <1>2. e = "r"
    BY DEF RunInv, Rekeys, NoRekey, Ends
  <1>3. end["i"].st # "rekey_i_start"
    BY <1>2 DEF RunInv, Rekeys, OnlyData
  <1>4. OneRekey(net["r"])
    BY <1>1 DEF Keying, Asking
  <1>5. Cuts(e, rest) /\ NoRekey(rest[e])
    BY <1>2, <1>4, CutsRemove
  <1>6. DOMAIN k = Fields /\ k.out = <<>> /\ k.rekey.pfs \in BOOLEAN /\ k.me = "r"
    BY <1>2, Locals, RekeyEnds
  <1>7. c \in Nat /\ d \in Nat /\ d >= 1
    BY KeyExchangeAssumption DEF Counts
  <1>8. Packets(net["i"]) /\ Packets(net["r"])
    BY DEF RunInv, Shapes, Ends
  <1>9. Put(e, l, rest)
    OBVIOUS
  <1>10. CASE k.rekey = None
    <2>1. l = k
      BY <1>10 DEF ServerRekey
    <2>2. Alike(k, k)
      BY DEF Alike
    <2> QED
      BY <1>5, <1>6, <1>9, <2>1, <2>2, NoOut, RekeyEdit
  <1>11. CASE k.rekey # None
    <2>1. DOMAIN l = Fields /\ l.me = k.me /\ Accepts(k, l)
      BY <1>6, <1>11, AcceptsEffect
    <2>2. Packets(l.out)
      <3>1. Packet(k, "REKEY_DONE", None) # None
        BY DEF Packet, NoneIsNoRecord
      <3> DEFINE q == Packet(k, "REKEY_DONE", None)
      <3> HIDE DEF q
      <3>2. <<q>> \in Seq({q})
        OBVIOUS
      <3>3. Packets(<<q>>)
        BY <3>1, <3>2, SeqIsSeq, OnePacket DEF Packets, q
      <3>4. l.out = <<>> \/ l.out = <<q>>
        BY <2>1 DEF Accepts, q
      <3> QED
        BY <3>3, <3>4, NoOut
    <2> HIDE DEF l, rest
    <2>3. KeyedBy(e, l, rest, b, c, d)
      BY <1>1, <1>2, <1>3, <1>5, <1>6, <1>7, <1>8, <2>1, <2>2, ResponderAccepts, Peers DEF KeyedBy, Cuts
    <2> QED
      BY <1>5, <1>9, <2>1, <2>3, RekeyPut
  <1> QED
    BY <1>10, <1>11

LEMMA RekeyDeliver ==
    ASSUME NoneIsNoRecord, RunInv, RekeyInv, end["i"].rekeying, NEW e \in Ends, NEW n \in DOMAIN net[e],
           Deliver(e, n)
    PROVE  RekeyInv'
  <1> DEFINE k == end[e]
             p == net[e][n]
             rest == [net EXCEPT ![e] = RemoveAt(@, n)]
  <1>1. Put(e, IF p.key = k.recv THEN Dispatch(k, p) ELSE k, rest)
    BY DEF Deliver
  <1>2. \/ Put(e, k, rest)
        \/ k.link /\ Put(e, PacketReceive(k, p), rest)
        \/ ~k.link /\ p.t = "REKEY" /\ p.key = k.recv /\ Put(e, ServerRekey(k, p), rest)
    <2> HIDE DEF k, p, rest
    <2> QED
      BY <1>1 DEF Dispatch
  <1>3. CASE Put(e, k, rest)
    <2>1. Alike(k, k) /\ Cuts(e, rest) /\ DOMAIN k = Fields /\ k.out = <<>>
      BY CutsRemove, Locals DEF Alike
    <2> QED
      BY <1>3, <2>1, NoOut, RekeyEdit
  <1>4. CASE k.link /\ Put(e, PacketReceive(k, p), rest)
    BY <1>4, RekeyReceive
  <1>5. CASE ~k.link /\ p.t = "REKEY" /\ p.key = k.recv /\ Put(e, ServerRekey(k, p), rest)
    BY <1>5, RekeyAccept
  <1> QED
    BY <1>2, <1>3, <1>4, <1>5

\* The initiator begins a re-key when both ends are at rest.
LEMMA RekeyStarts ==
    ASSUME RunInv, DoRekey, NEW p \in BOOLEAN, NEW a \in Counts, NEW b \in Counts,
           end["i"].hist = MatSeq(p, a), end["i"].rekey = [pfs |-> p, of |-> Mat(p, a)],
           end["i"].recv = Key(Mat(p, a), "r"), end["i"].send = Key(Mat(p, a), "i"), end["i"].round = a,
           Responds(end["r"], p, b), a <= b + 1, b <= a, a = b => end["r"].round = b
    PROVE  RekeyInv'
  <1> DEFINE k == end["i"]
             r == end["r"]
             x == Started(k, "rekey_i_start", TRUE, None)
             l == [x EXCEPT !.runs = 1]
  <1>1. /\ Put("i", l, net) /\ ~r.link /\ OnlyData(net["i"]) /\ OnlyData(net["r"])
        /\ Len(k.hist) <= MaxRekeys
    BY DEF DoRekey, OnlyData, Ends
  <1>2. DOMAIN k = Fields /\ k.out = <<>> /\ (r.link <=> r.st # "none")
    BY Locals DEF Living, Ends
  <1>3. a \in Nat /\ b \in Nat /\ MaxRekeys \in Nat
    BY KeyExchangeAssumption DEF Counts
  <1>4. a <= MaxRekeys
    <2>1. Len(MatSeq(p, a)) = a
      BY <1>3, MatMore
    <2> QED
      BY <1>1, <2>1
  <1> HIDE DEF k, r
  <1>5. /\ DOMAIN l = Fields /\ l.st = "rekey_i_start" /\ l.link = TRUE /\ l.status = "OK"
        /\ l.done = "no" /\ l.round = k.round + 1 /\ l.hist = k.hist /\ l.rekey = k.rekey
        /\ l.send = k.send /\ l.recv = k.recv /\ l.out = <<>>
    BY <1>2 DEF Started, Fields
  <1> HIDE DEF l
  <1>6. Initiates(l, p, a)
    BY <1>4, <1>5 DEF Initiates, k
  <1>7. Apart(l, r, a, b)
    BY <1>1, <1>2, <1>3, <1>5 DEF Apart, r
  <1>8. Answering(l, r, a, b, net["i"]) /\ Asking(l, r, p, a, b, net["i"], net["r"])
    BY <1>1 DEF Answering, Asking, OnlyData, NoFalseFailure, OneRekey
  <1>9. net["r"] \o l.out = net["r"]
    <2>1. IsSeq(net["r"])
      BY DEF RunInv, Shapes, Packets, Ends
    <2> QED
      BY <1>5, <2>1 DEF IsSeq
  <1>10. KeyedBy("i", l, net, p, a, b)
    BY <1>6, <1>7, <1>8, <1>9 DEF KeyedBy, Keying, r
  <1> QED
    BY <1>1, <1>5, <1>10, CutsNet, RekeyPut DEF Ends

LEMMA RekeyDoRekey ==
    ASSUME RunInv, TrustInv, RekeyInv, DoRekey
    PROVE  RekeyInv'
  <1> DEFINE i == end["i"]
             r == end["r"]
  <1>1. i.done = "ok" /\ ~i.link /\ ~r.link
    BY DEF DoRekey, Ends
  <1>2. CASE i.rekeying
    <2>1. PICK p \in BOOLEAN, a \in Counts, b \in Counts : Keying(i, r, p, a, b, net["i"], net["r"])
      BY <1>2 DEF RekeyInv, Counts
    <2> QED
      BY <1>1, <2>1, RekeyStarts DEF Keying, Initiates, Apart
  <1>3. CASE ~i.rekeying
    <2>1. ~r.rekeying /\ i.me = "i" /\ r.me = "r" /\ (r.link <=> r.st # "none")
      BY <1>3, Locals DEF RunInv, Rekeys, Living, Ends
    <2>2. Material(i) /\ Material(r) /\ Heard(i, r)
      BY <1>3, <2>1 DEF TrustInv, First, Firm, Talk, Ends
    <2>3. i.hist # <<>> /\ r.hist # <<>> /\ i.prop = r.prop
      BY <1>1, <2>2 DEF Material, Heard
    <2> DEFINE p == "PFS" \in i.prop.flags
    <2>4. Mat(p, 1) = <<FirstKey>> /\ MatSeq(p, 1) = <<<<FirstKey>>>> /\ 1 \in Counts
      <3>1. p \in BOOLEAN /\ MaxRekeys \in Nat
        BY KeyExchangeAssumption
      <3> HIDE DEF p
      <3> QED
        BY <3>1, MatFirst DEF Counts
    <2>5. /\ i.hist = MatSeq(p, 1) /\ i.rekey = [pfs |-> p, of |-> Mat(p, 1)]
          /\ i.recv = Key(Mat(p, 1), "r") /\ i.send = Key(Mat(p, 1), "i") /\ i.round = 1
      BY <2>1, <2>2, <2>3, <2>4, Peers DEF Material, Renewal
    <2>6. /\ r.hist = MatSeq(p, 1) /\ r.rekey = [pfs |-> p, of |-> Mat(p, 1)]
          /\ r.recv = Key(Mat(p, 1), "i") /\ r.round = 1
      BY <2>1, <2>2, <2>3, <2>4, Peers DEF Material, Renewal
    <2> HIDE DEF p
    <2>7. Responds(r, p, 1) /\ p \in BOOLEAN
      BY <1>1, <2>1, <2>6 DEF Responds, p
    <2> QED
      BY <2>4, <2>5, <2>6, <2>7, RekeyStarts
  <1> QED
    BY <1>2, <1>3

LEMMA RekeyInit == Init => RekeyInv
  <1> SUFFICES ASSUME Init PROVE RekeyInv
    OBVIOUS
  <1>1. end["i"].rekeying = FALSE
    BY DEF Init, Started, Idle, Ends
  <1> QED
    BY <1>1 DEF RekeyInv

LEMMA RekeyNext ==
    ASSUME NoneIsNoRecord, RunInv, TrustInv, RekeyInv, [Next]_vars
    PROVE  RekeyInv'
  <1>1. CASE DoRekey
    BY <1>1, RekeyDoRekey
  <1>2. ASSUME NEW e \in Ends,
               \/ FsmRun(e) \/ Timeout(e) \/ Retry(e) \/ Finished(e)
               \/ OwnerFree(e) \/ Abort(e) \/ SendData(e)
               \/ \E n \in DOMAIN net[e] : Deliver(e, n)
        PROVE  RekeyInv'
    <2>1. CASE end["i"].rekeying
      <3>1. ~Retry(e)
        BY <2>1, Locals, RekeyEnds DEF Retry, Waking
      <3> QED
        BY <1>2, <2>1, <3>1, RekeyFsmRun, RekeyTimeout, RekeyEdits, RekeySendData, RekeyDeliver
    <2>2. CASE ~end["i"].rekeying
      <3>1. Continues
        BY RunNext
      <3>2. end'["i"].rekeying => DoRekey
        BY <2>2, <3>1 DEF Continues
      <3> QED
        BY <1>1, <3>2 DEF RekeyInv
    <2> QED
      BY <2>1, <2>2
  <1>3. CASE \E e \in Ends : \E n \in DOMAIN net[e] : Lose(e, n) \/ Duplicate(e, n)
    <2>1. cfg.udp /\ end' = end
      BY <1>3 DEF Lose, Duplicate
    <2>2. ~end["i"].rekeying
      BY <2>1 DEF RunInv, Rekeys
    <2> QED
      BY <2>1, <2>2 DEF RekeyInv
  <1>4. CASE UNCHANGED vars
    BY <1>4 DEF vars, RekeyInv
  <1> QED
    BY <1>1, <1>2, <1>3, <1>4 DEF Next

\* In every state of a connection whose responder can sign, the two ends of the
\* re-keys have taken the same materials into use, at most one apart, and what
\* they hold and have sent derives the next one: silc_ske_process_key_material
\* and silc_ske_st_rekey_initiator_start to silc_ske_st_rekey_responder_end.
THEOREM RekeyCorrect ==
    ASSUME NoneIsNoRecord, Signing
    PROVE  Spec => []RekeyInv
  <1>1. RunInv /\ TrustInv /\ RekeyInv /\ [Next]_vars => RekeyInv'
    BY RekeyNext
  <1>2. Spec => []RunInv /\ []TrustInv
    BY RunCorrect, TrustCorrect
  <1> QED
    BY <1>1, <1>2, RekeyInit, PTL DEF Spec

-----------------------------------------------------------------------------
(***************************************************************************)
(* Agreement: the materials the two ends have taken into use.              *)
(***************************************************************************)

Apace(p, x, y, s, t) == s = MatSeq(p, x) /\ t = MatSeq(p, y) /\ x <= y + 1 /\ y <= x + 1

\* s and t are the materials of one connection, read at most one apart.
Together(s, t) ==
    \E p \in BOOLEAN : \E x, y \in 0..(MaxRekeys + 1) : Apace(p, x, y, s, t)

\* The ends of the connection.
Matched == Together(end["i"].hist, end["r"].hist)

LEMMA TogetherAlways ==
    ASSUME RunInv, TrustInv, RekeyInv
    PROVE  Together(end["i"].hist, end["r"].hist)
  <1> DEFINE i == end["i"]
             r == end["r"]
  <1>0. MaxRekeys \in Nat
    BY KeyExchangeAssumption
  <1>1. CASE i.rekeying
    <2>1. PICK p \in BOOLEAN, a \in 1..(MaxRekeys + 1), b \in 1..(MaxRekeys + 1) :
             Keying(i, r, p, a, b, net["i"], net["r"])
      BY <1>1 DEF RekeyInv
    <2>2. Apace(p, a, b, i.hist, r.hist)
      BY <2>1 DEF Keying, Initiates, Responds, Apart, Apace
    <2>3. a \in 0..(MaxRekeys + 1) /\ b \in 0..(MaxRekeys + 1)
      BY <1>0, <2>1
    <2> QED
      BY <2>2, <2>3 DEF Together
  <1>2. CASE ~i.rekeying
    <2>1. ~r.rekeying
      BY <1>2 DEF RunInv, Rekeys
    <2>2. Material(i) /\ Material(r)
      BY <1>2, <2>1 DEF TrustInv, First, Firm, Ends
    <2>3. i.hist \in {<<>>, <<<<FirstKey>>>>} /\ r.hist \in {<<>>, <<<<FirstKey>>>>}
      BY <2>2 DEF Material
    <2>4. MatSeq(TRUE, 0) = <<>> /\ MatSeq(TRUE, 1) = <<<<FirstKey>>>>
      <3>1. MatSeq(TRUE, 0) = <<>>
        BY DEF MatSeq
      <3> QED
        BY <3>1, MatFirst
    <2>5. PICK x \in {0, 1}, y \in {0, 1} : i.hist = MatSeq(TRUE, x) /\ r.hist = MatSeq(TRUE, y)
      BY <2>3, <2>4
    <2>6. Apace(TRUE, x, y, i.hist, r.hist) /\ x \in 0..(MaxRekeys + 1) /\ y \in 0..(MaxRekeys + 1)
      BY <1>0, <2>5 DEF Apace
    <2> QED
      BY <2>6 DEF Together
  <1> QED
    BY <1>1, <1>2

LEMMA MatMaterials ==
    ASSUME NEW p \in BOOLEAN, NEW n \in 1..(MaxRekeys + 1)
    PROVE  Mat(p, n) \in Materials
  <1> DEFINE K(m) == {<<"i", m>>, <<"r", m>>}
             E(d) == [j \in 1..d |-> {}]
  <1>0. MaxRekeys \in Nat /\ n \in Nat /\ n >= 1 /\ n <= MaxRekeys + 1
    BY KeyExchangeAssumption
  <1>1. ASSUME NEW m \in 1..(MaxRekeys + 1), NEW d \in 0..MaxRekeys
        PROVE  <<K(m)>> \o E(d) \in Materials
    <2> DEFINE G(v, w) == <<K(v)>> \o E(w)
    <2>1. Materials = {G(v, w) : v \in 1..(MaxRekeys + 1), w \in 0..MaxRekeys}
      BY DEF Materials
    <2> HIDE DEF G
    <2>2. G(m, d) \in Materials
      BY <2>1
    <2> QED
      BY <2>2 DEF G
  <1> HIDE DEF K
  <1>2. ASSUME NEW m, NEW d \in Nat
        PROVE  <<K(m)>> \o E(d) = [j \in 1..(d + 1) |-> IF j = 1 THEN K(m) ELSE {}]
    <2>1. E(d) \in Seq({{}}) /\ Len(E(d)) = d
      OBVIOUS
    <2>2. <<K(m)>> \in Seq({K(m)}) /\ Len(<<K(m)>>) = 1 /\ <<K(m)>>[1] = K(m)
      OBVIOUS
    <2> HIDE DEF E
    <2>3. \A j \in 1..d : E(d)[j] = {}
      BY DEF E
    <2>4. /\ <<K(m)>> \o E(d) \in Seq({K(m), {}}) /\ Len(<<K(m)>> \o E(d)) = d + 1
          /\ \A j \in 1..(d + 1) : (<<K(m)>> \o E(d))[j] =
                IF j <= 1 THEN <<K(m)>>[j] ELSE E(d)[j - 1]
      <3>1. <<K(m)>> \in Seq({K(m), {}}) /\ E(d) \in Seq({K(m), {}})
        BY <2>1, <2>2
      <3> QED
        BY <2>1, <2>2, <3>1, ConcatProperties
    <2> DEFINE t == <<K(m)>> \o E(d)
               F == E(d)
               L == K(m)
    <2>5. /\ t \in Seq({L, {}}) /\ Len(t) = d + 1 /\ <<L>>[1] = L
          /\ \A j \in 1..d : F[j] = {}
          /\ \A j \in 1..(d + 1) : t[j] = IF j <= 1 THEN <<L>>[j] ELSE F[j - 1]
      BY <2>2, <2>3, <2>4
    <2> HIDE DEF t, F, L
    <2>6. \A j \in 1..(d + 1) : t[j] = IF j = 1 THEN L ELSE {}
      <3> SUFFICES ASSUME NEW j \in 1..(d + 1)
                   PROVE  t[j] = IF j = 1 THEN L ELSE {}
        OBVIOUS
      <3>1. j = 1 \/ (j > 1 /\ j - 1 \in 1..d)
        OBVIOUS
      <3> QED
        BY <2>5, <3>1
    <2>7. t \in [1..(d + 1) -> {L, {}}]
      BY <2>5, LenProperties
    <2>8. t = [j \in 1..(d + 1) |-> IF j = 1 THEN L ELSE {}]
      BY <2>6, <2>7
    <2> QED
      BY <2>8 DEF t, L
  <1>3. CASE p
    <2>1. <<K(n)>> \o E(0) \in Materials
      <3>1. 0 \in 0..MaxRekeys
        BY <1>0
      <3> QED
        BY <1>1, <3>1, Zenon
    <2>2. <<K(n)>> \o E(0) = [j \in 1..1 |-> IF j = 1 THEN K(n) ELSE {}]
      BY <1>2
    <2>3. [j \in 1..1 |-> IF j = 1 THEN K(n) ELSE {}] = <<K(n)>>
      OBVIOUS
    <2> QED
      BY <1>3, <2>1, <2>2, <2>3 DEF Mat, K
  <1>4. CASE ~p
    <2>1. <<K(1)>> \o E(n - 1) \in Materials
      <3>1. 1 \in 1..(MaxRekeys + 1) /\ n - 1 \in 0..MaxRekeys
        BY <1>0
      <3> QED
        BY <1>1, <3>1, Zenon
    <2>2. <<K(1)>> \o E(n - 1) = [j \in 1..n |-> IF j = 1 THEN K(1) ELSE {}]
      BY <1>0, <1>2
    <2> QED
      BY <1>4, <2>1, <2>2 DEF Mat, K, FirstKey
  <1> QED
    BY <1>3, <1>4

LEMMA MatSeqRead ==
    ASSUME NEW p \in BOOLEAN, NEW n \in Nat, NEW z, z = MatSeq(p, n)
    PROVE  Len(z) = n /\ DOMAIN z = 1..n /\ \A j \in 1..n : z[j] = Mat(p, j)
  BY MatMore

\* What an end that takes a material into use finds: the other end has taken as
\* many, and the material is a new one, or one more, and it is the same one.
LEMMA NextMaterial ==
    ASSUME NEW s, NEW t, NEW u, NEW m, Together(s, t), Together(u, t), u = Append(s, m)
    PROVE  \/ /\ s = t /\ m \in Materials
              /\ \A j \in DOMAIN s : s[j] # m
           \/ IsStrictPrefix(s, t) /\ m = t[Len(s) + 1]
  <1>0. MaxRekeys \in Nat
    BY KeyExchangeAssumption
  <1>1. PICK p \in BOOLEAN, x \in 0..(MaxRekeys + 1), y \in 0..(MaxRekeys + 1) : Apace(p, x, y, s, t)
    BY DEF Together
  <1>2. PICK q \in BOOLEAN, v \in 0..(MaxRekeys + 1), w \in 0..(MaxRekeys + 1) : Apace(q, v, w, u, t)
    BY DEF Together
  <1>3. x \in Nat /\ y \in Nat /\ v \in Nat /\ w \in Nat /\ x + 1 \in Nat /\ v <= MaxRekeys + 1
    BY <1>0, <1>1, <1>2
  <1>4. /\ s = MatSeq(p, x) /\ t = MatSeq(p, y) /\ u = MatSeq(q, v) /\ t = MatSeq(q, w)
        /\ x <= y + 1 /\ y <= x + 1 /\ v <= w + 1 /\ w <= v + 1
    BY <1>1, <1>2 DEF Apace
  <1>5. /\ Len(s) = x /\ Len(t) = y /\ Len(u) = v /\ Len(t) = w
        /\ DOMAIN s = 1..x /\ DOMAIN t = 1..y /\ DOMAIN u = 1..v
        /\ \A j \in 1..x : s[j] = Mat(p, j)
        /\ \A j \in 1..y : t[j] = Mat(p, j) /\ t[j] = Mat(q, j)
        /\ \A j \in 1..v : u[j] = Mat(q, j)
    <2>1. Len(s) = x /\ DOMAIN s = 1..x /\ \A j \in 1..x : s[j] = Mat(p, j)
      BY <1>1, <1>3, <1>4, MatSeqRead
    <2>2. Len(t) = y /\ DOMAIN t = 1..y /\ \A j \in 1..y : t[j] = Mat(p, j)
      <3>1. t = MatSeq(p, y) /\ y \in Nat
        BY <1>3, <1>4
      <3> QED
        BY <3>1, MatSeqRead
    <2>3. Len(u) = v /\ DOMAIN u = 1..v /\ \A j \in 1..v : u[j] = Mat(q, j)
      BY <1>2, <1>3, <1>4, MatSeqRead
    <2>4. Len(t) = w /\ \A j \in 1..w : t[j] = Mat(q, j)
      BY <1>2, <1>3, <1>4, MatSeqRead
    <2>5. y = w
      BY <2>2, <2>4
    <2> QED
      BY <2>1, <2>2, <2>3, <2>4, <2>5
  <1>6. s \in Seq({Mat(p, j) : j \in 1..x}) /\ t \in Seq({Mat(p, j) : j \in 1..y})
    BY <1>3, <1>4 DEF MatSeq
  <1>7. /\ v = x + 1 /\ u[x + 1] = m
        /\ \A j \in 1..x : u[j] = s[j]
    <2> DEFINE S == {Mat(p, j) : j \in 1..x} \cup {m}
    <2>1. s \in Seq(S) /\ m \in S
      BY <1>6
    <2> HIDE DEF S
    <2>2. Len(u) = Len(s) + 1 /\ u[Len(s) + 1] = m /\ \A j \in 1..Len(s) : u[j] = s[j]
      BY <2>1
    <2> QED
      BY <1>5, <2>2
  <1>8. m = Mat(q, x + 1)
    BY <1>3, <1>5, <1>7
  <1>9. y = x \/ y = x + 1
    BY <1>3, <1>4, <1>5, <1>7
  <1>10. CASE y = x
    <2>1. s = t
      BY <1>4, <1>10
    <2>2. m \in Materials
      <3>1. x + 1 \in 1..(MaxRekeys + 1)
        BY <1>0, <1>3, <1>7
      <3> QED
        BY <1>2, <1>8, <3>1, MatMaterials
    <2>3. ASSUME NEW j \in DOMAIN s PROVE s[j] # m
      <3>1. j \in Nat /\ j # x + 1 /\ s[j] = Mat(q, j)
        BY <1>3, <1>5, <1>7
      <3> QED
        BY <1>2, <1>3, <1>8, <3>1, MatInjective
    <2> QED
      BY <2>1, <2>2, <2>3
  <1>11. CASE y = x + 1
    <2>1. m = t[x + 1]
      <3>1. x + 1 \in 1..y
        BY <1>3, <1>11
      <3> QED
        BY <1>5, <1>8, <3>1
    <2>2. SubSeq(s, 1, x) = SubSeq(t, 1, x)
      <3>1. \A j \in 1..x : s[j] = t[j]
        <4>1. \A j \in 1..x : j \in 1..y
          BY <1>3, <1>11
        <4> QED
          BY <1>5, <4>1
      <3>2. SubSeq(s, 1, x) = [j \in 1..x |-> s[j]] /\ SubSeq(t, 1, x) = [j \in 1..x |-> t[j]]
        BY <1>3
      <3> QED
        BY <3>1, <3>2
    <2>3. Len(s) = x /\ Len(t) = x + 1
      BY <1>5, <1>11
    <2>4. s # t /\ Len(s) <= Len(t)
      BY <1>3, <2>3
    <2> QED
      BY <2>1, <2>2, <2>3, <2>4 DEF IsStrictPrefix, IsPrefix
  <1> QED
    BY <1>9, <1>10, <1>11

LEMMA TogetherSym ==
    ASSUME NEW s, NEW t, Together(s, t)
    PROVE  Together(t, s)
  BY DEF Together, Apace

\* A step of end e is a step of the abstract exchange, or leaves it as it is.
LEMMA AgreementStep ==
    ASSUME NEW e \in Ends, DOMAIN end = Ends, DOMAIN end' = Ends,
           Together(end["i"].hist, end["r"].hist), Together(end'["i"].hist, end'["r"].hist),
           end'[Peer(e)] = end[Peer(e)], Grows(end[e], end'[e])
    PROVE  [A!Next]_([g \in Ends |-> end[g].hist])
  <1> DEFINE f == Peer(e)
             h == [g \in Ends |-> end[g].hist]
             k == [g \in Ends |-> end'[g].hist]
  <1>1. f \in Ends /\ f # e /\ Ends = {e, f}
    BY Peers DEF Ends
  <1>2. Together(end[e].hist, end[f].hist) /\ Together(end'[e].hist, end[f].hist)
    BY Peers, TogetherSym DEF Ends
  <1>3. h[e] = end[e].hist /\ h[f] = end[f].hist /\ k[e] = end'[e].hist /\ k[f] = h[f]
    BY <1>1
  <1>4. DOMAIN h = Ends /\ DOMAIN k = Ends /\ h = [g \in Ends |-> h[g]] /\ k = [g \in Ends |-> k[g]]
    OBVIOUS
  <1>5. end'[e].hist = end[e].hist \/ \E m : end'[e].hist = Append(end[e].hist, m)
    BY DEF Grows
  <1>6. ([g \in Ends |-> end[g].hist])' = k
    OBVIOUS
  <1> HIDE DEF f, h, k
  <1>7. CASE k[e] = h[e]
    <2>1. k = h
      BY <1>1, <1>3, <1>4, <1>7
    <2> QED
      BY <1>6, <2>1 DEF h
  <1>8. ASSUME NEW m, k[e] = Append(h[e], m) PROVE A!Next
    <2>1. k = [h EXCEPT ![e] = Append(@, m)]
      BY <1>1, <1>3, <1>4, <1>8
    <2>2. \/ /\ h[e] = h[f] /\ m \in Materials
             /\ \A j \in DOMAIN h[e] : h[e][j] # m
          \/ IsStrictPrefix(h[e], h[f]) /\ m = h[f][Len(h[e]) + 1]
      <3>1. Together(h[e], h[f]) /\ Together(k[e], h[f])
        BY <1>2, <1>3
      <3> QED
        BY <1>8, <3>1, NextMaterial
    <2>3. CASE /\ h[e] = h[f] /\ m \in Materials
               /\ \A j \in DOMAIN h[e] : h[e][j] # m
      <3>1. A!Lead(e)
        <4>1. \A g \in Ends : h[g] = h[e]
          BY <1>1, <2>3
        <4> QED
          BY <1>6, <2>1, <2>3, <4>1 DEF A!Lead, h
      <3> QED
        BY <3>1 DEF A!Next
    <2>4. CASE IsStrictPrefix(h[e], h[f]) /\ m = h[f][Len(h[e]) + 1]
      <3>1. A!Follow(e)
        <4>1. A!IsStrictPrefix(h[e], h[f])
          BY <2>4 DEF IsStrictPrefix, IsPrefix, A!IsStrictPrefix, A!IsPrefix
        <4> QED
          BY <1>1, <1>6, <2>1, <2>4, <4>1 DEF A!Follow, h
      <3> QED
        BY <3>1 DEF A!Next
    <2> QED
      BY <2>2, <2>3, <2>4
  <1> QED
    BY <1>3, <1>5, <1>7, <1>8

LEMMA AgreementNext ==
    ASSUME NoneIsNoRecord, RunInv, RunInv', [Next]_vars,
           Together(end["i"].hist, end["r"].hist), Together(end'["i"].hist, end'["r"].hist)
    PROVE  [A!Next]_([g \in Ends |-> end[g].hist])
  <1>1. DOMAIN end = Ends /\ DOMAIN end' = Ends
    BY DEF RunInv, Shapes
  <1>2. Continues
    BY RunNext
  <1>3. \A e \in Ends : Grows(end[e], end'[e])
    BY <1>2 DEF Continues
  <1>4. CASE end' = end
    BY <1>1, <1>3, <1>4, AgreementStep DEF Ends
  <1>5. CASE DoRekey
    <2>1. end'["r"] = end["r"]
      BY <1>1, <1>5 DEF DoRekey, Put, Ends
    <2> QED
      BY <1>1, <1>3, <2>1, AgreementStep, Peers DEF Ends
  <1>6. ASSUME NEW e \in Ends,
               \/ FsmRun(e) \/ Timeout(e) \/ Retry(e) \/ Finished(e)
               \/ OwnerFree(e) \/ Abort(e) \/ SendData(e)
               \/ \E n \in DOMAIN net[e] : Deliver(e, n)
        PROVE  [A!Next]_([g \in Ends |-> end[g].hist])
    <2>1. end'[Peer(e)] = end[Peer(e)]
      BY <1>6, OtherEnd
    <2> QED
      BY <1>1, <1>3, <2>1, AgreementStep
  <1>7. CASE \E e \in Ends : \E n \in DOMAIN net[e] : Lose(e, n) \/ Duplicate(e, n)
    <2>1. end' = end
      BY <1>7 DEF Lose, Duplicate
    <2> QED
      BY <1>4, <2>1
  <1>8. CASE UNCHANGED vars
    <2>1. end' = end
      BY <1>8 DEF vars
    <2> QED
      BY <1>4, <2>1
  <1> QED
    BY <1>5, <1>6, <1>7, <1>8 DEF Next

\* The exchange implements KeyAgreement, whatever is lost, doubled, delayed or
\* given up: the two ends of a connection take the same key materials into use,
\* in the same order, never more than one apart, and never the same one twice.
\* The materials are taken in silc_ske_st_initiator_end, _responder_end and the
\* two rekey_end states.  Signing is needed: when the responder's signature fails
\* both ends complete without key material (silcske.c:2265).
THEOREM AgreementCorrect ==
    ASSUME NoneIsNoRecord, Signing
    PROVE  Spec => Agreement
  <1>1. Init => A!Init
    <2> SUFFICES ASSUME Init PROVE A!Init
      OBVIOUS
    <2>1. \A e \in Ends : end[e].hist = <<>>
      BY DEF Init, Started, Idle
    <2> QED
      BY <2>1 DEF A!Init
  <1>2. RunInv /\ TrustInv /\ RekeyInv => Matched
    BY TogetherAlways DEF Matched
  <1>3. RunInv /\ RunInv' /\ Matched /\ Matched' /\ [Next]_vars
        => [A!Next]_([e \in Ends |-> end[e].hist])
    BY AgreementNext DEF Matched
  <1>4. Spec => []RunInv /\ []TrustInv /\ []RekeyInv
    BY RunCorrect, TrustCorrect, RekeyCorrect
  <1> QED
    BY <1>1, <1>2, <1>3, <1>4, PTL DEF Spec, Agreement, A!Spec

-----------------------------------------------------------------------------
(***************************************************************************)
(* The exchanges of a connection that nothing disturbs.                    *)
(***************************************************************************)

\* A reliable stream, no timeout and no abort.
Calm == ~cfg.udp /\ ~late /\ aborts = 0

\* All the packets of q are data under the key the end k receives with.
Clean(k, q) == \A n \in DOMAIN q : q[n].t = "DATA" /\ q[n].key = k.recv

\* Among data for k from j, q has a packet t at c, after which j has changed its key.
Bears(k, j, q, c, t) ==
    /\ c \in DOMAIN q /\ q[c].t = t /\ q[c].key = k.recv
    /\ \A n \in DOMAIN q :
        /\ n < c => q[n].t = "DATA" /\ q[n].key = k.recv
        /\ n > c => q[n].t = "DATA" /\ q[n].key = j.send

\* It has t at b, and u at c, after which j has changed its key.
BearsTwo(k, j, q, b, t, c, u) ==
    /\ b \in DOMAIN q /\ q[b].t = t /\ q[b].key = k.recv
    /\ c \in DOMAIN q /\ q[c].t = u /\ q[c].key = k.recv /\ b < c
    /\ \A n \in DOMAIN q :
        /\ n < c /\ n # b => q[n].t = "DATA" /\ q[n].key = k.recv
        /\ n > c => q[n].t = "DATA" /\ q[n].key = j.send

\* An end of the first exchange that goes on, and one that has failed.
Fresh(k) ==
    /\ k.link /\ ~k.rekeying /\ k.st # "failure" /\ k.done = "no"
    /\ k.send = None /\ k.recv = None
Failed(k) == ~k.link /\ ~k.rekeying /\ k.done = "failed" /\ k.send = None /\ k.recv = None
Succeeded(k) == ~k.link /\ ~k.rekeying /\ k.done = "ok"

\* No run but the one that starts the responder is scheduled, or one more, for
\* the packet t.
Rests(k) == k.runs = One(k.st = "r_start")
Holds(k, t) == k.runs = One(k.st = "r_start") + 1 /\ k.pkt # None /\ k.pkt.t = t

\* The end in state s waits for the packet t of the other end, which is in
\* state o.
Meets(s, t, o) ==
    \/ t = "KEY_EXCHANGE" /\ s \in {"r_start", "r_phase1"} /\ o = "i_phase1"
    \/ t = "KEY_EXCHANGE" /\ s = "i_phase1" /\ o = "r_phase2"
    \/ t = "KEY_EXCHANGE_1" /\ s = "r_phase2" /\ o = "i_phase3"
    \/ t = "KEY_EXCHANGE_2" /\ s = "i_phase3" /\ o = "r_end"
    \/ t = "SUCCESS" /\ s = "r_end" /\ o = "i_end"

Sole(q, t) == Len(q) = 1 /\ q[1].t = t /\ q[1].key = None

\* The first exchange has not begun; it is the turn of the end k; the end k
\* has failed or will fail because the other has; the responder has completed
\* it; both have; both have failed.
Before(i, r, qi, qr) ==
    /\ Fresh(i) /\ i.st = "i_start" /\ i.runs = 1 /\ qi = <<>>
    /\ Fresh(r) /\ r.st \in {"r_start", "r_phase1"} /\ Rests(r) /\ qr = <<>>
Turn(k, j, qk, qj) ==
    /\ Fresh(k) /\ Fresh(j) /\ Rests(j) /\ qj = <<>>
    /\ \E t \in Turns : /\ Meets(k.st, t, j.st)
                        /\ \/ Rests(k) /\ Sole(qk, t)
                           \/ Holds(k, t) /\ qk = <<>> /\ t # "SUCCESS"
Ending(k, j, qk, qj) ==
    /\ Failed(j) /\ qj = <<>>
    /\ \/ Fresh(k) /\ Rests(k) /\ Sole(qk, "FAILURE")
       \/ /\ k.link /\ ~k.rekeying /\ k.st = "failure" /\ k.runs > 0 /\ k.done = "no"
          /\ k.send = None /\ k.recv = None /\ qk = <<>>
Confirming(i, r, qi, qr) ==
    /\ Fresh(i) /\ i.st = "i_end" /\ Rests(i) /\ \E c \in DOMAIN qi : Bears(i, r, qi, c, "SUCCESS")
    /\ Succeeded(r) /\ qr = <<>>
Completes(i, r, qi, qr) ==
    Succeeded(i) /\ Succeeded(r) /\ Clean(i, qi) /\ Clean(r, qr)
Fails(i, r, qi, qr) == Failed(i) /\ Failed(r) /\ qi = <<>> /\ qr = <<>>

Opening(i, r, qi, qr) ==
    \/ Before(i, r, qi, qr)
    \/ Turn(i, r, qi, qr) \/ Turn(r, i, qr, qi)
    \/ Ending(i, r, qi, qr) \/ Ending(r, i, qr, qi)
    \/ Confirming(i, r, qi, qr) \/ Completes(i, r, qi, qr) \/ Fails(i, r, qi, qr)

\* An end that sends and receives with the material m and is at rest or in
\* state st; and one that already sends with the new material.
Base(k) == k.rekey.pfs \in BOOLEAN /\ k.recv = Key(k.rekey.of, Peer(k.me))
Settled(k) ==
    Base(k) /\ k.send = Key(k.rekey.of, k.me) /\ ~k.link /\ k.done = "ok"
Underway(k, st) ==
    /\ Base(k) /\ k.send = Key(k.rekey.of, k.me) /\ k.link /\ k.rekeying
    /\ k.st = st
Switching(k) ==
    /\ Base(k) /\ k.send = Key(k.keymat, k.me) /\ k.link /\ k.rekeying
    /\ k.st = "rekey_end"

Quiet(i, r, qi, qr) ==
    /\ Settled(i) \/ Underway(i, "rekey_i_start")
    /\ Settled(r) /\ Clean(i, qi) /\ Clean(r, qr)
Asked(i, r, qi, qr) ==
    /\ ~i.rekey.pfs /\ Switching(i) /\ i.keymat = Append(i.rekey.of, {})
    /\ Settled(r) /\ Clean(i, qi)
    /\ \E b, c \in DOMAIN qr : BearsTwo(r, i, qr, b, "REKEY", c, "REKEY_DONE")
AskedKey(i, r, qi, qr) ==
    /\ i.rekey.pfs /\ Underway(i, "i_phase3") /\ Clean(i, qi)
    /\ \E c \in DOMAIN qr :
        /\ \/ Settled(r) /\ \E b \in DOMAIN qr : BearsTwo(r, i, qr, b, "REKEY", c, "KEY_EXCHANGE_1")
           \/ Underway(r, "r_phase2") /\ Bears(r, i, qr, c, "KEY_EXCHANGE_1")
        /\ qr[c].body.x = i.ke1.x
Answered(i, r, qi, qr) ==
    /\ i.rekey.pfs /\ Underway(i, "i_phase3") /\ Switching(r) /\ Clean(r, qr)
    /\ \E b, c \in DOMAIN qi :
        /\ BearsTwo(i, r, qi, b, "KEY_EXCHANGE_2", c, "REKEY_DONE")
        /\ r.keymat = <<{i.ke1.x, qi[b].body.x}>>
Switches(i, r, qi, qr) ==
    /\ Switching(i) /\ Switching(r) /\ i.keymat = r.keymat
    /\ \E c \in DOMAIN qi : Bears(i, r, qi, c, "REKEY_DONE")
    /\ \E c \in DOMAIN qr : Bears(r, i, qr, c, "REKEY_DONE")
Leads(k, j, qk, qj) ==
    /\ Settled(k) /\ Switching(j) /\ k.rekey = [pfs |-> j.rekey.pfs, of |-> j.keymat]
    /\ Clean(k, qk) /\ \E c \in DOMAIN qj : Bears(j, k, qj, c, "REKEY_DONE")

Renewing(i, r, qi, qr) ==
    \/ i.rekey = r.rekey /\ \/ Quiet(i, r, qi, qr) \/ Asked(i, r, qi, qr)
                            \/ AskedKey(i, r, qi, qr) \/ Answered(i, r, qi, qr)
                            \/ Switches(i, r, qi, qr)
    \/ Leads(i, r, qi, qr) \/ Leads(r, i, qr, qi)

CalmState ==
    /\ \A e \in Ends : ~end[e].aborted
    /\ IF end["i"].rekeying THEN Renewing(end["i"], end["r"], net["i"], net["r"])
       ELSE Opening(end["i"], end["r"], net["i"], net["r"])

CalmInv == aborts \in Nat /\ (Calm => CalmState)

-----------------------------------------------------------------------------
(***************************************************************************)
(* What a run does to an end of an undisturbed first exchange.             *)
(***************************************************************************)

\* It fails and says so, or sends the packet t and waits in state st.
Tells(k, l) ==
    /\ DOMAIN l = Fields /\ l.me = k.me /\ l.rekeying = FALSE /\ l.aborted = FALSE
    /\ ~l.link /\ l.done = "failed" /\ l.send = k.send /\ l.recv = k.recv
    /\ \E p : l.out = <<p>> /\ p.t = "FAILURE" /\ p.key = k.send
Speaks(k, l, t, st) ==
    /\ DOMAIN l = Fields /\ l.me = k.me /\ l.rekeying = FALSE /\ l.aborted = FALSE
    /\ l.link = k.link /\ l.done = k.done /\ l.send = k.send /\ l.recv = k.recv
    /\ l.runs = k.runs /\ l.st = st
    /\ \E p : l.out = <<p>> /\ p.t = t /\ p.key = k.send

\* What the states between the packets change.
Partial == {"pkt", "status", "start", "prop", "ke1", "ke2", "KEY", "keymat", "rekey"}

\* An end of the first exchange that is not cut short, before a run.
Smooth(k) ==
    /\ DOMAIN k = Fields /\ k.rekeying = FALSE /\ k.aborted = FALSE
    /\ k.status = "OK" /\ k.out = <<>>

LEMMA PartialFields ==
    ASSUME NEW k, Smooth(k), NEW x, Keeps(k, x, Partial)
    PROVE  /\ DOMAIN x = Fields /\ x.me = k.me /\ x.rekeying = FALSE /\ x.aborted = FALSE
           /\ x.link = k.link /\ x.done = k.done /\ x.send = k.send /\ x.recv = k.recv
           /\ x.runs = k.runs /\ x.out = <<>> /\ x.round = k.round /\ x.st = k.st
  BY DEF Smooth, Keeps, Fields, Partial

LEMMA FinishFails ==
    ASSUME NEW x, DOMAIN x = Fields, x.rekeying = FALSE, x.aborted = FALSE, x.status # "OK"
    PROVE  LET l == Finish(x) IN
           /\ DOMAIN l = Fields /\ l.me = x.me /\ l.rekeying = FALSE /\ l.aborted = FALSE
           /\ ~l.link /\ l.st = "none" /\ l.done = "failed" /\ l.send = x.send /\ l.recv = x.recv
           /\ l.out = x.out /\ l.runs = 0
  BY DEF Finish, Completion, ServerCompleted, Fields

LEMMA FailureTells ==
    ASSUME ~cfg.udp, NEW k, Smooth(k), NEW x, Keeps(k, x, Partial), x.status # "OK", NEW s
    PROVE  Tells(k, Finish(Send(x, "FAILURE", Code(s))))
  <1> DEFINE y == Send(x, "FAILURE", Code(s))
             p == Packet(x, "FAILURE", Code(s))
             l == Finish(y)
  <1>1. /\ DOMAIN x = Fields /\ x.me = k.me /\ x.rekeying = FALSE /\ x.aborted = FALSE
        /\ x.send = k.send /\ x.recv = k.recv /\ x.out = <<>>
    BY PartialFields
  <1>2. Keeps(x, y, {"out"}) /\ y.out = Append(x.out, p)
    BY <1>1, SendPacket
  <1>3. p.t = "FAILURE" /\ p.key = k.send
    BY <1>1 DEF Packet
  <1> HIDE DEF y, p
  <1>4. /\ DOMAIN y = Fields /\ y.me = k.me /\ y.rekeying = FALSE /\ y.aborted = FALSE
        /\ y.send = k.send /\ y.recv = k.recv /\ y.status # "OK"
    BY <1>1, <1>2 DEF Keeps, Fields
  <1>5. y.out = <<p>>
    BY <1>1, <1>2, OnePacket
  <1>6. /\ DOMAIN l = Fields /\ l.me = y.me /\ l.rekeying = FALSE /\ l.aborted = FALSE
        /\ ~l.link /\ l.st = "none" /\ l.done = "failed" /\ l.send = y.send /\ l.recv = y.recv
        /\ l.out = y.out
    BY <1>4, FinishFails
  <1> HIDE DEF l
  <1>7. Tells(k, l)
    BY <1>3, <1>4, <1>5, <1>6 DEF Tells
  <1> QED
    BY <1>7 DEF l, y

LEMMA ErrorTells ==
    ASSUME ~cfg.udp, NEW k, Smooth(k), NEW x, Keeps(k, x, Partial), x.status # "OK"
    PROVE  Tells(k, InitiatorError(x)) /\ Tells(k, ResponderError(x))
  <1>1. Tells(k, InitiatorError(x))
    BY FailureTells DEF InitiatorError
  <1>2. Tells(k, ResponderError(x))
    <2> DEFINE s == IF x.status \in LocalStatus THEN "BAD_PAYLOAD" ELSE x.status
               y == [x EXCEPT !.status = s]
    <2>1. s # "OK"
      OBVIOUS
    <2>2. Keeps(x, y, {"status"}) /\ y.status = s
      BY PartialFields DEF Keeps, Fields
    <2>3. ResponderError(x) = Finish(Send(y, "FAILURE", Code(s)))
      BY DEF ResponderError
    <2> HIDE DEF s, y
    <2>4. Keeps(k, y, Partial)
      BY <2>2 DEF Keeps, Partial
    <2> QED
      BY <2>1, <2>2, <2>3, <2>4, FailureTells
  <1> QED
    BY <1>1, <1>2

LEMMA SendSpeaks ==
    ASSUME ~cfg.udp, NEW k, Smooth(k), NEW x, Keeps(k, x, Partial), NEW t, NEW b, NEW st
    PROVE  /\ Speaks(k, [Send(x, t, b) EXCEPT !.st = st], t, st)
           /\ Speaks(k, [Send(x, t, b) EXCEPT !.timer = TRUE, !.st = st], t, st)
  <1> DEFINE y == Send(x, t, b)
             p == Packet(x, t, b)
             u == [y EXCEPT !.st = st]
             v == [y EXCEPT !.timer = TRUE, !.st = st]
  <1>1. /\ DOMAIN x = Fields /\ x.me = k.me /\ x.rekeying = FALSE /\ x.aborted = FALSE
        /\ x.link = k.link /\ x.done = k.done /\ x.send = k.send /\ x.recv = k.recv
        /\ x.runs = k.runs /\ x.out = <<>>
    BY PartialFields
  <1>2. Keeps(x, y, {"out"}) /\ y.out = Append(x.out, p)
    BY <1>1, SendPacket
  <1>3. p.t = t /\ p.key = k.send
    BY <1>1 DEF Packet
  <1> HIDE DEF y, p
  <1>4. y.out = <<p>>
    BY <1>1, <1>2, OnePacket
  <1>5. Keeps(y, u, {"st"}) /\ u.st = st
    BY <1>2 DEF Keeps, Fields
  <1>6. Keeps(y, v, {"st", "timer"}) /\ v.st = st
    BY <1>2 DEF Keeps, Fields
  <1> HIDE DEF u, v
  <1>7. Speaks(k, u, t, st)
    BY <1>1, <1>2, <1>3, <1>4, <1>5 DEF Speaks, Keeps, Fields
  <1>8. Speaks(k, v, t, st)
    BY <1>1, <1>2, <1>3, <1>4, <1>6 DEF Speaks, Keeps, Fields
  <1> QED
    BY <1>7, <1>8 DEF u, v, y

\* The end answers in the way of its state, or fails.
Replied(k, l, t, st) == Tells(k, l) \/ Speaks(k, l, t, st)

LEMMA InitiatorStartReplies ==
    ASSUME ~cfg.udp, NEW k, Smooth(k)
    PROVE  Replied(k, InitiatorStart(k), "KEY_EXCHANGE", "i_phase1")
  <1> DEFINE b == [flags |-> cfg.flags, alg |-> cfg.offer]
             x == [k EXCEPT !.start = b]
  <1>1. InitiatorStart(k) = [Send(x, "KEY_EXCHANGE", b) EXCEPT !.timer = TRUE, !.st = "i_phase1"]
    BY DEF InitiatorStart, Smooth
  <1>2. Keeps(k, x, Partial)
    BY DEF Smooth, Keeps, Fields, Partial
  <1> HIDE DEF b, x
  <1> DEFINE y == [Send(x, "KEY_EXCHANGE", b) EXCEPT !.timer = TRUE, !.st = "i_phase1"]
  <1>3. Speaks(k, y, "KEY_EXCHANGE", "i_phase1")
    BY <1>2, SendSpeaks
  <1>4. InitiatorStart(k) = y
    BY <1>1
  <1> HIDE DEF y
  <1> QED
    BY <1>3, <1>4 DEF Replied

LEMMA InitiatorPhase1Replies ==
    ASSUME ~cfg.udp, NEW k, Smooth(k), k.pkt.t = "KEY_EXCHANGE"
    PROVE  Replied(k, InitiatorPhase1(k), "KEY_EXCHANGE_1", "i_phase3")
  <1> DEFINE got == [k EXCEPT !.pkt = None]
             z == [got EXCEPT !.status = "BAD_VERSION"]
             x == [got EXCEPT !.prop = k.pkt.body]
             X == <<"i", x.round>>
             mutual == ~x.rekeying /\ "MUTUAL" \in x.prop.flags
             unsigned == [x EXCEPT !.ke1 = [x |-> X, sign |-> None]]
             sign == Sign("i", HashI(unsigned))
             ke == [x |-> X, sign |-> IF mutual THEN sign ELSE None]
             v == [x EXCEPT !.status = "SIGNATURE_ERROR"]
             w == [x EXCEPT !.ke1 = ke]
             y == [Send(w, "KEY_EXCHANGE_1", ke) EXCEPT !.st = "i_phase3"]
  <1>1. InitiatorPhase1(k) = IF ~cfg.version["r"] THEN InitiatorError(z) ELSE InitiatorPhase2(x)
    BY DEF InitiatorPhase1
  <1>2. Keeps(k, z, Partial) /\ z.status = "BAD_VERSION"
    BY DEF Smooth, Keeps, Fields, Partial
  <1>3. Keeps(k, x, Partial)
    BY DEF Smooth, Keeps, Fields, Partial
  <1>4. InitiatorPhase2(x) = IF mutual /\ sign = None THEN InitiatorError(v) ELSE y
    BY DEF InitiatorPhase2
  <1> HIDE DEF got, x, z, sign, ke
  <1>5. Keeps(x, v, {"status"}) /\ v.status = "SIGNATURE_ERROR" /\ Keeps(x, w, {"ke1"})
    BY <1>3 DEF Keeps, Fields
  <1> HIDE DEF v, w, mutual
  <1>6. Keeps(k, v, Partial) /\ Keeps(k, w, Partial)
    BY <1>3, <1>5 DEF Keeps, Partial
  <1>7. Tells(k, InitiatorError(z)) /\ Tells(k, InitiatorError(v))
    BY <1>2, <1>5, <1>6, ErrorTells
  <1>8. Speaks(k, y, "KEY_EXCHANGE_1", "i_phase3")
    BY <1>6, SendSpeaks
  <1> HIDE DEF y
  <1> QED
    BY <1>1, <1>4, <1>7, <1>8 DEF Replied

LEMMA InitiatorPhase3Replies ==
    ASSUME ~cfg.udp, NEW k, Smooth(k), k.pkt.t = "KEY_EXCHANGE_2"
    PROVE  Replied(k, InitiatorPhase3(k), "SUCCESS", "i_end")
  <1> DEFINE x == [k EXCEPT !.pkt = None, !.ke2 = k.pkt.body, !.KEY = {k.ke1.x, k.pkt.body.x},
                            !.status = IF k.rekeying \/ cfg.accepts["i"] THEN @
                                       ELSE "UNSUPPORTED_PUBLIC_KEY"]
             s == x.ke2.sign
             forged == ~x.rekeying /\ (s = None \/ s # [by |-> "r", of |-> Hash(x)])
             z == [x EXCEPT !.status = "INCORRECT_SIGNATURE"]
             w == Keyed(x)
             y == [Send(w, "SUCCESS", Code("OK")) EXCEPT !.st = "i_end"]
  <1>1. InitiatorPhase3(k) = InitiatorPhase4(x)
    BY DEF InitiatorPhase3
  <1>2. Keeps(k, x, Partial)
    BY DEF Smooth, Keeps, Fields, Partial
  <1> HIDE DEF x
  <1>3. x.rekeying = FALSE /\ x.aborted = FALSE /\ DOMAIN x = Fields
    BY <1>2, PartialFields
  <1>4. InitiatorPhase4(x) = IF x.status # "OK" THEN InitiatorError(x)
                             ELSE IF forged THEN InitiatorError(z) ELSE y
    BY <1>3 DEF InitiatorPhase4
  <1>5. /\ Keeps(x, z, {"status"}) /\ z.status = "INCORRECT_SIGNATURE"
        /\ Keeps(x, w, {"keymat", "rekey"})
    BY <1>3, KeyedFields DEF Keeps, Fields
  <1> HIDE DEF z, w, forged
  <1>6. Keeps(k, z, Partial) /\ Keeps(k, w, Partial)
    BY <1>2, <1>5 DEF Keeps, Partial
  <1>7. Tells(k, InitiatorError(z)) /\ (x.status # "OK" => Tells(k, InitiatorError(x)))
    BY <1>2, <1>5, <1>6, ErrorTells
  <1>8. Speaks(k, y, "SUCCESS", "i_end")
    BY <1>6, SendSpeaks
  <1> HIDE DEF y
  <1> QED
    BY <1>1, <1>4, <1>7, <1>8 DEF Replied

LEMMA ResponderPhase1Replies ==
    ASSUME ~cfg.udp, NEW k, Smooth(k), k.pkt.t = "KEY_EXCHANGE"
    PROVE  Replied(k, ResponderPhase1(k), "KEY_EXCHANGE", "r_phase2")
  <1> DEFINE b == k.pkt.body
             prop == [flags |-> Forced(b.flags), alg |-> [c \in ClassNames |-> SelectOf(c)]]
             got == [k EXCEPT !.pkt = None]
             v == [got EXCEPT !.start = b, !.status = SelectStatus]
             x == [got EXCEPT !.start = b, !.prop = prop]
             y == [Send(x, "KEY_EXCHANGE", prop) EXCEPT !.st = "r_phase2"]
  <1>1. ResponderPhase1(k) = IF SelectStatus # "OK" THEN ResponderError(v) ELSE y
    BY DEF ResponderPhase1
  <1> HIDE DEF prop
  <1>2. Keeps(k, v, Partial) /\ v.status = SelectStatus /\ Keeps(k, x, Partial)
    BY DEF Smooth, Keeps, Fields, Partial
  <1> HIDE DEF got, v, x, b
  <1>3. SelectStatus # "OK" => Tells(k, ResponderError(v))
    BY <1>2, ErrorTells
  <1>4. Speaks(k, y, "KEY_EXCHANGE", "r_phase2")
    BY <1>2, SendSpeaks
  <1> HIDE DEF y
  <1> QED
    BY <1>1, <1>3, <1>4 DEF Replied

LEMMA ResponderPhase2Replies ==
    ASSUME ~cfg.udp, NoneIsNoRecord, cfg.signs["r"], NEW k, Smooth(k), k.pkt.t = "KEY_EXCHANGE_1"
    PROVE  Replied(k, ResponderPhase2(k), "KEY_EXCHANGE_2", "r_end")
  <1> DEFINE x == [k EXCEPT !.pkt = None, !.ke1 = k.pkt.body,
                            !.status = IF k.rekeying \/ cfg.accepts["r"] THEN @
                                       ELSE "UNSUPPORTED_PUBLIC_KEY"]
             X == <<"r", x.round>>
             s == x.ke1.sign
             forged == ~x.rekeying /\ "MUTUAL" \in x.prop.flags
                         /\ (s = None \/ s # [by |-> "i", of |-> HashI(x)])
             z == [x EXCEPT !.status = "INCORRECT_SIGNATURE"]
             w == [x EXCEPT !.ke2 = [x |-> X, sign |-> None], !.KEY = {x.ke1.x, X}]
             sign == Sign("r", Hash(w))
             ke == [x |-> w.ke2.x, sign |-> IF w.rekeying THEN None ELSE sign]
             u == [w EXCEPT !.ke2 = ke]
             y == [Send(u, "KEY_EXCHANGE_2", ke) EXCEPT !.st = "r_end"]
  <1>1. ResponderPhase2(k) = ResponderPhase4(x)
    BY DEF ResponderPhase2
  <1>2. Keeps(k, x, Partial)
    BY DEF Smooth, Keeps, Fields, Partial
  <1> HIDE DEF x
  <1>3. x.rekeying = FALSE /\ x.aborted = FALSE /\ DOMAIN x = Fields
    BY <1>2, PartialFields
  <1>4. ResponderPhase4(x) = IF x.status # "OK" THEN InitiatorError(x)
                             ELSE IF forged THEN ResponderError(z) ELSE ResponderPhase5(w)
    BY <1>3 DEF ResponderPhase4
  <1>5. /\ Keeps(x, z, {"status"}) /\ z.status = "INCORRECT_SIGNATURE"
        /\ Keeps(x, w, {"ke2", "KEY"})
    BY <1>3 DEF Keeps, Fields
  <1> HIDE DEF z, w, forged
  <1>6. Keeps(k, z, Partial) /\ Keeps(k, w, Partial)
    BY <1>2, <1>5 DEF Keeps, Partial
  <1>7. w.rekeying = FALSE /\ DOMAIN w = Fields
    BY <1>6, PartialFields
  <1>8. sign # None
    BY DEF Sign, NoneIsNoRecord
  <1>9. ResponderPhase5(w) = y
    BY <1>7, <1>8 DEF ResponderPhase5
  <1> HIDE DEF ke
  <1>10. Keeps(w, u, {"ke2"})
    BY <1>7 DEF Keeps, Fields
  <1> HIDE DEF u
  <1>11. Keeps(k, u, Partial)
    BY <1>6, <1>10 DEF Keeps, Partial
  <1>12. Tells(k, ResponderError(z)) /\ (x.status # "OK" => Tells(k, InitiatorError(x)))
    BY <1>2, <1>5, <1>6, ErrorTells
  <1>13. Speaks(k, y, "KEY_EXCHANGE_2", "r_end")
    BY <1>11, SendSpeaks
  <1> HIDE DEF y
  <1> QED
    BY <1>1, <1>4, <1>9, <1>12, <1>13 DEF Replied

\* It completes the exchange.
Concludes(k, l) ==
    /\ DOMAIN l = Fields /\ l.me = k.me /\ l.rekeying = FALSE /\ l.aborted = FALSE
    /\ ~l.link /\ l.done = "ok"

LEMMA FinishConcludes ==
    ASSUME NEW k, Smooth(k), NEW x, Keeps(k, x, Partial \cup {"out"}), x.status = "OK"
    PROVE  Concludes(k, Finish(x)) /\ Finish(x).out = x.out
  <1>1. /\ DOMAIN x = Fields /\ x.me = k.me /\ x.rekeying = FALSE /\ x.aborted = FALSE
    BY DEF Smooth, Keeps, Fields, Partial
  <1> DEFINE l == Finish(x)
  <1>2. /\ Keeps(x, l, {"link", "timer", "retry", "st", "runs", "fin", "done",
                        "refcnt", "held", "send", "recv", "hist"})
        /\ ~l.link /\ l.done = "ok"
    BY <1>1, FinishFields
  <1> HIDE DEF l
  <1>3. Concludes(k, l) /\ l.out = x.out
    BY <1>1, <1>2 DEF Concludes, Keeps, Fields
  <1> QED
    BY <1>3 DEF l

LEMMA EndConcludes ==
    ASSUME ~cfg.udp, NEW k, Smooth(k), k.pkt.t = "SUCCESS"
    PROVE  /\ Concludes(k, InitiatorEnd(k)) /\ InitiatorEnd(k).out = <<>>
           /\ Concludes(k, ResponderEnd(k))
           /\ \E p : ResponderEnd(k).out = <<p>> /\ p.t = "SUCCESS" /\ p.key = k.send
  <1> DEFINE x == [k EXCEPT !.pkt = None]
             w == Keyed(x)
             y == Send(w, "SUCCESS", Code("OK"))
             p == Packet(w, "SUCCESS", Code("OK"))
  <1>1. InitiatorEnd(k) = Finish(x) /\ ResponderEnd(k) = Finish(y)
    BY DEF InitiatorEnd, ResponderEnd
  <1>2. Keeps(k, x, {"pkt"})
    BY DEF Smooth, Keeps, Fields
  <1> HIDE DEF x
  <1>3. DOMAIN x = Fields /\ x.out = <<>> /\ x.send = k.send /\ x.status = "OK"
    BY <1>2 DEF Smooth, Keeps, Fields
  <1>4. Keeps(k, x, Partial \cup {"out"})
    BY <1>2 DEF Keeps, Partial
  <1>5. Concludes(k, Finish(x)) /\ Finish(x).out = <<>>
    BY <1>3, <1>4, FinishConcludes
  <1>6. Keeps(x, w, {"keymat", "rekey"})
    BY <1>3, KeyedFields
  <1> HIDE DEF w
  <1>7. DOMAIN w = Fields /\ w.out = <<>> /\ w.send = k.send /\ w.status = "OK"
    BY <1>3, <1>6 DEF Keeps, Fields
  <1>8. Keeps(w, y, {"out"}) /\ y.out = Append(w.out, p)
    BY <1>7, SendPacket
  <1>9. p.t = "SUCCESS" /\ p.key = k.send
    BY <1>7 DEF Packet
  <1> HIDE DEF y, p
  <1>10. y.out = <<p>>
    BY <1>7, <1>8, OnePacket
  <1>11. Keeps(k, y, Partial \cup {"out"}) /\ y.status = "OK"
    BY <1>2, <1>6, <1>7, <1>8 DEF Keeps, Partial, Fields
  <1>12. Concludes(k, Finish(y)) /\ Finish(y).out = <<p>>
    BY <1>10, <1>11, FinishConcludes
  <1> QED
    BY <1>1, <1>5, <1>9, <1>12

\* The other end's failure is the end of it.
LEMMA FailureFails ==
    ASSUME NEW k, DOMAIN k = Fields, k.rekeying = FALSE, k.aborted = FALSE, k.out = <<>>,
           k.pkt # None => (k.pkt.t # "SUCCESS" /\ (k.pkt.t = "FAILURE" => k.pkt.body.status # "OK"))
    PROVE  LET l == Failure(k) IN
           /\ DOMAIN l = Fields /\ l.me = k.me /\ l.rekeying = FALSE /\ l.aborted = FALSE
           /\ ~l.link /\ l.done = "failed" /\ l.send = k.send /\ l.recv = k.recv /\ l.out = <<>>
  <1> DEFINE p == k.pkt
             four == IF p = None THEN FALSE ELSE p.t \in {"FAILURE", "SUCCESS"}
             s == IF four THEN p.body.status ELSE "ERROR"
             x == [k EXCEPT !.status = s, !.pkt = IF four THEN None ELSE p]
             l == Finish(x)
  <1>1. Failure(k) = l
    BY DEF Failure
  <1>2. s # "OK"
    OBVIOUS
  <1>3. Keeps(k, x, {"status", "pkt"}) /\ x.status = s
    BY DEF Keeps, Fields
  <1> HIDE DEF four, s, x
  <1>4. /\ DOMAIN x = Fields /\ x.aborted = FALSE /\ x.rekeying = FALSE /\ x.me = k.me
        /\ x.out = <<>> /\ x.send = k.send /\ x.recv = k.recv /\ x.status # "OK"
    BY <1>2, <1>3 DEF Keeps, Fields
  <1>5. /\ DOMAIN l = Fields /\ l.me = x.me /\ l.rekeying = FALSE /\ l.aborted = FALSE
        /\ ~l.link /\ l.st = "none" /\ l.done = "failed" /\ l.send = x.send /\ l.recv = x.recv
        /\ l.out = x.out
    BY <1>4, FinishFails
  <1> HIDE DEF l
  <1> QED
    BY <1>1, <1>4, <1>5

\* The packet that answers t, and the state of the end that sends it.
Reply(s) ==
    CASE s = "i_start" -> "KEY_EXCHANGE" [] s = "r_phase1" -> "KEY_EXCHANGE"
      [] s = "i_phase1" -> "KEY_EXCHANGE_1" [] s = "r_phase2" -> "KEY_EXCHANGE_2"
      [] s = "i_phase3" -> "SUCCESS"
After(s) ==
    CASE s = "i_start" -> "i_phase1" [] s = "r_phase1" -> "r_phase2"
      [] s = "i_phase1" -> "i_phase3" [] s = "r_phase2" -> "r_end"
      [] s = "i_phase3" -> "i_end"

LEMMA RunReplies ==
    ASSUME ~cfg.udp, NoneIsNoRecord, cfg.signs["r"], NEW k, Smooth(k), NEW o, NEW t, Meets(k.st, t, o),
           k.pkt # None, k.pkt.t = t, k.st \notin {"r_start", "r_end"}
    PROVE  Replied(k, Run(k), Reply(k.st), After(k.st))
  <1>1. CASE k.st = "r_phase1"
    <2>1. Run(k) = ResponderPhase1(k) /\ k.pkt.t = "KEY_EXCHANGE"
      BY <1>1 DEF Run, Reads, Meets
    <2> QED
      BY <1>1, <2>1, ResponderPhase1Replies DEF Reply, After
  <1>2. CASE k.st = "i_phase1"
    <2>1. Run(k) = InitiatorPhase1(k) /\ k.pkt.t = "KEY_EXCHANGE"
      BY <1>2 DEF Run, Reads, Meets
    <2> QED
      BY <1>2, <2>1, InitiatorPhase1Replies DEF Reply, After
  <1>3. CASE k.st = "r_phase2"
    <2>1. Run(k) = ResponderPhase2(k) /\ k.pkt.t = "KEY_EXCHANGE_1"
      BY <1>3 DEF Run, Reads, Meets
    <2> QED
      BY <1>3, <2>1, ResponderPhase2Replies DEF Reply, After
  <1>4. CASE k.st = "i_phase3"
    <2>1. Run(k) = InitiatorPhase3(k) /\ k.pkt.t = "KEY_EXCHANGE_2"
      BY <1>4 DEF Run, Reads, Meets
    <2> QED
      BY <1>4, <2>1, InitiatorPhase3Replies DEF Reply, After
  <1> QED
    BY <1>1, <1>2, <1>3, <1>4 DEF Meets

-----------------------------------------------------------------------------
(***************************************************************************)
(* The queues, as their first packet is taken and others are added.        *)
(***************************************************************************)

\* r is q without its first packet.
LEMMA FirstTaken ==
    ASSUME NEW q, Packets(q), q # <<>>
    PROVE  LET r == RemoveAt(q, 1) IN
           /\ 1 \in DOMAIN q /\ DOMAIN q = 1..Len(q) /\ Len(q) \in Nat
           /\ DOMAIN r = 1..(Len(q) - 1) /\ IsSeq(r)
           /\ \A n \in DOMAIN r : n + 1 \in DOMAIN q /\ r[n] = q[n + 1]
  <1> DEFINE r == RemoveAt(q, 1)
  <1>1. Len(q) \in Nat /\ DOMAIN q = 1..Len(q)
    BY SeqDomain DEF Packets
  <1>2. Len(q) # 0
    BY EmptySeq DEF Packets, IsSeq
  <1>3. 1 \in DOMAIN q
    BY <1>1, <1>2
  <1>4. IsSeq(r) /\ DOMAIN r = 1..(Len(q) - 1) /\ \A n \in DOMAIN r : r[n] = q[IF n < 1 THEN n ELSE n + 1]
    BY <1>3, RemoveSeq DEF Packets
  <1> HIDE DEF r
  <1>5. \A n \in DOMAIN r : n + 1 \in DOMAIN q /\ r[n] = q[n + 1]
    BY <1>1, <1>4
  <1> QED
    BY <1>1, <1>3, <1>4, <1>5 DEF r

LEMMA SoleTaken ==
    ASSUME NEW q, Packets(q), NEW t, Sole(q, t)
    PROVE  q # <<>> /\ RemoveAt(q, 1) = <<>> /\ q[1].t = t /\ q[1].key = None
  <1>1. q # <<>> /\ Len(q) = 1 /\ q[1].t = t /\ q[1].key = None
    BY NoPackets DEF Sole
  <1> DEFINE r == RemoveAt(q, 1)
  <1>2. IsSeq(r) /\ DOMAIN r = 1..(Len(q) - 1)
    BY <1>1, FirstTaken
  <1> HIDE DEF r
  <1>3. Len(r) \in Nat /\ DOMAIN r = 1..Len(r)
    BY <1>2, SeqDomain
  <1>4. DOMAIN r = {}
    BY <1>1, <1>2
  <1>5. Len(r) = 0
    BY <1>3, <1>4
  <1>6. r = <<>>
    BY <1>2, <1>5, EmptySeq DEF IsSeq
  <1> QED
    BY <1>1, <1>6 DEF r

LEMMA CleanTaken ==
    ASSUME NEW q, Packets(q), q # <<>>, NEW k, Clean(k, q)
    PROVE  q[1].t = "DATA" /\ q[1].key = k.recv /\ Clean(k, RemoveAt(q, 1))
  BY FirstTaken DEF Clean

LEMMA BearsTaken ==
    ASSUME NEW q, Packets(q), q # <<>>, NEW k, NEW j, NEW c, NEW t, Bears(k, j, q, c, t)
    PROVE  LET r == RemoveAt(q, 1) IN
           /\ q[1].key = k.recv
           /\ \/ /\ c = 1 /\ q[1].t = t
                 /\ \A n \in DOMAIN r : r[n].t = "DATA" /\ r[n].key = j.send
              \/ /\ q[1].t = "DATA" /\ Bears(k, j, r, c - 1, t) /\ r[c - 1] = q[c]
                 /\ c - 1 \in DOMAIN r
  <1> DEFINE r == RemoveAt(q, 1)
  <1>1. /\ 1 \in DOMAIN q /\ DOMAIN q = 1..Len(q) /\ Len(q) \in Nat
        /\ DOMAIN r = 1..(Len(q) - 1)
        /\ \A n \in DOMAIN r : n + 1 \in DOMAIN q /\ r[n] = q[n + 1]
    BY FirstTaken
  <1> HIDE DEF r
  <1>2. c \in 1..Len(q)
    BY <1>1 DEF Bears
  <1>3. CASE c = 1
    <2>1. \A n \in DOMAIN r : n + 1 \in DOMAIN q /\ n + 1 > c /\ r[n] = q[n + 1]
      BY <1>1, <1>3
    <2>2. \A n \in DOMAIN r : r[n].t = "DATA" /\ r[n].key = j.send
      BY <2>1 DEF Bears
    <2>3. q[1].t = t /\ q[1].key = k.recv
      BY <1>3 DEF Bears
    <2> QED
      BY <1>3, <2>2, <2>3 DEF r
  <1>4. CASE c # 1
    <2>1. c - 1 \in DOMAIN r /\ r[c - 1] = q[c] /\ 1 < c
      BY <1>1, <1>2, <1>4
    <2>2. q[1].t = "DATA" /\ q[1].key = k.recv
      BY <1>1, <2>1 DEF Bears
    <2>3. \A n \in DOMAIN r : /\ n + 1 \in DOMAIN q /\ r[n] = q[n + 1]
                              /\ n < c - 1 => n + 1 < c
                              /\ n > c - 1 => n + 1 > c
      BY <1>1, <1>2
    <2>4. Bears(k, j, r, c - 1, t)
      BY <2>1, <2>3 DEF Bears
    <2> QED
      BY <2>1, <2>2, <2>4 DEF r
  <1> QED
    BY <1>3, <1>4

LEMMA BearsTwoTaken ==
    ASSUME NEW q, Packets(q), q # <<>>, NEW k, NEW j, NEW b, NEW t, NEW c, NEW u,
           BearsTwo(k, j, q, b, t, c, u)
    PROVE  LET r == RemoveAt(q, 1) IN
           /\ q[1].key = k.recv /\ c - 1 \in DOMAIN r /\ r[c - 1] = q[c]
           /\ \/ b = 1 /\ q[1].t = t /\ Bears(k, j, r, c - 1, u)
              \/ /\ q[1].t = "DATA" /\ BearsTwo(k, j, r, b - 1, t, c - 1, u)
                 /\ b - 1 \in DOMAIN r /\ r[b - 1] = q[b]
  <1> DEFINE r == RemoveAt(q, 1)
  <1>1. /\ 1 \in DOMAIN q /\ DOMAIN q = 1..Len(q) /\ Len(q) \in Nat
        /\ DOMAIN r = 1..(Len(q) - 1)
        /\ \A n \in DOMAIN r : n + 1 \in DOMAIN q /\ r[n] = q[n + 1]
    BY FirstTaken
  <1> HIDE DEF r
  <1>2. b \in 1..Len(q) /\ c \in 1..Len(q) /\ b < c
    BY <1>1 DEF BearsTwo
  <1>3. c - 1 \in DOMAIN r /\ r[c - 1] = q[c]
    BY <1>1, <1>2
  <1>4. CASE b = 1
    <2>1. \A n \in DOMAIN r : /\ n + 1 \in DOMAIN q /\ r[n] = q[n + 1]
                              /\ n < c - 1 => n + 1 < c /\ n + 1 # b
                              /\ n > c - 1 => n + 1 > c
      BY <1>1, <1>2, <1>4
    <2>2. Bears(k, j, r, c - 1, u)
      BY <1>3, <2>1 DEF Bears, BearsTwo
    <2>3. q[1].t = t /\ q[1].key = k.recv
      BY <1>4 DEF BearsTwo
    <2> QED
      BY <1>3, <1>4, <2>2, <2>3 DEF r
  <1>5. CASE b # 1
    <2>1. b - 1 \in DOMAIN r /\ r[b - 1] = q[b] /\ b - 1 < c - 1 /\ 1 < c /\ 1 # b
      BY <1>1, <1>2, <1>5
    <2>2. q[1].t = "DATA" /\ q[1].key = k.recv
      BY <1>1, <2>1 DEF BearsTwo
    <2>3. \A n \in DOMAIN r : /\ n + 1 \in DOMAIN q /\ r[n] = q[n + 1]
                              /\ n < c - 1 /\ n # b - 1 => n + 1 < c /\ n + 1 # b
                              /\ n > c - 1 => n + 1 > c
      BY <1>1, <1>2
    <2>4. BearsTwo(k, j, r, b - 1, t, c - 1, u)
      BY <1>3, <2>1, <2>3 DEF BearsTwo
    <2> QED
      BY <1>3, <2>1, <2>2, <2>4 DEF r
  <1> QED
    BY <1>4, <1>5

\* r is q with one packet more, or with two.
LEMMA Added ==
    ASSUME NEW q, Packets(q), NEW p
    PROVE  LET r == q \o <<p>> IN
           /\ DOMAIN q = 1..Len(q) /\ Len(q) \in Nat /\ DOMAIN r = 1..(Len(q) + 1)
           /\ r[Len(q) + 1] = p /\ \A n \in DOMAIN q : n \in DOMAIN r /\ r[n] = q[n]
           /\ q = <<>> => r = <<p>>
  <1> DEFINE r == q \o <<p>>
             S == {q[n] : n \in DOMAIN q} \cup {p}
  <1>1. q \in Seq(S) /\ <<p>> \in Seq(S) /\ Len(<<p>>) = 1 /\ <<p>>[1] = p
    <2>1. q \in Seq({q[n] : n \in DOMAIN q})
      BY DEF Packets, IsSeq
    <2> QED
      BY <2>1
  <1> HIDE DEF S
  <1>2. /\ Len(q) \in Nat /\ DOMAIN q = 1..Len(q) /\ DOMAIN r = 1..(Len(q) + 1)
        /\ \A n \in 1..(Len(q) + 1) : r[n] = IF n <= Len(q) THEN q[n] ELSE <<p>>[n - Len(q)]
    BY <1>1
  <1>3. q = <<>> => r = <<p>>
    BY <1>1
  <1> HIDE DEF r
  <1>4. r[Len(q) + 1] = p
    BY <1>1, <1>2
  <1>5. \A n \in DOMAIN q : n \in DOMAIN r /\ r[n] = q[n]
    BY <1>2
  <1> QED
    BY <1>2, <1>3, <1>4, <1>5 DEF r

LEMMA AddedTwo ==
    ASSUME NEW q, Packets(q), NEW p, NEW s
    PROVE  LET r == q \o <<p, s>> IN
           /\ DOMAIN q = 1..Len(q) /\ Len(q) \in Nat /\ DOMAIN r = 1..(Len(q) + 2)
           /\ r[Len(q) + 1] = p /\ r[Len(q) + 2] = s
           /\ \A n \in DOMAIN q : n \in DOMAIN r /\ r[n] = q[n]
  <1> DEFINE r == q \o <<p, s>>
             S == {q[n] : n \in DOMAIN q} \cup {p, s}
  <1>1. q \in Seq(S) /\ <<p, s>> \in Seq(S) /\ Len(<<p, s>>) = 2 /\ <<p, s>>[1] = p /\ <<p, s>>[2] = s
    <2>1. q \in Seq({q[n] : n \in DOMAIN q})
      BY DEF Packets, IsSeq
    <2> QED
      BY <2>1
  <1> HIDE DEF S
  <1>2. /\ Len(q) \in Nat /\ DOMAIN q = 1..Len(q) /\ DOMAIN r = 1..(Len(q) + 2)
        /\ \A n \in 1..(Len(q) + 2) : r[n] = IF n <= Len(q) THEN q[n] ELSE <<p, s>>[n - Len(q)]
    BY <1>1
  <1> HIDE DEF r
  <1>3. r[Len(q) + 1] = p /\ r[Len(q) + 2] = s
    BY <1>1, <1>2
  <1>4. \A n \in DOMAIN q : n \in DOMAIN r /\ r[n] = q[n]
    BY <1>2
  <1> QED
    BY <1>2, <1>3, <1>4 DEF r

LEMMA NothingAdded ==
    ASSUME NEW q, Packets(q)
    PROVE  q \o <<>> = q
  BY DEF Packets, IsSeq

LEMMA DataAdded ==
    ASSUME NEW q, Packets(q), NEW p, p.t = "DATA", NEW k, NEW j
    PROVE  LET r == q \o <<p>> IN
           /\ p.key = k.recv /\ Clean(k, q) => Clean(k, r)
           /\ \A c \in DOMAIN q : c \in DOMAIN r /\ r[c] = q[c]
           /\ p.key = j.send =>
                /\ \A c, t : Bears(k, j, q, c, t) => Bears(k, j, r, c, t)
                /\ \A b, t, c, u : BearsTwo(k, j, q, b, t, c, u) => BearsTwo(k, j, r, b, t, c, u)
  <1> DEFINE r == q \o <<p>>
  <1>1. /\ DOMAIN q = 1..Len(q) /\ Len(q) \in Nat /\ DOMAIN r = 1..(Len(q) + 1)
        /\ r[Len(q) + 1] = p /\ \A n \in DOMAIN q : n \in DOMAIN r /\ r[n] = q[n]
    BY Added
  <1> HIDE DEF r
  <1>2. \A n \in DOMAIN r : n \in DOMAIN q \/ (n = Len(q) + 1 /\ r[n] = p)
    BY <1>1
  <1>3. ASSUME p.key = k.recv, Clean(k, q) PROVE Clean(k, r)
    BY <1>1, <1>2, <1>3 DEF Clean
  <1>4. \A c \in DOMAIN q : ~(Len(q) + 1 < c)
    BY <1>1
  <1>5. ASSUME p.key = j.send, NEW c, NEW t, Bears(k, j, q, c, t) PROVE Bears(k, j, r, c, t)
    BY <1>1, <1>2, <1>4, <1>5 DEF Bears
  <1>6. ASSUME p.key = j.send, NEW b, NEW t, NEW c, NEW u, BearsTwo(k, j, q, b, t, c, u)
        PROVE  BearsTwo(k, j, r, b, t, c, u)
    BY <1>1, <1>2, <1>4, <1>6 DEF BearsTwo
  <1> QED
    BY <1>1, <1>3, <1>5, <1>6 DEF r

\* In q the packet p, or p and s, was the last that j sent under its old key.
Bore(k, j, q, p) == \E c \in DOMAIN q : Bears(k, j, q, c, p.t) /\ q[c] = p
BoreTwo(k, j, q, p, s) ==
    \E b, c \in DOMAIN q : BearsTwo(k, j, q, b, p.t, c, s.t) /\ q[b] = p /\ q[c] = s

LEMMA PacketSent ==
    ASSUME NEW q, Packets(q), NEW k, Clean(k, q), NEW j, NEW p, p.key = k.recv
    PROVE  Bore(k, j, q \o <<p>>, p)
  <1> DEFINE r == q \o <<p>>
             c == Len(q) + 1
  <1>1. /\ DOMAIN q = 1..Len(q) /\ Len(q) \in Nat /\ DOMAIN r = 1..(Len(q) + 1)
        /\ r[c] = p /\ \A n \in DOMAIN q : n \in DOMAIN r /\ r[n] = q[n]
    BY Added
  <1> HIDE DEF r
  <1>2. c \in DOMAIN r /\ \A n \in DOMAIN r : ~(n > c) /\ (n < c => n \in DOMAIN q)
    BY <1>1
  <1>3. Bears(k, j, r, c, p.t)
    BY <1>1, <1>2 DEF Bears, Clean
  <1>4. Bore(k, j, r, p)
    BY <1>1, <1>2, <1>3 DEF Bore
  <1> QED
    BY <1>4 DEF r

LEMMA PacketsSent ==
    ASSUME NEW q, Packets(q), NEW k, Clean(k, q), NEW j, NEW p, p.key = k.recv, NEW s, s.key = k.recv
    PROVE  BoreTwo(k, j, q \o <<p, s>>, p, s)
  <1> DEFINE r == q \o <<p, s>>
             b == Len(q) + 1
             c == Len(q) + 2
  <1>1. /\ DOMAIN q = 1..Len(q) /\ Len(q) \in Nat /\ DOMAIN r = 1..(Len(q) + 2)
        /\ r[b] = p /\ r[c] = s /\ \A n \in DOMAIN q : n \in DOMAIN r /\ r[n] = q[n]
    BY AddedTwo
  <1> HIDE DEF r
  <1>2. /\ b \in DOMAIN r /\ c \in DOMAIN r /\ b < c
        /\ \A n \in DOMAIN r : ~(n > c) /\ (n < c /\ n # b => n \in DOMAIN q)
    BY <1>1
  <1>3. BearsTwo(k, j, r, b, p.t, c, s.t)
    BY <1>1, <1>2 DEF BearsTwo, Clean
  <1>4. BoreTwo(k, j, r, p, s)
    BY <1>1, <1>2, <1>3 DEF BoreTwo
  <1> QED
    BY <1>4 DEF r

-----------------------------------------------------------------------------
(***************************************************************************)
(* The steps of the first exchange.                                        *)
(***************************************************************************)

\* Opening, seen from the end e, which is k.
Opens(e, k, j, qk, qj) == IF e = "i" THEN Opening(k, j, qk, qj) ELSE Opening(j, k, qj, qk)

LEMMA OpensEither ==
    ASSUME NEW e \in Ends, NEW k, NEW j, NEW qk, NEW qj
    PROVE  /\ Turn(k, j, qk, qj) \/ Turn(j, k, qj, qk) => Opens(e, k, j, qk, qj)
           /\ Ending(k, j, qk, qj) \/ Ending(j, k, qj, qk) => Opens(e, k, j, qk, qj)
           /\ Fails(k, j, qk, qj) \/ Completes(k, j, qk, qj) => Opens(e, k, j, qk, qj)
  BY DEF Opens, Opening, Fails, Completes

\* What is known of the ends of a first exchange that goes on undisturbed.
Open == RunInv /\ TrustInv /\ ~cfg.udp /\ ~end["i"].rekeying /\ CalmState

LEMMA OpenEnds ==
    ASSUME Open, NEW e \in Ends
    PROVE  /\ Opens(e, end[e], end[Peer(e)], net[e], net[Peer(e)])
           /\ First(end[e]) /\ ~end[e].aborted /\ end[e].rekeying = FALSE /\ end[e].me = e
           /\ Formed(end[e]) /\ Living(end[e]) /\ Waking(end[e]) /\ DOMAIN end[e] = Fields
           /\ end[e].out = <<>> /\ end[e].aborted = FALSE /\ Packets(net[e]) /\ Peer(e) \in Ends
           /\ end[e].link => end[e].status = "OK"
  <1>1. /\ Formed(end[e]) /\ Living(end[e]) /\ Waking(end[e]) /\ DOMAIN end[e] = Fields
        /\ end[e].out = <<>> /\ end[e].me = e /\ Peer(e) \in Ends
    BY Locals DEF Open
  <1>2. ~end[e].rekeying /\ Packets(net[e])
    BY DEF Open, RunInv, Rekeys, Shapes, Ends
  <1>3. First(end[e])
    BY <1>2 DEF Open, TrustInv
  <1>4. ~end[e].aborted /\ Opens(e, end[e], end[Peer(e)], net[e], net[Peer(e)])
    BY Peers DEF Open, CalmState, Opens, Ends
  <1> QED
    BY <1>1, <1>2, <1>3, <1>4 DEF Formed, First, Firm

LEMMA CalmPut ==
    ASSUME RunInv, NEW e \in Ends, NEW l, DOMAIN l = Fields, NEW rest, Cuts(e, rest), Put(e, l, rest)
    PROVE  /\ end'[e] = Clear(l) /\ end'[Peer(e)] = end[Peer(e)]
           /\ net'[e] = rest[e] /\ net'[Peer(e)] = net[Peer(e)] \o l.out
           /\ Keeps(l, Clear(l), {"out"})
  <1>1. /\ end' = [end EXCEPT ![e] = Clear(l)] /\ net' = [rest EXCEPT ![Peer(e)] = @ \o l.out]
        /\ DOMAIN end = Ends /\ DOMAIN net = Ends
    BY DEF Put, Clear, RunInv, Shapes
  <1>2. Keeps(l, Clear(l), {"out"})
    BY ClearFields
  <1> HIDE DEF Clear
  <1>3. Peer(e) \in Ends /\ Peer(e) # e
    BY Peers DEF Ends
  <1> QED
    BY <1>1, <1>2, <1>3 DEF Cuts

\* A step of e that leaves the first exchange going.
LEMMA OpenStep ==
    ASSUME Open, NEW e \in Ends, NEW l, DOMAIN l = Fields, l.rekeying = FALSE, l.aborted = FALSE,
           NEW rest, Cuts(e, rest), Put(e, l, rest),
           \A k : Keeps(l, k, {"out"}) =>
                Opens(e, k, end[Peer(e)], rest[e], net[Peer(e)] \o l.out)
    PROVE  CalmState'
  <1>1. /\ end'[e] = Clear(l) /\ end'[Peer(e)] = end[Peer(e)]
        /\ net'[e] = rest[e] /\ net'[Peer(e)] = net[Peer(e)] \o l.out
        /\ Keeps(l, Clear(l), {"out"})
    BY CalmPut DEF Open
  <1>2. Clear(l).rekeying = FALSE /\ Clear(l).aborted = FALSE
    BY <1>1 DEF Keeps, Fields
  <1>3. Opens(e, end'[e], end'[Peer(e)], net'[e], net'[Peer(e)])
    BY <1>1
  <1>4. end[Peer(e)].rekeying = FALSE /\ ~end[Peer(e)].aborted
    <2>1. Peer(e) \in Ends
      BY Peers DEF Ends
    <2> QED
      BY <2>1, OpenEnds
  <1>5. CASE e = "i"
    BY <1>1, <1>2, <1>3, <1>4, <1>5, Peers DEF CalmState, Opens, Ends
  <1>6. CASE e = "r"
    BY <1>1, <1>2, <1>3, <1>4, <1>6, Peers DEF CalmState, Opens, Ends
  <1> QED
    BY <1>5, <1>6 DEF Ends

\* An end whose answer is under way, or that has failed and said so.
LEMMA RepliedOpens ==
    ASSUME NEW e \in Ends, NEW x, x.send = None, x.recv = None, x.link, x.done = "no", x.runs = 0,
           NEW l, NEW t \in Turns, NEW st, Replied(x, l, t, st), st \notin {"r_start", "failure"},
           NEW j, Fresh(j), Rests(j), Meets(j.st, t, st), NEW k, Keeps(l, k, {"out"})
    PROVE  Opens(e, k, j, <<>>, <<>> \o l.out)
  <1>1. PICK p : l.out = <<p>> /\ p.key = None /\ p.t = IF l.link THEN t ELSE "FAILURE"
    BY DEF Replied, Tells, Speaks
  <1>2. <<>> \o l.out = <<p>> /\ Len(<<p>>) = 1 /\ <<p>>[1] = p
    BY <1>1, NoOut, Added
  <1>3. Sole(<<>> \o l.out, p.t)
    BY <1>1, <1>2 DEF Sole
  <1>4. /\ k.link = l.link /\ k.rekeying = l.rekeying /\ k.done = l.done /\ k.send = l.send
        /\ k.recv = l.recv /\ k.runs = l.runs /\ k.st = l.st
    BY <1>1 DEF Replied, Tells, Speaks, Keeps, Fields
  <1>5. CASE Tells(x, l)
    <2>1. Failed(k) /\ p.t = "FAILURE"
      BY <1>1, <1>4, <1>5 DEF Tells, Failed
    <2>2. Ending(j, k, <<>> \o l.out, <<>>)
      BY <1>3, <2>1 DEF Ending
    <2> QED
      BY <2>2, OpensEither
  <1>6. CASE Speaks(x, l, t, st)
    <2>1. Fresh(k) /\ Rests(k) /\ p.t = t /\ k.st = st
      BY <1>1, <1>4, <1>6 DEF Speaks, Fresh, Rests, One
    <2>2. Turn(j, k, <<>> \o l.out, <<>>)
      BY <1>3, <2>1 DEF Turn
    <2> QED
      BY <2>2, OpensEither
  <1> QED
    BY <1>5, <1>6 DEF Replied

\* Which end a run may be scheduled for.
LEMMA RunCases ==
    ASSUME NEW e \in Ends, NEW k, NEW j, NEW qk, NEW qj, Opens(e, k, j, qk, qj),
           k.runs > 0, ~k.link => k.runs = 0
    PROVE  \/ /\ k.st = "r_start" /\ Fresh(k)
              /\ (e = "r" /\ Before(j, k, qj, qk)) \/ Turn(k, j, qk, qj) \/ Ending(k, j, qk, qj)
           \/ e = "i" /\ Before(k, j, qk, qj)
           \/ /\ Fresh(k) /\ Fresh(j) /\ Rests(j) /\ qk = <<>> /\ qj = <<>>
              /\ k.st \notin {"r_start", "r_end"}
              /\ \E t \in Turns : Meets(k.st, t, j.st) /\ Holds(k, t)
           \/ Ending(k, j, qk, qj) /\ k.st = "failure"
  <1>1. k.link /\ k.runs # 0
    OBVIOUS
  <1>2. ASSUME Rests(k) PROVE k.st = "r_start"
    BY <1>1, <1>2 DEF Rests, One
  <1>3. CASE Turn(k, j, qk, qj)
    <2>1. PICK t \in Turns : /\ Meets(k.st, t, j.st)
                             /\ \/ Rests(k) /\ Sole(qk, t)
                                \/ Holds(k, t) /\ qk = <<>> /\ t # "SUCCESS"
      BY <1>3 DEF Turn
    <2>2. Fresh(k) /\ Fresh(j) /\ Rests(j) /\ qj = <<>>
      BY <1>3 DEF Turn
    <2>3. CASE k.st = "r_start"
      BY <1>3, <2>2, <2>3
    <2>4. CASE k.st # "r_start"
      <3>1. Holds(k, t) /\ qk = <<>> /\ t # "SUCCESS"
        BY <1>2, <2>1, <2>4
      <3>2. k.st # "r_end"
        BY <2>1, <3>1 DEF Meets
      <3> QED
        BY <2>1, <2>2, <2>4, <3>1, <3>2
    <2> QED
      BY <2>3, <2>4
  <1>4. ~Turn(j, k, qj, qk)
    BY <1>2 DEF Turn, Meets
  <1>5. CASE Ending(k, j, qk, qj)
    BY <1>2, <1>5 DEF Ending
  <1>6. ~Ending(j, k, qj, qk) /\ ~Fails(k, j, qk, qj) /\ ~Fails(j, k, qj, qk)
    BY <1>1 DEF Ending, Fails, Failed
  <1>7. /\ ~Completes(k, j, qk, qj) /\ ~Completes(j, k, qj, qk)
        /\ ~Confirming(k, j, qk, qj) /\ ~Confirming(j, k, qj, qk)
    BY <1>1, <1>2 DEF Completes, Confirming, Succeeded
  <1>8. CASE e = "i" /\ Before(k, j, qk, qj)
    BY <1>8
  <1>9. CASE e = "r" /\ Before(j, k, qj, qk)
    BY <1>2, <1>9 DEF Before
  <1> QED
    BY <1>3, <1>4, <1>5, <1>6, <1>7, <1>8, <1>9 DEF Opens, Opening, Ends

\* The responder starts.
LEMMA StartOpens ==
    ASSUME NEW e \in Ends, NEW k, NEW j, NEW qk, NEW qj, k.st = "r_start", Fresh(k), k.runs \in Nat, k.runs > 0,
           (e = "r" /\ Before(j, k, qj, qk)) \/ Turn(k, j, qk, qj) \/ Ending(k, j, qk, qj),
           NEW l, l.link, ~l.rekeying, l.done = k.done, l.send = k.send, l.recv = k.recv, l.pkt = k.pkt,
           l.st = "r_phase1", l.runs = k.runs - 1
    PROVE  Opens(e, l, j, qk, qj)
  <1>1. Fresh(l)
    BY DEF Fresh
  <1>2. (Rests(k) => Rests(l)) /\ \A t : Holds(k, t) => Holds(l, t)
    BY DEF Rests, Holds, One
  <1>3. \A t, o : Meets("r_start", t, o) => Meets("r_phase1", t, o)
    BY DEF Meets
  <1>4. CASE e = "r" /\ Before(j, k, qj, qk)
    <2>1. Before(j, l, qj, qk)
      BY <1>1, <1>2, <1>4 DEF Before
    <2> QED
      BY <1>4, <2>1 DEF Opens, Opening
  <1>5. CASE Turn(k, j, qk, qj)
    <2>1. PICK t \in Turns : /\ Meets(k.st, t, j.st)
                             /\ \/ Rests(k) /\ Sole(qk, t)
                                \/ Holds(k, t) /\ qk = <<>> /\ t # "SUCCESS"
      BY <1>5 DEF Turn
    <2>2. Meets(l.st, t, j.st)
      BY <1>3, <2>1
    <2>3. Turn(l, j, qk, qj)
      BY <1>1, <1>2, <1>5, <2>1, <2>2 DEF Turn
    <2> QED
      BY <2>3, OpensEither
  <1>6. CASE Ending(k, j, qk, qj)
    <2>1. Ending(l, j, qk, qj)
      BY <1>1, <1>2, <1>6 DEF Ending
    <2> QED
      BY <2>1, OpensEither
  <1> QED
    BY <1>4, <1>5, <1>6

LEMMA OpenRuns ==
    ASSUME NoneIsNoRecord, Signing, Open, NEW e \in Ends, FsmRun(e)
    PROVE  CalmState'
  <1> DEFINE k == end[e]
             j == end[Peer(e)]
             qk == net[e]
             qj == net[Peer(e)]
             x == [k EXCEPT !.runs = @ - 1]
             l == Run(x)
  <1>1. k.runs > 0 /\ Put(e, l, net)
    BY DEF FsmRun
  <1>2. Keeps(k, x, {"runs"}) /\ x.runs = k.runs - 1 /\ Runnable(x) /\ x.link
    BY <1>1, FsmRunnable DEF Open
  <1>3. /\ Opens(e, k, j, qk, qj) /\ First(k) /\ k.rekeying = FALSE /\ k.aborted = FALSE
        /\ Formed(k) /\ Living(k) /\ DOMAIN k = Fields /\ k.out = <<>>
        /\ k.link => k.status = "OK"
    BY OpenEnds
  <1>4. Packets(qk) /\ Packets(qj) /\ Cuts(e, net) /\ cfg.signs["r"] /\ ~cfg.udp
    <2>1. Peer(e) \in Ends
      BY Peers DEF Ends
    <2> QED
      BY <2>1, OpenEnds, CutsNet DEF Open, RunInv, Shapes, Signing
  <1> HIDE DEF x
  <1>5. /\ DOMAIN x = Fields /\ x.me = k.me /\ x.st = k.st /\ x.link = k.link /\ x.rekeying = FALSE
        /\ x.aborted = FALSE /\ x.done = k.done /\ x.send = k.send /\ x.recv = k.recv /\ x.pkt = k.pkt
        /\ x.out = <<>> /\ x.status = k.status
    BY <1>2, <1>3 DEF Keeps, Fields
  <1>6. Smooth(x) /\ k.link
    BY <1>2, <1>3, <1>5 DEF Smooth
  <1>7. k.runs \in Nat /\ (~k.link => k.runs = 0)
    BY <1>3 DEF Formed, Living
  <1>8. \A l1, j1 : Packets(qj) /\ l1.out = <<>> => qj \o l1.out = qj
    BY NothingAdded
  <1> HIDE DEF k, j, qk, qj
  <1>9. CASE /\ k.st = "r_start" /\ Fresh(k)
             /\ (e = "r" /\ Before(j, k, qj, qk)) \/ Turn(k, j, qk, qj) \/ Ending(k, j, qk, qj)
    <2>1. l = [x EXCEPT !.timer = TRUE, !.st = "r_phase1"]
      BY <1>5, <1>9 DEF Run, Reads, ResponderStart
    <2>2. Keeps(x, l, {"timer", "st"}) /\ l.st = "r_phase1"
      BY <1>5, <2>1 DEF Keeps, Fields
    <2> HIDE DEF l
    <2>3. /\ DOMAIN l = Fields /\ l.rekeying = FALSE /\ l.aborted = FALSE /\ l.out = <<>> /\ l.link = x.link
          /\ l.done = k.done /\ l.send = k.send /\ l.recv = k.recv /\ l.pkt = k.pkt /\ l.runs = k.runs - 1
      BY <1>2, <1>5, <2>2 DEF Keeps, Fields
    <2>4. ASSUME NEW y, Keeps(l, y, {"out"}) PROVE Opens(e, y, j, qk, qj \o l.out)
      <3>1. /\ y.rekeying = FALSE /\ y.link = l.link /\ y.st = "r_phase1"
            /\ y.done = k.done /\ y.send = k.send /\ y.recv = k.recv /\ y.pkt = k.pkt /\ y.runs = k.runs - 1
        BY <2>2, <2>3, <2>4 DEF Keeps, Fields
      <3>2. Opens(e, y, j, qk, qj)
        BY <1>1, <1>2, <1>7, <1>9, <2>3, <3>1, StartOpens
      <3> QED
        BY <1>4, <1>8, <2>3, <3>2
    <2> QED
      BY <1>1, <1>4, <2>3, <2>4, OpenStep DEF j, qk, qj, l
  <1>10. CASE e = "i" /\ Before(k, j, qk, qj)
    <2>1. l = InitiatorStart(x)
      BY <1>5, <1>10 DEF Before, Run, Reads
    <2>2. Replied(x, l, "KEY_EXCHANGE", "i_phase1")
      BY <1>4, <1>6, <2>1, InitiatorStartReplies
    <2>3. /\ Fresh(j) /\ Rests(j) /\ Meets(j.st, "KEY_EXCHANGE", "i_phase1") /\ qk = <<>> /\ qj = <<>>
          /\ x.send = None /\ x.recv = None /\ x.done = "no" /\ x.runs = 0
      BY <1>2, <1>5, <1>10 DEF Before, Meets, Fresh
    <2> HIDE DEF l
    <2>4. DOMAIN l = Fields /\ l.rekeying = FALSE /\ l.aborted = FALSE
      BY <2>2 DEF Replied, Tells, Speaks
    <2>5. ASSUME NEW y, Keeps(l, y, {"out"}) PROVE Opens(e, y, j, qk, qj \o l.out)
      BY <1>2, <2>2, <2>3, <2>5, RepliedOpens DEF Turns
    <2> QED
      BY <1>1, <1>4, <2>4, <2>5, OpenStep DEF j, qk, qj, l
  <1>11. CASE /\ Fresh(k) /\ Fresh(j) /\ Rests(j) /\ qk = <<>> /\ qj = <<>>
              /\ k.st \notin {"r_start", "r_end"}
              /\ \E t \in Turns : Meets(k.st, t, j.st) /\ Holds(k, t)
    <2>1. PICK t \in Turns : Meets(k.st, t, j.st) /\ Holds(k, t)
      BY <1>11
    <2>2. Replied(x, l, Reply(k.st), After(k.st))
      BY <1>4, <1>5, <1>6, <1>11, <2>1, RunReplies DEF Holds
    <2>3. /\ x.send = None /\ x.recv = None /\ x.done = "no" /\ x.runs = 0
          /\ Meets(j.st, Reply(k.st), After(k.st)) /\ Reply(k.st) \in Turns
          /\ After(k.st) \notin {"r_start", "failure"}
      <3>1. x.send = None /\ x.recv = None /\ x.done = "no"
        BY <1>5, <1>11 DEF Fresh
      <3>2. x.runs = 0
        BY <1>2, <1>11, <2>1 DEF Holds, One
      <3>3. /\ Meets(j.st, Reply(k.st), After(k.st)) /\ Reply(k.st) \in Turns
            /\ After(k.st) \notin {"r_start", "failure"}
        BY <1>11, <2>1 DEF Meets, Reply, After, Turns
      <3> QED
        BY <3>1, <3>2, <3>3
    <2> HIDE DEF l
    <2>4. DOMAIN l = Fields /\ l.rekeying = FALSE /\ l.aborted = FALSE
      BY <2>2 DEF Replied, Tells, Speaks
    <2>5. ASSUME NEW y, Keeps(l, y, {"out"}) PROVE Opens(e, y, j, qk, qj \o l.out)
      BY <1>2, <1>11, <2>2, <2>3, <2>5, RepliedOpens
    <2> QED
      BY <1>1, <1>4, <2>4, <2>5, OpenStep DEF j, qk, qj, l
  <1>12. CASE Ending(k, j, qk, qj) /\ k.st = "failure"
    <2>1. l = Failure(x)
      BY <1>5, <1>12 DEF Run, Reads
    <2>2. x.pkt # None => (x.pkt.t # "SUCCESS" /\ (x.pkt.t = "FAILURE" => x.pkt.body.status # "OK"))
      BY <1>3, <1>5, <1>6, <1>12 DEF First, Waits, Genuine
    <2>3. /\ DOMAIN l = Fields /\ l.rekeying = FALSE /\ l.aborted = FALSE
          /\ ~l.link /\ l.done = "failed" /\ l.send = x.send /\ l.recv = x.recv /\ l.out = <<>>
      BY <1>5, <2>1, <2>2, FailureFails
    <2> HIDE DEF l
    <2>4. /\ Failed(j) /\ qk = <<>> /\ qj = <<>> /\ k.send = None /\ k.recv = None
      BY <1>12 DEF Ending, Fresh
    <2>5. ASSUME NEW y, Keeps(l, y, {"out"}) PROVE Opens(e, y, j, qk, qj \o l.out)
      <3>1. Failed(y)
        BY <1>5, <2>3, <2>4, <2>5 DEF Failed, Keeps, Fields
      <3>2. Fails(y, j, qk, qj)
        BY <2>4, <3>1 DEF Fails
      <3> QED
        BY <1>4, <1>8, <2>3, <3>2, OpensEither
    <2> QED
      BY <1>1, <1>4, <2>3, <2>5, OpenStep DEF j, qk, qj, l
  <1> QED
    BY <1>1, <1>3, <1>7, <1>9, <1>10, <1>11, <1>12, RunCases DEF k, j, qk, qj

\* What a packet may find.
LEMMA DeliverCases ==
    ASSUME NEW e \in Ends, NEW k, NEW j, NEW qk, NEW qj, Opens(e, k, j, qk, qj), qk # <<>>
    PROVE  \/ /\ Fresh(k) /\ Fresh(j) /\ Rests(k) /\ Rests(j) /\ qj = <<>>
              /\ \E t \in Turns : Meets(k.st, t, j.st) /\ Sole(qk, t)
           \/ Fresh(k) /\ Rests(k) /\ Failed(j) /\ Sole(qk, "FAILURE") /\ qj = <<>>
           \/ e = "i" /\ Confirming(k, j, qk, qj)
           \/ Completes(k, j, qk, qj)
  <1>1. Completes(j, k, qj, qk) => Completes(k, j, qk, qj)
    BY DEF Completes
  <1>2. /\ ~Before(k, j, qk, qj) /\ ~Before(j, k, qj, qk) /\ ~Turn(j, k, qj, qk)
        /\ ~Ending(j, k, qj, qk) /\ ~Fails(k, j, qk, qj) /\ ~Fails(j, k, qj, qk)
        /\ ~Confirming(j, k, qj, qk)
    BY DEF Before, Turn, Ending, Fails, Confirming
  <1>3. CASE Turn(k, j, qk, qj)
    BY <1>3 DEF Turn
  <1>4. CASE Ending(k, j, qk, qj)
    BY <1>4 DEF Ending
  <1> QED
    BY <1>1, <1>2, <1>3, <1>4 DEF Opens, Opening, Ends

\* The packet of an undisturbed first exchange as the end k takes it.
Got(k, p) == [k EXCEPT !.count = 0, !.retry = FALSE, !.pkt = p]
Awaits(k, t) ==
    t \in {"SUCCESS", "FAILURE", "KEY_EXCHANGE"} \/ t = IF k.me = "r" THEN "KEY_EXCHANGE_1" ELSE "KEY_EXCHANGE_2"

\* l is k with the packet p.
Receives(k, p, l) ==
    /\ Keeps(k, Got(k, p), {"count", "retry", "pkt"}) /\ Got(k, p).pkt = p
    /\ p.t = "SUCCESS" => l = Run(Got(k, p))
    /\ p.t # "SUCCESS" =>
        /\ Keeps(k, l, {"count", "retry", "pkt", "runs", "st", "notified"})
        /\ l.pkt = p /\ l.runs = k.runs + 1
        /\ l.st = IF p.t = "FAILURE" THEN "failure" ELSE k.st

LEMMA TakesPacket ==
    ASSUME NEW k, DOMAIN k = Fields, k.link, k.rekeying = FALSE, k.aborted = FALSE, k.notified = FALSE, NEW p, Awaits(k, p.t)
    PROVE  Receives(k, p, Dispatch(k, p))
  <1> DEFINE got == Got(k, p)
             told == [got EXCEPT !.notified = TRUE, !.st = "failure"]
             u == [got EXCEPT !.runs = @ + 1]
             v == [told EXCEPT !.runs = @ + 1]
  <1>1. p.t \in Linked(k)
    BY DEF Linked, Awaits
  <1>2. Dispatch(k, p) = PacketReceive(k, p)
    BY <1>1 DEF Dispatch
  <1>3. Keeps(k, got, {"count", "retry", "pkt"}) /\ got.pkt = p /\ got.notified = FALSE
    BY DEF Keeps, Fields, Got
  <1>4. PacketReceive(k, p) = IF p.t = "SUCCESS" THEN Run(got) ELSE IF p.t = "FAILURE" THEN v ELSE u
    BY <1>3 DEF PacketReceive, NotifyFailure, Got
  <1> HIDE DEF got
  <1>5. Keeps(got, told, {"notified", "st"}) /\ told.st = "failure"
    BY <1>3 DEF Keeps, Fields
  <1> HIDE DEF told
  <1>6. /\ Keeps(got, u, {"runs"}) /\ u.runs = got.runs + 1
        /\ Keeps(told, v, {"runs"}) /\ v.runs = told.runs + 1
    BY <1>3, <1>5 DEF Keeps, Fields
  <1> HIDE DEF u, v
  <1>7. /\ Keeps(k, u, {"count", "retry", "pkt", "runs", "st", "notified"})
        /\ u.pkt = p /\ u.runs = k.runs + 1 /\ u.st = k.st
    BY <1>3, <1>6 DEF Keeps, Fields
  <1>8. /\ Keeps(k, v, {"count", "retry", "pkt", "runs", "st", "notified"})
        /\ v.pkt = p /\ v.runs = k.runs + 1 /\ v.st = "failure"
    BY <1>3, <1>5, <1>6 DEF Keeps, Fields
  <1> QED
    BY <1>2, <1>3, <1>4, <1>7, <1>8 DEF got, Receives

\* The keys that complete the first exchange fit.
LEMMA FirstKeys ==
    ASSUME NEW k, First(k), k.done = "ok"
    PROVE  /\ k.send = Key(<<FirstKey>>, k.me) /\ k.recv = Key(<<FirstKey>>, Peer(k.me))
           /\ k.rekey = Renewal(k) /\ k.hist # <<>>
  BY DEF First, Firm, Material

\* The fields that Opening and Renewing are about.
Seen(k, y) ==
    /\ y.me = k.me /\ y.link = k.link /\ y.rekeying = k.rekeying /\ y.st = k.st /\ y.done = k.done
    /\ y.send = k.send /\ y.recv = k.recv /\ y.runs = k.runs /\ y.pkt = k.pkt
    /\ y.rekey = k.rekey /\ y.keymat = k.keymat /\ y.ke1 = k.ke1

LEMMA KeepsSeen ==
    ASSUME NEW k, NEW y, Keeps(k, y, {"out", "data", "fin", "held", "refcnt"})
    PROVE  Seen(k, y)
  BY DEF Keeps, Fields, Seen

LEMMA OpensSeen ==
    ASSUME NEW e, NEW k, NEW y, Seen(k, y), NEW j, NEW qk, NEW qj, Opens(e, k, j, qk, qj)
    PROVE  Opens(e, y, j, qk, qj)
  <1>2. (Fresh(k) => Fresh(y)) /\ (Failed(k) => Failed(y)) /\ (Succeeded(k) => Succeeded(y))
    BY DEF Seen, Fresh, Failed, Succeeded
  <1>3. (Rests(k) => Rests(y)) /\ (\A t : Holds(k, t) => Holds(y, t)) /\ y.st = k.st /\ y.runs = k.runs
    BY DEF Seen, Rests, Holds
  <1>4. \A q : /\ Clean(k, q) => Clean(y, q)
               /\ \A c, t : /\ Bears(k, j, q, c, t) => Bears(y, j, q, c, t)
                            /\ Bears(j, k, q, c, t) => Bears(j, y, q, c, t)
    BY DEF Seen, Clean, Bears
  <1>5. /\ Before(k, j, qk, qj) => Before(y, j, qk, qj)
        /\ Before(j, k, qj, qk) => Before(j, y, qj, qk)
    BY <1>2, <1>3 DEF Before
  <1>6. /\ Turn(k, j, qk, qj) => Turn(y, j, qk, qj)
        /\ Turn(j, k, qj, qk) => Turn(j, y, qj, qk)
    BY <1>2, <1>3 DEF Turn
  <1>7. /\ Ending(k, j, qk, qj) => Ending(y, j, qk, qj)
        /\ Ending(j, k, qj, qk) => Ending(j, y, qj, qk)
    BY <1>2, <1>3 DEF Ending, Seen
  <1>8. /\ Confirming(k, j, qk, qj) => Confirming(y, j, qk, qj)
        /\ Confirming(j, k, qj, qk) => Confirming(j, y, qj, qk)
    BY <1>2, <1>3, <1>4 DEF Confirming
  <1>9. /\ Completes(k, j, qk, qj) => Completes(y, j, qk, qj)
        /\ Completes(j, k, qj, qk) => Completes(j, y, qj, qk)
        /\ Fails(k, j, qk, qj) => Fails(y, j, qk, qj)
        /\ Fails(j, k, qj, qk) => Fails(j, y, qj, qk)
    BY <1>2, <1>4 DEF Completes, Fails
  <1> QED
    BY <1>5, <1>6, <1>7, <1>8, <1>9 DEF Opens, Opening

LEMMA FirstKeysAfter ==
    ASSUME TrustInv', NEW e \in Ends, end'[e].rekeying = FALSE, end'[e].done = "ok"
    PROVE  end'[e].recv = Key(<<FirstKey>>, Peer(end'[e].me))
  <1>1. First(end[e])'
    BY DEF TrustInv
  <1> QED
    BY <1>1 DEF First, Firm, Material

LEMMA OpenDelivers ==
    ASSUME NoneIsNoRecord, Open, TrustInv', NEW e \in Ends, NEW n \in DOMAIN net[e], Deliver(e, n)
    PROVE  CalmState'
  <1> DEFINE k == end[e]
             j == end[Peer(e)]
             qk == net[e]
             qj == net[Peer(e)]
             p == qk[1]
             r == RemoveAt(qk, 1)
             rest == [net EXCEPT ![e] = RemoveAt(@, 1)]
             got == Got(k, p)
             l == Dispatch(k, p)
  <1>1. n = 1 /\ Put(e, IF p.key = k.recv THEN l ELSE k, rest) /\ 1 \in DOMAIN qk
    BY DEF Deliver, Open
  <1>2. /\ Opens(e, k, j, qk, qj) /\ First(k) /\ k.rekeying = FALSE /\ k.aborted = FALSE
        /\ Formed(k) /\ Living(k) /\ Waking(k) /\ DOMAIN k = Fields /\ k.out = <<>> /\ k.me = e
        /\ k.link => k.status = "OK"
    BY OpenEnds
  <1>3. /\ Packets(qk) /\ Packets(qj) /\ Cuts(e, rest) /\ ~cfg.udp /\ Peer(e) \in Ends
        /\ rest[e] = r /\ p # None /\ First(j) /\ j.me = Peer(e) /\ j.rekeying = FALSE
    <2>1. Peer(e) \in Ends
      BY Peers DEF Ends
    <2>2. Packets(qk) /\ Packets(qj) /\ First(j) /\ j.me = Peer(e) /\ j.rekeying = FALSE
      BY <2>1, OpenEnds
    <2>3. Cuts(e, rest) /\ p # None /\ DOMAIN net = Ends /\ ~cfg.udp
      BY <1>1, CutsRemove DEF Open, RunInv, Shapes
    <2> QED
      BY <2>1, <2>2, <2>3
  <1>4. qk # <<>>
    BY <1>1, NoPackets
  <1>5. k.link => k.notified = FALSE \/ k.st = "failure"
    BY <1>2 DEF Living, Formed
  <1>6. p.t = "DATA" => l = k
    BY DEF Dispatch, Linked
  <1>7. \A y : Packets(qj) => qj \o <<>> = qj
    BY NothingAdded
  <1>8. /\ k.st \in InitiatorStates => e = "i"
        /\ k.st \in ResponderStates => e = "r"
    BY <1>2 DEF First, Firm
  <1>9. Put(e, l, rest) /\ DOMAIN l = Fields /\ p.key = k.recv =>
            /\ end'[e] = Clear(l) /\ end'[Peer(e)] = j /\ Keeps(l, Clear(l), {"out"})
    BY <1>3, CalmPut DEF Open
  <1> HIDE DEF k, j, qk, qj, rest, r, p
  <1>10. CASE /\ Fresh(k) /\ Fresh(j) /\ Rests(k) /\ Rests(j) /\ qj = <<>>
              /\ \E t \in Turns : Meets(k.st, t, j.st) /\ Sole(qk, t)
    <2>1. PICK t \in Turns : Meets(k.st, t, j.st) /\ Sole(qk, t)
      BY <1>10
    <2>2. /\ r = <<>> /\ p.t = t /\ p.key = None /\ k.recv = None /\ k.send = None /\ k.link
          /\ k.notified = FALSE /\ k.done = "no" /\ k.status = "OK"
      BY <1>2, <1>3, <1>5, <1>10, <2>1, SoleTaken DEF Fresh, p, r
    <2>3. Awaits(k, p.t)
      BY <1>2, <1>8, <2>1, <2>2 DEF Awaits, Meets, InitiatorStates, ResponderStates, Ends
    <2>4. /\ Keeps(k, got, {"count", "retry", "pkt"}) /\ got.pkt = p
          /\ t = "SUCCESS" => l = Run(got)
          /\ t # "SUCCESS" =>
                /\ Keeps(k, l, {"count", "retry", "pkt", "runs", "st", "notified"})
                /\ l.pkt = p /\ l.runs = k.runs + 1
                /\ l.st = IF t = "FAILURE" THEN "failure" ELSE k.st
      <3>1. Receives(k, p, l)
        BY <1>2, <2>2, <2>3, TakesPacket
      <3> HIDE DEF l
      <3> QED
        BY <2>2, <3>1 DEF Receives
    <2>5. Put(e, l, rest)
      BY <1>1, <2>2
    <2>6. CASE t # "SUCCESS"
      <3> HIDE DEF l, got
      <3>1. /\ DOMAIN l = Fields /\ l.rekeying = FALSE /\ l.aborted = FALSE /\ l.out = <<>>
            /\ l.link = k.link /\ l.done = k.done /\ l.send = k.send /\ l.recv = k.recv
            /\ l.st = k.st /\ l.pkt = p /\ l.runs = k.runs + 1
        <4>1. t # "FAILURE"
          BY DEF Turns
        <4> QED
          BY <1>2, <2>4, <2>6, <4>1 DEF Keeps, Fields
      <3>2. ASSUME NEW y, Keeps(l, y, {"out"}) PROVE Opens(e, y, j, rest[e], qj \o l.out)
        <4>1. /\ y.rekeying = FALSE
              /\ y.link = k.link /\ y.done = k.done /\ y.send = k.send /\ y.recv = k.recv
              /\ y.st = k.st /\ y.pkt = p /\ y.runs = k.runs + 1
          BY <3>1, <3>2 DEF Keeps, Fields
        <4>2. Fresh(y)
          BY <1>10, <4>1 DEF Fresh
        <4>3. Holds(y, t)
          BY <1>3, <1>10, <2>2, <4>1 DEF Rests, Holds
        <4>4. Turn(y, j, r, qj)
          BY <1>10, <2>1, <2>2, <2>6, <4>1, <4>2, <4>3 DEF Turn
        <4> QED
          BY <1>3, <1>7, <3>1, <4>4, OpensEither
      <3> QED
        BY <1>3, <2>5, <3>1, <3>2, OpenStep DEF j, qj
    <2>7. CASE t = "SUCCESS"
      <3>1. k.st = "r_end" /\ j.st = "i_end" /\ e = "r"
        BY <1>8, <2>1, <2>7 DEF Meets, ResponderStates
      <3>2. l = Run(got)
        BY <2>4, <2>7
      <3> HIDE DEF l, got
      <3>3. Smooth(got) /\ got.st = "r_end" /\ got.send = None
        BY <1>2, <2>2, <2>4, <3>1 DEF Smooth, Keeps, Fields
      <3>4. l = ResponderEnd(got)
        BY <1>3, <2>4, <3>2, <3>3 DEF Run, Reads
      <3>5. /\ Concludes(got, l)
            /\ \E m : l.out = <<m>> /\ m.t = "SUCCESS" /\ m.key = None
        BY <1>3, <2>2, <2>4, <2>7, <3>3, <3>4, EndConcludes
      <3>6. PICK m : l.out = <<m>> /\ m.t = "SUCCESS" /\ m.key = None
        BY <3>5
      <3>7. DOMAIN l = Fields /\ l.rekeying = FALSE /\ l.aborted = FALSE /\ ~l.link /\ l.done = "ok"
        BY <3>5 DEF Concludes
      <3>8. ASSUME NEW y, Keeps(l, y, {"out"}) PROVE Opens(e, y, j, rest[e], qj \o l.out)
        <4>1. Succeeded(y)
          BY <3>7, <3>8 DEF Succeeded, Keeps, Fields
        <4>2. qj \o l.out = <<m>> /\ DOMAIN <<m>> = {1} /\ <<m>>[1] = m
          BY <1>10, <3>6, NoOut, Added, OnePacket
        <4>3. Bears(j, y, qj \o l.out, 1, "SUCCESS") /\ 1 \in DOMAIN (qj \o l.out)
          BY <1>10, <3>6, <4>2 DEF Bears, Fresh
        <4>4. Confirming(j, y, qj \o l.out, r)
          BY <1>10, <2>2, <3>1, <4>1, <4>3 DEF Confirming
        <4> QED
          BY <1>3, <3>1, <4>4 DEF Opens, Opening
      <3> QED
        BY <1>3, <2>5, <3>7, <3>8, OpenStep DEF j, qj
    <2> QED
      BY <2>6, <2>7
  <1>11. CASE Fresh(k) /\ Rests(k) /\ Failed(j) /\ Sole(qk, "FAILURE") /\ qj = <<>>
    <2>1. /\ r = <<>> /\ p.t = "FAILURE" /\ p.key = None /\ k.recv = None /\ k.send = None /\ k.link
          /\ k.notified = FALSE /\ k.done = "no" /\ k.runs \in Nat
      BY <1>2, <1>3, <1>5, <1>11, SoleTaken DEF Fresh, p, r, Formed
    <2>2. /\ Keeps(k, l, {"count", "retry", "pkt", "runs", "st", "notified"})
          /\ l.runs = k.runs + 1 /\ l.st = "failure"
      <3>1. Receives(k, p, l)
        BY <1>2, <2>1, TakesPacket DEF Awaits
      <3> HIDE DEF l
      <3> QED
        BY <2>1, <3>1 DEF Receives
    <2>3. Put(e, l, rest)
      BY <1>1, <2>1
    <2> HIDE DEF l
    <2>4. /\ DOMAIN l = Fields /\ l.rekeying = FALSE /\ l.aborted = FALSE /\ l.out = <<>>
          /\ l.link = k.link /\ l.done = k.done /\ l.send = k.send /\ l.recv = k.recv
      BY <1>2, <2>2 DEF Keeps, Fields
    <2>5. ASSUME NEW y, Keeps(l, y, {"out"}) PROVE Opens(e, y, j, rest[e], qj \o l.out)
      <3>1. /\ y.rekeying = FALSE /\ y.link = k.link /\ y.done = k.done /\ y.send = k.send /\ y.recv = k.recv
            /\ y.st = "failure" /\ y.runs = k.runs + 1
        BY <2>2, <2>4, <2>5 DEF Keeps, Fields
      <3>2. Ending(y, j, r, qj)
        BY <1>11, <2>1, <3>1 DEF Ending
      <3> QED
        BY <1>3, <1>7, <2>4, <3>2, OpensEither
    <2> QED
      BY <1>3, <2>3, <2>4, <2>5, OpenStep DEF j, qj
  <1>12. ASSUME p.t = "DATA", Opens(e, k, j, r, qj) PROVE CalmState'
    <2>1. Put(e, k, rest)
      BY <1>1, <1>6, <1>12
    <2>2. ASSUME NEW y, Keeps(k, y, {"out"}) PROVE Opens(e, y, j, rest[e], qj \o k.out)
      <3>1. Keeps(k, y, {"out", "data", "fin", "held", "refcnt"})
        BY <2>2 DEF Keeps
      <3>2. Opens(e, y, j, r, qj)
        BY <1>12, <3>1, KeepsSeen, OpensSeen
      <3> QED
        BY <1>2, <1>3, <1>7, <3>2
    <2> QED
      BY <1>2, <1>3, <2>1, <2>2, OpenStep DEF j, qj
  <1>13. CASE e = "i" /\ Confirming(k, j, qk, qj)
    <2>1. PICK c \in DOMAIN qk : Bears(k, j, qk, c, "SUCCESS")
      BY <1>13 DEF Confirming
    <2>2. /\ Fresh(k) /\ k.st = "i_end" /\ Rests(k) /\ Succeeded(j) /\ qj = <<>>
      BY <1>13 DEF Confirming
    <2>3. /\ p.key = k.recv
          /\ \/ /\ c = 1 /\ p.t = "SUCCESS"
                /\ \A m \in DOMAIN r : r[m].t = "DATA" /\ r[m].key = j.send
             \/ p.t = "DATA" /\ Bears(k, j, r, c - 1, "SUCCESS") /\ c - 1 \in DOMAIN r
      BY <1>3, <1>4, <2>1, BearsTaken DEF p, r
    <2>4. CASE p.t = "DATA" /\ Bears(k, j, r, c - 1, "SUCCESS") /\ c - 1 \in DOMAIN r
      <3>1. Confirming(k, j, r, qj)
        BY <2>2, <2>4 DEF Confirming
      <3> QED
        BY <1>12, <1>13, <2>4, <3>1 DEF Opens, Opening
    <2>5. CASE p.t = "SUCCESS" /\ \A m \in DOMAIN r : r[m].t = "DATA" /\ r[m].key = j.send
      <3>1. k.link /\ k.notified = FALSE /\ k.status = "OK"
        BY <1>2, <1>5, <2>2 DEF Fresh
      <3>2. Keeps(k, got, {"count", "retry", "pkt"}) /\ got.pkt = p /\ l = Run(got)
        <4>1. Receives(k, p, l)
          BY <1>2, <2>5, <3>1, TakesPacket DEF Awaits
        <4> HIDE DEF l
        <4> QED
          BY <2>5, <4>1 DEF Receives
      <3>3. Put(e, l, rest)
        BY <1>1, <2>3
      <3> HIDE DEF l, got
      <3>4. Smooth(got) /\ got.st = "i_end" /\ got.me = k.me
        BY <1>2, <2>2, <3>1, <3>2 DEF Smooth, Keeps, Fields
      <3>5. l = InitiatorEnd(got)
        BY <1>3, <3>2, <3>4 DEF Run, Reads
      <3>6. Concludes(got, l) /\ l.out = <<>>
        BY <1>3, <2>5, <3>2, <3>4, <3>5, EndConcludes
      <3>7. /\ DOMAIN l = Fields /\ l.rekeying = FALSE /\ l.aborted = FALSE /\ ~l.link /\ l.done = "ok"
            /\ l.me = k.me
        BY <3>4, <3>6 DEF Concludes
      <3>8. end'[e] = Clear(l) /\ Keeps(l, Clear(l), {"out"})
        BY <1>9, <2>3, <3>3, <3>7
      <3>9. l.recv = j.send
        <4>1. /\ Clear(l).rekeying = FALSE /\ Clear(l).done = "ok" /\ Clear(l).me = e
              /\ Clear(l).recv = l.recv
          BY <1>2, <3>7, <3>8 DEF Keeps, Fields
        <4>2. l.recv = Key(<<FirstKey>>, Peer(e))
          BY <3>8, <4>1, FirstKeysAfter
        <4>3. j.send = Key(<<FirstKey>>, Peer(e))
          BY <1>3, <2>2, FirstKeys DEF Succeeded
        <4> QED
          BY <4>2, <4>3
      <3>10. ASSUME NEW y, Keeps(l, y, {"out"}) PROVE Opens(e, y, j, rest[e], qj \o l.out)
        <4>1. Succeeded(y) /\ y.recv = j.send
          BY <3>7, <3>9, <3>10 DEF Succeeded, Keeps, Fields
        <4>2. Clean(y, r) /\ Clean(j, qj)
          BY <2>2, <2>5, <4>1, NoPackets DEF Clean
        <4>3. Completes(y, j, r, qj)
          BY <2>2, <4>1, <4>2 DEF Completes
        <4> QED
          BY <1>3, <1>7, <3>6, <4>3, OpensEither
      <3> QED
        BY <1>3, <3>3, <3>6, <3>7, <3>10, OpenStep DEF j, qj
    <2> QED
      BY <2>3, <2>4, <2>5
  <1>14. CASE Completes(k, j, qk, qj)
    <2>1. p.t = "DATA" /\ Clean(k, r)
      BY <1>3, <1>4, <1>14, CleanTaken DEF Completes, p, r
    <2>2. Completes(k, j, r, qj)
      BY <1>14, <2>1 DEF Completes
    <2> QED
      BY <1>12, <2>1, <2>2, OpensEither
  <1> QED
    BY <1>2, <1>4, <1>10, <1>11, <1>13, <1>14, DeliverCases

\* A step of e that changes nothing of what the exchange is about.
LEMMA OpenEdit ==
    ASSUME Open, NEW e \in Ends, NEW l, Keeps(end[e], l, {"fin", "held", "refcnt"}), Put(e, l, net)
    PROVE  CalmState'
  <1> DEFINE k == end[e]
             j == end[Peer(e)]
             qj == net[Peer(e)]
  <1>1. /\ Opens(e, k, j, net[e], qj) /\ k.rekeying = FALSE /\ k.aborted = FALSE /\ k.out = <<>>
        /\ Peer(e) \in Ends
    BY OpenEnds
  <1>2. Packets(qj) /\ Cuts(e, net)
    BY <1>1, OpenEnds, CutsNet DEF Open
  <1>3. DOMAIN l = Fields /\ l.rekeying = FALSE /\ l.aborted = FALSE /\ l.out = <<>>
    BY <1>1 DEF Keeps, Fields
  <1>4. qj \o l.out = qj
    BY <1>2, <1>3, NothingAdded
  <1>5. ASSUME NEW y, Keeps(l, y, {"out"}) PROVE Opens(e, y, j, net[e], qj \o l.out)
    <2>1. Keeps(k, y, {"out", "data", "fin", "held", "refcnt"})
      BY <1>5 DEF Keeps
    <2> QED
      BY <1>1, <1>4, <2>1, KeepsSeen, OpensSeen
  <1> QED
    BY <1>2, <1>3, <1>5, OpenStep

\* Data is sent under the key the other end receives with, or will when the
\* packet before it has arrived.
LEMMA OpenSendData ==
    ASSUME Open, NEW e \in Ends, SendData(e)
    PROVE  CalmState'
  <1> DEFINE k == end[e]
             j == end[Peer(e)]
             qk == net[e]
             qj == net[Peer(e)]
             p == [t |-> "DATA", key |-> k.send, body |-> None]
             l == [k EXCEPT !.data = @ + 1, !.out = <<p>>]
  <1>1. k.send # None /\ Put(e, l, net)
    BY DEF SendData
  <1>2. /\ Opens(e, k, j, qk, qj) /\ k.rekeying = FALSE /\ k.aborted = FALSE /\ k.out = <<>>
        /\ Peer(e) \in Ends /\ DOMAIN k = Fields /\ First(k) /\ k.me = e
    BY OpenEnds
  <1>3. Packets(qj) /\ Cuts(e, net) /\ First(j) /\ j.me = Peer(e)
    BY <1>2, OpenEnds, CutsNet DEF Open
  <1>4. Keeps(k, l, {"data", "out"}) /\ l.out = <<p>> /\ p.t = "DATA" /\ p.key = k.send
    BY <1>2 DEF Keeps, Fields
  <1> HIDE DEF k, j, qk, qj, p, l
  <1>5. DOMAIN l = Fields /\ l.rekeying = FALSE /\ l.aborted = FALSE
    BY <1>2, <1>4 DEF Keeps, Fields
  <1>6. Peer(Peer(e)) = e
    BY Peers DEF Ends
  <1>7. /\ \A c : Bears(j, k, qj, c, "SUCCESS") => Bears(j, k, qj \o <<p>>, c, "SUCCESS")
        /\ \A c \in DOMAIN qj : c \in DOMAIN (qj \o <<p>>)
        /\ p.key = j.recv /\ Clean(j, qj) => Clean(j, qj \o <<p>>)
    BY <1>3, <1>4, DataAdded
  <1>8. Opens(e, k, j, qk, qj \o <<p>>)
    <2>1. Completes(j, k, qj, qk) => Completes(k, j, qk, qj)
      BY DEF Completes
    <2>2. CASE Completes(k, j, qk, qj)
      <3>1. k.done = "ok" /\ j.done = "ok"
        BY <2>2 DEF Completes, Succeeded
      <3>2. k.send = Key(<<FirstKey>>, e) /\ j.recv = Key(<<FirstKey>>, e)
        BY <1>2, <1>3, <1>6, <3>1, FirstKeys
      <3>3. Completes(k, j, qk, qj \o <<p>>)
        BY <1>4, <1>7, <2>2, <3>2 DEF Completes
      <3> QED
        BY <3>3, OpensEither
    <2>3. CASE e = "r" /\ Confirming(j, k, qj, qk)
      <3>1. Confirming(j, k, qj \o <<p>>, qk)
        BY <1>7, <2>3 DEF Confirming
      <3> QED
        BY <2>3, <3>1 DEF Opens, Opening
    <2>4. /\ ~Before(k, j, qk, qj) /\ ~Before(j, k, qj, qk)
          /\ ~Turn(k, j, qk, qj) /\ ~Turn(j, k, qj, qk)
          /\ ~Ending(k, j, qk, qj) /\ ~Ending(j, k, qj, qk)
          /\ ~Fails(k, j, qk, qj) /\ ~Fails(j, k, qj, qk) /\ ~Confirming(k, j, qk, qj)
      BY <1>1 DEF Before, Turn, Ending, Fails, Confirming, Fresh, Failed
    <2> QED
      BY <1>2, <2>1, <2>2, <2>3, <2>4 DEF Opens, Opening, Ends
  <1>9. ASSUME NEW y, Keeps(l, y, {"out"}) PROVE Opens(e, y, j, qk, qj \o l.out)
    <2>1. Keeps(k, y, {"out", "data", "fin", "held", "refcnt"})
      BY <1>4, <1>9 DEF Keeps
    <2> QED
      BY <1>4, <1>8, <2>1, KeepsSeen, OpensSeen
  <1> QED
    BY <1>1, <1>3, <1>5, <1>9, OpenStep DEF j, qj, qk

\* The first re-key begins when both ends have the same material.
LEMMA OpenDoRekey ==
    ASSUME Open, DoRekey
    PROVE  CalmState'
  <1> DEFINE i == end["i"]
             r == end["r"]
             x == Started(i, "rekey_i_start", TRUE, None)
             l == [x EXCEPT !.runs = 1]
  <1>1. i.done = "ok" /\ Put("i", l, net)
    BY DEF DoRekey
  <1>2. /\ Opening(i, r, net["i"], net["r"]) /\ First(i) /\ First(r) /\ DOMAIN i = Fields /\ i.me = "i"
        /\ i.out = <<>> /\ r.me = "r" /\ Packets(net["r"]) /\ ~r.aborted
    <2>1. Opens("i", i, end[Peer("i")], net["i"], net[Peer("i")])
      BY OpenEnds DEF Ends
    <2>2. /\ First(i) /\ First(r) /\ DOMAIN i = Fields /\ i.me = "i"
          /\ i.out = <<>> /\ r.me = "r" /\ Packets(net["r"]) /\ ~r.aborted
      BY OpenEnds DEF Ends
    <2> QED
      BY <2>1, <2>2, Peers DEF Opens
  <1>3. Cuts("i", net) /\ Heard(i, r)
    BY CutsNet DEF Open, Ends, TrustInv, Talk
  <1>4. Keeps(x, l, {"runs"})
    BY <1>2 DEF Started, Keeps, Fields
  <1>5. /\ x.me = "i" /\ x.link = TRUE /\ x.rekeying = TRUE /\ x.aborted = FALSE /\ x.st = "rekey_i_start"
        /\ x.send = i.send /\ x.recv = i.recv /\ x.rekey = i.rekey /\ x.out = <<>>
    BY <1>2 DEF Started, Fields
  <1> HIDE DEF i, r, x, l
  <1>6. /\ DOMAIN l = Fields /\ l.me = "i" /\ l.link = TRUE /\ l.rekeying = TRUE /\ l.aborted = FALSE
        /\ l.st = "rekey_i_start" /\ l.send = i.send /\ l.recv = i.recv /\ l.rekey = i.rekey /\ l.out = <<>>
    BY <1>4, <1>5 DEF Keeps, Fields
  <1>7. Completes(i, r, net["i"], net["r"])
    BY <1>1, <1>2 DEF Opening, Before, Turn, Ending, Fails, Confirming, Fresh, Failed
  <1>8. /\ i.send = Key(<<FirstKey>>, "i") /\ i.recv = Key(<<FirstKey>>, "r")
        /\ r.send = Key(<<FirstKey>>, "r") /\ r.recv = Key(<<FirstKey>>, "i")
        /\ i.rekey = Renewal(i) /\ r.rekey = Renewal(r) /\ i.hist # <<>>
    BY <1>1, <1>2, <1>7, FirstKeys, Peers DEF Completes, Succeeded
  <1>9. i.prop = r.prop
    BY <1>3, <1>8 DEF Heard
  <1>10. i.rekey = r.rekey /\ i.rekey.pfs \in BOOLEAN /\ i.rekey.of = <<FirstKey>>
    BY <1>8, <1>9 DEF Renewal
  <1>11. /\ end'["i"] = Clear(l) /\ end'["r"] = r /\ net'["i"] = net["i"] /\ net'["r"] = net["r"]
         /\ Keeps(l, Clear(l), {"out"})
    <2>1. /\ end'["i"] = Clear(l) /\ end'["r"] = r /\ net'["i"] = net["i"]
          /\ net'["r"] = net["r"] \o l.out /\ Keeps(l, Clear(l), {"out"})
      BY <1>1, <1>3, <1>6, CalmPut, Peers DEF Open, Ends, r
    <2> QED
      BY <1>2, <1>6, <2>1, NothingAdded
  <1> DEFINE y == end'["i"]
  <1>12. /\ y.me = "i" /\ y.link = TRUE /\ y.rekeying = TRUE /\ y.aborted = FALSE
         /\ y.st = "rekey_i_start" /\ y.send = i.send /\ y.recv = i.recv /\ y.rekey = i.rekey
    BY <1>6, <1>11 DEF Keeps, Fields
  <1> HIDE DEF y
  <1>13. Underway(y, "rekey_i_start")
    BY <1>8, <1>10, <1>12, Peers DEF Underway, Base
  <1>14. Settled(r)
    BY <1>2, <1>7, <1>8, <1>10, Peers DEF Settled, Base, Completes, Succeeded
  <1>15. Clean(y, net["i"]) /\ Clean(r, net["r"])
    BY <1>7, <1>12 DEF Completes, Clean
  <1>16. Renewing(y, r, net["i"], net["r"])
    BY <1>10, <1>12, <1>13, <1>14, <1>15 DEF Renewing, Quiet
  <1> QED
    BY <1>2, <1>11, <1>12, <1>16 DEF CalmState, Ends, y, r

-----------------------------------------------------------------------------
(***************************************************************************)
(* The steps of a re-key.                                                  *)
(***************************************************************************)

\* Renewing, seen from the end e, which is k.
Renewed(e, k, j, qk, qj) == IF e = "i" THEN Renewing(k, j, qk, qj) ELSE Renewing(j, k, qj, qk)

LEMMA SeenParts ==
    ASSUME NEW k, NEW y, Seen(k, y)
    PROVE  /\ Settled(k) => Settled(y)
           /\ \A st : Underway(k, st) => Underway(y, st)
           /\ Switching(k) => Switching(y)
           /\ \A q : Clean(k, q) => Clean(y, q)
           /\ \A j, q, c, t : /\ Bears(k, j, q, c, t) => Bears(y, j, q, c, t)
                              /\ Bears(j, k, q, c, t) => Bears(j, y, q, c, t)
           /\ \A j, q, b, t, c, u : /\ BearsTwo(k, j, q, b, t, c, u) => BearsTwo(y, j, q, b, t, c, u)
                                    /\ BearsTwo(j, k, q, b, t, c, u) => BearsTwo(j, y, q, b, t, c, u)
           /\ y.rekey = k.rekey /\ y.keymat = k.keymat /\ y.ke1 = k.ke1
  <1>1. /\ Settled(k) => Settled(y)
        /\ \A st : Underway(k, st) => Underway(y, st)
        /\ Switching(k) => Switching(y)
    BY DEF Seen, Settled, Underway, Switching, Base
  <1>2. /\ \A q : Clean(k, q) => Clean(y, q)
        /\ \A j, q, c, t : /\ Bears(k, j, q, c, t) => Bears(y, j, q, c, t)
                           /\ Bears(j, k, q, c, t) => Bears(j, y, q, c, t)
    BY DEF Seen, Clean, Bears
  <1>3. \A j, q, b, t, c, u : /\ BearsTwo(k, j, q, b, t, c, u) => BearsTwo(y, j, q, b, t, c, u)
                              /\ BearsTwo(j, k, q, b, t, c, u) => BearsTwo(j, y, q, b, t, c, u)
    BY DEF Seen, BearsTwo
  <1> QED
    BY <1>1, <1>2, <1>3 DEF Seen

LEMMA RenewedSeen ==
    ASSUME NEW e, NEW k, NEW y, Seen(k, y), NEW j, NEW qk, NEW qj, Renewed(e, k, j, qk, qj)
    PROVE  Renewed(e, y, j, qk, qj)
  <1>1. /\ Settled(k) => Settled(y)
        /\ \A st : Underway(k, st) => Underway(y, st)
        /\ Switching(k) => Switching(y)
        /\ \A q : Clean(k, q) => Clean(y, q)
    BY SeenParts
  <1>2. /\ \A q, c, t : /\ Bears(k, j, q, c, t) => Bears(y, j, q, c, t)
                        /\ Bears(j, k, q, c, t) => Bears(j, y, q, c, t)
        /\ \A q, b, t, c, u : /\ BearsTwo(k, j, q, b, t, c, u) => BearsTwo(y, j, q, b, t, c, u)
                              /\ BearsTwo(j, k, q, b, t, c, u) => BearsTwo(j, y, q, b, t, c, u)
        /\ y.rekey = k.rekey /\ y.keymat = k.keymat /\ y.ke1 = k.ke1
    BY SeenParts
  <1>3. /\ Quiet(k, j, qk, qj) => Quiet(y, j, qk, qj)
        /\ Quiet(j, k, qj, qk) => Quiet(j, y, qj, qk)
    BY <1>1 DEF Quiet
  <1>4. /\ Asked(k, j, qk, qj) => Asked(y, j, qk, qj)
        /\ Asked(j, k, qj, qk) => Asked(j, y, qj, qk)
    BY <1>1, <1>2 DEF Asked
  <1>5. /\ AskedKey(k, j, qk, qj) => AskedKey(y, j, qk, qj)
        /\ AskedKey(j, k, qj, qk) => AskedKey(j, y, qj, qk)
    BY <1>1, <1>2 DEF AskedKey
  <1>6. /\ Answered(k, j, qk, qj) => Answered(y, j, qk, qj)
        /\ Answered(j, k, qj, qk) => Answered(j, y, qj, qk)
    BY <1>1, <1>2 DEF Answered
  <1>7. /\ Switches(k, j, qk, qj) => Switches(y, j, qk, qj)
        /\ Switches(j, k, qj, qk) => Switches(j, y, qj, qk)
    BY <1>1, <1>2 DEF Switches
  <1>8. /\ Leads(k, j, qk, qj) => Leads(y, j, qk, qj)
        /\ Leads(j, k, qj, qk) => Leads(j, y, qj, qk)
    BY <1>1, <1>2 DEF Leads
  <1> QED
    BY <1>2, <1>3, <1>4, <1>5, <1>6, <1>7, <1>8 DEF Renewed, Renewing

\* What is known of the ends of a connection that is re-keyed undisturbed.
Ongoing == RunInv /\ RekeyInv /\ end["i"].rekeying /\ CalmState

LEMMA OngoingEnds ==
    ASSUME Ongoing, NEW e \in Ends
    PROVE  /\ Renewed(e, end[e], end[Peer(e)], net[e], net[Peer(e)])
           /\ ~cfg.udp /\ end[e].aborted = FALSE /\ end[e].me = e /\ Peer(e) \in Ends
           /\ Formed(end[e]) /\ Living(end[e]) /\ Waking(end[e]) /\ DOMAIN end[e] = Fields
           /\ end[e].out = <<>> /\ Packets(net[e])
           /\ end[e].link => end[e].rekeying = TRUE /\ end[e].status = "OK" /\ end[e].notified = FALSE
           /\ end["i"].rekeying = TRUE
  <1>1. /\ Formed(end[e]) /\ Living(end[e]) /\ Waking(end[e]) /\ DOMAIN end[e] = Fields
        /\ end[e].out = <<>> /\ end[e].me = e /\ Peer(e) \in Ends /\ Formed(end["i"])
    BY Locals DEF Ongoing, Ends
  <1>2. /\ ~cfg.udp /\ Packets(net[e])
        /\ end[e].link => end[e].rekeying = TRUE /\ end[e].status = "OK" /\ end[e].notified = FALSE
    BY RekeyEnds DEF Ongoing, RunInv, Shapes
  <1>3. ~end[e].aborted /\ Renewed(e, end[e], end[Peer(e)], net[e], net[Peer(e)])
    BY Peers DEF Ongoing, CalmState, Renewed, Ends
  <1> QED
    BY <1>1, <1>2, <1>3 DEF Formed, Ongoing

\* A step of e.
LEMMA RenewStep ==
    ASSUME Ongoing, NEW e \in Ends, NEW l, DOMAIN l = Fields, l.aborted = FALSE,
           e = "i" => l.rekeying = TRUE, NEW rest, Cuts(e, rest), Put(e, l, rest),
           \A k : Keeps(l, k, {"out"}) =>
                Renewed(e, k, end[Peer(e)], rest[e], net[Peer(e)] \o l.out)
    PROVE  CalmState'
  <1>1. /\ end'[e] = Clear(l) /\ end'[Peer(e)] = end[Peer(e)]
        /\ net'[e] = rest[e] /\ net'[Peer(e)] = net[Peer(e)] \o l.out
        /\ Keeps(l, Clear(l), {"out"})
    BY CalmPut DEF Ongoing
  <1>2. Clear(l).rekeying = l.rekeying /\ Clear(l).aborted = FALSE
    BY <1>1 DEF Keeps, Fields
  <1>3. Renewed(e, end'[e], end'[Peer(e)], net'[e], net'[Peer(e)])
    BY <1>1
  <1>4. end["i"].rekeying = TRUE /\ ~end[Peer(e)].aborted
    BY OngoingEnds
  <1>5. CASE e = "i"
    BY <1>1, <1>2, <1>3, <1>4, <1>5, Peers DEF CalmState, Renewed, Ends
  <1>6. CASE e = "r"
    BY <1>1, <1>2, <1>3, <1>4, <1>6, Peers DEF CalmState, Renewed, Ends
  <1> QED
    BY <1>5, <1>6 DEF Ends

LEMMA RenewEdit ==
    ASSUME Ongoing, NEW e \in Ends, NEW l, Keeps(end[e], l, {"fin", "held", "refcnt"}), Put(e, l, net)
    PROVE  CalmState'
  <1> DEFINE k == end[e]
             j == end[Peer(e)]
             qj == net[Peer(e)]
  <1>1. /\ Renewed(e, k, j, net[e], qj) /\ k.aborted = FALSE /\ k.out = <<>>
        /\ Peer(e) \in Ends /\ end["i"].rekeying = TRUE
    BY OngoingEnds
  <1>2. Packets(qj) /\ Cuts(e, net)
    BY <1>1, OngoingEnds, CutsNet DEF Ongoing
  <1>3. DOMAIN l = Fields /\ l.rekeying = k.rekeying /\ l.aborted = FALSE /\ l.out = <<>>
    BY <1>1 DEF Keeps, Fields
  <1>4. qj \o l.out = qj
    BY <1>2, <1>3, NothingAdded
  <1>5. ASSUME NEW y, Keeps(l, y, {"out"}) PROVE Renewed(e, y, j, net[e], qj \o l.out)
    <2>1. Keeps(k, y, {"out", "data", "fin", "held", "refcnt"})
      BY <1>5 DEF Keeps
    <2> QED
      BY <1>1, <1>4, <2>1, KeepsSeen, RenewedSeen
  <1> QED
    BY <1>1, <1>2, <1>3, <1>5, RenewStep

\* Data sent with the key of j is in order.
LEMMA DataSent ==
    ASSUME NEW j, NEW k, NEW q, Packets(q), NEW p, p.t = "DATA", p.key = j.send
    PROVE  LET r == q \o <<p>> IN
           /\ j.send = k.recv /\ Clean(k, q) => Clean(k, r)
           /\ \A c \in DOMAIN q : c \in DOMAIN r /\ r[c] = q[c]
           /\ \A c, t : Bears(k, j, q, c, t) => Bears(k, j, r, c, t)
           /\ \A b, t, c, u : BearsTwo(k, j, q, b, t, c, u) => BearsTwo(k, j, r, b, t, c, u)
  BY DataAdded

LEMMA InitiatorSends ==
    ASSUME NEW i, i.me = "i", NEW r, r.me = "r", NEW qi, NEW qr, Packets(qr), Renewing(i, r, qi, qr),
           NEW p, p.t = "DATA", p.key = i.send
    PROVE  Renewing(i, r, qi, qr \o <<p>>)
  <1> DEFINE s == qr \o <<p>>
  <1>1. /\ i.send = r.recv /\ Clean(r, qr) => Clean(r, s)
        /\ \A c \in DOMAIN qr : c \in DOMAIN s /\ s[c] = qr[c]
        /\ \A c, t : Bears(r, i, qr, c, t) => Bears(r, i, s, c, t)
        /\ \A b, t, c, u : BearsTwo(r, i, qr, b, t, c, u) => BearsTwo(r, i, s, b, t, c, u)
    BY DataSent
  <1> HIDE DEF s
  <1>2. /\ i.rekey = r.rekey /\ (Settled(i) \/ \E st : Underway(i, st)) /\ Base(r) => i.send = r.recv
        /\ Settled(r) /\ Switching(i) /\ r.rekey.of = i.keymat => i.send = r.recv
    BY Peers DEF Settled, Underway, Switching, Base
  <1>3. i.rekey = r.rekey /\ Quiet(i, r, qi, qr) => Quiet(i, r, qi, s)
    BY <1>1, <1>2 DEF Quiet, Settled
  <1>4. Asked(i, r, qi, qr) => Asked(i, r, qi, s)
    BY <1>1 DEF Asked
  <1>5. AskedKey(i, r, qi, qr) => AskedKey(i, r, qi, s)
    BY <1>1 DEF AskedKey
  <1>6. i.rekey = r.rekey /\ Answered(i, r, qi, qr) => Answered(i, r, qi, s)
    BY <1>1, <1>2 DEF Answered, Switching
  <1>7. Switches(i, r, qi, qr) => Switches(i, r, qi, s)
    BY <1>1 DEF Switches
  <1>8. Leads(i, r, qi, qr) => Leads(i, r, qi, s)
    BY <1>1 DEF Leads
  <1>9. Leads(r, i, qr, qi) => Leads(r, i, s, qi)
    BY <1>1, <1>2 DEF Leads
  <1>10. Renewing(i, r, qi, s)
    BY <1>3, <1>4, <1>5, <1>6, <1>7, <1>8, <1>9 DEF Renewing
  <1> QED
    BY <1>10 DEF s

LEMMA ResponderSends ==
    ASSUME NEW i, i.me = "i", NEW r, r.me = "r", NEW qi, NEW qr, Packets(qi), Renewing(i, r, qi, qr),
           NEW p, p.t = "DATA", p.key = r.send
    PROVE  Renewing(i, r, qi \o <<p>>, qr)
  <1> DEFINE s == qi \o <<p>>
  <1>1. /\ r.send = i.recv /\ Clean(i, qi) => Clean(i, s)
        /\ \A c \in DOMAIN qi : c \in DOMAIN s /\ s[c] = qi[c]
        /\ \A c, t : Bears(i, r, qi, c, t) => Bears(i, r, s, c, t)
        /\ \A b, t, c, u : BearsTwo(i, r, qi, b, t, c, u) => BearsTwo(i, r, s, b, t, c, u)
    BY DataSent
  <1> HIDE DEF s
  <1>2. /\ i.rekey = r.rekey /\ (Settled(r) \/ \E st : Underway(r, st)) /\ Base(i) => r.send = i.recv
        /\ Settled(i) /\ Switching(r) /\ i.rekey.of = r.keymat => r.send = i.recv
    BY Peers DEF Settled, Underway, Switching, Base
  <1>3. i.rekey = r.rekey /\ Quiet(i, r, qi, qr) => Quiet(i, r, s, qr)
    BY <1>1, <1>2 DEF Quiet, Settled, Underway
  <1>4. i.rekey = r.rekey /\ Asked(i, r, qi, qr) => Asked(i, r, s, qr)
    BY <1>1, <1>2 DEF Asked, Switching
  <1>5. i.rekey = r.rekey /\ AskedKey(i, r, qi, qr) => AskedKey(i, r, s, qr)
    <2> SUFFICES ASSUME i.rekey = r.rekey, AskedKey(i, r, qi, qr) PROVE Clean(i, s)
      BY DEF AskedKey
    <2>1. Base(i) /\ Clean(i, qi) /\ (Settled(r) \/ Underway(r, "r_phase2"))
      BY DEF AskedKey, Underway
    <2> QED
      BY <1>1, <1>2, <2>1
  <1>6. Answered(i, r, qi, qr) => Answered(i, r, s, qr)
    BY <1>1 DEF Answered
  <1>7. Switches(i, r, qi, qr) => Switches(i, r, s, qr)
    BY <1>1 DEF Switches
  <1>8. Leads(i, r, qi, qr) => Leads(i, r, s, qr)
    BY <1>1, <1>2 DEF Leads
  <1>9. Leads(r, i, qr, qi) => Leads(r, i, qr, s)
    BY <1>1 DEF Leads
  <1>10. Renewing(i, r, s, qr)
    BY <1>3, <1>4, <1>5, <1>6, <1>7, <1>8, <1>9 DEF Renewing
  <1> QED
    BY <1>10 DEF s

LEMMA RenewSendData ==
    ASSUME Ongoing, NEW e \in Ends, SendData(e)
    PROVE  CalmState'
  <1> DEFINE k == end[e]
             j == end[Peer(e)]
             qk == net[e]
             qj == net[Peer(e)]
             p == [t |-> "DATA", key |-> k.send, body |-> None]
             l == [k EXCEPT !.data = @ + 1, !.out = <<p>>]
  <1>1. Put(e, l, net)
    BY DEF SendData
  <1>2. /\ Renewed(e, k, j, qk, qj) /\ k.aborted = FALSE /\ end["i"].rekeying = TRUE
        /\ Peer(e) \in Ends /\ DOMAIN k = Fields /\ k.me = e
    BY OngoingEnds
  <1>3. Packets(qj) /\ Cuts(e, net) /\ j.me = Peer(e)
    BY <1>2, OngoingEnds, CutsNet DEF Ongoing
  <1>4. Keeps(k, l, {"data", "out"}) /\ l.out = <<p>> /\ p.t = "DATA" /\ p.key = k.send
    BY <1>2 DEF Keeps, Fields
  <1> HIDE DEF p, l
  <1>5. DOMAIN l = Fields /\ l.rekeying = k.rekeying /\ l.aborted = FALSE
    BY <1>2, <1>4 DEF Keeps, Fields
  <1>6. e = "i" => l.rekeying = TRUE
    BY <1>2, <1>5
  <1> HIDE DEF k, j, qk, qj
  <1>7. Renewed(e, k, j, qk, qj \o <<p>>)
    <2>1. CASE e = "i"
      BY <1>2, <1>3, <1>4, <2>1, Peers, InitiatorSends DEF Renewed
    <2>2. CASE e = "r"
      BY <1>2, <1>3, <1>4, <2>2, Peers, ResponderSends DEF Renewed
    <2> QED
      BY <2>1, <2>2 DEF Ends
  <1>8. ASSUME NEW y, Keeps(l, y, {"out"}) PROVE Renewed(e, y, j, qk, qj \o l.out)
    <2>1. Keeps(k, y, {"out", "data", "fin", "held", "refcnt"})
      BY <1>4, <1>8 DEF Keeps
    <2> QED
      BY <1>4, <1>7, <2>1, KeepsSeen, RenewedSeen
  <1> QED
    BY <1>1, <1>3, <1>5, <1>6, <1>8, RenewStep DEF j, qj, qk

\* The initiator, at rest, begins.
LEMMA RenewRuns ==
    ASSUME Ongoing, NEW e \in Ends, FsmRun(e)
    PROVE  CalmState'
  <1> DEFINE i == end["i"]
             r == end["r"]
             qi == net["i"]
             qr == net["r"]
             x == [i EXCEPT !.runs = @ - 1]
             l == Run(x)
  <1>1. end[e].runs > 0 /\ Put(e, Run([end[e] EXCEPT !.runs = @ - 1]), net)
    BY DEF FsmRun
  <1>2. /\ Living(end[e]) /\ Waking(end[e]) /\ Formed(end[e]) /\ end[e].me = e
        /\ end[e].link => end[e].rekeying = TRUE
    BY OngoingEnds
  <1>3. end[e].st = "rekey_i_start" /\ e = "i" /\ end[e].link
    BY <1>1, <1>2 DEF Living, Waking, Formed, One
  <1>4. /\ Renewing(i, r, qi, qr) /\ ~cfg.udp /\ i.aborted = FALSE /\ DOMAIN i = Fields /\ i.out = <<>>
        /\ i.rekeying = TRUE /\ i.me = "i" /\ r.me = "r" /\ Packets(qr)
    <2>1. Renewed("i", i, end[Peer("i")], qi, net[Peer("i")])
      BY OngoingEnds DEF Ends
    <2>2. /\ ~cfg.udp /\ i.aborted = FALSE /\ DOMAIN i = Fields /\ i.out = <<>>
          /\ i.rekeying = TRUE /\ i.me = "i" /\ r.me = "r" /\ Packets(qr)
      BY OngoingEnds DEF Ends
    <2> QED
      BY <2>1, <2>2, Peers DEF Renewed
  <1>5. Put("i", l, net) /\ i.st = "rekey_i_start" /\ i.link /\ Cuts("i", net)
    BY <1>1, <1>3, CutsNet DEF Ongoing, Ends
  <1>6. Keeps(i, x, {"runs"})
    BY <1>4 DEF Keeps, Fields
  <1> HIDE DEF i, r, qi, qr, x
  <1>7. i.rekey = r.rekey /\ Underway(i, "rekey_i_start") /\ Settled(r) /\ Clean(i, qi) /\ Clean(r, qr)
    BY <1>4, <1>5 DEF Renewing, Quiet, Asked, AskedKey, Answered, Switches, Leads, Settled, Underway, Switching
  <1>8. /\ DOMAIN x = Fields /\ x.st = "rekey_i_start" /\ x.aborted = FALSE /\ x.out = <<>> /\ x.rekeying = TRUE
        /\ x.me = "i" /\ x.link = i.link /\ x.send = i.send /\ x.recv = i.recv /\ x.rekey = i.rekey
    BY <1>4, <1>5, <1>6 DEF Keeps, Fields
  <1>9. i.rekey.pfs \in BOOLEAN /\ i.send = Key(i.rekey.of, "i") /\ i.recv = Key(i.rekey.of, "r") /\ i.send = r.recv
    BY <1>4, <1>7, Peers DEF Underway, Settled, Base
  <1>10. l = RekeyInitiatorStart(x)
    BY <1>8 DEF Run, Reads
  <1>11. Begins(x, l)
    BY <1>4, <1>8, <1>9, <1>10, BeginsEffect DEF Rekeying
  <1> HIDE DEF l
  <1>12. /\ Keeps(x, l, {"st", "timer", "ke1", "keymat", "send", "out"})
         /\ DOMAIN l = Fields /\ l.aborted = FALSE /\ l.rekeying = TRUE /\ l.me = "i" /\ l.link = i.link
         /\ l.recv = i.recv /\ l.rekey = i.rekey
    BY <1>8, <1>11 DEF Begins, Keeps, Fields
  <1>13. ASSUME NEW y, Keeps(l, y, {"out"}) PROVE Renewing(y, r, qi, qr \o l.out)
    <2>1. /\ y.rekeying = TRUE /\ y.me = "i" /\ y.link = i.link /\ y.recv = i.recv
          /\ y.rekey = i.rekey /\ y.st = l.st /\ y.send = l.send /\ y.keymat = l.keymat /\ y.ke1 = l.ke1
      BY <1>12, <1>13 DEF Keeps, Fields
    <2>2. Base(y) /\ Clean(y, qi)
      BY <1>7, <1>9, <2>1, Peers DEF Base, Clean
    <2>3. CASE i.rekey.pfs
      <3>1. PICK ke : /\ ke.x = <<"i", x.round>>
                      /\ l.out = <<Packet(x, "REKEY", None), Packet(x, "KEY_EXCHANGE_1", ke)>>
        BY <1>8, <1>11, <2>3 DEF Begins
      <3>2. l.st = "i_phase3" /\ l.send = x.send /\ l.ke1.x = <<"i", x.round>>
        BY <1>8, <1>11, <2>3 DEF Begins
      <3> DEFINE p == Packet(x, "REKEY", None)
                 s == Packet(x, "KEY_EXCHANGE_1", ke)
                 q == qr \o <<p, s>>
      <3>3. p.t = "REKEY" /\ p.key = r.recv /\ s.t = "KEY_EXCHANGE_1" /\ s.key = r.recv /\ s.body = ke
        BY <1>8, <1>9 DEF Packet
      <3>4. l.out = <<p, s>>
        BY <3>1
      <3> HIDE DEF p, s
      <3>5. BoreTwo(r, y, q, p, s)
        BY <1>4, <1>7, <3>3, PacketsSent
      <3> HIDE DEF q
      <3>6. PICK b \in DOMAIN q, c \in DOMAIN q : BearsTwo(r, y, q, b, "REKEY", c, "KEY_EXCHANGE_1") /\ q[c] = s
        BY <3>3, <3>5 DEF BoreTwo
      <3>7. q[c].body.x = y.ke1.x
        BY <2>1, <3>1, <3>2, <3>3, <3>6
      <3>8. Underway(y, "i_phase3")
        BY <1>5, <1>8, <1>9, <2>1, <2>2, <3>2 DEF Underway
      <3>9. AskedKey(y, r, qi, q)
        BY <1>7, <2>1, <2>2, <2>3, <3>6, <3>7, <3>8 DEF AskedKey
      <3> QED
        BY <1>7, <2>1, <3>4, <3>9 DEF Renewing, q
    <2>4. CASE ~i.rekey.pfs
      <3> DEFINE p == Packet(x, "REKEY", None)
                 s == Packet(x, "REKEY_DONE", None)
                 q == qr \o <<p, s>>
      <3>1. l.out = <<p, s>> /\ Derives(x, l, Append(x.rekey.of, {}))
        BY <1>8, <1>11, <2>4 DEF Begins
      <3>2. p.t = "REKEY" /\ p.key = r.recv /\ s.t = "REKEY_DONE" /\ s.key = r.recv
        BY <1>8, <1>9 DEF Packet
      <3> HIDE DEF p, s
      <3>3. BoreTwo(r, y, q, p, s)
        BY <1>4, <1>7, <3>2, PacketsSent
      <3> HIDE DEF q
      <3>4. Switching(y) /\ y.keymat = Append(y.rekey.of, {})
        BY <1>5, <1>8, <2>1, <2>2, <3>1 DEF Switching, Derives
      <3>5. Asked(y, r, qi, q)
        BY <1>7, <2>1, <2>2, <2>4, <3>2, <3>3, <3>4 DEF Asked, BoreTwo
      <3> QED
        BY <1>7, <2>1, <3>1, <3>5 DEF Renewing, q
    <2> QED
      BY <2>3, <2>4
  <1>14. ASSUME NEW y, Keeps(l, y, {"out"}) PROVE Renewed("i", y, r, qi, qr \o l.out)
    BY <1>13, <1>14 DEF Renewed
  <1> QED
    BY <1>5, <1>12, <1>14, RenewStep, Peers DEF Ends, r, qi, qr

\* The next re-key begins when both ends are at rest.
LEMMA RenewDoRekey ==
    ASSUME Ongoing, DoRekey
    PROVE  CalmState'
  <1> DEFINE i == end["i"]
             r == end["r"]
             qi == net["i"]
             qr == net["r"]
             x == Started(i, "rekey_i_start", TRUE, None)
             l == [x EXCEPT !.runs = 1]
  <1>1. i.done = "ok" /\ ~i.link /\ ~r.link /\ Put("i", l, net)
    BY DEF DoRekey, Ends
  <1>2. /\ Renewing(i, r, qi, qr) /\ DOMAIN i = Fields /\ i.out = <<>>
        /\ i.rekeying = TRUE /\ i.me = "i" /\ r.me = "r" /\ Packets(qr)
    <2>1. Renewed("i", i, end[Peer("i")], qi, net[Peer("i")])
      BY OngoingEnds DEF Ends
    <2>2. /\ DOMAIN i = Fields /\ i.out = <<>>
          /\ i.rekeying = TRUE /\ i.me = "i" /\ r.me = "r" /\ Packets(qr)
      BY OngoingEnds DEF Ends
    <2> QED
      BY <2>1, <2>2, Peers DEF Renewed
  <1>3. Cuts("i", net)
    BY CutsNet DEF Ongoing, Ends
  <1>4. Keeps(x, l, {"runs"})
    BY <1>2 DEF Started, Keeps, Fields
  <1>5. /\ x.me = "i" /\ x.link = TRUE /\ x.rekeying = TRUE /\ x.aborted = FALSE /\ x.st = "rekey_i_start"
        /\ x.send = i.send /\ x.recv = i.recv /\ x.rekey = i.rekey /\ x.out = <<>>
    BY <1>2 DEF Started, Fields
  <1> HIDE DEF i, r, qi, qr, x, l
  <1>6. /\ DOMAIN l = Fields /\ l.me = "i" /\ l.link = TRUE /\ l.rekeying = TRUE /\ l.aborted = FALSE
        /\ l.st = "rekey_i_start" /\ l.send = i.send /\ l.recv = i.recv /\ l.rekey = i.rekey /\ l.out = <<>>
    BY <1>4, <1>5 DEF Keeps, Fields
  <1>7. i.rekey = r.rekey /\ Settled(i) /\ Settled(r) /\ Clean(i, qi) /\ Clean(r, qr)
    BY <1>1, <1>2 DEF Renewing, Quiet, Asked, AskedKey, Answered, Switches, Leads, Settled, Underway, Switching
  <1>8. qr \o l.out = qr
    BY <1>2, <1>6, NothingAdded
  <1>9. ASSUME NEW y, Keeps(l, y, {"out"}) PROVE Renewed("i", y, r, qi, qr \o l.out)
    <2>1. /\ y.me = "i" /\ y.link = TRUE /\ y.rekeying = TRUE /\ y.st = "rekey_i_start"
          /\ y.send = i.send /\ y.recv = i.recv /\ y.rekey = i.rekey
      BY <1>6, <1>9 DEF Keeps, Fields
    <2>2. Underway(y, "rekey_i_start") /\ Clean(y, qi)
      BY <1>2, <1>7, <2>1 DEF Underway, Settled, Base, Clean
    <2>3. Quiet(y, r, qi, qr)
      BY <1>7, <2>2 DEF Quiet
    <2> QED
      BY <1>7, <1>8, <2>1, <2>3 DEF Renewed, Renewing
  <1> QED
    BY <1>1, <1>3, <1>6, <1>9, RenewStep, Peers DEF Ends, r, qi, qr

\* What the end k finds when the other has sent REKEY_DONE, q being what has
\* been sent after it.
Switched(k, j, q, qj) ==
    /\ Switching(k) /\ \A n \in DOMAIN q : q[n].t = "DATA" /\ q[n].key = j.send
    /\ \/ /\ k.rekey = j.rekey /\ Switching(j) /\ k.keymat = j.keymat
          /\ \E c \in DOMAIN qj : Bears(j, k, qj, c, "REKEY_DONE")
       \/ Settled(j) /\ j.rekey = [pfs |-> k.rekey.pfs, of |-> k.keymat] /\ Clean(j, qj)

\* What the initiator finds with the packet p of the responder's exchange.
AnswerCame(i, r, q, qr, p) ==
    /\ i.rekey = r.rekey /\ i.rekey.pfs /\ Underway(i, "i_phase3") /\ Switching(r) /\ Clean(r, qr)
    /\ r.keymat = <<{i.ke1.x, p.body.x}>>
    /\ \E c \in DOMAIN q : Bears(i, r, q, c, "REKEY_DONE")

\* What the responder finds with REKEY, and with the initiator's exchange.
RekeyCame(i, r, qi, q) ==
    /\ i.rekey = r.rekey /\ Settled(r) /\ Clean(i, qi)
    /\ \/ /\ ~i.rekey.pfs /\ Switching(i) /\ i.keymat = Append(i.rekey.of, {})
          /\ \E c \in DOMAIN q : Bears(r, i, q, c, "REKEY_DONE")
       \/ /\ i.rekey.pfs /\ Underway(i, "i_phase3")
          /\ \E c \in DOMAIN q : Bears(r, i, q, c, "KEY_EXCHANGE_1") /\ q[c].body.x = i.ke1.x
KeyCame(i, r, qi, q, p) ==
    /\ i.rekey = r.rekey /\ i.rekey.pfs /\ Underway(i, "i_phase3") /\ Underway(r, "r_phase2")
    /\ Clean(i, qi) /\ p.body.x = i.ke1.x
    /\ \A n \in DOMAIN q : q[n].t = "DATA" /\ q[n].key = i.send

\* The first packet of a queue with one packet that matters, or two.
HeadOne(k, j, q, t) ==
    LET s == RemoveAt(q, 1) IN
    /\ q[1].key = k.recv
    /\ \/ q[1].t = t /\ \A n \in DOMAIN s : s[n].t = "DATA" /\ s[n].key = j.send
       \/ q[1].t = "DATA" /\ \E c \in DOMAIN s : Bears(k, j, s, c, t)

LEMMA HeadOfOne ==
    ASSUME NEW k, NEW j, NEW q, Packets(q), q # <<>>, NEW t, \E c \in DOMAIN q : Bears(k, j, q, c, t)
    PROVE  HeadOne(k, j, q, t)
  <1>1. PICK c \in DOMAIN q : Bears(k, j, q, c, t)
    OBVIOUS
  <1> DEFINE s == RemoveAt(q, 1)
  <1>2. /\ q[1].key = k.recv
        /\ \/ /\ c = 1 /\ q[1].t = t
              /\ \A n \in DOMAIN s : s[n].t = "DATA" /\ s[n].key = j.send
           \/ q[1].t = "DATA" /\ Bears(k, j, s, c - 1, t) /\ c - 1 \in DOMAIN s
    BY <1>1, BearsTaken
  <1> QED
    BY <1>2 DEF HeadOne

\* At the end of a re-key.
LEMMA LastHead ==
    ASSUME NEW k, NEW j, NEW q, Packets(q), q # <<>>, NEW qj,
           \/ k.rekey = j.rekey /\ Switches(k, j, q, qj)
           \/ Leads(j, k, qj, q)
    PROVE  /\ q[1].key = k.recv
           /\ \/ q[1].t = "REKEY_DONE" /\ Switched(k, j, RemoveAt(q, 1), qj)
              \/ /\ q[1].t = "DATA"
                 /\ \/ k.rekey = j.rekey /\ Switches(k, j, RemoveAt(q, 1), qj)
                    \/ Leads(j, k, qj, RemoveAt(q, 1))
  <1> DEFINE s == RemoveAt(q, 1)
  <1>1. \E c \in DOMAIN q : Bears(k, j, q, c, "REKEY_DONE")
    BY DEF Switches, Leads
  <1>2. HeadOne(k, j, q, "REKEY_DONE")
    BY <1>1, HeadOfOne
  <1>3. /\ q[1].key = k.recv
        /\ \/ q[1].t = "REKEY_DONE" /\ \A n \in DOMAIN s : s[n].t = "DATA" /\ s[n].key = j.send
           \/ q[1].t = "DATA" /\ \E c \in DOMAIN s : Bears(k, j, s, c, "REKEY_DONE")
    BY <1>2 DEF HeadOne
  <1> HIDE DEF s
  <1>4. CASE q[1].t = "REKEY_DONE" /\ \A n \in DOMAIN s : s[n].t = "DATA" /\ s[n].key = j.send
    <2>1. Switched(k, j, s, qj)
      BY <1>4 DEF Switched, Switches, Leads
    <2> QED
      BY <1>3, <1>4, <2>1 DEF s
  <1>5. CASE q[1].t = "DATA" /\ \E c \in DOMAIN s : Bears(k, j, s, c, "REKEY_DONE")
    <2>1. Switches(k, j, q, qj) => Switches(k, j, s, qj)
      BY <1>5 DEF Switches
    <2>2. Leads(j, k, qj, q) => Leads(j, k, qj, s)
      BY <1>5 DEF Leads
    <2> QED
      BY <1>3, <1>5, <2>1, <2>2 DEF s
  <1> QED
    BY <1>3, <1>4, <1>5

InitiatorHead(i, r, q, qr) ==
    LET s == RemoveAt(q, 1) IN
    /\ q[1].key = i.recv
    /\ \/ q[1].t = "DATA" /\ Renewing(i, r, s, qr)
       \/ q[1].t = "REKEY_DONE" /\ Switched(i, r, s, qr)
       \/ q[1].t = "KEY_EXCHANGE_2" /\ AnswerCame(i, r, s, qr, q[1])

LEMMA InitiatorHears ==
    ASSUME NEW i, NEW r, NEW q, Packets(q), q # <<>>, NEW qr, Renewing(i, r, q, qr)
    PROVE  InitiatorHead(i, r, q, qr)
  <1> DEFINE s == RemoveAt(q, 1)
             p == q[1]
  <1>1. ASSUME Clean(i, q) PROVE p.t = "DATA" /\ p.key = i.recv /\ Clean(i, s)
    BY <1>1, CleanTaken
  <1>2. CASE i.rekey = r.rekey /\ Quiet(i, r, q, qr)
    <2>1. p.t = "DATA" /\ p.key = i.recv /\ Clean(i, s)
      BY <1>1, <1>2 DEF Quiet
    <2> HIDE DEF s, p
    <2>2. Renewing(i, r, s, qr)
      BY <1>2, <2>1 DEF Renewing, Quiet
    <2> QED
      BY <2>1, <2>2 DEF InitiatorHead, s, p
  <1>3. CASE i.rekey = r.rekey /\ Asked(i, r, q, qr)
    <2>1. p.t = "DATA" /\ p.key = i.recv /\ Clean(i, s)
      BY <1>1, <1>3 DEF Asked
    <2> HIDE DEF s, p
    <2>2. Renewing(i, r, s, qr)
      BY <1>3, <2>1 DEF Renewing, Asked
    <2> QED
      BY <2>1, <2>2 DEF InitiatorHead, s, p
  <1>4. CASE i.rekey = r.rekey /\ AskedKey(i, r, q, qr)
    <2>1. p.t = "DATA" /\ p.key = i.recv /\ Clean(i, s)
      BY <1>1, <1>4 DEF AskedKey
    <2> HIDE DEF s, p
    <2>2. AskedKey(i, r, s, qr)
      BY <1>4, <2>1 DEF AskedKey
    <2>3. Renewing(i, r, s, qr)
      BY <1>4, <2>2 DEF Renewing
    <2> QED
      BY <2>1, <2>3 DEF InitiatorHead, s, p
  <1>5. CASE i.rekey = r.rekey /\ Answered(i, r, q, qr)
    <2>1. PICK b \in DOMAIN q, c \in DOMAIN q :
               /\ BearsTwo(i, r, q, b, "KEY_EXCHANGE_2", c, "REKEY_DONE")
               /\ r.keymat = <<{i.ke1.x, q[b].body.x}>>
      BY <1>5 DEF Answered
    <2>2. /\ p.key = i.recv /\ c - 1 \in DOMAIN s /\ s[c - 1] = q[c]
          /\ \/ b = 1 /\ p.t = "KEY_EXCHANGE_2" /\ Bears(i, r, s, c - 1, "REKEY_DONE")
             \/ /\ p.t = "DATA" /\ BearsTwo(i, r, s, b - 1, "KEY_EXCHANGE_2", c - 1, "REKEY_DONE")
                /\ b - 1 \in DOMAIN s /\ s[b - 1] = q[b]
      BY <2>1, BearsTwoTaken
    <2>3. b = 1 => q[b] = p
      OBVIOUS
    <2> HIDE DEF s, p
    <2>4. CASE b = 1 /\ p.t = "KEY_EXCHANGE_2" /\ Bears(i, r, s, c - 1, "REKEY_DONE")
      <3>1. AnswerCame(i, r, s, qr, p)
        BY <1>5, <2>1, <2>2, <2>3, <2>4 DEF AnswerCame, Answered
      <3> QED
        BY <2>2, <2>4, <3>1 DEF InitiatorHead, s, p
    <2>5. CASE /\ p.t = "DATA" /\ BearsTwo(i, r, s, b - 1, "KEY_EXCHANGE_2", c - 1, "REKEY_DONE")
               /\ b - 1 \in DOMAIN s /\ s[b - 1] = q[b]
      <3>1. Answered(i, r, s, qr)
        BY <1>5, <2>1, <2>2, <2>5 DEF Answered
      <3>2. Renewing(i, r, s, qr)
        BY <1>5, <3>1 DEF Renewing
      <3> QED
        BY <2>2, <2>5, <3>2 DEF InitiatorHead, s, p
    <2> QED
      BY <2>2, <2>4, <2>5
  <1>6. CASE (i.rekey = r.rekey /\ Switches(i, r, q, qr)) \/ Leads(r, i, qr, q)
    <2>1. /\ p.key = i.recv
          /\ \/ p.t = "REKEY_DONE" /\ Switched(i, r, s, qr)
             \/ /\ p.t = "DATA"
                /\ \/ i.rekey = r.rekey /\ Switches(i, r, s, qr)
                   \/ Leads(r, i, qr, s)
      BY <1>6, LastHead
    <2> HIDE DEF s, p
    <2>2. CASE p.t = "DATA" /\ ((i.rekey = r.rekey /\ Switches(i, r, s, qr)) \/ Leads(r, i, qr, s))
      <3>1. Renewing(i, r, s, qr)
        BY <2>2 DEF Renewing
      <3> QED
        BY <2>1, <2>2, <3>1 DEF InitiatorHead, s, p
    <2> QED
      BY <2>1, <2>2 DEF InitiatorHead, s, p
  <1>7. CASE Leads(i, r, q, qr)
    <2>1. p.t = "DATA" /\ p.key = i.recv /\ Clean(i, s)
      BY <1>1, <1>7 DEF Leads
    <2> HIDE DEF s, p
    <2>2. Renewing(i, r, s, qr)
      BY <1>7, <2>1 DEF Renewing, Leads
    <2> QED
      BY <2>1, <2>2 DEF InitiatorHead, s, p
  <1> QED
    BY <1>2, <1>3, <1>4, <1>5, <1>6, <1>7 DEF Renewing

ResponderHead(i, r, qi, q) ==
    LET s == RemoveAt(q, 1) IN
    /\ q[1].key = r.recv
    /\ \/ q[1].t = "DATA" /\ Renewing(i, r, qi, s)
       \/ q[1].t = "REKEY_DONE" /\ Switched(r, i, s, qi)
       \/ q[1].t = "REKEY" /\ RekeyCame(i, r, qi, s)
       \/ q[1].t = "KEY_EXCHANGE_1" /\ KeyCame(i, r, qi, s, q[1])

LEMMA ResponderHears ==
    ASSUME NEW i, NEW r, NEW qi, NEW q, Packets(q), q # <<>>, Renewing(i, r, qi, q)
    PROVE  ResponderHead(i, r, qi, q)
  <1> DEFINE s == RemoveAt(q, 1)
             p == q[1]
  <1>1. ASSUME Clean(r, q) PROVE p.t = "DATA" /\ p.key = r.recv /\ Clean(r, s)
    BY <1>1, CleanTaken
  <1>2. CASE i.rekey = r.rekey /\ Quiet(i, r, qi, q)
    <2>1. p.t = "DATA" /\ p.key = r.recv /\ Clean(r, s)
      BY <1>1, <1>2 DEF Quiet
    <2> HIDE DEF s, p
    <2>2. Renewing(i, r, qi, s)
      BY <1>2, <2>1 DEF Renewing, Quiet
    <2> QED
      BY <2>1, <2>2 DEF ResponderHead, s, p
  <1>3. CASE i.rekey = r.rekey /\ Asked(i, r, qi, q)
    <2>1. PICK b \in DOMAIN q, c \in DOMAIN q : BearsTwo(r, i, q, b, "REKEY", c, "REKEY_DONE")
      BY <1>3 DEF Asked
    <2>2. /\ p.key = r.recv /\ c - 1 \in DOMAIN s
          /\ \/ p.t = "REKEY" /\ Bears(r, i, s, c - 1, "REKEY_DONE")
             \/ /\ p.t = "DATA" /\ BearsTwo(r, i, s, b - 1, "REKEY", c - 1, "REKEY_DONE")
                /\ b - 1 \in DOMAIN s
      BY <2>1, BearsTwoTaken
    <2> HIDE DEF s, p
    <2>3. CASE p.t = "REKEY" /\ Bears(r, i, s, c - 1, "REKEY_DONE")
      <3>1. RekeyCame(i, r, qi, s)
        BY <1>3, <2>2, <2>3 DEF RekeyCame, Asked
      <3> QED
        BY <2>2, <2>3, <3>1 DEF ResponderHead, s, p
    <2>4. CASE /\ p.t = "DATA" /\ BearsTwo(r, i, s, b - 1, "REKEY", c - 1, "REKEY_DONE")
               /\ b - 1 \in DOMAIN s
      <3>1. Asked(i, r, qi, s)
        BY <1>3, <2>2, <2>4 DEF Asked
      <3>2. Renewing(i, r, qi, s)
        BY <1>3, <3>1 DEF Renewing
      <3> QED
        BY <2>2, <2>4, <3>2 DEF ResponderHead, s, p
    <2> QED
      BY <2>2, <2>3, <2>4
  <1>4. CASE i.rekey = r.rekey /\ AskedKey(i, r, qi, q)
    <2>1. PICK c \in DOMAIN q :
               /\ \/ Settled(r) /\ \E b \in DOMAIN q : BearsTwo(r, i, q, b, "REKEY", c, "KEY_EXCHANGE_1")
                  \/ Underway(r, "r_phase2") /\ Bears(r, i, q, c, "KEY_EXCHANGE_1")
               /\ q[c].body.x = i.ke1.x
      BY <1>4 DEF AskedKey
    <2>2. CASE Settled(r) /\ \E b \in DOMAIN q : BearsTwo(r, i, q, b, "REKEY", c, "KEY_EXCHANGE_1")
      <3>1. PICK b \in DOMAIN q : BearsTwo(r, i, q, b, "REKEY", c, "KEY_EXCHANGE_1")
        BY <2>2
      <3>2. /\ p.key = r.recv /\ c - 1 \in DOMAIN s /\ s[c - 1] = q[c]
            /\ \/ p.t = "REKEY" /\ Bears(r, i, s, c - 1, "KEY_EXCHANGE_1")
               \/ /\ p.t = "DATA" /\ BearsTwo(r, i, s, b - 1, "REKEY", c - 1, "KEY_EXCHANGE_1")
                  /\ b - 1 \in DOMAIN s
        BY <3>1, BearsTwoTaken
      <3> HIDE DEF s, p
      <3>3. CASE p.t = "REKEY" /\ Bears(r, i, s, c - 1, "KEY_EXCHANGE_1")
        <4>1. RekeyCame(i, r, qi, s)
          BY <1>4, <2>1, <2>2, <3>2, <3>3 DEF RekeyCame, AskedKey
        <4> QED
          BY <3>2, <3>3, <4>1 DEF ResponderHead, s, p
      <3>4. CASE /\ p.t = "DATA" /\ BearsTwo(r, i, s, b - 1, "REKEY", c - 1, "KEY_EXCHANGE_1")
                 /\ b - 1 \in DOMAIN s
        <4>1. AskedKey(i, r, qi, s)
          BY <1>4, <2>1, <2>2, <3>2, <3>4 DEF AskedKey
        <4>2. Renewing(i, r, qi, s)
          BY <1>4, <4>1 DEF Renewing
        <4> QED
          BY <3>2, <3>4, <4>2 DEF ResponderHead, s, p
      <3> QED
        BY <3>2, <3>3, <3>4
    <2>3. CASE Underway(r, "r_phase2") /\ Bears(r, i, q, c, "KEY_EXCHANGE_1")
      <3>1. /\ p.key = r.recv
            /\ \/ /\ c = 1 /\ p.t = "KEY_EXCHANGE_1"
                  /\ \A n \in DOMAIN s : s[n].t = "DATA" /\ s[n].key = i.send
               \/ /\ p.t = "DATA" /\ Bears(r, i, s, c - 1, "KEY_EXCHANGE_1")
                  /\ s[c - 1] = q[c] /\ c - 1 \in DOMAIN s
        BY <2>3, BearsTaken
      <3>2. c = 1 => q[c] = p
        OBVIOUS
      <3> HIDE DEF s, p
      <3>3. CASE /\ c = 1 /\ p.t = "KEY_EXCHANGE_1"
                 /\ \A n \in DOMAIN s : s[n].t = "DATA" /\ s[n].key = i.send
        <4>1. KeyCame(i, r, qi, s, p)
          BY <1>4, <2>1, <2>3, <3>2, <3>3 DEF KeyCame, AskedKey
        <4> QED
          BY <3>1, <3>3, <4>1 DEF ResponderHead, s, p
      <3>4. CASE /\ p.t = "DATA" /\ Bears(r, i, s, c - 1, "KEY_EXCHANGE_1")
                 /\ s[c - 1] = q[c] /\ c - 1 \in DOMAIN s
        <4>1. AskedKey(i, r, qi, s)
          BY <1>4, <2>1, <2>3, <3>4 DEF AskedKey
        <4>2. Renewing(i, r, qi, s)
          BY <1>4, <4>1 DEF Renewing
        <4> QED
          BY <3>1, <3>4, <4>2 DEF ResponderHead, s, p
      <3> QED
        BY <3>1, <3>3, <3>4
    <2> QED
      BY <2>1, <2>2, <2>3
  <1>5. CASE i.rekey = r.rekey /\ Answered(i, r, qi, q)
    <2>1. p.t = "DATA" /\ p.key = r.recv /\ Clean(r, s)
      BY <1>1, <1>5 DEF Answered
    <2> HIDE DEF s, p
    <2>2. Answered(i, r, qi, s)
      BY <1>5, <2>1 DEF Answered
    <2>3. Renewing(i, r, qi, s)
      BY <1>5, <2>2 DEF Renewing
    <2> QED
      BY <2>1, <2>3 DEF ResponderHead, s, p
  <1>6. CASE (i.rekey = r.rekey /\ Switches(i, r, qi, q)) \/ Leads(i, r, qi, q)
    <2>1. /\ Switches(i, r, qi, q) => Switches(r, i, q, qi)
          /\ Switches(r, i, s, qi) => Switches(i, r, qi, s)
      BY DEF Switches
    <2>2. /\ p.key = r.recv
          /\ \/ p.t = "REKEY_DONE" /\ Switched(r, i, s, qi)
             \/ /\ p.t = "DATA"
                /\ \/ i.rekey = r.rekey /\ Switches(r, i, s, qi)
                   \/ Leads(i, r, qi, s)
      BY <1>6, <2>1, LastHead
    <2> HIDE DEF s, p
    <2>3. CASE p.t = "DATA" /\ ((i.rekey = r.rekey /\ Switches(r, i, s, qi)) \/ Leads(i, r, qi, s))
      <3>1. Renewing(i, r, qi, s)
        BY <2>1, <2>3 DEF Renewing
      <3> QED
        BY <2>2, <2>3, <3>1 DEF ResponderHead, s, p
    <2> QED
      BY <2>2, <2>3 DEF ResponderHead, s, p
  <1>7. CASE Leads(r, i, q, qi)
    <2>1. p.t = "DATA" /\ p.key = r.recv /\ Clean(r, s)
      BY <1>1, <1>7 DEF Leads
    <2> HIDE DEF s, p
    <2>2. Renewing(i, r, qi, s)
      BY <1>7, <2>1 DEF Renewing, Leads
    <2> QED
      BY <2>1, <2>2 DEF ResponderHead, s, p
  <1> QED
    BY <1>2, <1>3, <1>4, <1>5, <1>6, <1>7 DEF Renewing

\* What a packet of an undisturbed re-key does to the end k: the end takes the
\* new material into use, or derives m and will send with it.
TookUse(k, l) ==
    /\ DOMAIN l = Fields /\ l.me = k.me /\ l.rekeying = TRUE /\ l.aborted = FALSE
    /\ ~l.link /\ l.done = "ok" /\ l.send = k.send /\ l.recv = Key(k.keymat, Peer(k.me))
    /\ l.rekey = [pfs |-> k.rekey.pfs, of |-> k.keymat] /\ l.out = <<>>
Changed(k, l, m) ==
    /\ DOMAIN l = Fields /\ l.me = k.me /\ l.rekeying = TRUE /\ l.aborted = FALSE
    /\ l.link /\ l.st = "rekey_end" /\ l.keymat = m /\ l.send = Key(m, k.me)
    /\ l.recv = k.recv /\ l.rekey = k.rekey

\* An end that re-keys undisturbed.
Steady(k) ==
    /\ DOMAIN k = Fields /\ k.out = <<>> /\ k.link /\ k.rekeying = TRUE /\ k.aborted = FALSE
    /\ k.status = "OK"

LEMMA SteadyRuns ==
    ASSUME NEW k, Steady(k), NEW p, p # None,
           p.t = "REKEY_DONE" \/ p.t = IF k.me = "r" THEN "KEY_EXCHANGE_1" ELSE "KEY_EXCHANGE_2"
    PROVE  /\ Dispatch(k, p) = Run(Got(k, p))
           /\ Keeps(k, Got(k, p), {"count", "retry", "pkt"}) /\ Got(k, p).pkt = p
           /\ Rekeying(Got(k, p)) /\ Got(k, p).status = "OK" /\ Got(k, p).aborted = FALSE
           /\ Got(k, p).st = k.st
  <1> DEFINE got == Got(k, p)
  <1>1. p.t \in Linked(k) /\ p.t # "FAILURE"
    BY DEF Linked, Steady
  <1>2. Dispatch(k, p) = PacketReceive(k, p)
    BY <1>1 DEF Dispatch, Steady
  <1>3. PacketReceive(k, p) = Run(got)
    BY <1>1 DEF PacketReceive, Steady, Got
  <1>4. Keeps(k, got, {"count", "retry", "pkt"}) /\ got.pkt = p
    BY DEF Keeps, Fields, Got, Steady
  <1> HIDE DEF got
  <1>5. Rekeying(got) /\ got.status = "OK" /\ got.aborted = FALSE /\ got.st = k.st
    BY <1>4 DEF Rekeying, Keeps, Fields, Steady
  <1> QED
    BY <1>2, <1>3, <1>4, <1>5 DEF got

LEMMA DoneTaken ==
    ASSUME NEW k, Steady(k), k.st = "rekey_end", NEW p, p # None, p.t = "REKEY_DONE"
    PROVE  TookUse(k, Dispatch(k, p))
  <1> DEFINE got == Got(k, p)
             l == Dispatch(k, p)
  <1>1. /\ l = Run(got) /\ Keeps(k, got, {"count", "retry", "pkt"}) /\ got.pkt = p
        /\ Rekeying(got) /\ got.status = "OK" /\ got.aborted = FALSE /\ got.st = k.st
    BY SteadyRuns
  <1> HIDE DEF got, l
  <1>2. l = RekeyEnd(got)
    BY <1>1 DEF Run, Reads
  <1>3. Takes(got, l) /\ RekeyEffect(got, l)
    BY <1>1, <1>2, TakesEffect
  <1>4. /\ got.me = k.me /\ got.send = k.send /\ got.keymat = k.keymat /\ got.rekey = k.rekey
        /\ got.rekeying = TRUE
    BY <1>1 DEF Keeps, Fields, Rekeying
  <1>5. TookUse(k, l)
    BY <1>1, <1>3, <1>4 DEF TookUse, Takes, RekeyEffect
  <1> QED
    BY <1>5 DEF l

LEMMA AnswerTaken ==
    ASSUME ~cfg.udp, NEW k, Steady(k), k.st = "i_phase3", k.me = "i", k.rekey.pfs,
           NEW p, p # None, p.t = "KEY_EXCHANGE_2"
    PROVE  /\ Changed(k, Dispatch(k, p), <<{k.ke1.x, p.body.x}>>)
           /\ Dispatch(k, p).out = <<Packet(k, "REKEY_DONE", None)>>
  <1> DEFINE got == Got(k, p)
             l == Dispatch(k, p)
  <1>1. /\ l = Run(got) /\ Keeps(k, got, {"count", "retry", "pkt"}) /\ got.pkt = p
        /\ Rekeying(got) /\ got.status = "OK" /\ got.aborted = FALSE /\ got.st = k.st
    BY SteadyRuns
  <1> HIDE DEF got, l
  <1>2. l = InitiatorPhase3(got)
    BY <1>1 DEF Run, Reads
  <1>3. /\ got.me = k.me /\ got.send = k.send /\ got.recv = k.recv /\ got.rekey = k.rekey
        /\ got.rekeying = TRUE /\ got.link = k.link /\ got.ke1 = k.ke1
    BY <1>1 DEF Keeps, Fields, Rekeying
  <1>4. Renews(got, l) /\ RekeyEffect(got, l)
    BY <1>1, <1>2, <1>3, InitiatorRenews
  <1>5. /\ Keeps(got, l, {"st", "pkt", "ke1", "ke2", "KEY", "keymat", "send", "out"})
        /\ Derives(got, l, <<{k.ke1.x, p.body.x}>>) /\ l.out = <<Packet(got, "REKEY_DONE", None)>>
    BY <1>1, <1>3, <1>4 DEF Renews
  <1>6. Packet(got, "REKEY_DONE", None) = Packet(k, "REKEY_DONE", None)
    BY <1>3 DEF Packet
  <1>7. Changed(k, l, <<{k.ke1.x, p.body.x}>>)
    BY <1>1, <1>3, <1>5 DEF Changed, Keeps, Fields, Derives, Steady
  <1> QED
    BY <1>5, <1>6, <1>7 DEF l

LEMMA KeyTaken ==
    ASSUME ~cfg.udp, NEW k, Steady(k), k.st = "r_phase2", k.me = "r", k.rekey.pfs,
           NEW p, p # None, p.t = "KEY_EXCHANGE_1"
    PROVE  /\ Changed(k, Dispatch(k, p), <<{p.body.x, <<"r", k.round>>}>>)
           /\ \E ke : /\ ke.x = <<"r", k.round>>
                      /\ Dispatch(k, p).out = <<Packet(k, "KEY_EXCHANGE_2", ke), Packet(k, "REKEY_DONE", None)>>
  <1> DEFINE got == Got(k, p)
             l == Dispatch(k, p)
  <1>1. /\ l = Run(got) /\ Keeps(k, got, {"count", "retry", "pkt"}) /\ got.pkt = p
        /\ Rekeying(got) /\ got.status = "OK" /\ got.aborted = FALSE /\ got.st = k.st
    BY SteadyRuns
  <1> HIDE DEF got, l
  <1>2. l = ResponderPhase2(got)
    BY <1>1 DEF Run, Reads
  <1>3. /\ got.me = k.me /\ got.send = k.send /\ got.recv = k.recv /\ got.rekey = k.rekey
        /\ got.rekeying = TRUE /\ got.link = k.link /\ got.round = k.round
    BY <1>1 DEF Keeps, Fields, Rekeying
  <1>4. Renews(got, l) /\ RekeyEffect(got, l)
    BY <1>1, <1>2, <1>3, ResponderRenews
  <1>5. /\ Keeps(got, l, {"st", "pkt", "ke1", "ke2", "KEY", "keymat", "send", "out"})
        /\ Derives(got, l, <<{p.body.x, <<"r", k.round>>}>>)
        /\ \E ke : /\ ke.x = <<"r", k.round>>
                   /\ l.out = <<Packet(got, "KEY_EXCHANGE_2", ke), Packet(got, "REKEY_DONE", None)>>
    BY <1>1, <1>3, <1>4 DEF Renews
  <1>6. \A t, b : Packet(got, t, b) = Packet(k, t, b)
    BY <1>3 DEF Packet
  <1>7. Changed(k, l, <<{p.body.x, <<"r", k.round>>}>>)
    BY <1>1, <1>3, <1>5 DEF Changed, Keeps, Fields, Derives, Steady
  <1> QED
    BY <1>5, <1>6, <1>7 DEF l

LEMMA RekeyTaken ==
    ASSUME NEW k, DOMAIN k = Fields, k.out = <<>>, ~k.link, k.rekey.pfs \in BOOLEAN, k.rekey # None,
           NEW p, p.t = "REKEY"
    PROVE  LET l == Dispatch(k, p) IN
           /\ DOMAIN l = Fields /\ l.me = k.me /\ l.link /\ l.rekeying = TRUE /\ l.aborted = FALSE
           /\ l.recv = k.recv /\ l.rekey = k.rekey
           /\ k.rekey.pfs => l.st = "r_phase2" /\ l.send = k.send /\ l.out = <<>>
           /\ ~k.rekey.pfs => /\ Changed(k, l, Append(k.rekey.of, {}))
                              /\ l.out = <<Packet(k, "REKEY_DONE", None)>>
  <1> DEFINE l == Dispatch(k, p)
  <1>1. l = ServerRekey(k, p)
    BY DEF Dispatch
  <1>2. DOMAIN l = Fields /\ l.me = k.me /\ Accepts(k, l)
    BY <1>1, AcceptsEffect
  <1> HIDE DEF l
  <1>3. /\ DOMAIN l = Fields /\ l.me = k.me /\ l.link /\ l.rekeying = TRUE /\ l.aborted = FALSE
        /\ l.recv = k.recv /\ l.rekey = k.rekey
        /\ k.rekey.pfs => l.st = "r_phase2" /\ l.send = k.send /\ l.out = <<>>
        /\ ~k.rekey.pfs => Derives(k, l, Append(k.rekey.of, {})) /\ l.out = <<Packet(k, "REKEY_DONE", None)>>
    BY <1>2 DEF Accepts
  <1>4. ~k.rekey.pfs => Changed(k, l, Append(k.rekey.of, {}))
    BY <1>3 DEF Changed, Derives
  <1> QED
    BY <1>3, <1>4 DEF l

\* How they leave the two ends.
LEMMA SwitchedTook ==
    ASSUME NEW e \in Ends, NEW k, k.me = e, NEW j, j.me = Peer(e), NEW q, NEW qj, Switched(k, j, q, qj),
           NEW l, TookUse(k, l), NEW y, Keeps(l, y, {"out"})
    PROVE  Renewed(e, y, j, q, qj)
  <1>1. /\ y.me = e /\ ~y.link /\ y.done = "ok" /\ y.send = k.send /\ y.recv = Key(k.keymat, Peer(e))
        /\ y.rekey = [pfs |-> k.rekey.pfs, of |-> k.keymat]
    <2>1. y.me = l.me /\ y.link = l.link /\ y.done = l.done /\ y.send = l.send /\ y.recv = l.recv /\ y.rekey = l.rekey
      BY DEF Keeps, Fields
    <2> QED
      BY <2>1 DEF TookUse
  <1>2. k.rekey.pfs \in BOOLEAN /\ k.send = Key(k.keymat, e)
    BY DEF Switched, Switching, Base
  <1>3. y.rekey.pfs = k.rekey.pfs /\ y.rekey.of = k.keymat
    BY <1>1
  <1>4. Settled(y)
    BY <1>1, <1>2, <1>3 DEF Settled, Base
  <1>5. j.send = Key(k.keymat, Peer(e))
    <2>1. CASE Switching(j) /\ k.keymat = j.keymat
      BY <2>1 DEF Switching
    <2>2. CASE Settled(j) /\ j.rekey = [pfs |-> k.rekey.pfs, of |-> k.keymat]
      BY <2>2 DEF Settled
    <2> QED
      BY <2>1, <2>2 DEF Switched
  <1>6. Clean(y, q)
    BY <1>1, <1>5 DEF Clean, Switched
  <1>7. CASE k.rekey = j.rekey /\ Switching(j) /\ k.keymat = j.keymat /\ \E c \in DOMAIN qj : Bears(j, k, qj, c, "REKEY_DONE")
    <2>1. \E c \in DOMAIN qj : Bears(j, y, qj, c, "REKEY_DONE")
      BY <1>1, <1>7 DEF Bears
    <2>2. Leads(y, j, q, qj)
      BY <1>1, <1>4, <1>6, <1>7, <2>1 DEF Leads
    <2> QED
      BY <2>2 DEF Renewed, Renewing
  <1>8. CASE Settled(j) /\ j.rekey = [pfs |-> k.rekey.pfs, of |-> k.keymat] /\ Clean(j, qj)
    <2>1. y.rekey = j.rekey /\ Quiet(y, j, q, qj) /\ Quiet(j, y, qj, q)
      BY <1>1, <1>4, <1>6, <1>8 DEF Quiet
    <2> QED
      BY <2>1 DEF Renewed, Renewing
  <1> QED
    BY <1>7, <1>8 DEF Switched

\* An end that changes its key as it sends p.
LEMMA ChangedSwitching ==
    ASSUME NEW k, Base(k), NEW m, NEW l, Changed(k, l, m), NEW y, Keeps(l, y, {"out"})
    PROVE  Switching(y) /\ y.keymat = m /\ y.recv = k.recv /\ y.rekey = k.rekey /\ y.me = k.me
  <1>1. /\ y.me = l.me /\ y.link = l.link /\ y.rekeying = l.rekeying /\ y.st = l.st /\ y.keymat = l.keymat
        /\ y.send = l.send /\ y.recv = l.recv /\ y.rekey = l.rekey
    BY DEF Changed, Keeps, Fields
  <1> QED
    BY <1>1 DEF Changed, Switching, Base

LEMMA AnswerRenews ==
    ASSUME NEW i, i.me = "i", NEW r, r.me = "r", NEW q, NEW qr, Packets(qr), NEW p, AnswerCame(i, r, q, qr, p),
           NEW l, Changed(i, l, <<{i.ke1.x, p.body.x}>>), l.out = <<Packet(i, "REKEY_DONE", None)>>,
           NEW y, Keeps(l, y, {"out"})
    PROVE  Renewing(y, r, q, qr \o l.out)
  <1> DEFINE s == Packet(i, "REKEY_DONE", None)
             qs == qr \o <<s>>
  <1>1. Switching(y) /\ y.keymat = <<{i.ke1.x, p.body.x}>> /\ y.recv = i.recv /\ y.rekey = i.rekey
    BY ChangedSwitching DEF AnswerCame, Underway
  <1>2. /\ i.rekey = r.rekey /\ Switching(r) /\ Clean(r, qr) /\ r.keymat = <<{i.ke1.x, p.body.x}>>
        /\ \E c \in DOMAIN q : Bears(i, r, q, c, "REKEY_DONE")
    BY DEF AnswerCame
  <1>3. i.send = r.recv
    BY Peers DEF AnswerCame, Underway, Switching, Base
  <1>4. s.t = "REKEY_DONE" /\ s.key = r.recv
    BY <1>3 DEF Packet
  <1>5. \E c \in DOMAIN q : Bears(y, r, q, c, "REKEY_DONE")
    BY <1>1, <1>2 DEF Bears
  <1> HIDE DEF s
  <1>6. Bore(r, y, qs, s)
    BY <1>2, <1>4, PacketSent
  <1> HIDE DEF qs
  <1>7. \E c \in DOMAIN qs : Bears(r, y, qs, c, "REKEY_DONE")
    BY <1>4, <1>6 DEF Bore
  <1>8. Switches(y, r, q, qs)
    BY <1>1, <1>2, <1>5, <1>7 DEF Switches
  <1> QED
    BY <1>1, <1>2, <1>8 DEF Renewing, qs, s

LEMMA KeyRenews ==
    ASSUME NEW i, i.me = "i", NEW r, r.me = "r", NEW qi, Packets(qi), NEW q, NEW p, KeyCame(i, r, qi, q, p),
           NEW l, NEW x, Changed(r, l, <<{p.body.x, x}>>), NEW ke, ke.x = x,
           l.out = <<Packet(r, "KEY_EXCHANGE_2", ke), Packet(r, "REKEY_DONE", None)>>,
           NEW y, Keeps(l, y, {"out"})
    PROVE  Renewing(i, y, qi \o l.out, q)
  <1> DEFINE b == Packet(r, "KEY_EXCHANGE_2", ke)
             s == Packet(r, "REKEY_DONE", None)
             qs == qi \o <<b, s>>
  <1>1. Switching(y) /\ y.keymat = <<{p.body.x, x}>> /\ y.recv = r.recv /\ y.rekey = r.rekey
    BY ChangedSwitching DEF KeyCame, Underway
  <1>2. /\ i.rekey = r.rekey /\ i.rekey.pfs /\ Underway(i, "i_phase3") /\ Clean(i, qi) /\ p.body.x = i.ke1.x
        /\ \A n \in DOMAIN q : q[n].t = "DATA" /\ q[n].key = i.send
    BY DEF KeyCame
  <1>3. r.send = i.recv /\ i.send = r.recv
    BY Peers DEF KeyCame, Underway, Base
  <1>4. b.t = "KEY_EXCHANGE_2" /\ b.key = i.recv /\ b.body = ke /\ s.t = "REKEY_DONE" /\ s.key = i.recv
    BY <1>3 DEF Packet
  <1>5. Clean(y, q)
    BY <1>1, <1>2, <1>3 DEF Clean
  <1> HIDE DEF b, s
  <1>6. BoreTwo(i, y, qs, b, s)
    BY <1>2, <1>4, PacketsSent
  <1> HIDE DEF qs
  <1>7. PICK m \in DOMAIN qs, c \in DOMAIN qs :
             BearsTwo(i, y, qs, m, "KEY_EXCHANGE_2", c, "REKEY_DONE") /\ qs[m] = b
    BY <1>4, <1>6 DEF BoreTwo
  <1>8. y.keymat = <<{i.ke1.x, qs[m].body.x}>>
    BY <1>1, <1>2, <1>4, <1>7
  <1>9. Answered(i, y, qs, q)
    BY <1>1, <1>2, <1>5, <1>7, <1>8 DEF Answered
  <1> QED
    BY <1>1, <1>2, <1>9 DEF Renewing, qs, b, s

LEMMA RekeyRenews ==
    ASSUME NEW i, i.me = "i", NEW r, r.me = "r", NEW qi, Packets(qi), NEW q, RekeyCame(i, r, qi, q),
           NEW l, DOMAIN l = Fields, l.me = r.me, l.link, l.rekeying = TRUE, l.recv = r.recv, l.rekey = r.rekey,
           r.rekey.pfs => l.st = "r_phase2" /\ l.send = r.send /\ l.out = <<>>,
           ~r.rekey.pfs => /\ Changed(r, l, Append(r.rekey.of, {}))
                           /\ l.out = <<Packet(r, "REKEY_DONE", None)>>,
           NEW y, Keeps(l, y, {"out"})
    PROVE  Renewing(i, y, qi \o l.out, q)
  <1>1. i.rekey = r.rekey /\ Settled(r) /\ Clean(i, qi) /\ Base(r)
    BY DEF RekeyCame, Settled
  <1>2. r.send = i.recv
    BY Peers DEF RekeyCame, Settled, Switching, Underway, Base
  <1>3. CASE ~i.rekey.pfs
    <2> DEFINE s == Packet(r, "REKEY_DONE", None)
               qs == qi \o <<s>>
               m == Append(r.rekey.of, {})
    <2>1. PICK c \in DOMAIN q : Bears(r, i, q, c, "REKEY_DONE")
      BY <1>3 DEF RekeyCame
    <2>2. Switching(i) /\ i.keymat = m
      BY <1>1, <1>3 DEF RekeyCame
    <2>3. l.out = <<s>> /\ Changed(r, l, m)
      BY <1>1, <1>3
    <2> HIDE DEF m
    <2>4. Switching(y) /\ y.keymat = m /\ y.recv = r.recv /\ y.rekey = r.rekey
      BY <1>1, <2>3, ChangedSwitching
    <2>5. s.t = "REKEY_DONE" /\ s.key = i.recv
      BY <1>2 DEF Packet
    <2>6. Bears(y, i, q, c, "REKEY_DONE")
      BY <2>1, <2>4 DEF Bears
    <2> HIDE DEF s
    <2>7. Bore(i, y, qs, s)
      BY <1>1, <2>5, PacketSent
    <2> HIDE DEF qs
    <2>8. \E b \in DOMAIN qs : Bears(i, y, qs, b, "REKEY_DONE")
      BY <2>5, <2>7 DEF Bore
    <2>9. Switches(i, y, qs, q)
      BY <1>1, <2>2, <2>4, <2>6, <2>8 DEF Switches
    <2> QED
      BY <1>1, <2>3, <2>4, <2>9 DEF Renewing, qs
  <1>4. CASE i.rekey.pfs
    <2>1. PICK c \in DOMAIN q : Bears(r, i, q, c, "KEY_EXCHANGE_1") /\ q[c].body.x = i.ke1.x
      BY <1>4 DEF RekeyCame
    <2>2. Underway(i, "i_phase3")
      BY <1>4 DEF RekeyCame
    <2>3. l.st = "r_phase2" /\ l.send = r.send /\ l.out = <<>>
      BY <1>1, <1>4
    <2>4. /\ y.me = r.me /\ y.link = l.link /\ y.rekeying = TRUE /\ y.recv = r.recv /\ y.rekey = r.rekey
          /\ y.st = "r_phase2" /\ y.send = r.send
      BY <2>3 DEF Keeps, Fields
    <2>5. Underway(y, "r_phase2") /\ Bears(y, i, q, c, "KEY_EXCHANGE_1")
      BY <1>1, <2>1, <2>4 DEF Underway, Settled, Base, Bears
    <2>6. AskedKey(i, y, qi, q)
      BY <1>1, <1>4, <2>1, <2>2, <2>5 DEF AskedKey
    <2>7. qi \o l.out = qi
      BY <2>3, NothingAdded
    <2> QED
      BY <1>1, <2>4, <2>6, <2>7 DEF Renewing
  <1> QED
    BY <1>3, <1>4

\* A packet of an undisturbed re-key has the key the end expects.
LEMMA RenewTakes ==
    ASSUME Ongoing, NEW e \in Ends, NEW n \in DOMAIN net[e], Deliver(e, n),
           net[e][1].key = end[e].recv,
           NEW l, l = Dispatch(end[e], net[e][1]), DOMAIN l = Fields, l.aborted = FALSE,
           e = "i" => l.rekeying = TRUE,
           \A y : Keeps(l, y, {"out"}) =>
                Renewed(e, y, end[Peer(e)], RemoveAt(net[e], 1), net[Peer(e)] \o l.out)
    PROVE  CalmState'
  <1> DEFINE rest == [net EXCEPT ![e] = RemoveAt(@, 1)]
  <1>1. n = 1 /\ Put(e, l, rest) /\ 1 \in DOMAIN net[e]
    BY OngoingEnds DEF Deliver
  <1>2. Cuts(e, rest) /\ rest[e] = RemoveAt(net[e], 1)
    <2>1. Cuts(e, rest) /\ DOMAIN net = Ends
      BY <1>1, CutsRemove DEF Ongoing, RunInv, Shapes
    <2> QED
      BY <2>1
  <1> HIDE DEF rest
  <1> QED
    BY <1>1, <1>2, RenewStep

LEMMA RenewIgnores ==
    ASSUME Ongoing, NEW e \in Ends, NEW n \in DOMAIN net[e], Deliver(e, n),
           net[e][1].key = end[e].recv, net[e][1].t = "DATA",
           Renewed(e, end[e], end[Peer(e)], RemoveAt(net[e], 1), net[Peer(e)])
    PROVE  CalmState'
  <1> DEFINE k == end[e]
             j == end[Peer(e)]
             s == RemoveAt(net[e], 1)
             qj == net[Peer(e)]
  <1>1. k = Dispatch(k, net[e][1])
    BY DEF Dispatch, Linked
  <1>2. /\ DOMAIN k = Fields /\ k.aborted = FALSE /\ (e = "i" => k.rekeying = TRUE) /\ k.out = <<>>
        /\ Packets(qj)
    BY OngoingEnds
  <1>3. qj \o k.out = qj
    BY <1>2, NothingAdded
  <1>4. ASSUME NEW y, Keeps(k, y, {"out"}) PROVE Renewed(e, y, j, s, qj \o k.out)
    <2>1. Keeps(k, y, {"out", "data", "fin", "held", "refcnt"})
      BY <1>4 DEF Keeps
    <2> HIDE DEF s
    <2> QED
      BY <1>3, <2>1, KeepsSeen, RenewedSeen DEF s
  <1> QED
    BY <1>1, <1>2, <1>4, RenewTakes

LEMMA RenewFinishes ==
    ASSUME Ongoing, NEW e \in Ends, NEW n \in DOMAIN net[e], Deliver(e, n),
           net[e][1].key = end[e].recv, net[e][1].t = "REKEY_DONE",
           Switched(end[e], end[Peer(e)], RemoveAt(net[e], 1), net[Peer(e)])
    PROVE  CalmState'
  <1> DEFINE k == end[e]
             j == end[Peer(e)]
             s == RemoveAt(net[e], 1)
             qj == net[Peer(e)]
             p == net[e][1]
             l == Dispatch(k, p)
  <1>1. k.me = e /\ j.me = Peer(e) /\ Packets(qj) /\ Peer(e) \in Ends /\ k.aborted = FALSE
    BY OngoingEnds, Peers DEF Ends
  <1>2. k.link /\ k.st = "rekey_end"
    BY DEF Switched, Switching
  <1>3. Steady(k)
    BY <1>2, OngoingEnds DEF Steady
  <1>4. p # None
    <2>1. 1 \in DOMAIN net[e]
      BY OngoingEnds DEF Deliver
    <2> QED
      BY <2>1, CutsRemove DEF Ongoing, RunInv, Shapes
  <1> HIDE DEF k, j, s, qj, p
  <1>5. TookUse(k, l)
    BY <1>2, <1>3, <1>4, DoneTaken DEF p
  <1> HIDE DEF l
  <1>6. DOMAIN l = Fields /\ l.rekeying = TRUE /\ l.aborted = FALSE /\ l.out = <<>>
    BY <1>5 DEF TookUse
  <1>7. qj \o l.out = qj
    BY <1>1, <1>6, NothingAdded
  <1>8. ASSUME NEW y, Keeps(l, y, {"out"}) PROVE Renewed(e, y, j, s, qj \o l.out)
    <2>1. Switched(k, j, s, qj)
      BY DEF k, j, s, qj
    <2>2. Renewed(e, y, j, s, qj)
      BY <1>1, <1>5, <1>8, <2>1, SwitchedTook
    <2> QED
      BY <1>7, <2>2
  <1> QED
    BY <1>6, <1>8, RenewTakes DEF k, j, s, qj, p, l

LEMMA RenewInitiator ==
    ASSUME Ongoing, NEW n \in DOMAIN net["i"], Deliver("i", n)
    PROVE  CalmState'
  <1> DEFINE i == end["i"]
             r == end["r"]
             q == net["i"]
             qr == net["r"]
             s == RemoveAt(q, 1)
             p == q[1]
             l == Dispatch(i, p)
  <1>1. "i" \in Ends /\ "r" \in Ends /\ Peer("i") = "r"
    BY Peers DEF Ends
  <1>2. /\ Renewing(i, r, q, qr) /\ i.me = "i" /\ r.me = "r" /\ Packets(q) /\ Packets(qr)
        /\ ~cfg.udp /\ i.rekeying = TRUE /\ i.aborted = FALSE
    BY <1>1, OngoingEnds DEF Renewed
  <1>3. n = 1 /\ 1 \in DOMAIN q /\ q # <<>>
    <2>1. n = 1 /\ 1 \in DOMAIN q
      BY <1>2 DEF Deliver
    <2> QED
      BY <2>1, NoPackets
  <1>4. InitiatorHead(i, r, q, qr)
    BY <1>2, <1>3, InitiatorHears
  <1>5. /\ p.key = i.recv
        /\ \/ p.t = "DATA" /\ Renewing(i, r, s, qr)
           \/ p.t = "REKEY_DONE" /\ Switched(i, r, s, qr)
           \/ p.t = "KEY_EXCHANGE_2" /\ AnswerCame(i, r, s, qr, p)
    BY <1>4 DEF InitiatorHead
  <1>6. CASE p.t = "DATA" /\ Renewing(i, r, s, qr)
    BY <1>1, <1>5, <1>6, RenewIgnores DEF Renewed
  <1>7. CASE p.t = "REKEY_DONE" /\ Switched(i, r, s, qr)
    BY <1>1, <1>5, <1>7, RenewFinishes
  <1>8. CASE p.t = "KEY_EXCHANGE_2" /\ AnswerCame(i, r, s, qr, p)
    <2>1. i.rekey.pfs /\ i.link /\ i.st = "i_phase3"
      BY <1>8 DEF AnswerCame, Underway
    <2>2. Steady(i)
      BY <1>1, <2>1, OngoingEnds DEF Steady
    <2>3. p # None
      BY <1>1, <1>3, CutsRemove DEF Ongoing, RunInv, Shapes
    <2> HIDE DEF i, r, q, qr, s, p
    <2>4. Changed(i, l, <<{i.ke1.x, p.body.x}>>) /\ l.out = <<Packet(i, "REKEY_DONE", None)>>
      BY <1>2, <1>8, <2>1, <2>2, <2>3, AnswerTaken
    <2> HIDE DEF l
    <2>5. DOMAIN l = Fields /\ l.rekeying = TRUE /\ l.aborted = FALSE
      BY <2>4 DEF Changed
    <2>6. ASSUME NEW y, Keeps(l, y, {"out"}) PROVE Renewed("i", y, r, s, qr \o l.out)
      <3>1. Renewing(y, r, s, qr \o l.out)
        BY <1>2, <1>8, <2>4, <2>6, AnswerRenews
      <3> QED
        BY <3>1 DEF Renewed
    <2> QED
      BY <1>1, <1>5, <2>5, <2>6, RenewTakes DEF i, r, q, qr, s, p, l
  <1> QED
    BY <1>5, <1>6, <1>7, <1>8

LEMMA RenewResponder ==
    ASSUME NoneIsNoRecord, Ongoing, NEW n \in DOMAIN net["r"], Deliver("r", n)
    PROVE  CalmState'
  <1> DEFINE i == end["i"]
             r == end["r"]
             qi == net["i"]
             q == net["r"]
             s == RemoveAt(q, 1)
             p == q[1]
             l == Dispatch(r, p)
  <1>1. "i" \in Ends /\ "r" \in Ends /\ Peer("r") = "i"
    BY Peers DEF Ends
  <1>2. /\ Renewing(i, r, qi, q) /\ i.me = "i" /\ r.me = "r" /\ Packets(q) /\ Packets(qi)
        /\ ~cfg.udp /\ i.rekeying = TRUE /\ r.aborted = FALSE
        /\ DOMAIN r = Fields /\ r.out = <<>>
    BY <1>1, OngoingEnds DEF Renewed
  <1>3. n = 1 /\ 1 \in DOMAIN q /\ q # <<>>
    <2>1. n = 1 /\ 1 \in DOMAIN q
      BY <1>2 DEF Deliver
    <2> QED
      BY <2>1, NoPackets
  <1>4. ResponderHead(i, r, qi, q)
    BY <1>2, <1>3, ResponderHears
  <1>5. /\ p.key = r.recv
        /\ \/ p.t = "DATA" /\ Renewing(i, r, qi, s)
           \/ p.t = "REKEY_DONE" /\ Switched(r, i, s, qi)
           \/ p.t = "REKEY" /\ RekeyCame(i, r, qi, s)
           \/ p.t = "KEY_EXCHANGE_1" /\ KeyCame(i, r, qi, s, p)
    BY <1>4 DEF ResponderHead
  <1>6. p # None
    BY <1>1, <1>3, CutsRemove DEF Ongoing, RunInv, Shapes
  <1>7. CASE p.t = "DATA" /\ Renewing(i, r, qi, s)
    BY <1>1, <1>5, <1>7, RenewIgnores DEF Renewed
  <1>8. CASE p.t = "REKEY_DONE" /\ Switched(r, i, s, qi)
    BY <1>1, <1>5, <1>8, RenewFinishes
  <1>9. CASE p.t = "REKEY" /\ RekeyCame(i, r, qi, s)
    <2>1. ~r.link /\ r.rekey.pfs \in BOOLEAN
      BY <1>9 DEF RekeyCame, Settled, Base
    <2>2. r.rekey # None
      <3>1. PICK f \in BOOLEAN, a \in Counts, b \in Counts : Keying(i, r, f, a, b, qi, q)
        BY DEF Ongoing, RekeyInv, Counts
      <3>2. r.rekey = [pfs |-> f, of |-> Mat(f, b)]
        BY <3>1 DEF Keying, Responds
      <3> QED
        BY <3>2 DEF NoneIsNoRecord
    <2> HIDE DEF i, r, q, qi, s, p
    <2>3. /\ DOMAIN l = Fields /\ l.me = r.me /\ l.link /\ l.rekeying = TRUE /\ l.aborted = FALSE
          /\ l.recv = r.recv /\ l.rekey = r.rekey
          /\ r.rekey.pfs => l.st = "r_phase2" /\ l.send = r.send /\ l.out = <<>>
          /\ ~r.rekey.pfs => /\ Changed(r, l, Append(r.rekey.of, {}))
                             /\ l.out = <<Packet(r, "REKEY_DONE", None)>>
      BY <1>2, <1>9, <2>1, <2>2, RekeyTaken
    <2> HIDE DEF l
    <2>4. ASSUME NEW y, Keeps(l, y, {"out"}) PROVE Renewed("r", y, i, s, qi \o l.out)
      <3>1. Renewing(i, y, qi \o l.out, s)
        BY <1>2, <1>9, <2>3, <2>4, RekeyRenews
      <3> QED
        BY <3>1 DEF Renewed
    <2> QED
      BY <1>1, <1>5, <2>3, <2>4, RenewTakes DEF i, r, q, qi, s, p, l
  <1>10. CASE p.t = "KEY_EXCHANGE_1" /\ KeyCame(i, r, qi, s, p)
    <2>1. r.rekey.pfs /\ r.link /\ r.st = "r_phase2"
      BY <1>10 DEF KeyCame, Underway
    <2>2. Steady(r)
      BY <1>1, <2>1, OngoingEnds DEF Steady
    <2> HIDE DEF i, r, q, qi, s, p
    <2> DEFINE x == <<"r", r.round>>
    <2>3. /\ Changed(r, l, <<{p.body.x, x}>>)
          /\ \E ke : /\ ke.x = x
                     /\ l.out = <<Packet(r, "KEY_EXCHANGE_2", ke), Packet(r, "REKEY_DONE", None)>>
      BY <1>2, <1>6, <1>10, <2>1, <2>2, KeyTaken
    <2> HIDE DEF l, x
    <2>4. DOMAIN l = Fields /\ l.rekeying = TRUE /\ l.aborted = FALSE
      BY <2>3 DEF Changed
    <2>5. PICK ke : /\ ke.x = x
                    /\ l.out = <<Packet(r, "KEY_EXCHANGE_2", ke), Packet(r, "REKEY_DONE", None)>>
      BY <2>3
    <2>6. ASSUME NEW y, Keeps(l, y, {"out"}) PROVE Renewed("r", y, i, s, qi \o l.out)
      <3>1. Renewing(i, y, qi \o l.out, s)
        BY <1>2, <1>10, <2>3, <2>5, <2>6, KeyRenews
      <3> QED
        BY <3>1 DEF Renewed
    <2> QED
      BY <1>1, <1>5, <2>4, <2>6, RenewTakes DEF i, r, q, qi, s, p, l
  <1> QED
    BY <1>5, <1>7, <1>8, <1>9, <1>10

-----------------------------------------------------------------------------
(***************************************************************************)
(* The undisturbed connection, step by step.                               *)
(***************************************************************************)

LEMMA CalmInit ==
    ASSUME Init
    PROVE  CalmInv
  <1> DEFINE i == end["i"]
             r == end["r"]
  <1>1. aborts \in Nat /\ net["i"] = <<>> /\ net["r"] = <<>>
    BY DEF Init, Ends
  <1>2. /\ Fresh(i) /\ i.st = "i_start" /\ i.runs = 1 /\ ~i.aborted /\ ~i.rekeying
        /\ Fresh(r) /\ r.st = "r_start" /\ r.runs = 1 /\ ~r.aborted
    BY DEF Init, Started, Idle, Fresh, Ends
  <1>3. Rests(r)
    BY <1>2 DEF Rests, One
  <1>4. Before(i, r, net["i"], net["r"])
    BY <1>1, <1>2, <1>3 DEF Before
  <1>5. CalmState
    BY <1>2, <1>4 DEF CalmState, Opening, Ends
  <1> QED
    BY <1>1, <1>5 DEF CalmInv

\* A step that leaves the connection undisturbed is a run of the machine, a
\* packet in its order, data, a new re-key, or the end of a context.
LEMMA CalmSteps ==
    ASSUME RunInv, CalmInv, Next, Calm'
    PROVE  /\ Calm /\ CalmState
           /\ \/ DoRekey
              \/ \E e \in Ends :
                    \/ FsmRun(e) \/ Finished(e) \/ OwnerFree(e) \/ SendData(e)
                    \/ \E n \in DOMAIN net[e] : Deliver(e, n)
  <1>1. ASSUME NEW e \in Ends PROVE ~Timeout(e) /\ ~Abort(e)
    <2>1. ~Timeout(e)
      BY DEF Timeout, Calm
    <2>2. ~Abort(e)
      BY DEF Abort, Calm, CalmInv
    <2> QED
      BY <2>1, <2>2
  <1>2. ASSUME NEW e \in Ends, cfg.udp PROVE FALSE
    <2>1. cfg' = cfg
      BY DEF Next, DoRekey, FsmRun, Timeout, Retry, Finished, OwnerFree, Abort, SendData, Deliver, Lose, Duplicate
    <2> QED
      BY <1>2, <2>1 DEF Calm
  <1>3. ASSUME NEW e \in Ends
        PROVE  ~Retry(e) /\ \A n \in DOMAIN net[e] : ~Lose(e, n) /\ ~Duplicate(e, n)
    <2>1. Waking(end[e])
      BY Locals
    <2>2. ~Retry(e)
      BY <1>2, <2>1 DEF Retry, Waking
    <2>3. \A n \in DOMAIN net[e] : ~Lose(e, n) /\ ~Duplicate(e, n)
      BY <1>2 DEF Lose, Duplicate
    <2> QED
      BY <2>2, <2>3
  <1>4. \/ DoRekey
        \/ \E e \in Ends :
              \/ FsmRun(e) \/ Finished(e) \/ OwnerFree(e) \/ SendData(e)
              \/ \E n \in DOMAIN net[e] : Deliver(e, n)
    BY <1>1, <1>3 DEF Next
  <1>5. UNCHANGED <<cfg, late, aborts>>
    BY <1>4 DEF DoRekey, FsmRun, Finished, OwnerFree, SendData, Deliver
  <1> QED
    BY <1>4, <1>5 DEF Calm, CalmInv

LEMMA CalmEnds ==
    ASSUME RunInv, NEW e \in Ends, Finished(e) \/ OwnerFree(e)
    PROVE  \E l : Keeps(end[e], l, {"fin", "held", "refcnt"}) /\ Put(e, l, net)
  <1>1. DOMAIN end[e] = Fields
    BY Locals DEF Formed
  <1>2. CASE Finished(e)
    <2> DEFINE l == [end[e] EXCEPT !.fin = FALSE, !.refcnt = @ - 1]
    <2>1. Keeps(end[e], l, {"fin", "held", "refcnt"})
      BY <1>1 DEF Keeps, Fields
    <2> QED
      BY <1>2, <2>1 DEF Finished
  <1>3. CASE OwnerFree(e)
    <2> DEFINE l == [end[e] EXCEPT !.held = FALSE, !.refcnt = @ - 1]
    <2>1. Keeps(end[e], l, {"fin", "held", "refcnt"})
      BY <1>1 DEF Keeps, Fields
    <2> QED
      BY <1>3, <2>1 DEF OwnerFree
  <1> QED
    BY <1>2, <1>3

LEMMA OpenNext ==
    ASSUME NoneIsNoRecord, Signing, Open, TrustInv',
           \/ DoRekey
           \/ \E e \in Ends :
                 \/ FsmRun(e) \/ Finished(e) \/ OwnerFree(e) \/ SendData(e)
                 \/ \E n \in DOMAIN net[e] : Deliver(e, n)
    PROVE  CalmState'
  <1>1. ASSUME NEW e \in Ends, Finished(e) \/ OwnerFree(e) PROVE CalmState'
    <2>1. PICK l : Keeps(end[e], l, {"fin", "held", "refcnt"}) /\ Put(e, l, net)
      BY <1>1, CalmEnds DEF Open
    <2> QED
      BY <2>1, OpenEdit
  <1>2. ASSUME NEW e \in Ends, NEW n \in DOMAIN net[e], Deliver(e, n) PROVE CalmState'
    BY <1>2, OpenDelivers
  <1> QED
    BY <1>1, <1>2, OpenDoRekey, OpenRuns, OpenSendData

LEMMA RenewNext ==
    ASSUME NoneIsNoRecord, Ongoing,
           \/ DoRekey
           \/ \E e \in Ends :
                 \/ FsmRun(e) \/ Finished(e) \/ OwnerFree(e) \/ SendData(e)
                 \/ \E n \in DOMAIN net[e] : Deliver(e, n)
    PROVE  CalmState'
  <1>1. ASSUME NEW e \in Ends, Finished(e) \/ OwnerFree(e) PROVE CalmState'
    <2>1. PICK l : Keeps(end[e], l, {"fin", "held", "refcnt"}) /\ Put(e, l, net)
      BY <1>1, CalmEnds DEF Ongoing
    <2> QED
      BY <2>1, RenewEdit
  <1>2. ASSUME NEW e \in Ends, NEW n \in DOMAIN net[e], Deliver(e, n) PROVE CalmState'
    <2>1. CASE e = "i"
      BY <1>2, <2>1, RenewInitiator
    <2>2. CASE e = "r"
      BY <1>2, <2>2, RenewResponder
    <2> QED
      BY <2>1, <2>2 DEF Ends
  <1> QED
    BY <1>1, <1>2, RenewDoRekey, RenewRuns, RenewSendData

LEMMA CalmNext ==
    ASSUME NoneIsNoRecord, Signing, RunInv, TrustInv, TrustInv', RekeyInv, CalmInv, [Next]_vars
    PROVE  CalmInv'
  <1>1. CASE Next
    <2>1. aborts' \in Nat
      <3>1. aborts' = aborts \/ aborts' = aborts + 1
        BY <1>1 DEF Next, DoRekey, FsmRun, Timeout, Retry, Finished, OwnerFree, Abort,
                    SendData, Deliver, Lose, Duplicate
      <3> QED
        BY <3>1 DEF CalmInv
    <2>2. ASSUME Calm' PROVE CalmState'
      <3>1. /\ Calm /\ CalmState
            /\ \/ DoRekey
               \/ \E e \in Ends :
                     \/ FsmRun(e) \/ Finished(e) \/ OwnerFree(e) \/ SendData(e)
                     \/ \E n \in DOMAIN net[e] : Deliver(e, n)
        BY <1>1, <2>2, CalmSteps
      <3>2. CASE end["i"].rekeying
        <4>1. Ongoing
          BY <3>1, <3>2 DEF Ongoing
        <4> QED
          BY <3>1, <4>1, RenewNext
      <3>3. CASE ~end["i"].rekeying
        <4>1. Open
          BY <3>1, <3>3 DEF Open, Calm
        <4> QED
          BY <3>1, <4>1, OpenNext
      <3> QED
        BY <3>2, <3>3
    <2> QED
      BY <2>1, <2>2 DEF CalmInv
  <1>2. CASE UNCHANGED vars
    BY <1>2 DEF vars, CalmInv, Calm, CalmState
  <1> QED
    BY <1>1, <1>2

\* Over a stream, while no timeout has fired and no exchange was aborted, the
\* two ends and what is between them are always at one of the points of a
\* first exchange or of a re-key that CalmState lists: silc_ske_st_initiator_*,
\* silc_ske_st_responder_* and silc_ske_st_rekey_*.
THEOREM CalmCorrect ==
    ASSUME NoneIsNoRecord, Signing
    PROVE  Spec => []CalmInv
  <1>1. RunInv /\ TrustInv /\ TrustInv' /\ RekeyInv /\ CalmInv /\ [Next]_vars => CalmInv'
    BY CalmNext
  <1>2. Spec => []RunInv /\ []TrustInv /\ []RekeyInv
    BY RunCorrect, TrustCorrect, RekeyCorrect
  <1> QED
    BY <1>1, <1>2, CalmInit, PTL DEF Spec

LEMMA OpenInStep ==
    ASSUME Open, NEW e \in Ends, net[e] # <<>>
    PROVE  net[e][1].key = end[e].recv
  <1> DEFINE k == end[e]
             j == end[Peer(e)]
             q == net[e]
             qj == net[Peer(e)]
  <1>1. Opens(e, k, j, q, qj) /\ Packets(q) /\ q # <<>>
    BY OpenEnds
  <1> HIDE DEF k, j, q, qj
  <1>2. \/ k.recv = None /\ \E t : Sole(q, t)
        \/ \E c \in DOMAIN q : Bears(k, j, q, c, "SUCCESS")
        \/ Clean(k, q)
    BY <1>1, DeliverCases DEF Fresh, Confirming, Completes
  <1>3. q[1].key = k.recv
    BY <1>1, <1>2, CleanTaken, BearsTaken DEF Sole
  <1> QED
    BY <1>3 DEF k, q

LEMMA RenewInStep ==
    ASSUME Ongoing, NEW e \in Ends, net[e] # <<>>
    PROVE  net[e][1].key = end[e].recv
  <1>1. Renewed(e, end[e], end[Peer(e)], net[e], net[Peer(e)]) /\ Packets(net[e])
    BY OngoingEnds
  <1>2. CASE e = "i"
    <2>1. InitiatorHead(end["i"], end[Peer(e)], net["i"], net[Peer(e)])
      BY <1>1, <1>2, InitiatorHears DEF Renewed
    <2> QED
      BY <1>2, <2>1 DEF InitiatorHead
  <1>3. CASE e = "r"
    <2>1. ResponderHead(end[Peer(e)], end["r"], net[Peer(e)], net["r"])
      BY <1>1, <1>3, ResponderHears DEF Renewed
    <2> QED
      BY <1>3, <2>1 DEF ResponderHead
  <1> QED
    BY <1>2, <1>3 DEF Ends

\* Over a stream, with no timeout and no abort, the packet an end reads next
\* was encrypted with the key that end decrypts with, at every point of the
\* first exchange and of a re-key: the places at which silc_ske_st_responder_end,
\* silc_ske_st_initiator_end, silc_ske_st_rekey_initiator_end and
\* silc_ske_st_rekey_responder_end set the keys of the two directions.
THEOREM KeysInStepCorrect ==
    ASSUME NoneIsNoRecord, Signing
    PROVE  Spec => []KeysInStep
  <1>1. RunInv /\ TrustInv /\ RekeyInv /\ CalmInv => KeysInStep
    <2> SUFFICES ASSUME RunInv, TrustInv, RekeyInv, CalmInv, Calm,
                        NEW e \in Ends, net[e] # <<>>
                 PROVE  Head(net[e]).key = end[e].recv
      BY DEF KeysInStep, Calm
    <2>1. CalmState /\ ~cfg.udp
      BY DEF CalmInv, Calm
    <2>2. net[e][1].key = end[e].recv
      <3>1. CASE end["i"].rekeying
        BY <2>1, <3>1, RenewInStep DEF Ongoing
      <3>2. CASE ~end["i"].rekeying
        BY <2>1, <3>2, OpenInStep DEF Open
      <3> QED
        BY <3>1, <3>2
    <2> QED
      BY <2>2
  <1>2. Spec => []RunInv /\ []TrustInv /\ []RekeyInv /\ []CalmInv
    BY RunCorrect, TrustCorrect, RekeyCorrect, CalmCorrect
  <1> QED
    BY <1>1, <1>2, PTL

LEMMA OpenVerdict ==
    ASSUME Open, \A e \in Ends : net[e] = <<>> /\ end[e].runs = 0
    PROVE  (\A e \in Ends : ~end[e].link) /\ end["i"].done = end["r"].done
  <1> DEFINE i == end["i"]
             r == end["r"]
  <1>1. net["i"] = <<>> /\ net["r"] = <<>> /\ i.runs = 0 /\ r.runs = 0
    BY DEF Ends
  <1>2. Opening(i, r, <<>>, <<>>)
    BY <1>1 DEF Open, CalmState
  <1>3. \A t : ~Sole(<<>>, t)
    BY NoPackets DEF Sole
  <1>4. \A t : ~Holds(i, t) /\ ~Holds(r, t)
    BY <1>1 DEF Holds, One
  <1>5. /\ ~Before(i, r, <<>>, <<>>) /\ ~Turn(i, r, <<>>, <<>>) /\ ~Turn(r, i, <<>>, <<>>)
        /\ ~Ending(i, r, <<>>, <<>>) /\ ~Ending(r, i, <<>>, <<>>)
    BY <1>1, <1>3, <1>4 DEF Before, Turn, Ending
  <1>6. ~Confirming(i, r, <<>>, <<>>)
    BY NoPackets DEF Confirming
  <1>7. Completes(i, r, <<>>, <<>>) \/ Fails(i, r, <<>>, <<>>)
    BY <1>2, <1>5, <1>6 DEF Opening
  <1> QED
    BY <1>7 DEF Completes, Fails, Succeeded, Failed, Ends

LEMMA RenewVerdict ==
    ASSUME Ongoing, \A e \in Ends : net[e] = <<>> /\ end[e].runs = 0
    PROVE  (\A e \in Ends : ~end[e].link) /\ end["i"].done = end["r"].done
  <1> DEFINE i == end["i"]
             r == end["r"]
  <1>1. net["i"] = <<>> /\ net["r"] = <<>> /\ i.runs = 0 /\ Waking(i)
    BY OngoingEnds DEF Ends
  <1>2. Renewing(i, r, <<>>, <<>>)
    BY <1>1 DEF Ongoing, CalmState
  <1>3. ~Underway(i, "rekey_i_start")
    BY <1>1 DEF Underway, Waking, One
  <1>4. Quiet(i, r, <<>>, <<>>)
    BY <1>2, NoPackets DEF Renewing, Asked, AskedKey, Answered, Switches, Leads
  <1>5. Settled(i) /\ Settled(r)
    BY <1>3, <1>4 DEF Quiet
  <1> QED
    BY <1>5 DEF Settled, Ends

\* Over a stream, with no timeout and no abort, when nothing is left to
\* deliver or to run, no exchange is left open and both ends have completed it
\* or both have failed, in the first exchange and in a re-key:
\* silc_ske_st_initiator_error, silc_ske_st_responder_failure and the final
\* states of both.
THEOREM SameVerdictCorrect ==
    ASSUME NoneIsNoRecord, Signing
    PROVE  Spec => []SameVerdict
  <1>1. RunInv /\ TrustInv /\ RekeyInv /\ CalmInv => SameVerdict
    <2> SUFFICES ASSUME RunInv, TrustInv, RekeyInv, CalmInv, Calm,
                        \A e \in Ends : net[e] = <<>> /\ end[e].runs = 0
                 PROVE  (\A e \in Ends : ~end[e].link) /\ end["i"].done = end["r"].done
      BY DEF SameVerdict, Calm
    <2>1. CalmState /\ ~cfg.udp
      BY DEF CalmInv, Calm
    <2>2. CASE end["i"].rekeying
      BY <2>1, <2>2, RenewVerdict DEF Ongoing
    <2>3. CASE ~end["i"].rekeying
      BY <2>1, <2>3, OpenVerdict DEF Open
    <2> QED
      BY <2>2, <2>3
  <1>2. Spec => []RunInv /\ []TrustInv /\ []RekeyInv /\ []CalmInv
    BY RunCorrect, TrustCorrect, RekeyCorrect, CalmCorrect
  <1> QED
    BY <1>1, <1>2, PTL

=============================================================================
