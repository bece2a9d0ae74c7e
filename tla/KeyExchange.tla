---------------------------- MODULE KeyExchange -----------------------------
(***************************************************************************)
(* The SILC Key Exchange (silcske.c) between the initiator "i" and the     *)
(* responder "r" of one connection, and the re-keys of that connection,    *)
(* with what server.c does in the completion callbacks.                    *)
(*                                                                         *)
(* end[e] is everything end e keeps: its SilcSKE with the state machine    *)
(* that runs it, the tasks registered for it, and the keys of the packet   *)
(* stream.  Each state of the machine is an operator on that record: a     *)
(* state that returns SILC_FSM_CONTINUE uses the operator of the next one, *)
(* one that returns SILC_FSM_WAIT leaves its name in `st'.  `out' collects *)
(* the packets of a step.                                                  *)
(*                                                                         *)
(* The Diffie-Hellman exchange is symbolic: the random number of end e in  *)
(* round n is <<e, n>>, KEY is the set of both numbers, and a key material *)
(* is the sequence of KEYs it was derived from ({} for a re-key without    *)
(* PFS, which only hashes the old key).  Running out of memory is left out.*)
(***************************************************************************)
EXTENDS Naturals, Sequences, FiniteSets, SequencesExt

CONSTANTS
    Configs,     \* the connections considered (see ConfigOK)
    RetryCount,  \* SILC_SKE_RETRY_COUNT (4)
    MaxRekeys,   \* bound: re-keys of the connection
    MaxFaults,   \* bound: datagrams lost or duplicated
    MaxResent,   \* bound: retransmissions
    MaxAborts,   \* bound: aborted exchanges
    MaxData,     \* bound: data packets of each end
    None         \* no packet, no key, no material (a model value)

Ends == {"i", "r"}
Peer(e) == CHOOSE f \in Ends : f # e

\* The classes of algorithms that are negotiated, in the order of selection.
Classes == <<"GROUP", "PKCS", "CIPHER", "HASH", "HMAC">>
ClassNames == {Classes[c] : c \in DOMAIN Classes}

(* A connection: over UDP or TCP; the flags the initiator proposes and the *)
(* ones the responder requires; the proposed algorithms and the ones the   *)
(* responder has; whether an end accepts the other's public key, whether   *)
(* its own signatures can be computed, and whether its version is valid.   *)
ConfigOK(c) ==
    /\ {c.udp} \subseteq BOOLEAN
    /\ c.flags \cup c.required \subseteq {"PFS", "MUTUAL", "IV"}
    /\ DOMAIN c.offer = ClassNames /\ DOMAIN c.supported = ClassNames
    /\ \A a \in ClassNames : c.offer[a] \in Seq(Range(c.offer[a]))
    /\ \A f \in {c.accepts, c.signs, c.version} : f \in [Ends -> BOOLEAN]

ASSUME KeyExchangeAssumption ==
    /\ \A c \in Configs : ConfigOK(c)
    /\ {RetryCount, MaxRekeys, MaxFaults, MaxResent, MaxAborts, MaxData}
          \subseteq Nat

VARIABLES
    cfg,       \* the connection's configuration
    end,       \* end[e]: the exchange and the stream of end e
    net,       \* net[e]: packets under way to e
    faults,    \* datagrams lost or duplicated so far
    resent,    \* retransmissions so far
    late,      \* a timeout has fired
    aborts     \* exchanges aborted so far

vars == <<cfg, end, net, faults, resent, late, aborts>>

-----------------------------------------------------------------------------
(* The status codes of silcske.h above INVALID_COOKIE are never sent.      *)
LocalStatus == {"SIGNATURE_ERROR", "PUBLIC_KEY_NOT_PROVIDED", "TIMEOUT"}
Statuses ==
    {"OK", "ERROR", "BAD_PAYLOAD", "BAD_VERSION", "UNSUPPORTED_PUBLIC_KEY",
     "INCORRECT_SIGNATURE", "GROUP", "PKCS", "CIPHER", "HASH", "HMAC"}
        \cup LocalStatus

Types == {"KEY_EXCHANGE", "KEY_EXCHANGE_1", "KEY_EXCHANGE_2", "SUCCESS",
          "FAILURE", "REKEY", "REKEY_DONE", "DATA"}

(* The packets an exchange is linked to on the stream.                     *)
Linked(k) ==
    {"SUCCESS", "FAILURE"}
        \cup (IF k.rekeying THEN {"REKEY", "REKEY_DONE"} ELSE {"KEY_EXCHANGE"})
        \cup {IF k.me = "r" THEN "KEY_EXCHANGE_1" ELSE "KEY_EXCHANGE_2"}

\* The reference of the machine is taken twice.
StartedTwice(k, st, rekeying, pkt) ==
    [k EXCEPT !.st = st, !.link = TRUE, !.runs = 0, !.rekeying = rekeying,
              !.pkt = pkt, !.status = "OK", !.notified = FALSE,
              !.aborted = FALSE, !.refcnt = 3, !.start = None, !.prop = None,
              !.ke1 = None, !.ke2 = None, !.KEY = {}, !.keymat = None,
              !.round = @ + 1, !.done = "no"]

(* silc_ske_alloc, and what the functions that start an exchange set.      *)
Started(k, st, rekeying, pkt) ==
    [k EXCEPT !.st = st, !.link = TRUE, !.runs = 0, !.rekeying = rekeying,
              !.pkt = pkt, !.status = "OK", !.notified = FALSE,
              !.aborted = FALSE, !.refcnt = 2, !.start = None, !.prop = None,
              !.ke1 = None, !.ke2 = None, !.KEY = {}, !.keymat = None,
              !.round = @ + 1, !.done = "no"]

Idle(e) ==
    [me |-> e, st |-> "none", link |-> FALSE, runs |-> 0, fin |-> FALSE,
     timer |-> FALSE, retry |-> FALSE, count |-> 0, retrans |-> None,
     pkt |-> None, status |-> "OK", notified |-> FALSE, aborted |-> FALSE,
     refcnt |-> 0, rekeying |-> FALSE, start |-> None, prop |-> None,
     ke1 |-> None, ke2 |-> None, KEY |-> {}, keymat |-> None, round |-> 0,
     done |-> "no", send |-> None, recv |-> None, rekey |-> None,
     hist |-> <<>>, data |-> 0, held |-> FALSE, null |-> FALSE,
     out |-> <<>>]

(* silc_ske_initiator and silc_ske_responder have been called; the state   *)
(* machines have been started (a silc_fsm_run task each).                  *)
Init ==
    /\ cfg \in Configs
    /\ end = [e \in Ends |->
                [Started(Idle(e), IF e = "i" THEN "i_start" ELSE "r_start",
                         FALSE, None) EXCEPT !.runs = 1]]
    /\ net = [e \in Ends |-> <<>>]
    /\ faults = 0
    /\ resent = 0
    /\ late = FALSE
    /\ aborts = 0

-----------------------------------------------------------------------------
(* Sending, completion, and the ways out of the protocol.                  *)

(* silc_ske_packet_send, with silc_ske_install_retransmission.             *)
Send(k, type, body) ==
    LET p == [t |-> type, key |-> k.send, body |-> body] IN
    IF cfg.udp /\ type \notin {"FAILURE", "REKEY"}
    THEN [k EXCEPT !.out = Append(@, p), !.retrans = p, !.retry = TRUE]
    ELSE [k EXCEPT !.out = Append(@, p)]

\* A packet of a type that is not awaited: it is dropped, and what this end
\* sent last will be sent again.
OldPacket(k) ==
    [k EXCEPT !.pkt = None,
              !.retry = ~k.rekeying /\ cfg.udp /\ k.retrans # None]

(* silc_ske_set_keys: the key end e sends with, or receives with.          *)
Key(m, sender) == [m |-> m, by |-> sender]

(* The completion callbacks of server.c.  After the first exchange the     *)
(* keys of both directions are taken into use and the reference of the     *)
(* owner is kept by the authentication that follows; a failure gives the   *)
(* reference back.  The owners of a re-key never do.                       *)
ServerCompleted(k) ==
    CASE k.status # "OK" /\ k.rekeying -> [k EXCEPT !.done = "failed"]
      [] k.status # "OK" /\ ~k.rekeying ->
            [k EXCEPT !.done = "failed", !.refcnt = @ - 1]
      [] k.status = "OK" /\ k.rekeying ->
            [k EXCEPT !.done = "ok", !.hist = Append(@, k.keymat)]
      [] OTHER ->
            [k EXCEPT !.done = "ok", !.held = TRUE,
                      !.send = Key(k.keymat, k.me),
                      !.recv = Key(k.keymat, Peer(k.me)),
                      !.hist = Append(@, k.keymat)]

(* silc_ske_completion: not called for an aborted exchange.                *)
Completion(k) ==
    IF k.aborted THEN [k EXCEPT !.done = "aborted"] ELSE ServerCompleted(k)

\* The timeout of the exchange is left behind.
FinishKeepsTimer(k) ==
    Completion([k EXCEPT !.link = FALSE, !.retry = FALSE, !.st = "none",
                         !.runs = 0, !.fin = TRUE])

(* Every way out: unlink from the stream, delete the tasks of the exchange,*)
(* call the completion, and SILC_FSM_FINISH, which deletes the runs that   *)
(* are scheduled and schedules the destructor.                             *)
Finish(k) ==
    Completion([k EXCEPT !.link = FALSE, !.timer = FALSE, !.retry = FALSE,
                         !.st = "none", !.runs = 0, !.fin = TRUE])

\* The payload of FAILURE and SUCCESS.
Code(s) == [status |-> s]

Aborted(k) == Finish(Send(k, "FAILURE", Code("ERROR")))

\* The other end is not told.
InitiatorErrorSilent(k) == Finish(k)

InitiatorError(k) ==
    Finish(Send(k, "FAILURE",
                Code(IF k.status \in LocalStatus THEN "ERROR" ELSE k.status)))

ResponderError(k) ==
    LET s == IF k.status \in LocalStatus THEN "BAD_PAYLOAD" ELSE k.status IN
    Finish(Send([k EXCEPT !.status = s], "FAILURE", Code(s)))

(* silc_ske_st_initiator_failure and silc_ske_st_responder_failure: the    *)
(* status is the one of a packet of four bytes (a FAILURE or a SUCCESS).   *)
Failure(k) ==
    LET p == k.pkt
        four == IF p = None THEN FALSE ELSE p.t \in {"FAILURE", "SUCCESS"} IN
    Finish([k EXCEPT !.status = IF four THEN p.body.status ELSE "ERROR",
                     !.pkt = IF four THEN None ELSE p])

(* silc_ske_notify_failure *)
NotifyFailure(k) ==
    IF k.notified THEN k ELSE [k EXCEPT !.notified = TRUE, !.st = "failure"]

-----------------------------------------------------------------------------
(* The data of the protocol.                                               *)

(* silc_ske_select_security_properties: of a list the first algorithm that *)
(* is supported; an only proposal is taken as it is, and all but the PKCS  *)
(* are tried afterwards.                                                   *)
SelectOf(c) ==
    LET list == cfg.offer[c]
        known == {n \in DOMAIN list : list[n] \in cfg.supported[c]} IN
    CASE Len(list) = 1 /\ (c = "PKCS" \/ known # {}) -> list[1]
      [] Len(list) > 1 /\ known # {} ->
            list[CHOOSE n \in known : \A j \in known : n <= j]
      [] OTHER -> None

Unknown == {n \in DOMAIN Classes : SelectOf(Classes[n]) = None}

SelectStatus ==
    IF \E c \in ClassNames : cfg.offer[c] = <<>> THEN "BAD_PAYLOAD"
    ELSE IF ~cfg.version["i"] THEN "BAD_VERSION"
    ELSE IF Unknown # {}
         THEN Classes[CHOOSE n \in Unknown : \A j \in Unknown : n <= j]
         ELSE "OK"

(* The flags of the responder's answer.                                    *)
Forced(flags) ==
    (flags \cup (cfg.required \cap {"MUTUAL", "PFS"}))
        \ (IF "IV" \in cfg.required THEN {} ELSE {"IV"})

(* silc_ske_make_hash: HASH_i, and HASH.                                   *)
HashI(k) == <<k.start, k.ke1.x>>
Hash(k) == <<k.start, k.ke1.x, k.ke2.x, k.KEY>>

\* silc_pkcs_sign with the key of end e, which may fail (None).
Sign(e, hash) == IF cfg.signs[e] THEN [by |-> e, of |-> hash] ELSE None

\* Derived from the random number of this end only.
KeyedLocal(k) ==
    LET m == <<{<<k.me, k.round>>}>> IN
    [k EXCEPT !.keymat = m, !.rekey = [pfs |-> "PFS" \in k.prop.flags, of |-> m]]

(* silc_ske_process_key_material and silc_ske_make_rekey_material.         *)
Keyed(k) ==
    LET m == <<k.KEY>> IN
    [k EXCEPT !.keymat = m, !.rekey = [pfs |-> "PFS" \in k.prop.flags, of |-> m]]

(* silc_ske_st_rekey_initiator_done, silc_ske_st_rekey_responder_done:     *)
(* derive the new material, send REKEY_DONE under the old key and take the *)
(* new one into use for sending (silc_packet_set_keys).                    *)
RekeyDone(k) ==
    LET m == IF k.rekey.pfs THEN <<k.KEY>> ELSE Append(k.rekey.of, {})
        sent == [k EXCEPT !.out = Append(@, [t |-> "REKEY_DONE",
                                             key |-> k.send, body |-> None])] IN
    [sent EXCEPT !.keymat = m, !.send = Key(m, k.me), !.st = "rekey_end"]

(* silc_ske_st_rekey_initiator_end, silc_ske_st_rekey_responder_end: the   *)
(* other end's REKEY_DONE switches the receiving key.                      *)
RekeyEnd(k) ==
    IF k.pkt.t # "REKEY_DONE" THEN OldPacket(k)
    ELSE Finish([k EXCEPT !.recv = Key(k.keymat, Peer(k.me)),
                          !.rekey = [pfs |-> k.rekey.pfs, of |-> k.keymat],
                          !.pkt = None])

-----------------------------------------------------------------------------
(* The states of the initiator.                                            *)

InitiatorStart(k) ==
    IF k.aborted THEN Aborted(k)
    ELSE LET p == [flags |-> cfg.flags, alg |-> cfg.offer] IN
         [Send([k EXCEPT !.start = p], "KEY_EXCHANGE", p)
            EXCEPT !.timer = TRUE, !.st = "i_phase1"]

(* Sends the KE payload, signed when the authentication is mutual.  A      *)
(* re-key uses neither signatures nor flags.                               *)
InitiatorPhase2(k) ==
    LET x == <<"i", k.round>>
        mutual == ~k.rekeying /\ "MUTUAL" \in k.prop.flags
        unsigned == [k EXCEPT !.ke1 = [x |-> x, sign |-> None]]
        sign == Sign("i", HashI(unsigned))
        ke == [x |-> x, sign |-> IF mutual THEN sign ELSE None] IN
    IF mutual /\ sign = None
    THEN InitiatorError([k EXCEPT !.status = "SIGNATURE_ERROR"])
    ELSE [Send([k EXCEPT !.ke1 = ke], "KEY_EXCHANGE_1", ke)
            EXCEPT !.st = "i_phase3"]

InitiatorPhase1(k) ==
    LET p == k.pkt
        got == [k EXCEPT !.pkt = None] IN
    CASE p.t # "KEY_EXCHANGE" -> OldPacket(k)
      [] p.t = "KEY_EXCHANGE" /\ ~cfg.version["r"] ->
            InitiatorError([got EXCEPT !.status = "BAD_VERSION"])
      [] OTHER -> InitiatorPhase2([got EXCEPT !.prop = p.body])

(* The signature of the responder is verified, except in a re-key, where   *)
(* it sends none.                                                          *)
InitiatorPhase4(k) ==
    LET s == k.ke2.sign
        forged == ~k.rekeying /\ (s = None \/ s # [by |-> "r", of |-> Hash(k)]) IN
    CASE k.aborted -> Aborted(k)
      [] ~k.aborted /\ k.status # "OK" -> InitiatorError(k)
      [] ~k.aborted /\ k.status = "OK" /\ forged ->
            InitiatorError([k EXCEPT !.status = "INCORRECT_SIGNATURE"])
      [] ~k.aborted /\ k.status = "OK" /\ ~forged /\ k.rekeying ->
            RekeyDone(k)
      [] OTHER -> [Send(Keyed(k), "SUCCESS", Code("OK")) EXCEPT !.st = "i_end"]

\* The public key is not verified.
InitiatorPhase3Trusting(k) ==
    LET p == k.pkt IN
    IF p.t # "KEY_EXCHANGE_2" THEN OldPacket(k)
    ELSE InitiatorPhase4([k EXCEPT !.pkt = None, !.ke2 = p.body,
                                   !.KEY = {k.ke1.x, p.body.x}])

(* Computes KEY and has the public key of the responder verified (the      *)
(* callback of server.c answers at once).                                  *)
InitiatorPhase3(k) ==
    LET p == k.pkt IN
    IF p.t # "KEY_EXCHANGE_2" THEN OldPacket(k)
    ELSE InitiatorPhase4(
            [k EXCEPT !.pkt = None, !.ke2 = p.body,
                      !.KEY = {k.ke1.x, p.body.x},
                      !.status = IF k.rekeying \/ cfg.accepts["i"] THEN @
                                 ELSE "UNSUPPORTED_PUBLIC_KEY"])

InitiatorEnd(k) ==
    IF k.pkt.t # "SUCCESS" THEN OldPacket(k)
    ELSE Finish([k EXCEPT !.pkt = None])

(* silc_ske_st_rekey_initiator_start *)
RekeyInitiatorStart(k) ==
    IF k.aborted THEN Aborted(k)
    ELSE LET sent == Send([k EXCEPT !.timer = TRUE], "REKEY", None) IN
         IF k.rekey.pfs THEN InitiatorPhase2(sent) ELSE RekeyDone(sent)

-----------------------------------------------------------------------------
(* The states of the responder.                                            *)

\* The responder sets no timeout.
ResponderStartUntimed(k) ==
    IF k.aborted THEN Aborted(k) ELSE [k EXCEPT !.st = "r_phase1"]

ResponderStart(k) ==
    IF k.aborted THEN Aborted(k)
    ELSE [k EXCEPT !.timer = TRUE, !.st = "r_phase1"]

(* The type of the packet is not looked at: another one than KEY_EXCHANGE  *)
(* does not decode as a start payload.                                     *)
ResponderPhase1(k) ==
    LET p == k.pkt
        prop == [flags |-> Forced(p.body.flags),
                 alg |-> [c \in ClassNames |-> SelectOf(c)]]
        got == [k EXCEPT !.pkt = None] IN
    CASE p.t # "KEY_EXCHANGE" ->
            ResponderError([got EXCEPT !.status = "BAD_PAYLOAD"])
      [] p.t = "KEY_EXCHANGE" /\ SelectStatus # "OK" ->
            ResponderError([got EXCEPT !.start = p.body, !.status = SelectStatus])
      [] OTHER ->
            [Send([got EXCEPT !.start = p.body, !.prop = prop],
                  "KEY_EXCHANGE", prop) EXCEPT !.st = "r_phase2"]

(* Phase 5.  When the signature cannot be computed the error is kept in a  *)
(* variable of the function only: the status of the exchange remains OK.   *)
ResponderPhase5(k) ==
    LET sign == Sign("r", Hash(k))
        ke == [x |-> k.ke2.x, sign |-> IF k.rekeying THEN None ELSE sign]
        sent == Send([k EXCEPT !.ke2 = ke], "KEY_EXCHANGE_2", ke) IN
    CASE ~k.rekeying /\ sign = None -> ResponderError(k)
      [] k.rekeying -> RekeyDone(sent)
      [] OTHER -> [sent EXCEPT !.st = "r_end"]

(* The signature of the initiator is verified when the authentication is   *)
(* mutual; then KEY is computed.                                           *)
ResponderPhase4(k) ==
    LET x == <<"r", k.round>>
        mutual == ~k.rekeying /\ "MUTUAL" \in k.prop.flags
        s == k.ke1.sign
        forged == mutual /\ (s = None \/ s # [by |-> "i", of |-> HashI(k)]) IN
    CASE k.aborted -> Aborted(k)
      [] ~k.aborted /\ k.status # "OK" -> InitiatorError(k)
      [] ~k.aborted /\ k.status = "OK" /\ forged ->
            ResponderError([k EXCEPT !.status = "INCORRECT_SIGNATURE"])
      [] OTHER -> ResponderPhase5([k EXCEPT !.ke2 = [x |-> x, sign |-> None],
                                            !.KEY = {k.ke1.x, x}])

ResponderPhase2(k) ==
    LET p == k.pkt IN
    IF p.t # "KEY_EXCHANGE_1" THEN OldPacket(k)
    ELSE ResponderPhase4(
            [k EXCEPT !.pkt = None, !.ke1 = p.body,
                      !.status = IF k.rekeying \/ cfg.accepts["r"] THEN @
                                 ELSE "UNSUPPORTED_PUBLIC_KEY"])

ResponderEnd(k) ==
    IF k.pkt.t # "SUCCESS" THEN OldPacket(k)
    ELSE Finish(Send(Keyed([k EXCEPT !.pkt = None]), "SUCCESS", Code("OK")))

(* silc_ske_st_rekey_responder_wait and silc_ske_st_rekey_responder_start. *)
RekeyResponderStart(k) ==
    LET timed == [k EXCEPT !.timer = TRUE] IN
    CASE k.aborted -> Aborted(k)
      [] ~k.aborted /\ k.pkt.t # "REKEY" ->
            ResponderError([timed EXCEPT !.status = "ERROR", !.pkt = None])
      [] ~k.aborted /\ k.pkt.t = "REKEY" /\ k.rekey.pfs ->
            [timed EXCEPT !.st = "r_phase2"]
      [] OTHER -> RekeyDone(timed)

-----------------------------------------------------------------------------
(* The machine and the packets.                                            *)

\* The states that read the packet they were woken for.
Reads == {"i_phase1", "i_phase3", "i_end", "r_phase1", "r_phase2", "r_end",
          "rekey_end"}

(* silc_fsm_run: enter the state the machine is in.  `null' tells that it  *)
(* has ended, or that the packet is gone.                                  *)
Run(k) ==
    CASE k.st = "none" \/ (k.st \in Reads /\ k.pkt = None) ->
            [k EXCEPT !.null = TRUE]
      [] k.st = "i_start" -> InitiatorStart(k)
      [] k.st = "i_phase1" /\ k.pkt # None -> InitiatorPhase1(k)
      [] k.st = "i_phase3" /\ k.pkt # None -> InitiatorPhase3(k)
      [] k.st = "i_end" /\ k.pkt # None -> InitiatorEnd(k)
      [] k.st = "rekey_i_start" -> RekeyInitiatorStart(k)
      [] k.st = "r_start" -> ResponderStart(k)
      [] k.st = "r_phase1" /\ k.pkt # None -> ResponderPhase1(k)
      [] k.st = "r_phase2" /\ k.pkt # None -> ResponderPhase2(k)
      [] k.st = "r_end" /\ k.pkt # None -> ResponderEnd(k)
      [] k.st = "rekey_end" /\ k.pkt # None -> RekeyEnd(k)
      [] k.st = "failure" -> Failure(k)

\* SUCCESS is processed later, as the other packets are.
PacketReceiveLater(k, p) ==
    LET got == [k EXCEPT !.count = 0, !.retry = FALSE, !.pkt = p]
        told == IF p.t = "FAILURE" THEN NotifyFailure(got) ELSE got IN
    CASE k.aborted -> Aborted([got EXCEPT !.pkt = None])
      [] ~k.aborted /\ k.rekeying -> Run(told)
      [] OTHER -> [told EXCEPT !.runs = @ + 1]

(* silc_ske_packet_receive: SUCCESS and the packets of a re-key run the    *)
(* machine at once, the others schedule a run.                             *)
PacketReceive(k, p) ==
    LET got == [k EXCEPT !.count = 0, !.retry = FALSE, !.pkt = p]
        told == IF p.t = "FAILURE" THEN NotifyFailure(got) ELSE got IN
    CASE k.aborted -> Aborted([got EXCEPT !.pkt = None])
      [] ~k.aborted /\ (k.rekeying \/ p.t = "SUCCESS") -> Run(told)
      [] OTHER -> [told EXCEPT !.runs = @ + 1]

(* silc_server_rekey: a REKEY nobody is linked for starts a re-key as      *)
(* responder, with the packet already there.                               *)
ServerRekey(k, p) ==
    IF k.rekey = None THEN k
    ELSE RekeyResponderStart(Started(k, "rekey_r_start", TRUE, p))

(* silc_packet_dispatch of a packet that could be decrypted.               *)
Dispatch(k, p) ==
    CASE k.link /\ p.t \in Linked(k) -> PacketReceive(k, p)
      [] ~k.link /\ p.t = "REKEY" -> ServerRekey(k, p)
      [] OTHER -> k

Put(e, k, rest) ==
    /\ end' = [end EXCEPT ![e] = [k EXCEPT !.out = <<>>]]
    /\ net' = [rest EXCEPT ![Peer(e)] = @ \o k.out]

\* silc_fsm_run, called by the scheduler.
FsmRun(e) ==
    /\ end[e].runs > 0
    /\ Put(e, Run([end[e] EXCEPT !.runs = @ - 1]), net)
    /\ UNCHANGED <<cfg, faults, resent, late, aborts>>

(* A packet arrives.  A datagram is one event of the scheduler, which runs *)
(* the tasks that are due between two events.                              *)
Deliver(e, n) ==
    /\ n \in DOMAIN net[e]
    /\ IF cfg.udp THEN end[e].runs = 0 ELSE n = 1
    /\ LET p == net[e][n]
           rest == [net EXCEPT ![e] = RemoveAt(@, n)] IN
       Put(e, IF p.key = end[e].recv THEN Dispatch(end[e], p) ELSE end[e], rest)
    /\ UNCHANGED <<cfg, faults, resent, late, aborts>>

\* silc_ske_timeout
Timeout(e) ==
    /\ end[e].timer
    /\ Put(e, Run(NotifyFailure([end[e] EXCEPT !.timer = FALSE, !.pkt = None,
                                               !.status = "TIMEOUT"])), net)
    /\ late' = TRUE
    /\ UNCHANGED <<cfg, faults, resent, aborts>>

(* silc_ske_packet_send_retry *)
GivesUp(k) == k.count >= RetryCount \/ k.aborted

Retry(e) ==
    LET k == [end[e] EXCEPT !.retry = FALSE, !.count = @ + 1] IN
    /\ end[e].retry
    /\ \/ /\ GivesUp(end[e])
          /\ Put(e, Run(NotifyFailure([k EXCEPT !.count = 0, !.retrans = None,
                                                !.status = "TIMEOUT"])), net)
          /\ late' = TRUE
          /\ UNCHANGED resent
       \/ /\ ~GivesUp(end[e]) /\ resent < MaxResent
          /\ Put(e, Send(k, k.retrans.t, k.retrans.body), net)
          /\ resent' = resent + 1
          /\ UNCHANGED late
    /\ UNCHANGED <<cfg, faults, aborts>>

(* silc_ske_finished, the destructor of the machine: silc_ske_free.        *)
Finished(e) ==
    /\ end[e].fin
    /\ Put(e, [end[e] EXCEPT !.fin = FALSE, !.refcnt = @ - 1], net)
    /\ UNCHANGED <<cfg, faults, resent, late, aborts>>

(* silc_ske_free by the owner of a completed exchange, when the connection *)
(* authentication that used it has ended.                                  *)
OwnerFree(e) ==
    /\ end[e].held /\ ~end[e].rekeying
    /\ Put(e, [end[e] EXCEPT !.held = FALSE, !.refcnt = @ - 1], net)
    /\ UNCHANGED <<cfg, faults, resent, late, aborts>>

(* silc_ske_abort: only marks the exchange.                                *)
Abort(e) ==
    /\ end[e].link /\ ~end[e].aborted
    /\ aborts < MaxAborts
    /\ Put(e, [end[e] EXCEPT !.aborted = TRUE], net)
    /\ aborts' = aborts + 1
    /\ UNCHANGED <<cfg, faults, resent, late>>

(* silc_server_do_rekey: the timer of the connection's initiator, which    *)
(* runs again only after a re-key that succeeded.  It takes minutes, in    *)
(* which the packets of an exchange arrive, tasks and timeouts that are    *)
(* due run and the authentication is over.                                 *)
DoRekey ==
    LET k == end["i"] IN
    /\ ~cfg.udp
    /\ k.done = "ok"
    /\ \A e \in Ends : /\ ~end[e].link /\ ~end[e].fin /\ ~end[e].held
                       /\ \A n \in DOMAIN net[e] : net[e][n].t = "DATA"
    /\ Len(k.hist) <= MaxRekeys
    /\ Put("i", [Started(k, "rekey_i_start", TRUE, None) EXCEPT !.runs = 1], net)
    /\ UNCHANGED <<cfg, faults, resent, late, aborts>>

\* Any other packet of the connection.
SendData(e) ==
    /\ end[e].send # None /\ end[e].data < MaxData
    /\ LET p == [t |-> "DATA", key |-> end[e].send, body |-> None] IN
       Put(e, [end[e] EXCEPT !.data = @ + 1, !.out = <<p>>], net)
    /\ UNCHANGED <<cfg, faults, resent, late, aborts>>

\* The network loses or repeats a datagram.
Lose(e, n) ==
    /\ cfg.udp /\ faults < MaxFaults
    /\ n \in DOMAIN net[e]
    /\ net' = [net EXCEPT ![e] = RemoveAt(@, n)]
    /\ faults' = faults + 1
    /\ UNCHANGED <<cfg, end, resent, late, aborts>>

Duplicate(e, n) ==
    /\ cfg.udp /\ faults < MaxFaults
    /\ n \in DOMAIN net[e]
    /\ net' = [net EXCEPT ![e] = Append(@, @[n])]
    /\ faults' = faults + 1
    /\ UNCHANGED <<cfg, end, resent, late, aborts>>

Next ==
    \/ DoRekey
    \/ \E e \in Ends :
        \/ FsmRun(e) \/ Timeout(e) \/ Retry(e) \/ Finished(e)
        \/ OwnerFree(e) \/ Abort(e) \/ SendData(e)
        \/ \E n \in DOMAIN net[e] :
              Deliver(e, n) \/ Lose(e, n) \/ Duplicate(e, n)

Spec == Init /\ [][Next]_vars

(* The scheduler runs the tasks that are due and fires the timeouts.       *)
FairSpec ==
    /\ Spec
    /\ \A e \in Ends : WF_vars(FsmRun(e)) /\ WF_vars(Timeout(e))

-----------------------------------------------------------------------------
(* Properties.                                                             *)

\* The fields have their types; one run at most is scheduled for an exchange
\* that has begun, for silc_ske_packet_receive overwrites the packet of an
\* earlier one.
TypeOK ==
    /\ cfg \in Configs
    /\ \A e \in Ends :
        LET k == end[e] IN
        /\ k.me = e /\ k.out = <<>>
        /\ k.st \in Reads \cup {"none", "i_start", "r_start", "rekey_i_start",
                                "failure"}
        /\ k.runs \in 0..(IF k.st \in {"r_start", "failure"} THEN 2 ELSE 1)
        /\ k.refcnt \in 0..2
        /\ k.status \in Statuses
        /\ k.done \in {"no", "ok", "failed", "aborted"}
        /\ {k.link, k.fin, k.timer, k.retry, k.notified, k.aborted,
            k.rekeying, k.held} \subseteq BOOLEAN
        /\ k.count \in 0..RetryCount
        /\ \A n \in DOMAIN net[e] : net[e][n].t \in Types
    /\ faults \in 0..MaxFaults /\ resent \in 0..MaxResent
    /\ aborts \in 0..MaxAborts /\ late \in BOOLEAN

\* Over a reliable stream, and as long as no exchange is cut short, a packet
\* is never met with the wrong key: REKEY_DONE and SUCCESS switch the keys of
\* each direction exactly between the last packet under the old key and the
\* first one under the new (silc_ske_packet_receive, silc_packet_set_keys).
KeysInStep ==
    ~cfg.udp /\ ~late /\ aborts = 0 =>
        \A e \in Ends : net[e] # <<>> => Head(net[e]).key = end[e].recv

Completed(e) == Len(end[e].hist) >= 1 /\ ~end[e].rekeying

\* An end that completes the exchange has verified what it must (the public
\* key and the signature of the responder, and those of the initiator when
\* the authentication is mutual), the responder has completed it before, and
\* both agree on properties that the responder required or supports.
Negotiated ==
    /\ Completed("i") =>
        LET k == end["i"] IN
        /\ end["r"].hist # <<>>
        /\ cfg.accepts["i"]
        /\ k.ke2.sign = [by |-> "r", of |-> Hash(k)]
        /\ ~end["r"].rekeying => end["r"].prop = k.prop
    /\ Completed("r") =>
        LET k == end["r"] IN
        /\ cfg.accepts["r"]
        /\ cfg.required \cap {"MUTUAL", "PFS"} \subseteq k.prop.flags
        /\ "MUTUAL" \in k.prop.flags =>
              k.ke1.sign = [by |-> "i", of |-> HashI(k)]
        /\ \A c \in ClassNames \ {"PKCS"} : k.prop.alg[c] \in cfg.supported[c]

\* When nothing is under way or scheduled, a TCP exchange that was not cut
\* short has ended at both ends, and with the same verdict: neither end
\* waits for a packet the other will never send.
SameVerdict ==
    /\ ~cfg.udp /\ ~late /\ aborts = 0
    /\ \A e \in Ends : net[e] = <<>> /\ end[e].runs = 0
    => /\ \A e \in Ends : ~end[e].link
       /\ end["i"].done = end["r"].done

\* The machine never runs after its end nor without the packet its state
\* reads (which another timer or packet may have taken), and a freed
\* SilcSKE is neither linked to the stream nor the context of a task.
ContextSafe ==
    \A e \in Ends :
        LET k == end[e] IN
        /\ ~k.null
        /\ k.refcnt = 0 =>
              k.runs = 0 /\ ~k.link /\ ~k.timer /\ ~k.retry /\ ~k.fin

\* Every exchange ends, whatever is lost: its timeout sees to it.
ExchangeEnds ==
    \A e \in Ends : end[e].link ~> ~end[e].link

\* The materials the two ends take into use form one sequence.
Materials ==
    {<<{<<"i", n>>, <<"r", n>>}>> \o [j \in 1..d |-> {}] :
        n \in 1..(MaxRekeys + 1), d \in 0..MaxRekeys}
A == INSTANCE KeyAgreement WITH hist <- [e \in Ends |-> end[e].hist]
Agreement == A!Spec

\* silcske.h on the completion callback: "It delivers the status of the
\* protocol, and if successful the security properties `prop' that was
\* negotiated in the protocol and the key material `keymat'".
OkHasKeys == \A e \in Ends : end[e].done = "ok" => end[e].keymat # None
=============================================================================
