------------------------- MODULE BackupResumeProofs -------------------------
(***************************************************************************)
(* Proofs about BackupResume, for any number of servers and every bound:   *)
(* the types of the variables, and the three safety properties of the run, *)
(* RouterUsable, ResignAfterResume and ResumeReachesAll.                   *)
(*                                                                         *)
(* The inductive invariant CellInv adds to the types what the three        *)
(* properties rest on: an end of a connection that is gone leaves neither  *)
(* packets nor contexts behind (Fits, Clean), a node that is connecting    *)
(* has no connection and no use for P (Dialing), only the router of the    *)
(* cell may have its servers enabled (Enabled), and a run of the protocol  *)
(* takes the answer of a server from that server only (RunOk).             *)
(***************************************************************************)
EXTENDS BackupResume, TLAPS, WellFoundedInduction

\* n has no connection with P: P may not have noticed yet.
Gone == {"none", "far"}

(* What holds of a context c of B: `session' and `connected' name servers  *)
(* that have answered, and while B is the router of the cell the run on    *)
(* the connection with P includes every server.                            *)
RunOk(c, bt) ==
    /\ c.session \in Servers => c.session \in c.answered
    /\ c.connected \cap Servers \subseteq c.answered
    /\ c.ending > 0 => c.state \in {2, 250}
    /\ c.ending > 0 \/ c.state = 250 =>
          c.sessions \cap Servers \subseteq c.answered
    /\ bt = "router" /\ c.sock = P /\ c.state \in {2, 250} =>
          Servers \subseteq c.sessions

(* What holds of a context c of n: only B is an initiator, only P is asked *)
(* to resume by ENDING, no context is bound to a connection that is gone,  *)
(* and B has received RESUMED only from a primary that has resumed.        *)
Fits(n, c, lk, bt, rs) ==
    /\ c.responder <=> n # B
    /\ n \in Servers => c.state # 2
    /\ n # P /\ lk[n] \in Gone => c.sock # P
    /\ n = B => RunOk(c, bt)
    /\ n = B /\ lk[B] \in {"up", "cut"} /\ ~rs /\ c.sock = P =>
          c.type # "RESUMED"

AllFit(cx, lk, bt, rs) ==
    \A n \in Nodes : \A i \in DOMAIN cx[n] : Fits(n, cx[n][i], lk, bt, rs)

(* The packets under way: none to a node that has no connection, from a    *)
(* server only answers and START_USE, and RESUMED only after P resumed.    *)
Clean(nt, lk, rs) ==
    /\ \A n \in Dialers : lk[n] \in Gone => nt[<<P, n>>] = <<>>
    /\ \A s \in Servers : \A j \in DOMAIN nt[<<s, B>>] :
          nt[<<s, B>>][j] \in {"CONNECTED", "START_USE"}
    /\ lk[B] \in {"up", "cut"} /\ ~rs =>
          \A j \in DOMAIN nt[<<P, B>>] : nt[<<P, B>>][j] # "RESUMED"

Dialing ==
    /\ \A s \in Servers : s \in connecting => router[s] = B /\ link[s] \in Gone
    /\ B \in connecting => btype = "router" /\ link[B] \in Gone
    /\ standalone <=> link[B] \in Gone

Enabled ==
    /\ \A s \in Servers : ~dis[s][router[s]]
    /\ btype = "router" => \A s \in Servers : ~dis[B][s]
    /\ ~dis[B][P]

Resigned == btype = "backup" /\ ~gaveUp /\ link[B] \in {"up", "cut"} => resumed

CellInv ==
    /\ TypeOK
    /\ Dialing
    /\ Enabled
    /\ Resigned
    /\ AllFit(ctx, link, btype, resumed)
    /\ Clean(net, link, resumed)

-----------------------------------------------------------------------------
(* Facts about the constants and the operators of the model.               *)

LEMMA Places ==
    /\ P \in Nodes /\ B \in Nodes /\ P # B /\ B \in Dialers /\ P \notin Dialers
    /\ P \notin Servers /\ B \notin Servers
    /\ \A s \in Servers : s \in Nodes /\ s \in Dialers /\ s # P /\ s # B
    /\ \A n \in Nodes : n = P \/ n = B \/ n \in Servers
    /\ \A n \in Dialers : n \in Nodes /\ n # P /\ (n = B \/ n \in Servers)
    /\ \A n \in Peers : n \in Nodes /\ n # B /\ (n = P \/ n \in Servers)
    /\ NoSock \notin Nodes
  BY BackupAssumption DEF Nodes, Dialers, Peers

LEMMA Hopping ==
    \A n, m \in Nodes : n # m => <<n, m>> \in Hops
  BY DEF Hops

\* A bounded set of numbers with 0 in it has a largest member.
LEMMA MaxExists ==
    ASSUME NEW N \in Nat, NEW S \in SUBSET (0..N), 0 \in S
    PROVE  Max(S) \in S
  <1> DEFINE T == {N - x : x \in S}
  <1>1. T \subseteq Nat /\ T # {}
    OBVIOUS
  <1>2. PICK y \in T : \A z \in T : ~(<<z, y>> \in OpToRel(<, Nat))
    <2> HIDE DEF T
    <2> QED
      BY <1>1, WFMin, NatLessThanWellFounded
  <1>3. \A z \in T : ~(z < y)
    BY <1>1, <1>2 DEF OpToRel
  <1>4. PICK x \in S : y = N - x
    BY <1>2
  <1>5. \A z \in S : x >= z
    BY <1>3, <1>4
  <1> QED
    BY <1>5 DEF Max

-----------------------------------------------------------------------------
(* Changes of the contexts.                                                *)

CtxTypes == ctx \in [Nodes -> Seq(Contexts)]

LEMMA UpdatedCtx ==
    ASSUME CtxTypes, NEW n \in Nodes, NEW i \in DOMAIN ctx[n],
           NEW c \in Contexts, ctx' = Updated(n, i, c)
    PROVE  /\ CtxTypes'
           /\ \A m \in Nodes : Len(ctx'[m]) = Len(ctx[m])
           /\ \A m \in Nodes : DOMAIN ctx'[m] = DOMAIN ctx[m]
           /\ ctx'[n][i] = c
           /\ \A m \in Nodes : \A j \in DOMAIN ctx[m] :
                 m # n \/ j # i => ctx'[m][j] = ctx[m][j]
  <1>1. ctx[n] \in Seq(Contexts)
    BY DEF CtxTypes
  <1>2. ctx' = [ctx EXCEPT ![n] = [ctx[n] EXCEPT ![i] = c]]
    BY DEF Updated
  <1>3. [ctx[n] EXCEPT ![i] = c] \in Seq(Contexts) /\ Len([ctx[n] EXCEPT ![i] = c]) = Len(ctx[n])
    BY <1>1
  <1> QED
    BY <1>1, <1>2, <1>3 DEF CtxTypes

LEMMA AddedCtx ==
    ASSUME CtxTypes, NEW n \in Nodes, NEW c \in Contexts,
           ctx' = [ctx EXCEPT ![n] = Append(@, c)]
    PROVE  /\ CtxTypes'
           /\ Len(ctx'[n]) = Len(ctx[n]) + 1
           /\ ctx'[n][Len(ctx[n]) + 1] = c
           /\ \A m \in Nodes : m # n => ctx'[m] = ctx[m]
           /\ \A j \in DOMAIN ctx[n] : ctx'[n][j] = ctx[n][j]
           /\ DOMAIN ctx'[n] = DOMAIN ctx[n] \cup {Len(ctx[n]) + 1}
  <1>1. ctx[n] \in Seq(Contexts)
    BY DEF CtxTypes
  <1>2. ctx'[n] = Append(ctx[n], c) /\ \A m \in Nodes : m # n => ctx'[m] = ctx[m]
    BY DEF CtxTypes
  <1>3. CtxTypes'
    BY <1>1, <1>2 DEF CtxTypes
  <1> QED
    BY <1>1, <1>2, <1>3

LEMMA FitUpdated ==
    ASSUME CtxTypes, NEW n \in Nodes, NEW i \in DOMAIN ctx[n],
           NEW c \in Contexts, ctx' = Updated(n, i, c),
           AllFit(ctx, link', btype', resumed'),
           Fits(n, c, link', btype', resumed')
    PROVE  AllFit(ctx', link', btype', resumed')
  <1> SUFFICES ASSUME NEW m \in Nodes, NEW j \in DOMAIN ctx'[m]
               PROVE  Fits(m, ctx'[m][j], link', btype', resumed')
    BY DEF AllFit
  <1>1. j \in DOMAIN ctx[m] /\ ctx'[n][i] = c
        /\ (m # n \/ j # i => ctx'[m][j] = ctx[m][j])
    BY UpdatedCtx
  <1>2. Fits(m, ctx[m][j], link', btype', resumed')
    BY <1>1 DEF AllFit
  <1> QED
    BY <1>1, <1>2

LEMMA FitAdded ==
    ASSUME CtxTypes, NEW n \in Nodes, NEW c \in Contexts,
           ctx' = [ctx EXCEPT ![n] = Append(@, c)],
           AllFit(ctx, link', btype', resumed'),
           Fits(n, c, link', btype', resumed')
    PROVE  AllFit(ctx', link', btype', resumed')
  <1> DEFINE last == Len(ctx[n]) + 1
  <1>1. /\ ctx'[n][last] = c
        /\ DOMAIN ctx'[n] = DOMAIN ctx[n] \cup {last}
        /\ \A m \in Nodes : m # n => ctx'[m] = ctx[m]
        /\ \A j \in DOMAIN ctx[n] : ctx'[n][j] = ctx[n][j]
    BY AddedCtx
  <1> HIDE DEF last
  <1> SUFFICES ASSUME NEW m \in Nodes, NEW j \in DOMAIN ctx'[m]
               PROVE  Fits(m, ctx'[m][j], link', btype', resumed')
    BY DEF AllFit
  <1>2. j \in DOMAIN ctx[m] => Fits(m, ctx[m][j], link', btype', resumed')
    BY DEF AllFit
  <1>3. CASE m = n
    BY <1>1, <1>2, <1>3
  <1>4. CASE m # n
    <2>1. ctx'[m] = ctx[m]
      BY <1>1, <1>4
    <2> QED
      BY <1>2, <2>1
  <1> QED
    BY <1>3, <1>4

-----------------------------------------------------------------------------
(* The types.                                                              *)

ProtoTypes ==
    /\ proto \in [Nodes -> [Nodes -> 0..MaxRounds]]
    /\ \A n \in Nodes : /\ LastCtx(n) <= MaxRounds
                        /\ \A m \in Nodes : proto[n][m] <= LastCtx(n)
NetTypes == net \in [Hops -> Seq(Packets)]
DisTypes == dis \in [Nodes -> [Nodes -> BOOLEAN]]

(* The variables that hold no contexts, packets or tables of entries.      *)
PlainTypes ==
    /\ up \in BOOLEAN /\ link \in [Dialers -> Links]
    /\ btype \in {"backup", "router"} /\ standalone \in BOOLEAN
    /\ router \in [Servers -> {P, B}] /\ replaced \in [Dialers -> BOOLEAN]
    /\ connecting \subseteq Dialers
    /\ pings \in [Servers -> {"no", "sent", "lost"}]
    /\ backupClosed \in BOOLEAN /\ resumed \in BOOLEAN
    /\ gaveUp \in BOOLEAN /\ down \in BOOLEAN

CountTypes == faults \in 0..MaxFaults /\ checks \in [Servers -> 0..Checks]

LEMMA TypesSplit ==
    TypeOK <=> /\ CtxTypes /\ ProtoTypes /\ NetTypes /\ DisTypes
               /\ PlainTypes /\ CountTypes
  BY DEF TypeOK, CountTypes, CtxTypes, ProtoTypes, NetTypes, DisTypes, PlainTypes

LEMMA Numbers ==
    MaxFaults \in Nat /\ MaxRounds \in Nat /\ RestartLimit \in Nat /\ Checks \in Nat
  BY BackupAssumption

LEMMA NewContextTypes ==
    ASSUME CtxTypes, ProtoTypes, NEW s \in Nodes \cup {NoSock},
           NEW r \in BOOLEAN, NEW k \in 0..(RestartLimit + 1)
    PROVE  NewContext(s, r, k) \in Contexts
  <1>1. ctx[B] \in Seq(Contexts) /\ Len(ctx[B]) <= MaxRounds /\ MaxRounds \in Nat
    BY Places, Numbers DEF CtxTypes, ProtoTypes, LastCtx
  <1>2. Began \in SUBSET (0..MaxRounds) /\ 0 \in Began
    BY <1>1 DEF Began
  <1>3. Max(Began) \in 0..MaxRounds
    BY <1>1, <1>2, MaxExists
  <1> DEFINE o == Max(Began)
  <1>4. NewContext(s, r, k) =
          [sock |-> s, responder |-> r, state |-> 1, type |-> "START",
           session |-> NoSock, sessions |-> {}, connected |-> {}, answered |-> {},
           started |-> k = 0, tasks |-> IF k = 0 THEN 1 ELSE 0,
           ending |-> 0, fin |-> FALSE, error |-> FALSE, restart |-> k,
           origin |-> o]
    BY DEF NewContext
  <1> HIDE DEF o
  <1>5. o \in 0..MaxRounds
    BY <1>3 DEF o
  <1> QED
    BY <1>4, <1>5 DEF Contexts, States, Types

LEMMA NewContextFields ==
    ASSUME NEW s, NEW r, NEW k
    PROVE  LET c == NewContext(s, r, k) IN
           /\ c.sock = s /\ c.responder = r /\ c.state = 1 /\ c.type = "START"
           /\ c.session = NoSock /\ c.sessions = {} /\ c.connected = {}
           /\ c.answered = {} /\ c.ending = 0
  BY DEF NewContext

\* A field of a context may take any value of its type.
LEMMA FieldSet ==
    ASSUME NEW c \in Contexts
    PROVE  /\ \A v \in Nodes \cup {NoSock} : [c EXCEPT !.sock = v] \in Contexts
           /\ \A v \in States : [c EXCEPT !.state = v] \in Contexts
           /\ \A v \in Types : [c EXCEPT !.type = v] \in Contexts
           /\ \A v \in Peers \cup {NoSock} : [c EXCEPT !.session = v] \in Contexts
           /\ \A v \in SUBSET Peers : [c EXCEPT !.sessions = v] \in Contexts
           /\ \A v \in SUBSET Peers : [c EXCEPT !.connected = v] \in Contexts
           /\ \A v \in SUBSET Nodes : [c EXCEPT !.answered = v] \in Contexts
           /\ \A v \in BOOLEAN : [c EXCEPT !.started = v] \in Contexts
           /\ \A v \in Nat : [c EXCEPT !.tasks = v] \in Contexts
           /\ \A v \in Nat : [c EXCEPT !.ending = v] \in Contexts
           /\ \A v \in BOOLEAN : [c EXCEPT !.fin = v] \in Contexts
           /\ \A v \in BOOLEAN : [c EXCEPT !.error = v] \in Contexts
           /\ \A v \in 0..MaxRounds : [c EXCEPT !.origin = v] \in Contexts
  <1>1. \A v \in Nodes \cup {NoSock} : [c EXCEPT !.sock = v] \in Contexts
    BY DEF Contexts
  <1>2. \A v \in States : [c EXCEPT !.state = v] \in Contexts
    BY DEF Contexts
  <1>3. \A v \in Types : [c EXCEPT !.type = v] \in Contexts
    BY DEF Contexts
  <1>4. \A v \in Peers \cup {NoSock} : [c EXCEPT !.session = v] \in Contexts
    BY DEF Contexts
  <1>5. \A v \in SUBSET Peers : [c EXCEPT !.sessions = v] \in Contexts
    BY DEF Contexts
  <1>6. \A v \in SUBSET Peers : [c EXCEPT !.connected = v] \in Contexts
    BY DEF Contexts
  <1>7. \A v \in SUBSET Nodes : [c EXCEPT !.answered = v] \in Contexts
    BY DEF Contexts
  <1>8. \A v \in BOOLEAN : [c EXCEPT !.started = v] \in Contexts
    BY DEF Contexts
  <1>9. \A v \in Nat : [c EXCEPT !.tasks = v] \in Contexts
    BY DEF Contexts
  <1>10. \A v \in Nat : [c EXCEPT !.ending = v] \in Contexts
    BY DEF Contexts
  <1>11. \A v \in BOOLEAN : [c EXCEPT !.fin = v] \in Contexts
    BY DEF Contexts
  <1>12. \A v \in BOOLEAN : [c EXCEPT !.error = v] \in Contexts
    BY DEF Contexts
  <1>13. \A v \in 0..MaxRounds : [c EXCEPT !.origin = v] \in Contexts
    BY DEF Contexts
  <1> QED
    BY <1>1, <1>2, <1>3, <1>4, <1>5, <1>6, <1>7, <1>8, <1>9, <1>10, <1>11, <1>12, <1>13

LEMMA FreedContextTypes ==
    ASSUME CtxTypes, ProtoTypes, NEW c \in Contexts
    PROVE  /\ FreedContext(c) \in Contexts
           /\ LET f == FreedContext(c) IN
              /\ f.sock = NoSock /\ f.responder = c.responder /\ f.state = Freed
              /\ f.session = NoSock /\ f.sessions = {} /\ f.connected = {}
              /\ f.ending = 0
  <1> DEFINE r == NewContext(NoSock, c.responder, 1)
  <1>1. c.responder \in BOOLEAN /\ c.answered \in SUBSET Nodes
    BY DEF Contexts
  <1>2. r \in Contexts
    BY <1>1, NewContextTypes, Numbers
  <1>3. /\ r.sock = NoSock /\ r.responder = c.responder /\ r.session = NoSock
        /\ r.sessions = {} /\ r.connected = {} /\ r.ending = 0
    BY NewContextFields
  <1>4. FreedContext(c) = [r EXCEPT !.state = Freed, !.origin = 0, !.answered = c.answered]
    BY DEF FreedContext
  <1> HIDE DEF r
  <1>5. FreedContext(c) \in Contexts
    <2> DEFINE r1 == [r EXCEPT !.state = Freed]
               r2 == [r1 EXCEPT !.origin = 0]
    <2>1. r1 \in Contexts
      BY <1>2, FieldSet DEF States
    <2>2. r2 \in Contexts
      <3> HIDE DEF r1
      <3> QED
        BY <2>1, FieldSet, Numbers
    <2>3. [r2 EXCEPT !.answered = c.answered] \in Contexts
      <3> HIDE DEF r2
      <3> QED
        BY <1>1, <2>2, FieldSet
    <2> QED
      BY <1>4, <2>3
  <1> QED
    BY <1>2, <1>3, <1>4, <1>5 DEF Contexts

Orphan(c, m) == [c EXCEPT !.sock = IF @ = m THEN NoSock ELSE @]

LEMMA OrphanedTypes ==
    ASSUME NEW C \in Seq(Contexts), NEW m \in Nodes
    PROVE  /\ Orphaned(C, m) \in Seq(Contexts)
           /\ Len(Orphaned(C, m)) = Len(C)
           /\ DOMAIN Orphaned(C, m) = DOMAIN C
           /\ \A i \in DOMAIN C :
                 Orphaned(C, m)[i] = Orphan(C[i], m)
  <1>1. \A i \in DOMAIN C : Orphan(C[i], m) \in Contexts
    <2> SUFFICES ASSUME NEW i \in DOMAIN C
                 PROVE  Orphan(C[i], m) \in Contexts
      OBVIOUS
    <2>1. C[i] \in Contexts
      OBVIOUS
    <2> QED
      BY <2>1 DEF Contexts, Orphan
  <1>2. \A i \in DOMAIN C :
          Orphaned(C, m)[i] = Orphan(C[i], m)
    BY DEF Orphaned, Orphan
  <1>3. Orphaned(C, m) \in [1..Len(C) -> Contexts]
    BY <1>1 DEF Orphaned, Orphan
  <1> QED
    BY <1>2, <1>3

LEMMA NoPackets == <<>> \in Seq(Packets)
  OBVIOUS

LEMMA AppendHas ==
    ASSUME NEW q \in Seq(Packets), NEW p, NEW r, r = Append(q, p), NEW j \in DOMAIN r
    PROVE  r[j] = p \/ (j \in DOMAIN q /\ r[j] = q[j])
  OBVIOUS

LEMMA SentTypes ==
    ASSUME NetTypes, NEW n \in Nodes, NEW m \in Nodes, n # m,
           NEW p \in Packets, NEW d
    PROVE  Sent(n, m, p, d) \in [Hops -> Seq(Packets)]
  <1>1. <<n, m>> \in Hops
    BY Hopping
  <1> QED
    BY <1>1 DEF NetTypes, Sent

LEMMA SentAllTypes ==
    ASSUME NetTypes, NEW n \in Nodes, NEW M, NEW p \in Packets, NEW d
    PROVE  SentAll(n, M, p, d) \in [Hops -> Seq(Packets)]
  BY DEF NetTypes, SentAll

-----------------------------------------------------------------------------
(* What a step of the environment of the contexts and packets preserves.   *)

(* The connections, B's role and the primary may change, as long as none   *)
(* of the premises of Fits and Clean becomes true.                         *)
Milder ==
    /\ \A n \in Dialers : link'[n] \in Gone => link[n] \in Gone
    /\ link'[B] \in {"up", "cut"} /\ ~resumed' =>
          link[B] \in {"up", "cut"} /\ ~resumed

LEMMA FitEnv ==
    ASSUME AllFit(ctx, link, btype, resumed), Milder,
           btype' = "router" => btype = "router"
    PROVE  AllFit(ctx, link', btype', resumed')
  <1> SUFFICES ASSUME NEW n \in Nodes, NEW i \in DOMAIN ctx[n],
                      Fits(n, ctx[n][i], link, btype, resumed)
               PROVE  Fits(n, ctx[n][i], link', btype', resumed')
    BY DEF AllFit
  <1>1. n # P => n \in Dialers
    BY Places DEF Dialers
  <1> QED
    BY <1>1 DEF Fits, RunOk, Milder

LEMMA CleanEnv ==
    ASSUME NEW nt, Clean(nt, link, resumed), Milder
    PROVE  Clean(nt, link', resumed')
  BY DEF Clean, Milder

LEMMA SameEnv ==
    ASSUME UNCHANGED <<link, resumed>>
    PROVE  Milder
  BY DEF Milder

LEMMA CleanTail ==
    ASSUME NetTypes, Clean(net, link, resumed), NEW n \in Nodes, NEW m \in Nodes,
           n # m, net[<<n, m>>] # <<>>,
           net' = [net EXCEPT ![<<n, m>>] = Tail(@)]
    PROVE  NetTypes' /\ Clean(net', link, resumed)
  <1>1. <<n, m>> \in Hops /\ net[<<n, m>>] \in Seq(Packets)
    BY Hopping DEF NetTypes
  <1>2. /\ Tail(net[<<n, m>>]) \in Seq(Packets)
        /\ \A j \in DOMAIN Tail(net[<<n, m>>]) :
              j + 1 \in DOMAIN net[<<n, m>>] /\ Tail(net[<<n, m>>])[j] = net[<<n, m>>][j + 1]
    BY <1>1
  <1>3. NetTypes'
    BY <1>1, <1>2 DEF NetTypes
  <1>4. \A h \in Hops : h # <<n, m>> => net'[h] = net[h]
    BY DEF NetTypes
  <1>5. net'[<<n, m>>] = Tail(net[<<n, m>>])
    BY <1>1 DEF NetTypes
  <1>6. ASSUME NEW s \in Servers, NEW j \in DOMAIN net'[<<s, B>>]
        PROVE  net'[<<s, B>>][j] \in {"CONNECTED", "START_USE"}
    <2>1. <<s, B>> \in Hops
      BY Hopping, Places
    <2> QED
      BY <1>2, <1>4, <1>5, <1>6, <2>1 DEF Clean
  <1>7. <<P, B>> \in Hops
    BY Hopping, Places
  <1>8. link[B] \in {"up", "cut"} /\ ~resumed =>
          \A j \in DOMAIN net'[<<P, B>>] : net'[<<P, B>>][j] # "RESUMED"
    <2> SUFFICES ASSUME link[B] \in {"up", "cut"}, ~resumed, NEW j \in DOMAIN net'[<<P, B>>]
                 PROVE  net'[<<P, B>>][j] # "RESUMED"
      OBVIOUS
    <2>1. \A k \in DOMAIN net[<<P, B>>] : net[<<P, B>>][k] # "RESUMED"
      BY DEF Clean
    <2>2. CASE <<P, B>> = <<n, m>>
      <3>1. net'[<<P, B>>] = Tail(net[<<n, m>>])
        BY <1>5, <2>2
      <3> QED
        BY <1>2, <2>1, <2>2, <3>1
    <2>3. CASE <<P, B>> # <<n, m>>
      BY <1>4, <1>7, <2>1, <2>3
    <2> QED
      BY <2>2, <2>3
  <1>9. ASSUME NEW d \in Dialers, link[d] \in Gone PROVE net'[<<P, d>>] = <<>>
    <2>1. <<P, d>> \in Hops
      BY Hopping, Places
    <2>2. net[<<P, d>>] = <<>>
      BY <1>9 DEF Clean
    <2> QED
      BY <1>4, <2>1, <2>2
  <1> QED
    BY <1>3, <1>6, <1>8, <1>9 DEF Clean

LEMMA CleanSent ==
    ASSUME NetTypes, Clean(net, link, resumed), NEW n \in Nodes, NEW m \in Nodes,
           n # m, NEW p \in Packets, p # "RESUMED",
           n \in Servers => p \in {"CONNECTED", "START_USE"}, NEW d
    PROVE  Clean(Sent(n, m, p, d), link, resumed)
  <1> DEFINE nt == Sent(n, m, p, d)
  <1>1. <<n, m>> \in Hops /\ net[<<n, m>>] \in Seq(Packets)
    BY Hopping DEF NetTypes
  <1>2. CASE nt = net
    BY <1>2
  <1>3. CASE nt # net
    <2>1. Passes(n, m) /\ nt = [net EXCEPT ![<<n, m>>] = Append(@, p)]
      BY <1>3 DEF Sent
    <2> HIDE DEF nt
    <2>2. nt[<<n, m>>] = Append(net[<<n, m>>], p) /\ \A h \in Hops : h # <<n, m>> => nt[h] = net[h]
      BY <1>1, <2>1 DEF NetTypes
    <2>3. \A j \in DOMAIN Append(net[<<n, m>>], p) :
            \/ j \in DOMAIN net[<<n, m>>] /\ Append(net[<<n, m>>], p)[j] = net[<<n, m>>][j]
            \/ Append(net[<<n, m>>], p)[j] = p
      BY <1>1
    <2>4. ASSUME NEW s \in Servers, NEW j \in DOMAIN nt[<<s, B>>]
          PROVE  nt[<<s, B>>][j] \in {"CONNECTED", "START_USE"}
      <3>1. <<s, B>> \in Hops /\ \A k \in DOMAIN net[<<s, B>>] :
              net[<<s, B>>][k] \in {"CONNECTED", "START_USE"}
        BY Hopping, Places DEF Clean
      <3>2. CASE <<s, B>> = <<n, m>>
        <4>1. nt[<<s, B>>] = Append(net[<<n, m>>], p) /\ n \in Servers
          BY <2>2, <3>2
        <4> QED
          BY <2>3, <2>4, <3>1, <3>2, <4>1
      <3>3. CASE <<s, B>> # <<n, m>>
        BY <2>2, <2>4, <3>1, <3>3
      <3> QED
        BY <3>2, <3>3
    <2>5. <<P, B>> \in Hops
      BY Hopping, Places
    <2>6. link[B] \in {"up", "cut"} /\ ~resumed =>
            \A j \in DOMAIN nt[<<P, B>>] : nt[<<P, B>>][j] # "RESUMED"
      BY <2>2, <2>3, <2>5 DEF Clean
    <2>7. ASSUME NEW e \in Dialers, link[e] \in Gone PROVE nt[<<P, e>>] = <<>>
      <3>1. <<P, e>> \in Hops
        BY Hopping, Places
      <3>2. net[<<P, e>>] = <<>>
        BY <2>7 DEF Clean
      <3>3. <<n, m>> # <<P, e>>
        BY <2>1, <2>7 DEF Passes, Gone
      <3> QED
        BY <2>2, <3>1, <3>2, <3>3
    <2> QED
      BY <2>4, <2>6, <2>7 DEF Clean, nt
  <1> QED
    BY <1>2, <1>3

-----------------------------------------------------------------------------
(* Every step preserves the invariant.                                     *)

LEMMA InvSplit ==
    CellInv <=> /\ CtxTypes /\ ProtoTypes /\ NetTypes /\ DisTypes
                /\ PlainTypes /\ CountTypes
                /\ Dialing /\ Enabled /\ Resigned
                /\ AllFit(ctx, link, btype, resumed)
                /\ Clean(net, link, resumed)
  BY TypesSplit DEF CellInv

LEMMA InvNext ==
    ASSUME CtxTypes', ProtoTypes', NetTypes', DisTypes', PlainTypes', CountTypes',
           Dialing', Enabled', Resigned',
           AllFit(ctx', link', btype', resumed'), Clean(net', link', resumed')
    PROVE  CellInv'
  BY DEF CellInv, TypeOK, CountTypes, CtxTypes, ProtoTypes, NetTypes, DisTypes, PlainTypes

LEMMA InitInv == Init => CellInv
  <1> SUFFICES ASSUME Init PROVE CellInv
    OBVIOUS
  <1>1. CtxTypes /\ ProtoTypes /\ NetTypes /\ DisTypes
    BY Numbers DEF Init, CtxTypes, ProtoTypes, NetTypes, DisTypes, LastCtx
  <1>2. PlainTypes /\ CountTypes
    <2>1. PlainTypes
      BY Places DEF Init, PlainTypes, Links
    <2>2. faults \in 0..MaxFaults
      BY Numbers DEF Init
    <2>3. checks \in [Servers -> 0..Checks]
      BY Numbers DEF Init
    <2> QED
      BY <2>1, <2>2, <2>3 DEF CountTypes
  <1>3. Dialing /\ Resigned
    BY Places DEF Init, Dialing, Resigned, Gone
  <1>4. Enabled
    BY Places DEF Init, Enabled
  <1>5. AllFit(ctx, link, btype, resumed)
    BY DEF Init, AllFit
  <1>6. Clean(net, link, resumed)
    <2>1. \A n \in Dialers : link[n] \notin Gone
      BY DEF Init, Gone
    <2>2. \A s \in Servers : net[<<s, B>>] = <<>>
      BY Hopping, Places DEF Init
    <2>3. net[<<P, B>>] = <<>>
      BY Hopping, Places DEF Init
    <2> QED
      BY <2>1, <2>2, <2>3 DEF Clean
  <1> QED
    BY <1>1, <1>2, <1>3, <1>4, <1>5, <1>6, InvSplit

LEMMA CrashKeeps ==
    ASSUME CellInv, Crash
    PROVE  CellInv'
  <1>1. CtxTypes /\ ProtoTypes /\ NetTypes /\ DisTypes /\ PlainTypes /\ CountTypes
    BY InvSplit
  <1>2. /\ Dialing /\ Enabled /\ Resigned
        /\ AllFit(ctx, link, btype, resumed) /\ Clean(net, link, resumed)
    BY InvSplit
  <1>3. CtxTypes' /\ ctx'[P] = <<>> /\ \A n \in Nodes : n # P => ctx'[n] = ctx[n]
    BY <1>1, Places DEF Crash, CtxTypes
  <1>4. ProtoTypes'
    <2>1. proto' \in [Nodes -> [Nodes -> 0..MaxRounds]]
      <3>1. [m \in Nodes |-> 0] \in [Nodes -> 0..MaxRounds]
        BY Numbers
      <3> HIDE DEF Nodes
      <3> QED
        BY <1>1, <3>1 DEF Crash, ProtoTypes
    <2>2. ASSUME NEW n \in Nodes
          PROVE  /\ Len(ctx'[n]) <= MaxRounds
                 /\ \A m \in Nodes : proto'[n][m] <= Len(ctx'[n])
      <3>1. CASE n = P
        <4>1. Len(ctx'[P]) = 0 /\ \A m \in Nodes : proto'[P][m] = 0
          BY <1>1, <1>3, Places DEF Crash, ProtoTypes
        <4> QED
          BY <3>1, <4>1, Numbers
      <3>2. CASE n # P
        BY <1>1, <1>3, <3>2 DEF Crash, ProtoTypes, LastCtx
      <3> QED
        BY <3>1, <3>2
    <2> QED
      BY <2>1, <2>2 DEF ProtoTypes, LastCtx
  <1>5. NetTypes'
    BY <1>1 DEF Crash, NetTypes
  <1>6. DisTypes' /\ \A n \in Nodes : n # P => dis'[n] = dis[n]
    BY <1>1, Places DEF Crash, DisTypes
  <1>7. link' \in [Dialers -> Links]
    BY <1>1 DEF Crash, PlainTypes, Links
  <1>8. PlainTypes' /\ CountTypes'
    <2>1. PlainTypes'
      BY <1>1, <1>7 DEF Crash, PlainTypes
    <2>2. CountTypes'
      BY <1>1, Numbers DEF Crash, CountTypes
    <2> QED
      BY <2>1, <2>2
  <1>9. \A n \in Dialers : /\ link'[n] \notin {"up", "cut"}
                           /\ link'[n] \in Gone <=> link[n] \in Gone
    BY <1>1 DEF Crash, PlainTypes, Links, Gone
  <1>10. Milder
    BY <1>9, Places DEF Milder
  <1>11. Dialing' /\ Resigned'
    BY <1>2, <1>9, Places DEF Crash, Dialing, Resigned
  <1>12. Enabled'
    BY <1>2, <1>6, Places DEF Crash, Enabled
  <1>13. AllFit(ctx', link', btype', resumed')
    <2>1. AllFit(ctx, link', btype', resumed')
      BY <1>2, <1>10, FitEnv DEF Crash
    <2> QED
      BY <1>3, <2>1 DEF AllFit
  <1>14. Clean(net', link', resumed')
    <2>1. Clean(net, link', resumed')
      BY <1>2, <1>10, CleanEnv
    <2>2. \A n \in Dialers : net'[<<P, n>>] = <<>>
      BY <1>1, Hopping, Places DEF Crash, NetTypes
    <2>3. \A s \in Servers : net'[<<s, B>>] = net[<<s, B>>]
      BY <1>1, Hopping, Places DEF Crash, NetTypes
    <2> QED
      BY <1>9, <2>1, <2>2, <2>3, Places DEF Clean
  <1> QED
    BY <1>3, <1>4, <1>5, <1>6, <1>8, <1>11, <1>12, <1>13, <1>14, InvNext

LEMMA RestartKeeps ==
    ASSUME CellInv, Restart
    PROVE  CellInv'
  <1>1. PlainTypes' /\ CountTypes'
    BY InvSplit DEF Restart, PlainTypes, CountTypes, cell
  <1>2. CtxTypes' /\ ProtoTypes' /\ NetTypes' /\ DisTypes'
    BY InvSplit DEF Restart, CtxTypes, ProtoTypes, NetTypes, DisTypes, LastCtx
  <1>3. Dialing' /\ Enabled' /\ Resigned'
    BY InvSplit DEF Restart, Dialing, Enabled, Resigned, cell
  <1>4. AllFit(ctx', link', btype', resumed') /\ Clean(net', link', resumed')
    BY InvSplit DEF Restart, cell
  <1> QED
    BY <1>1, <1>2, <1>3, <1>4, InvNext

LEMMA CutKeeps ==
    ASSUME CellInv, NEW n \in Dialers, Cut(n)
    PROVE  CellInv'
  <1>1. CtxTypes /\ ProtoTypes /\ NetTypes /\ DisTypes /\ PlainTypes /\ CountTypes
    BY InvSplit
  <1>2. /\ Dialing /\ Enabled /\ Resigned
        /\ AllFit(ctx, link, btype, resumed) /\ Clean(net, link, resumed)
    BY InvSplit
  <1>3. CtxTypes' /\ ProtoTypes' /\ DisTypes'
    BY <1>1 DEF Cut, CtxTypes, ProtoTypes, DisTypes, LastCtx
  <1>4. NetTypes'
    <2>1. <<n, P>> \in Hops /\ <<P, n>> \in Hops
      BY Hopping, Places
    <2>2. \A h \in Hops : net'[h] = net[h] \/ net'[h] = <<>>
      BY <1>1, <2>1 DEF Cut, NetTypes
    <2>3. net' = [h \in Hops |-> net'[h]]
      BY <1>1 DEF Cut, NetTypes
    <2>4. \A h \in Hops : net'[h] \in Seq(Packets)
      BY <1>1, <2>2, NoPackets, Zenon DEF NetTypes
    <2> QED
      BY <2>3, <2>4 DEF NetTypes
  <1>5. PlainTypes' /\ CountTypes'
    <2>1. PlainTypes'
      BY <1>1 DEF Cut, PlainTypes, Links, cell
    <2>2. CountTypes'
      BY <1>1, Numbers DEF Cut, CountTypes
    <2> QED
      BY <2>1, <2>2
  <1>6. \A m \in Dialers : /\ link'[m] \in Gone <=> link[m] \in Gone
                           /\ link'[m] \in {"up", "cut"} <=> link[m] \in {"up", "cut"}
    BY <1>1 DEF Cut, PlainTypes, Gone
  <1>7. Milder
    BY <1>6, Places DEF Milder, Cut, cell
  <1>8. Dialing' /\ Resigned' /\ Enabled'
    BY <1>2, <1>6, Places DEF Cut, Dialing, Resigned, Enabled, cell
  <1>9. AllFit(ctx', link', btype', resumed')
    BY <1>2, <1>7, FitEnv DEF Cut, cell
  <1>10. Clean(net', link', resumed')
    <2>1. Clean(net, link', resumed')
      BY <1>2, <1>7, CleanEnv
    <2>2. \A h \in Hops : net'[h] = net[h] \/ net'[h] = <<>>
      BY <1>1 DEF Cut, NetTypes
    <2>3. \A m \in Dialers : net'[<<P, m>>] = net[<<P, m>>] \/ net'[<<P, m>>] = <<>>
      BY <2>2, Hopping, Places
    <2>4. \A s \in Servers : net'[<<s, B>>] = net[<<s, B>>] \/ net'[<<s, B>>] = <<>>
      BY <2>2, Hopping, Places
    <2> QED
      BY <2>1, <2>3, <2>4, Places DEF Clean
  <1> QED
    BY <1>3, <1>4, <1>5, <1>8, <1>9, <1>10, InvNext

LEMMA OrphanedCtx ==
    ASSUME CtxTypes, NEW n \in Nodes, NEW m \in Nodes,
           ctx' = [ctx EXCEPT ![n] = Orphaned(@, m)]
    PROVE  /\ CtxTypes'
           /\ \A k \in Nodes : Len(ctx'[k]) = Len(ctx[k])
           /\ \A k \in Nodes : k # n => ctx'[k] = ctx[k]
           /\ DOMAIN ctx'[n] = DOMAIN ctx[n]
           /\ \A i \in DOMAIN ctx[n] :
                 ctx'[n][i] = Orphan(ctx[n][i], m)
  <1>1. ctx[n] \in Seq(Contexts)
    BY DEF CtxTypes
  <1>2. ctx'[n] = Orphaned(ctx[n], m) /\ \A k \in Nodes : k # n => ctx'[k] = ctx[k]
    BY DEF CtxTypes
  <1>3. Orphaned(ctx[n], m) \in Seq(Contexts)
    BY <1>1, OrphanedTypes
  <1>4. CtxTypes'
    BY <1>3 DEF CtxTypes
  <1> QED
    BY <1>1, <1>2, <1>4, OrphanedTypes

\* A context that has lost its connection still fits, and one that has lost
\* the connection with P fits whatever becomes of it.
LEMMA FitsOrphan ==
    ASSUME NEW n \in Nodes, NEW c \in Contexts, NEW m \in Nodes,
           NEW lk, NEW bt, NEW rs, Fits(n, c, lk, bt, rs)
    PROVE  /\ Fits(n, Orphan(c, m), lk, bt, rs)
           /\ m = P => Fits(n, Orphan(c, m), link', btype', resumed')
  <1> DEFINE o == Orphan(c, m)
  <1>1. /\ o.responder = c.responder /\ o.state = c.state /\ o.type = c.type
        /\ o.session = c.session /\ o.sessions = c.sessions
        /\ o.connected = c.connected /\ o.answered = c.answered
        /\ o.ending = c.ending
    BY DEF Contexts, Orphan
  <1>2. o.sock = P => c.sock = P /\ m # P
    BY Places DEF Contexts, Orphan
  <1> HIDE DEF o
  <1>3. Fits(n, o, lk, bt, rs)
    BY <1>1, <1>2 DEF Fits, RunOk
  <1>4. m = P => Fits(n, o, link', btype', resumed')
    BY <1>1, <1>2 DEF Fits, RunOk
  <1> QED
    BY <1>3, <1>4 DEF o

LEMMA ProtoLower ==
    ASSUME ProtoTypes, \A n \in Nodes : Len(ctx'[n]) = Len(ctx[n]),
           proto' \in [Nodes -> [Nodes -> 0..MaxRounds]],
           \A n, m \in Nodes : proto'[n][m] = proto[n][m] \/ proto'[n][m] = 0,
           CtxTypes'
    PROVE  ProtoTypes'
  <1> SUFFICES ASSUME NEW n \in Nodes
               PROVE  /\ Len(ctx'[n]) <= MaxRounds
                      /\ \A m \in Nodes : proto'[n][m] <= Len(ctx'[n])
    BY DEF ProtoTypes, LastCtx
  <1>1. Len(ctx'[n]) \in Nat /\ Len(ctx'[n]) = Len(ctx[n])
    BY DEF CtxTypes
  <1>2. Len(ctx[n]) <= MaxRounds /\ \A m \in Nodes : proto[n][m] <= Len(ctx[n])
    BY DEF ProtoTypes, LastCtx
  <1>3. ASSUME NEW m \in Nodes PROVE proto'[n][m] <= Len(ctx'[n])
    <2>1. proto'[n][m] = proto[n][m] \/ proto'[n][m] = 0
      OBVIOUS
    <2> QED
      BY <1>1, <1>2, <2>1
  <1> QED
    BY <1>1, <1>2, <1>3

LEMMA ProtoZero ==
    ASSUME ProtoTypes, NEW n \in Nodes, NEW m \in Nodes,
           proto' = [proto EXCEPT ![n][m] = 0]
    PROVE  /\ proto' \in [Nodes -> [Nodes -> 0..MaxRounds]]
           /\ \A k, l \in Nodes : proto'[k][l] = proto[k][l] \/ proto'[k][l] = 0
  <1>1. proto[n] \in [Nodes -> 0..MaxRounds] /\ 0 \in 0..MaxRounds
    BY Numbers DEF ProtoTypes
  <1>2. [proto[n] EXCEPT ![m] = 0] \in [Nodes -> 0..MaxRounds]
    BY <1>1
  <1>3. proto' = [proto EXCEPT ![n] = [proto[n] EXCEPT ![m] = 0]]
    OBVIOUS
  <1>4. proto' \in [Nodes -> [Nodes -> 0..MaxRounds]]
    BY <1>2, <1>3 DEF ProtoTypes
  <1> QED
    BY <1>1, <1>3, <1>4 DEF ProtoTypes

LEMMA EosAtPrimaryKeeps ==
    ASSUME CellInv, NEW n \in Dialers, EosAtPrimary(n)
    PROVE  CellInv'
  <1>1. CtxTypes /\ ProtoTypes /\ NetTypes /\ DisTypes /\ PlainTypes /\ CountTypes
    BY InvSplit
  <1>2. /\ Dialing /\ Enabled /\ Resigned
        /\ AllFit(ctx, link, btype, resumed) /\ Clean(net, link, resumed)
    BY InvSplit
  <1>3. n \in Nodes /\ P \in Nodes
    BY Places
  <1>4. ctx' = [ctx EXCEPT ![P] = Orphaned(@, n)]
    BY DEF EosAtPrimary
  <1>5. CtxTypes' /\ \A k \in Nodes : Len(ctx'[k]) = Len(ctx[k])
    BY <1>1, <1>3, <1>4, OrphanedCtx
  <1>6. ProtoTypes'
    <2>1. proto' = [proto EXCEPT ![P][n] = 0]
      BY DEF EosAtPrimary
    <2> QED
      BY <1>1, <1>3, <1>5, <2>1, ProtoZero, ProtoLower
  <1>7. NetTypes' /\ CountTypes'
    BY <1>1 DEF EosAtPrimary, NetTypes, CountTypes
  <1>8. DisTypes' /\ \A k \in Nodes : k # P => dis'[k] = dis[k]
    BY <1>1, <1>3 DEF EosAtPrimary, DisTypes
  <1>9. PlainTypes'
    BY <1>1, Places DEF EosAtPrimary, PlainTypes, Links, cell
  <1>10. \A m \in Dialers : /\ link'[m] \in Gone <=> link[m] \in Gone
                            /\ link'[m] \in {"up", "cut"} => link[m] \in {"up", "cut"}
    BY <1>1 DEF EosAtPrimary, PlainTypes, Gone
  <1>11. Milder
    BY <1>10, Places DEF Milder, EosAtPrimary, cell
  <1>12. Dialing' /\ Resigned'
    BY <1>2, <1>10, Places DEF EosAtPrimary, Dialing, Resigned, cell
  <1>13. Enabled'
    BY <1>2, <1>8, Places DEF EosAtPrimary, Enabled, cell
  <1>14. AllFit(ctx', link', btype', resumed')
    <2>1. AllFit(ctx, link', btype', resumed')
      BY <1>2, <1>11, FitEnv DEF EosAtPrimary, cell
    <2> SUFFICES ASSUME NEW k \in Nodes, NEW i \in DOMAIN ctx'[k]
                 PROVE  Fits(k, ctx'[k][i], link', btype', resumed')
      BY DEF AllFit
    <2>2. CASE k = P
      <3>1. /\ i \in DOMAIN ctx[P]
            /\ ctx'[P][i] = Orphan(ctx[P][i], n)
        BY <1>1, <1>3, <1>4, <2>2, OrphanedCtx
      <3>2. ctx[P][i] \in Contexts /\ Fits(P, ctx[P][i], link', btype', resumed')
        BY <1>1, <1>3, <2>1, <3>1 DEF CtxTypes, AllFit
      <3> QED
        BY <1>3, <2>2, <3>1, <3>2, FitsOrphan
    <2>3. CASE k # P
      <3>1. ctx'[k] = ctx[k]
        BY <1>1, <1>3, <1>4, <2>3, OrphanedCtx
      <3> QED
        BY <2>1, <3>1 DEF AllFit
    <2> QED
      BY <2>2, <2>3
  <1>15. Clean(net', link', resumed')
    BY <1>2, <1>11, CleanEnv DEF EosAtPrimary
  <1> QED
    BY <1>5, <1>6, <1>7, <1>8, <1>9, <1>12, <1>13, <1>14, <1>15, InvNext

(* n frees the entry of P.                                                 *)
LEMMA ClosedParts ==
    ASSUME CellInv, NEW n \in Dialers, Closed(n), link[n] \notin Gone
    PROVE  /\ CtxTypes' /\ ProtoTypes' /\ DisTypes'
           /\ link' \in [Dialers -> Links] /\ link'[n] \in Gone
           /\ \A m \in Dialers : m # n => link'[m] = link[m]
           /\ replaced' \in [Dialers -> BOOLEAN]
           /\ \A m \in Nodes : ~dis'[n][m]
           /\ \A m \in Nodes : m # n => dis'[m] = dis[m]
           /\ \A i \in DOMAIN ctx'[n] : Fits(n, ctx'[n][i], link', btype', resumed')
           /\ \A m \in Nodes : m # n => ctx'[m] = ctx[m]
  <1>1. CtxTypes /\ ProtoTypes /\ NetTypes /\ DisTypes /\ PlainTypes
        /\ AllFit(ctx, link, btype, resumed)
    BY InvSplit
  <1>2. n \in Nodes /\ P \in Nodes
    BY Places
  <1>3. ctx' = [ctx EXCEPT ![n] = Orphaned(@, P)]
    BY DEF Closed
  <1>4. CtxTypes' /\ \A k \in Nodes : Len(ctx'[k]) = Len(ctx[k])
    BY <1>1, <1>2, <1>3, OrphanedCtx
  <1>5. ProtoTypes'
    <2>1. proto' = [proto EXCEPT ![n][P] = 0]
      BY DEF Closed
    <2> QED
      BY <1>1, <1>2, <1>4, <2>1, ProtoZero, ProtoLower
  <1>6. /\ DisTypes' /\ \A m \in Nodes : ~dis'[n][m]
        /\ \A m \in Nodes : m # n => dis'[m] = dis[m]
    <2>1. Toggled(n, TRUE) = [m \in Nodes |-> FALSE]
      BY DEF Toggled
    <2>2. dis' = [dis EXCEPT ![n] = [m \in Nodes |-> FALSE]]
      BY <2>1 DEF Closed
    <2>3. [m \in Nodes |-> FALSE] \in [Nodes -> BOOLEAN]
      OBVIOUS
    <2> QED
      BY <1>1, <1>2, <2>2, <2>3 DEF DisTypes
  <1>7. /\ link' \in [Dialers -> Links] /\ link'[n] \in Gone
        /\ \A m \in Dialers : m # n => link'[m] = link[m]
        /\ replaced' \in [Dialers -> BOOLEAN]
    BY <1>1 DEF Closed, PlainTypes, Links, Gone
  <1>8. ASSUME NEW i \in DOMAIN ctx'[n]
        PROVE  Fits(n, ctx'[n][i], link', btype', resumed')
    <2>1. /\ i \in DOMAIN ctx[n]
          /\ ctx'[n][i] = Orphan(ctx[n][i], P)
      BY <1>1, <1>2, <1>3, <1>8, OrphanedCtx
    <2>2. ctx[n][i] \in Contexts /\ Fits(n, ctx[n][i], link, btype, resumed)
      BY <1>1, <1>2, <2>1 DEF CtxTypes, AllFit
    <2> QED
      BY <1>2, <2>1, <2>2, FitsOrphan
  <1>9. \A m \in Nodes : m # n => ctx'[m] = ctx[m]
    BY <1>1, <1>2, <1>3, OrphanedCtx
  <1> QED
    BY <1>4, <1>5, <1>6, <1>7, <1>8, <1>9

LEMMA TakeOverKeeps ==
    ASSUME CellInv, link[B] \notin Gone, BackupTakesOver,
           net' = [net EXCEPT ![<<P, B>>] = <<>>],
           pings' \in [Servers -> {"no", "sent", "lost"}], CountTypes',
           UNCHANGED <<up, router, backupClosed, resumed, down>>
    PROVE  CellInv'
  <1>1. CtxTypes /\ ProtoTypes /\ NetTypes /\ DisTypes /\ PlainTypes
    BY InvSplit
  <1>2. /\ Dialing /\ Enabled /\ Resigned
        /\ AllFit(ctx, link, btype, resumed) /\ Clean(net, link, resumed)
    BY InvSplit
  <1>3. B \in Dialers /\ B \in Nodes /\ P \in Nodes /\ P # B
    BY Places
  <1>4. Closed(B)
    BY DEF BackupTakesOver
  <1>5. /\ CtxTypes' /\ ProtoTypes' /\ DisTypes'
        /\ link' \in [Dialers -> Links] /\ link'[B] \in Gone
        /\ \A m \in Dialers : m # B => link'[m] = link[m]
        /\ replaced' \in [Dialers -> BOOLEAN]
        /\ \A m \in Nodes : ~dis'[B][m]
        /\ \A m \in Nodes : m # B => dis'[m] = dis[m]
        /\ \A m \in Nodes : m # B => ctx'[m] = ctx[m]
    BY <1>3, <1>4, ClosedParts
  <1>6. \A i \in DOMAIN ctx'[B] : Fits(B, ctx'[B][i], link', btype', resumed')
    BY <1>3, <1>4, ClosedParts
  <1>7. PlainTypes'
    BY <1>1, <1>3, <1>5 DEF BackupTakesOver, PlainTypes
  <1>8. NetTypes'
    BY <1>1, NoPackets DEF NetTypes
  <1>9. Dialing'
    BY <1>2, <1>3, <1>5, Places DEF Dialing, BackupTakesOver
  <1>10. Enabled'
    BY <1>2, <1>3, <1>5, Places DEF Enabled
  <1>11. Resigned'
    BY DEF Resigned, BackupTakesOver
  <1>12. AllFit(ctx', link', btype', resumed')
    <2> SUFFICES ASSUME NEW k \in Nodes, NEW i \in DOMAIN ctx'[k], k # B
                 PROVE  Fits(k, ctx'[k][i], link', btype', resumed')
      BY <1>6 DEF AllFit
    <2>1. ctx'[k] = ctx[k] /\ (k # P => link'[k] = link[k])
      BY <1>5, Places
    <2>2. Fits(k, ctx[k][i], link, btype, resumed)
      BY <1>2, <2>1 DEF AllFit
    <2> QED
      BY <2>1, <2>2 DEF Fits
  <1>13. Clean(net', link', resumed')
    <2>1. <<P, B>> \in Hops /\ net'[<<P, B>>] = <<>> /\ \A h \in Hops : h # <<P, B>> => net'[h] = net[h]
      BY <1>1, <1>3, Hopping DEF NetTypes
    <2>2. \A n \in Dialers : n # B => net'[<<P, n>>] = net[<<P, n>>]
      BY <1>3, <2>1, Hopping, Places
    <2>3. \A s \in Servers : net'[<<s, B>>] = net[<<s, B>>]
      BY <1>3, <2>1, Hopping, Places
    <2> QED
      BY <1>2, <1>5, <2>1, <2>2, <2>3 DEF Clean, Gone
  <1> QED
    BY <1>5, <1>7, <1>8, <1>9, <1>10, <1>11, <1>12, <1>13, InvNext

LEMMA EosAtBackupKeeps ==
    ASSUME CellInv, EosAtBackup
    PROVE  CellInv'
  <1>1. PlainTypes /\ CountTypes
    BY InvSplit
  <1>2. link[B] \notin Gone
    BY DEF EosAtBackup, Gone
  <1>3. pings' \in [Servers -> {"no", "sent", "lost"}]
    BY <1>1 DEF EosAtBackup, PlainTypes, Lost
  <1>4. CountTypes'
    BY <1>1 DEF EosAtBackup, CountTypes
  <1> QED
    BY <1>2, <1>3, <1>4, TakeOverKeeps DEF EosAtBackup

LEMMA PingTimeoutKeeps ==
    ASSUME CellInv, NEW s \in Servers, PingTimeout(s)
    PROVE  CellInv'
  <1>1. PlainTypes /\ CountTypes /\ Dialing
    BY InvSplit
  <1>2. CountTypes'
    BY <1>1, Numbers DEF PingTimeout, CountTypes
  <1>3. [pings EXCEPT ![s] = "no"] \in [Servers -> {"no", "sent", "lost"}]
    BY <1>1 DEF PlainTypes
  <1>4. CASE ~standalone
    <2>1. link[B] \notin Gone
      BY <1>1, <1>4 DEF Dialing
    <2>2. pings' \in [Servers -> {"no", "sent", "lost"}]
      BY <1>3, <1>4 DEF PingTimeout, Lost
    <2> QED
      BY <1>2, <1>4, <2>1, <2>2, TakeOverKeeps DEF PingTimeout
  <1>5. CASE standalone
    <2>1. /\ pings' = [pings EXCEPT ![s] = "no"]
          /\ UNCHANGED <<link, proto, ctx, replaced, dis, btype, standalone,
                         connecting, gaveUp, net, up, router, backupClosed,
                         resumed, down>>
      BY <1>5 DEF PingTimeout
    <2>2. PlainTypes'
      BY <1>1, <1>3, <2>1 DEF PlainTypes
    <2>3. CtxTypes' /\ ProtoTypes' /\ NetTypes' /\ DisTypes'
      BY <2>1, InvSplit DEF CtxTypes, ProtoTypes, NetTypes, DisTypes, LastCtx
    <2>4. Dialing' /\ Enabled' /\ Resigned'
      BY <2>1, InvSplit DEF Dialing, Enabled, Resigned
    <2>5. AllFit(ctx', link', btype', resumed') /\ Clean(net', link', resumed')
      BY <2>1, InvSplit
    <2> QED
      BY <1>2, <2>2, <2>3, <2>4, <2>5, InvNext
  <1> QED
    BY <1>1, <1>4, <1>5 DEF PlainTypes

LEMMA EosAtServerKeeps ==
    ASSUME CellInv, NEW s \in Servers, EosAtServer(s)
    PROVE  CellInv'
  <1>1. CtxTypes /\ ProtoTypes /\ NetTypes /\ DisTypes /\ PlainTypes /\ CountTypes
    BY InvSplit
  <1>2. /\ Dialing /\ Enabled /\ Resigned
        /\ AllFit(ctx, link, btype, resumed) /\ Clean(net, link, resumed)
    BY InvSplit
  <1>3. s \in Dialers /\ s \in Nodes /\ s # P /\ s # B /\ P # B /\ B \in Nodes /\ P \in Nodes /\ B \in Dialers
    BY Places
  <1>4. Closed(s) /\ link[s] \notin Gone
    BY DEF EosAtServer, ServerSwitches, Gone
  <1>5. /\ CtxTypes' /\ ProtoTypes' /\ DisTypes'
        /\ link' \in [Dialers -> Links] /\ link'[s] \in Gone
        /\ \A m \in Dialers : m # s => link'[m] = link[m]
        /\ replaced' \in [Dialers -> BOOLEAN]
        /\ \A m \in Nodes : ~dis'[s][m]
        /\ \A m \in Nodes : m # s => dis'[m] = dis[m]
        /\ \A m \in Nodes : m # s => ctx'[m] = ctx[m]
    BY <1>3, <1>4, ClosedParts
  <1>6. \A i \in DOMAIN ctx'[s] : Fits(s, ctx'[s][i], link', btype', resumed')
    BY <1>3, <1>4, ClosedParts
  <1>7. /\ router' = [router EXCEPT ![s] = B]
        /\ UNCHANGED <<up, faults, btype, standalone, connecting, checks, pings,
                       backupClosed, resumed, gaveUp, down>>
    BY DEF EosAtServer, ServerSwitches
  <1>8. PlainTypes' /\ CountTypes'
    BY <1>1, <1>3, <1>5, <1>7 DEF PlainTypes, CountTypes
  <1>9. s \notin connecting
    BY <1>2, <1>4 DEF Dialing
  <1>10. router \in [Servers -> {P, B}] /\ \A r \in Servers : r # s => router'[r] = router[r]
    BY <1>1, <1>7 DEF PlainTypes
  <1>11. Dialing'
    BY <1>2, <1>3, <1>5, <1>7, <1>9, <1>10, Places DEF Dialing
  <1>12. Enabled'
    <2>1. \A r \in Servers : ~dis'[r][router'[r]]
      <3> SUFFICES ASSUME NEW r \in Servers PROVE ~dis'[r][router'[r]]
        OBVIOUS
      <3>1. CASE r = s
        BY <1>3, <1>5, <1>7, <1>10, <3>1
      <3>2. CASE r # s
        BY <1>2, <1>5, <1>10, <3>2, Places DEF Enabled
      <3> QED
        BY <3>1, <3>2
    <2>2. dis'[B] = dis[B]
      BY <1>3, <1>5
    <2> QED
      BY <1>2, <1>7, <2>1, <2>2 DEF Enabled
  <1>13. Resigned'
    BY <1>2, <1>3, <1>5, <1>7 DEF Resigned
  <1>14. AllFit(ctx', link', btype', resumed')
    <2> SUFFICES ASSUME NEW k \in Nodes, NEW i \in DOMAIN ctx'[k], k # s
                 PROVE  Fits(k, ctx'[k][i], link', btype', resumed')
      BY <1>6 DEF AllFit
    <2>1. ctx'[k] = ctx[k] /\ (k # P => link'[k] = link[k]) /\ link'[B] = link[B]
      BY <1>3, <1>5, Places
    <2>2. Fits(k, ctx[k][i], link, btype, resumed)
      BY <1>2, <2>1 DEF AllFit
    <2> QED
      BY <1>7, <2>1, <2>2 DEF Fits
  <1>15. /\ NetTypes' /\ net'[<<P, s>>] = <<>>
         /\ net'[<<s, B>>] = net[<<s, B>>] \/ net'[<<s, B>>] = Append(net[<<s, B>>], "START_USE")
         /\ \A h \in Hops : h # <<P, s>> /\ h # <<s, B>> => net'[h] = net[h]
    <2>1. <<P, s>> \in Hops /\ <<s, B>> \in Hops /\ <<P, s>> # <<s, B>>
      BY <1>3, Hopping
    <2>2. net[<<s, B>>] \in Seq(Packets) /\ Append(net[<<s, B>>], "START_USE") \in Seq(Packets)
      BY <1>1, <2>1 DEF NetTypes, Packets
    <2>3. CASE router[s] = P
      <3>1. net' = [net EXCEPT ![<<s, B>>] = Append(@, "START_USE"), ![<<P, s>>] = <<>>]
        BY <2>3 DEF EosAtServer, ServerSwitches
      <3>2. /\ net'[<<P, s>>] = <<>> /\ net'[<<s, B>>] = Append(net[<<s, B>>], "START_USE")
            /\ \A h \in Hops : h # <<P, s>> /\ h # <<s, B>> => net'[h] = net[h]
            /\ net' = [h \in Hops |-> net'[h]]
        BY <1>1, <2>1, <3>1 DEF NetTypes
      <3>3. \A h \in Hops : net'[h] \in Seq(Packets)
        BY <1>1, <2>2, <3>2, NoPackets, Zenon DEF NetTypes
      <3> QED
        BY <3>2, <3>3 DEF NetTypes
    <2>4. CASE router[s] # P
      <3>1. net' = [net EXCEPT ![<<P, s>>] = <<>>]
        BY <2>4 DEF EosAtServer, ServerSwitches
      <3> QED
        BY <1>1, <2>1, <2>2, <3>1, NoPackets DEF NetTypes
    <2> QED
      BY <2>3, <2>4
  <1>16. Clean(net', link', resumed')
    <2>1. ASSUME NEW n \in Dialers, link'[n] \in Gone PROVE net'[<<P, n>>] = <<>>
      <3>1. n # s => net'[<<P, n>>] = net[<<P, n>>]
        BY <1>3, <1>15, Hopping, Places
      <3> QED
        BY <1>2, <1>5, <1>15, <2>1, <3>1 DEF Clean
    <2>2. ASSUME NEW r \in Servers, NEW j \in DOMAIN net'[<<r, B>>]
          PROVE  net'[<<r, B>>][j] \in {"CONNECTED", "START_USE"}
      <3>1. <<r, B>> \in Hops /\ net[<<r, B>>] \in Seq(Packets)
        BY <1>1, Hopping, Places DEF NetTypes
      <3>2. \A k \in DOMAIN net[<<r, B>>] : net[<<r, B>>][k] \in {"CONNECTED", "START_USE"}
        BY <1>2 DEF Clean
      <3>3. CASE net'[<<r, B>>] = net[<<r, B>>]
        BY <2>2, <3>2, <3>3
      <3>4. CASE net'[<<r, B>>] = Append(net[<<r, B>>], "START_USE")
        <4>1. \/ net'[<<r, B>>][j] = "START_USE"
              \/ j \in DOMAIN net[<<r, B>>] /\ net'[<<r, B>>][j] = net[<<r, B>>][j]
          BY <2>2, <3>1, <3>4, AppendHas
        <4> QED
          BY <3>2, <4>1
      <3> QED
        BY <1>3, <1>15, <3>1, <3>3, <3>4
    <2>3. net'[<<P, B>>] = net[<<P, B>>]
      BY <1>3, <1>15, Hopping
    <2> QED
      BY <1>2, <1>3, <1>5, <1>7, <2>1, <2>2, <2>3 DEF Clean
  <1> QED
    BY <1>5, <1>8, <1>11, <1>12, <1>13, <1>14, <1>15, <1>16, InvNext

(* A step that changes contexts, packets and counters only.                *)
LEMMA QuietStep ==
    ASSUME CellInv, UNCHANGED <<dis, connecting, cell, env>>,
           CtxTypes', ProtoTypes', NetTypes', CountTypes',
           pings' \in [Servers -> {"no", "sent", "lost"}],
           backupClosed' \in BOOLEAN, down' \in BOOLEAN,
           AllFit(ctx', link, btype, resumed), Clean(net', link, resumed)
    PROVE  CellInv'
  <1>1. UNCHANGED <<up, link, btype, standalone, router, replaced, resumed, gaveUp, dis, connecting>>
    BY DEF cell, env
  <1>2. PlainTypes' /\ DisTypes'
    BY <1>1, InvSplit DEF PlainTypes, DisTypes
  <1>3. Dialing' /\ Enabled' /\ Resigned'
    BY <1>1, InvSplit DEF Dialing, Enabled, Resigned
  <1>4. AllFit(ctx', link', btype', resumed') /\ Clean(net', link', resumed')
    BY <1>1
  <1> QED
    BY <1>2, <1>3, <1>4, InvNext

LEMMA SameCounts ==
    ASSUME CellInv, UNCHANGED <<env, checks>>
    PROVE  CountTypes'
  BY InvSplit DEF CountTypes, env

LEMMA SamePlain ==
    ASSUME CellInv
    PROVE  /\ pings \in [Servers -> {"no", "sent", "lost"}]
           /\ backupClosed \in BOOLEAN /\ down \in BOOLEAN
  BY InvSplit DEF PlainTypes

LEMMA SameContexts ==
    ASSUME CellInv, UNCHANGED <<ctx, proto>>
    PROVE  CtxTypes' /\ ProtoTypes' /\ AllFit(ctx', link, btype, resumed)
  BY InvSplit DEF CtxTypes, ProtoTypes, LastCtx

LEMMA StartUseKeeps ==
    ASSUME CellInv, NEW s \in Servers, StartUse(s)
    PROVE  CellInv'
  <1>1. NetTypes /\ Clean(net, link, resumed)
    BY InvSplit
  <1>2. s \in Nodes /\ B \in Nodes /\ s # B
    BY Places
  <1>3. net[<<s, B>>] # <<>> /\ net' = [net EXCEPT ![<<s, B>>] = Tail(@)]
    BY DEF StartUse
  <1>4. NetTypes' /\ Clean(net', link, resumed)
    BY <1>1, <1>2, <1>3, CleanTail
  <1>5. pings' \in [Servers -> {"no", "sent", "lost"}]
    BY SamePlain DEF StartUse
  <1>6. UNCHANGED <<dis, proto, ctx, connecting, checks, backupClosed, down, cell, env>>
    BY DEF StartUse
  <1>7. CountTypes' /\ backupClosed' \in BOOLEAN /\ down' \in BOOLEAN
    BY <1>6, SameCounts, SamePlain
  <1> QED
    BY <1>4, <1>5, <1>6, <1>7, SameContexts, QuietStep

LEMMA PingAnsweredKeeps ==
    ASSUME CellInv, NEW s \in Servers, PingAnswered(s)
    PROVE  CellInv'
  <1>1. NetTypes' /\ Clean(net', link, resumed)
    BY InvSplit DEF PingAnswered, NetTypes
  <1>2. pings' \in [Servers -> {"no", "sent", "lost"}]
    BY SamePlain DEF PingAnswered
  <1>3. UNCHANGED <<dis, proto, ctx, connecting, checks, backupClosed, net, down, cell, env>>
    BY DEF PingAnswered
  <1>4. CountTypes' /\ backupClosed' \in BOOLEAN /\ down' \in BOOLEAN
    BY <1>3, SameCounts, SamePlain
  <1> QED
    BY <1>1, <1>2, <1>3, <1>4, SameContexts, QuietStep

LEMMA CheckStatusKeeps ==
    ASSUME CellInv, NEW s \in Servers, CheckStatus(s)
    PROVE  CellInv'
  <1>1. NetTypes /\ Clean(net, link, resumed) /\ CountTypes
    BY InvSplit
  <1>2. s \in Nodes /\ B \in Nodes /\ s # B
    BY Places
  <1>3. "START_USE" \in Packets
    BY DEF Packets
  <1>4. NetTypes' /\ Clean(net', link, resumed)
    <2>1. CASE router[s] = B
      <3>1. net' = Sent(s, B, "START_USE", dis)
        BY <2>1 DEF CheckStatus
      <3>2. NetTypes'
        BY <1>1, <1>2, <1>3, <3>1, SentTypes DEF NetTypes
      <3>3. Clean(Sent(s, B, "START_USE", dis), link, resumed)
        BY <1>1, <1>2, <1>3, CleanSent
      <3> QED
        BY <3>1, <3>2, <3>3
    <2>2. CASE router[s] # B
      BY <1>1, <2>2 DEF CheckStatus, NetTypes
    <2> QED
      BY <2>1, <2>2
  <1>5. UNCHANGED <<dis, proto, ctx, connecting, pings, backupClosed, down, cell, env>>
    BY DEF CheckStatus
  <1>6. CountTypes'
    <2>1. checks \in [Servers -> 0..Checks] /\ checks[s] > 0 /\ checks' = [checks EXCEPT ![s] = @ - 1]
      BY <1>1 DEF CountTypes, CheckStatus
    <2>2. checks[s] - 1 \in 0..Checks
      BY <2>1, Numbers
    <2>3. checks' \in [Servers -> 0..Checks]
      BY <2>1, <2>2
    <2> QED
      BY <1>1, <1>5, <2>3 DEF CountTypes, env
  <1> QED
    BY <1>4, <1>5, <1>6, SamePlain, SameContexts, QuietStep

\* A context that B gets when it is connected, or for a restart.
LEMMA InitiatorFits ==
    ASSUME NEW k, NEW lk, NEW bt, NEW rs, lk[B] \notin Gone
    PROVE  Fits(B, NewContext(P, FALSE, k), lk, bt, rs)
  <1> DEFINE c == NewContext(P, FALSE, k)
  <1>1. /\ c.sock = P /\ ~c.responder /\ c.state = 1 /\ c.type = "START"
        /\ c.session = NoSock /\ c.sessions = {} /\ c.connected = {}
        /\ c.answered = {} /\ c.ending = 0
    BY DEF NewContext
  <1> HIDE DEF c
  <1>2. NoSock \notin Servers
    BY Places
  <1>3. RunOk(c, bt)
    BY <1>1, <1>2 DEF RunOk
  <1>4. Fits(B, c, lk, bt, rs)
    BY <1>1, <1>3, Places DEF Fits
  <1> QED
    BY <1>4 DEF c

LEMMA ProtoAdded ==
    ASSUME CtxTypes, ProtoTypes, NEW n \in Nodes, NEW c \in Contexts,
           ctx' = [ctx EXCEPT ![n] = Append(@, c)], Len(ctx[n]) < MaxRounds,
           UNCHANGED proto
    PROVE  ProtoTypes'
  <1>1. /\ Len(ctx'[n]) = Len(ctx[n]) + 1 /\ \A m \in Nodes : m # n => ctx'[m] = ctx[m]
    BY AddedCtx
  <1>2. Len(ctx[n]) \in Nat
    BY DEF CtxTypes
  <1>3. \A m \in Nodes : proto[n][m] <= Len(ctx[n]) /\ proto[n][m] \in Nat
    BY DEF ProtoTypes, LastCtx
  <1>4. \A m \in Nodes : proto[n][m] <= Len(ctx'[n])
    BY <1>1, <1>2, <1>3
  <1>5. Len(ctx'[n]) <= MaxRounds
    BY <1>1, <1>2, Numbers
  <1> QED
    BY <1>1, <1>4, <1>5 DEF ProtoTypes, LastCtx

LEMMA BackupConnectedKeeps ==
    ASSUME CellInv, BackupConnected
    PROVE  CellInv'
  <1>1. CtxTypes /\ ProtoTypes /\ NetTypes /\ DisTypes /\ PlainTypes /\ CountTypes
    BY InvSplit
  <1>2. /\ Dialing /\ Enabled /\ Resigned
        /\ AllFit(ctx, link, btype, resumed) /\ Clean(net, link, resumed)
    BY InvSplit
  <1>3. B \in Dialers /\ B \in Nodes /\ P \in Nodes /\ P # B
    BY Places
  <1>4. /\ link' = [link EXCEPT ![B] = "up"] /\ link[B] = "none" /\ B \in connecting
        /\ connecting' = connecting \ {B} /\ standalone' = FALSE
        /\ UNCHANGED <<up, faults, btype, router, replaced, dis, proto, checks,
                       pings, backupClosed, resumed, gaveUp, net, down>>
    BY DEF BackupConnected
  <1>5. link'[B] = "up" /\ \A m \in Dialers : m # B => link'[m] = link[m]
    BY <1>1, <1>3, <1>4 DEF PlainTypes
  <1>6. PlainTypes' /\ CountTypes' /\ NetTypes' /\ DisTypes'
    BY <1>1, <1>4 DEF PlainTypes, CountTypes, NetTypes, DisTypes, Links
  <1>7. btype = "router" /\ link[B] \in Gone
    BY <1>2, <1>4 DEF Dialing
  <1>8. Dialing' /\ Resigned'
    BY <1>2, <1>3, <1>4, <1>5, <1>7, Places DEF Dialing, Resigned, Gone
  <1>9. Enabled'
    BY <1>2, <1>4 DEF Enabled
  <1>10. Clean(net', link', resumed')
    <2>1. net[<<P, B>>] = <<>>
      BY <1>2, <1>3, <1>7 DEF Clean
    <2> QED
      BY <1>2, <1>4, <1>5, <2>1 DEF Clean, Gone
  <1>11. AllFit(ctx, link', btype', resumed')
    <2> SUFFICES ASSUME NEW n \in Nodes, NEW i \in DOMAIN ctx[n]
                 PROVE  Fits(n, ctx[n][i], link', btype', resumed')
      BY DEF AllFit
    <2>1. Fits(n, ctx[n][i], link, btype, resumed)
      BY <1>2 DEF AllFit
    <2>2. CASE n = B
      <3>1. ctx[n][i].sock # P
        BY <1>3, <1>7, <2>1, <2>2 DEF Fits
      <3> QED
        BY <1>4, <2>1, <3>1 DEF Fits
    <2>3. CASE n # B
      <3>1. n # P => link'[n] = link[n]
        BY <1>5, <2>3, Places
      <3> QED
        BY <1>4, <2>1, <2>3, <3>1 DEF Fits
    <2> QED
      BY <2>2, <2>3
  <1>12. CtxTypes' /\ ProtoTypes' /\ AllFit(ctx', link', btype', resumed')
    <2>1. CASE CallbackKept
      <3> DEFINE c == NewContext(P, FALSE, 0)
      <3>1. ctx' = [ctx EXCEPT ![B] = Append(@, c)] /\ Len(ctx[B]) < MaxRounds
        BY <2>1 DEF BackupConnected, LastCtx
      <3>2. c \in Contexts
        <4>1. P \in Nodes \cup {NoSock} /\ FALSE \in BOOLEAN /\ 0 \in 0..(RestartLimit + 1)
          BY <1>3, Numbers
        <4> QED
          BY <1>1, <4>1, NewContextTypes, Zenon
      <3>3. Fits(B, c, link', btype', resumed')
        BY <1>5, InitiatorFits DEF Gone
      <3> HIDE DEF c
      <3>4. CtxTypes'
        BY <1>1, <1>3, <3>1, <3>2, AddedCtx
      <3>5. ProtoTypes'
        BY <1>1, <1>3, <1>4, <3>1, <3>2, ProtoAdded
      <3> QED
        BY <1>1, <1>3, <1>11, <3>1, <3>2, <3>3, <3>4, <3>5, FitAdded
    <2>2. CASE ~CallbackKept
      <3>1. ctx' = ctx
        BY <2>2 DEF BackupConnected
      <3> QED
        BY <1>1, <1>4, <1>11, <3>1 DEF CtxTypes, ProtoTypes, LastCtx
    <2> QED
      BY <2>1, <2>2
  <1> QED
    BY <1>6, <1>8, <1>9, <1>10, <1>12, InvNext

LEMMA ProtoKept ==
    ASSUME ProtoTypes, CtxTypes', \A n \in Nodes : Len(ctx'[n]) = Len(ctx[n]),
           proto' \in [Nodes -> [Nodes -> 0..MaxRounds]],
           \A n, m \in Nodes : proto'[n][m] <= Len(ctx[n])
    PROVE  ProtoTypes'
  BY DEF ProtoTypes, LastCtx

LEMMA UpdatedParts ==
    ASSUME CellInv, NEW n \in Nodes, NEW i \in DOMAIN ctx[n], NEW c \in Contexts,
           Fits(n, c, link, btype, resumed), ctx' = Updated(n, i, c)
    PROVE  /\ CtxTypes' /\ AllFit(ctx', link, btype, resumed)
           /\ \A m \in Nodes : Len(ctx'[m]) = Len(ctx[m])
           /\ UNCHANGED proto => ProtoTypes'
  <1>1. CtxTypes /\ ProtoTypes /\ AllFit(ctx, link, btype, resumed)
    BY InvSplit
  <1>2. /\ CtxTypes' /\ \A m \in Nodes : Len(ctx'[m]) = Len(ctx[m])
        /\ \A m \in Nodes : DOMAIN ctx'[m] = DOMAIN ctx[m]
        /\ ctx'[n][i] = c
        /\ \A m \in Nodes : \A j \in DOMAIN ctx[m] : m # n \/ j # i => ctx'[m][j] = ctx[m][j]
    BY <1>1, UpdatedCtx
  <1>3. UNCHANGED proto => ProtoTypes'
    BY <1>1, <1>2 DEF ProtoTypes, LastCtx
  <1>4. AllFit(ctx', link, btype, resumed)
    <2> SUFFICES ASSUME NEW m \in Nodes, NEW j \in DOMAIN ctx'[m]
                 PROVE  Fits(m, ctx'[m][j], link, btype, resumed)
      BY DEF AllFit
    <2>1. j \in DOMAIN ctx[m]
      BY <1>2
    <2>2. CASE m = n /\ j = i
      BY <1>2, <2>2
    <2>3. CASE m # n \/ j # i
      <3>1. ctx'[m][j] = ctx[m][j]
        BY <1>2, <2>1, <2>3
      <3>2. Fits(m, ctx[m][j], link, btype, resumed)
        BY <1>1, <2>1 DEF AllFit
      <3> QED
        BY <3>1, <3>2
    <2> QED
      BY <2>2, <2>3
  <1> QED
    BY <1>2, <1>3, <1>4

\* What is known of a context of n.
LEMMA AtContext ==
    ASSUME CellInv, NEW n \in Nodes, NEW i \in DOMAIN ctx[n]
    PROVE  ctx[n][i] \in Contexts /\ Fits(n, ctx[n][i], link, btype, resumed)
  BY InvSplit DEF CtxTypes, AllFit

LEMMA AtProto ==
    ASSUME CellInv, NEW n \in Nodes, NEW m \in Nodes
    PROVE  /\ proto[n][m] \in 0..MaxRounds /\ proto[n][m] <= Len(ctx[n])
           /\ proto[n][m] # 0 => proto[n][m] \in DOMAIN ctx[n]
  <1>1. ctx[n] \in Seq(Contexts) /\ proto[n][m] \in 0..MaxRounds /\ proto[n][m] <= Len(ctx[n])
    BY InvSplit DEF CtxTypes, ProtoTypes, LastCtx
  <1> QED
    BY <1>1, Numbers

LEMMA StartKeeps ==
    ASSUME CellInv, NEW n \in Peers, Start(n)
    PROVE  CellInv'
  <1>1. CtxTypes /\ ProtoTypes /\ NetTypes /\ AllFit(ctx, link, btype, resumed) /\ Clean(net, link, resumed)
    BY InvSplit
  <1>2. n \in Nodes /\ n # B /\ B \in Nodes /\ P # B
    BY Places
  <1>3. net[<<B, n>>] # <<>> /\ net' = [net EXCEPT ![<<B, n>>] = Tail(@)]
    BY DEF Start
  <1>4. NetTypes' /\ Clean(net', link, resumed)
    BY <1>1, <1>2, <1>3, CleanTail
  <1>5. UNCHANGED <<dis, connecting, checks, pings, down, cell, env>>
    BY DEF Start
  <1>6. CountTypes' /\ pings' \in [Servers -> {"no", "sent", "lost"}] /\ down' \in BOOLEAN
    BY <1>5, SameCounts, SamePlain
  <1>7. CASE RefusesStart(n)
    <2>1. backupClosed' \in BOOLEAN /\ UNCHANGED <<ctx, proto>>
      BY <1>7 DEF Start
    <2> QED
      BY <1>4, <1>5, <1>6, <2>1, SameContexts, QuietStep
  <1>8. CASE ~RefusesStart(n)
    <2> DEFINE r == NewContext(B, TRUE, 0)
               c == [r EXCEPT !.session = n]
    <2>1. /\ ctx' = [ctx EXCEPT ![n] = Append(@, c)] /\ Len(ctx[n]) < MaxRounds
          /\ proto' = [proto EXCEPT ![n][B] = Len(ctx'[n])] /\ backupClosed' = backupClosed
      BY <1>8 DEF Start, LastCtx
    <2>2. r \in Contexts
      <3>1. B \in Nodes \cup {NoSock} /\ TRUE \in BOOLEAN /\ 0 \in 0..(RestartLimit + 1)
        BY <1>2, Numbers
      <3> QED
        BY <1>1, <3>1, NewContextTypes, Zenon
    <2>3. r.sock = B /\ r.responder /\ r.state = 1
      BY DEF NewContext
    <2> HIDE DEF r
    <2>4. c \in Contexts
      BY <2>2, FieldSet
    <2>5. c.sock = B /\ c.responder /\ c.state = 1
      BY <2>2, <2>3 DEF Contexts
    <2> HIDE DEF c
    <2>6. Fits(n, c, link, btype, resumed)
      BY <1>2, <2>5 DEF Fits
    <2>7. /\ CtxTypes' /\ Len(ctx'[n]) = Len(ctx[n]) + 1
          /\ \A m \in Nodes : m # n => ctx'[m] = ctx[m]
      BY <1>1, <1>2, <2>1, <2>4, AddedCtx
    <2>8. AllFit(ctx', link, btype, resumed)
      <3>1. link' = link /\ btype' = btype /\ resumed' = resumed
        BY <1>5 DEF cell, env
      <3>2. AllFit(ctx', link', btype', resumed')
        BY <1>1, <1>2, <2>1, <2>4, <2>6, <3>1, FitAdded
      <3> QED
        BY <3>1, <3>2
    <2>9. ProtoTypes'
      <3>1. Len(ctx[n]) \in Nat /\ Len(ctx'[n]) \in 0..MaxRounds
        BY <1>1, <1>2, <2>1, <2>7, Numbers DEF CtxTypes
      <3>2. proto[n] \in [Nodes -> 0..MaxRounds]
        BY <1>1, <1>2 DEF ProtoTypes
      <3>3. proto' \in [Nodes -> [Nodes -> 0..MaxRounds]]
        <4>1. [proto[n] EXCEPT ![B] = Len(ctx'[n])] \in [Nodes -> 0..MaxRounds]
          BY <3>1, <3>2
        <4>2. proto' = [proto EXCEPT ![n] = [proto[n] EXCEPT ![B] = Len(ctx'[n])]]
          BY <2>1
        <4> QED
          BY <1>1, <4>1, <4>2 DEF ProtoTypes
      <3>4. \A m \in Nodes : proto'[n][m] = proto[n][m] \/ proto'[n][m] = Len(ctx'[n])
        BY <1>1, <1>2, <2>1 DEF ProtoTypes
      <3>5. \A k \in Nodes : k # n => proto'[k] = proto[k]
        BY <1>1, <2>1 DEF ProtoTypes
      <3> SUFFICES ASSUME NEW k \in Nodes
                   PROVE  /\ Len(ctx'[k]) <= MaxRounds
                          /\ \A m \in Nodes : proto'[k][m] <= Len(ctx'[k])
        BY <3>3 DEF ProtoTypes, LastCtx
      <3>6. CASE k = n
        <4>1. \A m \in Nodes : proto[n][m] <= Len(ctx[n]) /\ proto[n][m] \in Nat
          BY <1>1, <1>2, <3>2 DEF ProtoTypes, LastCtx
        <4> QED
          BY <2>7, <3>1, <3>4, <3>6, <4>1, Numbers
      <3>7. CASE k # n
        BY <1>1, <2>7, <3>5, <3>7 DEF ProtoTypes, LastCtx
      <3> QED
        BY <3>6, <3>7
    <2>10. backupClosed' \in BOOLEAN
      BY <2>1, SamePlain
    <2> QED
      BY <1>4, <1>5, <1>6, <2>7, <2>8, <2>9, <2>10, QuietStep
  <1> QED
    BY <1>7, <1>8

LEMMA BeginKeeps ==
    ASSUME CellInv, NEW i \in DOMAIN ctx[B], Begin(i)
    PROVE  CellInv'
  <1> DEFINE r == [ctx[B][i] EXCEPT !.started = TRUE]
             c == [r EXCEPT !.tasks = 1]
  <1>1. B \in Nodes
    BY Places
  <1>2. ctx[B][i] \in Contexts /\ Fits(B, ctx[B][i], link, btype, resumed)
    BY <1>1, AtContext
  <1>3. r \in Contexts
    BY <1>2, FieldSet
  <1>4. c \in Contexts
    <2> HIDE DEF r
    <2> QED
      BY <1>3, FieldSet
  <1>5. /\ c.sock = ctx[B][i].sock /\ c.responder = ctx[B][i].responder
        /\ c.state = ctx[B][i].state /\ c.type = ctx[B][i].type
        /\ c.session = ctx[B][i].session /\ c.sessions = ctx[B][i].sessions
        /\ c.connected = ctx[B][i].connected /\ c.answered = ctx[B][i].answered
        /\ c.ending = ctx[B][i].ending
    BY <1>2 DEF Contexts
  <1>6. /\ ctx' = Updated(B, i, c)
        /\ UNCHANGED <<dis, proto, connecting, checks, pings, backupClosed, net, down, cell, env>>
    BY DEF Begin
  <1> HIDE DEF c
  <1>7. Fits(B, c, link, btype, resumed)
    BY <1>2, <1>5 DEF Fits, RunOk
  <1>8. CtxTypes' /\ ProtoTypes' /\ AllFit(ctx', link, btype, resumed)
    BY <1>1, <1>4, <1>6, <1>7, UpdatedParts
  <1>9. NetTypes' /\ Clean(net', link, resumed) /\ CountTypes'
    BY <1>6, InvSplit, SameCounts DEF NetTypes
  <1> QED
    BY <1>6, <1>8, <1>9, SamePlain, QuietStep

\* d is c after a packet of type p from m.
Received(c, d, p, m) ==
    /\ d.sock = c.sock /\ d.responder = c.responder /\ d.state = c.state
    /\ d.sessions = c.sessions /\ d.connected = c.connected
    /\ d.ending = c.ending /\ d.type = p
    /\ \/ d.session = c.session /\ c.answered \subseteq d.answered
       \/ ~c.responder /\ d.session = m /\ c.answered \subseteq d.answered
          /\ (p = "CONNECTED" => m \in d.answered)

LEMMA DispatchedFields ==
    ASSUME NEW c \in Contexts, NEW p \in Types, NEW m \in Nodes,
           ~c.responder => m \in Peers
    PROVE  /\ Dispatched(c, p, m) \in Contexts
           /\ Received(c, Dispatched(c, p, m), p, m)
  <1> DEFINE f == IF ~c.responder THEN m ELSE c.session
             a == IF p = "CONNECTED" THEN c.answered \cup {m} ELSE c.answered
             r1 == [c EXCEPT !.type = p]
             r2 == [r1 EXCEPT !.tasks = c.tasks + 1]
             r3 == [r2 EXCEPT !.session = f]
             r4 == [r3 EXCEPT !.answered = a]
  <1>1. c.tasks + 1 \in Nat /\ c.session \in Peers \cup {NoSock} /\ c.answered \in SUBSET Nodes
    BY DEF Contexts
  <1>2. f \in Peers \cup {NoSock} /\ a \in SUBSET Nodes
    BY <1>1
  <1>3. r1 \in Contexts
    BY FieldSet
  <1>4. r2 \in Contexts
    <2> HIDE DEF r1
    <2> QED
      BY <1>1, <1>3, FieldSet
  <1>5. r3 \in Contexts
    <2> HIDE DEF r2, f
    <2> QED
      BY <1>2, <1>4, FieldSet
  <1>6. r4 \in Contexts
    <2> HIDE DEF r3, a
    <2> QED
      BY <1>2, <1>5, FieldSet
  <1>7. Dispatched(c, p, m) = r4 \/ Dispatched(c, p, m) = r1
    BY DEF Dispatched
  <1>8. /\ r1.sock = c.sock /\ r1.responder = c.responder /\ r1.state = c.state
        /\ r1.sessions = c.sessions /\ r1.connected = c.connected
        /\ r1.ending = c.ending /\ r1.type = p
        /\ r1.session = c.session /\ r1.answered = c.answered
    BY DEF Contexts
  <1>9. /\ r4.sock = c.sock /\ r4.responder = c.responder /\ r4.state = c.state
        /\ r4.sessions = c.sessions /\ r4.connected = c.connected
        /\ r4.ending = c.ending /\ r4.type = p
        /\ r4.session = f /\ r4.answered = a
    <2> HIDE DEF f, a
    <2> QED
      BY DEF Contexts
  <1> HIDE DEF r1, r4
  <1>10. CASE Dispatched(c, p, m) = r1
    BY <1>3, <1>8, <1>10 DEF Received
  <1>11. CASE Dispatched(c, p, m) = r4
    BY <1>6, <1>9, <1>11 DEF Received
  <1> QED
    BY <1>7, <1>10, <1>11

LEMMA ProtoSet ==
    ASSUME CellInv, NEW n \in Nodes, NEW m \in Nodes,
           NEW i \in 0..MaxRounds, i <= Len(ctx[n]),
           proto' = [proto EXCEPT ![n][m] = i],
           CtxTypes', \A k \in Nodes : Len(ctx'[k]) = Len(ctx[k])
    PROVE  ProtoTypes'
  <1>1. ProtoTypes
    BY InvSplit
  <1>2. proto[n] \in [Nodes -> 0..MaxRounds]
    BY <1>1 DEF ProtoTypes
  <1>3. [proto[n] EXCEPT ![m] = i] \in [Nodes -> 0..MaxRounds]
    BY <1>2
  <1>4. proto' = [proto EXCEPT ![n] = [proto[n] EXCEPT ![m] = i]]
    OBVIOUS
  <1>5. proto' \in [Nodes -> [Nodes -> 0..MaxRounds]]
    BY <1>1, <1>3, <1>4 DEF ProtoTypes
  <1>6. \A k, l \in Nodes : proto'[k][l] = proto[k][l] \/ (k = n /\ proto'[k][l] = i)
    BY <1>1, <1>2, <1>4 DEF ProtoTypes
  <1>7. ASSUME NEW k \in Nodes, NEW l \in Nodes PROVE proto'[k][l] <= Len(ctx[k])
    BY <1>6, AtProto
  <1> QED
    BY <1>1, <1>5, <1>7, ProtoKept

LEMMA ReceiveFits ==
    ASSUME CellInv, NEW n \in Nodes, NEW m \in Nodes, n # m,
           net[<<m, n>>] # <<>>, NEW p, p = Head(net[<<m, n>>]),
           p \in {"CONNECTED", "ENDING", "RESUMED"},
           NEW i \in DOMAIN ctx[n],
           NEW c, c = IF Activates(n, m, p) THEN [ctx[n][i] EXCEPT !.sock = P]
                                            ELSE ctx[n][i]
    PROVE  /\ Dispatched(c, p, m) \in Contexts
           /\ Fits(n, Dispatched(c, p, m), link, btype, resumed)
  <1> DEFINE d == Dispatched(c, p, m)
             o == ctx[n][i]
  <1>1. NetTypes /\ Clean(net, link, resumed) /\ Enabled
    BY InvSplit
  <1>2. o \in Contexts /\ Fits(n, o, link, btype, resumed)
    BY AtContext
  <1>3. c \in Contexts
    <2>1. P \in Nodes \cup {NoSock}
      BY Places
    <2> HIDE DEF o
    <2>2. c = o \/ c = [o EXCEPT !.sock = P]
      BY DEF o
    <2> QED
      BY <1>2, <2>1, <2>2, FieldSet
  <1>4. /\ c.responder = o.responder /\ c.state = o.state /\ c.type = o.type
        /\ c.session = o.session /\ c.sessions = o.sessions
        /\ c.connected = o.connected /\ c.answered = o.answered /\ c.ending = o.ending
        /\ c.sock = o.sock \/ (Activates(n, m, p) /\ c.sock = P)
    <2>1. CASE Activates(n, m, p)
      <3>1. c = [o EXCEPT !.sock = P]
        BY <2>1
      <3> HIDE DEF o
      <3> QED
        BY <1>2, <2>1, <3>1 DEF Contexts
    <2>2. CASE ~Activates(n, m, p)
      BY <2>2
    <2> QED
      BY <2>1, <2>2
  <1>5. p \in Types
    BY DEF Types
  <1>6. c.responder <=> n # B
    BY <1>2, <1>4 DEF Fits
  <1>7. ~c.responder => m \in Peers
    BY <1>6 DEF Peers, Nodes
  <1>8. d \in Contexts /\ Received(c, d, p, m)
    BY <1>3, <1>5, <1>7, DispatchedFields
  <1> HIDE DEF d, o
  <1>9. Activates(n, m, p) => n # B /\ link[n] \notin Gone
    <2>1. n = B => ~Activates(n, m, p)
      BY <1>1 DEF Activates, Enabled
    <2>2. Activates(n, m, p) => m = P /\ n # P
      BY DEF Activates
    <2>3. n # P => n \in Dialers
      BY DEF Nodes, Dialers
    <2> QED
      BY <1>1, <2>1, <2>2, <2>3 DEF Clean
  <1>10. 1 \in DOMAIN net[<<m, n>>] /\ p = net[<<m, n>>][1]
    <2>1. <<m, n>> \in Hops
      BY Hopping
    <2>2. net[<<m, n>>] \in Seq(Packets)
      BY <1>1, <2>1 DEF NetTypes
    <2> QED
      BY <2>2
  <1>11. CASE n # B
    <2>1. d.sock = c.sock /\ d.responder = c.responder /\ d.state = o.state
      BY <1>4, <1>8 DEF Received
    <2>2. d.responder
      BY <1>6, <1>11, <2>1
    <2>3. n # P /\ link[n] \in Gone => d.sock # P
      BY <1>2, <1>4, <1>9, <2>1 DEF Fits
    <2>4. Fits(n, d, link, btype, resumed)
      BY <1>2, <1>11, <2>1, <2>2, <2>3 DEF Fits
    <2> QED
      BY <1>8, <2>4 DEF d
  <1>12. CASE n = B
    <2>1. c.sock = o.sock
      BY <1>4, <1>9, <1>12
    <2>2. m \in Servers => p = "CONNECTED"
      BY <1>1, <1>10, <1>12 DEF Clean
    <2>3. link[B] \in {"up", "cut"} /\ ~resumed /\ m = P => p # "RESUMED"
      BY <1>1, <1>10, <1>12 DEF Clean
    <2>4. m = P \/ m \in Servers
      BY <1>12 DEF Nodes
    <2>5. RunOk(o, btype)
      BY <1>2, <1>12 DEF Fits
    <2>6. RunOk(d, btype)
      BY <1>4, <1>8, <2>1, <2>2, <2>4, <2>5, Places DEF RunOk, Received
    <2>7. d.sock = o.sock /\ d.type = p /\ d.responder = c.responder
      BY <1>8, <2>1 DEF Received
    <2>8. ~d.responder
      BY <1>6, <1>12, <2>7
    <2>9. link[B] \in {"up", "cut"} /\ ~resumed => d.type # "RESUMED"
      BY <2>2, <2>3, <2>4, <2>7
    <2>10. link[n] \in Gone => d.sock # P
      BY <1>2, <1>12, <2>7, Places DEF Fits
    <2>11. Fits(n, d, link, btype, resumed)
      BY <1>12, <2>6, <2>8, <2>9, <2>10, Places DEF Fits
    <2> QED
      BY <1>8, <2>11 DEF d
  <1> QED
    BY <1>11, <1>12

LEMMA ReceiveKeeps ==
    ASSUME CellInv, NEW n \in Nodes, NEW m \in Nodes, n # m, Receive(n, m)
    PROVE  CellInv'
  <1> DEFINE p == Head(net[<<m, n>>])
             act == Activates(n, m, p)
             i == IF act THEN proto[n][B] ELSE proto[n][m]
             c == IF act THEN [ctx[n][i] EXCEPT !.sock = P] ELSE ctx[n][i]
  <1>1. NetTypes /\ Clean(net, link, resumed)
    BY InvSplit
  <1>2. /\ net[<<m, n>>] # <<>> /\ p \in {"CONNECTED", "ENDING", "RESUMED"}
        /\ net' = [net EXCEPT ![<<m, n>>] = Tail(@)]
        /\ UNCHANGED <<dis, connecting, checks, pings, backupClosed, cell, env>>
    BY DEF Receive
  <1>3. NetTypes' /\ Clean(net', link, resumed)
    BY <1>1, <1>2, CleanTail
  <1>4. CountTypes' /\ pings' \in [Servers -> {"no", "sent", "lost"}] /\ backupClosed' \in BOOLEAN
    BY <1>2, SameCounts, SamePlain
  <1>5. \/ UNCHANGED <<ctx, proto>> /\ (down' = (down \/ act) \/ down' = TRUE)
        \/ /\ i # 0 /\ ctx' = Updated(n, i, Dispatched(c, p, m))
           /\ proto' = [proto EXCEPT ![n][m] = i] /\ down' = down
    BY DEF Receive
  <1>6. i \in 0..MaxRounds /\ i <= Len(ctx[n]) /\ (i # 0 => i \in DOMAIN ctx[n])
    BY AtProto, Places
  <1>7. CASE UNCHANGED <<ctx, proto>> /\ (down' = (down \/ act) \/ down' = TRUE)
    <2>1. down' \in BOOLEAN
      BY <1>7, SamePlain
    <2> QED
      BY <1>2, <1>3, <1>4, <1>7, <2>1, SameContexts, QuietStep
  <1>8. CASE /\ i # 0 /\ ctx' = Updated(n, i, Dispatched(c, p, m))
             /\ proto' = [proto EXCEPT ![n][m] = i] /\ down' = down
    <2> DEFINE d == Dispatched(c, p, m)
    <2>1. d \in Contexts /\ Fits(n, d, link, btype, resumed)
      BY <1>2, <1>6, <1>8, ReceiveFits
    <2>2. ctx' = Updated(n, i, d) /\ i \in DOMAIN ctx[n] /\ down' \in BOOLEAN
      BY <1>6, <1>8, SamePlain
    <2>3. proto' = [proto EXCEPT ![n][m] = i]
      BY <1>8
    <2> HIDE DEF d, i
    <2>4. /\ CtxTypes' /\ AllFit(ctx', link, btype, resumed)
          /\ \A k \in Nodes : Len(ctx'[k]) = Len(ctx[k])
      BY <2>1, <2>2, UpdatedParts
    <2>5. ProtoTypes'
      BY <1>6, <2>3, <2>4, ProtoSet
    <2> QED
      BY <1>2, <1>3, <1>4, <2>2, <2>4, <2>5, QuietStep
  <1> QED
    BY <1>5, <1>7, <1>8

-----------------------------------------------------------------------------
(* The steps of the protocol.                                              *)

\* c and d differ in nothing the invariant speaks of.
SameRun(c, d) ==
    /\ d.sock = c.sock /\ d.responder = c.responder /\ d.state = c.state
    /\ d.type = c.type /\ d.session = c.session /\ d.sessions = c.sessions
    /\ d.connected = c.connected /\ d.answered = c.answered
    /\ d.ending = c.ending

LEMMA SameFits ==
    ASSUME NEW n, NEW c, NEW d, NEW lk, NEW bt, NEW rs,
           Fits(n, c, lk, bt, rs), SameRun(c, d)
    PROVE  Fits(n, d, lk, bt, rs)
  BY DEF Fits, RunOk, SameRun

LEMMA TakenSame ==
    ASSUME NEW c \in Contexts, c.tasks > 0
    PROVE  /\ Taken(c) \in Contexts /\ SameRun(c, Taken(c))
           /\ Taken(c).fin = c.fin
  <1>1. c.tasks - 1 \in Nat
    BY DEF Contexts
  <1>2. Taken(c) = [c EXCEPT !.tasks = c.tasks - 1]
    BY DEF Taken
  <1>3. Taken(c) \in Contexts
    BY <1>1, <1>2, FieldSet
  <1> QED
    BY <1>2, <1>3 DEF Contexts, SameRun

\* A step of context i of n that changes this context only.
LEMMA ContextOnly ==
    ASSUME CellInv, NEW n \in Nodes, NEW i \in DOMAIN ctx[n], NEW d \in Contexts,
           SameRun(ctx[n][i], d), ctx' = Updated(n, i, d),
           UNCHANGED <<dis, proto, net, connecting, checks, pings, backupClosed,
                       down, cell, env>>
    PROVE  CellInv'
  <1>1. Fits(n, d, link, btype, resumed)
    BY AtContext, SameFits
  <1>2. CtxTypes' /\ ProtoTypes' /\ AllFit(ctx', link, btype, resumed)
    BY <1>1, UpdatedParts
  <1>3. NetTypes' /\ Clean(net', link, resumed) /\ CountTypes'
    BY InvSplit, SameCounts DEF NetTypes
  <1> QED
    BY <1>2, <1>3, SamePlain, QuietStep

LEMMA BadTypeKeeps ==
    ASSUME CellInv, NEW n \in Nodes, NEW i \in DOMAIN ctx[n],
           ctx[n][i].tasks > 0, BadType(n, i), UNCHANGED <<pings, env>>
    PROVE  CellInv'
  <1>1. Taken(ctx[n][i]) \in Contexts /\ SameRun(ctx[n][i], Taken(ctx[n][i]))
    BY AtContext, TakenSame
  <1>2. ctx' = Updated(n, i, Taken(ctx[n][i]))
    BY DEF BadType
  <1>3. UNCHANGED <<dis, proto, net, connecting, checks, pings, backupClosed, down, cell, env>>
    BY DEF BadType
  <1> QED
    BY <1>1, <1>2, <1>3, ContextOnly

LEMMA TimeoutKeeps ==
    ASSUME CellInv, NEW n \in Nodes, NEW i \in DOMAIN ctx[n], Timeout(n, i)
    PROVE  CellInv'
  <1> DEFINE o == ctx[n][i]
             r == [o EXCEPT !.error = TRUE]
             d == [r EXCEPT !.fin = TRUE]
  <1>1. o \in Contexts
    BY AtContext
  <1>2. ctx' = Updated(n, i, d)
        /\ UNCHANGED <<dis, proto, net, connecting, checks, pings, backupClosed, down, cell, env>>
    BY DEF Timeout
  <1> HIDE DEF o
  <1>3. r \in Contexts
    BY <1>1, FieldSet
  <1>4. d \in Contexts
    <2> HIDE DEF r
    <2> QED
      BY <1>3, FieldSet
  <1>5. SameRun(o, d)
    BY <1>1 DEF Contexts, SameRun
  <1> HIDE DEF d
  <1>6. SameRun(ctx[n][i], d)
    BY <1>5 DEF o
  <1> QED
    BY <1>2, <1>4, <1>6, ContextOnly

LEMMA SendEndingKeeps ==
    ASSUME CellInv, NEW i \in DOMAIN ctx[B], SendEnding(i)
    PROVE  CellInv'
  <1> DEFINE o == ctx[B][i]
             r == [o EXCEPT !.ending = o.ending - 1]
             d == [r EXCEPT !.state = 250]
  <1>1. B \in Nodes /\ P \in Nodes /\ P # B /\ B \notin Servers
    BY Places
  <1>2. o \in Contexts /\ Fits(B, o, link, btype, resumed)
    BY <1>1, AtContext
  <1>3. /\ o.ending > 0 /\ ctx' = Updated(B, i, d)
        /\ UNCHANGED <<dis, proto, connecting, checks, pings, backupClosed, down, cell, env>>
        /\ net' = Sent(B, P, "ENDING", dis) \/ net' = net
    BY DEF SendEnding
  <1> HIDE DEF o
  <1>4. r \in Contexts
    <2>1. o.ending - 1 \in Nat
      BY <1>2, <1>3 DEF Contexts
    <2> QED
      BY <1>2, <2>1, FieldSet
  <1>5. d \in Contexts
    <2> HIDE DEF r
    <2> QED
      BY <1>4, FieldSet DEF States
  <1>6. /\ d.sock = o.sock /\ d.responder = o.responder /\ d.state = 250
        /\ d.type = o.type /\ d.session = o.session /\ d.sessions = o.sessions
        /\ d.connected = o.connected /\ d.answered = o.answered
    BY <1>2 DEF Contexts
  <1> HIDE DEF d
  <1>7. RunOk(d, btype)
    <2>1. RunOk(o, btype)
      BY <1>2 DEF Fits
    <2> QED
      BY <1>3, <1>6, <2>1 DEF RunOk
  <1>8. Fits(B, d, link, btype, resumed)
    BY <1>1, <1>2, <1>6, <1>7 DEF Fits
  <1>9. CtxTypes' /\ ProtoTypes' /\ AllFit(ctx', link, btype, resumed)
    BY <1>1, <1>3, <1>5, <1>8, UpdatedParts
  <1>10. NetTypes /\ Clean(net, link, resumed)
    BY InvSplit
  <1>11. NetTypes' /\ Clean(net', link, resumed)
    <2>1. "ENDING" \in Packets /\ "ENDING" # "RESUMED"
      BY DEF Packets, Types
    <2>2. CASE net' = Sent(B, P, "ENDING", dis)
      BY <1>1, <1>10, <2>1, <2>2, SentTypes, CleanSent DEF NetTypes
    <2>3. CASE net' = net
      BY <1>10, <2>3 DEF NetTypes
    <2> QED
      BY <1>3, <2>2, <2>3
  <1>12. CountTypes'
    BY <1>3, SameCounts
  <1> QED
    BY <1>3, <1>9, <1>11, <1>12, SamePlain, QuietStep

LEMMA InitiatorConnectedKeeps ==
    ASSUME CellInv, NEW n \in Nodes, NEW i \in DOMAIN ctx[n],
           ctx[n][i].tasks > 0, InitiatorConnected(n, i), UNCHANGED <<pings, env>>
    PROVE  CellInv'
  <1> DEFINE o == ctx[n][i]
             t == Taken(o)
             v == t.connected \cup (o.sessions \cap {o.session})
             c == [t EXCEPT !.connected = v]
             e == IF AllConnected(c) THEN c.ending + 1 ELSE c.ending
             d == [c EXCEPT !.ending = e]
  <1>1. o \in Contexts /\ Fits(n, o, link, btype, resumed)
    BY AtContext
  <1>2. o.state = 2 /\ ~o.responder
        /\ UNCHANGED <<dis, proto, net, connecting, checks, pings, backupClosed, down, cell, env>>
    BY DEF InitiatorConnected
  <1>3. ctx' = Updated(n, i, d)
    BY DEF InitiatorConnected
  <1>4. t \in Contexts /\ SameRun(o, t)
    BY <1>1, TakenSame
  <1> HIDE DEF t
  <1>5. v \in SUBSET Peers
    BY <1>1, <1>4 DEF Contexts, SameRun
  <1>6. c \in Contexts
    <2> HIDE DEF v
    <2> QED
      BY <1>4, <1>5, FieldSet
  <1>7. /\ c.sock = t.sock /\ c.responder = t.responder /\ c.state = t.state
        /\ c.type = t.type /\ c.session = t.session /\ c.sessions = t.sessions
        /\ c.connected = v /\ c.answered = t.answered /\ c.ending = t.ending
    <2> HIDE DEF v
    <2> QED
      BY <1>4 DEF Contexts
  <1> HIDE DEF c
  <1>8. e \in Nat /\ (e > 0 => c.ending > 0 \/ c.connected = c.sessions)
    BY <1>6 DEF Contexts, AllConnected
  <1> HIDE DEF e
  <1>9. d \in Contexts
    BY <1>6, <1>8, FieldSet
  <1>10. /\ d.sock = c.sock /\ d.responder = c.responder /\ d.state = c.state
         /\ d.type = c.type /\ d.session = c.session /\ d.sessions = c.sessions
         /\ d.connected = c.connected /\ d.answered = c.answered /\ d.ending = e
    BY <1>6 DEF Contexts
  <1> HIDE DEF d
  <1>11. n = B
    BY <1>1, <1>2 DEF Fits
  <1>12. /\ d.sock = o.sock /\ d.responder = o.responder /\ d.state = 2
         /\ d.type = o.type /\ d.session = o.session /\ d.sessions = o.sessions
         /\ d.answered = o.answered
         /\ d.connected = o.connected \cup (o.sessions \cap {o.session})
         /\ d.ending > 0 => o.ending > 0 \/ d.connected = o.sessions
    BY <1>2, <1>4, <1>7, <1>8, <1>10 DEF SameRun
  <1> HIDE DEF o
  <1>13. RunOk(d, btype)
    <2>1. RunOk(o, btype)
      BY <1>1, <1>11 DEF Fits
    <2>2. d.connected \cap Servers \subseteq d.answered
      BY <1>12, <2>1 DEF RunOk
    <2> QED
      BY <1>2, <1>12, <2>1, <2>2 DEF RunOk
  <1>14. Fits(n, d, link, btype, resumed)
    BY <1>1, <1>11, <1>12, <1>13, Places DEF Fits
  <1>15. CtxTypes' /\ ProtoTypes' /\ AllFit(ctx', link, btype, resumed)
    BY <1>2, <1>3, <1>9, <1>14, UpdatedParts
  <1>16. NetTypes' /\ Clean(net', link, resumed) /\ CountTypes'
    BY <1>2, InvSplit, SameCounts DEF NetTypes
  <1> QED
    BY <1>2, <1>15, <1>16, SamePlain, QuietStep

\* A router's packet to several nodes.
LEMMA CleanSentAll ==
    ASSUME NetTypes, NEW rs, Clean(net, link, rs), NEW n \in {P, B}, NEW M,
           NEW p \in Packets, p = "RESUMED" => rs, NEW d
    PROVE  Clean(SentAll(n, M, p, d), link, rs)
  <1> DEFINE nt == SentAll(n, M, p, d)
  <1>1. \A h \in Hops : \/ nt[h] = net[h]
                        \/ /\ h[1] = n /\ Passes(n, h[2])
                           /\ nt[h] = Append(net[h], p)
    BY DEF SentAll, NetTypes
  <1> HIDE DEF nt
  <1>2. \A s \in Servers : nt[<<s, B>>] = net[<<s, B>>]
    <2> SUFFICES ASSUME NEW s \in Servers PROVE nt[<<s, B>>] = net[<<s, B>>]
      OBVIOUS
    <2>1. <<s, B>> \in Hops /\ s # n
      BY Hopping, Places
    <2> QED
      BY <1>1, <2>1
  <1>3. ASSUME NEW m \in Dialers, link[m] \in Gone PROVE nt[<<P, m>>] = <<>>
    <2>1. <<P, m>> \in Hops /\ net[<<P, m>>] = <<>>
      BY <1>3, Hopping, Places DEF Clean
    <2>2. n = P => ~Passes(n, m)
      BY <1>3 DEF Passes, Gone
    <2> QED
      BY <1>1, <2>1, <2>2
  <1>4. ASSUME link[B] \in {"up", "cut"}, ~rs, NEW j \in DOMAIN nt[<<P, B>>]
        PROVE  nt[<<P, B>>][j] # "RESUMED"
    <2>1. <<P, B>> \in Hops
      BY Hopping, Places
    <2>2. net[<<P, B>>] \in Seq(Packets)
      BY <2>1 DEF NetTypes
    <2>3. \A k \in DOMAIN net[<<P, B>>] : net[<<P, B>>][k] # "RESUMED"
      BY <1>4 DEF Clean
    <2>4. nt[<<P, B>>] = net[<<P, B>>] \/ nt[<<P, B>>] = Append(net[<<P, B>>], p)
      BY <1>1, <2>1
    <2>5. CASE nt[<<P, B>>] = net[<<P, B>>]
      BY <1>4, <2>3, <2>5
    <2>6. CASE nt[<<P, B>>] = Append(net[<<P, B>>], p)
      <3>1. nt[<<P, B>>][j] = p \/ (j \in DOMAIN net[<<P, B>>] /\ nt[<<P, B>>][j] = net[<<P, B>>][j])
        BY <1>4, <2>2, <2>6, AppendHas
      <3> QED
        BY <1>4, <2>3, <3>1
    <2> QED
      BY <2>4, <2>5, <2>6
  <1>5. Clean(nt, link, rs)
    BY <1>2, <1>3, <1>4 DEF Clean
  <1> QED
    BY <1>5 DEF nt

LEMMA ProtoSetAll ==
    ASSUME CellInv, NEW n \in Nodes, NEW M, NEW i \in DOMAIN ctx[n],
           proto' = [proto EXCEPT ![n] = [m \in Nodes |-> IF m \in M THEN i ELSE @[m]]],
           CtxTypes', \A k \in Nodes : Len(ctx'[k]) = Len(ctx[k])
    PROVE  ProtoTypes'
  <1>1. ProtoTypes
    BY InvSplit
  <1>2. i \in 0..MaxRounds /\ i <= Len(ctx[n])
    <2>1. ctx[n] \in Seq(Contexts) /\ Len(ctx[n]) <= MaxRounds
      BY InvSplit DEF CtxTypes, ProtoTypes, LastCtx
    <2> QED
      BY <2>1, Numbers
  <1> DEFINE f == [m \in Nodes |-> IF m \in M THEN i ELSE proto[n][m]]
  <1>3. proto[n] \in [Nodes -> 0..MaxRounds]
    BY <1>1 DEF ProtoTypes
  <1>4. f \in [Nodes -> 0..MaxRounds] /\ \A m \in Nodes : f[m] = i \/ f[m] = proto[n][m]
    BY <1>2, <1>3
  <1>5. proto' = [proto EXCEPT ![n] = f]
    OBVIOUS
  <1> HIDE DEF f
  <1>6. proto' \in [Nodes -> [Nodes -> 0..MaxRounds]]
    BY <1>1, <1>4, <1>5 DEF ProtoTypes
  <1>7. \A k, l \in Nodes : proto'[k][l] = proto[k][l] \/ (k = n /\ proto'[k][l] = i)
    BY <1>1, <1>4, <1>5 DEF ProtoTypes
  <1>8. ASSUME NEW k \in Nodes, NEW l \in Nodes PROVE proto'[k][l] <= Len(ctx[k])
    BY <1>2, <1>7, AtProto
  <1> QED
    BY <1>1, <1>6, <1>8, ProtoKept

LEMMA InitiatorStartKeeps ==
    ASSUME CellInv, NEW n \in Nodes, NEW i \in DOMAIN ctx[n],
           ctx[n][i].tasks > 0, InitiatorStart(n, i), UNCHANGED <<pings, env>>
    PROVE  CellInv'
  <1> DEFINE o == ctx[n][i]
             t == Taken(o)
             M == {m \in Peers : Holds(n, m) /\ ~dis[n][m]}
             c == [t EXCEPT !.state = 2]
             d == [c EXCEPT !.sessions = M]
  <1>1. o \in Contexts /\ Fits(n, o, link, btype, resumed)
    BY AtContext
  <1>2. o.state = 1 /\ ~o.responder
        /\ UNCHANGED <<dis, connecting, checks, pings, backupClosed, down, cell, env>>
    BY DEF InitiatorStart
  <1>3. /\ ctx' = Updated(n, i, d) /\ net' = SentAll(n, M, "START", dis)
        /\ proto' = [proto EXCEPT ![n] = [m \in Nodes |-> IF m \in M THEN i ELSE @[m]]]
    BY DEF InitiatorStart
  <1>4. n = B
    BY <1>1, <1>2 DEF Fits
  <1>5. M \in SUBSET Peers /\ (btype = "router" => Servers \subseteq M)
    <2>1. Enabled
      BY InvSplit
    <2>2. \A s \in Servers : Holds(B, s) /\ s \in Peers
      BY Places DEF Holds, Peers
    <2> QED
      BY <1>4, <2>1, <2>2 DEF Enabled
  <1>6. t \in Contexts /\ SameRun(o, t)
    BY <1>1, TakenSame
  <1> HIDE DEF t, M
  <1>7. c \in Contexts
    BY <1>6, FieldSet DEF States
  <1>8. d \in Contexts
    <2> HIDE DEF c
    <2> QED
      BY <1>5, <1>7, FieldSet
  <1>9. /\ d.sock = t.sock /\ d.responder = t.responder /\ d.state = 2
        /\ d.type = t.type /\ d.session = t.session /\ d.sessions = M
        /\ d.connected = t.connected /\ d.answered = t.answered /\ d.ending = t.ending
    BY <1>6 DEF Contexts
  <1> HIDE DEF d
  <1>10. /\ d.sock = o.sock /\ d.responder = o.responder
         /\ d.type = o.type /\ d.session = o.session
         /\ d.connected = o.connected /\ d.answered = o.answered /\ d.ending = o.ending
    BY <1>6, <1>9 DEF SameRun
  <1> HIDE DEF o
  <1>11. RunOk(d, btype)
    <2>1. RunOk(o, btype)
      BY <1>1, <1>4 DEF Fits
    <2> QED
      BY <1>2, <1>5, <1>9, <1>10, <2>1 DEF RunOk
  <1>12. Fits(n, d, link, btype, resumed)
    BY <1>1, <1>4, <1>10, <1>11, Places DEF Fits
  <1>13. /\ CtxTypes' /\ AllFit(ctx', link, btype, resumed)
         /\ \A k \in Nodes : Len(ctx'[k]) = Len(ctx[k])
    BY <1>3, <1>8, <1>12, UpdatedParts
  <1>14. ProtoTypes'
    BY <1>3, <1>13, ProtoSetAll
  <1>15. NetTypes' /\ Clean(net', link, resumed)
    <2>1. NetTypes /\ Clean(net, link, resumed)
      BY InvSplit
    <2>2. "START" \in Packets /\ "START" # "RESUMED" /\ n \in {P, B}
      BY <1>4 DEF Packets, Types
    <2>3. NetTypes'
      BY <1>3, <2>1, <2>2, SentAllTypes DEF NetTypes
    <2>4. Clean(SentAll(n, M, "START", dis), link, resumed)
      BY <2>1, <2>2, CleanSentAll
    <2> QED
      BY <1>3, <2>3, <2>4
  <1>16. CountTypes'
    BY <1>2, SameCounts
  <1> QED
    BY <1>2, <1>13, <1>14, <1>15, <1>16, SamePlain, QuietStep

LEMMA NotHeld ==
    ASSUME PlainTypes, NEW s \in Servers, ~Holds(s, P)
    PROVE  link[s] \in Gone
  <1>1. s # P /\ s \in Dialers
    BY Places
  <1>2. Holds(s, P) <=> link[s] \in {"up", "cut", "near"}
    BY <1>1 DEF Holds
  <1> QED
    BY <1>1, <1>2 DEF PlainTypes, Links, Gone

LEMMA ResponderStartKeeps ==
    ASSUME CellInv, NEW n \in Nodes, NEW i \in DOMAIN ctx[n],
           ctx[n][i].tasks > 0, ResponderStart(n, i), UNCHANGED <<pings, env>>
    PROVE  CellInv'
  <1> DEFINE o == ctx[n][i]
             t == Taken(o)
             v == IF n = P THEN 2 ELSE 250
             c == [t EXCEPT !.sessions = {n}]
             d == [c EXCEPT !.state = v]
  <1>1. o \in Contexts /\ Fits(n, o, link, btype, resumed)
    BY AtContext
  <1>2. o.responder /\ ctx' = Updated(n, i, d)
        /\ UNCHANGED <<dis, proto, checks, pings, backupClosed, down, cell, env>>
    BY DEF ResponderStart
  <1>3. n # B /\ n \in Peers
    BY <1>1, <1>2 DEF Fits, Nodes, Peers
  <1>4. t \in Contexts /\ SameRun(o, t)
    BY <1>1, TakenSame
  <1> HIDE DEF t
  <1>5. c \in Contexts
    BY <1>3, <1>4, FieldSet
  <1>6. v \in States /\ (n \in Servers => v = 250)
    BY Places DEF States
  <1>7. d \in Contexts
    <2> HIDE DEF c, v
    <2> QED
      BY <1>5, <1>6, FieldSet
  <1>8. d.sock = t.sock /\ d.responder = t.responder /\ d.state = v
    <2> HIDE DEF v
    <2> QED
      BY <1>4 DEF Contexts
  <1> HIDE DEF d, v
  <1>9. d.sock = o.sock /\ d.responder = o.responder
    BY <1>4, <1>8 DEF SameRun
  <1> HIDE DEF o
  <1>10. Fits(n, d, link, btype, resumed)
    BY <1>1, <1>3, <1>6, <1>8, <1>9 DEF Fits
  <1>11. CtxTypes' /\ ProtoTypes' /\ AllFit(ctx', link, btype, resumed)
    BY <1>2, <1>7, <1>10, UpdatedParts
  <1>12. PlainTypes /\ Dialing /\ Enabled /\ Resigned /\ DisTypes /\ CountTypes
         /\ NetTypes /\ Clean(net, link, resumed)
    BY InvSplit
  <1>13. \/ Reconnects(n) /\ connecting' = connecting \cup {n} /\ net' = net
         \/ connecting' = connecting /\ (net' = net \/ net' = Sent(n, B, "CONNECTED", dis))
    BY DEF ResponderStart
  <1>14. NetTypes' /\ Clean(net', link, resumed)
    <2>1. "CONNECTED" \in Packets /\ "CONNECTED" # "RESUMED" /\ B \in Nodes
      BY Places DEF Packets, Types
    <2>2. CASE net' = Sent(n, B, "CONNECTED", dis)
      BY <1>3, <1>12, <2>1, <2>2, SentTypes, CleanSent DEF NetTypes
    <2>3. CASE net' = net
      BY <1>12, <2>3 DEF NetTypes
    <2> QED
      BY <1>13, <2>2, <2>3
  <1>15. UNCHANGED <<up, link, faults, btype, standalone, router, replaced, resumed, gaveUp>>
    BY <1>2 DEF cell, env
  <1>16. Reconnects(n) => n \in Servers /\ router[n] = B /\ link[n] \in Gone
    BY <1>12, NotHeld DEF Reconnects
  <1>17. Dialing' /\ connecting' \subseteq Dialers
    <2>1. CASE connecting' = connecting
      BY <1>12, <1>15, <2>1 DEF Dialing, PlainTypes
    <2>2. CASE Reconnects(n) /\ connecting' = connecting \cup {n}
      <3>1. n \in Servers /\ router[n] = B /\ link[n] \in Gone /\ n \in Dialers /\ n # B
        BY <1>16, <2>2, Places
      <3> QED
        BY <1>12, <1>15, <2>2, <3>1 DEF Dialing, PlainTypes
    <2> QED
      BY <1>13, <2>1, <2>2
  <1>18. PlainTypes' /\ DisTypes' /\ CountTypes'
    BY <1>2, <1>12, <1>15, <1>17 DEF PlainTypes, DisTypes, CountTypes
  <1>19. Enabled' /\ Resigned'
    BY <1>2, <1>12, <1>15 DEF Enabled, Resigned
  <1>20. AllFit(ctx', link', btype', resumed') /\ Clean(net', link', resumed')
    BY <1>11, <1>14, <1>15
  <1> QED
    BY <1>11, <1>14, <1>17, <1>18, <1>19, <1>20, InvNext

LEMMA ServerConnectedKeeps ==
    ASSUME CellInv, NEW s \in Servers, ServerConnected(s)
    PROVE  CellInv'
  <1> DEFINE i == proto[s][B]
             o == ctx[s][i]
             d == [o EXCEPT !.sock = P]
  <1>1. CtxTypes /\ ProtoTypes /\ NetTypes /\ DisTypes /\ PlainTypes /\ CountTypes
    BY InvSplit
  <1>2. /\ Dialing /\ Enabled /\ Resigned
        /\ AllFit(ctx, link, btype, resumed) /\ Clean(net, link, resumed)
    BY InvSplit
  <1>3. s \in Dialers /\ s \in Nodes /\ s # P /\ s # B /\ P # B /\ B \in Nodes /\ P \in Nodes /\ B \in Dialers
    BY Places
  <1>4. /\ s \in connecting /\ link' = [link EXCEPT ![s] = "up"]
        /\ connecting' = connecting \ {s}
        /\ UNCHANGED <<up, faults, checks, pings, backupClosed, btype, standalone,
                       router, replaced, resumed, gaveUp>>
    BY DEF ServerConnected, cell
  <1>5. \/ UNCHANGED <<dis, proto, ctx, net>> /\ (down' = down \/ down' = TRUE)
        \/ /\ i # 0 /\ net' = Sent(s, B, "CONNECTED", dis)
           /\ dis' = [dis EXCEPT ![s][P] = TRUE] /\ ctx' = Updated(s, i, d)
           /\ proto' = [proto EXCEPT ![s][P] = i, ![s][B] = 0] /\ down' = down
    BY DEF ServerConnected
  <1>6. link'[s] = "up" /\ \A m \in Dialers : m # s => link'[m] = link[m]
    BY <1>1, <1>3, <1>4 DEF PlainTypes
  <1>7. down' \in BOOLEAN
    BY <1>5, SamePlain
  <1>8. link' \in [Dialers -> Links]
    BY <1>1, <1>4 DEF PlainTypes, Links
  <1>9. PlainTypes' /\ CountTypes'
    BY <1>1, <1>4, <1>7, <1>8 DEF PlainTypes, CountTypes
  <1>10. router[s] = B
    BY <1>2, <1>4 DEF Dialing
  <1>11. Dialing' /\ Resigned'
    BY <1>2, <1>3, <1>4, <1>6, Places DEF Dialing, Resigned, Gone
  <1>12. Milder
    BY <1>3, <1>4, <1>6 DEF Milder, Gone
  <1>13. AllFit(ctx, link', btype', resumed')
    BY <1>2, <1>4, <1>12, FitEnv
  <1>14. CASE UNCHANGED <<dis, proto, ctx, net>> /\ (down' = down \/ down' = TRUE)
    <2>1. CtxTypes' /\ ProtoTypes' /\ NetTypes' /\ DisTypes'
      BY <1>1, <1>14 DEF CtxTypes, ProtoTypes, NetTypes, DisTypes, LastCtx
    <2>2. Enabled'
      BY <1>2, <1>4, <1>14 DEF Enabled
    <2>3. AllFit(ctx', link', btype', resumed')
      BY <1>13, <1>14
    <2>4. Clean(net', link', resumed')
      BY <1>2, <1>12, <1>14, CleanEnv
    <2> QED
      BY <1>9, <1>11, <2>1, <2>2, <2>3, <2>4, InvNext
  <1>15. CASE /\ i # 0 /\ net' = Sent(s, B, "CONNECTED", dis)
              /\ dis' = [dis EXCEPT ![s][P] = TRUE] /\ ctx' = Updated(s, i, d)
              /\ proto' = [proto EXCEPT ![s][P] = i, ![s][B] = 0] /\ down' = down
    <2>1. i \in DOMAIN ctx[s] /\ i \in 0..MaxRounds /\ i <= Len(ctx[s])
      BY <1>3, <1>15, AtProto
    <2>2. proto' = [proto EXCEPT ![s][P] = i, ![s][B] = 0]
      BY <1>15
    <2>3. ctx' = Updated(s, i, d)
      BY <1>15
    <2> HIDE DEF i
    <2>4. o \in Contexts /\ Fits(s, o, link, btype, resumed)
      BY <1>3, <2>1, AtContext
    <2> HIDE DEF o
    <2>5. d \in Contexts
      BY <1>3, <2>4, FieldSet
    <2>6. d.sock = P /\ d.responder = o.responder /\ d.state = o.state
      BY <2>4 DEF Contexts
    <2> HIDE DEF d
    <2>7. Fits(s, d, link', btype', resumed')
      BY <1>3, <1>6, <2>4, <2>6 DEF Fits, Gone
    <2>8. AllFit(ctx', link', btype', resumed')
      BY <1>1, <1>3, <1>13, <2>1, <2>3, <2>5, <2>7, FitUpdated
    <2>9. CtxTypes' /\ \A k \in Nodes : Len(ctx'[k]) = Len(ctx[k])
      BY <1>1, <1>3, <2>1, <2>3, <2>5, UpdatedCtx
    <2>10. ProtoTypes'
      <3> DEFINE f == [proto[s] EXCEPT ![P] = i]
                 g == [f EXCEPT ![B] = 0]
      <3>1. proto' = [proto EXCEPT ![s] = g]
        BY <1>1, <1>3, <2>2 DEF ProtoTypes
      <3>2. proto[s] \in [Nodes -> 0..MaxRounds]
        BY <1>1, <1>3 DEF ProtoTypes
      <3>3. f \in [Nodes -> 0..MaxRounds] /\ \A m \in Nodes : f[m] = i \/ f[m] = proto[s][m]
        BY <1>3, <2>1, <3>2
      <3> HIDE DEF f
      <3>4. g \in [Nodes -> 0..MaxRounds] /\ \A m \in Nodes : g[m] = 0 \/ g[m] = f[m]
        BY <1>3, <3>3, Numbers
      <3> HIDE DEF g
      <3>5. proto' \in [Nodes -> [Nodes -> 0..MaxRounds]]
        BY <1>1, <3>1, <3>4 DEF ProtoTypes
      <3>6. \A k, l \in Nodes : \/ proto'[k][l] = proto[k][l]
                                \/ k = s /\ (proto'[k][l] = i \/ proto'[k][l] = 0)
        BY <1>1, <1>3, <3>1, <3>3, <3>4 DEF ProtoTypes
      <3>7. ASSUME NEW k \in Nodes, NEW l \in Nodes PROVE proto'[k][l] <= Len(ctx[k])
        BY <2>1, <3>6, AtProto
      <3> QED
        BY <1>1, <2>9, <3>5, <3>7, ProtoKept
    <2>11. DisTypes' /\ Enabled'
      <3>1. dis[s] \in [Nodes -> BOOLEAN]
        BY <1>1, <1>3 DEF DisTypes
      <3>2. dis' = [dis EXCEPT ![s] = [dis[s] EXCEPT ![P] = TRUE]]
        BY <1>15
      <3>3. DisTypes' /\ dis'[s][B] = dis[s][B] /\ \A k \in Nodes : k # s => dis'[k] = dis[k]
        BY <1>1, <1>3, <3>1, <3>2 DEF DisTypes
      <3> QED
        BY <1>2, <1>3, <1>4, <1>10, <3>3, Places DEF Enabled
    <2>12. "CONNECTED" \in Packets /\ "CONNECTED" # "RESUMED"
      BY DEF Packets, Types
    <2>13. NetTypes'
      BY <1>1, <1>3, <1>15, <2>12, SentTypes DEF NetTypes
    <2>14. Clean(Sent(s, B, "CONNECTED", dis), link, resumed)
      BY <1>1, <1>2, <1>3, <2>12, CleanSent
    <2>15. Clean(net', link', resumed')
      BY <1>12, <1>15, <2>14, CleanEnv
    <2> QED
      BY <1>9, <1>11, <2>8, <2>9, <2>10, <2>11, <2>13, <2>15, InvNext
  <1> QED
    BY <1>5, <1>14, <1>15

LEMMA FinSame ==
    ASSUME NEW c \in Contexts, c.tasks > 0
    PROVE  LET d == [Taken(c) EXCEPT !.fin = TRUE] IN d \in Contexts /\ SameRun(c, d)
  <1> DEFINE t == Taken(c)
             d == [t EXCEPT !.fin = TRUE]
  <1>1. t \in Contexts /\ SameRun(c, t)
    BY TakenSame
  <1> HIDE DEF t
  <1>2. d \in Contexts
    BY <1>1, FieldSet
  <1>3. SameRun(t, d)
    BY <1>1 DEF Contexts, SameRun
  <1> HIDE DEF d
  <1>4. SameRun(c, d)
    BY <1>1, <1>3 DEF SameRun
  <1> QED
    BY <1>2, <1>4 DEF d, t

LEMMA ToggledTypes ==
    ASSUME NEW n \in Nodes, NEW e \in BOOLEAN
    PROVE  Toggled(n, e) \in [Nodes -> BOOLEAN]
  BY DEF Toggled

LEMMA PrimaryResumesKeeps ==
    ASSUME CellInv, NEW n \in Nodes, NEW i \in DOMAIN ctx[n],
           ctx[n][i].tasks > 0, PrimaryResumes(n, i), UNCHANGED <<pings, env>>
    PROVE  CellInv'
  <1> DEFINE o == ctx[n][i]
             d == [Taken(o) EXCEPT !.fin = TRUE]
             M == {m \in Dialers : Holds(n, m)}
  <1>1. o \in Contexts /\ Fits(n, o, link, btype, resumed)
    BY AtContext
  <1>2. o.state = 2 /\ o.responder
        /\ UNCHANGED <<connecting, checks, pings, backupClosed, env, btype,
                       standalone, router, replaced, gaveUp>>
    BY DEF PrimaryResumes
  <1>3. n = P
    BY <1>1, <1>2, Places DEF Fits
  <1>4. CASE o.sock = NoSock
    <2>1. down' = TRUE /\ UNCHANGED <<dis, net, proto, ctx, resumed>>
      BY <1>4 DEF PrimaryResumes
    <2>2. UNCHANGED cell
      BY <1>2, <2>1 DEF cell
    <2>3. NetTypes' /\ Clean(net', link, resumed) /\ CountTypes'
      BY <1>2, <2>1, InvSplit, SameCounts DEF NetTypes
    <2> QED
      BY <1>2, <2>1, <2>2, <2>3, SamePlain, SameContexts, QuietStep
  <1>5. CASE o.sock # NoSock
    <2>1. /\ dis' = [dis EXCEPT ![n] = Toggled(n, TRUE)]
          /\ net' = SentAll(n, M, "RESUMED", dis')
          /\ proto' = [proto EXCEPT ![n] = [m \in Nodes |-> IF m \in M THEN i ELSE @[m]]]
          /\ ctx' = Updated(n, i, d) /\ resumed' = TRUE /\ down' = down
      BY <1>5 DEF PrimaryResumes
    <2>2. d \in Contexts /\ SameRun(o, d)
      BY <1>1, FinSame
    <2> HIDE DEF d, M
    <2>3. UNCHANGED <<up, link, faults>>
      BY <1>2 DEF env
    <2>4. /\ CtxTypes /\ NetTypes /\ DisTypes /\ PlainTypes /\ CountTypes
          /\ Dialing /\ Enabled /\ Resigned
          /\ AllFit(ctx, link, btype, resumed) /\ Clean(net, link, resumed)
      BY InvSplit
    <2>5. Milder
      BY <2>1, <2>3 DEF Milder
    <2>6. AllFit(ctx, link', btype', resumed')
      BY <1>2, <2>4, <2>5, FitEnv
    <2>7. Fits(n, d, link', btype', resumed')
      <3>1. Fits(n, o, link', btype', resumed')
        BY <2>6 DEF AllFit
      <3> HIDE DEF o
      <3> QED
        BY <2>2, <3>1, SameFits
    <2>8. AllFit(ctx', link', btype', resumed')
      BY <2>1, <2>2, <2>4, <2>6, <2>7, FitUpdated
    <2>9. CtxTypes' /\ \A k \in Nodes : Len(ctx'[k]) = Len(ctx[k])
      BY <2>1, <2>2, <2>4, UpdatedCtx
    <2>10. ProtoTypes'
      BY <2>1, <2>9, ProtoSetAll
    <2>11. DisTypes' /\ \A k \in Nodes : k # P => dis'[k] = dis[k]
      <3>1. Toggled(n, TRUE) \in [Nodes -> BOOLEAN]
        BY ToggledTypes
      <3> QED
        BY <1>3, <2>1, <2>4, <3>1 DEF DisTypes
    <2>12. Enabled'
      BY <1>2, <2>4, <2>11, Places DEF Enabled
    <2>13. Dialing' /\ Resigned' /\ PlainTypes' /\ CountTypes'
      BY <1>2, <2>1, <2>3, <2>4 DEF Dialing, Resigned, PlainTypes, CountTypes
    <2>14. "RESUMED" \in Packets /\ n \in {P, B}
      BY <1>3 DEF Packets, Types
    <2>15. NetTypes'
      BY <2>1, <2>4, <2>14, SentAllTypes DEF NetTypes
    <2>16. Clean(net, link, TRUE)
      BY <2>4 DEF Clean
    <2>17. Clean(SentAll(n, M, "RESUMED", dis'), link, TRUE)
      BY <2>4, <2>14, <2>16, CleanSentAll, Zenon
    <2>18. Clean(net', link', resumed')
      BY <2>1, <2>3, <2>17
    <2> QED
      BY <2>8, <2>9, <2>10, <2>11, <2>12, <2>13, <2>15, <2>18, InvNext
  <1> QED
    BY <1>4, <1>5

LEMMA ResumesKeeps ==
    ASSUME CellInv, NEW n \in Nodes, NEW i \in DOMAIN ctx[n],
           ctx[n][i].tasks > 0, Resumes(n, i), UNCHANGED <<pings, env>>
    PROVE  CellInv'
  <1> DEFINE o == ctx[n][i]
             d == [Taken(o) EXCEPT !.fin = TRUE]
  <1>1. o \in Contexts /\ Fits(n, o, link, btype, resumed)
    BY AtContext
  <1>2. o.state = 250 /\ o.type = "RESUMED"
        /\ UNCHANGED <<proto, net, connecting, checks, pings, backupClosed, env>>
    <2>1. o.state = 250 /\ o.type = Awaited(o)
          /\ UNCHANGED <<proto, net, connecting, checks, pings, backupClosed, env>>
      BY DEF Resumes
    <2> HIDE DEF o
    <2>2. Awaited(o) = "RESUMED"
      BY <2>1 DEF Awaited
    <2> QED
      BY <2>1, <2>2
  <1>3. CASE o.sock # P
    <2>1. down' = TRUE /\ UNCHANGED <<ctx, dis, cell>>
      BY <1>3 DEF Resumes
    <2>2. NetTypes' /\ Clean(net', link, resumed) /\ CountTypes'
      BY <1>2, InvSplit, SameCounts DEF NetTypes
    <2> QED
      BY <1>2, <2>1, <2>2, SamePlain, SameContexts, QuietStep
  <1>4. CASE o.sock = P
    <2> DEFINE f == [Toggled(n, FALSE) EXCEPT ![P] = FALSE]
    <2>1. /\ btype' = IF n = B THEN "backup" ELSE btype
          /\ ctx' = Updated(n, i, d)
          /\ UNCHANGED <<standalone, resumed, gaveUp, down>>
      BY <1>4 DEF Resumes
    <2>2. \/ UNCHANGED <<router, replaced, dis>>
          \/ /\ router' = IF n = B THEN router ELSE [router EXCEPT ![n] = P]
             /\ replaced' = [replaced EXCEPT ![n] = FALSE]
             /\ dis' = [dis EXCEPT ![n] = f]
      BY <1>4 DEF Resumes
    <2>3. d \in Contexts /\ SameRun(o, d)
      BY <1>1, FinSame
    <2> HIDE DEF d
    <2>4. UNCHANGED <<up, link, faults>>
      BY <1>2 DEF env
    <2>5. /\ CtxTypes /\ ProtoTypes /\ NetTypes /\ DisTypes /\ PlainTypes /\ CountTypes
          /\ Dialing /\ Enabled /\ Resigned
          /\ AllFit(ctx, link, btype, resumed) /\ Clean(net, link, resumed)
      BY InvSplit
    <2>6. n # P => link[n] \notin Gone
      BY <1>1, <1>4 DEF Fits
    <2>7. n = B /\ link[B] \in {"up", "cut"} => resumed
      BY <1>1, <1>2, <1>4 DEF Fits
    <2>8. Milder
      BY <2>1, <2>4, SameEnv
    <2>9. AllFit(ctx, link', btype', resumed')
      <3>1. btype' = "router" => btype = "router"
        BY <2>1
      <3> QED
        BY <2>5, <2>8, <3>1, FitEnv
    <2>10. Fits(n, d, link', btype', resumed')
      <3>1. Fits(n, o, link', btype', resumed')
        BY <2>9 DEF AllFit
      <3> HIDE DEF o
      <3> QED
        BY <2>3, <3>1, SameFits
    <2>11. AllFit(ctx', link', btype', resumed')
      BY <2>1, <2>3, <2>5, <2>9, <2>10, FitUpdated
    <2>12. CtxTypes' /\ \A k \in Nodes : Len(ctx'[k]) = Len(ctx[k])
      BY <2>1, <2>3, <2>5, UpdatedCtx
    <2>13. ProtoTypes' /\ NetTypes' /\ CountTypes'
      BY <1>2, <2>4, <2>5, <2>12 DEF ProtoTypes, NetTypes, CountTypes, LastCtx
    <2>14. f \in [Nodes -> BOOLEAN] /\ f[P] = FALSE
      <3>1. Toggled(n, FALSE) \in [Nodes -> BOOLEAN] /\ P \in Nodes
        BY ToggledTypes, Places
      <3> QED
        BY <3>1
    <2> HIDE DEF f
    <2>15. /\ DisTypes'
           /\ \A k \in Nodes : k # n => dis'[k] = dis[k]
           /\ dis'[n] = dis[n] \/ dis'[n] = f
      <3>1. CASE UNCHANGED <<router, replaced, dis>>
        BY <2>5, <3>1 DEF DisTypes
      <3>2. CASE dis' = [dis EXCEPT ![n] = f]
        BY <2>5, <2>14, <3>2 DEF DisTypes
      <3> QED
        BY <2>2, <3>1, <3>2
    <2>16. /\ router' \in [Servers -> {P, B}] /\ replaced' \in [Dialers -> BOOLEAN]
           /\ \A s \in Servers : s # n => router'[s] = router[s]
           /\ router' = router \/ n \notin Servers \/ (router'[n] = P /\ dis'[n] = f)
      <3>1. CASE UNCHANGED <<router, replaced, dis>>
        BY <2>5, <3>1 DEF PlainTypes
      <3>2. CASE /\ router' = IF n = B THEN router ELSE [router EXCEPT ![n] = P]
                 /\ replaced' = [replaced EXCEPT ![n] = FALSE]
                 /\ dis' = [dis EXCEPT ![n] = f]
        <4>1. router \in [Servers -> {P, B}] /\ replaced \in [Dialers -> BOOLEAN]
          BY <2>5 DEF PlainTypes
        <4>2. replaced' \in [Dialers -> BOOLEAN]
          BY <3>2, <4>1
        <4>3. dis'[n] = f
          BY <2>5, <3>2 DEF DisTypes
        <4>4. CASE n = B
          BY <3>2, <4>1, <4>2, <4>4
        <4>5. CASE n # B
          <5>1. router' = [router EXCEPT ![n] = P]
            BY <3>2, <4>5
          <5> QED
            BY <4>1, <4>2, <4>3, <5>1
        <4> QED
          BY <4>4, <4>5
      <3> QED
        BY <2>2, <3>1, <3>2
    <2>17. PlainTypes'
      BY <1>2, <2>1, <2>4, <2>5, <2>16 DEF PlainTypes
    <2>18. n \notin connecting
      BY <2>5, <2>6, Places DEF Dialing, PlainTypes
    <2>19. Dialing'
      <3>1. \A s \in Servers : s \in connecting => router'[s] = B /\ link[s] \in Gone
        BY <2>5, <2>16, <2>18 DEF Dialing
      <3>2. B \in connecting => btype' = "router" /\ link[B] \in Gone
        BY <2>1, <2>5, <2>18 DEF Dialing
      <3> QED
        BY <1>2, <2>1, <2>4, <2>5, <3>1, <3>2 DEF Dialing
    <2>20. Resigned'
      BY <2>1, <2>4, <2>5, <2>7 DEF Resigned
    <2>21. Enabled'
      <3>1. ASSUME NEW s \in Servers PROVE ~dis'[s][router'[s]]
        <4>1. s \in Nodes /\ router[s] \in {P, B} /\ P \in Nodes /\ ~dis[s][router[s]]
          BY <2>5, Places DEF PlainTypes, Enabled
        <4>2. CASE s # n
          BY <2>15, <2>16, <4>1, <4>2
        <4>3. CASE s = n
          <5>1. CASE dis'[n] = dis[n]
            <6>1. CASE router' = router
              BY <4>1, <4>3, <5>1, <6>1
            <6>2. CASE router'[n] = P /\ dis'[n] = f
              BY <2>14, <4>3, <6>2
            <6> QED
              BY <2>16, <4>3, <6>1, <6>2
          <5>2. CASE dis'[n] = f /\ dis'[n] # dis[n]
            <6>1. n # B
              BY <4>3, Places
            <6>2. router' = [router EXCEPT ![n] = P]
              BY <2>2, <5>2, <6>1
            <6>3. router'[n] = P
              BY <2>5, <4>3, <6>2 DEF PlainTypes
            <6> QED
              BY <2>14, <4>3, <5>2, <6>3
          <5> QED
            BY <2>15, <5>1, <5>2
        <4> QED
          BY <4>2, <4>3
      <3>2. ~dis'[B][P]
        BY <2>5, <2>14, <2>15, Places DEF Enabled
      <3>3. btype' = "router" => \A s \in Servers : ~dis'[B][s]
        <4>1. btype' = "router" => n # B /\ btype = "router"
          BY <2>1
        <4> QED
          BY <2>5, <2>15, <4>1, Places DEF Enabled
      <3> QED
        BY <3>1, <3>2, <3>3 DEF Enabled
    <2>22. Clean(net', link', resumed')
      BY <1>2, <2>1, <2>4, <2>5
    <2> QED
      BY <2>11, <2>12, <2>13, <2>15, <2>17, <2>19, <2>20, <2>21, <2>22, InvNext
  <1> QED
    BY <1>3, <1>4

-----------------------------------------------------------------------------
(* The end of a run.                                                       *)

LEMMA FreedFits ==
    ASSUME CtxTypes, ProtoTypes, NEW n, NEW c \in Contexts, NEW lk, NEW bt, NEW rs,
           c.responder <=> n # B
    PROVE  Fits(n, FreedContext(c), lk, bt, rs)
  <1> DEFINE f == FreedContext(c)
  <1>1. /\ f.sock = NoSock /\ f.responder = c.responder /\ f.state = 0
        /\ f.session = NoSock /\ f.sessions = {} /\ f.connected = {}
        /\ f.ending = 0
    BY FreedContextTypes DEF Freed
  <1> HIDE DEF f
  <1>2. NoSock \notin Servers /\ NoSock # P
    BY Places
  <1>3. RunOk(f, bt)
    BY <1>1, <1>2 DEF RunOk
  <1>4. Fits(n, f, lk, bt, rs)
    BY <1>1, <1>2, <1>3 DEF Fits
  <1> QED
    BY <1>4 DEF f

\* Context i of n is freed, and a new one may be added.
Ended(n, i, f, c, add) ==
    [ctx EXCEPT ![n] = IF add THEN Append([@ EXCEPT ![i] = f], c)
                              ELSE [@ EXCEPT ![i] = f]]

EndedFacts(n, i, f, c, add) ==
    /\ CtxTypes'
    /\ \A m \in Nodes : m # n => ctx'[m] = ctx[m]
    /\ Len(ctx'[n]) = IF add THEN Len(ctx[n]) + 1 ELSE Len(ctx[n])
    /\ \A j \in DOMAIN ctx'[n] :
          \/ ctx'[n][j] = f
          \/ j \in DOMAIN ctx[n] /\ ctx'[n][j] = ctx[n][j]
          \/ add /\ ctx'[n][j] = c

LEMMA EndedCtx ==
    ASSUME CtxTypes, NEW n \in Nodes, NEW i \in DOMAIN ctx[n],
           NEW f \in Contexts, NEW c, NEW add \in BOOLEAN, add => c \in Contexts,
           ctx' = Ended(n, i, f, c, add)
    PROVE  EndedFacts(n, i, f, c, add)
  <1> DEFINE q == [ctx[n] EXCEPT ![i] = f]
             r == IF add THEN Append(q, c) ELSE q
  <1>1. ctx[n] \in Seq(Contexts) /\ ctx \in [Nodes -> Seq(Contexts)]
    BY DEF CtxTypes
  <1>2. /\ q \in Seq(Contexts) /\ Len(q) = Len(ctx[n])
        /\ \A j \in DOMAIN q : j \in DOMAIN ctx[n] /\ (q[j] = f \/ q[j] = ctx[n][j])
    BY <1>1
  <1>3. ctx' = [ctx EXCEPT ![n] = r]
    BY DEF Ended
  <1> HIDE DEF q
  <1>4. r \in Seq(Contexts) /\ Len(r) = IF add THEN Len(ctx[n]) + 1 ELSE Len(ctx[n])
    BY <1>2
  <1>5. \A j \in DOMAIN r : \/ j \in DOMAIN q /\ r[j] = q[j]
                            \/ add /\ r[j] = c
    BY <1>2
  <1> HIDE DEF r
  <1>6. ctx'[n] = r /\ \A m \in Nodes : m # n => ctx'[m] = ctx[m]
    BY <1>1, <1>3
  <1>7. CtxTypes'
    BY <1>1, <1>3, <1>4 DEF CtxTypes
  <1> QED
    BY <1>2, <1>4, <1>5, <1>6, <1>7 DEF EndedFacts

\* Only B, when it gives up, disables an entry, and never that of P.
LEMMA DisabledLess ==
    ASSUME DisTypes, NEW n \in Nodes, NEW i, NEW after
    PROVE  LET f == DisabledAfter(n, i, after) IN
           /\ f \in [Nodes -> BOOLEAN]
           /\ \/ \A m \in Nodes : f[m] => dis[n][m]
              \/ /\ ctx[n][i].error /\ AtPrimaryRoute(n, i) /\ GivesUp(ctx[n][i])
                 /\ ~f[P]
  <1> DEFINE f == DisabledAfter(n, i, after)
             gives == ctx[n][i].error /\ AtPrimaryRoute(n, i) /\ GivesUp(ctx[n][i])
             keeps == ctx[n][i].error /\ (n \in Servers \/ AtPrimaryRoute(n, i))
             out(m) == m \in Servers /\ (m \notin Members(n, i) \/ m \notin after)
             left(m) == dis[n][m] /\ ((keeps /\ m = P) \/ m \notin Members(n, i))
  <1>1. f = [m \in Nodes |-> IF gives THEN out(m) ELSE left(m)]
    BY DEF DisabledAfter
  <1>2. \A m \in Nodes : /\ out(m) \in BOOLEAN /\ left(m) \in BOOLEAN
                         /\ left(m) => dis[n][m]
    OBVIOUS
  <1>3. ~out(P) /\ P \in Nodes
    BY Places
  <1> HIDE DEF f, gives, out, left
  <1>4. f \in [Nodes -> BOOLEAN]
    BY <1>1, <1>2
  <1>5. ~gives => \A m \in Nodes : f[m] => dis[n][m]
    BY <1>1, <1>2
  <1>6. gives => ~f[P]
    BY <1>1, <1>3
  <1> QED
    BY <1>4, <1>5, <1>6 DEF f, gives

LEMMA RemovedLess ==
    ASSUME ProtoTypes, NEW n \in Nodes, NEW i
    PROVE  /\ Removed(n, i) \in [Nodes -> 0..MaxRounds]
           /\ \A m \in Nodes : Removed(n, i)[m] = 0 \/ Removed(n, i)[m] = proto[n][m]
  <1>1. proto[n] \in [Nodes -> 0..MaxRounds] /\ 0 \in 0..MaxRounds
    BY Numbers DEF ProtoTypes
  <1>2. \A m \in Nodes : Removed(n, i)[m] = 0 \/ Removed(n, i)[m] = proto[n][m]
    BY DEF Removed
  <1>3. Removed(n, i) = [m \in Nodes |-> Removed(n, i)[m]]
    BY DEF Removed
  <1> QED
    BY <1>1, <1>2, <1>3

LEMMA DoneKeeps ==
    ASSUME CellInv, NEW n \in Nodes, NEW i \in DOMAIN ctx[n], Done(n, i)
    PROVE  CellInv'
  <1> DEFINE o == ctx[n][i]
             route == o.error /\ AtPrimaryRoute(n, i)
             restarts == route /\ ~GivesUp(o)
             gives == route /\ GivesUp(o)
             asks == o.error /\ n \in Servers /\ router[n] = B
             f == FreedContext(o)
             k == o.restart + 1
             c == NewContext(P, FALSE, k)
  <1>1. CtxTypes /\ ProtoTypes /\ NetTypes /\ DisTypes /\ PlainTypes /\ CountTypes
    BY InvSplit
  <1>2. /\ Dialing /\ Enabled /\ Resigned
        /\ AllFit(ctx, link, btype, resumed) /\ Clean(net, link, resumed)
    BY InvSplit
  <1>3. o \in Contexts /\ Fits(n, o, link, btype, resumed)
    BY AtContext
  <1>4. PICK after \in SUBSET Servers : dis' = [dis EXCEPT ![n] = DisabledAfter(n, i, after)]
    BY DEF Done
  <1>5. /\ restarts => Len(ctx[n]) < MaxRounds
        /\ ctx' = [ctx EXCEPT ![n] = IF restarts THEN Append([@ EXCEPT ![i] = f], c)
                                                 ELSE [@ EXCEPT ![i] = f]]
        /\ proto' = [proto EXCEPT ![n] = Removed(n, i)]
        /\ btype' = IF gives THEN "backup" ELSE btype
        /\ gaveUp' = (gaveUp \/ gives)
        /\ net' = IF asks THEN Sent(n, B, "START_USE", dis') ELSE net
        /\ checks' = IF asks THEN [checks EXCEPT ![n] = Checks] ELSE checks
    BY DEF Done, LastCtx
  <1>6. UNCHANGED <<connecting, pings, backupClosed, standalone, router,
                    replaced, resumed, down, up, link, faults>>
    BY DEF Done, env
  <1>7. route => n = B /\ link[B] \notin Gone
    BY <1>2 DEF AtPrimaryRoute, Dialing
  <1>8. f \in Contexts
    BY <1>1, <1>3, FreedContextTypes
  <1>9. restarts => c \in Contexts
    <2> SUFFICES ASSUME restarts PROVE c \in Contexts
      OBVIOUS
    <2>1. o.restart \in 0..(RestartLimit + 1) /\ ~(o.restart > RestartLimit)
      BY <1>3 DEF Contexts, GivesUp
    <2>2. k \in 0..(RestartLimit + 1)
      BY <2>1, Numbers
    <2> HIDE DEF k
    <2>3. P \in Nodes \cup {NoSock} /\ FALSE \in BOOLEAN
      BY Places
    <2> QED
      BY <1>1, <2>2, <2>3, NewContextTypes, Zenon
  <1>10. restarts => Fits(B, c, link', btype', resumed')
    BY <1>6, <1>7, InitiatorFits
  <1>11. Fits(n, f, link', btype', resumed')
    <2>1. o.responder <=> n # B
      BY <1>3 DEF Fits
    <2> HIDE DEF o
    <2> QED
      BY <1>1, <1>3, <2>1, FreedFits
  <1> HIDE DEF f, c, o
  <1>12. restarts \in BOOLEAN
    OBVIOUS
  <1>13. /\ CtxTypes'
         /\ \A m \in Nodes : m # n => ctx'[m] = ctx[m]
         /\ Len(ctx'[n]) = IF restarts THEN Len(ctx[n]) + 1 ELSE Len(ctx[n])
         /\ \A j \in DOMAIN ctx'[n] :
               \/ ctx'[n][j] = f
               \/ j \in DOMAIN ctx[n] /\ ctx'[n][j] = ctx[n][j]
               \/ restarts /\ ctx'[n][j] = c
    <2>1. ctx' = Ended(n, i, f, c, restarts)
      BY <1>5 DEF Ended
    <2> HIDE DEF restarts
    <2>2. EndedFacts(n, i, f, c, restarts)
      BY <1>1, <1>8, <1>9, <1>12, <2>1, EndedCtx
    <2> QED
      BY <2>2 DEF EndedFacts
  <1> HIDE DEF restarts
  <1>14. AllFit(ctx', link', btype', resumed')
    <2>1. AllFit(ctx, link', btype', resumed')
      <3>1. Milder /\ (btype' = "router" => btype = "router")
        BY <1>5, <1>6, SameEnv
      <3> QED
        BY <1>2, <3>1, FitEnv
    <2> SUFFICES ASSUME NEW m \in Nodes, NEW j \in DOMAIN ctx'[m]
                 PROVE  Fits(m, ctx'[m][j], link', btype', resumed')
      BY DEF AllFit
    <2>2. CASE m # n
      <3>1. ctx'[m] = ctx[m]
        BY <1>13, <2>2
      <3> QED
        BY <2>1, <3>1 DEF AllFit
    <2>3. CASE m = n
      <3>1. CASE ctx'[n][j] = f
        BY <1>11, <2>3, <3>1
      <3>2. CASE j \in DOMAIN ctx[n] /\ ctx'[n][j] = ctx[n][j]
        BY <2>1, <2>3, <3>2 DEF AllFit
      <3>3. CASE restarts /\ ctx'[n][j] = c
        <4>1. n = B
          BY <1>7, <3>3 DEF restarts
        <4> QED
          BY <1>10, <2>3, <3>3, <4>1
      <3> QED
        BY <1>13, <2>3, <3>1, <3>2, <3>3
    <2> QED
      BY <2>2, <2>3
  <1>15. ProtoTypes'
    <2>1. /\ Removed(n, i) \in [Nodes -> 0..MaxRounds]
          /\ \A m \in Nodes : Removed(n, i)[m] = 0 \/ Removed(n, i)[m] = proto[n][m]
      BY <1>1, RemovedLess
    <2>2. proto' \in [Nodes -> [Nodes -> 0..MaxRounds]]
      BY <1>1, <1>5, <2>1 DEF ProtoTypes
    <2>3. \A l, m \in Nodes : proto'[l][m] = 0 \/ proto'[l][m] = proto[l][m]
      BY <1>1, <1>5, <2>1 DEF ProtoTypes
    <2>4. ASSUME NEW l \in Nodes
          PROVE  Len(ctx'[l]) <= MaxRounds /\ Len(ctx[l]) <= Len(ctx'[l]) /\ Len(ctx'[l]) \in Nat
      <3>1. Len(ctx[l]) \in Nat /\ Len(ctx[l]) <= MaxRounds
        BY <1>1 DEF CtxTypes, ProtoTypes, LastCtx
      <3>2. Len(ctx'[l]) = Len(ctx[l]) \/ (restarts /\ l = n /\ Len(ctx'[l]) = Len(ctx[l]) + 1)
        BY <1>13
      <3> QED
        BY <1>5, <3>1, <3>2, Numbers
    <2>5. ASSUME NEW l \in Nodes, NEW m \in Nodes PROVE proto'[l][m] <= Len(ctx'[l])
      <3>1. proto[l][m] \in Nat /\ proto[l][m] <= Len(ctx[l]) /\ Len(ctx[l]) \in Nat
        BY <1>1, AtProto DEF CtxTypes
      <3> QED
        BY <2>3, <2>4, <3>1
    <2> QED
      BY <2>2, <2>4, <2>5 DEF ProtoTypes, LastCtx
  <1>16. /\ DisTypes' /\ \A l \in Nodes : l # n => dis'[l] = dis[l]
         /\ \/ \A m \in Nodes : dis'[n][m] => dis[n][m]
            \/ gives /\ ~dis'[n][P]
    <2> DEFINE g == DisabledAfter(n, i, after)
    <2>1. /\ g \in [Nodes -> BOOLEAN]
          /\ \/ \A m \in Nodes : g[m] => dis[n][m]
             \/ gives /\ ~g[P]
      BY <1>1, DisabledLess DEF o
    <2> HIDE DEF g, gives
    <2>2. dis' = [dis EXCEPT ![n] = g]
      BY <1>4 DEF g
    <2> QED
      BY <1>1, <2>1, <2>2 DEF DisTypes
  <1>17. Enabled'
    <2>1. P \in Nodes /\ B \in Nodes /\ \A s \in Servers : s \in Nodes /\ router[s] \in Nodes
      BY <1>1, Places DEF PlainTypes
    <2>2. CASE \A m \in Nodes : dis'[n][m] => dis[n][m]
      <3>1. \A l, m \in Nodes : dis'[l][m] => dis[l][m]
        BY <1>16, <2>2
      <3>2. btype' = "router" => btype = "router"
        BY <1>5
      <3> QED
        BY <1>2, <1>6, <2>1, <3>1, <3>2 DEF Enabled
    <2>3. CASE gives /\ ~dis'[n][P]
      <3>1. n = B /\ btype' = "backup"
        BY <1>5, <1>7, <2>3
      <3>2. \A s \in Servers : dis'[s] = dis[s]
        BY <1>16, <3>1, Places
      <3> QED
        BY <1>2, <1>6, <2>3, <3>1, <3>2 DEF Enabled
    <2> QED
      BY <1>16, <2>2, <2>3
  <1>18. Dialing'
    <2>1. gives => B \notin connecting
      BY <1>2, <1>7 DEF Dialing
    <2>2. ~gives => btype' = btype
      BY <1>5
    <2> QED
      BY <1>2, <1>6, <2>1, <2>2 DEF Dialing
  <1>19. Resigned'
    <2>1. gives => gaveUp'
      BY <1>5
    <2>2. ~gives => btype' = btype /\ (gaveUp => gaveUp')
      BY <1>5
    <2> QED
      BY <1>2, <1>6, <2>1, <2>2 DEF Resigned
  <1>20. PlainTypes'
    <2>1. btype' \in {"backup", "router"} /\ gaveUp' \in BOOLEAN
      BY <1>1, <1>5 DEF PlainTypes
    <2> QED
      BY <1>1, <1>6, <2>1 DEF PlainTypes
  <1>21. CountTypes'
    <2>1. checks' \in [Servers -> 0..Checks]
      BY <1>1, <1>5, Numbers DEF CountTypes
    <2> QED
      BY <1>1, <1>6, <2>1 DEF CountTypes
  <1>22. NetTypes' /\ Clean(net', link', resumed')
    <2>1. CASE asks
      <3>1. net' = Sent(n, B, "START_USE", dis') /\ n \in Servers
        BY <1>5, <2>1
      <3>2. "START_USE" \in Packets /\ "START_USE" # "RESUMED" /\ n # B /\ B \in Nodes
        BY <3>1, Places DEF Packets
      <3>3. NetTypes'
        BY <1>1, <3>1, <3>2, SentTypes DEF NetTypes
      <3>4. Clean(Sent(n, B, "START_USE", dis'), link, resumed)
        BY <1>1, <1>2, <3>2, CleanSent
      <3> QED
        BY <1>6, <3>1, <3>3, <3>4
    <2>2. CASE ~asks
      BY <1>1, <1>2, <1>5, <1>6, <2>2 DEF NetTypes
    <2> QED
      BY <2>1, <2>2
  <1> QED
    BY <1>13, <1>14, <1>15, <1>16, <1>17, <1>18, <1>19, <1>20, <1>21, <1>22, InvNext

-----------------------------------------------------------------------------
(* The theorems.                                                           *)

LEMMA NextKeeps ==
    ASSUME CellInv, [Next]_vars
    PROVE  CellInv'
  <1>1. CASE Environment
    <2>1. P \notin Dialers
      BY Places
    <2> QED
      BY <1>1, CrashKeeps, RestartKeeps, CutKeeps DEF Environment
  <1>2. CASE Notices
    BY <1>2, EosAtBackupKeeps, EosAtServerKeeps, EosAtPrimaryKeeps DEF Notices
  <1>3. CASE UseChecks
    BY <1>3, StartUseKeeps, PingAnsweredKeeps, PingTimeoutKeeps, CheckStatusKeeps DEF UseChecks
  <1>4. CASE Connects
    BY <1>4, BackupConnectedKeeps, ServerConnectedKeeps DEF Connects
  <1>5. CASE Delivers
    BY <1>5, StartKeeps, ReceiveKeeps DEF Delivers
  <1>6. CASE Tasks
    <2>0. PICK n \in Nodes : \E i \in DOMAIN ctx[n] : ContextStep(n, i)
      BY <1>6 DEF Tasks
    <2>1. PICK i \in DOMAIN ctx[n] : ContextStep(n, i)
      BY <2>0
    <2>2. CASE ProtocolBackup(n, i)
      <3>1. ctx[n][i].tasks > 0 /\ UNCHANGED <<pings, env>>
        BY <2>2 DEF ProtocolBackup
      <3>2. \/ InitiatorStart(n, i)     \/ ResponderStart(n, i)
            \/ InitiatorConnected(n, i) \/ PrimaryResumes(n, i)
            \/ Resumes(n, i)            \/ BadType(n, i)
        BY <2>2 DEF ProtocolBackup
      <3> QED
        BY <3>1, <3>2, InitiatorStartKeeps, ResponderStartKeeps, InitiatorConnectedKeeps,
           PrimaryResumesKeeps, ResumesKeeps, BadTypeKeeps
    <2>3. CASE Done(n, i)
      BY <2>3, DoneKeeps
    <2>4. CASE n = B /\ (Begin(i) \/ SendEnding(i))
      BY <2>4, BeginKeeps, SendEndingKeeps
    <2> QED
      BY <2>1, <2>2, <2>3, <2>4 DEF ContextStep
  <1>7. CASE Timeouts
    BY <1>7, TimeoutKeeps DEF Timeouts
  <1>8. CASE UNCHANGED vars
    <2>1. UNCHANGED <<dis, proto, ctx, connecting, checks, pings, backupClosed, net,
                      down, cell, env>>
      BY <1>8 DEF vars, cell, env
    <2>2. NetTypes' /\ Clean(net', link, resumed) /\ CountTypes'
      BY <2>1, InvSplit, SameCounts DEF NetTypes
    <2> QED
      BY <2>1, <2>2, SamePlain, SameContexts, QuietStep
  <1> QED
    BY <1>1, <1>2, <1>3, <1>4, <1>5, <1>6, <1>7, <1>8 DEF Next

\* The inductive invariant of the cell holds in every reachable state: no
\* interleaving of crashes, cuts, timeouts, restarts of the protocol and late
\* packets leads out of it.
THEOREM CellInvariance == Spec => []CellInv
  <1>1. Init => CellInv
    BY InitInv
  <1>2. CellInv /\ [Next]_vars => CellInv'
    BY NextKeeps
  <1> QED
    BY <1>1, <1>2, PTL DEF Spec

\* Every variable keeps its type: an entry's backup_proto never points past
\* the contexts its node allocated, and the counter of restarts
\* (initiator_restart) passes its limit by one at most.
THEOREM CellTypes == Spec => []TypeOK
  <1>1. CellInv => TypeOK
    BY DEF CellInv
  <1> QED
    BY <1>1, CellInvariance, PTL

\* A server's own router is never disabled at the server, and B, while it is
\* the router of the cell, does not ignore the servers that use it
\* (silc_server_packet_send drops what is sent to a disabled entry).
THEOREM RouterUsableCorrect == Spec => []RouterUsable
  <1>1. CellInv => RouterUsable
    BY DEF CellInv, Enabled, RouterUsable
  <1> QED
    BY <1>1, CellInvariance, PTL

\* B gives up its role as router of the cell only when P has resumed, or when
\* it gave the protocol up: RESUMED never comes from before P's last start.
THEOREM ResignAfterResumeCorrect == Spec => []ResignAfterResume
  <1>1. CellInv => ResignAfterResume
    BY DEF CellInv, Resigned, ResignAfterResume
  <1> QED
    BY <1>1, CellInvariance, PTL

\* B tells P to resume (ENDING) in a run of the protocol only after every
\* server of the run answered CONNECTED itself; while B is the router of the
\* cell, that is every server.
THEOREM ResumeReachesAllCorrect == Spec => []ResumeReachesAll
  <1>1. ASSUME CellInv PROVE ResumeReachesAll
    <2> SUFFICES ASSUME NEW i \in DOMAIN ctx[B],
                        ctx[B][i].ending > 0 \/ ctx[B][i].state = 250
                 PROVE  /\ ctx[B][i].sessions \cap Servers \subseteq ctx[B][i].answered
                        /\ btype = "router" /\ ctx[B][i].sock = P =>
                              Servers \subseteq ctx[B][i].answered
      BY DEF ResumeReachesAll
    <2>1. B \in Nodes
      BY Places
    <2>2. RunOk(ctx[B][i], btype)
      BY <1>1, <2>1, AtContext DEF Fits
    <2> QED
      BY <2>2 DEF RunOk
  <1> QED
    BY <1>1, CellInvariance, PTL

=============================================================================
