---------------------------- MODULE QueryProofs ----------------------------
(***************************************************************************)
(* Proofs about Query: its safety properties, and that it implements the   *)
(* safety part of CommandService, for every set of commands and clients.   *)
(***************************************************************************)
EXTENDS Query, FiniteSetTheorems, TLAPS

-----------------------------------------------------------------------------
(***************************************************************************)
(* The inductive invariant.                                                *)
(***************************************************************************)

\* Everything on the list that has to do with a command.
Of(r) == {p \in pending_commands : p.context = r}

\* Identifiers are taken from cmd_ident.
IdentsTaken ==
    /\ \A p \in pending_commands : p.ident <= cmd_ident
    /\ \A t \in Clients : entry[t].resolve_cmd_ident <= cmd_ident

\* silc_server_command_pending refuses duplicates.
Unique == \A p, q \in pending_commands : SamePending(p, q) => p = q

\* Which callbacks are on the list, and for whom.
Shape ==
    \A p \in pending_commands :
        /\ p.callback # "resolve_reply" => p.reply_cmd = "WHOIS"
        /\ (p.callback = "invite") <=> (Kind[p.context] = "invite")
        /\ p.callback = "invite" => p.context \in cmd_pending

\* The callbacks being run are on the list, were collected for this reply, and
\* are those that will be deleted after it.
Loop ==
    /\ exec.todo \subseteq pending_commands
    /\ exec.done \subseteq pending_commands
    /\ exec.todo \cap exec.done = {}
    /\ \A p \in exec.todo \cup exec.done :
           p.reply_check /\ PendingMatches(p, exec.cmd, exec.ident)
    /\ exec # Idle =>
           \A p \in pending_commands :
               PendingDeleted(p, exec.cmd, exec.ident) =>
                   p \in exec.todo \cup exec.done

\* A query asks the router, with one callback on the list, ...
RouterPhase(r) ==
    /\ query[r].queries_left = 0
    /\ \E x \in Waiting(r) : x.callback = "send_router_reply" /\ Of(r) = {x}

\* ... or resolves clients, with a callback for each query left.
ResolvePhase(r) ==
    /\ \A p \in Waiting(r) : p.callback = "resolve_reply"
    /\ Waiting(r) # {}
    /\ query[r].queries_left = Cardinality(Waiting(r))

QueryPhase(r) ==
    /\ r \notin cmd_pending
    /\ query[r].status = "none" => /\ Of(r) = {}
                                   /\ query[r].queries_left = 0
    /\ query[r].status = "freed" => Waiting(r) = {}
    /\ query[r].status = "waiting" => RouterPhase(r) \/ ResolvePhase(r)
    /\ users[r] = IF query[r].status = "waiting" THEN 1 ELSE 0
    /\ replies[r] <= IF query[r].status = "freed" THEN 1 ELSE 0

InvitePhase(r) ==
    /\ query[r].status = "none"
    /\ r \notin cmd_pending => Of(r) = {}
    /\ \A p, q \in Of(r) : p = q
    /\ users[r] = IF Waiting(r) = {} THEN 0 ELSE 1
    /\ replies[r] <= IF Waiting(r) = {} THEN 1 ELSE 0

Phase(r) == IF Kind[r] = "invite" THEN InvitePhase(r) ELSE QueryPhase(r)

Phases == \A r \in Requests : Phase(r)

Structure ==
    /\ IsFiniteSet(pending_commands)
    /\ IdentsTaken
    /\ Unique
    /\ Shape
    /\ Loop

QueryInv == TypeOK /\ Structure /\ Phases

-----------------------------------------------------------------------------
(***************************************************************************)
(* Kinds of steps, as far as the list of pending commands goes.            *)
(***************************************************************************)

\* Entries `new', which belong to command r, are put on the list.
Adds(r, new) ==
    /\ pending_commands' = pending_commands \cup new
    /\ new \subseteq PendingType
    /\ IsFiniteSet(new)
    /\ new # {}
    /\ \A p \in new :
           /\ p.context = r
           /\ ~p.reply_check
           /\ p.ident <= cmd_ident'
           /\ p.reply_cmd = "WHOIS" => exec = Idle \/ p.ident > cmd_ident
           /\ \A q \in pending_commands : ~SamePending(p, q)
    /\ \A p, q \in new : SamePending(p, q) => p = q

\* The entries for a reply are marked, and perhaps their callbacks begin.
Marks(cmd, ident) ==
    /\ exec = Idle
    /\ pending_commands' = PendingChecked(cmd, ident)
    /\ \/ exec' = exec
       \/ /\ exec'.cmd = cmd
          /\ exec'.ident = ident
          /\ exec'.todo = {p \in PendingChecked(cmd, ident) :
                              PendingMatches(p, cmd, ident)}
          /\ exec'.done = {}

\* The callback of p is run.
Runs(p) ==
    /\ p \in exec.todo
    /\ exec' = [exec EXCEPT !.todo = @ \ {p}, !.done = @ \cup {p}]

\* Client entries with their types and with identifiers that are taken.
EntriesGood(e, n) ==
    /\ e \in [Clients -> [status : {"none", "registered", "expired"},
                          info : {"none", "nick", "full"},
                          resolving : BOOLEAN, resolve_cmd_ident : Nat]]
    /\ \A t \in Clients : e[t].resolve_cmd_ident <= n

WireType == [ident : Nat, ids : SUBSET Clients, from : Requests, again : BOOLEAN]

QueryType == [status : {"none", "waiting", "freed"}, resolved : BOOLEAN,
              queries : SUBSET (Clients \X Nat), queries_left : Nat]

\* The query of r begins to wait for the callbacks `new'.
Starts(r, new, callback, held) ==
    /\ Adds(r, new)
    /\ \A p \in new : p.callback = callback
    /\ cmd_ident' \in Nat /\ cmd_ident <= cmd_ident'
    /\ wire' \subseteq WireType
    /\ EntriesGood(entry', cmd_ident')
    /\ query' \in [Requests -> QueryType]
    /\ \A s \in Requests \ {r} : query'[s] = query[s]
    /\ query'[r].status = "waiting"
    /\ users' = [users EXCEPT ![r] = held]
    /\ UNCHANGED <<cmd_pending, replies>>

-----------------------------------------------------------------------------
(***************************************************************************)
(* What the operations do.                                                 *)
(***************************************************************************)

\* What silc_server_command_pending puts on the list has its type.
LEMMA PendingTyped ==
    ASSUME NEW reply_cmd \in {"WHOIS", "NONE"}, NEW ident \in Nat,
           NEW callback \in {"send_router_reply", "resolve_reply", "invite"},
           NEW r \in Requests
    PROVE  Pending(reply_cmd, ident, callback, r) \in PendingType
  BY DEF Pending, PendingType

\* Marking entries keeps everything but their mark.
LEMMA CheckedFields ==
    ASSUME NEW p \in PendingType
    PROVE  /\ Checked(p) \in PendingType
           /\ Checked(p).reply_check
           /\ SamePending(p, Checked(p))
  BY DEF Checked, PendingType, SamePending

\* silc_server_query_send_router puts one callback on the list.
LEMMA SendRouterEffect ==
    ASSUME QueryInv, NEW r \in Requests, NEW held \in Nat,
           query[r].queries_left = 0, SendRouter(r, held)
    PROVE  \E x : /\ Starts(r, {x}, "send_router_reply", held)
                  /\ query'[r].queries_left = 0
                  /\ x.reply_cmd = "WHOIS"
  <1> DEFINE x == Pending("WHOIS", cmd_ident + 1, "send_router_reply", r)
  <1>1. /\ cmd_ident \in Nat /\ query \in [Requests -> QueryType]
        /\ EntriesGood(entry, cmd_ident) /\ wire \subseteq WireType
    BY DEF QueryInv, Structure, TypeOK, IdentsTaken, EntriesGood, QueryType, WireType
  <1>2. x \in PendingType
    BY <1>1, PendingTyped
  <1>3. /\ x.context = r /\ ~x.reply_check /\ x.ident = cmd_ident + 1
        /\ x.reply_cmd = "WHOIS" /\ x.callback = "send_router_reply"
    BY DEF Pending
  <1>4. \A q \in pending_commands : ~SamePending(x, q)
    <2> SUFFICES ASSUME NEW q \in pending_commands PROVE x.ident # q.ident
      BY DEF SamePending
    <2>1. q.ident \in Nat /\ q.ident <= cmd_ident
      BY DEF QueryInv, Structure, TypeOK, IdentsTaken, PendingType
    <2> QED
      BY <1>1, <1>3, <2>1
  <1>5. /\ cmd_ident' = cmd_ident + 1
        /\ pending_commands' = pending_commands \cup {x}
        /\ wire' = wire \cup {Whois(cmd_ident + 1, Targets[r], r, FALSE)}
        /\ query' = [query EXCEPT ![r].status = "waiting", ![r].resolved = TRUE]
        /\ users' = [users EXCEPT ![r] = held]
        /\ UNCHANGED <<entry, cmd_pending, replies>>
    BY DEF SendRouter
  <1>6. IsFiniteSet({x})
    BY FS_Singleton
  <1>a. cmd_ident' \in Nat /\ cmd_ident <= cmd_ident'
    BY <1>1, <1>5
  <1> HIDE DEF x
  <1>7. Adds(r, {x})
    BY <1>1, <1>2, <1>3, <1>4, <1>5, <1>6 DEF Adds
  <1>8. EntriesGood(entry', cmd_ident')
    BY <1>1, <1>5 DEF EntriesGood
  <1>9. wire' \subseteq WireType
    <2>1. Whois(cmd_ident + 1, Targets[r], r, FALSE) \in WireType
      BY <1>1, RequestsAssumption DEF Whois, WireType
    <2> QED
      BY <1>1, <1>5, <2>1
  <1>10. /\ query' \in [Requests -> QueryType]
         /\ \A s \in Requests \ {r} : query'[s] = query[s]
         /\ query'[r].status = "waiting" /\ query'[r].queries_left = 0
    BY <1>1, <1>5 DEF QueryType
  <1>11. Starts(r, {x}, "send_router_reply", held)
    BY <1>a, <1>3, <1>5, <1>7, <1>8, <1>9, <1>10 DEF Starts
  <1> QED
    BY <1>3, <1>10, <1>11

\* silc_server_query_resolve puts a callback on the list for every command it
\* sends or attaches to, and counts them.
LEMMA ResolveEffect ==
    ASSUME QueryInv, NEW r \in Requests, NEW ts \in SUBSET Clients, ts # {},
           NEW held \in Nat,
           \A p \in Of(r) : p.callback # "resolve_reply",
           query[r].queries_left = 0, Resolve(r, ts, held)
    PROVE  \E new : /\ Starts(r, new, "resolve_reply", held)
                    /\ query'[r].queries_left = Cardinality(new)
  <1> DEFINE fresh == {t \in ts : ~entry[t].resolving}
             first == cmd_ident + 1
             o == Pending("WHOIS", first, "resolve_reply", r)
             own == IF fresh = {} THEN {} ELSE {o}
             att(t) == Pending("NONE", entry[t].resolve_cmd_ident,
                               "resolve_reply", r)
             attached == {att(t) : t \in ts \ fresh}
             new == attached \cup own
  <1>1. /\ cmd_ident \in Nat /\ query \in [Requests -> QueryType]
        /\ EntriesGood(entry, cmd_ident) /\ wire \subseteq WireType
        /\ pending_commands \subseteq PendingType
    BY DEF QueryInv, Structure, TypeOK, IdentsTaken, EntriesGood, QueryType, WireType
  <1>2. PICK f \in [fresh -> first..(cmd_ident + Cardinality(fresh))] :
          LET ident(t) == IF t \in fresh THEN f[t]
                          ELSE entry[t].resolve_cmd_ident
          IN  /\ cmd_ident' = cmd_ident + Cardinality(fresh)
              /\ wire' = wire \cup (IF fresh = {} THEN {}
                                    ELSE {Whois(first, fresh, r, FALSE)})
              /\ pending_commands' = pending_commands \cup Added(attached \cup own)
              /\ entry' = [t \in Clients |->
                     IF t \in ts
                     THEN [entry[t] EXCEPT !.resolving = TRUE,
                                           !.resolve_cmd_ident = ident(t)]
                     ELSE entry[t]]
              /\ query' = [query EXCEPT
                     ![r].status = "waiting",
                     ![r].queries = @ \cup {<<t, ident(t)>> : t \in ts},
                     ![r].queries_left = @ + QueriesStarted(r, ts, fresh)]
              /\ users' = [users EXCEPT ![r] = held]
              /\ UNCHANGED <<cmd_pending, replies>>
    BY Zenon DEF Resolve
  <1>3. /\ IsFiniteSet(fresh) /\ Cardinality(fresh) \in Nat
        /\ IsFiniteSet(ts \ fresh)
        /\ fresh # {} => Cardinality(fresh) >= 1
    <2>1. IsFiniteSet(ts)
      BY RequestsAssumption, FS_Subset
    <2>2. IsFiniteSet(fresh) /\ IsFiniteSet(ts \ fresh)
      BY <2>1, FS_Subset
    <2>3. Cardinality(fresh) \in Nat /\ (Cardinality(fresh) = 0 <=> fresh = {})
      BY <2>2, FS_CardinalityType, FS_EmptySet
    <2> QED
      BY <2>2, <2>3
  <1>4. \A t \in Clients : /\ entry[t].resolve_cmd_ident \in Nat
                           /\ entry[t].resolve_cmd_ident <= cmd_ident
    BY <1>1 DEF EntriesGood
  <1>5. \A t \in Clients :
            /\ att(t) \in PendingType
            /\ att(t).context = r /\ ~att(t).reply_check
            /\ att(t).callback = "resolve_reply"
            /\ att(t).reply_cmd = "NONE"
            /\ att(t).ident = entry[t].resolve_cmd_ident
    BY <1>4, PendingTyped DEF Pending
  <1>6. /\ o \in PendingType
        /\ o.context = r /\ ~o.reply_check /\ o.callback = "resolve_reply"
        /\ o.reply_cmd = "WHOIS" /\ o.ident = cmd_ident + 1
    BY <1>1, PendingTyped DEF Pending
  <1>7. IsFiniteSet(attached)
    <2> DEFINE g == [t \in ts \ fresh |-> att(t)]
    <2>1. g \in Surjection(ts \ fresh, attached)
      BY DEF Surjection
    <2>2. IsFiniteSet(ts \ fresh)
      BY <1>3
    <2> HIDE DEF g, attached, fresh
    <2> QED
      BY <2>1, <2>2, FS_Surjection
  <1>8. o \notin attached
    BY <1>5, <1>6
  <1>9. IsFiniteSet(new) /\ Cardinality(new) = Cardinality(attached)
                                + (IF fresh = {} THEN 0 ELSE 1)
    <2>1. Cardinality(attached) \in Nat
      BY <1>7, FS_CardinalityType
    <2>2. CASE fresh = {}
      BY <1>7, <2>1, <2>2
    <2>3. CASE fresh # {}
      <3>1. new = attached \cup {o}
        BY <2>3
      <3> HIDE DEF attached, o, new, fresh
      <3>2. IsFiniteSet(new) /\ Cardinality(new) = Cardinality(attached) + 1
        BY <1>7, <1>8, <3>1, FS_AddElement
      <3> QED
        BY <2>3, <3>2
    <2> QED
      BY <2>2, <2>3

  <1>10. \A p \in new : /\ p \in PendingType
                        /\ p.context = r /\ ~p.reply_check
                        /\ p.callback = "resolve_reply"
    BY <1>5, <1>6
  <1>11. \A p \in new, q \in pending_commands : ~SamePending(p, q)
    <2> SUFFICES ASSUME NEW p \in new, NEW q \in pending_commands,
                        SamePending(p, q)
                 PROVE  FALSE
      OBVIOUS
    <2>1. p.context = r /\ p.callback = "resolve_reply"
      BY <1>10
    <2>2. q \in Of(r) /\ q.callback = "resolve_reply"
      BY <2>1 DEF SamePending, Of
    <2> QED
      BY <2>2
  <1>12. Added(attached) = attached /\ Added(new) = new
    BY <1>11 DEF Added
  <1>13. QueriesStarted(r, ts, fresh) = Cardinality(new)
    <2>1. QueriesStarted(r, ts, fresh) = Cardinality(Added(attached))
                                + (IF fresh = {} THEN 0 ELSE 1)
      BY DEF QueriesStarted
    <2> QED
      BY <1>9, <1>12, <2>1
  <1>14. Cardinality(new) \in Nat
    BY <1>9, FS_CardinalityType
  <1>15. /\ cmd_ident' \in Nat /\ cmd_ident <= cmd_ident'
         /\ fresh # {} => cmd_ident + 1 <= cmd_ident'
         /\ cmd_ident' = cmd_ident + Cardinality(fresh)
    <2>1. cmd_ident' = cmd_ident + Cardinality(fresh)
      BY <1>2
    <2>2. cmd_ident \in Nat
      BY <1>1
    <2> HIDE DEF fresh
    <2> QED
      BY <1>3, <2>1, <2>2
  <1>16. \A p \in new : /\ p.ident <= cmd_ident'
                        /\ p.reply_cmd = "WHOIS" => p.ident > cmd_ident
    <2> TAKE p \in new
    <2>1. CASE p \in attached
      <3>1. PICK t \in Clients : p.ident = entry[t].resolve_cmd_ident
                                 /\ p.reply_cmd = "NONE"
        BY <1>5, <2>1
      <3> QED
        BY <1>1, <1>4, <1>15, <3>1
    <2>2. CASE p \notin attached
      <3>1. p = o /\ fresh # {}
        BY <2>2
      <3> QED
        BY <1>1, <1>6, <1>15, <3>1
    <2> QED
      BY <2>1, <2>2
  <1>17. \A p, q \in new : SamePending(p, q) => p = q
    BY <1>10 DEF SamePending, PendingType
  <1>18. new # {}
    <2>1. CASE fresh # {}
      BY <2>1
    <2>2. CASE fresh = {}
      BY <2>2
    <2> QED
      BY <2>1, <2>2
  <1>19. pending_commands' = pending_commands \cup new
    BY <1>2, <1>12
  <1>20. Adds(r, new)
    <2> HIDE DEF new
    <2> QED
      BY <1>9, <1>10, <1>11, <1>16, <1>17, <1>18, <1>19 DEF Adds
  <1>21. \A t \in fresh : /\ f[t] \in Nat
                          /\ f[t] <= cmd_ident'
    <2>1. f \in [fresh -> first..(cmd_ident + Cardinality(fresh))]
      BY <1>2
    <2>2. cmd_ident \in Nat
      BY <1>1
    <2> HIDE DEF fresh
    <2> QED
      BY <1>3, <1>15, <2>1, <2>2
  <1>22. EntriesGood(entry', cmd_ident')
    <2> SUFFICES ASSUME NEW t \in Clients
                 PROVE  /\ entry'[t] \in [status : {"none", "registered", "expired"},
                                          info : {"none", "nick", "full"},
                                          resolving : BOOLEAN, resolve_cmd_ident : Nat]
                        /\ entry'[t].resolve_cmd_ident <= cmd_ident'
      BY <1>2 DEF EntriesGood
    <2> DEFINE i == IF t \in fresh THEN f[t] ELSE entry[t].resolve_cmd_ident
    <2>1. i \in Nat /\ i <= cmd_ident'
      BY <1>1, <1>4, <1>15, <1>21
    <2>2. entry'[t] = IF t \in ts
                      THEN [entry[t] EXCEPT !.resolving = TRUE,
                                            !.resolve_cmd_ident = i]
                      ELSE entry[t]
      BY <1>2
    <2>3. entry[t] \in [status : {"none", "registered", "expired"},
                        info : {"none", "nick", "full"},
                        resolving : BOOLEAN, resolve_cmd_ident : Nat]
      BY <1>1 DEF EntriesGood
    <2>4. entry[t].resolve_cmd_ident <= cmd_ident'
      <3>1. entry[t].resolve_cmd_ident \in Nat
            /\ entry[t].resolve_cmd_ident <= cmd_ident
        BY <1>4
      <3> QED
        BY <1>1, <1>15, <3>1
    <2> HIDE DEF i, fresh
    <2>5. CASE t \in ts
      BY <2>1, <2>2, <2>3, <2>5
    <2>6. CASE t \notin ts
      BY <2>2, <2>3, <2>4, <2>6
    <2> QED
      BY <2>5, <2>6
  <1>23. wire' \subseteq WireType
    <2>1. Whois(first, fresh, r, FALSE) \in WireType
      BY <1>1 DEF Whois, WireType
    <2> QED
      BY <1>1, <1>2, <2>1
  <1>24. /\ query' \in [Requests -> QueryType]
         /\ \A s \in Requests \ {r} : query'[s] = query[s]
         /\ query'[r].status = "waiting"
         /\ query'[r].queries_left = Cardinality(new)
    <2> DEFINE qs == {<<t, IF t \in fresh THEN f[t]
                           ELSE entry[t].resolve_cmd_ident>> : t \in ts}
    <2>1. qs \subseteq Clients \X Nat
      BY <1>4, <1>21
    <2>2. query' = [query EXCEPT ![r].status = "waiting",
                                 ![r].queries = @ \cup qs,
                                 ![r].queries_left = @ + Cardinality(new)]
      BY <1>2, <1>13
    <2> DEFINE n == Cardinality(new)
    <2>3. n \in Nat
      BY <1>14
    <2>4. query \in [Requests -> QueryType]
      BY <1>1
    <2> HIDE DEF qs, new, n
    <2>5. /\ query' = [query EXCEPT ![r] = query'[r]]
          /\ query'[r] = [query[r] EXCEPT !.status = "waiting",
                                          !.queries = @ \cup qs,
                                          !.queries_left = @ + n]
      BY <2>2, <2>4 DEF n
    <2>6. query[r] \in QueryType
      BY <2>4
    <2>7. /\ query'[r].status = "waiting"
          /\ query'[r].queries_left = 0 + n
      BY <2>5, <2>6 DEF QueryType
    <2>8. query[r].queries \cup qs \in SUBSET (Clients \X Nat)
      BY <2>1, <2>6 DEF QueryType
    <2>9. query'[r] \in QueryType /\ 0 + n = n
      <3> DEFINE qq == query[r].queries \cup qs
      <3>1. qq \in SUBSET (Clients \X Nat) /\ 0 + n = n
        BY <2>3, <2>8
      <3>2. query'[r] = [query[r] EXCEPT !.status = "waiting", !.queries = qq,
                                         !.queries_left = n]
        BY <2>3, <2>5, <2>6, <3>1 DEF QueryType
      <3> HIDE DEF qq
      <3>3. \A q \in QueryType : [q EXCEPT !.status = "waiting", !.queries = qq,
                                         !.queries_left = n] \in QueryType
        BY <2>3, <3>1 DEF QueryType
      <3> QED
        BY <2>6, <3>1, <3>2, <3>3
    <2> QED
      BY <2>4, <2>5, <2>7, <2>9 DEF n
  <1>25. Starts(r, new, "resolve_reply", held)
    <2>1. users' = [users EXCEPT ![r] = held] /\ UNCHANGED <<cmd_pending, replies>>
      BY <1>2
    <2> HIDE DEF new
    <2> QED
      BY <1>10, <1>15, <1>20, <1>22, <1>23, <1>24, <2>1 DEF Starts
  <1> HIDE DEF new
  <1> QED
    BY <1>24, <1>25

-----------------------------------------------------------------------------
(***************************************************************************)
(* The structure of the list, for each kind of step.                       *)
(***************************************************************************)

\* No step of the kinds below gives back an identifier or a mark.
Grows ==
    /\ cmd_ident' \in Nat
    /\ cmd_ident <= cmd_ident'
    /\ EntriesGood(entry', cmd_ident')
    /\ cmd_pending \subseteq cmd_pending'

\* Running a callback moves it from one set to the other.
LEMMA RunsLoop ==
    ASSUME QueryInv, NEW p, Runs(p)
    PROVE  /\ p \in pending_commands \ exec.done
           /\ exec.cmd' = exec.cmd /\ exec.ident' = exec.ident
           /\ exec.todo' = exec.todo \ {p}
           /\ exec.done' = exec.done \cup {p}
           /\ exec.todo' \cup exec.done' = exec.todo \cup exec.done
           /\ exec.todo' \cap exec.done' = {}
           /\ exec # Idle
  <1>1. /\ p \in exec.todo
        /\ exec' = [exec EXCEPT !.todo = @ \ {p}, !.done = @ \cup {p}]
    BY DEF Runs
  <1>2. /\ exec.todo \subseteq pending_commands
        /\ exec.todo \cap exec.done = {}
    BY DEF QueryInv, Structure, Loop
  <1>3. /\ exec.cmd' = exec.cmd /\ exec.ident' = exec.ident
        /\ exec.todo' = exec.todo \ {p}
        /\ exec.done' = exec.done \cup {p}
    BY <1>1 DEF QueryInv, TypeOK
  <1>4. exec # Idle
    BY <1>1 DEF Idle
  <1> QED
    BY <1>1, <1>2, <1>3, <1>4

\* Identifiers that were taken stay taken.
LEMMA GrowsIdents ==
    ASSUME QueryInv, Grows, NEW p \in pending_commands
    PROVE  p.ident <= cmd_ident'
  <1>1. p.ident \in Nat /\ p.ident <= cmd_ident /\ cmd_ident \in Nat
    BY DEF QueryInv, Structure, TypeOK, IdentsTaken, PendingType
  <1> QED
    BY <1>1 DEF Grows

\* Steps that leave the list alone.
LEMMA KeptStructure ==
    ASSUME QueryInv, Grows, pending_commands' = pending_commands,
           exec' = exec \/ \E p : Runs(p)
    PROVE  Structure'
  <1>1. IsFiniteSet(pending_commands')
    BY DEF QueryInv, Structure
  <1>2. IdentsTaken'
    BY GrowsIdents DEF IdentsTaken, Grows, EntriesGood
  <1>3. Unique'
    BY DEF QueryInv, Structure, Unique, SamePending
  <1>4. Shape'
    BY DEF QueryInv, Structure, Shape, Grows
  <1>5. Loop'
    <2>1. CASE exec' = exec
      BY <2>1 DEF QueryInv, Structure, Loop, PendingMatches, PendingDeleted, Idle
    <2>2. CASE \E p : Runs(p)
      <3>1. PICK p : Runs(p)
        BY <2>2
      <3>2. Loop
        BY DEF QueryInv, Structure
      <3> QED
        BY <3>1, <3>2, RunsLoop DEF Loop, PendingMatches, PendingDeleted
    <2> QED
      BY <2>1, <2>2
  <1> QED
    BY <1>1, <1>2, <1>3, <1>4, <1>5 DEF Structure

\* Steps that put entries on the list.
LEMMA AddsStructure ==
    ASSUME QueryInv, Grows, NEW r \in Requests, NEW new, Adds(r, new),
           \/ exec' = exec /\ exec = Idle
           \/ \E p : Runs(p) /\ p.callback # "resolve_reply",
           \A p \in new :
               /\ p.callback # "resolve_reply" => p.reply_cmd = "WHOIS"
               /\ (p.callback = "invite") <=> (Kind[p.context] = "invite")
               /\ p.callback = "invite" => p.context \in cmd_pending'
    PROVE  Structure'
  <1>0. pending_commands' = pending_commands \cup new
    BY DEF Adds
  <1>1. IsFiniteSet(pending_commands')
    <2>1. IsFiniteSet(new) /\ IsFiniteSet(pending_commands)
      BY DEF Adds, QueryInv, Structure
    <2> QED
      BY <1>0, <2>1, FS_Union
  <1>2. IdentsTaken'
    BY <1>0, GrowsIdents DEF IdentsTaken, Grows, EntriesGood, Adds
  <1>3. Unique'
    <2> SUFFICES ASSUME NEW p \in pending_commands \cup new,
                        NEW q \in pending_commands \cup new, SamePending(p, q)
                 PROVE  p = q
      BY <1>0 DEF Unique, SamePending
    <2>1. SamePending(q, p)
      BY DEF SamePending
    <2>2. \A x \in new, y \in pending_commands : ~SamePending(x, y)
      BY DEF Adds
    <2>3. CASE p \in new \/ q \in new
      BY <2>1, <2>2, <2>3 DEF Adds
    <2>4. CASE p \in pending_commands /\ q \in pending_commands
      BY <2>4 DEF QueryInv, Structure, Unique
    <2> QED
      BY <2>3, <2>4
  <1>4. Shape'
    <2>1. Shape
      BY DEF QueryInv, Structure
    <2> QED
      BY <1>0, <2>1 DEF Shape, Grows
  <1>5. Loop'
    <2>0. Loop
      BY DEF QueryInv, Structure
    <2>1. CASE exec' = exec /\ exec = Idle
      BY <1>0, <2>0, <2>1 DEF Loop, PendingMatches, PendingDeleted, Idle
    <2>2. CASE \E p : Runs(p) /\ p.callback # "resolve_reply"
      <3>1. PICK p : Runs(p) /\ p.callback # "resolve_reply"
        BY <2>2
      <3>2. p \in pending_commands /\ p \in exec.todo
        BY <3>1, RunsLoop DEF Runs
      <3>3. exec.cmd = "WHOIS" /\ exec.ident = p.ident
        BY <2>0, <3>1, <3>2 DEF Loop, PendingMatches, QueryInv, Structure, Shape
      <3>4. p.ident \in Nat /\ p.ident <= cmd_ident /\ cmd_ident \in Nat
        BY <3>2 DEF QueryInv, Structure, TypeOK, IdentsTaken, PendingType
      <3>5. exec # Idle
        BY <3>1, RunsLoop
      <3>6. \A x \in new : ~PendingDeleted(x, exec.cmd, exec.ident)
        <4> SUFFICES ASSUME NEW x \in new,
                            PendingDeleted(x, exec.cmd, exec.ident)
                     PROVE  FALSE
          OBVIOUS
        <4>1. x.ident = exec.ident /\ ~x.reply_check
          BY DEF PendingDeleted, Adds
        <4>2. x.reply_cmd = "WHOIS"
          BY <3>3, <4>1 DEF PendingDeleted
        <4>3. x.ident > cmd_ident
          BY <3>5, <4>2 DEF Adds
        <4> QED
          BY <3>3, <3>4, <4>1, <4>3
      <3> QED
        BY <1>0, <2>0, <3>1, <3>6, RunsLoop DEF Loop, PendingMatches, PendingDeleted
    <2> QED
      BY <2>1, <2>2
  <1> QED
    BY <1>1, <1>2, <1>3, <1>4, <1>5 DEF Structure

\* The entry p after silc_server_command_pending_check.
Mark(p, cmd, ident) == IF PendingMatches(p, cmd, ident) THEN Checked(p) ELSE p

\* silc_server_command_pending_check keeps what entries are matched by.
LEMMA MarkFields ==
    ASSUME NEW p \in PendingType, NEW cmd, NEW ident
    PROVE  /\ Mark(p, cmd, ident) \in PendingType
           /\ SamePending(p, Mark(p, cmd, ident))
           /\ PendingMatches(Mark(p, cmd, ident), cmd, ident)
                  <=> PendingMatches(p, cmd, ident)
           /\ PendingMatches(p, cmd, ident) => Mark(p, cmd, ident).reply_check
  <1>1. CASE PendingMatches(p, cmd, ident)
    <2>1. Mark(p, cmd, ident) = Checked(p)
      BY <1>1 DEF Mark
    <2> QED
      BY <1>1, <2>1, CheckedFields DEF SamePending, PendingMatches
  <1>2. CASE ~PendingMatches(p, cmd, ident)
    <2>1. Mark(p, cmd, ident) = p
      BY <1>2 DEF Mark
    <2> QED
      BY <1>2, <2>1 DEF SamePending
  <1> QED
    BY <1>1, <1>2

\* Marking a set of entries without duplicates keeps their number.
LEMMA MarkedSet ==
    ASSUME NEW S \in SUBSET PendingType, NEW cmd, NEW ident,
           \A p, q \in S : SamePending(p, q) => p = q, IsFiniteSet(S)
    PROVE  LET T == {Mark(p, cmd, ident) : p \in S}
           IN  IsFiniteSet(T) /\ Cardinality(T) = Cardinality(S)
  <1> DEFINE T == {Mark(p, cmd, ident) : p \in S}
             g == [p \in S |-> Mark(p, cmd, ident)]
  <1>1. g \in Surjection(S, T)
    BY DEF Surjection
  <1>2. \A p, q \in S : g[p] = g[q] => p = q
    <2> SUFFICES ASSUME NEW p \in S, NEW q \in S,
                        Mark(p, cmd, ident) = Mark(q, cmd, ident)
                 PROVE  p = q
      OBVIOUS
    <2>1. SamePending(p, q)
      BY MarkFields DEF SamePending
    <2> QED
      BY <2>1
  <1>3. g \in Injection(S, T)
    <2>1. g \in [S -> T] /\ DOMAIN g = S
      OBVIOUS
    <2> HIDE DEF T, g
    <2> QED
      BY <1>2, <2>1 DEF Injection, IsInjective
  <1> HIDE DEF T, g
  <1>4. IsFiniteSet(T) /\ Cardinality(T) = Cardinality(S)
    BY <1>1, <1>3, FS_Surjection
  <1> QED
    BY <1>4 DEF T

\* Steps that mark entries.
LEMMA MarksStructure ==
    ASSUME QueryInv, Grows, NEW cmd, NEW ident, Marks(cmd, ident)
    PROVE  Structure'
  <1> DEFINE mark(p) == Mark(p, cmd, ident)
  <1>0. /\ pending_commands \subseteq PendingType
        /\ pending_commands' = {mark(p) : p \in pending_commands}
    BY DEF QueryInv, TypeOK, Marks, PendingChecked, Mark
  <1>1. IsFiniteSet(pending_commands')
    <2>1. /\ IsFiniteSet(pending_commands)
          /\ \A p, q \in pending_commands : SamePending(p, q) => p = q
      BY DEF QueryInv, Structure, Unique
    <2> QED
      BY <1>0, <2>1, MarkedSet
  <1>a. ASSUME NEW x \in pending_commands'
        PROVE  \E p \in pending_commands :
                   /\ x = mark(p) /\ SamePending(p, x)
                   /\ PendingMatches(x, cmd, ident) => x.reply_check
    BY <1>0, MarkFields
  <1> HIDE DEF mark
  <1>2. IdentsTaken'
    BY <1>a, GrowsIdents DEF IdentsTaken, Grows, EntriesGood, SamePending
  <1>3. Unique'
    <2> SUFFICES ASSUME NEW x \in pending_commands', NEW y \in pending_commands',
                        SamePending(x, y)
                 PROVE  x = y
      BY DEF Unique, SamePending
    <2>1. PICK p \in pending_commands : x = mark(p) /\ SamePending(p, x)
      BY <1>a
    <2>2. PICK q \in pending_commands : y = mark(q) /\ SamePending(q, y)
      BY <1>a
    <2>3. SamePending(p, q)
      BY <2>1, <2>2 DEF SamePending
    <2>4. p = q
      BY <2>3 DEF QueryInv, Structure, Unique
    <2> QED
      BY <2>1, <2>2, <2>4
  <1>4. Shape'
    <2>1. Shape
      BY DEF QueryInv, Structure
    <2> SUFFICES ASSUME NEW x \in pending_commands'
                 PROVE  /\ x.callback # "resolve_reply" => x.reply_cmd = "WHOIS"
                        /\ (x.callback = "invite") <=> (Kind[x.context] = "invite")
                        /\ x.callback = "invite" => x.context \in cmd_pending'
      BY DEF Shape
    <2>2. PICK p \in pending_commands : SamePending(p, x)
      BY <1>a
    <2> QED
      BY <2>1, <2>2 DEF Shape, Grows, SamePending
  <1>5. Loop'
    <2>1. CASE exec' = exec
      BY <2>1 DEF Marks, Loop, Idle
    <2>2. CASE exec' # exec
      <3>1. /\ exec'.cmd = cmd /\ exec'.ident = ident
            /\ exec'.todo = {p \in pending_commands' : PendingMatches(p, cmd, ident)}
            /\ exec'.done = {}
        BY <2>2 DEF Marks
      <3>2. \A x \in exec'.todo : x.reply_check
        BY <1>a, <3>1
      <3>3. \A x \in pending_commands' : PendingDeleted(x, cmd, ident) =>
                                             PendingMatches(x, cmd, ident)
        BY DEF PendingDeleted, PendingMatches
      <3> QED
        BY <3>1, <3>2, <3>3 DEF Loop, PendingMatches, PendingDeleted
    <2> QED
      BY <2>1, <2>2
  <1> QED
    BY <1>1, <1>2, <1>3, <1>4, <1>5 DEF Structure

\* The callbacks that were run, and no others, are deleted.
LEMMA PendingDelEffect ==
    ASSUME QueryInv, PendingDel
    PROVE  /\ pending_commands' = pending_commands \ exec.done
           /\ exec' = Idle
           /\ UNCHANGED <<cmd_ident, entry, query, cmd_pending, users, replies>>
  <1>1. /\ exec # Idle /\ exec.todo = {} /\ exec' = Idle
        /\ pending_commands' = {p \in pending_commands :
                                   ~PendingDeleted(p, exec.cmd, exec.ident)}
    BY DEF PendingDel
  <1>2. Loop /\ \A p \in exec.done : PendingMatches(p, exec.cmd, exec.ident)
                                       /\ p.reply_check
    BY DEF QueryInv, Structure, Loop
  <1>3. \A p \in pending_commands :
            PendingDeleted(p, exec.cmd, exec.ident) <=> p \in exec.done
    BY <1>1, <1>2 DEF Loop, PendingMatches, PendingDeleted
  <1> QED
    BY <1>1, <1>3 DEF PendingDel

\* Deleting entries keeps the structure of the list.
LEMMA DelStructure ==
    ASSUME QueryInv, PendingDel
    PROVE  Structure'
  <1>0. /\ pending_commands' \subseteq pending_commands
        /\ exec' = Idle
        /\ UNCHANGED <<cmd_ident, entry, cmd_pending>>
    BY PendingDelEffect
  <1>1. IsFiniteSet(pending_commands')
    BY <1>0, FS_Subset DEF QueryInv, Structure
  <1>2. IdentsTaken' /\ Unique' /\ Shape'
    BY <1>0 DEF QueryInv, Structure, IdentsTaken, Unique, Shape, SamePending
  <1>3. Loop'
    BY <1>0 DEF Loop, Idle
  <1> QED
    BY <1>1, <1>2, <1>3 DEF Structure

-----------------------------------------------------------------------------
(***************************************************************************)
(* How far a command is, for each kind of step.                            *)
(***************************************************************************)

\* A step has nothing to do with command s.
Frame(s) ==
    /\ Of(s)' = Of(s)
    /\ Waiting(s)' = Waiting(s)
    /\ query'[s] = query[s]
    /\ users'[s] = users[s]
    /\ replies'[s] = replies[s]
    /\ (s \in cmd_pending') <=> (s \in cmd_pending)

\* All that may change of the other commands in a step of command r.
Only(r) ==
    /\ \A p : p.context # r => (p \in pending_commands' <=> p \in pending_commands)
    /\ \A p : p.context # r => (p \in exec'.done <=> p \in exec.done)
    /\ \A s \in Requests \ {r} :
           /\ query'[s] = query[s]
           /\ users'[s] = users[s]
           /\ replies'[s] = replies[s]
           /\ (s \in cmd_pending') <=> (s \in cmd_pending)

\* A step that has nothing to do with a command leaves it where it was.
LEMMA FrameKeeps ==
    ASSUME NEW s \in Requests, Phase(s), Frame(s)
    PROVE  Phase(s)'
  <1>1. /\ Of(s)' = Of(s) /\ Waiting(s)' = Waiting(s)
        /\ query'[s] = query[s] /\ users'[s] = users[s]
        /\ replies'[s] = replies[s]
        /\ (s \in cmd_pending') <=> (s \in cmd_pending)
    BY DEF Frame
  <1>2. CASE Kind[s] = "invite"
    BY <1>1, <1>2 DEF Phase, InvitePhase
  <1>3. CASE Kind[s] # "invite"
    <2>1. RouterPhase(s) => RouterPhase(s)'
      BY <1>1 DEF RouterPhase
    <2>2. ResolvePhase(s) => ResolvePhase(s)'
      BY <1>1 DEF ResolvePhase
    <2> QED
      BY <1>1, <1>3, <2>1, <2>2 DEF Phase, QueryPhase
  <1> QED
    BY <1>2, <1>3

\* A step of command r has nothing to do with the other commands.
LEMMA OnlyFrames ==
    ASSUME NEW r, Only(r), NEW s \in Requests \ {r}
    PROVE  Frame(s)
  <1>1. Of(s)' = Of(s)
    BY DEF Only, Of
  <1>2. Waiting(s)' = Waiting(s)
    BY DEF Only, Waiting
  <1> QED
    BY <1>1, <1>2 DEF Only, Frame

\* It is enough to look at the command a step belongs to.
LEMMA OnlyPhases ==
    ASSUME QueryInv, NEW r \in Requests, Only(r), Phase(r)'
    PROVE  Phases'
  <1>1. ASSUME NEW s \in Requests \ {r} PROVE Phase(s)'
    <2>1. Phase(s)
      BY DEF QueryInv, Phases
    <2> QED
      BY <2>1, OnlyFrames, FrameKeeps
  <1> QED
    BY <1>1 DEF Phases

\* Steps that concern no command at all.
LEMMA QuietPhases ==
    ASSUME QueryInv,
           UNCHANGED <<pending_commands, query, cmd_pending, users, replies, exec>>
    PROVE  Phases'
  <1>1. ASSUME NEW s \in Requests PROVE Frame(s)
    BY DEF Frame, Of, Waiting
  <1> QED
    BY <1>1, FrameKeeps DEF QueryInv, Phases

\* Deleting the entries of a reply changes no command: they have been run.
LEMMA DelPhases ==
    ASSUME QueryInv, PendingDel
    PROVE  Phases'
  <1>1. /\ pending_commands' = pending_commands \ exec.done
        /\ exec'.done = {}
        /\ UNCHANGED <<query, cmd_pending, users, replies>>
    BY PendingDelEffect DEF Idle
  <1> SUFFICES ASSUME NEW s \in Requests PROVE Phase(s)'
    BY DEF Phases
  <1>2. Phase(s)
    BY DEF QueryInv, Phases
  <1>3. Waiting(s)' = Waiting(s)
    BY <1>1 DEF Waiting
  <1>4. Of(s)' = Waiting(s) /\ Waiting(s) \subseteq Of(s)
    BY <1>1 DEF Waiting, Of
  <1>5. CASE Kind[s] = "invite"
    BY <1>1, <1>2, <1>3, <1>4, <1>5 DEF Phase, InvitePhase
  <1>6. CASE Kind[s] # "invite"
    <2>1. RouterPhase(s) => RouterPhase(s)'
      BY <1>1, <1>3, <1>4 DEF RouterPhase
    <2>2. ResolvePhase(s) => ResolvePhase(s)'
      BY <1>1, <1>3 DEF ResolvePhase
    <2> QED
      BY <1>1, <1>2, <1>3, <1>4, <1>6, <2>1, <2>2 DEF Phase, QueryPhase
  <1> QED
    BY <1>5, <1>6

\* Marking changes no command: every entry of it is still there.
LEMMA MarksPhases ==
    ASSUME QueryInv, NEW cmd, NEW ident, Marks(cmd, ident),
           UNCHANGED <<query, cmd_pending, users, replies>>
    PROVE  Phases'
  <1> DEFINE mark(p) == Mark(p, cmd, ident)
  <1>0. /\ pending_commands \subseteq PendingType
        /\ pending_commands' = {mark(p) : p \in pending_commands}
        /\ exec.done = {} /\ exec'.done = {}
    BY DEF QueryInv, TypeOK, Marks, PendingChecked, Mark, Idle
  <1> SUFFICES ASSUME NEW s \in Requests PROVE Phase(s)'
    BY DEF Phases
  <1>1. Phase(s)
    BY DEF QueryInv, Phases
  <1>2. \A p \in pending_commands : SamePending(p, mark(p))
    BY <1>0, MarkFields
  <1>3. Of(s)' = {mark(p) : p \in Of(s)}
    BY <1>0, <1>2 DEF Of, SamePending
  <1>4. Waiting(s) = Of(s) /\ Waiting(s)' = Of(s)'
    BY <1>0 DEF Waiting, Of
  <1>5. Cardinality(Of(s)') = Cardinality(Of(s))
    <2>1. Of(s) \in SUBSET PendingType /\ Of(s) \subseteq pending_commands
      BY <1>0 DEF Of
    <2>2. IsFiniteSet(Of(s))
      BY <2>1, FS_Subset DEF QueryInv, Structure
    <2>3. \A p, q \in Of(s) : SamePending(p, q) => p = q
      BY <2>1 DEF QueryInv, Structure, Unique
    <2> QED
      BY <1>3, <2>1, <2>2, <2>3, MarkedSet
  <1>6. \A p \in Of(s) : mark(p).callback = p.callback
    BY <1>2 DEF Of, SamePending
  <1> HIDE DEF mark
  <1>7. CASE Kind[s] = "invite"
    BY <1>1, <1>3, <1>4, <1>7 DEF Phase, InvitePhase
  <1>8. CASE Kind[s] # "invite"
    <2>1. RouterPhase(s) => RouterPhase(s)'
      BY <1>3, <1>4, <1>6 DEF RouterPhase
    <2>2. ResolvePhase(s) => ResolvePhase(s)'
      BY <1>3, <1>4, <1>5, <1>6 DEF ResolvePhase
    <2> QED
      BY <1>1, <1>3, <1>4, <1>8, <2>1, <2>2 DEF Phase, QueryPhase
  <1> QED
    BY <1>7, <1>8

-----------------------------------------------------------------------------
(***************************************************************************)
(* The steps of one command.                                               *)
(***************************************************************************)

ExecType == [cmd : {"idle", "WHOIS", "NONE"}, ident : Nat, error : Errors,
             from : Requests \cup {None}, todo : SUBSET PendingType,
             done : SUBSET PendingType]

\* The handler of command r at its beginning, or a callback of it.
Begins(r) ==
    /\ exec' = exec /\ exec = Idle
    /\ Of(r) = {}
    /\ replies[r] = 0
    /\ Caller[r] \in valid

Continues(r) == \E p : p.context = r /\ Runs(p)

\* The types, from what a step does to each variable.
LEMMA TypeStep ==
    ASSUME QueryInv, Grows,
           pending_commands' \subseteq PendingType, wire' \subseteq WireType,
           query' \in [Requests -> QueryType], cmd_pending' \subseteq Requests,
           users' \in [Requests -> Nat], replies' \in [Requests -> Nat],
           valid' \subseteq Connections, exec' \in ExecType
    PROVE  TypeOK'
  BY DEF TypeOK, Grows, EntriesGood, WireType, QueryType, ExecType

\* The types, in the form the step lemmas use.
LEMMA Typed ==
    ASSUME QueryInv
    PROVE  /\ cmd_ident \in Nat
           /\ pending_commands \subseteq PendingType
           /\ wire \subseteq WireType
           /\ EntriesGood(entry, cmd_ident)
           /\ query \in [Requests -> QueryType]
           /\ cmd_pending \subseteq Requests
           /\ users \in [Requests -> Nat]
           /\ replies \in [Requests -> Nat]
           /\ valid \subseteq Connections
           /\ exec \in ExecType
  BY DEF QueryInv, Structure, TypeOK, IdentsTaken, EntriesGood, WireType, QueryType,
         ExecType

\* Running a callback keeps the type of the loop.
LEMMA RunsTyped ==
    ASSUME QueryInv, NEW p, Runs(p)
    PROVE  exec' \in ExecType /\ p \in PendingType /\ p.context \in Requests
  <1>1. exec \in ExecType
    BY Typed
  <1>2. p \in exec.todo /\ exec.todo \in SUBSET PendingType
        /\ exec.done \in SUBSET PendingType
    BY <1>1 DEF Runs, ExecType
  <1>3. p \in PendingType
    BY <1>2
  <1>4. exec.todo \ {p} \in SUBSET PendingType
        /\ exec.done \cup {p} \in SUBSET PendingType
    BY <1>2, <1>3
  <1>5. exec' \in ExecType
    BY <1>1, <1>4 DEF Runs, ExecType
  <1> QED
    BY <1>3, <1>5 DEF PendingType

\* A callback that is run takes its entry from those waiting.
LEMMA RunsWaiting ==
    ASSUME QueryInv, NEW p, Runs(p)
    PROVE  /\ p \in Waiting(p.context)
           /\ p \in Of(p.context)
           /\ \A q : q.context # p.context =>
                  (q \in exec'.done <=> q \in exec.done)
           /\ pending_commands' = pending_commands =>
                  Waiting(p.context)' = Waiting(p.context) \ {p}
  BY RunsLoop DEF Waiting, Of

\* Which command a callback finds when it is run.
LEMMA RouterCallback ==
    ASSUME QueryInv, NEW p, Runs(p), p.callback = "send_router_reply"
    PROVE  LET r == p.context
           IN  /\ Kind[r] # "invite"
               /\ r \in Requests
               /\ query[r].status = "waiting" /\ query[r].queries_left = 0
               /\ Of(r) = {p}
               /\ users[r] = 1 /\ replies[r] = 0 /\ r \notin cmd_pending
  <1> DEFINE r == p.context
  <1>1. r \in Requests /\ p \in Waiting(r) /\ p \in Of(r)
    BY RunsTyped, RunsWaiting
  <1>2. Kind[r] # "invite"
    BY <1>1 DEF QueryInv, Structure, Shape, Of
  <1>3. QueryPhase(r)
    BY <1>1, <1>2 DEF QueryInv, Phases, Phase
  <1>4. query[r].status = "waiting"
    <2>1. query[r].status \in {"none", "waiting", "freed"}
      BY <1>1, Typed DEF QueryType
    <2> QED
      BY <1>1, <1>3, <2>1 DEF QueryPhase
  <1>5. RouterPhase(r)
    BY <1>1, <1>3, <1>4 DEF QueryPhase, ResolvePhase
  <1>6. replies[r] \in Nat
    BY <1>1, Typed
  <1> QED
    BY <1>1, <1>2, <1>3, <1>4, <1>5, <1>6 DEF QueryPhase, RouterPhase

\* silc_server_query_resolve_reply finds a query that waits and resolves.
LEMMA ResolveCallback ==
    ASSUME QueryInv, NEW p, Runs(p), p.callback = "resolve_reply"
    PROVE  LET r == p.context
           IN  /\ Kind[r] # "invite"
               /\ r \in Requests
               /\ query[r].status = "waiting"
               /\ ResolvePhase(r)
               /\ users[r] = 1 /\ replies[r] = 0 /\ r \notin cmd_pending
  <1> DEFINE r == p.context
  <1>1. r \in Requests /\ p \in Waiting(r) /\ p \in Of(r)
    BY RunsTyped, RunsWaiting
  <1>2. Kind[r] # "invite"
    BY <1>1 DEF QueryInv, Structure, Shape, Of
  <1>3. QueryPhase(r)
    BY <1>1, <1>2 DEF QueryInv, Phases, Phase
  <1>4. query[r].status = "waiting"
    <2>1. query[r].status \in {"none", "waiting", "freed"}
      BY <1>1, Typed DEF QueryType
    <2> QED
      BY <1>1, <1>3, <2>1 DEF QueryPhase
  <1>5. ResolvePhase(r)
    BY <1>1, <1>3, <1>4 DEF QueryPhase, RouterPhase
  <1>6. replies[r] \in Nat
    BY <1>1, Typed
  <1> QED
    BY <1>1, <1>2, <1>3, <1>4, <1>5, <1>6 DEF QueryPhase

\* INVITE as a callback finds its command context pending and held.
LEMMA InviteCallback ==
    ASSUME QueryInv, NEW p, Runs(p), p.callback = "invite"
    PROVE  LET r == p.context
           IN  /\ Kind[r] = "invite"
               /\ r \in Requests
               /\ Of(r) = {p}
               /\ users[r] = 1 /\ replies[r] = 0 /\ r \in cmd_pending
  <1> DEFINE r == p.context
  <1>1. r \in Requests /\ p \in Waiting(r) /\ p \in Of(r)
    BY RunsTyped, RunsWaiting
  <1>2. Kind[r] = "invite" /\ r \in cmd_pending
    BY <1>1 DEF QueryInv, Structure, Shape, Of
  <1>3. InvitePhase(r)
    BY <1>1, <1>2 DEF QueryInv, Phases, Phase
  <1>4. replies[r] \in Nat
    BY <1>1, Typed
  <1> QED
    BY <1>1, <1>2, <1>3, <1>4 DEF InvitePhase

\* Command r is over, and its caller, if it is still there, has the reply.
Ends(r) ==
    /\ Grows
    /\ wire' \subseteq WireType
    /\ query' \in [Requests -> QueryType]
    /\ \A s \in Requests \ {r} : query'[s] = query[s]
    /\ IF Kind[r] = "invite" THEN query'[r] = query[r]
       ELSE query'[r].status = "freed"
    /\ users' = [users EXCEPT ![r] = 0]
    /\ replies' = [replies EXCEPT ![r] = IF Caller[r] \in valid THEN 1 ELSE 0]
    /\ Waiting(r)' = {}
    /\ UNCHANGED <<pending_commands, cmd_pending, valid>>

\* A handler or a callback of r that leaves the list alone, but for the one
\* entry of the callback.
LEMMA KeepsOnly ==
    ASSUME QueryInv, NEW r \in Requests, Begins(r) \/ Continues(r),
           NEW new, pending_commands' = pending_commands \cup new,
           \A p \in new : p.context = r,
           \A s \in Requests \ {r} :
               /\ query'[s] = query[s]
               /\ users'[s] = users[s]
               /\ replies'[s] = replies[s]
               /\ (s \in cmd_pending') <=> (s \in cmd_pending)
    PROVE  Only(r)
  <1>1. \A p : p.context # r => (p \in exec'.done <=> p \in exec.done)
    <2>1. CASE Begins(r)
      BY <2>1 DEF Begins
    <2>2. CASE Continues(r)
      BY <2>2, RunsWaiting DEF Continues
    <2> QED
      BY <2>1, <2>2
  <1> QED
    BY <1>1 DEF Only

\* A handler leaves the loop alone and a callback is one step of it.
LEMMA StepExec ==
    ASSUME QueryInv, NEW r, Begins(r) \/ Continues(r)
    PROVE  /\ exec' \in ExecType
           /\ exec' = exec \/ \E p : Runs(p)
  <1>1. CASE Begins(r)
    BY <1>1, Typed DEF Begins
  <1>2. CASE Continues(r)
    BY <1>2, RunsTyped DEF Continues
  <1> QED
    BY <1>1, <1>2

\* The end of a command keeps the invariant.
LEMMA EndsStep ==
    ASSUME QueryInv, NEW r \in Requests, Begins(r) \/ Continues(r), Ends(r)
    PROVE  QueryInv'
  <1>1. /\ users \in [Requests -> Nat] /\ replies \in [Requests -> Nat]
        /\ pending_commands \subseteq PendingType /\ cmd_pending \subseteq Requests
        /\ valid \subseteq Connections
    BY Typed
  <1>2. TypeOK'
    <2>1. users' \in [Requests -> Nat] /\ replies' \in [Requests -> Nat]
      BY <1>1 DEF Ends
    <2> QED
      BY <1>1, <2>1, StepExec, TypeStep DEF Ends
  <1>3. Structure'
    BY StepExec, KeptStructure DEF Ends
  <1>4. Phases'
    <2>1. Only(r)
      <3> DEFINE none == {}
      <3>1. /\ pending_commands' = pending_commands \cup none
            /\ \A p \in none : p.context = r
            /\ \A s \in Requests \ {r} :
                   /\ query'[s] = query[s]
                   /\ users'[s] = users[s]
                   /\ replies'[s] = replies[s]
                   /\ (s \in cmd_pending') <=> (s \in cmd_pending)
        BY <1>1 DEF Ends
      <3> HIDE DEF none
      <3> QED
        BY <3>1, KeepsOnly
    <2>2. users'[r] = 0 /\ replies'[r] \in {0, 1}
      BY <1>1 DEF Ends
    <2>3. Of(r)' = Of(r) /\ Waiting(r)' = {}
      BY DEF Of, Ends
    <2>4. Phase(r)
      BY DEF QueryInv, Phases
    <2>5. Phase(r)'
      <3>1. CASE Kind[r] = "invite"
        BY <2>2, <2>3, <2>4, <3>1 DEF Phase, InvitePhase, Ends
      <3>2. CASE Kind[r] # "invite"
        BY <2>2, <2>3, <2>4, <3>2 DEF Phase, QueryPhase, Ends
      <3> QED
        BY <3>1, <3>2
    <2> QED
      BY <2>1, <2>5, OnlyPhases
  <1> QED
    BY <1>2, <1>3, <1>4 DEF QueryInv

\* What is on the list for r after entries were put on it.
LEMMA AddsWaiting ==
    ASSUME QueryInv, NEW r \in Requests, NEW new, Adds(r, new),
           \/ Begins(r)
           \/ \E p : p.context = r /\ Runs(p) /\ Of(r) = {p}
    PROVE  /\ Waiting(r)' = new
           /\ Of(r)' = Of(r) \cup new
  <1>1. /\ pending_commands' = pending_commands \cup new
        /\ \A p \in new : p.context = r
        /\ new \cap pending_commands = {}
    BY DEF Adds, SamePending
  <1>2. exec.done \subseteq pending_commands
    BY DEF QueryInv, Structure, Loop
  <1>3. CASE Begins(r)
    BY <1>1, <1>2, <1>3 DEF Begins, Of, Waiting
  <1>4. CASE \E p : p.context = r /\ Runs(p) /\ Of(r) = {p}
    <2>1. PICK p : p.context = r /\ Runs(p) /\ Of(r) = {p}
      BY <1>4
    <2>2. exec'.done = exec.done \cup {p} /\ p \in pending_commands
      BY <2>1, RunsLoop
    <2> QED
      BY <1>1, <1>2, <2>1, <2>2 DEF Of, Waiting
  <1> QED
    BY <1>3, <1>4

\* A query begins to wait.
StartsRouter(r) ==
    /\ \E x : /\ Starts(r, {x}, "send_router_reply", 1)
              /\ query'[r].queries_left = 0
              /\ x.reply_cmd = "WHOIS"
    /\ Begins(r)

StartsResolving(r) ==
    /\ \E new : /\ Starts(r, new, "resolve_reply", 1)
                /\ query'[r].queries_left = Cardinality(new)
    /\ \/ Begins(r)
       \/ \E p : /\ p.context = r /\ Runs(p) /\ Of(r) = {p}
                 /\ p.callback = "send_router_reply"

\* A query that begins to wait keeps the invariant.
LEMMA StartsStep ==
    ASSUME QueryInv, NEW r \in Requests, Kind[r] # "invite", replies[r] = 0,
           valid' = valid,
           StartsRouter(r) \/ StartsResolving(r)
    PROVE  QueryInv'
  <1> DEFINE Started(callback, new) ==
            /\ Starts(r, new, callback, 1)
            /\ callback = "send_router_reply" =>
                   /\ Begins(r) /\ query'[r].queries_left = 0
                   /\ \E x : new = {x} /\ x.reply_cmd = "WHOIS"
            /\ callback = "resolve_reply" => query'[r].queries_left = Cardinality(new)
  <1>0. PICK callback \in {"send_router_reply", "resolve_reply"} :
            \E new : Started(callback, new)
    BY DEF StartsRouter, StartsResolving
  <1>1. PICK new : Started(callback, new)
    BY <1>0
  <1>2. Adds(r, new) /\ \A p \in new : p.callback = callback
    BY <1>1 DEF Starts
  <1>3. \/ Begins(r)
        \/ \E p : /\ p.context = r /\ Runs(p) /\ Of(r) = {p}
                  /\ p.callback # "resolve_reply"
    BY DEF StartsRouter, StartsResolving
  <1>4. Begins(r) \/ Continues(r)
    BY <1>3 DEF Continues
  <1>5. /\ users \in [Requests -> Nat] /\ replies \in [Requests -> Nat]
        /\ pending_commands \subseteq PendingType /\ cmd_pending \subseteq Requests
        /\ valid \subseteq Connections
    BY Typed
  <1>6. Grows
    BY <1>1 DEF Starts, Grows
  <1>7. TypeOK'
    <2>1. users' \in [Requests -> Nat] /\ replies' \in [Requests -> Nat]
      BY <1>1, <1>5 DEF Starts
    <2>2. pending_commands' \subseteq PendingType
      BY <1>2, <1>5 DEF Adds
    <2>3. exec' \in ExecType
      BY <1>4, StepExec
    <2> QED
      BY <1>1, <1>5, <1>6, <2>1, <2>2, <2>3, TypeStep DEF Starts
  <1>8. Structure'
    <2>1. \/ exec' = exec /\ exec = Idle
          \/ \E p : Runs(p) /\ p.callback # "resolve_reply"
      BY <1>3 DEF Begins
    <2>2. \A p \in new :
               /\ p.callback # "resolve_reply" => p.reply_cmd = "WHOIS"
               /\ (p.callback = "invite") <=> (Kind[p.context] = "invite")
               /\ p.callback = "invite" => p.context \in cmd_pending'
      BY <1>1, <1>2 DEF Adds
    <2> QED
      BY <1>2, <1>6, <2>1, <2>2, AddsStructure
  <1>9. Phases'
    <2>1. Only(r)
      <3>1. /\ pending_commands' = pending_commands \cup new
            /\ \A p \in new : p.context = r
        BY <1>2 DEF Adds
      <3>2. \A s \in Requests \ {r} :
                /\ query'[s] = query[s]
                /\ users'[s] = users[s]
                /\ replies'[s] = replies[s]
                /\ (s \in cmd_pending') <=> (s \in cmd_pending)
        BY <1>1, <1>5 DEF Starts
      <3> QED
        BY <1>4, <3>1, <3>2, KeepsOnly
    <2>2. users'[r] = 1 /\ replies'[r] = 0 /\ query'[r].status = "waiting"
          /\ cmd_pending' = cmd_pending
      BY <1>1, <1>5 DEF Starts
    <2>3. Waiting(r)' = new /\ Of(r)' = Of(r) \cup new
      BY <1>2, <1>3, AddsWaiting
    <2>4. r \notin cmd_pending
      BY DEF QueryInv, Phases, Phase, QueryPhase
    <2>5. CASE callback = "send_router_reply"
      <3>1. RouterPhase(r)'
        BY <1>1, <1>2, <2>3, <2>5 DEF RouterPhase, Begins
      <3> QED
        BY <2>1, <2>2, <2>4, <3>1, OnlyPhases DEF Phase, QueryPhase
    <2>6. CASE callback = "resolve_reply"
      <3>1. new # {}
        BY <1>2 DEF Adds
      <3>2. ResolvePhase(r)'
        BY <1>1, <1>2, <2>3, <2>6, <3>1 DEF ResolvePhase
      <3> QED
        BY <2>1, <2>2, <2>4, <3>2, OnlyPhases DEF Phase, QueryPhase
    <2> QED
      BY <2>5, <2>6
  <1> QED
    BY <1>7, <1>8, <1>9 DEF QueryInv

\* An INVITE begins to wait.
InviteWaits(r) ==
    /\ Begins(r)
    /\ Grows
    /\ wire' \subseteq WireType
    /\ pending_commands' = pending_commands \cup
           {Pending("WHOIS", cmd_ident', "invite", r)}
    /\ cmd_pending' = cmd_pending \cup {r}
    /\ users' = [users EXCEPT ![r] = 1]
    /\ UNCHANGED <<query, replies, valid>>

\* An INVITE that begins to wait keeps the invariant.
LEMMA InviteWaitsStep ==
    ASSUME QueryInv, NEW r \in Requests, Kind[r] = "invite", InviteWaits(r)
    PROVE  QueryInv'
  <1> DEFINE x == Pending("WHOIS", cmd_ident', "invite", r)
             new == {x}
  <1>1. /\ users \in [Requests -> Nat] /\ replies \in [Requests -> Nat]
        /\ pending_commands \subseteq PendingType /\ cmd_pending \subseteq Requests
        /\ valid \subseteq Connections /\ query \in [Requests -> QueryType]
    BY Typed
  <1>2. /\ cmd_ident' \in Nat /\ Grows /\ Begins(r)
        /\ pending_commands' = pending_commands \cup new
    BY DEF InviteWaits, Grows
  <1>3. x \in PendingType
    BY <1>2, PendingTyped
  <1>4. /\ x.context = r /\ ~x.reply_check /\ x.ident = cmd_ident'
        /\ x.reply_cmd = "WHOIS" /\ x.callback = "invite"
    BY DEF Pending
  <1>5. \A q \in pending_commands : ~SamePending(x, q)
    BY <1>2, <1>4 DEF SamePending, Begins, Of
  <1>6. IsFiniteSet(new)
    BY FS_Singleton
  <1> HIDE DEF x
  <1>7. Adds(r, new)
    BY <1>2, <1>3, <1>4, <1>5, <1>6 DEF Adds, Begins
  <1>8. TypeOK'
    <2>1. users' \in [Requests -> Nat] /\ replies' \in [Requests -> Nat]
          /\ query' \in [Requests -> QueryType] /\ valid' \subseteq Connections
          /\ cmd_pending' \subseteq Requests
      BY <1>1 DEF InviteWaits
    <2>2. pending_commands' \subseteq PendingType
      BY <1>1, <1>2, <1>3
    <2>3. exec' \in ExecType
      BY <1>2, StepExec
    <2> QED
      BY <1>2, <2>1, <2>2, <2>3, TypeStep DEF InviteWaits
  <1>9. Structure'
    <2>1. exec' = exec /\ exec = Idle
      BY <1>2 DEF Begins
    <2>2. \A p \in new :
               /\ p.callback # "resolve_reply" => p.reply_cmd = "WHOIS"
               /\ (p.callback = "invite") <=> (Kind[p.context] = "invite")
               /\ p.callback = "invite" => p.context \in cmd_pending'
      BY <1>4 DEF InviteWaits
    <2> HIDE DEF new
    <2> QED
      BY <1>2, <1>7, <2>1, <2>2, AddsStructure
  <1>10. Phases'
    <2>1. \A s \in Requests \ {r} :
              /\ query'[s] = query[s]
              /\ users'[s] = users[s]
              /\ replies'[s] = replies[s]
              /\ (s \in cmd_pending') <=> (s \in cmd_pending)
      BY <1>1 DEF InviteWaits
    <2>2. Only(r)
      <3>1. \A p \in new : p.context = r
        BY <1>4
      <3> HIDE DEF new
      <3> QED
        BY <1>2, <2>1, <3>1, KeepsOnly
    <2>3. users'[r] = 1 /\ replies'[r] = 0 /\ r \in cmd_pending'
          /\ query'[r] = query[r]
      BY <1>1 DEF InviteWaits, Begins
    <2>4. Waiting(r)' = {x} /\ Of(r)' = {x}
      BY <1>2, <1>7, AddsWaiting DEF Begins
    <2>5. InvitePhase(r)
      BY DEF QueryInv, Phases, Phase
    <2>6. InvitePhase(r)'
      BY <2>3, <2>4, <2>5 DEF InvitePhase
    <2> QED
      BY <2>2, <2>6, OnlyPhases DEF Phase
  <1> QED
    BY <1>8, <1>9, <1>10 DEF QueryInv

\* silc_server_query_resolve_reply while there are other queries left.
QueryGoesOn(p) ==
    /\ Grows
    /\ query' = [query EXCEPT ![p.context].queries_left = @ - 1]
    /\ UNCHANGED <<pending_commands, wire, users, replies, cmd_pending, valid>>

\* A query that loses one of several callbacks keeps the invariant.
LEMMA GoesOnStep ==
    ASSUME QueryInv, NEW p, Runs(p), p.callback = "resolve_reply",
           query[p.context].queries_left - 1 # 0, QueryGoesOn(p)
    PROVE  QueryInv'
  <1> DEFINE r == p.context
  <1>1. /\ users \in [Requests -> Nat] /\ replies \in [Requests -> Nat]
        /\ pending_commands \subseteq PendingType /\ cmd_pending \subseteq Requests
        /\ valid \subseteq Connections /\ query \in [Requests -> QueryType]
        /\ wire \subseteq WireType
    BY Typed
  <1>2. /\ Kind[r] # "invite" /\ r \in Requests /\ query[r].status = "waiting"
        /\ ResolvePhase(r) /\ users[r] = 1 /\ replies[r] = 0 /\ r \notin cmd_pending
    BY ResolveCallback
  <1>3. /\ Waiting(r)' = Waiting(r) \ {p} /\ p \in Waiting(r)
    BY RunsWaiting DEF QueryGoesOn
  <1>4. IsFiniteSet(Waiting(r))
    BY FS_Subset DEF QueryInv, Structure, Waiting
  <1>5. /\ Cardinality(Waiting(r)) \in Nat
        /\ Cardinality(Waiting(r)') = Cardinality(Waiting(r)) - 1
        /\ Cardinality(Waiting(r)') \in Nat
        /\ Waiting(r)' = {} <=> Cardinality(Waiting(r)') = 0
    BY <1>3, <1>4, FS_RemoveElement, FS_CardinalityType, FS_EmptySet, FS_Subset
  <1>6. query[r].queries_left = Cardinality(Waiting(r))
    BY <1>2 DEF ResolvePhase
  <1>7. /\ query' \in [Requests -> QueryType]
        /\ query'[r].queries_left = Cardinality(Waiting(r)')
        /\ query'[r].status = "waiting"
        /\ \A s \in Requests \ {r} : query'[s] = query[s]
    <2>1. query[r] \in QueryType
      BY <1>1, <1>2
    <2>2. query[r].queries_left - 1 \in Nat
      BY <1>5, <1>6
    <2>3. [query[r] EXCEPT !.queries_left = @ - 1] \in QueryType
      BY <2>1, <2>2 DEF QueryType
    <2> QED
      BY <1>1, <1>2, <1>5, <1>6, <2>1, <2>3 DEF QueryGoesOn, QueryType
  <1>8. TypeOK'
    BY <1>1, <1>7, RunsTyped, TypeStep DEF QueryGoesOn
  <1>9. Structure'
    BY KeptStructure DEF QueryGoesOn
  <1>10. Phases'
    <2>1. Only(r)
      BY <1>7, RunsWaiting DEF Only, QueryGoesOn
    <2>2. ResolvePhase(r)'
      <3>1. Waiting(r)' # {}
        BY <1>5, <1>6
      <3> QED
        BY <1>2, <1>3, <1>7, <3>1 DEF ResolvePhase
    <2>3. QueryPhase(r)'
      BY <1>2, <1>7, <2>2 DEF QueryPhase, QueryGoesOn
    <2> QED
      BY <1>2, <2>1, <2>3, OnlyPhases DEF Phase
  <1> QED
    BY <1>8, <1>9, <1>10 DEF QueryInv

-----------------------------------------------------------------------------
(***************************************************************************)
(* The actions.                                                            *)
(***************************************************************************)

\* Nothing waits for a command that begins, or whose only callback is run.
LEMMA NoneWaiting ==
    ASSUME QueryInv, NEW r, pending_commands' = pending_commands,
           \/ Begins(r)
           \/ \E p : p.context = r /\ Runs(p) /\ Waiting(r) \subseteq {p}
    PROVE  Waiting(r)' = {}
  <1>1. CASE Begins(r)
    BY <1>1 DEF Begins, Of, Waiting
  <1>2. CASE \E p : p.context = r /\ Runs(p) /\ Waiting(r) \subseteq {p}
    BY <1>2, RunsWaiting
  <1> QED
    BY <1>1, <1>2

\* Steps that take no identifier and change no client entry.
LEMMA SameGrows ==
    ASSUME QueryInv, UNCHANGED <<cmd_ident, entry, cmd_pending>>
    PROVE  Grows
  <1>1. cmd_ident \in Nat /\ EntriesGood(entry, cmd_ident)
    BY Typed
  <1> QED
    BY <1>1 DEF Grows, EntriesGood

\* silc_server_query_free and silc_server_query_send_reply.
LEMMA QueryFreeEnds ==
    ASSUME QueryInv, NEW r \in Requests, Kind[r] # "invite", replies[r] = 0,
           QueryFree(r, 1), valid' = valid, Waiting(r)' = {},
           replies' = IF Caller[r] \in valid THEN [replies EXCEPT ![r] = @ + 1]
                      ELSE replies
    PROVE  Ends(r)
  <1>1. /\ query \in [Requests -> QueryType] /\ replies \in [Requests -> Nat]
        /\ wire \subseteq WireType
    BY Typed
  <1>2. /\ query' = [query EXCEPT ![r].status = "freed"]
        /\ users' = [users EXCEPT ![r] = 0]
        /\ UNCHANGED <<cmd_ident, pending_commands, wire, entry, cmd_pending>>
    BY DEF QueryFree
  <1>3. /\ query' \in [Requests -> QueryType]
        /\ \A s \in Requests \ {r} : query'[s] = query[s]
        /\ query'[r].status = "freed"
    BY <1>1, <1>2 DEF QueryType
  <1>4. replies' = [replies EXCEPT ![r] = IF Caller[r] \in valid THEN 1 ELSE 0]
    <2>1. CASE Caller[r] \in valid
      BY <1>1, <2>1
    <2>2. CASE Caller[r] \notin valid
      BY <1>1, <2>2
    <2> QED
      BY <2>1, <2>2
  <1>5. Grows
    BY <1>2, SameGrows
  <1> QED
    BY <1>1, <1>2, <1>3, <1>4, <1>5 DEF Ends

\* silc_server_query_process, with the callbacks of clients to be resolved or
\* the reply.
LEMMA ProcessCases ==
    ASSUME QueryInv, NEW r \in Requests, Kind[r] # "invite", replies[r] = 0,
           query[r].queries_left = 0, Caller[r] \in valid, valid' = valid,
           NEW resolved, Process(r, TRUE, resolved, 1),
           \/ Begins(r)
           \/ \E p : /\ p.context = r /\ Runs(p) /\ Of(r) = {p}
                     /\ p.callback = "send_router_reply"
    PROVE  StartsResolving(r) \/ Ends(r)
  <1>1. CASE ToResolve(r, resolved) # {}
    <2>1. Resolve(r, ToResolve(r, resolved), 1)
      BY <1>1 DEF Process
    <2>2. ToResolve(r, resolved) \in SUBSET Clients
      BY RequestsAssumption DEF ToResolve, Found
    <2>3. \A p \in Of(r) : p.callback # "resolve_reply"
      BY DEF Begins
    <2>4. \E new : /\ Starts(r, new, "resolve_reply", 1)
                   /\ query'[r].queries_left = Cardinality(new)
      BY <1>1, <2>1, <2>2, <2>3, ResolveEffect
    <2> QED
      BY <2>4 DEF StartsResolving
  <1>2. CASE ToResolve(r, resolved) = {}
    <2>1. SendReply(r, 1)
      BY <1>2 DEF Process
    <2>2. /\ QueryFree(r, 1)
          /\ replies' = [replies EXCEPT ![r] = @ + 1]
          /\ pending_commands' = pending_commands
      BY <2>1 DEF SendReply, QueryFree
    <2>3. Waiting(r) \subseteq Of(r)
      BY DEF Waiting, Of
    <2>4. Waiting(r)' = {}
      BY <2>2, <2>3, NoneWaiting
    <2> QED
      BY <2>2, <2>4, QueryFreeEnds
  <1> QED
    BY <1>1, <1>2

\* silc_server_query_command asks the router, resolves or replies.
LEMMA QueryCommandCases ==
    ASSUME QueryInv, NEW r \in Requests, QueryCommand(r)
    PROVE  /\ Kind[r] # "invite" /\ replies[r] = 0 /\ valid' = valid
           /\ Begins(r)
           /\ StartsRouter(r) \/ StartsResolving(r) \/ Ends(r)
  <1>1. /\ Kind[r] # "invite" /\ query[r].status = "none" /\ exec = Idle
        /\ Caller[r] \in valid /\ exec' = exec /\ valid' = valid
    BY DEF QueryCommand, CanRun
  <1>2. QueryPhase(r)
    BY <1>1 DEF QueryInv, Phases, Phase
  <1>3. replies[r] \in Nat
    BY Typed
  <1>4. /\ Of(r) = {} /\ query[r].queries_left = 0 /\ replies[r] = 0
    BY <1>1, <1>2, <1>3 DEF QueryPhase
  <1>5. Begins(r)
    BY <1>1, <1>4 DEF Begins
  <1>6. CASE SendRouter(r, 1)
    BY <1>1, <1>4, <1>5, <1>6, SendRouterEffect DEF StartsRouter
  <1>7. CASE Process(r, TRUE, FALSE, 1)
    BY <1>1, <1>4, <1>5, <1>7, ProcessCases
  <1> QED
    BY <1>1, <1>4, <1>5, <1>6, <1>7 DEF QueryCommand

\* silc_server_query_send_router_reply resolves or ends the query.
LEMMA SendRouterReplyCases ==
    ASSUME QueryInv, NEW p, SendRouterReply(p)
    PROVE  LET r == p.context
           IN  /\ r \in Requests /\ Kind[r] # "invite" /\ replies[r] = 0
               /\ valid' = valid /\ Continues(r)
               /\ query[r].status = "waiting" /\ users[r] = 1
               /\ StartsResolving(r) \/ Ends(r)
  <1> DEFINE r == p.context
  <1>1. Runs(p) /\ p.callback = "send_router_reply" /\ valid' = valid
    BY DEF SendRouterReply, RunCallback, Runs
  <1>2. /\ Kind[r] # "invite" /\ r \in Requests /\ query[r].queries_left = 0
        /\ Of(r) = {p} /\ users[r] = 1 /\ replies[r] = 0
        /\ query[r].status = "waiting"
    BY <1>1, RouterCallback
  <1>3. Continues(r)
    BY <1>1 DEF Continues
  <1>4. ASSUME pending_commands' = pending_commands PROVE Waiting(r)' = {}
    <2>1. Waiting(r) \subseteq {p}
      BY <1>2 DEF Waiting, Of
    <2> QED
      BY <1>1, <1>4, <2>1, NoneWaiting
  <1>5. CASE Caller[r] \notin valid
    <2>1. QueryFree(r, 1) /\ replies' = replies
      BY <1>2, <1>5 DEF SendRouterReply
    <2>2. Waiting(r)' = {}
      BY <1>4, <2>1 DEF QueryFree
    <2> QED
      BY <1>1, <1>2, <1>3, <1>5, <2>1, <2>2, QueryFreeEnds
  <1>6. CASE Caller[r] \in valid /\ exec.error # "OK"
    <2>1. QueryFree(r, 1) /\ replies' = [replies EXCEPT ![r] = @ + 1]
      BY <1>2, <1>6 DEF SendRouterReply, SendReply
    <2>2. Waiting(r)' = {}
      BY <1>4, <2>1 DEF QueryFree
    <2> QED
      BY <1>1, <1>2, <1>3, <1>6, <2>1, <2>2, QueryFreeEnds
  <1>7. CASE Caller[r] \in valid /\ exec.error = "OK"
    <2>1. Process(r, TRUE, TRUE, 1)
      BY <1>2, <1>7 DEF SendRouterReply
    <2> QED
      BY <1>1, <1>2, <1>3, <1>7, <2>1, ProcessCases
  <1> QED
    BY <1>5, <1>6, <1>7

\* silc_server_query_resolve_reply ends the query or waits on.
LEMMA ResolveReplyCases ==
    ASSUME QueryInv, NEW p, ResolveReply(p)
    PROVE  LET r == p.context
           IN  /\ r \in Requests /\ Runs(p) /\ p.callback = "resolve_reply"
               /\ Kind[r] # "invite" /\ query[r].status = "waiting"
               /\ users[r] = 1 /\ replies[r] = 0
               /\ \/ Ends(r)
                  \/ query[r].queries_left - 1 # 0 /\ QueryGoesOn(p)
  <1> DEFINE r == p.context
  <1>1. Runs(p) /\ p.callback = "resolve_reply" /\ valid' = valid
    BY DEF ResolveReply, RunCallback, Runs
  <1>2. /\ Kind[r] # "invite" /\ r \in Requests /\ ResolvePhase(r)
        /\ users[r] = 1 /\ replies[r] = 0 /\ query[r].status = "waiting"
    BY <1>1, ResolveCallback
  <1>3. /\ query \in [Requests -> QueryType] /\ replies \in [Requests -> Nat]
        /\ users \in [Requests -> Nat] /\ wire \subseteq WireType
        /\ EntriesGood(entry, cmd_ident) /\ cmd_ident \in Nat
    BY Typed
  <1>4. /\ entry' = ResolvingCleared(r)
        /\ query' = [query EXCEPT
               ![r].queries_left = @ - 1,
               ![r].status = IF QueriesOver(r) THEN "freed" ELSE @]
        /\ users' = [users EXCEPT ![r] = IF QueriesOver(r) THEN @ - 1 ELSE @]
        /\ replies' = [replies EXCEPT ![r] =
               IF QueriesOver(r) /\ Caller[r] \in valid THEN @ + 1 ELSE @]
        /\ UNCHANGED <<cmd_ident, pending_commands, wire, cmd_pending>>
    BY DEF ResolveReply
  <1>5. EntriesGood(entry', cmd_ident)
    <2> SUFFICES ASSUME NEW t \in Clients
                 PROVE  /\ entry'[t] \in [status : {"none", "registered", "expired"},
                                          info : {"none", "nick", "full"},
                                          resolving : BOOLEAN,
                                          resolve_cmd_ident : Nat]
                        /\ entry'[t].resolve_cmd_ident <= cmd_ident
      BY <1>4 DEF EntriesGood, ResolvingCleared
    <2>1. entry'[t] \in {entry[t], [entry[t] EXCEPT !.resolving = FALSE]}
      BY <1>4 DEF ResolvingCleared
    <2> QED
      BY <1>3, <2>1 DEF EntriesGood
  <1>6. Grows
    BY <1>3, <1>4, <1>5 DEF Grows
  <1>7. CASE QueriesOver(r)
    <2>1. query' = [query EXCEPT ![r].queries_left = 0, ![r].status = "freed"]
      BY <1>3, <1>4, <1>7 DEF QueriesOver
    <2>2. /\ query' \in [Requests -> QueryType]
          /\ \A s \in Requests \ {r} : query'[s] = query[s]
          /\ query'[r].status = "freed"
      BY <1>2, <1>3, <2>1 DEF QueryType
    <2>3. users' = [users EXCEPT ![r] = 0]
      BY <1>2, <1>3, <1>4, <1>7
    <2>4. replies' = [replies EXCEPT ![r] = IF Caller[r] \in valid THEN 1 ELSE 0]
      BY <1>2, <1>3, <1>4, <1>7
    <2>5. Waiting(r)' = {}
      <3>1. query[r].queries_left = 1
        BY <1>2, <1>3, <1>7 DEF QueriesOver, QueryType
      <3>2. /\ Waiting(r)' = Waiting(r) \ {p} /\ p \in Waiting(r)
        BY <1>1, <1>4, RunsWaiting
      <3>3. IsFiniteSet(Waiting(r)) /\ Cardinality(Waiting(r)) = 1
        BY <1>2, <3>1, FS_Subset DEF QueryInv, Structure, Waiting, ResolvePhase
      <3>4. IsFiniteSet(Waiting(r)') /\ Cardinality(Waiting(r)') = 0
        BY <3>2, <3>3, FS_RemoveElement
      <3> QED
        BY <3>4, FS_EmptySet
    <2>6. Ends(r)
      BY <1>1, <1>2, <1>3, <1>4, <1>6, <2>2, <2>3, <2>4, <2>5 DEF Ends
    <2> QED
      BY <1>1, <1>2, <2>6
  <1>8. CASE ~QueriesOver(r)
    <2>1. /\ query' = [query EXCEPT ![r].queries_left = @ - 1]
          /\ users' = users /\ replies' = replies
      BY <1>2, <1>3, <1>4, <1>8 DEF QueryType
    <2>2. QueryGoesOn(p)
      BY <1>1, <1>4, <1>6, <2>1 DEF QueryGoesOn
    <2> QED
      BY <1>1, <1>2, <1>8, <2>2 DEF QueriesOver
  <1> QED
    BY <1>7, <1>8

\* silc_server_query_client.
LEMMA QueryClientEffect ==
    ASSUME QueryInv, NEW r \in Requests, NEW t \in Clients, QueryClient(r, t)
    PROVE  /\ cmd_ident' \in Nat /\ cmd_ident <= cmd_ident'
           /\ EntriesGood(entry', cmd_ident')
           /\ wire' \subseteq WireType
  <1>1. /\ cmd_ident \in Nat /\ wire \subseteq WireType
        /\ EntriesGood(entry, cmd_ident)
    BY Typed
  <1> DEFINE ident == IF Registered(t) THEN cmd_ident + 1 ELSE cmd_ident
  <1>2. ident \in Nat /\ cmd_ident <= ident
    BY <1>1
  <1>3. /\ cmd_ident' = ident
        /\ wire' = wire \cup {Whois(ident, {t}, r, r \in cmd_pending)}
        /\ entry' = IF Registered(t)
                    THEN [entry EXCEPT ![t].resolving = TRUE,
                                       ![t].resolve_cmd_ident = ident]
                    ELSE entry
    BY DEF QueryClient
  <1> HIDE DEF ident
  <1>4. Whois(ident, {t}, r, r \in cmd_pending) \in WireType
    BY <1>2 DEF Whois, WireType
  <1>5. EntriesGood(entry', ident)
    <2>1. \A u \in Clients : entry[u].resolve_cmd_ident <= ident
      BY <1>1, <1>2 DEF EntriesGood
    <2>2. CASE Registered(t)
      <3> DEFINE e == [entry[t] EXCEPT !.resolving = TRUE,
                                       !.resolve_cmd_ident = ident]
      <3>1. entry' = [entry EXCEPT ![t] = e]
        BY <1>1, <1>3, <2>2 DEF EntriesGood
      <3>2. /\ e \in [status : {"none", "registered", "expired"},
                      info : {"none", "nick", "full"},
                      resolving : BOOLEAN, resolve_cmd_ident : Nat]
            /\ e.resolve_cmd_ident = ident
        BY <1>1, <1>2 DEF EntriesGood
      <3> HIDE DEF e
      <3> QED
        BY <1>1, <1>2, <2>1, <3>1, <3>2 DEF EntriesGood
    <2>3. CASE ~Registered(t)
      BY <1>1, <1>3, <2>1, <2>3 DEF EntriesGood
    <2> QED
      BY <2>2, <2>3
  <1> QED
    BY <1>1, <1>2, <1>3, <1>4, <1>5

\* The reply to an INVITE.
LEMMA InviteOverEnds ==
    ASSUME QueryInv, NEW r \in Requests, Kind[r] = "invite", replies[r] = 0,
           InviteOver(r, 1), UNCHANGED <<query, valid>>,
           cmd_ident' \in Nat /\ cmd_ident <= cmd_ident',
           EntriesGood(entry', cmd_ident'), wire' \subseteq WireType,
           Begins(r) \/ \E p : p.context = r /\ Runs(p) /\ Of(r) = {p}
    PROVE  Ends(r)
  <1>1. query \in [Requests -> QueryType] /\ replies \in [Requests -> Nat]
    BY Typed
  <1>2. /\ users' = [users EXCEPT ![r] = 0]
        /\ replies' = [replies EXCEPT ![r] = IF Caller[r] \in valid THEN @ + 1 ELSE @]
        /\ UNCHANGED <<pending_commands, cmd_pending>>
    BY DEF InviteOver
  <1>3. replies' = [replies EXCEPT ![r] = IF Caller[r] \in valid THEN 1 ELSE 0]
    BY <1>1, <1>2
  <1>4. Waiting(r) \subseteq Of(r)
    BY DEF Waiting, Of
  <1>5. Waiting(r)' = {}
    BY <1>2, <1>4, NoneWaiting
  <1>6. Grows
    BY <1>2 DEF Grows
  <1> QED
    BY <1>1, <1>2, <1>3, <1>5, <1>6 DEF Ends

\* INVITE is over, or waits for the WHOIS it has sent.
LEMMA InviteLookupCases ==
    ASSUME QueryInv, NEW r \in Requests, Kind[r] = "invite", replies[r] = 0,
           InviteLookup(r, 1), UNCHANGED <<query, valid>>,
           \/ Begins(r)
           \/ r \in cmd_pending /\ \E p : p.context = r /\ Runs(p) /\ Of(r) = {p}
    PROVE  Ends(r) \/ InviteWaits(r)
  <1>1. PICK t \in Targets[r] :
        IF Registered(t) /\ entry[t].info = "full"
        THEN InviteOver(r, 1) /\ UNCHANGED <<cmd_ident, wire, entry>>
        ELSE /\ QueryClient(r, t)
             /\ IF r \in cmd_pending
                THEN InviteOver(r, 1)
                ELSE /\ pending_commands' = pending_commands \cup
                            {Pending("WHOIS", cmd_ident', "invite", r)}
                     /\ cmd_pending' = cmd_pending \cup {r}
                     /\ users' = [users EXCEPT ![r] = InviteUsers(r, 1)]
                     /\ UNCHANGED replies
    BY Zenon DEF InviteLookup
  <1>2. t \in Clients
    BY RequestsAssumption
  <1>3. CASE Registered(t) /\ entry[t].info = "full"
    <2>1. /\ cmd_ident' \in Nat /\ cmd_ident <= cmd_ident'
          /\ EntriesGood(entry', cmd_ident') /\ wire' \subseteq WireType
      BY <1>1, <1>3, Typed DEF EntriesGood
    <2> QED
      BY <1>1, <1>3, <2>1, InviteOverEnds
  <1>4. CASE ~(Registered(t) /\ entry[t].info = "full") /\ r \in cmd_pending
    <2>1. /\ cmd_ident' \in Nat /\ cmd_ident <= cmd_ident'
          /\ EntriesGood(entry', cmd_ident') /\ wire' \subseteq WireType
      BY <1>1, <1>2, <1>4, QueryClientEffect
    <2> QED
      BY <1>1, <1>4, <2>1, InviteOverEnds
  <1>5. CASE ~(Registered(t) /\ entry[t].info = "full") /\ r \notin cmd_pending
    <2>1. /\ cmd_ident' \in Nat /\ cmd_ident <= cmd_ident'
          /\ EntriesGood(entry', cmd_ident') /\ wire' \subseteq WireType
      BY <1>1, <1>2, <1>5, QueryClientEffect
    <2>2. /\ pending_commands' = pending_commands \cup
                            {Pending("WHOIS", cmd_ident', "invite", r)}
          /\ cmd_pending' = cmd_pending \cup {r}
          /\ users' = [users EXCEPT ![r] = 1]
          /\ UNCHANGED replies
      BY <1>1, <1>5 DEF InviteUsers
    <2>3. Grows
      BY <2>1, <2>2 DEF Grows
    <2> QED
      BY <1>5, <2>1, <2>2, <2>3 DEF InviteWaits
  <1> QED
    BY <1>3, <1>4, <1>5

\* INVITE as it arrives.
LEMMA InviteCases ==
    ASSUME QueryInv, NEW r \in Requests, Invite(r)
    PROVE  /\ Kind[r] = "invite" /\ valid' = valid /\ Begins(r)
           /\ r \notin cmd_pending
           /\ Ends(r) \/ InviteWaits(r)
  <1>1. /\ Kind[r] = "invite" /\ replies[r] = 0 /\ r \notin cmd_pending
        /\ Caller[r] \in valid /\ InviteLookup(r, 1) /\ exec = Idle
        /\ UNCHANGED <<query, valid, exec>>
    BY DEF Invite, CanRun
  <1>2. Of(r) = {}
    BY <1>1 DEF QueryInv, Phases, Phase, InvitePhase
  <1>3. Begins(r)
    BY <1>1, <1>2 DEF Begins
  <1> QED
    BY <1>1, <1>3, InviteLookupCases

\* INVITE as a callback never waits a second time.
LEMMA InviteReplyCases ==
    ASSUME QueryInv, NEW p, InviteReply(p)
    PROVE  LET r == p.context
           IN  /\ r \in Requests /\ Kind[r] = "invite"
               /\ Continues(r) /\ Ends(r)
               /\ users[r] = 1 /\ replies[r] = 0 /\ r \in cmd_pending
  <1> DEFINE r == p.context
  <1>1. /\ Runs(p) /\ p.callback = "invite" /\ UNCHANGED <<query, valid>>
    BY DEF InviteReply, RunCallback, Runs
  <1>2. /\ Kind[r] = "invite" /\ r \in Requests /\ Of(r) = {p}
        /\ users[r] = 1 /\ replies[r] = 0 /\ r \in cmd_pending
    BY <1>1, InviteCallback
  <1>3. exec # Idle
    BY <1>1, RunsLoop
  <1>4. CASE exec.error # "OK" \/ Caller[r] \notin valid
    <2>1. InviteOver(r, 1) /\ UNCHANGED <<cmd_ident, wire, entry>>
      BY <1>2, <1>4 DEF InviteReply
    <2>2. /\ cmd_ident' \in Nat /\ cmd_ident <= cmd_ident'
          /\ EntriesGood(entry', cmd_ident') /\ wire' \subseteq WireType
      BY <2>1, Typed DEF EntriesGood
    <2>3. Ends(r)
      BY <1>1, <1>2, <2>1, <2>2, InviteOverEnds
    <2> QED
      BY <1>1, <1>2, <2>3 DEF Continues
  <1>5. CASE ~(exec.error # "OK" \/ Caller[r] \notin valid)
    <2>1. InviteLookup(r, 1)
      BY <1>2, <1>5 DEF InviteReply
    <2>2. Ends(r) \/ InviteWaits(r)
      BY <1>1, <1>2, <2>1, InviteLookupCases
    <2>3. ~InviteWaits(r)
      BY <1>3 DEF InviteWaits, Begins
    <2> QED
      BY <1>1, <1>2, <2>2, <2>3 DEF Continues
  <1> QED
    BY <1>4, <1>5

EntryType == [status : {"none", "registered", "expired"},
              info : {"none", "nick", "full"},
              resolving : BOOLEAN, resolve_cmd_ident : Nat]

\* Steps that change client entries and take no identifier.
LEMMA EntryGrows ==
    ASSUME QueryInv, UNCHANGED <<cmd_ident, cmd_pending>>,
           entry' \in [Clients -> EntryType],
           \A t \in Clients : \/ entry'[t].resolve_cmd_ident = 0
                              \/ \E u \in Clients : entry'[t].resolve_cmd_ident =
                                                    entry[u].resolve_cmd_ident
    PROVE  Grows
  <1>1. cmd_ident \in Nat /\ \A u \in Clients : entry[u].resolve_cmd_ident <= cmd_ident
    BY Typed DEF EntriesGood
  <1>2. \A t \in Clients : entry'[t].resolve_cmd_ident <= cmd_ident
    BY <1>1
  <1> QED
    BY <1>1, <1>2 DEF Grows, EntriesGood, EntryType

\* Saving a WHOIS reply, or forgetting a client, takes no identifier.
LEMMA ReplyEntryGrows ==
    ASSUME QueryInv, UNCHANGED <<cmd_ident, cmd_pending>>, NEW t \in Clients,
           NEW error, entry' = ReplyEntry(t, error)
    PROVE  Grows
  <1>1. entry \in [Clients -> EntryType]
    BY Typed DEF EntriesGood, EntryType
  <1> DEFINE e == [entry[t] EXCEPT !.status = IF @ = "none" THEN "registered" ELSE @,
                                   !.info = "full", !.resolving = FALSE]
  <1>2. /\ entry' = [entry EXCEPT ![t] = e] \/ entry' = [entry EXCEPT ![t] = NoEntry]
           \/ entry' = entry
    BY <1>1 DEF ReplyEntry, Saved
  <1>3. e \in EntryType /\ e.resolve_cmd_ident = entry[t].resolve_cmd_ident
    BY <1>1 DEF EntryType
  <1>4. NoEntry \in EntryType /\ NoEntry.resolve_cmd_ident = 0
    BY DEF NoEntry, EntryType
  <1> HIDE DEF e
  <1>5. /\ entry' \in [Clients -> EntryType]
        /\ \A u \in Clients : \/ entry'[u].resolve_cmd_ident = 0
                              \/ entry'[u].resolve_cmd_ident = entry[u].resolve_cmd_ident
    BY <1>1, <1>2, <1>3, <1>4
  <1> QED
    BY <1>5, EntryGrows

\* Steps that belong to no command and leave the list alone.
LEMMA QuietStep ==
    ASSUME QueryInv, Grows, valid' \subseteq Connections,
           UNCHANGED <<pending_commands, wire, query, cmd_pending, users, replies,
                       exec>>
    PROVE  QueryInv'
  <1>1. TypeOK'
    <2>1. /\ pending_commands \subseteq PendingType /\ wire \subseteq WireType
          /\ query \in [Requests -> QueryType] /\ cmd_pending \subseteq Requests
          /\ users \in [Requests -> Nat] /\ replies \in [Requests -> Nat]
          /\ exec \in ExecType
      BY Typed
    <2> QED
      BY <2>1, TypeStep
  <1>2. Structure'
    BY KeptStructure
  <1>3. Phases'
    BY QuietPhases
  <1> QED
    BY <1>1, <1>2, <1>3 DEF QueryInv

\* What the router announces of clients keeps the invariant.
LEMMA EntryStep ==
    ASSUME QueryInv,
           \/ \E t \in Clients : Announced(t)
           \/ \E t, u \in Clients : NickChange(t, u)
           \/ \E t \in Clients : SignedOff(t)
           \/ \E t \in Clients : Purge(t)
    PROVE  QueryInv'
  <1>0. /\ UNCHANGED <<cmd_ident, pending_commands, wire, query, cmd_pending,
                       users, replies, valid, exec>>
    BY DEF Announced, NickChange, SignedOff, Purge
  <1>1. entry \in [Clients -> EntryType] /\ valid \subseteq Connections
    BY Typed DEF EntriesGood, EntryType
  <1>2. NoEntry \in EntryType /\ NoEntry.resolve_cmd_ident = 0
    BY DEF NoEntry, EntryType
  <1>3. Grows
    <2>1. CASE \E t \in Clients : Announced(t)
      BY <1>0, <1>1, <2>1, EntryGrows DEF Announced, EntryType
    <2>2. CASE \E t, u \in Clients : NickChange(t, u)
      <3>1. PICK t \in Clients, u \in Clients : NickChange(t, u)
        BY <2>2
      <3> DEFINE e == [entry[t] EXCEPT !.info = IF @ = "none" THEN "nick" ELSE @]
      <3>2. entry' = [entry EXCEPT ![t] = NoEntry, ![u] = e]
        BY <3>1 DEF NickChange
      <3>3. e \in EntryType /\ e.resolve_cmd_ident = entry[t].resolve_cmd_ident
        BY <1>1 DEF EntryType
      <3> HIDE DEF e
      <3> QED
        BY <1>0, <1>1, <1>2, <3>2, <3>3, EntryGrows
    <2>3. CASE \E t \in Clients : SignedOff(t)
      BY <1>0, <1>1, <2>3, EntryGrows DEF SignedOff, EntryType
    <2>4. CASE \E t \in Clients : Purge(t)
      BY <1>0, <1>1, <1>2, <2>4, EntryGrows DEF Purge
    <2> QED
      BY <2>1, <2>2, <2>3, <2>4
  <1> QED
    BY <1>0, <1>1, <1>3, QuietStep

\* Marking entries for a reply keeps the invariant.
LEMMA MarksStep ==
    ASSUME QueryInv, Grows, NEW cmd, NEW ident, Marks(cmd, ident),
           wire' \subseteq WireType, exec' \in ExecType,
           UNCHANGED <<query, cmd_pending, users, replies, valid>>
    PROVE  QueryInv'
  <1>1. /\ pending_commands \subseteq PendingType
        /\ query \in [Requests -> QueryType] /\ cmd_pending \subseteq Requests
        /\ users \in [Requests -> Nat] /\ replies \in [Requests -> Nat]
        /\ valid \subseteq Connections
    BY Typed
  <1>2. pending_commands' \subseteq PendingType
    BY <1>1, MarkFields DEF Marks, PendingChecked, Mark
  <1>3. TypeOK'
    BY <1>1, <1>2, TypeStep
  <1> QED
    BY <1>3, MarksStructure, MarksPhases DEF QueryInv

\* The loop over the callbacks begins with the entries that match.
LEMMA ExecuteTyped ==
    ASSUME QueryInv, NEW cmd \in {"WHOIS", "NONE"}, NEW ident \in Nat,
           NEW error \in Errors, NEW from \in Requests \cup {None},
           exec = Idle, Execute(cmd, ident, error, from)
    PROVE  exec' \in ExecType /\ Marks(cmd, ident)
  <1>1. pending_commands \subseteq PendingType
    BY Typed
  <1>2. PendingChecked(cmd, ident) \in SUBSET PendingType
    BY <1>1, MarkFields DEF PendingChecked, Mark
  <1> DEFINE todo == {p \in PendingChecked(cmd, ident) :
                             PendingMatches(p, cmd, ident)}
  <1>3. todo \in SUBSET PendingType
    BY <1>2
  <1>4. /\ pending_commands' = PendingChecked(cmd, ident)
        /\ exec' = [cmd |-> cmd, ident |-> ident, error |-> error, from |-> from,
                    todo |-> todo, done |-> {}]
    BY DEF Execute
  <1> HIDE DEF todo
  <1>5. exec' \in ExecType
    BY <1>3, <1>4 DEF ExecType
  <1>6. /\ exec'.cmd = cmd /\ exec'.ident = ident /\ exec'.todo = todo
        /\ exec'.done = {}
    BY <1>4
  <1> QED
    BY <1>4, <1>5, <1>6 DEF Marks, todo

\* silc_server_command_pending_timeout keeps the invariant.
LEMMA TimeoutStep ==
    ASSUME QueryInv, NEW p \in pending_commands, PendingTimeout(p)
    PROVE  QueryInv'
  <1>1. /\ exec = Idle /\ Execute(p.reply_cmd, p.ident, "TIMEDOUT", None)
        /\ UNCHANGED <<cmd_ident, wire, entry, query, cmd_pending, users, replies,
                       valid>>
    BY DEF PendingTimeout, CanRun
  <1>2. p.reply_cmd \in {"WHOIS", "NONE"} /\ p.ident \in Nat
    BY Typed DEF PendingType
  <1>3. exec' \in ExecType /\ Marks(p.reply_cmd, p.ident)
    BY <1>1, <1>2, ExecuteTyped DEF Errors
  <1>4. Grows /\ wire' \subseteq WireType
    BY <1>1, SameGrows, Typed
  <1> QED
    BY <1>1, <1>3, <1>4, MarksStep

\* A reply that is not the last of its list keeps the invariant.
LEMMA WhoisListItemStep ==
    ASSUME QueryInv, NEW w \in wire, NEW t \in w.ids, NEW error \in Errors,
           WhoisListItem(w, t, error)
    PROVE  QueryInv'
  <1>1. wire \subseteq WireType /\ exec \in ExecType
    BY Typed
  <1>2. t \in Clients
    BY <1>1 DEF WireType
  <1>3. /\ exec = Idle /\ exec' = exec
        /\ entry' = ReplyEntry(t, error)
        /\ wire' = (wire \ {w}) \cup {[w EXCEPT !.ids = @ \ {t}]}
        /\ pending_commands' = PendingChecked("WHOIS", w.ident)
        /\ UNCHANGED <<cmd_ident, query, cmd_pending, users, replies, valid>>
    BY DEF WhoisListItem, CanRun
  <1>4. wire' \subseteq WireType
    BY <1>1, <1>3 DEF WireType
  <1>5. Grows
    BY <1>2, <1>3, ReplyEntryGrows
  <1>6. Marks("WHOIS", w.ident)
    BY <1>3 DEF Marks
  <1> QED
    BY <1>1, <1>3, <1>4, <1>5, <1>6, MarksStep

\* The last reply keeps the invariant.
LEMMA WhoisReplyStep ==
    ASSUME QueryInv, NEW w \in wire, NEW t \in w.ids, NEW error \in Errors,
           WhoisReply(w, t, error)
    PROVE  QueryInv'
  <1>1. wire \subseteq WireType
    BY Typed
  <1>2. t \in Clients /\ w.ident \in Nat /\ w.from \in Requests \cup {None}
    BY <1>1 DEF WireType
  <1>3. /\ exec = Idle
        /\ entry' = ReplyEntry(t, error)
        /\ wire' = wire \ {w}
        /\ Execute("WHOIS", w.ident, error, w.from)
        /\ UNCHANGED <<cmd_ident, query, cmd_pending, users, replies, valid>>
    BY DEF WhoisReply, CanRun
  <1>4. wire' \subseteq WireType
    BY <1>1, <1>3
  <1>5. Grows
    BY <1>2, <1>3, ReplyEntryGrows
  <1>6. exec' \in ExecType /\ Marks("WHOIS", w.ident)
    BY <1>2, <1>3, ExecuteTyped
  <1> QED
    BY <1>3, <1>4, <1>5, <1>6, MarksStep

\* silc_server_command_pending_del keeps the invariant.
LEMMA DelStep ==
    ASSUME QueryInv, PendingDel
    PROVE  QueryInv'
  <1>1. /\ pending_commands' = pending_commands \ exec.done
        /\ exec' = Idle
        /\ UNCHANGED <<cmd_ident, entry, query, cmd_pending, users, replies, wire,
                       valid>>
    BY PendingDelEffect DEF PendingDel
  <1>2. /\ pending_commands \subseteq PendingType
        /\ query \in [Requests -> QueryType] /\ cmd_pending \subseteq Requests
        /\ users \in [Requests -> Nat] /\ replies \in [Requests -> Nat]
        /\ valid \subseteq Connections /\ wire \subseteq WireType
    BY Typed
  <1>3. Idle \in ExecType
    BY DEF Idle, ExecType, Errors
  <1>4. Grows
    BY <1>1, SameGrows
  <1>5. pending_commands' \subseteq PendingType
    BY <1>1, <1>2
  <1>6. TypeOK'
    BY <1>1, <1>2, <1>3, <1>4, <1>5, TypeStep
  <1> QED
    BY <1>6, DelStructure, DelPhases DEF QueryInv

-----------------------------------------------------------------------------
(***************************************************************************)
(* The theorems.                                                           *)
(***************************************************************************)

\* Nothing is pending when the server starts.
LEMMA InitQueryInv ==
    ASSUME Init
    PROVE  QueryInv
  <1>1. TypeOK
    BY DEF Init, TypeOK, NoEntry, NoQuery, Idle, Errors
  <1>2. Structure
    <2>1. IsFiniteSet(pending_commands)
      BY FS_EmptySet DEF Init
    <2> QED
      BY <2>1 DEF Init, Structure, IdentsTaken, Unique, Shape, Loop, Idle, NoEntry
  <1>3. Phases
    BY DEF Init, Phases, Phase, InvitePhase, QueryPhase, Of, Waiting, NoQuery
  <1> QED
    BY <1>1, <1>2, <1>3 DEF QueryInv

\* The handler of a command, replies, timeouts and callbacks keep the
\* invariant.
LEMMA NextQueryInv ==
    ASSUME QueryInv, [Next]_vars
    PROVE  QueryInv'
  <1>1. CASE PendingDel
    BY <1>1, DelStep
  <1>2. CASE \E p \in exec.todo : SendRouterReply(p)
    <2>1. PICK p \in exec.todo : SendRouterReply(p)
      BY <1>2
    <2>2. PICK r \in Requests :
              /\ Kind[r] # "invite" /\ replies[r] = 0
              /\ valid' = valid /\ Continues(r)
              /\ StartsResolving(r) \/ Ends(r)
      BY <2>1, SendRouterReplyCases
    <2> QED
      BY <2>2, StartsStep, EndsStep
  <1>3. CASE \E p \in exec.todo : ResolveReply(p)
    <2>1. PICK p \in exec.todo : ResolveReply(p)
      BY <1>3
    <2>2. CASE Ends(p.context)
      BY <2>1, <2>2, ResolveReplyCases, EndsStep DEF Continues
    <2>3. CASE ~Ends(p.context)
      BY <2>1, <2>3, ResolveReplyCases, GoesOnStep
    <2> QED
      BY <2>2, <2>3
  <1>4. CASE \E p \in exec.todo : InviteReply(p)
    BY <1>4, InviteReplyCases, EndsStep
  <1>5. CASE Timeouts
    BY <1>5, TimeoutStep DEF Timeouts
  <1>6. CASE \E r \in Requests : QueryCommand(r)
    BY <1>6, QueryCommandCases, StartsStep, EndsStep
  <1>7. CASE \E r \in Requests : Invite(r)
    BY <1>7, InviteCases, InviteWaitsStep, EndsStep
  <1>8. CASE \E w \in wire : \E t \in w.ids, error \in Errors :
                 WhoisListItem(w, t, error)
    BY <1>8, WhoisListItemStep
  <1>9. CASE \E w \in wire : \E t \in w.ids, error \in Errors :
                 WhoisReply(w, t, error)
    BY <1>9, WhoisReplyStep
  <1>10. CASE \/ \E t \in Clients : Announced(t)
              \/ \E t, u \in Clients : NickChange(t, u)
              \/ \E t \in Clients : SignedOff(t)
              \/ \E t \in Clients : Purge(t)
    BY <1>10, EntryStep
  <1>11. CASE (\E c \in Connections : Disconnect(c)) \/ UNCHANGED vars
    <2>1. /\ UNCHANGED <<cmd_ident, pending_commands, wire, entry, query,
                         cmd_pending, users, replies, exec>>
          /\ valid' \subseteq valid
      BY <1>11 DEF Disconnect, vars
    <2>2. Grows
      BY <2>1, SameGrows
    <2> QED
      BY <2>1, <2>2, QuietStep, Typed
  <1> QED
    BY <1>1, <1>2, <1>3, <1>4, <1>5, <1>6, <1>7, <1>8, <1>9, <1>10, <1>11
       DEF Next, Callbacks

\* The list of pending commands, the queries and the reference counts fit
\* together in every state.
THEOREM QueryInvariance == Spec => []QueryInv
  <1>1. Init => QueryInv
    BY InitQueryInv
  <1>2. QueryInv /\ [Next]_vars => QueryInv'
    BY NextQueryInv
  <1> QED
    BY <1>1, <1>2, PTL DEF Spec

\* The variables keep their types.
THEOREM QueryTypes == Spec => []TypeOK
  <1>1. QueryInv => TypeOK
    BY DEF QueryInv
  <1> QED
    BY <1>1, QueryInvariance, PTL

\* A waiting query has a callback to come, and counts those of the clients it
\* resolves exactly, whatever order replies, timeouts and commands have.
THEOREM QueriesLeft == Spec => []QueriesLeftExact
  <1>1. QueryInv => QueriesLeftExact
    <2> SUFFICES ASSUME QueryInv, NEW r \in Requests, query[r].status = "waiting"
                 PROVE  /\ Waiting(r) # {}
                        /\ query[r].queries_left =
                              Cardinality({p \in Waiting(r) : p.callback = "resolve_reply"})
      BY DEF QueriesLeftExact
    <2>1. RouterPhase(r) \/ ResolvePhase(r)
      BY DEF QueryInv, Phases, Phase, InvitePhase, QueryPhase
    <2>2. CASE RouterPhase(r)
      <3>1. {p \in Waiting(r) : p.callback = "resolve_reply"} = {}
        BY <2>2 DEF RouterPhase, Waiting, Of
      <3> QED
        BY <2>2, <3>1, FS_EmptySet DEF RouterPhase
    <2>3. CASE ResolvePhase(r)
      <3>1. {p \in Waiting(r) : p.callback = "resolve_reply"} = Waiting(r)
        BY <2>3 DEF ResolvePhase
      <3> QED
        BY <2>3, <3>1 DEF ResolvePhase
    <2> QED
      BY <2>1, <2>2, <2>3
  <1> QED
    BY <1>1, QueryInvariance, PTL

\* No callback is run with a query that was freed or a command context that
\* nobody holds.
THEOREM NoStaleContext == Spec => []ContextsLive
  <1>1. QueryInv => ContextsLive
    <2> SUFFICES ASSUME QueryInv, NEW p \in pending_commands \ exec.done
                 PROVE  /\ users[p.context] > 0
                        /\ Kind[p.context] # "invite" =>
                               query[p.context].status = "waiting"
      BY DEF ContextsLive
    <2>1. p.context \in Requests
      BY Typed DEF PendingType
    <2>2. p \in Waiting(p.context) /\ p \in Of(p.context)
      BY DEF Waiting, Of
    <2>3. Phase(p.context)
      BY <2>1 DEF QueryInv, Phases
    <2>4. query[p.context].status \in {"none", "waiting", "freed"}
      BY <2>1, Typed DEF QueryType
    <2>5. CASE Kind[p.context] = "invite"
      BY <2>2, <2>3, <2>5 DEF Phase, InvitePhase
    <2>6. CASE Kind[p.context] # "invite"
      BY <2>2, <2>3, <2>4, <2>6 DEF Phase, QueryPhase
    <2> QED
      BY <2>5, <2>6
  <1> QED
    BY <1>1, QueryInvariance, PTL

\* Every reference to a command context has its holder, and every holder its
\* reference.
THEOREM References == Spec => []ReferencesExact
  <1>1. QueryInv => ReferencesExact
    <2> SUFFICES ASSUME QueryInv, NEW r \in Requests
                 PROVE  users[r] = IF Kind[r] = "invite" THEN Cardinality(Waiting(r))
                                   ELSE IF query[r].status = "waiting" THEN 1 ELSE 0
      BY DEF ReferencesExact
    <2>1. Phase(r)
      BY DEF QueryInv, Phases
    <2>2. CASE Kind[r] # "invite"
      BY <2>1, <2>2 DEF Phase, QueryPhase
    <2>3. CASE Kind[r] = "invite"
      <3>1. InvitePhase(r) /\ Waiting(r) \subseteq Of(r)
        BY <2>1, <2>3 DEF Phase, Waiting, Of
      <3>2. CASE Waiting(r) = {}
        BY <2>3, <3>1, <3>2, FS_EmptySet DEF InvitePhase
      <3>3. CASE Waiting(r) # {}
        <4>1. PICK x : Waiting(r) = {x}
          BY <3>1, <3>3 DEF InvitePhase
        <4> QED
          BY <2>3, <3>1, <4>1, FS_Singleton DEF InvitePhase
      <3> QED
        BY <3>2, <3>3
    <2> QED
      BY <2>2, <2>3
  <1> QED
    BY <1>1, QueryInvariance, PTL

-----------------------------------------------------------------------------
(***************************************************************************)
(* Every step is a step of CommandService, or changes nothing of it.       *)
(***************************************************************************)

\* The status of a command depends on nothing else.
LEMMA StatusSame ==
    ASSUME NEW s \in Requests, query'[s].status = query[s].status,
           users'[s] = users[s], replies'[s] = replies[s],
           (s \in cmd_pending') <=> (s \in cmd_pending)
    PROVE  CommandStatus'[s] = CommandStatus[s]
  BY DEF CommandStatus

\* A step that changes the status of one command only.
LEMMA StatusSet ==
    ASSUME QueryInv, NEW r \in Requests, NEW v, CommandStatus'[r] = v,
           \A s \in Requests \ {r} :
               /\ query'[s] = query[s]
               /\ users'[s] = users[s]
               /\ replies'[s] = replies[s]
               /\ (s \in cmd_pending') <=> (s \in cmd_pending)
    PROVE  CommandStatus' = [CommandStatus EXCEPT ![r] = v]
  <1>1. \A s \in Requests \ {r} : CommandStatus'[s] = CommandStatus[s]
    BY StatusSame
  <1>2. /\ CommandStatus = [s \in Requests |-> CommandStatus[s]]
        /\ CommandStatus' = [s \in Requests |-> CommandStatus'[s]]
    BY DEF CommandStatus
  <1> QED
    BY <1>1, <1>2

\* A command that has begun is running until it is over.
LEMMA RunningStatus ==
    ASSUME NEW r \in Requests, users[r] = 1, replies[r] = 0,
           query[r].status # "none" \/ r \in cmd_pending
    PROVE  CommandStatus[r] = "running"
  BY DEF CommandStatus

\* The reply, or the end of a command whose caller has gone.
LEMMA EndsServes ==
    ASSUME QueryInv, NEW r \in Requests, Ends(r),
           \/ CommandStatus[r] = "idle" /\ Caller[r] \in valid
           \/ CommandStatus[r] = "running",
           Kind[r] = "invite" => Caller[r] \in valid \/ r \in cmd_pending
    PROVE  Service!Next
  <1> DEFINE v == IF Caller[r] \in valid THEN "answered" ELSE "dropped"
  <1>1. users \in [Requests -> Nat] /\ replies \in [Requests -> Nat]
    BY Typed
  <1>2. /\ users'[r] = 0
        /\ replies'[r] = IF Caller[r] \in valid THEN 1 ELSE 0
        /\ query'[r].status # "none" \/ r \in cmd_pending' \/ replies'[r] # 0
    BY <1>1 DEF Ends
  <1>3. CommandStatus'[r] = v
    BY <1>2 DEF CommandStatus
  <1>4. \A s \in Requests \ {r} :
               /\ query'[s] = query[s]
               /\ users'[s] = users[s]
               /\ replies'[s] = replies[s]
               /\ (s \in cmd_pending') <=> (s \in cmd_pending)
    BY <1>1 DEF Ends
  <1>5. valid' = valid
    BY DEF Ends
  <1> HIDE DEF v
  <1>6. CommandStatus' = [CommandStatus EXCEPT ![r] = v]
    BY <1>3, <1>4, StatusSet
  <1>7. CASE Caller[r] \in valid
    <2>1. v = "answered"
      BY <1>7 DEF v
    <2>2. Service!Accept(r) \/ Service!Answer(r)
      BY <1>5, <1>6, <1>7, <2>1 DEF Service!Accept, Service!Answer
    <2> QED
      BY <2>2 DEF Service!Next
  <1>8. CASE Caller[r] \notin valid
    <2>1. v = "dropped"
      BY <1>8 DEF v
    <2>2. Service!Drop(r)
      BY <1>5, <1>6, <1>8, <2>1 DEF Service!Drop
    <2> QED
      BY <2>2 DEF Service!Next
  <1> QED
    BY <1>7, <1>8

\* A command that begins to wait has been accepted.
LEMMA AcceptServes ==
    ASSUME QueryInv, NEW r \in Requests, Begins(r), CommandStatus[r] = "idle",
           valid' = valid, InviteWaits(r) \/ StartsRouter(r) \/ StartsResolving(r)
    PROVE  Service!Next
  <1>1. users \in [Requests -> Nat] /\ replies \in [Requests -> Nat]
    BY Typed
  <1>2. /\ users' = [users EXCEPT ![r] = 1] /\ replies' = replies
        /\ query'[r].status = "waiting" \/ r \in cmd_pending'
        /\ \A s \in Requests \ {r} :
               /\ query'[s] = query[s]
               /\ (s \in cmd_pending') <=> (s \in cmd_pending)
    BY DEF InviteWaits, StartsRouter, StartsResolving, Starts
  <1>3. users'[r] = 1 /\ replies'[r] = 0 /\ Caller[r] \in valid
    BY <1>1, <1>2 DEF Begins
  <1>4. CommandStatus'[r] = "running"
    BY <1>2, <1>3 DEF CommandStatus
  <1>5. \A s \in Requests \ {r} : users'[s] = users[s] /\ replies'[s] = replies[s]
    BY <1>1, <1>2
  <1>6. CommandStatus' = [CommandStatus EXCEPT ![r] = "running"]
    BY <1>2, <1>4, <1>5, StatusSet
  <1>7. Service!Accept(r)
    BY <1>3, <1>6 DEF Service!Accept
  <1> QED
    BY <1>7 DEF Service!Next

\* Steps that change the status of no command.
LEMMA SameServes ==
    ASSUME QueryInv, valid' = valid,
           \A s \in Requests :
               /\ query'[s].status = query[s].status
               /\ users'[s] = users[s]
               /\ replies'[s] = replies[s]
               /\ (s \in cmd_pending') <=> (s \in cmd_pending)
    PROVE  UNCHANGED <<CommandStatus, valid>>
  <1>1. \A s \in Requests : CommandStatus'[s] = CommandStatus[s]
    BY StatusSame
  <1>2. /\ CommandStatus = [s \in Requests |-> CommandStatus[s]]
        /\ CommandStatus' = [s \in Requests |-> CommandStatus'[s]]
    BY DEF CommandStatus
  <1> QED
    BY <1>1, <1>2

\* The clients being resolved become fewer, and the query waits on.
LEMMA GoesOnServes ==
    ASSUME QueryInv, NEW p, p.context \in Requests, QueryGoesOn(p)
    PROVE  UNCHANGED <<CommandStatus, valid>>
  <1>1. query \in [Requests -> QueryType]
    BY Typed
  <1>2. /\ \A s \in Requests : query'[s].status = query[s].status
        /\ UNCHANGED <<users, replies, cmd_pending, valid>>
    BY <1>1 DEF QueryGoesOn, QueryType
  <1> QED
    BY <1>2, SameServes

\* Each step of the server as the callers of commands see it.
LEMMA ServiceStep ==
    ASSUME QueryInv, [Next]_vars
    PROVE  [Service!Next]_<<CommandStatus, valid>>
  <1>1. CASE \E p \in exec.todo : SendRouterReply(p)
    <2>1. PICK p \in exec.todo : SendRouterReply(p)
      BY <1>1
    <2>2. PICK r \in Requests :
              /\ Kind[r] # "invite" /\ replies[r] = 0 /\ users[r] = 1
              /\ query[r].status = "waiting" /\ valid' = valid
              /\ StartsResolving(r) \/ Ends(r)
      BY <2>1, SendRouterReplyCases
    <2>3. CommandStatus[r] = "running"
      BY <2>2, RunningStatus
    <2>4. CASE Ends(r)
      BY <2>2, <2>3, <2>4, EndsServes
    <2>5. CASE StartsResolving(r)
      <3>1. /\ users' = [users EXCEPT ![r] = 1] /\ UNCHANGED <<replies, cmd_pending>>
            /\ query'[r].status = "waiting"
            /\ \A s \in Requests \ {r} : query'[s] = query[s]
        BY <2>5 DEF StartsResolving, Starts
      <3>2. users' = users
        BY <2>2, <3>1, Typed
      <3> QED
        BY <2>2, <3>1, <3>2, SameServes
    <2> QED
      BY <2>2, <2>4, <2>5
  <1>2. CASE \E p \in exec.todo : ResolveReply(p)
    <2>1. PICK p \in exec.todo : ResolveReply(p)
      BY <1>2
    <2>2. CASE Ends(p.context)
      BY <2>1, <2>2, ResolveReplyCases, RunningStatus, EndsServes
    <2>3. CASE ~Ends(p.context)
      BY <2>1, <2>3, ResolveReplyCases, GoesOnServes
    <2> QED
      BY <2>2, <2>3
  <1>3. CASE \E p \in exec.todo : InviteReply(p)
    BY <1>3, InviteReplyCases, RunningStatus, EndsServes
  <1>4. CASE \E r \in Requests : QueryCommand(r)
    <2>1. PICK r \in Requests : QueryCommand(r)
      BY <1>4
    <2>2. /\ Kind[r] # "invite" /\ Begins(r) /\ valid' = valid
          /\ StartsRouter(r) \/ StartsResolving(r) \/ Ends(r)
      BY <2>1, QueryCommandCases
    <2>3. query[r].status = "none" /\ r \notin cmd_pending /\ replies[r] = 0
      BY <2>1, <2>2 DEF QueryCommand, QueryInv, Phases, Phase, QueryPhase, Begins
    <2>4. CommandStatus[r] = "idle" /\ Caller[r] \in valid
      BY <2>2, <2>3 DEF CommandStatus, Begins
    <2> QED
      BY <2>2, <2>4, AcceptServes, EndsServes
  <1>5. CASE \E r \in Requests : Invite(r)
    <2>1. PICK r \in Requests : Invite(r)
      BY <1>5
    <2>2. /\ Kind[r] = "invite" /\ Begins(r) /\ valid' = valid
          /\ r \notin cmd_pending
          /\ Ends(r) \/ InviteWaits(r)
      BY <2>1, InviteCases
    <2>3. query[r].status = "none" /\ replies[r] = 0
      BY <2>2 DEF QueryInv, Phases, Phase, InvitePhase, Begins
    <2>4. CommandStatus[r] = "idle" /\ Caller[r] \in valid
      BY <2>2, <2>3 DEF CommandStatus, Begins
    <2> QED
      BY <2>2, <2>4, AcceptServes, EndsServes
  <1>6. CASE \E c \in Connections : Disconnect(c)
    <2>1. PICK c \in Connections : Disconnect(c)
      BY <1>6
    <2>2. CommandStatus' = CommandStatus
      BY <2>1 DEF Disconnect, CommandStatus
    <2>3. Service!Disconnect(c)
      BY <2>1, <2>2 DEF Disconnect, Service!Disconnect
    <2> QED
      BY <2>3 DEF Service!Next
  <1>7. CASE \/ PendingDel \/ Timeouts \/ UNCHANGED vars
             \/ \E w \in wire : \E t \in w.ids, error \in Errors :
                    WhoisListItem(w, t, error) \/ WhoisReply(w, t, error)
             \/ \E t \in Clients : Announced(t) \/ SignedOff(t) \/ Purge(t)
             \/ \E t, u \in Clients : NickChange(t, u)
    <2>1. UNCHANGED <<query, users, replies, cmd_pending, valid>>
      BY <1>7 DEF PendingDel, Timeouts, PendingTimeout, vars, WhoisListItem,
                  WhoisReply, Announced, SignedOff, Purge, NickChange
    <2> QED
      BY <2>1, SameServes
  <1> QED
    BY <1>1, <1>2, <1>3, <1>4, <1>5, <1>6, <1>7 DEF Next, Callbacks

\* Every command is answered at most once, only to a caller that is there, and
\* given up only without one: the server implements the safety part of
\* CommandService.
THEOREM CommandsServed == Spec => Service!Safe
  <1>1. Init => Service!Init
    BY DEF Init, Service!Init, CommandStatus, NoQuery
  <1>2. QueryInv /\ [Next]_vars => [Service!Next]_<<CommandStatus, valid>>
    BY ServiceStep
  <1>3. [Service!Next]_<<CommandStatus, valid>> => [Service!Next]_Service!vars
    BY DEF Service!vars
  <1> QED
    BY <1>1, <1>2, <1>3, QueryInvariance, PTL DEF Spec, Service!Safe

=============================================================================
